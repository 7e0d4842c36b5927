--------------------------- MODULE MC_AudioDetect ---------------------------
EXTENDS AudioDetect
CONSTANTS u1, u2, s1, s2, p1, av1
====
