\* Two uids, two stream sessions, one AVSession; AVSession built in.
CONSTANTS
  u1 = u1
  u2 = u2
  s1 = s1
  s2 = s2
  p1 = p1
  av1 = av1
  Uids = {u1, u2}
  Sessions = {s1, s2}
  Pids = {p1}
  AvIds = {av1}
  AV_SESSION_PART_ENABLE = TRUE
  MaxBatch = 2
  MaxCopies = 2
SPECIFICATION Spec
PROPERTY
  PlaybackLossReported
