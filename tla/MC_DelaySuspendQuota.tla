------------------------ MODULE MC_DelaySuspendQuota ------------------------
EXTENDS DelaySuspendQuota
====
