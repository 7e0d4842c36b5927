\* One uid, two stream sessions, one AVSession, AVSession built in; a restore
\* may leave up to two copies of an entry.
CONSTANTS
  u1 = u1
  u2 = u2
  s1 = s1
  s2 = s2
  p1 = p1
  av1 = av1
  Uids = {u1}
  Sessions = {s1, s2}
  Pids = {p1}
  AvIds = {av1}
  AV_SESSION_PART_ENABLE = TRUE
  MaxBatch = 2
  MaxCopies = 2
SPECIFICATION Spec
INVARIANTS
  TypeOK
  ReportsSound
PROPERTIES
  RecordingLossReported
