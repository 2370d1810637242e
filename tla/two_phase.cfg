SPECIFICATION FairSpec
CONSTANTS
  Server = {s1, s2, s3}
  Boot = s1
  Client = {c1}
  Nil = Nil
  k1 = k1
  v1 = v1
  v2 = v2
  Key = {k1}
  Value = {v1, v2}
  Absent = Absent
  Empty = Empty
  Ordered = TRUE
  Workload <- SetsGet
  MaxCmd = 3
  MaxTimeout = 0
  MaxBeat = 2
  MaxLoss = 0
  MaxCrash = 0
  MaxLog = 9
INVARIANTS
  TypeOK
  AckedEverywhere
  PreparedFirst
  NoHole
  NeverTerminated
PROPERTIES
  KVSpec
  EventuallyAnswered
CHECK_DEADLOCK FALSE
