SPECIFICATION Spec
CONSTANTS
  Server = {s1, s2, s3}
  Boot = s1
  Client = {c1}
  Nil = Nil
  k1 = k1
  v1 = v1
  v2 = v2
  Key = {k1}
  Value = {v1, v2}
  Absent = Absent
  Empty = Empty
  Ordered = FALSE
  Workload <- Sets
  MaxCmd = 2
  MaxTimeout = 0
  MaxBeat = 1
  MaxLoss = 1
  MaxCrash = 1
  MaxLog = 9
SYMMETRY Followers
INVARIANTS
  AckedOnMajority
CHECK_DEADLOCK FALSE
