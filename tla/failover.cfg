SPECIFICATION Spec
CONSTANTS
  Server = {s1, s2, s3}
  Boot = s1
  Client = {c1}
  Nil = Nil
  k1 = k1
  v1 = v1
  v2 = v2
  Key = {k1}
  Value = {v1, v2}
  Absent = Absent
  Empty = Empty
  Ordered = TRUE
  Workload <- Sets
  MaxCmd = 2
  MaxTimeout = 1
  MaxBeat = 1
  MaxLoss = 0
  MaxCrash = 0
  MaxLog = 9
SYMMETRY Followers
INVARIANTS
  WrittenFirst
CHECK_DEADLOCK FALSE
