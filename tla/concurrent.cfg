SPECIFICATION Spec
CONSTANTS
  Server = {s1, s2, s3}
  Boot = s1
  Client = {c1, c2}
  Nil = Nil
  k1 = k1
  v1 = v1
  v2 = v2
  Key = {k1}
  Value = {v1, v2}
  Absent = Absent
  Empty = Empty
  Ordered = FALSE
  Workload <- SetGet
  MaxCmd = 3
  MaxTimeout = 0
  MaxBeat = 0
  MaxLoss = 0
  MaxCrash = 0
  MaxLog = 2
SYMMETRY Followers
INVARIANTS
  Readable
CHECK_DEADLOCK FALSE
