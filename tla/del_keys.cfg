SPECIFICATION Spec
CONSTANTS
  k1 = k1
  k2 = k2
  v1 = v1
  v2 = v2
  Key = {k1, k2}
  Value = {v1, v2}
  Absent = Absent
  Empty = Empty
  MaxLog = 3
  Workload <- Commands
  MaxCalls = 4
PROPERTY DelErasesItsKeys
CHECK_DEADLOCK FALSE
