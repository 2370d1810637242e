SPECIFICATION Spec
CONSTANTS
  Lines = 2
  Batch = 10
INVARIANT GoesOn
CHECK_DEADLOCK FALSE
