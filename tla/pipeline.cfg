SPECIFICATION FairSpec
CONSTANTS
  Conn = {c1, c2, c3}
  NoConn = NoConn
  Batch = 2
INVARIANTS
  TypeOK
  NeverEmptyHanded
  NoLostWakeup
  CountNeverNegative
  InOrder
  DescriptorsInUse
PROPERTY ChannelSpec
CHECK_DEADLOCK FALSE
