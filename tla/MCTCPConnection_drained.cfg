CONSTANTS
  MaxConnects = 3
  MaxSends = 2
  MaxPeerFrames = 2
  EagerReconnect = FALSE
SPECIFICATION FairSpec
INVARIANTS
  TypeOK
  SingleReadChain
  PrefixDelivered
  WrittenToOwnConnection
  AtMostOneLateFrame
  NoLeakedSocket
PROPERTIES
  LifecycleOrder
  ImplementsFrameLink
  ConnectResolves
  ClosedDrains
  BreakIsNoticed
  QueueDrains
CHECK_DEADLOCK FALSE
