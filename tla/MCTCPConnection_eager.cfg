CONSTANTS
  MaxConnects = 2
  MaxSends = 2
  MaxPeerFrames = 2
  EagerReconnect = TRUE
SPECIFICATION Spec
INVARIANTS
  OneWriter
  WrittenInTurn
  ConnectedHasReader
  ConnectingInProgress
CHECK_DEADLOCK FALSE
