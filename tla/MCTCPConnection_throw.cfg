CONSTANTS
  MaxConnects = 2
  MaxSends = 0
  MaxPeerFrames = 0
  EagerReconnect = FALSE
SPECIFICATION Spec
INVARIANTS
  ConnectAlwaysBegins
CHECK_DEADLOCK FALSE
