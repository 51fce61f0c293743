CONSTANTS
  MaxConnects = 2
  MaxSends = 2
  MaxPeerFrames = 1
  EagerReconnect = FALSE
SPECIFICATION Spec
INVARIANTS
  QueuedIsBeingWritten
CHECK_DEADLOCK FALSE
