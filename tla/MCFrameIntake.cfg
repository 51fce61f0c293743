CONSTANTS
  P2PDataSize = 3
  StrayByte = {0, 1, 5, 23, 128}
  CopyElision = TRUE
SPECIFICATION MCSpec
INVARIANTS
  TypeOK
  DispatchedAsSent
  HandshakeConcluded
CHECK_DEADLOCK FALSE
