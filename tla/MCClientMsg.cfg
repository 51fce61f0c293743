CONSTANTS
  P2PDataSize = 3
  Programs <- AllPrograms
  PayloadData <- MCPayloadData
  MaxPayload = 1
SPECIFICATION MCSpec
INVARIANTS
  TypeOK
  ReadBack
  PayloadFollowsBody
CHECK_DEADLOCK FALSE
