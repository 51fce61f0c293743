CONSTANTS
  P2PDataSize = 3
  StrayByte = {0}
  CopyElision = FALSE
SPECIFICATION MCSpec
INVARIANT ResponseCarriesKey
CHECK_DEADLOCK FALSE
