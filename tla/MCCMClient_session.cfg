CONSTANTS
  MaxConnects = 1
  MaxCommands = 3
  MaxPushes = 1
  AnyTime = FALSE
SPECIFICATION FairSpec
INVARIANTS
  TypeOK
  SecuredAgreed
  CipherInSync
  InOrderDispatch
PROPERTIES
  HandshakeConcludes
  LogonAnswered
CHECK_DEADLOCK FALSE
