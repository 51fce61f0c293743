CONSTANTS
  MaxConnects = 2
  MaxCommands = 2
  MaxPushes = 0
  AnyTime = FALSE
SPECIFICATION Spec
INVARIANTS
  SecuredAgreed
CHECK_DEADLOCK FALSE
