CONSTANTS
  MaxConnects = 2
  MaxCommands = 3
  MaxPushes = 1
  AnyTime = TRUE
SPECIFICATION Spec
INVARIANTS
  CrashOnlyAfterReconnect
  LogonNeverPlain
CHECK_DEADLOCK FALSE
