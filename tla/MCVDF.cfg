CONSTANTS
  MaxItems = 4
  MaxTextItems = 4
SPECIFICATION MCSpec
INVARIANTS
  TypeOK
  InBounds
  NestingBounded
  Decodes
  TextInStorage
  TextDecodes
PROPERTIES
  Terminates
CHECK_DEADLOCK FALSE
