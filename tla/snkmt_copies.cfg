SPECIFICATION Spec
CONSTANTS
  MaxVersion = 3
  MaxFiles = 3
INVARIANTS
  TypeOK
  BakIsRemoved
PROPERTIES
  ReadersAdvance
  CountsAdvance
CHECK_DEADLOCK FALSE
