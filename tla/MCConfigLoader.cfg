SPECIFICATION Spec
CONSTANTS
  Files <- MCFiles
  ReadSize = 3
  LineSize = 7
INVARIANTS
  ConfigTypeOK
  LoadsEveryLine
CHECK_DEADLOCK FALSE
