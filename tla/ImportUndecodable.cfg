CONSTANTS
  NFiles = 1
  Words <- WordSet
  Lines <- AnyLines
  Targets = {1}
  None = None
  Torn = Torn
  MaxLines = 2
  MaxImports = 1
SPECIFICATION Spec
INVARIANT MalformedLinesSkipped
CHECK_DEADLOCK FALSE
