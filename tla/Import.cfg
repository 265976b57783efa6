CONSTANTS
  NFiles = 2
  Words <- WordSet
  Lines <- AllLines
  Targets = {0, 1, 2}
  None = None
  Torn = Torn
  MaxLines = 4
  MaxImports = 2
SPECIFICATION ScenarioSpec
INVARIANT TypeOK
INVARIANT EveryCandidateDrafted
INVARIANT IdsUnique
INVARIANT DraftsConform
PROPERTY DraftsKeepTheirIds
PROPERTY ImportsEnd
CHECK_DEADLOCK FALSE
