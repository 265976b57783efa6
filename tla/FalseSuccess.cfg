CONSTANTS
  read = read
  send = send
  Files <- TwoFiles
  Tools <- TwoTools
  Contents <- AllContents
  Replacements <- Plain
  Arguments <- Paths
  WriteTools <- NameSets
  Missing = Missing
  Truncated = Truncated
  MaxCommands = 2
  MaxWrites = 1
SPECIFICATION ScenarioSpec
INVARIANT TypeOK
INVARIANT FlaggedIfLastCallFails
INVARIANT SummaryAddsUp
INVARIANT ExitVouches
INVARIANT OutputsAgree
CHECK_DEADLOCK FALSE
