CONSTANTS
  a = a
  b = b
  s1 = s1
  s2 = s2
  p1 = p1
  p2 = p2
  Ids <- TwoIds
  Suites <- TwoSuites
  Paths <- TwoPaths
  Contents <- AllContents
  Arguments <- Attempts
  Missing = Missing
  Truncated = Truncated
  MaxCommands = 2
  MaxWrites = 1
SPECIFICATION Spec
INVARIANT TypeOK
INVARIANT ScoresOrdered
INVARIANT UnstableCasesExplained
INVARIANT OmissionNeverImproves
INVARIANT OutcomesJustified
INVARIANT OutputsAgree
CHECK_DEADLOCK FALSE
