CONSTANTS
  traceT = traceT
  traceU = traceU
  traceV = traceV
  c1 = c1
  c2 = c2
  answer = answer
  sorry = sorry
  span = span
  read = read
  completed = completed
  sent = sent
  deleted = deleted
  Names <- ThreeNames
  CaseIds <- TwoCaseIds
  Texts <- AllTexts
  Contents <- FileContents
  EvalFiles <- SomeEvalFiles
  None = None
  Missing = Missing
  Truncated = Truncated
  MaxRuns = 2
  MaxWrites = 1
SPECIFICATION Spec
INVARIANT TypeOK
INVARIANT VerdictsBacked
INVARIANT FailsForAReason
INVARIANT ReportOfLastWholeRun
CHECK_DEADLOCK FALSE
