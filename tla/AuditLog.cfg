CONSTANTS
  w1 = w1
  w2 = w2
  p1 = p1
  p2 = p2
  schema = schema
  other = other
  Writers <- TwoWriters
  Paths <- TwoPaths
  Stages <- OneStage
  PerSecond = 2
  Starts <- UtcStarts
  TopN = 1
  None = None
  Junk = Junk
  Garbled = Garbled
  Others <- OtherNames
  Edits <- HandLines
  MaxTime = 2
  MaxTexts = 4
SPECIFICATION ScenarioSpec
INVARIANT TypeOK
INVARIANT LossBounded
INVARIANT SummaryAddsUp
INVARIANT WindowSpans
PROPERTY SummariesOnlyGrow
CHECK_DEADLOCK FALSE
