CONSTANTS
  NFiles = 1
  RunIds = {"r1", "r2"}
  ActiveRuns = {"r1"}
  Lines <- FileLines
  Records <- FileRecords
  Commands <- FileCommands
  None = None
  Absent = Absent
  Broken = Broken
  Garbled = Garbled
  BadRef = BadRef
  Concurrent = FALSE
  MaxLines = 2
  MaxRuns = 1
SPECIFICATION FairSpec
INVARIANT TypeOK
INVARIANT OkVouchesForPacket
PROPERTY KeepsPromise
