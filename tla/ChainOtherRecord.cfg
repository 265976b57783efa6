CONSTANTS
  NFiles = 2
  RunIds = {"r1", "r2"}
  ActiveRuns = {"r1", "r2"}
  Lines <- DirLines
  Records <- DirRecords
  Commands <- DirCommands
  None = None
  Absent = Absent
  Broken = Broken
  Garbled = Garbled
  BadRef = BadRef
  Concurrent = FALSE
  MaxLines = 1
  MaxRuns = 1
SPECIFICATION Spec
INVARIANT SameRecordReloaded
