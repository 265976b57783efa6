CONSTANTS
  NFiles = 2
  RunIds = {"r1", "r2"}
  ActiveRuns = {"r1", "r2"}
  Lines <- BusyOrDirLines
  Records <- BusyOrDirRecords
  Commands <- BusyOrDirCommands
  None = None
  Absent = Absent
  Broken = Broken
  Garbled = Garbled
  BadRef = BadRef
  Concurrent = TRUE
  MaxLines = 2
  MaxRuns = 2
SPECIFICATION ScenarioSpec
INVARIANT SnapshotsOrdered
INVARIANT ReplayHashesAgree
INVARIANT RunIdentity
 
INVARIANT BadPacketOnlyAfterFailure
INVARIANT HashedLedgerWasValidated
