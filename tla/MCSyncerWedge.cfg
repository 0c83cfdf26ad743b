\* Logs as the Append calls make them, with restarts.
SPECIFICATION Spec
CONSTANTS
  SnapshotLogCount = 2
  QueueCap = 1
  NoSeqID = NoSeqID
  GivenSeqIDs <- EmptySeqIDs
  None = None
  MaxLogs = 3
  Readers = {}
  CanCrash = TRUE
  CanFail = FALSE
INVARIANTS
  NoRejectedIndex
