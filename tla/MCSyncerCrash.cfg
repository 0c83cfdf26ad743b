\* Restarts at any step, I/O errors, a reader beside the appends.
SPECIFICATION Spec
CONSTANTS
  SnapshotLogCount = 2
  QueueCap = 1
  NoSeqID = NoSeqID
  GivenSeqIDs <- SomeSeqIDs
  None = None
  MaxLogs = 5
  Readers = {r1}
  CanCrash = TRUE
  CanFail = TRUE
INVARIANTS
  TypeOK
  PoolsDense
  AckedDurable
  ReadExact
PROPERTIES
  AppendOnly
  ImplementsAppendLog
