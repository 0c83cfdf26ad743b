\* No request for a snapshot can be lost: as many places as pools to close.
SPECIFICATION FairSpec
CONSTANTS
  SnapshotLogCount = 2
  QueueCap = 2
  NoSeqID = NoSeqID
  GivenSeqIDs <- EmptySeqIDs
  None = None
  MaxLogs = 5
  Readers = {r1}
  CanCrash = FALSE
  CanFail = FALSE
INVARIANTS
  FreshReaderMissesNothing
PROPERTIES
  ClosedPoolsGetSnapshots
  CallsReturn
