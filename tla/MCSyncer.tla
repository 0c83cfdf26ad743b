------------------------------ MODULE MCSyncer ------------------------------
(***************************************************************************)
(* Values of GivenSeqIDs for the runs of the syncer.                       *)
(***************************************************************************)
EXTENDS SyncerRefinement

\* AppendAddRecordLog, AppendChangeRecordLog and AppendDelRecordLog leave the
\* SeqID empty.
EmptySeqIDs == {NoSeqID}

\* The log of AppendPluginLog is the caller's: its SeqID may be the index that
\* AddRecordLog stamps, here the last one of a pool.
SomeSeqIDs == {NoSeqID, SnapshotLogCount - 1}
=============================================================================
