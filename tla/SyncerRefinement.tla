-------------------------- MODULE SyncerRefinement --------------------------
(***************************************************************************)
(* The syncer implements AppendLog: its log is the concatenation of the    *)
(* pool files, committed up to the saved cursor.                           *)
(***************************************************************************)
EXTENDS Syncer

\* How many logs the pools hold, the last of which is the one of the next slot.
Total ==
  LET s == NextSlot(kv)
  IN  s.pool * SnapshotLogCount + Len(PoolLogs(s.pool))

\* Their bodies, in the order of the sequence numbers.
WholeLog == [n \in 1..Total |-> LogAt(n - 1).body]

Abstract == INSTANCE AppendLog WITH
  Body <- 1..MaxLogs,
  log <- WholeLog,
  committed <- Pos(kv)

(* Every step of the syncer, restarts and failures included, is a write, a  *)
(* commit or no step of the one append-only log.                            *)
ImplementsAppendLog == Abstract!Spec
=============================================================================
