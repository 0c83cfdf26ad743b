---------------------------- MODULE SyncerProofs ----------------------------
(***************************************************************************)
(* Proofs about the syncer, for every pool size (0 included), queue        *)
(* capacity, number of logs and set of readers, with and without restarts  *)
(* and I/O errors.                                                         *)
(***************************************************************************)
EXTENDS SyncerRefinement, SequenceTheorems, TLAPS

USE DEF Slot, Log, Interrupted, Stages

-----------------------------------------------------------------------------
(* Lemmas about the helpers.                                                *)

(* Reading a pool, present or not, gives a sequence of logs.                *)
LEMMA PoolLogsType ==
  ASSUME AppendTypeOK, NEW k
  PROVE  PoolLogs(k) \in Seq(Log)
<1>1. <<>> \in Seq(Log) BY EmptySeq
<1> QED BY <1>1 DEF AppendTypeOK, PoolLogs

(* The slot for the next log is a slot.                                     *)
LEMMA NextSlotType ==
  ASSUME NEW c \in Slot
  PROVE  NextSlot(c) \in Slot
BY SyncerAssumption DEF NextSlot

(* The slot after a slot is a slot, in the same pool.                       *)
LEMMA AfterType ==
  ASSUME NEW s \in Slot
  PROVE  After(s) \in Slot /\ After(s).pool = s.pool /\ After(s).id = s.id + 1
BY DEF After

(* Taking bodies keeps the length.                                          *)
LEMMA BodiesType ==
  ASSUME NEW logs \in Seq(Log)
  PROVE  Bodies(logs) \in Seq(Nat)
<1>1. ASSUME NEW i \in 1..Len(logs) PROVE logs[i].body \in Nat
  <2>1. logs[i] \in Log
    <3> HIDE DEF Log
    <3> QED BY <1>1, ElementOfSeq
  <2> QED BY <2>1
<1>2. Len(logs) \in Nat BY LenProperties
<1> QED BY <1>1, <1>2 DEF Bodies

(* Changing pools keeps the queue within its capacity.                      *)
LEMMA MustLogPoolType ==
  ASSUME AppendTypeOK, NEW k \in Nat, MustLogPool(k)
  PROVE  openPool' \in Nat /\ queue' \in Seq(Nat) /\ Len(queue') <= QueueCap
<1>1. CASE queue' = queue
  BY <1>1 DEF AppendTypeOK, MustLogPool
<1>2. CASE queue' = Append(queue, openPool) /\ Len(queue) < QueueCap
  BY <1>2, SyncerAssumption DEF AppendTypeOK, MustLogPool
<1> QED BY <1>1, <1>2 DEF MustLogPool

(* A sequence number splits into a pool and an index.                       *)
LEMMA SplitType ==
  ASSUME NEW n \in Nat
  PROVE  PoolOf(n) \in Nat /\ IdOf(n) \in Nat
BY SyncerAssumption DEF PoolOf, IdOf

(* The position of a slot is a number.                                      *)
LEMMA PosType ==
  ASSUME NEW s \in Slot
  PROVE  Pos(s) \in Nat
<1>1. s.pool * SnapshotLogCount \in Nat
  BY SyncerAssumption
<1> QED BY <1>1 DEF Pos

-----------------------------------------------------------------------------
(* An append past PreLog has a log and a slot. *)
PendingOK == stage \in {"prelogged", "added", "saved"} => pending \in Interrupted

(* One step of an append keeps the types of what appends touch.             *)
LEMMA AppendTypes ==
  ASSUME AppendTypeOK, PendingOK, AppendStep
  PROVE  AppendTypeOK' /\ PendingOK'
<1> USE DEF AppendTypeOK, PendingOK, AfterLog
<1>1. CASE BeginAppend BY <1>1 DEF BeginAppend, disk
<1>2. CASE RecoverNothing BY <1>2 DEF RecoverNothing, disk
<1>3. CASE RecoverOtherPool BY <1>3 DEF RecoverOtherPool
<1>4. CASE RecoverDiscard
  <2>1. recover.slot.pool \in Nat BY <1>4 DEF RecoverDiscard
  <2> QED BY <1>4, <2>1, MustLogPoolType DEF RecoverDiscard
<1>5. CASE RecoverCommit
  <2>1. recover.slot \in Slot /\ recover.slot.pool \in Nat BY <1>5 DEF RecoverCommit
  <2> QED BY <1>5, <2>1, MustLogPoolType, AfterType DEF RecoverCommit, SavePoolIndex
<1>6. CASE RecoverClear BY <1>6 DEF RecoverClear
<1>7. CASE RecoverFail
  <2>1. CASE UNCHANGED <<openPool, queue>> BY <1>7, <2>1 DEF RecoverFail, disk
  <2>2. CASE recover # None /\ MustLogPool(recover.slot.pool)
    <3>1. recover.slot.pool \in Nat BY <2>2
    <3> QED BY <1>7, <2>2, <3>1, MustLogPoolType DEF RecoverFail, disk
  <2> QED BY <1>7, <2>1, <2>2 DEF RecoverFail
<1>8. CASE CallbackError BY <1>8 DEF CallbackError, disk
<1>9. ASSUME NEW seqID \in GivenSeqIDs, PreLog(seqID) PROVE AppendTypeOK' /\ PendingOK'
  <2> DEFINE new == [log |-> [body |-> issued + 1, seqID |-> seqID],
                     slot |-> NextSlot(cursor)]
  <2>1. new \in Interrupted BY <1>9, NextSlotType, SyncerAssumption
  <2>2. new.slot.pool \in Nat BY <2>1
  <2>3. MustLogPool(new.slot.pool) BY <1>9 DEF PreLog
  <2>4. openPool' \in Nat /\ queue' \in Seq(Nat) /\ Len(queue') <= QueueCap
    BY <2>2, <2>3, MustLogPoolType
  <2>5. recover' \in Interrupted \cup {None} /\ pending' \in Interrupted \cup {None}
        /\ stage' \in Stages /\ PendingOK'
    BY <1>9, <2>1 DEF PreLog
  <2>6. UNCHANGED <<kv, pools, cursor, acked, rejected>> /\ issued' = issued + 1
    BY <1>9 DEF PreLog
  <2> HIDE DEF new
  <2>7. issued' \in Nat BY <2>6
  <2> QED BY <2>4, <2>5, <2>6, <2>7
<1>10. CASE AddRecordLog
  <2> DEFINE s == pending.slot
             l == [pending.log EXCEPT !.seqID = s.id]
  <2>1. pending \in Interrupted BY <1>10 DEF AddRecordLog
  <2>2. l \in Log /\ s \in Slot BY <2>1
  <2>3. Append(PoolLogs(s.pool), l) \in Seq(Log)
    <3>1. PoolLogs(s.pool) \in Seq(Log) BY PoolLogsType
    <3> HIDE DEF Log, l
    <3> QED BY <2>2, <3>1, AppendProperties
  <2>4. DOMAIN pools' \subseteq Nat /\ \A k \in DOMAIN pools' : pools'[k] \in Seq(Log)
    BY <1>10, <2>2, <2>3 DEF AddRecordLog, Put
  <2> QED BY <1>10, <2>4 DEF AddRecordLog
<1>11. CASE AddRecordLogError BY <1>11 DEF AddRecordLogError
<1>12. CASE SaveIndex
  <2>1. pending.slot \in Slot BY <1>12 DEF SaveIndex
  <2> QED BY <1>12, <2>1, AfterType DEF SaveIndex, SavePoolIndex
<1>13. CASE EndAppend
  <2>1. [slot |-> pending.slot, body |-> pending.log.body] \in [slot : Slot, body : Nat]
    BY <1>13 DEF EndAppend
  <2> QED BY <1>13, <2>1 DEF EndAppend
<1> QED
  BY <1>1, <1>2, <1>3, <1>4, <1>5, <1>6, <1>7, <1>8, <1>9, <1>10, <1>11,
     <1>12, <1>13 DEF AppendStep

(* The snapshot routine keeps the types of what it writes.                  *)
LEMMA BuildTypes ==
  ASSUME AppendTypeOK, SnapshotTypeOK, BuildStep
  PROVE  SnapshotTypeOK' /\ queue' \in Seq(Nat) /\ Len(queue') <= QueueCap
<1> USE DEF SnapshotTypeOK, IdleBuilder
<1>0. queue \in Seq(Nat) /\ Len(queue) <= QueueCap BY DEF AppendTypeOK
<1>e. <<>> \in Seq(Nat) BY EmptySeq
<1>1. CASE BuildTake
  <2>1. Head(queue) \in Nat /\ Tail(queue) \in Seq(Nat) /\ Len(Tail(queue)) = Len(queue) - 1
    BY <1>0, <1>1, HeadTailProperties DEF BuildTake
  <2>2. Len(queue) \in Nat BY <1>0, LenProperties
  <2>3. queue' = Tail(queue) /\ snaps' = snaps BY <1>1 DEF BuildTake, disk
  <2>4. Len(queue') <= QueueCap BY <1>0, <2>1, <2>2, <2>3, SyncerAssumption
  <2>5. builder' \in [pc : {"idle", "build", "store"}, pool : Nat, content : Seq(Nat)]
    BY <1>1, <2>1 DEF BuildTake
  <2> QED BY <2>1, <2>3, <2>4, <2>5
<1>2. CASE BuildSkip BY <1>0, <1>e, <1>2 DEF BuildSkip, disk
<1>3. CASE BuildApply
  <2> DEFINE k    == builder.pool
             base == IF LastSnapshot(k) = None THEN <<>> ELSE LastSnapshot(k)
  <2>1. base \in Seq(Nat) BY <1>e, <1>3 DEF LastSnapshot
  <2>2. Bodies(PoolLogs(k)) \in Seq(Nat) BY PoolLogsType, BodiesType
  <2>3. base \o Bodies(PoolLogs(k)) \in Seq(Nat) BY <2>1, <2>2, ConcatProperties
  <2>4. builder' = [pc |-> "store", pool |-> k, content |-> base \o Bodies(PoolLogs(k))]
    BY <1>3 DEF BuildApply
  <2>5. UNCHANGED <<snaps, queue>> BY <1>3 DEF BuildApply, disk
  <2>6. k \in Nat OBVIOUS
  <2> HIDE DEF base, k
  <2> QED BY <1>0, <2>3, <2>4, <2>5, <2>6
<1>4. CASE BuildStore BY <1>0, <1>e, <1>4 DEF BuildStore, Put
<1> QED BY <1>1, <1>2, <1>3, <1>4 DEF BuildStep

(* A reader keeps the type of its call.                                     *)
LEMMA ReadTypes ==
  ASSUME TypeOK, NEW r \in Readers, ReadStep(r)
  PROVE  rd' \in [Readers -> Call]
<1> USE DEF TypeOK, Call, IdleCall
<1>e. <<>> \in Seq([seqID : Nat, body : Nat]) BY EmptySeq
<1>1. ASSUME NEW from \in 0..MaxLogs, ReadBegin(r, from) PROVE rd' \in [Readers -> Call]
  <2>0. from \in Nat BY SyncerAssumption
  <2>1. PoolOf(from) \in Nat /\ IdOf(from) \in Nat BY <2>0, SplitType
  <2>2. NextSlot(cursor) \in Slot /\ Pos(kv) \in Nat
    BY NextSlotType, PosType DEF AppendTypeOK
  <2> DEFINE next == NextSlot(cursor)
             last == IF next.id = 0 /\ next.pool > 0 THEN next.pool - 1 ELSE next.pool
             call == [IdleCall EXCEPT
                       !.pc    = IF next.pool = 0 /\ next.id = 0 THEN "done"
                                 ELSE IF from = 0 /\ last > 0 THEN "snapshot"
                                 ELSE "pools",
                       !.from  = from,
                       !.floor = Pos(kv),
                       !.last  = last,
                       !.pool  = PoolOf(from),
                       !.idx   = IdOf(from)]
  <2>3. last \in Nat BY <2>2
  <2>4. call \in Call
    <3> HIDE DEF last, next
    <3> QED BY <1>e, <2>0, <2>1, <2>2, <2>3
  <2>5. rd' = [rd EXCEPT ![r] = call] BY <1>1 DEF ReadBegin
  <2> HIDE DEF call, Call
  <2> QED BY <2>4, <2>5
<1>2. CASE ReadSnapshot(r)
  <2>0. rd[r] \in Call OBVIOUS
  <2>1. LastSnapshot(rd[r].last) \in Seq(Nat) \cup {None}
    BY DEF LastSnapshot, SnapshotTypeOK
  <2>2. PICK call \in Call : rd' = [rd EXCEPT ![r] = call]
    <3>1. CASE rd' = [rd EXCEPT ![r].pc = "failed"]
      <4>1. [rd[r] EXCEPT !.pc = "failed"] \in Call BY <2>0
      <4> QED BY <3>1, <4>1
    <3>2. CASE rd' # [rd EXCEPT ![r].pc = "failed"] /\ LastSnapshot(rd[r].last) = None
      <4>1. [rd[r] EXCEPT !.pc = "pools"] \in Call BY <2>0
      <4> QED BY <1>2, <3>2, <4>1 DEF ReadSnapshot
    <3>3. CASE rd' # [rd EXCEPT ![r].pc = "failed"] /\ LastSnapshot(rd[r].last) # None
      <4>1. [rd[r] EXCEPT !.pc = "pools", !.pool = rd[r].last,
                          !.snap = LastSnapshot(rd[r].last)] \in Call
        BY <2>0, <2>1
      <4> QED BY <1>2, <3>3, <4>1 DEF ReadSnapshot
    <3> QED BY <3>1, <3>2, <3>3
  <2> HIDE DEF Call
  <2> QED BY <2>2
<1>3. CASE ReadPool(r)
  <2> DEFINE c    == rd[r]
             logs == RecordLogs(c.pool, c.idx)
             new  == [i \in 1..Len(logs) |->
                       [seqID |-> c.pool * SnapshotLogCount + c.idx + (i - 1),
                        body  |-> logs[i].body]]
  <2>1. c \in Call BY DEF Call
  <2>2. logs \in Seq(Log)
    <3>1. PoolLogs(c.pool) \in Seq(Log) BY PoolLogsType
    <3>2. Len(PoolLogs(c.pool)) \in Nat BY <3>1, LenProperties
    <3>3. \A i \in (c.idx + 1)..Len(PoolLogs(c.pool)) : PoolLogs(c.pool)[i] \in Log
      <4> HIDE DEF Log
      <4> QED BY <2>1, <3>1, <3>2, ElementOfSeq
    <3> HIDE DEF Log
    <3> QED BY <2>1, <3>1, <3>2, <3>3, SubSeqProperties DEF RecordLogs
  <2>3. new \in Seq([seqID : Nat, body : Nat])
    <3>1. Len(logs) \in Nat BY <2>2, LenProperties
    <3>2. ASSUME NEW i \in 1..Len(logs)
          PROVE  [seqID |-> c.pool * SnapshotLogCount + c.idx + (i - 1),
                  body  |-> logs[i].body] \in [seqID : Nat, body : Nat]
      <4>1. logs[i] \in Log
        <5> HIDE DEF Log, logs
        <5> QED BY <2>2, ElementOfSeq
      <4>2. c.pool * SnapshotLogCount \in Nat BY <2>1, SyncerAssumption
      <4> QED BY <2>1, <4>1, <4>2
    <3> HIDE DEF logs
    <3> QED BY <3>1, <3>2
  <2>4. c.out \o new \in Seq([seqID : Nat, body : Nat])
    BY <2>1, <2>3, ConcatProperties
  <2> HIDE DEF new
  <2>5. rd' = [rd EXCEPT ![r] =
                 IF c.pool < c.last
                 THEN [c EXCEPT !.out = c.out \o new, !.pool = c.pool + 1, !.idx = 0]
                 ELSE [c EXCEPT !.out = c.out \o new, !.pc = "done"]]
    BY <1>3 DEF ReadPool, new
  <2> HIDE DEF c
  <2>6. [c EXCEPT !.out = c.out \o new, !.pool = c.pool + 1, !.idx = 0] \in Call
    <3> DEFINE longer == c.out \o new
    <3>1. longer \in Seq([seqID : Nat, body : Nat]) BY <2>4
    <3>2. c.pool + 1 \in Nat BY <2>1
    <3> HIDE DEF longer
    <3>3. [c EXCEPT !.out = longer, !.pool = c.pool + 1, !.idx = 0] \in Call
      BY <2>1, <3>1, <3>2
    <3> QED BY <3>3 DEF longer
  <2>7. [c EXCEPT !.out = c.out \o new, !.pc = "done"] \in Call
    BY <2>1, <2>4
  <2> HIDE DEF Call
  <2> USE DEF c
  <2> QED BY <2>5, <2>6, <2>7
<1> QED BY <1>1, <1>2, <1>3 DEF ReadStep

-----------------------------------------------------------------------------
(* The inductive invariant: memory follows the saved cursor, the files are  *)
(* dense, and what an append has done so far is in them.                    *)
CursorOK ==
  /\ cursor = kv
  /\ SnapshotLogCount = 0 => kv.pool = 0
  /\ SnapshotLogCount > 0 => kv.id <= SnapshotLogCount

\* The log i is in its slot.
InPlace(i) ==
  /\ i.slot.id < Len(PoolLogs(i.slot.pool))
  /\ PoolLogs(i.slot.pool)[i.slot.id + 1].body = i.log.body

StageOK ==
  /\ stage \in {"prelogged", "added"} => pending.slot = NextSlot(kv)
  /\ stage \in {"added", "saved"} => InPlace(pending)
  /\ stage = "saved" => kv = After(pending.slot)

IInv == TypeOK /\ PendingOK /\ CursorOK /\ PoolsDense /\ StageOK /\ AckedDurable

(* A step that leaves files, cursor and acknowledgements alone.             *)
LEMMA Frame ==
  ASSUME CursorOK, PoolsDense, AckedDurable, UNCHANGED <<kv, pools, cursor, acked>>
  PROVE  CursorOK' /\ PoolsDense' /\ AckedDurable'
<1>1. \A k : PoolLogs(k)' = PoolLogs(k) BY DEF PoolLogs
<1>2. NextSlot(kv)' = NextSlot(kv) BY DEF NextSlot
<1> QED BY <1>1, <1>2 DEF CursorOK, PoolsDense, AckedDurable

(* Moving the cursor past a log that is in the next slot.                   *)
LEMMA Advance ==
  ASSUME AppendTypeOK, CursorOK, PoolsDense, AckedDurable,
         NextSlot(kv).id < Len(PoolLogs(NextSlot(kv).pool)),
         SavePoolIndex(After(NextSlot(kv))), UNCHANGED <<pools, acked>>
  PROVE  CursorOK' /\ PoolsDense' /\ AckedDurable'
<1> DEFINE s == NextSlot(kv)
           t == NextSlot(kv)'
<1>1. s \in Slot /\ kv \in Slot BY NextSlotType DEF AppendTypeOK
<1>2. kv' = After(s) /\ cursor' = After(s) BY DEF SavePoolIndex
<1>3. After(s) \in Slot /\ After(s).pool = s.pool /\ After(s).id = s.id + 1
  BY <1>1, AfterType
<1>4. SnapshotLogCount = 0 => s.pool = 0 BY DEF NextSlot
<1>5. SnapshotLogCount > 0 => s.id < SnapshotLogCount
  BY SyncerAssumption, <1>1 DEF NextSlot
<1>6. CursorOK' BY <1>1, <1>2, <1>3, <1>4, <1>5, SyncerAssumption DEF CursorOK
<1>7. \A k : PoolLogs(k)' = PoolLogs(k) BY DEF PoolLogs
<1>8. Len(PoolLogs(s.pool)) = s.id + 1 BY <1>1 DEF PoolsDense
<1>9. PoolsDense'
  <2>1. CASE SnapshotLogCount = 0 \/ s.id + 1 < SnapshotLogCount
    <3>1. t = After(s) BY <1>1, <1>2, <1>3, <1>4, <2>1, SyncerAssumption DEF NextSlot, After
    <3> QED BY <1>1, <1>3, <1>7, <1>8, <3>1 DEF PoolsDense
  <2>2. CASE SnapshotLogCount > 0 /\ s.id + 1 >= SnapshotLogCount
    <3>1. t = [pool |-> s.pool + 1, id |-> 0] /\ s.id + 1 = SnapshotLogCount
      BY <1>1, <1>2, <1>3, <1>5, <2>2, SyncerAssumption DEF NextSlot
    <3>2. \A k \in 0..s.pool : Len(PoolLogs(k)) = SnapshotLogCount
      BY <1>1, <1>8, <3>1 DEF PoolsDense
    <3>3. PoolLogs(s.pool + 1) = <<>> BY <1>1 DEF PoolsDense, PoolLogs
    <3>4. \A k \in DOMAIN pools : k > s.pool + 1 => pools[k] = <<>>
      BY <1>1 DEF PoolsDense, AppendTypeOK
    <3> QED BY <1>1, <1>7, <3>1, <3>2, <3>3, <3>4 DEF PoolsDense
  <2> QED BY <1>1, <2>1, <2>2, SyncerAssumption
<1>10. AckedDurable'
  <2>1. kv.pool <= s.pool /\ (kv.pool = s.pool => kv.id = s.id)
    BY <1>1, SyncerAssumption DEF NextSlot, CursorOK
  <2>2. ASSUME NEW a \in acked
        PROVE  a.slot.pool < kv'.pool \/ (a.slot.pool = kv'.pool /\ a.slot.id < kv'.id)
    <3>1. a.slot \in Slot BY DEF AppendTypeOK
    <3>2. a.slot.pool < kv.pool \/ (a.slot.pool = kv.pool /\ a.slot.id < kv.id)
      BY DEF AckedDurable
    <3> QED BY <1>1, <1>2, <1>3, <2>1, <3>1, <3>2
  <2> QED BY <1>7, <2>2 DEF AckedDurable
<1> QED BY <1>6, <1>9, <1>10

(* AddRecordLog puts the log in its slot and leaves every other slot alone. *)
LEMMA AddEffect ==
  ASSUME AppendTypeOK, PendingOK, StageOK, AddRecordLog
  PROVE  LET s == NextSlot(kv)
         IN  /\ s \in Slot /\ pending.slot = s
             /\ Len(PoolLogs(s.pool)) = s.id
             /\ \A k : k # s.pool => PoolLogs(k)' = PoolLogs(k)
             /\ \A k : k = s.pool =>
                  /\ Len(PoolLogs(k)') = s.id + 1
                  /\ \A i \in 1..s.id : PoolLogs(k)'[i] = PoolLogs(k)[i]
                  /\ PoolLogs(k)'[s.id + 1].body = pending.log.body
<1> DEFINE s == NextSlot(kv)
           l == [pending.log EXCEPT !.seqID = s.id]
<1>1. s \in Slot /\ pending.slot = s /\ pending \in Interrupted
  BY NextSlotType DEF AppendTypeOK, PendingOK, StageOK, AddRecordLog
<1>2. \A k : k # s.pool => PoolLogs(k)' = PoolLogs(k)
  BY <1>1 DEF AddRecordLog, Put, PoolLogs
<1>3. \A k : k = s.pool => PoolLogs(k)' = Append(PoolLogs(k), l)
  BY <1>1 DEF AddRecordLog, Put, PoolLogs
<1>4. Len(PoolLogs(s.pool)) = s.id BY <1>1 DEF AddRecordLog
<1>5. PoolLogs(s.pool) \in Seq(Log) /\ l \in Log BY <1>1, PoolLogsType
<1>6. l.body = pending.log.body BY <1>1
<1>7. ASSUME NEW k, k = s.pool
      PROVE  /\ Len(PoolLogs(k)') = s.id + 1
             /\ \A i \in 1..s.id : PoolLogs(k)'[i] = PoolLogs(k)[i]
             /\ PoolLogs(k)'[s.id + 1] = l
  <2>1. PoolLogs(k)' = Append(PoolLogs(k), l) BY <1>3, <1>7
  <2>2. PoolLogs(k) \in Seq(Log) /\ Len(PoolLogs(k)) = s.id BY <1>4, <1>5, <1>7
  <2> HIDE DEF s, l, Log
  <2> QED BY <1>5, <2>1, <2>2, AppendProperties
<1> QED BY <1>1, <1>2, <1>4, <1>6, <1>7

(* AddRecordLog keeps the files dense and what was acknowledged.            *)
LEMMA AddKeeps ==
  ASSUME AppendTypeOK, PendingOK, CursorOK, PoolsDense, StageOK, AckedDurable,
         AddRecordLog
  PROVE  CursorOK' /\ PoolsDense' /\ StageOK' /\ AckedDurable'
<1> DEFINE s == NextSlot(kv)
<1>1. /\ s \in Slot /\ pending.slot = s
      /\ Len(PoolLogs(s.pool)) = s.id
      /\ \A k : k # s.pool => PoolLogs(k)' = PoolLogs(k)
      /\ \A k : k = s.pool =>
           /\ Len(PoolLogs(k)') = s.id + 1
           /\ \A i \in 1..s.id : PoolLogs(k)'[i] = PoolLogs(k)[i]
           /\ PoolLogs(k)'[s.id + 1].body = pending.log.body
  BY AddEffect
<1>2. UNCHANGED <<kv, cursor, pending, acked>> /\ stage' = "added" /\ NextSlot(kv)' = s
  BY DEF AddRecordLog, NextSlot
<1>3. CursorOK' BY <1>2 DEF CursorOK
<1>4. PoolsDense'
  <2>1. \A k \in 0..(s.pool - 1) : Len(PoolLogs(k)') = SnapshotLogCount
    BY <1>1 DEF PoolsDense
  <2>2. \A k \in DOMAIN pools' : k > s.pool => pools'[k] = <<>>
    BY <1>1 DEF PoolsDense, AddRecordLog, Put, AppendTypeOK
  <2> QED BY <1>1, <1>2, <2>1, <2>2 DEF PoolsDense
<1>5. StageOK' BY <1>1, <1>2 DEF StageOK, InPlace
<1>6. AckedDurable'
  <2>1. ASSUME NEW a \in acked
        PROVE  /\ a.slot.id < Len(PoolLogs(a.slot.pool)')
               /\ PoolLogs(a.slot.pool)'[a.slot.id + 1].body = a.body
    <3>1. a.slot \in Slot BY DEF AppendTypeOK
    <3>2. /\ a.slot.id < Len(PoolLogs(a.slot.pool))
          /\ PoolLogs(a.slot.pool)[a.slot.id + 1].body = a.body
      BY DEF AckedDurable
    <3>3. CASE a.slot.pool # s.pool BY <1>1, <3>2, <3>3
    <3>4. CASE a.slot.pool = s.pool BY <1>1, <1>2, <3>1, <3>2, <3>4
    <3> QED BY <3>3, <3>4
  <2> QED BY <1>2, <2>1 DEF AckedDurable
<1> QED BY <1>3, <1>4, <1>5, <1>6

\* The cursor moves past the log in the next slot.
CommitNext ==
  /\ NextSlot(kv) \in Slot
  /\ NextSlot(kv).id < Len(PoolLogs(NextSlot(kv).pool))
  /\ SavePoolIndex(After(NextSlot(kv)))
  /\ UNCHANGED pools

(* Recovery that finds its log in the pool commits it, or has done so       *)
(* before and saves the cursor as it is.                                    *)
LEMMA RecoverCommitMoves ==
  ASSUME AppendTypeOK, CursorOK, PoolsDense, RecoverCommit
  PROVE  UNCHANGED <<kv, cursor>> \/ CommitNext
<1> DEFINE i == recover
           s == NextSlot(kv)
<1>1. i \in Interrupted /\ s \in Slot /\ cursor = kv
  BY NextSlotType DEF RecoverCommit, AppendTypeOK, CursorOK
<1>2. i.slot.pool = s.pool /\ Len(PoolLogs(s.pool)) - 1 = i.slot.id
  BY <1>1 DEF RecoverCommit, Landed
<1>3. UNCHANGED pools /\ SavePoolIndex(After(i.slot))
  BY DEF RecoverCommit
\* The interrupted log is the one whose index was not saved.
<1>4. CASE Len(PoolLogs(s.pool)) = s.id + 1
  <2>1. i.slot = s BY <1>1, <1>2, <1>4
  <2> QED BY <1>1, <1>3, <1>4, <2>1 DEF CommitNext
\* It was committed before.
<1>5. CASE Len(PoolLogs(s.pool)) = s.id
  <2>1. i.slot.id + 1 = s.id BY <1>1, <1>2, <1>5
  <2>2. kv = s BY <1>1, <2>1, SyncerAssumption DEF NextSlot, CursorOK, AppendTypeOK
  <2>3. After(i.slot) = kv
    <3>1. After(i.slot) \in Slot /\ After(i.slot).pool = s.pool /\ After(i.slot).id = s.id
      BY <1>1, <1>2, <2>1, AfterType
    <3> QED BY <1>1, <2>2, <3>1
  <2> QED BY <1>1, <1>3, <2>3 DEF SavePoolIndex
<1> QED BY <1>4, <1>5 DEF PoolsDense

(* One step of an append keeps the invariant.                               *)
LEMMA AppendKeeps ==
  ASSUME IInv, AppendStep
  PROVE  CursorOK' /\ PoolsDense' /\ StageOK' /\ AckedDurable'
<1> USE DEF IInv, TypeOK
<1> DEFINE Quiet == UNCHANGED <<kv, pools, cursor, acked>>
<1>1. CASE Quiet /\ stage' \notin {"prelogged", "added", "saved"}
  BY <1>1, Frame DEF StageOK
<1>2. CASE RecoverCommit
  <2>1. UNCHANGED <<pools, acked>> /\ stage' = "recommitted"
    BY <1>2 DEF RecoverCommit
  <2>2. StageOK'
    BY <2>1 DEF StageOK
  <2>3. CASE UNCHANGED <<kv, cursor>>
    BY <2>1, <2>2, <2>3, Frame
  <2>4. CASE CommitNext
    BY <2>1, <2>2, <2>4, Advance DEF CommitNext
  <2> QED BY <1>2, <2>3, <2>4, RecoverCommitMoves
<1>3. ASSUME NEW seqID \in GivenSeqIDs, PreLog(seqID)
      PROVE  CursorOK' /\ PoolsDense' /\ StageOK' /\ AckedDurable'
  <2>1. Quiet BY <1>3 DEF PreLog
  <2>2. StageOK'
    <3>1. NextSlot(kv)' = NextSlot(kv) /\ cursor = kv
      BY <2>1 DEF NextSlot, CursorOK
    <3>2. stage' = "idle" \/ (stage' = "prelogged" /\ pending'.slot = NextSlot(cursor))
      BY <1>3 DEF PreLog
    <3> QED BY <3>1, <3>2 DEF StageOK
  <2> QED BY <2>1, <2>2, Frame
<1>4. CASE AddRecordLog BY <1>4, AddKeeps
<1>5. CASE SaveIndex
  <2>1. CASE Quiet /\ stage' = "idle" BY <1>1, <2>1
  <2>2. CASE SavePoolIndex(After(pending.slot)) /\ stage' = "saved" /\ UNCHANGED pending
    <3>1. pending.slot = NextSlot(kv) /\ InPlace(pending)
          /\ UNCHANGED <<pools, acked>>
      BY <1>5 DEF SaveIndex, StageOK
    <3>2. NextSlot(kv).id < Len(PoolLogs(NextSlot(kv).pool)) BY <3>1 DEF InPlace
    <3>3. CursorOK' /\ PoolsDense' /\ AckedDurable'
      BY <2>2, <3>1, <3>2, Advance
    <3>4. StageOK'
      BY <2>2, <3>1 DEF StageOK, InPlace, SavePoolIndex, PoolLogs
    <3> QED BY <3>3, <3>4
  <2> QED BY <1>5, <2>1, <2>2 DEF SaveIndex
<1>6. CASE EndAppend
  <2>1. UNCHANGED <<kv, pools, cursor>> /\ stage' = "idle"
        /\ acked' = acked \cup {[slot |-> pending.slot, body |-> pending.log.body]}
    BY <1>6 DEF EndAppend
  <2>2. InPlace(pending) /\ kv = After(pending.slot) /\ pending.slot \in Slot
    BY <1>6 DEF EndAppend, StageOK, PendingOK
  <2>3. CursorOK' /\ PoolsDense' /\ StageOK'
    BY <2>1 DEF CursorOK, PoolsDense, StageOK, NextSlot, PoolLogs
  <2>4. AckedDurable'
    <3>1. \A k : PoolLogs(k)' = PoolLogs(k) BY <2>1 DEF PoolLogs
    <3>2. /\ pending.slot.id < Len(PoolLogs(pending.slot.pool))
          /\ PoolLogs(pending.slot.pool)[pending.slot.id + 1].body = pending.log.body
          /\ pending.slot.pool = kv.pool /\ pending.slot.id < kv.id
      BY <2>2, AfterType DEF InPlace
    <3> QED BY <2>1, <3>1, <3>2 DEF AckedDurable
  <2> QED BY <2>3, <2>4
<1>7. CASE \/ BeginAppend \/ RecoverNothing \/ RecoverOtherPool \/ RecoverDiscard
           \/ RecoverClear \/ RecoverFail \/ CallbackError \/ AddRecordLogError
  <2>1. Quiet /\ stage' \notin {"prelogged", "added", "saved"}
    BY <1>7 DEF BeginAppend, RecoverNothing, RecoverOtherPool, RecoverDiscard,
         RecoverClear, RecoverFail, CallbackError, AddRecordLogError, disk
  <2> QED BY <1>1, <2>1
<1> QED BY <1>2, <1>3, <1>4, <1>5, <1>6, <1>7 DEF AppendStep

-----------------------------------------------------------------------------
(* The invariant holds at first and every step keeps it.                    *)
LEMMA InitIInv == Init => IInv
<1> SUFFICES ASSUME Init PROVE IInv
  OBVIOUS
<1> USE DEF Init
<1>1. AppendTypeOK /\ SnapshotTypeOK
  <2>1. <<>> \in Seq(Nat) /\ Len(<<>>) = 0 BY EmptySeq
  <2>2. DOMAIN pools = {} /\ DOMAIN snaps = {} OBVIOUS
  <2>3. queue \in Seq(Nat) /\ Len(queue) <= QueueCap BY <2>1, SyncerAssumption
  <2>4. kv \in Slot /\ acked \subseteq [slot : Slot, body : Nat] OBVIOUS
  <2>5. AppendTypeOK BY <2>2, <2>3, <2>4 DEF AppendTypeOK
  <2>6. SnapshotTypeOK BY <2>1, <2>2 DEF SnapshotTypeOK, IdleBuilder
  <2> QED BY <2>5, <2>6
<1>2. rd \in [Readers -> Call]
  <2>1. IdleCall \in Call BY EmptySeq DEF IdleCall, Call
  <2> QED BY <2>1
<1>3. PendingOK /\ CursorOK /\ StageOK /\ AckedDurable
  BY SyncerAssumption DEF PendingOK, CursorOK, StageOK, AckedDurable
<1>4. PoolsDense
  <2>1. NextSlot(kv) = [pool |-> 0, id |-> 0] BY SyncerAssumption DEF NextSlot
  <2>2. PoolLogs(0) = <<>> BY DEF PoolLogs
  <2> QED BY <2>1, <2>2 DEF PoolsDense
<1> QED BY <1>1, <1>2, <1>3, <1>4 DEF IInv, TypeOK

(* Every step keeps it, one action at a time: an append, the snapshot       *)
(* routine, a call of GetAllLogs, a restart, or a stutter.                  *)
LEMMA NextIInv == IInv /\ [Next]_vars => IInv'
<1> SUFFICES ASSUME IInv, [Next]_vars PROVE IInv'
  OBVIOUS
<1> USE DEF IInv
<1>1. CASE AppendStep
  <2>1. AppendTypeOK' /\ PendingOK' BY <1>1, AppendTypes DEF TypeOK
  <2>2. UNCHANGED <<snaps, builder, rd>>
    BY <1>1 DEF AppendStep, BeginAppend, RecoverNothing, RecoverOtherPool,
         RecoverDiscard, RecoverCommit, RecoverClear, RecoverFail, CallbackError,
         PreLog, AddRecordLog, AddRecordLogError, SaveIndex, EndAppend, disk
  <2>3. TypeOK' BY <2>1, <2>2 DEF TypeOK, SnapshotTypeOK
  <2> QED BY <1>1, <2>1, <2>3, AppendKeeps
<1>2. CASE BuildStep
  <2>1. UNCHANGED <<kv, pools, recover, mem, rd>>
    BY <1>2 DEF BuildStep, BuildTake, BuildSkip, BuildApply, BuildStore, disk
  <2>2. SnapshotTypeOK' /\ queue' \in Seq(Nat) /\ Len(queue') <= QueueCap
    BY <1>2, BuildTypes DEF TypeOK
  <2>3. TypeOK' BY <2>1, <2>2 DEF TypeOK, AppendTypeOK, mem
  <2>4. PendingOK' /\ StageOK'
    BY <2>1 DEF PendingOK, StageOK, InPlace, PoolLogs, NextSlot, mem
  <2> QED BY <2>1, <2>3, <2>4, Frame DEF mem
<1>3. ASSUME NEW r \in Readers, ReadStep(r) PROVE IInv'
  <2>1. UNCHANGED <<disk, mem, queue, builder>>
    BY <1>3 DEF ReadStep, ReadBegin, ReadSnapshot, ReadPool
  <2>2. rd' \in [Readers -> Call] BY <1>3, ReadTypes
  <2>3. TypeOK'
    BY <2>1, <2>2 DEF TypeOK, AppendTypeOK, SnapshotTypeOK, disk, mem
  <2>4. PendingOK' /\ StageOK'
    BY <2>1 DEF PendingOK, StageOK, InPlace, PoolLogs, NextSlot, disk, mem
  <2> QED BY <2>1, <2>3, <2>4, Frame DEF disk, mem
<1>4. CASE Restart
  <2>1. UNCHANGED <<disk, issued, acked, rejected>> /\ cursor' = kv /\ openPool' = kv.pool
        /\ queue' = <<>> /\ stage' = "idle" /\ pending' = None
        /\ builder' = IdleBuilder /\ rd' = [r \in Readers |-> IdleCall]
    BY <1>4 DEF Restart
  <2>2. AppendTypeOK' /\ SnapshotTypeOK'
    <3>1. <<>> \in Seq(Nat) /\ Len(<<>>) = 0 BY EmptySeq
    <3>2. queue' \in Seq(Nat) /\ Len(queue') <= QueueCap
      BY <2>1, <3>1, SyncerAssumption
    <3>3. AppendTypeOK' BY <2>1, <3>2 DEF TypeOK, AppendTypeOK, disk
    <3>4. SnapshotTypeOK'
      BY <2>1, <3>1 DEF TypeOK, SnapshotTypeOK, disk, IdleBuilder
    <3> QED BY <3>3, <3>4
  <2>3. IdleCall \in Call BY EmptySeq DEF IdleCall, Call
  <2>4. TypeOK' BY <2>1, <2>2, <2>3 DEF TypeOK
  <2>5. PendingOK' /\ StageOK' BY <2>1 DEF PendingOK, StageOK
  <2> QED BY <2>1, <2>4, <2>5, Frame DEF disk, CursorOK
<1>5. CASE UNCHANGED vars
  <2>1. UNCHANGED <<disk, mem, queue, builder, rd>> BY <1>5 DEF vars
  <2>2. TypeOK' BY <2>1 DEF disk, mem, TypeOK, AppendTypeOK, SnapshotTypeOK
  <2>3. PendingOK' /\ StageOK'
    BY <2>1 DEF disk, mem, PendingOK, StageOK, InPlace, PoolLogs, NextSlot
  <2> QED BY <2>1, <2>2, <2>3, Frame DEF disk, mem
<1> QED BY <1>1, <1>2, <1>3, <1>4, <1>5 DEF Next

(* The inductive invariant is an invariant. *)
LEMMA SyncerInvariant == Spec => []IInv
BY InitIInv, NextIInv, PTL DEF Spec

(* Type correctness; the snapshot queue stays within its capacity.          *)
THEOREM TypeCorrect == Spec => []TypeOK
<1>1. IInv => TypeOK BY DEF IInv
<1> QED BY <1>1, SyncerInvariant, PTL

(* Cursor file and pool files agree after every step of an append, of its   *)
(* recovery, of a failed write and of a restart (syncer.go tryNewLog,       *)
(* processUnexpectedLogsOnLock, init).                                      *)
THEOREM FilesDense == Spec => []PoolsDense
<1>1. IInv => PoolsDense BY DEF IInv
<1> QED BY <1>1, SyncerInvariant, PTL

(* A log whose append returned nil stays in its slot, below the cursor.     *)
THEOREM AcknowledgedLogsStay == Spec => []AckedDurable
<1>1. IInv => AckedDurable BY DEF IInv
<1> QED BY <1>1, SyncerInvariant, PTL

(* Only AddRecordLog writes a pool, and it adds a log.                      *)
LEMMA PoolsGrow ==
  ASSUME IInv, Next
  PROVE  \A k \in DOMAIN pools :
           /\ k \in DOMAIN pools'
           /\ Len(pools[k]) <= Len(pools'[k])
           /\ \A i \in 1..Len(pools[k]) : pools'[k][i] = pools[k][i]
<1>0. \A k \in DOMAIN pools : Len(pools[k]) \in Nat
  BY LenProperties DEF IInv, TypeOK, AppendTypeOK
<1>1. CASE AddRecordLog
  <2> DEFINE s == NextSlot(kv)
  <2>1. /\ s \in Slot /\ pending.slot = s
        /\ Len(PoolLogs(s.pool)) = s.id
        /\ \A k : k # s.pool => PoolLogs(k)' = PoolLogs(k)
        /\ \A k : k = s.pool =>
             /\ Len(PoolLogs(k)') = s.id + 1
             /\ \A i \in 1..s.id : PoolLogs(k)'[i] = PoolLogs(k)[i]
    BY <1>1, AddEffect DEF IInv, TypeOK
  <2>2. DOMAIN pools' = DOMAIN pools \cup {s.pool}
    BY <1>1, <2>1 DEF AddRecordLog, Put
  <2>3. NextSlot(kv)' = s BY <1>1 DEF AddRecordLog, NextSlot
  <2>4. ASSUME NEW k \in DOMAIN pools
        PROVE  /\ Len(pools[k]) <= Len(pools'[k])
               /\ \A i \in 1..Len(pools[k]) : pools'[k][i] = pools[k][i]
    <3>1. PoolLogs(k) = pools[k] /\ PoolLogs(k)' = pools'[k] BY <2>2 DEF PoolLogs
    <3>2. CASE k = s.pool BY <2>1, <2>3, <3>1, <3>2
    <3>3. CASE k # s.pool BY <1>0, <2>1, <3>1, <3>3
    <3> QED BY <3>2, <3>3
  <2> QED BY <2>2, <2>4
<1>2. CASE Next /\ ~AddRecordLog
  <2>1. UNCHANGED pools
    BY <1>2 DEF Next, AppendStep, BeginAppend, RecoverNothing, RecoverOtherPool,
         RecoverDiscard, RecoverCommit, RecoverClear, RecoverFail, CallbackError,
         PreLog, AddRecordLogError, SaveIndex, EndAppend, BuildStep, BuildTake,
         BuildSkip, BuildApply, BuildStore, ReadStep, ReadBegin, ReadSnapshot,
         ReadPool, Restart, disk
  <2> QED BY <1>0, <2>1
<1> QED BY <1>1, <1>2

(* The pool files only grow, at their ends.                                 *)
THEOREM LogsNeverChange == Spec => AppendOnly
BY SyncerInvariant, PoolsGrow, PTL DEF Spec, AppendOnly

(***************************************************************************)
(* Proof that GetAllLogs, which reads pool after pool without poolLock     *)
(* beside appends, recovery, restarts and the snapshot routine, gives the  *)
(* right logs under the right numbers and all that were committed when it  *)
(* began: for every pool size (0 included) and every number of calls.      *)
(***************************************************************************)

-----------------------------------------------------------------------------
(* Lemmas about sequence numbers.                                           *)

(* A sequence number is a pool and an index below the pool's size, and      *)
(* every such pair is one.                                                  *)
LEMMA Split ==
  ASSUME NEW n \in Nat
  PROVE  /\ n = PoolOf(n) * SnapshotLogCount + IdOf(n)
         /\ PoolOf(n) \in Nat /\ IdOf(n) \in Nat
         /\ SnapshotLogCount > 0 => IdOf(n) < SnapshotLogCount
BY SyncerAssumption DEF PoolOf, IdOf

(* A number in pool 0 is its index. *)
LEMMA FirstPool == ASSUME NEW i \in Nat PROVE 0 * SnapshotLogCount + i = i
BY SyncerAssumption

(* A pool and an index make one number, from which both come back. *)
LEMMA Join ==
  ASSUME NEW p \in Nat, NEW i \in Nat,
         IF SnapshotLogCount = 0 THEN p = 0 ELSE i < SnapshotLogCount
  PROVE  /\ p * SnapshotLogCount + i \in Nat
         /\ PoolOf(p * SnapshotLogCount + i) = p
         /\ IdOf(p * SnapshotLogCount + i) = i
<1> DEFINE n == p * SnapshotLogCount + i
<1>1. n \in Nat
  BY SyncerAssumption
<1>2. CASE SnapshotLogCount = 0
  BY <1>1, <1>2 DEF PoolOf, IdOf
<1>3. CASE SnapshotLogCount > 0
  <2> DEFINE q == n \div SnapshotLogCount
             j == n % SnapshotLogCount
  <2>1. q \in Nat /\ j \in 0 .. (SnapshotLogCount - 1) /\ n = q * SnapshotLogCount + j
    BY <1>1, <1>3, SyncerAssumption
  <2>2. (p - q) * SnapshotLogCount = j - i
    BY <1>3, <2>1, SyncerAssumption
  <2>3. p = q
    <3> HIDE DEF q, j
    <3>1. CASE p > q
      <4>1. (p - q) * SnapshotLogCount >= SnapshotLogCount
        BY <1>3, <2>1, <3>1, SyncerAssumption
      <4> QED
        BY <1>3, <2>1, <2>2, <4>1, SyncerAssumption
    <3>2. CASE p < q
      <4>1. (q - p) * SnapshotLogCount >= SnapshotLogCount
        BY <1>3, <2>1, <3>2, SyncerAssumption
      <4> QED
        BY <1>3, <2>1, <2>2, <4>1, SyncerAssumption
    <3> QED
      BY <2>1, <3>1, <3>2
  <2>4. i = j
    <3> HIDE DEF q, j
    <3> QED
      BY <2>1, <2>2, <2>3, SyncerAssumption
  <2> QED
    BY <1>1, <1>3, <2>3, <2>4 DEF PoolOf, IdOf
<1> QED
  BY <1>2, <1>3, SyncerAssumption
-----------------------------------------------------------------------------
(* Pools as readers see them. *)

(* No pool holds more logs than its size, and those before the next slot's  *)
(* are full.                                                                *)
LEMMA PoolSizes ==
  ASSUME IInv, NEW k \in Nat
  PROVE  /\ PoolLogs(k) \in Seq(Log) /\ Len(PoolLogs(k)) \in Nat
         /\ k < NextSlot(kv).pool => Len(PoolLogs(k)) = SnapshotLogCount
         /\ SnapshotLogCount > 0 => Len(PoolLogs(k)) <= SnapshotLogCount
<1> DEFINE s == NextSlot(kv)
<1>1. s \in Slot
  BY NextSlotType DEF IInv, TypeOK, AppendTypeOK
<1>2. PoolLogs(k) \in Seq(Log)
  BY PoolLogsType DEF IInv, TypeOK
<1>3. Len(PoolLogs(k)) \in Nat
  <2> HIDE DEF Log
  <2> QED
    BY <1>2, LenProperties
<1>4. SnapshotLogCount > 0 => s.id < SnapshotLogCount
  BY SyncerAssumption, <1>1 DEF NextSlot
<1>5. CASE k < s.pool
  BY <1>1, <1>2, <1>3, <1>5 DEF IInv, PoolsDense
<1>6. CASE k = s.pool
  <2>1. Len(PoolLogs(s.pool)) = s.id \/ Len(PoolLogs(s.pool)) = s.id + 1
    BY DEF IInv, PoolsDense
  <2> HIDE DEF s, Log
  <2>2. SnapshotLogCount > 0 => Len(PoolLogs(k)) <= SnapshotLogCount
    BY <1>1, <1>3, <1>4, <1>6, <2>1, SyncerAssumption
  <2>3. s = NextSlot(kv)
    BY DEF s
  <2> QED
    BY <1>1, <1>2, <1>3, <1>6, <2>2, <2>3
<1>7. CASE k > s.pool
  <2>1. PoolLogs(k) = <<>>
    BY <1>7 DEF IInv, PoolsDense, PoolLogs
  <2> QED
    BY <1>1, <1>2, <1>7, <2>1, SyncerAssumption
<1> QED
  BY <1>1, <1>5, <1>6, <1>7

(* A pool that is read again still begins with what it held before.         *)
LEMMA PoolsStay ==
  ASSUME IInv, Next, NEW k \in Nat
  PROVE  /\ Len(PoolLogs(k)) <= Len(PoolLogs(k)') /\ Len(PoolLogs(k)') \in Nat
         /\ \A i \in 1 .. Len(PoolLogs(k)) : PoolLogs(k)'[i] = PoolLogs(k)[i]
<1>1. IInv'
  BY NextIInv
<1>2. PoolLogs(k)' \in Seq(Log)
  <2>1. AppendTypeOK'
    BY <1>1 DEF IInv, TypeOK
  <2>2. <<>> \in Seq(Log)
    BY EmptySeq
  <2> QED
    BY <2>1, <2>2 DEF AppendTypeOK, PoolLogs
<1>3. Len(PoolLogs(k)') \in Nat
  <2> HIDE DEF Log
  <2> QED
    BY <1>2, LenProperties
<1>4. CASE k \in DOMAIN pools
  BY <1>3, <1>4, PoolsGrow DEF PoolLogs
<1>5. CASE k \notin DOMAIN pools
  <2>1. PoolLogs(k) = <<>>
    BY <1>5 DEF PoolLogs
  <2> QED
    BY <1>3, <2>1
<1> QED
  BY <1>4, <1>5

(* The cursor stays or moves past the log in the next slot.                 *)
LEMMA CursorMoves ==
  ASSUME IInv, Next
  PROVE  UNCHANGED kv \/ CommitNext
<1>1. CASE AppendStep
  <2>1. CASE RecoverCommit
    BY <2>1, RecoverCommitMoves DEF IInv, TypeOK
  <2>2. CASE SaveIndex
    <3>1. CASE SavePoolIndex(After(pending.slot))
      <4>1. pending.slot = NextSlot(kv) /\ InPlace(pending) /\ UNCHANGED pools
        BY <2>2 DEF SaveIndex, IInv, StageOK
      <4>2. NextSlot(kv) \in Slot
        BY NextSlotType DEF IInv, TypeOK, AppendTypeOK
      <4> QED
        BY <3>1, <4>1, <4>2 DEF CommitNext, InPlace
    <3> QED
      BY <2>2, <3>1 DEF SaveIndex
  <2> QED
    BY <1>1, <2>1, <2>2 DEF AppendStep, BeginAppend, RecoverNothing, RecoverOtherPool,
       RecoverDiscard, RecoverClear, RecoverFail, CallbackError, PreLog, AddRecordLog,
       AddRecordLogError, EndAppend, disk
<1>2. CASE Next /\ ~AppendStep
  BY <1>2 DEF Next, BuildStep, BuildTake, BuildSkip, BuildApply, BuildStore, ReadStep,
     ReadBegin, ReadSnapshot, ReadPool, Restart, disk
<1> QED
  BY <1>1, <1>2

(* So the pool of the next slot is never an earlier one.                    *)
LEMMA SlotsAdvance ==
  ASSUME IInv, Next
  PROVE  NextSlot(kv).pool \in Nat /\ NextSlot(kv)'.pool >= NextSlot(kv).pool
<1> DEFINE s == NextSlot(kv)
<1>1. s \in Slot
  BY NextSlotType DEF IInv, TypeOK, AppendTypeOK
<1>2. SnapshotLogCount = 0 => s.pool = 0
  BY DEF NextSlot
<1>3. CASE UNCHANGED kv
  BY <1>1, <1>3 DEF NextSlot
<1>4. CASE CommitNext
  <2>1. kv' = After(s) /\ After(s).pool = s.pool /\ After(s) \in Slot
    BY <1>1, <1>4, AfterType DEF CommitNext, SavePoolIndex
  <2> HIDE DEF s
  <2>2. NextSlot(kv)' = IF SnapshotLogCount = 0 THEN [pool |-> 0, id |-> kv'.id]
                        ELSE IF kv'.id < SnapshotLogCount THEN kv'
                        ELSE [pool |-> kv'.pool + 1, id |-> 0]
    BY DEF NextSlot
  <2>3. NextSlot(kv)'.pool >= s.pool
    BY <1>1, <1>2, <2>1, <2>2
  <2> QED
    BY <1>1, <2>3 DEF s
<1> QED
  BY <1>3, <1>4, CursorMoves

-----------------------------------------------------------------------------
(* One call c of GetAllLogs. *)

\* What it has been given is right, and enough if it has ended.
Faithful(c) ==
  \A i \in 1 .. Len(c.out) :
    /\ c.out[i].seqID = FirstSeqID(c) + (i - 1)
    /\ IdOf(c.out[i].seqID) < Len(PoolLogs(PoolOf(c.out[i].seqID)))
    /\ c.out[i].body = LogAt(c.out[i].seqID).body

Complete(c) == c.pc = "done" => FirstSeqID(c) + Len(c.out) >= c.floor

\* Where it is: the next number it reads is the one after those it has, in a
\* pool that is full unless it is the last one, and the last one holds what was
\* committed when it began.
OnItsWay(c) ==
  /\ c.pc = "snapshot" =>
       c.last > 0 /\ c.from = 0 /\ c.pool = 0 /\ c.idx = 0 /\ c.snap = None /\ c.out = <<>>
  /\ c.pc = "pools" =>
       c.pool * SnapshotLogCount + c.idx = FirstSeqID(c) + Len(c.out)
  /\ c.pc \in {"snapshot", "pools"} =>
       /\ IF SnapshotLogCount = 0 THEN c.pool = 0 /\ c.last = 0
          ELSE c.idx < SnapshotLogCount
       /\ c.last <= NextSlot(kv).pool
       /\ c.floor <= c.last * SnapshotLogCount + Len(PoolLogs(c.last))

CallOK(c) == Faithful(c) /\ Complete(c) /\ OnItsWay(c)

(* A number that can be read keeps its log.                                 *)
LEMMA LogsStay ==
  ASSUME IInv, Next, NEW n \in Nat, IdOf(n) < Len(PoolLogs(PoolOf(n)))
  PROVE  IdOf(n) < Len(PoolLogs(PoolOf(n)))' /\ LogAt(n)' = LogAt(n)
<1> DEFINE k == PoolOf(n)
           i == IdOf(n)
<1>1. k \in Nat /\ i \in Nat
  BY Split
<1>2. k' = k /\ i' = i
  BY DEF PoolOf, IdOf
<1>3. LogAt(n) = PoolLogs(k)[i + 1] /\ LogAt(n)' = PoolLogs(k)'[i + 1]
  BY <1>2 DEF LogAt
<1> HIDE DEF k, i
<1>4. /\ Len(PoolLogs(k)) <= Len(PoolLogs(k)') /\ Len(PoolLogs(k)') \in Nat
      /\ Len(PoolLogs(k)) \in Nat
      /\ \A j \in 1 .. Len(PoolLogs(k)) : PoolLogs(k)'[j] = PoolLogs(k)[j]
  BY <1>1, PoolsStay, PoolSizes
<1>5. i < Len(PoolLogs(k))
  BY DEF k, i
<1>6. i < Len(PoolLogs(k)') /\ PoolLogs(k)'[i + 1] = PoolLogs(k)[i + 1]
  BY <1>1, <1>4, <1>5
<1> QED
  BY <1>2, <1>3, <1>6 DEF k, i

(* Appends, recovery, restarts and the snapshot routine do not disturb a    *)
(* call, wherever it is.                                                    *)
LEMMA CallsUndisturbed ==
  ASSUME IInv, Next, NEW c \in Call, CallOK(c)
  PROVE  CallOK(c)'
<1>1. \A i \in 1 .. Len(c.out) : c.out[i] \in [seqID : Nat, body : Nat]
  BY ElementOfSeq DEF Call
<1>2. FirstSeqID(c)' = FirstSeqID(c)
  BY DEF FirstSeqID
<1>3. Faithful(c)'
  <2> SUFFICES ASSUME NEW i \in 1 .. Len(c.out)
               PROVE  /\ c.out[i].seqID = FirstSeqID(c)' + (i - 1)
                      /\ IdOf(c.out[i].seqID) < Len(PoolLogs(PoolOf(c.out[i].seqID)))'
                      /\ c.out[i].body = LogAt(c.out[i].seqID)'.body
    BY DEF Faithful, IdOf
  <2>1. PICK n \in Nat : n = c.out[i].seqID
    BY <1>1
  <2>2. n = FirstSeqID(c) + (i - 1) /\ IdOf(n) < Len(PoolLogs(PoolOf(n))) /\ c.out[i].body = LogAt(n).body
    BY <2>1 DEF CallOK, Faithful
  <2>3. IdOf(n) < Len(PoolLogs(PoolOf(n)))' /\ LogAt(n)' = LogAt(n)
    BY <2>2, LogsStay
  <2> QED
    BY <1>2, <2>1, <2>2, <2>3
<1>4. Complete(c)'
  BY <1>2 DEF CallOK, Complete
<1>5. OnItsWay(c)'
  <2>1. CASE c.pc \in {"snapshot", "pools"}
    <3>1. c.last \in Nat /\ c.floor \in Nat
      BY DEF Call
    <3>2. c.floor <= c.last * SnapshotLogCount + Len(PoolLogs(c.last)')
      <4>1. c.last * SnapshotLogCount \in Nat
        BY <3>1, SyncerAssumption
      <4>2. c.floor <= c.last * SnapshotLogCount + Len(PoolLogs(c.last))
        BY <2>1 DEF CallOK, OnItsWay
      <4>3. /\ Len(PoolLogs(c.last)) <= Len(PoolLogs(c.last)') /\ Len(PoolLogs(c.last)') \in Nat
            /\ Len(PoolLogs(c.last)) \in Nat
        BY <3>1, PoolsStay, PoolSizes
      <4> DEFINE first == c.last * SnapshotLogCount
      <4> HIDE DEF first
      <4> QED
        BY <3>1, <4>1, <4>2, <4>3 DEF first
    <3>3. c.last <= NextSlot(kv)'.pool
      <4>1. c.last <= NextSlot(kv).pool
        BY <2>1 DEF CallOK, OnItsWay
      <4>2. NextSlot(kv)'.pool \in Nat
        <5>1. IInv'
          BY NextIInv
        <5>2. kv' \in Slot
          BY <5>1 DEF IInv, TypeOK, AppendTypeOK
        <5> QED
          BY <5>2, SyncerAssumption DEF NextSlot
      <4> QED
        BY <3>1, <4>1, <4>2, SlotsAdvance
    <3> QED
      BY <1>2, <2>1, <3>2, <3>3 DEF CallOK, OnItsWay
  <2>2. CASE c.pc \notin {"snapshot", "pools"}
    BY <2>2 DEF OnItsWay
  <2> QED
    BY <2>1, <2>2
<1> QED
  BY <1>3, <1>4, <1>5 DEF CallOK

-----------------------------------------------------------------------------
(* The steps of a call. *)

(* The saved cursor and the next slot are the same position.                *)
LEMMA SamePosition ==
  ASSUME IInv
  PROVE  Pos(kv) = Pos(NextSlot(kv)) /\ Pos(kv) \in Nat
<1>1. kv \in Slot /\ CursorOK
  BY DEF IInv, TypeOK, AppendTypeOK
<1>2. CASE SnapshotLogCount = 0
  <2>1. NextSlot(kv).pool = 0 /\ NextSlot(kv).id = kv.id /\ kv.pool = 0
    BY <1>1, <1>2 DEF NextSlot, CursorOK
  <2>2. Pos(kv) = kv.id
    BY <1>1, <2>1, FirstPool DEF Pos
  <2>3. Pos(NextSlot(kv)) = kv.id
    BY <1>1, <2>1, FirstPool DEF Pos
  <2> QED
    BY <1>1, <2>2, <2>3
<1>3. CASE SnapshotLogCount > 0 /\ kv.id < SnapshotLogCount
  <2>1. NextSlot(kv) = kv
    BY <1>1, <1>3, SyncerAssumption DEF NextSlot
  <2> QED
    BY <1>1, <2>1, PosType
<1>4. CASE SnapshotLogCount > 0 /\ kv.id >= SnapshotLogCount
  <2>1. kv.id = SnapshotLogCount
    BY <1>1, <1>4, SyncerAssumption DEF CursorOK
  <2>2. NextSlot(kv) = [pool |-> kv.pool + 1, id |-> 0]
    BY <1>1, <1>4, SyncerAssumption DEF NextSlot
  <2>3. (kv.pool + 1) * SnapshotLogCount + 0 = kv.pool * SnapshotLogCount + SnapshotLogCount
    BY <1>1, SyncerAssumption
  <2>4. Pos(kv) = kv.pool * SnapshotLogCount + SnapshotLogCount
    BY <2>1 DEF Pos
  <2>5. Pos(NextSlot(kv)) = (kv.pool + 1) * SnapshotLogCount + 0
    BY <2>2 DEF Pos
  <2> QED
    BY <1>1, <2>3, <2>4, <2>5, PosType
<1> QED
  BY <1>1, <1>2, <1>3, <1>4, PosType, SyncerAssumption

\* The last pool a call reads, when the next slot is s.
LastPool(s) == IF s.id = 0 /\ s.pool > 0 THEN s.pool - 1 ELSE s.pool

(* The last pool that is read holds what is committed.                      *)
LEMMA LastPoolHolds ==
  ASSUME IInv
  PROVE  LET last == LastPool(NextSlot(kv))
         IN  /\ last \in Nat /\ last <= NextSlot(kv).pool
             /\ SnapshotLogCount = 0 => last = 0
             /\ Pos(kv) <= last * SnapshotLogCount + Len(PoolLogs(last))
<1>1. PICK s \in Slot : s = NextSlot(kv)
  BY NextSlotType DEF IInv, TypeOK, AppendTypeOK
<1>2. Pos(kv) = s.pool * SnapshotLogCount + s.id
  BY <1>1, SamePosition DEF Pos
<1>3. SnapshotLogCount = 0 => s.pool = 0
  BY <1>1 DEF NextSlot
<1>4. CASE s.id = 0 /\ s.pool > 0
  <2>1. PICK k \in Nat : k = s.pool - 1
    BY <1>4
  <2>2. Len(PoolLogs(k)) = SnapshotLogCount
    <3>1. k < NextSlot(kv).pool
      BY <1>1, <1>4, <2>1
    <3> QED
      BY <3>1, PoolSizes
  <2>3. s.pool * SnapshotLogCount = k * SnapshotLogCount + SnapshotLogCount
    <3>1. s.pool = k + 1
      BY <2>1
    <3> QED
      BY <3>1, SyncerAssumption
  <2>4. Pos(kv) <= k * SnapshotLogCount + Len(PoolLogs(k))
    BY <1>2, <1>4, <2>2, <2>3, SyncerAssumption
  <2>5. LastPool(NextSlot(kv)) = k
    BY <1>1, <1>4, <2>1 DEF LastPool
  <2> QED
    BY <1>1, <1>3, <1>4, <2>1, <2>4, <2>5
<1>5. CASE ~(s.id = 0 /\ s.pool > 0)
  <2>1. LastPool(NextSlot(kv)) = s.pool
    BY <1>1, <1>5 DEF LastPool
  <2>2. Len(PoolLogs(s.pool)) \in Nat /\ Len(PoolLogs(s.pool)) >= s.id
    <3>1. Len(PoolLogs(s.pool)) \in Nat
      BY PoolSizes
    <3>2. Len(PoolLogs(s.pool)) = s.id \/ Len(PoolLogs(s.pool)) = s.id + 1
      BY <1>1 DEF IInv, PoolsDense
    <3> QED
      BY <3>1, <3>2
  <2>3. s.pool * SnapshotLogCount \in Nat
    BY SyncerAssumption
  <2>4. Pos(kv) <= s.pool * SnapshotLogCount + Len(PoolLogs(s.pool))
    BY <1>2, <2>2, <2>3
  <2> QED
    BY <1>1, <1>3, <2>1, <2>4
<1> QED
  BY <1>4, <1>5

(* GetAllLogs reads the cursor under the lock.                              *)
LEMMA CallBegins ==
  ASSUME IInv, NEW from \in Nat, NEW r \in Readers, ReadBegin(r, from), rd \in [Readers -> Call],
         NEW c, c = rd'[r]
  PROVE  CallOK(c)
<1> DEFINE next == NextSlot(kv)
           last == LastPool(next)
<1>1. next \in Slot /\ cursor = kv
  BY NextSlotType DEF IInv, TypeOK, AppendTypeOK, CursorOK
<1>2. c = [IdleCall EXCEPT
            !.pc    = IF next.pool = 0 /\ next.id = 0 THEN "done"
                      ELSE IF from = 0 /\ last > 0 THEN "snapshot"
                      ELSE "pools",
            !.from  = from,
            !.floor = Pos(kv),
            !.last  = last,
            !.pool  = PoolOf(from),
            !.idx   = IdOf(from)]
  BY <1>1 DEF ReadBegin, LastPool
<1>3. /\ last \in Nat /\ last <= next.pool
      /\ SnapshotLogCount = 0 => last = 0
      /\ Pos(kv) <= last * SnapshotLogCount + Len(PoolLogs(last))
  BY LastPoolHolds
<1>4. next.pool = 0 /\ next.id = 0 => Pos(kv) = 0
  BY SamePosition, SyncerAssumption DEF Pos
<1> HIDE DEF next, last
<1>5. /\ c.out = <<>> /\ c.snap = None /\ c.from = from /\ c.floor = Pos(kv) /\ c.last = last
      /\ c.pool = PoolOf(from) /\ c.idx = IdOf(from)
      /\ c.pc = IF next.pool = 0 /\ next.id = 0 THEN "done"
                ELSE IF from = 0 /\ last > 0 THEN "snapshot" ELSE "pools"
  BY <1>2 DEF IdleCall
<1>6. FirstSeqID(c) = from /\ Len(c.out) = 0
  BY <1>5 DEF FirstSeqID
<1>7. Faithful(c)
  BY <1>6 DEF Faithful
<1>8. Complete(c)
  BY <1>4, <1>5, <1>6 DEF Complete
<1>9. /\ from = c.pool * SnapshotLogCount + c.idx
      /\ IF SnapshotLogCount = 0 THEN c.pool = 0 ELSE c.idx < SnapshotLogCount
      /\ from = 0 => c.pool = 0 /\ c.idx = 0
  <2>1. /\ from = PoolOf(from) * SnapshotLogCount + IdOf(from)
        /\ PoolOf(from) \in Nat /\ IdOf(from) \in Nat
        /\ SnapshotLogCount > 0 => IdOf(from) < SnapshotLogCount
    BY Split
  <2>2. SnapshotLogCount = 0 => PoolOf(from) = 0
    BY DEF PoolOf
  <2>3. PoolOf(0) = 0 /\ IdOf(0) = 0
    BY SyncerAssumption DEF PoolOf, IdOf
  <2> QED
    BY <1>5, <2>1, <2>2, <2>3, SyncerAssumption
<1>10. OnItsWay(c)
  BY <1>3, <1>5, <1>6, <1>9 DEF OnItsWay, next
<1> QED
  BY <1>7, <1>8, <1>10 DEF CallOK

(* It takes the snapshot of the pool before the last, if there is one.      *)
LEMMA CallTakesSnapshot ==
  ASSUME NEW c \in Call, CallOK(c), c.pc = "snapshot",
         NEW d, d.out = <<>>, d.last = c.last, d.from = c.from, d.idx = c.idx, d.floor = c.floor,
         d.pc \in {"failed", "pools"},
         \/ d.snap = c.snap /\ d.pool = c.pool
         \/ d.snap # None /\ d.pool = c.last
  PROVE  CallOK(d)
<1>1. /\ c.last > 0 /\ c.from = 0 /\ c.pool = 0 /\ c.idx = 0 /\ c.snap = None
      /\ IF SnapshotLogCount = 0 THEN c.last = 0 ELSE c.idx < SnapshotLogCount
      /\ c.last <= NextSlot(kv).pool
      /\ c.floor <= c.last * SnapshotLogCount + Len(PoolLogs(c.last))
  BY DEF CallOK, OnItsWay
<1>2. SnapshotLogCount > 0 /\ c.last \in Nat
  <2>1. c.last \in Nat
    BY DEF Call
  <2>2. SnapshotLogCount = 0 => c.last = 0
    BY <1>1
  <2> QED
    BY <1>1, <2>1, <2>2, SyncerAssumption
<1>3. Len(d.out) = 0 /\ 1 .. Len(d.out) = {}
  OBVIOUS
<1>4. d.pool * SnapshotLogCount + d.idx = FirstSeqID(d) + Len(d.out)
  <2>1. CASE d.snap = None
    <3>1. FirstSeqID(d) = 0 /\ d.pool = 0 /\ d.idx = 0
      BY <1>1, <2>1 DEF FirstSeqID
    <3>2. 0 * SnapshotLogCount + 0 = 0
      BY FirstPool
    <3> QED
      BY <1>3, <3>1, <3>2
  <2>2. CASE d.snap # None
    <3>1. FirstSeqID(d) = c.last * SnapshotLogCount /\ d.pool = c.last /\ d.idx = 0
      BY <1>1, <2>2 DEF FirstSeqID
    <3>2. c.last * SnapshotLogCount \in Nat
      BY <1>2, SyncerAssumption
    <3> QED
      BY <1>3, <3>1, <3>2
  <2> QED
    BY <2>1, <2>2
<1>5. OnItsWay(d)
  BY <1>1, <1>2, <1>4 DEF OnItsWay
<1>6. Faithful(d)
  BY <1>3 DEF Faithful
<1>7. Complete(d)
  BY DEF Complete
<1> QED
  BY <1>5, <1>6, <1>7 DEF CallOK

\* What ReadPool adds to a call that is at index idx of pool k.
Numbered(k, idx) ==
  LET logs == RecordLogs(k, idx)
  IN  [i \in 1..Len(logs) |->
        [seqID |-> k * SnapshotLogCount + idx + (i - 1), body |-> logs[i].body]]

\* new are the logs of pool k, which has L, from index idx on.
RightLogs(k, idx, L, base, new) ==
  /\ L \in Nat /\ base \in Nat
  /\ new \in Seq([seqID : Nat, body : Nat])
  /\ Len(new) = IF idx < L THEN L - idx ELSE 0
  /\ \A j \in 1 .. Len(new) :
       /\ new[j].seqID = base + idx + (j - 1)
       /\ new[j].body = PoolLogs(k)[idx + j].body

(* A function on 1 .. n is a sequence of that length. *)
LEMMA SeqOfFunction ==
  ASSUME NEW S, NEW n \in Nat, NEW f \in [1 .. n -> S]
  PROVE  f \in Seq(S) /\ Len(f) = n
BY SeqDef

(* They are the logs of the pool from the index on, under their numbers.    *)
LEMMA NumberedRight ==
  ASSUME IInv, NEW k \in Nat, NEW idx \in Nat,
         NEW L, L = Len(PoolLogs(k)), NEW base, base = k * SnapshotLogCount,
         NEW new, new = Numbered(k, idx)
  PROVE  RightLogs(k, idx, L, base, new)
<1>1. PICK all \in Seq(Log) : all = PoolLogs(k)
  BY PoolSizes
<1>2. PICK logs : logs = RecordLogs(k, idx)
  OBVIOUS
<1>3. L \in Nat /\ L = Len(all)
  BY <1>1, PoolSizes
<1>4. base \in Nat
  BY SyncerAssumption
<1>5. \A i \in 1 .. L : all[i] \in Log
  <2> HIDE DEF Log
  <2> QED
    BY <1>1, <1>3, ElementOfSeq
<1>6. /\ Len(logs) = IF idx < L THEN L - idx ELSE 0
      /\ \A j \in 1 .. Len(logs) : logs[j] = all[idx + j]
  <2>1. logs = SubSeq(all, idx + 1, L)
    BY <1>1, <1>2 DEF RecordLogs
  <2> HIDE DEF Log
  <2>2. \A i \in (idx + 1) .. L : all[i] \in Log
    BY <1>3, <1>5
  <2>3. idx + 1 \in Int /\ L \in Int
    BY <1>3
  <2> DEFINE m == idx + 1
  <2> HIDE DEF m
  <2>4. /\ Len(SubSeq(all, m, L)) = IF m <= L THEN L - m + 1 ELSE 0
        /\ \A i \in 1 .. (L - m + 1) : SubSeq(all, m, L)[i] = all[m + i - 1]
    BY <1>1, <2>2, <2>3, SubSeqProperties DEF m
  <2>5. Len(logs) = IF idx < L THEN L - idx ELSE 0
    BY <1>3, <2>1, <2>4 DEF m
  <2>6. \A j \in 1 .. Len(logs) : j \in 1 .. (L - m + 1) /\ m + j - 1 = idx + j
    BY <1>3, <2>5 DEF m
  <2> QED
    BY <2>1, <2>4, <2>5, <2>6
<1>7. PICK n \in Nat : n = Len(logs)
  <2>1. Len(logs) \in Nat
    <3> HIDE DEF Log
    <3> QED
      BY <1>3, <1>6
  <2> QED
    BY <2>1
<1>8. new = [i \in 1 .. n |-> [seqID |-> base + idx + (i - 1), body |-> logs[i].body]]
  BY <1>2, <1>7 DEF Numbered
<1>9. \A j \in 1 .. n :
        /\ logs[j] = all[idx + j]
        /\ all[idx + j].body \in Nat /\ base + idx + (j - 1) \in Nat
  <2> SUFFICES ASSUME NEW j \in 1 .. n
               PROVE  /\ logs[j] = all[idx + j]
                      /\ all[idx + j].body \in Nat /\ base + idx + (j - 1) \in Nat
    OBVIOUS
  <2>1. logs[j] = all[idx + j]
    BY <1>6, <1>7, Zenon
  <2>2. idx + j \in 1 .. L
    BY <1>3, <1>6, <1>7
  <2>3. all[idx + j].body \in Nat
    BY <1>5, <2>2
  <2>4. base + idx + (j - 1) \in Nat
    BY <1>4
  <2> QED
    BY <2>1, <2>3, <2>4, Zenon
<1>10. ASSUME NEW j \in 1 .. n
       PROVE  /\ new[j] \in [seqID : Nat, body : Nat]
              /\ new[j].seqID = base + idx + (j - 1) /\ new[j].body = all[idx + j].body
  <2>1. new[j] = [seqID |-> base + idx + (j - 1), body |-> logs[j].body]
    BY <1>8, Zenon
  <2>2. PICK x \in Nat, y \in Nat : x = base + idx + (j - 1) /\ y = logs[j].body
    BY <1>9
  <2>3. new[j] = [seqID |-> x, body |-> y]
    BY <2>1, <2>2, Zenon
  <2>4. new[j] \in [seqID : Nat, body : Nat] /\ new[j].seqID = x /\ new[j].body = y
    BY <2>3
  <2> QED
    BY <1>9, <2>2, <2>4
<1>11. /\ \A j \in 1 .. n : new[j] \in [seqID : Nat, body : Nat]
       /\ \A j \in 1 .. n : new[j].seqID = base + idx + (j - 1) /\ new[j].body = all[idx + j].body
  BY <1>10, Zenon
<1>12. new \in [1 .. n -> [seqID : Nat, body : Nat]]
  <2>1. DOMAIN new = 1 .. n /\ new = [i \in 1 .. n |-> new[i]]
    BY <1>8, Zenon
  <2> QED
    BY <1>11, <2>1, Zenon
<1>13. new \in Seq([seqID : Nat, body : Nat]) /\ Len(new) = n
  BY <1>7, <1>12, SeqOfFunction
<1> QED
  BY <1>1, <1>3, <1>4, <1>6, <1>7, <1>11, <1>13 DEF RightLogs

\* What reading one makes of a call.
PoolRead(c, d) ==
  /\ d.out = c.out \o Numbered(c.pool, c.idx)
  /\ d.from = c.from /\ d.snap = c.snap /\ d.last = c.last /\ d.floor = c.floor
  /\ \/ c.pool < c.last /\ d.pc = "pools" /\ d.pool = c.pool + 1 /\ d.idx = 0
     \/ ~(c.pool < c.last) /\ d.pc = "done"

(* What a sequence that is put behind another holds. *)
LEMMA ConcatOf ==
  ASSUME NEW S, NEW s \in Seq(S), NEW t \in Seq(S), NEW m \in Nat, NEW n \in Nat,
         m = Len(s), n = Len(t)
  PROVE  /\ Len(s \o t) = m + n
         /\ \A i \in 1 .. m : (s \o t)[i] = s[i]
         /\ \A j \in 1 .. n : (s \o t)[m + j] = t[j]
<1>1. /\ Len(s \o t) = m + n
      /\ \A i \in 1 .. (m + n) : (s \o t)[i] = IF i <= m THEN s[i] ELSE t[i - m]
  BY ConcatProperties
<1> QED
  BY <1>1

(* It reads a pool, the last one or one before it.                          *)
LEMMA CallReadsPool ==
  ASSUME IInv, NEW c \in Call, CallOK(c), c.pc = "pools",
         NEW d, PoolRead(c, d)
  PROVE  CallOK(d)
<1>1. PICK k \in Nat, idx \in Nat, last \in Nat, floor \in Nat :
        k = c.pool /\ idx = c.idx /\ last = c.last /\ floor = c.floor
  BY DEF Call
<1>2. PICK L : L = Len(PoolLogs(k))
  OBVIOUS
<1>3. PICK base : base = k * SnapshotLogCount
  OBVIOUS
<1>4. PICK new : new = Numbered(k, idx)
  OBVIOUS
<1>5. /\ L \in Nat /\ base \in Nat
      /\ new \in Seq([seqID : Nat, body : Nat])
      /\ Len(new) = IF idx < L THEN L - idx ELSE 0
      /\ \A j \in 1 .. Len(new) :
           /\ new[j].seqID = base + idx + (j - 1)
           /\ new[j].body = PoolLogs(k)[idx + j].body
  <2>1. RightLogs(k, idx, L, base, new)
    BY <1>2, <1>3, <1>4, NumberedRight
  <2> QED
    BY <2>1, Zenon DEF RightLogs
<1>6. c.out \in Seq([seqID : Nat, body : Nat])
  BY DEF Call
<1>7. PICK m \in Nat, n \in Nat : m = Len(c.out) /\ n = Len(new)
  BY <1>5, <1>6, LenProperties
<1>17. n = IF idx < L THEN L - idx ELSE 0
  BY <1>5, <1>7
<1>18. L \in Nat /\ base \in Nat
  BY <1>5
<1>8. PICK first : first = FirstSeqID(c)
  OBVIOUS
<1>9. FirstSeqID(d) = first
  BY <1>8 DEF FirstSeqID, PoolRead
<1>10. /\ base + idx = first + m
       /\ IF SnapshotLogCount = 0 THEN k = 0 /\ last = 0 ELSE idx < SnapshotLogCount
       /\ last <= NextSlot(kv).pool
       /\ floor <= last * SnapshotLogCount + Len(PoolLogs(last))
  BY <1>1, <1>3, <1>7, <1>8 DEF CallOK, OnItsWay
<1>11. first \in Nat
  <2>1. c.from \in Nat /\ last * SnapshotLogCount \in Nat
    BY <1>1, SyncerAssumption DEF Call
  <2> QED
    BY <1>1, <1>8, <2>1 DEF FirstSeqID
<1>12. /\ Len(d.out) = m + n
       /\ \A i \in 1 .. m : d.out[i] = c.out[i]
       /\ \A j \in 1 .. n : d.out[m + j] = new[j]
  <2>1. d.out = c.out \o new
    BY <1>1, <1>4 DEF PoolRead
  <2>2. new \in Seq([seqID : Nat, body : Nat])
    BY <1>5
  <2> QED
    <3>1. PICK S : S = [seqID : Nat, body : Nat]
      OBVIOUS
    <3>2. PICK u \in Seq(S) : u = c.out
      BY <1>6, <3>1
    <3>3. new \in Seq(S) /\ m = Len(u) /\ n = Len(new)
      BY <1>7, <2>2, <3>1, <3>2, Zenon
    <3>4. /\ Len(u \o new) = m + n
          /\ \A i \in 1 .. m : (u \o new)[i] = u[i]
          /\ \A j \in 1 .. n : (u \o new)[m + j] = new[j]
      BY <3>2, <3>3, ConcatOf
    <3> QED
      BY <2>1, <3>2, <3>4, Zenon
<1>13. SnapshotLogCount > 0 => L <= SnapshotLogCount
  BY <1>2, PoolSizes
<1>14. Faithful(d)
  <2> SUFFICES ASSUME NEW i \in 1 .. (m + n)
               PROVE  /\ d.out[i].seqID = first + (i - 1)
                      /\ IdOf(d.out[i].seqID) < Len(PoolLogs(PoolOf(d.out[i].seqID)))
                      /\ d.out[i].body = LogAt(d.out[i].seqID).body
    BY <1>9, <1>12 DEF Faithful
  <2>1. CASE i <= m
    <3>1. i \in 1 .. m
      BY <2>1
    <3>2. d.out[i] = c.out[i] /\ i \in 1 .. Len(c.out)
      BY <1>7, <1>12, <3>1, Zenon
    <3> QED
      BY <1>8, <3>2 DEF CallOK, Faithful
  <2>2. CASE i > m
    <3>1. PICK j \in 1 .. n : i = m + j
      <4>1. i - m \in 1 .. n /\ i = m + (i - m)
        BY <2>2
      <4> QED
        BY <4>1
    <3>2. d.out[i].seqID = base + idx + (j - 1) /\ d.out[i].body = PoolLogs(k)[idx + j].body
      <4>1. d.out[i] = new[j] /\ j \in 1 .. Len(new)
        BY <1>7, <1>12, <3>1, Zenon
      <4> QED
        BY <1>5, <4>1, Zenon
    <3>3. idx < L /\ n = L - idx
      BY <1>17, <1>18, <3>1
    <3>4. PICK x \in Nat : x = idx + (j - 1)
      BY <3>1
    <3>5. x < L /\ x + 1 = idx + j
      BY <1>17, <1>18, <3>3, <3>4
    <3>6. IF SnapshotLogCount = 0 THEN k = 0 ELSE x < SnapshotLogCount
      BY <1>18, <1>10, <1>13, <3>4, <3>5, SyncerAssumption
    <3>7. PICK q \in Nat : q = base + x
      BY <1>18
    <3>8. PoolOf(q) = k /\ IdOf(q) = x
      <4>1. q = k * SnapshotLogCount + x
        BY <1>3, <3>7
      <4> QED
        BY <3>6, <4>1, Join
    <3>9. d.out[i].seqID = q
      BY <1>18, <3>2, <3>4, <3>7
    <3>10. q = first + (i - 1)
      BY <1>18, <1>10, <1>11, <3>1, <3>4, <3>7
    <3>11. LogAt(q) = PoolLogs(k)[idx + j]
      BY <3>5, <3>8 DEF LogAt
    <3> QED
      BY <1>2, <3>2, <3>5, <3>8, <3>9, <3>10, <3>11
  <2> QED
    BY <2>1, <2>2
<1>15. Complete(d)
  <2>1. CASE c.pool < c.last
    BY <2>1 DEF Complete, PoolRead, Call
  <2>2. CASE ~(k < last)
    <3>1. first + (m + n) >= base + L
      BY <1>17, <1>18, <1>10, <1>11
    <3>2. base + L >= floor
      <4>1. CASE k = last
        BY <1>2, <1>3, <1>10, <4>1
      <4>2. CASE k > last
        <5>1. SnapshotLogCount > 0
          BY <1>10, <4>2, SyncerAssumption
        <5>2. PICK z \in Nat : z = last * SnapshotLogCount
          BY SyncerAssumption
        <5>3. base >= z + SnapshotLogCount
          <6>1. PICK y \in Nat : k = last + 1 + y
            <7>1. k - last - 1 \in Nat /\ k = last + 1 + (k - last - 1)
              BY <4>2
            <7> QED
              BY <7>1
          <6>2. y * SnapshotLogCount \in Nat
            BY SyncerAssumption
          <6>3. base = z + SnapshotLogCount + y * SnapshotLogCount
            BY <1>3, <5>2, <6>1, SyncerAssumption
          <6> QED
            BY <5>2, <6>2, <6>3, SyncerAssumption
        <5>4. PICK w \in Nat : w = Len(PoolLogs(last)) /\ w <= SnapshotLogCount
          BY <5>1, PoolSizes
        <5>5. floor <= z + w
          BY <1>10, <5>2, <5>4
        <5> QED
          BY <1>18, <5>2, <5>3, <5>4, <5>5, SyncerAssumption
      <4> QED
        BY <2>2, <4>1, <4>2
    <3>3. first + (m + n) >= floor
      BY <1>18, <1>11, <3>1, <3>2, <1>1
    <3> QED
      BY <1>1, <1>9, <1>12, <3>3 DEF Complete, PoolRead
  <2> QED
    BY <1>1, <2>1, <2>2
<1>16. OnItsWay(d)
  <2>1. CASE k < last
    <3>1. SnapshotLogCount > 0
      BY <1>10, <2>1, SyncerAssumption
    <3>2. L = SnapshotLogCount
      <4>1. NextSlot(kv).pool \in Nat
        BY NextSlotType DEF IInv, TypeOK, AppendTypeOK
      <4>2. k < NextSlot(kv).pool
        BY <1>10, <2>1, <4>1
      <4> QED
        BY <1>2, <4>2, PoolSizes
    <3>3. base + SnapshotLogCount = first + (m + n)
      BY <1>17, <1>18, <1>10, <1>11, <3>1, <3>2, SyncerAssumption
    <3>4. (k + 1) * SnapshotLogCount + 0 = base + SnapshotLogCount
      BY <1>3, <1>18, SyncerAssumption
    <3>5. d.pc = "pools" /\ d.pool = k + 1 /\ d.idx = 0
      BY <1>1, <2>1 DEF PoolRead
    <3>6. d.pool * SnapshotLogCount + d.idx = FirstSeqID(d) + Len(d.out)
      BY <1>9, <1>12, <3>3, <3>4, <3>5
    <3>7. d.last = last /\ d.floor = floor
      BY <1>1 DEF PoolRead
    <3> QED
      BY <1>10, <3>1, <3>5, <3>6, <3>7 DEF OnItsWay
  <2>2. CASE ~(k < last)
    BY <1>1, <2>2 DEF OnItsWay, PoolRead
  <2> QED
    BY <2>1, <2>2
<1> QED
  BY <1>14, <1>15, <1>16 DEF CallOK

-----------------------------------------------------------------------------
(* Every call, always. *)

CallsOK == \A r \in Readers : CallOK(rd[r])

(* A call that has not begun is right. *)
LEMMA IdleOK == CallOK(IdleCall) /\ IdleCall \in Call
<1>1. IdleCall.out = <<>> /\ IdleCall.pc = "idle"
  BY DEF IdleCall
<1>2. Len(IdleCall.out) = 0 /\ 1 .. Len(IdleCall.out) = {}
  BY <1>1
<1>3. IdleCall \in Call
  BY EmptySeq DEF IdleCall, Call
<1> QED
  BY <1>1, <1>2, <1>3 DEF CallOK, Faithful, Complete, OnItsWay

(* A step of one call leaves the disk alone.                                *)
LEMMA ReadStepOK ==
  ASSUME IInv, CallsOK, NEW r \in Readers, ReadStep(r)
  PROVE  CallsOK'
<1>1. rd \in [Readers -> Call]
  BY DEF IInv, TypeOK
<1>2. \A c : CallOK(c)' <=> CallOK(c)
  <2>1. UNCHANGED <<kv, pools>>
    BY DEF ReadStep, ReadBegin, ReadSnapshot, ReadPool, disk
  <2> QED
    BY <2>1 DEF CallOK, Faithful, Complete, OnItsWay, FirstSeqID, IdOf, PoolOf, LogAt,
       PoolLogs, NextSlot
<1>3. \A q \in Readers \ {r} : rd'[q] = rd[q]
  BY <1>1 DEF ReadStep, ReadBegin, ReadSnapshot, ReadPool
<1>4. PICK c \in Call : c = rd[r] /\ CallOK(c)
  BY <1>1 DEF CallsOK
<1>5. PICK d : d = rd'[r]
  OBVIOUS
<1>6. CallOK(d)
  <2>1. CASE \E from \in 0 .. MaxLogs : ReadBegin(r, from)
    <3>1. PICK from \in Nat : ReadBegin(r, from)
      BY <2>1, SyncerAssumption
    <3> QED
      BY <1>1, <1>5, <3>1, CallBegins
  <2>2. CASE ReadSnapshot(r)
    <3>1. /\ c.pc = "snapshot"
          /\ \/ d = [c EXCEPT !.pc = "pools"]
             \/ d = [c EXCEPT !.pc = "pools", !.pool = c.last, !.snap = LastSnapshot(c.last)]
                /\ LastSnapshot(c.last) # None
             \/ d = [c EXCEPT !.pc = "failed"]
      BY <1>1, <1>4, <1>5, <2>2 DEF ReadSnapshot
    <3>2. c.out = <<>>
      BY <1>4, <3>1 DEF CallOK, OnItsWay
    <3>3. /\ d.out = <<>> /\ d.last = c.last /\ d.from = c.from /\ d.idx = c.idx
          /\ d.floor = c.floor /\ d.pc \in {"failed", "pools"}
          /\ \/ d.snap = c.snap /\ d.pool = c.pool
             \/ d.snap # None /\ d.pool = c.last
      BY <3>1, <3>2 DEF Call
    <3> QED
      BY <1>4, <3>1, <3>3, CallTakesSnapshot
  <2>3. CASE ReadPool(r)
    <3>1. /\ c.pc = "pools"
          /\ d = IF c.pool < c.last
                 THEN [c EXCEPT !.out = c.out \o Numbered(c.pool, c.idx), !.pool = c.pool + 1,
                                !.idx = 0]
                 ELSE [c EXCEPT !.out = c.out \o Numbered(c.pool, c.idx), !.pc = "done"]
      BY <1>1, <1>4, <1>5, <2>3 DEF ReadPool, Numbered
    <3>2. PoolRead(c, d)
      BY <3>1 DEF Call, PoolRead
    <3> QED
      BY <1>4, <3>1, <3>2, CallReadsPool
  <2> QED
    BY <2>1, <2>2, <2>3 DEF ReadStep
<1> QED
  BY <1>2, <1>3, <1>5, <1>6 DEF CallsOK

(* Every step of the system keeps every call right. *)
LEMMA NextCallsOK ==
  ASSUME IInv, CallsOK, Next
  PROVE  CallsOK'
<1>1. rd \in [Readers -> Call]
  BY DEF IInv, TypeOK
<1>2. CASE UNCHANGED rd
  <2>1. ASSUME NEW r \in Readers
        PROVE  CallOK(rd[r])'
    <3>1. PICK c \in Call : c = rd[r] /\ CallOK(c)
      BY <1>1 DEF CallsOK
    <3>2. CallOK(c)'
      BY <3>1, CallsUndisturbed
    <3>3. rd'[r] = c
      BY <1>2, <3>1
    <3> QED
      BY <3>2, <3>3, Zenon DEF CallOK, Faithful, Complete, OnItsWay, FirstSeqID
  <2> QED
    BY <2>1 DEF CallsOK
<1>3. CASE \E r \in Readers : ReadStep(r)
  BY <1>3, ReadStepOK
<1>4. CASE Restart
  <2>1. \A r \in Readers : rd'[r] = IdleCall
    BY <1>4 DEF Restart
  <2>2. CallOK(IdleCall)'
    BY IdleOK, CallsUndisturbed
  <2> QED
    BY <2>1, <2>2 DEF CallsOK
<1>5. AppendStep \/ BuildStep => UNCHANGED rd
  BY DEF AppendStep, BeginAppend, RecoverNothing, RecoverOtherPool, RecoverDiscard,
     RecoverCommit, RecoverClear, RecoverFail, CallbackError, PreLog, AddRecordLog,
     AddRecordLogError, SaveIndex, EndAppend, BuildStep, BuildTake, BuildSkip, BuildApply,
     BuildStore
<1> QED
  BY <1>2, <1>3, <1>4, <1>5 DEF Next

(* GetAllLogs gives the right logs under the right numbers, and all that    *)
(* were committed when it began, whatever runs beside it: for every pool    *)
(* size and any number of calls.                                            *)
THEOREM ReadsExact == Spec => []ReadExact
<1>1. Init => CallsOK
  BY IdleOK DEF Init, CallsOK
<1>2. IInv /\ CallsOK /\ [Next]_vars => CallsOK'
  <2>1. ASSUME UNCHANGED vars, CallsOK, NEW r \in Readers
        PROVE  CallOK(rd[r])'
    <3>1. UNCHANGED <<kv, pools, rd>>
      BY <2>1 DEF vars, disk, mem
    <3>2. PICK c : c = rd[r] /\ CallOK(c)
      BY <2>1 DEF CallsOK
    <3>3. /\ \A k : PoolLogs(k)' = PoolLogs(k)
          /\ \A n : PoolOf(n)' = PoolOf(n) /\ IdOf(n)' = IdOf(n)
          /\ NextSlot(kv)' = NextSlot(kv) /\ FirstSeqID(c)' = FirstSeqID(c)
      BY <3>1 DEF PoolLogs, PoolOf, IdOf, NextSlot, FirstSeqID
    <3>4. Faithful(c)'
      BY <3>2, <3>3 DEF CallOK, Faithful, LogAt
    <3>5. Complete(c)' /\ OnItsWay(c)'
      BY <3>2, <3>3 DEF CallOK, Complete, OnItsWay
    <3>6. CallOK(c)' /\ rd'[r] = c
      BY <3>1, <3>2, <3>4, <3>5 DEF CallOK
    <3> QED
      BY <3>6, Zenon DEF CallOK, Faithful, Complete, OnItsWay, FirstSeqID
  <2>2. UNCHANGED vars /\ CallsOK => CallsOK'
    BY <2>1 DEF CallsOK
  <2> QED
    BY <2>2, NextCallsOK
<1>3. CallsOK => ReadExact
  BY DEF CallsOK, CallOK, Faithful, Complete, ReadExact, ReadFaithful, ReadComplete
<1> QED
  BY <1>1, <1>2, <1>3, SyncerInvariant, PTL DEF Spec

(***************************************************************************)
(* Proof that the syncer implements the append-only log of AppendLog, for  *)
(* every pool size (0 included), with and without restarts and I/O errors: *)
(* AddRecordLog is the write, the saving of the cursor - by the append or  *)
(* by the recovery after a restart - is the commit, and every other step   *)
(* is none.                                                                *)
(***************************************************************************)

-----------------------------------------------------------------------------
(* The whole log. *)

(* The numbers below Total are those that can be read.                      *)
LEMMA Readable ==
  ASSUME IInv
  PROVE  /\ Total \in Nat
         /\ \A n \in Nat : n < Total =>
              IdOf(n) < Len(PoolLogs(PoolOf(n))) /\ LogAt(n).body \in Nat
<1>1. PICK s \in Slot : s = NextSlot(kv)
  BY NextSlotType DEF IInv, TypeOK, AppendTypeOK
<1>2. PICK base \in Nat, L \in Nat : base = s.pool * SnapshotLogCount /\ L = Len(PoolLogs(s.pool))
  <2>1. s.pool * SnapshotLogCount \in Nat
    BY SyncerAssumption
  <2>2. Len(PoolLogs(s.pool)) \in Nat
    BY PoolSizes
  <2> QED
    BY <2>1, <2>2
<1>3. Total = base + L
  BY <1>1, <1>2 DEF Total
<1>4. SnapshotLogCount > 0 => L <= SnapshotLogCount
  BY <1>2, PoolSizes
<1>5. SnapshotLogCount = 0 => s.pool = 0
  BY <1>1 DEF NextSlot
<1>6. ASSUME NEW n \in Nat, n < Total
      PROVE  IdOf(n) < Len(PoolLogs(PoolOf(n)))
  <2>1. PICK k \in Nat, i \in Nat : k = PoolOf(n) /\ i = IdOf(n)
    BY Split
  <2>2. n = k * SnapshotLogCount + i /\ (SnapshotLogCount > 0 => i < SnapshotLogCount)
    BY <2>1, Split
  <2>3. CASE SnapshotLogCount = 0
    <3>1. k = 0 /\ i = n
      BY <2>1, <2>3 DEF PoolOf, IdOf
    <3>2. base = 0
      <4>1. 0 * SnapshotLogCount + 0 = 0
        BY FirstPool
      <4> QED
        BY <1>2, <1>5, <2>3, <4>1
    <3> QED
      BY <1>2, <1>3, <1>5, <1>6, <2>1, <2>3, <3>1, <3>2
  <2>4. CASE SnapshotLogCount > 0
    <3>1. k <= s.pool
      <4> SUFFICES ASSUME k > s.pool
                   PROVE  FALSE
        OBVIOUS
      <4>1. PICK y \in Nat : k = s.pool + 1 + y
        <5>1. k - s.pool - 1 \in Nat /\ k = s.pool + 1 + (k - s.pool - 1)
          OBVIOUS
        <5> QED
          BY <5>1
      <4>2. y * SnapshotLogCount \in Nat
        BY SyncerAssumption
      <4>3. k * SnapshotLogCount = base + SnapshotLogCount + y * SnapshotLogCount
        BY <1>2, <4>1, SyncerAssumption
      <4> QED
        BY <1>3, <1>4, <1>6, <2>2, <2>4, <4>2, <4>3, SyncerAssumption
    <3>2. CASE k < s.pool
      <4>1. Len(PoolLogs(k)) = SnapshotLogCount
        BY <1>1, <3>2, PoolSizes
      <4> QED
        BY <2>1, <2>2, <2>4, <4>1
    <3>3. CASE k = s.pool
      <4>1. n = base + i
        BY <1>2, <2>2, <3>3
      <4>2. i < L
        BY <1>3, <1>6, <4>1
      <4> QED
        BY <1>2, <2>1, <3>3, <4>2
    <3> QED
      BY <3>1, <3>2, <3>3
  <2> QED
    BY <2>3, <2>4, SyncerAssumption
<1>7. ASSUME NEW n \in Nat, n < Total
      PROVE  LogAt(n).body \in Nat
  <2>1. PICK k \in Nat, i \in Nat : k = PoolOf(n) /\ i = IdOf(n)
    BY Split
  <2>2. i < Len(PoolLogs(k)) /\ LogAt(n) = PoolLogs(k)[i + 1]
    BY <1>6, <1>7, <2>1 DEF LogAt
  <2>3. PoolLogs(k) \in Seq(Log) /\ Len(PoolLogs(k)) \in Nat
    BY PoolSizes
  <2>4. LogAt(n) \in Log
    <3> HIDE DEF Log
    <3> QED
      BY <2>2, <2>3, ElementOfSeq
  <2> QED
    BY <2>4
<1> QED
  BY <1>3, <1>6, <1>7

WholeLogOK ==
  /\ WholeLog \in Seq(Nat) /\ Len(WholeLog) = Total /\ Total \in Nat
  /\ \A n \in 1 .. Total : WholeLog[n] = LogAt(n - 1).body

(* The mapped log has a body for each number below Total, before a step and after. *)
LEMMA WholeLogType == IInv => WholeLogOK
<1> SUFFICES ASSUME IInv
             PROVE  WholeLogOK
  OBVIOUS
<1>1. PICK t \in Nat : t = Total
  BY Readable
<1>2. \A n \in 1 .. t : LogAt(n - 1).body \in Nat
  BY <1>1, Readable
<1>3. WholeLog = [n \in 1 .. t |-> LogAt(n - 1).body]
  BY <1>1 DEF WholeLog
<1>4. WholeLog \in [1 .. t -> Nat] /\ \A n \in 1 .. t : WholeLog[n] = LogAt(n - 1).body
  BY <1>2, <1>3, Zenon
<1>5. WholeLog \in Seq(Nat) /\ Len(WholeLog) = t
  BY <1>4, SeqOfFunction
<1> QED
  BY <1>1, <1>4, <1>5 DEF WholeLogOK

LEMMA WholeLogTypeNext == IInv' => WholeLogOK'
BY WholeLogType, PTL

-----------------------------------------------------------------------------
(* The log that is written is one of those handed in. *)
IssuedOK ==
  /\ issued <= MaxLogs
  /\ stage = "prelogged" => pending.log.body \in 1 .. MaxLogs

(* It stays one of those. *)
LEMMA NextIssuedOK ==
  ASSUME IInv, IssuedOK, [Next]_vars
  PROVE  IssuedOK'
<1>1. issued \in Nat /\ MaxLogs \in Nat
  BY SyncerAssumption DEF IInv, TypeOK, AppendTypeOK
<1>2. CASE UNCHANGED vars
  BY <1>2 DEF vars, mem, IssuedOK
<1>3. ASSUME NEW seqID \in GivenSeqIDs, PreLog(seqID)
      PROVE  IssuedOK'
  <2>1. issued' = issued + 1 /\ issued < MaxLogs
    BY <1>3 DEF PreLog
  <2>2. CASE stage' = "prelogged"
    <3>1. pending'.log.body = issued + 1
      BY <1>3, <2>2 DEF PreLog
    <3> QED
      BY <1>1, <2>1, <3>1 DEF IssuedOK
  <2>3. CASE stage' # "prelogged"
    BY <1>1, <2>1, <2>3 DEF IssuedOK
  <2> QED
    BY <2>2, <2>3
<1>4. CASE \E r \in Readers : ReadStep(r)
  BY <1>4 DEF ReadStep, ReadBegin, ReadSnapshot, ReadPool, mem, IssuedOK
<1>5. CASE BuildStep
  BY <1>5 DEF BuildStep, BuildTake, BuildSkip, BuildApply, BuildStore, mem, IssuedOK
<1>6. CASE AppendStep /\ ~\E seqID \in GivenSeqIDs : PreLog(seqID)
  <2>1. UNCHANGED issued /\ stage' # "prelogged"
    BY <1>6 DEF AppendStep, BeginAppend, RecoverNothing, RecoverOtherPool, RecoverDiscard,
       RecoverCommit, RecoverClear, RecoverFail, CallbackError, AddRecordLog,
       AddRecordLogError, SaveIndex, EndAppend
  <2> QED
    BY <2>1 DEF IssuedOK
<1>7. CASE Restart
  BY <1>7 DEF Restart, IssuedOK
<1> QED
  BY <1>2, <1>3, <1>4, <1>5, <1>6, <1>7 DEF Next, AppendStep

-----------------------------------------------------------------------------
(* Steps of the abstract log. *)

(* A sequence longer by one that begins with another is that with its last appended. *)
LEMMA AppendedSeq ==
  ASSUME NEW u \in Seq(Nat), NEW v \in Seq(Nat), NEW b \in Nat, NEW t \in Nat,
         Len(u) = t, Len(v) = t + 1, \A n \in 1 .. t : v[n] = u[n], v[t + 1] = b
  PROVE  v = Append(u, b)
<1>1. /\ Append(u, b) \in Seq(Nat) /\ Len(Append(u, b)) = t + 1
      /\ \A n \in 1 .. t : Append(u, b)[n] = u[n]
      /\ Append(u, b)[t + 1] = b
  BY AppendProperties
<1>2. \A n \in 1 .. (t + 1) : v[n] = Append(u, b)[n]
  BY <1>1
<1> QED
  BY <1>1, <1>2, SeqEqual

(* The syncer begins as one empty log. *)
LEMMA InitMaps ==
  ASSUME Init
  PROVE  Abstract!Init
<1>1. kv = [pool |-> 0, id |-> 0] /\ pools = <<>>
  BY DEF Init
<1>2. NextSlot(kv) = [pool |-> 0, id |-> 0]
  BY <1>1, SyncerAssumption DEF NextSlot
<1>3. PoolLogs(0) = <<>>
  BY <1>1 DEF PoolLogs
<1>4. 0 * SnapshotLogCount + 0 = 0
  BY FirstPool
<1>5. Total = 0 /\ Pos(kv) = 0
  BY <1>1, <1>2, <1>3, <1>4 DEF Total, Pos
<1>6. WholeLog = <<>>
  BY <1>5 DEF WholeLog
<1> QED
  BY <1>5, <1>6 DEF Abstract!Init

(* Steps that leave the pools and the cursor alone.                         *)
LEMMA StutterMaps ==
  ASSUME UNCHANGED <<kv, pools>>
  PROVE  UNCHANGED <<WholeLog, Pos(kv)>>
<1>1. \A k : PoolLogs(k)' = PoolLogs(k)
  BY DEF PoolLogs
<1>2. Total' = Total
  BY <1>1 DEF Total, NextSlot
<1>3. \A n : LogAt(n)' = LogAt(n)
  BY <1>1 DEF LogAt, PoolOf, IdOf
<1> QED
  BY <1>2, <1>3 DEF WholeLog, Pos

(* AddRecordLog writes at the end, and finds all that is there committed.   *)
LEMMA WriteMaps ==
  ASSUME IInv, IssuedOK, Next, AddRecordLog
  PROVE  Abstract!Write
<1>1. PICK s \in Slot : s = NextSlot(kv)
  BY NextSlotType DEF IInv, TypeOK, AppendTypeOK
<1>2. PICK b \in 1 .. MaxLogs : b = pending.log.body
  BY DEF IssuedOK, AddRecordLog
<1>3. /\ Len(PoolLogs(s.pool)) = s.id /\ Len(PoolLogs(s.pool)') = s.id + 1
      /\ PoolLogs(s.pool)'[s.id + 1].body = b
  BY <1>1, <1>2, AddEffect DEF IInv, TypeOK
<1>4. UNCHANGED kv
  BY DEF AddRecordLog
<1>5. PICK t \in Nat : t = s.pool * SnapshotLogCount + s.id
  BY SyncerAssumption
<1>6. Total = t /\ Pos(kv) = t
  BY <1>1, <1>3, <1>5, SamePosition DEF Total, Pos
<1>7. Total' = t + 1 /\ Pos(kv)' = t
  <2>1. NextSlot(kv)' = s
    BY <1>1, <1>4 DEF NextSlot
  <2>2. Total' = s.pool * SnapshotLogCount + (s.id + 1)
    BY <1>3, <2>1 DEF Total
  <2>3. s.pool * SnapshotLogCount \in Nat
    BY SyncerAssumption
  <2> QED
    BY <1>4, <1>5, <1>6, <2>2, <2>3 DEF Pos
<1>8. /\ WholeLog \in Seq(Nat) /\ Len(WholeLog) = t
      /\ \A n \in 1 .. t : WholeLog[n] = LogAt(n - 1).body
  BY <1>6, WholeLogType DEF WholeLogOK
<1>9. /\ WholeLog' \in Seq(Nat) /\ Len(WholeLog') = t + 1
      /\ \A n \in 1 .. (t + 1) : WholeLog'[n] = LogAt(n - 1)'.body
  <2>1. IInv'
    BY NextIInv
  <2>2. /\ WholeLog' \in Seq(Nat) /\ Len(WholeLog') = Total'
        /\ \A n \in 1 .. Total' : WholeLog'[n] = LogAt(n - 1)'.body
    BY <2>1, WholeLogTypeNext DEF WholeLogOK
  <2> QED
    BY <1>7, <2>2
<1>10. \A n \in 1 .. t : WholeLog'[n] = WholeLog[n]
  <2> SUFFICES ASSUME NEW n \in 1 .. t
               PROVE  WholeLog'[n] = WholeLog[n]
    OBVIOUS
  <2>1. PICK q \in Nat : q = n - 1 /\ q < t
    BY <1>6
  <2>2. LogAt(q)' = LogAt(q)
    BY <1>6, <2>1, Readable, LogsStay
  <2>3. n \in 1 .. (t + 1)
    OBVIOUS
  <2>4. WholeLog'[n] = LogAt(q)'.body /\ WholeLog[n] = LogAt(q).body
    BY <1>8, <1>9, <2>1, <2>3
  <2> QED
    BY <2>2, <2>4
<1>11. WholeLog'[t + 1] = b
  <2>1. IF SnapshotLogCount = 0 THEN s.pool = 0 ELSE s.id < SnapshotLogCount
    BY <1>1, SyncerAssumption DEF NextSlot
  <2>2. PoolOf(t) = s.pool /\ IdOf(t) = s.id
    BY <1>5, <2>1, Join
  <2>3. LogAt(t)' = PoolLogs(s.pool)'[s.id + 1]
    BY <2>2 DEF LogAt, PoolOf, IdOf
  <2>4. t + 1 \in 1 .. (t + 1) /\ (t + 1) - 1 = t
    OBVIOUS
  <2>5. WholeLog'[t + 1] = LogAt(t)'.body
    BY <1>9, <2>4
  <2> QED
    BY <1>3, <2>3, <2>5
<1>12. WholeLog' = Append(WholeLog, b)
  <2>1. b \in Nat
    BY SyncerAssumption
  <2>2. PICK u \in Seq(Nat), v \in Seq(Nat) : u = WholeLog /\ v = WholeLog'
    BY <1>8, <1>9
  <2> QED
    BY <1>8, <1>9, <1>10, <1>11, <2>1, <2>2, AppendedSeq
<1>13. WholeLog' # WholeLog
  BY <1>8, <1>9
<1> QED
  BY <1>4, <1>6, <1>7, <1>8, <1>12, <1>13 DEF Abstract!Write

(* Saving the cursor commits the log that was written.                      *)
LEMMA CommitMaps ==
  ASSUME IInv, Next, CommitNext
  PROVE  Abstract!Commit
<1>1. PICK s \in Slot : s = NextSlot(kv)
  BY NextSlotType DEF IInv, TypeOK, AppendTypeOK
<1>2. /\ kv' = After(s) /\ UNCHANGED pools /\ s.id < Len(PoolLogs(s.pool))
      /\ After(s) \in Slot /\ After(s).pool = s.pool /\ After(s).id = s.id + 1
  BY <1>1, AfterType DEF CommitNext, SavePoolIndex
<1>3. \A k : PoolLogs(k)' = PoolLogs(k)
  BY <1>2 DEF PoolLogs
<1>4. Len(PoolLogs(s.pool)) = s.id + 1
  <2>1. Len(PoolLogs(s.pool)) = s.id \/ Len(PoolLogs(s.pool)) = s.id + 1
    BY <1>1 DEF IInv, PoolsDense
  <2> QED
    BY <1>2, <2>1
<1>5. PICK base \in Nat : base = s.pool * SnapshotLogCount
  BY SyncerAssumption
<1>6. Total = base + s.id + 1 /\ Pos(kv) = base + s.id /\ Pos(kv)' = base + s.id + 1
  <2>1. Total = base + (s.id + 1)
    BY <1>1, <1>4, <1>5 DEF Total
  <2>2. Pos(kv) = base + s.id
    BY <1>1, <1>5, SamePosition DEF Pos
  <2>3. Pos(kv)' = base + (s.id + 1)
    BY <1>2, <1>5 DEF Pos
  <2> QED
    BY <2>1, <2>2, <2>3
<1>7. Total' = Total
  <2>1. NextSlot(kv)' = IF SnapshotLogCount = 0 THEN [pool |-> 0, id |-> s.id + 1]
                        ELSE IF s.id + 1 < SnapshotLogCount THEN After(s)
                        ELSE [pool |-> s.pool + 1, id |-> 0]
    BY <1>2 DEF NextSlot
  <2>2. SnapshotLogCount = 0 => s.pool = 0
    BY <1>1 DEF NextSlot
  <2>3. CASE NextSlot(kv)'.pool = s.pool
    BY <1>1, <1>3, <2>3 DEF Total
  <2>4. CASE NextSlot(kv)'.pool # s.pool
    <3>1. SnapshotLogCount > 0 /\ ~(s.id + 1 < SnapshotLogCount) /\ NextSlot(kv)'.pool = s.pool + 1
      BY <1>2, <2>1, <2>2, <2>4, SyncerAssumption
    <3>2. s.id + 1 = SnapshotLogCount
      <4>1. s.id < SnapshotLogCount
        BY <1>1, <3>1, SyncerAssumption DEF NextSlot
      <4> QED
        BY <3>1, <4>1, SyncerAssumption
    <3>3. Len(PoolLogs(s.pool + 1)) = 0
      <4>1. s.pool + 1 \in DOMAIN pools => pools[s.pool + 1] = <<>>
        BY <1>1 DEF IInv, PoolsDense
      <4>2. PoolLogs(s.pool + 1) = <<>>
        BY <4>1 DEF PoolLogs
      <4> QED
        BY <4>2
    <3>4. (s.pool + 1) * SnapshotLogCount = base + SnapshotLogCount
      BY <1>5, SyncerAssumption
    <3>5. Total' = (s.pool + 1) * SnapshotLogCount + Len(PoolLogs(s.pool + 1))
      BY <1>3, <3>1 DEF Total
    <3> QED
      BY <1>6, <3>2, <3>3, <3>4, <3>5, SyncerAssumption
  <2> QED
    BY <2>3, <2>4
<1>8. WholeLog' = WholeLog
  <2>1. \A n : LogAt(n)' = LogAt(n)
    BY <1>3 DEF LogAt, PoolOf, IdOf
  <2> QED
    BY <1>7, <2>1 DEF WholeLog
<1>9. Len(WholeLog) = Total
  BY WholeLogType DEF WholeLogOK
<1> QED
  BY <1>6, <1>8, <1>9 DEF Abstract!Commit

(* Every step is an append, a commit or no step of the one log. *)
LEMMA StepMaps ==
  ASSUME IInv, IssuedOK, [Next]_vars
  PROVE  [Abstract!Next]_<<WholeLog, Pos(kv)>>
<1>1. CASE UNCHANGED vars
  BY <1>1, StutterMaps DEF vars, disk
<1>2. CASE Next /\ AddRecordLog
  BY <1>2, WriteMaps DEF Abstract!Next
<1>3. CASE Next /\ CommitNext
  BY <1>3, CommitMaps DEF Abstract!Next
<1>4. CASE Next /\ ~AddRecordLog /\ ~CommitNext
  <2>1. UNCHANGED kv
    BY <1>4, CursorMoves
  <2>2. UNCHANGED pools
    BY <1>4 DEF Next, AppendStep, BeginAppend, RecoverNothing, RecoverOtherPool,
       RecoverDiscard, RecoverCommit, RecoverClear, RecoverFail, CallbackError,
       PreLog, AddRecordLogError, SaveIndex, EndAppend, BuildStep, BuildTake,
       BuildSkip, BuildApply, BuildStore, ReadStep, ReadBegin, ReadSnapshot,
       ReadPool, Restart, disk
  <2> QED
    BY <2>1, <2>2, StutterMaps
<1> QED
  BY <1>1, <1>2, <1>3, <1>4

(* Every step of the syncer, restarts and failures included, is a write, a  *)
(* commit or no step of the one append-only log.                            *)
THEOREM SyncerRefines == Spec => ImplementsAppendLog
<1>1. Init => IssuedOK
  BY SyncerAssumption DEF Init, IssuedOK
<1>2. Init => Abstract!Init
  BY InitMaps
<1> QED
  BY <1>1, <1>2, NextIssuedOK, StepMaps, SyncerInvariant, PTL
     DEF Spec, ImplementsAppendLog, Abstract!Spec

(***************************************************************************)
(* Proof that a client that starts from nothing misses nothing.            *)
(***************************************************************************)

-----------------------------------------------------------------------------
(* The requests for snapshots. *)

\* The pools whose snapshot is asked for and not yet stored or given up.
Outstanding ==
  {queue[i] : i \in 1 .. Len(queue)}
    \cup (IF builder.pc = "idle" THEN {} ELSE {builder.pool})

\* Every pool that was left has its snapshot or a request for it: no request
\* found the queue full, no restart dropped one, no build gave up.
NoRequestLost == \A k \in 0 .. (openPool - 1) : k \in DOMAIN snaps \cup Outstanding

\* The requests are for pools that were left, in the order they were left.
InOrder ==
  /\ \A i \in 1 .. Len(queue) : queue[i] < openPool
  /\ \A i, j \in 1 .. Len(queue) : i < j => queue[i] < queue[j]
  /\ builder.pc # "idle" =>
       builder.pool < openPool /\ \A i \in 1 .. Len(queue) : builder.pool < queue[i]

\* What was left, is stored or is being read lies before the next slot's pool.
BeforeNext ==
  /\ openPool <= NextSlot(kv).pool
  /\ \A k \in DOMAIN snaps : k < NextSlot(kv).pool
  /\ \A r \in Readers : rd[r].last <= NextSlot(kv).pool

RequestsOK == InOrder /\ BeforeNext

(* The next slot is in the cursor's pool or in a later one, one step on too. *)
LEMMA NextPool == ASSUME IInv PROVE NextSlot(kv).pool \in Nat /\ kv.pool <= NextSlot(kv).pool
<1>1. PICK c \in Slot : c = kv
  BY DEF IInv, TypeOK, AppendTypeOK
<1>2. SnapshotLogCount = 0 => c.pool = 0
  BY <1>1 DEF IInv, CursorOK
<1>3. NextSlot(c).pool = IF SnapshotLogCount = 0 THEN 0
                         ELSE IF c.id < SnapshotLogCount THEN c.pool ELSE c.pool + 1
  BY DEF NextSlot
<1>4. c.pool \in Nat
  OBVIOUS
<1> QED
  BY <1>1, <1>2, <1>3, <1>4

LEMMA NextPoolAfter == ASSUME IInv' PROVE NextSlot(kv)'.pool \in Nat
<1>1. kv' \in Slot
  BY DEF IInv, TypeOK, AppendTypeOK
<1> QED
  BY <1>1, SyncerAssumption DEF NextSlot

(* An append goes to the pool of the next slot or stays where it is.        *)
LEMMA AppendOpens ==
  ASSUME IInv, AppendStep
  PROVE  /\ UNCHANGED <<snaps, builder, rd>>
         /\ UNCHANGED <<openPool, queue>> \/ MustLogPool(NextSlot(kv).pool)
<1>0. cursor = kv
  BY DEF IInv, CursorOK
<1>1. UNCHANGED <<snaps, builder, rd>>
  BY DEF AppendStep, BeginAppend, RecoverNothing, RecoverOtherPool, RecoverDiscard,
     RecoverCommit, RecoverClear, RecoverFail, CallbackError, PreLog, AddRecordLog,
     AddRecordLogError, SaveIndex, EndAppend, disk
<1>2. ASSUME NEW seqID \in GivenSeqIDs, PreLog(seqID)
      PROVE  MustLogPool(NextSlot(kv).pool)
  BY <1>0, <1>2 DEF PreLog
<1>3. RecoverDiscard => MustLogPool(NextSlot(kv).pool)
  BY <1>0 DEF RecoverDiscard
<1>4. RecoverCommit => MustLogPool(NextSlot(kv).pool)
  BY <1>0 DEF RecoverCommit
<1>5. RecoverFail => UNCHANGED <<openPool, queue>> \/ MustLogPool(NextSlot(kv).pool)
  BY <1>0 DEF RecoverFail
<1>6. AppendStep /\ ~(\E seqID \in GivenSeqIDs : PreLog(seqID)) /\ ~RecoverDiscard
        /\ ~RecoverCommit /\ ~RecoverFail
      => UNCHANGED <<openPool, queue>>
  BY DEF AppendStep, BeginAppend, RecoverNothing, RecoverOtherPool, RecoverClear,
     CallbackError, AddRecordLog, AddRecordLogError, SaveIndex, EndAppend
<1> QED
  BY <1>1, <1>2, <1>3, <1>4, <1>5, <1>6

(* Leaving a pool puts it behind the requests there are.                    *)
LEMMA LeavingKeepsOrder ==
  ASSUME IInv, InOrder, NEW k \in Nat, openPool <= k, MustLogPool(k), UNCHANGED builder
  PROVE  InOrder'
<1>1. queue \in Seq(Nat) /\ openPool \in Nat
  BY DEF IInv, TypeOK, AppendTypeOK
<1>2. PICK n \in Nat : n = Len(queue)
  BY <1>1, LenProperties
<1>3. \A i \in 1 .. n : queue[i] \in Nat
  BY <1>1, <1>2, ElementOfSeq
<1>4. builder.pool \in Nat
  BY DEF IInv, TypeOK, SnapshotTypeOK
<1>5. openPool' = k
  BY DEF MustLogPool
<1>6. CASE queue' = queue
  BY <1>1, <1>2, <1>3, <1>4, <1>5, <1>6 DEF InOrder
<1>7. CASE queue' = Append(queue, openPool) /\ openPool # k
  <2>1. /\ Len(queue') = n + 1 /\ queue'[n + 1] = openPool
        /\ \A i \in 1 .. n : queue'[i] = queue[i]
    BY <1>1, <1>2, <1>7, AppendProperties
  <2>2. \A i \in 1 .. (n + 1) : i \in 1 .. n \/ i = n + 1
    BY <1>2
  <2>3. \A i \in 1 .. n : queue[i] < openPool
    BY <1>2 DEF InOrder
  <2>4. \A i \in 1 .. (n + 1) : queue'[i] < k
    BY <1>1, <1>3, <1>7, <2>1, <2>2, <2>3
  <2>5. \A i, j \in 1 .. (n + 1) : i < j => queue'[i] < queue'[j]
    <3> SUFFICES ASSUME NEW i \in 1 .. (n + 1), NEW j \in 1 .. (n + 1), i < j
                 PROVE  queue'[i] < queue'[j]
      OBVIOUS
    <3>1. i \in 1 .. n
      BY <1>2
    <3>2. CASE j \in 1 .. n
      BY <1>2, <2>1, <3>1, <3>2 DEF InOrder
    <3>3. CASE j = n + 1
      BY <2>1, <2>3, <3>1, <3>3
    <3> QED
      BY <2>2, <3>2, <3>3
  <2>6. builder.pc # "idle" =>
          builder.pool < k /\ \A i \in 1 .. (n + 1) : builder.pool < queue'[i]
    BY <1>1, <1>2, <1>4, <1>7, <2>1, <2>2 DEF InOrder
  <2> QED
    BY <1>5, <2>1, <2>4, <2>5, <2>6 DEF InOrder
<1> QED
  BY <1>6, <1>7 DEF MustLogPool

(* The routine takes the first request, and the rest come after it.         *)
LEMMA TakingKeepsOrder ==
  ASSUME IInv, InOrder, BuildTake
  PROVE  InOrder'
<1>1. queue \in Seq(Nat) /\ openPool \in Nat
  BY DEF IInv, TypeOK, AppendTypeOK
<1>2. PICK n \in Nat : n = Len(queue)
  BY <1>1, LenProperties
<1>3. queue # <<>> /\ queue' = Tail(queue) /\ builder'.pool = Head(queue) /\ openPool' = openPool
  BY DEF BuildTake, mem, IInv, TypeOK, SnapshotTypeOK
<1>4. n > 0 /\ builder'.pool = queue[1]
  BY <1>1, <1>2, <1>3, EmptySeq
<1>5. Len(queue') = n - 1 /\ \A i \in 1 .. (n - 1) : queue'[i] = queue[i + 1]
  BY <1>1, <1>2, <1>3, HeadTailProperties
<1>6. \A i \in 1 .. (n - 1) : i + 1 \in 1 .. n /\ 1 \in 1 .. n /\ 1 < i + 1
  BY <1>2
<1>7. \A i \in 1 .. n : queue[i] < openPool
  BY <1>2 DEF InOrder
<1>8. \A i, j \in 1 .. n : i < j => queue[i] < queue[j]
  BY <1>2 DEF InOrder
<1>9. \A i \in 1 .. Len(queue') : queue'[i] < openPool'
  BY <1>3, <1>5, <1>6, <1>7
<1>10. \A i, j \in 1 .. Len(queue') : i < j => queue'[i] < queue'[j]
  <2> SUFFICES ASSUME NEW i \in 1 .. (n - 1), NEW j \in 1 .. (n - 1), i < j
               PROVE  queue[i + 1] < queue[j + 1]
    BY <1>5
  <2>1. i + 1 < j + 1 /\ i + 1 \in 1 .. n /\ j + 1 \in 1 .. n
    BY <1>2, <1>6
  <2> QED
    BY <1>8, <2>1
<1>11. builder'.pool < openPool' /\ \A i \in 1 .. Len(queue') : builder'.pool < queue'[i]
  <2>1. 1 \in 1 .. n
    BY <1>4
  <2>2. queue[1] < openPool
    BY <1>7, <2>1
  <2>3. \A i \in 1 .. (n - 1) : queue[1] < queue[i + 1]
    BY <1>6, <1>8
  <2> QED
    BY <1>3, <1>4, <1>5, <2>2, <2>3
<1> QED
  BY <1>9, <1>10, <1>11 DEF InOrder

(* Every step keeps the requests in order. *)
LEMMA NextRequestsOK ==
  ASSUME IInv, RequestsOK, [Next]_vars
  PROVE  RequestsOK'
<1>1. CASE UNCHANGED vars
  BY <1>1 DEF vars, disk, mem, RequestsOK, InOrder, BeforeNext, NextSlot
<1>2. CASE Next
  <2>0. PICK p \in Nat, q \in Nat : p = NextSlot(kv).pool /\ q = NextSlot(kv)'.pool /\ p <= q
    <3>1. IInv'
      BY <1>2, NextIInv
    <3>2. NextSlot(kv)'.pool \in Nat
      BY <3>1, NextPoolAfter
    <3> QED
      BY <1>2, <3>2, SlotsAdvance
  <2>1. /\ openPool \in Nat /\ openPool <= p /\ DOMAIN snaps \subseteq Nat
        /\ rd \in [Readers -> Call] /\ kv \in Slot
        /\ \A k \in DOMAIN snaps : k < p
        /\ \A r \in Readers : rd[r].last <= p
    BY <2>0 DEF RequestsOK, BeforeNext, IInv, TypeOK, AppendTypeOK, SnapshotTypeOK
  <2>2. /\ \A k \in DOMAIN snaps : k < q
        /\ \A r \in Readers : rd[r].last <= q
    BY <2>0, <2>1 DEF Call
  <2>3. CASE AppendStep
    <3>1. UNCHANGED <<snaps, builder, rd>>
      BY <2>3, AppendOpens
    <3>2. CASE UNCHANGED <<openPool, queue>>
      BY <2>0, <2>1, <2>2, <3>1, <3>2 DEF RequestsOK, InOrder, BeforeNext
    <3>3. CASE MustLogPool(p)
      <4>1. InOrder'
        BY <2>1, <3>1, <3>3, LeavingKeepsOrder DEF RequestsOK
      <4>2. openPool' = p
        BY <3>3 DEF MustLogPool
      <4> QED
        BY <2>0, <2>2, <3>1, <4>1, <4>2 DEF RequestsOK, BeforeNext
    <3> QED
      BY <2>0, <2>3, <3>2, <3>3, AppendOpens
  <2>4. CASE BuildStep
    <3>1. UNCHANGED <<kv, openPool, rd>> /\ p = q
      BY <2>0, <2>4 DEF BuildStep, BuildTake, BuildSkip, BuildApply, BuildStore, disk, mem,
         NextSlot
    <3>2. InOrder'
      <4>1. CASE BuildTake
        BY <4>1, TakingKeepsOrder DEF RequestsOK
      <4>2. CASE BuildApply
        <5>1. builder.pc # "idle" /\ builder'.pool = builder.pool /\ queue' = queue
          BY <4>2 DEF BuildApply
        <5> QED
          BY <3>1, <5>1 DEF RequestsOK, InOrder
      <4>3. CASE BuildSkip \/ BuildStore
        <5>1. builder'.pc = "idle" /\ queue' = queue
          BY <4>3 DEF BuildSkip, BuildStore, IdleBuilder
        <5> QED
          BY <3>1, <5>1 DEF RequestsOK, InOrder
      <4> QED
        BY <2>4, <4>1, <4>2, <4>3 DEF BuildStep
    <3>3. \A k \in DOMAIN snaps' : k < q
      <4>1. CASE UNCHANGED snaps
        BY <2>2, <4>1
      <4>2. CASE BuildStore /\ ~UNCHANGED snaps
        <5>1. snaps' = Put(snaps, builder.pool, builder.content) /\ builder.pc = "store"
          BY <4>2 DEF BuildStore
        <5>2. builder.pool < openPool /\ builder.pool \in Nat
          BY <5>1 DEF RequestsOK, InOrder, IInv, TypeOK, SnapshotTypeOK
        <5>3. DOMAIN snaps' = DOMAIN snaps \cup {builder.pool}
          BY <5>1 DEF Put
        <5> QED
          BY <2>0, <2>1, <2>2, <5>2, <5>3
      <4> QED
        BY <2>4, <4>1, <4>2 DEF BuildStep, BuildTake, BuildSkip, BuildApply, disk
    <3> QED
      BY <2>0, <2>1, <2>2, <3>1, <3>2, <3>3 DEF RequestsOK, BeforeNext
  <2>5. ASSUME NEW r \in Readers, ReadStep(r)
        PROVE  RequestsOK'
    <3>1. UNCHANGED <<disk, mem, queue, builder>> /\ p = q
      <4>1. UNCHANGED <<disk, mem, queue, builder>>
        BY <2>5 DEF ReadStep, ReadBegin, ReadSnapshot, ReadPool
      <4>2. NextSlot(kv)' = NextSlot(kv)
        BY <4>1 DEF disk, NextSlot
      <4> QED
        BY <2>0, <4>1, <4>2
    <3>2. rd'[r].last <= p
      <4>1. CASE \E from \in 0 .. MaxLogs : ReadBegin(r, from)
        <5>1. rd'[r].last = IF NextSlot(cursor).id = 0 /\ NextSlot(cursor).pool > 0
                            THEN NextSlot(cursor).pool - 1 ELSE NextSlot(cursor).pool
          BY <2>1, <4>1 DEF ReadBegin, IdleCall
        <5>2. NextSlot(cursor).pool = p
          BY <2>0 DEF IInv, CursorOK
        <5> QED
          BY <5>1, <5>2
      <4>2. CASE ReadSnapshot(r) \/ ReadPool(r)
        <5>1. PICK c \in Call : c = rd[r]
          BY <2>1
        <5>2. ASSUME ReadSnapshot(r)
              PROVE  rd'[r].last = c.last
          <6>1. \/ rd'[r] = [c EXCEPT !.pc = "pools"]
                \/ rd'[r] = [c EXCEPT !.pc = "pools", !.pool = c.last,
                                     !.snap = LastSnapshot(c.last)]
                \/ rd'[r] = [c EXCEPT !.pc = "failed"]
            BY <2>1, <5>1, <5>2 DEF ReadSnapshot
          <6> QED
            BY <6>1 DEF Call
        <5>3. ReadPool(r) =>
                rd'[r] = IF c.pool < c.last
                         THEN [c EXCEPT !.out = c.out \o Numbered(c.pool, c.idx),
                                        !.pool = c.pool + 1, !.idx = 0]
                         ELSE [c EXCEPT !.out = c.out \o Numbered(c.pool, c.idx), !.pc = "done"]
          BY <2>1, <5>1 DEF ReadPool, Numbered
        <5>4. ReadPool(r) => rd'[r].last = c.last
          BY <5>3 DEF Call
        <5> QED
          BY <2>1, <4>2, <5>1, <5>2, <5>4
      <4> QED
        BY <2>5, <4>1, <4>2 DEF ReadStep
    <3>3. \A s \in Readers \ {r} : rd'[s] = rd[s]
      BY <2>1, <2>5 DEF ReadStep, ReadBegin, ReadSnapshot, ReadPool
    <3>4. \A s \in Readers : rd'[s].last <= p
      BY <2>1, <3>2, <3>3
    <3> QED
      BY <2>0, <2>1, <3>1, <3>4 DEF RequestsOK, InOrder, BeforeNext, disk, mem
  <2>6. CASE Restart
    <3>1. /\ openPool' = kv.pool /\ queue' = <<>> /\ builder' = IdleBuilder
          /\ rd' = [s \in Readers |-> IdleCall] /\ UNCHANGED <<kv, snaps>>
      BY <2>6 DEF Restart, disk
    <3>2. InOrder'
      BY <3>1 DEF InOrder, IdleBuilder
    <3>3. kv.pool <= p
      BY <2>0, NextPool
    <3>4. \A s \in Readers : rd'[s].last <= q
      BY <2>0, <3>1 DEF IdleCall
    <3> QED
      BY <2>0, <2>1, <2>2, <3>1, <3>2, <3>3, <3>4 DEF RequestsOK, BeforeNext
  <2> QED
    BY <1>2, <2>3, <2>4, <2>5, <2>6 DEF Next
<1> QED
  BY <1>1, <1>2

-----------------------------------------------------------------------------
(* What snapshots hold. *)

(* The pools before the next slot's are all among the logs that can be read. *)
LEMMA PoolsCounted ==
  ASSUME IInv, NEW k \in Nat, k <= NextSlot(kv).pool
  PROVE  k * SnapshotLogCount \in Nat /\ k * SnapshotLogCount <= Total
<1>1. PICK p \in Nat : p = NextSlot(kv).pool
  BY NextPool
<1>2. PICK y \in Nat : p = k + y
  <2>1. p - k \in Nat /\ p = k + (p - k)
    BY <1>1
  <2> QED
    BY <2>1
<1>3. PICK a \in Nat, b \in Nat : a = k * SnapshotLogCount /\ b = y * SnapshotLogCount
  BY SyncerAssumption
<1>4. p * SnapshotLogCount = a + b
  BY <1>2, <1>3, SyncerAssumption
<1>5. PICK L \in Nat : L = Len(PoolLogs(p))
  BY PoolSizes
<1>6. Total = a + b + L
  BY <1>1, <1>4, <1>5 DEF Total
<1> QED
  BY <1>3, <1>6

(* What a snapshot holds of logs that can be read, it holds for good.       *)
LEMMA FoldsStay ==
  ASSUME IInv, Next, NEW content, NEW m \in Nat, m <= Total, Folds(content, m)
  PROVE  Folds(content, m)'
<1>1. Len(content) = m
  BY DEF Folds
<1>2. ASSUME NEW i \in 1 .. m
      PROVE  content[i] = LogAt(i - 1)'.body
  <2>1. PICK n \in Nat : n = i - 1 /\ n < Total
    BY Readable
  <2>2. IdOf(n) < Len(PoolLogs(PoolOf(n)))
    BY <2>1, Readable
  <2>3. LogAt(n)' = LogAt(n)
    BY <2>2, LogsStay
  <2>4. content[i] = LogAt(n).body
    BY <2>1 DEF Folds
  <2> QED
    BY <2>1, <2>3, <2>4
<1> QED
  BY <1>1, <1>2 DEF Folds

(* The snapshot of a full pool is the one before it and the pool's logs.    *)
LEMMA FoldsNext ==
  ASSUME IInv, NEW k \in Nat, k < NextSlot(kv).pool, NEW base \in Seq(Nat),
         Folds(base, k * SnapshotLogCount)
  PROVE  Folds(base \o Bodies(PoolLogs(k)), (k + 1) * SnapshotLogCount)
<1>1. PICK m \in Nat : m = k * SnapshotLogCount
  BY SyncerAssumption
<1>2. PICK n \in Nat : n = SnapshotLogCount /\ n > 0
  <2>1. SnapshotLogCount = 0 => NextSlot(kv).pool = 0
    BY DEF NextSlot
  <2> QED
    BY <2>1, SyncerAssumption
<1>3. (k + 1) * SnapshotLogCount = m + n
  BY <1>1, <1>2, SyncerAssumption
<1>4. PICK logs \in Seq(Log) : logs = PoolLogs(k) /\ Len(logs) = n
  BY <1>2, PoolSizes
<1>5. PICK new \in Seq(Nat) : new = Bodies(logs) /\ Len(new) = n
  <2>1. Bodies(logs) \in Seq(Nat)
    BY BodiesType
  <2>2. Len(Bodies(logs)) = n
    BY <1>4 DEF Bodies
  <2> QED
    BY <2>1, <2>2
<1>6. \A j \in 1 .. n : new[j] = logs[j].body
  BY <1>4, <1>5 DEF Bodies
<1>7. /\ Len(base) = m
      /\ \A i \in 1 .. m : base[i] = LogAt(i - 1).body
  BY <1>1 DEF Folds
<1>8. PICK all : all = base \o new
  OBVIOUS
<1>9. /\ Len(all) = m + n
      /\ \A i \in 1 .. m : all[i] = base[i]
      /\ \A j \in 1 .. n : all[m + j] = new[j]
  <2>1. PICK S : S = Nat
    OBVIOUS
  <2>2. base \in Seq(S) /\ new \in Seq(S) /\ m = Len(base) /\ n = Len(new)
    BY <1>5, <1>7, <2>1
  <2>3. /\ Len(base \o new) = m + n
        /\ \A i \in 1 .. m : (base \o new)[i] = base[i]
        /\ \A j \in 1 .. n : (base \o new)[m + j] = new[j]
    BY <2>2, ConcatOf
  <2> QED
    BY <1>8, <2>3
<1>10. ASSUME NEW j \in 1 .. n
       PROVE  all[m + j] = LogAt((m + j) - 1).body
  <2>1. PICK i \in Nat : i = j - 1 /\ i < n
    OBVIOUS
  <2>2. PICK q \in Nat : q = m + i
    OBVIOUS
  <2>3. PoolOf(q) = k /\ IdOf(q) = i
    BY <1>1, <1>2, <2>1, <2>2, Join
  <2>4. LogAt(q) = logs[j]
    BY <1>4, <2>1, <2>3 DEF LogAt
  <2>5. (m + j) - 1 = q
    BY <2>1, <2>2
  <2> QED
    BY <1>6, <1>9, <2>4, <2>5
<1>11. ASSUME NEW i \in 1 .. (m + n)
       PROVE  all[i] = LogAt(i - 1).body
  <2>1. CASE i \in 1 .. m
    BY <1>7, <1>9, <2>1
  <2>2. CASE i \notin 1 .. m
    <3>1. PICK j \in 1 .. n : i = m + j
      <4>1. i - m \in 1 .. n /\ i = m + (i - m)
        BY <2>2
      <4> QED
        BY <4>1
    <3> QED
      BY <1>10, <3>1
  <2> QED
    BY <2>1, <2>2
<1>12. Folds(all, m + n)
  BY <1>9, <1>11 DEF Folds
<1> QED
  BY <1>3, <1>4, <1>5, <1>8, <1>12

\* The snapshot that is being stored is exact as well.
BuildExact ==
  builder.pc = "store" => Folds(builder.content, (builder.pool + 1) * SnapshotLogCount)

ContentOK == BuildExact /\ FreshReaderMissesNothing

(* The routine starts from the snapshot of the pool before: the requests    *)
(* before this one were all served.                                         *)
LEMMA BuildsExactly ==
  ASSUME IInv, RequestsOK, NoRequestLost, ContentOK, BuildApply
  PROVE  BuildExact'
<1>1. PICK k \in Nat : k = builder.pool /\ k < openPool /\ k < NextSlot(kv).pool
  <2>1. builder.pool \in Nat /\ openPool \in Nat /\ builder.pc # "idle"
    BY DEF BuildApply, IInv, TypeOK, AppendTypeOK, SnapshotTypeOK
  <2>2. builder.pool < openPool /\ openPool <= NextSlot(kv).pool
    BY <2>1 DEF RequestsOK, InOrder, BeforeNext
  <2> QED
    BY <2>1, <2>2, NextPool
<1>2. PICK base : base = IF LastSnapshot(k) = None THEN <<>> ELSE LastSnapshot(k)
  OBVIOUS
<1>3. builder' = [pc |-> "store", pool |-> k, content |-> base \o Bodies(PoolLogs(k))]
  BY <1>1, <1>2 DEF BuildApply
<1>4. base \in Seq(Nat) /\ Folds(base, k * SnapshotLogCount)
  <2>1. CASE k = 0
    <3>1. base = <<>> /\ Len(base) = 0 /\ base \in Seq(Nat)
      BY <1>2, <2>1, EmptySeq DEF LastSnapshot
    <3>2. k * SnapshotLogCount = 0
      BY <2>1, SyncerAssumption
    <3> QED
      BY <3>1, <3>2 DEF Folds
  <2>2. CASE k > 0
    <3>1. PICK j \in Nat : j = k - 1 /\ j + 1 = k
      BY <2>2
    <3>2. j \in DOMAIN snaps
      <4>1. openPool \in Nat
        BY DEF IInv, TypeOK, AppendTypeOK
      <4>2. j \in 0 .. (openPool - 1)
        BY <1>1, <3>1, <4>1
      <4>3. j \in DOMAIN snaps \/ j = k \/ \E i \in 1 .. Len(queue) : j = queue[i]
        BY <1>1, <4>2 DEF NoRequestLost, Outstanding
      <4>4. builder.pc # "idle"
        BY DEF BuildApply
      <4>5. ASSUME NEW i \in 1 .. Len(queue), j = queue[i]
            PROVE  FALSE
        <5>1. k < j
          BY <1>1, <4>4, <4>5 DEF RequestsOK, InOrder
        <5> QED
          BY <3>1, <5>1
      <4> QED
        BY <3>1, <4>3, <4>5
    <3>3. LastSnapshot(k) = snaps[j]
      BY <2>2, <3>1, <3>2 DEF LastSnapshot
    <3>4. snaps[j] \in Seq(Nat)
      BY <3>2 DEF IInv, TypeOK, SnapshotTypeOK
    <3>5. base = snaps[j]
      BY <1>2, <3>3, <3>4, NoneAssumption
    <3>6. Folds(snaps[j], (j + 1) * SnapshotLogCount)
      BY <3>2 DEF ContentOK, FreshReaderMissesNothing, SnapshotExact
    <3> QED
      BY <3>1, <3>4, <3>5, <3>6
  <2> QED
    BY <2>1, <2>2
<1>5. Folds(builder'.content, (k + 1) * SnapshotLogCount)
  BY <1>1, <1>3, <1>4, FoldsNext
<1>6. UNCHANGED pools
  BY DEF BuildApply, disk
<1>7. Folds(builder'.content, (builder'.pool + 1) * SnapshotLogCount)
  BY <1>3, <1>5
<1>8. \A n : LogAt(n)' = LogAt(n)
  BY <1>6 DEF LogAt, PoolLogs, PoolOf, IdOf
<1> QED
  BY <1>7, <1>8 DEF BuildExact, Folds

(* There is nothing to ask for, to store or to hand out at first.           *)
LEMMA InitContentOK == Init => RequestsOK /\ ContentOK
<1> SUFFICES ASSUME Init
             PROVE  RequestsOK /\ ContentOK
  OBVIOUS
<1>1. /\ kv = [pool |-> 0, id |-> 0] /\ openPool = 0 /\ queue = <<>> /\ builder = IdleBuilder
      /\ snaps = <<>> /\ rd = [r \in Readers |-> IdleCall]
  BY DEF Init
<1>2. NextSlot(kv) = [pool |-> 0, id |-> 0]
  BY <1>1, SyncerAssumption DEF NextSlot
<1>3. builder.pc = "idle" /\ DOMAIN snaps = {} /\ Len(queue) = 0 /\ 1 .. Len(queue) = {}
  BY <1>1 DEF IdleBuilder
<1>4. \A r \in Readers : rd[r].last = 0 /\ rd[r].snap = None
  BY <1>1 DEF IdleCall
<1>5. RequestsOK
  BY <1>1, <1>2, <1>3, <1>4 DEF RequestsOK, InOrder, BeforeNext
<1>6. ContentOK
  BY <1>3, <1>4 DEF ContentOK, BuildExact, FreshReaderMissesNothing, SnapshotExact
<1> QED
  BY <1>5, <1>6

(* What a step does to the snapshot of a call.                              *)
LEMMA ReaderSteps ==
  ASSUME IInv, Next, NEW r \in Readers
  PROVE  \/ rd'[r].snap = rd[r].snap /\ rd'[r].last = rd[r].last
         \/ ReadSnapshot(r) /\ rd'[r].snap = LastSnapshot(rd[r].last)
                            /\ rd'[r].last = rd[r].last
         \/ rd'[r].snap = None
<1>1. rd \in [Readers -> Call]
  BY DEF IInv, TypeOK
<1>2. PICK c \in Call : c = rd[r]
  BY <1>1
<1>3. ASSUME NEW q \in Readers, ReadStep(q), q # r
      PROVE  rd'[r] = c
  BY <1>1, <1>2, <1>3 DEF ReadStep, ReadBegin, ReadSnapshot, ReadPool
<1>4. CASE \E from \in 0 .. MaxLogs : ReadBegin(r, from)
  BY <1>1, <1>4 DEF ReadBegin, IdleCall
<1>5. CASE ReadSnapshot(r)
  <2>1. \/ rd'[r] = [c EXCEPT !.pc = "pools"]
        \/ rd'[r] = [c EXCEPT !.pc = "pools", !.pool = c.last, !.snap = LastSnapshot(c.last)]
        \/ rd'[r] = [c EXCEPT !.pc = "failed"]
    BY <1>1, <1>2, <1>5 DEF ReadSnapshot
  <2> QED
    BY <1>2, <1>5, <2>1 DEF Call
<1>6. CASE ReadPool(r)
  <2>1. rd'[r] = IF c.pool < c.last
                 THEN [c EXCEPT !.out = c.out \o Numbered(c.pool, c.idx),
                                !.pool = c.pool + 1, !.idx = 0]
                 ELSE [c EXCEPT !.out = c.out \o Numbered(c.pool, c.idx), !.pc = "done"]
    BY <1>1, <1>2, <1>6 DEF ReadPool, Numbered
  <2> QED
    BY <1>2, <2>1 DEF Call
<1>7. CASE Restart
  BY <1>7 DEF Restart, IdleCall
<1>8. CASE AppendStep
  BY <1>8, AppendOpens
<1>9. CASE BuildStep
  BY <1>9 DEF BuildStep, BuildTake, BuildSkip, BuildApply, BuildStore
<1> QED
  BY <1>2, <1>3, <1>4, <1>5, <1>6, <1>7, <1>8, <1>9 DEF Next, ReadStep

(* Every step keeps snapshots and what readers were handed exact.           *)
LEMMA NextContentOK ==
  ASSUME IInv, RequestsOK, NoRequestLost, ContentOK, [Next]_vars
  PROVE  ContentOK'
<1>1. CASE UNCHANGED vars
  <2>1. \A n : LogAt(n)' = LogAt(n)
    BY <1>1 DEF vars, disk, LogAt, PoolLogs, PoolOf, IdOf
  <2> QED
    BY <1>1, <2>1 DEF vars, disk, ContentOK, BuildExact, FreshReaderMissesNothing,
       SnapshotExact, Folds
<1>2. CASE Next
  <2>0. /\ DOMAIN snaps \subseteq Nat /\ builder.pool \in Nat
        /\ rd \in [Readers -> Call]
        /\ \A r \in Readers : rd[r].last \in Nat
    BY DEF IInv, TypeOK, SnapshotTypeOK, Call
  \* What there is stays exact.
  <2>1. ASSUME NEW j \in Nat, j <= NextSlot(kv).pool, NEW content,
               Folds(content, j * SnapshotLogCount)
        PROVE  Folds(content, j * SnapshotLogCount)'
    <3>1. PICK m \in Nat : m = j * SnapshotLogCount /\ m <= Total
      BY <2>1, PoolsCounted
    <3>2. Folds(content, m)'
      BY <1>2, <2>1, <3>1, FoldsStay
    <3> QED
      BY <3>1, <3>2
  <2>2. ASSUME NEW k \in DOMAIN snaps, NEW content, content = snaps[k]
        PROVE  Folds(content, (k + 1) * SnapshotLogCount)'
    <3>1. PICK j \in Nat : j = k + 1 /\ j <= NextSlot(kv).pool
      BY <2>0, NextPool DEF RequestsOK, BeforeNext
    <3>2. Folds(content, j * SnapshotLogCount)
      BY <2>2, <3>1 DEF ContentOK, FreshReaderMissesNothing, SnapshotExact
    <3> QED
      BY <2>1, <3>1, <3>2
  <2>3. ASSUME builder.pc = "store", NEW content, content = builder.content
        PROVE  Folds(content, (builder.pool + 1) * SnapshotLogCount)
               /\ \A p \in Nat : p = builder.pool => Folds(content, (p + 1) * SnapshotLogCount)'
    <3>1. PICK j \in Nat : j = builder.pool + 1 /\ j <= NextSlot(kv).pool
      <4>1. builder.pool < openPool /\ openPool <= NextSlot(kv).pool /\ openPool \in Nat
        BY <2>3 DEF RequestsOK, InOrder, BeforeNext, IInv, TypeOK, AppendTypeOK
      <4> QED
        BY <2>0, <4>1, NextPool
    <3>2. Folds(content, j * SnapshotLogCount)
      BY <2>3, <3>1 DEF ContentOK, BuildExact
    <3> QED
      BY <2>1, <3>1, <3>2
  <2>4. ASSUME NEW r \in Readers, rd[r].snap # None, NEW content, content = rd[r].snap,
               NEW last, last = rd[r].last
        PROVE  Folds(content, last * SnapshotLogCount)'
    <3>1. last \in Nat /\ last <= NextSlot(kv).pool
      BY <2>0, <2>4 DEF RequestsOK, BeforeNext
    <3>2. Folds(content, last * SnapshotLogCount)
      BY <2>4 DEF ContentOK, FreshReaderMissesNothing
    <3> QED
      BY <2>1, <3>1, <3>2
  <2>5. SnapshotExact'
    <3> SUFFICES ASSUME NEW k \in DOMAIN snaps', NEW content, content = snaps'[k]
                 PROVE  Folds(content, (k + 1) * SnapshotLogCount)'
      BY DEF SnapshotExact, Folds
    <3>1. CASE UNCHANGED snaps
      BY <2>2, <3>1
    <3>2. CASE ~UNCHANGED snaps
      <4>1. BuildStore
        BY <1>2, <3>2, AppendOpens DEF Next, BuildStep, BuildTake, BuildSkip, BuildApply, ReadStep,
           ReadBegin, ReadSnapshot, ReadPool, Restart, disk
      <4>2. snaps' = Put(snaps, builder.pool, builder.content) /\ builder.pc = "store"
        BY <3>2, <4>1 DEF BuildStore
      <4>3. CASE k = builder.pool
        <5>1. content = builder.content
          BY <4>2, <4>3 DEF Put
        <5> QED
          BY <2>0, <2>3, <4>2, <4>3, <5>1
      <4>4. CASE k # builder.pool
        <5>1. k \in DOMAIN snaps /\ content = snaps[k]
          BY <4>2, <4>4 DEF Put
        <5> QED
          BY <2>2, <5>1
      <4> QED
        BY <4>3, <4>4
    <3> QED
      BY <3>1, <3>2
  <2>6. BuildExact'
    <3>1. CASE BuildApply
      BY <3>1, BuildsExactly
    <3>2. CASE UNCHANGED builder
      <4> SUFFICES ASSUME builder.pc = "store", NEW content, content = builder.content,
                          NEW p, p = builder.pool
                   PROVE  Folds(content, (p + 1) * SnapshotLogCount)'
        BY <3>2 DEF BuildExact, Folds
      <4> QED
        BY <2>0, <2>3
    <3>3. CASE ~BuildApply /\ ~UNCHANGED builder
      <4>1. BuildTake \/ BuildSkip \/ BuildStore \/ Restart
        BY <1>2, <3>3, AppendOpens DEF Next, BuildStep, ReadStep, ReadBegin, ReadSnapshot, ReadPool
      <4>2. BuildTake => builder'.pc = "build"
        BY DEF BuildTake, IInv, TypeOK, SnapshotTypeOK
      <4>3. BuildSkip \/ BuildStore \/ Restart => builder'.pc = "idle"
        BY DEF BuildSkip, BuildStore, Restart, IdleBuilder
      <4>4. builder'.pc # "store"
        BY <4>1, <4>2, <4>3
      <4> QED
        BY <4>4 DEF BuildExact
    <3> QED
      BY <3>1, <3>2, <3>3
  <2>7. ASSUME NEW r \in Readers, rd'[r].snap # None, NEW content, content = rd'[r].snap,
               NEW last, last = rd'[r].last
        PROVE  Folds(content, last * SnapshotLogCount)'
    <3>1. CASE rd'[r].snap = rd[r].snap /\ rd'[r].last = rd[r].last
      BY <2>4, <2>7, <3>1
    <3>2. CASE ReadSnapshot(r) /\ rd'[r].snap = LastSnapshot(rd[r].last)
                               /\ rd'[r].last = rd[r].last
      <4>1. last \in Nat /\ LastSnapshot(last) # None /\ content = LastSnapshot(last)
        BY <2>0, <2>7, <3>2
      <4>2. PICK k \in Nat : k = last - 1 /\ k + 1 = last /\ k \in DOMAIN snaps
                             /\ content = snaps[k]
        <5>1. last > 0 /\ last - 1 \in DOMAIN snaps /\ content = snaps[last - 1]
          BY <4>1 DEF LastSnapshot
        <5>2. last - 1 \in Nat /\ (last - 1) + 1 = last
          BY <4>1, <5>1
        <5> QED
          BY <5>1, <5>2
      <4> QED
        BY <2>2, <4>2
    <3>3. CASE rd'[r].snap = None
      BY <2>7, <3>3
    <3>4. \/ rd'[r].snap = rd[r].snap /\ rd'[r].last = rd[r].last
          \/ ReadSnapshot(r) /\ rd'[r].snap = LastSnapshot(rd[r].last)
                             /\ rd'[r].last = rd[r].last
          \/ rd'[r].snap = None
      BY <1>2, <2>0, ReaderSteps
    <3> QED
      BY <3>1, <3>2, <3>3, <3>4
  <2>8. \A r \in Readers :
          rd'[r].snap # None => Folds(rd[r].snap, rd[r].last * SnapshotLogCount)'
    BY <2>7 DEF Folds
  <2> QED
    BY <2>5, <2>6, <2>8 DEF ContentOK, FreshReaderMissesNothing
<1> QED
  BY <1>1, <1>2

(* A client that starts from nothing sees the same logs as one that         *)
(* followed the log from its beginning: every snapshot is exact, and so is  *)
(* the one a reader was handed, as long as no request for a snapshot was    *)
(* lost, in spite of restarts and I/O errors elsewhere.                     *)
THEOREM FreshReaders == Spec /\ []NoRequestLost => []FreshReaderMissesNothing
<1>1. Init => RequestsOK /\ ContentOK
  BY InitContentOK
<1>2. IInv /\ RequestsOK /\ [Next]_vars => RequestsOK'
  BY NextRequestsOK
<1>3. IInv /\ RequestsOK /\ NoRequestLost /\ ContentOK /\ [Next]_vars
      => ContentOK'
  BY NextContentOK
<1>4. ContentOK => FreshReaderMissesNothing
  BY DEF ContentOK
<1> QED
  BY <1>1, <1>2, <1>3, <1>4, SyncerInvariant, PTL DEF Spec

-----------------------------------------------------------------------------
(* When no request is lost. *)

\* No restart, no I/O error, and not more logs than fill the pool in use and as
\* many pools as the queue has places.
QuietRun ==
  /\ ~CanCrash /\ ~CanFail
  /\ MaxLogs <= (QueueCap + 1) * SnapshotLogCount

\* The pool in use is the cursor's or the one after it; it was opened for a log
\* that was handed in, and no log is in the pools that was not.
PoolInUse ==
  /\ kv.pool <= openPool
  /\ stage \in {"prelogged", "added"} => openPool = NextSlot(kv).pool
  /\ openPool > 0 => openPool * SnapshotLogCount < issued
  /\ Total <= issued
  /\ stage = "prelogged" => Total < issued
  /\ recover # None => stage \in {"prelogged", "added", "saved"}

\* The i-th request is for pool i - 1 or a later one: there are at most as many
\* requests as pools that were left.
FewRequests == \A i \in 1 .. Len(queue) : i <= queue[i] + 1

QuietOK == PoolInUse /\ FewRequests /\ NoRequestLost

(* The whole log grows by the log AddRecordLog writes, and by nothing else. *)
LEMMA TotalGrows ==
  ASSUME IInv, IssuedOK, Next
  PROVE  Total' = IF AddRecordLog THEN Total + 1 ELSE Total
<1>1. /\ WholeLog \in Seq(Nat) /\ Len(WholeLog) = Total /\ Total \in Nat
      /\ WholeLog' \in Seq(Nat) /\ Len(WholeLog') = Total'
  <2>1. IInv'
    BY NextIInv
  <2> QED
    BY <2>1, WholeLogType, WholeLogTypeNext DEF WholeLogOK
<1>2. CASE AddRecordLog
  <2>1. PICK b \in Nat : WholeLog' = Append(WholeLog, b)
    <3>1. \E b \in 1 .. MaxLogs : WholeLog' = Append(WholeLog, b)
      BY <1>2, WriteMaps DEF Abstract!Write
    <3> QED
      BY <3>1, SyncerAssumption
  <2>2. Len(WholeLog') = Len(WholeLog) + 1
    BY <1>1, <2>1, AppendProperties
  <2> QED
    BY <1>1, <1>2, <2>2
<1>3. CASE ~AddRecordLog /\ CommitNext
  BY <1>1, <1>3, CommitMaps DEF Abstract!Commit
<1>4. CASE ~AddRecordLog /\ ~CommitNext
  <2>1. UNCHANGED kv
    BY <1>4, CursorMoves
  <2>2. UNCHANGED pools
    BY <1>4 DEF Next, AppendStep, BeginAppend, RecoverNothing, RecoverOtherPool,
       RecoverDiscard, RecoverCommit, RecoverClear, RecoverFail, CallbackError,
       PreLog, AddRecordLogError, SaveIndex, EndAppend, BuildStep, BuildTake,
       BuildSkip, BuildApply, BuildStore, ReadStep, ReadBegin, ReadSnapshot,
       ReadPool, Restart, disk
  <2>3. WholeLog' = WholeLog
    BY <2>1, <2>2, StutterMaps
  <2> QED
    BY <1>1, <1>4, <2>3
<1> QED
  BY <1>2, <1>3, <1>4

(* Only PreLog opens another pool: nothing is left to recover.              *)
LEMMA QuietAppend ==
  ASSUME QuietRun, IInv, QuietOK, AppendStep, ~\E seqID \in GivenSeqIDs : PreLog(seqID)
  PROVE  /\ UNCHANGED <<openPool, queue, issued>>
         /\ stage' # "prelogged"
         /\ stage' = "added" => stage = "prelogged" /\ UNCHANGED kv
         /\ recover' # None => stage' \in {"prelogged", "added", "saved"}
         /\ UNCHANGED kv \/ kv'.pool = openPool
<1>1. ~RecoverOtherPool /\ ~RecoverDiscard /\ ~RecoverCommit /\ ~RecoverFail
  BY DEF QuietOK, PoolInUse, QuietRun, RecoverOtherPool, RecoverDiscard, RecoverCommit, RecoverFail
<1>2. UNCHANGED <<openPool, queue, issued>>
  BY <1>1 DEF AppendStep, BeginAppend, RecoverNothing, RecoverClear, CallbackError,
     AddRecordLog, AddRecordLogError, SaveIndex, EndAppend
<1>3. stage' # "prelogged"
  BY <1>1 DEF AppendStep, BeginAppend, RecoverNothing, RecoverClear, CallbackError,
     AddRecordLog, AddRecordLogError, SaveIndex, EndAppend
<1>4. stage' = "added" => stage = "prelogged" /\ UNCHANGED kv
  BY <1>1, Zenon DEF AppendStep, BeginAppend, RecoverNothing, RecoverClear, CallbackError,
     AddRecordLog, AddRecordLogError, SaveIndex, EndAppend, QuietRun
<1>5. recover' # None => stage' \in {"prelogged", "added", "saved"}
  BY <1>1 DEF AppendStep, BeginAppend, RecoverNothing, RecoverClear, CallbackError,
     AddRecordLog, AddRecordLogError, SaveIndex, EndAppend, QuietOK, PoolInUse, QuietRun,
     AfterLog, disk
<1>6. UNCHANGED kv \/ SaveIndex
  BY <1>1 DEF AppendStep, BeginAppend, RecoverNothing, RecoverClear, CallbackError,
     AddRecordLog, AddRecordLogError, EndAppend, disk
<1>7. SaveIndex => kv'.pool = openPool
  <2> SUFFICES ASSUME SaveIndex
               PROVE  kv'.pool = openPool
    OBVIOUS
  <2>1. stage = "added" /\ kv' = After(pending.slot)
    BY DEF SaveIndex, SavePoolIndex, QuietRun
  <2>2. pending.slot = NextSlot(kv) /\ openPool = NextSlot(kv).pool
    BY <2>1 DEF IInv, StageOK, QuietOK, PoolInUse
  <2>3. NextSlot(kv) \in Slot
    BY NextSlotType DEF IInv, TypeOK, AppendTypeOK
  <2> QED
    BY <2>1, <2>2, <2>3, AfterType
<1> QED
  BY <1>2, <1>3, <1>4, <1>5, <1>6, <1>7

(* PreLog leaves at most one pool, whose request finds room in the queue.   *)
LEMMA QuietPreLog ==
  ASSUME QuietRun, IInv, RequestsOK, IssuedOK, QuietOK, Total' = Total, Total \in Nat,
         NEW seqID \in GivenSeqIDs, PreLog(seqID)
  PROVE  QuietOK'
<1>1. PICK p \in Nat, n \in Nat, o \in Nat, c \in Nat, x \in Nat :
        /\ p = NextSlot(kv).pool /\ c = SnapshotLogCount /\ o = openPool /\ n = Len(queue)
        /\ x = issued
  BY NextPool, LenProperties, SyncerAssumption DEF IInv, TypeOK, AppendTypeOK
<1>2. /\ stage = "callback" /\ stage' = "prelogged" /\ issued' = x + 1 /\ x < MaxLogs
      /\ openPool' = p /\ MustLogPool(p) /\ UNCHANGED <<kv, snaps, builder>>
  BY <1>1 DEF PreLog, QuietRun, IInv, CursorOK, MustLogPool
<1>3. NextSlot(kv)' = NextSlot(kv)
  BY <1>2 DEF NextSlot
<1>4. kv.pool <= o /\ o <= p /\ Total <= x /\ kv.pool \in Nat
  BY <1>1 DEF QuietOK, PoolInUse, RequestsOK, BeforeNext, IInv, TypeOK, AppendTypeOK
<1>5. p <= kv.pool + 1
  BY <1>1, <1>4 DEF NextSlot
<1>6. p * c \in Nat /\ p * c <= Total
  BY <1>1, PoolsCounted
<1>7. PoolInUse'
  <2>1. kv'.pool <= openPool' /\ openPool' = NextSlot(kv)'.pool
    BY <1>1, <1>2, <1>3, <1>4
  <2>2. openPool' * SnapshotLogCount < issued'
    BY <1>1, <1>2, <1>4, <1>6
  <2>3. Total' < issued'
    BY <1>2, <1>4
  <2> QED
    BY <1>2, <1>4, <2>1, <2>2, <2>3 DEF PoolInUse
<1>8. CASE o = p
  <2>1. UNCHANGED <<openPool, queue, snaps, builder>>
    BY <1>1, <1>2, <1>8 DEF MustLogPool
  <2> QED
    BY <1>7, <2>1 DEF QuietOK, FewRequests, NoRequestLost, Outstanding
<1>9. CASE o # p
  <2>1. o + 1 = p
    BY <1>4, <1>5, <1>9
  <2>2. c > 0
    <3>1. c = 0 => p = 0
      BY <1>1 DEF NextSlot
    <3> QED
      BY <1>1, <2>1, <3>1
  <2>3. p <= QueueCap
    <3> SUFFICES ASSUME p > QueueCap
                 PROVE  FALSE
      BY SyncerAssumption
    <3>1. PICK y \in Nat : p = (QueueCap + 1) + y
      <4>1. p - (QueueCap + 1) \in Nat /\ p = (QueueCap + 1) + (p - (QueueCap + 1))
        BY SyncerAssumption
      <4> QED
        BY <4>1
    <3>2. PICK a \in Nat, b \in Nat : a = (QueueCap + 1) * c /\ b = y * c
      BY SyncerAssumption
    <3>3. p * c = a + b
      BY <3>1, <3>2, SyncerAssumption
    <3>4. MaxLogs <= a
      BY <1>1, <3>2 DEF QuietRun
    <3>5. MaxLogs \in Nat
      BY SyncerAssumption
    <3> QED
      BY <1>1, <1>2, <1>4, <1>6, <3>2, <3>3, <3>4, <3>5
  <2>4. queue \in Seq(Nat) /\ \A i \in 1 .. n : queue[i] \in Nat
    BY <1>1, ElementOfSeq DEF IInv, TypeOK, AppendTypeOK
  <2>5. n <= o
    <3>1. CASE n = 0
      BY <1>1, <3>1
    <3>2. CASE n > 0
      <4>1. n \in 1 .. n
        BY <1>1, <3>2
      <4>2. n <= queue[n] + 1 /\ queue[n] < o
        BY <1>1, <4>1 DEF QuietOK, FewRequests, RequestsOK, InOrder
      <4> QED
        BY <1>1, <2>4, <4>1, <4>2
    <3> QED
      BY <1>1, <3>1, <3>2
  <2>6. queue' = Append(queue, o)
    <3>1. n < QueueCap
      BY <1>1, <2>1, <2>3, <2>5, SyncerAssumption
    <3>2. SnapshotLogCount > 0
      BY <1>1, <2>2
    <3> QED
      BY <1>1, <1>2, <1>9, <3>1, <3>2 DEF MustLogPool
  <2>7. /\ Len(queue') = n + 1 /\ queue'[n + 1] = o
        /\ \A i \in 1 .. n : queue'[i] = queue[i]
    BY <1>1, <2>4, <2>6, AppendProperties
  <2>8. FewRequests'
    <3>1. \A i \in 1 .. n : i <= queue'[i] + 1
      BY <1>1, <2>7 DEF QuietOK, FewRequests
    <3>2. n + 1 <= queue'[n + 1] + 1
      BY <2>5, <2>7
    <3>3. \A i \in 1 .. (n + 1) : i \in 1 .. n \/ i = n + 1
      OBVIOUS
    <3> QED
      BY <2>7, <3>1, <3>2, <3>3 DEF FewRequests
  <2>9. NoRequestLost'
    <3>1. Outstanding' = {queue'[i] : i \in 1 .. (n + 1)}
                          \cup (IF builder.pc = "idle" THEN {} ELSE {builder.pool})
      BY <1>2, <2>7 DEF Outstanding
    <3>2. o \in Outstanding'
      <4>1. n + 1 \in 1 .. (n + 1)
        BY <1>1
      <4> QED
        BY <2>7, <3>1, <4>1
    <3>3. Outstanding \subseteq Outstanding'
      <4>1. \A i \in 1 .. n : i \in 1 .. (n + 1)
        OBVIOUS
      <4> QED
        BY <1>1, <2>7, <3>1, <4>1 DEF Outstanding
    <3>4. ASSUME NEW k \in 0 .. (p - 1)
          PROVE  k \in DOMAIN snaps \cup Outstanding'
      <4>1. k = o \/ k \in 0 .. (o - 1)
        BY <1>1, <2>1
      <4>2. k \in 0 .. (o - 1) => k \in DOMAIN snaps \cup Outstanding
        BY <1>1 DEF QuietOK, NoRequestLost
      <4> QED
        BY <3>2, <3>3, <4>1, <4>2
    <3> QED
      BY <1>2, <3>4 DEF NoRequestLost
  <2> QED
    BY <1>7, <2>8, <2>9 DEF QuietOK
<1> QED
  BY <1>8, <1>9

(* A request is served or waits on; none is dropped.                        *)
LEMMA QuietBuild ==
  ASSUME QuietRun, IInv, RequestsOK, QuietOK, BuildStep
  PROVE  FewRequests' /\ NoRequestLost'
<1>1. queue \in Seq(Nat)
  BY DEF IInv, TypeOK, AppendTypeOK
<1>2. PICK n \in Nat : n = Len(queue)
  BY <1>1, LenProperties
<1>3. openPool' = openPool
  BY DEF BuildStep, BuildTake, BuildSkip, BuildApply, BuildStore, mem
<1>4. CASE BuildTake
  <2>1. /\ queue # <<>> /\ queue' = Tail(queue) /\ builder'.pool = Head(queue)
        /\ builder'.pc = "build" /\ builder.pc = "idle" /\ snaps' = snaps
    BY <1>4 DEF BuildTake, disk, IInv, TypeOK, SnapshotTypeOK
  <2>2. n > 0 /\ builder'.pool = queue[1]
    BY <1>1, <1>2, <2>1, EmptySeq
  <2>3. Len(queue') = n - 1 /\ \A i \in 1 .. (n - 1) : queue'[i] = queue[i + 1]
    BY <1>1, <1>2, <2>1, HeadTailProperties
  <2>4. \A i \in 1 .. (n - 1) : i + 1 \in 1 .. n
    BY <1>2
  <2>5. \A i \in 1 .. n : i <= queue[i] + 1 /\ queue[i] \in Nat
    BY <1>1, <1>2, ElementOfSeq DEF QuietOK, FewRequests
  <2>6. FewRequests'
    <3>1. ASSUME NEW i \in 1 .. (n - 1)
          PROVE  i <= queue'[i] + 1
      <4>1. i + 1 <= queue[i + 1] + 1 /\ queue[i + 1] \in Nat
        BY <2>4, <2>5
      <4> QED
        BY <2>3, <4>1
    <3> QED
      BY <2>3, <3>1 DEF FewRequests
  <2>7. Outstanding \subseteq Outstanding'
    <3>1. Outstanding = {queue[i] : i \in 1 .. n}
      BY <1>2, <2>1 DEF Outstanding
    <3>2. Outstanding' = {queue'[i] : i \in 1 .. (n - 1)} \cup {queue[1]}
      BY <2>1, <2>2, <2>3 DEF Outstanding
    <3>3. ASSUME NEW i \in 1 .. n
          PROVE  queue[i] \in Outstanding'
      <4>1. CASE i = 1
        BY <3>2, <4>1
      <4>2. CASE i # 1
        <5>1. PICK j \in 1 .. (n - 1) : i = j + 1
          <6>1. i - 1 \in 1 .. (n - 1) /\ i = (i - 1) + 1
            BY <1>2, <4>2
          <6> QED
            BY <6>1
        <5> QED
          BY <2>3, <3>2, <5>1
      <4> QED
        BY <4>1, <4>2
    <3> QED
      BY <3>1, <3>3
  <2> QED
    BY <1>3, <2>1, <2>6, <2>7 DEF QuietOK, NoRequestLost
<1>5. CASE BuildApply
  <2>1. /\ queue' = queue /\ snaps' = snaps /\ builder'.pool = builder.pool
        /\ builder.pc # "idle" /\ builder'.pc # "idle"
    BY <1>5 DEF BuildApply, disk
  <2> QED
    BY <1>3, <2>1 DEF QuietOK, FewRequests, NoRequestLost, Outstanding
<1>6. CASE BuildSkip \/ BuildStore
  <2>1. /\ queue' = queue /\ DOMAIN snaps' = DOMAIN snaps \cup {builder.pool}
        /\ builder'.pc = "idle"
    <3>1. CASE BuildSkip
      <4>1. /\ builder.pool \in DOMAIN snaps /\ queue' = queue /\ snaps' = snaps
            /\ builder' = IdleBuilder
        BY <3>1 DEF BuildSkip, disk, QuietRun
      <4> QED
        BY <4>1 DEF IdleBuilder
    <3>2. CASE BuildStore
      <4>1. /\ snaps' = Put(snaps, builder.pool, builder.content) /\ queue' = queue
            /\ builder' = IdleBuilder
        BY <3>2 DEF BuildStore, QuietRun
      <4> QED
        BY <4>1 DEF IdleBuilder, Put
    <3> QED
      BY <1>6, <3>1, <3>2
  <2>2. Outstanding \subseteq Outstanding' \cup {builder.pool}
    BY <2>1 DEF Outstanding
  <2> QED
    BY <1>3, <2>1, <2>2 DEF QuietOK, FewRequests, NoRequestLost
<1> QED
  BY <1>4, <1>5, <1>6 DEF BuildStep

(* No step of a quiet run loses a request.                                  *)
LEMMA NextQuietOK ==
  ASSUME QuietRun, IInv, RequestsOK, IssuedOK, QuietOK, [Next]_vars
  PROVE  QuietOK'
<1>1. Total \in Nat /\ issued \in Nat
  BY Readable DEF IInv, TypeOK, AppendTypeOK
<1>2. CASE UNCHANGED vars
  <2>1. Total' = Total /\ NextSlot(kv)' = NextSlot(kv)
    BY <1>2 DEF vars, disk, Total, NextSlot, PoolLogs
  <2> QED
    BY <1>2, <2>1 DEF vars, disk, mem, QuietOK, PoolInUse, FewRequests, NoRequestLost,
       Outstanding
<1>3. CASE Next
  <2>1. Total' = IF AddRecordLog THEN Total + 1 ELSE Total
    BY <1>3, TotalGrows
  <2>2. ASSUME NEW seqID \in GivenSeqIDs, PreLog(seqID)
        PROVE  QuietOK'
    <3>1. ~AddRecordLog
      BY <2>2 DEF PreLog, AddRecordLog
    <3> QED
      BY <1>1, <2>1, <2>2, <3>1, QuietPreLog
  <2>3. CASE AppendStep /\ ~\E seqID \in GivenSeqIDs : PreLog(seqID)
    <3>1. /\ UNCHANGED <<openPool, queue, issued, snaps, builder>>
          /\ stage' # "prelogged"
          /\ stage' = "added" => stage = "prelogged" /\ UNCHANGED kv
          /\ recover' # None => stage' \in {"prelogged", "added", "saved"}
          /\ UNCHANGED kv \/ kv'.pool = openPool
      BY <2>3, QuietAppend, AppendOpens
    <3>2. kv'.pool <= openPool'
      <4>1. openPool \in Nat /\ kv.pool <= openPool
        BY DEF QuietOK, PoolInUse, IInv, TypeOK, AppendTypeOK
      <4> QED
        BY <3>1, <4>1
    <3>3. stage' = "added" => openPool' = NextSlot(kv)'.pool
      <4>1. UNCHANGED kv => NextSlot(kv)' = NextSlot(kv)
        BY DEF NextSlot
      <4> QED
        BY <3>1, <4>1 DEF QuietOK, PoolInUse
    <3>4. Total' <= issued'
      <4>1. AddRecordLog => Total < issued
        BY DEF QuietOK, PoolInUse, AddRecordLog
      <4> QED
        BY <1>1, <2>1, <3>1, <4>1 DEF QuietOK, PoolInUse
    <3>5. PoolInUse'
      BY <3>1, <3>2, <3>3, <3>4 DEF QuietOK, PoolInUse
    <3> QED
      BY <3>1, <3>5 DEF QuietOK, FewRequests, NoRequestLost, Outstanding
  <2>4. CASE BuildStep \/ \E r \in Readers : ReadStep(r)
    <3>1. UNCHANGED <<kv, recover, mem>>
      BY <2>4 DEF BuildStep, BuildTake, BuildSkip, BuildApply, BuildStore, ReadStep, ReadBegin,
         ReadSnapshot, ReadPool, disk
    <3>2. ~AddRecordLog
      BY <3>1 DEF AddRecordLog, mem
    <3>3. Total' = Total /\ NextSlot(kv)' = NextSlot(kv)
      BY <2>1, <3>1, <3>2 DEF NextSlot
    <3>4. PoolInUse'
      BY <3>1, <3>3 DEF mem, QuietOK, PoolInUse
    <3>5. CASE BuildStep
      BY <3>4, <3>5, QuietBuild DEF QuietOK
    <3>6. CASE \E r \in Readers : ReadStep(r)
      <4>1. UNCHANGED <<openPool, queue, snaps, builder>>
        BY <3>6 DEF ReadStep, ReadBegin, ReadSnapshot, ReadPool, disk, mem
      <4> QED
        BY <3>4, <4>1 DEF QuietOK, FewRequests, NoRequestLost, Outstanding
    <3> QED
      BY <2>4, <3>5, <3>6
  <2>5. ~Restart
    BY DEF Restart, QuietRun
  <2> QED
    BY <1>3, <2>2, <2>3, <2>4, <2>5 DEF Next
<1> QED
  BY <1>2, <1>3

(* The first pool is in use, and nothing is asked for.                      *)
LEMMA InitQuietOK == Init => IssuedOK /\ QuietOK
<1> SUFFICES ASSUME Init
             PROVE  IssuedOK /\ QuietOK
  OBVIOUS
<1>1. /\ kv = [pool |-> 0, id |-> 0] /\ openPool = 0 /\ queue = <<>> /\ issued = 0
      /\ stage = "idle" /\ recover = None
  BY DEF Init
<1>2. Total = 0
  <2>1. WholeLog = <<>>
    BY InitMaps DEF Abstract!Init
  <2>2. IInv
    BY InitIInv
  <2>3. Len(WholeLog) = Total
    BY <2>2, WholeLogType DEF WholeLogOK
  <2>4. Len(<<>>) = 0
    BY EmptySeq
  <2> QED
    BY <2>1, <2>3, <2>4
<1>3. IssuedOK
  BY <1>1, SyncerAssumption DEF IssuedOK
<1>4. Len(queue) = 0 /\ 1 .. Len(queue) = {} /\ 0 .. (openPool - 1) = {}
  BY <1>1
<1>5. QuietOK
  BY <1>1, <1>2, <1>4 DEF QuietOK, PoolInUse, FewRequests, NoRequestLost
<1> QED
  BY <1>3, <1>5

(* Without restarts and I/O errors no request is lost, as long as the queue *)
(* has a place for every pool that is left: a fresh reader misses nothing.  *)
THEOREM QuietRequestsKept ==
  ASSUME QuietRun
  PROVE  Spec => []NoRequestLost
<1>1. IInv /\ RequestsOK /\ IssuedOK /\ QuietOK /\ [Next]_vars => QuietOK'
  BY NextQuietOK
<1>2. IInv /\ IssuedOK /\ [Next]_vars => IssuedOK'
  BY NextIssuedOK
<1>3. IInv /\ RequestsOK /\ [Next]_vars => RequestsOK'
  BY NextRequestsOK
<1>4. QuietOK => NoRequestLost
  BY DEF QuietOK
<1> QED
  BY <1>1, <1>2, <1>3, <1>4, InitQuietOK, InitContentOK, SyncerInvariant, PTL DEF Spec

(* So a fresh reader of such a run misses nothing. *)
THEOREM QuietFreshReaders ==
  ASSUME QuietRun
  PROVE  Spec => []FreshReaderMissesNothing
<1>1. Spec => []NoRequestLost
  BY QuietRequestsKept
<1> QED
  BY <1>1, FreshReaders, PTL
=============================================================================
