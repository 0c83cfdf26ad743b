------------------------------- MODULE Syncer -------------------------------
(***************************************************************************)
(* The log syncer of syncer/syncer.go and syncer/snapshot.go over the file *)
(* storage of syncer/impls: an append-only log cut into pools (files) of   *)
(* SnapshotLogCount logs, a cursor kept in a key-value file, an            *)
(* interrupted-log record that lets an append cut short by a crash be      *)
(* finished, a routine that builds one snapshot per closed pool, and       *)
(* readers that run beside the appends without the lock.                   *)
(*                                                                         *)
(* An append is cut at each of its writes to disk, so that a restart may   *)
(* fall between any two of them.  The body of a log (operation, record,    *)
(* data, versions) is a number that identifies the log; what applying      *)
(* bodies to a snapshot does is the subject of module RecordSnapshot, and  *)
(* a snapshot is here the sequence of the bodies it was built from.        *)
(***************************************************************************)
EXTENDS Naturals, Sequences

CONSTANTS
  SnapshotLogCount, \* logs per pool; 0: one pool and no snapshots
  QueueCap,         \* capacity of chSnapshotBuild
  GivenSeqIDs,      \* what the SeqID field of a log handed in may hold
  NoSeqID,          \* the empty SeqID
  None,             \* no interrupted log, no pending log, no snapshot
  Readers,          \* concurrent calls of GetAllLogs
  MaxLogs,          \* bound: how many logs are handed to the syncer
  CanCrash,         \* the process may be restarted at any step
  CanFail           \* a read or a write of the storage may fail

ASSUME SyncerAssumption ==
  /\ SnapshotLogCount \in Nat
  /\ QueueCap \in Nat \ {0}
  /\ NoSeqID \notin Nat
  /\ GivenSeqIDs \subseteq Nat \cup {NoSeqID}
  /\ MaxLogs \in Nat
  /\ CanCrash \in BOOLEAN
  /\ CanFail \in BOOLEAN

\* A snapshot that was stored is told from no snapshot.
ASSUME NoneAssumption == None \notin Seq(Nat)

VARIABLES
  (* on disk *)
  kv,        \* the saved cursor: the pool appended to last, the next id on it
  pools,     \* log-pool_<k>.dat: the logs of pool k, for the pools that exist
  snaps,     \* log-pool_<k>.dat.snapshot, for the pools that have one
  recover,   \* ":recover-log": the interrupted log, or None
  (* in memory *)
  cursor,    \* currentLogPoolIndex, nextLogIDOnCurrentPool
  openPool,  \* the id of logPool
  queue,     \* chSnapshotBuild
  stage,     \* how far the append that holds poolLock has come
  pending,   \* the log it appends and the slot it appends it at, or None
  builder,   \* snapShotBuildRoutine
  rd,        \* the calls of GetAllLogs
  (* history, for the properties only *)
  issued,    \* logs handed in so far
  acked,     \* the appends that returned no error: slot and body
  rejected   \* AddRecordLog has answered CodeErrLogic

disk   == <<kv, pools, snaps, recover>>
mem    == <<cursor, openPool, stage, pending, issued, acked, rejected>>
vars   == <<disk, mem, queue, builder, rd>>

-----------------------------------------------------------------------------
Slot        == [pool : Nat, id : Nat]
Log         == [body : Nat, seqID : Nat \cup {NoSeqID}]
Interrupted == [log : Log, slot : Slot]
Stages      == {"idle", "recover", "recommitted", "callback",
                "prelogged", "added", "saved"}

\* A file that does not exist reads as one without logs.
PoolLogs(k) == IF k \in DOMAIN pools THEN pools[k] ELSE <<>>

\* f with v at key k.
Put(f, k, v) == [x \in DOMAIN f \cup {k} |-> IF x = k THEN v ELSE f[x]]

\* Mutant: the pool is left one log late.
NextSlotLate(c) ==
  IF SnapshotLogCount = 0 THEN [pool |-> 0, id |-> c.id]
  ELSE IF c.id <= SnapshotLogCount THEN c
  ELSE [pool |-> c.pool + 1, id |-> 0]

\* getPoolIndexOnLock: where the next log goes.
NextSlot(c) ==
  IF SnapshotLogCount = 0 THEN [pool |-> 0, id |-> c.id]
  ELSE IF c.id < SnapshotLogCount THEN c
  ELSE [pool |-> c.pool + 1, id |-> 0]

After(s) == [s EXCEPT !.id = s.id + 1]

\* EqualLog compares every field, the SeqID that AddRecordLog stamps included.
EqualLog(dbLog, log) == dbLog = log

-----------------------------------------------------------------------------
\* Mutant: the request does not look whether the queue has room.
MustLogPoolUnbounded(k) ==
  /\ openPool' = k
  /\ queue' = IF openPool # k /\ SnapshotLogCount > 0
              THEN Append(queue, openPool) ELSE queue

\* Mutant: leaving a pool asks for nothing.
MustLogPoolForgets(k) == openPool' = k /\ queue' = queue

(* mustLogPoolByIndexOnLock and trySnapshot: leaving a pool asks for its    *)
(* snapshot, unless the queue is full.                                      *)
MustLogPool(k) ==
  /\ openPool' = k
  /\ queue' = IF openPool # k /\ SnapshotLogCount > 0 /\ Len(queue) < QueueCap
              THEN Append(queue, openPool)
              ELSE queue

\* Mutant: only the memory moves on.
SavePoolIndexInMemory(s) == kv' = kv /\ cursor' = s

(* savePoolIndexOnLock, when the write succeeds. *)
SavePoolIndex(s) ==
  /\ kv' = s
  /\ cursor' = s

(* AfterLog: its error is dropped by every caller. *)
AfterLog ==
  \/ recover' = None
  \/ CanFail /\ recover' = recover

-----------------------------------------------------------------------------
(* tryNewLog takes poolLock. *)
BeginAppend ==
  /\ stage = "idle"
  /\ stage' = "recover"
  /\ UNCHANGED <<disk, cursor, openPool, pending, issued, acked, rejected,
                 queue, builder, rd>>

(* processUnexpectedLogsOnLock finds no interrupted log. *)
RecoverNothing ==
  /\ stage = "recover"
  /\ recover = None
  /\ stage' = "callback"
  /\ UNCHANGED <<disk, cursor, openPool, pending, issued, acked, rejected,
                 queue, builder, rd>>

\* The interrupted log reached its pool and can be committed.
Landed(i) ==
  LET logs == PoolLogs(i.slot.pool)
  IN  /\ logs # <<>>
      /\ Len(logs) - 1 = i.slot.id
      /\ EqualLog(logs[Len(logs)], i.log)

(* The interrupted log is for another pool than the next log's. *)
RecoverOtherPool ==
  /\ stage = "recover"
  /\ recover # None
  /\ recover.slot.pool # NextSlot(cursor).pool
  /\ AfterLog
  /\ stage' = "callback"
  /\ UNCHANGED <<kv, pools, snaps, cursor, openPool, pending, issued, acked,
                 rejected, queue, builder, rd>>

(* It is not the last log of its pool. *)
RecoverDiscard ==
  /\ stage = "recover"
  /\ recover # None
  /\ recover.slot.pool = NextSlot(cursor).pool
  /\ MustLogPool(recover.slot.pool)
  /\ ~Landed(recover)
  /\ AfterLog
  /\ stage' = "callback"
  /\ UNCHANGED <<kv, pools, snaps, cursor, pending, issued, acked, rejected,
                 builder, rd>>

(* It is: the cursor moves past it. *)
RecoverCommit ==
  /\ stage = "recover"
  /\ recover # None
  /\ recover.slot.pool = NextSlot(cursor).pool
  /\ MustLogPool(recover.slot.pool)
  /\ Landed(recover)
  /\ SavePoolIndex(After(recover.slot))
  /\ stage' = "recommitted"
  /\ UNCHANGED <<pools, snaps, recover, pending, issued, acked, rejected,
                 builder, rd>>

RecoverClear ==
  /\ stage = "recommitted"
  /\ AfterLog
  /\ stage' = "callback"
  /\ UNCHANGED <<kv, pools, snaps, cursor, openPool, pending, issued, acked,
                 rejected, queue, builder, rd>>

(* GetInterruptedLog or savePoolIndexOnLock fails: tryNewLog gives up. *)
RecoverFail ==
  /\ CanFail
  /\ stage = "recover"
  /\ \/ UNCHANGED <<openPool, queue>>
     \/ /\ recover # None
        /\ recover.slot.pool = NextSlot(cursor).pool
        /\ Landed(recover)
        /\ MustLogPool(recover.slot.pool)
  /\ stage' = "idle"
  /\ UNCHANGED <<disk, cursor, pending, issued, acked, rejected, builder, rd>>

(* The caller's modifier refuses (AppendPluginLog). *)
CallbackError ==
  /\ stage = "callback"
  /\ stage' = "idle"
  /\ UNCHANGED <<disk, cursor, openPool, pending, issued, acked, rejected,
                 queue, builder, rd>>

(* The callback's log, the slot for it, the pool that holds the slot, and   *)
(* PreLog.                                                                  *)
PreLog(seqID) ==
  LET new == [log |-> [body |-> issued + 1, seqID |-> seqID],
              slot |-> NextSlot(cursor)]
  IN  /\ stage = "callback"
      /\ issued < MaxLogs
      /\ issued' = issued + 1
      /\ MustLogPool(new.slot.pool)
      /\ \/ /\ recover' = new
            /\ pending' = new
            /\ stage' = "prelogged"
         \/ /\ CanFail
            /\ stage' = "idle"
            /\ UNCHANGED <<recover, pending>>
      /\ UNCHANGED <<kv, pools, snaps, cursor, acked, rejected, builder, rd>>

\* Mutants: the index is not compared with the length of the pool; the log is
\* added (AddRecordLogUnchecked) or overwrites what is there.
AddRecordLogUnchecked ==
  LET s == pending.slot
  IN  /\ stage = "prelogged"
      /\ pools' = Put(pools, s.pool,
                      Append(PoolLogs(s.pool), [pending.log EXCEPT !.seqID = s.id]))
      /\ stage' = "added"
      /\ UNCHANGED <<kv, snaps, recover, cursor, openPool, pending, issued,
                     acked, rejected, queue, builder, rd>>

AddRecordLogOverwrites ==
  LET s == pending.slot
  IN  /\ stage = "prelogged"
      /\ pools' = Put(pools, s.pool,
                      Append(SubSeq(PoolLogs(s.pool), 1, s.id),
                             [pending.log EXCEPT !.seqID = s.id]))
      /\ stage' = "added"
      /\ UNCHANGED <<kv, snaps, recover, cursor, openPool, pending, issued,
                     acked, rejected, queue, builder, rd>>

(* AddRecordLog stamps the log with its index in the pool. *)
AddRecordLog ==
  LET s == pending.slot
  IN  /\ stage = "prelogged"
      /\ Len(PoolLogs(s.pool)) = s.id
      /\ pools' = Put(pools, s.pool,
                      Append(PoolLogs(s.pool), [pending.log EXCEPT !.seqID = s.id]))
      /\ stage' = "added"
      /\ UNCHANGED <<kv, snaps, recover, cursor, openPool, pending, issued,
                     acked, rejected, queue, builder, rd>>

(* It answers CodeErrLogic because the index is not the next one, or the    *)
(* write of the pool's file fails.                                          *)
AddRecordLogError ==
  /\ stage = "prelogged"
  /\ \/ /\ Len(PoolLogs(pending.slot.pool)) # pending.slot.id
        /\ rejected' = TRUE
     \/ CanFail /\ UNCHANGED rejected
  /\ AfterLog
  /\ pending' = None
  /\ stage' = "idle"
  /\ UNCHANGED <<kv, pools, snaps, cursor, openPool, issued, acked, queue,
                 builder, rd>>

(* savePoolIndexOnLock; when it fails the interrupted log stays. *)
SaveIndex ==
  /\ stage = "added"
  /\ \/ /\ SavePoolIndex(After(pending.slot))
        /\ stage' = "saved"
        /\ UNCHANGED pending
     \/ /\ CanFail
        /\ stage' = "idle"
        /\ pending' = None
        /\ UNCHANGED <<kv, cursor>>
  /\ UNCHANGED <<pools, snaps, recover, openPool, issued, acked, rejected,
                 queue, builder, rd>>

\* Mutant: poolLock is not given back.
EndAppendKeepsLock ==
  /\ stage = "saved"
  /\ recover' = None
  /\ UNCHANGED <<kv, pools, snaps, cursor, openPool, stage, pending, issued,
                 acked, rejected, queue, builder, rd>>

(* tryNewLog returns nil. *)
EndAppend ==
  /\ stage = "saved"
  /\ AfterLog
  /\ acked' = acked \cup {[slot |-> pending.slot, body |-> pending.log.body]}
  /\ pending' = None
  /\ stage' = "idle"
  /\ UNCHANGED <<kv, pools, snaps, cursor, openPool, issued, rejected, queue,
                 builder, rd>>

AppendStep ==
  \/ BeginAppend \/ RecoverNothing \/ RecoverOtherPool \/ RecoverDiscard
  \/ RecoverCommit \/ RecoverClear \/ RecoverFail \/ CallbackError
  \/ \E seqID \in GivenSeqIDs : PreLog(seqID)
  \/ AddRecordLog \/ AddRecordLogError \/ SaveIndex \/ EndAppend

-----------------------------------------------------------------------------
(* snapShotBuildRoutine and buildSnapshotOnRoutine.  The pools of a request *)
(* are closed and the routine is the only writer of snapshots, so that its  *)
(* reads need not be told apart.                                            *)
Bodies(logs) == [i \in 1..Len(logs) |-> logs[i].body]

\* GetLastSnapshotData(k): what the snapshot of pool k starts from.
LastSnapshot(k) == IF k > 0 /\ k - 1 \in DOMAIN snaps THEN snaps[k - 1] ELSE None

IdleBuilder == [pc |-> "idle", pool |-> 0, content |-> <<>>]

BuildTake ==
  /\ builder.pc = "idle"
  /\ queue # <<>>
  /\ queue' = Tail(queue)
  /\ builder' = [builder EXCEPT !.pc = "build", !.pool = Head(queue)]
  /\ UNCHANGED <<disk, mem, rd>>

\* The pool has a snapshot already, or reading a snapshot fails.
BuildSkip ==
  /\ builder.pc = "build"
  /\ builder.pool \in DOMAIN snaps \/ CanFail
  /\ builder' = IdleBuilder
  /\ UNCHANGED <<disk, mem, queue, rd>>

\* Mutant: the snapshot starts from nothing.
BuildApplyFresh ==
  LET k == builder.pool
  IN  /\ builder.pc = "build"
      /\ k \notin DOMAIN snaps
      /\ builder' = [pc |-> "store", pool |-> k, content |-> Bodies(PoolLogs(k))]
      /\ UNCHANGED <<disk, mem, queue, rd>>

\* NewSnapshot(base), then every log of the pool.
BuildApply ==
  LET k    == builder.pool
      base == IF LastSnapshot(k) = None THEN <<>> ELSE LastSnapshot(k)
  IN  /\ builder.pc = "build"
      /\ k \notin DOMAIN snaps
      /\ builder' = [pc |-> "store", pool |-> k,
                     content |-> base \o Bodies(PoolLogs(k))]
      /\ UNCHANGED <<disk, mem, queue, rd>>

BuildStore ==
  /\ builder.pc = "store"
  /\ \/ snaps' = Put(snaps, builder.pool, builder.content)
     \/ CanFail /\ UNCHANGED snaps
  /\ builder' = IdleBuilder
  /\ UNCHANGED <<kv, pools, recover, mem, queue, rd>>

BuildStep == BuildTake \/ BuildSkip \/ BuildApply \/ BuildStore

-----------------------------------------------------------------------------
(* GetAllLogs.  from = 0 is the empty startSeqID, from = n + 1 the SeqID n. *)
(* Only getPoolIndex takes poolLock: the pools are read beside the appends. *)
PoolOf(n) == IF SnapshotLogCount = 0 THEN 0 ELSE n \div SnapshotLogCount
IdOf(n)   == IF SnapshotLogCount = 0 THEN n ELSE n % SnapshotLogCount
Pos(s)    == s.pool * SnapshotLogCount + s.id

IdleCall == [pc |-> "idle", from |-> 0, floor |-> 0, last |-> 0, pool |-> 0,
             idx |-> 0, snap |-> None, out |-> <<>>]

\* GetRecordLogs(start, 0)
RecordLogs(k, start) == SubSeq(PoolLogs(k), start + 1, Len(PoolLogs(k)))

ReadBegin(r, from) ==
  LET next == NextSlot(cursor)
      last == IF next.id = 0 /\ next.pool > 0 THEN next.pool - 1 ELSE next.pool
  IN  /\ stage = "idle"
      /\ rd[r].pc \in {"idle", "done", "failed"}
      /\ rd' = [rd EXCEPT ![r] =
                  [IdleCall EXCEPT
                    !.pc    = IF next.pool = 0 /\ next.id = 0 THEN "done"
                              ELSE IF from = 0 /\ last > 0 THEN "snapshot"
                              ELSE "pools",
                    !.from  = from,
                    !.floor = Pos(kv),
                    !.last  = last,
                    !.pool  = PoolOf(from),
                    !.idx   = IdOf(from)]]
      /\ UNCHANGED <<disk, mem, queue, builder>>

ReadSnapshot(r) ==
  LET c == rd[r]
      d == LastSnapshot(c.last)
  IN  /\ c.pc = "snapshot"
      /\ \/ rd' = [rd EXCEPT ![r] =
                     IF d = None THEN [c EXCEPT !.pc = "pools"]
                     ELSE [c EXCEPT !.pc = "pools", !.pool = c.last, !.snap = d]]
         \/ CanFail /\ rd' = [rd EXCEPT ![r].pc = "failed"]
      /\ UNCHANGED <<disk, mem, queue, builder>>

\* Mutant: the index within the first pool is kept for the next one.
ReadPoolKeepsIndex(r) ==
  LET c    == rd[r]
      logs == RecordLogs(c.pool, c.idx)
      new  == [i \in 1..Len(logs) |->
                [seqID |-> c.pool * SnapshotLogCount + c.idx + (i - 1),
                 body  |-> logs[i].body]]
  IN  /\ c.pc = "pools"
      /\ rd' = [rd EXCEPT ![r] =
                  IF c.pool < c.last
                  THEN [c EXCEPT !.out = c.out \o new, !.pool = c.pool + 1]
                  ELSE [c EXCEPT !.out = c.out \o new, !.pc = "done"]]
      /\ UNCHANGED <<disk, mem, queue, builder>>

ReadPool(r) ==
  LET c    == rd[r]
      logs == RecordLogs(c.pool, c.idx)
      new  == [i \in 1..Len(logs) |->
                [seqID |-> c.pool * SnapshotLogCount + c.idx + (i - 1),
                 body  |-> logs[i].body]]
  IN  /\ c.pc = "pools"
      /\ rd' = [rd EXCEPT ![r] =
                  IF c.pool < c.last
                  THEN [c EXCEPT !.out = c.out \o new, !.pool = c.pool + 1, !.idx = 0]
                  ELSE [c EXCEPT !.out = c.out \o new, !.pc = "done"]]
      /\ UNCHANGED <<disk, mem, queue, builder>>

ReadStep(r) ==
  \/ \E from \in 0..MaxLogs : ReadBegin(r, from)
  \/ ReadSnapshot(r)
  \/ ReadPool(r)

-----------------------------------------------------------------------------
(* The process ends at any point and NewSyncer runs again: init loads the   *)
(* cursor and opens its pool; everything else in memory is lost.            *)
Restart ==
  /\ CanCrash
  /\ cursor' = kv
  /\ openPool' = kv.pool
  /\ queue' = <<>>
  /\ stage' = "idle"
  /\ pending' = None
  /\ builder' = IdleBuilder
  /\ rd' = [r \in Readers |-> IdleCall]
  /\ UNCHANGED <<disk, issued, acked, rejected>>

Init ==
  /\ kv = [pool |-> 0, id |-> 0]
  /\ pools = <<>>
  /\ snaps = <<>>
  /\ recover = None
  /\ cursor = kv
  /\ openPool = 0
  /\ queue = <<>>
  /\ stage = "idle"
  /\ pending = None
  /\ builder = IdleBuilder
  /\ rd = [r \in Readers |-> IdleCall]
  /\ issued = 0
  /\ acked = {}
  /\ rejected = FALSE

Next == AppendStep \/ BuildStep \/ (\E r \in Readers : ReadStep(r)) \/ Restart

Spec == Init /\ [][Next]_vars

\* A goroutine that holds poolLock runs on; the snapshot routine and a call of
\* GetAllLogs are goroutines too.  Nobody has to call the syncer.
HolderStep == AppendStep /\ ~BeginAppend

FairSpec ==
  /\ Spec
  /\ WF_vars(HolderStep)
  /\ WF_vars(BuildStep)
  /\ \A r \in Readers : WF_vars(ReadSnapshot(r) \/ ReadPool(r))

-----------------------------------------------------------------------------
\* What the appends write.
AppendTypeOK ==
  /\ kv \in Slot /\ cursor \in Slot
  /\ DOMAIN pools \subseteq Nat
  /\ \A k \in DOMAIN pools : pools[k] \in Seq(Log)
  /\ recover \in Interrupted \cup {None}
  /\ openPool \in Nat
  /\ queue \in Seq(Nat) /\ Len(queue) <= QueueCap
  /\ stage \in Stages
  /\ pending \in Interrupted \cup {None}
  /\ issued \in Nat
  /\ acked \in SUBSET [slot : Slot, body : Nat]
  /\ rejected \in BOOLEAN

\* What the snapshot routine writes.
SnapshotTypeOK ==
  /\ DOMAIN snaps \subseteq Nat
  /\ \A k \in DOMAIN snaps : snaps[k] \in Seq(Nat)
  /\ builder \in [pc : {"idle", "build", "store"}, pool : Nat, content : Seq(Nat)]

Call == [pc : {"idle", "snapshot", "pools", "done", "failed"},
         from : Nat, floor : Nat, last : Nat, pool : Nat, idx : Nat,
         snap : Seq(Nat) \cup {None}, out : Seq([seqID : Nat, body : Nat])]

(* Every variable has its type; a request never finds the queue overfull.   *)
TypeOK ==
  /\ AppendTypeOK
  /\ SnapshotTypeOK
  /\ rd \in [Readers -> Call]

(* The saved cursor and the pool files agree, whatever step a restart or an *)
(* I/O error cuts: the pools before the next slot's are full, the pools     *)
(* after it are empty, and the slot's own pool holds the logs before the    *)
(* slot and at most the one log whose index was not saved.                  *)
PoolsDense ==
  LET s == NextSlot(kv)
  IN  /\ \A k \in 0..(s.pool - 1) : Len(PoolLogs(k)) = SnapshotLogCount
      /\ Len(PoolLogs(s.pool)) \in {s.id, s.id + 1}
      /\ \A k \in DOMAIN pools : k > s.pool => pools[k] = <<>>

(* An append that returned nil is in the log for good: the slot it was      *)
(* given holds its body, and the saved cursor is past that slot.            *)
AckedDurable ==
  \A a \in acked :
    /\ a.slot.id < Len(PoolLogs(a.slot.pool))
    /\ PoolLogs(a.slot.pool)[a.slot.id + 1].body = a.body
    /\ \/ a.slot.pool < kv.pool
       \/ a.slot.pool = kv.pool /\ a.slot.id < kv.id

(* No step shortens a pool or changes a log in it, appends that fail,       *)
(* recovery and restarts included.                                          *)
AppendOnly ==
  [][\A k \in DOMAIN pools :
       /\ k \in DOMAIN pools'
       /\ Len(pools[k]) <= Len(pools'[k])
       /\ \A i \in 1..Len(pools[k]) : pools'[k][i] = pools[k][i]]_vars

\* The log with sequence number n.
LogAt(n) == PoolLogs(PoolOf(n))[IdOf(n) + 1]

\* The sequence number of the first log a call of GetAllLogs returns as such.
FirstSeqID(c) == IF c.snap = None THEN c.from ELSE c.last * SnapshotLogCount

\* What a reader has been given: consecutive sequence numbers from the one asked
\* for, or from the one after its snapshot, each with the log that has it.
ReadFaithful ==
  \A r \in Readers : \A i \in 1..Len(rd[r].out) :
    LET e == rd[r].out[i]
    IN  /\ e.seqID = FirstSeqID(rd[r]) + (i - 1)
        /\ IdOf(e.seqID) < Len(PoolLogs(PoolOf(e.seqID)))
        /\ e.body = LogAt(e.seqID).body

\* A call that returns nil has returned the logs up to the last one committed
\* when it began: none is missing at the end.
ReadComplete ==
  \A r \in Readers :
    rd[r].pc = "done" => FirstSeqID(rd[r]) + Len(rd[r].out) >= rd[r].floor

(* GetAllLogs reads beside appends, recovery and the snapshot routine, pool *)
(* after pool without the lock, and still gives the right logs under the    *)
(* right numbers, and all that were committed when it began; the ones at    *)
(* the beginning are left to its snapshot, if it has one.                   *)
ReadExact == ReadFaithful /\ ReadComplete

\* content is what the logs below sequence number n fold to.
Folds(content, n) ==
  /\ Len(content) = n
  /\ \A i \in 1..n : content[i] = LogAt(i - 1).body

\* A snapshot stands for every log up to the end of its pool: no request is lost
\* and each is built on the one before it.
SnapshotExact ==
  \A k \in DOMAIN snaps : Folds(snaps[k], (k + 1) * SnapshotLogCount)

(* A client that starts from nothing and one that followed the log from its *)
(* beginning see the same logs: snapshots are exact, and the one handed to  *)
(* the first stands for every log before the first one that follows it.     *)
FreshReaderMissesNothing ==
  /\ SnapshotExact
  /\ \A r \in Readers :
       rd[r].snap # None => Folds(rd[r].snap, rd[r].last * SnapshotLogCount)

(* The index given to AddRecordLog is always the next one of the pool:      *)
(* recovery has put cursor and pool in step before an append goes on.       *)
NoRejectedIndex == ~rejected

(* Every closed pool gets its snapshot.                                     *)
ClosedPoolsGetSnapshots ==
  \A k \in 0..MaxLogs : (k < openPool) ~> (k \in DOMAIN snaps)

(* poolLock is always given back and every read comes to an end.            *)
CallsReturn ==
  /\ stage # "idle" ~> stage = "idle"
  /\ \A r \in Readers :
       rd[r].pc \in {"snapshot", "pools"} ~> rd[r].pc \in {"done", "failed"}
=============================================================================
