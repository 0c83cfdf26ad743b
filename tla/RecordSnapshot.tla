--------------------------- MODULE RecordSnapshot ---------------------------
(***************************************************************************)
(* What a snapshot is made of: syncer/impls (snapshotImpl, the record      *)
(* cache, the plugin manager) with the type-table plugin of                *)
(* syncer/impls/bookkeeping.  A snapshot object is created from the data   *)
(* of the snapshot before, every log of a pool is applied to it, a log     *)
(* that is refused is skipped, and its data is saved.                      *)
(*                                                                         *)
(* A row's version and data are set together by one log, so that the       *)
(* number of that log stands for both; UpdateFlag is always SyncDone.      *)
(* The order of rows in saved data is that of a Go map (RecordRow.At is    *)
(* never set, so that the sort keeps it), and is left out.                 *)
(***************************************************************************)
EXTENDS Naturals, Sequences

CONSTANTS
  RecordIDs,  \* records, and entries of the type table
  Generators, \* the plugins the storage knows: {} (onlyrecord) or {TypeTable}
  TypeTable,  \* TypeTablePluginID
  OtherPlugin,\* a plugin no storage knows
  MaxLogs     \* bound on the logs appended

ASSUME SnapshotAssumption ==
  /\ Generators \subseteq {TypeTable}
  /\ TypeTable # OtherPlugin
  /\ "" \notin {TypeTable, OtherPlugin}
  /\ MaxLogs \in Nat

VARIABLES
  direct,   \* a snapshot object that every log was applied to, never saved
  saved,    \* the data of the last snapshot
  tail,     \* the logs of the pool after it
  count,    \* number of logs
  accepted  \* history: the record logs that were applied, not refused

vars == <<direct, saved, tail, count, accepted>>

-----------------------------------------------------------------------------
\* The two tables of the plugin; another kind is not applied.
Kinds == {"income", "expenses"}

NoRows == <<>>

\* The object: record rows, the plugin caches that exist, the type table's rows.
EmptySnapshot == [rows |-> NoRows, caches |-> {}, types |-> NoRows]

With(f, k, v) == [x \in DOMAIN f \cup {k} |-> IF x = k THEN v ELSE f[x]]
Without(f, k) == [x \in DOMAIN f \ {k} |-> f[x]]

-----------------------------------------------------------------------------
\* Mutant: a stale base version is let through.
RefusedUnversioned(rows, log) ==
  IF log.op = "add" THEN log.id \in DOMAIN rows ELSE log.id \notin DOMAIN rows

(* ApplyAdd-, ApplyChange- and ApplyDelRecordLog: the row exists already,   *)
(* does not exist, or has another version than the log was made against.    *)
Refused(rows, log) ==
  IF log.op = "add"
  THEN log.id \in DOMAIN rows
  ELSE \/ log.id \notin DOMAIN rows
       \/ rows[log.id] # log.base

ApplyRecordLog(s, log) ==
  IF Refused(s.rows, log) THEN s
  ELSE [s EXCEPT !.rows = IF log.op = "del" THEN Without(s.rows, log.id)
                          ELSE With(s.rows, log.id, log.n)]

(* GetCache creates the plugin's cache; ApplyLog of the type table puts or  *)
(* deletes the row of the log's kind, whatever its version.                 *)
ApplyPluginLog(s, log) ==
  LET key == <<log.kind, log.id>>
  IN  IF log.plugin \notin Generators THEN s
      ELSE [s EXCEPT
              !.caches = s.caches \cup {log.plugin},
              !.types  = IF log.kind \notin Kinds THEN s.types
                         ELSE IF log.op = "del" THEN Without(s.types, key)
                         ELSE With(s.types, key, log.n)]

\* The switch in buildSnapshotOnRoutine.
Apply(s, log) ==
  IF log.plugin = "" THEN ApplyRecordLog(s, log) ELSE ApplyPluginLog(s, log)

(* GetSnapshotData: the records, and the data of every plugin cache.        *)
GetSnapshotData(s) ==
  [records |-> s.rows,
   plugins |-> [p \in s.caches |-> s.types]]

\* Mutant: the expenses types are not read back.
LoadedIncomeOnly(plugins) ==
  IF TypeTable \notin DOMAIN plugins THEN NoRows
  ELSE [k \in {e \in DOMAIN plugins[TypeTable] : e[1] = "income"} |->
          plugins[TypeTable][k]]

\* init of the type table's cache: the rows of its plugin record, if any.
Loaded(plugins) ==
  IF TypeTable \notin DOMAIN plugins THEN NoRows ELSE plugins[TypeTable]

(* NewSnapshot(lastData): the plugin manager keeps the caches that found    *)
(* data, the others are created again by the first log for them.            *)
NewSnapshot(data) ==
  LET types == Loaded(data.plugins)
  IN  [rows   |-> data.records,
       caches |-> {p \in Generators : DOMAIN types # {}},
       types  |-> IF Generators = {} THEN NoRows ELSE types]

\* The snapshot s after logs, one after the other.
Applied(s, logs) ==
  LET after[i \in 0..Len(logs)] == IF i = 0 THEN s ELSE Apply(after[i - 1], logs[i])
  IN  after[Len(logs)]

\* buildSnapshotOnRoutine over the logs of a pool.
Build(data, logs) == GetSnapshotData(Applied(NewSnapshot(data), logs))

-----------------------------------------------------------------------------
Init ==
  /\ direct = EmptySnapshot
  /\ saved = GetSnapshotData(EmptySnapshot)
  /\ tail = <<>>
  /\ count = 0
  /\ accepted = {}

(* A log: n is its number, base the version it was made against (0: none),  *)
(* plugin the plugin it is for ("": a record log), kind its MetaDataType.   *)
AppendLog(log) ==
  /\ log.n = count + 1
  /\ count' = count + 1
  /\ tail' = Append(tail, log)
  /\ direct' = Apply(direct, log)
  /\ accepted' = IF log.plugin = "" /\ ~Refused(direct.rows, log)
                 THEN accepted \cup {log} ELSE accepted
  /\ UNCHANGED saved

(* AppendAdd-, AppendDel- and AppendChangeRecordLog. *)
AppendRecordLog(op, id, base) ==
  AppendLog([n |-> count + 1, op |-> op, id |-> id, base |-> base,
             plugin |-> "", kind |-> "unknown"])

AppendPluginLog(op, id, plugin, kind) ==
  AppendLog([n |-> count + 1, op |-> op, id |-> id, base |-> 0,
             plugin |-> plugin, kind |-> kind])

(* The pool is full and its snapshot is built. *)
BuildSnapshot ==
  /\ tail # <<>>
  /\ saved' = Build(saved, tail)
  /\ tail' = <<>>
  /\ UNCHANGED <<direct, count, accepted>>

Next ==
  \/ /\ count < MaxLogs
     /\ \E id \in RecordIDs :
          \/ AppendRecordLog("add", id, 0)
          \/ \E op \in {"del", "change"}, base \in 0..count :
               AppendRecordLog(op, id, base)
          \/ \E op \in {"add", "del", "change"}, kind \in Kinds \cup {"unknown"} :
               AppendPluginLog(op, id, TypeTable, kind)
          \/ AppendPluginLog("add", id, OtherPlugin, "income")
  \/ BuildSnapshot

Spec == Init /\ [][Next]_vars

-----------------------------------------------------------------------------
\* Data without the records of plugins that hold nothing: NewSnapshot drops a
\* cache that was emptied.
Content(data) ==
  [records |-> data.records,
   plugins |-> [p \in {q \in DOMAIN data.plugins : DOMAIN data.plugins[q] # {}} |->
                  data.plugins[p]]]

(* Saving and loading at pool boundaries loses nothing: the snapshot built  *)
(* from the last one and the logs after it is the one that applying every   *)
(* log from the beginning gives, wherever the pools were cut.               *)
SnapshotsCompose ==
  Content(Build(saved, tail)) = Content(GetSnapshotData(direct))

(* No update is lost: of the changes and deletions made against one version *)
(* of a record, at most one is applied.                                     *)
OneWriterPerVersion ==
  \A l, m \in accepted :
    l # m /\ l.op # "add" /\ m.op # "add" /\ l.id = m.id => l.base # m.base
=============================================================================
