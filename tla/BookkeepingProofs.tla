------------------------- MODULE BookkeepingProofs --------------------------
(***************************************************************************)
(* Proofs about the bookkeeping plugin's type table, for every set of ids  *)
(* and labels, and about the snapshots of record and plugin logs: who may  *)
(* change a version, and that snapshots built on snapshots are the right   *)
(* ones.                                                                   *)
(***************************************************************************)
EXTENDS TypeTable, RecordSnapshot, Sums

(* An empty table has no ids. *)
LEMMA EmptyTable == DOMAIN <<>> = {}
OBVIOUS

(* The types are kept. *)
LEMMA TypesKept == TypeOK /\ [TableNext]_tableVars => TypeOK'
<1> SUFFICES ASSUME TypeOK, [TableNext]_tableVars PROVE TypeOK'
  OBVIOUS
<1> USE DEF TypeOK, Row
<1>1. ASSUME NEW id \in IDs, NEW label \in Labels, NEW parent \in IDs \cup {NoID},
             Add(id, label, parent)
      PROVE  TypeOK'
  BY <1>1 DEF Add
<1>2. ASSUME NEW id \in IDs, NEW label \in Labels, NEW parent \in IDs \cup {NoID},
             Change(id, label, parent)
      PROVE  TypeOK'
  BY <1>2 DEF Change, ChangeAccepted
<1>3. ASSUME NEW id \in IDs, NEW to \in IDs, Del(id, to) PROVE TypeOK'
  BY <1>3 DEF Del, DelAccepted
<1>4. CASE ResetRows
  <2>1. DOMAIN rows' = {} BY <1>4, EmptyTable DEF ResetRows
  <2> QED BY <1>4, <2>1 DEF ResetRows
<1>5. CASE ResetParents BY <1>5 DEF ResetParents
<1>6. CASE Restart BY <1>6 DEF Restart, LoadedParents
<1>7. CASE UNCHANGED tableVars BY <1>7 DEF tableVars
<1> QED BY <1>1, <1>2, <1>3, <1>4, <1>5, <1>6, <1>7 DEF TableNext

(* Transfers are well-founded after every step: a target can be used.       *)
LEMMA TransfersKept == TypeOK /\ TransfersEnd /\ [TableNext]_tableVars => TransfersEnd'
<1> SUFFICES ASSUME TypeOK, TransfersEnd, [TableNext]_tableVars PROVE TransfersEnd'
  OBVIOUS
<1> USE DEF TransfersEnd, Live
<1>1. ASSUME NEW id \in IDs, NEW label \in Labels, NEW parent \in IDs \cup {NoID},
             Add(id, label, parent)
      PROVE  TransfersEnd'
  BY <1>1 DEF Add, AddAccepted
<1>2. ASSUME NEW id \in IDs, NEW label \in Labels, NEW parent \in IDs \cup {NoID},
             Change(id, label, parent)
      PROVE  TransfersEnd'
  <2>1. DOMAIN rows' = DOMAIN rows /\ \A x \in DOMAIN rows : rows'[x].to = rows[x].to
    BY <1>2 DEF Change, ChangeAccepted, TypeOK, Row
  <2> QED BY <2>1
<1>3. ASSUME NEW id \in IDs, NEW to \in IDs, Del(id, to) PROVE TransfersEnd'
  <2>1. /\ DOMAIN rows' = DOMAIN rows /\ rows'[id].to = to
        /\ \A x \in DOMAIN rows \ {id} : rows'[x] = rows[x]
        /\ to # id /\ Live(to) /\ id \in DOMAIN rows
    BY <1>3 DEF Del, DelAccepted, TypeOK, Row
  <2>2. ASSUME NEW S \in SUBSET DOMAIN rows, S # {}
        PROVE  \E x \in S : Live(x)' \/ rows'[x].to \notin S
    <3>1. CASE id \in S /\ to \notin S BY <2>1, <3>1
    <3>2. CASE id \in S /\ to \in S BY <2>1, <3>2
    <3>3. CASE id \notin S BY <2>1, <2>2, <3>3
    <3> QED BY <3>1, <3>2, <3>3
  <2> QED BY <2>1, <2>2
<1>4. CASE ResetRows BY <1>4 DEF ResetRows
<1>5. CASE ResetParents BY <1>5 DEF ResetParents
<1>6. CASE Restart BY <1>6 DEF Restart
<1>7. CASE UNCHANGED tableVars BY <1>7 DEF tableVars
<1> QED BY <1>1, <1>2, <1>3, <1>4, <1>5, <1>6, <1>7 DEF TableNext

(* Type correctness. *)
THEOREM TypeTableTyped == TableSpec => []TypeOK
<1>1. TableInit => TypeOK BY EmptyTable DEF TableInit, TypeOK
<1> QED BY <1>1, TypesKept, PTL DEF TableSpec

(* No deleted type is left without a usable one to take its place, even     *)
(* when Reset runs beside Add and Del.                                      *)
THEOREM TransfersWellFounded == TableSpec => []TransfersEnd
<1>1. TableInit => TypeOK /\ TransfersEnd BY EmptyTable DEF TableInit, TypeOK, TransfersEnd
<1>2. TypeOK /\ TransfersEnd /\ [TableNext]_tableVars => (TypeOK /\ TransfersEnd)'
  BY TypesKept, TransfersKept
<1> QED BY <1>1, <1>2, PTL DEF TableSpec

-----------------------------------------------------------------------------
(* Parents are safe because the cache covers them: the two go together.  A  *)
(* Reset that is half done has left no rows, unless another call came.      *)
Covered   == LoadedParents \subseteq valid
HaveParents ==
  \A id \in DOMAIN rows :
    Live(id) /\ rows[id].parent # NoID => TopLive(rows[id].parent)
ParentInv ==
  /\ TypeOK
  /\ ~disturbed => Covered /\ HaveParents /\ (resetting => DOMAIN rows = {})

(* One step keeps cache and parents in order.  A row that is added gets a   *)
(* parent at the top; one that is changed or deleted is nobody's parent, as *)
(* the cache covers the parents.                                            *)
LEMMA ParentsKept == ParentInv /\ [TableNext]_tableVars => ParentInv'
<1> SUFFICES ASSUME ParentInv, [TableNext]_tableVars PROVE ParentInv'
  OBVIOUS
<1> USE DEF ParentInv, Covered, HaveParents, LoadedParents, TopLive, Live
<1>0. TypeOK' BY TypesKept
<1>1. ASSUME NEW id \in IDs, NEW label \in Labels, NEW parent \in IDs \cup {NoID},
             Add(id, label, parent)
      PROVE  ParentInv'
  <2>1. CASE ~disturbed /\ ~resetting
    BY <1>0, <1>1, <2>1 DEF Add, AddAccepted
  <2>2. CASE disturbed \/ resetting
    BY <1>0, <1>1, <2>2 DEF Add
  <2> QED BY <2>1, <2>2
<1>2. ASSUME NEW id \in IDs, NEW label \in Labels, NEW parent \in IDs \cup {NoID},
             Change(id, label, parent)
      PROVE  ParentInv'
  <2> SUFFICES ASSUME ~disturbed, ~resetting PROVE ParentInv'
    BY <1>0, <1>2 DEF Change
  <2>1. /\ DOMAIN rows' = DOMAIN rows /\ id \in DOMAIN rows
        /\ rows'[id].parent = parent /\ rows'[id].to = rows[id].to
        /\ \A x \in DOMAIN rows \ {id} : rows'[x] = rows[x]
        /\ parent # NoID => parent # id /\ id \notin valid /\ TopLive(parent)
    BY <1>2 DEF Change, ChangeAccepted, TypeOK, Row
  <2>2. Covered'
    BY <1>2, <2>1 DEF Change, HasOtherChild
  <2>3. ASSUME NEW x \in DOMAIN rows, NEW p, Live(x)', rows'[x].parent = p, p # NoID
        PROVE  TopLive(p)'
    <3>1. CASE x = id BY <2>1, <2>3, <3>1
    <3>2. CASE x # id /\ p # id
      <4>1. Live(x) /\ rows[x].parent = p BY <2>1, <2>3, <3>2
      <4>2. TopLive(p) BY <2>3, <4>1
      <4> QED BY <2>1, <3>2, <4>2
    \* id has a child: it is in validParentIDs and stays at the top.
    <3>3. CASE x # id /\ p = id
      <4>1. Live(x) /\ rows[x].parent = id BY <2>1, <2>3, <3>3
      <4>2. id \in valid /\ TopLive(id) BY <2>3, <3>3, <4>1
      <4> QED BY <2>1, <3>3, <4>2
    <3> QED BY <3>1, <3>2, <3>3
  <2>4. HaveParents' BY <2>1, <2>3
  <2> QED BY <1>0, <1>2, <2>2, <2>4 DEF Change
<1>3. ASSUME NEW id \in IDs, NEW to \in IDs, Del(id, to) PROVE ParentInv'
  <2> SUFFICES ASSUME ~disturbed, ~resetting PROVE ParentInv'
    BY <1>0, <1>3 DEF Del
  <2>1. /\ DOMAIN rows' = DOMAIN rows /\ id \in DOMAIN rows
        /\ rows'[id].to = to /\ id \notin valid
        /\ \A x \in DOMAIN rows \ {id} : rows'[x] = rows[x]
    BY <1>3 DEF Del, DelAccepted, TypeOK, Row
  <2>2. Covered'
    BY <1>3, <2>1, TableAssumption DEF Del, HasOtherChild
  \* No usable row has id for a parent.
  <2>3. ASSUME NEW x \in DOMAIN rows, NEW p, Live(x)', rows'[x].parent = p, p # NoID
        PROVE  TopLive(p)'
    <3>1. x # id BY <2>1, <2>3, TableAssumption
    <3>2. Live(x) /\ rows[x].parent = p BY <2>1, <2>3, <3>1
    <3>3. TopLive(p) /\ p \in valid BY <2>3, <3>2
    <3> QED BY <2>1, <3>3
  <2>4. HaveParents' BY <2>1, <2>3
  <2> QED BY <1>0, <1>3, <2>2, <2>4 DEF Del
<1>4. CASE ResetRows
  <2>1. DOMAIN rows' = {} BY <1>4, EmptyTable DEF ResetRows
  <2> QED BY <1>0, <1>4, <2>1 DEF ResetRows
<1>5. CASE ResetParents BY <1>0, <1>5 DEF ResetParents
<1>6. CASE Restart BY <1>0, <1>6 DEF Restart
<1>7. CASE UNCHANGED tableVars BY <1>0, <1>7 DEF tableVars
<1> QED BY <1>1, <1>2, <1>3, <1>4, <1>5, <1>6, <1>7 DEF TableNext

(* A usable type never loses its parent, whatever is added, changed,        *)
(* deleted, reset and loaded, unless a call came between the two halves of  *)
(* a Reset.                                                                 *)
THEOREM ParentsStayUsable == TableSpec => []ParentsUsable
<1>1. TableInit => ParentInv
  BY EmptyTable DEF TableInit, ParentInv, TypeOK, Covered, LoadedParents, HaveParents
<1>2. ParentInv => ParentsUsable BY DEF ParentInv, HaveParents, ParentsUsable
<1> QED BY <1>1, <1>2, ParentsKept, PTL DEF TableSpec

(* The cache of parents never misses one, with the same exception.          *)
THEOREM CacheCovers == TableSpec => []CacheCoversParents
<1>1. TableInit => ParentInv
  BY EmptyTable DEF TableInit, ParentInv, TypeOK, Covered, LoadedParents, HaveParents
<1>2. ParentInv => CacheCoversParents BY DEF ParentInv, Covered, CacheCoversParents
<1> QED BY <1>1, <1>2, ParentsKept, PTL DEF TableSpec

(***************************************************************************)
(* Proof that of the changes made against one version of a record no two   *)
(* are applied, for every set of records, with and without the plugin.     *)
(***************************************************************************)

\* Functions to numbers of logs from some of S.
Rows(S) == UNION {[T -> Nat] : T \in SUBSET S}

Snapshot ==
  [rows : Rows(RecordIDs), caches : SUBSET Generators, types : Rows(Kinds \X RecordIDs)]

\* The rows hold numbers of logs so far, and versions only go up: what a log was
\* made against is older than the row it changed, for ever.
VersionsGoUp(table, n, logs) ==
  /\ table \in Rows(RecordIDs)
  /\ n \in Nat
  /\ \A id \in DOMAIN table : table[id] \in Nat /\ table[id] <= n
  /\ \A l \in logs : l.op # "add" =>
       /\ l.base \in Nat /\ l.base <= n
       /\ l.id \in DOMAIN table => l.base < table[l.id]

IInv ==
  /\ direct \in Snapshot
  /\ VersionsGoUp(direct.rows, count, accepted)
  /\ OneWriterPerVersion

-----------------------------------------------------------------------------
(* Setting a row, and taking one out, leaves rows.                          *)
LEMMA WithRows ==
  ASSUME NEW S, NEW f \in Rows(S), NEW k \in S, NEW v \in Nat
  PROVE  With(f, k, v) \in Rows(S)
<1>1. PICK T \in SUBSET S : f \in [T -> Nat]
  BY DEF Rows
<1>2. With(f, k, v) \in [T \cup {k} -> Nat]
  BY <1>1 DEF With
<1>3. T \cup {k} \in SUBSET S
  BY <1>1
<1> QED
  BY <1>2, <1>3 DEF Rows

(* Rows without one are rows. *)
LEMMA WithoutRows ==
  ASSUME NEW S, NEW f \in Rows(S), NEW k
  PROVE  /\ Without(f, k) \in Rows(S)
         /\ DOMAIN Without(f, k) = DOMAIN f \ {k}
         /\ \A x \in DOMAIN f \ {k} : Without(f, k)[x] = f[x]
<1>1. PICK T \in SUBSET S : f \in [T -> Nat]
  BY DEF Rows
<1>2. Without(f, k) \in [T \ {k} -> Nat]
  BY <1>1 DEF Without
<1>3. T \ {k} \in SUBSET S
  BY <1>1
<1> QED
  BY <1>1, <1>2, <1>3 DEF Rows, Without

(* A log that changes nothing, and one of the three that change a row.      *)
LEMMA TimePasses ==
  ASSUME NEW table, NEW n, NEW logs, VersionsGoUp(table, n, logs)
  PROVE  VersionsGoUp(table, n + 1, logs)
BY DEF VersionsGoUp

(* A log that sets a row to its number keeps the versions going up. *)
LEMMA RowSet ==
  ASSUME NEW table, NEW n, NEW logs, VersionsGoUp(table, n, logs),
         NEW v \in Nat, v = n + 1, NEW id \in RecordIDs, NEW log, log.id = id,
         log.op # "add" => log.id \in DOMAIN table /\ log.base = table[log.id]
  PROVE  VersionsGoUp(With(table, id, v), n + 1, logs \cup {log})
<1> DEFINE new == With(table, id, v)
<1>0. table \in Rows(RecordIDs)
  BY DEF VersionsGoUp
<1>1. /\ new \in Rows(RecordIDs)
      /\ DOMAIN new = DOMAIN table \cup {id}
      /\ new[id] = v
      /\ \A x \in DOMAIN table : x # id => new[x] = table[x]
  <2>1. new \in Rows(RecordIDs)
    BY <1>0, WithRows
  <2> QED
    BY <2>1 DEF With
<1> HIDE DEF new
<1>2. \A x \in DOMAIN new : new[x] \in Nat /\ new[x] <= n + 1
  BY <1>1 DEF VersionsGoUp
<1>3. ASSUME NEW l \in logs \cup {log}, l.op # "add"
      PROVE  /\ l.base \in Nat /\ l.base <= n
             /\ l.id \in DOMAIN new => l.base < new[l.id]
  <2>1. CASE l = log
    BY <1>1, <1>3, <2>1 DEF VersionsGoUp
  <2>2. CASE l # log /\ l.id = log.id
    BY <1>1, <1>3, <2>2 DEF VersionsGoUp
  <2>3. CASE l # log /\ l.id # log.id
    BY <1>1, <1>3, <2>3 DEF VersionsGoUp
  <2> QED
    BY <2>1, <2>2, <2>3
<1>4. n \in Nat
  BY DEF VersionsGoUp
<1>5. VersionsGoUp(new, n + 1, logs \cup {log})
  BY <1>1, <1>2, <1>3, <1>4 DEF VersionsGoUp
<1> QED
  BY <1>5 DEF new

(* So does one that takes a row out. *)
LEMMA RowTaken ==
  ASSUME NEW table, NEW n, NEW logs, VersionsGoUp(table, n, logs),
         NEW log, log.op # "add", log.id \in DOMAIN table, log.base = table[log.id]
  PROVE  VersionsGoUp(Without(table, log.id), n + 1, logs \cup {log})
<1> DEFINE new == Without(table, log.id)
<1>1. /\ new \in Rows(RecordIDs)
      /\ DOMAIN new = DOMAIN table \ {log.id}
      /\ \A x \in DOMAIN table \ {log.id} : new[x] = table[x]
  BY WithoutRows DEF VersionsGoUp
<1> HIDE DEF new
<1>2. n \in Nat /\ log.base \in Nat /\ log.base <= n
  BY DEF VersionsGoUp
<1>3. VersionsGoUp(new, n + 1, logs \cup {log})
  BY <1>1, <1>2 DEF VersionsGoUp
<1> QED
  BY <1>3 DEF new

(* ApplyAdd-, ApplyChange- and ApplyDelRecordLog: a log that is not refused *)
(* puts its number in the row, or takes the row out, and touches no other.  *)
LEMMA RecordLogApplied ==
  ASSUME IInv,
         NEW op \in {"add", "del", "change"}, NEW id \in RecordIDs, NEW base \in 0 .. count,
         AppendRecordLog(op, id, base)
  PROVE  IInv'
<1> DEFINE log == [n |-> count + 1, op |-> op, id |-> id, base |-> base,
                   plugin |-> "", kind |-> "unknown"]
<1>1. /\ count' = count + 1
      /\ direct' = ApplyRecordLog(direct, log)
      /\ accepted' = IF ~Refused(direct.rows, log) THEN accepted \cup {log} ELSE accepted
  BY DEF AppendRecordLog, AppendLog, Apply
<1>2. log.n = count + 1 /\ log.op = op /\ log.id = id /\ log.base = base
  OBVIOUS
<1> HIDE DEF log
<1>3. direct \in Snapshot /\ VersionsGoUp(direct.rows, count, accepted) /\ count \in Nat
  BY DEF IInv, VersionsGoUp
<1>4. direct.rows \in Rows(RecordIDs)
  BY <1>3 DEF VersionsGoUp
<1>5. CASE Refused(direct.rows, log)
  <2>1. direct' = direct /\ accepted' = accepted
    BY <1>1, <1>5 DEF ApplyRecordLog
  <2>2. VersionsGoUp(direct.rows, count + 1, accepted)
    BY <1>3, TimePasses
  <2> QED
    BY <1>1, <1>3, <2>1, <2>2 DEF IInv, OneWriterPerVersion
<1>6. CASE ~Refused(direct.rows, log)
  <2>1. accepted' = accepted \cup {log}
    BY <1>1, <1>6
  <2>2. log.op # "add" => log.id \in DOMAIN direct.rows /\ log.base = direct.rows[log.id]
    BY <1>6 DEF Refused
  <2>3. ASSUME NEW l \in accepted, l.op # "add", log.op # "add", l.id = log.id
        PROVE  l.base # log.base
    BY <1>3, <2>2, <2>3 DEF VersionsGoUp
  <2>4. OneWriterPerVersion'
    BY <2>1, <2>3 DEF IInv, OneWriterPerVersion
  <2> DEFINE new == IF log.op = "del" THEN Without(direct.rows, log.id)
                    ELSE With(direct.rows, log.id, log.n)
  <2>5. new \in Rows(RecordIDs) /\ VersionsGoUp(new, count + 1, accepted \cup {log})
    <3>1. CASE log.op = "del"
      BY <1>2, <1>3, <1>4, <2>2, <3>1, RowTaken, WithoutRows
    <3>2. CASE log.op # "del"
      <4>1. new = With(direct.rows, log.id, count + 1)
        BY <1>2, <3>2
      <4> HIDE DEF new
      <4>2. log.id \in RecordIDs /\ count + 1 \in Nat
        BY <1>2, <1>3
      <4>3. VersionsGoUp(new, count + 1, accepted \cup {log})
        BY <1>3, <2>2, <4>1, <4>2, RowSet
      <4> QED
        BY <4>3 DEF VersionsGoUp
    <3> QED
      BY <3>1, <3>2
  <2>6. direct' = [direct EXCEPT !.rows = new]
    BY <1>1, <1>6 DEF ApplyRecordLog
  <2> HIDE DEF new
  <2>7. direct' \in Snapshot /\ direct'.rows = new
    BY <1>3, <2>5, <2>6 DEF Snapshot
  <2> QED
    BY <1>1, <2>1, <2>4, <2>5, <2>7 DEF IInv
<1> QED
  BY <1>5, <1>6

(* A log of a plugin leaves the records alone.                              *)
LEMMA PluginLogApplied ==
  ASSUME IInv,
         NEW op, NEW id \in RecordIDs, NEW plugin \in {TypeTable, OtherPlugin}, NEW kind,
         AppendPluginLog(op, id, plugin, kind)
  PROVE  IInv'
<1> DEFINE log == [n |-> count + 1, op |-> op, id |-> id, base |-> 0,
                   plugin |-> plugin, kind |-> kind]
<1>1. /\ count' = count + 1 /\ count \in Nat
      /\ direct' = ApplyPluginLog(direct, log)
      /\ accepted' = accepted
      /\ direct \in Snapshot
  BY SnapshotAssumption DEF AppendPluginLog, AppendLog, Apply, IInv, VersionsGoUp
<1>2. log.n \in Nat /\ log.id = id /\ log.kind = kind /\ log.plugin = plugin
  BY <1>1
<1> HIDE DEF log
<1>3. direct.types \in Rows(Kinds \X RecordIDs)
  BY <1>1 DEF Snapshot
<1>4. direct' \in Snapshot /\ direct'.rows = direct.rows
  <2>1. CASE log.plugin \notin Generators
    BY <1>1, <2>1 DEF ApplyPluginLog
  <2>2. CASE log.plugin \in Generators
    <3> DEFINE key == <<log.kind, log.id>>
               types == IF log.kind \notin Kinds THEN direct.types
                        ELSE IF log.op = "del" THEN Without(direct.types, key)
                        ELSE With(direct.types, key, log.n)
    <3>1. direct' = [direct EXCEPT !.caches = direct.caches \cup {log.plugin}, !.types = types]
      BY <1>1, <2>2 DEF ApplyPluginLog
    <3>2. log.kind \in Kinds => key \in Kinds \X RecordIDs
      BY <1>2
    <3> HIDE DEF key
    <3>3. types \in Rows(Kinds \X RecordIDs)
      BY <1>2, <1>3, <3>2, WithRows, WithoutRows
    <3> HIDE DEF types
    <3> QED
      BY <1>1, <2>2, <3>1, <3>3 DEF Snapshot
  <2> QED
    BY <2>1, <2>2
<1>5. VersionsGoUp(direct.rows, count + 1, accepted)
  BY TimePasses DEF IInv
<1>6. OneWriterPerVersion'
  BY <1>1 DEF IInv, OneWriterPerVersion
<1> QED
  BY <1>1, <1>4, <1>5, <1>6 DEF IInv

(* Of two writers that changed or deleted the same version of a record, the *)
(* log applies one: ApplyChangeRecordLog and ApplyDelRecordLog compare      *)
(* versions, and no version comes back.                                     *)
THEOREM WritersExclude == Spec => []OneWriterPerVersion
<1>1. Init => IInv
  <2>1. NoRows \in [{} -> Nat]
    BY DEF NoRows
  <2>2. NoRows \in Rows(RecordIDs) /\ NoRows \in Rows(Kinds \X RecordIDs)
    BY <2>1 DEF Rows
  <2>3. Init => direct \in Snapshot /\ DOMAIN direct.rows = {}
    BY <2>1, <2>2 DEF Init, EmptySnapshot, Snapshot
  <2> QED
    BY <2>2, <2>3 DEF Init, IInv, VersionsGoUp, OneWriterPerVersion, EmptySnapshot
<1>2. IInv /\ [Next]_vars => IInv'
  <2> SUFFICES ASSUME IInv, [Next]_vars PROVE IInv'
    OBVIOUS
  <2>1. ASSUME NEW id \in RecordIDs, AppendRecordLog("add", id, 0) PROVE IInv'
    BY <2>1, RecordLogApplied DEF IInv, VersionsGoUp
  <2>2. ASSUME NEW id \in RecordIDs, NEW op \in {"del", "change"}, NEW base \in 0 .. count,
               AppendRecordLog(op, id, base)
        PROVE  IInv'
    BY <2>2, RecordLogApplied
  <2>3. ASSUME NEW id \in RecordIDs, NEW op, NEW kind,
               AppendPluginLog(op, id, TypeTable, kind)
        PROVE  IInv'
    BY <2>3, PluginLogApplied
  <2>4. ASSUME NEW id \in RecordIDs, AppendPluginLog("add", id, OtherPlugin, "income")
        PROVE  IInv'
    BY <2>4, PluginLogApplied
  <2>5. CASE BuildSnapshot \/ UNCHANGED vars
    BY <2>5 DEF BuildSnapshot, vars, IInv, VersionsGoUp, OneWriterPerVersion
  <2> QED
    BY <2>1, <2>2, <2>3, <2>4, <2>5 DEF Next
<1> QED
  BY <1>1, <1>2, PTL DEF Spec, IInv

(***************************************************************************)
(* Proof that snapshots compose.  The induction compares the snapshot      *)
(* built so far, with the logs after it, to the one every log was applied  *)
(* to; they may differ in caches that hold nothing (Alike).                *)
(***************************************************************************)

\* g solves the recursion of Applied for the first n of the logs.
Applies(s, logs, g, n) ==
  g = [i \in 0..n |-> IF i = 0 THEN s ELSE Apply(g[i - 1], logs[i])]

LEMMA AppliesExists ==
  ASSUME NEW s, NEW logs, NEW n \in Nat
  PROVE  \E g : Applies(s, logs, g, n)
<1>. DEFINE G == {i \in 0..n : \E g : Applies(s, logs, g, i)}
<1>1. 0 \in G
  <2>1. Applies(s, logs, [i \in 0..0 |-> s], 0)
    BY DEF Applies
  <2>. QED BY <2>1
<1>2. ASSUME NEW i \in 0..n, i < n, i \in G
      PROVE  i + 1 \in G
  <2>1. PICK g : Applies(s, logs, g, i)
    BY <1>2
  <2>. DEFINE h == [j \in 0..(i + 1) |-> IF j = i + 1 THEN Apply(g[i], logs[i + 1]) ELSE g[j]]
  <2>2. ASSUME NEW j \in 0..(i + 1)
        PROVE  h[j] = IF j = 0 THEN s ELSE Apply(h[j - 1], logs[j])
    <3>1. CASE j = i + 1
      <4>1. h[j - 1] = g[i] /\ h[j] = Apply(g[i], logs[j]) /\ j # 0
        BY <3>1
      <4>. QED BY <4>1
    <3>2. CASE j \in 0..i
      <4>1. h[j] = g[j] /\ (j # 0 => h[j - 1] = g[j - 1])
        BY <3>2
      <4>2. g[j] = IF j = 0 THEN s ELSE Apply(g[j - 1], logs[j])
        BY <2>1, <3>2 DEF Applies
      <4>. HIDE DEF h
      <4>. QED BY <4>1, <4>2
    <3>. QED BY <3>1, <3>2
  <2>3. h = [j \in 0..(i + 1) |-> h[j]]
    OBVIOUS
  <2>4. Applies(s, logs, h, i + 1)
    <3>. HIDE DEF h
    <3>. QED BY <2>2, <2>3 DEF Applies
  <2>5. \E k : Applies(s, logs, k, i + 1)
    <3>. HIDE DEF h
    <3>. QED BY <2>4
  <2>6. i + 1 \in 0..n
    BY <1>2
  <2>. QED BY <2>5, <2>6
<1>3. G \in SUBSET (0..n)
  OBVIOUS
<1>4. G = 0..n
  <2>. HIDE DEF G
  <2>. QED BY <1>1, <1>2, <1>3, IndexInduction
<1>. QED BY <1>4

(* Logs that agree give the same.                                           *)
LEMMA AppliesSame ==
  ASSUME NEW s, NEW logs, NEW more, NEW n \in Nat, NEW m \in Nat, n <= m,
         \A i \in 1..n : logs[i] = more[i],
         NEW g, NEW h, Applies(s, logs, g, n), Applies(s, more, h, m)
  PROVE  g[n] = h[n]
<1>1. \A i \in 0..n : /\ g[i] = IF i = 0 THEN s ELSE Apply(g[i - 1], logs[i])
                      /\ h[i] = IF i = 0 THEN s ELSE Apply(h[i - 1], more[i])
  BY DEF Applies
<1>. DEFINE G == {i \in 0..n : g[i] = h[i]}
<1>2. 0 \in G
  BY <1>1
<1>3. ASSUME NEW i \in 0..n, i < n, i \in G
      PROVE  i + 1 \in G
  <2>1. i + 1 \in 0..n /\ i + 1 \in 1..n /\ i + 1 # 0 /\ (i + 1) - 1 = i
    BY <1>3
  <2>2. PICK j : j = i + 1
    OBVIOUS
  <2>3. g[j] = Apply(g[i], logs[j]) /\ h[j] = Apply(h[i], more[j]) /\ logs[j] = more[j]
    BY <1>1, <2>1, <2>2
  <2>. QED BY <1>3, <2>1, <2>2, <2>3
<1>4. G \in SUBSET (0..n)
  OBVIOUS
<1>5. G = 0..n
  <2>. HIDE DEF G
  <2>. QED BY <1>2, <1>3, <1>4, IndexInduction
<1>. QED BY <1>5

(* What Applied stands for.                                                 *)
LEMMA AppliedMeans ==
  ASSUME NEW s, NEW logs, Len(logs) \in Nat
  PROVE  \E g : Applies(s, logs, g, Len(logs)) /\ Applied(s, logs) = g[Len(logs)]
<1>1. Applies(s, logs, CHOOSE g : Applies(s, logs, g, Len(logs)), Len(logs))
  BY AppliesExists
<1>2. Applied(s, logs) = (CHOOSE g : Applies(s, logs, g, Len(logs)))[Len(logs)]
  BY DEF Applied, Applies
<1>. QED BY <1>1, <1>2

LEMMA AppliedNone ==
  ASSUME NEW s
  PROVE  Applied(s, <<>>) = s
<1>1. Len(<<>>) = 0
  OBVIOUS
<1>2. PICK g : Applies(s, <<>>, g, 0) /\ Applied(s, <<>>) = g[0]
  BY <1>1, AppliedMeans
<1>. QED BY <1>2 DEF Applies

(* One log more is applied to what the others give.                         *)
LEMMA AppliedOneMore ==
  ASSUME NEW S, NEW s, NEW logs \in Seq(S), NEW log
  PROVE  Applied(s, Append(logs, log)) = Apply(Applied(s, logs), log)
<1>1. PICK n, more : n = Len(logs) /\ more = Append(logs, log)
  OBVIOUS
<1>2. /\ n \in Nat /\ Len(more) = n + 1 /\ more[n + 1] = log
      /\ \A i \in 1..n : logs[i] = more[i]
  BY <1>1
<1>3. PICK g : Applies(s, logs, g, n) /\ Applied(s, logs) = g[n]
  BY <1>1, <1>2, AppliedMeans
<1>4. PICK h : Applies(s, more, h, n + 1) /\ Applied(s, more) = h[n + 1]
  <2>1. Len(more) \in Nat
    BY <1>2
  <2>2. \E h : Applies(s, more, h, Len(more)) /\ Applied(s, more) = h[Len(more)]
    BY <2>1, AppliedMeans
  <2>. QED BY <1>2, <2>2
<1>5. g[n] = h[n]
  BY <1>2, <1>3, <1>4, AppliesSame
<1>6. h[n + 1] = Apply(h[n], more[n + 1])
  <2>1. n + 1 \in 0..(n + 1) /\ n + 1 # 0 /\ (n + 1) - 1 = n
    BY <1>2
  <2>2. \A i \in 0..(n + 1) : h[i] = IF i = 0 THEN s ELSE Apply(h[i - 1], more[i])
    BY <1>4 DEF Applies
  <2>. QED BY <2>1, <2>2
<1>. QED BY <1>1, <1>2, <1>3, <1>4, <1>5, <1>6

-----------------------------------------------------------------------------
\* A snapshot whose type table is its plugin's: there is none without it.
Proper(s) == s \in Snapshot /\ (TypeTable \notin s.caches => s.types = NoRows)

\* Two snapshots hold the same, but for caches that hold nothing.
Alike(s, t) ==
  /\ Proper(s) /\ Proper(t)
  /\ s.rows = t.rows /\ s.types = t.types

\* All that a log may be.
Log == [n : Nat, op : {"add", "del", "change"}, id : RecordIDs, base : Nat,
        plugin : {"", TypeTable, OtherPlugin}, kind : Kinds \cup {"unknown"}]

\* What is built from the last snapshot and the logs after it.
BuiltSoFar == Applied(NewSnapshot(saved), tail)

ComposeInv ==
  /\ count \in Nat /\ tail \in Seq(Log)
  /\ Alike(BuiltSoFar, direct)

LEMMA SnapshotFields ==
  ASSUME NEW s \in Snapshot
  PROVE  /\ s = [rows |-> s.rows, caches |-> s.caches, types |-> s.types]
         /\ s.rows \in Rows(RecordIDs) /\ s.types \in Rows(Kinds \X RecordIDs)
         /\ s.caches \in SUBSET Generators
BY DEF Snapshot

(* A log makes the same of the same.                                        *)
LEMMA RecordLogAlike ==
  ASSUME NEW s, NEW t, Alike(s, t), NEW log \in Log
  PROVE  Alike(ApplyRecordLog(s, log), ApplyRecordLog(t, log))
<1>1. PICK new : new = IF log.op = "del" THEN Without(s.rows, log.id) ELSE With(s.rows, log.id, log.n)
  OBVIOUS
<1>2. s \in Snapshot /\ t \in Snapshot /\ s.rows = t.rows /\ s.types = t.types
  BY DEF Alike, Proper
<1>3. CASE Refused(s.rows, log)
  BY <1>2, <1>3 DEF ApplyRecordLog
<1>4. CASE ~Refused(s.rows, log)
  <2>1. new \in Rows(RecordIDs)
    <3>1. s.rows \in Rows(RecordIDs) /\ log.id \in RecordIDs /\ log.n \in Nat
      BY <1>2, SnapshotFields DEF Log
    <3>. QED BY <1>1, <3>1, WithRows, WithoutRows
  <2>2. /\ ApplyRecordLog(s, log) = [s EXCEPT !.rows = new]
        /\ ApplyRecordLog(t, log) = [t EXCEPT !.rows = new]
    BY <1>1, <1>2, <1>4 DEF ApplyRecordLog
  <2>3. ASSUME NEW u \in Snapshot
        PROVE  LET v == [u EXCEPT !.rows = new]
               IN  v \in Snapshot /\ v.rows = new /\ v.types = u.types /\ v.caches = u.caches
    BY <2>1 DEF Snapshot
  <2>. QED BY <1>2, <2>2, <2>3 DEF Alike, Proper
<1>. QED BY <1>3, <1>4

LEMMA PluginLogAlike ==
  ASSUME NEW s, NEW t, Alike(s, t), NEW log \in Log
  PROVE  Alike(ApplyPluginLog(s, log), ApplyPluginLog(t, log))
<1>1. PICK key, new : /\ key = <<log.kind, log.id>>
                      /\ new = IF log.kind \notin Kinds THEN s.types
                               ELSE IF log.op = "del" THEN Without(s.types, key)
                               ELSE With(s.types, key, log.n)
  OBVIOUS
<1>2. s \in Snapshot /\ t \in Snapshot /\ s.rows = t.rows /\ s.types = t.types
  BY DEF Alike, Proper
<1>3. CASE log.plugin \notin Generators
  BY <1>2, <1>3 DEF ApplyPluginLog
<1>4. CASE log.plugin \in Generators
  <2>1. new \in Rows(Kinds \X RecordIDs)
    <3>1. /\ s.types \in Rows(Kinds \X RecordIDs) /\ log.n \in Nat
          /\ log.kind \in Kinds => key \in Kinds \X RecordIDs
      BY <1>1, <1>2, SnapshotFields DEF Log
    <3>. QED BY <1>1, <3>1, WithRows, WithoutRows
  <2>2. log.plugin = TypeTable
    BY <1>4, SnapshotAssumption
  <2>3. /\ ApplyPluginLog(s, log) = [s EXCEPT !.caches = s.caches \cup {TypeTable}, !.types = new]
        /\ ApplyPluginLog(t, log) = [t EXCEPT !.caches = t.caches \cup {TypeTable}, !.types = new]
    BY <1>1, <1>2, <1>4, <2>2 DEF ApplyPluginLog
  <2>4. ASSUME NEW u \in Snapshot
        PROVE  LET v == [u EXCEPT !.caches = u.caches \cup {TypeTable}, !.types = new]
               IN  v \in Snapshot /\ v.rows = u.rows /\ v.types = new /\ TypeTable \in v.caches
    BY <1>4, <2>1, <2>2 DEF Snapshot
  <2>. QED BY <1>2, <2>3, <2>4 DEF Alike, Proper
<1>. QED BY <1>3, <1>4

(* Saving a snapshot and making one of the data again.                      *)
LEMMA SavedAlike ==
  ASSUME NEW s, NEW t, Alike(s, t)
  PROVE  Alike(NewSnapshot(GetSnapshotData(s)), t)
<1>1. PICK plugins : plugins = [p \in s.caches |-> s.types]
  OBVIOUS
<1>2. PICK v : v = NewSnapshot(GetSnapshotData(s))
  OBVIOUS
<1>3. s \in Snapshot /\ (TypeTable \notin s.caches => s.types = NoRows)
  BY DEF Alike, Proper
<1>4. s.caches \subseteq Generators /\ Generators \subseteq {TypeTable}
  BY <1>3, SnapshotFields, SnapshotAssumption
<1>5. Loaded(plugins) = s.types
  BY <1>1, <1>3 DEF Loaded
<1>6. Generators = {} => s.types = NoRows
  BY <1>3, <1>4
<1>7. v = [rows |-> s.rows, caches |-> {p \in Generators : DOMAIN s.types # {}}, types |-> s.types]
  BY <1>1, <1>2, <1>5, <1>6 DEF NewSnapshot, GetSnapshotData
<1>8. v \in Snapshot /\ v.rows = s.rows /\ v.types = s.types
  BY <1>3, <1>7, SnapshotFields DEF Snapshot
<1>9. TypeTable \notin v.caches => v.types = NoRows
  <2>1. CASE TypeTable \in s.caches
    <3>1. SUFFICES ASSUME DOMAIN s.types = {} PROVE s.types = NoRows
      BY <1>4, <1>7, <2>1
    <3>2. PICK T : s.types \in [T -> Nat]
      BY <1>3, SnapshotFields DEF Rows
    <3>. QED BY <3>1, <3>2 DEF NoRows
  <2>2. CASE TypeTable \notin s.caches
    BY <1>3, <1>8, <2>2
  <2>. QED BY <2>1, <2>2
<1>. QED BY <1>2, <1>8, <1>9 DEF Alike, Proper

(* What is alike has the same content.                                      *)
LEMMA AlikeContent ==
  ASSUME NEW s, NEW t, Alike(s, t)
  PROVE  Content(GetSnapshotData(s)) = Content(GetSnapshotData(t))
<1>1. ASSUME NEW u, Proper(u)
      PROVE  Content(GetSnapshotData(u)) =
               [records |-> u.rows,
                plugins |-> [p \in {q \in {TypeTable} : DOMAIN u.types # {}} |-> u.types]]
  <2>1. PICK plugins : plugins = [p \in u.caches |-> u.types]
    OBVIOUS
  <2>2. u.caches \subseteq {TypeTable} /\ (TypeTable \notin u.caches => u.types = NoRows)
    BY <1>1, SnapshotFields, SnapshotAssumption DEF Proper
  <2>3. {q \in DOMAIN plugins : DOMAIN plugins[q] # {}} = {q \in {TypeTable} : DOMAIN u.types # {}}
    BY <2>1, <2>2, EmptyTable DEF NoRows
  <2>4. GetSnapshotData(u) = [records |-> u.rows, plugins |-> plugins]
    BY <2>1 DEF GetSnapshotData
  <2>5. \A q \in {q \in DOMAIN plugins : DOMAIN plugins[q] # {}} : plugins[q] = u.types
    BY <2>1
  <2>6. Content(GetSnapshotData(u)) =
          [records |-> u.rows,
           plugins |-> [p \in {q \in DOMAIN plugins : DOMAIN plugins[q] # {}} |-> plugins[p]]]
    BY <2>4 DEF Content
  <2>. QED BY <2>3, <2>5, <2>6
<1>. QED BY <1>1 DEF Alike

LEMMA LogComposes ==
  ASSUME ComposeInv, NEW log \in Log, AppendLog(log)
  PROVE  ComposeInv'
<1>1. /\ count' = count + 1 /\ tail' = Append(tail, log)
      /\ direct' = Apply(direct, log) /\ saved' = saved
  BY DEF AppendLog
<1>2. count \in Nat /\ tail \in Seq(Log) /\ Alike(BuiltSoFar, direct)
  BY DEF ComposeInv
<1>3. BuiltSoFar' = Applied(NewSnapshot(saved), Append(tail, log))
  BY <1>1 DEF BuiltSoFar
<1>4. Applied(NewSnapshot(saved), Append(tail, log)) = Apply(BuiltSoFar, log)
  BY <1>2, AppliedOneMore DEF BuiltSoFar
<1>5. Alike(Apply(BuiltSoFar, log), Apply(direct, log))
  BY <1>2, RecordLogAlike, PluginLogAlike DEF Apply
<1>6. Alike(BuiltSoFar', direct')
  BY <1>1, <1>3, <1>4, <1>5
<1>7. tail' \in Seq(Log) /\ count' \in Nat
  BY <1>1, <1>2
<1>. QED BY <1>6, <1>7 DEF ComposeInv, Alike, Proper

LEMMA BuildComposes ==
  ASSUME ComposeInv, BuildSnapshot
  PROVE  ComposeInv'
<1>1. /\ saved' = GetSnapshotData(BuiltSoFar) /\ tail' = <<>>
      /\ direct' = direct /\ count' = count
  BY DEF BuildSnapshot, Build, BuiltSoFar
<1>2. BuiltSoFar' = NewSnapshot(GetSnapshotData(BuiltSoFar))
  <2>1. BuiltSoFar' = Applied(NewSnapshot(GetSnapshotData(BuiltSoFar)), <<>>)
    BY <1>1 DEF BuiltSoFar
  <2>. QED BY <2>1, AppliedNone
<1>3. Alike(BuiltSoFar', direct')
  BY <1>1, <1>2, SavedAlike DEF ComposeInv
<1>. QED BY <1>1, <1>3 DEF ComposeInv, Alike, Proper

(* The snapshot built from the last one and the logs after it holds what    *)
(* applying every log from the beginning gives, for any records, any number *)
(* of logs, and wherever pools end.                                         *)
THEOREM SnapshotsAddUp == Spec => []SnapshotsCompose
<1>1. Init => ComposeInv
  <2>1. SUFFICES ASSUME Init PROVE ComposeInv
    OBVIOUS
  <2>2. /\ direct = EmptySnapshot /\ saved = GetSnapshotData(EmptySnapshot)
        /\ tail = <<>> /\ count = 0
    BY <2>1 DEF Init
  <2>3. Alike(EmptySnapshot, EmptySnapshot)
    <3>1. NoRows \in [{} -> Nat]
      BY DEF NoRows
    <3>2. NoRows \in Rows(RecordIDs) /\ NoRows \in Rows(Kinds \X RecordIDs)
      BY <3>1 DEF Rows
    <3>. QED BY <3>2 DEF EmptySnapshot, Alike, Proper, Snapshot
  <2>4. BuiltSoFar = NewSnapshot(GetSnapshotData(EmptySnapshot))
    BY <2>2, AppliedNone DEF BuiltSoFar
  <2>. QED BY <2>2, <2>3, <2>4, SavedAlike DEF ComposeInv
<1>2. ComposeInv /\ [Next]_vars => ComposeInv'
  <2>. SUFFICES ASSUME ComposeInv, [Next]_vars PROVE ComposeInv'
    OBVIOUS
  <2>0. count \in Nat
    BY DEF ComposeInv
  <2>1. ASSUME NEW id \in RecordIDs, NEW op \in {"add", "del", "change"}, NEW base \in 0..count,
               AppendRecordLog(op, id, base)
        PROVE  ComposeInv'
    <3>1. PICK log : /\ log = [n |-> count + 1, op |-> op, id |-> id, base |-> base,
                               plugin |-> "", kind |-> "unknown"]
                     /\ AppendLog(log)
      BY <2>1 DEF AppendRecordLog
    <3>2. log \in Log
      <4>1. count + 1 \in Nat /\ base \in Nat
        BY <2>0
      <4>2. "" \in {"", TypeTable, OtherPlugin} /\ "unknown" \in Kinds \cup {"unknown"}
        OBVIOUS
      <4>. QED BY <3>1, <4>1, <4>2 DEF Log
    <3>. QED BY <3>1, <3>2, LogComposes
  <2>2. ASSUME NEW id \in RecordIDs, NEW op \in {"add", "del", "change"},
               NEW plugin \in {TypeTable, OtherPlugin}, NEW kind \in Kinds \cup {"unknown"},
               AppendPluginLog(op, id, plugin, kind)
        PROVE  ComposeInv'
    <3>1. PICK log : /\ log = [n |-> count + 1, op |-> op, id |-> id, base |-> 0,
                               plugin |-> plugin, kind |-> kind]
                     /\ AppendLog(log)
      BY <2>2 DEF AppendPluginLog
    <3>2. log \in Log
      <4>1. count + 1 \in Nat /\ 0 \in Nat
        BY <2>0
      <4>2. plugin \in {"", TypeTable, OtherPlugin}
        BY <2>2
      <4>. QED BY <3>1, <4>1, <4>2 DEF Log
    <3>. QED BY <3>1, <3>2, LogComposes
  <2>3. CASE BuildSnapshot
    BY <2>3, BuildComposes
  <2>4. CASE UNCHANGED vars
    BY <2>4 DEF vars, ComposeInv, BuiltSoFar, Alike, Proper
  <2>5. "income" \in Kinds /\ 0 \in 0..count
    BY <2>0 DEF Kinds
  <2>. QED BY <2>1, <2>2, <2>3, <2>4, <2>5 DEF Next
<1>3. ComposeInv => SnapshotsCompose
  BY AlikeContent DEF ComposeInv, SnapshotsCompose, Build, BuiltSoFar
<1>. QED BY <1>1, <1>2, <1>3, PTL DEF Spec
=============================================================================
