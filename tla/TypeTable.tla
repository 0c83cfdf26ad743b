----------------------------- MODULE TypeTable -----------------------------
(***************************************************************************)
(* The table of income and expense types of a book, two levels deep:       *)
(* syncer/impls/bookkeeping/typetable.go.  A row is never removed: Del     *)
(* marks it as transferred to another row.  validParentIDs caches which    *)
(* rows have children; it is kept in memory by Add, Del and Change, and    *)
(* rebuilt from the file when the process starts.                          *)
(*                                                                         *)
(* Every operation runs in one Change or Read of the memory-with-file      *)
(* store, that is, under its lock; only Reset does part of its work        *)
(* outside.  An operation that is refused changes nothing, and an action   *)
(* here is the operation when it is accepted.                              *)
(***************************************************************************)
EXTENDS Naturals

CONSTANTS
  IDs,            \* type ids
  NoID,           \* the empty id
  Labels

ASSUME TableAssumption == NoID \notin IDs

VARIABLES
  rows,      \* id -> label, parent (NoID: top level), to (NoID: not transferred)
  valid,     \* validParentIDs
  resetting, \* Reset has cleared the rows and not yet validParentIDs
  disturbed  \* history: another operation came in between, since the last Reset

tableVars == <<rows, valid, resetting, disturbed>>

Row == [label : Labels, parent : IDs \cup {NoID}, to : IDs \cup {NoID}]

-----------------------------------------------------------------------------
Live(id)  == id \in DOMAIN rows /\ rows[id].to = NoID
TopLive(id) == Live(id) /\ rows[id].parent = NoID

\* label is not that of a row outside ids.
LabelFree(label, ids) ==
  \A id \in DOMAIN rows \ ids : rows[id].label # label

\* Mutant: nobody looks for other children.
HasOtherChildNever(id, p) == FALSE

\* A row other than id has parent p; transferred rows count.
HasOtherChild(id, p) == \E x \in DOMAIN rows \ {id} : rows[x].parent = p

\* AfterLoad.
LoadedParents == {rows[id].parent : id \in {x \in DOMAIN rows : Live(x)}} \ {NoID}

-----------------------------------------------------------------------------
AddAccepted(id, label, parent) ==
  /\ id \notin DOMAIN rows
  /\ parent # NoID => parent # id /\ TopLive(parent)
  /\ LabelFree(label, {})

Add(id, label, parent) ==
  /\ AddAccepted(id, label, parent)
  /\ valid' = valid \cup ({parent} \ {NoID})
  /\ rows' = [x \in DOMAIN rows \cup {id} |->
                IF x = id THEN [label |-> label, parent |-> parent, to |-> NoID]
                ELSE rows[x]]
  /\ disturbed' = (disturbed \/ resetting)
  /\ UNCHANGED resetting

\* Mutant: a transferred row is taken for a target.
DelAcceptedAnyTarget(id, to) ==
  /\ id # to
  /\ id \in DOMAIN rows
  /\ to \in DOMAIN rows
  /\ id \notin valid

DelAccepted(id, to) ==
  /\ id # to
  /\ id \in DOMAIN rows
  /\ Live(to)
  /\ id \notin valid

(* A row that was transferred already may be transferred again.             *)
Del(id, to) ==
  /\ DelAccepted(id, to)
  /\ valid' = IF HasOtherChild(id, rows[id].parent) THEN valid
              ELSE valid \ {rows[id].parent}
  /\ rows' = [rows EXCEPT ![id].to = to]
  /\ disturbed' = (disturbed \/ resetting)
  /\ UNCHANGED resetting

\* Mutant: a row with children may become a child.
ChangeAcceptedWithChildren(id, label, parent) ==
  /\ id \in DOMAIN rows
  /\ parent # NoID => parent # id /\ TopLive(parent)
  /\ LabelFree(label, {id})

ChangeAccepted(id, label, parent) ==
  /\ id \in DOMAIN rows
  /\ parent # NoID => parent # id /\ id \notin valid /\ TopLive(parent)
  /\ LabelFree(label, {id})

Change(id, label, parent) ==
  LET old   == rows[id].parent
      left  == IF old # NoID /\ old # parent /\ ~HasOtherChild(id, old)
               THEN {old} ELSE {}
  IN  /\ ChangeAccepted(id, label, parent)
      /\ valid' = (valid \ left) \cup ({parent} \ {NoID})
      /\ rows' = [rows EXCEPT ![id].label = label, ![id].parent = parent]
      /\ disturbed' = (disturbed \/ resetting)
      /\ UNCHANGED resetting

(* Reset clears the rows under the lock and the parents after it; one call  *)
(* of Reset at a time.                                                      *)
ResetRows ==
  /\ ~resetting
  /\ rows' = <<>>
  /\ resetting' = TRUE
  /\ disturbed' = FALSE
  /\ UNCHANGED valid

ResetParents ==
  /\ resetting
  /\ valid' = {}
  /\ resetting' = FALSE
  /\ UNCHANGED <<rows, disturbed>>

(* The process ends and the table is loaded again. *)
Restart ==
  /\ valid' = LoadedParents
  /\ resetting' = FALSE
  /\ UNCHANGED <<rows, disturbed>>

TableInit ==
  /\ rows = <<>>
  /\ valid = {}
  /\ resetting = FALSE
  /\ disturbed = FALSE

TableNext ==
  \/ \E id \in IDs, label \in Labels, parent \in IDs \cup {NoID} :
       Add(id, label, parent) \/ Change(id, label, parent)
  \/ \E id, to \in IDs : Del(id, to)
  \/ ResetRows
  \/ ResetParents
  \/ Restart

TableSpec == TableInit /\ [][TableNext]_tableVars

-----------------------------------------------------------------------------
(* Rows and cached parents have their types.                                *)
TypeOK ==
  /\ DOMAIN rows \subseteq IDs
  /\ \A id \in DOMAIN rows : rows[id] \in Row
  /\ valid \subseteq IDs
  /\ resetting \in BOOLEAN /\ disturbed \in BOOLEAN

(* Every row that can still be used has a parent that can be used and is at *)
(* the top: no row is orphaned by deleting, moving or re-parenting another, *)
(* whatever the cache of parents says after whichever history of calls,     *)
(* restarts and Resets.  Only a call that came between the two halves of a  *)
(* Reset may have its parent forgotten.                                     *)
ParentsUsable ==
  disturbed \/ \A id \in DOMAIN rows :
    Live(id) /\ rows[id].parent # NoID => TopLive(rows[id].parent)

(* The cache never misses a parent of a usable row, with the same exception.*)
CacheCoversParents == disturbed \/ LoadedParents \subseteq valid

(* Transfers lead somewhere: a deleted row was transferred to a row, and    *)
(* following the transfers ends at a row that can be used, for no set of    *)
(* deleted rows is closed under them.                                       *)
TransfersEnd ==
  /\ \A id \in DOMAIN rows : ~Live(id) => rows[id].to \in DOMAIN rows
  /\ \A S \in SUBSET DOMAIN rows :
       S # {} => \E id \in S : Live(id) \/ rows[id].to \notin S
=============================================================================
