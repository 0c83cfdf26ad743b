-------------------------- MODULE HistoryTransfer --------------------------
(***************************************************************************)
(* An account's history, a Redis list whose head is the newest item:       *)
(* wallet/history.go.  Trans2CodeStorage moves it to a cold storage, page  *)
(* by page from the tail, while the scripts of the wallet push new items.  *)
(* Items are numbered in the order in which they are pushed.               *)
(***************************************************************************)
EXTENDS Integers, Sequences, SequencesExt

CONSTANTS
  Page,      \* items fetched at once (page, 1000)
  Runners,   \* concurrent calls of Trans2CodeStorage for the account
  CanFail,   \* a Redis command or the storage may fail, a process may end
  MaxItems   \* bound on the items pushed

ASSUME HistoryAssumption ==
  /\ Page \in Nat \ {0}
  /\ CanFail \in BOOLEAN
  /\ MaxItems \in Nat

VARIABLES
  list,   \* the account's history, newest first
  run,    \* the calls of Trans2CodeStorage
  stored, \* the items the storage was given, in the order they came first
  twice,  \* those it was given again
  pushed, \* the number of items pushed
  failed  \* history: a call was given up

transferVars == <<list, run, stored, twice, pushed, failed>>

-----------------------------------------------------------------------------
\* LRANGE and LTRIM 0 with Redis' indices: from 0, from the end below 0.
Index(l, i) == IF i < 0 THEN Len(l) + i ELSE i
LRange(l, start, stop) ==
  LET s == IF Index(l, start) < 0 THEN 0 ELSE Index(l, start)
      e == IF Index(l, stop) >= Len(l) THEN Len(l) - 1 ELSE Index(l, stop)
  IN  SubSeq(l, s + 1, e + 1)
LTrim(l, stop) == SubSeq(l, 1, Index(l, stop) + 1)

\* Mutant: one of the two is lost.
SwapLoses(s, i, j) == [s EXCEPT ![i] = s[j]]

Swap(s, i, j) == [s EXCEPT ![i] = s[j], ![j] = s[i]]

(* getItems with reverseOutput: the loop swaps each item but the last with  *)
(* its opposite.                                                            *)
Reversed(s) ==
  LET swapped[i \in 0..(Len(s) - 1)] ==
        IF i = 0 THEN s ELSE Swap(swapped[i - 1], i, Len(s) + 1 - i)
  IN  IF s = <<>> THEN s ELSE swapped[Len(s) - 1]

GetItemsASC(offset, count) ==
  Reversed(LRange(list, -offset - count, -offset - 1))

-----------------------------------------------------------------------------
Idle == [pc |-> "idle", page |-> <<>>, idx |-> 0, err |-> "none"]

\* LPUSH by a script of the wallet.
Push ==
  /\ pushed < MaxItems
  /\ pushed' = pushed + 1
  /\ list' = <<pushed + 1>> \o list
  /\ UNCHANGED <<run, stored, twice, failed>>

Begin(r) ==
  /\ run[r].pc = "idle"
  /\ run' = [run EXCEPT ![r].pc = "fetch"]
  /\ UNCHANGED <<list, stored, twice, pushed, failed>>

\* Mutant: the page is taken from the head of the list.
FetchNewest(r) ==
  LET items == LRange(list, 0, Page - 1)
  IN  /\ run[r].pc = "fetch"
      /\ run' = [run EXCEPT ![r] =
                   IF items = <<>> THEN Idle
                   ELSE [Idle EXCEPT !.pc = "store", !.page = items, !.idx = Len(items)]]
      /\ UNCHANGED <<list, stored, twice, pushed, failed>>

(* The last page of the list; none left, or an error, ends the call.        *)
Fetch(r) ==
  LET items == LRange(list, -Page, -1)
  IN  /\ run[r].pc = "fetch"
      /\ run' = [run EXCEPT ![r] =
                   IF items = <<>> THEN Idle
                   ELSE [Idle EXCEPT !.pc = "store", !.page = items, !.idx = Len(items)]]
      /\ UNCHANGED <<list, stored, twice, pushed, failed>>

(* storage.Store of the page's next item, from its end.                     *)
Store(r) ==
  LET c    == run[r]
      item == c.page[c.idx]
      new  == item \notin ToSet(stored)
  IN  /\ c.pc = "store"
      /\ stored' = IF new THEN Append(stored, item) ELSE stored
      /\ twice' = IF new THEN twice ELSE twice \cup {item}
      /\ run' = [run EXCEPT ![r].idx = c.idx - 1,
                            ![r].pc = IF c.idx = 1 THEN "trim" ELSE "store"]
      /\ UNCHANGED <<list, pushed, failed>>

\* ErrStop, or another error: the item was not stored.
StoreRefused(r) ==
  /\ run[r].pc = "store"
  /\ \E err \in {"stop"} \cup (IF CanFail THEN {"failed"} ELSE {}) :
       run' = [run EXCEPT ![r].pc = "trim", ![r].err = err]
  /\ UNCHANGED <<list, stored, twice, pushed, failed>>

\* Mutants: the trim takes one item too many, or one too few; the error of the
\* storage is forgotten.
TrimOffByOne(r) ==
  LET c == run[r]
  IN  /\ c.pc = "trim"
      /\ list' = LTrim(list, c.idx - 2 - Len(c.page))
      /\ run' = [run EXCEPT ![r] =
                   IF c.err = "none" THEN [Idle EXCEPT !.pc = "fetch"] ELSE Idle]
      /\ UNCHANGED <<stored, twice, pushed, failed>>

TrimKeepsOne(r) ==
  LET c == run[r]
  IN  /\ c.pc = "trim"
      /\ list' = LTrim(list, c.idx - Len(c.page))
      /\ run' = [run EXCEPT ![r] =
                   IF c.err = "none" THEN [Idle EXCEPT !.pc = "fetch"] ELSE Idle]
      /\ UNCHANGED <<stored, twice, pushed, failed>>

TrimGoesOn(r) ==
  LET c == run[r]
  IN  /\ c.pc = "trim"
      /\ list' = LTrim(list, c.idx - 1 - Len(c.page))
      /\ run' = [run EXCEPT ![r] = [Idle EXCEPT !.pc = "fetch"]]
      /\ UNCHANGED <<stored, twice, pushed, failed>>

(* LTRIM 0 (idx - len) drops what was stored of the page; the next page     *)
(* follows unless there was an error.                                       *)
Trim(r) ==
  LET c == run[r]
  IN  /\ c.pc = "trim"
      /\ list' = LTrim(list, c.idx - 1 - Len(c.page))
      /\ run' = [run EXCEPT ![r] =
                   IF c.err = "none" THEN [Idle EXCEPT !.pc = "fetch"] ELSE Idle]
      /\ UNCHANGED <<stored, twice, pushed, failed>>

(* The process ends at any step, or a command fails and ends the call; a    *)
(* trim that fails may have been done.                                      *)
GiveUp(r) ==
  /\ CanFail
  /\ run[r].pc # "idle"
  /\ \/ UNCHANGED list
     \/ /\ run[r].pc = "trim"
        /\ list' = LTrim(list, run[r].idx - 1 - Len(run[r].page))
  /\ run' = [run EXCEPT ![r] = Idle]
  /\ failed' = TRUE
  /\ UNCHANGED <<stored, twice, pushed>>

TransferInit ==
  /\ list = <<>>
  /\ run = [r \in Runners |-> Idle]
  /\ stored = <<>>
  /\ twice = {}
  /\ pushed = 0
  /\ failed = FALSE

RunnerStep(r) == Fetch(r) \/ Store(r) \/ StoreRefused(r) \/ Trim(r)

TransferNext == Push \/ \E r \in Runners : Begin(r) \/ RunnerStep(r) \/ GiveUp(r)

TransferSpec == TransferInit /\ [][TransferNext]_transferVars

\* A call that was made runs on.
FairSpec == TransferSpec /\ \A r \in Runners : WF_transferVars(RunnerStep(r))

-----------------------------------------------------------------------------
(* The history and the calls have their types, and the page of a call that  *)
(* stores has an item left.                                                 *)
TypeOK ==
  /\ list \in Seq(1..MaxItems)
  /\ stored \in Seq(1..MaxItems)
  /\ twice \subseteq 1..pushed
  /\ pushed \in 0..MaxItems
  /\ failed \in BOOLEAN
  /\ \A r \in Runners :
       /\ run[r].pc \in {"idle", "fetch", "store", "trim"}
       /\ run[r].err \in {"none", "stop", "failed"}
       /\ Len(run[r].page) <= Page
       /\ run[r].idx \in 0..Len(run[r].page)
       /\ run[r].pc = "store" => run[r].idx > 0

(* Whatever fails between fetching, storing and trimming, and whatever is   *)
(* pushed meanwhile, every item is still in the history or was stored.      *)
NothingLost == 1..pushed = ToSet(list) \cup ToSet(stored)

(* The storage sees the history in the order it was written, without gaps.  *)
OldestFirst == \A i \in 1..Len(stored) : stored[i] = i

(* Unless a call was given up, by an error of Redis or the end of the       *)
(* process, nothing is stored twice, wherever the storage stops or fails.   *)
NothingTwice == ~failed => twice = {}

(* Trans2CodeStorage returns once nothing more is pushed.                   *)
TransferReturns == \A r \in Runners : run[r].pc # "idle" ~> run[r].pc = "idle"

(* A page of GetItemsASC is a stretch of the history, oldest first, wherever *)
(* it starts and ends, if it has three items at most: from four on the loop  *)
(* swaps the items past the middle back.                                     *)
ShortPagesAscend ==
  \A offset \in 0..MaxItems, count \in 1..3 :
    LET items == GetItemsASC(offset, count)
    IN  \A i \in 1..Len(items) :
          items[i] = list[Len(list) - offset] + (i - 1)
=============================================================================
