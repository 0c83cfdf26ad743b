------------------------------ MODULE AppendLog ------------------------------
(***************************************************************************)
(* What the syncer promises its callers: one log that only grows at its    *)
(* end, of which a prefix is committed.  A log is first written and then   *)
(* committed, and nothing is written while a written log waits: there is   *)
(* at most one log whose fate a restart has still to decide, and committed *)
(* logs are never lost, moved or overwritten.                              *)
(***************************************************************************)
EXTENDS Naturals, Sequences

CONSTANT Body  \* the logs that may be written

VARIABLES log, committed

Init ==
  /\ log = <<>>
  /\ committed = 0

Write ==
  /\ log' # log
  /\ committed = Len(log)
  /\ \E b \in Body : log' = Append(log, b)
  /\ UNCHANGED committed

Commit ==
  /\ committed < Len(log)
  /\ committed' = Len(log)
  /\ UNCHANGED log

Next == Write \/ Commit

Spec == Init /\ [][Next]_<<log, committed>>
=============================================================================
