----------------------------- MODULE MCAccount -----------------------------
(***************************************************************************)
(* Accounts, names and callers are interchangeable.                          *)
(***************************************************************************)
EXTENDS Account, TLC

Symmetry == Permutations(Uids) \cup Permutations(Names) \cup Permutations(Callers)
=============================================================================
