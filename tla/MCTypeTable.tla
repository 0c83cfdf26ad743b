----------------------------- MODULE MCTypeTable -----------------------------
(***************************************************************************)
(* Ids are interchangeable, and labels are.                                *)
(***************************************************************************)
EXTENDS TypeTable, TLC

Symmetry == Permutations(IDs) \cup Permutations(Labels)
=============================================================================
