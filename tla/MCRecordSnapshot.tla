-------------------------- MODULE MCRecordSnapshot --------------------------
(***************************************************************************)
(* Records are interchangeable: no action and no property tells them apart.*)
(***************************************************************************)
EXTENDS RecordSnapshot, TLC

RecordSymmetry == Permutations(RecordIDs)
=============================================================================
