-------------------------- MODULE MCTrafficPackage --------------------------
(***************************************************************************)
(* Callers are interchangeable, and package ids are.                       *)
(***************************************************************************)
EXTENDS TrafficPackage, TLC

Symmetry == Permutations(Callers) \cup Permutations(PackageIDs)
=============================================================================
