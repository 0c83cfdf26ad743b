------------------------------ MODULE MCCurve ------------------------------
(***************************************************************************)
(* Setters are interchangeable.                                            *)
(***************************************************************************)
EXTENDS Curve, TLC

TwoSpeeds == <<1, 2>>
Symmetry == Permutations(Setters)
=============================================================================
