---------------------------- MODULE MCOperatorSet ----------------------------
(***************************************************************************)
(* The set asks for the bonus first, then for the packages.                *)
(***************************************************************************)
EXTENDS OperatorSet

BonusThenPackages == <<"bonus", "packages">>
=============================================================================
