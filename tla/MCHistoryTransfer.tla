------------------------- MODULE MCHistoryTransfer -------------------------
(***************************************************************************)
(* The history on small pages.                                             *)
(***************************************************************************)
EXTENDS HistoryTransfer
=============================================================================
