----------------------------- MODULE MC_Backups -----------------------------
(***************************************************************************)
(* One worker and one operator.                                            *)
(***************************************************************************)
EXTENDS Backups
=============================================================================
