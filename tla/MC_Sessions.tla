---------------------------- MODULE MC_Sessions -----------------------------
(***************************************************************************)
(* Three requests in the server at one time, three sessions, and a fault.  *)
(***************************************************************************)
EXTENDS Sessions
=============================================================================
