---------------------------- MODULE MC_DeviceSync ---------------------------
(***************************************************************************)
(* Two devices of one book, and the transactions they create.              *)
(***************************************************************************)
EXTENDS DeviceSync

CONSTANTS phone, tablet

\* One transaction, made on the phone and edited on both.
MCOneCreator == [t \in {"T"} |-> phone]
=============================================================================
