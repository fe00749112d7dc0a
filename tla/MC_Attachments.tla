--------------------------- MODULE MC_Attachments ---------------------------
(***************************************************************************)
(* One attachment and two requests at a time.  A part holds 2, an upload   *)
(* of more than 1 is in parts, the maximum is 3: a session of size 3 has a *)
(* full part and a shorter one, one of size 2 exactly one full part.       *)
(* Bodies are shorter and longer than a full part; what is put through the *)
(* server as a part has the length of the plan besides.                    *)
(***************************************************************************)
EXTENDS Attachments

MCSizes == {NoSize, 1, 2, 3}
MCNoSize == -1
MCBodies == {1, 3}
MCBoth == {"local", "s3"}
MCS3 == {"s3"}
=============================================================================
