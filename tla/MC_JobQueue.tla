----------------------------- MODULE MC_JobQueue ----------------------------
(***************************************************************************)
(* Processes of the server, the jobs they enqueue when they start, and a   *)
(* few recurring rules.                                                    *)
(***************************************************************************)
EXTENDS JobQueue

CONSTANTS w1, w2

\* A server, which enqueues a scan, and a worker process: both register the
\* backup if there is none.
MCServerAndWorker ==
    [w \in Workers |-> IF w = w1 THEN <<"scan", "backup">> ELSE <<"backup">>]

MCBackupOnly == [w \in Workers |-> <<"backup">>]

\* One process enqueues, the other one only works.
MCOneStarter == [w \in Workers |-> IF w = w1 THEN <<"scan", "backup">> ELSE <<>>]

\* A rule that is fine, one whose entries do not balance, one that cannot be read.
MCMixed == [r \in Rules |->
    CASE r = 1 -> "good" [] r = 2 -> "unbalanced" [] OTHER -> "malformed"]
=============================================================================
