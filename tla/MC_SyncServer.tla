--------------------------- MODULE MC_SyncServer ----------------------------
(***************************************************************************)
(* Small instances of SyncServer: two transactions A and B, one payment    *)
(* fingerprint that two devices both captured, and the mutations that      *)
(* create, edit and delete them.                                           *)
(***************************************************************************)
EXTENDS SyncServer, TLC

MCBody(tx, op, base, fp, source, account, parse) ==
    [tx |-> tx, op |-> op, base |-> base, fp |-> fp, source |-> source,
     account |-> account, parse |-> parse]

\* captureA and captureB report the same payment from two devices; demoteA
\* takes A's tag away, promoteA and recaptureA give it back.
MCMutations ==
    [captureA   |-> MCBody("A", "create", 0, "pay", "auto_ledger", "cash", "OK"),
     captureB   |-> MCBody("B", "create", 0, "pay", "auto_ledger", "cash", "OK"),
     editA      |-> MCBody("A", "update", 1, NoFp, "none", "food", "OK"),
     demoteA    |-> MCBody("A", "update", 1, NoFp, "other", "cash", "OK"),
     promoteA   |-> MCBody("A", "update", 2, NoFp, "auto_ledger", "cash", "OK"),
     recaptureA |-> MCBody("A", "update", 2, "pay", "auto_ledger", "cash", "OK"),
     dropA      |-> MCBody("A", "delete", 0, NoFp, "none", "cash", "OK"),
     manualB    |-> MCBody("B", "create", 0, NoFp, "other", "food", "OK"),
     lopsided   |-> MCBody("B", "update", 0, NoFp, "none", "cash",
                           "LEDGER_UNBALANCED")]

MCMutationIds == DOMAIN MCMutations

\* The lists a device sends: one mutation, or two in the order they were made.
MCBatches ==
    {<<"captureA", "demoteA">>, <<"captureB">>, <<"editA">>, <<"dropA">>,
     <<"lopsided", "manualB">>}

\* Two writers on different rows are enough for an out-of-order commit.
MCTwoWriters == {<<"captureA">>, <<"manualB">>}

\* Requests that take the same two locks in opposite orders, and edits that move
\* A out of the fingerprint index and back while B has its payment.
MCCrossed ==
    {<<"captureA", "demoteA">>, <<"captureB", "dropA">>, <<"manualB", "promoteA">>,
     <<"recaptureA", "manualB">>}

MCSymmetry == Permutations(Handlers)
=============================================================================
