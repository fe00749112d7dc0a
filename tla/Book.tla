-------------------------------- MODULE Book --------------------------------
(***************************************************************************)
(* What a push promises of one book, whichever store is behind it: every   *)
(* mutation is applied or refused in one step, once.                       *)
(*                                                                         *)
(* Without a database the server does exactly this: it holds one lock      *)
(* around the look-up of the receipt, process_mutation_mem and the         *)
(* insertion of the receipt.  SyncServer, which does it on PostgreSQL in   *)
(* transactions that run side by side, is shown to implement this module.  *)
(* The order of the change log is not part of the promise: PostgreSQL      *)
(* draws sequences before it commits.                                      *)
(*                                                                         *)
(* Where the stores differ this module allows what either does: an edit of *)
(* a deleted row brings it back in memory and leaves it deleted on         *)
(* PostgreSQL, and only in memory it takes over the edit's fingerprint;    *)
(* only PostgreSQL refuses an edit that tags a second row of a payment.    *)
(***************************************************************************)
EXTENDS Integers

CONSTANTS
    TxIds, AccountIds, InitAccounts, MutationIds, NoMutation, Mutations,
    NoFp        \* as in SyncServer

VARIABLES
    rows,      \* MemoryStore.transactions
    log,       \* MemoryStore.changes, without their sequence
    receipts,  \* MemoryStore.mutations
    accounts   \* MemoryStore.accounts

vars == <<rows, log, receipts, accounts>>

NoRow ==
    [version |-> 0, deleted |-> FALSE, by |-> NoMutation, fp |-> NoFp,
     auto |-> FALSE]
NoReceipt == [code |-> "NONE", version |-> 0]

Init ==
    /\ rows = [t \in TxIds |-> NoRow]
    /\ log = {}
    /\ receipts = [m \in MutationIds |-> NoReceipt]
    /\ accounts = InitAccounts

\* The live rows tagged auto_ledger that have a fingerprint.
Booked(fp) ==
    {t \in TxIds : /\ rows[t].version # 0 /\ ~rows[t].deleted
                   /\ rows[t].auto /\ rows[t].fp = fp}

\* The mutation reports a captured payment.
Reports(b) == b.source = "auto_ledger" /\ b.fp # NoFp

\* parse_occurred_at, parse_entries and validate_or_reject let it pass.
Parsed(b) == b.op = "delete" \/ b.parse = "OK"

\* process_delete_mem finds the row at the version the device has deleted.
DeleteFits(b) == rows[b.tx].version # 0 /\ b.base \in {0, rows[b.tx].version}

\* process_mutation_mem finds no row, or for an update its base version.
UpsertFits(b) == rows[b.tx].version = 0 \/ (b.op = "update" /\ b.base = rows[b.tx].version)

BaseFits(b) == IF b.op = "delete" THEN DeleteFits(b) ELSE UpsertFits(b)

Unbooked(b) == rows[b.tx].version = 0 /\ Reports(b) => Booked(b.fp) = {}

Accepts(b) ==
    /\ Parsed(b)
    /\ BaseFits(b)
    /\ b.op # "delete" => b.account \in accounts /\ Unbooked(b)

\* The rows the stores may leave behind.
Deleted(r) ==
    {[version |-> r.version + 1, deleted |-> TRUE, by |-> r.by, fp |-> r.fp,
      auto |-> r.auto]}

\* The edit's source, or the one the row had.
Tagged(r, b) == IF b.source = "none" THEN r.auto ELSE b.source = "auto_ledger"

Upserted(r, m) ==
    LET b == Mutations[m]
    IN  IF r.version = 0
        THEN {[version |-> 1, deleted |-> FALSE, by |-> m, fp |-> b.fp,
               auto |-> Tagged(r, b)]}
        ELSE [version : {r.version + 1}, deleted : {r.deleted, FALSE}, by : {m},
              fp : {r.fp, b.fp}, auto : {Tagged(r, b)}]

Edited(m) ==
    LET b == Mutations[m]
    IN  IF b.op = "delete" THEN Deleted(rows[b.tx]) ELSE Upserted(rows[b.tx], m)

\* push has no receipt for it yet.
Unanswered(m) == receipts[m] = NoReceipt

\* Row, change and receipt together.
Apply(m) ==
    LET b == Mutations[m]
        version == rows[b.tx].version + 1
    IN  /\ Unanswered(m)
        /\ Accepts(b)
        /\ \E r \in Edited(m) : rows' = [rows EXCEPT ![b.tx] = r]
        /\ log' = log \cup
               {[tx |-> b.tx, by |-> m, version |-> version,
                 op |-> IF b.op = "delete" THEN "delete" ELSE "upsert"]}
        /\ receipts' = [receipts EXCEPT ![m] = [code |-> "OK", version |-> version]]
        /\ UNCHANGED accounts

\* Why a mutation may be refused.  PostgreSQL decides in the same transaction
\* as it stores the receipt, but the accounts and the rows of other
\* transactions may have changed in between: the account was missing, or the
\* payment was booked, by then.  The database may fail at any time.
Reasons(b) ==
    [code : {"DB_ERROR"}, version : {0}]
    \cup [code : {b.parse} \ {"OK"}, version : IF Parsed(b) THEN {} ELSE {0}]
    \cup [code : {"NOT_FOUND"},
          version : IF b.op = "delete" /\ rows[b.tx].version = 0 THEN {0} ELSE {}]
    \cup [code : {"LEDGER_VERSION_CONFLICT"},
          version : IF BaseFits(b) THEN {} ELSE {rows[b.tx].version} \ {0}]
    \cup [code : {"ACCOUNT_NOT_FOUND"},
          version : IF b.op = "delete" \/ b.account \in InitAccounts THEN {} ELSE {0}]

Refuse(m) ==
    /\ Unanswered(m)
    /\ \E reason \in Reasons(Mutations[m]) : receipts' = [receipts EXCEPT ![m] = reason]
    /\ UNCHANGED <<rows, log, accounts>>

\* The payment it reports, or the one of the row it edits, has been booked
\* under another id.
Dedupe(m) ==
    LET b == Mutations[m] IN
    /\ Unanswered(m)
    /\ Parsed(b) /\ b.op # "delete" /\ Reports(b)
    /\ \E e \in log :
           /\ e.tx # b.tx
           /\ Mutations[e.by].fp \in {b.fp, rows[b.tx].fp} \ {NoFp}
           /\ \E version \in 1 .. rows[e.tx].version :
                  receipts' = [receipts EXCEPT ![m] =
                                   [code |-> "AUTO_LEDGER_DEDUPED", version |-> version]]
    /\ UNCHANGED <<rows, log, accounts>>

\* An account mutation of the same book.
AddAccount(a) ==
    /\ a \notin accounts
    /\ accounts' = accounts \cup {a}
    /\ UNCHANGED <<rows, log, receipts>>

Next ==
    \/ \E m \in MutationIds : Apply(m) \/ Refuse(m) \/ Dedupe(m)
    \/ \E a \in AccountIds : AddAccount(a)

Spec == Init /\ [][Next]_vars
=============================================================================
