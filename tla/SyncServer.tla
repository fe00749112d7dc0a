----------------------------- MODULE SyncServer -----------------------------
(***************************************************************************)
(* The PostgreSQL path of the sync endpoints of one book                   *)
(* (server/src/transport/http/sync.rs): concurrent push requests that      *)
(* apply transaction mutations, and devices that pull the change log.      *)
(*                                                                         *)
(* A push handles its mutations one by one.  For each it looks for a       *)
(* stored receipt, validates the payload, runs ONE database transaction    *)
(* (business row + change log + receipt) and finally stores the receipt    *)
(* once more outside the transaction, ON CONFLICT DO NOTHING.  Statements  *)
(* run at READ COMMITTED, so every statement that can observe another      *)
(* request is a step of its own.  The change log takes its sequence from a *)
(* BIGSERIAL, which is drawn before the commit and is never given back.    *)
(*                                                                         *)
(* A mutation's body is abstracted to what the handlers branch on; the     *)
(* content of a row is the id of the mutation that wrote it.               *)
(***************************************************************************)
EXTENDS Integers, Sequences, FiniteSets

CONSTANTS
    Handlers,     \* push requests the server runs at the same time
    Readers,      \* devices that pull
    TxIds,        \* transaction (entity) ids
    AccountIds,   \* accounts the entries may refer to
    InitAccounts, \* the accounts the book starts with
    MutationIds,  \* (device, mutation) ids
    NoMutation,   \* the writer of a row that does not exist
    Mutations,    \* the body sent under each mutation id
    Fingerprints, \* fingerprints of captured payments
    NoFp,         \* no fingerprint
    Batches,      \* the mutation lists devices send, and send again
    Limit,        \* the page size of a pull
    MaxPushes,    \* bound: push requests
    MaxFaults     \* bound: database and network failures

\* What the checks before the transaction answer.
ParseCodes ==
    {"OK", "INVALID_PAYLOAD", "LEDGER_UNBALANCED", "LEDGER_INVALID",
     "UNSUPPORTED_MUTATION"}

\* What parse_source finds: nothing, the tag of captured payments, or another
\* tag, such as the one of transactions entered by hand.
Sources == {"none", "auto_ledger", "other"}

Bodies ==
    [tx : TxIds, op : {"create", "update", "delete"}, base : Nat,
     fp : Fingerprints \cup {NoFp}, source : Sources, account : AccountIds,
     parse : ParseCodes]

ASSUME SyncServerAssumption ==
    /\ Mutations \in [MutationIds -> Bodies]
    /\ Batches \subseteq Seq(MutationIds)
    /\ InitAccounts \subseteq AccountIds
    /\ NoFp \notin Fingerprints
    /\ NoMutation \notin MutationIds
    /\ Limit \in Nat \ {0}
    /\ MaxPushes \in Nat
    /\ MaxFaults \in Nat

-----------------------------------------------------------------------------
(***************************************************************************)
(* Rows, changes and receipts.                                             *)
(***************************************************************************)

\* A row of transactions; version 0 stands for "no such row".  The entries of
\* a transaction are replaced as a whole, so "by" names them; "auto" says that
\* its source is auto_ledger.
Rows ==
    [version : Nat, deleted : BOOLEAN, by : MutationIds \cup {NoMutation},
     fp : Fingerprints \cup {NoFp}, auto : BOOLEAN]

NoRow ==
    [version |-> 0, deleted |-> FALSE, by |-> NoMutation, fp |-> NoFp,
     auto |-> FALSE]

\* A row of sync_changes, together with the row of transaction_revisions that
\* the same transaction inserts under the same entity and version.
Changes ==
    [seq : Nat, tx : TxIds, op : {"upsert", "delete"}, version : Nat,
     by : MutationIds]

Codes ==
    ParseCodes \cup {"AUTO_LEDGER_DEDUPED", "ACCOUNT_NOT_FOUND", "NOT_FOUND",
                     "LEDGER_VERSION_CONFLICT", "DB_ERROR"}

\* A row of sync_mutations.  The status is a function of the code: "applied"
\* for OK and AUTO_LEDGER_DEDUPED.  Version 0 stands for NULL.
Receipts == [code : Codes, version : Nat]
NoReceipt == [code |-> "NONE", version |-> 0]

Applied(version) == [code |-> "OK", version |-> version]
Rejected(code, version) == [code |-> code, version |-> version]
Deduped(version) == [code |-> "AUTO_LEDGER_DEDUPED", version |-> version]

VARIABLES
    rows,      \* transactions, by id                       (committed)
    log,       \* sync_changes                              (committed)
    lastSeq,   \* the last value drawn from sync_changes.sequence
    receipts,  \* sync_mutations, by id                     (committed)
    accounts,  \* the ids in accounts                       (committed)
    pc,        \* where each push request is
    todo,      \* its mutations still to be handled
    plan,      \* what its transaction decided to do
    sq,        \* the sequence its transaction drew
    reply,     \* the receipt process_mutation_pg returned
    out,       \* the receipts collected for the response
    acked,     \* history: the receipts devices have been given
    cursor,    \* each device's pull cursor
    seen,      \* the changes each device has been given
    pushes,    \* push requests so far
    faults     \* failures so far

dbVars     == <<rows, log, lastSeq, receipts, accounts>>
readerVars == <<cursor, seen>>
vars == <<rows, log, lastSeq, receipts, accounts, pc, todo, plan, sq, reply,
          out, acked, cursor, seen, pushes, faults>>

Init ==
    /\ rows = [t \in TxIds |-> NoRow]
    /\ log = {}
    /\ lastSeq = 0
    /\ receipts = [m \in MutationIds |-> NoReceipt]
    /\ accounts = InitAccounts
    /\ pc = [h \in Handlers |-> "idle"]
    /\ todo = [h \in Handlers |-> <<>>]
    /\ plan = [h \in Handlers |-> NoReceipt]
    /\ sq = [h \in Handlers |-> 0]
    /\ reply = [h \in Handlers |-> NoReceipt]
    /\ out = [h \in Handlers |-> {}]
    /\ acked = {}
    /\ cursor = [d \in Readers |-> 0]
    /\ seen = [d \in Readers |-> {}]
    /\ pushes = 0
    /\ faults = 0

-----------------------------------------------------------------------------
(***************************************************************************)
(* The decision of process_mutation_pg.                                    *)
(***************************************************************************)

Current(h) == Head(todo[h])
Body(h) == Mutations[Current(h)]

\* The mutation reports a captured payment.
is_auto_ledger_fingerprint(b) == b.source = "auto_ledger" /\ b.fp # NoFp

\* What a row has in the partial unique index uq_transactions_auto_event: its
\* fingerprint while it is live and tagged auto_ledger.
IndexKey(r) ==
    IF r.version # 0 /\ ~r.deleted /\ r.auto THEN r.fp ELSE NoFp

LiveByFp(fp) == {t \in TxIds : IndexKey(rows[t]) = fp}

\* Mutant: last writer wins, only a second create conflicts.
ConflictsOnCreateOnly(b) == rows[b.tx].version # 0 /\ b.op = "create"

\* The base version test.  A delete with base version 0 is unconditional; an
\* update of a row that does not exist is an insert.
Conflicts(b) ==
    LET current == rows[b.tx].version IN
    /\ current # 0
    /\ b.base # current \/ b.op = "create"
    /\ b.op = "delete" => b.base # 0

IsDuplicate(b) ==
    /\ b.op # "delete"
    /\ rows[b.tx].version = 0
    /\ is_auto_ledger_fingerprint(b)
    /\ LiveByFp(b.fp) # {}

MissingAccount(b) == b.op # "delete" /\ b.account \notin accounts

Decide(b) ==
    LET current == rows[b.tx].version IN
    CASE MissingAccount(b) -> Rejected("ACCOUNT_NOT_FOUND", 0)
      [] b.op = "delete" /\ current = 0 -> Rejected("NOT_FOUND", 0)
      [] ~MissingAccount(b) /\ Conflicts(b) ->
            Rejected("LEDGER_VERSION_CONFLICT", current)
      [] ~MissingAccount(b) /\ IsDuplicate(b) ->
            Deduped(rows[CHOOSE t \in LiveByFp(b.fp) : TRUE].version)
      [] OTHER -> Applied(current + 1)

\* The row a mutation leaves behind.  The UPDATE statement does not touch
\* deleted_at or the fingerprint, and a delete keeps the entries.  An edit that
\* names a source replaces it: it takes the row out of the index, or back in.
NewRow(m) ==
    LET b == Mutations[m]
        r == rows[b.tx]
    IN  [version |-> r.version + 1,
         deleted |-> r.deleted \/ b.op = "delete",
         by      |-> IF b.op = "delete" THEN r.by ELSE m,
         fp      |-> IF r.version = 0 THEN b.fp ELSE r.fp,
         auto    |-> IF b.op = "delete" \/ b.source = "none"
                       THEN r.auto ELSE b.source = "auto_ledger"]

NewChange(m, seq) ==
    [seq |-> seq, tx |-> Mutations[m].tx, by |-> m,
     op |-> IF Mutations[m].op = "delete" THEN "delete" ELSE "upsert",
     version |-> rows[Mutations[m].tx].version + 1]

-----------------------------------------------------------------------------
(***************************************************************************)
(* The steps of a push request.                                            *)
(***************************************************************************)

\* The request arrives; its device is a member of the book.
Receive(h, batch) ==
    /\ pc[h] = "idle"
    /\ pushes < MaxPushes
    /\ pc' = [pc EXCEPT ![h] = "lookup"]
    /\ todo' = [todo EXCEPT ![h] = batch]
    /\ out' = [out EXCEPT ![h] = {}]
    /\ pushes' = pushes + 1
    /\ UNCHANGED <<dbVars, plan, sq, reply, acked, readerVars, faults>>

\* The mutation has a stored receipt: it is the answer.
Replay(h) ==
    /\ pc[h] = "lookup"
    /\ todo[h] # <<>>
    /\ receipts[Current(h)] # NoReceipt
    /\ out' = [out EXCEPT ![h] = @ \cup {<<Current(h), receipts[Current(h)]>>}]
    /\ todo' = [todo EXCEPT ![h] = Tail(@)]
    /\ UNCHANGED <<dbVars, pc, plan, sq, reply, acked, readerVars, pushes,
                   faults>>

\* A create or an update with a bad payload never opens a transaction.
RejectPayload(h) ==
    /\ pc[h] = "lookup"
    /\ todo[h] # <<>>
    /\ receipts[Current(h)] = NoReceipt
    /\ Body(h).op # "delete" /\ Body(h).parse # "OK"
    /\ reply' = [reply EXCEPT ![h] = Rejected(Body(h).parse, 0)]
    /\ pc' = [pc EXCEPT ![h] = "record"]
    /\ UNCHANGED <<dbVars, todo, plan, sq, out, acked, readerVars, pushes,
                   faults>>

StartTx(h) ==
    /\ pc[h] = "lookup"
    /\ todo[h] # <<>>
    /\ receipts[Current(h)] = NoReceipt
    /\ Body(h).op = "delete" \/ Body(h).parse = "OK"
    /\ pc' = [pc EXCEPT ![h] = "begin"]
    /\ UNCHANGED <<dbVars, todo, plan, sq, reply, out, acked, readerVars,
                   pushes, faults>>

\* The advisory lock on (book, entity) is held to the end of the transaction.
Locking == {"read", "write", "commit"}

\* Mutant: no advisory lock.
NoEntityLock(h) == TRUE

\* Mutant: a session-level lock, held until the request ends.
SessionLock(h) ==
    \A g \in Handlers \ {h} :
        /\ pc[g] # "idle" => \A o \in out[g] : Mutations[o[1]].tx # Body(h).tx
        /\ pc[g] \in Locking => Body(g).tx # Body(h).tx

EntityFree(h) ==
    \A g \in Handlers \ {h} : pc[g] \in Locking => Body(g).tx # Body(h).tx

\* Take the lock, then look for a receipt again: a retry that waited for the
\* lock finds what the first attempt committed.
LockEntity(h) ==
    /\ pc[h] = "begin"
    /\ EntityFree(h)
    /\ IF receipts[Current(h)] # NoReceipt
         THEN /\ reply' = [reply EXCEPT ![h] = receipts[Current(h)]]
              /\ pc' = [pc EXCEPT ![h] = "record"]
         ELSE /\ pc' = [pc EXCEPT ![h] = "read"]
              /\ UNCHANGED reply
    /\ UNCHANGED <<dbVars, todo, plan, sq, out, acked, readerVars, pushes,
                   faults>>

\* The SELECTs: accounts, the row itself (FOR UPDATE), the fingerprint.
Read(h) ==
    /\ pc[h] = "read"
    /\ plan' = [plan EXCEPT ![h] = Decide(Body(h))]
    /\ pc' = [pc EXCEPT ![h] = "write"]
    /\ UNCHANGED <<dbVars, todo, sq, reply, out, acked, readerVars, pushes,
                   faults>>

Writes(g) == pc[g] = "commit" /\ plan[g].code = "OK"

\* The row lock: an INSERT or UPDATE of a row waits for an open transaction
\* that has written it.
RowFree(h) ==
    \A g \in Handlers \ {h} : Writes(g) => Body(g).tx # Body(h).tx

\* What the request's row will have in the index.
NewKey(h) == IndexKey(NewRow(Current(h)))

\* An INSERT, or an UPDATE that tags the row, adds an entry to the index.
EntersIndex(h) ==
    plan[h].code = "OK" /\ NewKey(h) \notin {NoFp, IndexKey(rows[Body(h).tx])}

\* Adding an entry waits for every open transaction that has written a row
\* which has it, before or after.
FpFree(h) ==
    \A g \in Handlers \ {h} :
        Writes(g) => /\ NewKey(g) # NewKey(h)
                     /\ Body(g).tx \notin LiveByFp(NewKey(h))

\* Mutant: no unique index on live fingerprints.
NoFpIndex(h) == FALSE

FpClash(h) == EntersIndex(h) /\ LiveByFp(NewKey(h)) # {}

\* The row is no longer the one that was read: UPDATE ... AND version = $n
\* changes nothing ("transaction CAS failed").
CasFails(h) ==
    plan[h].code = "OK" /\ rows[Body(h).tx].version + 1 # plan[h].version

\* Mutant: a code outside the protocol.
RawUniqueViolation(h) == Rejected("23505", 0)

\* A unique violation (SQLSTATE 23505) of ANY constraint is taken for the
\* fingerprint index when the mutation reports a payment.
ClassifyUniqueViolation(h) ==
    IF is_auto_ledger_fingerprint(Body(h))
      THEN Deduped(1) ELSE Rejected("DB_ERROR", 0)

\* The INSERTs and UPDATEs, up to the receipt.  The row comes first, so
\* losing there draws no sequence; a receipt clash comes last and the
\* sequence drawn before it is lost.
Write(h) ==
    /\ pc[h] = "write"
    /\ plan[h].code = "OK" => RowFree(h)
    /\ EntersIndex(h) => FpFree(h)
    /\ IF CasFails(h) \/ FpClash(h) \/ receipts[Current(h)] # NoReceipt
         THEN /\ reply' = [reply EXCEPT ![h] =
                    IF CasFails(h) THEN Rejected("DB_ERROR", 0)
                                   ELSE ClassifyUniqueViolation(h)]
              /\ pc' = [pc EXCEPT ![h] = "record"]
         ELSE /\ pc' = [pc EXCEPT ![h] = "commit"]
              /\ UNCHANGED reply
    /\ IF plan[h].code = "OK" /\ ~CasFails(h) /\ ~FpClash(h)
         THEN /\ lastSeq' = lastSeq + 1
              /\ sq' = [sq EXCEPT ![h] = lastSeq + 1]
         ELSE UNCHANGED <<lastSeq, sq>>
    /\ UNCHANGED <<rows, log, receipts, accounts, todo, plan, out, acked,
                   readerVars, pushes, faults>>

\* Mutant: deletes do not reach the change log.
CommitWithoutDeleteChange(h) ==
    LET m == Current(h) IN
    /\ receipts' = [receipts EXCEPT ![m] = plan[h]]
    /\ IF plan[h].code = "OK"
         THEN /\ rows' = [rows EXCEPT ![Mutations[m].tx] = NewRow(m)]
              /\ log' = log \cup {e \in {NewChange(m, sq[h])} : e.op # "delete"}
         ELSE UNCHANGED <<rows, log>>

\* What the commit makes visible at once: row, change and receipt, or the
\* receipt of a mutation that changed nothing.
CommitEffect(h) ==
    LET m == Current(h) IN
    /\ receipts' = [receipts EXCEPT ![m] = plan[h]]
    /\ IF plan[h].code = "OK"
         THEN /\ rows' = [rows EXCEPT ![Mutations[m].tx] = NewRow(m)]
              /\ log' = log \cup {NewChange(m, sq[h])}
         ELSE UNCHANGED <<rows, log>>

Commit(h) ==
    /\ pc[h] = "commit"
    /\ CommitEffect(h)
    /\ reply' = [reply EXCEPT ![h] = plan[h]]
    /\ pc' = [pc EXCEPT ![h] = "record"]
    /\ UNCHANGED <<lastSeq, accounts, todo, plan, sq, out, acked, readerVars,
                   pushes, faults>>

\* The commit takes effect but its acknowledgement is lost: an sqlx error.
CommitUnacknowledged(h) ==
    /\ pc[h] = "commit"
    /\ faults < MaxFaults
    /\ CommitEffect(h)
    /\ reply' = [reply EXCEPT ![h] = Rejected("DB_ERROR", 0)]
    /\ pc' = [pc EXCEPT ![h] = "record"]
    /\ faults' = faults + 1
    /\ UNCHANGED <<lastSeq, accounts, todo, plan, sq, out, acked, readerVars,
                   pushes>>

\* Any statement of the transaction fails: it rolls back, and the error is
\* turned into a receipt.
TxError(h) ==
    /\ pc[h] \in {"begin", "read", "write", "commit"}
    /\ faults < MaxFaults
    /\ reply' = [reply EXCEPT ![h] = Rejected("DB_ERROR", 0)]
    /\ pc' = [pc EXCEPT ![h] = "record"]
    /\ faults' = faults + 1
    /\ UNCHANGED <<dbVars, todo, plan, sq, out, acked, readerVars, pushes>>

\* ON CONFLICT DO NOTHING.
RecordOnce(m, receipt) ==
    IF receipts[m] = NoReceipt THEN receipt ELSE receipts[m]

\* The outer INSERT ... ON CONFLICT, which waits for an open
\* transaction that has inserted the same key.  The response carries the
\* receipt just computed, whichever one is stored.
Record(h) ==
    /\ pc[h] = "record"
    /\ \A g \in Handlers \ {h} : pc[g] = "commit" => Current(g) # Current(h)
    /\ receipts' = [receipts EXCEPT ![Current(h)] =
                        RecordOnce(Current(h), reply[h])]
    /\ out' = [out EXCEPT ![h] = @ \cup {<<Current(h), reply[h]>>}]
    /\ todo' = [todo EXCEPT ![h] = Tail(@)]
    /\ pc' = [pc EXCEPT ![h] = "lookup"]
    /\ UNCHANGED <<rows, log, lastSeq, accounts, plan, sq, reply, acked,
                   readerVars, pushes, faults>>

Respond(h) ==
    /\ pc[h] = "lookup"
    /\ todo[h] = <<>>
    /\ acked' = acked \cup out[h]
    /\ pc' = [pc EXCEPT ![h] = "idle"]
    /\ UNCHANGED <<dbVars, todo, plan, sq, reply, out, readerVars, pushes,
                   faults>>

\* The request ends without a response: a query outside the transaction
\* failed (500 for the whole push), the client went away, or the process
\* died.  An open transaction rolls back.
Fail(h) ==
    /\ pc[h] # "idle"
    /\ faults < MaxFaults
    /\ pc' = [pc EXCEPT ![h] = "idle"]
    /\ faults' = faults + 1
    /\ UNCHANGED <<dbVars, todo, plan, sq, reply, out, acked, readerVars,
                   pushes>>

-----------------------------------------------------------------------------
\* An account mutation of the same book commits (AccountTree has its steps):
\* the account exists from now on and its change has drawn a sequence.
AddAccount(a) ==
    /\ a \notin accounts
    /\ accounts' = accounts \cup {a}
    /\ lastSeq' = lastSeq + 1
    /\ UNCHANGED <<rows, log, receipts, pc, todo, plan, sq, reply, out, acked,
                   readerVars, pushes, faults>>

\* The first Limit committed changes after a cursor, in sequence order.
Page(after) ==
    {e \in log : /\ e.seq > after
                 /\ Cardinality({f \in log : f.seq > after /\ f.seq < e.seq})
                        < Limit}

\* The last change of a page, whose sequence becomes the cursor.
LastOf(page) == {e \in page : \A f \in page : f.seq <= e.seq}

\* An empty page leaves the device where it was.
Pull(d) ==
    LET page == Page(cursor[d]) IN
    \E last \in LastOf(page) :
        /\ seen' = [seen EXCEPT ![d] = @ \cup page]
        /\ cursor' = [cursor EXCEPT ![d] = last.seq]
        /\ UNCHANGED <<dbVars, pc, todo, plan, sq, reply, out, acked, pushes,
                       faults>>

\* The steps a request takes when nothing fails.
Step(h) ==
    \/ Replay(h) \/ RejectPayload(h) \/ StartTx(h) \/ LockEntity(h)
    \/ Read(h) \/ Write(h) \/ Commit(h) \/ Record(h) \/ Respond(h)

Next ==
    \/ \E h \in Handlers :
          \/ \E batch \in Batches : Receive(h, batch)
          \/ Replay(h) \/ RejectPayload(h) \/ StartTx(h) \/ LockEntity(h)
          \/ Read(h) \/ Write(h) \/ Commit(h) \/ Record(h) \/ Respond(h)
          \/ CommitUnacknowledged(h) \/ TxError(h) \/ Fail(h)
    \/ \E a \in AccountIds : AddAccount(a)
    \/ \E d \in Readers : Pull(d)

Spec == Init /\ [][Next]_vars

\* A request that has been accepted is driven by the runtime until it ends.
FairSpec == Spec /\ \A h \in Handlers : WF_vars(Step(h))

-----------------------------------------------------------------------------
(***************************************************************************)
(* Properties.                                                             *)
(***************************************************************************)

\* Every variable has its type; a request inside its loop has the mutation it
\* is working on at the head of its list.
TypeOK ==
    /\ rows \in [TxIds -> Rows]
    /\ log \subseteq Changes
    /\ lastSeq \in Nat
    /\ receipts \in [MutationIds -> Receipts \cup {NoReceipt}]
    /\ accounts \subseteq AccountIds
    /\ pc \in [Handlers -> {"idle", "lookup", "begin", "record"} \cup Locking]
    /\ todo \in [Handlers -> Seq(MutationIds)]
    /\ \A h \in Handlers : pc[h] \notin {"idle", "lookup"} => todo[h] # <<>>
    /\ plan \in [Handlers -> Receipts \cup {NoReceipt}]
    /\ \A h \in Handlers : pc[h] \in {"write", "commit"} => plan[h] # NoReceipt
    /\ sq \in [Handlers -> Nat]
    /\ reply \in [Handlers -> Receipts \cup {NoReceipt}]
    /\ \A h \in Handlers : pc[h] = "record" => reply[h] # NoReceipt
    /\ out \in [Handlers -> SUBSET (MutationIds \X Receipts)]
    /\ acked \subseteq MutationIds \X Receipts
    /\ cursor \in [Readers -> Nat]
    /\ seen \in [Readers -> SUBSET Changes]
    /\ pushes \in Nat
    /\ faults \in Nat

\* However often a mutation is sent, and however its attempts overlap, fail
\* or lose their answers, it enters the change log at most once.
AtMostOnce == \A e, f \in log : e.by = f.by => e = f

\* Business data, change log and receipt are written together or not at all:
\* a change has the receipt of its mutation with the version it produced, an
\* applied receipt has its change.
AllOrNothing ==
    /\ \A e \in log : receipts[e.by] = Applied(e.version)
    /\ \A m \in MutationIds :
          receipts[m].code = "OK" => \E e \in log : e.by = m

\* The log tells the history of each row: its changes carry the versions up
\* to the one stored, without a hole.
HistoryComplete ==
    \A t \in TxIds :
        {e.version : e \in {f \in log : f.tx = t}} = 1 .. rows[t].version

\* Pulling in sequence order replays each row in version order.
LogOrder ==
    \A e, f \in log :
        e.tx = f.tx => (e.seq < f.seq <=> e.version < f.version)

\* Optimistic concurrency: an applied update or delete (other than the
\* unconditional delete, base version 0) replaced exactly the version it was
\* based on, and an applied create is the first version of its row.
BaseRespected ==
    \A e \in log :
        LET b == Mutations[e.by] IN
        /\ b.op = "create" => e.version = 1
        /\ (e.version > 1 /\ b.base # 0) => b.base = e.version - 1

\* What the devices replay is the history of the rows: each mutation entered
\* it once, with its row and its receipt, from the version its device had
\* seen, and sequence order is version order without a hole.
LogFaithful ==
    AtMostOnce /\ AllOrNothing /\ HistoryComplete /\ LogOrder /\ BaseRespected

\* However captures, deletes and edits that tag a row or take the tag away
\* overlap, a payment has at most one live row tagged auto_ledger.  (A row
\* whose tag an edit has replaced no longer counts: the payment behind it can
\* be booked again.)
OneLiveRowPerFp ==
    \A t, u \in TxIds :
        IndexKey(rows[t]) = IndexKey(rows[u]) =>
            t = u \/ IndexKey(rows[t]) = NoFp

\* A device told that its mutation was applied can rely on it.
AckedIsDurable ==
    \A a \in acked :
        a[2].code = "OK" =>
            \E e \in log : e.by = a[1] /\ e.version = a[2].version

\* The payments a mutation can be a duplicate of: the one it reports and, for
\* an edit, the one of its row.
Payments(b) == {b.fp, rows[b.tx].fp} \ {NoFp}

\* As long as nothing fails, every send of a mutation that is not tagged
\* auto_ledger is answered with the same receipt: a send that overlaps another
\* waits for the entity lock and finds the receipt of the first.  And a device
\* is answered AUTO_LEDGER_DEDUPED only if the payment has been booked, under
\* another id.  (classify_sync_db_error reads any unique violation as a
\* duplicate; only a failed attempt's receipt makes it wrong.)
AnswersHold ==
    faults = 0 =>
        \A a \in acked :
            LET b == Mutations[a[1]] IN
            /\ \A c \in acked :
                  (a[1] = c[1] /\ b.source # "auto_ledger") => a[2] = c[2]
            /\ a[2].code = "AUTO_LEDGER_DEDUPED" =>
                  \E e \in log : /\ e.tx # b.tx /\ e.version = 1
                                 /\ Mutations[e.by].fp \in Payments(b)

\* A stored receipt is never changed or removed.
ReceiptsStable ==
    [][\A m \in MutationIds :
          receipts[m] # NoReceipt => receipts'[m] = receipts[m]]_vars

\* Lock waits and index waits never form a cycle: every request ends.
PushEnds == \A h \in Handlers : pc[h] # "idle" ~> pc[h] = "idle"

\* A pull never steps over a change: what is at or below a device's cursor
\* has been handed to it.
NothingSkipped ==
    \A d \in Readers : \A e \in log : e.seq <= cursor[d] => e \in seen[d]

\* The changes without the sequences they drew.
Told == {[tx |-> e.tx, by |-> e.by, version |-> e.version, op |-> e.op] : e \in log}

B == INSTANCE Book WITH log <- Told

\* Push on PostgreSQL does what Book says, which is what push in memory does
\* under its lock: whatever requests overlap, fail, are repeated or lose their
\* answers, every mutation takes effect, and is recorded, in one step.
ImplementsBook == B!Spec
=============================================================================
