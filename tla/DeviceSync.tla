------------------------------ MODULE DeviceSync ----------------------------
(***************************************************************************)
(* Devices of one book and the server they synchronise with.               *)
(*                                                                         *)
(* A device keeps its own copy of the transactions, a queue of pending     *)
(* mutations, the conflicts the user has to resolve and a pull cursor.     *)
(* The user creates, edits and deletes offline.  A run of syncNow lists    *)
(* the queue, pushes it, works through the receipts, pushes once more if   *)
(* something is left, pulls one page of the change log and applies it.     *)
(* Every await is a place where the user, another device, another run of   *)
(* syncNow or a failure may come in between, so it is a step of its own.   *)
(*                                                                         *)
(* The server is abstracted to what SyncServer shows of one mutation: it   *)
(* is applied or refused in one step and its receipt answers every retry.  *)
(* Content is abstract: each operation of the user is numbered, and the    *)
(* number stands for its mutation id and for the content it leaves behind. *)
(* Transactions here are entered by hand; SyncServer has the fingerprints  *)
(* of captured payments.                                                   *)
(***************************************************************************)
EXTENDS Integers, Sequences, FiniteSets

CONSTANTS
    Devices,
    Runs,         \* the runs of syncNow a device may have under way
    TxIds,
    Creator,      \* the device that creates each transaction
    Limit,        \* bound: changes on a page of pull
    MaxOps,       \* bound: transactions created, edited and deleted
    MaxKeeps,     \* bound: conflicts resolved with keepLocal
    MaxAborts,    \* bound: runs cut off
    MaxErrors     \* bound: database errors

ASSUME DeviceSyncAssumption ==
    /\ Creator \in [TxIds -> Devices]
    /\ Limit \in Nat \ {0}
    /\ MaxOps \in Nat
    /\ MaxKeeps \in Nat
    /\ MaxAborts \in Nat
    /\ MaxErrors \in Nat

Ids == 1 .. MaxOps + MaxKeeps

VARIABLES
    \* server
    rows,       \* transactions
    log,        \* sync_changes, in the order of their sequences
    receipts,   \* sync_mutations: the answer stored under each mutation id
    \* devices
    local,      \* the device's transactions
    pending,    \* pendingMutations, in the order of createdAt
    conflicts,  \* syncConflicts
    cursor,     \* sync_states.cursor
    deleting,   \* the row a delete has read and not yet written
    run,        \* the state of each run of syncNow
    \* history and bounds
    queued,     \* the mutations a device has put in its queue
    closed,     \* those whose conflict the user has resolved
    latest,     \* each device's latest operation on each transaction
    raced,      \* devices where a pulled change fell between the halves of a delete
    ops, keeps, aborts, errors

serverVars == <<rows, log, receipts>>
deviceVars == <<local, pending, conflicts, deleting>>
bounds     == <<keeps, aborts, errors>>
history    == <<queued, closed, latest, raced>>
vars == <<rows, log, receipts, local, pending, conflicts, cursor, deleting,
          run, queued, closed, latest, raced, ops, keeps, aborts, errors>>

NoRow == [version |-> 0, deleted |-> FALSE, content |-> 0]
NoCopy == [version |-> 0, deleted |-> FALSE, content |-> 0]
NoDelete == [tx |-> "none", version |-> 0, id |-> 0]

\* Content is what the server held when it refused: the version a conflict
\* shows to the user.
Receipt(code, version, content) ==
    [code |-> code, version |-> version, content |-> content]
NoReceipt == Receipt("NONE", 0, 0)

\* A run of syncNow: where it is, the cursor it read, its attempt to push, the
\* mutations not yet sent, the answers not yet handled, the changes not yet
\* applied and the cursor it will save.
RunState(pc, from, attempt, batch, answers, page, next) ==
    [pc |-> pc, from |-> from, attempt |-> attempt, batch |-> batch,
     answers |-> answers, page |-> page, next |-> next]

Off == RunState("off", 0, 0, <<>>, <<>>, <<>>, 0)
Listing(from, attempt) == RunState("list", from, attempt, <<>>, <<>>, <<>>, 0)
Pushing(from, attempt, batch, answers) ==
    RunState("push", from, attempt, batch, answers, <<>>, 0)
Handling(pc, from, attempt, answers) ==
    RunState(pc, from, attempt, <<>>, answers, <<>>, 0)
Pulling(from) == RunState("pull", from, 0, <<>>, <<>>, <<>>, 0)
Applying(from, page, next) == RunState("apply", from, 0, <<>>, <<>>, page, next)

Init ==
    /\ rows = [t \in TxIds |-> NoRow]
    /\ log = <<>>
    /\ receipts = [i \in Ids |-> NoReceipt]
    /\ local = [d \in Devices |-> [t \in TxIds |-> NoCopy]]
    /\ pending = [d \in Devices |-> <<>>]
    /\ conflicts = [d \in Devices |-> <<>>]
    /\ cursor = [d \in Devices |-> 0]
    /\ deleting = [d \in Devices |-> NoDelete]
    /\ run = [d \in Devices |-> [r \in Runs |-> Off]]
    /\ queued = [d \in Devices |-> {}]
    /\ closed = [d \in Devices |-> {}]
    /\ latest = [d \in Devices |-> [t \in TxIds |-> 0]]
    /\ raced = {}
    /\ ops = 0
    /\ keeps = 0
    /\ aborts = 0
    /\ errors = 0

-----------------------------------------------------------------------------
(***************************************************************************)
(* What the user does.  Each operation is one local database transaction,  *)
(* except a delete, which reads the row before it opens one.               *)
(***************************************************************************)

\* ops counts the operations of the users, keeps those that were keepLocal.
Fresh == ops + 1
MayOperate == ops - keeps < MaxOps

\* on is the content the user saw (history).
Mutation(id, t, op, base, content, on) ==
    [id |-> id, tx |-> t, op |-> op, base |-> base, content |-> content,
     on |-> on]

Enqueue(d, m) ==
    /\ pending' = [pending EXCEPT ![d] = Append(@, m)]
    /\ queued' = [queued EXCEPT ![d] = @ \cup {m.id}]

\* saveDomainTransaction
Create(d, t) ==
    /\ MayOperate
    /\ Creator[t] = d
    /\ local[d][t].version = 0
    /\ local' = [local EXCEPT ![d][t] =
                    [version |-> 1, deleted |-> FALSE, content |-> Fresh]]
    /\ Enqueue(d, Mutation(Fresh, t, "create", 0, Fresh, 0))
    /\ latest' = [latest EXCEPT ![d][t] = Fresh]
    /\ ops' = ops + 1
    /\ UNCHANGED <<serverVars, conflicts, cursor, deleting, run, closed, raced,
                   bounds>>

PendingCreate(d, t) ==
    {i \in DOMAIN pending[d] : pending[d][i].tx = t /\ pending[d][i].op = "create"}

\* updateDomainTransaction.  An edit of a transaction whose create is still
\* queued replaces the payload of that create, which keeps its mutation id.
Edit(d, t) ==
    LET copy == local[d][t] IN
    /\ MayOperate
    /\ copy.version # 0 /\ ~copy.deleted
    /\ local' = [local EXCEPT ![d][t] =
                    [version |-> copy.version + 1, deleted |-> FALSE,
                     content |-> Fresh]]
    /\ IF PendingCreate(d, t) # {}
         THEN /\ pending' = [pending EXCEPT ![d] =
                    [i \in DOMAIN @ |->
                        IF i \in PendingCreate(d, t)
                          THEN Mutation(@[i].id, t, "create", @[i].base, Fresh, @[i].on)
                          ELSE @[i]]]
              /\ UNCHANGED queued
         ELSE Enqueue(d, Mutation(Fresh, t, "update", copy.version, Fresh,
                                  copy.content))
    /\ latest' = [latest EXCEPT ![d][t] = Fresh]
    /\ ops' = ops + 1
    /\ UNCHANGED <<serverVars, conflicts, cursor, deleting, run, closed, raced,
                   bounds>>

\* softDeleteTransaction: the read.
ReadForDelete(d, t) ==
    /\ MayOperate
    /\ deleting[d] = NoDelete
    /\ local[d][t].version # 0 /\ ~local[d][t].deleted
    /\ deleting' = [deleting EXCEPT ![d] =
                        [tx |-> t, version |-> local[d][t].version, id |-> Fresh]]
    /\ ops' = ops + 1
    /\ UNCHANGED <<serverVars, local, pending, conflicts, cursor, run, history,
                   bounds>>

\* softDeleteTransaction: the write, with the version that was read.
Delete(d) ==
    LET t == deleting[d].tx
        version == deleting[d].version
        id == deleting[d].id
    IN  /\ deleting[d] # NoDelete
        /\ local' = [local EXCEPT ![d][t] =
                        [version |-> version + 1, deleted |-> TRUE,
                         content |-> local[d][t].content]]
        /\ Enqueue(d, Mutation(id, t, "delete", version, id,
                               local[d][t].content))
        /\ deleting' = [deleting EXCEPT ![d] = NoDelete]
        /\ latest' = [latest EXCEPT ![d][t] = id]
        /\ UNCHANGED <<serverVars, conflicts, cursor, run, closed, raced, ops,
                       bounds>>

RemoveAt(s, i) == SubSeq(s, 1, i - 1) \o SubSeq(s, i + 1, Len(s))

\* resolveConflict, keepLocal: the refused mutation is queued again on the
\* version that refused it.  A refused create becomes an update.
KeepLocal(d, i) ==
    LET c == conflicts[d][i] IN
    /\ keeps < MaxKeeps
    /\ Enqueue(d, Mutation(Fresh, c.tx,
                           IF c.op = "delete" THEN "delete" ELSE "update",
                           c.version, c.content, c.over))
    /\ conflicts' = [conflicts EXCEPT ![d] = RemoveAt(@, i)]
    /\ closed' = [closed EXCEPT ![d] = @ \cup {c.id}]
    /\ ops' = ops + 1
    /\ keeps' = keeps + 1
    /\ UNCHANGED <<serverVars, local, cursor, deleting, run, latest, raced,
                   aborts, errors>>

\* resolveConflict, acceptRemote
AcceptRemote(d, i) ==
    LET c == conflicts[d][i] IN
    /\ conflicts' = [conflicts EXCEPT ![d] = RemoveAt(@, i)]
    /\ closed' = [closed EXCEPT ![d] = @ \cup {c.id}]
    /\ latest' = [latest EXCEPT ![d][c.tx] = IF @ = c.content THEN 0 ELSE @]
    /\ UNCHANGED <<serverVars, local, pending, cursor, deleting, run, queued,
                   raced, ops, bounds>>

-----------------------------------------------------------------------------
(***************************************************************************)
(* The server, one mutation at a time.                                     *)
(***************************************************************************)

Conflicting(m) ==
    LET version == rows[m.tx].version IN
    /\ version # 0
    /\ m.op = "create" \/ m.base # version
    /\ m.op = "delete" => m.base # 0

\* process_mutation_pg, as SyncServer has it in detail.
Decide(m) ==
    LET row == rows[m.tx] IN
    IF m.op = "delete" /\ row.version = 0 THEN Receipt("NOT_FOUND", 0, 0)
    ELSE IF Conflicting(m)
      THEN Receipt("LEDGER_VERSION_CONFLICT", row.version, row.content)
    ELSE Receipt("OK", row.version + 1, m.content)

IsApplied(receipt) == receipt.code = "OK"

NewRow(m) ==
    LET row == rows[m.tx] IN
    [version |-> row.version + 1,
     deleted |-> row.deleted \/ m.op = "delete",
     content |-> IF m.op = "delete" THEN row.content ELSE m.content]

\* over is the content the change replaces, on the content its author saw
\* (both history).
NewChange(m) ==
    [tx |-> m.tx, op |-> m.op, version |-> rows[m.tx].version + 1,
     content |-> m.content, id |-> m.id, on |-> m.on,
     over |-> rows[m.tx].content]

\* The answer to the head of the batch joins the response.
Answered(s, receipt) ==
    Pushing(s.from, s.attempt, Tail(s.batch),
            Append(s.answers, [m |-> Head(s.batch), receipt |-> receipt]))

\* push handles the next mutation of the batch.
Serve(d, r) ==
    LET m == Head(run[d][r].batch)
        stored == receipts[m.id]
        receipt == IF stored = NoReceipt THEN Decide(m) ELSE stored
    IN  /\ run[d][r].pc = "push"
        /\ run[d][r].batch # <<>>
        /\ receipts' = [receipts EXCEPT ![m.id] = receipt]
        /\ IF stored = NoReceipt /\ receipt.code = "OK"
             THEN /\ rows' = [rows EXCEPT ![m.tx] = NewRow(m)]
                  /\ log' = Append(log, NewChange(m))
             ELSE UNCHANGED <<rows, log>>
        /\ run' = [run EXCEPT ![d][r] = Answered(run[d][r], receipt)]
        /\ UNCHANGED <<deviceVars, cursor, history, ops, bounds>>

\* The database fails; push stores the DB_ERROR receipt like any other.
ServeError(d, r) ==
    LET m == Head(run[d][r].batch)
        receipt == Receipt("DB_ERROR", 0, 0)
    IN  /\ run[d][r].pc = "push"
        /\ run[d][r].batch # <<>>
        /\ receipts[m.id] = NoReceipt
        /\ errors < MaxErrors
        /\ errors' = errors + 1
        /\ receipts' = [receipts EXCEPT ![m.id] = receipt]
        /\ run' = [run EXCEPT ![d][r] = Answered(run[d][r], receipt)]
        /\ UNCHANGED <<rows, log, deviceVars, cursor, history, ops, keeps, aborts>>

-----------------------------------------------------------------------------
(***************************************************************************)
(* A run of syncNow.                                                       *)
(***************************************************************************)

\* The sync state is read once, at the start.
Start(d, r) ==
    /\ run[d][r].pc = "off"
    /\ run' = [run EXCEPT ![d][r] = Listing(cursor[d], 0)]
    /\ UNCHANGED <<serverVars, deviceVars, cursor, history, ops, bounds>>

\* listPending: the queue is copied into the request, or there is nothing to
\* push.
List(d, r) ==
    /\ run[d][r].pc = "list"
    /\ LET s == run[d][r] IN
        run' = [run EXCEPT ![d][r] =
                   IF pending[d] = <<>> THEN Pulling(s.from)
                   ELSE Pushing(s.from, s.attempt, pending[d], <<>>)]
    /\ UNCHANGED <<serverVars, deviceVars, cursor, history, ops, bounds>>

\* The response arrives.
Respond(d, r) ==
    /\ run[d][r].pc = "push"
    /\ run[d][r].batch = <<>>
    /\ LET s == run[d][r] IN
        run' = [run EXCEPT ![d][r] =
                   Handling("receipts", s.from, s.attempt, s.answers)]
    /\ UNCHANGED <<serverVars, deviceVars, cursor, history, ops, bounds>>

\* The row with the mutation id, the primary key of pendingMutations, goes.
Drop(q, m) ==
    IF \E i \in DOMAIN q : q[i].id = m.id
      THEN RemoveAt(q, CHOOSE i \in DOMAIN q : q[i].id = m.id)
      ELSE q

\* The first answer is handled.
Handled(s) == Handling("receipts", s.from, s.attempt, Tail(s.answers))

\* It is a refusal, and the conflict is stored.
Refused(s) == Handling("refused", s.from, s.attempt, s.answers)

\* Mutant: an applied mutation stays in the queue.
KeepApplied(d, r) ==
    /\ run' = [run EXCEPT ![d][r] = Handled(run[d][r])]
    /\ UNCHANGED <<pending, conflicts>>

\* removePending
RemoveApplied(d, r) ==
    /\ pending' = [pending EXCEPT ![d] = Drop(@, Head(run[d][r].answers).m)]
    /\ run' = [run EXCEPT ![d][r] = Handled(run[d][r])]
    /\ UNCHANGED conflicts

\* Mutant: a refused mutation leaves the queue and no conflict is stored.
ForgetRefused(d, r) ==
    /\ pending' = [pending EXCEPT ![d] = Drop(@, Head(run[d][r].answers).m)]
    /\ run' = [run EXCEPT ![d][r] = Refused(run[d][r])]
    /\ UNCHANGED conflicts

\* addConflict; the mutation leaves the queue in a second transaction.
AddConflict(d, r) ==
    LET refusal == Head(run[d][r].answers) IN
    /\ conflicts' = [conflicts EXCEPT ![d] = Append(@,
            [id |-> refusal.m.id, tx |-> refusal.m.tx, op |-> refusal.m.op,
             content |-> refusal.m.content,
             version |-> refusal.receipt.version,
             over |-> refusal.receipt.content])]
    /\ run' = [run EXCEPT ![d][r] = Refused(run[d][r])]
    /\ UNCHANGED pending

\* The next receipt.  A code the device does not know how to handle ends the
\* run: the mutation stays in the queue, and so do those behind it.  (The
\* other codes addConflict takes are about payloads the device has validated
\* or about categories.)
HandleReceipt(d, r) ==
    LET receipt == Head(run[d][r].answers).receipt IN
    /\ run[d][r].pc = "receipts"
    /\ run[d][r].answers # <<>>
    /\ CASE IsApplied(receipt) -> RemoveApplied(d, r)
         [] receipt.code = "LEDGER_VERSION_CONFLICT" -> AddConflict(d, r)
         [] OTHER -> /\ run' = [run EXCEPT ![d][r] = Off]
                     /\ UNCHANGED <<pending, conflicts>>
    /\ UNCHANGED <<serverVars, local, cursor, deleting, history, ops, bounds>>

RemoveRefused(d, r) ==
    /\ run[d][r].pc = "refused"
    /\ pending' = [pending EXCEPT ![d] = Drop(@, Head(run[d][r].answers).m)]
    /\ run' = [run EXCEPT ![d][r] = Handled(run[d][r])]
    /\ UNCHANGED <<serverVars, local, conflicts, cursor, deleting, history, ops, bounds>>

\* All receipts are handled: pull, push what was queued meanwhile, or give up
\* after the second attempt.
AfterReceipts(d, r) ==
    /\ run[d][r].pc = "receipts"
    /\ run[d][r].answers = <<>>
    /\ LET s == run[d][r] IN
        run' = [run EXCEPT ![d][r] =
                   IF pending[d] = <<>> THEN Pulling(s.from)
                   ELSE IF s.attempt = 0 THEN Listing(s.from, 1)
                   ELSE Off]
    /\ UNCHANGED <<serverVars, deviceVars, cursor, history, ops, bounds>>

\* Mutant: the cursor counts a full page.
FullPage(from, page) == from + Limit

\* nextCursor of the page: its last sequence, or the cursor if it is empty.
NextCursor(from, page) == from + Len(page)

Page(from) ==
    SubSeq(log, from + 1, IF from + Limit < Len(log) THEN from + Limit ELSE Len(log))

\* pull, from the cursor read at the start.
Pull(d, r) ==
    LET from == run[d][r].from IN
    /\ run[d][r].pc = "pull"
    /\ run' = [run EXCEPT ![d][r] =
                   Applying(from, Page(from), NextCursor(from, Page(from)))]
    /\ UNCHANGED <<serverVars, deviceVars, cursor, history, ops, bounds>>

\* Mutant: a deletion is not applied to a copy the device has edited.
KeepEdited(copy, e) ==
    CASE e.op = "delete" /\ copy.version >= e.version -> copy
      [] e.op = "delete" /\ copy.version < e.version ->
            [version |-> e.version, deleted |-> TRUE, content |-> copy.content]
      [] OTHER -> [version |-> e.version, deleted |-> FALSE, content |-> e.content]

\* applyRemoteUpsert and applyRemoteDelete: what the server has replaces the
\* copy, whatever its version; a deletion of an unknown row does nothing.
Applied(copy, e) ==
    CASE e.op = "delete" /\ copy.version = 0 -> copy
      [] e.op = "delete" /\ copy.version # 0 ->
            [version |-> e.version, deleted |-> TRUE, content |-> copy.content]
      [] OTHER -> [version |-> e.version, deleted |-> FALSE, content |-> e.content]

ApplyChange(d, r) ==
    LET e == Head(run[d][r].page) IN
    /\ run[d][r].pc = "apply"
    /\ run[d][r].page # <<>>
    /\ local' = [local EXCEPT ![d][e.tx] = Applied(local[d][e.tx], e)]
    /\ run' = [run EXCEPT ![d][r] =
                   Applying(run[d][r].from, Tail(run[d][r].page), run[d][r].next)]
    /\ raced' = IF deleting[d].tx = e.tx THEN raced \cup {d} ELSE raced
    /\ UNCHANGED <<serverVars, pending, conflicts, cursor, deleting, queued,
                   closed, latest, ops, bounds>>

SavedCursor(d, r) == run[d][r].next

\* updateSyncState, and the run ends.
Finish(d, r) ==
    /\ run[d][r].pc = "apply"
    /\ run[d][r].page = <<>>
    /\ cursor' = [cursor EXCEPT ![d] = SavedCursor(d, r)]
    /\ run' = [run EXCEPT ![d][r] = Off]
    /\ UNCHANGED <<serverVars, deviceVars, history, ops, bounds>>

\* The request or its response is lost, or the application is killed.
Abort(d, r) ==
    /\ run[d][r].pc # "off"
    /\ aborts < MaxAborts
    /\ aborts' = aborts + 1
    /\ run' = [run EXCEPT ![d][r] = Off]
    /\ UNCHANGED <<serverVars, deviceVars, cursor, history, ops, keeps, errors>>

-----------------------------------------------------------------------------
User(d) ==
    \/ \E t \in TxIds : Create(d, t) \/ Edit(d, t) \/ ReadForDelete(d, t)
    \/ Delete(d)
    \/ \E i \in DOMAIN conflicts[d] : KeepLocal(d, i) \/ AcceptRemote(d, i)

\* The steps a run takes without the user.
Sync(d, r) ==
    \/ Start(d, r) \/ List(d, r) \/ Serve(d, r) \/ Respond(d, r)
    \/ HandleReceipt(d, r) \/ RemoveRefused(d, r) \/ AfterReceipts(d, r)
    \/ Pull(d, r) \/ ApplyChange(d, r) \/ Finish(d, r)

Next ==
    \E d \in Devices :
        \/ User(d)
        \/ \E r \in Runs : Sync(d, r) \/ ServeError(d, r) \/ Abort(d, r)

Spec == Init /\ [][Next]_vars

\* Each device keeps synchronising: the user starts a run again after one has
\* ended, a run under way proceeds, and a delete is carried through.
FairSpec ==
    /\ Spec
    /\ \A d \in Devices : WF_vars(Delete(d))
    /\ \A d \in Devices : \A r \in Runs : WF_vars(Sync(d, r))

-----------------------------------------------------------------------------
Mutations ==
    [id : Ids, tx : TxIds, op : {"create", "update", "delete"}, base : Nat,
     content : Ids, on : Nat]

Receipts ==
    [code : {"NONE", "OK", "NOT_FOUND", "LEDGER_VERSION_CONFLICT", "DB_ERROR"},
     version : Nat, content : Nat]

Answers == [m : Mutations, receipt : Receipts]

LogEntries ==
    [tx : TxIds, op : {"create", "update", "delete"}, version : Nat,
     content : Ids, id : Ids, on : Nat, over : Nat]

Conflicts ==
    [id : Ids, tx : TxIds, op : {"create", "update", "delete"}, content : Ids,
     version : Nat, over : Nat]

Copies(n) == [version : 0 .. n, deleted : BOOLEAN, content : {0} \cup Ids]

RunStates ==
    [pc : {"off", "list", "push", "receipts", "refused", "pull", "apply"},
     from : Nat, attempt : {0, 1}, batch : Seq(Mutations), answers : Seq(Answers),
     page : Seq(LogEntries), next : Nat]

\* The queues hold mutations, every cursor stays within the log, and no copy
\* has a version that the operations of the users cannot explain.
TypeOK ==
    /\ rows \in [TxIds -> Copies(Len(log))]
    /\ log \in Seq(LogEntries)
    /\ receipts \in [Ids -> Receipts]
    /\ local \in [Devices -> [TxIds -> Copies(ops + 1)]]
    /\ pending \in [Devices -> Seq(Mutations)]
    /\ conflicts \in [Devices -> Seq(Conflicts)]
    /\ cursor \in [Devices -> 0 .. Len(log)]
    /\ deleting \in [Devices -> {NoDelete} \cup
                        [tx : TxIds, version : 0 .. ops, id : Ids]]
    /\ run \in [Devices -> [Runs -> RunStates]]
    /\ \A d \in Devices : \A r \in Runs :
          /\ run[d][r].from \in 0 .. Len(log)
          /\ run[d][r].next \in 0 .. Len(log)
    /\ queued \in [Devices -> SUBSET (1 .. ops)]
    /\ closed \in [Devices -> SUBSET (1 .. ops)]
    /\ latest \in [Devices -> [TxIds -> 0 .. ops]]
    /\ raced \subseteq Devices
    /\ ops \in 0 .. MaxOps + MaxKeeps
    /\ keeps \in 0 .. MaxKeeps
    /\ aborts \in 0 .. MaxAborts
    /\ errors \in 0 .. MaxErrors

Waiting(d) == {pending[d][i].id : i \in DOMAIN pending[d]}
Disputed(d) == {conflicts[d][i].id : i \in DOMAIN conflicts[d]}

\* SyncService does not lose a pending mutation: until it is applied it is in
\* the queue, or in a conflict the user can still resolve, whatever requests
\* are lost and wherever the application is killed.
PendingKept ==
    \A d \in Devices :
        \A i \in queued[d] \ (Waiting(d) \cup Disputed(d) \cup closed[d]) :
            IsApplied(receipts[i])

CaughtUp(d) ==
    /\ \A r \in Runs : run[d][r] = Off
    /\ deleting[d] = NoDelete
    /\ pending[d] = <<>>
    /\ cursor[d] = Len(log)

Changes(t) == {i \in DOMAIN log : log[i].tx = t}
LastChange(t) == log[CHOOSE i \in Changes(t) : \A j \in Changes(t) : j <= i]

Shows(copy, e) ==
    IF e.op = "delete" THEN copy.deleted \/ copy.version = 0
    ELSE copy = [version |-> e.version, deleted |-> FALSE, content |-> e.content]

UpToDate(d) ==
    \A t \in TxIds : Changes(t) # {} => Shows(local[d][t], LastChange(t))

\* A device with an empty queue and a cursor at the end of the log shows what
\* the log says, so any two such devices show the same.  The exception is a
\* device where a pulled change fell between the read and the write of
\* softDeleteTransaction: it keeps the row deleted after the server refused.
Converged ==
    \A d \in Devices \ raced : CaughtUp(d) => UpToDate(d)

Synced(d) == pending[d] = <<>> /\ UpToDate(d)

\* Once the users stop, every queue drains and every device shows what the
\* log says, although requests are lost and runs of syncNow are cut off, as
\* long as the server met no database error.
SyncedUnlessError ==
    <>[](errors > 0 \/ \A d \in Devices \ raced : Synced(d))

-----------------------------------------------------------------------------
(***************************************************************************)
(* What the documents say and the code does not keep.                      *)
(***************************************************************************)

\* No silent loss: the latest thing a user did to a transaction is in the
\* log, in the queue or in a conflict.
NoSilentLoss ==
    \A d \in Devices : \A t \in TxIds :
        latest[d][t] # 0 =>
            \/ \E i \in DOMAIN log : log[i].content = latest[d][t]
            \/ \E i \in DOMAIN pending[d] : pending[d][i].content = latest[d][t]
            \/ \E i \in DOMAIN conflicts[d] : conflicts[d][i].content = latest[d][t]

\* An edit replaces the content its author saw; otherwise it is a conflict.
NoSilentOverwrite ==
    \A i \in DOMAIN log : log[i].op = "update" => log[i].on = log[i].over

\* A database error is transient: the queue drains all the same once it is over.
EventuallySynced == <>[](\A d \in Devices \ raced : Synced(d))
=============================================================================
