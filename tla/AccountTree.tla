----------------------------- MODULE AccountTree ----------------------------
(***************************************************************************)
(* Account mutations of one book in the PostgreSQL path of sync push       *)
(* (process_account_mutation_pg): the two-level category tree under        *)
(* concurrent creates and moves.                                           *)
(*                                                                         *)
(* Each request takes three advisory locks in a fixed order (its mutation, *)
(* the hierarchy of the book, the entity), checks the parent it wants      *)
(* against the committed rows, and commits.  The hierarchy lock makes the  *)
(* entity lock redundant, so only the first two are kept.  Names and       *)
(* currencies do not matter to the tree and are left out.  Updates are     *)
(* last-writer-wins: the base version is ignored.                          *)
(***************************************************************************)
EXTENDS Integers, FiniteSets

CONSTANTS
    Handlers,    \* requests the server runs at the same time
    AccountIds,  \* account ids with the prefix of the book
    Root,        \* an explicit null parent: a first-level category
    Keep,        \* no parent field: an update keeps what is stored
    Defaults,    \* the accounts of a fresh book: id -> [type, parent]
    MutationIds,
    Mutations,   \* the body sent under each mutation id
    MaxPushes,   \* bound: requests
    MaxFaults    \* bound: failures

Types == {"asset", "liability", "income", "expense", "equity"}

Bodies ==
    [id : AccountIds, op : {"create", "update"}, type : Types,
     parent : AccountIds \cup {Root, Keep},
     parse : {"OK", "INVALID_PAYLOAD", "UNSUPPORTED_MUTATION"}]

\* A default is a root or the child of a default root of its own type.
ASSUME AccountTreeAssumption ==
    /\ Root \notin AccountIds
    /\ Keep \notin AccountIds
    /\ Root # Keep
    /\ DOMAIN Defaults \subseteq AccountIds
    /\ \A a \in DOMAIN Defaults :
          /\ Defaults[a].type \in Types
          /\ \/ Defaults[a].parent = Root
             \/ /\ Defaults[a].parent \in DOMAIN Defaults
                /\ Defaults[a].type \in {"income", "expense"}
                /\ Defaults[Defaults[a].parent].type = Defaults[a].type
                /\ Defaults[Defaults[a].parent].parent = Root
    /\ MutationIds # {}
    /\ Mutations \in [MutationIds -> Bodies]
    /\ MaxPushes \in Nat
    /\ MaxFaults \in Nat

\* A row of accounts; version 0 stands for "no such row".
Accounts == [version : Nat, type : Types, parent : AccountIds \cup {Root}]
NoAccount == [version |-> 0, type |-> "asset", parent |-> Root]

\* A row of sync_changes for an account: its canonical payload.
Changes == [seq : Nat, id : AccountIds, version : Nat, type : Types,
            parent : AccountIds \cup {Root}]

Codes == {"OK", "INVALID_PAYLOAD", "UNSUPPORTED_MUTATION", "DB_ERROR",
          "LEDGER_VERSION_CONFLICT", "INVALID_CATEGORY_PARENT",
          "ACCOUNT_NOT_FOUND"}
NoReceipt == "NONE"

VARIABLES
    rows,      \* accounts                                 (committed)
    log,       \* the account changes of sync_changes      (committed)
    lastSeq,   \* the last sequence drawn
    receipts,  \* sync_mutations: the result code          (committed)
    pc,        \* where each request is
    cur,       \* the mutation it handles
    plan,      \* what its transaction decided: code, type and parent
    reply,     \* the code process_account_mutation_pg returned
    pushes, faults

vars == <<rows, log, lastSeq, receipts, pc, cur, plan, reply, pushes, faults>>

Plans == [code : Codes, type : Types, parent : AccountIds \cup {Root}]
NoPlan(code) == [code |-> code, type |-> "asset", parent |-> Root]

\* The book has its defaults; their changes are older than the log kept here.
Init ==
    /\ rows = [a \in AccountIds |->
                  IF a \in DOMAIN Defaults
                    THEN [version |-> 1, type |-> Defaults[a].type,
                          parent |-> Defaults[a].parent]
                    ELSE NoAccount]
    /\ log = {}
    /\ lastSeq = 0
    /\ receipts = [m \in MutationIds |-> NoReceipt]
    /\ pc = [h \in Handlers |-> "idle"]
    /\ cur = [h \in Handlers |-> CHOOSE m \in MutationIds : TRUE]
    /\ plan = [h \in Handlers |-> NoPlan("OK")]
    /\ reply = [h \in Handlers |-> NoReceipt]
    /\ pushes = 0
    /\ faults = 0

-----------------------------------------------------------------------------
Body(h) == Mutations[cur[h]]

Exists(a) == rows[a].version # 0

\* Mutant: children of the account that moves are not looked for.
ParentAllowed(id, type, parent) ==
    \/ parent = Root
    \/ /\ type \in {"income", "expense"}
       /\ parent # id
       /\ Exists(parent)
       /\ rows[parent].type = type
       /\ rows[parent].parent = Root

\* valid_account_parent_pg: a second-level category hangs under an existing
\* first-level one of its own type and has no children itself.
ValidParent(id, type, parent) ==
    \/ parent = Root
    \/ /\ type \in {"income", "expense"}
       /\ parent # id
       /\ Exists(parent)
       /\ rows[parent].type = type
       /\ rows[parent].parent = Root
       /\ \A c \in AccountIds : Exists(c) => rows[c].parent # id

\* A create without a parent field makes a root; an update keeps the type it
\* finds, and the parent unless one is given.
WantedParent(b) ==
    IF b.parent # Keep THEN b.parent
    ELSE IF b.op = "create" THEN Root ELSE rows[b.id].parent

WantedType(b) == IF b.op = "create" THEN b.type ELSE rows[b.id].type

Decide(b) ==
    CASE b.op = "create" /\ Exists(b.id) -> NoPlan("LEDGER_VERSION_CONFLICT")
      [] b.op = "update" /\ ~Exists(b.id) -> NoPlan("ACCOUNT_NOT_FOUND")
      [] /\ (b.op = "create" <=> ~Exists(b.id))
         /\ ~ValidParent(b.id, WantedType(b), WantedParent(b)) ->
            NoPlan("INVALID_CATEGORY_PARENT")
      [] OTHER -> [code |-> "OK", type |-> WantedType(b),
                   parent |-> WantedParent(b)]

-----------------------------------------------------------------------------
\* The push loop reaches an account mutation that has no receipt yet.
Receive(h, m) ==
    /\ pc[h] = "idle"
    /\ pushes < MaxPushes
    /\ receipts[m] = NoReceipt
    /\ cur' = [cur EXCEPT ![h] = m]
    /\ pc' = [pc EXCEPT ![h] = "begin"]
    /\ pushes' = pushes + 1
    /\ UNCHANGED <<rows, log, lastSeq, receipts, plan, reply, faults>>

\* The mutation lock lets one attempt at a mutation in; the next one finds
\* its receipt.
HoldsMutation == {"parse", "tree", "check", "commit"}

LockMutation(h) ==
    /\ pc[h] = "begin"
    /\ \A g \in Handlers \ {h} : pc[g] \in HoldsMutation => cur[g] # cur[h]
    /\ IF receipts[cur[h]] # NoReceipt
         THEN /\ reply' = [reply EXCEPT ![h] = receipts[cur[h]]]
              /\ pc' = [pc EXCEPT ![h] = "record"]
         ELSE /\ pc' = [pc EXCEPT ![h] = "parse"]
              /\ UNCHANGED reply
    /\ UNCHANGED <<rows, log, lastSeq, receipts, cur, plan, pushes, faults>>

\* Mutant: the clash reaches the device as a raw SQLSTATE.
AnswerRaw(h, code) ==
    /\ reply' = [reply EXCEPT ![h] =
                    IF receipts[cur[h]] = NoReceipt THEN code ELSE "23505"]
    /\ receipts' = [receipts EXCEPT ![cur[h]] =
                    IF @ = NoReceipt THEN code ELSE @]
    /\ pc' = [pc EXCEPT ![h] = "record"]

\* Inserting a receipt that someone stored meanwhile is a unique violation,
\* which becomes DB_ERROR.
Answer(h, code) ==
    /\ reply' = [reply EXCEPT ![h] =
                    IF receipts[cur[h]] = NoReceipt THEN code ELSE "DB_ERROR"]
    /\ receipts' = [receipts EXCEPT ![cur[h]] =
                    IF @ = NoReceipt THEN code ELSE @]
    /\ pc' = [pc EXCEPT ![h] = "record"]

\* A bad payload is answered before the hierarchy is locked.
ParsePayload(h) ==
    /\ pc[h] = "parse"
    /\ IF Body(h).parse # "OK"
         THEN Answer(h, Body(h).parse)
         ELSE pc' = [pc EXCEPT ![h] = "tree"] /\ UNCHANGED <<receipts, reply>>
    /\ UNCHANGED <<rows, log, lastSeq, cur, plan, pushes, faults>>

\* Mutant: no lock on the hierarchy.
NoTreeLock(h) == TRUE

\* The hierarchy lock of the book.
TreeFree(h) == \A g \in Handlers \ {h} : pc[g] \notin {"check", "commit"}

LockTree(h) ==
    /\ pc[h] = "tree"
    /\ TreeFree(h)
    /\ pc' = [pc EXCEPT ![h] = "check"]
    /\ UNCHANGED <<rows, log, lastSeq, receipts, cur, plan, reply, pushes,
                   faults>>

\* The SELECTs: the account, the parent, the children.
Check(h) ==
    /\ pc[h] = "check"
    /\ plan' = [plan EXCEPT ![h] = Decide(Body(h))]
    /\ pc' = [pc EXCEPT ![h] = "commit"]
    /\ UNCHANGED <<rows, log, lastSeq, receipts, cur, reply, pushes, faults>>

\* Mutant: a move reaches the row but the change carries the old parent.
ChangeWithOldParent(a, p) ==
    [seq |-> lastSeq + 1, id |-> a, version |-> rows[a].version + 1,
     type |-> p.type, parent |-> IF Exists(a) THEN rows[a].parent ELSE p.parent]

NewChange(a, p) ==
    [seq |-> lastSeq + 1, id |-> a, version |-> rows[a].version + 1,
     type |-> p.type, parent |-> p.parent]

\* INSERT or UPDATE, change, receipt, COMMIT.  A receipt clash rolls back,
\* and the sequence drawn before it is lost.
CommitAs(h, code) ==
    LET a == Body(h).id
        p == plan[h]
    IN  IF p.code = "OK" /\ receipts[cur[h]] = NoReceipt
          THEN /\ rows' = [rows EXCEPT ![a] =
                    [version |-> @.version + 1, type |-> p.type,
                     parent |-> p.parent]]
               /\ log' = log \cup {NewChange(a, p)}
               /\ lastSeq' = lastSeq + 1
               /\ receipts' = [receipts EXCEPT ![cur[h]] = "OK"]
               /\ reply' = [reply EXCEPT ![h] = code]
               /\ pc' = [pc EXCEPT ![h] = "record"]
          ELSE /\ Answer(h, p.code)
               /\ lastSeq' = IF p.code = "OK" THEN lastSeq + 1 ELSE lastSeq
               /\ UNCHANGED <<rows, log>>

Commit(h) ==
    /\ pc[h] = "commit"
    /\ CommitAs(h, "OK")
    /\ UNCHANGED <<cur, plan, pushes, faults>>

\* The commit takes effect and its acknowledgement is lost.
CommitUnacknowledged(h) ==
    /\ pc[h] = "commit"
    /\ plan[h].code = "OK" /\ receipts[cur[h]] = NoReceipt
    /\ faults < MaxFaults
    /\ CommitAs(h, "DB_ERROR")
    /\ faults' = faults + 1
    /\ UNCHANGED <<cur, plan, pushes>>

\* A statement fails; the transaction rolls back and its locks are released.
TxError(h) ==
    /\ pc[h] \in {"begin"} \cup HoldsMutation
    /\ faults < MaxFaults
    /\ reply' = [reply EXCEPT ![h] = "DB_ERROR"]
    /\ pc' = [pc EXCEPT ![h] = "record"]
    /\ faults' = faults + 1
    /\ UNCHANGED <<rows, log, lastSeq, receipts, cur, plan, pushes>>

\* push stores the receipt again, ON CONFLICT DO NOTHING.
Record(h) ==
    /\ pc[h] = "record"
    /\ receipts' = [receipts EXCEPT ![cur[h]] =
                        IF @ = NoReceipt THEN reply[h] ELSE @]
    /\ pc' = [pc EXCEPT ![h] = "idle"]
    /\ UNCHANGED <<rows, log, lastSeq, cur, plan, reply, pushes, faults>>

\* The request is dropped; an open transaction rolls back.
Fail(h) ==
    /\ pc[h] # "idle"
    /\ faults < MaxFaults
    /\ pc' = [pc EXCEPT ![h] = "idle"]
    /\ faults' = faults + 1
    /\ UNCHANGED <<rows, log, lastSeq, receipts, cur, plan, reply, pushes>>

Next ==
    \E h \in Handlers :
        \/ \E m \in MutationIds : Receive(h, m)
        \/ LockMutation(h) \/ ParsePayload(h) \/ LockTree(h) \/ Check(h)
        \/ Commit(h) \/ CommitUnacknowledged(h) \/ TxError(h) \/ Record(h)
        \/ Fail(h)

Spec == Init /\ [][Next]_vars

-----------------------------------------------------------------------------
\* Every variable has its type.
TypeOK ==
    /\ rows \in [AccountIds -> Accounts]
    /\ log \subseteq Changes
    /\ lastSeq \in Nat
    /\ receipts \in [MutationIds -> Codes \cup {NoReceipt}]
    /\ pc \in [Handlers -> {"idle", "begin", "record"} \cup HoldsMutation]
    /\ cur \in [Handlers -> MutationIds]
    /\ plan \in [Handlers -> Plans]
    /\ reply \in [Handlers -> Codes \cup {NoReceipt}]
    /\ pushes \in Nat
    /\ faults \in Nat

\* The hierarchy invariants of the data model: a parent is an existing
\* first-level category of the same type, and only income and expense
\* categories have one.  So there is no cycle and no third level, however
\* creates and moves interleave.
TwoLevel ==
    \A a \in AccountIds :
        LET p == rows[a].parent IN
        (Exists(a) /\ p # Root) =>
            /\ rows[a].type \in {"income", "expense"}
            /\ Exists(p)
            /\ rows[p].type = rows[a].type
            /\ rows[p].parent = Root

\* The parent of an account as a device knows it that has replayed the log
\* up to sequence k.
History(a, k) == {e \in log : e.id = a /\ e.seq <= k}
Latest(S) == CHOOSE e \in S : \A f \in S : f.seq <= e.seq
KnownAt(a, k) == a \in DOMAIN Defaults \/ History(a, k) # {}
ParentAt(a, k) ==
    IF History(a, k) = {} THEN Defaults[a].parent
    ELSE Latest(History(a, k)).parent

\* A device that replays the log shows a two-level tree at every cursor, and
\* never meets a child before its parent.
ReplayIsTwoLevel ==
    \A k \in 0 .. lastSeq : \A a \in AccountIds :
        (KnownAt(a, k) /\ ParentAt(a, k) # Root) =>
            /\ KnownAt(ParentAt(a, k), k)
            /\ ParentAt(ParentAt(a, k), k) = Root

\* At the end of the log it shows the tree the server stores.
ReplayReachesRows ==
    \A a \in AccountIds :
        Exists(a) => KnownAt(a, lastSeq) /\ ParentAt(a, lastSeq) = rows[a].parent

\* An account is classified once: no step changes the type of an existing
\* account, and accounts are never removed.
ClassificationFixed ==
    [][\A a \in AccountIds :
          Exists(a) => rows'[a].type = rows[a].type /\ rows'[a].version # 0]_vars
=============================================================================
