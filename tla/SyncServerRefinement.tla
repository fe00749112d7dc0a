------------------------ MODULE SyncServerRefinement ------------------------
(***************************************************************************)
(* Push on PostgreSQL implements Book, and the answers of a server that    *)
(* meets no fault are true, for every set of requests, rows and mutations. *)
(*                                                                         *)
(* A mutation takes effect in Book when its receipt becomes visible: at a  *)
(* commit, or when push stores the receipt of an attempt that was rolled   *)
(* back.  What was decided in between must then still be allowed.  The     *)
(* entity lock keeps a refusal that depends on the row (PlanJustified); a  *)
(* receipt stored after the lock was given up may only be one that nothing *)
(* can make wrong (Standing): the database failed, the payload does not    *)
(* parse, or the payment is in the log, which only grows.                  *)
(***************************************************************************)
EXTENDS SyncServerProofs

\* The answer AUTO_LEDGER_DEDUPED to a mutation whose payment is in the log.
Dedupes(m, receipt) ==
    /\ B!Parsed(Mutations[m])
    /\ Mutations[m].op # "delete"
    /\ is_auto_ledger_fingerprint(Mutations[m])
    /\ receipt.code = "AUTO_LEDGER_DEDUPED"
    /\ \E e \in log :
          /\ e.tx # Mutations[m].tx /\ e.version = 1
          /\ Mutations[e.by].fp \in Payments(Mutations[m])
          /\ receipt.version \in 1 .. rows[e.tx].version

\* A refusal that stays true whatever commits.
Standing(m, receipt) ==
    \/ receipt = Rejected("DB_ERROR", 0)
    \/ ~B!Parsed(Mutations[m]) /\ receipt = Rejected(Mutations[m].parse, 0)
    \/ Dedupes(m, receipt)

AccountsKept == InitAccounts \subseteq accounts

\* A row owes its fingerprint to the change that inserted it.
RowsFromLog ==
    /\ \A t \in TxIds :
          IF rows[t].version = 0
          THEN rows[t] = NoRow
          ELSE \E e \in log : /\ e.tx = t /\ e.version = 1
                              /\ Mutations[e.by].fp = rows[t].fp
    /\ \A e \in log : e.tx = Mutations[e.by].tx

\* What the transaction of a request has decided is allowed when it commits.
PlanJustified(h) ==
    \/ /\ plan[h].code = "OK"
       /\ B!BaseFits(Body(h))
       /\ Body(h).op # "delete" => Body(h).account \in accounts
    \/ plan[h] \in B!Reasons(Body(h))
    \/ Dedupes(Current(h), plan[h])

Justified(h) ==
    /\ pc[h] \in {"begin"} \cup Locking => B!Parsed(Body(h))
    /\ pc[h] \in {"write", "commit"} => PlanJustified(h)
    /\ (pc[h] = "record" /\ receipts[Current(h)] = NoReceipt) =>
          Standing(Current(h), reply[h])

RefInv == AccountsKept /\ RowsFromLog /\ \A h \in Handlers : Justified(h)

-----------------------------------------------------------------------------
(***************************************************************************)
(* What a step of somebody else leaves a request.                          *)
(***************************************************************************)

\* The local state of a request.
Same(g) ==
    /\ pc'[g] = pc[g] /\ todo'[g] = todo[g]
    /\ plan'[g] = plan[g] /\ reply'[g] = reply[g] /\ out'[g] = out[g]

\* The steps of one request.
RequestStep(h) ==
    \/ \E batch \in Batches : Receive(h, batch)
    \/ Step(h) \/ CommitUnacknowledged(h) \/ TxError(h) \/ Fail(h)

\* A request changes no other request's locals.
LEMMA OthersSame ==
    ASSUME TypeOK, NEW h \in Handlers, RequestStep(h)
    PROVE  \A g \in Handlers \ {h} : Same(g)
<1>. USE DEF TypeOK, Same
<1>1. ASSUME NEW batch \in Batches, Receive(h, batch)
      PROVE  \A g \in Handlers \ {h} : Same(g)
  BY <1>1 DEF Receive
<1>2. CASE Replay(h) \/ RejectPayload(h) \/ StartTx(h) \/ Respond(h)
  BY <1>2 DEF Replay, RejectPayload, StartTx, Respond
<1>3. CASE LockEntity(h) \/ Read(h)
  BY <1>3 DEF LockEntity, Read
<1>4. CASE Write(h)
  <2>1. /\ UNCHANGED <<todo, plan, out>>
        /\ \/ pc' = [pc EXCEPT ![h] = "commit"] /\ reply' = reply
           \/ /\ pc' = [pc EXCEPT ![h] = "record"]
              /\ \E r : reply' = [reply EXCEPT ![h] = r]
    BY <1>4 DEF Write
  <2>. QED
    BY <2>1
<1>5. CASE Commit(h) \/ CommitUnacknowledged(h) \/ TxError(h)
  BY <1>5 DEF Commit, CommitUnacknowledged, TxError
<1>6. CASE Record(h) \/ Fail(h)
  BY <1>6 DEF Record, Fail
<1>. QED
  BY <1>1, <1>2, <1>3, <1>4, <1>5, <1>6 DEF RequestStep, Step

\* Only a commit writes rows and changes, and it does so under the lock of the
\* entity.
LEMMA CommitsAlone ==
    ASSUME NEW h \in Handlers, RequestStep(h)
    PROVE  /\ accounts' = accounts
           /\ \/ rows' = rows /\ log' = log
              \/ /\ pc[h] = "commit" /\ plan[h].code = "OK"
                 /\ Commit(h) \/ CommitUnacknowledged(h)
                 /\ rows' = [rows EXCEPT ![Body(h).tx] = NewRow(Current(h))]
                 /\ log' = log \cup {NewChange(Current(h), sq[h])}
<1>1. CASE Commit(h) \/ CommitUnacknowledged(h)
  BY <1>1 DEF Commit, CommitUnacknowledged, CommitEffect, Body
<1>2. CASE ~(Commit(h) \/ CommitUnacknowledged(h))
  BY <1>2 DEF RequestStep, Step, Receive, Replay, RejectPayload, StartTx,
              LockEntity, Read, Write, Record, Respond, TxError, Fail, dbVars
<1>. QED
  BY <1>1, <1>2

\* The book only grows, a row keeps its fingerprint, and the row of a request that holds its lock and is
\* not the one to move does not change.
LEMMA Growth ==
    ASSUME Inv, [Next]_vars
    PROVE  /\ log \subseteq log'
           /\ \A t \in TxIds : rows[t].version <= rows'[t].version
           /\ \A t \in TxIds :
                 rows[t].version # 0 => rows'[t].fp = rows[t].fp
           /\ accounts \subseteq accounts'
           /\ \A g \in Handlers :
                 (pc[g] \in Locking /\ pc'[g] = pc[g]) =>
                     rows'[Body(g).tx] = rows[Body(g).tx]
<1>1. TypeOK /\ \A t \in TxIds : rows[t].version \in Nat
  BY DEF Inv, TypeOK, Rows
<1>2. CASE rows' = rows /\ log' = log /\ accounts \subseteq accounts'
  BY <1>1, <1>2
<1>3. ASSUME NEW h \in Handlers, RequestStep(h), ~(rows' = rows /\ log' = log)
      PROVE  /\ log \subseteq log'
             /\ \A t \in TxIds : rows[t].version <= rows'[t].version
             /\ \A t \in TxIds :
                   rows[t].version # 0 => rows'[t].fp = rows[t].fp
             /\ accounts \subseteq accounts'
             /\ \A g \in Handlers :
                   (pc[g] \in Locking /\ pc'[g] = pc[g]) =>
                       rows'[Body(g).tx] = rows[Body(g).tx]
  <2>1. /\ pc[h] = "commit" /\ accounts' = accounts
        /\ Commit(h) \/ CommitUnacknowledged(h)
        /\ rows' = [rows EXCEPT ![Body(h).tx] = NewRow(Current(h))]
        /\ log' = log \cup {NewChange(Current(h), sq[h])}
    BY <1>3, CommitsAlone
  <2>2. todo[h] # <<>>
    BY <1>1, <2>1 DEF TypeOK
  <2>3. Body(h).tx \in TxIds
    BY <1>1, <2>2, CurrentType DEF Bodies
  <2>4. /\ NewRow(Current(h)).version = rows[Body(h).tx].version + 1
        /\ rows[Body(h).tx].version # 0 =>
              NewRow(Current(h)).fp = rows[Body(h).tx].fp
    BY DEF NewRow, Body
  <2>5. \A t \in TxIds : /\ rows[t].version <= rows'[t].version
                         /\ rows[t].version # 0 => rows'[t].fp = rows[t].fp
    BY <1>1, <2>1, <2>3, <2>4 DEF TypeOK
  <2>6. ASSUME NEW g \in Handlers, pc[g] \in Locking, pc'[g] = pc[g]
        PROVE  rows'[Body(g).tx] = rows[Body(g).tx]
    <3>1. pc'[h] # pc[h]
      BY <1>1, <2>1 DEF Commit, CommitUnacknowledged, TypeOK
    <3>2. Body(g).tx # Body(h).tx
      BY <2>1, <2>6, <3>1 DEF Inv, LockExclusive, Locking
    <3>3. todo[g] # <<>>
      BY <1>1, <2>6 DEF TypeOK, Locking
    <3>4. Body(g).tx \in TxIds
      BY <1>1, <3>3, CurrentType DEF Bodies
    <3>. QED
      BY <1>1, <2>1, <3>2, <3>4 DEF TypeOK
  <2>. QED
    BY <2>1, <2>5, <2>6
<1>4. ASSUME NEW h \in Handlers, RequestStep(h), rows' = rows, log' = log
      PROVE  accounts \subseteq accounts'
  BY <1>4, CommitsAlone
<1>5. CASE \/ \E a \in AccountIds : AddAccount(a)
           \/ \E d \in Readers : Pull(d)
           \/ UNCHANGED vars
  BY <1>2, <1>5 DEF AddAccount, Pull, vars, dbVars
<1>6. \/ \E h \in Handlers : RequestStep(h)
      \/ \E a \in AccountIds : AddAccount(a)
      \/ \E d \in Readers : Pull(d)
      \/ UNCHANGED vars
  BY DEF Next, RequestStep, Step
<1>. QED
  BY <1>2, <1>3, <1>4, <1>5, <1>6

\* The payments a mutation can be a duplicate of do not go away.
LEMMA PaymentsKept ==
    ASSUME Inv, RowsFromLog, [Next]_vars, NEW b \in Bodies
    PROVE  Payments(b) \subseteq Payments(b)'
<1>1. b.tx \in TxIds
  BY DEF Bodies
<1>2. CASE rows[b.tx].version = 0
  BY <1>1, <1>2 DEF RowsFromLog, NoRow, Payments
<1>3. CASE rows[b.tx].version # 0
  <2>1. rows'[b.tx].fp = rows[b.tx].fp
    BY <1>1, <1>3, Growth
  <2>. QED
    BY <2>1 DEF Payments
<1>. QED
  BY <1>2, <1>3

\* A payment that is in the log stays there.
LEMMA DedupesKept ==
    ASSUME Inv, RowsFromLog, [Next]_vars, Inv', NEW m \in MutationIds,
           NEW receipt, Dedupes(m, receipt)
    PROVE  Dedupes(m, receipt)'
<1>1. PICK e \in log : /\ e.tx # Mutations[m].tx /\ e.version = 1
                       /\ Mutations[e.by].fp \in Payments(Mutations[m])
                       /\ receipt.version \in 1 .. rows[e.tx].version
  BY DEF Dedupes
<1>2. /\ e.tx \in TxIds
      /\ rows[e.tx].version \in Nat /\ rows'[e.tx].version \in Nat
  BY DEF Inv, TypeOK, Changes, Rows
<1>3. e \in log' /\ receipt.version \in 1 .. rows'[e.tx].version
  BY <1>1, <1>2, Growth
<1>4. Mutations[m] \in Bodies
  BY SyncServerAssumption
<1>5. Mutations[e.by].fp \in Payments(Mutations[m])'
  BY <1>1, <1>4, PaymentsKept
<1>. QED
  BY <1>1, <1>3, <1>5 DEF Dedupes, B!Parsed

\* What one request has decided is not made wrong by another's step.
LEMMA JustifiedKept ==
    ASSUME Inv, RowsFromLog, [Next]_vars, Inv', NEW g \in Handlers,
           Justified(g), Same(g)
    PROVE  Justified(g)'
<1>1. Current(g)' = Current(g) /\ Body(g)' = Body(g)
  BY DEF Same, Current, Body
<1>2. (pc'[g] \in {"begin"} \cup Locking) => B!Parsed(Body(g))'
  BY <1>1 DEF Justified, Same, B!Parsed
<1>3. ASSUME pc'[g] \in {"write", "commit"}
      PROVE  PlanJustified(g)'
  <2>1. rows'[Body(g).tx] = rows[Body(g).tx] /\ accounts \subseteq accounts'
    BY <1>3, Growth DEF Same, Locking
  <2>2. /\ B!BaseFits(Body(g))' = B!BaseFits(Body(g))
        /\ B!Reasons(Body(g))' = B!Reasons(Body(g))
    BY <1>1, <2>1
    DEF B!BaseFits, B!DeleteFits, B!UpsertFits, B!Reasons, B!Parsed
  <2>3. PlanJustified(g) /\ plan'[g] = plan[g]
    BY <1>3 DEF Justified, Same
  <2>4. Dedupes(Current(g), plan[g]) => Dedupes(Current(g), plan[g])'
    <3>1. TypeOK /\ todo[g] # <<>>
      BY <1>3 DEF Inv, TypeOK, Same
    <3>2. Current(g) \in MutationIds
      BY <3>1, CurrentType
    <3>. QED
      BY <1>1, <2>3, <3>2, DedupesKept
  <2>. QED
    BY <1>1, <2>1, <2>2, <2>3, <2>4 DEF PlanJustified
<1>4. ASSUME pc'[g] = "record", receipts'[Current(g)] = NoReceipt
      PROVE  Standing(Current(g), reply[g])'
  <2>1. Current(g) \in MutationIds
    <3>1. TypeOK /\ todo[g] # <<>>
      BY <1>4 DEF Inv, TypeOK, Same
    <3>. QED
      BY <3>1, CurrentType
  <2>2. receipts[Current(g)] = NoReceipt
    BY <1>4, <2>1, ReceiptKept
  <2>3. Standing(Current(g), reply[g]) /\ reply'[g] = reply[g]
    BY <1>4, <2>2 DEF Justified, Same
  <2>4. Dedupes(Current(g), reply[g]) => Dedupes(Current(g), reply[g])'
    BY <1>1, <2>1, <2>3, DedupesKept
  <2>. QED
    BY <1>1, <2>3, <2>4 DEF Standing, B!Parsed
<1>. QED
  BY <1>1, <1>2, <1>3, <1>4 DEF Justified
-----------------------------------------------------------------------------
(***************************************************************************)
(* RefInv is inductive relative to Inv.                                    *)
(***************************************************************************)

\* A row in the index shows the change that booked its payment.
LEMMA LiveIsLogged ==
    ASSUME TypeOK, RowsFromLog, NEW fp, fp # NoFp, NEW t \in LiveByFp(fp)
    PROVE  \E e \in log : /\ Mutations[e.by].fp = fp
                          /\ e.tx = t /\ e.version = 1
                          /\ 1 <= rows[e.tx].version
                          /\ rows[e.tx].version \in Nat
<1>1. t \in TxIds /\ rows[t].version \in Nat /\ rows[t].version # 0
      /\ rows[t].fp = fp
  BY DEF LiveByFp, IndexKey, TypeOK, Rows
<1>. QED
  BY <1>1 DEF RowsFromLog

\* Only a create, or an edit, that carries the tag adds an entry to the index,
\* for the payment it reports or the one of its row.
LEMMA EntersTagged ==
    ASSUME TypeOK, RowsFromLog, NEW h \in Handlers, Current(h) \in MutationIds,
           EntersIndex(h)
    PROVE  /\ Body(h).op # "delete" /\ Body(h).source = "auto_ledger"
           /\ NewKey(h) \in Payments(Body(h))
           /\ Body(h).tx \notin LiveByFp(NewKey(h))
<1>. DEFINE b == Body(h)
            r == rows[b.tx]
            n == NewRow(Current(h))
<1>1. b \in Bodies /\ b.tx \in TxIds /\ r.version \in Nat /\ r.deleted \in BOOLEAN
  BY SyncServerAssumption DEF Body, Bodies, TypeOK, Rows
<1>2. /\ n.version = r.version + 1
      /\ n.deleted = (r.deleted \/ b.op = "delete")
      /\ n.fp = IF r.version = 0 THEN b.fp ELSE r.fp
      /\ n.auto = IF b.op = "delete" \/ b.source = "none"
                    THEN r.auto ELSE b.source = "auto_ledger"
  BY DEF NewRow, Body
<1>3. NewKey(h) = IF n.version # 0 /\ ~n.deleted /\ n.auto THEN n.fp ELSE NoFp
  BY DEF NewKey, IndexKey
<1>4. NewKey(h) # NoFp /\ NewKey(h) # IndexKey(r)
  BY DEF EntersIndex
<1>5. ~n.deleted /\ n.auto /\ NewKey(h) = n.fp
  BY <1>3, <1>4
<1>6. b.op # "delete" /\ ~r.deleted
  BY <1>2, <1>5
<1>7. b.source # "none"
  <2>1. CASE r.version = 0
    <3>1. r.auto = FALSE
      BY <1>1, <2>1 DEF RowsFromLog, NoRow
    <3>. QED
      BY <1>2, <1>5, <1>6, <3>1
  <2>2. CASE r.version # 0
    BY <1>2, <1>4, <1>5, <1>6, <2>2 DEF IndexKey
  <2>. QED
    BY <2>1, <2>2
<1>8. b.source = "auto_ledger"
  BY <1>2, <1>5, <1>6, <1>7
<1>9. NewKey(h) \in Payments(b)
  BY <1>2, <1>4, <1>5 DEF Payments
<1>10. b.tx \notin LiveByFp(NewKey(h))
  BY <1>4 DEF LiveByFp
<1>. QED
  BY <1>6, <1>8, <1>9, <1>10

\* The decision is one that Book allows.
LEMMA DecideJustified ==
    ASSUME TypeOK, AccountsKept, RowsFromLog, NEW m \in MutationIds,
           B!Parsed(Mutations[m])
    PROVE  LET b == Mutations[m] IN
           \/ /\ Decide(b).code = "OK"
              /\ B!BaseFits(b)
              /\ b.op # "delete" => b.account \in accounts
           \/ Decide(b) \in B!Reasons(b)
           \/ Dedupes(m, Decide(b))
<1>. DEFINE b == Mutations[m]
            current == rows[b.tx].version
<1>1. b \in Bodies /\ current \in Nat
  BY SyncServerAssumption DEF TypeOK, Rows, Bodies
<1>2. CASE MissingAccount(b)
  <2>1. Decide(b) = Rejected("ACCOUNT_NOT_FOUND", 0)
    BY <1>2 DEF Decide, MissingAccount
  <2>2. b.op # "delete" /\ b.account \notin InitAccounts
    BY <1>2 DEF MissingAccount, AccountsKept
  <2>. QED
    BY <2>1, <2>2 DEF B!Reasons, Rejected
<1>3. CASE b.op = "delete" /\ current = 0
  <2>1. Decide(b) = Rejected("NOT_FOUND", 0)
    BY <1>3 DEF Decide, MissingAccount, Conflicts, IsDuplicate
  <2>. QED
    BY <1>3, <2>1 DEF B!Reasons, Rejected
<1>4. CASE ~MissingAccount(b) /\ Conflicts(b)
  <2>1. Decide(b) = Rejected("LEDGER_VERSION_CONFLICT", current)
    BY <1>4 DEF Decide, Conflicts, IsDuplicate
  <2>2. current # 0 /\ ~B!BaseFits(b)
    BY <1>1, <1>4 DEF Conflicts, B!BaseFits, B!DeleteFits, B!UpsertFits, Bodies
  <2>. QED
    BY <2>1, <2>2 DEF B!Reasons, Rejected
<1>5. CASE ~MissingAccount(b) /\ IsDuplicate(b)
  <2>. DEFINE t == CHOOSE u \in LiveByFp(b.fp) : TRUE
  <2>1. Decide(b) = Deduped(rows[t].version)
    BY <1>5 DEF Decide, Conflicts, IsDuplicate
  <2>2. /\ t \in LiveByFp(b.fp) /\ b.fp # NoFp /\ b.fp \in Payments(b)
        /\ rows[b.tx].version = 0
    BY <1>5 DEF IsDuplicate, is_auto_ledger_fingerprint, Payments
  <2>. HIDE DEF t
  <2>3. PICK e \in log : /\ Mutations[e.by].fp = b.fp
                         /\ e.tx = t /\ e.version = 1
                         /\ 1 <= rows[t].version
                         /\ rows[t].version \in Nat
    BY <2>2, LiveIsLogged
  <2>4. rows[t].version \in 1 .. rows[e.tx].version /\ e.tx # b.tx
    BY <2>2, <2>3
  <2>. QED
    BY <1>5, <2>1, <2>2, <2>3, <2>4 DEF Dedupes, Deduped, IsDuplicate
<1>6. CASE /\ ~MissingAccount(b) /\ ~(b.op = "delete" /\ current = 0)
           /\ ~Conflicts(b) /\ ~IsDuplicate(b)
  <2>1. Decide(b) = Applied(current + 1)
    BY <1>6 DEF Decide
  <2>2. B!BaseFits(b)
    BY <1>1, <1>6 DEF Conflicts, B!BaseFits, B!DeleteFits, B!UpsertFits, Bodies
  <2>. QED
    BY <1>6, <2>1, <2>2 DEF Applied, MissingAccount
<1>. QED
  BY <1>2, <1>3, <1>4, <1>5, <1>6

\* An applied plan of version 1 is not a delete.
LEMMA InsertIsUpsert ==
    ASSUME Inv, NEW h \in Handlers, pc[h] \in {"write", "commit"},
           plan[h].code = "OK", PlanJustified(h)
    PROVE  /\ B!BaseFits(Body(h))
           /\ Body(h).op # "delete" => Body(h).account \in accounts
           /\ plan[h] = Applied(rows[Body(h).tx].version + 1)
           /\ rows[Body(h).tx].version = 0 => Body(h).op # "delete"
<1>1. TypeOK /\ todo[h] # <<>> /\ plan[h] \in Receipts
  BY DEF Inv, TypeOK
<1>2. Body(h) \in Bodies
  BY <1>1, CurrentType
<1>3. plan[h].version = rows[Body(h).tx].version + 1
  BY DEF Inv, PlanCurrent
<1>4. plan[h] \notin B!Reasons(Body(h)) /\ ~Dedupes(Current(h), plan[h])
  BY DEF B!Reasons, Dedupes
<1>5. /\ B!BaseFits(Body(h))
      /\ Body(h).op # "delete" => Body(h).account \in accounts
  BY <1>4 DEF PlanJustified
<1>. QED
  BY <1>1, <1>3, <1>5 DEF Receipts, Applied, B!BaseFits, B!DeleteFits

\* A request's own step leaves it justified.
LEMMA OwnStep ==
    ASSUME Inv, RefInv, [Next]_vars, Inv', NEW h \in Handlers, RequestStep(h)
    PROVE  Justified(h)'
<1>. USE DEF Locking
<1>1. TypeOK /\ Justified(h) /\ AccountsKept /\ RowsFromLog
  BY DEF Inv, RefInv
<1>2. pc \in [Handlers -> {"idle", "lookup", "begin", "record"} \cup Locking]
      /\ todo \in [Handlers -> Seq(MutationIds)]
      /\ plan \in [Handlers -> Receipts \cup {NoReceipt}]
      /\ reply \in [Handlers -> Receipts \cup {NoReceipt}]
  BY <1>1 DEF TypeOK
<1>3. CASE pc'[h] \in {"idle", "lookup"}
  BY <1>3 DEF Justified
<1>4. ASSUME pc'[h] = "record", todo'[h] = todo[h],
             receipts'[Current(h)] = NoReceipt => Standing(Current(h), reply[h])'
      PROVE  Justified(h)'
  <2>1. Current(h)' = Current(h)
    BY <1>4 DEF Current
  <2>. QED
    BY <1>4, <2>1 DEF Justified
<1>5. CASE RejectPayload(h)
  <2>1. /\ pc'[h] = "record" /\ todo'[h] = todo[h]
        /\ reply'[h] = Rejected(Body(h).parse, 0)
        /\ ~B!Parsed(Body(h))
    BY <1>2, <1>5 DEF RejectPayload, B!Parsed
  <2>2. Current(h)' = Current(h)
    BY <2>1 DEF Current
  <2>. QED
    BY <1>4, <2>1, <2>2 DEF Standing, Body, B!Parsed
<1>6. CASE StartTx(h)
  <2>1. pc'[h] = "begin" /\ B!Parsed(Body(h)) /\ todo'[h] = todo[h]
    BY <1>2, <1>6 DEF StartTx, B!Parsed
  <2>. QED
    BY <2>1 DEF Justified, Body, Current, B!Parsed
<1>7. CASE LockEntity(h)
  <2>1. /\ todo'[h] = todo[h] /\ receipts' = receipts
        /\ B!Parsed(Body(h))
        /\ \/ pc'[h] = "read"
           \/ pc'[h] = "record" /\ receipts[Current(h)] # NoReceipt
    BY <1>1, <1>2, <1>7 DEF LockEntity, Justified, dbVars
  <2>2. CASE pc'[h] = "read"
    BY <2>1, <2>2 DEF Justified, Body, Current, B!Parsed
  <2>. QED
    BY <1>4, <2>1, <2>2
<1>8. CASE Read(h)
  <2>1. /\ pc'[h] = "write" /\ todo'[h] = todo[h]
        /\ plan'[h] = Decide(Body(h))
        /\ UNCHANGED <<rows, log, accounts>>
        /\ pc[h] = "read" /\ todo[h] # <<>>
    BY <1>1, <1>2, <1>8 DEF Read, dbVars, TypeOK
  <2>2. B!Parsed(Body(h)) /\ Current(h) \in MutationIds
    BY <1>1, <2>1, CurrentType DEF Justified
  <2>3. Current(h)' = Current(h) /\ Body(h)' = Body(h)
    BY <2>1 DEF Current, Body
  <2>4. /\ B!BaseFits(Body(h))' = B!BaseFits(Body(h))
        /\ B!Reasons(Body(h))' = B!Reasons(Body(h))
        /\ B!Parsed(Body(h))' = B!Parsed(Body(h))
    BY <2>1, <2>3
    DEF B!BaseFits, B!DeleteFits, B!UpsertFits, B!Reasons, B!Parsed
  <2>5. Dedupes(Current(h), Decide(Body(h))) => Dedupes(Current(h), plan[h])'
    BY <2>1, <2>3 DEF Dedupes, Payments, B!Parsed
  <2>6. \/ /\ Decide(Body(h)).code = "OK"
           /\ B!BaseFits(Body(h))
           /\ Body(h).op # "delete" => Body(h).account \in accounts
        \/ Decide(Body(h)) \in B!Reasons(Body(h))
        \/ Dedupes(Current(h), Decide(Body(h)))
    BY <1>1, <2>2, DecideJustified DEF Body
  <2>7. PlanJustified(h)'
    BY <2>1, <2>3, <2>4, <2>5, <2>6 DEF PlanJustified
  <2>. QED
    BY <2>1, <2>2, <2>4, <2>7 DEF Justified
<1>9. CASE Write(h)
  <2>1. /\ UNCHANGED <<rows, log, accounts, receipts, todo, plan>>
        /\ pc[h] = "write"
    BY <1>9 DEF Write
  <2>2. Current(h)' = Current(h) /\ Body(h)' = Body(h)
    BY <2>1 DEF Current, Body
  <2>3. B!Parsed(Body(h)) /\ PlanJustified(h)
    BY <1>1, <2>1 DEF Justified
  <2>4. CASE pc'[h] = "commit"
    <3>1. /\ B!BaseFits(Body(h))' = B!BaseFits(Body(h))
          /\ B!Reasons(Body(h))' = B!Reasons(Body(h))
          /\ B!Parsed(Body(h))' = B!Parsed(Body(h))
      BY <2>1, <2>2
      DEF B!BaseFits, B!DeleteFits, B!UpsertFits, B!Reasons, B!Parsed
    <3>2. Dedupes(Current(h), plan[h])' = Dedupes(Current(h), plan[h])
      BY <2>1, <2>2 DEF Dedupes, Payments, B!Parsed
    <3>. QED
      BY <2>1, <2>2, <2>3, <2>4, <3>1, <3>2 DEF Justified, PlanJustified
  <2>5. CASE pc'[h] # "commit" /\ receipts[Current(h)] = NoReceipt
    <3>1. /\ pc'[h] = "record"
          /\ CasFails(h) \/ FpClash(h)
          /\ reply'[h] = IF CasFails(h) THEN Rejected("DB_ERROR", 0)
                                        ELSE ClassifyUniqueViolation(h)
      BY <1>2, <1>9, <2>5 DEF Write
    <3>2. CASE reply'[h] = Rejected("DB_ERROR", 0)
      BY <1>4, <2>1, <3>1, <3>2 DEF Standing
    <3>3. CASE reply'[h] # Rejected("DB_ERROR", 0)
      <4>1. /\ reply'[h] = Deduped(1) /\ FpClash(h)
            /\ is_auto_ledger_fingerprint(Body(h))
        BY <3>1, <3>3 DEF ClassifyUniqueViolation
      <4>2. Current(h) \in MutationIds
        <5>1. todo[h] # <<>>
          BY <1>1, <2>1 DEF TypeOK
        <5>. QED
          BY <1>1, <5>1, CurrentType
      <4>3. EntersIndex(h) /\ NewKey(h) # NoFp
        BY <4>1 DEF FpClash, EntersIndex
      <4>4. PICK t \in LiveByFp(NewKey(h)) : TRUE
        BY <4>1 DEF FpClash
      <4>5. /\ Body(h).op # "delete" /\ t # Body(h).tx
            /\ NewKey(h) \in Payments(Body(h))
        BY <1>1, <4>2, <4>3, <4>4, EntersTagged
      <4>6. PICK e \in log : /\ Mutations[e.by].fp = NewKey(h)
                             /\ e.tx = t /\ e.version = 1
                             /\ 1 <= rows[e.tx].version
                             /\ rows[e.tx].version \in Nat
        BY <1>1, <4>3, <4>4, LiveIsLogged
      <4>7. 1 \in 1 .. rows[e.tx].version
        BY <4>6
      <4>8. Dedupes(Current(h), reply'[h])
        BY <2>3, <4>1, <4>5, <4>6, <4>7 DEF Dedupes, Deduped, Body
      <4>9. Dedupes(Current(h), reply[h])'
        BY <2>1, <2>2, <4>8 DEF Dedupes, Payments, B!Parsed
      <4>. QED
        BY <1>4, <2>1, <3>1, <4>9 DEF Standing
    <3>. QED
      BY <3>2, <3>3
  <2>6. CASE receipts[Current(h)] # NoReceipt
    <3>1. pc'[h] = "record"
      BY <1>2, <1>9, <2>6 DEF Write
    <3>. QED
      BY <1>4, <2>1, <2>6, <3>1
  <2>. QED
    BY <2>4, <2>5, <2>6
<1>10. CASE Commit(h) \/ CommitUnacknowledged(h)
  <2>1. /\ pc'[h] = "record" /\ todo'[h] = todo[h]
        /\ receipts' = [receipts EXCEPT ![Current(h)] = plan[h]]
        /\ pc[h] = "commit"
    BY <1>2, <1>10 DEF Commit, CommitUnacknowledged, CommitEffect
  <2>2. todo[h] # <<>> /\ plan[h] # NoReceipt
    BY <1>1, <2>1 DEF TypeOK
  <2>3. receipts'[Current(h)] = plan[h]
    BY <1>1, <2>1, <2>2, CurrentType DEF TypeOK
  <2>. QED
    BY <1>4, <2>1, <2>2, <2>3
<1>11. CASE TxError(h)
  <2>1. /\ pc'[h] = "record" /\ todo'[h] = todo[h]
        /\ reply'[h] = Rejected("DB_ERROR", 0)
    BY <1>2, <1>11 DEF TxError
  <2>. QED
    BY <1>4, <2>1 DEF Standing
<1>12. CASE \/ \E batch \in Batches : Receive(h, batch)
            \/ Replay(h) \/ Record(h) \/ Respond(h) \/ Fail(h)
  <2>1. pc'[h] \in {"idle", "lookup"}
    BY <1>2, <1>12 DEF Receive, Replay, Record, Respond, Fail
  <2>. QED
    BY <1>3, <2>1
<1>. QED
  BY <1>5, <1>6, <1>7, <1>8, <1>9, <1>10, <1>11, <1>12 DEF RequestStep, Step
\* A commit keeps the rows in step with the log.
LEMMA RowsFromLogStep ==
    ASSUME Inv, RefInv, NEW h \in Handlers, RequestStep(h)
    PROVE  RowsFromLog'
<1>. DEFINE m == Current(h)
            b == Body(h)
            new == NewChange(m, sq[h])
<1>1. TypeOK /\ RowsFromLog
  BY DEF Inv, RefInv
<1>2. CASE rows' = rows /\ log' = log
  BY <1>1, <1>2 DEF RowsFromLog
<1>3. CASE ~(rows' = rows /\ log' = log)
  <2>1. /\ pc[h] = "commit"
        /\ rows' = [rows EXCEPT ![b.tx] = NewRow(m)]
        /\ log' = log \cup {new}
    BY <1>3, CommitsAlone
  <2>2. todo[h] # <<>>
    BY <1>1, <2>1 DEF TypeOK
  <2>3. b.tx \in TxIds /\ rows[b.tx].version \in Nat
    BY <1>1, <2>2, CurrentType DEF Bodies, TypeOK, Rows
  <2>4. /\ new.tx = b.tx /\ new.by = m /\ b = Mutations[m]
        /\ new.version = rows[b.tx].version + 1
        /\ NewRow(m).version = rows[b.tx].version + 1
        /\ NewRow(m).fp = IF rows[b.tx].version = 0 THEN b.fp
                                                    ELSE rows[b.tx].fp
    BY DEF NewChange, NewRow, Body
  <2>5. ASSUME NEW t \in TxIds
        PROVE  IF rows'[t].version = 0
               THEN rows'[t] = NoRow
               ELSE \E e \in log' : /\ e.tx = t /\ e.version = 1
                                    /\ Mutations[e.by].fp = rows'[t].fp
    <3>1. CASE t # b.tx
      BY <1>1, <2>1, <3>1 DEF TypeOK, RowsFromLog
    <3>2. CASE t = b.tx
      <4>1. rows'[t] = NewRow(m) /\ rows'[t].version # 0
        BY <1>1, <2>1, <2>3, <2>4, <3>2 DEF TypeOK
      <4>2. \E e \in log' : /\ e.tx = t /\ e.version = 1
                            /\ Mutations[e.by].fp = rows'[t].fp
        BY <1>1, <2>1, <2>3, <2>4, <3>2, <4>1 DEF RowsFromLog
      <4>. QED
        BY <4>1, <4>2
    <3>. QED
      BY <3>1, <3>2
  <2>6. \A e \in log' : e.tx = Mutations[e.by].tx
    BY <1>1, <2>1, <2>4 DEF RowsFromLog
  <2>. QED
    BY <2>5, <2>6 DEF RowsFromLog
<1>. QED
  BY <1>2, <1>3

\* Every step of every request keeps what it and the others have decided
\* allowed.
LEMMA RefInvStep == Inv /\ RefInv /\ [Next]_vars => RefInv'
<1>. SUFFICES ASSUME Inv, RefInv, [Next]_vars PROVE RefInv'
  OBVIOUS
<1>1. Inv' /\ TypeOK
  BY InvStep DEF Inv
<1>2. AccountsKept'
  BY Growth DEF RefInv, AccountsKept
<1>3. ASSUME NEW h \in Handlers, RequestStep(h)
      PROVE  RefInv'
  <2>1. \A g \in Handlers \ {h} : Justified(g)'
    BY <1>1, <1>3, OthersSame, JustifiedKept DEF RefInv
  <2>2. Justified(h)'
    BY <1>1, <1>3, OwnStep
  <2>3. RowsFromLog'
    BY <1>3, RowsFromLogStep
  <2>. QED
    BY <1>2, <2>1, <2>2, <2>3 DEF RefInv
<1>4. CASE \/ \E a \in AccountIds : AddAccount(a)
           \/ \E d \in Readers : Pull(d)
           \/ UNCHANGED vars
  <2>1. UNCHANGED <<rows, log, pc, todo, plan, reply, out>>
    BY <1>4 DEF AddAccount, Pull, vars, dbVars
  <2>2. \A g \in Handlers : Justified(g)'
    BY <1>1, <2>1, JustifiedKept DEF RefInv, Same
  <2>3. RowsFromLog'
    BY <2>1 DEF RefInv, RowsFromLog
  <2>. QED
    BY <1>2, <2>2, <2>3 DEF RefInv
<1>. QED
  BY <1>3, <1>4 DEF Next, RequestStep, Step

\* An empty book, without requests.
LEMMA RefInvInit == Init => RefInv
  BY DEF Init, RefInv, AccountsKept, RowsFromLog, NoRow, Justified, Locking

-----------------------------------------------------------------------------
(***************************************************************************)
(* The refinement.                                                         *)
(***************************************************************************)

\* An applied plan commits as one Apply.
LEMMA CommitApplies ==
    ASSUME Inv, RefInv, NEW h \in Handlers,
           Commit(h) \/ CommitUnacknowledged(h), plan[h].code = "OK"
    PROVE  B!Apply(Current(h))
<1>. DEFINE m == Current(h)
            b == Body(h)
            r == rows[b.tx]
            change == [tx |-> b.tx, by |-> m, version |-> r.version + 1,
                       op |-> IF b.op = "delete" THEN "delete" ELSE "upsert"]
<1>1. /\ pc[h] = "commit" /\ accounts' = accounts
      /\ receipts' = [receipts EXCEPT ![m] = plan[h]]
      /\ rows' = [rows EXCEPT ![b.tx] = NewRow(m)]
      /\ log' = log \cup {NewChange(m, sq[h])}
  BY DEF Commit, CommitUnacknowledged, CommitEffect, Body
<1>2. TypeOK /\ todo[h] # <<>> /\ RowsFromLog
  BY <1>1 DEF Inv, TypeOK, RefInv
<1>3. m \in MutationIds /\ b \in Bodies /\ b = Mutations[m]
  BY <1>2, CurrentType DEF Body
<1>4. b.tx \in TxIds /\ r \in Rows /\ b.fp \in Fingerprints \cup {NoFp}
  BY <1>2, <1>3 DEF TypeOK, Bodies
<1>5. B!Parsed(b) /\ PlanJustified(h)
  BY <1>1 DEF RefInv, Justified, Locking
<1>6. /\ B!BaseFits(b)
      /\ b.op # "delete" => b.account \in accounts
      /\ plan[h] = Applied(r.version + 1)
      /\ r.version = 0 => b.op # "delete"
  BY <1>1, <1>5, InsertIsUpsert
<1>7. B!Unanswered(m)
  BY <1>1 DEF Inv, ReceiptAbsent, B!Unanswered, NoReceipt, B!NoReceipt
<1>8. B!Accepts(b)
  <2>1. ASSUME r.version = 0, B!Reports(b)
        PROVE  B!Booked(b.fp) = {}
    <3>1. b.op # "delete" /\ r.deleted = FALSE /\ r.auto = FALSE
      BY <1>2, <1>4, <1>6, <2>1 DEF RowsFromLog, NoRow
    <3>2. NewKey(h) = b.fp /\ b.fp # NoFp
      <4>1. /\ NewRow(m).version = 1 /\ NewRow(m).fp = b.fp
            /\ NewRow(m).deleted = (r.deleted \/ b.op = "delete")
            /\ NewRow(m).auto = IF b.op = "delete" \/ b.source = "none"
                                  THEN r.auto ELSE b.source = "auto_ledger"
        BY <1>3, <2>1 DEF NewRow
      <4>2. ~NewRow(m).deleted /\ NewRow(m).auto
        BY <2>1, <3>1, <4>1 DEF B!Reports
      <4>. QED
        BY <2>1, <4>1, <4>2 DEF NewKey, IndexKey, B!Reports
    <3>3. LiveByFp(b.fp) \subseteq {b.tx}
      BY <1>1, <1>6, <3>2 DEF Inv, FpReserved, Writes, Applied
    <3>4. B!Booked(b.fp) \subseteq LiveByFp(b.fp) \ {b.tx}
      BY <2>1, <3>2 DEF B!Booked, LiveByFp, IndexKey
    <3>. QED
      BY <3>3, <3>4
  <2>. QED
    BY <1>5, <1>6, <2>1 DEF B!Accepts, B!Unbooked
<1>9. NewRow(m) \in B!Edited(m)
  <2>1. CASE b.op = "delete"
    <3>1. NewRow(m) = [version |-> r.version + 1, deleted |-> TRUE,
                       by |-> r.by, fp |-> r.fp, auto |-> r.auto]
      BY <1>3, <1>6, <2>1 DEF NewRow
    <3>. QED
      BY <1>3, <2>1, <3>1 DEF B!Edited, B!Deleted
  <2>2. CASE b.op # "delete" /\ r.version = 0
    <3>1. r = NoRow
      BY <1>2, <1>4, <2>2 DEF RowsFromLog
    <3>2. r.deleted = FALSE
      BY <3>1 DEF NoRow
    <3>3. (r.deleted \/ Mutations[m].op = "delete") = FALSE
      BY <1>3, <2>2, <3>2
    <3>4. r.version + 1 = 1
      BY <2>2
    <3>5. NewRow(m) = [version |-> 1, deleted |-> FALSE, by |-> m, fp |-> b.fp,
                       auto |-> B!Tagged(r, b)]
      BY <1>3, <2>2, <3>3, <3>4, Zenon DEF NewRow, B!Tagged
    <3>. QED
      BY <1>3, <2>2, <3>5 DEF B!Edited, B!Upserted
  <2>3. CASE b.op # "delete" /\ r.version # 0
    <3>1. r.deleted \in BOOLEAN
      BY <1>4 DEF Rows
    <3>2. (r.deleted \/ b.op = "delete") = r.deleted
      BY <2>3, <3>1
    <3>3. NewRow(m) = [version |-> r.version + 1, deleted |-> r.deleted,
                       by |-> m, fp |-> r.fp, auto |-> B!Tagged(r, b)]
      BY <1>3, <2>3, <3>2 DEF NewRow, B!Tagged
    <3>. QED
      BY <1>3, <2>3, <3>3 DEF B!Edited, B!Upserted
  <2>. QED
    BY <2>1, <2>2, <2>3
<1>10. Told' = Told \cup {change}
  <2>1. /\ NewChange(m, sq[h]).tx = b.tx /\ NewChange(m, sq[h]).by = m
        /\ NewChange(m, sq[h]).version = r.version + 1
        /\ NewChange(m, sq[h]).op = IF b.op = "delete" THEN "delete" ELSE "upsert"
    BY <1>3 DEF NewChange
  <2>. QED
    BY <1>1, <2>1 DEF Told
<1>11. receipts' = [receipts EXCEPT ![m] =
                       [code |-> "OK", version |-> r.version + 1]]
  BY <1>1, <1>6 DEF Applied
<1>. QED
  BY <1>1, <1>3, <1>7, <1>8, <1>9, <1>10, <1>11 DEF B!Apply

\* A refusal or a duplicate commits, or is recorded, as one Refuse or Dedupe.
LEMMA Refuses ==
    ASSUME TypeOK, NEW m \in MutationIds, NEW receipt \in Receipts,
           receipts[m] = NoReceipt,
           receipt \in B!Reasons(Mutations[m]) \/ Dedupes(m, receipt),
           receipts' = [receipts EXCEPT ![m] = receipt],
           UNCHANGED <<rows, log, accounts>>
    PROVE  B!Refuse(m) \/ B!Dedupe(m)
<1>1. Told' = Told /\ B!Unanswered(m)
  BY DEF Told, B!Unanswered, NoReceipt, B!NoReceipt
<1>2. CASE receipt \in B!Reasons(Mutations[m])
  BY <1>1, <1>2 DEF B!Refuse
<1>3. CASE Dedupes(m, receipt)
  <2>1. PICK e \in log : /\ e.tx # Mutations[m].tx
                         /\ Mutations[e.by].fp \in Payments(Mutations[m])
                         /\ receipt.version \in 1 .. rows[e.tx].version
    BY <1>3 DEF Dedupes
  <2>. DEFINE d == [tx |-> e.tx, by |-> e.by, version |-> e.version, op |-> e.op]
  <2>2. d \in Told /\ d.by = e.by /\ d.tx = e.tx
    BY DEF Told
  <2>3. receipt = [code |-> "AUTO_LEDGER_DEDUPED", version |-> receipt.version]
    BY <1>3 DEF Dedupes, Receipts
  <2>4. \E f \in Told :
           /\ f.tx # Mutations[m].tx
           /\ Mutations[f.by].fp \in Payments(Mutations[m])
           /\ \E version \in 1 .. rows[f.tx].version :
                 receipts' = [receipts EXCEPT ![m] =
                       [code |-> "AUTO_LEDGER_DEDUPED", version |-> version]]
    <3>. HIDE DEF d
    <3>. QED
      BY <2>1, <2>2, <2>3
  <2>. QED
    BY <1>1, <1>3, <2>4
    DEF B!Dedupe, B!Reports, Dedupes, Payments, is_auto_ledger_fingerprint
<1>. QED
  BY <1>2, <1>3

\* A standing answer is a reason to refuse.
LEMMA StandingRefuses ==
    ASSUME NEW m \in MutationIds, NEW receipt, Standing(m, receipt)
    PROVE  receipt \in B!Reasons(Mutations[m]) \/ Dedupes(m, receipt)
<1>1. CASE receipt = Rejected("DB_ERROR", 0)
  BY <1>1 DEF Rejected, B!Reasons
<1>2. CASE ~B!Parsed(Mutations[m]) /\ receipt = Rejected(Mutations[m].parse, 0)
  BY <1>2 DEF Rejected, B!Reasons, B!Parsed
<1>. QED
  BY <1>1, <1>2 DEF Standing

\* Every step of the server is a step of Book, or changes nothing Book sees.
LEMMA StepRefines ==
    ASSUME Inv, RefInv, [Next]_vars
    PROVE  [B!Next]_(B!vars)
<1>. USE DEF B!vars
<1>1. TypeOK
  BY DEF Inv
<1>2. ASSUME NEW h \in Handlers, Commit(h) \/ CommitUnacknowledged(h)
      PROVE  B!Next
  <2>1. /\ pc[h] = "commit" /\ accounts' = accounts
        /\ receipts' = [receipts EXCEPT ![Current(h)] = plan[h]]
        /\ plan[h].code # "OK" => rows' = rows /\ log' = log
    BY <1>2 DEF Commit, CommitUnacknowledged, CommitEffect
  <2>2. /\ todo[h] # <<>> /\ plan[h] \in Receipts
        /\ receipts[Current(h)] = NoReceipt
    BY <1>1, <2>1 DEF TypeOK, Inv, ReceiptAbsent
  <2>3. Current(h) \in MutationIds
    BY <1>1, <2>2, CurrentType
  <2>4. CASE plan[h].code = "OK"
    BY <1>2, <2>3, <2>4, CommitApplies DEF B!Next
  <2>5. CASE plan[h].code # "OK"
    <3>1. PlanJustified(h)
      BY <2>1 DEF RefInv, Justified
    <3>2. \/ plan[h] \in B!Reasons(Mutations[Current(h)])
          \/ Dedupes(Current(h), plan[h])
      BY <2>5, <3>1 DEF PlanJustified, Body
    <3>3. B!Refuse(Current(h)) \/ B!Dedupe(Current(h))
      BY <1>1, <2>1, <2>2, <2>3, <2>5, <3>2, Refuses
    <3>. QED
      BY <2>3, <3>3 DEF B!Next
  <2>. QED
    BY <2>4, <2>5
<1>3. ASSUME NEW h \in Handlers, Record(h)
      PROVE  [B!Next]_(B!vars)
  <2>1. /\ pc[h] = "record"
        /\ receipts' = [receipts EXCEPT ![Current(h)] =
                            RecordOnce(Current(h), reply[h])]
        /\ UNCHANGED <<rows, log, accounts>>
    BY <1>3 DEF Record
  <2>2. todo[h] # <<>> /\ reply[h] \in Receipts
    BY <1>1, <2>1 DEF TypeOK
  <2>3. Current(h) \in MutationIds
    BY <1>1, <2>2, CurrentType
  <2>4. CASE receipts[Current(h)] = NoReceipt
    <3>1. Standing(Current(h), reply[h])
      BY <2>1, <2>4 DEF RefInv, Justified
    <3>2. \/ reply[h] \in B!Reasons(Mutations[Current(h)])
          \/ Dedupes(Current(h), reply[h])
      BY <2>3, <3>1, StandingRefuses
    <3>3. receipts' = [receipts EXCEPT ![Current(h)] = reply[h]]
      BY <2>1, <2>4 DEF RecordOnce
    <3>4. B!Refuse(Current(h)) \/ B!Dedupe(Current(h))
      BY <1>1, <2>1, <2>2, <2>3, <2>4, <3>2, <3>3, Refuses
    <3>. QED
      BY <2>3, <3>4 DEF B!Next
  <2>5. CASE receipts[Current(h)] # NoReceipt
    <3>1. receipts' = receipts
      BY <1>1, <2>1, <2>3, <2>5 DEF RecordOnce, TypeOK
    <3>. QED
      BY <2>1, <3>1 DEF Told
  <2>. QED
    BY <2>4, <2>5
<1>4. ASSUME NEW a \in AccountIds, AddAccount(a)
      PROVE  B!Next
  <2>1. B!AddAccount(a)
    BY <1>4 DEF AddAccount, B!AddAccount, Told
  <2>. QED
    BY <2>1 DEF B!Next
<1>5. ASSUME NEW h \in Handlers,
             \/ \E batch \in Batches : Receive(h, batch)
             \/ Replay(h) \/ RejectPayload(h) \/ StartTx(h) \/ LockEntity(h)
             \/ Read(h) \/ Write(h) \/ Respond(h) \/ TxError(h) \/ Fail(h)
      PROVE  UNCHANGED B!vars
  <2>1. UNCHANGED <<rows, log, receipts, accounts>>
    BY <1>5 DEF Receive, Replay, RejectPayload, StartTx, LockEntity, Read,
                Write, Respond, TxError, Fail, dbVars
  <2>. QED
    BY <2>1 DEF Told
<1>6. CASE (\E d \in Readers : Pull(d)) \/ UNCHANGED vars
  <2>1. UNCHANGED <<rows, log, receipts, accounts>>
    BY <1>6 DEF Pull, vars, dbVars
  <2>. QED
    BY <2>1 DEF Told
<1>. QED
  BY <1>2, <1>3, <1>4, <1>5, <1>6 DEF Next

\* Push on PostgreSQL implements Book: whatever requests overlap, fail, are
\* sent again or lose their answers, every mutation takes effect and is
\* recorded in one step, and for a reason Book allows.
THEOREM PushImplementsBook == Spec => ImplementsBook
<1>1. Init => B!Init
  BY DEF Init, B!Init, Told, NoRow, B!NoRow, NoReceipt, B!NoReceipt
<1>2. Inv /\ RefInv /\ [Next]_vars => [B!Next]_(B!vars)
  BY StepRefines
<1>3. Spec => []RefInv
  BY RefInvInit, RefInvStep, Invariance, PTL DEF Spec
<1>. QED
  BY <1>1, <1>2, <1>3, Invariance, PTL DEF Spec, ImplementsBook, B!Spec
-----------------------------------------------------------------------------
(***************************************************************************)
(* The answers of a server that meets no fault.                            *)
(***************************************************************************)

\* The payment a mutation reports, or the one of its row, has been booked under
\* another id.
PaymentLogged(m) ==
    /\ B!Parsed(Mutations[m])
    /\ is_auto_ledger_fingerprint(Mutations[m])
    /\ \E e \in log : /\ e.tx # Mutations[m].tx /\ e.version = 1
                      /\ Mutations[e.by].fp \in Payments(Mutations[m])

IsDeduped(receipt) == receipt.code = "AUTO_LEDGER_DEDUPED"

\* What the index answers: a duplicate, or an error to an edit that gives its
\* row the tag and reports no payment.
Clashed(m, receipt) ==
    \/ IsDeduped(receipt) /\ PaymentLogged(m)
    \/ /\ B!Parsed(Mutations[m])
       /\ Mutations[m].source = "auto_ledger" /\ Mutations[m].fp = NoFp
       /\ receipt = Rejected("DB_ERROR", 0)

\* An answer: the stored receipt, unless the mutation carries the tag.
Right(m, receipt) ==
    /\ IsDeduped(receipt) => PaymentLogged(m)
    /\ Mutations[m].source # "auto_ledger" => receipt = receipts[m]

\* The answer a request is about to give.
Foreseen(m, receipt) ==
    \/ receipt = receipts[m]
    \/ Clashed(m, receipt)
    \/ ~B!Parsed(Mutations[m]) /\ receipt = Rejected(Mutations[m].parse, 0)

\* Only a clash can be recorded while the entity is locked.
Answers(h) ==
    /\ pc[h] = "record" => Foreseen(Current(h), reply[h])
    /\ pc[h] \in Locking => \/ receipts[Current(h)] = NoReceipt
                            \/ Clashed(Current(h), receipts[Current(h)])
    /\ \A o \in out[h] : Right(o[1], o[2])

Stored(m) ==
    /\ IsDeduped(receipts[m]) => PaymentLogged(m)
    /\ ~B!Parsed(Mutations[m]) =>
          receipts[m] \in {NoReceipt, Rejected(Mutations[m].parse, 0)}

AnswersInv ==
    faults = 0 =>
        /\ \A m \in MutationIds : Stored(m)
        /\ \A h \in Handlers : Answers(h)
        /\ \A a \in acked : Right(a[1], a[2])

\* A payment that is logged stays logged.
LEMMA PaymentKept ==
    ASSUME Inv, RefInv, [Next]_vars, NEW m \in MutationIds, PaymentLogged(m)
    PROVE  PaymentLogged(m)'
<1>1. Mutations[m] \in Bodies /\ RowsFromLog
  BY SyncServerAssumption DEF RefInv
<1>2. Payments(Mutations[m]) \subseteq Payments(Mutations[m])'
  BY <1>1, PaymentsKept
<1>. QED
  BY <1>2, Growth DEF PaymentLogged, B!Parsed

\* So does what the index answered.
LEMMA ClashedKept ==
    ASSUME Inv, RefInv, [Next]_vars, NEW m \in MutationIds, NEW receipt,
           Clashed(m, receipt)
    PROVE  Clashed(m, receipt)'
  BY PaymentKept DEF Clashed, IsDeduped, B!Parsed

\* An answer given stays right: the receipt it repeats is stored for good.
LEMMA RightKept ==
    ASSUME Inv, RefInv, [Next]_vars, NEW m \in MutationIds,
           NEW receipt \in Receipts, Right(m, receipt)
    PROVE  Right(m, receipt)'
<1>1. IsDeduped(receipt) => PaymentLogged(m)'
  BY PaymentKept DEF Right
<1>2. receipt # NoReceipt
  BY DEF Receipts, Codes, ParseCodes, NoReceipt
<1>3. receipt = receipts[m] => receipt = receipts'[m]
  BY <1>2, ReceiptKept
<1>. QED
  BY <1>1, <1>3 DEF Right, IsDeduped

\* So does the answer a request is about to give.
LEMMA ForeseenKept ==
    ASSUME Inv, RefInv, [Next]_vars, NEW m \in MutationIds,
           NEW receipt \in Receipts, Foreseen(m, receipt)
    PROVE  Foreseen(m, receipt)'
<1>1. receipt # NoReceipt
  BY DEF Receipts, Codes, ParseCodes, NoReceipt
<1>2. receipt = receipts[m] => receipt = receipts'[m]
  BY <1>1, ReceiptKept
<1>3. Clashed(m, receipt) => Clashed(m, receipt)'
  BY ClashedKept
<1>. QED
  BY <1>2, <1>3 DEF Foreseen, B!Parsed

\* What can become the receipt of a mutation, as long as nothing fails.
LEMMA NewReceipt ==
    ASSUME Inv, RefInv, AnswersInv, [Next]_vars, faults' = 0,
           NEW m \in MutationIds, receipts'[m] # receipts[m]
    PROVE  /\ faults = 0
           /\ Stored(m)'
           /\ \A g \in Handlers :
                 (pc[g] \in Locking /\ pc'[g] = pc[g] /\ Current(g) = m) =>
                     Clashed(m, receipts[m])'
<1>1. TypeOK /\ faults \in Nat
  BY DEF Inv, TypeOK
<1>2. ASSUME NEW h \in Handlers, Commit(h)
      PROVE  /\ faults = 0
             /\ Stored(m)'
             /\ \A g \in Handlers :
                   (pc[g] \in Locking /\ pc'[g] = pc[g]) => Current(g) # m
  <2>1. /\ pc[h] = "commit" /\ faults = 0
        /\ receipts' = [receipts EXCEPT ![Current(h)] = plan[h]]
    BY <1>2 DEF Commit, CommitEffect
  <2>2. m = Current(h) /\ receipts'[m] = plan[h]
    BY <1>1, <2>1 DEF TypeOK
  <2>3. B!Parsed(Mutations[m]) /\ PlanJustified(h)
    BY <2>1, <2>2 DEF RefInv, Justified, Locking, Body
  <2>4. Mutations[m].parse \in ParseCodes
    BY SyncServerAssumption DEF Bodies
  <2>5. IsDeduped(plan[h]) => PaymentLogged(m)
    <3>1. IsDeduped(plan[h]) => plan[h] \notin B!Reasons(Body(h))
      BY <2>2, <2>4 DEF IsDeduped, B!Reasons, ParseCodes, Body
    <3>. QED
      BY <2>2, <2>3, <3>1 DEF PlanJustified, Dedupes, PaymentLogged, IsDeduped
  <2>6. Stored(m)'
    <3>1. IsDeduped(plan[h]) => PaymentLogged(m)'
      BY <2>5, PaymentKept
    <3>. QED
      BY <2>2, <2>3, <3>1 DEF Stored, IsDeduped, B!Parsed
  <2>7. ASSUME NEW g \in Handlers, pc[g] \in Locking, pc'[g] = pc[g]
        PROVE  Current(g) # m
    <3>1. g # h
      BY <1>1, <1>2, <2>7 DEF Commit, TypeOK, Locking
    <3>2. Body(g).tx # Body(h).tx
      BY <2>1, <2>7, <3>1 DEF Inv, LockExclusive, Locking
    <3>. QED
      BY <2>2, <3>2 DEF Body
  <2>. QED
    BY <2>1, <2>6, <2>7
<1>3. ASSUME NEW h \in Handlers, Record(h)
      PROVE  /\ faults = 0
             /\ Stored(m)'
             /\ \A g \in Handlers :
                   (pc[g] \in Locking /\ pc'[g] = pc[g] /\ Current(g) = m) =>
                       Clashed(m, receipts[m])'
  <2>1. /\ pc[h] = "record" /\ faults = 0 /\ log' = log
        /\ receipts' = [receipts EXCEPT ![Current(h)] =
                            RecordOnce(Current(h), reply[h])]
    BY <1>3 DEF Record
  <2>2. m = Current(h) /\ receipts'[m] = reply[h] /\ receipts[m] = NoReceipt
    BY <1>1, <2>1 DEF TypeOK, RecordOnce
  <2>3. Foreseen(m, reply[h]) /\ reply[h] # NoReceipt
    BY <1>1, <2>1, <2>2 DEF AnswersInv, Answers, TypeOK
  <2>4. \/ Clashed(m, reply[h])
        \/ ~B!Parsed(Mutations[m]) /\ reply[h] = Rejected(Mutations[m].parse, 0)
    BY <2>2, <2>3 DEF Foreseen
  <2>5. Mutations[m].parse \in ParseCodes
    BY SyncServerAssumption DEF Bodies
  <2>6. CASE Clashed(m, reply[h])
    <3>1. Clashed(m, reply[h])'
      <4>1. ASSUME NEW r, r = reply[h]
            PROVE  Clashed(m, r)'
        BY <2>6, <4>1, ClashedKept
      <4>2. reply' = reply
        BY <1>3 DEF Record
      <4>. QED
        BY <4>1, <4>2
    <3>2. Clashed(m, receipts[m])'
      BY <1>3, <2>2, <3>1 DEF Record
    <3>3. Stored(m)'
      <4>1. B!Parsed(Mutations[m])
        BY <2>6 DEF Clashed, PaymentLogged
      <4>2. IsDeduped(receipts[m])' => PaymentLogged(m)'
        BY <3>2 DEF Clashed, IsDeduped, Rejected
      <4>. QED
        BY <4>1, <4>2 DEF Stored, B!Parsed
    <3>. QED
      BY <2>1, <3>2, <3>3
  <2>7. CASE /\ ~B!Parsed(Mutations[m])
             /\ reply[h] = Rejected(Mutations[m].parse, 0)
    <3>1. ~IsDeduped(reply[h])
      BY <2>5, <2>7 DEF IsDeduped, Rejected, ParseCodes
    <3>2. Stored(m)'
      BY <2>2, <2>7, <3>1 DEF Stored, IsDeduped, B!Parsed
    <3>3. \A g \in Handlers : pc[g] \in Locking => Current(g) # m
      BY <2>7 DEF RefInv, Justified, Body
    <3>. QED
      BY <2>1, <3>2, <3>3
  <2>. QED
    BY <2>4, <2>6, <2>7
<1>4. ASSUME NEW h \in Handlers,
             CommitUnacknowledged(h) \/ TxError(h) \/ Fail(h)
      PROVE  FALSE
  BY <1>1, <1>4 DEF CommitUnacknowledged, TxError, Fail
<1>5. ASSUME NEW h \in Handlers,
             \/ \E batch \in Batches : Receive(h, batch)
             \/ Replay(h) \/ RejectPayload(h) \/ StartTx(h) \/ LockEntity(h)
             \/ Read(h) \/ Write(h) \/ Respond(h)
      PROVE  receipts' = receipts
  BY <1>5 DEF Receive, Replay, RejectPayload, StartTx, LockEntity, Read,
              Write, Respond, dbVars
<1>6. CASE \/ \E a \in AccountIds : AddAccount(a)
           \/ \E d \in Readers : Pull(d)
           \/ UNCHANGED vars
  BY <1>6 DEF AddAccount, Pull, vars, dbVars
<1>. QED
  BY <1>2, <1>3, <1>4, <1>5, <1>6 DEF Next

\* The faults counted so far do not go away.
LEMMA FaultsKept ==
    ASSUME TypeOK, [Next]_vars, faults' = 0
    PROVE  faults = 0
<1>1. faults \in Nat
  BY DEF TypeOK
<1>2. faults' \in {faults, faults + 1}
  BY DEF Next, Receive, Replay, RejectPayload, StartTx, LockEntity, Read,
         Write, Commit, Record, Respond, CommitUnacknowledged, TxError, Fail,
         AddAccount, Pull, vars
<1>. QED
  BY <1>1, <1>2

\* The answers of a request survive the steps of the others.
LEMMA AnswersKept ==
    ASSUME Inv, RefInv, AnswersInv, [Next]_vars, faults' = 0,
           NEW g \in Handlers, Same(g)
    PROVE  Answers(g)'
<1>1. TypeOK /\ faults = 0 /\ Answers(g)
  <2>1. TypeOK
    BY DEF Inv
  <2>. QED
    BY <2>1, FaultsKept DEF AnswersInv
<1>2. Current(g)' = Current(g)
  BY DEF Same, Current
<1>3. ASSUME pc'[g] = "record"
      PROVE  Foreseen(Current(g), reply[g])'
  <2>1. todo[g] # <<>> /\ reply[g] \in Receipts /\ pc[g] = "record"
    BY <1>1, <1>3 DEF Same, TypeOK
  <2>2. Current(g) \in MutationIds
    BY <1>1, <2>1, CurrentType
  <2>3. Foreseen(Current(g), reply[g]) /\ reply'[g] = reply[g]
    BY <1>1, <2>1 DEF Answers, Same
  <2>. QED
    BY <1>2, <2>1, <2>2, <2>3, ForeseenKept
<1>4. ASSUME pc'[g] \in Locking
      PROVE  \/ receipts'[Current(g)] = NoReceipt
             \/ Clashed(Current(g), receipts[Current(g)])'
  <2>1. todo[g] # <<>> /\ pc[g] \in Locking /\ pc'[g] = pc[g]
    BY <1>1, <1>4 DEF Same, TypeOK, Locking
  <2>2. Current(g) \in MutationIds
    BY <1>1, <2>1, CurrentType
  <2>3. \/ receipts[Current(g)] = NoReceipt
        \/ Clashed(Current(g), receipts[Current(g)])
    BY <1>1, <2>1 DEF Answers
  <2>4. CASE receipts'[Current(g)] = receipts[Current(g)]
    <3>1. ASSUME NEW m, m = Current(g), NEW r, r = receipts[m], Clashed(m, r)
          PROVE  Clashed(m, r)'
      BY <2>2, <3>1, ClashedKept
    <3>. QED
      BY <1>2, <2>3, <2>4, <3>1
  <2>5. CASE receipts'[Current(g)] # receipts[Current(g)]
    <3>1. ASSUME NEW m, m = Current(g)
          PROVE  Clashed(m, receipts[m])'
      BY <2>1, <2>2, <2>5, <3>1, NewReceipt
    <3>. QED
      BY <1>2, <3>1
  <2>. QED
    BY <2>4, <2>5
<1>5. ASSUME NEW o \in out[g]
      PROVE  Right(o[1], o[2])'
  <2>1. o[1] \in MutationIds /\ o[2] \in Receipts
    BY <1>1 DEF TypeOK
  <2>. QED
    BY <1>1, <2>1, RightKept DEF Answers
<1>6. out'[g] = out[g]
  BY DEF Same
<1>. QED
  BY <1>2, <1>3, <1>4, <1>5, <1>6 DEF Answers
\* A request's own step adds only right answers.
LEMMA OwnAnswers ==
    ASSUME Inv, RefInv, AnswersInv, [Next]_vars, faults' = 0,
           NEW h \in Handlers, RequestStep(h)
    PROVE  Answers(h)'
<1>. USE DEF Locking
<1>1. /\ TypeOK /\ faults = 0 /\ Answers(h)
      /\ \A m \in MutationIds : Stored(m)
  <2>1. TypeOK
    BY DEF Inv
  <2>. QED
    BY <2>1, FaultsKept DEF AnswersInv
<1>2. pc \in [Handlers -> {"idle", "lookup", "begin", "record"} \cup Locking]
      /\ todo \in [Handlers -> Seq(MutationIds)]
      /\ reply \in [Handlers -> Receipts \cup {NoReceipt}]
      /\ out \in [Handlers -> SUBSET (MutationIds \X Receipts)]
  BY <1>1 DEF TypeOK
<1>3. \A o \in out[h] : Right(o[1], o[2])'
  <2>1. \A o \in out[h] : o[1] \in MutationIds /\ o[2] \in Receipts
    BY <1>2
  <2>. QED
    BY <1>1, <2>1, RightKept DEF Answers
<1>4. pc[h] \notin {"idle", "lookup"} => Current(h) \in MutationIds
  <2>1. pc[h] \notin {"idle", "lookup"} => todo[h] # <<>>
    BY <1>1 DEF TypeOK
  <2>. QED
    BY <1>1, <2>1, CurrentType
<1>5. CASE \/ \E batch \in Batches : Receive(h, batch)
           \/ StartTx(h) \/ Respond(h)
  <2>1. pc'[h] \in {"idle", "lookup", "begin"} /\ out'[h] \in {{}, out[h]}
    BY <1>2, <1>5 DEF Receive, StartTx, Respond
  <2>. QED
    BY <1>3, <2>1 DEF Answers
<1>6. CASE Replay(h)
  <2>1. /\ pc'[h] = "lookup" /\ todo[h] # <<>>
        /\ out'[h] = out[h] \cup {<<Current(h), receipts[Current(h)]>>}
        /\ UNCHANGED <<rows, log, receipts>>
    BY <1>2, <1>6 DEF Replay, dbVars
  <2>2. Current(h) \in MutationIds
    BY <1>1, <2>1, CurrentType
  <2>3. Right(Current(h), receipts[Current(h)])
    BY <1>1, <2>2 DEF Stored, Right
  <2>4. \A o \in out'[h] : Right(o[1], o[2])'
    BY <1>3, <2>1, <2>3 DEF Right, PaymentLogged, Payments, B!Parsed
  <2>. QED
    BY <2>1, <2>4 DEF Answers
<1>7. ASSUME pc'[h] = "record", todo'[h] = todo[h], out'[h] = out[h],
             Foreseen(Current(h), reply[h])'
      PROVE  Answers(h)'
  BY <1>3, <1>7 DEF Answers
<1>8. CASE RejectPayload(h)
  <2>1. /\ pc'[h] = "record" /\ todo'[h] = todo[h] /\ out'[h] = out[h]
        /\ reply'[h] = Rejected(Body(h).parse, 0)
        /\ ~B!Parsed(Body(h))
    BY <1>2, <1>8 DEF RejectPayload, B!Parsed
  <2>2. Current(h)' = Current(h)
    BY <2>1 DEF Current
  <2>3. Foreseen(Current(h), reply[h])'
    BY <2>1, <2>2 DEF Foreseen, Body, B!Parsed
  <2>. QED
    BY <1>7, <2>1, <2>3
<1>9. CASE LockEntity(h)
  <2>1. /\ todo'[h] = todo[h] /\ out'[h] = out[h] /\ receipts' = receipts
        /\ \/ pc'[h] = "read" /\ receipts[Current(h)] = NoReceipt
           \/ pc'[h] = "record" /\ reply'[h] = receipts[Current(h)]
    BY <1>2, <1>9 DEF LockEntity, dbVars
  <2>2. Current(h)' = Current(h)
    BY <2>1 DEF Current
  <2>3. CASE pc'[h] = "read"
    BY <1>3, <2>1, <2>2, <2>3 DEF Answers
  <2>4. CASE pc'[h] = "record"
    <3>1. Foreseen(Current(h), reply[h])'
      BY <2>1, <2>2, <2>4 DEF Foreseen
    <3>. QED
      BY <1>7, <2>1, <2>4, <3>1
  <2>. QED
    BY <2>1, <2>3, <2>4
<1>10. CASE Read(h)
  <2>1. /\ todo'[h] = todo[h] /\ out'[h] = out[h] /\ receipts' = receipts
        /\ pc[h] = "read" /\ pc'[h] = "write" /\ UNCHANGED <<rows, log>>
    BY <1>2, <1>10 DEF Read, dbVars
  <2>2. Current(h)' = Current(h)
    BY <2>1 DEF Current
  <2>. QED
    BY <1>1, <1>3, <2>1, <2>2
    DEF Answers, Clashed, PaymentLogged, Payments, B!Parsed
<1>11. CASE Write(h)
  <2>1. /\ UNCHANGED <<rows, log, receipts, todo, out>>
        /\ pc[h] = "write"
    BY <1>11 DEF Write
  <2>2. Current(h)' = Current(h) /\ Current(h) \in MutationIds
    BY <1>4, <2>1 DEF Current
  <2>3. \/ receipts[Current(h)] = NoReceipt
        \/ Clashed(Current(h), receipts[Current(h)])
    BY <1>1, <2>1 DEF Answers
  <2>4. CASE pc'[h] = "commit"
    <3>1. Clashed(Current(h), receipts[Current(h)])' =
              Clashed(Current(h), receipts[Current(h)])
      BY <2>1, <2>2 DEF Clashed, PaymentLogged, Payments, B!Parsed
    <3>. QED
      BY <1>3, <2>1, <2>2, <2>3, <2>4, <3>1 DEF Answers
  <2>5. CASE pc'[h] # "commit"
    <3>1. /\ pc'[h] = "record"
          /\ CasFails(h) \/ FpClash(h) \/ receipts[Current(h)] # NoReceipt
          /\ reply'[h] = IF CasFails(h) THEN Rejected("DB_ERROR", 0)
                                        ELSE ClassifyUniqueViolation(h)
      BY <1>2, <1>11, <2>5 DEF Write
    <3>2. ~CasFails(h)
      BY <2>1 DEF Inv, PlanCurrent, CasFails
    <3>3. RowsFromLog /\ B!Parsed(Body(h))
      BY <2>1 DEF RefInv, Justified
    <3>4. \/ PaymentLogged(Current(h))
          \/ Body(h).source = "auto_ledger" /\ Body(h).fp = NoFp
      <4>1. CASE FpClash(h)
        <5>1. EntersIndex(h) /\ NewKey(h) # NoFp
          BY <4>1 DEF FpClash, EntersIndex
        <5>2. PICK t \in LiveByFp(NewKey(h)) : TRUE
          BY <4>1 DEF FpClash
        <5>3. /\ Body(h).source = "auto_ledger" /\ t # Body(h).tx
              /\ NewKey(h) \in Payments(Body(h))
          BY <1>1, <2>2, <3>3, <5>1, <5>2, EntersTagged
        <5>4. \E e \in log : /\ Mutations[e.by].fp = NewKey(h)
                             /\ e.tx = t /\ e.version = 1
          BY <1>1, <3>3, <5>1, <5>2, LiveIsLogged
        <5>. QED
          BY <3>3, <5>3, <5>4
          DEF PaymentLogged, is_auto_ledger_fingerprint, Body
      <4>2. CASE receipts[Current(h)] # NoReceipt
        BY <2>3, <4>2 DEF Clashed, Body
      <4>. QED
        BY <3>1, <3>2, <4>1, <4>2
    <3>5. Clashed(Current(h), reply'[h])
      <4>1. CASE PaymentLogged(Current(h))
        BY <3>1, <3>2, <4>1
        DEF ClassifyUniqueViolation, PaymentLogged, Clashed, IsDeduped,
            Deduped, Body
      <4>2. CASE Body(h).source = "auto_ledger" /\ Body(h).fp = NoFp
        BY <3>1, <3>2, <3>3, <4>2
        DEF ClassifyUniqueViolation, is_auto_ledger_fingerprint, Clashed, Body
      <4>. QED
        BY <3>4, <4>1, <4>2
    <3>6. Clashed(Current(h), reply[h])'
      BY <2>1, <2>2, <3>5 DEF Clashed, PaymentLogged, Payments, B!Parsed
    <3>7. Foreseen(Current(h), reply[h])'
      BY <3>6 DEF Foreseen
    <3>. QED
      BY <1>7, <2>1, <3>1, <3>7
  <2>. QED
    BY <2>4, <2>5
<1>12. CASE Commit(h)
  <2>1. /\ pc'[h] = "record" /\ todo'[h] = todo[h] /\ out'[h] = out[h]
        /\ receipts' = [receipts EXCEPT ![Current(h)] = plan[h]]
        /\ reply'[h] = plan[h] /\ pc[h] = "commit"
    BY <1>2, <1>12 DEF Commit, CommitEffect
  <2>2. receipts'[Current(h)] = reply'[h] /\ Current(h)' = Current(h)
    BY <1>1, <1>4, <2>1 DEF TypeOK, Current
  <2>3. Foreseen(Current(h), reply[h])'
    BY <2>2 DEF Foreseen
  <2>. QED
    BY <1>7, <2>1, <2>3
<1>13. CASE Record(h)
  <2>1. /\ pc[h] = "record" /\ pc'[h] = "lookup"
        /\ out'[h] = out[h] \cup {<<Current(h), reply[h]>>}
        /\ receipts' = [receipts EXCEPT ![Current(h)] =
                            RecordOnce(Current(h), reply[h])]
    BY <1>2, <1>13 DEF Record
  <2>2. Current(h) \in MutationIds /\ reply[h] \in Receipts
    BY <1>1, <1>4, <2>1 DEF TypeOK
  <2>3. receipts'[Current(h)] = RecordOnce(Current(h), reply[h])
    BY <1>1, <2>1, <2>2 DEF TypeOK
  <2>4. Foreseen(Current(h), reply[h]) /\ Stored(Current(h))
    BY <1>1, <2>1, <2>2 DEF Answers
  <2>5. IsDeduped(reply[h]) => PaymentLogged(Current(h))
    <3>1. Body(h).parse \in ParseCodes
      BY <2>2, SyncServerAssumption DEF Bodies, Body
    <3>. QED
      BY <2>4, <3>1
      DEF Foreseen, Clashed, Stored, IsDeduped, Rejected, ParseCodes, Body
  <2>6. Mutations[Current(h)].source # "auto_ledger" =>
            reply[h] = receipts'[Current(h)]
    BY <2>3, <2>4
    DEF Foreseen, Clashed, Stored, RecordOnce, PaymentLogged,
        is_auto_ledger_fingerprint
  <2>7. ASSUME NEW m, NEW r, m = Current(h), r = reply[h]
        PROVE  Right(m, r)'
    <3>1. IsDeduped(r) => PaymentLogged(m)
      BY <2>5, <2>7
    <3>2. IsDeduped(r) => PaymentLogged(m)'
      BY <2>2, <2>7, <3>1, PaymentKept
    <3>3. Mutations[m].source # "auto_ledger" => r = receipts'[m]
      BY <2>6, <2>7
    <3>. QED
      BY <3>2, <3>3 DEF Right, IsDeduped
  <2>8. \A o \in out'[h] : Right(o[1], o[2])'
    BY <1>3, <2>1, <2>7
  <2>. QED
    BY <2>1, <2>8 DEF Answers
<1>14. CASE CommitUnacknowledged(h) \/ TxError(h) \/ Fail(h)
  BY <1>1, <1>14 DEF CommitUnacknowledged, TxError, Fail
<1>. QED
  BY <1>5, <1>6, <1>8, <1>9, <1>10, <1>11, <1>12, <1>13, <1>14
  DEF RequestStep, Step

\* The answers stay right as long as nothing fails.
LEMMA AnswersStep == Inv /\ RefInv /\ AnswersInv /\ [Next]_vars => AnswersInv'
<1>. SUFFICES ASSUME Inv, RefInv, AnswersInv, [Next]_vars, faults' = 0
     PROVE  /\ \A m \in MutationIds : Stored(m)'
            /\ \A h \in Handlers : Answers(h)'
            /\ \A a \in acked' : Right(a[1], a[2])'
  BY DEF AnswersInv
<1>1. TypeOK
  BY DEF Inv
<1>2. faults = 0
  BY <1>1, FaultsKept
<1>3. ASSUME NEW m \in MutationIds
      PROVE  Stored(m)'
  <2>1. CASE receipts'[m] # receipts[m]
    BY <2>1, NewReceipt
  <2>2. CASE receipts'[m] = receipts[m]
    <3>1. Stored(m)
      BY <1>2 DEF AnswersInv
    <3>2. PaymentLogged(m) => PaymentLogged(m)'
      BY PaymentKept
    <3>. QED
      BY <2>2, <3>1, <3>2 DEF Stored, IsDeduped, B!Parsed
  <2>. QED
    BY <2>1, <2>2
<1>4. \A h \in Handlers : Answers(h)'
  <2>1. ASSUME NEW h \in Handlers, RequestStep(h)
        PROVE  \A g \in Handlers : Answers(g)'
    <3>1. \A g \in Handlers \ {h} : Answers(g)'
      BY <1>1, <2>1, OthersSame, AnswersKept
    <3>2. Answers(h)'
      BY <2>1, OwnAnswers
    <3>. QED
      BY <3>1, <3>2
  <2>2. CASE \/ \E a \in AccountIds : AddAccount(a)
             \/ \E d \in Readers : Pull(d)
             \/ UNCHANGED vars
    <3>1. UNCHANGED <<pc, todo, plan, reply, out>>
      BY <2>2 DEF AddAccount, Pull, vars, dbVars
    <3>. QED
      BY <3>1, AnswersKept DEF Same
  <2>. QED
    BY <2>1, <2>2 DEF Next, RequestStep, Step
<1>5. ASSUME NEW a \in acked'
      PROVE  Right(a[1], a[2])'
  <2>1. a \in acked \/ \E h \in Handlers : a \in out[h]
    BY DEF Next, Receive, Replay, RejectPayload, StartTx, LockEntity, Read,
           Write, Commit, Record, Respond, CommitUnacknowledged, TxError, Fail,
           AddAccount, Pull, vars
  <2>2. a[1] \in MutationIds /\ a[2] \in Receipts
    BY <1>1, <2>1 DEF TypeOK
  <2>3. Right(a[1], a[2])
    BY <1>2, <2>1 DEF AnswersInv, Answers
  <2>. QED
    BY <2>2, <2>3, RightKept
<1>. QED
  BY <1>3, <1>4, <1>5

\* The inductive invariants hold in every reachable state.
THEOREM RefInvariance == Spec => [](RefInv /\ AnswersInv)
<1>1. Init => AnswersInv
  BY DEF Init, AnswersInv, Stored, IsDeduped, Answers, Locking, NoReceipt
<1>. QED
  BY <1>1, RefInvInit, RefInvStep, AnswersStep, Invariance, PTL DEF Spec

\* A server that meets no fault answers every send of a mutation that is not
\* tagged auto_ledger with the same receipt, and AUTO_LEDGER_DEDUPED only for a
\* payment that has been booked under another id.
THEOREM FaultlessAnswersHold == Spec => []AnswersHold
<1>1. AnswersInv => AnswersHold
  BY DEF AnswersInv, Right, IsDeduped, PaymentLogged, AnswersHold
<1>. QED
  BY <1>1, RefInvariance, PTL
=============================================================================
