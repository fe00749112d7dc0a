-------------------------- MODULE SyncServerProofs --------------------------
(***************************************************************************)
(* Proofs about SyncServer, for every set of requests, devices, rows and   *)
(* mutations and every bound.                                              *)
(*                                                                         *)
(* None of the properties is inductive: a commit installs what Read and    *)
(* Write settled earlier.  The invariant carries the reasons across those  *)
(* steps.  The entity lock keeps the row a request has read unchanged      *)
(* until it commits (LockExclusive, PlanCurrent); the primary key of       *)
(* sync_mutations keeps the receipt absent (ReceiptAbsent); a sequence     *)
(* drawn under the lock is above every change of the row (SeqAhead); the   *)
(* unique index keeps the fingerprint free (FpReserved).                   *)
(***************************************************************************)
EXTENDS SyncServer, SequenceTheorems, TLAPS

Booked(m, version) == \E e \in log : e.by = m /\ e.version = version

LockExclusive ==
    \A g, h \in Handlers :
        (g # h /\ pc[g] \in Locking /\ pc[h] \in Locking)
            => Body(g).tx # Body(h).tx

PlanCurrent ==
    \A h \in Handlers :
        (pc[h] \in {"write", "commit"} /\ plan[h].code = "OK") =>
            /\ plan[h].version = rows[Body(h).tx].version + 1
            /\ ~Conflicts(Body(h))

ReceiptAbsent ==
    \A h \in Handlers : pc[h] = "commit" => receipts[Current(h)] = NoReceipt

\* The second conjunct of AllOrNothing, with the version; and the same for
\* the answers on their way to the devices.
AnswersTrue ==
    /\ \A m \in MutationIds :
          receipts[m].code = "OK" => Booked(m, receipts[m].version)
    /\ \A h \in Handlers :
          (pc[h] = "record" /\ reply[h].code = "OK") =>
              Booked(Current(h), reply[h].version)
    /\ \A h \in Handlers : \A o \in out[h] :
          o[2].code = "OK" => Booked(o[1], o[2].version)
    /\ \A a \in acked : a[2].code = "OK" => Booked(a[1], a[2].version)

SeqAhead ==
    /\ \A e \in log : e.seq <= lastSeq
    /\ \A h \in Handlers :
          Writes(h) =>
              /\ sq[h] <= lastSeq
              /\ \A e \in log : e.tx = Body(h).tx => e.seq < sq[h]

VersionsCover ==
    /\ \A e \in log : 1 <= e.version /\ e.version <= rows[e.tx].version
    /\ \A t \in TxIds : \A v \in 1 .. rows[t].version :
          \E e \in log : e.tx = t /\ e.version = v

FpReserved ==
    \A h \in Handlers :
        (Writes(h) /\ NewKey(h) # NoFp) =>
            /\ LiveByFp(NewKey(h)) \subseteq {Body(h).tx}
            /\ \A g \in Handlers \ {h} : Writes(g) => NewKey(g) # NewKey(h)

LogMatchesReceipts == \A e \in log : receipts[e.by] = Applied(e.version)

Inv ==
    /\ TypeOK
    /\ LockExclusive
    /\ PlanCurrent
    /\ ReceiptAbsent
    /\ LogMatchesReceipts
    /\ AnswersTrue
    /\ SeqAhead
    /\ VersionsCover
    /\ AtMostOnce
    /\ LogOrder
    /\ BaseRespected
    /\ FpReserved
    /\ OneLiveRowPerFp

-----------------------------------------------------------------------------
(***************************************************************************)
(* Types.                                                                  *)
(***************************************************************************)

\* A request that is handling a mutation handles one of MutationIds, and the
\* body sent under it has the type of a body.
LEMMA CurrentType ==
    ASSUME TypeOK, NEW h \in Handlers, todo[h] # <<>>
    PROVE  /\ Current(h) \in MutationIds
           /\ Body(h) \in Bodies
           /\ Tail(todo[h]) \in Seq(MutationIds)
<1>1. todo[h] \in Seq(MutationIds)
  BY DEF TypeOK
<1>2. Head(todo[h]) \in MutationIds /\ Tail(todo[h]) \in Seq(MutationIds)
  BY <1>1, HeadTailProperties
<1>. QED
  BY <1>2, SyncServerAssumption DEF Current, Body

\* The decision is a receipt.
LEMMA DecideType ==
    ASSUME TypeOK, NEW b \in Bodies
    PROVE  Decide(b) \in Receipts
<1>1. rows[b.tx].version \in Nat
  BY DEF TypeOK, Rows, Bodies
<1>2. \A t \in TxIds : rows[t].version \in Nat
  BY DEF TypeOK, Rows
<1>3. IsDuplicate(b) => (CHOOSE t \in LiveByFp(b.fp) : TRUE) \in TxIds
  BY DEF IsDuplicate, LiveByFp
<1>. QED
  BY <1>1, <1>2, <1>3
  DEF Decide, Rejected, Deduped, Applied, Receipts, Codes, ParseCodes

\* Type correctness: no step of any request, however it fails, leaves the
\* state the database schema and the handler's locals describe.
LEMMA TypeStep ==
    ASSUME TypeOK, [Next]_vars
    PROVE  TypeOK'
<1>. USE DEF TypeOK, Locking
<1>1. ASSUME NEW h \in Handlers, NEW batch \in Batches, Receive(h, batch)
      PROVE  TypeOK'
  BY <1>1, SyncServerAssumption DEF Receive, dbVars, readerVars
<1>2. ASSUME NEW h \in Handlers, Replay(h)
      PROVE  TypeOK'
  <2>1. Current(h) \in MutationIds /\ Tail(todo[h]) \in Seq(MutationIds)
    BY <1>2, CurrentType DEF Replay
  <2>. QED
    BY <1>2, <2>1 DEF Replay, dbVars, readerVars
<1>3. ASSUME NEW h \in Handlers, RejectPayload(h)
      PROVE  TypeOK'
  <2>1. Body(h) \in Bodies
    BY <1>3, CurrentType DEF RejectPayload
  <2>2. Rejected(Body(h).parse, 0) \in Receipts
    BY <2>1 DEF Rejected, Receipts, Bodies, Codes
  <2>3. Rejected(Body(h).parse, 0) # NoReceipt
    BY <2>2 DEF Receipts, Codes, ParseCodes, NoReceipt
  <2>. QED
    BY <1>3, <2>2, <2>3 DEF RejectPayload, dbVars, readerVars
<1>4. ASSUME NEW h \in Handlers, StartTx(h)
      PROVE  TypeOK'
  BY <1>4 DEF StartTx, dbVars, readerVars
<1>5. ASSUME NEW h \in Handlers, LockEntity(h)
      PROVE  TypeOK'
  <2>1. Current(h) \in MutationIds
    BY <1>5, CurrentType DEF LockEntity
  <2>. QED
    BY <1>5, <2>1 DEF LockEntity, dbVars, readerVars
<1>6. ASSUME NEW h \in Handlers, Read(h)
      PROVE  TypeOK'
  <2>1. Decide(Body(h)) \in Receipts
    BY <1>6, CurrentType, DecideType DEF Read
  <2>2. Decide(Body(h)) # NoReceipt
    BY <2>1 DEF Receipts, Codes, ParseCodes, NoReceipt
  <2>. QED
    BY <1>6, <2>1, <2>2 DEF Read, dbVars, readerVars
<1>7. ASSUME NEW h \in Handlers, Write(h)
      PROVE  TypeOK'
  <2>1. /\ Rejected("DB_ERROR", 0) \in Receipts \ {NoReceipt}
        /\ ClassifyUniqueViolation(h) \in Receipts \ {NoReceipt}
    BY DEF ClassifyUniqueViolation, Rejected, Deduped, Receipts, Codes,
           ParseCodes, NoReceipt
  <2>2. lastSeq' \in Nat /\ sq' \in [Handlers -> Nat]
    <3>1. \/ lastSeq' = lastSeq + 1 /\ sq' = [sq EXCEPT ![h] = lastSeq + 1]
          \/ lastSeq' = lastSeq /\ sq' = sq
      BY <1>7, Zenon DEF Write
    <3>2. lastSeq \in Nat /\ sq \in [Handlers -> Nat]
      OBVIOUS
    <3>. HIDE DEF TypeOK
    <3>. QED
      BY <3>1, <3>2
  <2>3. CASE pc' = [pc EXCEPT ![h] = "commit"] /\ reply' = reply
    BY <1>7, <2>2, <2>3 DEF Write, readerVars
  <2>4. CASE /\ pc' = [pc EXCEPT ![h] = "record"]
             /\ \E r \in Receipts \ {NoReceipt} :
                   reply' = [reply EXCEPT ![h] = r]
    BY <1>7, <2>2, <2>4 DEF Write, readerVars
  <2>. QED
    BY <1>7, <2>1, <2>3, <2>4 DEF Write
<1>8. ASSUME NEW h \in Handlers, Current(h) \in MutationIds, CommitEffect(h)
      PROVE  /\ rows' \in [TxIds -> Rows]
             /\ log' \subseteq Changes
             /\ receipts' \in [MutationIds -> Receipts \cup {NoReceipt}]
  <2>1. Mutations[Current(h)] \in Bodies
    BY <1>8, SyncServerAssumption
  <2>2. NewRow(Current(h)) \in Rows
    <3>. DEFINE r == rows[Mutations[Current(h)].tx]
    <3>1. r \in Rows
      BY <2>1 DEF Bodies
    <3>2. /\ NewRow(Current(h)).version \in Nat
          /\ NewRow(Current(h)).by \in MutationIds \cup {NoMutation}
          /\ NewRow(Current(h)).fp \in Fingerprints \cup {NoFp}
      BY <1>8, <2>1, <3>1 DEF NewRow, Rows, Bodies
    <3>3. r.deleted \in BOOLEAN /\ r.auto \in BOOLEAN
      BY <3>1 DEF Rows
    <3>4. /\ NewRow(Current(h)).deleted \in BOOLEAN
          /\ NewRow(Current(h)).auto \in BOOLEAN
      BY <3>3 DEF NewRow
    <3>. QED
      BY <3>2, <3>4 DEF NewRow, Rows
  <2>3. NewChange(Current(h), sq[h]) \in Changes
    BY <1>8, <2>1 DEF NewChange, Changes, Bodies, Rows
  <2>. QED
    BY <1>8, <2>1, <2>2, <2>3, ZenonT(60) DEF CommitEffect, Bodies
<1>9. ASSUME NEW h \in Handlers, Commit(h)
      PROVE  TypeOK'
  <2>1. Current(h) \in MutationIds
    BY <1>9, CurrentType DEF Commit
  <2>. QED
    BY <1>8, <1>9, <2>1 DEF Commit, readerVars
<1>10. ASSUME NEW h \in Handlers, CommitUnacknowledged(h)
       PROVE  TypeOK'
  <2>1. Current(h) \in MutationIds
    BY <1>10, CurrentType DEF CommitUnacknowledged
  <2>2. Rejected("DB_ERROR", 0) \in Receipts \ {NoReceipt}
    BY DEF Rejected, Receipts, Codes, ParseCodes, NoReceipt
  <2>. QED
    BY <1>8, <1>10, <2>1, <2>2 DEF CommitUnacknowledged, readerVars
<1>11. ASSUME NEW h \in Handlers, TxError(h)
       PROVE  TypeOK'
  <2>1. Rejected("DB_ERROR", 0) \in Receipts \ {NoReceipt}
    BY DEF Rejected, Receipts, Codes, ParseCodes, NoReceipt
  <2>. QED
    BY <1>11, <2>1 DEF TxError, dbVars, readerVars
<1>12. ASSUME NEW h \in Handlers, Record(h)
       PROVE  TypeOK'
  <2>1. Current(h) \in MutationIds /\ Tail(todo[h]) \in Seq(MutationIds)
    BY <1>12, CurrentType DEF Record
  <2>. QED
    BY <1>12, <2>1 DEF Record, RecordOnce, readerVars
<1>13. ASSUME NEW h \in Handlers, Respond(h) \/ Fail(h)
       PROVE  TypeOK'
  <2>1. /\ pc' = [pc EXCEPT ![h] = "idle"]
        /\ UNCHANGED <<rows, log, lastSeq, receipts, accounts, todo, plan, sq,
                       reply, out, cursor, seen, pushes>>
    BY <1>13 DEF Respond, Fail, dbVars, readerVars
  <2>2. acked' \subseteq MutationIds \X Receipts /\ faults' \in Nat
    BY <1>13 DEF Respond, Fail
  <2>. QED
    BY <2>1, <2>2
<1>14. ASSUME NEW a \in AccountIds, AddAccount(a)
       PROVE  TypeOK'
  BY <1>14 DEF AddAccount, readerVars
<1>15. ASSUME NEW d \in Readers, Pull(d)
       PROVE  TypeOK'
  <2>1. Page(cursor[d]) \in SUBSET Changes
    BY DEF Page
  <2>2. PICK last \in LastOf(Page(cursor[d])) :
            cursor' = [cursor EXCEPT ![d] = last.seq]
    BY <1>15 DEF Pull
  <2>3. last.seq \in Nat
    BY <2>1, <2>2 DEF LastOf, Changes
  <2>. QED
    BY <1>15, <2>1, <2>2, <2>3 DEF Pull, dbVars
<1>16. CASE UNCHANGED vars
  BY <1>16 DEF vars
<1>. QED
  BY <1>1, <1>2, <1>3, <1>4, <1>5, <1>6, <1>7, <1>9, <1>10, <1>11, <1>12,
     <1>13, <1>14, <1>15, <1>16 DEF Next

-----------------------------------------------------------------------------
(***************************************************************************)
(* Steps that leave rows and log alone and move no request further into    *)
(* its transaction.                                                        *)
(***************************************************************************)

Quiet ==
    /\ UNCHANGED <<rows, log, plan>>
    /\ lastSeq' \in Nat /\ lastSeq <= lastSeq'
    /\ \A g \in Handlers :
          pc'[g] \in Locking =>
              pc'[g] = pc[g] /\ todo'[g] = todo[g] /\ sq'[g] = sq[g]

\* What the open transactions rely on survives a quiet step: nobody gains a
\* lock, and the rows, changes and sequences they saw are still there.
LEMMA QuietStep ==
    ASSUME Inv, Quiet
    PROVE  /\ LockExclusive' /\ PlanCurrent' /\ SeqAhead' /\ VersionsCover'
           /\ AtMostOnce' /\ LogOrder' /\ BaseRespected' /\ FpReserved'
           /\ OneLiveRowPerFp'
<1>. USE DEF Locking
<1>1. \A g \in Handlers :
          pc'[g] \in Locking =>
              /\ pc[g] \in Locking
              /\ Current(g)' = Current(g)
              /\ Body(g)' = Body(g)
  BY DEF Quiet, Current, Body
<1>2. \A g \in Handlers : Writes(g)' => /\ Writes(g)
                                        /\ Body(g)' = Body(g)
                                        /\ NewKey(g)' = NewKey(g)
  BY <1>1 DEF Quiet, Writes, NewKey, NewRow
<1>3. /\ \A b : Conflicts(b)' = Conflicts(b)
      /\ \A fp : LiveByFp(fp)' = LiveByFp(fp)
  BY DEF Quiet, Conflicts, LiveByFp
<1>4. LockExclusive'
  BY <1>1 DEF Inv, LockExclusive
<1>5. PlanCurrent'
  BY <1>1, <1>3 DEF Inv, PlanCurrent, Quiet
<1>6. SeqAhead'
  <2>1. \A e \in log : e.seq <= lastSeq'
    BY DEF Inv, SeqAhead, Quiet, TypeOK, Changes
  <2>2. ASSUME NEW h \in Handlers, Writes(h)'
        PROVE  /\ sq'[h] <= lastSeq'
               /\ \A e \in log : e.tx = Body(h)'.tx => e.seq < sq'[h]
    <3>1. sq'[h] = sq[h]
      BY <2>2 DEF Writes, Quiet
    <3>. QED
      BY <1>2, <2>2, <3>1 DEF Inv, SeqAhead, Quiet, TypeOK
  <2>. QED
    BY <2>1, <2>2 DEF SeqAhead, Quiet
<1>7. VersionsCover' /\ AtMostOnce' /\ LogOrder' /\ BaseRespected'
  BY DEF Inv, VersionsCover, AtMostOnce, LogOrder, BaseRespected, Quiet
<1>8. FpReserved'
  BY <1>2, <1>3 DEF Inv, FpReserved
<1>9. OneLiveRowPerFp'
  BY DEF Inv, OneLiveRowPerFp, Quiet
<1>. QED
  BY <1>4, <1>5, <1>6, <1>7, <1>8, <1>9

\* With the receipts unchanged as well, only the answers remain to be looked
\* at.
LEMMA QuietReceipts ==
    ASSUME Inv, Quiet, receipts' = receipts
    PROVE  ReceiptAbsent' /\ LogMatchesReceipts'
<1>1. \A g \in Handlers : pc'[g] = "commit" =>
          pc[g] = "commit" /\ Current(g)' = Current(g)
  BY DEF Quiet, Locking, Current
<1>2. ReceiptAbsent'
  BY <1>1 DEF Inv, ReceiptAbsent
<1>3. LogMatchesReceipts'
  BY DEF Inv, LogMatchesReceipts, Quiet
<1>. QED
  BY <1>2, <1>3

\* A quiet step that keeps the receipts preserves the invariant if the
\* answers it adds are true.
LEMMA QuietInv ==
    ASSUME Inv, TypeOK', Quiet, receipts' = receipts, AnswersTrue'
    PROVE  Inv'
  BY QuietStep, QuietReceipts DEF Inv

\* What has been booked stays booked in a step that keeps rows and log.
LEMMA BookedKept ==
    ASSUME log' = log, NEW m, NEW v
    PROVE  Booked(m, v)' = Booked(m, v)
  BY DEF Booked

\* The steps outside the transaction, and those that end it without effect.
LEMMA OutsideStep ==
    ASSUME Inv, TypeOK', NEW h \in Handlers,
           \/ \E batch \in Batches : Receive(h, batch)
           \/ Replay(h) \/ RejectPayload(h) \/ StartTx(h)
           \/ Respond(h) \/ TxError(h) \/ Fail(h)
    PROVE  Inv'
<1>. USE DEF Locking, dbVars, readerVars
<1>1. TypeOK /\ AnswersTrue
  BY DEF Inv
<1>2. pc \in [Handlers -> {"idle", "lookup", "begin", "record"} \cup Locking]
      /\ todo \in [Handlers -> Seq(MutationIds)]
  BY <1>1 DEF TypeOK
<1>3. ASSUME NEW batch \in Batches, Receive(h, batch)
      PROVE  Inv'
  <2>1. Quiet /\ receipts' = receipts
    BY <1>2, <1>3, <1>1 DEF Receive, Quiet, TypeOK
  <2>2. AnswersTrue'
    BY <1>1, <1>2, <1>3, BookedKept DEF Receive, AnswersTrue, Current, TypeOK
  <2>. QED
    BY <2>1, <2>2, QuietInv
<1>4. CASE Replay(h)
  <2>1. Quiet /\ receipts' = receipts
    BY <1>2, <1>4, <1>1 DEF Replay, Quiet, TypeOK
  <2>2. Current(h) \in MutationIds
    BY <1>1, <1>4, CurrentType DEF Replay
  <2>3. AnswersTrue'
    BY <1>1, <1>2, <1>4, <2>2, BookedKept
    DEF Replay, AnswersTrue, Current, TypeOK
  <2>. QED
    BY <2>1, <2>3, QuietInv
<1>5. CASE RejectPayload(h)
  <2>1. Quiet /\ receipts' = receipts
    BY <1>2, <1>5, <1>1 DEF RejectPayload, Quiet, TypeOK
  <2>2. AnswersTrue'
    BY <1>1, <1>2, <1>5, BookedKept
    DEF RejectPayload, AnswersTrue, Current, Rejected, TypeOK
  <2>. QED
    BY <2>1, <2>2, QuietInv
<1>6. CASE StartTx(h)
  <2>1. Quiet /\ receipts' = receipts
    BY <1>2, <1>6, <1>1 DEF StartTx, Quiet, TypeOK
  <2>2. AnswersTrue'
    BY <1>1, <1>2, <1>6, BookedKept DEF StartTx, AnswersTrue, Current
  <2>. QED
    BY <2>1, <2>2, QuietInv
<1>7. CASE Respond(h)
  <2>1. Quiet /\ receipts' = receipts
    BY <1>2, <1>7, <1>1 DEF Respond, Quiet, TypeOK
  <2>2. AnswersTrue'
    BY <1>1, <1>2, <1>7, BookedKept DEF Respond, AnswersTrue, Current
  <2>. QED
    BY <2>1, <2>2, QuietInv
<1>8. CASE TxError(h)
  <2>1. Quiet /\ receipts' = receipts
    BY <1>2, <1>8, <1>1 DEF TxError, Quiet, TypeOK
  <2>2. AnswersTrue'
    BY <1>1, <1>2, <1>8, BookedKept
    DEF TxError, AnswersTrue, Current, Rejected, TypeOK
  <2>. QED
    BY <2>1, <2>2, QuietInv
<1>9. CASE Fail(h)
  <2>1. Quiet /\ receipts' = receipts
    BY <1>2, <1>9, <1>1 DEF Fail, Quiet, TypeOK
  <2>2. AnswersTrue'
    BY <1>1, <1>2, <1>9, BookedKept DEF Fail, AnswersTrue, Current
  <2>. QED
    BY <2>1, <2>2, QuietInv
<1>. QED
  BY <1>3, <1>4, <1>5, <1>6, <1>7, <1>8, <1>9

\* New accounts and pulls do not concern the pushes.
LEMMA EnvironmentStep ==
    ASSUME Inv, TypeOK',
           \/ \E a \in AccountIds : AddAccount(a)
           \/ \E d \in Readers : Pull(d)
           \/ UNCHANGED vars
    PROVE  Inv'
<1>1. /\ UNCHANGED <<rows, log, plan, sq, pc, todo, reply, out, acked>>
      /\ receipts' = receipts
      /\ lastSeq' \in {lastSeq, lastSeq + 1}
  BY DEF AddAccount, Pull, vars, dbVars, readerVars
<1>2. Quiet
  BY <1>1 DEF Quiet, Inv, TypeOK
<1>3. AnswersTrue'
  BY <1>1, BookedKept DEF Inv, AnswersTrue, Current
<1>. QED
  BY <1>1, <1>2, <1>3, QuietInv

-----------------------------------------------------------------------------
(***************************************************************************)
(* Steps of the transaction.                                               *)
(***************************************************************************)

\* Taking the lock: no other request is in a transaction on the entity.
LEMMA LockStep ==
    ASSUME Inv, TypeOK', NEW h \in Handlers, LockEntity(h)
    PROVE  Inv'
<1>. USE DEF Locking, dbVars, readerVars
<1>1. TypeOK /\ AnswersTrue /\ LockExclusive
  BY DEF Inv
<1>2. Current(h) \in MutationIds
  <2>1. todo[h] # <<>>
    BY <1>1 DEF LockEntity, TypeOK
  <2>. QED
    BY <1>1, <2>1, CurrentType
<1>3. CASE receipts[Current(h)] # NoReceipt
  <2>1. Quiet /\ receipts' = receipts
    BY <1>1, <1>3 DEF LockEntity, Quiet, TypeOK
  <2>2. /\ UNCHANGED <<log, receipts, todo, out, acked>>
        /\ pc' = [pc EXCEPT ![h] = "record"]
        /\ reply' = [reply EXCEPT ![h] = receipts[Current(h)]]
    BY <1>3 DEF LockEntity
  <2>3. AnswersTrue'
    BY <1>1, <1>2, <2>2, BookedKept DEF AnswersTrue, Current, TypeOK
  <2>. QED
    BY <2>1, <2>3, QuietInv
<1>4. CASE receipts[Current(h)] = NoReceipt
  <2>1. /\ pc' = [pc EXCEPT ![h] = "read"]
        /\ UNCHANGED <<rows, log, lastSeq, receipts, todo, plan, sq, reply,
                       out, acked>>
    BY <1>4 DEF LockEntity
  <2>2. \A g \in Handlers : Current(g)' = Current(g) /\ Body(g)' = Body(g)
    BY <2>1 DEF Current, Body
  <2>3. \A g \in Handlers : /\ Writes(g)' = Writes(g)
                            /\ NewKey(g)' = NewKey(g)
    BY <1>1, <2>1, <2>2 DEF Writes, NewKey, NewRow, TypeOK, LockEntity
  <2>4. /\ \A b : Conflicts(b)' = Conflicts(b)
        /\ \A fp : LiveByFp(fp)' = LiveByFp(fp)
    BY <2>1 DEF Conflicts, LiveByFp
  <2>5. LockExclusive'
    BY <1>1, <2>1, <2>2 DEF LockEntity, EntityFree, LockExclusive, TypeOK
  <2>6. PlanCurrent' /\ ReceiptAbsent'
    BY <1>1, <2>1, <2>2, <2>4 DEF Inv, PlanCurrent, ReceiptAbsent, TypeOK
  <2>7. AnswersTrue'
    BY <1>1, <2>1, <2>2, BookedKept DEF AnswersTrue, TypeOK
  <2>8. /\ LogMatchesReceipts' /\ VersionsCover' /\ AtMostOnce' /\ LogOrder'
        /\ BaseRespected'
    BY <2>1 DEF Inv, LogMatchesReceipts, VersionsCover, AtMostOnce, LogOrder,
                BaseRespected
  <2>9. SeqAhead' /\ FpReserved' /\ OneLiveRowPerFp'
    BY <2>1, <2>2, <2>3, <2>4
    DEF Inv, SeqAhead, FpReserved, OneLiveRowPerFp
  <2>. QED
    BY <2>5, <2>6, <2>7, <2>8, <2>9 DEF Inv
<1>. QED
  BY <1>3, <1>4

\* The decision to apply is taken on the current version of the row.
LEMMA DecideApplies ==
    ASSUME TypeOK, NEW b \in Bodies, Decide(b).code = "OK"
    PROVE  Decide(b) = Applied(rows[b.tx].version + 1) /\ ~Conflicts(b)
  BY DEF Decide, Rejected, Deduped, Applied

\* Reading: the plan is made for the version the lock protects.
LEMMA ReadStep ==
    ASSUME Inv, TypeOK', NEW h \in Handlers, Read(h)
    PROVE  Inv'
<1>. USE DEF Locking, dbVars, readerVars
<1>1. TypeOK /\ AnswersTrue /\ LockExclusive
  BY DEF Inv
<1>2. Body(h) \in Bodies
  BY <1>1, CurrentType DEF Read, TypeOK
<1>3. /\ pc' = [pc EXCEPT ![h] = "write"]
      /\ plan' = [plan EXCEPT ![h] = Decide(Body(h))]
      /\ UNCHANGED <<rows, log, lastSeq, receipts, todo, sq, reply, out, acked>>
  BY DEF Read
<1>4. \A g \in Handlers : Current(g)' = Current(g) /\ Body(g)' = Body(g)
  BY <1>3 DEF Current, Body
<1>5. \A g \in Handlers : Writes(g)' => /\ Writes(g)
                                        /\ NewKey(g)' = NewKey(g)
  BY <1>1, <1>3, <1>4 DEF Writes, NewKey, NewRow, TypeOK
<1>6. /\ \A b : Conflicts(b)' = Conflicts(b)
      /\ \A fp : LiveByFp(fp)' = LiveByFp(fp)
  BY <1>3 DEF Conflicts, LiveByFp
<1>7. LockExclusive'
  BY <1>1, <1>3, <1>4 DEF Read, LockExclusive, TypeOK
<1>8. PlanCurrent'
  <2>1. ASSUME NEW g \in Handlers, g # h,
               pc'[g] \in {"write", "commit"}, plan'[g].code = "OK"
        PROVE  /\ plan'[g].version = rows[Body(g).tx].version + 1
               /\ ~Conflicts(Body(g))
    BY <1>1, <1>3, <2>1 DEF Inv, PlanCurrent, TypeOK
  <2>2. ASSUME plan'[h].code = "OK"
        PROVE  /\ plan'[h].version = rows[Body(h).tx].version + 1
               /\ ~Conflicts(Body(h))
    BY <1>1, <1>2, <1>3, <2>2, DecideApplies DEF TypeOK, Applied
  <2>. QED
    BY <1>3, <1>4, <1>6, <2>1, <2>2 DEF PlanCurrent
<1>9. ReceiptAbsent' /\ AnswersTrue'
  BY <1>1, <1>3, <1>4, BookedKept DEF Inv, ReceiptAbsent, AnswersTrue, TypeOK
<1>10. /\ LogMatchesReceipts' /\ VersionsCover' /\ AtMostOnce' /\ LogOrder'
       /\ BaseRespected'
  BY <1>3 DEF Inv, LogMatchesReceipts, VersionsCover, AtMostOnce, LogOrder,
              BaseRespected
<1>11. SeqAhead' /\ FpReserved' /\ OneLiveRowPerFp'
  BY <1>3, <1>4, <1>5, <1>6 DEF Inv, SeqAhead, FpReserved, OneLiveRowPerFp
<1>. QED
  BY <1>7, <1>8, <1>9, <1>10, <1>11 DEF Inv

\* Writing: either the request loses and rolls back, or it holds a receipt
\* key, a fingerprint and a sequence nobody else has.
LEMMA WriteStep ==
    ASSUME Inv, TypeOK', NEW h \in Handlers, Write(h)
    PROVE  Inv'
<1>. USE DEF Locking, readerVars
<1>1. TypeOK /\ AnswersTrue /\ LockExclusive
  BY DEF Inv
<1>2. UNCHANGED <<rows, log, receipts, todo, plan, out, acked>>
  BY DEF Write
<1>3. \A g \in Handlers : Current(g)' = Current(g) /\ Body(g)' = Body(g)
  BY <1>2 DEF Current, Body
<1>4. CASE CasFails(h) \/ FpClash(h) \/ receipts[Current(h)] # NoReceipt
  <2>1. /\ pc' = [pc EXCEPT ![h] = "record"]
        /\ reply'[h].code # "OK"
        /\ \A g \in Handlers \ {h} : reply'[g] = reply[g]
    BY <1>1, <1>4
    DEF Write, ClassifyUniqueViolation, Rejected, Deduped, TypeOK
  <2>2. \/ lastSeq' = lastSeq + 1 /\ sq' = [sq EXCEPT ![h] = lastSeq + 1]
        \/ lastSeq' = lastSeq /\ sq' = sq
    BY Zenon DEF Write
  <2>3. Quiet
    BY <1>1, <1>2, <2>1, <2>2 DEF Quiet, TypeOK
  <2>4. AnswersTrue'
    BY <1>1, <1>2, <1>3, <2>1, BookedKept DEF AnswersTrue, TypeOK
  <2>. QED
    BY <1>2, <2>3, <2>4, QuietInv
<1>5. CASE ~(CasFails(h) \/ FpClash(h) \/ receipts[Current(h)] # NoReceipt)
  <2>1. /\ pc' = [pc EXCEPT ![h] = "commit"]
        /\ reply' = reply
        /\ pc[h] = "write"
    BY <1>5, Zenon DEF Write
  <2>2. \/ /\ plan[h].code = "OK"
           /\ lastSeq' = lastSeq + 1
           /\ sq' = [sq EXCEPT ![h] = lastSeq + 1]
        \/ plan[h].code # "OK" /\ lastSeq' = lastSeq /\ sq' = sq
    BY <1>5, Zenon DEF Write
  <2>3. /\ \A b : Conflicts(b)' = Conflicts(b)
        /\ \A fp : LiveByFp(fp)' = LiveByFp(fp)
        /\ \A g \in Handlers : NewKey(g)' = NewKey(g)
    BY <1>2, <1>3 DEF Conflicts, LiveByFp, NewKey, NewRow
  <2>4. \A g \in Handlers \ {h} : Writes(g)' = Writes(g)
    BY <1>1, <1>2, <2>1 DEF Writes, TypeOK
  <2>5. LockExclusive' /\ PlanCurrent'
    BY <1>1, <1>2, <1>3, <2>1, <2>3 DEF Inv, LockExclusive, PlanCurrent, TypeOK
  <2>6. ReceiptAbsent'
    BY <1>1, <1>2, <1>3, <1>5, <2>1 DEF Inv, ReceiptAbsent, TypeOK
  <2>7. AnswersTrue'
    BY <1>1, <1>2, <1>3, <2>1, BookedKept DEF AnswersTrue, TypeOK
  <2>8. /\ LogMatchesReceipts' /\ VersionsCover' /\ AtMostOnce' /\ LogOrder'
        /\ BaseRespected'
    BY <1>2 DEF Inv, LogMatchesReceipts, VersionsCover, AtMostOnce, LogOrder,
                BaseRespected
  <2>9. SeqAhead'
    <3>1. SeqAhead /\ lastSeq \in Nat /\ sq \in [Handlers -> Nat]
          /\ \A e \in log : e.seq \in Nat
      BY <1>1 DEF Inv, TypeOK, Changes
    <3>2. \A e \in log : e.seq <= lastSeq'
      BY <2>2, <3>1 DEF SeqAhead
    <3>3. ASSUME NEW g \in Handlers, g # h, Writes(g)'
          PROVE  /\ sq'[g] <= lastSeq'
                 /\ \A e \in log : e.tx = Body(g).tx => e.seq < sq'[g]
      BY <2>2, <2>4, <3>1, <3>3 DEF SeqAhead
    <3>4. ASSUME Writes(h)'
          PROVE  /\ sq'[h] <= lastSeq'
                 /\ \A e \in log : e.tx = Body(h).tx => e.seq < sq'[h]
      <4>1. plan[h].code = "OK"
        BY <1>2, <3>4 DEF Writes
      <4>. QED
        BY <2>2, <3>1, <4>1 DEF SeqAhead
    <3>. QED
      BY <1>2, <1>3, <3>2, <3>3, <3>4 DEF SeqAhead
  <2>10. FpReserved'
    <3>. DEFINE k == NewKey(h)
    <3>1. ASSUME plan[h].code = "OK", k # NoFp
          PROVE  /\ LiveByFp(k) \subseteq {Body(h).tx}
                 /\ \A g \in Handlers \ {h} : Writes(g) => NewKey(g) # k
      <4>1. CASE EntersIndex(h)
        BY <1>5, <4>1 DEF Write, FpClash, FpFree
      <4>2. CASE ~EntersIndex(h)
        <5>1. k = IndexKey(rows[Body(h).tx]) /\ Body(h).tx \in TxIds
          <6>1. todo[h] # <<>>
            BY <1>1, <2>1 DEF TypeOK
          <6>. QED
            BY <1>1, <3>1, <4>2, <6>1, CurrentType DEF EntersIndex, Bodies
        <5>2. Body(h).tx \in LiveByFp(k) /\ LiveByFp(k) \subseteq {Body(h).tx}
          BY <3>1, <5>1 DEF LiveByFp, Inv, OneLiveRowPerFp
        <5>3. ASSUME NEW g \in Handlers \ {h}, Writes(g), NewKey(g) = k
              PROVE  FALSE
          <6>1. LiveByFp(k) \subseteq {Body(g).tx}
            BY <3>1, <5>3 DEF Inv, FpReserved
          <6>2. Body(g).tx # Body(h).tx
            BY <1>1, <2>1, <5>3 DEF LockExclusive, Writes
          <6>. QED
            BY <5>2, <6>1, <6>2
        <5>. QED
          BY <5>2, <5>3
      <4>. QED
        BY <4>1, <4>2
    <3>. HIDE DEF k
    <3>2. Writes(h)' => plan[h].code = "OK"
      BY <1>2 DEF Writes
    <3>. QED
      BY <1>3, <2>3, <2>4, <3>1, <3>2 DEF Inv, FpReserved, k
  <2>11. OneLiveRowPerFp'
    BY <1>2 DEF Inv, OneLiveRowPerFp
  <2>. QED
    BY <2>5, <2>6, <2>7, <2>8, <2>9, <2>10, <2>11 DEF Inv
<1>. QED
  BY <1>4, <1>5

\* Recording after the transaction: it fills an empty receipt with a true
\* answer and never touches the receipt an open transaction has inserted.
LEMMA RecordStep ==
    ASSUME Inv, TypeOK', NEW h \in Handlers, Record(h)
    PROVE  Inv'
<1>. USE DEF Locking, readerVars
<1>1. TypeOK /\ AnswersTrue
  BY DEF Inv
<1>2. Current(h) \in MutationIds
  <2>1. todo[h] # <<>>
    BY <1>1 DEF Record, TypeOK
  <2>. QED
    BY <1>1, <2>1, CurrentType
<1>3. /\ pc' = [pc EXCEPT ![h] = "lookup"]
      /\ todo' = [todo EXCEPT ![h] = Tail(@)]
      /\ out' = [out EXCEPT ![h] = @ \cup {<<Current(h), reply[h]>>}]
      /\ UNCHANGED <<rows, log, lastSeq, plan, sq, reply, acked>>
      /\ pc[h] = "record"
  BY DEF Record
<1>4. Quiet
  BY <1>1, <1>3 DEF Quiet, TypeOK
<1>5. \A m \in MutationIds :
          \/ receipts'[m] = receipts[m]
          \/ m = Current(h) /\ receipts[m] = NoReceipt /\ receipts'[m] = reply[h]
  BY <1>1, <1>2 DEF Record, RecordOnce, TypeOK
<1>6. ReceiptAbsent'
  <2>1. ASSUME NEW g \in Handlers, pc'[g] = "commit"
        PROVE  receipts'[Current(g)'] = NoReceipt
    <3>1. g # h /\ pc[g] = "commit" /\ Current(g)' = Current(g)
      BY <1>1, <1>3, <2>1 DEF TypeOK, Current
    <3>2. todo[g] # <<>>
      BY <1>1, <3>1 DEF TypeOK
    <3>3. Current(g) \in MutationIds
      BY <1>1, <3>2, CurrentType
    <3>4. Current(g) # Current(h)
      BY <3>1 DEF Record
    <3>. QED
      BY <1>5, <3>1, <3>3, <3>4 DEF Inv, ReceiptAbsent
  <2>. QED
    BY <2>1 DEF ReceiptAbsent
<1>7. LogMatchesReceipts'
  <2>1. ASSUME NEW e \in log
        PROVE  receipts'[e.by] = Applied(e.version)
    <3>1. e.by \in MutationIds /\ receipts[e.by] = Applied(e.version)
      BY <1>1 DEF Inv, LogMatchesReceipts, TypeOK, Changes
    <3>2. receipts[e.by] # NoReceipt
      BY <3>1 DEF Applied, NoReceipt
    <3>. QED
      BY <1>5, <3>1, <3>2
  <2>. QED
    BY <1>3, <2>1 DEF LogMatchesReceipts
<1>8. AnswersTrue'
  <2>1. ASSUME NEW m \in MutationIds, receipts'[m].code = "OK"
        PROVE  Booked(m, receipts'[m].version)
    BY <1>1, <1>3, <1>5, <2>1 DEF AnswersTrue
  <2>2. ASSUME NEW g \in Handlers, pc'[g] = "record", reply'[g].code = "OK"
        PROVE  Booked(Current(g)', reply'[g].version)
    BY <1>1, <1>3, <2>2 DEF AnswersTrue, TypeOK, Current
  <2>3. ASSUME NEW g \in Handlers, NEW o \in out'[g], o[2].code = "OK"
        PROVE  Booked(o[1], o[2].version)
    BY <1>1, <1>3, <2>3 DEF AnswersTrue, TypeOK
  <2>. QED
    BY <1>1, <1>3, <2>1, <2>2, <2>3, BookedKept DEF AnswersTrue
<1>. QED
  BY <1>4, <1>6, <1>7, <1>8, QuietStep DEF Inv

\* Committing, with or without an acknowledgement: what the commit installs
\* is still right when it takes effect.
LEMMA CommitStep ==
    ASSUME Inv, TypeOK', NEW h \in Handlers,
           pc[h] = "commit", CommitEffect(h),
           pc' = [pc EXCEPT ![h] = "record"],
           NEW r, reply' = [reply EXCEPT ![h] = r],
           r \in {plan[h], Rejected("DB_ERROR", 0)},
           UNCHANGED <<lastSeq, todo, plan, sq, out, acked>>
    PROVE  Inv'
<1>. DEFINE m == Current(h)
            b == Body(h)
            new == NewChange(m, sq[h])
            NowBooked(n, v) == \E e \in log' : e.by = n /\ e.version = v
<1>1. TypeOK
  BY DEF Inv
<1>2. m \in MutationIds /\ b \in Bodies
  <2>1. todo[h] # <<>>
    BY <1>1 DEF TypeOK
  <2>. QED
    BY <1>1, <2>1, CurrentType
<1>3. \A g \in Handlers : Current(g)' = Current(g) /\ Body(g)' = Body(g)
  BY DEF Current, Body
<1>4. receipts[m] = NoReceipt
  BY DEF Inv, ReceiptAbsent
<1>5. receipts' = [receipts EXCEPT ![m] = plan[h]]
  BY DEF CommitEffect
<1>6. \A g \in Handlers : pc'[g] \in Locking =>
          /\ g # h /\ pc'[g] = pc[g] /\ pc[g] \in Locking
          /\ Body(g).tx # b.tx
          /\ Current(g) # m
  <2>1. \A g \in Handlers : pc'[g] \in Locking =>
            g # h /\ pc'[g] = pc[g] /\ pc[g] \in Locking
    BY <1>1 DEF TypeOK, Locking
  <2>2. \A g \in Handlers \ {h} : pc[g] \in Locking => Body(g).tx # b.tx
    BY DEF Inv, LockExclusive, Locking
  <2>. QED
    BY <2>1, <2>2 DEF Body
<1>7. \A e \in log : e.by \in MutationIds /\ e.by # m
  <2>1. \A e \in log : e.by \in MutationIds
    BY <1>1 DEF TypeOK, Changes
  <2>2. \A e \in log : receipts[e.by].code = "OK"
    <3>1. \A e \in log : receipts[e.by] = Applied(e.version)
      BY DEF Inv, LogMatchesReceipts
    <3>2. \A v : Applied(v).code = "OK"
      BY DEF Applied
    <3>. QED
      BY <3>1, <3>2
  <2>3. receipts[m].code # "OK"
    BY <1>4 DEF NoReceipt
  <2>. QED
    BY <2>1, <2>2, <2>3
<1>8. LockExclusive'
  BY <1>3, <1>6 DEF Inv, LockExclusive
<1>9. ReceiptAbsent'
  <2>1. ASSUME NEW g \in Handlers, pc'[g] = "commit"
        PROVE  receipts'[Current(g)] = NoReceipt
    <3>1. pc[g] = "commit" /\ Current(g) # m
      BY <1>6, <2>1 DEF Locking
    <3>2. todo[g] # <<>>
      BY <1>1, <3>1 DEF TypeOK
    <3>3. Current(g) \in MutationIds
      BY <1>1, <3>2, CurrentType
    <3>. QED
      BY <1>1, <1>5, <3>1, <3>3 DEF Inv, ReceiptAbsent, TypeOK
  <2>. QED
    BY <1>3, <2>1 DEF ReceiptAbsent
<1>10. CASE plan[h].code # "OK"
  <2>1. rows' = rows /\ log' = log
    BY <1>10 DEF CommitEffect
  <2>2. Quiet
    BY <1>1, <1>6, <2>1 DEF Quiet, TypeOK
  <2>3. LogMatchesReceipts'
    BY <1>1, <1>2, <1>5, <1>7, <2>1 DEF Inv, LogMatchesReceipts, TypeOK
  <2>4. r.code # "OK"
    BY <1>10 DEF Rejected
  <2>5. AnswersTrue'
    BY <1>1, <1>2, <1>3, <1>5, <1>10, <2>1, <2>4, BookedKept
    DEF Inv, AnswersTrue, TypeOK
  <2>. QED
    BY <1>9, <2>2, <2>3, <2>5, QuietStep DEF Inv
<1>11. CASE plan[h].code = "OK"
  <2>1. /\ rows' = [rows EXCEPT ![b.tx] = NewRow(m)]
        /\ log' = log \cup {new}
    BY <1>11 DEF CommitEffect, Body
  <2>2. b.tx \in TxIds /\ rows[b.tx].version \in Nat
    BY <1>1, <1>2 DEF Bodies, TypeOK, Rows
  <2>3. /\ plan[h].version = rows[b.tx].version + 1
        /\ ~Conflicts(b)
    BY <1>11 DEF Inv, PlanCurrent
  <2>4. plan[h] = Applied(rows[b.tx].version + 1)
    <3>1. plan[h] \in Receipts
      BY <1>1 DEF TypeOK
    <3>. QED
      BY <1>11, <2>3, <3>1 DEF Receipts, Applied
  <2>5. /\ new.tx = b.tx /\ new.by = m /\ new.seq = sq[h]
        /\ new.version = rows[b.tx].version + 1
    BY DEF NewChange, Body
  <2>6. NewRow(m).version = rows[b.tx].version + 1
    BY DEF NewRow, Body
  <2>7. \A t \in TxIds \ {b.tx} : rows'[t] = rows[t]
    BY <1>1, <2>1 DEF TypeOK
  <2>8. rows'[b.tx] = NewRow(m)
    BY <1>1, <2>1, <2>2 DEF TypeOK
  <2>9. \A g \in Handlers : pc'[g] \in Locking =>
            /\ Body(g).tx \in TxIds
            /\ rows'[Body(g).tx] = rows[Body(g).tx]
    <3>1. ASSUME NEW g \in Handlers, pc'[g] \in Locking
          PROVE  Body(g).tx \in TxIds
      <4>1. todo[g] # <<>>
        BY <1>1, <1>6, <3>1 DEF TypeOK, Locking
      <4>. QED
        BY <1>1, <4>1, CurrentType DEF Bodies
    <3>. QED
      BY <1>6, <2>7, <3>1
  <2>10. PlanCurrent'
    BY <1>3, <1>6, <2>9 DEF Inv, PlanCurrent, Conflicts, Locking
  <2>11. LogMatchesReceipts'
    BY <1>1, <1>2, <1>5, <1>7, <2>1, <2>4, <2>5
    DEF Inv, LogMatchesReceipts, TypeOK
  <2>12. NowBooked(m, plan[h].version)
    BY <2>1, <2>3, <2>5
  <2>13. \A n, v : Booked(n, v) => NowBooked(n, v)
    BY <2>1 DEF Booked
  <2>14. AnswersTrue'
    <3>1. ASSUME NEW n \in MutationIds, receipts'[n].code = "OK"
          PROVE  NowBooked(n, receipts'[n].version)
      <4>1. CASE n = m
        BY <1>1, <1>2, <1>5, <2>12, <4>1 DEF TypeOK
      <4>2. CASE n # m
        <5>1. receipts'[n] = receipts[n]
          BY <1>1, <1>5, <4>2 DEF TypeOK
        <5>. QED
          BY <2>13, <3>1, <5>1 DEF Inv, AnswersTrue
      <4>. QED
        BY <4>1, <4>2
    <3>2. ASSUME NEW g \in Handlers, pc'[g] = "record", reply'[g].code = "OK"
          PROVE  NowBooked(Current(g), reply'[g].version)
      <4>1. CASE g # h
        <5>1. pc[g] = "record" /\ reply'[g] = reply[g]
          BY <1>1, <3>2, <4>1 DEF TypeOK
        <5>. QED
          BY <2>13, <3>2, <5>1 DEF Inv, AnswersTrue
      <4>2. CASE g = h
        <5>1. reply'[h] = plan[h]
          BY <1>1, <3>2, <4>2 DEF TypeOK, Rejected
        <5>. QED
          BY <2>12, <4>2, <5>1
      <4>. QED
        BY <4>1, <4>2
    <3>3. ASSUME NEW g \in Handlers, NEW o \in out[g], o[2].code = "OK"
          PROVE  NowBooked(o[1], o[2].version)
      BY <2>13, <3>3 DEF Inv, AnswersTrue
    <3>4. ASSUME NEW a \in acked, a[2].code = "OK"
          PROVE  NowBooked(a[1], a[2].version)
      BY <2>13, <3>4 DEF Inv, AnswersTrue
    <3>. QED
      BY <1>3, <3>1, <3>2, <3>3, <3>4 DEF AnswersTrue, Booked
  <2>15. /\ sq[h] <= lastSeq
         /\ \A e \in log : e.tx = b.tx => e.seq < sq[h]
    BY <1>11 DEF Inv, SeqAhead, Writes
  <2>16. SeqAhead'
    <3>1. ASSUME NEW g \in Handlers, Writes(g)'
          PROVE  /\ sq[g] <= lastSeq
                 /\ \A e \in log' : e.tx = Body(g).tx => e.seq < sq[g]
      <4>1. Writes(g) /\ Body(g).tx # b.tx
        BY <1>6, <3>1 DEF Writes, Locking
      <4>. QED
        BY <2>1, <2>5, <4>1 DEF Inv, SeqAhead
    <3>. QED
      BY <1>3, <2>1, <2>5, <2>15, <3>1 DEF Inv, SeqAhead
  <2>17. VersionsCover'
    <3>1. VersionsCover /\ \A e \in log : e.version \in Nat /\ e.tx \in TxIds
      BY <1>1 DEF Inv, TypeOK, Changes
    <3>2. \A e \in log' : 1 <= e.version /\ e.version <= rows'[e.tx].version
      BY <2>1, <2>2, <2>5, <2>6, <2>7, <2>8, <3>1 DEF VersionsCover
    <3>3. ASSUME NEW t \in TxIds, NEW v \in 1 .. rows'[t].version
          PROVE  \E e \in log' : e.tx = t /\ e.version = v
      <4>1. CASE t # b.tx
        BY <2>1, <2>7, <3>1, <3>3, <4>1 DEF VersionsCover
      <4>2. CASE t = b.tx /\ v \in 1 .. rows[t].version
        BY <2>1, <3>1, <4>2 DEF VersionsCover
      <4>3. CASE t = b.tx /\ v = rows[t].version + 1
        BY <2>1, <2>5, <4>3
      <4>. QED
        BY <2>2, <2>6, <2>8, <3>3, <4>1, <4>2, <4>3
    <3>. QED
      BY <3>2, <3>3 DEF VersionsCover
  <2>18. AtMostOnce'
    BY <1>7, <2>1, <2>5 DEF Inv, AtMostOnce
  <2>19. LogOrder'
    <3>1. \A e \in log : e.tx = b.tx => /\ e.seq < new.seq
                                        /\ e.version < new.version
                                        /\ e.seq \in Nat /\ e.version \in Nat
      BY <1>1, <2>2, <2>5, <2>15 DEF Inv, VersionsCover, TypeOK, Changes
    <3>2. new.seq \in Nat /\ new.version \in Nat
      BY <1>1, <2>2, <2>5 DEF TypeOK
    <3>. QED
      BY <2>1, <2>5, <3>1, <3>2 DEF Inv, LogOrder
  <2>20. BaseRespected'
    <3>1. /\ b.op = "create" => new.version = 1
          /\ (new.version > 1 /\ b.base # 0) => b.base = new.version - 1
      BY <1>2, <2>2, <2>3, <2>5 DEF Conflicts, Bodies
    <3>. QED
      BY <2>1, <2>5, <3>1 DEF Inv, BaseRespected, Body
  <2>21. \A g \in Handlers : Writes(g)' => /\ Writes(g) /\ g # h
                                            /\ NewKey(g)' = NewKey(g)
    <3>1. ASSUME NEW g \in Handlers, Writes(g)'
          PROVE  Writes(g) /\ g # h /\ NewKey(g)' = NewKey(g)
      <4>1. Writes(g) /\ g # h /\ pc'[g] \in Locking
        BY <1>6, <3>1 DEF Writes, Locking
      <4>2. rows'[Body(g).tx] = rows[Body(g).tx]
        BY <2>9, <4>1
      <4>. QED
        BY <1>3, <4>1, <4>2 DEF NewKey, NewRow, Body
    <3>. QED
      BY <3>1
  <2>22. ASSUME NEW k
         PROVE  /\ LiveByFp(k)' \subseteq LiveByFp(k) \cup {b.tx}
                /\ b.tx \in LiveByFp(k)' => k = NewKey(h)
    BY <2>7, <2>8 DEF LiveByFp, NewKey
  <2>23. NewKey(h) # NoFp =>
             /\ LiveByFp(NewKey(h)) \subseteq {b.tx}
             /\ \A g \in Handlers \ {h} : Writes(g) => NewKey(g) # NewKey(h)
    BY <1>11 DEF Inv, FpReserved, Writes
  <2>24. FpReserved'
    <3>1. ASSUME NEW g \in Handlers, Writes(g)', NewKey(g)' # NoFp
          PROVE  LiveByFp(NewKey(g))' \subseteq {Body(g).tx}
      <4>1. Writes(g) /\ g # h /\ NewKey(g)' = NewKey(g)
        BY <2>21, <3>1
      <4>2. LiveByFp(NewKey(g)) \subseteq {Body(g).tx}
        BY <3>1, <4>1 DEF Inv, FpReserved
      <4>3. NewKey(g) # NewKey(h)
        BY <2>23, <3>1, <4>1
      <4>4. ASSUME NEW k, k = NewKey(g)
            PROVE  LiveByFp(k)' \subseteq {Body(g).tx}
        BY <2>22, <4>2, <4>3, <4>4
      <4>. QED
        BY <4>1, <4>4
    <3>2. ASSUME NEW g \in Handlers, Writes(g)', NewKey(g)' # NoFp,
                 NEW f \in Handlers \ {g}, Writes(f)'
          PROVE  NewKey(f)' # NewKey(g)'
      BY <2>21, <3>2 DEF Inv, FpReserved
    <3>. QED
      BY <1>3, <3>1, <3>2 DEF FpReserved
  <2>25. OneLiveRowPerFp'
    <3>1. ASSUME NEW t \in TxIds, NEW u \in TxIds, NEW k, k # NoFp,
                 t \in LiveByFp(k)', u \in LiveByFp(k)'
          PROVE  t = u
      <4>1. CASE k = NewKey(h)
        BY <2>22, <2>23, <3>1, <4>1
      <4>2. CASE k # NewKey(h)
        <5>1. t \in LiveByFp(k) /\ u \in LiveByFp(k)
          BY <2>22, <3>1, <4>2
        <5>. QED
          BY <3>1, <5>1 DEF LiveByFp, Inv, OneLiveRowPerFp
      <4>. QED
        BY <4>1, <4>2
    <3>. QED
      BY <3>1 DEF OneLiveRowPerFp, LiveByFp
  <2>. QED
    BY <1>8, <1>9, <2>10, <2>11, <2>14, <2>16, <2>17, <2>18, <2>19, <2>20,
       <2>24, <2>25 DEF Inv
<1>. QED
  BY <1>10, <1>11

-----------------------------------------------------------------------------
(***************************************************************************)
(* The invariant, and what follows from it.                                *)
(***************************************************************************)

\* An empty book satisfies the invariant.
LEMMA InvInit == Init => Inv
<1>. SUFFICES ASSUME Init PROVE Inv
  OBVIOUS
<1>. USE DEF Init
<1>1. TypeOK
  BY SyncServerAssumption DEF TypeOK, Rows, NoRow
<1>2. LockExclusive /\ PlanCurrent /\ ReceiptAbsent /\ FpReserved
  BY DEF LockExclusive, PlanCurrent, ReceiptAbsent, FpReserved, Locking, Writes
<1>3. LogMatchesReceipts /\ AtMostOnce /\ LogOrder /\ BaseRespected
  BY DEF LogMatchesReceipts, AtMostOnce, LogOrder, BaseRespected
<1>4. AnswersTrue
  BY DEF AnswersTrue, NoReceipt
<1>5. SeqAhead
  BY DEF SeqAhead, Writes
<1>6. VersionsCover
  BY DEF VersionsCover, NoRow
<1>7. OneLiveRowPerFp
  BY DEF OneLiveRowPerFp, IndexKey, NoRow
<1>. QED
  BY <1>1, <1>2, <1>3, <1>4, <1>5, <1>6, <1>7 DEF Inv

\* Every step of every request preserves the invariant.
LEMMA InvStep == Inv /\ [Next]_vars => Inv'
<1>. SUFFICES ASSUME Inv, [Next]_vars PROVE Inv'
  OBVIOUS
<1>1. TypeOK'
  BY TypeStep DEF Inv
<1>2. ASSUME NEW h \in Handlers,
             \/ \E batch \in Batches : Receive(h, batch)
             \/ Replay(h) \/ RejectPayload(h) \/ StartTx(h)
             \/ Respond(h) \/ TxError(h) \/ Fail(h)
      PROVE  Inv'
  BY <1>1, <1>2, OutsideStep
<1>3. ASSUME NEW h \in Handlers, LockEntity(h) PROVE Inv'
  BY <1>1, <1>3, LockStep
<1>4. ASSUME NEW h \in Handlers, Read(h) PROVE Inv'
  BY <1>1, <1>4, ReadStep
<1>5. ASSUME NEW h \in Handlers, Write(h) PROVE Inv'
  BY <1>1, <1>5, WriteStep
<1>6. ASSUME NEW h \in Handlers, Record(h) PROVE Inv'
  BY <1>1, <1>6, RecordStep
<1>7. ASSUME NEW h \in Handlers, Commit(h) PROVE Inv'
  <2>1. /\ pc[h] = "commit" /\ CommitEffect(h)
        /\ pc' = [pc EXCEPT ![h] = "record"]
        /\ reply' = [reply EXCEPT ![h] = plan[h]]
        /\ UNCHANGED <<lastSeq, todo, plan, sq, out, acked>>
    BY <1>7 DEF Commit
  <2>. QED
    BY <1>1, <2>1, CommitStep
<1>8. ASSUME NEW h \in Handlers, CommitUnacknowledged(h) PROVE Inv'
  <2>1. /\ pc[h] = "commit" /\ CommitEffect(h)
        /\ pc' = [pc EXCEPT ![h] = "record"]
        /\ reply' = [reply EXCEPT ![h] = Rejected("DB_ERROR", 0)]
        /\ UNCHANGED <<lastSeq, todo, plan, sq, out, acked>>
    BY <1>8 DEF CommitUnacknowledged
  <2>. QED
    BY <1>1, <2>1, CommitStep
<1>9. CASE \/ \E a \in AccountIds : AddAccount(a)
           \/ \E d \in Readers : Pull(d)
           \/ UNCHANGED vars
  BY <1>1, <1>9, EnvironmentStep
<1>. QED
  BY <1>2, <1>3, <1>4, <1>5, <1>6, <1>7, <1>8, <1>9 DEF Next

\* The inductive invariant holds in every reachable state.
THEOREM Invariance == Spec => []Inv
  BY InvInit, InvStep, PTL DEF Spec

\* Type correctness of the server's state in every reachable state.
THEOREM TypeCorrect == Spec => []TypeOK
<1>1. Inv => TypeOK
  BY DEF Inv
<1>. QED
  BY <1>1, Invariance, PTL

\* A mutation enters the change log at most once, whatever is retried.
THEOREM AppliedAtMostOnce == Spec => []AtMostOnce
<1>1. Inv => AtMostOnce
  BY DEF Inv
<1>. QED
  BY <1>1, Invariance, PTL

\* Row, change and receipt are written together or not at all.
THEOREM Atomicity == Spec => []AllOrNothing
<1>1. Inv => AllOrNothing
  BY DEF Inv, LogMatchesReceipts, AnswersTrue, Booked, AllOrNothing
<1>. QED
  BY <1>1, Invariance, PTL

\* The change log holds every version of every row.
THEOREM LogIsComplete == Spec => []HistoryComplete
<1>1. Inv => HistoryComplete
  <2>. SUFFICES ASSUME Inv, NEW t \in TxIds
       PROVE  {e.version : e \in {f \in log : f.tx = t}} = 1 .. rows[t].version
    BY DEF HistoryComplete
  <2>1. rows[t].version \in Nat /\ \A e \in log : e.version \in Nat
    BY DEF Inv, TypeOK, Rows, Changes
  <2>2. \A e \in log : e.tx = t => e.version \in 1 .. rows[t].version
    BY <2>1 DEF Inv, VersionsCover
  <2>3. \A v \in 1 .. rows[t].version :
            \E e \in {f \in log : f.tx = t} : e.version = v
    BY DEF Inv, VersionsCover
  <2>. QED
    BY <2>2, <2>3
<1>. QED
  BY <1>1, Invariance, PTL

\* Sequence order is version order for each row.
THEOREM LogIsOrdered == Spec => []LogOrder
<1>1. Inv => LogOrder
  BY DEF Inv
<1>. QED
  BY <1>1, Invariance, PTL

\* No applied mutation overwrites a version its device had not seen.
THEOREM NoBlindOverwrite == Spec => []BaseRespected
<1>1. Inv => BaseRespected
  BY DEF Inv
<1>. QED
  BY <1>1, Invariance, PTL

\* The change log is the history of the rows: the five theorems above.
THEOREM LogIsFaithful == Spec => []LogFaithful
<1>1. AtMostOnce /\ AllOrNothing /\ HistoryComplete /\ LogOrder /\ BaseRespected
        => LogFaithful
  BY DEF LogFaithful
<1>. QED
  BY <1>1, AppliedAtMostOnce, Atomicity, LogIsComplete, LogIsOrdered,
     NoBlindOverwrite, PTL

\* A captured payment has at most one live row tagged auto_ledger, whatever
\* captures and edits of the tag overlap.
THEOREM PaymentBookedOnce == Spec => []OneLiveRowPerFp
<1>1. Inv => OneLiveRowPerFp
  BY DEF Inv
<1>. QED
  BY <1>1, Invariance, PTL

\* An acknowledged mutation is in the log, with the acknowledged version.
THEOREM AcknowledgedIsDurable == Spec => []AckedIsDurable
<1>1. Inv => AckedIsDurable
  BY DEF Inv, AnswersTrue, Booked, AckedIsDurable
<1>. QED
  BY <1>1, Invariance, PTL

\* The optimistic version test in the UPDATE never fails: the entity lock
\* already excludes every concurrent writer of the row.
THEOREM CasIsRedundant ==
    Spec => [](\A h \in Handlers : pc[h] = "write" => ~CasFails(h))
<1>1. Inv => \A h \in Handlers : pc[h] = "write" => ~CasFails(h)
  BY DEF Inv, PlanCurrent, CasFails
<1>. QED
  BY <1>1, Invariance, PTL

\* No step changes or removes a stored receipt: a commit inserts it under a
\* primary key that was free, and the record after it does nothing on conflict.
LEMMA ReceiptKept ==
    ASSUME Inv, [Next]_vars, NEW m \in MutationIds, receipts[m] # NoReceipt
    PROVE  receipts'[m] = receipts[m]
<1>1. TypeOK
  BY DEF Inv
<1>2. ASSUME NEW h \in Handlers, Commit(h) \/ CommitUnacknowledged(h)
      PROVE  receipts'[m] = receipts[m]
  <2>1. receipts' = [receipts EXCEPT ![Current(h)] = plan[h]]
    BY <1>2 DEF Commit, CommitUnacknowledged, CommitEffect
  <2>2. receipts[Current(h)] = NoReceipt
    BY <1>2 DEF Commit, CommitUnacknowledged, Inv, ReceiptAbsent
  <2>. QED
    BY <1>1, <2>1, <2>2 DEF TypeOK
<1>3. ASSUME NEW h \in Handlers, Record(h)
      PROVE  receipts'[m] = receipts[m]
  BY <1>1, <1>3 DEF Record, RecordOnce, TypeOK
<1>4. ASSUME NEW h \in Handlers,
             \/ \E batch \in Batches : Receive(h, batch)
             \/ Replay(h) \/ RejectPayload(h) \/ StartTx(h) \/ LockEntity(h)
             \/ Read(h) \/ Write(h) \/ Respond(h) \/ TxError(h) \/ Fail(h)
      PROVE  receipts' = receipts
  BY <1>4 DEF Receive, Replay, RejectPayload, StartTx, LockEntity, Read,
              Write, Respond, TxError, Fail, dbVars
<1>5. CASE \/ \E a \in AccountIds : AddAccount(a)
           \/ \E d \in Readers : Pull(d)
           \/ UNCHANGED vars
  BY <1>5 DEF AddAccount, Pull, vars, dbVars
<1>. QED
  BY <1>2, <1>3, <1>4, <1>5 DEF Next

\* A stored receipt never changes.
THEOREM ReceiptsAreFinal == Spec => ReceiptsStable
<1>1. Inv /\ [Next]_vars =>
          [\A m \in MutationIds :
              receipts[m] # NoReceipt => receipts'[m] = receipts[m]]_vars
  BY ReceiptKept
<1>. QED
  BY <1>1, Invariance, PTL DEF Spec, ReceiptsStable

=============================================================================
