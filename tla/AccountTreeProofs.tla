-------------------------- MODULE AccountTreeProofs -------------------------
(***************************************************************************)
(* The category tree has two levels in every reachable state, for any      *)
(* number of concurrent requests.                                          *)
(*                                                                         *)
(* TwoLevel is not inductive: a commit installs a parent that was checked  *)
(* earlier.  The hierarchy lock (TreeExclusive) keeps the rows as they     *)
(* were when the parent was checked, so the decision is still the one the  *)
(* check would take now (PlanFresh).                                       *)
(***************************************************************************)
EXTENDS AccountTree, TLAPS

TreeExclusive ==
    \A g, h \in Handlers :
        (pc[g] \in {"check", "commit"} /\ pc[h] \in {"check", "commit"}) => g = h

PlanFresh == \A h \in Handlers : pc[h] = "commit" => plan[h] = Decide(Body(h))

Inv == TypeOK /\ TreeExclusive /\ PlanFresh /\ TwoLevel

\* What the checks decide is a plan: the parent it names, if any, is an
\* account of the book.
LEMMA DecideType ==
    ASSUME TypeOK, NEW b \in Bodies
    PROVE  Decide(b) \in Plans
<1>1. rows[b.id] \in Accounts
  BY DEF TypeOK, Bodies
<1>2. WantedType(b) \in Types
  BY <1>1 DEF WantedType, Bodies, Accounts
<1>3. WantedParent(b) \in AccountIds \cup {Root}
  BY <1>1 DEF WantedParent, Bodies, Accounts
<1>4. \A code \in Codes : NoPlan(code) \in Plans
  BY DEF NoPlan, Plans, Types
<1>. QED
  BY <1>2, <1>3, <1>4 DEF Decide, Plans, Codes

\* A decision to apply has passed the check of the parent.
LEMMA DecideValid ==
    ASSUME NEW b \in Bodies, Decide(b).code = "OK"
    PROVE  /\ Decide(b).type = WantedType(b)
           /\ Decide(b).parent = WantedParent(b)
           /\ ValidParent(b.id, WantedType(b), WantedParent(b))
           /\ b.op = "create" <=> ~Exists(b.id)
<1>. USE DEF NoPlan, Bodies
<1>1. ~(b.op = "create" /\ Exists(b.id)) /\ ~(b.op = "update" /\ ~Exists(b.id))
  BY DEF Decide
<1>2. ValidParent(b.id, WantedType(b), WantedParent(b))
  BY <1>1 DEF Decide
<1>. QED
  BY <1>1, <1>2 DEF Decide

\* The current mutation of a request is one of MutationIds.
LEMMA BodyType ==
    ASSUME TypeOK, NEW h \in Handlers
    PROVE  cur[h] \in MutationIds /\ Body(h) \in Bodies /\ Body(h).id \in AccountIds
<1>1. cur[h] \in MutationIds
  BY DEF TypeOK
<1>2. Mutations[cur[h]] \in Bodies
  BY <1>1, AccountTreeAssumption
<1>. QED
  BY <1>1, <1>2 DEF Body, Bodies

\* Storing a receipt leaves a code behind.
LEMMA AnswerType ==
    ASSUME TypeOK, NEW h \in Handlers, NEW code \in Codes, Answer(h, code)
    PROVE  /\ receipts' \in [MutationIds -> Codes \cup {NoReceipt}]
           /\ reply' \in [Handlers -> Codes \cup {NoReceipt}]
           /\ pc' = [pc EXCEPT ![h] = "record"]
  BY DEF Answer, TypeOK, Codes

\* The effect of a commit on the types.
LEMMA CommitAsType ==
    ASSUME TypeOK, NEW h \in Handlers, NEW code \in Codes, CommitAs(h, code)
    PROVE  /\ rows' \in [AccountIds -> Accounts]
           /\ log' \subseteq Changes
           /\ lastSeq' \in Nat
           /\ receipts' \in [MutationIds -> Codes \cup {NoReceipt}]
           /\ reply' \in [Handlers -> Codes \cup {NoReceipt}]
           /\ pc' = [pc EXCEPT ![h] = "record"]
<1>1. Body(h).id \in AccountIds
  BY BodyType
<1>2. plan[h] \in Plans /\ plan[h].code \in Codes
  BY DEF TypeOK, Plans
<1>3. rows[Body(h).id] \in Accounts
  BY <1>1 DEF TypeOK
<1>4. CASE plan[h].code = "OK" /\ receipts[cur[h]] = NoReceipt
  <2>1. /\ rows' = [rows EXCEPT ![Body(h).id] =
                [version |-> rows[Body(h).id].version + 1,
                 type |-> plan[h].type, parent |-> plan[h].parent]]
        /\ log' = log \cup {NewChange(Body(h).id, plan[h])}
        /\ lastSeq' = lastSeq + 1
        /\ receipts' = [receipts EXCEPT ![cur[h]] = "OK"]
        /\ reply' = [reply EXCEPT ![h] = code]
        /\ pc' = [pc EXCEPT ![h] = "record"]
    BY <1>4 DEF CommitAs
  <2>2. [version |-> rows[Body(h).id].version + 1,
         type |-> plan[h].type, parent |-> plan[h].parent] \in Accounts
    BY <1>2, <1>3 DEF Plans, Accounts
  <2>3. NewChange(Body(h).id, plan[h]) \in Changes
    BY <1>1, <1>2, <1>3 DEF NewChange, Plans, Accounts, Changes, TypeOK
  <2>4. rows' \in [AccountIds -> Accounts]
    BY <1>1, <2>1, <2>2 DEF TypeOK
  <2>5. receipts' \in [MutationIds -> Codes \cup {NoReceipt}]
    <3>1. "OK" \in Codes
      BY DEF Codes
    <3>. QED
      BY <2>1, <3>1 DEF TypeOK
  <2>6. reply' \in [Handlers -> Codes \cup {NoReceipt}]
    BY <2>1 DEF TypeOK
  <2>7. log' \subseteq Changes /\ lastSeq' \in Nat
    BY <2>1, <2>3 DEF TypeOK
  <2>. QED
    BY <2>1, <2>4, <2>5, <2>6, <2>7
<1>5. CASE ~(plan[h].code = "OK" /\ receipts[cur[h]] = NoReceipt)
  <2>1. /\ Answer(h, plan[h].code)
        /\ lastSeq' \in {lastSeq, lastSeq + 1}
        /\ UNCHANGED <<rows, log>>
    BY <1>5 DEF CommitAs
  <2>. QED
    BY <1>2, <2>1, AnswerType DEF TypeOK
<1>. QED
  BY <1>4, <1>5

\* Every step of the specification keeps the types.
LEMMA TypeStep ==
    ASSUME TypeOK, [Next]_vars
    PROVE  TypeOK'
<1>. USE DEF HoldsMutation
<1>1. ASSUME NEW h \in Handlers, NEW m \in MutationIds, Receive(h, m)
      PROVE  TypeOK'
  BY <1>1 DEF TypeOK, Receive
<1>2. ASSUME NEW h \in Handlers, LockMutation(h) PROVE TypeOK'
  <2>1. cur[h] \in MutationIds
    BY BodyType
  <2>. QED
    BY <1>2, <2>1 DEF TypeOK, LockMutation
<1>3. ASSUME NEW h \in Handlers, ParsePayload(h) PROVE TypeOK'
  <2>1. CASE Body(h).parse # "OK"
    <3>1. Body(h).parse \in Codes
      BY BodyType DEF Bodies, Codes
    <3>2. Answer(h, Body(h).parse)
      BY <1>3, <2>1 DEF ParsePayload
    <3>. QED
      BY <1>3, <3>1, <3>2, AnswerType DEF TypeOK, ParsePayload
  <2>2. CASE Body(h).parse = "OK"
    BY <1>3, <2>2 DEF TypeOK, ParsePayload
  <2>. QED
    BY <2>1, <2>2
<1>4. ASSUME NEW h \in Handlers, LockTree(h) PROVE TypeOK'
  BY <1>4 DEF TypeOK, LockTree
<1>5. ASSUME NEW h \in Handlers, Check(h) PROVE TypeOK'
  <2>1. Decide(Body(h)) \in Plans
    BY BodyType, DecideType
  <2>. QED
    BY <1>5, <2>1 DEF TypeOK, Check
<1>6. ASSUME NEW h \in Handlers, Commit(h) \/ CommitUnacknowledged(h)
      PROVE  TypeOK'
  <2>1. \E code \in Codes : CommitAs(h, code)
    BY <1>6 DEF Commit, CommitUnacknowledged, Codes
  <2>2. UNCHANGED <<cur, plan, pushes>> /\ faults' \in Nat
    BY <1>6 DEF Commit, CommitUnacknowledged, TypeOK
  <2>. QED
    BY <2>1, <2>2, CommitAsType DEF TypeOK
<1>7. ASSUME NEW h \in Handlers, TxError(h) PROVE TypeOK'
  BY <1>7 DEF TypeOK, TxError, Codes
<1>8. ASSUME NEW h \in Handlers, Record(h) PROVE TypeOK'
  BY <1>8 DEF TypeOK, Record
<1>9. ASSUME NEW h \in Handlers, Fail(h) PROVE TypeOK'
  BY <1>9 DEF TypeOK, Fail
<1>10. CASE UNCHANGED vars
  BY <1>10 DEF TypeOK, vars
<1>. QED
  BY <1>1, <1>2, <1>3, <1>4, <1>5, <1>6, <1>7, <1>8, <1>9, <1>10 DEF Next

-----------------------------------------------------------------------------
\* A step that leaves the rows alone and starts no decision, and after which
\* the requests inside the hierarchy lock are still alone there, keeps Inv.
LEMMA QuietStep ==
    ASSUME Inv, TypeOK', rows' = rows, TreeExclusive',
           \A h \in Handlers : pc'[h] = "commit" =>
               /\ pc[h] = "commit"
               /\ plan'[h] = plan[h]
               /\ cur'[h] = cur[h]
    PROVE  Inv'
<1>2. PlanFresh'
  <2>. SUFFICES ASSUME NEW h \in Handlers, pc'[h] = "commit"
                PROVE  plan'[h] = Decide(Body(h))'
    BY DEF PlanFresh
  <2>1. plan[h] = Decide(Body(h)) /\ Body(h) \in Bodies /\ Body(h)' = Body(h)
    BY BodyType DEF Inv, PlanFresh, Body
  <2>2. Decide(Body(h))' = Decide(Body(h))
    BY <2>1, ZenonT(60) DEF Decide, ValidParent, Exists, WantedParent, WantedType
  <2>. QED
    BY <2>1, <2>2
<1>3. TwoLevel'
  BY DEF Inv, TwoLevel, Exists
<1>. QED
  BY <1>2, <1>3 DEF Inv

\* A fresh book satisfies the invariant: its defaults form a two-level tree.
LEMMA InvInit ==
    ASSUME Init
    PROVE  Inv
<1>. USE AccountTreeAssumption
<1>1. rows \in [AccountIds -> Accounts]
  <2>1. \A a \in DOMAIN Defaults : Defaults[a].parent \in AccountIds \cup {Root}
    OBVIOUS
  <2>2. NoAccount \in Accounts
    BY DEF NoAccount, Accounts, Types
  <2>3. \A a \in DOMAIN Defaults :
           [version |-> 1, type |-> Defaults[a].type,
            parent |-> Defaults[a].parent] \in Accounts
    BY <2>1 DEF Accounts
  <2>. QED
    BY <2>2, <2>3 DEF Init
<1>2. plan \in [Handlers -> Plans]
  BY DEF Init, NoPlan, Plans, Codes, Types
<1>3. (CHOOSE m \in MutationIds : TRUE) \in MutationIds
  OBVIOUS
<1>4. TypeOK
  BY <1>1, <1>2, <1>3 DEF Init, TypeOK, HoldsMutation
<1>5. TreeExclusive /\ PlanFresh
  BY DEF Init, TreeExclusive, PlanFresh
<1>6. TwoLevel
  <2>. SUFFICES ASSUME NEW a \in AccountIds, rows[a].version # 0,
                       rows[a].parent # Root
                PROVE  /\ rows[a].type \in {"income", "expense"}
                       /\ rows[rows[a].parent].version # 0
                       /\ rows[rows[a].parent].type = rows[a].type
                       /\ rows[rows[a].parent].parent = Root
    BY DEF TwoLevel, Exists
  <2>1. a \in DOMAIN Defaults
    BY DEF Init, NoAccount
  <2>2. rows[a].parent = Defaults[a].parent /\ rows[a].type = Defaults[a].type
    BY <2>1 DEF Init
  <2>3. /\ Defaults[a].parent \in DOMAIN Defaults
        /\ Defaults[a].type \in {"income", "expense"}
        /\ Defaults[Defaults[a].parent].type = Defaults[a].type
        /\ Defaults[Defaults[a].parent].parent = Root
    BY <2>1, <2>2
  <2>4. rows[Defaults[a].parent] =
           [version |-> 1, type |-> Defaults[Defaults[a].parent].type,
            parent |-> Defaults[Defaults[a].parent].parent]
    BY <2>3 DEF Init
  <2>. QED
    BY <2>2, <2>3, <2>4
<1>. QED
  BY <1>4, <1>5, <1>6 DEF Inv

\* Writing a row whose parent passed the check keeps the tree two-level: the
\* new parent is a root, and the account that moves is nobody's parent.
LEMMA ApplyKeepsTwoLevel ==
    ASSUME TypeOK, TwoLevel, NEW b \in Bodies, Decide(b).code = "OK",
           rows' = [rows EXCEPT ![b.id] =
                       [version |-> rows[b.id].version + 1,
                        type |-> Decide(b).type, parent |-> Decide(b).parent]]
    PROVE  /\ TwoLevel'
           /\ \A a \in AccountIds :
                 Exists(a) => rows'[a].type = rows[a].type /\ rows'[a].version # 0
<1>. DEFINE id == b.id
            ty == WantedType(b)
            pa == WantedParent(b)
<1>1. id \in AccountIds /\ pa \in AccountIds \cup {Root}
  BY DEF Bodies, TypeOK, Accounts, WantedParent
<1>2. /\ ValidParent(id, ty, pa)
      /\ Exists(id) => ty = rows[id].type
      /\ rows' = [rows EXCEPT ![id] = [version |-> rows[id].version + 1,
                                        type |-> ty, parent |-> pa]]
  BY DecideValid DEF WantedType
<1>3. rows[id].version \in Nat
  BY <1>1 DEF TypeOK, Accounts
<1>4. /\ rows'[id].version # 0
      /\ rows'[id].type = ty
      /\ rows'[id].parent = pa
      /\ \A a \in AccountIds \ {id} : rows'[a] = rows[a]
  BY <1>1, <1>2, <1>3 DEF TypeOK
<1>. HIDE DEF id, ty, pa
<1>5. \A a \in AccountIds :
         Exists(a) => rows'[a].type = rows[a].type /\ rows'[a].version # 0
  BY <1>2, <1>4 DEF Exists
<1>6. TwoLevel'
  <2>. SUFFICES ASSUME NEW a \in AccountIds, rows'[a].version # 0,
                       rows'[a].parent # Root
                PROVE  /\ rows'[a].type \in {"income", "expense"}
                       /\ rows'[rows'[a].parent].version # 0
                       /\ rows'[rows'[a].parent].type = rows'[a].type
                       /\ rows'[rows'[a].parent].parent = Root
    BY DEF TwoLevel, Exists
  <2>1. CASE a = id
    BY <1>1, <1>2, <1>4, <2>1 DEF ValidParent, Exists
  <2>2. CASE a # id /\ rows[a].parent # id
    <3>1. /\ rows'[a] = rows[a]
          /\ rows[a].parent \in AccountIds \ {id}
      BY <1>4, <2>2 DEF TypeOK, Accounts
    <3>2. rows'[rows[a].parent] = rows[rows[a].parent]
      BY <1>4, <3>1
    <3>. QED
      BY <3>1, <3>2 DEF TwoLevel, Exists
  <2>3. CASE a # id /\ rows[a].parent = id
    <3>1. rows'[a] = rows[a]
      BY <1>4, <2>3
    <3>2. Exists(a) /\ Exists(id) /\ rows[id].type = rows[a].type
          /\ rows[a].type \in {"income", "expense"}
      BY <2>3, <3>1 DEF TwoLevel, Exists
    <3>3. pa = Root
      BY <1>2, <2>3, <3>2 DEF ValidParent
    <3>. QED
      BY <1>2, <1>4, <2>3, <3>1, <3>2, <3>3
  <2>. QED
    BY <2>1, <2>2, <2>3
<1>. QED
  BY <1>5, <1>6

\* A commit is taken from inside the hierarchy lock, on a decision that the
\* rows still support.
LEMMA CommitStep ==
    ASSUME Inv, TypeOK', NEW h \in Handlers, NEW code \in Codes,
           pc[h] = "commit", CommitAs(h, code), UNCHANGED <<cur, plan>>
    PROVE  /\ Inv'
           /\ \A a \in AccountIds :
                 Exists(a) => rows'[a].type = rows[a].type /\ rows'[a].version # 0
<1>1. pc' = [pc EXCEPT ![h] = "record"]
  BY CommitAsType DEF Inv
<1>2. \A g \in Handlers : pc'[g] \notin {"check", "commit"}
  BY <1>1 DEF Inv, TypeOK, TreeExclusive
<1>3. TreeExclusive' /\ PlanFresh'
  BY <1>2 DEF TreeExclusive, PlanFresh
<1>4. CASE plan[h].code = "OK" /\ receipts[cur[h]] = NoReceipt
  <2>1. Body(h) \in Bodies /\ plan[h] = Decide(Body(h))
    BY BodyType DEF Inv, PlanFresh
  <2>2. rows' = [rows EXCEPT ![Body(h).id] =
                [version |-> rows[Body(h).id].version + 1,
                 type |-> plan[h].type, parent |-> plan[h].parent]]
    BY <1>4 DEF CommitAs
  <2>. QED
    BY <1>3, <1>4, <2>1, <2>2, ApplyKeepsTwoLevel DEF Inv
<1>5. CASE ~(plan[h].code = "OK" /\ receipts[cur[h]] = NoReceipt)
  <2>1. rows' = rows
    BY <1>5 DEF CommitAs
  <2>2. TwoLevel'
    BY <2>1 DEF Inv, TwoLevel, Exists
  <2>. QED
    BY <1>3, <2>1, <2>2 DEF Inv, Exists
<1>. QED
  BY <1>4, <1>5

\* Every step keeps the invariant and the classification of the accounts.
LEMMA InvStep ==
    ASSUME Inv, [Next]_vars
    PROVE  /\ Inv'
           /\ \A a \in AccountIds :
                 Exists(a) => rows'[a].type = rows[a].type /\ rows'[a].version # 0
<1>. DEFINE Fixed == \A a \in AccountIds :
                 Exists(a) => rows'[a].type = rows[a].type /\ rows'[a].version # 0
<1>0. TypeOK'
  BY TypeStep DEF Inv
<1>a. rows' = rows => Fixed
  BY DEF Exists
<1>. HIDE DEF Fixed
<1>1. ASSUME NEW h \in Handlers, NEW m \in MutationIds, Receive(h, m)
      PROVE  Inv' /\ Fixed
  <2>1. /\ rows' = rows /\ plan' = plan
        /\ pc' = [pc EXCEPT ![h] = "begin"] /\ cur' = [cur EXCEPT ![h] = m]
    BY <1>1 DEF Receive
  <2>2. TreeExclusive'
    BY <2>1 DEF Inv, TypeOK, TreeExclusive
  <2>3. \A g \in Handlers : pc'[g] = "commit" =>
           pc[g] = "commit" /\ plan'[g] = plan[g] /\ cur'[g] = cur[g]
    BY <2>1 DEF Inv, TypeOK
  <2>. QED
    BY <1>0, <1>a, <2>1, <2>2, <2>3, QuietStep
<1>2. ASSUME NEW h \in Handlers,
             \/ LockMutation(h) \/ ParsePayload(h) \/ TxError(h) \/ Record(h)
             \/ Fail(h)
      PROVE  Inv' /\ Fixed
  <2>1. /\ rows' = rows /\ plan' = plan /\ cur' = cur
        /\ \E l \in {"idle", "record", "parse", "tree"} :
              pc' = [pc EXCEPT ![h] = l]
    BY <1>2 DEF LockMutation, ParsePayload, Answer, TxError, Record, Fail
  <2>2. TreeExclusive'
    BY <2>1 DEF Inv, TypeOK, TreeExclusive
  <2>3. \A g \in Handlers : pc'[g] = "commit" =>
           pc[g] = "commit" /\ plan'[g] = plan[g] /\ cur'[g] = cur[g]
    BY <2>1 DEF Inv, TypeOK
  <2>. QED
    BY <1>0, <1>a, <2>1, <2>2, <2>3, QuietStep
<1>3. ASSUME NEW h \in Handlers, LockTree(h) PROVE Inv' /\ Fixed
  <2>1. /\ rows' = rows /\ plan' = plan /\ cur' = cur
        /\ pc' = [pc EXCEPT ![h] = "check"]
    BY <1>3 DEF LockTree
  <2>2. TreeExclusive'
    BY <1>3, <2>1 DEF Inv, TypeOK, TreeExclusive, LockTree, TreeFree
  <2>3. \A g \in Handlers : pc'[g] = "commit" =>
           pc[g] = "commit" /\ plan'[g] = plan[g] /\ cur'[g] = cur[g]
    BY <2>1 DEF Inv, TypeOK
  <2>. QED
    BY <1>0, <1>a, <2>1, <2>2, <2>3, QuietStep
<1>4. ASSUME NEW h \in Handlers, Check(h) PROVE Inv' /\ Fixed
  <2>1. /\ rows' = rows /\ cur' = cur /\ pc[h] = "check"
        /\ plan' = [plan EXCEPT ![h] = Decide(Body(h))]
        /\ pc' = [pc EXCEPT ![h] = "commit"]
    BY <1>4 DEF Check
  <2>2. TreeExclusive'
    BY <2>1 DEF Inv, TypeOK, TreeExclusive
  <2>3. \A g \in Handlers : pc'[g] = "commit" => g = h
    BY <2>1 DEF Inv, TypeOK, TreeExclusive
  <2>4. Decide(Body(h))' = Decide(Body(h))
    BY <2>1 DEF Body, Decide, ValidParent, Exists, WantedParent, WantedType
  <2>5. PlanFresh'
    BY <2>1, <2>3, <2>4 DEF Inv, TypeOK, PlanFresh
  <2>6. TwoLevel'
    BY <2>1 DEF Inv, TwoLevel, Exists
  <2>. QED
    BY <1>0, <1>a, <2>1, <2>2, <2>5, <2>6 DEF Inv
<1>5. ASSUME NEW h \in Handlers, Commit(h) \/ CommitUnacknowledged(h)
      PROVE  Inv' /\ Fixed
  <2>1. \E code \in Codes : CommitAs(h, code)
    BY <1>5 DEF Commit, CommitUnacknowledged, Codes
  <2>2. pc[h] = "commit" /\ UNCHANGED <<cur, plan>>
    BY <1>5 DEF Commit, CommitUnacknowledged
  <2>. QED
    BY <1>0, <2>1, <2>2, CommitStep DEF Fixed
<1>6. ASSUME UNCHANGED vars PROVE Inv' /\ Fixed
  <2>1. TreeExclusive'
    BY <1>6 DEF vars, Inv, TreeExclusive
  <2>2. \A g \in Handlers : pc'[g] = "commit" =>
           pc[g] = "commit" /\ plan'[g] = plan[g] /\ cur'[g] = cur[g]
    BY <1>6 DEF vars
  <2>3. rows' = rows
    BY <1>6 DEF vars
  <2>. QED
    BY <1>0, <1>a, <2>1, <2>2, <2>3, QuietStep
<1>7. Inv' /\ Fixed
  BY <1>1, <1>2, <1>3, <1>4, <1>5, <1>6 DEF Next
<1>. QED
  BY <1>7 DEF Fixed

\* The inductive invariant holds in every reachable state.
THEOREM Invariance == Spec => []Inv
  BY InvInit, InvStep, PTL DEF Spec

\* The variables keep their types for any number of requests and accounts.
THEOREM TypeCorrect == Spec => []TypeOK
<1>1. Inv => TypeOK
  BY DEF Inv
<1>. QED
  BY <1>1, Invariance, PTL

\* The tree of categories never grows a third level, a cycle or a mixed
\* branch, whatever creates and moves the pushes of a book interleave.
THEOREM TreeHasTwoLevels == Spec => []TwoLevel
<1>1. Inv => TwoLevel
  BY DEF Inv
<1>. QED
  BY <1>1, Invariance, PTL

\* No step reclassifies or removes an account.
THEOREM AccountsAreClassifiedOnce == Spec => ClassificationFixed
<1>1. Inv /\ [Next]_vars =>
         [\A a \in AccountIds :
             Exists(a) => rows'[a].type = rows[a].type /\ rows'[a].version # 0]_vars
  BY InvStep
<1>. QED
  BY <1>1, Invariance, PTL DEF Spec, ClassificationFixed

-----------------------------------------------------------------------------
\* The log and the rows tell the same story: sequences are drawn once, what
\* exists is what the log and the defaults name, and the last change of an
\* account carries the parent its row has.
SeqsDrawn ==
    /\ \A e \in log : e.seq <= lastSeq
    /\ \A e, f \in log : e.seq = f.seq => e = f

RowsAreReplayed ==
    \A a \in AccountIds :
        /\ Exists(a) <=> KnownAt(a, lastSeq)
        /\ Exists(a) => ParentAt(a, lastSeq) = rows[a].parent

LogInv == Inv /\ SeqsDrawn /\ RowsAreReplayed /\ ReplayIsTwoLevel

\* Where the replay reaches the rows, the replayed tree is the stored one and
\* has two levels.
LEMMA EndIsTwoLevel ==
    ASSUME TypeOK, TwoLevel, RowsAreReplayed, NEW a \in AccountIds,
           KnownAt(a, lastSeq), ParentAt(a, lastSeq) # Root
    PROVE  /\ KnownAt(ParentAt(a, lastSeq), lastSeq)
           /\ ParentAt(ParentAt(a, lastSeq), lastSeq) = Root
<1>1. Exists(a) /\ ParentAt(a, lastSeq) = rows[a].parent
  BY DEF RowsAreReplayed
<1>2. rows[a].parent \in AccountIds
  BY <1>1 DEF TypeOK, Accounts
<1>3. Exists(rows[a].parent) /\ rows[rows[a].parent].parent = Root
  BY <1>1 DEF TwoLevel
<1>. QED
  BY <1>1, <1>2, <1>3 DEF RowsAreReplayed

\* What a replay shows depends on nothing but the history it has read.
LEMMA SameHistory ==
    ASSUME NEW a, NEW k, NEW l, History(a, k)' = History(a, l)
    PROVE  KnownAt(a, k)' = KnownAt(a, l) /\ ParentAt(a, k)' = ParentAt(a, l)
<1>1. KnownAt(a, k)' = KnownAt(a, l)
  BY DEF KnownAt
<1>. QED
  BY <1>1 DEF ParentAt

\* A device that has read no further than before sees what it saw before.
LEMMA OldCursors ==
    ASSUME ReplayIsTwoLevel, TypeOK,
           \A a, k : k \in 0 .. lastSeq => History(a, k)' = History(a, k),
           NEW k \in 0 .. lastSeq, NEW a \in AccountIds,
           KnownAt(a, k)', ParentAt(a, k)' # Root
    PROVE  /\ KnownAt(ParentAt(a, k), k)'
           /\ ParentAt(ParentAt(a, k), k)' = Root
<1>1. \A b : /\ KnownAt(b, k)' = KnownAt(b, k)
             /\ ParentAt(b, k)' = ParentAt(b, k)
  BY SameHistory
<1>2. KnownAt(a, k) /\ ParentAt(a, k) # Root
  BY <1>1
<1>3. /\ KnownAt(ParentAt(a, k), k)
      /\ ParentAt(ParentAt(a, k), k) = Root
  BY <1>2 DEF ReplayIsTwoLevel
<1>4. /\ KnownAt(ParentAt(a, k), k)' = KnownAt(ParentAt(a, k), k)
      /\ ParentAt(ParentAt(a, k), k)' = ParentAt(ParentAt(a, k), k)
  BY <1>1 DEF KnownAt, ParentAt
<1>. QED
  BY <1>3, <1>4

\* When the cursors of before see what they saw and the replay reaches the
\* rows of a two-level tree, the replay is a two-level tree at every cursor.
LEMMA EndCursor ==
    ASSUME ReplayIsTwoLevel, TypeOK, Inv', RowsAreReplayed',
           lastSeq' = lastSeq \/ lastSeq' = lastSeq + 1,
           \A a, k : k \in 0 .. lastSeq => History(a, k)' = History(a, k)
    PROVE  ReplayIsTwoLevel'
<1>. SUFFICES ASSUME NEW k \in 0 .. lastSeq', NEW a \in AccountIds,
                     KnownAt(a, k)', ParentAt(a, k)' # Root
              PROVE  /\ KnownAt(ParentAt(a, k), k)'
                     /\ ParentAt(ParentAt(a, k), k)' = Root
  BY DEF ReplayIsTwoLevel
<1>1. CASE k \in 0 .. lastSeq
  BY <1>1, OldCursors
<1>2. CASE k \notin 0 .. lastSeq
  <2>1. k = lastSeq'
    BY <1>2 DEF TypeOK
  <2>2. KnownAt(a, lastSeq)' /\ ParentAt(a, lastSeq)' # Root
    BY <2>1 DEF KnownAt, ParentAt, History
  <2>3. /\ KnownAt(ParentAt(a, lastSeq), lastSeq)'
        /\ ParentAt(ParentAt(a, lastSeq), lastSeq)' = Root
    <3>1. rows'[a].version # 0 /\ ParentAt(a, lastSeq)' = rows'[a].parent
      BY <2>2 DEF RowsAreReplayed, Exists
    <3>2. rows'[a].parent \in AccountIds
      BY <2>2, <3>1 DEF Inv, TypeOK, Accounts
    <3>3. /\ rows'[rows'[a].parent].version # 0
          /\ rows'[rows'[a].parent].parent = Root
      BY <2>2, <3>1 DEF Inv, TwoLevel, Exists
    <3>4. KnownAt(rows[a].parent, lastSeq)'
          /\ ParentAt(rows[a].parent, lastSeq)' = Root
      BY <3>2, <3>3 DEF RowsAreReplayed, Exists
    <3>. QED
      BY <3>1, <3>4 DEF KnownAt, ParentAt, History
  <2>. QED
    BY <2>1, <2>3 DEF KnownAt, ParentAt, History
<1>. QED
  BY <1>1, <1>2

\* A step that adds nothing to the log and changes no row keeps LogInv, even
\* when it draws a sequence that no change will carry.
LEMMA LogQuietStep ==
    ASSUME LogInv, Inv', rows' = rows, log' = log,
           lastSeq' = lastSeq \/ lastSeq' = lastSeq + 1
    PROVE  LogInv'
<1>. USE DEF LogInv
<1>1. lastSeq \in Nat /\ lastSeq' \in Nat /\ \A e \in log : e.seq \in Nat
  BY DEF Inv, TypeOK, Changes
<1>2. SeqsDrawn'
  BY <1>1 DEF SeqsDrawn
<1>3. \A a, k : k \in 0 .. lastSeq => History(a, k)' = History(a, k)
  BY DEF History
<1>4. \A a : History(a, lastSeq)' = History(a, lastSeq)
  BY <1>1 DEF History, SeqsDrawn
<1>5. \A a : /\ KnownAt(a, lastSeq)' = KnownAt(a, lastSeq)
             /\ ParentAt(a, lastSeq)' = ParentAt(a, lastSeq)
  BY <1>4 DEF KnownAt, ParentAt
<1>6. RowsAreReplayed'
  BY <1>5 DEF RowsAreReplayed, Exists
<1>7. ReplayIsTwoLevel'
  <2>1. ReplayIsTwoLevel /\ TypeOK
    BY DEF Inv
  <2>. QED
    BY <1>1, <1>3, <1>6, <2>1, EndCursor
<1>. QED
  BY <1>2, <1>6, <1>7

\* An applied mutation appends one change under a sequence nobody had: the
\* replay up to it shows the rows as the commit leaves them.
LEMMA LogCommitStep ==
    ASSUME LogInv, Inv', NEW b \in AccountIds, NEW p \in Plans,
           rows' = [rows EXCEPT ![b] =
                       [version |-> rows[b].version + 1, type |-> p.type,
                        parent |-> p.parent]],
           log' = log \cup {NewChange(b, p)},
           lastSeq' = lastSeq + 1
    PROVE  LogInv'
<1>. USE DEF LogInv
<1>. DEFINE n == NewChange(b, p)
<1>1. lastSeq \in Nat /\ \A e \in log : e.seq \in Nat
  BY DEF Inv, TypeOK, Changes
<1>2. n.seq = lastSeq + 1 /\ n.id = b /\ n.parent = p.parent
  BY DEF NewChange
<1>. HIDE DEF n
<1>3. SeqsDrawn'
  BY <1>1, <1>2 DEF SeqsDrawn, n
<1>4. \A a, k : k \in 0 .. lastSeq => History(a, k)' = History(a, k)
  BY <1>1, <1>2 DEF History, n
<1>5. \A a : a # b => History(a, lastSeq)' = History(a, lastSeq)
  BY <1>1, <1>2 DEF History, SeqsDrawn, n
<1>6. \A a : a # b => /\ KnownAt(a, lastSeq)' = KnownAt(a, lastSeq)
                      /\ ParentAt(a, lastSeq)' = ParentAt(a, lastSeq)
  BY <1>5 DEF KnownAt, ParentAt
<1>7. KnownAt(b, lastSeq)' /\ ParentAt(b, lastSeq)' = p.parent
  <2>1. n \in History(b, lastSeq)'
    BY <1>1, <1>2 DEF History, n
  <2>2. \A e \in History(b, lastSeq)' : e.seq <= n.seq
    BY <1>1, <1>2 DEF History, n
  <2>3. \A e \in History(b, lastSeq)' : n.seq <= e.seq => e = n
    BY <1>1, <1>2 DEF History, SeqsDrawn, n
  <2>4. Latest(History(b, lastSeq)') = n
    BY <2>1, <2>2, <2>3 DEF Latest
  <2>. QED
    BY <1>2, <2>1, <2>4 DEF KnownAt, ParentAt
<1>8. /\ \A a \in AccountIds : a # b => rows'[a] = rows[a]
      /\ rows'[b].version # 0
      /\ rows'[b].parent = p.parent
  BY DEF Inv, TypeOK, Accounts
<1>9. RowsAreReplayed'
  BY <1>6, <1>7, <1>8 DEF RowsAreReplayed, Exists
<1>10. ReplayIsTwoLevel'
  <2>1. ReplayIsTwoLevel /\ TypeOK
    BY DEF Inv
  <2>. QED
    BY <1>1, <1>4, <1>9, <2>1, EndCursor
<1>. QED
  BY <1>3, <1>9, <1>10

\* LogInv holds in a fresh book, whose log is empty.
LEMMA LogInit ==
    ASSUME Init
    PROVE  LogInv
<1>1. Inv
  BY InvInit
<1>2. \A a, k : History(a, k) = {}
  BY DEF Init, History
<1>3. SeqsDrawn
  BY DEF Init, SeqsDrawn
<1>4. RowsAreReplayed
  BY <1>2, AccountTreeAssumption
     DEF Init, RowsAreReplayed, KnownAt, ParentAt, Exists, NoAccount
<1>5. ReplayIsTwoLevel
  <2>1. \A k : k \in 0 .. lastSeq => k = lastSeq
    BY DEF Init
  <2>. QED
    BY <1>1, <1>4, <2>1, EndIsTwoLevel DEF ReplayIsTwoLevel, Inv
<1>. QED
  BY <1>1, <1>3, <1>4, <1>5 DEF LogInv

\* Every step keeps LogInv.
LEMMA LogStep ==
    ASSUME LogInv, [Next]_vars
    PROVE  LogInv'
<1>1. Inv'
  BY InvStep DEF LogInv
<1>2. CASE rows' = rows /\ log' = log
           /\ (lastSeq' = lastSeq \/ lastSeq' = lastSeq + 1)
  BY <1>1, <1>2, LogQuietStep
<1>3. ASSUME NEW h \in Handlers, NEW code \in Codes, CommitAs(h, code)
      PROVE  LogInv'
  <2>1. plan[h] \in Plans /\ Body(h).id \in AccountIds
    BY BodyType DEF LogInv, Inv, TypeOK
  <2>2. CASE plan[h].code = "OK" /\ receipts[cur[h]] = NoReceipt
    <3>1. /\ rows' = [rows EXCEPT ![Body(h).id] =
                         [version |-> rows[Body(h).id].version + 1,
                          type |-> plan[h].type, parent |-> plan[h].parent]]
          /\ log' = log \cup {NewChange(Body(h).id, plan[h])}
          /\ lastSeq' = lastSeq + 1
      BY <1>3, <2>2 DEF CommitAs
    <3>. QED
      BY <1>1, <2>1, <3>1, LogCommitStep
  <2>3. CASE ~(plan[h].code = "OK" /\ receipts[cur[h]] = NoReceipt)
    BY <1>2, <1>3, <2>3 DEF CommitAs
  <2>. QED
    BY <2>2, <2>3
<1>4. ASSUME NEW h \in Handlers, Commit(h) \/ CommitUnacknowledged(h)
      PROVE  LogInv'
  BY <1>3, <1>4 DEF Commit, CommitUnacknowledged, Codes
<1>5. ASSUME NEW h \in Handlers,
             \/ \E m \in MutationIds : Receive(h, m)
             \/ LockMutation(h) \/ ParsePayload(h) \/ LockTree(h) \/ Check(h)
             \/ TxError(h) \/ Record(h) \/ Fail(h)
      PROVE  LogInv'
  <2>1. rows' = rows /\ log' = log /\ lastSeq' = lastSeq
    BY <1>5 DEF Receive, LockMutation, ParsePayload, LockTree, Check, TxError,
                Record, Fail
  <2>. QED
    BY <1>2, <2>1
<1>6. CASE UNCHANGED vars
  BY <1>2, <1>6 DEF vars
<1>. QED
  BY <1>4, <1>5, <1>6 DEF Next

\* The log and the rows agree in every reachable state.
THEOREM LogInvariance == Spec => []LogInv
  BY LogInit, LogStep, PTL DEF Spec

\* A device that replays the log, however far, shows a two-level tree and has
\* met every parent before its children.
THEOREM ReplaysAreTrees == Spec => []ReplayIsTwoLevel
<1>1. LogInv => ReplayIsTwoLevel
  BY DEF LogInv
<1>. QED
  BY <1>1, LogInvariance, PTL

\* A device that has replayed the whole log shows the tree the server stores.
THEOREM ReplaysReachTheRows == Spec => []ReplayReachesRows
<1>1. LogInv => ReplayReachesRows
  BY DEF LogInv, RowsAreReplayed, ReplayReachesRows
<1>. QED
  BY <1>1, LogInvariance, PTL
=============================================================================
