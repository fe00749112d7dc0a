-------------------------- MODULE DeviceSyncProofs --------------------------
(***************************************************************************)
(* What holds for every number of devices, transactions and operations of  *)
(* the model of syncNow.                                                   *)
(***************************************************************************)
EXTENDS DeviceSync, FiniteSetTheorems, SequenceTheorems, TLAPS

-----------------------------------------------------------------------------
(***************************************************************************)
(* Sequences                                                               *)
(***************************************************************************)

\* The elements of a sequence.
LEMMA ElementOf ==
    ASSUME NEW S, NEW s \in Seq(S), NEW i \in DOMAIN s
    PROVE  s[i] \in S
  OBVIOUS

\* Appending leaves what was there and adds one element.
LEMMA AppendFacts ==
    ASSUME NEW S, NEW s \in Seq(S), NEW e \in S
    PROVE  /\ Append(s, e) \in Seq(S)
           /\ Len(Append(s, e)) = Len(s) + 1
           /\ DOMAIN Append(s, e) = 1 .. Len(s) + 1
           /\ \A i \in DOMAIN s : i \in DOMAIN Append(s, e) /\ Append(s, e)[i] = s[i]
           /\ Append(s, e)[Len(s) + 1] = e
           /\ \A i \in DOMAIN Append(s, e) : i \in DOMAIN s \/ i = Len(s) + 1
  OBVIOUS

\* The tail has every element but the first, in their order.
LEMMA TailFacts ==
    ASSUME NEW S, NEW s \in Seq(S), s # <<>>
    PROVE  /\ Head(s) \in S /\ Head(s) = s[1] /\ 1 \in DOMAIN s
           /\ Tail(s) \in Seq(S)
           /\ Len(Tail(s)) = Len(s) - 1
           /\ \A i \in DOMAIN Tail(s) : i + 1 \in DOMAIN s /\ Tail(s)[i] = s[i + 1]
           /\ \A i \in DOMAIN s : i # 1 => i - 1 \in DOMAIN Tail(s) /\ Tail(s)[i - 1] = s[i]
  OBVIOUS

\* A stretch of a sequence.
LEMMA SubSeqFacts ==
    ASSUME NEW S, NEW s \in Seq(S), NEW m \in Nat \ {0}, NEW n \in Nat, n <= Len(s)
    PROVE  /\ SubSeq(s, m, n) \in Seq(S)
           /\ Len(SubSeq(s, m, n)) = IF m <= n THEN (n - m) + 1 ELSE 0
           /\ \A i \in 1 .. ((n - m) + 1) :
                 m + i - 1 \in DOMAIN s /\ SubSeq(s, m, n)[i] = s[m + i - 1]
<1>1. Len(s) \in Nat /\ DOMAIN s = 1 .. Len(s) /\ \A j \in 1 .. Len(s) : s[j] \in S
  OBVIOUS
<1>2. \A j \in m .. n : s[j] \in S
  BY <1>1
<1>3. \A i \in 1 .. ((n - m) + 1) : m + i - 1 \in DOMAIN s
  BY <1>1
<1>. QED
  BY <1>2, <1>3, SubSeqProperties

\* RemoveAt takes one element out and leaves the others in their order.
LEMMA RemoveAtFacts ==
    ASSUME NEW S, NEW s \in Seq(S), NEW i \in DOMAIN s
    PROVE  /\ RemoveAt(s, i) \in Seq(S)
           /\ Len(RemoveAt(s, i)) = Len(s) - 1
           /\ \A j \in DOMAIN RemoveAt(s, i) :
                 \/ j < i /\ j \in DOMAIN s /\ RemoveAt(s, i)[j] = s[j]
                 \/ j >= i /\ j + 1 \in DOMAIN s /\ RemoveAt(s, i)[j] = s[j + 1]
           /\ \A j \in DOMAIN s : j # i =>
                 \E k \in DOMAIN RemoveAt(s, i) : RemoveAt(s, i)[k] = s[j]
<1>. DEFINE A == SubSeq(s, 1, i - 1)
            B == SubSeq(s, i + 1, Len(s))
<1>0. i \in 1 .. Len(s) /\ Len(s) \in Nat /\ DOMAIN s = 1 .. Len(s) /\ \A j \in 1 .. Len(s) : s[j] \in S
  OBVIOUS
<1>1. A \in Seq(S) /\ Len(A) = i - 1 /\ \A j \in 1 .. i - 1 : A[j] = s[j]
  BY <1>0
<1>2. B \in Seq(S) /\ Len(B) = Len(s) - i /\ \A j \in 1 .. Len(s) - i : B[j] = s[i + j]
  <2>1. i + 1 \in Nat \ {0} /\ Len(s) <= Len(s)
    BY <1>0
  <2>2. /\ B \in Seq(S) /\ Len(B) = IF i + 1 <= Len(s) THEN (Len(s) - (i + 1)) + 1 ELSE 0
        /\ \A j \in 1 .. ((Len(s) - (i + 1)) + 1) : B[j] = s[(i + 1) + j - 1]
    BY <1>0, <2>1, SubSeqFacts
  <2>. HIDE DEF B
  <2>3. (Len(s) - (i + 1)) + 1 = Len(s) - i /\ (i + 1 <= Len(s) \/ Len(s) - i = 0)
    BY <1>0
  <2>4. \A j \in 1 .. (Len(s) - i) : (i + 1) + j - 1 = i + j
    BY <1>0
  <2>. QED
    BY <2>2, <2>3, <2>4
<1>3. RemoveAt(s, i) = A \o B
  BY DEF RemoveAt
<1>. HIDE DEF A, B
<1>4. /\ A \o B \in Seq(S) /\ Len(A \o B) = Len(s) - 1
      /\ \A j \in 1 .. Len(s) - 1 : (A \o B)[j] = IF j <= i - 1 THEN A[j] ELSE B[j - (i - 1)]
  <2>1. /\ A \o B \in Seq(S) /\ Len(A \o B) = Len(A) + Len(B)
        /\ \A j \in 1 .. Len(A) + Len(B) :
              (A \o B)[j] = IF j <= Len(A) THEN A[j] ELSE B[j - Len(A)]
    BY <1>1, <1>2, ConcatProperties
  <2>2. Len(A) + Len(B) = Len(s) - 1
    BY <1>0, <1>1, <1>2
  <2>. QED
    BY <1>1, <2>1, <2>2
<1>5. ASSUME NEW j \in 1 .. Len(s) - 1
      PROVE  (A \o B)[j] = IF j < i THEN s[j] ELSE s[j + 1]
  <2>1. CASE j < i
    BY <1>0, <1>1, <1>4, <2>1
  <2>2. CASE ~(j < i)
    <3>1. j - (i - 1) \in 1 .. Len(s) - i /\ i + (j - (i - 1)) = j + 1
      BY <1>0, <2>2
    <3>. QED
      BY <1>0, <1>2, <1>4, <2>2, <3>1, SMTT(30)
  <2>. QED
    BY <2>1, <2>2
<1>6. DOMAIN RemoveAt(s, i) = 1 .. Len(s) - 1
  BY <1>3, <1>4
<1>7. \A j \in DOMAIN RemoveAt(s, i) :
         \/ j < i /\ j \in DOMAIN s /\ RemoveAt(s, i)[j] = s[j]
         \/ j >= i /\ j + 1 \in DOMAIN s /\ RemoveAt(s, i)[j] = s[j + 1]
  <2>. SUFFICES ASSUME NEW j \in 1 .. Len(s) - 1
                PROVE  \/ j < i /\ j \in DOMAIN s /\ (A \o B)[j] = s[j]
                       \/ j >= i /\ j + 1 \in DOMAIN s /\ (A \o B)[j] = s[j + 1]
    BY <1>3, <1>6
  <2>1. (A \o B)[j] = IF j < i THEN s[j] ELSE s[j + 1]
    BY <1>5
  <2>2. j \in DOMAIN s /\ j + 1 \in DOMAIN s
    BY <1>0
  <2>. QED
    BY <1>0, <2>1, <2>2
<1>8. ASSUME NEW j \in DOMAIN s, j # i
      PROVE  \E k \in DOMAIN RemoveAt(s, i) : RemoveAt(s, i)[k] = s[j]
  <2>1. CASE j < i
    <3>1. j \in 1 .. Len(s) - 1
      BY <1>0, <2>1
    <3>. QED
      BY <1>3, <1>5, <1>6, <2>1, <3>1
  <2>2. CASE j > i
    <3>1. j - 1 \in 1 .. Len(s) - 1 /\ ~(j - 1 < i) /\ (j - 1) + 1 = j
      BY <1>0, <2>2
    <3>. QED
      BY <1>3, <1>5, <1>6, <3>1
  <2>. QED
    BY <1>0, <1>8, <2>1, <2>2
<1>. QED
  BY <1>3, <1>4, <1>7, <1>8
\* removePending leaves every mutation with another id in the queue.
LEMMA DropFacts ==
    ASSUME NEW q \in Seq(Mutations), NEW m \in Mutations
    PROVE  /\ Drop(q, m) \in Seq(Mutations)
           /\ \A j \in DOMAIN Drop(q, m) : \E i \in DOMAIN q : Drop(q, m)[j] = q[i]
           /\ \A i \in DOMAIN q : q[i].id # m.id =>
                 \E k \in DOMAIN Drop(q, m) : Drop(q, m)[k] = q[i]
<1>1. CASE \E i \in DOMAIN q : q[i].id = m.id
  <2>. DEFINE at == CHOOSE i \in DOMAIN q : q[i].id = m.id
  <2>1. at \in DOMAIN q /\ q[at].id = m.id /\ Drop(q, m) = RemoveAt(q, at)
    BY <1>1 DEF Drop
  <2>. HIDE DEF at
  <2>2. \A j \in DOMAIN RemoveAt(q, at) : \E i \in DOMAIN q : RemoveAt(q, at)[j] = q[i]
    BY <2>1, RemoveAtFacts
  <2>3. \A i \in DOMAIN q : q[i].id # m.id =>
           \E k \in DOMAIN RemoveAt(q, at) : RemoveAt(q, at)[k] = q[i]
    BY <2>1, RemoveAtFacts
  <2>4. RemoveAt(q, at) \in Seq(Mutations)
    BY <2>1, RemoveAtFacts
  <2>. QED
    BY <2>1, <2>2, <2>3, <2>4
<1>2. CASE ~\E i \in DOMAIN q : q[i].id = m.id
  BY <1>2 DEF Drop
<1>. QED
  BY <1>1, <1>2

-----------------------------------------------------------------------------
(***************************************************************************)
(* The inductive invariant                                                 *)
(***************************************************************************)

AppliedIds == {i \in Ids : IsApplied(receipts[i])}

\* The users' operations are counted, and MaxOps of them are no keepLocal.
Counted ==
    /\ ops - keeps <= MaxOps
    /\ \A d \in Devices : deleting[d] # NoDelete => deleting[d].id \in 1 .. ops

\* Only a queued mutation has an answer, and every applied one is one change.
LogCounts ==
    /\ Cardinality(AppliedIds) = Len(log)
    /\ \A i \in Ids : receipts[i] # NoReceipt => i \in 1 .. ops
    /\ \A i \in DOMAIN log : log[i].version <= Len(log)

\* What a device has in its queue or in a conflict it has once queued.
QueueIds ==
    \A d \in Devices :
        /\ \A i \in DOMAIN pending[d] : pending[d][i].id \in queued[d]
        /\ \A i \in DOMAIN conflicts[d] : conflicts[d][i].id \in queued[d]

\* A run of d holds mutations d has queued, answers the server stands by and
\* changes of the log; before it removes a refused mutation there is, or was,
\* a conflict.
GoodRun(d, s) ==
    /\ s.from <= Len(log) /\ s.next <= Len(log)
    /\ \A j \in DOMAIN s.batch : s.batch[j].id \in queued[d]
    /\ \A j \in DOMAIN s.answers :
          /\ s.answers[j].m.id \in queued[d]
          /\ IsApplied(s.answers[j].receipt) => IsApplied(receipts[s.answers[j].m.id])
    /\ s.pc = "refused" => /\ s.answers # <<>>
                           /\ s.answers[1].m.id \in Disputed(d) \cup closed[d]
    /\ \A j \in DOMAIN s.page : s.page[j].version <= Len(log)

RunInv == \A d \in Devices : \A r \in Runs : GoodRun(d, run[d][r])

Inv == TypeOK /\ Counted /\ LogCounts /\ QueueIds /\ RunInv /\ PendingKept
-----------------------------------------------------------------------------
(***************************************************************************)
(* Runs                                                                    *)
(***************************************************************************)

\* Every stage of a run has its type.
LEMMA RunTypes ==
    ASSUME NEW from \in Nat, NEW attempt \in {0, 1}, NEW batch \in Seq(Mutations),
           NEW answers \in Seq(Answers), NEW page \in Seq(LogEntries), NEW next \in Nat
    PROVE  /\ Off \in RunStates
           /\ Listing(from, attempt) \in RunStates
           /\ Pushing(from, attempt, batch, answers) \in RunStates
           /\ Handling("receipts", from, attempt, answers) \in RunStates
           /\ Handling("refused", from, attempt, answers) \in RunStates
           /\ Pulling(from) \in RunStates
           /\ Applying(from, page, next) \in RunStates
<1>1. << >> \in Seq(Mutations) /\ << >> \in Seq(Answers) /\ << >> \in Seq(LogEntries)
  OBVIOUS
<1>. QED
  BY <1>1 DEF RunStates, RunState, Off, Listing, Pushing, Handling, Pulling, Applying

\* A run in a state of its type.
LEMMA RunFields ==
    ASSUME NEW s \in RunStates
    PROVE  /\ s.from \in Nat /\ s.attempt \in {0, 1} /\ s.batch \in Seq(Mutations)
           /\ s.answers \in Seq(Answers) /\ s.page \in Seq(LogEntries) /\ s.next \in Nat
  BY DEF RunStates

\* A step of one run leaves the others where they are.
LEMMA RunMoves ==
    ASSUME TypeOK, NEW d \in Devices, NEW r \in Runs, NEW s \in RunStates,
           run' = [run EXCEPT ![d][r] = s]
    PROVE  /\ run' \in [Devices -> [Runs -> RunStates]]
           /\ run'[d][r] = s
           /\ \A e \in Devices, q \in Runs : e # d \/ q # r => run'[e][q] = run[e][q]
  BY DEF TypeOK

\* What a run relies on only grows: the log, the queued mutations, the applied
\* ones, and those in a conflict or out of it.
Grows ==
    /\ Len(log) <= Len(log)'
    /\ \A d \in Devices : queued[d] \subseteq queued'[d]
    /\ \A i \in Ids : IsApplied(receipts[i]) => IsApplied(receipts'[i])
    /\ \A d \in Devices : Disputed(d) \cup closed[d] \subseteq (Disputed(d) \cup closed[d])'

\* So a run that is good stays good.
LEMMA GoodRunStays ==
    ASSUME Grows, Len(log) \in Nat, Len(log)' \in Nat, NEW d \in Devices,
           NEW s \in RunStates, GoodRun(d, s)
    PROVE  GoodRun(d, s)'
<1>1. /\ s.from \in Nat /\ s.next \in Nat /\ s.batch \in Seq(Mutations)
      /\ s.answers \in Seq(Answers) /\ s.page \in Seq(LogEntries)
  BY RunFields
<1>2. s.from <= Len(log)' /\ s.next <= Len(log)'
  BY <1>1 DEF Grows, GoodRun
<1>3. \A j \in DOMAIN s.batch : s.batch[j].id \in queued'[d]
  BY DEF Grows, GoodRun
<1>4. \A j \in DOMAIN s.answers :
          /\ s.answers[j].m.id \in queued'[d]
          /\ IsApplied(s.answers[j].receipt) => IsApplied(receipts'[s.answers[j].m.id])
  <2>1. \A j \in DOMAIN s.answers : s.answers[j] \in Answers
    BY <1>1, ElementOf
  <2>2. \A j \in DOMAIN s.answers : s.answers[j].m.id \in Ids
    BY <2>1 DEF Answers, Mutations
  <2>. QED
    BY <2>2 DEF Grows, GoodRun
<1>5. s.pc = "refused" => /\ s.answers # <<>>
                          /\ s.answers[1].m.id \in (Disputed(d) \cup closed[d])'
  BY DEF Grows, GoodRun
<1>6. \A j \in DOMAIN s.page : s.page[j].version <= Len(log)'
  <2>1. \A j \in DOMAIN s.page : s.page[j] \in LogEntries
    BY <1>1, ElementOf
  <2>2. \A j \in DOMAIN s.page : s.page[j].version \in Nat
    BY <2>1 DEF LogEntries
  <2>. QED
    BY <2>2 DEF Grows, GoodRun
<1>. QED
  BY <1>2, <1>3, <1>4, <1>5, <1>6 DEF GoodRun

\* The runs after a step of one of them.
LEMMA RunsAfter ==
    ASSUME TypeOK, RunInv, Grows, Len(log)' \in Nat,
           NEW d \in Devices, NEW r \in Runs, NEW s \in RunStates,
           run' = [run EXCEPT ![d][r] = s], GoodRun(d, s)'
    PROVE  /\ RunInv'
           /\ run' \in [Devices -> [Runs -> RunStates]]
           /\ \A e \in Devices, q \in Runs :
                 run'[e][q].from \in 0 .. Len(log)' /\ run'[e][q].next \in 0 .. Len(log)'
<1>1. /\ run' \in [Devices -> [Runs -> RunStates]]
      /\ run'[d][r] = s
      /\ \A e \in Devices, q \in Runs : e # d \/ q # r => run'[e][q] = run[e][q]
  BY RunMoves, ZenonT(60)
<1>2. Len(log) \in Nat /\ \A e \in Devices, q \in Runs : run[e][q] \in RunStates
  BY DEF TypeOK
<1>3. ASSUME NEW e \in Devices, NEW q \in Runs
      PROVE  \E x \in RunStates : x = run'[e][q] /\ GoodRun(e, x)'
  <2>1. CASE e = d /\ q = r
    BY <1>1, <2>1
  <2>2. CASE ~(e = d /\ q = r)
    <3>1. PICK x \in RunStates : x = run[e][q]
      BY <1>2
    <3>2. GoodRun(e, x)
      BY <3>1 DEF RunInv
    <3>3. GoodRun(e, x)'
      BY <1>2, <3>2, GoodRunStays
    <3>. QED
      BY <1>1, <2>2, <3>1, <3>3
  <2>. QED
    BY <2>1, <2>2
<1>4. RunInv'
  <2>. SUFFICES ASSUME NEW e \in Devices, NEW q \in Runs
                PROVE  GoodRun(e, run[e][q])'
    BY DEF RunInv
  <2>1. PICK x \in RunStates : x = run'[e][q] /\ GoodRun(e, x)'
    BY <1>3
  <2>. QED
    BY <2>1 DEF GoodRun
<1>5. ASSUME NEW e \in Devices, NEW q \in Runs
      PROVE  run'[e][q].from \in 0 .. Len(log)' /\ run'[e][q].next \in 0 .. Len(log)'
  <2>1. PICK x \in RunStates : x = run'[e][q] /\ GoodRun(e, x)'
    BY <1>3
  <2>2. x.from \in Nat /\ x.next \in Nat
    BY RunFields
  <2>. QED
    BY <2>1, <2>2 DEF GoodRun
<1>. QED
  BY <1>1, <1>4, <1>5

\* The runs after a step of the user.
LEMMA RunsRest ==
    ASSUME TypeOK, RunInv, Grows, Len(log)' \in Nat, run' = run
    PROVE  /\ RunInv'
           /\ run' \in [Devices -> [Runs -> RunStates]]
           /\ \A e \in Devices, q \in Runs :
                 run'[e][q].from \in 0 .. Len(log)' /\ run'[e][q].next \in 0 .. Len(log)'
<1>1. Len(log) \in Nat /\ \A e \in Devices, q \in Runs : run[e][q] \in RunStates
  BY DEF TypeOK
<1>2. ASSUME NEW e \in Devices, NEW q \in Runs
      PROVE  \E x \in RunStates : x = run'[e][q] /\ GoodRun(e, x)'
  <2>1. PICK x \in RunStates : x = run[e][q]
    BY <1>1
  <2>2. GoodRun(e, x)
    BY <2>1 DEF RunInv
  <2>3. GoodRun(e, x)'
    BY <1>1, <2>2, GoodRunStays
  <2>. QED
    BY <2>1, <2>3
<1>3. RunInv'
  <2>. SUFFICES ASSUME NEW e \in Devices, NEW q \in Runs
                PROVE  GoodRun(e, run[e][q])'
    BY DEF RunInv
  <2>1. PICK x \in RunStates : x = run'[e][q] /\ GoodRun(e, x)'
    BY <1>2
  <2>. QED
    BY <2>1 DEF GoodRun
<1>4. \A e \in Devices, q \in Runs :
         run'[e][q].from \in 0 .. Len(log)' /\ run'[e][q].next \in 0 .. Len(log)'
  <2>. SUFFICES ASSUME NEW e \in Devices, NEW q \in Runs
                PROVE  run'[e][q].from \in 0 .. Len(log)' /\ run'[e][q].next \in 0 .. Len(log)'
    OBVIOUS
  <2>1. PICK x \in RunStates : x = run'[e][q] /\ GoodRun(e, x)'
    BY <1>2
  <2>2. x.from \in Nat /\ x.next \in Nat
    BY RunFields
  <2>. QED
    BY <2>1, <2>2 DEF GoodRun
<1>. QED
  BY <1>3, <1>4 DEF TypeOK
-----------------------------------------------------------------------------
(***************************************************************************)
(* The steps of a run                                                      *)
(***************************************************************************)

\* No more changes than operations: each applied mutation was numbered once.
LEMMA LogBound ==
    ASSUME Inv
    PROVE  Len(log) \in Nat /\ Len(log) <= ops /\ ops \in Nat
<1>1. ops \in Nat /\ Len(log) \in Nat
  BY DEF Inv, TypeOK
<1>2. AppliedIds \subseteq 1 .. ops
  BY DEF Inv, LogCounts, AppliedIds, IsApplied, NoReceipt, Receipt
<1>3. IsFiniteSet(1 .. ops) /\ Cardinality(1 .. ops) = ops
  BY <1>1, FS_Interval, SMTT(30)
<1>4. Cardinality(AppliedIds) <= Cardinality(1 .. ops)
  BY <1>2, <1>3, FS_Subset
<1>. QED
  BY <1>1, <1>3, <1>4 DEF Inv, LogCounts

\* The initial state.
LEMMA InitInv == Init => Inv
<1>. SUFFICES ASSUME Init
              PROVE  Inv
  OBVIOUS
<1>1. /\ MaxOps \in Nat /\ MaxKeeps \in Nat /\ MaxAborts \in Nat /\ MaxErrors \in Nat
  BY DeviceSyncAssumption
<1>2. Off \in RunStates
  <2>1. << >> \in Seq(Mutations) /\ << >> \in Seq(Answers) /\ << >> \in Seq(LogEntries)
    OBVIOUS
  <2>. QED
    BY <2>1 DEF RunStates, RunState, Off
<1>3. Len(log) = 0 /\ log \in Seq(LogEntries) /\ log = << >>
  BY DEF Init
<1>4. NoReceipt \in Receipts /\ ~IsApplied(NoReceipt)
  BY DEF NoReceipt, Receipt, Receipts, IsApplied
<1>5. NoRow \in Copies(0) /\ NoCopy \in Copies(1)
  BY DEF NoRow, NoCopy, Copies
<1>6. TypeOK
  <2>1. rows \in [TxIds -> Copies(Len(log))]
    BY <1>3, <1>5 DEF Init
  <2>2. local \in [Devices -> [TxIds -> Copies(ops + 1)]]
    BY <1>5 DEF Init
  <2>3. /\ pending \in [Devices -> Seq(Mutations)]
        /\ conflicts \in [Devices -> Seq(Conflicts)]
    BY DEF Init
  <2>4. run \in [Devices -> [Runs -> RunStates]]
    BY <1>2 DEF Init
  <2>5. \A d \in Devices : \A r \in Runs :
          /\ run[d][r].from \in 0 .. Len(log)
          /\ run[d][r].next \in 0 .. Len(log)
    BY <1>3 DEF Init, Off, RunState
  <2>6. receipts \in [Ids -> Receipts]
    BY <1>4 DEF Init
  <2>7. /\ cursor \in [Devices -> 0 .. Len(log)]
        /\ latest \in [Devices -> [TxIds -> 0 .. ops]]
    BY <1>3 DEF Init
  <2>8. /\ queued \in [Devices -> SUBSET (1 .. ops)]
        /\ closed \in [Devices -> SUBSET (1 .. ops)]
        /\ deleting \in [Devices -> {NoDelete} \cup [tx : TxIds, version : 0 .. ops, id : Ids]]
    BY DEF Init
  <2>. QED
    BY <1>1, <1>3, <2>1, <2>2, <2>3, <2>4, <2>5, <2>6, <2>7, <2>8 DEF TypeOK, Init
<1>7. Counted
  BY <1>1 DEF Init, Counted
<1>8. LogCounts
  <2>1. AppliedIds = {}
    BY <1>4 DEF Init, AppliedIds
  <2>. QED
    BY <1>3, <2>1, FS_EmptySet DEF Init, LogCounts
<1>9. QueueIds /\ PendingKept
  BY DEF Init, QueueIds, PendingKept
<1>10. RunInv
  BY <1>3 DEF Init, RunInv, GoodRun, Off, RunState
<1>. QED
  BY <1>6, <1>7, <1>8, <1>9, <1>10 DEF Inv

\* A step that moves one run and writes nothing but the cursor.
LEMMA RunStep ==
    ASSUME Inv, NEW d \in Devices, NEW r \in Runs, NEW s \in RunStates,
           run' = [run EXCEPT ![d][r] = s], GoodRun(d, s),
           UNCHANGED <<rows, log, receipts, local, pending, conflicts, deleting, queued,
                       closed, latest, raced, ops, keeps, errors>>,
           cursor' \in [Devices -> 0 .. Len(log)], aborts' \in 0 .. MaxAborts
    PROVE  Inv'
<1>1. /\ rows' = rows /\ log' = log /\ receipts' = receipts /\ local' = local
      /\ pending' = pending /\ conflicts' = conflicts /\ deleting' = deleting
      /\ queued' = queued /\ closed' = closed /\ latest' = latest /\ raced' = raced
      /\ ops' = ops /\ keeps' = keeps /\ errors' = errors
  OBVIOUS
<1>2. Len(log) \in Nat /\ Len(log)' = Len(log)
  BY <1>1, LogBound
<1>3. Grows /\ GoodRun(d, s)'
  BY <1>1, <1>2 DEF Grows, GoodRun, Disputed
<1>4. /\ RunInv'
      /\ run' \in [Devices -> [Runs -> RunStates]]
      /\ \A e \in Devices, q \in Runs :
            run'[e][q].from \in 0 .. Len(log)' /\ run'[e][q].next \in 0 .. Len(log)'
  BY <1>2, <1>3, RunsAfter DEF Inv
<1>5. TypeOK'
  BY <1>1, <1>2, <1>4 DEF Inv, TypeOK
<1>6. Counted' /\ QueueIds'
  BY <1>1 DEF Inv, Counted, QueueIds
<1>7. LogCounts'
  <2>1. AppliedIds' = AppliedIds
    BY <1>1 DEF AppliedIds
  <2>. QED
    BY <1>1, <1>2, <2>1 DEF Inv, LogCounts
<1>8. PendingKept'
  BY <1>1 DEF Inv, PendingKept, Waiting, Disputed
<1>. QED
  BY <1>4, <1>5, <1>6, <1>7, <1>8 DEF Inv
\* What the invariant says of the run that moves.
LEMMA RunNow ==
    ASSUME Inv, NEW d \in Devices, NEW r \in Runs
    PROVE  /\ run[d][r] \in RunStates /\ GoodRun(d, run[d][r])
           /\ run[d][r].from \in Nat /\ run[d][r].attempt \in {0, 1}
           /\ run[d][r].batch \in Seq(Mutations) /\ run[d][r].answers \in Seq(Answers)
           /\ run[d][r].page \in Seq(LogEntries) /\ run[d][r].next \in Nat
<1>1. run[d][r] \in RunStates /\ GoodRun(d, run[d][r])
  BY DEF Inv, TypeOK, RunInv
<1>. QED
  BY <1>1, RunFields

\* A run that is over.
LEMMA OffGood ==
    ASSUME Len(log) \in Nat, NEW d \in Devices
    PROVE  Off \in RunStates /\ GoodRun(d, Off)
<1>1. << >> \in Seq(Mutations) /\ << >> \in Seq(Answers) /\ << >> \in Seq(LogEntries)
  OBVIOUS
<1>2. Off \in RunStates
  BY <1>1 DEF RunStates, RunState, Off
<1>. QED
  BY <1>2 DEF GoodRun, Off, RunState

\* The steps that write nothing but the run's own state and the cursor.
LEMMA QuietSteps ==
    ASSUME Inv, NEW d \in Devices, NEW r \in Runs
    PROVE  (\/ Start(d, r) \/ List(d, r) \/ Respond(d, r) \/ AfterReceipts(d, r)
            \/ Finish(d, r) \/ Abort(d, r)) => Inv'
<1>. DEFINE s == run[d][r]
<1>0. /\ s \in RunStates /\ GoodRun(d, s)
      /\ s.from \in Nat /\ s.attempt \in {0, 1} /\ s.batch \in Seq(Mutations)
      /\ s.answers \in Seq(Answers) /\ s.page \in Seq(LogEntries) /\ s.next \in Nat
  BY RunNow
<1>1. Len(log) \in Nat /\ cursor \in [Devices -> 0 .. Len(log)] /\ aborts \in 0 .. MaxAborts
      /\ MaxAborts \in Nat /\ pending[d] \in Seq(Mutations)
      /\ \A i \in DOMAIN pending[d] : pending[d][i].id \in queued[d]
  BY DeviceSyncAssumption DEF Inv, TypeOK, QueueIds
<1>2. Off \in RunStates /\ GoodRun(d, Off)
  BY <1>1, OffGood
<1>3. ASSUME NEW from \in Nat, from <= Len(log), NEW attempt \in {0, 1}
      PROVE  /\ Listing(from, attempt) \in RunStates /\ GoodRun(d, Listing(from, attempt))
             /\ Pulling(from) \in RunStates /\ GoodRun(d, Pulling(from))
  <2>1. Listing(from, attempt) \in RunStates /\ Pulling(from) \in RunStates
    BY <1>0, RunTypes
  <2>. QED
    BY <1>1, <1>3, <2>1 DEF GoodRun, Listing, Pulling, RunState
<1>4. s.from <= Len(log) /\ s.next <= Len(log)
  BY <1>0 DEF GoodRun
<1>5. ASSUME Start(d, r)
      PROVE  Inv'
  <2>1. cursor[d] \in Nat /\ cursor[d] <= Len(log)
    BY <1>1
  <2>2. Listing(cursor[d], 0) \in RunStates /\ GoodRun(d, Listing(cursor[d], 0))
    BY <1>3, <2>1
  <2>. QED
    BY <1>1, <1>5, <2>2, RunStep DEF Start, serverVars, deviceVars, history, bounds
<1>6. ASSUME List(d, r)
      PROVE  Inv'
  <2>. DEFINE x == IF pending[d] = <<>> THEN Pulling(s.from)
                   ELSE Pushing(s.from, s.attempt, pending[d], <<>>)
  <2>1. << >> \in Seq(Answers)
    OBVIOUS
  <2>2. Pushing(s.from, s.attempt, pending[d], <<>>) \in RunStates
    BY <1>0, <1>1, <2>1, RunTypes
  <2>3. GoodRun(d, Pushing(s.from, s.attempt, pending[d], <<>>))
    BY <1>1, <1>4 DEF GoodRun, Pushing, RunState
  <2>4. Pulling(s.from) \in RunStates /\ GoodRun(d, Pulling(s.from))
    BY <1>0, <1>3, <1>4
  <2>5. x \in RunStates /\ GoodRun(d, x)
    BY <2>2, <2>3, <2>4
  <2>6. run' = [run EXCEPT ![d][r] = x]
    BY <1>6 DEF List
  <2>. HIDE DEF x
  <2>. QED
    BY <1>1, <1>6, <2>5, <2>6, RunStep DEF List, serverVars, deviceVars, history, bounds
<1>7. ASSUME Respond(d, r)
      PROVE  Inv'
  <2>1. Handling("receipts", s.from, s.attempt, s.answers) \in RunStates
    BY <1>0, RunTypes, SMTT(30)
  <2>2. GoodRun(d, Handling("receipts", s.from, s.attempt, s.answers))
    BY <1>0, <1>1 DEF GoodRun, Handling, RunState
  <2>. QED
    BY <1>1, <1>7, <2>1, <2>2, RunStep DEF Respond, serverVars, deviceVars, history, bounds
<1>8. ASSUME AfterReceipts(d, r)
      PROVE  Inv'
  <2>. DEFINE x == IF pending[d] = <<>> THEN Pulling(s.from)
                   ELSE IF s.attempt = 0 THEN Listing(s.from, 1)
                   ELSE Off
  <2>1. x \in RunStates /\ GoodRun(d, x)
    BY <1>0, <1>2, <1>3, <1>4
  <2>2. run' = [run EXCEPT ![d][r] = x]
    BY <1>8 DEF AfterReceipts
  <2>. HIDE DEF x
  <2>. QED
    BY <1>1, <1>8, <2>1, <2>2, RunStep DEF AfterReceipts, serverVars, deviceVars, history, bounds
<1>9. ASSUME Finish(d, r)
      PROVE  Inv'
  <2>1. SavedCursor(d, r) \in 0 .. Len(log)
    BY <1>0, <1>1, <1>4 DEF SavedCursor
  <2>2. cursor' \in [Devices -> 0 .. Len(log)]
    BY <1>1, <1>9, <2>1 DEF Finish
  <2>. QED
    BY <1>1, <1>2, <1>9, <2>2, RunStep DEF Finish, serverVars, deviceVars, history, bounds
<1>10. ASSUME Abort(d, r)
       PROVE  Inv'
  <2>1. aborts' \in 0 .. MaxAborts
    BY <1>1, <1>10 DEF Abort
  <2>. QED
    BY <1>1, <1>2, <1>10, <2>1, RunStep DEF Abort, serverVars, deviceVars, history, bounds
<1>. QED
  BY <1>5, <1>6, <1>7, <1>8, <1>9, <1>10

\* A page of pull is a stretch of the log that begins behind the cursor.
LEMMA PageFacts ==
    ASSUME log \in Seq(LogEntries), NEW from \in Nat, from <= Len(log)
    PROVE  /\ Page(from) \in Seq(LogEntries)
           /\ NextCursor(from, Page(from)) \in Nat
           /\ NextCursor(from, Page(from)) <= Len(log)
           /\ \A i \in DOMAIN Page(from) : from + i \in DOMAIN log /\ Page(from)[i] = log[from + i]
<1>. DEFINE last == IF from + Limit < Len(log) THEN from + Limit ELSE Len(log)
<1>1. Limit \in Nat \ {0} /\ Len(log) \in Nat
  BY DeviceSyncAssumption
<1>2. last \in Nat /\ last <= Len(log) /\ from <= last /\ from + 1 \in Nat \ {0}
  BY <1>1
<1>3. Page(from) = SubSeq(log, from + 1, last)
  BY DEF Page
<1>. HIDE DEF last
<1>4. /\ Page(from) \in Seq(LogEntries)
      /\ Len(Page(from)) = IF from + 1 <= last THEN (last - (from + 1)) + 1 ELSE 0
      /\ \A i \in 1 .. ((last - (from + 1)) + 1) :
            /\ (from + 1) + i - 1 \in DOMAIN log
            /\ Page(from)[i] = log[(from + 1) + i - 1]
  BY <1>2, <1>3, SubSeqFacts
<1>5. Len(Page(from)) = last - from /\ (last - (from + 1)) + 1 = last - from
  BY <1>2, <1>4
<1>6. DOMAIN Page(from) = 1 .. (last - from)
  BY <1>4, <1>5
<1>7. \A i \in 1 .. (last - from) : (from + 1) + i - 1 = from + i
  BY <1>2
<1>8. \A i \in DOMAIN Page(from) : from + i \in DOMAIN log /\ Page(from)[i] = log[from + i]
  BY <1>4, <1>5, <1>6, <1>7
<1>9. NextCursor(from, Page(from)) = last
  BY <1>2, <1>5 DEF NextCursor
<1>. QED
  BY <1>2, <1>4, <1>8, <1>9

\* pull
LEMMA PullStep ==
    ASSUME Inv, NEW d \in Devices, NEW r \in Runs, Pull(d, r)
    PROVE  Inv'
<1>. DEFINE from == run[d][r].from
            x == Applying(from, Page(from), NextCursor(from, Page(from)))
<1>1. /\ log \in Seq(LogEntries) /\ Len(log) \in Nat
      /\ cursor' \in [Devices -> 0 .. Len(log)] /\ aborts' \in 0 .. MaxAborts
  BY LogBound DEF Inv, TypeOK, Pull, bounds
<1>2. from \in Nat /\ from <= Len(log) /\ run[d][r].attempt \in {0, 1}
      /\ run[d][r].batch \in Seq(Mutations) /\ run[d][r].answers \in Seq(Answers)
  BY RunNow DEF GoodRun
<1>3. /\ Page(from) \in Seq(LogEntries)
      /\ NextCursor(from, Page(from)) \in Nat
      /\ NextCursor(from, Page(from)) <= Len(log)
      /\ \A i \in DOMAIN Page(from) : from + i \in DOMAIN log /\ Page(from)[i] = log[from + i]
  BY <1>1, <1>2, PageFacts
<1>4. x \in RunStates
  BY <1>2, <1>3, RunTypes
<1>5. \A i \in DOMAIN Page(from) : Page(from)[i].version <= Len(log)
  BY <1>3 DEF Inv, LogCounts
<1>6. GoodRun(d, x)
  BY <1>2, <1>3, <1>5 DEF GoodRun, Applying, RunState
<1>7. run' = [run EXCEPT ![d][r] = x]
  BY DEF Pull
<1>. HIDE DEF x
<1>. QED
  BY <1>1, <1>4, <1>6, <1>7, RunStep DEF Pull, serverVars, deviceVars, history, bounds
\* What a device has queued has been numbered.
LEMMA QueuedIds ==
    ASSUME Inv, NEW d \in Devices
    PROVE  queued[d] \subseteq 1 .. ops /\ queued[d] \subseteq Ids
<1>1. ops \in Nat /\ ops <= MaxOps + MaxKeeps /\ MaxOps + MaxKeeps \in Nat
  BY DeviceSyncAssumption DEF Inv, TypeOK
<1>2. 1 .. ops \subseteq Ids
  BY <1>1 DEF Ids
<1>3. queued[d] \subseteq 1 .. ops
  BY DEF Inv, TypeOK
<1>. QED
  BY <1>2, <1>3

\* A queue and its conflicts that are left alone.
LEMMA SameQueues ==
    /\ pending' = pending => \A d \in Devices : Waiting(d)' = Waiting(d)
    /\ conflicts' = conflicts => \A d \in Devices : Disputed(d)' = Disputed(d)
<1>1. pending' = pending => \A d \in Devices : Waiting(d)' = Waiting(d)
  BY DEF Waiting
<1>2. conflicts' = conflicts => \A d \in Devices : Disputed(d)' = Disputed(d)
  BY DEF Disputed
<1>. QED
  BY <1>1, <1>2

\* A mutation is removed from the queue.
LEMMA Dropped ==
    ASSUME Inv, NEW d \in Devices, NEW m \in Mutations,
           pending' = [pending EXCEPT ![d] = Drop(@, m)]
    PROVE  /\ pending' \in [Devices -> Seq(Mutations)]
           /\ Waiting(d) \ {m.id} \subseteq Waiting(d)'
           /\ Waiting(d)' \subseteq Waiting(d)
           /\ \A e \in Devices : e # d => Waiting(e)' = Waiting(e)
<1>1. pending \in [Devices -> Seq(Mutations)] /\ pending[d] \in Seq(Mutations)
  BY DEF Inv, TypeOK
<1>2. /\ Drop(pending[d], m) \in Seq(Mutations)
      /\ \A j \in DOMAIN Drop(pending[d], m) :
            \E i \in DOMAIN pending[d] : Drop(pending[d], m)[j] = pending[d][i]
      /\ \A i \in DOMAIN pending[d] : pending[d][i].id # m.id =>
            \E k \in DOMAIN Drop(pending[d], m) : Drop(pending[d], m)[k] = pending[d][i]
  BY <1>1, DropFacts
<1>3. /\ pending' \in [Devices -> Seq(Mutations)]
      /\ pending'[d] = Drop(pending[d], m)
      /\ \A e \in Devices : e # d => pending'[e] = pending[e]
  BY <1>1, <1>2
<1>4. Waiting(d) \ {m.id} \subseteq Waiting(d)' /\ Waiting(d)' \subseteq Waiting(d)
  BY <1>2, <1>3 DEF Waiting
<1>. QED
  BY <1>3, <1>4, ZenonT(60) DEF Waiting

\* A step of one run that writes the queue or a conflict.
LEMMA QueueStep ==
    ASSUME Inv, NEW d \in Devices, NEW r \in Runs, NEW s \in RunStates,
           run' = [run EXCEPT ![d][r] = s], GoodRun(d, s)',
           pending' \in [Devices -> Seq(Mutations)],
           conflicts' \in [Devices -> Seq(Conflicts)],
           \A e \in Devices : Disputed(e) \subseteq Disputed(e)',
           QueueIds', PendingKept',
           UNCHANGED <<rows, log, receipts, local, cursor, deleting, queued,
                       closed, latest, raced, ops, keeps, aborts, errors>>
    PROVE  Inv'
<1>1. /\ rows' = rows /\ log' = log /\ receipts' = receipts /\ local' = local
      /\ cursor' = cursor /\ deleting' = deleting
      /\ queued' = queued /\ closed' = closed /\ latest' = latest /\ raced' = raced
      /\ ops' = ops /\ keeps' = keeps /\ aborts' = aborts /\ errors' = errors
  OBVIOUS
<1>2. Len(log) \in Nat /\ Len(log)' = Len(log)
  BY <1>1, LogBound
<1>3. Grows
  BY <1>1, <1>2 DEF Grows
<1>4. /\ RunInv'
      /\ run' \in [Devices -> [Runs -> RunStates]]
      /\ \A e \in Devices, q \in Runs :
            run'[e][q].from \in 0 .. Len(log)' /\ run'[e][q].next \in 0 .. Len(log)'
  BY <1>2, <1>3, RunsAfter DEF Inv
<1>5. TypeOK'
  BY <1>1, <1>2, <1>4 DEF Inv, TypeOK
<1>6. Counted'
  BY <1>1 DEF Inv, Counted
<1>7. LogCounts'
  <2>1. AppliedIds' = AppliedIds
    BY <1>1 DEF AppliedIds
  <2>. QED
    BY <1>1, <1>2, <2>1 DEF Inv, LogCounts
<1>. QED
  BY <1>4, <1>5, <1>6, <1>7 DEF Inv

\* The first answer of a run, and the run without it.
LEMMA HeadAnswer ==
    ASSUME Inv, NEW d \in Devices, NEW r \in Runs, run[d][r].answers # <<>>
    PROVE  /\ Head(run[d][r].answers) \in Answers
           /\ Head(run[d][r].answers).m \in Mutations
           /\ Head(run[d][r].answers).receipt \in Receipts
           /\ Head(run[d][r].answers) = run[d][r].answers[1]
           /\ Head(run[d][r].answers).m.id \in queued[d]
           /\ IsApplied(Head(run[d][r].answers).receipt) =>
                 IsApplied(receipts[Head(run[d][r].answers).m.id])
           /\ Handled(run[d][r]) \in RunStates /\ GoodRun(d, Handled(run[d][r]))
           /\ Refused(run[d][r]) \in RunStates
<1>. DEFINE s == run[d][r]
<1>1. /\ s \in RunStates /\ GoodRun(d, s)
      /\ s.from \in Nat /\ s.attempt \in {0, 1} /\ s.batch \in Seq(Mutations)
      /\ s.answers \in Seq(Answers) /\ s.page \in Seq(LogEntries) /\ s.next \in Nat
  BY RunNow
<1>2. /\ Head(s.answers) \in Answers /\ Head(s.answers) = s.answers[1] /\ 1 \in DOMAIN s.answers
      /\ Tail(s.answers) \in Seq(Answers)
      /\ \A i \in DOMAIN Tail(s.answers) :
            i + 1 \in DOMAIN s.answers /\ Tail(s.answers)[i] = s.answers[i + 1]
  BY <1>1, TailFacts
<1>3. Head(s.answers).m \in Mutations /\ Head(s.answers).receipt \in Receipts
  BY <1>2 DEF Answers
<1>4. Handled(s) \in RunStates
  BY <1>1, <1>2, RunTypes DEF Handled
<1>5. Refused(s) \in RunStates
  BY <1>1, <1>2, RunTypes DEF Refused
<1>6. GoodRun(d, Handled(s))
  <2>1. \A j \in DOMAIN Tail(s.answers) :
          /\ Tail(s.answers)[j].m.id \in queued[d]
          /\ IsApplied(Tail(s.answers)[j].receipt) => IsApplied(receipts[Tail(s.answers)[j].m.id])
    BY <1>1, <1>2 DEF GoodRun
  <2>2. s.from <= Len(log) /\ 0 <= Len(log)
    BY <1>1, LogBound DEF GoodRun
  <2>. QED
    BY <2>1, <2>2 DEF GoodRun, Handled, Handling, RunState
<1>7. /\ Head(s.answers).m.id \in queued[d]
      /\ IsApplied(Head(s.answers).receipt) => IsApplied(receipts[Head(s.answers).m.id])
  BY <1>1, <1>2, SMTT(30) DEF GoodRun
<1>. QED
  BY <1>2, <1>3, <1>4, <1>5, <1>6, <1>7

\* A mutation that is applied, or is or was in a conflict, leaves the queue.
LEMMA RemoveStep ==
    ASSUME Inv, NEW d \in Devices, NEW r \in Runs, run[d][r].answers # <<>>,
           \/ IsApplied(receipts[Head(run[d][r].answers).m.id])
           \/ Head(run[d][r].answers).m.id \in Disputed(d) \cup closed[d],
           pending' = [pending EXCEPT ![d] = Drop(@, Head(run[d][r].answers).m)],
           run' = [run EXCEPT ![d][r] = Handled(run[d][r])],
           UNCHANGED conflicts,
           UNCHANGED <<serverVars, local, cursor, deleting, history, ops, bounds>>
    PROVE  Inv'
<1>0. /\ Head(run[d][r].answers).m \in Mutations
      /\ Handled(run[d][r]) \in RunStates /\ GoodRun(d, Handled(run[d][r]))
  BY HeadAnswer
<1>01. PICK m \in Mutations : m = Head(run[d][r].answers).m
  BY <1>0
<1>02. PICK s \in RunStates : s = Handled(run[d][r])
  BY <1>0
<1>1. /\ pending' = [pending EXCEPT ![d] = Drop(@, m)]
      /\ run' = [run EXCEPT ![d][r] = s]
      /\ conflicts' = conflicts /\ queued' = queued /\ closed' = closed
      /\ receipts' = receipts /\ log' = log
  BY <1>01, <1>02 DEF serverVars, history
<1>2. (IsApplied(receipts[m.id]) \/ m.id \in Disputed(d) \cup closed[d]) /\ GoodRun(d, s)
  BY <1>0, <1>01, <1>02, SMTT(30)
<1>3. /\ pending' \in [Devices -> Seq(Mutations)]
      /\ Waiting(d) \ {m.id} \subseteq Waiting(d)'
      /\ Waiting(d)' \subseteq Waiting(d)
      /\ \A e \in Devices : e # d => Waiting(e)' = Waiting(e)
  BY <1>1, <1>2, Dropped
<1>4. \A e \in Devices : Disputed(e)' = Disputed(e)
  BY <1>1, SameQueues, SMTT(30)
<1>5. QueueIds'
  <2>0. \A e \in Devices : Waiting(e) \subseteq queued[e]
    BY DEF Inv, QueueIds, Waiting
  <2>1. \A e \in Devices : Waiting(e)' \subseteq queued[e]
    BY <1>3, <2>0
  <2>. QED
    BY <1>1, <2>1 DEF Inv, QueueIds, Waiting
<1>6. PendingKept'
  <2>. SUFFICES ASSUME NEW e \in Devices,
                       NEW i \in queued[e] \ (Waiting(e)' \cup Disputed(e) \cup closed[e])
                PROVE  IsApplied(receipts[i])
    BY <1>1, <1>4 DEF PendingKept, IsApplied
  <2>1. CASE e = d /\ i = m.id
    BY <1>2, <2>1
  <2>2. CASE ~(e = d /\ i = m.id)
    <3>1. i \notin Waiting(e)
      BY <1>3, <2>2, SMTT(30)
    <3>. QED
      BY <3>1 DEF Inv, PendingKept
  <2>. QED
    BY <2>1, <2>2
<1>7. GoodRun(d, s)'
  BY <1>1, <1>2, <1>4 DEF GoodRun
<1>8. conflicts' \in [Devices -> Seq(Conflicts)]
  BY <1>1 DEF Inv, TypeOK
<1>. QED
  BY <1>1, <1>2, <1>3, <1>4, <1>5, <1>6, <1>7, <1>8, QueueStep, ZenonT(60)
     DEF serverVars, history, bounds

\* addConflict
LEMMA AddConflictStep ==
    ASSUME Inv, NEW d \in Devices, NEW r \in Runs, run[d][r].answers # <<>>,
           AddConflict(d, r),
           UNCHANGED <<serverVars, local, cursor, deleting, history, ops, bounds>>
    PROVE  Inv'
<1>. DEFINE refusal == Head(run[d][r].answers)
            c == [id |-> refusal.m.id, tx |-> refusal.m.tx, op |-> refusal.m.op,
                  content |-> refusal.m.content, version |-> refusal.receipt.version,
                  over |-> refusal.receipt.content]
<1>0. /\ refusal.m \in Mutations /\ refusal.receipt \in Receipts /\ refusal = run[d][r].answers[1]
      /\ refusal.m.id \in queued[d] /\ Refused(run[d][r]) \in RunStates
      /\ run[d][r].answers \in Seq(Answers) /\ GoodRun(d, run[d][r])
  BY HeadAnswer, RunNow
<1>01. PICK s \in RunStates : s = Refused(run[d][r])
  BY <1>0
<1>1. /\ conflicts' = [conflicts EXCEPT ![d] = Append(@, c)]
      /\ run' = [run EXCEPT ![d][r] = s]
      /\ pending' = pending /\ queued' = queued /\ closed' = closed
      /\ receipts' = receipts /\ log' = log
  BY <1>01 DEF AddConflict, serverVars, history
<1>2. c \in Conflicts /\ c.id = refusal.m.id
  BY <1>0 DEF Mutations, Receipts, Conflicts
<1>. HIDE DEF c
<1>3. conflicts \in [Devices -> Seq(Conflicts)] /\ conflicts[d] \in Seq(Conflicts)
  BY DEF Inv, TypeOK
<1>4. /\ Append(conflicts[d], c) \in Seq(Conflicts)
      /\ \A i \in DOMAIN conflicts[d] : /\ i \in DOMAIN Append(conflicts[d], c)
                                        /\ Append(conflicts[d], c)[i] = conflicts[d][i]
      /\ Len(conflicts[d]) + 1 \in DOMAIN Append(conflicts[d], c)
      /\ Append(conflicts[d], c)[Len(conflicts[d]) + 1] = c
      /\ \A i \in DOMAIN Append(conflicts[d], c) :
            i \in DOMAIN conflicts[d] \/ i = Len(conflicts[d]) + 1
  BY <1>2, <1>3, AppendFacts
<1>5. /\ conflicts' \in [Devices -> Seq(Conflicts)]
      /\ conflicts'[d] = Append(conflicts[d], c)
      /\ \A e \in Devices : e # d => conflicts'[e] = conflicts[e]
  BY <1>1, <1>3, <1>4
<1>6. /\ Disputed(d) \subseteq Disputed(d)' /\ refusal.m.id \in Disputed(d)'
      /\ \A e \in Devices : e # d => Disputed(e)' = Disputed(e)
  <2>1. Disputed(d) \subseteq Disputed(d)'
    BY <1>4, <1>5 DEF Disputed
  <2>2. c.id \in Disputed(d)'
    BY <1>4, <1>5 DEF Disputed
  <2>3. \A e \in Devices : e # d => Disputed(e)' = Disputed(e)
    BY <1>5 DEF Disputed
  <2>. QED
    BY <1>2, <2>1, <2>2, <2>3
<1>7. QueueIds'
  BY <1>0, <1>1, <1>2, <1>4, <1>5 DEF Inv, QueueIds
<1>8. PendingKept'
  <2>1. \A e \in Devices : Waiting(e)' = Waiting(e)
    BY <1>1 DEF Waiting
  <2>2. \A e \in Devices : Disputed(e) \subseteq Disputed(e)'
    BY <1>6, SMTT(30)
  <2>. QED
    BY <1>1, <2>1, <2>2 DEF Inv, PendingKept
<1>9. GoodRun(d, s)'
  <2>1. /\ s.pc = "refused" /\ s.from = run[d][r].from /\ s.answers = run[d][r].answers
        /\ s.batch = <<>> /\ s.page = <<>> /\ s.next = 0
    BY <1>01, SMTT(30) DEF Refused, Handling, RunState
  <2>2. s.from <= Len(log) /\ 0 <= Len(log)
    BY <1>0, <2>1, LogBound, SMTT(30) DEF GoodRun
  <2>3. \A j \in DOMAIN s.answers :
          /\ s.answers[j].m.id \in queued'[d]
          /\ IsApplied(s.answers[j].receipt) => IsApplied(receipts'[s.answers[j].m.id])
    BY <1>0, <1>1, <2>1 DEF GoodRun
  <2>4. s.answers # <<>> /\ s.answers[1].m.id \in Disputed(d)'
    BY <1>0, <1>6, <2>1
  <2>. QED
    BY <1>1, <2>1, <2>2, <2>3, <2>4 DEF GoodRun
<1>10. pending' \in [Devices -> Seq(Mutations)] /\ \A e \in Devices : Disputed(e) \subseteq Disputed(e)'
  BY <1>1, <1>6 DEF Inv, TypeOK
<1>. QED
  BY <1>1, <1>5, <1>7, <1>8, <1>9, <1>10, QueueStep DEF serverVars, history, bounds

\* Working through the receipts.
LEMMA ReceiptSteps ==
    ASSUME Inv, NEW d \in Devices, NEW r \in Runs
    PROVE  HandleReceipt(d, r) \/ RemoveRefused(d, r) => Inv'
<1>1. ASSUME HandleReceipt(d, r)
      PROVE  Inv'
  <2>0. /\ run[d][r].answers # <<>>
        /\ UNCHANGED <<serverVars, local, cursor, deleting, history, ops, bounds>>
    BY <1>1, SMTT(30) DEF HandleReceipt
  <2>1. CASE IsApplied(Head(run[d][r].answers).receipt)
    <3>1. RemoveApplied(d, r)
      BY <1>1, <2>1, SMTT(30) DEF HandleReceipt, IsApplied
    <3>2. IsApplied(receipts[Head(run[d][r].answers).m.id])
      BY <2>0, <2>1, HeadAnswer
    <3>. QED
      BY <2>0, <3>1, <3>2, RemoveStep DEF RemoveApplied
  <2>2. CASE Head(run[d][r].answers).receipt.code = "LEDGER_VERSION_CONFLICT"
    <3>1. AddConflict(d, r)
      BY <1>1, <2>2 DEF HandleReceipt, IsApplied
    <3>. QED
      BY <2>0, <3>1, AddConflictStep
  <2>3. CASE /\ ~IsApplied(Head(run[d][r].answers).receipt)
             /\ Head(run[d][r].answers).receipt.code # "LEDGER_VERSION_CONFLICT"
    <3>1. run' = [run EXCEPT ![d][r] = Off] /\ UNCHANGED <<pending, conflicts>>
      BY <1>1, <2>3 DEF HandleReceipt
    <3>2. Off \in RunStates /\ GoodRun(d, Off)
      BY LogBound, OffGood
    <3>3. cursor' \in [Devices -> 0 .. Len(log)] /\ aborts' \in 0 .. MaxAborts
      BY <2>0, SMTT(30) DEF Inv, TypeOK, bounds
    <3>. QED
      BY <2>0, <3>1, <3>2, <3>3, RunStep DEF serverVars, history, bounds
  <2>. QED
    BY <2>1, <2>2, <2>3
<1>2. ASSUME RemoveRefused(d, r)
      PROVE  Inv'
  <2>1. /\ run[d][r].answers # <<>>
        /\ run[d][r].answers[1].m.id \in Disputed(d) \cup closed[d]
    BY <1>2, RunNow DEF RemoveRefused, GoodRun
  <2>2. Head(run[d][r].answers).m.id \in Disputed(d) \cup closed[d]
    BY <2>1, HeadAnswer
  <2>. QED
    BY <1>2, <2>1, <2>2, RemoveStep DEF RemoveRefused
<1>. QED
  BY <1>1, <1>2
-----------------------------------------------------------------------------
(***************************************************************************)
(* The server                                                              *)
(***************************************************************************)

\* The copies with versions up to a bound are among those up to a larger one.
LEMMA CopiesGrow ==
    ASSUME NEW m \in Nat, NEW n \in Nat, m <= n
    PROVE  Copies(m) \subseteq Copies(n)
  BY DEF Copies

\* The head of the batch.
LEMMA HeadOfBatch ==
    ASSUME Inv, NEW d \in Devices, NEW r \in Runs, run[d][r].batch # <<>>
    PROVE  /\ Head(run[d][r].batch) \in Mutations
           /\ Head(run[d][r].batch).id \in queued[d]
           /\ Head(run[d][r].batch).id \in 1 .. ops
           /\ Head(run[d][r].batch).id \in Ids
           /\ \A i \in DOMAIN Tail(run[d][r].batch) :
                 Tail(run[d][r].batch)[i].id \in queued[d]
<1>. DEFINE b == run[d][r].batch
<1>1. b \in Seq(Mutations) /\ \A j \in DOMAIN b : b[j].id \in queued[d]
  BY RunNow DEF GoodRun
<1>2. /\ Head(b) \in Mutations /\ Head(b) = b[1] /\ 1 \in DOMAIN b
      /\ \A i \in DOMAIN Tail(b) : i + 1 \in DOMAIN b /\ Tail(b)[i] = b[i + 1]
  BY <1>1, TailFacts
<1>3. queued[d] \subseteq 1 .. ops
  BY DEF Inv, TypeOK
<1>. QED
  BY <1>1, <1>2, <1>3 DEF Mutations

\* The server's decision has the type of a receipt.
LEMMA DecideType ==
    ASSUME TypeOK, NEW m \in Mutations
    PROVE  /\ Decide(m) \in Receipts
           /\ NewRow(m) \in Copies(Len(log) + 1)
           /\ NewChange(m) \in LogEntries
           /\ NewChange(m).version <= Len(log) + 1
<1>1. /\ Len(log) \in Nat /\ rows[m.tx] \in Copies(Len(log))
      /\ m.tx \in TxIds /\ m.content \in Ids /\ m.op \in {"create", "update", "delete"}
      /\ m.id \in Ids /\ m.on \in Nat
  BY DEF TypeOK, Mutations
<1>2. /\ rows[m.tx].version \in 0 .. Len(log) /\ rows[m.tx].deleted \in BOOLEAN
      /\ rows[m.tx].content \in {0} \cup Ids
  BY <1>1 DEF Copies
<1>3. rows[m.tx].content \in Nat /\ m.content \in Nat
  BY <1>1, <1>2 DEF Ids
<1>4. Decide(m) \in Receipts
  BY <1>1, <1>2, <1>3 DEF Decide, Receipt, Receipts
<1>5. NewRow(m) \in Copies(Len(log) + 1)
  <2>1. rows[m.tx].version + 1 \in 0 .. (Len(log) + 1)
    BY <1>1, <1>2
  <2>2. (rows[m.tx].deleted \/ m.op = "delete") \in BOOLEAN
    OBVIOUS
  <2>3. (IF m.op = "delete" THEN rows[m.tx].content ELSE m.content) \in {0} \cup Ids
    BY <1>1, <1>2
  <2>. QED
    BY <2>1, <2>2, <2>3 DEF NewRow, Copies
<1>6. NewChange(m) \in LogEntries /\ NewChange(m).version <= Len(log) + 1
  BY <1>1, <1>2, <1>3, SMTT(30) DEF NewChange, LogEntries
<1>. QED
  BY <1>4, <1>5, <1>6

\* The server answers the head of the batch with what it has stored, with a
\* refusal, or with a change.
ServerAnswers(d, r, m, receipt) ==
    /\ run[d][r].batch # <<>> /\ m = Head(run[d][r].batch)
    /\ receipt = receipts[m.id] \/ receipts[m.id] = NoReceipt
    /\ receipts' = [receipts EXCEPT ![m.id] = receipt]
    /\ run' = [run EXCEPT ![d][r] = Answered(run[d][r], receipt)]
    /\ \/ /\ rows' = rows /\ log' = log
          /\ receipts[m.id] = NoReceipt => ~IsApplied(receipt)
       \/ /\ rows' = [rows EXCEPT ![m.tx] = NewRow(m)]
          /\ log' = Append(log, NewChange(m))
          /\ receipts[m.id] = NoReceipt /\ IsApplied(receipt)
    /\ UNCHANGED <<deviceVars, cursor, history, ops, keeps, aborts>>
    /\ errors' \in 0 .. MaxErrors

\* The run that gets the answer.
LEMMA AnsweredRun ==
    ASSUME Inv, NEW d \in Devices, NEW r \in Runs, run[d][r].batch # <<>>,
           NEW receipt \in Receipts
    PROVE  \E s \in RunStates :
              /\ s = Answered(run[d][r], receipt)
              /\ s.pc = "push" /\ s.from = run[d][r].from /\ s.next = 0 /\ s.page = <<>>
              /\ s.batch = Tail(run[d][r].batch)
              /\ \A i \in DOMAIN s.answers :
                    \/ /\ i \in DOMAIN run[d][r].answers
                       /\ s.answers[i] = run[d][r].answers[i]
                       /\ run[d][r].answers[i].m.id \in Ids
                    \/ s.answers[i] = [m |-> Head(run[d][r].batch), receipt |-> receipt]
<1>. DEFINE a == run[d][r].answers
            b == run[d][r].batch
            x == [m |-> Head(b), receipt |-> receipt]
            s == Answered(run[d][r], receipt)
<1>1. /\ run[d][r].from \in Nat /\ run[d][r].attempt \in {0, 1} /\ b \in Seq(Mutations)
      /\ a \in Seq(Answers)
      /\ run[d][r].page \in Seq(LogEntries) /\ run[d][r].next \in Nat
  BY RunNow
<1>2. x \in Answers
  BY HeadOfBatch DEF Answers
<1>3. /\ s.pc = "push" /\ s.from = run[d][r].from /\ s.answers = Append(a, x)
      /\ s.batch = Tail(b) /\ s.page = <<>> /\ s.next = 0
      /\ s = Pushing(run[d][r].from, run[d][r].attempt, Tail(b), Append(a, x))
  BY DEF Answered, Pushing, RunState
<1>4. Tail(b) \in Seq(Mutations)
  BY <1>1, TailFacts
<1>. HIDE DEF x, s
<1>5. /\ Append(a, x) \in Seq(Answers)
      /\ \A i \in DOMAIN a : Append(a, x)[i] = a[i]
      /\ Append(a, x)[Len(a) + 1] = x
      /\ \A i \in DOMAIN Append(a, x) : i \in DOMAIN a \/ i = Len(a) + 1
  BY <1>1, <1>2, AppendFacts, SMTT(30)
<1>6. s \in RunStates
  BY <1>1, <1>3, <1>4, <1>5, RunTypes, ZenonT(60)
<1>7. \A i \in DOMAIN a : a[i].m.id \in Ids
  <2>1. \A i \in DOMAIN a : a[i] \in Answers
    BY <1>1, ElementOf, SMTT(30)
  <2>. QED
    BY <2>1 DEF Answers, Mutations
<1>8. \A i \in DOMAIN s.answers :
          (i \in DOMAIN a /\ s.answers[i] = a[i] /\ a[i].m.id \in Ids) \/ s.answers[i] = x
  BY <1>3, <1>5, <1>7
<1>. QED
  BY <1>3, <1>6, <1>8 DEF x, s

\* A step of the server.
LEMMA ServerStep ==
    ASSUME Inv, NEW d \in Devices, NEW r \in Runs, NEW m \in Mutations,
           NEW receipt \in Receipts, ServerAnswers(d, r, m, receipt)
    PROVE  Inv'
<1>0. /\ local' = local /\ pending' = pending /\ conflicts' = conflicts
      /\ cursor' = cursor /\ deleting' = deleting
      /\ queued' = queued /\ closed' = closed /\ latest' = latest /\ raced' = raced
      /\ ops' = ops /\ keeps' = keeps /\ aborts' = aborts /\ errors' \in 0 .. MaxErrors
  BY SMTT(30) DEF ServerAnswers, deviceVars, history
<1>01. run[d][r].batch # <<>> /\ m = Head(run[d][r].batch)
  BY DEF ServerAnswers
<1>1. /\ m.id \in queued[d] /\ m.id \in 1 .. ops /\ m.id \in Ids /\ m.tx \in TxIds
      /\ \A i \in DOMAIN Tail(run[d][r].batch) : Tail(run[d][r].batch)[i].id \in queued[d]
  BY <1>01, HeadOfBatch DEF Mutations
<1>2. /\ receipts \in [Ids -> Receipts] /\ log \in Seq(LogEntries) /\ Len(log) \in Nat
      /\ rows \in [TxIds -> Copies(Len(log))] /\ IsFiniteSet(AppliedIds)
  <2>0. ~IsApplied(NoReceipt)
    BY DEF IsApplied, NoReceipt, Receipt
  <2>1. AppliedIds \subseteq 1 .. ops /\ ops \in Nat
    BY <2>0, LogBound DEF Inv, LogCounts, AppliedIds
  <2>2. IsFiniteSet(1 .. ops)
    BY <2>1, FS_Interval
  <2>3. IsFiniteSet(AppliedIds)
    BY <2>1, <2>2, FS_Subset
  <2>. QED
    BY <2>3 DEF Inv, TypeOK
<1>3. /\ receipts' \in [Ids -> Receipts] /\ receipts'[m.id] = receipt
      /\ \A i \in Ids : i # m.id => receipts'[i] = receipts[i]
      /\ receipt = receipts[m.id] \/ receipts[m.id] = NoReceipt
  BY <1>1, <1>2 DEF ServerAnswers
<1>4. ~IsApplied(NoReceipt)
  BY DEF IsApplied, NoReceipt, Receipt
<1>5. \A i \in Ids : IsApplied(receipts[i]) => IsApplied(receipts'[i])
  BY <1>3, <1>4, SMTT(30)
<1>6. /\ log' \in Seq(LogEntries) /\ Len(log)' \in Nat /\ Len(log) <= Len(log)'
      /\ rows' \in [TxIds -> Copies(Len(log)')]
      /\ Cardinality(AppliedIds') = Len(log)'
      /\ \A i \in DOMAIN log' : log'[i].version <= Len(log)'
  <2>1. CASE /\ rows' = rows /\ log' = log
             /\ receipts[m.id] = NoReceipt => ~IsApplied(receipt)
    <3>1. AppliedIds' = AppliedIds
      BY <1>1, <1>3, <1>4, <2>1 DEF AppliedIds
    <3>. QED
      BY <1>2, <2>1, <3>1 DEF Inv, LogCounts
  <2>2. CASE /\ rows' = [rows EXCEPT ![m.tx] = NewRow(m)]
             /\ log' = Append(log, NewChange(m))
             /\ receipts[m.id] = NoReceipt /\ IsApplied(receipt)
    <3>1. /\ NewRow(m) \in Copies(Len(log) + 1) /\ NewChange(m) \in LogEntries
          /\ NewChange(m).version <= Len(log) + 1
      BY DecideType DEF Inv
    <3>2. /\ log' \in Seq(LogEntries) /\ Len(log)' = Len(log) + 1
          /\ \A i \in DOMAIN log : log'[i] = log[i]
          /\ log'[Len(log) + 1] = NewChange(m)
          /\ \A i \in DOMAIN log' : i \in DOMAIN log \/ i = Len(log) + 1
      BY <1>2, <2>2, <3>1, AppendFacts
    <3>3. Copies(Len(log)) \subseteq Copies(Len(log) + 1)
      BY <1>2, CopiesGrow
    <3>4. rows' \in [TxIds -> Copies(Len(log) + 1)]
      BY <1>1, <1>2, <2>2, <3>1, <3>3
    <3>5. AppliedIds' = AppliedIds \cup {m.id} /\ m.id \notin AppliedIds
      BY <1>1, <1>3, <1>4, <2>2 DEF AppliedIds
    <3>6. Cardinality(AppliedIds') = Cardinality(AppliedIds) + 1
      BY <1>2, <3>5, FS_AddElement
    <3>7. \A i \in DOMAIN log : log[i].version \in Nat /\ log[i].version <= Len(log)
      <4>1. \A i \in DOMAIN log : log[i] \in LogEntries
        BY <1>2, ElementOf
      <4>. QED
        BY <4>1 DEF LogEntries, Inv, LogCounts
    <3>8. \A i \in DOMAIN log' : log'[i].version <= Len(log) + 1
      <4>1. \A i \in DOMAIN log : log'[i].version <= Len(log) + 1
        BY <1>2, <3>2, <3>7
      <4>. QED
        BY <3>1, <3>2, <4>1
    <3>9. Len(log) + 1 \in Nat /\ Len(log) <= Len(log) + 1
      BY <1>2
    <3>. QED
      BY <3>2, <3>4, <3>6, <3>8, <3>9 DEF Inv, LogCounts
  <2>. QED
    BY <2>1, <2>2 DEF ServerAnswers
<1>7. \A e \in Devices : Waiting(e)' = Waiting(e) /\ Disputed(e)' = Disputed(e)
  BY <1>0, SameQueues
<1>8. Grows
  BY <1>0, <1>5, <1>6, <1>7 DEF Grows
<1>9. PICK s \in RunStates : s = Answered(run[d][r], receipt) /\ GoodRun(d, s)'
  <2>1. PICK s \in RunStates :
           /\ s = Answered(run[d][r], receipt)
           /\ s.pc = "push" /\ s.from = run[d][r].from /\ s.next = 0 /\ s.page = <<>>
           /\ s.batch = Tail(run[d][r].batch)
           /\ \A i \in DOMAIN s.answers :
                 \/ /\ i \in DOMAIN run[d][r].answers
                    /\ s.answers[i] = run[d][r].answers[i]
                    /\ run[d][r].answers[i].m.id \in Ids
                 \/ s.answers[i] = [m |-> Head(run[d][r].batch), receipt |-> receipt]
    BY <1>01, AnsweredRun
  <2>2. GoodRun(d, run[d][r]) /\ run[d][r].from \in Nat
    BY RunNow, SMTT(30)
  <2>3. s.from <= Len(log)' /\ 0 <= Len(log)'
    BY <1>2, <1>6, <2>1, <2>2, SMTT(30) DEF GoodRun
  <2>4. ASSUME NEW j \in DOMAIN s.answers
        PROVE  /\ s.answers[j].m.id \in queued'[d]
               /\ IsApplied(s.answers[j].receipt) => IsApplied(receipts'[s.answers[j].m.id])
    <3>1. CASE /\ j \in DOMAIN run[d][r].answers
               /\ s.answers[j] = run[d][r].answers[j]
               /\ run[d][r].answers[j].m.id \in Ids
      BY <1>0, <1>5, <2>2, <3>1, SMTT(30) DEF GoodRun
    <3>2. CASE s.answers[j] = [m |-> Head(run[d][r].batch), receipt |-> receipt]
      BY <1>0, <1>01, <1>1, <1>3, <3>2
    <3>. QED
      BY <2>1, <3>1, <3>2, SMTT(30)
  <2>5. \A j \in DOMAIN s.batch : s.batch[j].id \in queued'[d]
    BY <1>0, <1>1, <2>1, SMTT(30)
  <2>6. GoodRun(d, s)'
    BY <2>1, <2>3, <2>4, <2>5, SMTT(60) DEF GoodRun
  <2>. QED
    BY <2>1, <2>6
<1>10. /\ RunInv'
       /\ run' \in [Devices -> [Runs -> RunStates]]
       /\ \A e \in Devices, q \in Runs :
             run'[e][q].from \in 0 .. Len(log)' /\ run'[e][q].next \in 0 .. Len(log)'
  <2>1. run' = [run EXCEPT ![d][r] = s]
    BY <1>9 DEF ServerAnswers
  <2>. QED
    BY <1>6, <1>8, <1>9, <2>1, RunsAfter DEF Inv
<1>11. TypeOK'
  <2>1. cursor' \in [Devices -> 0 .. Len(log)']
    BY <1>0, <1>2, <1>6 DEF Inv, TypeOK
  <2>. QED
    BY <1>0, <1>3, <1>6, <1>10, <2>1 DEF Inv, TypeOK
<1>12. Counted' /\ QueueIds'
  BY <1>0 DEF Inv, Counted, QueueIds
<1>13. LogCounts'
  BY <1>0, <1>1, <1>3, <1>6 DEF Inv, LogCounts
<1>14. PendingKept'
  <2>1. \A e \in Devices : queued[e] \subseteq Ids
    BY QueuedIds, SMTT(30)
  <2>. QED
    BY <1>0, <1>5, <1>7, <2>1 DEF Inv, PendingKept
<1>. QED
  BY <1>10, <1>11, <1>12, <1>13, <1>14 DEF Inv

\* push answers the next mutation of a request, or fails to.
LEMMA ServeForm ==
    ASSUME Inv, NEW d \in Devices, NEW r \in Runs, Serve(d, r) \/ ServeError(d, r)
    PROVE  \E m \in Mutations, receipt \in Receipts :
              /\ ServerAnswers(d, r, m, receipt) /\ run[d][r].pc = "push"
              /\ receipts[m.id] = NoReceipt => receipt = Decide(m) \/ receipt.code = "DB_ERROR"
<1>1. CASE Serve(d, r)
  <2>0. run[d][r].batch # <<>>
    BY <1>1 DEF Serve
  <2>1. PICK m \in Mutations : m = Head(run[d][r].batch) /\ m.id \in Ids
    BY <2>0, HeadOfBatch
  <2>2. receipts[m.id] \in Receipts /\ Decide(m) \in Receipts /\ errors \in 0 .. MaxErrors
    BY <2>1, DecideType, SMTT(30) DEF Inv, TypeOK
  <2>3. PICK receipt \in Receipts :
           receipt = IF receipts[m.id] = NoReceipt THEN Decide(m) ELSE receipts[m.id]
    BY <2>2
  <2>4. /\ receipts' = [receipts EXCEPT ![m.id] = receipt]
        /\ run' = [run EXCEPT ![d][r] = Answered(run[d][r], receipt)]
        /\ UNCHANGED <<deviceVars, cursor, history, ops, bounds>>
    BY <1>1, <2>1, <2>3, ZenonT(60) DEF Serve
  <2>8. /\ UNCHANGED <<deviceVars, cursor, history, ops, keeps, aborts>>
        /\ errors' \in 0 .. MaxErrors
    BY <2>2, <2>4 DEF bounds
  <2>5. \/ /\ rows' = rows /\ log' = log
           /\ receipts[m.id] = NoReceipt => ~IsApplied(receipt)
        \/ /\ rows' = [rows EXCEPT ![m.tx] = NewRow(m)]
           /\ log' = Append(log, NewChange(m))
           /\ receipts[m.id] = NoReceipt /\ IsApplied(receipt)
    BY <1>1, <2>1, <2>3 DEF Serve, IsApplied
  <2>6. receipt = receipts[m.id] \/ receipts[m.id] = NoReceipt
    BY <2>3, SMTT(30)
  <2>7. ServerAnswers(d, r, m, receipt)
    BY <2>0, <2>1, <2>4, <2>5, <2>6, <2>8 DEF ServerAnswers
  <2>. QED
    BY <1>1, <2>3, <2>7, ZenonT(60) DEF Serve
<1>2. CASE ServeError(d, r)
  <2>0. run[d][r].batch # <<>>
    BY <1>2 DEF ServeError
  <2>1. PICK m \in Mutations : m = Head(run[d][r].batch) /\ m.id \in Ids
    BY <2>0, HeadOfBatch
  <2>2. PICK receipt \in Receipts : receipt = Receipt("DB_ERROR", 0, 0)
    BY DEF Receipt, Receipts
  <2>3. ~IsApplied(receipt)
    BY <2>2 DEF IsApplied, Receipt
  <2>4. /\ receipts' = [receipts EXCEPT ![m.id] = receipt]
        /\ run' = [run EXCEPT ![d][r] = Answered(run[d][r], receipt)]
        /\ UNCHANGED <<deviceVars, cursor, history, ops, keeps, aborts>>
        /\ rows' = rows /\ log' = log /\ receipts[m.id] = NoReceipt
    BY <1>2, <2>1, <2>2 DEF ServeError
  <2>5. errors' \in 0 .. MaxErrors
    <3>1. errors \in 0 .. MaxErrors /\ errors < MaxErrors /\ errors' = errors + 1 /\ MaxErrors \in Nat
      BY <1>2, DeviceSyncAssumption DEF ServeError, Inv, TypeOK
    <3>. QED
      BY <3>1
  <2>6. ServerAnswers(d, r, m, receipt)
    BY <2>0, <2>1, <2>3, <2>4, <2>5 DEF ServerAnswers
  <2>7. receipt.code = "DB_ERROR"
    BY <2>2 DEF Receipt
  <2>. QED
    BY <1>2, <2>6, <2>7 DEF ServeError
<1>. QED
  BY <1>1, <1>2, SMTT(30)

\* So both keep the invariant.
LEMMA ServeSteps ==
    ASSUME Inv, NEW d \in Devices, NEW r \in Runs
    PROVE  Serve(d, r) \/ ServeError(d, r) => Inv'
<1>. SUFFICES ASSUME Serve(d, r) \/ ServeError(d, r)
              PROVE  Inv'
  OBVIOUS
<1>1. PICK m \in Mutations, receipt \in Receipts : ServerAnswers(d, r, m, receipt)
  BY ServeForm
<1>. QED
  BY <1>1, ServerStep

\* applyRemoteUpsert and applyRemoteDelete
LEMMA ApplyStep ==
    ASSUME Inv, NEW d \in Devices, NEW r \in Runs, ApplyChange(d, r)
    PROVE  Inv'
<1>. DEFINE p == run[d][r].page
            e == Head(p)
<1>0. /\ rows' = rows /\ log' = log /\ receipts' = receipts /\ pending' = pending
      /\ conflicts' = conflicts /\ cursor' = cursor /\ deleting' = deleting
      /\ queued' = queued /\ closed' = closed /\ latest' = latest
      /\ ops' = ops /\ keeps' = keeps /\ aborts' = aborts /\ errors' = errors
      /\ p # <<>>
  BY DEF ApplyChange, serverVars, bounds
<1>1. /\ run[d][r].from \in Nat /\ run[d][r].attempt \in {0, 1}
      /\ run[d][r].batch \in Seq(Mutations) /\ run[d][r].answers \in Seq(Answers)
      /\ p \in Seq(LogEntries) /\ run[d][r].next \in Nat /\ GoodRun(d, run[d][r])
  BY RunNow
<1>2. /\ e \in LogEntries /\ e = p[1] /\ 1 \in DOMAIN p
      /\ Tail(p) \in Seq(LogEntries)
      /\ \A i \in DOMAIN Tail(p) : i + 1 \in DOMAIN p /\ Tail(p)[i] = p[i + 1]
  BY <1>0, <1>1, TailFacts
<1>3. Len(log) \in Nat /\ Len(log) <= ops /\ ops \in Nat
  BY LogBound
<1>4. e.version \in Nat /\ e.version <= Len(log) /\ e.tx \in TxIds /\ e.content \in Ids
  BY <1>1, <1>2 DEF GoodRun, LogEntries
<1>5. local' \in [Devices -> [TxIds -> Copies(ops + 1)]]
  <2>1. local[d][e.tx] \in Copies(ops + 1)
    BY <1>4 DEF Inv, TypeOK
  <2>2. e.version \in 0 .. (ops + 1)
    BY <1>3, <1>4, SMTT(30)
  <2>3. Applied(local[d][e.tx], e) \in Copies(ops + 1)
    BY <1>4, <2>1, <2>2 DEF Applied, Copies
  <2>4. local' = [local EXCEPT ![d][e.tx] = Applied(local[d][e.tx], e)]
    BY DEF ApplyChange
  <2>. QED
    BY <1>4, <2>3, <2>4 DEF Inv, TypeOK
<1>6. Applying(run[d][r].from, Tail(p), run[d][r].next) \in RunStates
  BY <1>1, <1>2, RunTypes
<1>7. PICK s \in RunStates : s = Applying(run[d][r].from, Tail(p), run[d][r].next)
  BY <1>6
<1>8. GoodRun(d, s)'
  <2>1. \A j \in DOMAIN Tail(p) : Tail(p)[j].version <= Len(log)
    BY <1>1, <1>2 DEF GoodRun
  <2>2. run[d][r].from <= Len(log) /\ run[d][r].next <= Len(log)
    BY <1>1 DEF GoodRun
  <2>3. /\ s.pc = "apply" /\ s.from = run[d][r].from /\ s.next = run[d][r].next
        /\ s.page = Tail(p) /\ s.batch = <<>> /\ s.answers = <<>>
    BY <1>7 DEF Applying, RunState
  <2>. QED
    BY <1>0, <2>1, <2>2, <2>3 DEF GoodRun
<1>9. run' = [run EXCEPT ![d][r] = s]
  BY <1>7 DEF ApplyChange
<1>10. \A x \in Devices : Waiting(x)' = Waiting(x) /\ Disputed(x)' = Disputed(x)
  BY <1>0, SameQueues
<1>11. Grows
  BY <1>0, <1>3, <1>10 DEF Grows
<1>12. /\ RunInv'
       /\ run' \in [Devices -> [Runs -> RunStates]]
       /\ \A x \in Devices, q \in Runs :
             run'[x][q].from \in 0 .. Len(log)' /\ run'[x][q].next \in 0 .. Len(log)'
  BY <1>0, <1>3, <1>8, <1>9, <1>11, RunsAfter DEF Inv
<1>13. raced' \subseteq Devices
  BY DEF ApplyChange, Inv, TypeOK
<1>14. TypeOK'
  BY <1>0, <1>5, <1>12, <1>13 DEF Inv, TypeOK
<1>15. Counted' /\ QueueIds'
  BY <1>0 DEF Inv, Counted, QueueIds
<1>16. LogCounts'
  <2>1. AppliedIds' = AppliedIds
    BY <1>0 DEF AppliedIds
  <2>. QED
    BY <1>0, <2>1 DEF Inv, LogCounts
<1>17. PendingKept'
  BY <1>0, <1>10 DEF Inv, PendingKept
<1>. QED
  BY <1>12, <1>14, <1>15, <1>16, <1>17 DEF Inv

-----------------------------------------------------------------------------
(***************************************************************************)
(* The user                                                                *)
(***************************************************************************)

\* The users' operations are numbered on, within the bound.
NumbersOn ==
    /\ ops' \in 0 .. MaxOps + MaxKeeps
    /\ ops <= ops'

\* The types that depend on the number of operations only get wider.
LEMMA TypesGrow ==
    ASSUME Inv, NumbersOn
    PROVE  /\ local \in [Devices -> [TxIds -> Copies(ops' + 1)]]
           /\ queued \in [Devices -> SUBSET (1 .. ops')]
           /\ closed \in [Devices -> SUBSET (1 .. ops')]
           /\ latest \in [Devices -> [TxIds -> 0 .. ops']]
           /\ deleting \in [Devices -> {NoDelete} \cup [tx : TxIds, version : 0 .. ops', id : Ids]]
<1>1. ops \in Nat /\ ops' \in Nat /\ ops <= ops' /\ ops + 1 <= ops' + 1
  <2>1. MaxOps \in Nat /\ MaxKeeps \in Nat
    BY DeviceSyncAssumption
  <2>2. ops \in Nat
    BY LogBound
  <2>3. ops' \in 0 .. (MaxOps + MaxKeeps) /\ ops <= ops'
    BY DEF NumbersOn
  <2>4. ops' \in Nat
    BY <2>1, <2>3
  <2>5. ops <= ops'
    BY <2>3
  <2>6. \A m, n \in Nat : m <= n => m + 1 <= n + 1
    OBVIOUS
  <2>. QED
    BY <2>2, <2>4, <2>5, <2>6
<1>2. Copies(ops + 1) \subseteq Copies(ops' + 1)
  BY <1>1, CopiesGrow
<1>3. 1 .. ops \subseteq 1 .. ops' /\ 0 .. ops \subseteq 0 .. ops'
  BY <1>1
<1>4. [tx : TxIds, version : 0 .. ops, id : Ids] \subseteq [tx : TxIds, version : 0 .. ops', id : Ids]
  BY <1>3
<1>5. local \in [Devices -> [TxIds -> Copies(ops' + 1)]]
  BY <1>2 DEF Inv, TypeOK
<1>6. /\ queued \in [Devices -> SUBSET (1 .. ops')]
      /\ closed \in [Devices -> SUBSET (1 .. ops')]
  BY <1>3 DEF Inv, TypeOK
<1>7. latest \in [Devices -> [TxIds -> 0 .. ops']]
  BY <1>3 DEF Inv, TypeOK
<1>8. deleting \in [Devices -> {NoDelete} \cup [tx : TxIds, version : 0 .. ops', id : Ids]]
  BY <1>4 DEF Inv, TypeOK
<1>. QED
  BY <1>5, <1>6, <1>7, <1>8

\* A step of the user writes nothing of the server's and of the runs.
LEMMA UserStep ==
    ASSUME Inv, NumbersOn, UNCHANGED <<rows, log, receipts, cursor, run, aborts, errors, raced>>,
           local' \in [Devices -> [TxIds -> Copies(ops' + 1)]],
           pending' \in [Devices -> Seq(Mutations)],
           conflicts' \in [Devices -> Seq(Conflicts)],
           deleting' \in [Devices -> {NoDelete} \cup [tx : TxIds, version : 0 .. ops', id : Ids]],
           queued' \in [Devices -> SUBSET (1 .. ops')],
           closed' \in [Devices -> SUBSET (1 .. ops')],
           latest' \in [Devices -> [TxIds -> 0 .. ops']],
           keeps' \in 0 .. MaxKeeps, Counted', QueueIds', PendingKept',
           \A d \in Devices : queued[d] \subseteq queued'[d],
           \A d \in Devices : Disputed(d) \cup closed[d] \subseteq (Disputed(d) \cup closed[d])'
    PROVE  Inv'
<1>1. /\ rows' = rows /\ log' = log /\ receipts' = receipts /\ cursor' = cursor
      /\ run' = run /\ aborts' = aborts /\ errors' = errors /\ raced' = raced
  OBVIOUS
<1>2. Len(log) \in Nat /\ Len(log)' = Len(log) /\ ops \in Nat
  BY <1>1, LogBound
<1>3. Grows
  BY <1>1, <1>2 DEF Grows
<1>4. /\ RunInv'
      /\ run' \in [Devices -> [Runs -> RunStates]]
      /\ \A e \in Devices, q \in Runs :
            run'[e][q].from \in 0 .. Len(log)' /\ run'[e][q].next \in 0 .. Len(log)'
  BY <1>1, <1>2, <1>3, RunsRest DEF Inv
<1>5. TypeOK'
  BY <1>1, <1>2, <1>4 DEF Inv, TypeOK, NumbersOn
<1>6. LogCounts'
  <2>1. AppliedIds' = AppliedIds
    BY <1>1 DEF AppliedIds
  <2>2. \A i \in Ids : receipts'[i] # NoReceipt => i \in 1 .. ops'
    <3>1. 1 .. ops \subseteq 1 .. ops'
      BY <1>2, DeviceSyncAssumption DEF NumbersOn
    <3>. QED
      BY <1>1, <3>1 DEF Inv, LogCounts
  <2>. QED
    BY <1>1, <1>2, <2>1, <2>2 DEF Inv, LogCounts
<1>. QED
  BY <1>4, <1>5, <1>6 DEF Inv
\* A mutation joins the queue of a device.
LEMMA Enqueued ==
    ASSUME Inv, NumbersOn, NEW d \in Devices, NEW m \in Mutations, m.id \in 1 .. ops',
           Enqueue(d, m)
    PROVE  /\ pending' \in [Devices -> Seq(Mutations)]
           /\ queued' \in [Devices -> SUBSET (1 .. ops')]
           /\ \A e \in Devices : queued[e] \subseteq queued'[e]
           /\ \A e \in Devices : queued'[e] \ Waiting(e)' \subseteq queued[e] \ Waiting(e)
           /\ \A e \in Devices : \A i \in DOMAIN pending'[e] : pending'[e][i].id \in queued'[e]
           /\ pending'[d] = Append(pending[d], m)
           /\ \A e \in Devices : e # d => pending'[e] = pending[e]
<1>1. pending \in [Devices -> Seq(Mutations)] /\ pending[d] \in Seq(Mutations)
  BY DEF Inv, TypeOK
<1>2. queued \in [Devices -> SUBSET (1 .. ops')]
  BY TypesGrow
<1>3. /\ Append(pending[d], m) \in Seq(Mutations)
      /\ \A i \in DOMAIN pending[d] : i \in DOMAIN Append(pending[d], m)
                                      /\ Append(pending[d], m)[i] = pending[d][i]
      /\ Len(pending[d]) + 1 \in DOMAIN Append(pending[d], m)
      /\ Append(pending[d], m)[Len(pending[d]) + 1] = m
      /\ \A i \in DOMAIN Append(pending[d], m) : i \in DOMAIN pending[d] \/ i = Len(pending[d]) + 1
  BY <1>1, AppendFacts
<1>4. /\ pending' \in [Devices -> Seq(Mutations)] /\ pending'[d] = Append(pending[d], m)
      /\ \A e \in Devices : e # d => pending'[e] = pending[e]
  BY <1>1, <1>3 DEF Enqueue
<1>5. /\ queued' \in [Devices -> SUBSET (1 .. ops')]
      /\ queued'[d] = queued[d] \cup {m.id}
      /\ \A e \in Devices : e # d => queued'[e] = queued[e]
  BY <1>2 DEF Enqueue
<1>6. Waiting(d) \cup {m.id} \subseteq Waiting(d)'
  <2>1. Waiting(d) \subseteq Waiting(d)'
    BY <1>3, <1>4 DEF Waiting
  <2>2. m.id \in Waiting(d)'
    BY <1>3, <1>4 DEF Waiting
  <2>. QED
    BY <2>1, <2>2
<1>7. \A e \in Devices : e # d => Waiting(e)' = Waiting(e)
  BY <1>4 DEF Waiting
<1>8. \A e \in Devices : queued'[e] \ Waiting(e)' \subseteq queued[e] \ Waiting(e)
  BY <1>5, <1>6, <1>7
<1>9. ASSUME NEW e \in Devices, NEW i \in DOMAIN pending'[e]
      PROVE  pending'[e][i].id \in queued'[e]
  <2>1. CASE e # d
    BY <1>4, <1>5, <2>1 DEF Inv, QueueIds
  <2>2. CASE e = d
    BY <1>3, <1>4, <1>5, <2>2 DEF Inv, QueueIds
  <2>. QED
    BY <2>1, <2>2
<1>. QED
  BY <1>4, <1>5, <1>8, <1>9

\* The number a new operation gets.
LEMMA FreshNumber ==
    ASSUME Inv, ops' = ops + 1, MayOperate \/ keeps < MaxKeeps
    PROVE  /\ NumbersOn /\ Fresh \in Ids /\ Fresh \in 1 .. ops' /\ ops \in Nat
           /\ MayOperate => ops' - keeps <= MaxOps
<1>1. /\ ops \in Nat /\ keeps \in Nat /\ keeps <= MaxKeeps /\ ops - keeps <= MaxOps
      /\ MaxOps \in Nat /\ MaxKeeps \in Nat
  BY DeviceSyncAssumption DEF Inv, TypeOK, Counted
<1>2. ops + 1 <= MaxOps + MaxKeeps
  BY <1>1 DEF MayOperate
<1>3. MayOperate => (ops + 1) - keeps <= MaxOps
  BY <1>1 DEF MayOperate
<1>. QED
  BY <1>1, <1>2, <1>3 DEF NumbersOn, Fresh, Ids

\* The queue is left alone, or a mutation joins it, and no conflict goes.
LEMMA KeptStill ==
    ASSUME Inv, receipts' = receipts,
           \A e \in Devices : queued'[e] \ Waiting(e)' \subseteq queued[e] \ Waiting(e),
           \A e \in Devices : Disputed(e) \cup closed[e] \subseteq (Disputed(e) \cup closed[e])'
    PROVE  PendingKept'
  BY DEF Inv, PendingKept

\* A row of a device and the operation on it.
LEMMA CopyWritten ==
    ASSUME Inv, NumbersOn, NEW d \in Devices, NEW t \in TxIds, NEW c \in Copies(ops' + 1),
           local' = [local EXCEPT ![d][t] = c]
    PROVE  local' \in [Devices -> [TxIds -> Copies(ops' + 1)]]
  BY TypesGrow

\* saveDomainTransaction
LEMMA CreateStep ==
    ASSUME Inv, NEW d \in Devices, NEW t \in TxIds, Create(d, t)
    PROVE  Inv'
<1>. DEFINE m == Mutation(Fresh, t, "create", 0, Fresh, 0)
            c == [version |-> 1, deleted |-> FALSE, content |-> Fresh]
<1>0. /\ MayOperate /\ ops' = ops + 1 /\ Enqueue(d, m)
      /\ local' = [local EXCEPT ![d][t] = c]
      /\ latest' = [latest EXCEPT ![d][t] = Fresh]
      /\ conflicts' = conflicts /\ deleting' = deleting /\ closed' = closed /\ keeps' = keeps
      /\ UNCHANGED <<rows, log, receipts, cursor, run, aborts, errors, raced>>
  BY DEF Create, serverVars, bounds
<1>1. /\ NumbersOn /\ Fresh \in Ids /\ Fresh \in 1 .. ops' /\ ops \in Nat
      /\ ops' - keeps <= MaxOps
  BY <1>0, FreshNumber
<1>2. m \in Mutations /\ m.id = Fresh
  BY <1>1 DEF Mutation, Mutations
<1>3. c \in Copies(ops' + 1)
  <2>1. 1 \in 0 .. (ops' + 1)
    BY <1>0, <1>1
  <2>. QED
    BY <1>1, <2>1 DEF Copies
<1>. HIDE DEF m, c
<1>4. /\ pending' \in [Devices -> Seq(Mutations)]
      /\ queued' \in [Devices -> SUBSET (1 .. ops')]
      /\ \A e \in Devices : queued[e] \subseteq queued'[e]
      /\ \A e \in Devices : queued'[e] \ Waiting(e)' \subseteq queued[e] \ Waiting(e)
      /\ \A e \in Devices : \A i \in DOMAIN pending'[e] : pending'[e][i].id \in queued'[e]
  BY <1>0, <1>1, <1>2, Enqueued
<1>5. local' \in [Devices -> [TxIds -> Copies(ops' + 1)]]
  BY <1>0, <1>1, <1>3, CopyWritten
<1>6. /\ closed' \in [Devices -> SUBSET (1 .. ops')]
      /\ latest \in [Devices -> [TxIds -> 0 .. ops']]
      /\ deleting' \in [Devices -> {NoDelete} \cup [tx : TxIds, version : 0 .. ops', id : Ids]]
      /\ Fresh \in 0 .. ops'
  BY <1>0, <1>1, TypesGrow
<1>7. latest' \in [Devices -> [TxIds -> 0 .. ops']]
  BY <1>0, <1>6
<1>8. \A e \in Devices : Disputed(e) \cup closed[e] \subseteq (Disputed(e) \cup closed[e])'
  BY <1>0, SameQueues
<1>9. PendingKept'
  BY <1>0, <1>4, <1>8, KeptStill
<1>10. Counted'
  BY <1>0, <1>1 DEF Inv, Counted
<1>11. QueueIds'
  BY <1>0, <1>4 DEF Inv, QueueIds
<1>12. keeps' \in 0 .. MaxKeeps /\ conflicts' \in [Devices -> Seq(Conflicts)]
  BY <1>0 DEF Inv, TypeOK
<1>. QED
  BY <1>0, <1>1, <1>4, <1>5, <1>6, <1>7, <1>8, <1>9, <1>10, <1>11, <1>12, UserStep
\* An edit is folded into the queued create, which keeps its id.
Fold(d, t) ==
    [i \in DOMAIN pending[d] |->
        IF i \in PendingCreate(d, t)
          THEN Mutation(pending[d][i].id, t, "create", pending[d][i].base, Fresh,
                        pending[d][i].on)
          ELSE pending[d][i]]

\* The folded queue is a queue of the same ids, transactions and operations.
LEMMA Folded ==
    ASSUME TypeOK, Fresh \in Ids, NEW d \in Devices, NEW t \in TxIds
    PROVE  /\ Fold(d, t) \in Seq(Mutations)
           /\ DOMAIN Fold(d, t) = DOMAIN pending[d]
           /\ \A i \in DOMAIN pending[d] :
                 /\ Fold(d, t)[i].id = pending[d][i].id
                 /\ Fold(d, t)[i].tx = pending[d][i].tx
                 /\ Fold(d, t)[i].op = pending[d][i].op
                 /\ Fold(d, t)[i].base = pending[d][i].base
<1>1. pending[d] \in Seq(Mutations)
  BY DEF TypeOK
<1>2. PICK n \in Nat : DOMAIN pending[d] = 1 .. n
  BY <1>1, LenProperties
<1>3. ASSUME NEW i \in DOMAIN pending[d]
      PROVE  /\ Fold(d, t)[i] \in Mutations
             /\ Fold(d, t)[i].id = pending[d][i].id
             /\ Fold(d, t)[i].tx = pending[d][i].tx
             /\ Fold(d, t)[i].op = pending[d][i].op
             /\ Fold(d, t)[i].base = pending[d][i].base
  <2>1. pending[d][i] \in Mutations
    BY <1>1, ElementOf
  <2>2. CASE i \in PendingCreate(d, t)
    <3>1. Fold(d, t)[i] = Mutation(pending[d][i].id, t, "create", pending[d][i].base, Fresh,
                                   pending[d][i].on)
      BY <2>2 DEF Fold
    <3>2. pending[d][i].tx = t /\ pending[d][i].op = "create"
      BY <2>2 DEF PendingCreate
    <3>. QED
      BY <2>1, <3>1, <3>2 DEF Mutation, Mutations
  <2>3. CASE i \notin PendingCreate(d, t)
    BY <2>1, <2>3 DEF Fold
  <2>. QED
    BY <2>2, <2>3
<1>4. DOMAIN Fold(d, t) = DOMAIN pending[d]
  BY DEF Fold
<1>5. Fold(d, t) \in [1 .. n -> Mutations]
  <2>1. Fold(d, t) = [i \in 1 .. n |-> Fold(d, t)[i]]
    BY <1>2 DEF Fold
  <2>2. \A i \in 1 .. n : Fold(d, t)[i] \in Mutations
    BY <1>2, <1>3
  <2>. HIDE DEF Fold
  <2>. QED
    BY <2>1, <2>2
<1>6. Fold(d, t) \in Seq(Mutations)
  BY <1>5
<1>. QED
  BY <1>3, <1>4, <1>6

\* updateDomainTransaction
LEMMA EditStep ==
    ASSUME Inv, NEW d \in Devices, NEW t \in TxIds, Edit(d, t)
    PROVE  Inv'
<1>. DEFINE m == Mutation(Fresh, t, "update", local[d][t].version, Fresh, local[d][t].content)
            c == [version |-> local[d][t].version + 1, deleted |-> FALSE, content |-> Fresh]
<1>0. /\ MayOperate /\ ops' = ops + 1
      /\ local' = [local EXCEPT ![d][t] = c]
      /\ latest' = [latest EXCEPT ![d][t] = Fresh]
      /\ conflicts' = conflicts /\ deleting' = deleting /\ closed' = closed /\ keeps' = keeps
      /\ UNCHANGED <<rows, log, receipts, cursor, run, aborts, errors, raced>>
  BY DEF Edit, serverVars, bounds
<1>01. \/ pending' = [pending EXCEPT ![d] = Fold(d, t)] /\ queued' = queued
       \/ Enqueue(d, m)
  BY DEF Edit, Fold
<1>1. /\ NumbersOn /\ Fresh \in Ids /\ Fresh \in 1 .. ops' /\ ops \in Nat
      /\ ops' - keeps <= MaxOps
  BY <1>0, FreshNumber
<1>2. /\ local[d][t].version \in 0 .. (ops + 1) /\ local[d][t].content \in {0} \cup Ids
      /\ local[d][t].content \in Nat
  BY <1>1 DEF Inv, TypeOK, Copies, Ids
<1>3. m \in Mutations /\ m.id = Fresh
  BY <1>1, <1>2 DEF Mutation, Mutations
<1>4. c \in Copies(ops' + 1)
  <2>1. local[d][t].version + 1 \in 0 .. (ops' + 1)
    BY <1>0, <1>1, <1>2
  <2>. QED
    BY <1>1, <2>1 DEF Copies
<1>. HIDE DEF m, c
<1>5. /\ pending' \in [Devices -> Seq(Mutations)]
      /\ queued' \in [Devices -> SUBSET (1 .. ops')]
      /\ \A e \in Devices : queued[e] \subseteq queued'[e]
      /\ \A e \in Devices : queued'[e] \ Waiting(e)' \subseteq queued[e] \ Waiting(e)
      /\ \A e \in Devices : \A i \in DOMAIN pending'[e] : pending'[e][i].id \in queued'[e]
  <2>1. CASE Enqueue(d, m)
    BY <1>1, <1>3, <2>1, Enqueued
  <2>2. CASE pending' = [pending EXCEPT ![d] = Fold(d, t)] /\ queued' = queued
    <3>1. /\ Fold(d, t) \in Seq(Mutations)
          /\ DOMAIN Fold(d, t) = DOMAIN pending[d]
          /\ \A i \in DOMAIN pending[d] : Fold(d, t)[i].id = pending[d][i].id
      BY <1>1, Folded DEF Inv
    <3>2. /\ pending' \in [Devices -> Seq(Mutations)] /\ pending'[d] = Fold(d, t)
          /\ \A e \in Devices : e # d => pending'[e] = pending[e]
      BY <2>2, <3>1 DEF Inv, TypeOK
    <3>3. \A e \in Devices : /\ DOMAIN pending'[e] = DOMAIN pending[e]
                             /\ \A i \in DOMAIN pending[e] : pending'[e][i].id = pending[e][i].id
      BY <3>1, <3>2
    <3>4. \A e \in Devices : Waiting(e)' = Waiting(e)
      BY <3>3 DEF Waiting
    <3>5. \A e \in Devices : \A i \in DOMAIN pending'[e] : pending'[e][i].id \in queued'[e]
      BY <2>2, <3>3 DEF Inv, QueueIds
    <3>6. queued' \in [Devices -> SUBSET (1 .. ops')]
      BY <1>1, <2>2, TypesGrow
    <3>. QED
      BY <2>2, <3>2, <3>4, <3>5, <3>6
  <2>. QED
    BY <1>01, <2>1, <2>2
<1>6. local' \in [Devices -> [TxIds -> Copies(ops' + 1)]]
  BY <1>0, <1>1, <1>4, CopyWritten
<1>7. /\ closed' \in [Devices -> SUBSET (1 .. ops')]
      /\ latest \in [Devices -> [TxIds -> 0 .. ops']]
      /\ deleting' \in [Devices -> {NoDelete} \cup [tx : TxIds, version : 0 .. ops', id : Ids]]
      /\ Fresh \in 0 .. ops'
  BY <1>0, <1>1, TypesGrow
<1>8. latest' \in [Devices -> [TxIds -> 0 .. ops']]
  BY <1>0, <1>7
<1>9. \A e \in Devices : Disputed(e) \cup closed[e] \subseteq (Disputed(e) \cup closed[e])'
  BY <1>0, SameQueues
<1>10. PendingKept'
  BY <1>0, <1>5, <1>9, KeptStill
<1>11. Counted'
  BY <1>0, <1>1 DEF Inv, Counted
<1>12. QueueIds'
  <2>1. \A e \in Devices : \A i \in DOMAIN conflicts'[e] : conflicts'[e][i].id \in queued'[e]
    BY <1>0, <1>5 DEF Inv, QueueIds
  <2>. QED
    BY <1>5, <2>1 DEF QueueIds
<1>13. keeps' \in 0 .. MaxKeeps /\ conflicts' \in [Devices -> Seq(Conflicts)]
  BY <1>0 DEF Inv, TypeOK
<1>. QED
  BY <1>0, <1>1, <1>5, <1>6, <1>7, <1>8, <1>9, <1>10, <1>11, <1>12, <1>13, UserStep

\* softDeleteTransaction, the read.
LEMMA ReadForDeleteStep ==
    ASSUME Inv, NEW d \in Devices, NEW t \in TxIds, ReadForDelete(d, t)
    PROVE  Inv'
<1>. DEFINE x == [tx |-> t, version |-> local[d][t].version, id |-> Fresh]
<1>0. /\ MayOperate /\ ops' = ops + 1
      /\ deleting' = [deleting EXCEPT ![d] = x]
      /\ local' = local /\ pending' = pending /\ conflicts' = conflicts /\ latest' = latest
      /\ queued' = queued /\ closed' = closed /\ keeps' = keeps
      /\ UNCHANGED <<rows, log, receipts, cursor, run, aborts, errors, raced>>
  BY DEF ReadForDelete, serverVars, history, bounds
<1>1. /\ NumbersOn /\ Fresh \in Ids /\ Fresh \in 1 .. ops' /\ ops \in Nat
      /\ ops' - keeps <= MaxOps
  BY <1>0, FreshNumber
<1>2. /\ local' \in [Devices -> [TxIds -> Copies(ops' + 1)]]
      /\ queued' \in [Devices -> SUBSET (1 .. ops')]
      /\ closed' \in [Devices -> SUBSET (1 .. ops')]
      /\ latest' \in [Devices -> [TxIds -> 0 .. ops']]
      /\ deleting \in [Devices -> {NoDelete} \cup [tx : TxIds, version : 0 .. ops', id : Ids]]
  BY <1>0, <1>1, TypesGrow
<1>3. x \in [tx : TxIds, version : 0 .. ops', id : Ids] /\ x.id = Fresh
  <2>1. local[d][t].version \in 0 .. (ops + 1)
    BY DEF Inv, TypeOK, Copies
  <2>. QED
    BY <1>0, <1>1, <2>1
<1>. HIDE DEF x
<1>4. /\ deleting' \in [Devices -> {NoDelete} \cup [tx : TxIds, version : 0 .. ops', id : Ids]]
      /\ \A e \in Devices : deleting'[e] = deleting[e] \/ deleting'[e].id = Fresh
  BY <1>0, <1>2, <1>3
<1>5. \A e \in Devices : Waiting(e)' = Waiting(e) /\ Disputed(e)' = Disputed(e)
  BY <1>0, SameQueues
<1>6. \A e \in Devices : Disputed(e) \cup closed[e] \subseteq (Disputed(e) \cup closed[e])'
  BY <1>0, <1>5
<1>7. PendingKept'
  BY <1>0, <1>5, <1>6, KeptStill
<1>8. Counted'
  <2>1. 1 .. ops \subseteq 1 .. ops'
    BY <1>0, <1>1
  <2>. QED
    BY <1>0, <1>1, <1>4, <2>1 DEF Inv, Counted
<1>9. QueueIds'
  BY <1>0 DEF Inv, QueueIds
<1>10. /\ keeps' \in 0 .. MaxKeeps /\ conflicts' \in [Devices -> Seq(Conflicts)]
       /\ pending' \in [Devices -> Seq(Mutations)]
       /\ \A e \in Devices : queued[e] \subseteq queued'[e]
  BY <1>0 DEF Inv, TypeOK
<1>. QED
  BY <1>0, <1>1, <1>2, <1>4, <1>6, <1>7, <1>8, <1>9, <1>10, UserStep
\* softDeleteTransaction, the write.
LEMMA DeleteStep ==
    ASSUME Inv, NEW d \in Devices, Delete(d)
    PROVE  Inv'
<1>. DEFINE x == deleting[d]
            m == Mutation(x.id, x.tx, "delete", x.version, x.id, local[d][x.tx].content)
            c == [version |-> x.version + 1, deleted |-> TRUE, content |-> local[d][x.tx].content]
<1>0. /\ ops' = ops /\ Enqueue(d, m)
      /\ local' = [local EXCEPT ![d][x.tx] = c]
      /\ deleting' = [deleting EXCEPT ![d] = NoDelete]
      /\ latest' = [latest EXCEPT ![d][x.tx] = x.id]
      /\ conflicts' = conflicts /\ closed' = closed /\ keeps' = keeps
      /\ UNCHANGED <<rows, log, receipts, cursor, run, aborts, errors, raced>>
      /\ x # NoDelete
  BY DEF Delete, serverVars, bounds
<1>1. NumbersOn /\ ops \in Nat
  BY <1>0, LogBound DEF NumbersOn, Inv, TypeOK
<1>2. /\ x.tx \in TxIds /\ x.version \in 0 .. ops /\ x.id \in Ids /\ x.id \in 1 .. ops
  BY <1>0 DEF Inv, TypeOK, Counted
<1>3. local[d][x.tx].content \in {0} \cup Ids /\ local[d][x.tx].content \in Nat
  <2>1. local[d][x.tx] \in Copies(ops + 1)
    BY <1>2 DEF Inv, TypeOK
  <2>2. local[d][x.tx].content \in {0} \cup Ids
    BY <2>1 DEF Copies
  <2>3. \A n \in {0} \cup Ids : n \in Nat
    BY DEF Ids
  <2>. HIDE DEF x
  <2>. QED
    BY <2>2, <2>3
<1>4. m \in Mutations /\ m.id = x.id /\ x.version \in Nat
  BY <1>1, <1>2, <1>3 DEF Mutation, Mutations
<1>5. c \in Copies(ops' + 1)
  <2>1. x.version + 1 \in 0 .. (ops' + 1)
    BY <1>0, <1>1, <1>2
  <2>. QED
    BY <1>3, <2>1 DEF Copies
<1>6. x.tx \in TxIds /\ x.id \in 1 .. ops' /\ x.id \in 0 .. ops'
  BY <1>0, <1>1, <1>2
<1>. HIDE DEF m, c, x
<1>7. /\ pending' \in [Devices -> Seq(Mutations)]
      /\ queued' \in [Devices -> SUBSET (1 .. ops')]
      /\ \A e \in Devices : queued[e] \subseteq queued'[e]
      /\ \A e \in Devices : queued'[e] \ Waiting(e)' \subseteq queued[e] \ Waiting(e)
      /\ \A e \in Devices : \A i \in DOMAIN pending'[e] : pending'[e][i].id \in queued'[e]
  BY <1>0, <1>1, <1>4, <1>6, Enqueued
<1>8. local' \in [Devices -> [TxIds -> Copies(ops' + 1)]]
  BY <1>0, <1>1, <1>5, <1>6, CopyWritten
<1>9. /\ closed' \in [Devices -> SUBSET (1 .. ops')]
      /\ latest \in [Devices -> [TxIds -> 0 .. ops']]
      /\ deleting \in [Devices -> {NoDelete} \cup [tx : TxIds, version : 0 .. ops', id : Ids]]
  BY <1>0, <1>1, TypesGrow
<1>10. latest' \in [Devices -> [TxIds -> 0 .. ops']]
  BY <1>0, <1>6, <1>9
<1>11. /\ deleting' \in [Devices -> {NoDelete} \cup [tx : TxIds, version : 0 .. ops', id : Ids]]
       /\ \A e \in Devices : deleting'[e] = NoDelete \/ deleting'[e] = deleting[e]
  BY <1>0, <1>9
<1>12. \A e \in Devices : Disputed(e) \cup closed[e] \subseteq (Disputed(e) \cup closed[e])'
  BY <1>0, SameQueues
<1>13. PendingKept'
  BY <1>0, <1>7, <1>12, KeptStill
<1>14. Counted'
  BY <1>0, <1>11 DEF Inv, Counted
<1>15. QueueIds'
  BY <1>0, <1>7 DEF Inv, QueueIds
<1>16. keeps' \in 0 .. MaxKeeps /\ conflicts' \in [Devices -> Seq(Conflicts)]
  BY <1>0 DEF Inv, TypeOK
<1>. QED
  BY <1>0, <1>1, <1>7, <1>8, <1>9, <1>10, <1>11, <1>12, <1>13, <1>14, <1>15, <1>16, UserStep

\* A resolved conflict: its mutation moves from the disputed to the closed.
LEMMA Resolved ==
    ASSUME Inv, NumbersOn, NEW d \in Devices, NEW i \in DOMAIN conflicts[d],
           conflicts' = [conflicts EXCEPT ![d] = RemoveAt(@, i)],
           closed' = [closed EXCEPT ![d] = @ \cup {conflicts[d][i].id}]
    PROVE  /\ conflicts[d][i] \in Conflicts
           /\ conflicts' \in [Devices -> Seq(Conflicts)]
           /\ closed' \in [Devices -> SUBSET (1 .. ops')]
           /\ \A e \in Devices : Disputed(e) \cup closed[e] \subseteq (Disputed(e) \cup closed[e])'
           /\ \A e \in Devices : Disputed(e)' \subseteq Disputed(e)
<1>1. conflicts \in [Devices -> Seq(Conflicts)] /\ conflicts[d] \in Seq(Conflicts)
  BY DEF Inv, TypeOK
<1>2. /\ RemoveAt(conflicts[d], i) \in Seq(Conflicts)
      /\ \A j \in DOMAIN RemoveAt(conflicts[d], i) :
            \E k \in DOMAIN conflicts[d] : RemoveAt(conflicts[d], i)[j] = conflicts[d][k]
      /\ \A j \in DOMAIN conflicts[d] : j # i =>
            \E k \in DOMAIN RemoveAt(conflicts[d], i) : RemoveAt(conflicts[d], i)[k] = conflicts[d][j]
  BY <1>1, RemoveAtFacts, ZenonT(60)
<1>3. conflicts[d][i] \in Conflicts
  BY <1>1, ElementOf
<1>4. /\ conflicts' \in [Devices -> Seq(Conflicts)]
      /\ conflicts'[d] = RemoveAt(conflicts[d], i)
      /\ \A e \in Devices : e # d => conflicts'[e] = conflicts[e]
  BY <1>1, <1>2
<1>5. conflicts[d][i].id \in 1 .. ops'
  <2>1. conflicts[d][i].id \in queued[d]
    BY DEF Inv, QueueIds
  <2>2. queued \in [Devices -> SUBSET (1 .. ops')]
    BY TypesGrow
  <2>. QED
    BY <2>1, <2>2
<1>6. /\ closed' \in [Devices -> SUBSET (1 .. ops')]
      /\ closed'[d] = closed[d] \cup {conflicts[d][i].id}
      /\ \A e \in Devices : e # d => closed'[e] = closed[e]
  <2>1. closed \in [Devices -> SUBSET (1 .. ops')]
    BY TypesGrow
  <2>. QED
    BY <1>5, <2>1
<1>7. Disputed(d) \subseteq Disputed(d)' \cup {conflicts[d][i].id}
  BY <1>2, <1>4 DEF Disputed
<1>8. Disputed(d)' \subseteq Disputed(d)
  BY <1>2, <1>4 DEF Disputed
<1>9. \A e \in Devices : e # d => Disputed(e)' = Disputed(e)
  BY <1>4 DEF Disputed
<1>10. ASSUME NEW e \in Devices
       PROVE  Disputed(e) \cup closed[e] \subseteq Disputed(e)' \cup closed'[e]
  BY <1>6, <1>7, <1>9
<1>. QED
  BY <1>3, <1>4, <1>6, <1>8, <1>9, <1>10

\* resolveConflict, keepLocal
LEMMA KeepLocalStep ==
    ASSUME Inv, NEW d \in Devices, NEW i \in DOMAIN conflicts[d], KeepLocal(d, i)
    PROVE  Inv'
<1>. DEFINE c == conflicts[d][i]
            m == Mutation(Fresh, c.tx, IF c.op = "delete" THEN "delete" ELSE "update",
                          c.version, c.content, c.over)
<1>0. /\ keeps < MaxKeeps /\ ops' = ops + 1 /\ keeps' = keeps + 1 /\ Enqueue(d, m)
      /\ conflicts' = [conflicts EXCEPT ![d] = RemoveAt(@, i)]
      /\ closed' = [closed EXCEPT ![d] = @ \cup {conflicts[d][i].id}]
      /\ local' = local /\ deleting' = deleting /\ latest' = latest
      /\ UNCHANGED <<rows, log, receipts, cursor, run, aborts, errors, raced>>
  BY DEF KeepLocal, serverVars
<1>1. NumbersOn /\ Fresh \in Ids /\ Fresh \in 1 .. ops' /\ ops \in Nat
  BY <1>0, FreshNumber
<1>2. /\ c \in Conflicts
      /\ conflicts' \in [Devices -> Seq(Conflicts)]
      /\ closed' \in [Devices -> SUBSET (1 .. ops')]
      /\ \A e \in Devices : Disputed(e) \cup closed[e] \subseteq (Disputed(e) \cup closed[e])'
      /\ \A e \in Devices : Disputed(e)' \subseteq Disputed(e)
  BY <1>0, <1>1, Resolved
<1>3. m \in Mutations /\ m.id = Fresh
  BY <1>1, <1>2 DEF Mutation, Mutations, Conflicts
<1>. HIDE DEF m, c
<1>4. /\ pending' \in [Devices -> Seq(Mutations)]
      /\ queued' \in [Devices -> SUBSET (1 .. ops')]
      /\ \A e \in Devices : queued[e] \subseteq queued'[e]
      /\ \A e \in Devices : queued'[e] \ Waiting(e)' \subseteq queued[e] \ Waiting(e)
      /\ \A e \in Devices : \A j \in DOMAIN pending'[e] : pending'[e][j].id \in queued'[e]
  BY <1>0, <1>1, <1>3, Enqueued
<1>5. /\ local' \in [Devices -> [TxIds -> Copies(ops' + 1)]]
      /\ latest' \in [Devices -> [TxIds -> 0 .. ops']]
      /\ deleting' \in [Devices -> {NoDelete} \cup [tx : TxIds, version : 0 .. ops', id : Ids]]
  BY <1>0, <1>1, TypesGrow
<1>6. PendingKept'
  BY <1>0, <1>2, <1>4, KeptStill
<1>7. Counted' /\ keeps' \in 0 .. MaxKeeps
  <2>1. keeps \in Nat /\ MaxKeeps \in Nat /\ ops - keeps <= MaxOps /\ MaxOps \in Nat
    BY DeviceSyncAssumption DEF Inv, TypeOK, Counted
  <2>2. ops' - keeps' <= MaxOps /\ keeps' \in 0 .. MaxKeeps
    BY <1>0, <1>1, <2>1
  <2>3. 1 .. ops \subseteq 1 .. ops'
    BY <1>0, <1>1
  <2>. QED
    BY <1>0, <2>2, <2>3 DEF Inv, Counted
<1>8. QueueIds'
  <2>1. \A e \in Devices : Disputed(e)' \subseteq queued'[e]
    <3>1. \A e \in Devices : Disputed(e) \subseteq queued[e]
      BY DEF Inv, QueueIds, Disputed
    <3>. QED
      BY <1>2, <1>4, <3>1
  <2>. QED
    BY <1>4, <2>1 DEF QueueIds, Disputed
<1>. QED
  BY <1>0, <1>1, <1>2, <1>4, <1>5, <1>6, <1>7, <1>8, UserStep

\* resolveConflict, acceptRemote
LEMMA AcceptRemoteStep ==
    ASSUME Inv, NEW d \in Devices, NEW i \in DOMAIN conflicts[d], AcceptRemote(d, i)
    PROVE  Inv'
<1>. DEFINE c == conflicts[d][i]
<1>0. /\ ops' = ops /\ keeps' = keeps
      /\ conflicts' = [conflicts EXCEPT ![d] = RemoveAt(@, i)]
      /\ closed' = [closed EXCEPT ![d] = @ \cup {conflicts[d][i].id}]
      /\ latest' = [latest EXCEPT ![d][c.tx] = IF @ = c.content THEN 0 ELSE @]
      /\ local' = local /\ deleting' = deleting /\ pending' = pending /\ queued' = queued
      /\ UNCHANGED <<rows, log, receipts, cursor, run, aborts, errors, raced>>
  BY DEF AcceptRemote, serverVars, bounds
<1>1. NumbersOn /\ ops \in Nat
  BY <1>0, LogBound DEF NumbersOn, Inv, TypeOK
<1>2. /\ c \in Conflicts
      /\ conflicts' \in [Devices -> Seq(Conflicts)]
      /\ closed' \in [Devices -> SUBSET (1 .. ops')]
      /\ \A e \in Devices : Disputed(e) \cup closed[e] \subseteq (Disputed(e) \cup closed[e])'
      /\ \A e \in Devices : Disputed(e)' \subseteq Disputed(e)
  BY <1>0, <1>1, Resolved
<1>3. /\ local' \in [Devices -> [TxIds -> Copies(ops' + 1)]]
      /\ latest \in [Devices -> [TxIds -> 0 .. ops']]
      /\ queued' \in [Devices -> SUBSET (1 .. ops')]
      /\ deleting' \in [Devices -> {NoDelete} \cup [tx : TxIds, version : 0 .. ops', id : Ids]]
  BY <1>0, <1>1, TypesGrow
<1>4. latest' \in [Devices -> [TxIds -> 0 .. ops']]
  <2>1. c.tx \in TxIds /\ 0 \in 0 .. ops'
    BY <1>0, <1>1, <1>2 DEF Conflicts
  <2>. HIDE DEF c
  <2>. QED
    BY <1>0, <1>3, <2>1
<1>5. \A e \in Devices : Waiting(e)' = Waiting(e)
  BY <1>0, SameQueues
<1>6. PendingKept'
  BY <1>0, <1>2, <1>5, KeptStill
<1>7. Counted' /\ keeps' \in 0 .. MaxKeeps
  BY <1>0 DEF Inv, Counted, TypeOK
<1>8. QueueIds'
  <2>1. \A e \in Devices : Disputed(e)' \subseteq queued'[e]
    <3>1. \A e \in Devices : Disputed(e) \subseteq queued[e]
      BY DEF Inv, QueueIds, Disputed
    <3>. QED
      BY <1>0, <1>2, <3>1
  <2>. QED
    BY <1>0, <2>1 DEF Inv, QueueIds, Disputed
<1>9. pending' \in [Devices -> Seq(Mutations)] /\ \A e \in Devices : queued[e] \subseteq queued'[e]
  BY <1>0 DEF Inv, TypeOK
<1>. QED
  BY <1>0, <1>1, <1>2, <1>3, <1>4, <1>6, <1>7, <1>8, <1>9, UserStep

-----------------------------------------------------------------------------
(***************************************************************************)
(* The theorems                                                            *)
(***************************************************************************)

\* Every step of the devices and of the server keeps the invariant.
LEMMA NextInv == Inv /\ [Next]_vars => Inv'
<1>. SUFFICES ASSUME Inv, [Next]_vars
              PROVE  Inv'
  OBVIOUS
<1>1. ASSUME NEW d \in Devices, User(d)
      PROVE  Inv'
  BY <1>1, CreateStep, EditStep, ReadForDeleteStep, DeleteStep, KeepLocalStep,
     AcceptRemoteStep DEF User
<1>2. ASSUME NEW d \in Devices, NEW r \in Runs, Sync(d, r) \/ ServeError(d, r) \/ Abort(d, r)
      PROVE  Inv'
  BY <1>2, QuietSteps, PullStep, ReceiptSteps, ServeSteps, ApplyStep DEF Sync
<1>3. CASE UNCHANGED vars
  <2>1. /\ rows' = rows /\ log' = log /\ receipts' = receipts /\ local' = local
        /\ pending' = pending /\ conflicts' = conflicts /\ deleting' = deleting
        /\ queued' = queued /\ closed' = closed /\ latest' = latest /\ raced' = raced
        /\ ops' = ops /\ keeps' = keeps /\ errors' = errors /\ cursor' = cursor
        /\ run' = run /\ aborts' = aborts
    BY <1>3 DEF vars
  <2>2. TypeOK'
    BY <2>1 DEF Inv, TypeOK
  <2>3. Counted' /\ QueueIds'
    BY <2>1 DEF Inv, Counted, QueueIds
  <2>4. LogCounts'
    BY <2>1, SMTT(30) DEF Inv, LogCounts, AppliedIds
  <2>5. RunInv'
    BY <2>1, ZenonT(60) DEF Inv, RunInv, GoodRun, Disputed
  <2>6. PendingKept'
    BY <2>1 DEF Inv, PendingKept, Waiting, Disputed
  <2>. QED
    BY <2>2, <2>3, <2>4, <2>5, <2>6 DEF Inv
<1>. QED
  BY <1>1, <1>2, <1>3 DEF Next

\* The invariant holds in every state of the devices and of the server.
THEOREM Invariance == Spec => []Inv
<1>. QED
  BY InitInv, NextInv, PTL DEF Spec

\* Every cursor stays within the log, and no version exceeds what the users'
\* operations explain (syncNow, process_mutation_pg).
THEOREM TypeCorrect == Spec => []TypeOK
<1>1. Inv => TypeOK
  BY DEF Inv
<1>. QED
  BY <1>1, Invariance, PTL

\* However many runs of syncNow a device has under way, and wherever they are
\* cut off, a queued mutation is applied, in the queue, or in a conflict.
THEOREM NothingQueuedIsLost == Spec => []PendingKept
<1>1. Inv => PendingKept
  BY DEF Inv
<1>. QED
  BY <1>1, Invariance, PTL

-----------------------------------------------------------------------------
(***************************************************************************)
(* Devices converge                                                        *)
(*                                                                         *)
(* A device has read the log up to its cursor, and further while it        *)
(* applies a page.  What it shows of a transaction is what the last change *)
(* of the log says, or such a change is still to be read (Ahead), or it    *)
(* has a mutation queued that the server will take on the version it has   *)
(* now, or that it will never get rid of (Viable).  With an empty queue    *)
(* and the whole log read, only the first is left.  This is for one run of *)
(* syncNow at a time on a device: two of them may save their cursors in    *)
(* the wrong order.                                                        *)
(***************************************************************************)

OneRun == \A q, r \in Runs : q = r

\* What the server decides by, of a mutation.  Folding an edit keeps it.
Ticket(m) == [id |-> m.id, tx |-> m.tx, op |-> m.op, base |-> m.base]

Queue(d) == {Ticket(pending[d][i]) : i \in DOMAIN pending[d]}

RunTickets(s) ==
    {Ticket(s.batch[i]) : i \in DOMAIN s.batch}
        \cup {Ticket(s.answers[i].m) : i \in DOMAIN s.answers}

Tickets(d) == Queue(d) \cup UNION {RunTickets(run[d][r]) : r \in Runs}

IsLast(i, t) ==
    /\ i \in DOMAIN log /\ log[i].tx = t
    /\ \A j \in DOMAIN log : log[j].tx = t => j <= i

\* The last change of a transaction made the row what it is.
LogTells ==
    /\ \A i \in DOMAIN log : log[i].version # 0 /\ rows[log[i].tx].version # 0
    /\ \A t \in TxIds : rows[t].version # 0 =>
          \E i \in DOMAIN log : IsLast(i, t) /\ log[i].version = rows[t].version

\* A number is the id of one mutation of one device.
IdsApart ==
    /\ \A d, e \in Devices : d # e => queued[d] \cap queued[e] = {}
    /\ \A d, e \in Devices : deleting[d] # NoDelete => deleting[d].id \notin queued[e]
    /\ \A d, e \in Devices :
          deleting[d] # NoDelete /\ deleting[e] # NoDelete /\ d # e =>
              deleting[d].id # deleting[e].id
    /\ \A i \in Ids : receipts[i] # NoReceipt => \E d \in Devices : i \in queued[d]

TicketsAgree ==
    \A d \in Devices : \A x, y \in Tickets(d) : x.id = y.id => x = y

\* A device that has something of a transaction has made or pulled it.
Holds(d, t) ==
    \/ local[d][t].version # 0
    \/ deleting[d] # NoDelete /\ deleting[d].tx = t
    \/ \E x \in Tickets(d) : x.tx = t
    \/ \E i \in DOMAIN conflicts[d] : conflicts[d][i].tx = t

Known ==
    /\ \A d \in Devices, t \in TxIds : Holds(d, t) =>
          IF d = Creator[t] THEN local[d][t].version # 0 ELSE rows[t].version # 0
    /\ \A t \in TxIds : rows[t].version # 0 => local[Creator[t]][t].version # 0

\* The changes a device has still to apply.
Unread(d) ==
    {i \in DOMAIN log :
        /\ i > cursor[d]
        /\ \A r \in Runs : run[d][r].pc = "apply" =>
              i > run[d][r].next - Len(run[d][r].page)}

Ahead(d, t) == \E i \in Unread(d) : log[i].tx = t

\* A create leaves the queue before the device pulls what it made.
CreatesFirst ==
    \A d \in Devices : \A x \in Queue(d) : x.op = "create" =>
        /\ Creator[x.tx] = d
        /\ rows[x.tx].version # 0 =>
              /\ Ahead(d, x.tx)
              /\ \A r \in Runs : run[d][r].pc \notin {"pull", "apply"}

\* A run works from the cursor, applies the log in its order, and has the
\* answers the server has stored.
ReadsOn(d, s) ==
    /\ s.pc # "off" => s.from = cursor[d]
    /\ s.pc = "apply" =>
          /\ s.from <= s.next - Len(s.page)
          /\ \A i \in DOMAIN s.page : s.page[i] = log[(s.next - Len(s.page)) + i]
    /\ s.pc # "apply" => s.page = <<>>
    /\ \A j \in DOMAIN s.answers :
          /\ s.answers[j].receipt # NoReceipt
          /\ s.answers[j].receipt = receipts[s.answers[j].m.id]
    /\ s.pc = "refused" => s.answers[1].receipt.code = "LEDGER_VERSION_CONFLICT"

ReadInv == \A d \in Devices, r \in Runs : ReadsOn(d, run[d][r])

Taken(x) ==
    \/ receipts[x.id] = NoReceipt /\ x.op # "create" /\ x.base = rows[x.tx].version
    \/ receipts[x.id].code \in {"DB_ERROR", "NOT_FOUND"}

Viable(d, t) == \E x \in Queue(d) : x.tx = t /\ Taken(x)

Mirror(d, t) == \E i \in DOMAIN log : IsLast(i, t) /\ Shows(local[d][t], log[i])

Settled ==
    \A d \in Devices \ raced : \A t \in TxIds :
        rows[t].version # 0 => Mirror(d, t) \/ Ahead(d, t) \/ Viable(d, t)

\* Between the halves of a delete the version that was read stays current.
DeletesCurrent ==
    \A d \in Devices \ raced : \A t \in TxIds :
        deleting[d] # NoDelete /\ deleting[d].tx = t /\ rows[t].version # 0 =>
            \/ local[d][t].version = deleting[d].version
            \/ Ahead(d, t) \/ Viable(d, t)

ConvInv ==
    /\ LogTells /\ IdsApart /\ TicketsAgree /\ Known /\ CreatesFirst /\ ReadInv
    /\ Settled /\ DeletesCurrent

-----------------------------------------------------------------------------
\* What a device holds it has queued.
LEMMA TicketIds ==
    ASSUME Inv, NEW d \in Devices, NEW x \in Tickets(d)
    PROVE  x.id \in queued[d] /\ x.id \in Ids /\ x.tx \in TxIds
<1>1. CASE x \in Queue(d)
  <2>1. PICK i \in DOMAIN pending[d] : x = Ticket(pending[d][i])
    BY <1>1 DEF Queue
  <2>2. pending[d][i] \in Mutations /\ pending[d][i].id \in queued[d]
    <3>1. pending[d] \in Seq(Mutations)
      BY DEF Inv, TypeOK
    <3>. QED
      BY <3>1, ElementOf DEF Inv, QueueIds
  <2>. QED
    BY <2>1, <2>2 DEF Ticket, Mutations
<1>2. CASE x \notin Queue(d)
  <2>1. PICK r \in Runs : x \in RunTickets(run[d][r])
    BY <1>2 DEF Tickets
  <2>2. /\ run[d][r].batch \in Seq(Mutations) /\ run[d][r].answers \in Seq(Answers)
        /\ GoodRun(d, run[d][r])
    BY RunNow
  <2>3. CASE \E i \in DOMAIN run[d][r].batch : x = Ticket(run[d][r].batch[i])
    <3>1. PICK i \in DOMAIN run[d][r].batch : x = Ticket(run[d][r].batch[i])
      BY <2>3
    <3>2. run[d][r].batch[i] \in Mutations /\ run[d][r].batch[i].id \in queued[d]
      BY <2>2, ElementOf DEF GoodRun
    <3>. QED
      BY <3>1, <3>2 DEF Ticket, Mutations
  <2>4. CASE \E i \in DOMAIN run[d][r].answers : x = Ticket(run[d][r].answers[i].m)
    <3>1. PICK i \in DOMAIN run[d][r].answers : x = Ticket(run[d][r].answers[i].m)
      BY <2>4
    <3>2. run[d][r].answers[i] \in Answers /\ run[d][r].answers[i].m.id \in queued[d]
      BY <2>2, ElementOf DEF GoodRun
    <3>3. run[d][r].answers[i].m \in Mutations
      BY <3>2 DEF Answers
    <3>. QED
      BY <3>1, <3>2, <3>3 DEF Ticket, Mutations
  <2>. QED
    BY <2>1, <2>3, <2>4 DEF RunTickets
<1>. QED
  BY <1>1, <1>2

\* The last change of a transaction is one.
LEMMA OneLast ==
    ASSUME log \in Seq(LogEntries), NEW i, NEW j, NEW t, IsLast(i, t), IsLast(j, t)
    PROVE  i = j
<1>1. i \in Nat /\ j \in Nat /\ i <= j /\ j <= i
  BY DEF IsLast
<1>. QED
  BY <1>1

\* The server and the log stand still, no device has read on, and the
\* mutations the server will take stay in their queues.
Steady(d) ==
    /\ rows' = rows /\ log' = log /\ receipts' = receipts
    /\ Unread(d) \subseteq Unread(d)'
    /\ \A x \in Queue(d) : Taken(x) => x \in Queue(d)'

\* Then a device that is settled stays so, as long as it shows the same.
LEMMA SteadyStays ==
    ASSUME NEW d \in Devices, Steady(d), NEW t \in TxIds
    PROVE  /\ Ahead(d, t) => Ahead(d, t)'
           /\ Viable(d, t) => Viable(d, t)'
           /\ local'[d][t] = local[d][t] /\ Mirror(d, t) => Mirror(d, t)'
<1>1. rows' = rows /\ log' = log /\ receipts' = receipts
  BY DEF Steady
<1>2. Ahead(d, t) => Ahead(d, t)'
  BY <1>1 DEF Ahead, Steady
<1>3. \A x : Taken(x)' = Taken(x)
  BY <1>1 DEF Taken
<1>4. Viable(d, t) => Viable(d, t)'
  BY <1>3 DEF Viable, Steady
<1>5. local'[d][t] = local[d][t] /\ Mirror(d, t) => Mirror(d, t)'
  <2>1. \A i : IsLast(i, t)' = IsLast(i, t)
    BY <1>1 DEF IsLast
  <2>. QED
    BY <1>1, <2>1 DEF Mirror, Shows
<1>. QED
  BY <1>2, <1>4, <1>5

\* Steps that leave rows and log alone.
LEMMA LogTellsStill ==
    ASSUME LogTells, rows' = rows, log' = log
    PROVE  LogTells'
  BY DEF LogTells, IsLast

\* The tickets of a device: fewer of them, or one more with a new id.
LEMMA AgreeStill ==
    ASSUME Inv, TicketsAgree, NEW y,
           \A d \in Devices : \A x \in Tickets(d)' :
               x \in Tickets(d) \/ (x = y /\ y.id \notin queued[d])
    PROVE  TicketsAgree'
<1>. SUFFICES ASSUME NEW d \in Devices, NEW x \in Tickets(d)', NEW z \in Tickets(d)', x.id = z.id
              PROVE  x = z
  BY DEF TicketsAgree
<1>1. \A w \in Tickets(d) : w.id \in queued[d]
  BY TicketIds
<1>. QED
  BY <1>1 DEF TicketsAgree

\* Nothing is forgotten, and what a device holds anew it has made or pulled.
LEMMA KnownStill ==
    ASSUME Known,
           \A t \in TxIds : rows[t].version # 0 => rows'[t].version # 0,
           \A d \in Devices, t \in TxIds : local[d][t].version # 0 => local'[d][t].version # 0,
           \A t \in TxIds : rows'[t].version # 0 =>
               rows[t].version # 0 \/ local'[Creator[t]][t].version # 0,
           \A d \in Devices, t \in TxIds : Holds(d, t)' =>
               \/ Holds(d, t)
               \/ IF d = Creator[t] THEN local'[d][t].version # 0 ELSE rows'[t].version # 0
    PROVE  Known'
<1>1. ASSUME NEW d \in Devices, NEW t \in TxIds, Holds(d, t)'
      PROVE  IF d = Creator[t] THEN local'[d][t].version # 0 ELSE rows'[t].version # 0
  BY <1>1 DEF Known
<1>2. ASSUME NEW t \in TxIds, rows'[t].version # 0
      PROVE  local'[Creator[t]][t].version # 0
  <2>1. Creator[t] \in Devices
    BY DeviceSyncAssumption
  <2>. QED
    BY <1>2, <2>1 DEF Known
<1>. QED
  BY <1>1, <1>2 DEF Known

\* A queued create stays before the pull of its change.
LEMMA CreatesStill ==
    ASSUME Inv, CreatesFirst,
           \A d \in Devices : Steady(d),
           \A d \in Devices : \A x \in Queue(d)' : x.op = "create" =>
               x \in Queue(d) \/ (Creator[x.tx] = d /\ rows[x.tx].version = 0),
           \A d \in Devices, r \in Runs : run'[d][r].pc \in {"pull", "apply"} =>
               run[d][r].pc \in {"pull", "apply"} \/ Queue(d)' = {}
    PROVE  CreatesFirst'
<1>. SUFFICES ASSUME NEW d \in Devices, NEW x \in Queue(d)', x.op = "create"
              PROVE  /\ Creator[x.tx] = d
                     /\ rows'[x.tx].version # 0 =>
                           /\ Ahead(d, x.tx)'
                           /\ \A r \in Runs : run'[d][r].pc \notin {"pull", "apply"}
  BY DEF CreatesFirst
<1>1. rows' = rows
  BY DEF Steady
<1>2. CASE x \in Queue(d)
  <2>1. x.tx \in TxIds
    BY <1>2, TicketIds DEF Tickets
  <2>2. Ahead(d, x.tx) => Ahead(d, x.tx)'
    BY <2>1, SteadyStays
  <2>3. Creator[x.tx] = d /\ (rows[x.tx].version # 0 =>
           Ahead(d, x.tx) /\ \A r \in Runs : run[d][r].pc \notin {"pull", "apply"})
    BY <1>2 DEF CreatesFirst
  <2>4. \A r \in Runs : run'[d][r].pc \in {"pull", "apply"} => run[d][r].pc \in {"pull", "apply"}
    OBVIOUS
  <2>. QED
    BY <1>1, <2>2, <2>3, <2>4
<1>3. CASE Creator[x.tx] = d /\ rows[x.tx].version = 0
  BY <1>1, <1>3
<1>. QED
  BY <1>2, <1>3

\* Who is settled stays settled where nobody writes.
LEMMA SettledStill ==
    ASSUME ConvInv, \A d \in Devices : Steady(d), local' = local, raced' = raced
    PROVE  Settled'
<1>. SUFFICES ASSUME NEW d \in Devices \ raced, NEW t \in TxIds, rows[t].version # 0
              PROVE  Mirror(d, t)' \/ Ahead(d, t)' \/ Viable(d, t)'
  BY DEF Settled, Steady
<1>1. Mirror(d, t) \/ Ahead(d, t) \/ Viable(d, t)
  BY DEF ConvInv, Settled
<1>. QED
  BY <1>1, SteadyStays

\* The same for a delete under way.
LEMMA DeletesStill ==
    ASSUME ConvInv, \A d \in Devices : Steady(d), local' = local, raced' = raced,
           deleting' = deleting
    PROVE  DeletesCurrent'
<1>. SUFFICES ASSUME NEW d \in Devices \ raced, NEW t \in TxIds, rows[t].version # 0,
                     deleting[d] # NoDelete, deleting[d].tx = t
              PROVE  \/ local[d][t].version = deleting[d].version
                     \/ Ahead(d, t)' \/ Viable(d, t)'
  BY DEF DeletesCurrent, Steady
<1>1. local[d][t].version = deleting[d].version \/ Ahead(d, t) \/ Viable(d, t)
  BY DEF ConvInv, DeletesCurrent
<1>. QED
  BY <1>1, SteadyStays

\* A run reads on where the log and the answers it has are what they were.
LEMMA ReadsStay ==
    ASSUME NEW d \in Devices, NEW s \in RunStates, ReadsOn(d, s), GoodRun(d, s),
           cursor'[d] = cursor[d], log \in Seq(LogEntries),
           \A i \in DOMAIN log : log'[i] = log[i],
           \A i \in Ids : receipts[i] # NoReceipt => receipts'[i] = receipts[i]
    PROVE  ReadsOn(d, s)'
<1>1. /\ s.from \in Nat /\ s.next \in Nat /\ s.page \in Seq(LogEntries)
      /\ s.answers \in Seq(Answers) /\ s.next <= Len(log) /\ Len(log) \in Nat
  BY RunFields DEF GoodRun
<1>2. ASSUME s.pc = "apply", NEW i \in DOMAIN s.page
      PROVE  s.page[i] = log'[(s.next - Len(s.page)) + i]
  <2>1. s.from <= s.next - Len(s.page) /\ s.page[i] = log[(s.next - Len(s.page)) + i]
    BY <1>2 DEF ReadsOn
  <2>2. i \in 1 .. Len(s.page) /\ Len(s.page) \in Nat
    BY <1>1
  <2>3. (s.next - Len(s.page)) + i \in 1 .. Len(log)
    BY <1>1, <2>1, <2>2
  <2>. QED
    BY <2>1, <2>3
<1>3. ASSUME NEW j \in DOMAIN s.answers
      PROVE  s.answers[j].receipt = receipts'[s.answers[j].m.id]
  <2>1. s.answers[j] \in Answers
    BY <1>1, ElementOf
  <2>2. s.answers[j].m.id \in Ids
    BY <2>1 DEF Answers, Mutations
  <2>. QED
    BY <2>2 DEF ReadsOn
<1>. QED
  BY <1>2, <1>3 DEF ReadsOn

\* Unread changes after a step of the runs that leaves the cursor alone.
LEMMA UnreadStays ==
    ASSUME NEW d \in Devices, log' = log, cursor'[d] = cursor[d],
           \A r \in Runs : run'[d][r].pc = "apply" =>
               \/ run'[d][r] = run[d][r]
               \/ run'[d][r].next - Len(run'[d][r].page) = cursor[d]
    PROVE  Unread(d) \subseteq Unread(d)'
<1>. SUFFICES ASSUME NEW i \in Unread(d)
              PROVE  i \in Unread(d)'
  OBVIOUS
<1>1. i \in DOMAIN log' /\ i > cursor'[d]
  BY DEF Unread
<1>2. ASSUME NEW r \in Runs, run'[d][r].pc = "apply"
      PROVE  i > run'[d][r].next - Len(run'[d][r].page)
  BY <1>1, <1>2 DEF Unread
<1>. QED
  BY <1>1, <1>2 DEF Unread

\* A step of a run that writes neither the server nor what a device shows.
LEMMA SyncConv ==
    ASSUME Inv, ConvInv, OneRun, NEW d \in Devices, NEW r \in Runs, NEW s \in RunStates,
           run' = [run EXCEPT ![d][r] = s],
           rows' = rows, log' = log, receipts' = receipts, local' = local,
           deleting' = deleting, raced' = raced, queued' = queued,
           \A e \in Devices : e # d => /\ cursor'[e] = cursor[e]
                                       /\ pending'[e] = pending[e]
                                       /\ conflicts'[e] = conflicts[e],
           Unread(d) \subseteq Unread(d)', ReadsOn(d, s)',
           RunTickets(s) \subseteq Tickets(d), Queue(d)' \subseteq Queue(d),
           \A x \in Queue(d) : Taken(x) => x \in Queue(d)',
           \A i \in DOMAIN conflicts'[d] : Holds(d, conflicts'[d][i].tx),
           s.pc \in {"pull", "apply"} => run[d][r].pc \in {"pull", "apply"} \/ Queue(d) = {}
    PROVE  ConvInv'
<1>1. /\ run'[d][r] = s
      /\ \A e \in Devices, q \in Runs : e # d \/ q # r => run'[e][q] = run[e][q]
      /\ \A q \in Runs : q = r
  <2>1. run \in [Devices -> [Runs -> RunStates]]
    BY DEF Inv, TypeOK
  <2>2. \A q \in Runs : q = r
    BY DEF OneRun
  <2>. QED
    BY <2>1, <2>2
<1>2. \A e \in Devices : e # d =>
         /\ Queue(e)' = Queue(e) /\ Tickets(e)' = Tickets(e) /\ Unread(e)' = Unread(e)
  <2>. SUFFICES ASSUME NEW e \in Devices, e # d
                PROVE  /\ Queue(e)' = Queue(e) /\ Tickets(e)' = Tickets(e)
                       /\ Unread(e)' = Unread(e)
    OBVIOUS
  <2>1. Queue(e)' = Queue(e)
    BY DEF Queue
  <2>2. \A q \in Runs : run'[e][q] = run[e][q]
    BY <1>1
  <2>3. Tickets(e)' = Tickets(e)
    BY <2>1, <2>2 DEF Tickets, RunTickets
  <2>4. Unread(e)' = Unread(e)
    BY <2>2 DEF Unread
  <2>. QED
    BY <2>1, <2>3, <2>4
<1>3. Tickets(d)' \subseteq Tickets(d)
  <2>. SUFFICES ASSUME NEW x \in Tickets(d)'
                PROVE  x \in Tickets(d)
    OBVIOUS
  <2>1. x \in Queue(d)' \/ \E q \in Runs : x \in RunTickets(run[d][q])'
    BY DEF Tickets
  <2>2. \A q \in Runs : RunTickets(run[d][q])' = RunTickets(s)
    BY <1>1 DEF RunTickets
  <2>. QED
    BY <2>1, <2>2 DEF Tickets
<1>4. \A e \in Devices : Steady(e)
  BY <1>2 DEF Steady
<1>5. LogTells'
  BY LogTellsStill DEF ConvInv
<1>6. IdsApart'
  BY DEF ConvInv, IdsApart
<1>7. TicketsAgree'
  BY <1>2, <1>3, AgreeStill DEF ConvInv
<1>8. Known'
  <2>1. ASSUME NEW e \in Devices, NEW t \in TxIds, Holds(e, t)'
        PROVE  Holds(e, t)
    <3>1. CASE e = d
      BY <1>3, <2>1, <3>1 DEF Holds
    <3>2. CASE e # d
      BY <1>2, <2>1, <3>2 DEF Holds
    <3>. QED
      BY <3>1, <3>2
  <2>. QED
    BY <2>1, KnownStill DEF ConvInv
<1>9. CreatesFirst'
  <2>1. \A e \in Devices : \A x \in Queue(e)' : x \in Queue(e)
    BY <1>2
  <2>2. \A e \in Devices, q \in Runs : run'[e][q].pc \in {"pull", "apply"} =>
           run[e][q].pc \in {"pull", "apply"} \/ Queue(e)' = {}
    BY <1>1
  <2>. QED
    BY <1>4, <2>1, <2>2, CreatesStill DEF ConvInv
<1>10. ReadInv'
  <2>. SUFFICES ASSUME NEW e \in Devices, NEW q \in Runs
                PROVE  ReadsOn(e, run[e][q])'
    BY DEF ReadInv
  <2>1. CASE e = d
    BY <1>1, <2>1, SMTT(30) DEF ReadsOn
  <2>2. CASE e # d
    <3>1. PICK x \in RunStates : x = run[e][q] /\ GoodRun(e, x)
      BY RunNow
    <3>2. ReadsOn(e, x) /\ log \in Seq(LogEntries)
      BY <3>1 DEF ConvInv, ReadInv, Inv, TypeOK
    <3>3. ReadsOn(e, x)'
      BY <2>2, <3>1, <3>2, ReadsStay
    <3>4. run'[e][q] = x
      BY <1>1, <2>2, <3>1
    <3>. QED
      BY <3>3, <3>4 DEF ReadsOn
  <2>. QED
    BY <2>1, <2>2
<1>11. Settled' /\ DeletesCurrent'
  BY <1>4, SettledStill, DeletesStill
<1>. QED
  BY <1>5, <1>6, <1>7, <1>8, <1>9, <1>10, <1>11 DEF ConvInv

\* A step of a run that writes nothing but its own state.
LEMMA RunConv ==
    ASSUME Inv, ConvInv, OneRun, NEW d \in Devices, NEW r \in Runs, NEW s \in RunStates,
           run' = [run EXCEPT ![d][r] = s],
           UNCHANGED <<rows, log, receipts, local, pending, conflicts, cursor, deleting,
                       queued, raced>>,
           ReadsOn(d, s), RunTickets(s) \subseteq Tickets(d),
           s.pc = "apply" => s.next - Len(s.page) = cursor[d],
           s.pc \in {"pull", "apply"} => run[d][r].pc \in {"pull", "apply"} \/ pending[d] = <<>>
    PROVE  ConvInv'
<1>1. /\ rows' = rows /\ log' = log /\ receipts' = receipts /\ local' = local
      /\ pending' = pending /\ conflicts' = conflicts /\ cursor' = cursor
      /\ deleting' = deleting /\ queued' = queued /\ raced' = raced
  OBVIOUS
<1>2. \A q \in Runs : run'[d][q] = s
  <2>1. run \in [Devices -> [Runs -> RunStates]]
    BY DEF Inv, TypeOK
  <2>2. run'[d][r] = s
    BY <2>1
  <2>. QED
    BY <2>2, Zenon DEF OneRun
<1>3. Unread(d) \subseteq Unread(d)'
  BY <1>1, <1>2, UnreadStays
<1>4. Queue(d)' = Queue(d)
  BY <1>1 DEF Queue
<1>5. ReadsOn(d, s)'
  BY <1>1 DEF ReadsOn
<1>6. \A i \in DOMAIN conflicts'[d] : Holds(d, conflicts'[d][i].tx)
  BY <1>1 DEF Holds
<1>7. pending[d] = <<>> => Queue(d) = {}
  BY DEF Queue
<1>. QED
  BY <1>1, <1>3, <1>4, <1>5, <1>6, <1>7, SyncConv

\* The tickets of a run are the device's.
LEMMA OwnTickets ==
    ASSUME NEW d \in Devices, NEW r \in Runs
    PROVE  RunTickets(run[d][r]) \subseteq Tickets(d) /\ Queue(d) \subseteq Tickets(d)
  BY DEF Tickets

\* What the stages of a run hold.
LEMMA EmptyTickets ==
    ASSUME NEW s, s.batch = <<>>, s.answers = <<>>
    PROVE  RunTickets(s) = {}
<1>1. DOMAIN <<>> = {}
  OBVIOUS
<1>. QED
  BY <1>1 DEF RunTickets

\* The stages without mutations.
LEMMA StageTickets ==
    ASSUME NEW from, NEW attempt, NEW page, NEW next
    PROVE  /\ RunTickets(Off) = {} /\ RunTickets(Listing(from, attempt)) = {}
           /\ RunTickets(Pulling(from)) = {} /\ RunTickets(Applying(from, page, next)) = {}
<1>1. /\ Off.batch = <<>> /\ Off.answers = <<>>
      /\ Listing(from, attempt).batch = <<>> /\ Listing(from, attempt).answers = <<>>
      /\ Pulling(from).batch = <<>> /\ Pulling(from).answers = <<>>
      /\ Applying(from, page, next).batch = <<>> /\ Applying(from, page, next).answers = <<>>
  BY DEF Off, Listing, Pulling, Applying, RunState
<1>. QED
  BY <1>1, EmptyTickets

\* The stage that sends a batch.
LEMMA PushTickets ==
    ASSUME NEW from, NEW attempt, NEW batch, NEW answers
    PROVE  RunTickets(Pushing(from, attempt, batch, answers)) =
              {Ticket(batch[i]) : i \in DOMAIN batch}
                 \cup {Ticket(answers[i].m) : i \in DOMAIN answers}
<1>1. /\ Pushing(from, attempt, batch, answers).batch = batch
      /\ Pushing(from, attempt, batch, answers).answers = answers
  BY DEF Pushing, RunState
<1>. QED
  BY <1>1 DEF RunTickets

\* The stages that work through the answers.
LEMMA HandleTickets ==
    ASSUME NEW pc, NEW from, NEW attempt, NEW answers
    PROVE  RunTickets(Handling(pc, from, attempt, answers)) =
              {Ticket(answers[i].m) : i \in DOMAIN answers}
<1>1. /\ Handling(pc, from, attempt, answers).batch = <<>>
      /\ Handling(pc, from, attempt, answers).answers = answers
  BY DEF Handling, RunState
<1>2. DOMAIN <<>> = {}
  OBVIOUS
<1>. QED
  BY <1>1, <1>2 DEF RunTickets

\* Starting, listing, pushing, going on to pull and giving up.
LEMMA QuietConv ==
    ASSUME Inv, ConvInv, OneRun, NEW d \in Devices, NEW r \in Runs
    PROVE  (\/ Start(d, r) \/ List(d, r) \/ Respond(d, r) \/ AfterReceipts(d, r)
            \/ Abort(d, r)) => ConvInv'
<1>. DEFINE s == run[d][r]
<1>0. /\ s \in RunStates /\ s.from \in Nat /\ s.attempt \in {0, 1}
      /\ s.batch \in Seq(Mutations) /\ s.answers \in Seq(Answers)
      /\ s.page \in Seq(LogEntries) /\ s.next \in Nat
  BY RunNow
<1>1. /\ ReadsOn(d, s) /\ cursor[d] \in Nat /\ pending[d] \in Seq(Mutations)
      /\ <<>> \in Seq(Mutations) /\ <<>> \in Seq(Answers) /\ <<>> \in Seq(LogEntries)
  BY LogBound DEF ConvInv, ReadInv, Inv, TypeOK
<1>2. /\ Off \in RunStates /\ ReadsOn(d, Off) /\ RunTickets(Off) \subseteq Tickets(d)
      /\ Off.pc = "off"
  <2>1. Off \in RunStates /\ RunTickets(Off) = {}
    BY <1>0, <1>1, RunTypes, StageTickets
  <2>. QED
    BY <2>1 DEF ReadsOn, Off, RunState
<1>3. ASSUME NEW x \in {0, 1}
      PROVE  /\ Listing(cursor[d], x) \in RunStates /\ ReadsOn(d, Listing(cursor[d], x))
             /\ RunTickets(Listing(cursor[d], x)) \subseteq Tickets(d)
             /\ Listing(cursor[d], x).pc = "list"
  <2>1. Listing(cursor[d], x) \in RunStates /\ RunTickets(Listing(cursor[d], x)) = {}
    BY <1>0, <1>1, RunTypes, StageTickets
  <2>. QED
    BY <2>1 DEF ReadsOn, Listing, RunState
<1>4. /\ Pulling(cursor[d]) \in RunStates /\ ReadsOn(d, Pulling(cursor[d]))
      /\ RunTickets(Pulling(cursor[d])) \subseteq Tickets(d)
      /\ Pulling(cursor[d]).pc = "pull"
  <2>1. Pulling(cursor[d]) \in RunStates /\ RunTickets(Pulling(cursor[d])) = {}
    BY <1>0, <1>1, RunTypes, StageTickets
  <2>. QED
    BY <2>1 DEF ReadsOn, Pulling, RunState
<1>5. s.pc # "off" => s.from = cursor[d]
  BY <1>1 DEF ReadsOn
<1>6. ASSUME Start(d, r)
      PROVE  ConvInv'
  <2>1. run' = [run EXCEPT ![d][r] = Listing(cursor[d], 0)]
    BY <1>6 DEF Start
  <2>2. UNCHANGED <<rows, log, receipts, local, pending, conflicts, cursor, deleting,
                    queued, raced>>
    BY <1>6 DEF Start, serverVars, deviceVars, history
  <2>. QED
    BY <1>3, <2>1, <2>2, RunConv
<1>7. ASSUME List(d, r)
      PROVE  ConvInv'
  <2>0. s.from = cursor[d]
    BY <1>5, <1>7 DEF List
  <2>1. UNCHANGED <<rows, log, receipts, local, pending, conflicts, cursor, deleting,
                    queued, raced>>
    BY <1>7 DEF List, serverVars, deviceVars, history
  <2>2. CASE pending[d] = <<>>
    <3>1. run' = [run EXCEPT ![d][r] = Pulling(cursor[d])]
      BY <1>7, <2>0, <2>2 DEF List
    <3>. QED
      BY <1>4, <2>1, <2>2, <3>1, RunConv
  <2>3. CASE pending[d] # <<>>
    <3>. DEFINE x == Pushing(cursor[d], s.attempt, pending[d], <<>>)
    <3>1. run' = [run EXCEPT ![d][r] = x]
      BY <1>7, <2>0, <2>3 DEF List
    <3>2. x \in RunStates
      BY <1>0, <1>1, RunTypes
    <3>3. RunTickets(x) = {Ticket(pending[d][i]) : i \in DOMAIN pending[d]}
                             \cup {Ticket(<<>>[i].m) : i \in DOMAIN <<>>}
      BY PushTickets
    <3>4. RunTickets(x) \subseteq Tickets(d)
      BY <3>3, OwnTickets DEF Queue
    <3>5. ReadsOn(d, x) /\ x.pc = "push"
      BY DEF ReadsOn, Pushing, RunState
    <3>. HIDE DEF x
    <3>. QED
      BY <2>1, <3>1, <3>2, <3>4, <3>5, RunConv
  <2>. QED
    BY <2>2, <2>3
<1>8. ASSUME Respond(d, r)
      PROVE  ConvInv'
  <2>. DEFINE x == Handling("receipts", s.from, s.attempt, s.answers)
  <2>1. UNCHANGED <<rows, log, receipts, local, pending, conflicts, cursor, deleting,
                    queued, raced>>
    BY <1>8 DEF Respond, serverVars, deviceVars, history
  <2>2. run' = [run EXCEPT ![d][r] = x] /\ s.from = cursor[d]
    BY <1>5, <1>8 DEF Respond
  <2>3. x \in RunStates
    BY <1>0, RunTypes
  <2>4. RunTickets(x) \subseteq Tickets(d)
    <3>1. RunTickets(x) = {Ticket(s.answers[i].m) : i \in DOMAIN s.answers}
      BY HandleTickets
    <3>. QED
      BY <3>1, OwnTickets DEF RunTickets
  <2>5. ReadsOn(d, x) /\ x.pc = "receipts"
    BY <1>1, <2>2 DEF ReadsOn, Handling, RunState
  <2>. HIDE DEF x
  <2>. QED
    BY <2>1, <2>2, <2>3, <2>4, <2>5, RunConv
<1>9. ASSUME AfterReceipts(d, r)
      PROVE  ConvInv'
  <2>0. s.from = cursor[d]
    BY <1>5, <1>9 DEF AfterReceipts
  <2>1. UNCHANGED <<rows, log, receipts, local, pending, conflicts, cursor, deleting,
                    queued, raced>>
    BY <1>9 DEF AfterReceipts, serverVars, deviceVars, history
  <2>2. CASE pending[d] = <<>>
    <3>1. run' = [run EXCEPT ![d][r] = Pulling(cursor[d])]
      BY <1>9, <2>0, <2>2 DEF AfterReceipts
    <3>. QED
      BY <1>4, <2>1, <2>2, <3>1, RunConv
  <2>3. CASE pending[d] # <<>> /\ s.attempt = 0
    <3>1. run' = [run EXCEPT ![d][r] = Listing(cursor[d], 1)]
      BY <1>9, <2>0, <2>3 DEF AfterReceipts
    <3>. QED
      BY <1>3, <2>1, <3>1, RunConv
  <2>4. CASE pending[d] # <<>> /\ s.attempt # 0
    <3>1. run' = [run EXCEPT ![d][r] = Off]
      BY <1>9, <2>4 DEF AfterReceipts
    <3>. QED
      BY <1>2, <2>1, <3>1, RunConv
  <2>. QED
    BY <2>2, <2>3, <2>4
<1>10. ASSUME Abort(d, r)
       PROVE  ConvInv'
  <2>1. run' = [run EXCEPT ![d][r] = Off]
    BY <1>10 DEF Abort
  <2>2. UNCHANGED <<rows, log, receipts, local, pending, conflicts, cursor, deleting,
                    queued, raced>>
    BY <1>10 DEF Abort, serverVars, deviceVars, history
  <2>. QED
    BY <1>2, <2>1, <2>2, RunConv
<1>. QED
  BY <1>6, <1>7, <1>8, <1>9, <1>10

\* pull
LEMMA PullConv ==
    ASSUME Inv, ConvInv, OneRun, NEW d \in Devices, NEW r \in Runs, Pull(d, r)
    PROVE  ConvInv'
<1>. DEFINE from == run[d][r].from
            p == Page(from)
            x == Applying(from, p, NextCursor(from, p))
<1>1. /\ log \in Seq(LogEntries) /\ run[d][r].batch \in Seq(Mutations)
      /\ run[d][r].answers \in Seq(Answers) /\ run[d][r].attempt \in {0, 1}
      /\ from \in Nat /\ from <= Len(log)
  BY RunNow DEF Inv, TypeOK, GoodRun
<1>2. /\ p \in Seq(LogEntries) /\ NextCursor(from, p) \in Nat
      /\ \A i \in DOMAIN p : p[i] = log[from + i]
  BY <1>1, PageFacts
<1>3. from = cursor[d] /\ run[d][r].pc = "pull"
  BY DEF ConvInv, ReadInv, ReadsOn, Pull
<1>4. x \in RunStates /\ RunTickets(x) = {}
  BY <1>1, <1>2, RunTypes, StageTickets
<1>5. /\ x.pc = "apply" /\ x.from = from /\ x.page = p /\ x.next = NextCursor(from, p)
      /\ x.answers = <<>>
  BY DEF Applying, RunState
<1>6. NextCursor(from, p) - Len(p) = from
  BY <1>1, <1>2 DEF NextCursor
<1>7. run' = [run EXCEPT ![d][r] = x]
  BY DEF Pull
<1>8. UNCHANGED <<rows, log, receipts, local, pending, conflicts, cursor, deleting,
                  queued, raced>>
  BY DEF Pull, serverVars, deviceVars, history
<1>. HIDE DEF x, p, from
<1>9. ReadsOn(d, x)
  BY <1>1, <1>2, <1>3, <1>5, <1>6 DEF ReadsOn
<1>. QED
  BY <1>3, <1>4, <1>5, <1>6, <1>7, <1>8, <1>9, RunConv

\* updateSyncState: the cursor moves to where the run has read.
LEMMA FinishConv ==
    ASSUME Inv, ConvInv, OneRun, NEW d \in Devices, NEW r \in Runs, Finish(d, r)
    PROVE  ConvInv'
<1>0. /\ run[d][r].pc = "apply" /\ run[d][r].page = <<>>
      /\ cursor' = [cursor EXCEPT ![d] = run[d][r].next]
      /\ run' = [run EXCEPT ![d][r] = Off]
      /\ rows' = rows /\ log' = log /\ receipts' = receipts /\ local' = local
      /\ deleting' = deleting /\ raced' = raced /\ queued' = queued
      /\ pending' = pending /\ conflicts' = conflicts
  BY DEF Finish, SavedCursor, serverVars, deviceVars, history
<1>1. /\ cursor \in [Devices -> 0 .. Len(log)] /\ Len(log) \in Nat
      /\ run[d][r].next \in Nat
  <2>1. run[d][r].next \in Nat
    BY RunNow
  <2>2. Len(log) \in Nat
    BY LogBound
  <2>. QED
    BY <2>1, <2>2 DEF Inv, TypeOK
<1>2. Off \in RunStates /\ RunTickets(Off) = {}
  BY <1>1, OffGood, StageTickets
<1>3. \A q \in Runs : run'[d][q] = Off
  <2>1. run \in [Devices -> [Runs -> RunStates]]
    BY DEF Inv, TypeOK
  <2>2. run'[d][r] = Off
    BY <1>0, <2>1
  <2>. QED
    BY <2>2, Zenon DEF OneRun
<1>4. /\ cursor'[d] = run[d][r].next
      /\ \A e \in Devices : e # d => cursor'[e] = cursor[e]
  BY <1>0, <1>1
<1>5. Unread(d) \subseteq Unread(d)'
  <2>. SUFFICES ASSUME NEW i \in Unread(d)
                PROVE  i \in Unread(d)'
    OBVIOUS
  <2>1. i > run[d][r].next - Len(run[d][r].page) /\ i \in DOMAIN log
    BY <1>0 DEF Unread
  <2>2. i > cursor'[d]
    BY <1>0, <1>1, <1>4, <2>1
  <2>3. Off.pc = "off"
    BY DEF Off, RunState
  <2>. QED
    BY <1>0, <1>3, <2>1, <2>2, <2>3 DEF Unread
<1>6. ReadsOn(d, Off)'
  BY DEF ReadsOn, Off, RunState
<1>7. Queue(d)' = Queue(d) /\ \A i \in DOMAIN conflicts'[d] : Holds(d, conflicts'[d][i].tx)
  BY <1>0 DEF Queue, Holds
<1>8. Off.pc = "off"
  BY DEF Off, RunState
<1>. QED
  BY <1>0, <1>2, <1>4, <1>5, <1>6, <1>7, <1>8, SyncConv

\* The first answer is the one the server has stored.
LEMMA AnswerStored ==
    ASSUME Inv, ConvInv, NEW d \in Devices, NEW r \in Runs, run[d][r].answers # <<>>
    PROVE  /\ Head(run[d][r].answers).receipt # NoReceipt
           /\ Head(run[d][r].answers).receipt = receipts[Head(run[d][r].answers).m.id]
           /\ Ticket(Head(run[d][r].answers).m) \in Tickets(d)
           /\ run[d][r].pc = "refused" =>
                 Head(run[d][r].answers).receipt.code = "LEDGER_VERSION_CONFLICT"
<1>. DEFINE a == run[d][r].answers
<1>1. a \in Seq(Answers) /\ ReadsOn(d, run[d][r])
  BY RunNow DEF ConvInv, ReadInv
<1>2. Head(a) = a[1] /\ 1 \in DOMAIN a
  BY <1>1, TailFacts
<1>3. Ticket(Head(a).m) \in RunTickets(run[d][r])
  BY <1>2 DEF RunTickets
<1>. QED
  BY <1>1, <1>2, <1>3, OwnTickets DEF ReadsOn

\* The run that has handled its first answer.
LEMMA HandledConv ==
    ASSUME Inv, ConvInv, NEW d \in Devices, NEW r \in Runs, run[d][r].answers # <<>>,
           run[d][r].pc \in {"receipts", "refused"}
    PROVE  /\ ReadsOn(d, Handled(run[d][r]))
           /\ Head(run[d][r].answers).receipt.code = "LEDGER_VERSION_CONFLICT" =>
                 ReadsOn(d, Refused(run[d][r]))
           /\ RunTickets(Handled(run[d][r])) \subseteq Tickets(d)
           /\ RunTickets(Refused(run[d][r])) \subseteq Tickets(d)
           /\ Handled(run[d][r]).pc = "receipts" /\ Refused(run[d][r]).pc = "refused"
<1>. DEFINE s == run[d][r]
            a == run[d][r].answers
<1>1. a \in Seq(Answers) /\ ReadsOn(d, s)
  BY RunNow DEF ConvInv, ReadInv
<1>2. /\ Head(a) = a[1] /\ 1 \in DOMAIN a
      /\ \A i \in DOMAIN Tail(a) : i + 1 \in DOMAIN a /\ Tail(a)[i] = a[i + 1]
  BY <1>1, TailFacts
<1>3. /\ Handled(s).pc = "receipts" /\ Handled(s).from = s.from /\ Handled(s).page = <<>>
      /\ Handled(s).answers = Tail(a)
      /\ Refused(s).pc = "refused" /\ Refused(s).from = s.from /\ Refused(s).page = <<>>
      /\ Refused(s).answers = a
  BY DEF Handled, Refused, Handling, RunState
<1>4. /\ RunTickets(Handled(s)) = {Ticket(Tail(a)[i].m) : i \in DOMAIN Tail(a)}
      /\ RunTickets(Refused(s)) = {Ticket(a[i].m) : i \in DOMAIN a}
  <2>1. Handled(s) = Handling("receipts", s.from, s.attempt, Tail(a))
    BY DEF Handled
  <2>2. Refused(s) = Handling("refused", s.from, s.attempt, a)
    BY DEF Refused
  <2>3. RunTickets(Handling("receipts", s.from, s.attempt, Tail(a))) =
           {Ticket(Tail(a)[i].m) : i \in DOMAIN Tail(a)}
    BY HandleTickets
  <2>4. RunTickets(Handling("refused", s.from, s.attempt, a)) =
           {Ticket(a[i].m) : i \in DOMAIN a}
    BY HandleTickets
  <2>. QED
    BY <2>1, <2>2, <2>3, <2>4
<1>5. /\ RunTickets(Handled(s)) \subseteq RunTickets(s)
      /\ RunTickets(Refused(s)) \subseteq RunTickets(s)
  <2>1. {Ticket(a[i].m) : i \in DOMAIN a} \subseteq RunTickets(s)
    BY DEF RunTickets
  <2>2. {Ticket(Tail(a)[i].m) : i \in DOMAIN Tail(a)} \subseteq {Ticket(a[i].m) : i \in DOMAIN a}
    <3>. HIDE DEF a
    <3>. QED
      BY <1>2
  <2>. QED
    BY <1>4, <2>1, <2>2
<1>6. s.from = cursor[d]
  BY <1>1 DEF ReadsOn
<1>. HIDE DEF s, a
<1>7. ReadsOn(d, Handled(s))
  <2>1. \A j \in DOMAIN Tail(a) : /\ Tail(a)[j].receipt # NoReceipt
                                  /\ Tail(a)[j].receipt = receipts[Tail(a)[j].m.id]
    BY <1>1, <1>2 DEF ReadsOn, s, a
  <2>. QED
    BY <1>3, <1>6, <2>1 DEF ReadsOn
<1>8. Head(a).receipt.code = "LEDGER_VERSION_CONFLICT" => ReadsOn(d, Refused(s))
  <2>1. \A j \in DOMAIN a : a[j].receipt # NoReceipt /\ a[j].receipt = receipts[a[j].m.id]
    BY <1>1 DEF ReadsOn, s, a
  <2>. QED
    BY <1>2, <1>3, <1>6, <2>1 DEF ReadsOn
<1>. QED
  BY <1>3, <1>5, <1>7, <1>8, OwnTickets DEF s, a

\* A mutation the server has decided leaves the queue: the server will not
\* take it again.
LEMMA RemoveConv ==
    ASSUME Inv, ConvInv, OneRun, NEW d \in Devices, NEW r \in Runs, run[d][r].answers # <<>>,
           run[d][r].pc \in {"receipts", "refused"},
           Head(run[d][r].answers).receipt.code \in {"OK", "LEDGER_VERSION_CONFLICT"},
           pending' = [pending EXCEPT ![d] = Drop(@, Head(run[d][r].answers).m)],
           run' = [run EXCEPT ![d][r] = Handled(run[d][r])],
           UNCHANGED conflicts,
           UNCHANGED <<serverVars, local, cursor, deleting, history, ops, bounds>>
    PROVE  ConvInv'
<1>0. /\ rows' = rows /\ log' = log /\ receipts' = receipts /\ local' = local
      /\ conflicts' = conflicts /\ cursor' = cursor
      /\ deleting' = deleting /\ queued' = queued /\ raced' = raced
  BY DEF serverVars, history
<1>1. PICK s \in RunStates : s = Handled(run[d][r])
  BY HeadAnswer
<1>2. PICK m \in Mutations : m = Head(run[d][r].answers).m
  BY HeadAnswer, SMTT(30)
<1>3. /\ receipts[m.id] # NoReceipt /\ receipts[m.id].code \in {"OK", "LEDGER_VERSION_CONFLICT"}
  BY <1>2, AnswerStored
<1>4. ReadsOn(d, s) /\ RunTickets(s) \subseteq Tickets(d) /\ s.pc = "receipts"
  BY <1>1, HandledConv
<1>5. pending[d] \in Seq(Mutations)
  BY DEF Inv, TypeOK
<1>6. /\ pending'[d] = Drop(pending[d], m)
      /\ \A e \in Devices : e # d => pending'[e] = pending[e]
  BY <1>2 DEF Inv, TypeOK
<1>7. /\ \A j \in DOMAIN Drop(pending[d], m) :
            \E i \in DOMAIN pending[d] : Drop(pending[d], m)[j] = pending[d][i]
      /\ \A i \in DOMAIN pending[d] : pending[d][i].id # m.id =>
            \E k \in DOMAIN Drop(pending[d], m) : Drop(pending[d], m)[k] = pending[d][i]
  BY <1>5, DropFacts
<1>8. Queue(d)' \subseteq Queue(d)
  BY <1>6, <1>7 DEF Queue
<1>9. \A x \in Queue(d) : Taken(x) => x \in Queue(d)'
  <2>. SUFFICES ASSUME NEW i \in DOMAIN pending[d], Taken(Ticket(pending[d][i]))
                PROVE  Ticket(pending[d][i]) \in Queue(d)'
    BY DEF Queue
  <2>1. pending[d][i].id # m.id
    BY <1>3 DEF Taken, Ticket
  <2>2. PICK k \in DOMAIN Drop(pending[d], m) : Drop(pending[d], m)[k] = pending[d][i]
    BY <1>7, <2>1
  <2>3. k \in DOMAIN pending'[d] /\ pending'[d][k] = pending[d][i]
    BY <1>6, <2>2
  <2>. QED
    BY <2>3 DEF Queue
<1>10. run' = [run EXCEPT ![d][r] = s]
  BY <1>1
<1>11. Unread(d) \subseteq Unread(d)'
  <2>1. \A q \in Runs : run'[d][q] = s
    <3>1. run \in [Devices -> [Runs -> RunStates]]
      BY DEF Inv, TypeOK
    <3>2. run'[d][r] = s
      BY <1>10, <3>1
    <3>. QED
      BY <3>2, Zenon DEF OneRun
  <2>. QED
    BY <1>0, <1>4, <2>1, UnreadStays
<1>12. ReadsOn(d, s)'
  BY <1>0, <1>4 DEF ReadsOn
<1>13. \A i \in DOMAIN conflicts'[d] : Holds(d, conflicts'[d][i].tx)
  BY <1>0 DEF Holds
<1>. QED
  BY <1>0, <1>4, <1>6, <1>8, <1>9, <1>10, <1>11, <1>12, <1>13, SyncConv

\* Working through the receipts.
LEMMA ReceiptConv ==
    ASSUME Inv, ConvInv, OneRun, NEW d \in Devices, NEW r \in Runs
    PROVE  HandleReceipt(d, r) \/ RemoveRefused(d, r) => ConvInv'
<1>1. ASSUME HandleReceipt(d, r)
      PROVE  ConvInv'
  <2>0. /\ run[d][r].answers # <<>> /\ run[d][r].pc = "receipts"
        /\ UNCHANGED <<serverVars, local, cursor, deleting, history, ops, bounds>>
    BY <1>1, SMTT(30) DEF HandleReceipt
  <2>1. CASE IsApplied(Head(run[d][r].answers).receipt)
    <3>1. RemoveApplied(d, r)
      BY <1>1, <2>1, SMTT(30) DEF HandleReceipt, IsApplied
    <3>. QED
      BY <2>0, <2>1, <3>1, RemoveConv DEF RemoveApplied, IsApplied
  <2>2. CASE Head(run[d][r].answers).receipt.code = "LEDGER_VERSION_CONFLICT"
    <3>. DEFINE refusal == Head(run[d][r].answers)
                c == [id |-> refusal.m.id, tx |-> refusal.m.tx, op |-> refusal.m.op,
                      content |-> refusal.m.content, version |-> refusal.receipt.version,
                      over |-> refusal.receipt.content]
    <3>1. AddConflict(d, r)
      BY <1>1, <2>2 DEF HandleReceipt, IsApplied
    <3>2. /\ conflicts' = [conflicts EXCEPT ![d] = Append(@, c)]
          /\ run' = [run EXCEPT ![d][r] = Refused(run[d][r])]
          /\ pending' = pending
      BY <3>1 DEF AddConflict
    <3>3. /\ rows' = rows /\ log' = log /\ receipts' = receipts /\ local' = local
          /\ cursor' = cursor /\ deleting' = deleting /\ queued' = queued /\ raced' = raced
      BY <2>0 DEF serverVars, history
    <3>4. /\ refusal.m \in Mutations /\ refusal.receipt \in Receipts
          /\ Ticket(refusal.m) \in Tickets(d)
      BY <2>0, HeadAnswer, AnswerStored
    <3>5. c \in Conflicts /\ c.tx = refusal.m.tx
      BY <3>4, SMTT(30) DEF Mutations, Receipts, Conflicts
    <3>6. Holds(d, c.tx)
      BY <3>4, <3>5 DEF Holds, Ticket
    <3>. HIDE DEF c, refusal
    <3>7. \A i \in DOMAIN conflicts'[d] : Holds(d, conflicts'[d][i].tx)
      <4>1. conflicts[d] \in Seq(Conflicts)
        BY DEF Inv, TypeOK
      <4>2. conflicts'[d] = Append(conflicts[d], c)
        BY <3>2 DEF Inv, TypeOK
      <4>3. \A i \in DOMAIN Append(conflicts[d], c) :
               \/ i \in DOMAIN conflicts[d] /\ Append(conflicts[d], c)[i] = conflicts[d][i]
               \/ Append(conflicts[d], c)[i] = c
        BY <3>5, <4>1, AppendFacts
      <4>4. \A i \in DOMAIN conflicts[d] : Holds(d, conflicts[d][i].tx)
        BY DEF Holds
      <4>. QED
        BY <3>6, <4>2, <4>3, <4>4
    <3>8. PICK s \in RunStates : s = Refused(run[d][r])
      BY <2>0, HeadAnswer
    <3>9. ReadsOn(d, s) /\ RunTickets(s) \subseteq Tickets(d) /\ s.pc = "refused"
      BY <2>0, <2>2, <3>8, HandledConv
    <3>10. \A q \in Runs : run'[d][q] = s
      <4>1. run \in [Devices -> [Runs -> RunStates]]
        BY DEF Inv, TypeOK
      <4>2. run'[d][r] = s
        BY <3>2, <3>8, <4>1
      <4>. QED
        BY <4>2, Zenon DEF OneRun
    <3>11. Unread(d) \subseteq Unread(d)'
      BY <3>3, <3>9, <3>10, UnreadStays
    <3>12. ReadsOn(d, s)' /\ Queue(d)' = Queue(d)
      BY <3>2, <3>3, <3>9 DEF ReadsOn, Queue
    <3>13. \A e \in Devices : e # d => conflicts'[e] = conflicts[e]
      BY <3>2 DEF Inv, TypeOK
    <3>14. run' = [run EXCEPT ![d][r] = s]
      BY <3>2, <3>8
    <3>. QED
      BY <3>2, <3>3, <3>7, <3>9, <3>11, <3>12, <3>13, <3>14, SyncConv
  <2>3. CASE /\ ~IsApplied(Head(run[d][r].answers).receipt)
             /\ Head(run[d][r].answers).receipt.code # "LEDGER_VERSION_CONFLICT"
    <3>1. run' = [run EXCEPT ![d][r] = Off] /\ UNCHANGED <<pending, conflicts>>
      BY <1>1, <2>3 DEF HandleReceipt
    <3>2. Off \in RunStates /\ RunTickets(Off) = {}
      BY LogBound, OffGood, StageTickets
    <3>3. ReadsOn(d, Off) /\ Off.pc = "off"
      BY DEF ReadsOn, Off, RunState
    <3>. QED
      BY <2>0, <3>1, <3>2, <3>3, RunConv DEF serverVars, history
  <2>. QED
    BY <2>1, <2>2, <2>3
<1>2. ASSUME RemoveRefused(d, r)
      PROVE  ConvInv'
  <2>1. run[d][r].answers # <<>> /\ run[d][r].pc = "refused"
    BY <1>2, RunNow DEF RemoveRefused, GoodRun
  <2>2. Head(run[d][r].answers).receipt.code = "LEDGER_VERSION_CONFLICT"
    BY <2>1, AnswerStored
  <2>. QED
    BY <1>2, <2>1, <2>2, RemoveConv DEF RemoveRefused
<1>. QED
  BY <1>1, <1>2

\* The run whose next mutation the server answers.
LEMMA ServedRun ==
    ASSUME Inv, OneRun, NEW d \in Devices, NEW r \in Runs, NEW m \in Mutations,
           NEW receipt \in Receipts, ServerAnswers(d, r, m, receipt)
    PROVE  \E s \in RunStates :
              /\ \A q \in Runs : run'[d][q] = s
              /\ s.pc = "push" /\ s.from = run[d][r].from /\ s.page = <<>>
              /\ RunTickets(s) \subseteq RunTickets(run[d][r])
              /\ \A i \in DOMAIN s.answers :
                    \/ /\ i \in DOMAIN run[d][r].answers
                       /\ s.answers[i] = run[d][r].answers[i]
                       /\ run[d][r].answers[i].m.id \in Ids
                    \/ s.answers[i].m = m /\ s.answers[i].receipt = receipt
<1>0. /\ run[d][r].batch # <<>> /\ m = Head(run[d][r].batch)
      /\ run' = [run EXCEPT ![d][r] = Answered(run[d][r], receipt)]
  BY DEF ServerAnswers
<1>1. PICK s \in RunStates :
         /\ s = Answered(run[d][r], receipt)
         /\ s.pc = "push" /\ s.from = run[d][r].from /\ s.next = 0 /\ s.page = <<>>
         /\ s.batch = Tail(run[d][r].batch)
         /\ \A i \in DOMAIN s.answers :
               \/ /\ i \in DOMAIN run[d][r].answers
                  /\ s.answers[i] = run[d][r].answers[i]
                  /\ run[d][r].answers[i].m.id \in Ids
               \/ s.answers[i] = [m |-> Head(run[d][r].batch), receipt |-> receipt]
  BY <1>0, AnsweredRun
<1>2. run' = [run EXCEPT ![d][r] = s]
  BY <1>0, <1>1
<1>3. \A q \in Runs : run'[d][q] = s
  <2>1. run \in [Devices -> [Runs -> RunStates]]
    BY DEF Inv, TypeOK
  <2>2. run'[d][r] = s
    BY <1>2, <2>1
  <2>. QED
    BY <2>2, Zenon DEF OneRun
<1>4. \A i \in DOMAIN s.answers :
         \/ /\ i \in DOMAIN run[d][r].answers
            /\ s.answers[i] = run[d][r].answers[i]
            /\ run[d][r].answers[i].m.id \in Ids
         \/ s.answers[i].m = m /\ s.answers[i].receipt = receipt
  BY <1>0, <1>1
<1>5. RunTickets(s) \subseteq RunTickets(run[d][r])
  <2>. DEFINE b == run[d][r].batch
  <2>1. b \in Seq(Mutations)
    BY RunNow
  <2>2. /\ Head(b) = b[1] /\ 1 \in DOMAIN b
        /\ \A i \in DOMAIN Tail(b) : i + 1 \in DOMAIN b /\ Tail(b)[i] = b[i + 1]
    BY <1>0, <2>1, TailFacts
  <2>3. ASSUME NEW i \in DOMAIN s.batch
        PROVE  Ticket(s.batch[i]) \in RunTickets(run[d][r])
    BY <1>1, <2>2, <2>3 DEF RunTickets
  <2>4. ASSUME NEW i \in DOMAIN s.answers
        PROVE  Ticket(s.answers[i].m) \in RunTickets(run[d][r])
    BY <1>0, <1>4, <2>2, <2>4 DEF RunTickets
  <2>. QED
    BY <2>3, <2>4 DEF RunTickets
<1>. QED
  BY <1>1, <1>3, <1>4, <1>5, SMTT(30)

\* What the devices hold after it.
LEMMA ServedTickets ==
    ASSUME Inv, OneRun, NEW d \in Devices, NEW r \in Runs, NEW m \in Mutations,
           NEW receipt \in Receipts, ServerAnswers(d, r, m, receipt)
    PROVE  /\ Ticket(m) \in Tickets(d) /\ m.id \in queued[d]
           /\ \A e \in Devices : Queue(e)' = Queue(e) /\ Tickets(e)' \subseteq Tickets(e)
           /\ \A q \in Runs : run'[d][q].pc = "push"
           /\ \A e \in Devices, q \in Runs : e # d => run'[e][q] = run[e][q]
<1>0. /\ run[d][r].batch # <<>> /\ m = Head(run[d][r].batch) /\ pending' = pending
      /\ run' = [run EXCEPT ![d][r] = Answered(run[d][r], receipt)]
  BY SMTT(30) DEF ServerAnswers, deviceVars
<1>1. Ticket(m) \in Tickets(d) /\ m.id \in queued[d]
  <2>1. run[d][r].batch \in Seq(Mutations)
    BY RunNow
  <2>2. m = run[d][r].batch[1] /\ 1 \in DOMAIN run[d][r].batch
    BY <1>0, <2>1, TailFacts
  <2>3. Ticket(m) \in RunTickets(run[d][r])
    BY <2>2 DEF RunTickets
  <2>. QED
    BY <1>0, <2>3, OwnTickets, HeadOfBatch
<1>2. PICK s \in RunStates :
         /\ \A q \in Runs : run'[d][q] = s
         /\ s.pc = "push"
         /\ RunTickets(s) \subseteq RunTickets(run[d][r])
  BY ServedRun
<1>3. \A e \in Devices, q \in Runs : e # d => run'[e][q] = run[e][q]
  <2>1. run \in [Devices -> [Runs -> RunStates]]
    BY DEF Inv, TypeOK
  <2>. QED
    BY <1>0, <2>1
<1>4. ASSUME NEW e \in Devices
      PROVE  Queue(e)' = Queue(e) /\ Tickets(e)' \subseteq Tickets(e)
  <2>1. Queue(e)' = Queue(e)
    BY <1>0 DEF Queue
  <2>2. ASSUME NEW q \in Runs
        PROVE  RunTickets(run[e][q])' \subseteq Tickets(e)
    <3>1. CASE e = d
      <4>1. RunTickets(run[d][q])' = RunTickets(s)
        BY <1>2 DEF RunTickets
      <4>. QED
        BY <1>2, <3>1, <4>1, OwnTickets
    <3>2. CASE e # d
      <4>1. RunTickets(run[e][q])' = RunTickets(run[e][q])
        BY <1>3, <3>2 DEF RunTickets
      <4>. QED
        BY <4>1, OwnTickets
    <3>. QED
      BY <3>1, <3>2
  <2>. QED
    BY <2>1, <2>2 DEF Tickets
<1>. QED
  BY <1>1, <1>2, <1>3, <1>4, SMTT(30)

\* The server moves on: where a change was written it is ahead of every device.
Onward(t0) ==
    \A e \in Devices, t \in TxIds :
        \/ /\ rows'[t] = rows[t]
           /\ Ahead(e, t) => Ahead(e, t)'
           /\ Mirror(e, t) => Mirror(e, t)'
           /\ Viable(e, t) => Viable(e, t)'
        \/ t = t0 /\ Ahead(e, t)' /\ rows'[t].version # 0

\* The server has answered a mutation.
LEMMA ServedConv ==
    ASSUME Inv, ConvInv, OneRun, NEW d \in Devices, NEW r \in Runs, NEW m \in Mutations,
           NEW receipt \in Receipts, ServerAnswers(d, r, m, receipt), run[d][r].pc = "push",
           receipt # NoReceipt, LogTells', Onward(m.tx),
           \A i \in DOMAIN log : log'[i] = log[i]
    PROVE  ConvInv'
<1>0. /\ local' = local /\ pending' = pending /\ conflicts' = conflicts
      /\ cursor' = cursor /\ deleting' = deleting /\ queued' = queued /\ raced' = raced
  BY SMTT(30) DEF ServerAnswers, deviceVars, history
<1>1. /\ Ticket(m) \in Tickets(d) /\ m.id \in queued[d]
      /\ \A e \in Devices : Queue(e)' = Queue(e) /\ Tickets(e)' \subseteq Tickets(e)
      /\ \A q \in Runs : run'[d][q].pc = "push"
      /\ \A e \in Devices, q \in Runs : e # d => run'[e][q] = run[e][q]
  BY ServedTickets, ZenonT(60)
<1>2. m.id \in Ids /\ m.tx \in TxIds
  BY DEF Mutations
<1>3. /\ receipts'[m.id] = receipt
      /\ \A i \in Ids : i # m.id => receipts'[i] = receipts[i]
      /\ \A i \in Ids : receipts[i] # NoReceipt => receipts'[i] = receipts[i]
  <2>1. /\ receipts' = [receipts EXCEPT ![m.id] = receipt]
        /\ receipt = receipts[m.id] \/ receipts[m.id] = NoReceipt
        /\ receipts \in [Ids -> Receipts]
    BY DEF ServerAnswers, Inv, TypeOK
  <2>. QED
    BY <1>2, <2>1, SMTT(30)
<1>4. IdsApart'
  BY <1>0, <1>1, <1>3 DEF ConvInv, IdsApart
<1>5. TicketsAgree'
  BY <1>1, AgreeStill DEF ConvInv
<1>6. rows[m.tx].version # 0 \/ local[Creator[m.tx]][m.tx].version # 0
  <2>1. Holds(d, m.tx)
    BY <1>1 DEF Holds, Ticket
  <2>. QED
    BY <1>2, <2>1 DEF ConvInv, Known
<1>7. Known'
  <2>1. ASSUME NEW e \in Devices, NEW t \in TxIds, Holds(e, t)'
        PROVE  Holds(e, t)
    BY <1>0, <1>1, <2>1 DEF Holds
  <2>2. ASSUME NEW t \in TxIds
        PROVE  /\ rows[t].version # 0 => rows'[t].version # 0
               /\ rows'[t].version # 0 => rows[t].version # 0 \/ local'[Creator[t]][t].version # 0
    BY <1>0, <1>6 DEF Onward
  <2>. QED
    BY <1>0, <2>1, <2>2, KnownStill DEF ConvInv
<1>8. CreatesFirst'
  <2>. SUFFICES ASSUME NEW e \in Devices, NEW x \in Queue(e), x.op = "create"
                PROVE  /\ Creator[x.tx] = e
                       /\ rows'[x.tx].version # 0 =>
                             /\ Ahead(e, x.tx)'
                             /\ \A q \in Runs : run'[e][q].pc \notin {"pull", "apply"}
    BY <1>1 DEF CreatesFirst
  <2>1. x.tx \in TxIds /\ Creator[x.tx] = e
    BY TicketIds DEF Tickets, ConvInv, CreatesFirst
  <2>2. ASSUME rows[x.tx].version # 0
        PROVE  Ahead(e, x.tx)' /\ \A q \in Runs : run'[e][q].pc \notin {"pull", "apply"}
    <3>1. Ahead(e, x.tx) /\ \A q \in Runs : run[e][q].pc \notin {"pull", "apply"}
      BY <2>2 DEF ConvInv, CreatesFirst
    <3>. QED
      BY <1>1, <2>1, <3>1 DEF Onward
  <2>3. ASSUME rows[x.tx].version = 0, rows'[x.tx].version # 0
        PROVE  Ahead(e, x.tx)' /\ \A q \in Runs : run'[e][q].pc \notin {"pull", "apply"}
    <3>1. x.tx = m.tx /\ Ahead(e, x.tx)'
      BY <2>1, <2>3 DEF Onward
    <3>2. Holds(d, m.tx)
      BY <1>1 DEF Holds, Ticket
    <3>3. d = e
      BY <1>2, <2>1, <2>3, <3>1, <3>2 DEF ConvInv, Known
    <3>. QED
      BY <1>1, <3>1, <3>3
  <2>. QED
    BY <2>1, <2>2, <2>3
<1>9. ReadInv'
  <2>. SUFFICES ASSUME NEW e \in Devices, NEW q \in Runs
                PROVE  ReadsOn(e, run[e][q])'
    BY DEF ReadInv
  <2>0. log \in Seq(LogEntries)
    BY DEF Inv, TypeOK
  <2>1. CASE e = d
    <3>1. PICK s \in RunStates :
             /\ run'[d][q] = s
             /\ s.pc = "push" /\ s.from = run[d][r].from /\ s.page = <<>>
             /\ \A i \in DOMAIN s.answers :
                   \/ /\ i \in DOMAIN run[d][r].answers
                      /\ s.answers[i] = run[d][r].answers[i]
                      /\ run[d][r].answers[i].m.id \in Ids
                   \/ s.answers[i].m = m /\ s.answers[i].receipt = receipt
      BY ServedRun
    <3>2. ReadsOn(d, run[d][r])
      BY DEF ConvInv, ReadInv
    <3>3. s.from = cursor'[d]
      BY <1>0, <3>1, <3>2 DEF ReadsOn
    <3>4. ASSUME NEW j \in DOMAIN s.answers
          PROVE  /\ s.answers[j].receipt # NoReceipt
                 /\ s.answers[j].receipt = receipts'[s.answers[j].m.id]
      BY <1>3, <3>1, <3>2 DEF ReadsOn
    <3>5. ReadsOn(d, s)'
      BY <3>1, <3>3, <3>4 DEF ReadsOn
    <3>. QED
      BY <2>1, <3>1, <3>5 DEF ReadsOn
  <2>2. CASE e # d
    <3>1. PICK x \in RunStates : x = run[e][q] /\ GoodRun(e, x)
      BY RunNow
    <3>2. ReadsOn(e, x)
      BY <3>1 DEF ConvInv, ReadInv
    <3>3. ReadsOn(e, x)'
      BY <1>0, <1>3, <2>0, <3>1, <3>2, ReadsStay
    <3>4. run'[e][q] = x
      BY <1>1, <2>2, <3>1
    <3>. QED
      BY <3>3, <3>4 DEF ReadsOn
  <2>. QED
    BY <2>1, <2>2
<1>10. Settled'
  <2>. SUFFICES ASSUME NEW e \in Devices \ raced, NEW t \in TxIds, rows'[t].version # 0
                PROVE  Mirror(e, t)' \/ Ahead(e, t)' \/ Viable(e, t)'
    BY <1>0 DEF Settled
  <2>1. CASE rows'[t] = rows[t]
    BY <2>1 DEF ConvInv, Settled, Onward
  <2>2. CASE rows'[t] # rows[t]
    BY <2>2 DEF Onward
  <2>. QED
    BY <2>1, <2>2
<1>11. DeletesCurrent'
  <2>. SUFFICES ASSUME NEW e \in Devices \ raced, NEW t \in TxIds, rows'[t].version # 0,
                       deleting[e] # NoDelete, deleting[e].tx = t
                PROVE  \/ local[e][t].version = deleting[e].version
                       \/ Ahead(e, t)' \/ Viable(e, t)'
    BY <1>0 DEF DeletesCurrent
  <2>1. CASE rows'[t] = rows[t]
    <3>1. local[e][t].version = deleting[e].version \/ Ahead(e, t) \/ Viable(e, t)
      BY <2>1 DEF ConvInv, DeletesCurrent
    <3>. QED
      BY <3>1 DEF Onward
  <2>2. CASE rows'[t] # rows[t]
    BY <2>2 DEF Onward
  <2>. QED
    BY <2>1, <2>2
<1>. QED
  BY <1>4, <1>5, <1>7, <1>8, <1>9, <1>10, <1>11, SMTT(30) DEF ConvInv

\* A mutation with the id of the one the server answers is that one.
LEMMA SameTicket ==
    ASSUME Inv, ConvInv, OneRun, NEW d \in Devices, NEW r \in Runs, NEW m \in Mutations,
           NEW receipt \in Receipts, ServerAnswers(d, r, m, receipt),
           NEW e \in Devices, NEW x \in Queue(e), x.id = m.id
    PROVE  x = Ticket(m)
<1>1. Ticket(m) \in Tickets(d) /\ m.id \in queued[d]
  BY ServedTickets, ZenonT(60)
<1>2. x \in Tickets(e) /\ x.id \in queued[e]
  BY TicketIds DEF Tickets
<1>3. e = d
  BY <1>1, <1>2 DEF ConvInv, IdsApart
<1>4. Ticket(m).id = m.id
  BY DEF Ticket
<1>. QED
  BY <1>1, <1>2, <1>3, <1>4 DEF ConvInv, TicketsAgree

\* What the server would take it still takes, unless it has just taken it.
LEMMA TakenStays ==
    ASSUME Inv, ConvInv, OneRun, NEW d \in Devices, NEW r \in Runs, NEW m \in Mutations,
           NEW receipt \in Receipts, ServerAnswers(d, r, m, receipt),
           receipts[m.id] = NoReceipt => receipt = Decide(m) \/ receipt.code = "DB_ERROR",
           NEW e \in Devices, NEW x \in Queue(e), Taken(x), rows'[x.tx] = rows[x.tx]
    PROVE  Taken(x)' \/ (x.tx = m.tx /\ rows' # rows)
<1>0. /\ receipts' = [receipts EXCEPT ![m.id] = receipt]
      /\ receipt = receipts[m.id] \/ receipts[m.id] = NoReceipt
      /\ receipts \in [Ids -> Receipts] /\ m.id \in Ids
      /\ \/ rows' = rows /\ (receipts[m.id] = NoReceipt => ~IsApplied(receipt))
         \/ receipts[m.id] = NoReceipt /\ IsApplied(receipt)
  BY DEF ServerAnswers, Inv, TypeOK, Mutations
<1>1. x.id \in Ids /\ x.tx \in TxIds
  BY TicketIds DEF Tickets
<1>2. CASE x.id # m.id \/ receipts[m.id] # NoReceipt
  <2>1. receipts'[x.id] = receipts[x.id]
    BY <1>0, <1>1, <1>2
  <2>. QED
    BY <2>1 DEF Taken
<1>3. CASE x.id = m.id /\ receipts[m.id] = NoReceipt
  <2>1. x = Ticket(m) /\ receipts'[x.id] = receipt
    BY <1>0, <1>1, <1>3, SameTicket
  <2>2. x.tx = m.tx /\ x.op = m.op /\ x.base = m.base
    BY <2>1 DEF Ticket
  <2>3. m.op # "create" /\ m.base = rows[m.tx].version
    BY <1>3, <2>2 DEF Taken, NoReceipt, Receipt
  <2>4. CASE receipt.code = "DB_ERROR"
    BY <2>1, <2>4 DEF Taken
  <2>5. CASE receipt = Decide(m)
    <3>1. ~Conflicting(m)
      BY <2>3 DEF Conflicting
    <3>2. receipt.code \in {"NOT_FOUND", "OK"}
      BY <2>5, <3>1 DEF Decide, Receipt
    <3>3. CASE receipt.code = "NOT_FOUND"
      BY <2>1, <3>3 DEF Taken
    <3>4. CASE receipt.code = "OK"
      <4>1. rows' = [rows EXCEPT ![m.tx] = NewRow(m)]
        BY <1>3, <3>4 DEF ServerAnswers, IsApplied
      <4>2. rows \in [TxIds -> Copies(Len(log))]
        BY DEF Inv, TypeOK
      <4>3. NewRow(m).version = rows[m.tx].version + 1
        BY DEF NewRow
      <4>4. rows'[m.tx].version = rows[m.tx].version + 1
        BY <1>1, <2>2, <4>1, <4>2, <4>3
      <4>5. rows[m.tx].version \in Nat
        BY <1>1, <2>2, <4>2, LogBound DEF Copies
      <4>. QED
        BY <2>2, <4>4, <4>5
    <3>. QED
      BY <3>2, <3>3, <3>4
  <2>. QED
    BY <1>3, <2>4, <2>5
<1>. QED
  BY <1>2, <1>3, SMTT(30)

\* The server answers and writes nothing but the receipt.
LEMMA AnswerConv ==
    ASSUME Inv, ConvInv, OneRun, NEW d \in Devices, NEW r \in Runs, NEW m \in Mutations,
           NEW receipt \in Receipts, ServerAnswers(d, r, m, receipt), run[d][r].pc = "push",
           receipt # NoReceipt, rows' = rows, log' = log,
           receipts[m.id] = NoReceipt => receipt = Decide(m) \/ receipt.code = "DB_ERROR"
    PROVE  ConvInv'
<1>1. LogTells'
  BY LogTellsStill DEF ConvInv
<1>2. /\ cursor' = cursor /\ local' = local
      /\ \A e \in Devices : Queue(e)' = Queue(e)
      /\ \A q \in Runs : run'[d][q].pc = "push"
      /\ \A e \in Devices, q \in Runs : e # d => run'[e][q] = run[e][q]
  <2>1. cursor' = cursor /\ local' = local
    BY SMTT(30) DEF ServerAnswers, deviceVars
  <2>. QED
    BY <2>1, ServedTickets, ZenonT(60)
<1>3. ASSUME NEW e \in Devices
      PROVE  Unread(e) \subseteq Unread(e)'
  <2>1. \A q \in Runs : run'[e][q].pc = "apply" => run'[e][q] = run[e][q]
    BY <1>2
  <2>. QED
    BY <1>2, <2>1, UnreadStays
<1>4. Onward(m.tx)
  <2>. SUFFICES ASSUME NEW e \in Devices, NEW t \in TxIds
                PROVE  /\ Ahead(e, t) => Ahead(e, t)'
                       /\ Mirror(e, t) => Mirror(e, t)'
                       /\ Viable(e, t) => Viable(e, t)'
    BY DEF Onward
  <2>1. Ahead(e, t) => Ahead(e, t)'
    BY <1>3 DEF Ahead
  <2>2. Mirror(e, t) => Mirror(e, t)'
    <3>1. \A i : IsLast(i, t)' = IsLast(i, t)
      BY DEF IsLast
    <3>. QED
      BY <1>2, <3>1 DEF Mirror, Shows
  <2>3. ASSUME NEW x \in Queue(e), Taken(x)
        PROVE  Taken(x)'
    BY <2>3, TakenStays
  <2>. QED
    BY <1>2, <2>1, <2>2, <2>3 DEF Viable
<1>. QED
  BY <1>1, <1>4, ServedConv

\* The server applies a mutation.
LEMMA WriteConv ==
    ASSUME Inv, ConvInv, OneRun, NEW d \in Devices, NEW r \in Runs, NEW m \in Mutations,
           NEW receipt \in Receipts, ServerAnswers(d, r, m, receipt), run[d][r].pc = "push",
           receipt = Decide(m), receipts[m.id] = NoReceipt, IsApplied(receipt)
    PROVE  ConvInv'
<1>0. /\ rows' = [rows EXCEPT ![m.tx] = NewRow(m)]
      /\ log' = Append(log, NewChange(m))
      /\ cursor' = cursor /\ local' = local
  BY SMTT(30) DEF ServerAnswers, deviceVars
<1>1. /\ \A e \in Devices : Queue(e)' = Queue(e)
      /\ \A q \in Runs : run'[d][q].pc = "push"
      /\ \A e \in Devices, q \in Runs : e # d => run'[e][q] = run[e][q]
  BY ServedTickets, ZenonT(60)
<1>2. PICK c \in LogEntries : c = NewChange(m)
  BY DecideType DEF Inv
<1>3. /\ log \in Seq(LogEntries) /\ Len(log) \in Nat /\ m.tx \in TxIds
      /\ rows \in [TxIds -> Copies(Len(log))]
  BY LogBound DEF Inv, TypeOK, Mutations
<1>4. rows[m.tx].version \in Nat
  BY <1>3 DEF Copies
<1>5. /\ c.tx = m.tx /\ c.version = rows[m.tx].version + 1
      /\ rows'[m.tx].version = rows[m.tx].version + 1
      /\ \A t \in TxIds : t # m.tx => rows'[t] = rows[t]
  <2>1. NewRow(m).version = rows[m.tx].version + 1
    BY DEF NewRow
  <2>2. c.tx = m.tx /\ c.version = rows[m.tx].version + 1
    BY <1>2 DEF NewChange
  <2>3. rows'[m.tx] = NewRow(m) /\ \A t \in TxIds : t # m.tx => rows'[t] = rows[t]
    BY <1>0, <1>3
  <2>. QED
    BY <2>1, <2>2, <2>3
<1>. PICK n \in Nat : n = Len(log) + 1
  BY <1>3
<1>6. /\ n \in DOMAIN log' /\ log'[n] = c
      /\ \A i \in DOMAIN log : i \in DOMAIN log' /\ log'[i] = log[i]
      /\ \A i \in DOMAIN log' : i \in DOMAIN log \/ i = n
      /\ \A i \in DOMAIN log' : i <= n
  BY <1>0, <1>2, <1>3, AppendFacts
<1>7. ASSUME NEW t \in TxIds, t # m.tx, NEW i
      PROVE  IsLast(i, t) => IsLast(i, t)'
  BY <1>5, <1>6, <1>7 DEF IsLast
<1>8. LogTells'
  <2>1. ASSUME NEW i \in DOMAIN log'
        PROVE  log'[i].version # 0 /\ rows'[log'[i].tx].version # 0
    <3>1. CASE i = n
      BY <1>4, <1>5, <1>6, <3>1
    <3>2. CASE i \in DOMAIN log
      <4>1. log'[i] = log[i] /\ log[i].version # 0 /\ rows[log[i].tx].version # 0
        BY <1>6, <3>2 DEF ConvInv, LogTells
      <4>2. log[i].tx \in TxIds
        <5>1. log[i] \in LogEntries
          BY <1>3, <3>2, ElementOf
        <5>. QED
          BY <5>1 DEF LogEntries
      <4>. QED
        BY <1>4, <1>5, <4>1, <4>2
    <3>. QED
      BY <1>6, <3>1, <3>2
  <2>2. ASSUME NEW t \in TxIds, rows'[t].version # 0
        PROVE  \E i \in DOMAIN log' : IsLast(i, t)' /\ log'[i].version = rows'[t].version
    <3>1. CASE t = m.tx
      <4>1. IsLast(n, t)'
        BY <1>5, <1>6, <3>1 DEF IsLast
      <4>2. log'[n].version = rows'[t].version
        BY <1>5, <1>6, <3>1
      <4>. QED
        BY <1>6, <4>1, <4>2, Zenon
    <3>2. CASE t # m.tx
      <4>1. rows[t].version # 0
        BY <1>5, <2>2, <3>2
      <4>2. PICK i \in DOMAIN log : IsLast(i, t) /\ log[i].version = rows[t].version
        BY <4>1 DEF ConvInv, LogTells
      <4>. QED
        BY <1>5, <1>6, <1>7, <3>2, <4>2
    <3>. QED
      BY <3>1, <3>2
  <2>. QED
    BY <2>1, <2>2 DEF LogTells
<1>9. ASSUME NEW e \in Devices
      PROVE  Unread(e) \subseteq Unread(e)' /\ n \in Unread(e)'
  <2>1. \A q \in Runs : run'[e][q].pc = "apply" => run'[e][q] = run[e][q]
    BY <1>1
  <2>2. ASSUME NEW i \in Unread(e)
        PROVE  i \in Unread(e)'
    BY <1>0, <1>6, <2>1, <2>2 DEF Unread
  <2>3. n > cursor'[e]
    <3>1. cursor[e] \in 0 .. Len(log)
      BY DEF Inv, TypeOK
    <3>. QED
      BY <1>0, <1>3, <3>1
  <2>4. ASSUME NEW q \in Runs, run'[e][q].pc = "apply"
        PROVE  n > run'[e][q].next - Len(run'[e][q].page)
    <3>1. /\ run[e][q].next \in Nat /\ run[e][q].next <= Len(log)
          /\ run[e][q].page \in Seq(LogEntries)
      BY RunNow DEF GoodRun
    <3>2. Len(run[e][q].page) \in Nat
      BY <3>1
    <3>3. run'[e][q] = run[e][q]
      BY <2>1, <2>4
    <3>. QED
      BY <1>3, <3>1, <3>2, <3>3
  <2>. QED
    BY <1>6, <2>2, <2>3, <2>4 DEF Unread
<1>10. Onward(m.tx)
  <2>. SUFFICES ASSUME NEW e \in Devices, NEW t \in TxIds
                PROVE  \/ /\ rows'[t] = rows[t]
                          /\ Ahead(e, t) => Ahead(e, t)'
                          /\ Mirror(e, t) => Mirror(e, t)'
                          /\ Viable(e, t) => Viable(e, t)'
                       \/ t = m.tx /\ Ahead(e, t)' /\ rows'[t].version # 0
    BY DEF Onward
  <2>1. CASE t = m.tx
    <3>1. Ahead(e, t)'
      BY <1>5, <1>6, <1>9, <2>1 DEF Ahead
    <3>. QED
      BY <1>4, <1>5, <2>1, <3>1
  <2>2. CASE t # m.tx
    <3>1. rows'[t] = rows[t]
      BY <1>5, <2>2
    <3>2. Ahead(e, t) => Ahead(e, t)'
      <4>1. \A i \in Unread(e) : i \in DOMAIN log
        BY DEF Unread
      <4>. QED
        BY <1>6, <1>9, <4>1 DEF Ahead
    <3>3. Mirror(e, t) => Mirror(e, t)'
      BY <1>0, <1>6, <1>7, <2>2 DEF Mirror, Shows
    <3>4. ASSUME NEW x \in Queue(e), x.tx = t, Taken(x)
          PROVE  Taken(x)'
      BY <2>2, <3>1, <3>4, TakenStays
    <3>5. Viable(e, t) => Viable(e, t)'
      BY <1>1, <3>4 DEF Viable
    <3>. QED
      BY <3>1, <3>2, <3>3, <3>5
  <2>. QED
    BY <2>1, <2>2
<1>11. receipt # NoReceipt
  BY SMTT(30) DEF IsApplied, NoReceipt, Receipt
<1>. QED
  BY <1>6, <1>8, <1>10, <1>11, ServedConv

\* push answers the next mutation of a request.
LEMMA ServeConv ==
    ASSUME Inv, ConvInv, OneRun, NEW d \in Devices, NEW r \in Runs,
           Serve(d, r) \/ ServeError(d, r)
    PROVE  ConvInv'
<1>1. PICK m \in Mutations, receipt \in Receipts :
         /\ ServerAnswers(d, r, m, receipt) /\ run[d][r].pc = "push"
         /\ receipts[m.id] = NoReceipt => receipt = Decide(m) \/ receipt.code = "DB_ERROR"
  BY ServeForm
<1>2. receipt # NoReceipt
  <2>1. receipt = receipts[m.id] \/ receipts[m.id] = NoReceipt
    BY <1>1 DEF ServerAnswers
  <2>2. Decide(m) # NoReceipt /\ NoReceipt.code = "NONE"
    BY DEF Decide, Receipt, NoReceipt
  <2>. QED
    BY <1>1, <2>1, <2>2, SMTT(30)
<1>3. CASE rows' = rows /\ log' = log
  BY <1>1, <1>2, <1>3, AnswerConv
<1>4. CASE receipts[m.id] = NoReceipt /\ IsApplied(receipt)
  <2>1. receipt = Decide(m)
    BY <1>1, <1>4 DEF IsApplied
  <2>. QED
    BY <1>1, <1>4, <2>1, WriteConv
<1>. QED
  BY <1>1, <1>3, <1>4 DEF ServerAnswers

\* A change is applied: the copy shows it.
LEMMA AppliedShows ==
    ASSUME NEW copy, NEW e, e.version # 0
    PROVE  /\ Shows(Applied(copy, e), e)
           /\ copy.version # 0 => Applied(copy, e).version # 0
<1>1. CASE e.op = "delete" /\ copy.version = 0
  <2>1. Applied(copy, e) = copy
    BY <1>1 DEF Applied
  <2>. QED
    BY <1>1, <2>1 DEF Shows
<1>2. CASE e.op = "delete" /\ copy.version # 0
  <2>1. Applied(copy, e) = [version |-> e.version, deleted |-> TRUE, content |-> copy.content]
    BY <1>2 DEF Applied
  <2>. QED
    BY <1>2, <2>1 DEF Shows
<1>3. CASE e.op # "delete"
  <2>1. Applied(copy, e) = [version |-> e.version, deleted |-> FALSE, content |-> e.content]
    BY <1>3 DEF Applied
  <2>. QED
    BY <1>3, <2>1 DEF Shows
<1>. QED
  BY <1>1, <1>2, <1>3

\* The next change of a page, and what the run has still to read after it.
LEMMA ReadOne ==
    ASSUME Inv, ConvInv, OneRun, NEW d \in Devices, NEW r \in Runs, ApplyChange(d, r)
    PROVE  \E k \in DOMAIN log, s \in RunStates :
              /\ Head(run[d][r].page) = log[k]
              /\ run' = [run EXCEPT ![d][r] = s] /\ s.pc = "apply"
              /\ RunTickets(s) = {} /\ ReadsOn(d, s)
              /\ \A i \in Unread(d) : i >= k /\ (i # k => i \in Unread(d)')
              /\ \A i \in DOMAIN log : i > k => i \in Unread(d)'
<1>. DEFINE p == run[d][r].page
            from == run[d][r].from
            next == run[d][r].next
            s == Applying(from, Tail(p), next)
            k == (next - Len(p)) + 1
<1>0. /\ run[d][r].pc = "apply" /\ p # <<>> /\ run' = [run EXCEPT ![d][r] = s]
      /\ log' = log /\ cursor' = cursor
  BY DEF ApplyChange, serverVars
<1>1. /\ p \in Seq(LogEntries) /\ from \in Nat /\ next \in Nat /\ next <= Len(log)
      /\ log \in Seq(LogEntries) /\ Len(log) \in Nat /\ run[d][r].attempt \in {0, 1}
      /\ run[d][r].batch \in Seq(Mutations) /\ run[d][r].answers \in Seq(Answers)
  BY RunNow, LogBound DEF Inv, TypeOK, GoodRun
<1>2. /\ from = cursor[d] /\ from <= next - Len(p)
      /\ \A i \in DOMAIN p : p[i] = log[(next - Len(p)) + i]
  BY <1>0 DEF ConvInv, ReadInv, ReadsOn
<1>3. /\ Head(p) = p[1] /\ 1 \in DOMAIN p /\ Tail(p) \in Seq(LogEntries)
      /\ Len(Tail(p)) = Len(p) - 1 /\ Len(p) \in Nat \ {0}
      /\ \A i \in DOMAIN Tail(p) : i \in Nat /\ i + 1 \in DOMAIN p /\ Tail(p)[i] = p[i + 1]
  BY <1>0, <1>1, TailFacts
<1>4. s \in RunStates /\ RunTickets(s) = {}
  BY <1>1, <1>3, RunTypes, StageTickets
<1>5. /\ s.pc = "apply" /\ s.from = from /\ s.page = Tail(p) /\ s.next = next
      /\ s.answers = <<>>
  BY DEF Applying, RunState
<1>. HIDE DEF p, from, next, s
<1>6. k \in DOMAIN log /\ next - Len(Tail(p)) = k /\ from < k /\ k \in Nat
  BY <1>1, <1>2, <1>3
<1>7. Head(p) = log[k]
  BY <1>2, <1>3
<1>8. ReadsOn(d, s)
  <2>1. ASSUME NEW i \in DOMAIN Tail(p)
        PROVE  Tail(p)[i] = log[(next - Len(Tail(p))) + i]
    <3>1. Tail(p)[i] = log[(next - Len(p)) + (i + 1)] /\ i \in Nat
      BY <1>2, <1>3
    <3>2. (next - Len(p)) + (i + 1) = (next - Len(Tail(p))) + i
      BY <1>1, <1>3, <3>1
    <3>. QED
      BY <3>1, <3>2
  <2>2. s.from <= s.next - Len(s.page)
    BY <1>1, <1>5, <1>6
  <2>. QED
    BY <1>2, <1>5, <2>1, <2>2 DEF ReadsOn
<1>9. \A q \in Runs : run'[d][q] = s /\ run[d][q] = run[d][r]
  <2>1. run \in [Devices -> [Runs -> RunStates]]
    BY DEF Inv, TypeOK
  <2>2. run'[d][r] = s
    BY <1>0, <2>1
  <2>. QED
    BY <2>2, Zenon DEF OneRun
<1>10. ASSUME NEW i \in DOMAIN log, i > k
       PROVE  i \in Unread(d)'
  <2>1. i > cursor'[d]
    BY <1>0, <1>1, <1>2, <1>6, <1>10
  <2>2. \A q \in Runs : run'[d][q].next - Len(run'[d][q].page) = k
    BY <1>5, <1>6, <1>9
  <2>. QED
    BY <1>0, <1>10, <2>1, <2>2 DEF Unread
<1>11. ASSUME NEW i \in Unread(d)
       PROVE  i >= k /\ (i # k => i \in Unread(d)')
  <2>1. i \in DOMAIN log /\ i > next - Len(p)
    BY <1>0 DEF Unread, p, next
  <2>2. i \in Nat /\ i >= k
    BY <1>1, <1>3, <2>1
  <2>. QED
    BY <1>6, <1>10, <2>1, <2>2
<1>12. Head(run[d][r].page) = log[k]
  BY <1>7 DEF p
<1>. HIDE DEF k
<1>. QED
  BY <1>0, <1>4, <1>5, <1>6, <1>8, <1>10, <1>11, <1>12

\* applyRemoteUpsert and applyRemoteDelete: the copy shows the change, which was
\* the last one or has another behind it.
LEMMA ApplyConv ==
    ASSUME Inv, ConvInv, OneRun, NEW d \in Devices, NEW r \in Runs, ApplyChange(d, r)
    PROVE  ConvInv'
<1>1. PICK k \in DOMAIN log, s \in RunStates :
         /\ Head(run[d][r].page) = log[k]
         /\ run' = [run EXCEPT ![d][r] = s] /\ s.pc = "apply"
         /\ RunTickets(s) = {} /\ ReadsOn(d, s)
         /\ \A i \in Unread(d) : i >= k /\ (i # k => i \in Unread(d)')
         /\ \A i \in DOMAIN log : i > k => i \in Unread(d)'
  BY ReadOne
<1>0. log[k] \in LogEntries
  BY ElementOf DEF Inv, TypeOK
<1>. PICK e \in LogEntries, t0 \in TxIds : e = log[k] /\ t0 = log[k].tx
  BY <1>0, SMTT(30) DEF LogEntries
<1>2. /\ rows' = rows /\ log' = log /\ receipts' = receipts /\ pending' = pending
      /\ conflicts' = conflicts /\ cursor' = cursor /\ deleting' = deleting
      /\ queued' = queued /\ run[d][r].pc = "apply"
      /\ local' = [local EXCEPT ![d][t0] = Applied(local[d][t0], e)]
      /\ raced' = IF deleting[d].tx = t0 THEN raced \cup {d} ELSE raced
  BY <1>1 DEF ApplyChange, serverVars
<1>3. /\ log \in Seq(LogEntries) /\ run \in [Devices -> [Runs -> RunStates]]
      /\ local \in [Devices -> [TxIds -> Copies(ops + 1)]]
  BY DEF Inv, TypeOK
<1>4. e.version # 0 /\ rows[t0].version # 0 /\ k \in Nat /\ t0 \in TxIds
  BY <1>3 DEF ConvInv, LogTells
<1>5. /\ Shows(Applied(local[d][t0], e), e)
      /\ local[d][t0].version # 0 => Applied(local[d][t0], e).version # 0
  BY <1>4, AppliedShows
<1>6. /\ local'[d][t0] = Applied(local[d][t0], e)
      /\ \A f \in Devices, t \in TxIds : f # d \/ t # t0 => local'[f][t] = local[f][t]
  BY <1>2, <1>3, <1>4
<1>7. /\ \A q \in Runs : run'[d][q] = s
      /\ \A f \in Devices, q \in Runs : f # d => run'[f][q] = run[f][q]
  <2>1. /\ run'[d][r] = s
        /\ \A f \in Devices, q \in Runs : f # d => run'[f][q] = run[f][q]
    BY <1>1, <1>3
  <2>. QED
    BY <2>1, Zenon DEF OneRun
<1>8. ASSUME NEW f \in Devices
      PROVE  Queue(f)' = Queue(f) /\ Tickets(f)' \subseteq Tickets(f)
  <2>1. Queue(f)' = Queue(f)
    BY <1>2 DEF Queue
  <2>2. ASSUME NEW q \in Runs
        PROVE  RunTickets(run[f][q])' \subseteq Tickets(f)
    <3>1. CASE f = d
      <4>1. RunTickets(run[d][q])' = RunTickets(s)
        BY <1>7 DEF RunTickets
      <4>. QED
        BY <1>1, <3>1, <4>1
    <3>2. CASE f # d
      <4>1. RunTickets(run[f][q])' = RunTickets(run[f][q])
        BY <1>7, <3>2 DEF RunTickets
      <4>. QED
        BY <4>1, OwnTickets
    <3>. QED
      BY <3>1, <3>2
  <2>. QED
    BY <2>1, <2>2 DEF Tickets
<1>9. ASSUME NEW f \in Devices, f # d
      PROVE  Unread(f) \subseteq Unread(f)'
  BY <1>2, <1>7, <1>9 DEF Unread
<1>10. ASSUME NEW f \in Devices, NEW t \in TxIds
       PROVE  /\ f # d \/ t # t0 => (Ahead(f, t) => Ahead(f, t)')
              /\ Viable(f, t) => Viable(f, t)'
              /\ local'[f][t] = local[f][t] /\ Mirror(f, t) => Mirror(f, t)'
  <2>1. f # d \/ t # t0 => (Ahead(f, t) => Ahead(f, t)')
    BY <1>1, <1>2, <1>9 DEF Ahead
  <2>2. \A x : Taken(x)' = Taken(x)
    BY <1>2 DEF Taken
  <2>3. Viable(f, t) => Viable(f, t)'
    BY <1>8, <2>2 DEF Viable
  <2>4. \A i : IsLast(i, t)' = IsLast(i, t)
    BY <1>2 DEF IsLast
  <2>. QED
    BY <1>2, <2>1, <2>3, <2>4 DEF Mirror, Shows
<1>11. Mirror(d, t0)' \/ Ahead(d, t0)'
  <2>1. CASE \E j \in DOMAIN log : log[j].tx = t0 /\ j > k
    BY <1>1, <1>2, <2>1 DEF Ahead
  <2>2. CASE ~\E j \in DOMAIN log : log[j].tx = t0 /\ j > k
    <3>1. \A j \in DOMAIN log : j \in Nat
      BY <1>3
    <3>2. IsLast(k, t0)
      BY <1>4, <2>2, <3>1 DEF IsLast
    <3>3. IsLast(k, t0)'
      BY <1>2, <3>2 DEF IsLast
    <3>4. Shows(local'[d][t0], log'[k])
      BY <1>2, <1>5, <1>6
    <3>. QED
      BY <1>2, <3>3, <3>4 DEF Mirror, Shows
  <2>. QED
    BY <2>1, <2>2
<1>12. LogTells' /\ IdsApart'
  BY <1>2, LogTellsStill DEF ConvInv, IdsApart
<1>13. TicketsAgree'
  BY <1>8, AgreeStill DEF ConvInv
<1>14. Known'
  <2>1. ASSUME NEW f \in Devices, NEW t \in TxIds, local[f][t].version # 0
        PROVE  local'[f][t].version # 0
    <3>1. CASE f = d /\ t = t0
      BY <1>5, <1>6, <2>1, <3>1
    <3>2. CASE f # d \/ t # t0
      BY <1>6, <2>1, <3>2
    <3>. QED
      BY <3>1, <3>2
  <2>2. ASSUME NEW f \in Devices, NEW t \in TxIds, Holds(f, t)'
        PROVE  \/ Holds(f, t)
               \/ IF f = Creator[t] THEN local'[f][t].version # 0 ELSE rows'[t].version # 0
    <3>1. CASE local'[f][t].version # 0
      <4>1. CASE f = d /\ t = t0
        BY <1>2, <1>4, <3>1, <4>1
      <4>2. CASE f # d \/ t # t0
        BY <1>6, <3>1, <4>2 DEF Holds
      <4>. QED
        BY <4>1, <4>2
    <3>2. CASE local'[f][t].version = 0
      BY <1>2, <1>8, <2>2, <3>2 DEF Holds
    <3>. QED
      BY <3>1, <3>2
  <2>. QED
    BY <1>2, <2>1, <2>2, KnownStill DEF ConvInv
<1>15. CreatesFirst'
  <2>. SUFFICES ASSUME NEW f \in Devices, NEW x \in Queue(f), x.op = "create"
                PROVE  /\ Creator[x.tx] = f
                       /\ rows'[x.tx].version # 0 =>
                             /\ Ahead(f, x.tx)'
                             /\ \A q \in Runs : run'[f][q].pc \notin {"pull", "apply"}
    BY <1>8 DEF CreatesFirst
  <2>1. x.tx \in TxIds
    BY TicketIds DEF Tickets
  <2>2. /\ Creator[x.tx] = f
        /\ rows[x.tx].version # 0 =>
              Ahead(f, x.tx) /\ \A q \in Runs : run[f][q].pc \notin {"pull", "apply"}
    BY DEF ConvInv, CreatesFirst
  <2>3. CASE f = d
    BY <1>2, <2>2, <2>3
  <2>4. CASE f # d
    BY <1>2, <1>7, <1>10, <2>1, <2>2, <2>4
  <2>. QED
    BY <2>3, <2>4
<1>16. ReadInv'
  <2>. SUFFICES ASSUME NEW f \in Devices, NEW q \in Runs
                PROVE  ReadsOn(f, run[f][q])'
    BY DEF ReadInv
  <2>1. PICK x \in RunStates : x = run'[f][q] /\ ReadsOn(f, x)
    <3>1. CASE f = d
      BY <1>1, <1>7, <3>1
    <3>2. CASE f # d
      BY <1>3, <1>7, <3>2 DEF ConvInv, ReadInv
    <3>. QED
      BY <3>1, <3>2
  <2>. QED
    BY <1>2, <2>1 DEF ReadsOn
<1>17. Settled'
  <2>. SUFFICES ASSUME NEW f \in Devices \ raced, NEW t \in TxIds, rows[t].version # 0
                PROVE  Mirror(f, t)' \/ Ahead(f, t)' \/ Viable(f, t)'
    BY <1>2 DEF Settled
  <2>1. Mirror(f, t) \/ Ahead(f, t) \/ Viable(f, t)
    BY DEF ConvInv, Settled
  <2>2. CASE f = d /\ t = t0
    BY <1>11, <2>2
  <2>3. CASE f # d \/ t # t0
    BY <1>6, <1>10, <2>1, <2>3
  <2>. QED
    BY <2>2, <2>3
<1>18. DeletesCurrent'
  <2>. SUFFICES ASSUME NEW f \in Devices \ raced', NEW t \in TxIds, rows[t].version # 0,
                       deleting[f] # NoDelete, deleting[f].tx = t
                PROVE  \/ local'[f][t].version = deleting[f].version
                       \/ Ahead(f, t)' \/ Viable(f, t)'
    BY <1>2 DEF DeletesCurrent
  <2>1. f \notin raced /\ (f # d \/ t # t0)
    BY <1>2
  <2>2. local[f][t].version = deleting[f].version \/ Ahead(f, t) \/ Viable(f, t)
    BY <2>1 DEF ConvInv, DeletesCurrent
  <2>. QED
    BY <1>6, <1>10, <2>1, <2>2
<1>. QED
  BY <1>12, <1>13, <1>14, <1>15, <1>16, <1>17, <1>18 DEF ConvInv

\* What the user of a device has in front of them of a transaction.
Touches(d, t) ==
    \/ local[d][t].version # 0
    \/ deleting[d] # NoDelete /\ deleting[d].tx = t
    \/ \E x \in Queue(d) : x.tx = t
    \/ \E i \in DOMAIN conflicts[d] : conflicts[d][i].tx = t

\* A step of a user.
LEMMA UserConv ==
    ASSUME Inv, ConvInv, NEW d \in Devices, NEW x,
           UNCHANGED <<rows, log, receipts, cursor, run, raced>>,
           \A f \in Devices : f # d => /\ local'[f] = local[f] /\ pending'[f] = pending[f]
                                       /\ conflicts'[f] = conflicts[f]
                                       /\ deleting'[f] = deleting[f],
           Queue(d) \subseteq Queue(d)',
           \A y \in Queue(d)' : y \in Queue(d) \/
               /\ y = x /\ x.id \notin queued[d]
               /\ x.op = "create" => Creator[x.tx] = d /\ rows[x.tx].version = 0,
           IdsApart',
           \A t \in TxIds : local[d][t].version # 0 => local'[d][t].version # 0,
           \A t \in TxIds : Touches(d, t)' => \/ Holds(d, t)
                                              \/ d = Creator[t] /\ local'[d][t].version # 0,
           \A t \in TxIds : d \notin raced /\ rows[t].version # 0 =>
               /\ Mirror(d, t)' \/ Ahead(d, t)' \/ Viable(d, t)'
               /\ deleting'[d] # NoDelete /\ deleting'[d].tx = t =>
                     \/ local'[d][t].version = deleting'[d].version
                     \/ Ahead(d, t)' \/ Viable(d, t)'
    PROVE  ConvInv'
<1>0. /\ rows' = rows /\ log' = log /\ receipts' = receipts /\ cursor' = cursor
      /\ run' = run /\ raced' = raced
  OBVIOUS
<1>1. ASSUME NEW f \in Devices
      PROVE  /\ Unread(f)' = Unread(f)
             /\ Tickets(f)' = Queue(f)' \cup UNION {RunTickets(run[f][r]) : r \in Runs}
             /\ f # d => Queue(f)' = Queue(f)
  <2>1. Unread(f)' = Unread(f)
    BY <1>0 DEF Unread
  <2>2. Tickets(f)' = Queue(f)' \cup UNION {RunTickets(run[f][r]) : r \in Runs}
    BY <1>0 DEF Tickets, RunTickets
  <2>3. f # d => Queue(f)' = Queue(f)
    BY DEF Queue
  <2>. QED
    BY <2>1, <2>2, <2>3
<1>2. ASSUME NEW f \in Devices, NEW y \in Tickets(f)'
      PROVE  y \in Tickets(f) \/ (y = x /\ f = d /\ x.id \notin queued[d])
  BY <1>1 DEF Tickets
<1>3. \A f \in Devices : Steady(f)
  BY <1>0, <1>1 DEF Steady
<1>4. LogTells'
  BY <1>0, LogTellsStill DEF ConvInv
<1>5. TicketsAgree'
  BY <1>2, AgreeStill DEF ConvInv
<1>6. Known'
  <2>1. ASSUME NEW f \in Devices, NEW t \in TxIds, Holds(f, t)'
        PROVE  \/ Holds(f, t)
               \/ f = Creator[t] /\ local'[f][t].version # 0
    <3>1. CASE f = d
      <4>1. CASE Touches(f, t)'
        BY <3>1, <4>1
      <4>2. CASE ~Touches(f, t)'
        <5>1. PICK y \in Tickets(f)' : y.tx = t
          BY <2>1, <4>2 DEF Touches, Holds
        <5>2. y \notin Queue(f)'
          BY <4>2, <5>1 DEF Touches
        <5>3. y \in Tickets(f)
          BY <1>1, <5>2 DEF Tickets
        <5>. QED
          BY <5>1, <5>3 DEF Holds
      <4>. QED
        BY <4>1, <4>2
    <3>2. CASE f # d
      <4>1. Tickets(f)' = Tickets(f)
        BY <1>1, <3>2 DEF Tickets
      <4>. QED
        BY <2>1, <3>2, <4>1 DEF Holds
    <3>. QED
      BY <3>1, <3>2
  <2>2. \A f \in Devices, t \in TxIds : local[f][t].version # 0 => local'[f][t].version # 0
    OBVIOUS
  <2>. QED
    BY <1>0, <2>1, <2>2, KnownStill DEF ConvInv
<1>7. CreatesFirst'
  <2>1. ASSUME NEW f \in Devices, NEW y \in Queue(f)', y.op = "create"
        PROVE  y \in Queue(f) \/ (Creator[y.tx] = f /\ rows[y.tx].version = 0)
    BY <1>1, <2>1
  <2>. QED
    BY <1>0, <1>3, <2>1, CreatesStill DEF ConvInv
<1>8. ReadInv'
  BY <1>0 DEF ConvInv, ReadInv, ReadsOn
<1>9. Settled'
  <2>. SUFFICES ASSUME NEW f \in Devices \ raced, NEW t \in TxIds, rows[t].version # 0
                PROVE  Mirror(f, t)' \/ Ahead(f, t)' \/ Viable(f, t)'
    BY <1>0 DEF Settled
  <2>1. CASE f = d
    BY <2>1
  <2>2. CASE f # d
    <3>1. Mirror(f, t) \/ Ahead(f, t) \/ Viable(f, t)
      BY DEF ConvInv, Settled
    <3>. QED
      BY <1>3, <2>2, <3>1, SteadyStays
  <2>. QED
    BY <2>1, <2>2
<1>10. DeletesCurrent'
  <2>. SUFFICES ASSUME NEW f \in Devices \ raced, NEW t \in TxIds, rows[t].version # 0,
                       deleting'[f] # NoDelete, deleting'[f].tx = t
                PROVE  \/ local'[f][t].version = deleting'[f].version
                       \/ Ahead(f, t)' \/ Viable(f, t)'
    BY <1>0 DEF DeletesCurrent
  <2>1. CASE f = d
    BY <2>1
  <2>2. CASE f # d
    <3>1. local[f][t].version = deleting[f].version \/ Ahead(f, t) \/ Viable(f, t)
      BY <2>2 DEF ConvInv, DeletesCurrent
    <3>. QED
      BY <1>3, <2>2, <3>1, SteadyStays
  <2>. QED
    BY <2>1, <2>2
<1>. QED
  BY <1>4, <1>5, <1>6, <1>7, <1>8, <1>9, <1>10 DEF ConvInv

\* A number nobody has used.
Unused(n) ==
    /\ \A e \in Devices : n \notin queued[e]
    /\ \A e \in Devices : deleting[e] # NoDelete => deleting[e].id # n
    /\ receipts[n] = NoReceipt

\* Fresh is one.
LEMMA FreshUnused ==
    ASSUME Inv, Fresh \in Ids
    PROVE  Unused(Fresh)
<1>1. ops \in Nat /\ Fresh = ops + 1
  BY LogBound DEF Fresh
<1>2. \A e \in Devices : queued[e] \subseteq 1 .. ops
  BY QueuedIds
<1>3. /\ \A e \in Devices : deleting[e] # NoDelete => deleting[e].id \in 1 .. ops
      /\ \A i \in Ids : receipts[i] # NoReceipt => i \in 1 .. ops
  BY DEF Inv, Counted, LogCounts
<1>. QED
  BY <1>1, <1>2, <1>3 DEF Unused

\* A mutation is queued: its number is new, or it is the one the delete drew.
LEMMA EnqueuedIds ==
    ASSUME Inv, IdsApart, NEW d \in Devices, NEW n,
           receipts' = receipts,
           queued' = [queued EXCEPT ![d] = @ \cup {n}],
           \/ Unused(n) /\ deleting' = deleting
           \/ /\ deleting[d] # NoDelete /\ deleting[d].id = n
              /\ deleting' = [deleting EXCEPT ![d] = NoDelete]
    PROVE  IdsApart'
<1>1. /\ queued \in [Devices -> SUBSET (1 .. ops)]
      /\ deleting \in [Devices -> {NoDelete} \cup [tx : TxIds, version : 0 .. ops, id : Ids]]
  BY DEF Inv, TypeOK
<1>2. /\ queued'[d] = queued[d] \cup {n}
      /\ \A e \in Devices : e # d => queued'[e] = queued[e]
  BY <1>1
<1>3. \A e \in Devices : n \notin queued[e]
  BY DEF Unused, IdsApart
<1>4. \A e \in Devices : deleting'[e] # NoDelete => deleting'[e] = deleting[e] /\ deleting[e].id # n
  <2>1. CASE Unused(n) /\ deleting' = deleting
    BY <2>1 DEF Unused
  <2>2. CASE /\ deleting[d] # NoDelete /\ deleting[d].id = n
             /\ deleting' = [deleting EXCEPT ![d] = NoDelete]
    BY <1>1, <2>2 DEF IdsApart
  <2>. QED
    BY <2>1, <2>2
<1>5. \A e, f \in Devices : e # f => queued'[e] \cap queued'[f] = {}
  BY <1>2, <1>3 DEF IdsApart
<1>6. \A e, f \in Devices : deleting'[e] # NoDelete => deleting'[e].id \notin queued'[f]
  BY <1>2, <1>4 DEF IdsApart
<1>7. \A e, f \in Devices :
          deleting'[e] # NoDelete /\ deleting'[f] # NoDelete /\ e # f =>
              deleting'[e].id # deleting'[f].id
  BY <1>4 DEF IdsApart
<1>8. \A i \in Ids : receipts'[i] # NoReceipt => \E e \in Devices : i \in queued'[e]
  BY <1>2 DEF IdsApart
<1>. QED
  BY <1>5, <1>6, <1>7, <1>8 DEF IdsApart

\* A copy that shows the last change of a transaction has the server's version,
\* unless it is deleted.
LEMMA MirrorVersion ==
    ASSUME Inv, ConvInv, NEW d \in Devices, NEW t \in TxIds, Mirror(d, t),
           rows[t].version # 0
    PROVE  \/ local[d][t].version = rows[t].version
           \/ /\ local[d][t].deleted \/ local[d][t].version = 0
              /\ \E i \in DOMAIN log : IsLast(i, t) /\ log[i].op = "delete"
<1>1. PICK i \in DOMAIN log : IsLast(i, t) /\ Shows(local[d][t], log[i])
  BY DEF Mirror
<1>2. PICK j \in DOMAIN log : IsLast(j, t) /\ log[j].version = rows[t].version
  BY DEF ConvInv, LogTells
<1>3. log \in Seq(LogEntries)
  BY DEF Inv, TypeOK
<1>4. i = j
  BY <1>1, <1>2, <1>3, OneLast
<1>. QED
  BY <1>1, <1>2, <1>4 DEF Shows

\* A mutation on the server's version, under a number nobody has used, will be
\* taken.
LEMMA NewViable ==
    ASSUME NEW d \in Devices, NEW t \in TxIds, NEW x, x \in Queue(d)', x.tx = t,
           x.op # "create", x.base = rows[t].version, receipts[x.id] = NoReceipt,
           rows' = rows, receipts' = receipts
    PROVE  Viable(d, t)'
<1>1. Taken(x)'
  BY DEF Taken
<1>. QED
  BY <1>1 DEF Viable

\* Where the user has left a copy alone it is as settled as before.
LEMMA UserSettled ==
    ASSUME ConvInv, NEW d \in Devices, UNCHANGED <<rows, log, receipts, cursor, run, raced>>,
           Queue(d) \subseteq Queue(d)', NEW t \in TxIds, d \notin raced, rows[t].version # 0
    PROVE  /\ Ahead(d, t) => Ahead(d, t)'
           /\ Viable(d, t) => Viable(d, t)'
           /\ local'[d][t] = local[d][t] =>
                 /\ Mirror(d, t)' \/ Ahead(d, t)' \/ Viable(d, t)'
                 /\ deleting'[d] = deleting[d] /\ deleting[d] # NoDelete /\ deleting[d].tx = t =>
                       \/ local'[d][t].version = deleting'[d].version
                       \/ Ahead(d, t)' \/ Viable(d, t)'
<1>1. Steady(d)
  <2>1. Unread(d)' = Unread(d)
    BY DEF Unread
  <2>. QED
    BY <2>1 DEF Steady
<1>2. /\ Ahead(d, t) => Ahead(d, t)'
      /\ Viable(d, t) => Viable(d, t)'
      /\ local'[d][t] = local[d][t] /\ Mirror(d, t) => Mirror(d, t)'
  BY <1>1, SteadyStays
<1>3. Mirror(d, t) \/ Ahead(d, t) \/ Viable(d, t)
  BY DEF ConvInv, Settled
<1>4. deleting[d] # NoDelete /\ deleting[d].tx = t =>
         local[d][t].version = deleting[d].version \/ Ahead(d, t) \/ Viable(d, t)
  BY DEF ConvInv, DeletesCurrent
<1>. QED
  BY <1>2, <1>3, <1>4

\* The queue with one more mutation.
LEMMA EnqueuedTicket ==
    ASSUME Inv, NEW d \in Devices, NEW m \in Mutations, Enqueue(d, m)
    PROVE  /\ Queue(d)' = Queue(d) \cup {Ticket(m)}
           /\ \A f \in Devices : f # d => pending'[f] = pending[f]
           /\ queued' = [queued EXCEPT ![d] = @ \cup {m.id}]
<1>1. pending \in [Devices -> Seq(Mutations)] /\ pending[d] \in Seq(Mutations)
  BY DEF Inv, TypeOK
<1>2. /\ pending'[d] = Append(pending[d], m)
      /\ \A f \in Devices : f # d => pending'[f] = pending[f]
      /\ queued' = [queued EXCEPT ![d] = @ \cup {m.id}]
  BY <1>1 DEF Enqueue
<1>3. /\ \A i \in DOMAIN pending[d] :
            i \in DOMAIN Append(pending[d], m) /\ Append(pending[d], m)[i] = pending[d][i]
      /\ Len(pending[d]) + 1 \in DOMAIN Append(pending[d], m)
      /\ Append(pending[d], m)[Len(pending[d]) + 1] = m
      /\ \A i \in DOMAIN Append(pending[d], m) : i \in DOMAIN pending[d] \/ i = Len(pending[d]) + 1
  BY <1>1, AppendFacts
<1>4. Queue(d)' = {Ticket(Append(pending[d], m)[i]) : i \in DOMAIN Append(pending[d], m)}
  BY <1>2 DEF Queue
<1>5. Queue(d)' \subseteq Queue(d) \cup {Ticket(m)}
  BY <1>3, <1>4 DEF Queue
<1>6. Queue(d) \cup {Ticket(m)} \subseteq Queue(d)'
  BY <1>3, <1>4 DEF Queue
<1>. QED
  BY <1>2, <1>5, <1>6

\* saveDomainTransaction: nobody else has the transaction.
LEMMA CreateConv ==
    ASSUME Inv, ConvInv, NEW d \in Devices, NEW t \in TxIds, Create(d, t)
    PROVE  ConvInv'
<1>1. /\ MayOperate /\ ops' = ops + 1 /\ Creator[t] = d /\ local[d][t].version = 0
      /\ Enqueue(d, Mutation(Fresh, t, "create", 0, Fresh, 0))
      /\ local' = [local EXCEPT ![d][t] = [version |-> 1, deleted |-> FALSE, content |-> Fresh]]
      /\ conflicts' = conflicts /\ deleting' = deleting
      /\ UNCHANGED <<rows, log, receipts, cursor, run, raced>>
  BY DEF Create, serverVars
<1>2. Fresh \in Ids
  BY <1>1, FreshNumber
<1>3. PICK m \in Mutations : m = Mutation(Fresh, t, "create", 0, Fresh, 0)
  BY <1>2 DEF Mutation, Mutations
<1>4. m.id = Fresh /\ m.tx = t /\ m.op = "create"
  BY <1>3 DEF Mutation
<1>5. PICK x : x = Ticket(m)
  OBVIOUS
<1>6. x.id = Fresh /\ x.tx = t /\ x.op = "create"
  BY <1>4, <1>5 DEF Ticket
<1>7. /\ Queue(d)' = Queue(d) \cup {x}
      /\ \A f \in Devices : f # d => pending'[f] = pending[f]
      /\ queued' = [queued EXCEPT ![d] = @ \cup {Fresh}]
  BY <1>1, <1>3, <1>4, <1>5, EnqueuedTicket
<1>8. Unused(Fresh) /\ IdsApart'
  BY <1>1, <1>2, <1>7, FreshUnused, EnqueuedIds DEF ConvInv
<1>9. /\ local'[d][t].version = 1
      /\ \A f \in Devices : f # d => local'[f] = local[f]
      /\ \A u \in TxIds : u # t => local'[d][u] = local[d][u]
  BY <1>1 DEF Inv, TypeOK
<1>10. rows[t].version = 0
  BY <1>1 DEF ConvInv, Known
<1>11. ASSUME NEW u \in TxIds, Touches(d, u)'
       PROVE  Holds(d, u) \/ (d = Creator[u] /\ local'[d][u].version # 0)
  <2>1. CASE u = t
    BY <1>1, <1>9, <2>1
  <2>2. CASE u # t
    <3>1. Touches(d, u)
      BY <1>1, <1>6, <1>7, <1>9, <1>11, <2>2 DEF Touches
    <3>. QED
      BY <3>1 DEF Touches, Holds, Tickets
  <2>. QED
    BY <2>1, <2>2
<1>12. ASSUME NEW u \in TxIds, d \notin raced, rows[u].version # 0
       PROVE  /\ Mirror(d, u)' \/ Ahead(d, u)' \/ Viable(d, u)'
              /\ deleting'[d] # NoDelete /\ deleting'[d].tx = u =>
                    \/ local'[d][u].version = deleting'[d].version
                    \/ Ahead(d, u)' \/ Viable(d, u)'
  <2>1. local'[d][u] = local[d][u] /\ deleting' = deleting
    BY <1>1, <1>9, <1>10, <1>12
  <2>. QED
    BY <1>1, <1>7, <1>12, <2>1, UserSettled
<1>. QED
  BY <1>1, <1>6, <1>7, <1>8, <1>9, <1>10, <1>11, <1>12, UserConv DEF Unused

\* softDeleteTransaction, the read.
LEMMA ReadForDeleteConv ==
    ASSUME Inv, ConvInv, NEW d \in Devices, NEW t \in TxIds, ReadForDelete(d, t)
    PROVE  ConvInv'
<1>1. /\ MayOperate /\ ops' = ops + 1 /\ deleting[d] = NoDelete /\ local[d][t].version # 0
      /\ deleting' = [deleting EXCEPT ![d] =
                         [tx |-> t, version |-> local[d][t].version, id |-> Fresh]]
      /\ local' = local /\ pending' = pending /\ conflicts' = conflicts /\ queued' = queued
      /\ UNCHANGED <<rows, log, receipts, cursor, run, raced>>
  BY DEF ReadForDelete, serverVars, history
<1>2. Fresh \in Ids
  BY <1>1, FreshNumber
<1>3. Unused(Fresh)
  BY <1>2, FreshUnused
<1>4. /\ deleting'[d] = [tx |-> t, version |-> local[d][t].version, id |-> Fresh]
      /\ \A f \in Devices : f # d => deleting'[f] = deleting[f]
  BY <1>1 DEF Inv, TypeOK
<1>5. deleting'[d].tx = t /\ deleting'[d].version = local[d][t].version /\ deleting'[d].id = Fresh
  BY <1>4
<1>6. IdsApart'
  <2>1. /\ \A e, f \in Devices : e # f => queued'[e] \cap queued'[f] = {}
        /\ \A i \in Ids : receipts'[i] # NoReceipt => \E e \in Devices : i \in queued'[e]
    BY <1>1 DEF ConvInv, IdsApart
  <2>2. \A e, f \in Devices : deleting'[e] # NoDelete => deleting'[e].id \notin queued'[f]
    BY <1>1, <1>3, <1>4, <1>5 DEF ConvInv, IdsApart, Unused
  <2>3. \A e, f \in Devices :
            deleting'[e] # NoDelete /\ deleting'[f] # NoDelete /\ e # f =>
                deleting'[e].id # deleting'[f].id
    BY <1>3, <1>4, <1>5 DEF ConvInv, IdsApart, Unused
  <2>. QED
    BY <2>1, <2>2, <2>3 DEF IdsApart
<1>7. Queue(d)' = Queue(d)
  BY <1>1 DEF Queue
<1>8. ASSUME NEW u \in TxIds, Touches(d, u)'
      PROVE  Holds(d, u) \/ (d = Creator[u] /\ local'[d][u].version # 0)
  <2>1. CASE u = t
    BY <1>1, <2>1 DEF Holds
  <2>2. CASE u # t
    <3>1. Touches(d, u)
      BY <1>1, <1>5, <1>7, <1>8, <2>2 DEF Touches
    <3>. QED
      BY <3>1 DEF Touches, Holds, Tickets
  <2>. QED
    BY <2>1, <2>2
<1>9. ASSUME NEW u \in TxIds, d \notin raced, rows[u].version # 0
      PROVE  /\ Mirror(d, u)' \/ Ahead(d, u)' \/ Viable(d, u)'
             /\ deleting'[d] # NoDelete /\ deleting'[d].tx = u =>
                   \/ local'[d][u].version = deleting'[d].version
                   \/ Ahead(d, u)' \/ Viable(d, u)'
  <2>1. Mirror(d, u)' \/ Ahead(d, u)' \/ Viable(d, u)'
    BY <1>1, <1>7, <1>9, UserSettled
  <2>. QED
    BY <1>1, <1>5, <2>1
<1>. QED
  BY <1>1, <1>4, <1>6, <1>7, <1>8, <1>9, UserConv

\* updateDomainTransaction: the create is still queued and its change still to be
\* read, or an update follows the version the copy has.
LEMMA EditConv ==
    ASSUME Inv, ConvInv, NEW d \in Devices, NEW t \in TxIds, Edit(d, t)
    PROVE  ConvInv'
<1>. DEFINE m0 == Mutation(Fresh, t, "update", local[d][t].version, Fresh, local[d][t].content)
<1>1. /\ MayOperate /\ ops' = ops + 1 /\ local[d][t].version # 0 /\ ~local[d][t].deleted
      /\ local' = [local EXCEPT ![d][t] = [version |-> local[d][t].version + 1,
                                           deleted |-> FALSE, content |-> Fresh]]
      /\ conflicts' = conflicts /\ deleting' = deleting
      /\ UNCHANGED <<rows, log, receipts, cursor, run, raced>>
  BY DEF Edit, serverVars
<1>2. \/ /\ PendingCreate(d, t) # {}
         /\ pending' = [pending EXCEPT ![d] = Fold(d, t)] /\ queued' = queued
      \/ Enqueue(d, m0)
  BY DEF Edit, Fold
<1>3. Fresh \in Ids /\ Unused(Fresh)
  BY <1>1, FreshNumber, FreshUnused
<1>4. /\ local[d][t].version \in Nat /\ local[d][t].content \in Nat
  BY LogBound DEF Inv, TypeOK, Copies, Ids
<1>5. /\ local'[d][t].version # 0
      /\ \A f \in Devices : f # d => local'[f] = local[f]
      /\ \A u \in TxIds : u # t => local'[d][u] = local[d][u]
  <2>1. /\ local'[d][t].version = local[d][t].version + 1
        /\ \A f \in Devices : f # d => local'[f] = local[f]
        /\ \A u \in TxIds : u # t => local'[d][u] = local[d][u]
    BY <1>1 DEF Inv, TypeOK
  <2>. QED
    BY <1>4, <2>1
<1>6. Holds(d, t)
  BY <1>1 DEF Holds
\* With a queue of which every mutation is known, or about t and new, and the
\* edited transaction settled by what follows it, the rest is the same.
<1>7. ASSUME NEW x, x.op = "update", x.tx = t, x.id = Fresh,
             \A f \in Devices : f # d => pending'[f] = pending[f],
             Queue(d) \subseteq Queue(d)', Queue(d)' \subseteq Queue(d) \cup {x},
             IdsApart',
             d \notin raced /\ rows[t].version # 0 => Ahead(d, t)' \/ Viable(d, t)'
      PROVE  ConvInv'
  <2>1. ASSUME NEW u \in TxIds, Touches(d, u)'
        PROVE  Holds(d, u)
    <3>1. CASE u = t
      BY <1>6, <3>1
    <3>2. CASE u # t
      <4>1. Touches(d, u)
        BY <1>1, <1>5, <1>7, <2>1, <3>2 DEF Touches
      <4>. QED
        BY <4>1 DEF Touches, Holds, Tickets
    <3>. QED
      BY <3>1, <3>2
  <2>2. ASSUME NEW u \in TxIds, d \notin raced, rows[u].version # 0
        PROVE  /\ Mirror(d, u)' \/ Ahead(d, u)' \/ Viable(d, u)'
               /\ deleting'[d] # NoDelete /\ deleting'[d].tx = u =>
                     \/ local'[d][u].version = deleting'[d].version
                     \/ Ahead(d, u)' \/ Viable(d, u)'
    <3>1. CASE u = t
      BY <1>7, <2>2, <3>1
    <3>2. CASE u # t
      <4>1. local'[d][u] = local[d][u] /\ deleting' = deleting
        BY <1>1, <1>5, <3>2
      <4>. QED
        BY <1>1, <1>7, <2>2, <4>1, UserSettled
    <3>. QED
      BY <3>1, <3>2
  <2>3. Fresh \notin queued[d]
    BY <1>3 DEF Unused
  <2>4. \A u \in TxIds : local[d][u].version # 0 => local'[d][u].version # 0
    BY <1>5
  <2>5. \A y \in Queue(d)' : y \in Queue(d) \/
           /\ y = x /\ x.id \notin queued[d]
           /\ x.op = "create" => Creator[x.tx] = d /\ rows[x.tx].version = 0
    BY <1>7, <2>3
  <2>6. \A f \in Devices : f # d => /\ local'[f] = local[f] /\ pending'[f] = pending[f]
                                    /\ conflicts'[f] = conflicts[f]
                                    /\ deleting'[f] = deleting[f]
    BY <1>1, <1>5, <1>7
  <2>. QED
    BY <1>1, <1>7, <2>1, <2>2, <2>4, <2>5, <2>6, UserConv
<1>8. ASSUME PendingCreate(d, t) # {}, pending' = [pending EXCEPT ![d] = Fold(d, t)],
             queued' = queued
      PROVE  ConvInv'
  <2>1. /\ DOMAIN Fold(d, t) = DOMAIN pending[d]
        /\ \A i \in DOMAIN pending[d] :
              /\ Fold(d, t)[i].id = pending[d][i].id
              /\ Fold(d, t)[i].tx = pending[d][i].tx
              /\ Fold(d, t)[i].op = pending[d][i].op
              /\ Fold(d, t)[i].base = pending[d][i].base
    BY <1>3, Folded DEF Inv
  <2>2. /\ pending'[d] = Fold(d, t)
        /\ \A f \in Devices : f # d => pending'[f] = pending[f]
    BY <1>8 DEF Inv, TypeOK
  <2>3. \A i \in DOMAIN pending[d] : Ticket(pending'[d][i]) = Ticket(pending[d][i])
    BY <2>1, <2>2 DEF Ticket
  <2>4. Queue(d)' = Queue(d)
    BY <2>1, <2>2, <2>3 DEF Queue
  <2>5. IdsApart'
    BY <1>1, <1>8 DEF ConvInv, IdsApart
  <2>6. PICK i \in DOMAIN pending[d] : pending[d][i].tx = t /\ pending[d][i].op = "create"
    BY <1>8 DEF PendingCreate
  <2>7. /\ Ticket(pending[d][i]) \in Queue(d) /\ Ticket(pending[d][i]).tx = t
        /\ Ticket(pending[d][i]).op = "create"
    BY <2>6 DEF Queue, Ticket
  <2>8. rows[t].version # 0 => Ahead(d, t)
    BY <2>7 DEF ConvInv, CreatesFirst
  <2>9. d \notin raced /\ rows[t].version # 0 => Ahead(d, t)'
    BY <1>1, <2>4, <2>8, UserSettled
  <2>10. PICK x : x = [op |-> "update", tx |-> t, id |-> Fresh]
    OBVIOUS
  <2>11. x.op = "update" /\ x.tx = t /\ x.id = Fresh
    BY <2>10
  <2>. QED
    BY <1>7, <2>2, <2>4, <2>5, <2>9, <2>11
<1>9. ASSUME Enqueue(d, m0)
      PROVE  ConvInv'
  <2>1. PICK m \in Mutations : m = m0
    BY <1>3, <1>4 DEF Mutation, Mutations
  <2>2. m.id = Fresh /\ m.tx = t /\ m.op = "update" /\ m.base = local[d][t].version
    BY <2>1 DEF Mutation
  <2>3. PICK x : x = Ticket(m)
    OBVIOUS
  <2>4. x.id = Fresh /\ x.tx = t /\ x.op = "update" /\ x.base = local[d][t].version
    BY <2>2, <2>3 DEF Ticket
  <2>5. /\ Queue(d)' = Queue(d) \cup {x}
        /\ \A f \in Devices : f # d => pending'[f] = pending[f]
        /\ queued' = [queued EXCEPT ![d] = @ \cup {Fresh}]
    BY <1>9, <2>1, <2>2, <2>3, EnqueuedTicket
  <2>6. IdsApart'
    BY <1>1, <1>3, <2>5, EnqueuedIds DEF ConvInv
  <2>7. ASSUME d \notin raced, rows[t].version # 0
        PROVE  Ahead(d, t)' \/ Viable(d, t)'
    <3>1. CASE Ahead(d, t) \/ Viable(d, t)
      BY <1>1, <2>5, <2>7, <3>1, UserSettled
    <3>2. CASE Mirror(d, t)
      <4>1. local[d][t].version = rows[t].version
        BY <1>1, <2>7, <3>2, MirrorVersion
      <4>2. x \in Queue(d)' /\ receipts[x.id] = NoReceipt
        BY <1>3, <2>4, <2>5 DEF Unused
      <4>. QED
        BY <1>1, <2>4, <4>1, <4>2, NewViable
    <3>. QED
      BY <2>7, <3>1, <3>2 DEF ConvInv, Settled
  <2>. QED
    BY <1>7, <2>4, <2>5, <2>6, <2>7
<1>. QED
  BY <1>2, <1>8, <1>9

\* softDeleteTransaction, the write: the version that was read is the copy's, or
\* a change of the transaction is still to be read, or a mutation to be taken.
LEMMA DeleteConv ==
    ASSUME Inv, ConvInv, NEW d \in Devices, Delete(d)
    PROVE  ConvInv'
<1>0. /\ deleting[d] # NoDelete
      /\ deleting[d] \in {NoDelete} \cup [tx : TxIds, version : 0 .. ops, id : Ids]
  BY DEF Delete, Inv, TypeOK
<1>1. PICK t \in TxIds, version \in 0 .. ops, id \in Ids :
         deleting[d].tx = t /\ deleting[d].version = version /\ deleting[d].id = id
  BY <1>0
<1>2. /\ Enqueue(d, Mutation(id, t, "delete", version, id, local[d][t].content))
      /\ local' = [local EXCEPT ![d][t] = [version |-> version + 1, deleted |-> TRUE,
                                           content |-> local[d][t].content]]
      /\ deleting' = [deleting EXCEPT ![d] = NoDelete] /\ conflicts' = conflicts
      /\ UNCHANGED <<rows, log, receipts, cursor, run, raced>>
  BY <1>1 DEF Delete, serverVars
<1>3. version \in Nat /\ ops \in Nat
  BY LogBound
<1>4. local[d][t].content \in Nat
  BY DEF Inv, TypeOK, Copies, Ids
<1>5. PICK m \in Mutations : m = Mutation(id, t, "delete", version, id, local[d][t].content)
  BY <1>3, <1>4 DEF Mutation, Mutations
<1>6. m.id = id /\ m.tx = t /\ m.op = "delete" /\ m.base = version
  BY <1>5 DEF Mutation
<1>7. PICK x : x = Ticket(m)
  OBVIOUS
<1>8. x.id = id /\ x.tx = t /\ x.op = "delete" /\ x.base = version
  BY <1>6, <1>7 DEF Ticket
<1>9. /\ Queue(d)' = Queue(d) \cup {x}
      /\ \A f \in Devices : f # d => pending'[f] = pending[f]
      /\ queued' = [queued EXCEPT ![d] = @ \cup {id}]
  BY <1>2, <1>5, <1>6, <1>7, EnqueuedTicket
<1>10. IdsApart' /\ id \notin queued[d] /\ receipts[id] = NoReceipt
  <2>1. IdsApart'
    BY <1>0, <1>1, <1>2, <1>9, EnqueuedIds DEF ConvInv
  <2>2. \A e \in Devices : id \notin queued[e]
    BY <1>0, <1>1 DEF ConvInv, IdsApart
  <2>. QED
    BY <2>1, <2>2 DEF ConvInv, IdsApart
<1>11. /\ local'[d][t].version = version + 1 /\ local'[d][t].deleted
       /\ \A f \in Devices : f # d => local'[f] = local[f] /\ deleting'[f] = deleting[f]
       /\ \A u \in TxIds : u # t => local'[d][u] = local[d][u]
       /\ deleting'[d] = NoDelete
  BY <1>2 DEF Inv, TypeOK
<1>12. local'[d][t].version # 0
  BY <1>3, <1>11
<1>13. Holds(d, t)
  BY <1>0, <1>1 DEF Holds
<1>14. ASSUME NEW u \in TxIds, Touches(d, u)'
       PROVE  Holds(d, u)
  <2>1. CASE u = t
    BY <1>13, <2>1
  <2>2. CASE u # t
    <3>1. Touches(d, u)
      BY <1>2, <1>8, <1>9, <1>11, <1>14, <2>2 DEF Touches
    <3>. QED
      BY <3>1 DEF Touches, Holds, Tickets
  <2>. QED
    BY <2>1, <2>2
<1>15. ASSUME NEW u \in TxIds, d \notin raced, rows[u].version # 0
       PROVE  Mirror(d, u)' \/ Ahead(d, u)' \/ Viable(d, u)'
  <2>1. CASE u # t
    <3>1. local'[d][u] = local[d][u]
      BY <1>11, <2>1
    <3>. QED
      BY <1>2, <1>9, <1>15, <3>1, UserSettled
  <2>2. CASE u = t /\ (Ahead(d, t) \/ Viable(d, t))
    BY <1>2, <1>9, <1>15, <2>2, UserSettled
  <2>3. CASE u = t /\ ~Ahead(d, t) /\ ~Viable(d, t)
    <3>1. Mirror(d, t) /\ local[d][t].version = version
      BY <1>0, <1>1, <1>15, <2>3 DEF ConvInv, Settled, DeletesCurrent
    <3>2. CASE local[d][t].version = rows[t].version
      <4>1. x \in Queue(d)' /\ receipts[x.id] = NoReceipt /\ x.base = rows[t].version
        BY <1>8, <1>9, <1>10, <3>1, <3>2
      <4>. QED
        BY <1>2, <1>8, <2>3, <4>1, NewViable
    <3>3. CASE \E i \in DOMAIN log : IsLast(i, t) /\ log[i].op = "delete"
      <4>1. PICK i \in DOMAIN log : IsLast(i, t) /\ log[i].op = "delete"
        BY <3>3
      <4>2. IsLast(i, t)' /\ Shows(local'[d][t], log'[i])
        BY <1>2, <1>11, <4>1 DEF IsLast, Shows
      <4>. QED
        BY <1>2, <2>3, <4>2 DEF Mirror, Shows
    <3>. QED
      BY <1>15, <2>3, <3>1, <3>2, <3>3, MirrorVersion
  <2>. QED
    BY <2>1, <2>2, <2>3
<1>16. \A u \in TxIds : local[d][u].version # 0 => local'[d][u].version # 0
  BY <1>11, <1>12
<1>17. \A y \in Queue(d)' : y \in Queue(d) \/
          /\ y = x /\ x.id \notin queued[d]
          /\ x.op = "create" => Creator[x.tx] = d /\ rows[x.tx].version = 0
  BY <1>8, <1>9, <1>10
<1>18. \A f \in Devices : f # d => /\ local'[f] = local[f] /\ pending'[f] = pending[f]
                                   /\ conflicts'[f] = conflicts[f]
                                   /\ deleting'[f] = deleting[f]
  BY <1>2, <1>9, <1>11
<1>. QED
  BY <1>2, <1>9, <1>10, <1>11, <1>14, <1>15, <1>16, <1>17, <1>18, UserConv

\* resolveConflict: the copy stays what it is, and the conflict was of a
\* transaction the device has.
LEMMA ResolveConv ==
    ASSUME Inv, ConvInv, NEW d \in Devices, NEW i \in DOMAIN conflicts[d],
           KeepLocal(d, i) \/ AcceptRemote(d, i)
    PROVE  ConvInv'
<1>1. /\ conflicts' = [conflicts EXCEPT ![d] = RemoveAt(@, i)]
      /\ local' = local /\ deleting' = deleting
      /\ UNCHANGED <<rows, log, receipts, cursor, run, raced>>
  BY DEF KeepLocal, AcceptRemote, serverVars
<1>2. conflicts[d] \in Seq(Conflicts) /\ conflicts \in [Devices -> Seq(Conflicts)]
  BY DEF Inv, TypeOK
<1>3. \A j \in DOMAIN RemoveAt(conflicts[d], i) :
         \E k \in DOMAIN conflicts[d] : RemoveAt(conflicts[d], i)[j] = conflicts[d][k]
  BY <1>2, RemoveAtFacts, ZenonT(60)
<1>4. /\ \A j \in DOMAIN conflicts'[d] :
            \E k \in DOMAIN conflicts[d] : conflicts'[d][j] = conflicts[d][k]
      /\ \A f \in Devices : f # d => conflicts'[f] = conflicts[f]
  BY <1>1, <1>2, <1>3
<1>5. conflicts[d][i] \in Conflicts
  BY <1>2, ElementOf
<1>6. PICK t \in TxIds : t = conflicts[d][i].tx
  BY <1>5 DEF Conflicts
\* The queue has the refused mutation again at most.
<1>7. ASSUME NEW x, x.tx = t, x.op # "create", x.id \notin queued[d],
             Queue(d) \subseteq Queue(d)', Queue(d)' \subseteq Queue(d) \cup {x},
             \A f \in Devices : f # d => pending'[f] = pending[f],
             IdsApart'
      PROVE  ConvInv'
  <2>1. ASSUME NEW u \in TxIds, Touches(d, u)'
        PROVE  Touches(d, u)
    <3>1. CASE \E y \in Queue(d)' : y.tx = u
      BY <1>6, <1>7, <3>1 DEF Touches
    <3>2. CASE \E j \in DOMAIN conflicts'[d] : conflicts'[d][j].tx = u
      BY <1>4, <3>2 DEF Touches
    <3>. QED
      BY <1>1, <2>1, <3>1, <3>2 DEF Touches
  <2>2. \A u \in TxIds : Touches(d, u)' => Holds(d, u)
    BY <2>1 DEF Touches, Holds, Tickets
  <2>3. ASSUME NEW u \in TxIds, d \notin raced, rows[u].version # 0
        PROVE  /\ Mirror(d, u)' \/ Ahead(d, u)' \/ Viable(d, u)'
               /\ deleting'[d] # NoDelete /\ deleting'[d].tx = u =>
                     \/ local'[d][u].version = deleting'[d].version
                     \/ Ahead(d, u)' \/ Viable(d, u)'
    <3>1. local'[d][u] = local[d][u] /\ deleting'[d] = deleting[d]
      BY <1>1
    <3>. QED
      BY <1>1, <1>7, <2>3, <3>1, UserSettled
  <2>4. \A y \in Queue(d)' : y \in Queue(d) \/
           /\ y = x /\ x.id \notin queued[d]
           /\ x.op = "create" => Creator[x.tx] = d /\ rows[x.tx].version = 0
    BY <1>7
  <2>5. \A f \in Devices : f # d => /\ local'[f] = local[f] /\ pending'[f] = pending[f]
                                    /\ conflicts'[f] = conflicts[f]
                                    /\ deleting'[f] = deleting[f]
    BY <1>1, <1>4, <1>7
  <2>6. \A u \in TxIds : local[d][u].version # 0 => local'[d][u].version # 0
    BY <1>1
  <2>. QED
    BY <1>1, <1>7, <2>2, <2>3, <2>4, <2>5, <2>6, UserConv
<1>8. CASE AcceptRemote(d, i)
  <2>1. pending' = pending /\ queued' = queued
    BY <1>8 DEF AcceptRemote
  <2>2. Queue(d)' = Queue(d)
    BY <2>1 DEF Queue
  <2>3. IdsApart'
    BY <1>1, <2>1 DEF ConvInv, IdsApart
  <2>4. PICK x : x = [tx |-> t, op |-> "update", id |-> ops + 1]
    OBVIOUS
  <2>5. x.tx = t /\ x.op # "create" /\ x.id \notin queued[d]
    <3>1. ops + 1 \notin 1 .. ops
      BY LogBound
    <3>. QED
      BY <2>4, <3>1, QueuedIds
  <2>. QED
    BY <1>7, <2>1, <2>2, <2>3, <2>5
<1>9. CASE KeepLocal(d, i)
  <2>. DEFINE c == conflicts[d][i]
              m0 == Mutation(Fresh, c.tx, IF c.op = "delete" THEN "delete" ELSE "update",
                             c.version, c.content, c.over)
  <2>1. keeps < MaxKeeps /\ ops' = ops + 1 /\ Enqueue(d, m0)
    BY <1>9 DEF KeepLocal
  <2>2. Fresh \in Ids /\ Unused(Fresh)
    BY <2>1, FreshNumber, FreshUnused
  <2>3. PICK m \in Mutations : m = m0
    <3>1. m0 \in Mutations
      BY <1>5, <2>2 DEF Mutation, Mutations, Conflicts
    <3>. HIDE DEF m0
    <3>. QED
      BY <3>1
  <2>4. m.id = Fresh /\ m.tx = t /\ m.op # "create"
    BY <1>6, <2>3 DEF Mutation
  <2>5. PICK x : x = Ticket(m)
    OBVIOUS
  <2>6. x.id = Fresh /\ x.tx = t /\ x.op # "create"
    BY <2>4, <2>5 DEF Ticket
  <2>7. /\ Queue(d)' = Queue(d) \cup {x}
        /\ \A f \in Devices : f # d => pending'[f] = pending[f]
        /\ queued' = [queued EXCEPT ![d] = @ \cup {Fresh}]
    BY <2>1, <2>3, <2>4, <2>5, EnqueuedTicket
  <2>8. IdsApart' /\ Fresh \notin queued[d]
    BY <1>1, <2>2, <2>7, EnqueuedIds DEF ConvInv, Unused
  <2>. QED
    BY <1>7, <2>6, <2>7, <2>8
<1>. QED
  BY <1>8, <1>9

\* At the start nothing is written, queued or read.
LEMMA InitConv == Init => ConvInv
<1>. SUFFICES ASSUME Init
              PROVE  ConvInv
  OBVIOUS
<1>1. /\ \A t \in TxIds : rows[t].version = 0
      /\ \A d \in Devices, t \in TxIds : local[d][t].version = 0
      /\ DOMAIN log = {}
      /\ \A i \in Ids : receipts[i] = NoReceipt
      /\ \A d \in Devices : /\ DOMAIN pending[d] = {} /\ DOMAIN conflicts[d] = {}
                            /\ deleting[d] = NoDelete /\ queued[d] = {}
                            /\ \A r \in Runs : run[d][r] = Off
  <2>1. DOMAIN <<>> = {}
    OBVIOUS
  <2>2. NoRow.version = 0 /\ NoCopy.version = 0
    BY DEF NoRow, NoCopy
  <2>. QED
    BY <2>1, <2>2 DEF Init
<1>2. \A d \in Devices : Queue(d) = {} /\ Tickets(d) = {}
  <2>1. RunTickets(Off) = {}
    BY StageTickets
  <2>. QED
    BY <1>1, <2>1 DEF Queue, Tickets
<1>3. LogTells
  BY <1>1 DEF LogTells
<1>4. IdsApart /\ TicketsAgree
  BY <1>1, <1>2 DEF IdsApart, TicketsAgree
<1>5. Known
  <2>1. \A d \in Devices, t \in TxIds : ~Holds(d, t)
    BY <1>1, <1>2 DEF Holds
  <2>. QED
    BY <1>1, <2>1 DEF Known
<1>6. CreatesFirst
  BY <1>2 DEF CreatesFirst
<1>7. ReadInv
  <2>1. \A d \in Devices : ReadsOn(d, Off)
    BY DEF ReadsOn, Off, RunState
  <2>. QED
    BY <1>1, <2>1 DEF ReadInv
<1>8. Settled /\ DeletesCurrent
  BY <1>1 DEF Settled, DeletesCurrent
<1>. QED
  BY <1>3, <1>4, <1>5, <1>6, <1>7, <1>8 DEF ConvInv

\* Nothing happens.
LEMMA StutterConv ==
    ASSUME ConvInv, UNCHANGED vars
    PROVE  ConvInv'
<1>1. /\ rows' = rows /\ log' = log /\ receipts' = receipts /\ local' = local
      /\ pending' = pending /\ conflicts' = conflicts /\ cursor' = cursor
      /\ deleting' = deleting /\ run' = run /\ queued' = queued /\ raced' = raced
  BY DEF vars
<1>2. \A d \in Devices : /\ Queue(d)' = Queue(d) /\ Tickets(d)' = Tickets(d)
                         /\ Unread(d)' = Unread(d)
  BY <1>1 DEF Queue, Tickets, RunTickets, Unread
<1>3. \A d \in Devices : Steady(d)
  BY <1>1, <1>2 DEF Steady
<1>4. LogTells' /\ IdsApart' /\ TicketsAgree'
  BY <1>1, <1>2, LogTellsStill DEF ConvInv, IdsApart, TicketsAgree
<1>5. Known'
  <2>1. \A d \in Devices, t \in TxIds : Holds(d, t)' => Holds(d, t)
    BY <1>1, <1>2 DEF Holds
  <2>. QED
    BY <1>1, <2>1 DEF ConvInv, Known
<1>6. CreatesFirst'
  <2>1. \A d \in Devices : \A t : Ahead(d, t)' = Ahead(d, t)
    BY <1>1, <1>2 DEF Ahead
  <2>. QED
    BY <1>1, <1>2, <2>1 DEF ConvInv, CreatesFirst
<1>7. ReadInv'
  BY <1>1 DEF ConvInv, ReadInv, ReadsOn
<1>8. Settled' /\ DeletesCurrent'
  BY <1>1, <1>3, SettledStill, DeletesStill
<1>. QED
  BY <1>4, <1>5, <1>6, <1>7, <1>8 DEF ConvInv

\* Every step.
LEMMA NextConv ==
    ASSUME Inv, ConvInv, OneRun, [Next]_vars
    PROVE  ConvInv'
<1>1. ASSUME NEW d \in Devices, User(d)
      PROVE  ConvInv'
  <2>1. CASE \E t \in TxIds : Create(d, t) \/ Edit(d, t) \/ ReadForDelete(d, t)
    BY <2>1, CreateConv, EditConv, ReadForDeleteConv
  <2>2. CASE Delete(d)
    BY <2>2, DeleteConv
  <2>3. CASE \E i \in DOMAIN conflicts[d] : KeepLocal(d, i) \/ AcceptRemote(d, i)
    BY <2>3, ResolveConv
  <2>. QED
    BY <1>1, <2>1, <2>2, <2>3 DEF User
<1>2. ASSUME NEW d \in Devices, NEW r \in Runs, Sync(d, r) \/ ServeError(d, r) \/ Abort(d, r)
      PROVE  ConvInv'
  BY <1>2, QuietConv, ReceiptConv, PullConv, ServeConv, ApplyConv, FinishConv DEF Sync
<1>. QED
  BY <1>1, <1>2, StutterConv DEF Next

\* With one run of syncNow at a time, what a device shows of a transaction is
\* what the log says, or it has something to read or to send.
THEOREM ConvInvariance == Spec => [](OneRun => ConvInv)
<1>1. Init => (OneRun => ConvInv)
  BY InitConv
<1>2. Inv /\ (OneRun => ConvInv) /\ [Next]_vars => (OneRun => ConvInv)'
  BY NextConv DEF OneRun
<1>. QED
  BY <1>1, <1>2, Invariance, PTL DEF Spec

\* A device that has read the whole log and has nothing queued shows it.
LEMMA CaughtUpShows ==
    ASSUME Inv, ConvInv
    PROVE  Converged
<1>. SUFFICES ASSUME NEW d \in Devices \ raced, CaughtUp(d), NEW t \in TxIds, Changes(t) # {}
              PROVE  Shows(local[d][t], LastChange(t))
  BY DEF Converged, UpToDate
<1>1. log \in Seq(LogEntries) /\ Len(log) \in Nat
  BY LogBound DEF Inv, TypeOK
<1>2. rows[t].version # 0
  BY DEF ConvInv, LogTells, Changes
<1>3. ~Ahead(d, t)
  <2>1. Unread(d) = {}
    BY <1>1 DEF CaughtUp, Unread
  <2>. QED
    BY <2>1 DEF Ahead
<1>4. ~Viable(d, t)
  <2>1. DOMAIN <<>> = {}
    OBVIOUS
  <2>2. Queue(d) = {}
    BY <2>1 DEF CaughtUp, Queue
  <2>. QED
    BY <2>2 DEF Viable
<1>5. PICK i \in DOMAIN log : IsLast(i, t) /\ Shows(local[d][t], log[i])
  BY <1>2, <1>3, <1>4 DEF ConvInv, Settled, Mirror
<1>6. PICK j : j = CHOOSE k \in Changes(t) : \A l \in Changes(t) : l <= k
  OBVIOUS
<1>7. i \in Changes(t) /\ \A l \in Changes(t) : l <= i
  BY <1>5 DEF IsLast, Changes
<1>8. j \in Changes(t) /\ \A l \in Changes(t) : l <= j
  BY <1>6, <1>7
<1>9. IsLast(j, t)
  BY <1>8 DEF IsLast, Changes
<1>10. i = j
  BY <1>1, <1>5, <1>9, OneLast
<1>. QED
  BY <1>5, <1>6, <1>10 DEF LastChange

\* SyncService: devices that have caught up show what the log says, so they show
\* the same, as long as a device runs syncNow once at a time.
THEOREM DevicesConverge == Spec => [](OneRun => Converged)
<1>1. Inv /\ (OneRun => ConvInv) => (OneRun => Converged)
  BY CaughtUpShows
<1>. QED
  BY <1>1, Invariance, ConvInvariance, PTL

=============================================================================
