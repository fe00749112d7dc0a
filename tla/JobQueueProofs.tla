---------------------------- MODULE JobQueueProofs ----------------------------
(***************************************************************************)
(* Proofs about JobQueue, for every set of processes, job types and rules  *)
(* and every bound.                                                        *)
(*                                                                         *)
(* A worker updates the rows of its batch by id, outside the transaction   *)
(* that claimed them.  That this touches nobody else's work rests on the   *)
(* life of a row: it is in ready only while it is pending (ReadyPending),  *)
(* it is locked only while it is in ready and by one claim (Locked,        *)
(* LocksApart), and it is in a batch only while it is running under the    *)
(* name of the batch's worker (Holds).                                     *)
(***************************************************************************)
EXTENDS JobQueue, SequenceTheorems, FiniteSetTheorems, TLAPS

OneToOne(s) == \A m, n \in DOMAIN s : s[m] = s[n] => m = n

ReadyPending ==
    /\ OneToOne(ready)
    /\ \A n \in DOMAIN ready : jobs[ready[n]].status = "pending"

\* A row that may be claimed has not used its attempts.
AttemptsLeft ==
    \A j \in JobIds : jobs[j].status = "pending" => jobs[j].attempts < MaxAttempts

Locked(w) ==
    /\ OneToOne(locks[w])
    /\ Range(locks[w]) \subseteq Range(ready)
    /\ pc[w] = "claim" <=> locks[w] # <<>>

LocksApart ==
    \A v, w \in Workers : v # w => Range(locks[v]) \cap Range(locks[w]) = {}

Holds(w) ==
    /\ \A m \in DOMAIN batch[w] :
          /\ jobs[batch[w][m].id].status = "running"
          /\ jobs[batch[w][m].id].lockedBy = w
          /\ jobs[batch[w][m].id].attempts = batch[w][m].attempts
    /\ \A m, n \in DOMAIN batch[w] : batch[w][m].id = batch[w][n].id => m = n

QueueInv ==
    /\ TypeOK
    /\ ReadyPending
    /\ AttemptsLeft
    /\ \A w \in Workers : Locked(w)
    /\ LocksApart
    /\ \A w \in Workers : Holds(w)

-----------------------------------------------------------------------------
(***************************************************************************)
(* Sequences.                                                              *)
(***************************************************************************)

\* The first element of a list and the rest of it.
LEMMA TailFacts ==
    ASSUME NEW S, NEW s \in Seq(S), s # <<>>
    PROVE  /\ 1 \in DOMAIN s /\ Head(s) = s[1] /\ Head(s) \in S
           /\ Tail(s) \in Seq(S)
           /\ Len(s) \in Nat \ {0}
           /\ DOMAIN s = 1 .. Len(s)
           /\ DOMAIN Tail(s) = 1 .. (Len(s) - 1)
           /\ \A n \in DOMAIN Tail(s) : n + 1 \in DOMAIN s /\ Tail(s)[n] = s[n + 1]
           /\ Len(s) # 1 => Tail(s) # <<>>
           /\ Len(s) = 1 => Tail(s) = <<>>
<1>1. /\ Head(s) \in S /\ Tail(s) \in Seq(S) /\ Len(Tail(s)) = Len(s) - 1
      /\ \A n \in 1 .. Len(Tail(s)) : Tail(s)[n] = s[n + 1]
  BY HeadTailProperties
<1>2. Len(s) \in Nat /\ DOMAIN s = 1 .. Len(s) /\ Len(s) # 0
  BY EmptySeq, LenProperties
<1>3. DOMAIN Tail(s) = 1 .. (Len(s) - 1)
  BY <1>1, LenProperties
<1>4. Head(s) = s[1]
  OBVIOUS
<1>5. Len(s) # 1 => Tail(s) # <<>>
  <2>1. Len(s) # 1 => Len(Tail(s)) # 0
    BY <1>1, <1>2
  <2>. QED
    BY <2>1, EmptySeq
<1>6. Len(s) = 1 => Tail(s) = <<>>
  <2>1. Tail(s) # <<>> => Len(Tail(s)) # 0
    BY <1>1, EmptySeq
  <2>. QED
    BY <1>1, <2>1
<1>. QED
  BY <1>1, <1>2, <1>3, <1>4, <1>5, <1>6

\* A function on 1 .. n is a sequence.
LEMMA FunctionIsSeq ==
    ASSUME NEW S, NEW n \in Nat, NEW s \in [1 .. n -> S]
    PROVE  s \in Seq(S) /\ Len(s) = n
  OBVIOUS

\* What a sorted set is as a sequence.
LEMMA SortedIsSeq ==
    ASSUME NEW S, IsFiniteSet(S), NEW s \in [1 .. Cardinality(S) -> S]
    PROVE  /\ s \in Seq(S)
           /\ DOMAIN s = 1 .. Cardinality(S) /\ Cardinality(S) \in Nat
           /\ S # {} => s # <<>>
           /\ Range(s) \subseteq S
<1>1. Cardinality(S) \in Nat
  BY FS_CardinalityType
<1>2. s \in Seq(S) /\ Len(s) = Cardinality(S)
  BY <1>1
<1>3. S # {} => Cardinality(S) # 0
  BY FS_EmptySet
<1>4. S # {} => s # <<>>
  BY <1>2, <1>3
<1>5. Range(s) \subseteq S
  BY DEF Range
<1>. QED
  BY <1>1, <1>2, <1>4, <1>5

\* The set of job ids, and any set of them, is finite.
LEMMA JobsFinite ==
    ASSUME NEW S, S \subseteq JobIds
    PROVE  IsFiniteSet(S)
<1>1. IsFiniteSet(JobIds)
  BY FS_Interval, JobQueueAssumption DEF JobIds
<1>. QED
  BY <1>1, FS_Subset
-----------------------------------------------------------------------------
(***************************************************************************)
(* Types.                                                                  *)
(***************************************************************************)

Working == {"run", "scan", "again", "end", "fail"}

\* The job a worker is at, and its row.
LEMMA JobFacts ==
    ASSUME TypeOK, NEW w \in Workers, Holds(w), pc[w] \in Working
    PROVE  /\ 1 \in DOMAIN batch[w] /\ Job(w) = batch[w][1]
           /\ Job(w).id \in JobIds /\ Job(w).attempts \in 1 .. MaxAttempts
           /\ jobs[Job(w).id] \in Rows
           /\ jobs[Job(w).id].status = "running"
           /\ jobs[Job(w).id].lockedBy = w
           /\ jobs[Job(w).id].attempts = Job(w).attempts
<1>1. /\ batch[w] \in Seq([id : JobIds, attempts : 1 .. MaxAttempts])
      /\ batch[w] # <<>>
  BY DEF TypeOK, Working
<1>2. /\ 1 \in DOMAIN batch[w] /\ Job(w) = batch[w][1]
      /\ Job(w) \in [id : JobIds, attempts : 1 .. MaxAttempts]
  BY <1>1, TailFacts DEF Job
<1>3. /\ jobs[Job(w).id].status = "running"
      /\ jobs[Job(w).id].lockedBy = w
      /\ jobs[Job(w).id].attempts = Job(w).attempts
  BY <1>2 DEF Holds
<1>4. jobs[Job(w).id] \in Rows
  BY <1>2, <1>3 DEF TypeOK, NoJob
<1>. QED
  BY <1>2, <1>3, <1>4

\* Dropping the first job of a batch.
LEMMA NextJobType ==
    ASSUME TypeOK, NEW w \in Workers, pc[w] \in Working, NextJob(w)
    PROVE  /\ batch' \in [Workers -> Seq([id : JobIds, attempts : 1 .. MaxAttempts])]
           /\ pc' \in [Workers -> PCs]
           /\ pc'[w] \in {"poll", "run"}
           /\ pc'[w] = "run" => batch'[w] # <<>>
           /\ batch'[w] = Tail(batch[w])
           /\ \A v \in Workers \ {w} : batch'[v] = batch[v] /\ pc'[v] = pc[v]
<1>1. /\ batch[w] \in Seq([id : JobIds, attempts : 1 .. MaxAttempts])
      /\ batch[w] # <<>>
  BY DEF TypeOK, Working
<1>2. /\ Tail(batch[w]) \in Seq([id : JobIds, attempts : 1 .. MaxAttempts])
      /\ Len(batch[w]) # 1 => Tail(batch[w]) # <<>>
  BY <1>1, TailFacts
<1>. QED
  BY <1>2 DEF NextJob, TypeOK, PCs

\* Dropping the first job type of a start.
LEMMA BootedType ==
    ASSUME TypeOK, NEW w \in Workers, pc[w] \in {"boot", "insert"}, Booted(w)
    PROVE  /\ boot' \in [Workers -> Seq(Kinds)]
           /\ pc' \in [Workers -> PCs]
           /\ pc'[w] \in {"poll", "boot"}
           /\ pc'[w] = "boot" => boot'[w] # <<>>
           /\ Head(boot[w]) \in Kinds
           /\ \A v \in Workers \ {w} : boot'[v] = boot[v] /\ pc'[v] = pc[v]
<1>1. boot[w] \in Seq(Kinds) /\ boot[w] # <<>>
  BY DEF TypeOK
<1>2. /\ Tail(boot[w]) \in Seq(Kinds) /\ Head(boot[w]) \in Kinds
      /\ Len(boot[w]) # 1 => Tail(boot[w]) # <<>>
  BY <1>1, TailFacts
<1>. QED
  BY <1>2 DEF Booted, TypeOK, PCs

\* A new row.
LEMMA EnqueueType ==
    ASSUME TypeOK, NEW k \in Kinds, NEW j \in FreeIds,
           jobs' = [jobs EXCEPT ![j] = NewJob(k)]
    PROVE  /\ j \in JobIds
           /\ jobs' \in [JobIds -> Rows \cup {NoJob}]
           /\ Append(ready, j) \in Seq(JobIds)
<1>1. NewJob(k) \in Rows
  BY JobQueueAssumption DEF NewJob, Rows
<1>. QED
  BY <1>1 DEF FreeIds, TypeOK

\* A claim: the row is running, and so is the worker's copy of it.
LEMMA ClaimType ==
    ASSUME QueueInv, NEW w \in Workers, Claim(w)
    PROVE  /\ jobs' \in [JobIds -> Rows \cup {NoJob}]
           /\ ready' \in Seq(JobIds)
           /\ batch' \in [Workers -> Seq([id : JobIds, attempts : 1 .. MaxAttempts])]
           /\ batch'[w] # <<>>
           /\ DOMAIN batch'[w] = DOMAIN locks[w]
           /\ \A m \in DOMAIN locks[w] :
                 /\ locks[w][m] \in JobIds
                 /\ jobs[locks[w][m]].status = "pending"
                 /\ batch'[w][m] = [id |-> locks[w][m],
                                    attempts |-> jobs[locks[w][m]].attempts + 1]
<1>1. /\ TypeOK /\ ReadyPending /\ AttemptsLeft /\ Locked(w)
      /\ locks[w] \in Seq(JobIds) /\ locks[w] # <<>> /\ ready \in Seq(JobIds)
  BY DEF QueueInv, Claim, Locked, TypeOK
<1>2. \A j \in Range(locks[w]) :
          /\ j \in JobIds
          /\ jobs[j].status = "pending"
          /\ jobs[j].attempts < MaxAttempts
          /\ jobs[j] \in Rows
  <2>1. ASSUME NEW j \in Range(locks[w])
        PROVE  j \in JobIds /\ jobs[j].status = "pending"
    <3>1. PICK n \in DOMAIN ready : ready[n] = j
      BY <1>1 DEF Locked, Range
    <3>. QED
      BY <1>1, <3>1 DEF ReadyPending
  <2>. QED
    BY <1>1, <2>1 DEF AttemptsLeft, TypeOK, NoJob
<1>3. jobs' \in [JobIds -> Rows \cup {NoJob}]
  <2>1. \A j \in Range(locks[w]) : Claimed(j, w) \in Rows
    BY <1>2, JobQueueAssumption DEF Claimed, Rows
  <2>. QED
    BY <1>1, <2>1 DEF Claim, TypeOK
<1>4. ready' \in Seq(JobIds)
  <2>1. Range(ready) \ Range(locks[w]) \subseteq JobIds
    BY <1>1 DEF Range
  <2>. DEFINE rest == Range(ready) \ Range(locks[w])
  <2>2. ready' \in [1 .. Cardinality(rest) -> rest]
    BY DEF Claim, Sorted
  <2>3. IsFiniteSet(rest)
    BY <2>1, JobsFinite
  <2>. HIDE DEF rest
  <2>4. ready' \in Seq(rest)
    BY <2>2, <2>3, SortedIsSeq
  <2>. QED
    BY <2>1, <2>4, SeqMonotonic DEF rest
<1>5. /\ Len(locks[w]) \in Nat /\ DOMAIN locks[w] = 1 .. Len(locks[w])
      /\ 1 \in DOMAIN locks[w]
  BY <1>1, TailFacts
<1>6. \A m \in DOMAIN locks[w] : locks[w][m] \in Range(locks[w])
  BY DEF Range
<1>. DEFINE mine == [m \in DOMAIN locks[w] |->
                       [id |-> locks[w][m],
                        attempts |-> jobs[locks[w][m]].attempts + 1]]
<1>7. mine \in Seq([id : JobIds, attempts : 1 .. MaxAttempts])
  <2>1. \A m \in DOMAIN locks[w] :
            mine[m] \in [id : JobIds, attempts : 1 .. MaxAttempts]
    BY <1>2, <1>6, JobQueueAssumption DEF Rows
  <2>2. mine \in [1 .. Len(locks[w]) -> [id : JobIds, attempts : 1 .. MaxAttempts]]
    BY <1>5, <2>1
  <2>. HIDE DEF mine
  <2>. QED
    BY <1>5, <2>2, FunctionIsSeq
<1>8. batch' = [batch EXCEPT ![w] = mine]
  BY DEF Claim
<1>9. batch'[w] = mine
  BY <1>1, <1>8 DEF TypeOK
<1>10. mine # <<>>
  BY <1>5
<1>. QED
  BY <1>1, <1>2, <1>3, <1>4, <1>6, <1>7, <1>8, <1>9, <1>10 DEF TypeOK
\* The parts of TypeOK.
TableType == jobs \in [JobIds -> Rows \cup {NoJob}] /\ ready \in Seq(JobIds)

RulesType == next \in [Rules -> Nat] /\ made \in [Rules -> Nat]

ProcessType ==
    /\ pc \in [Workers -> PCs]
    /\ boot \in [Workers -> Seq(Kinds)]
    /\ absent \in [Workers -> BOOLEAN]
    /\ locks \in [Workers -> Seq(JobIds)]
    /\ batch \in [Workers -> Seq([id : JobIds, attempts : 1 .. MaxAttempts])]
    /\ due \in [Workers -> Seq(Rules)]

Counters ==
    /\ month \in 0 .. MaxMonth
    /\ crashes \in 0 .. MaxCrashes
    /\ fails \in 0 .. MaxFails
    /\ errors \in 0 .. MaxErrors

\* The lists a process keeps when it is at the statement that reads them.
Listed ==
    \A w \in Workers :
        /\ pc[w] \in {"boot", "insert"} => boot[w] # <<>>
        /\ pc[w] \in {"run", "scan", "again", "end", "fail"} => batch[w] # <<>>

\* They are TypeOK.
LEMMA TypeParts ==
    TypeOK <=> TableType /\ RulesType /\ ProcessType /\ Counters /\ Listed
  BY DEF TypeOK, TableType, RulesType, ProcessType, Counters, Listed

\* The bounded counters stay within their bounds.
LEMMA CountersStep ==
    ASSUME Counters, [Next]_vars
    PROVE  Counters'
<1>. USE DEF budget
<1>1. /\ MaxMonth \in Nat /\ MaxCrashes \in Nat /\ MaxFails \in Nat
      /\ MaxErrors \in Nat
  BY JobQueueAssumption
<1>2. /\ month' = month \/ (month < MaxMonth /\ month' = month + 1)
      /\ crashes' = crashes \/ (crashes < MaxCrashes /\ crashes' = crashes + 1)
      /\ fails' = fails \/ (fails < MaxFails /\ fails' = fails + 1)
      /\ errors' = errors \/ (errors < MaxErrors /\ errors' = errors + 1)
  <2>1. ASSUME NEW w \in Workers, Start(w) \/ Work(w)
        PROVE  UNCHANGED <<month, crashes, fails, errors>>
    BY <2>1 DEF Start, Work, BootEnqueue, BootLook, BootInsert, Select, Claim,
       Body, ReadDue, ScanRule, ScanMalformed, ScanEnd, Reschedule, Complete, Fail
  <2>2. ASSUME NEW w \in Workers, Trouble(w)
        PROVE  /\ month' = month
               /\ crashes' = crashes \/ (crashes < MaxCrashes /\ crashes' = crashes + 1)
               /\ fails' = fails \/ (fails < MaxFails /\ fails' = fails + 1)
               /\ errors' = errors \/ (errors < MaxErrors /\ errors' = errors + 1)
    BY <2>2 DEF Trouble, BootError, Crash, ClaimError, BodyError,
       RescheduleError, FinishError
  <2>3. CASE (\E j \in JobIds : Elapse(j)) \/ Tick \/ UNCHANGED vars
    BY <2>3 DEF Elapse, Tick, vars
  <2>. QED
    BY <2>1, <2>2, <2>3 DEF Next
<1>. QED
  BY <1>1, <1>2 DEF Counters

\* No step leaves the types of the table and of the processes.
LEMMA TypeStep ==
    ASSUME QueueInv, [Next]_vars
    PROVE  TypeOK'
<1>. USE DEF table, rules, budget
<1>0. /\ TypeOK /\ TableType /\ RulesType /\ ProcessType /\ Counters /\ Listed
      /\ \A w \in Workers : Holds(w)
  BY TypeParts DEF QueueInv
<1>1. Counters'
  BY <1>0, CountersStep
<1>e. /\ <<>> \in Seq(JobIds) /\ <<>> \in Seq(Rules) /\ <<>> \in Seq(Kinds)
      /\ <<>> \in Seq([id : JobIds, attempts : 1 .. MaxAttempts])
  BY EmptySeq
<1>. SUFFICES TableType' /\ RulesType' /\ ProcessType' /\ Listed'
  BY <1>1 DEF TypeOK, TableType, RulesType, ProcessType, Counters, Listed
<1>2. ASSUME NEW w \in Workers, Start(w)
      PROVE  TableType' /\ RulesType' /\ ProcessType' /\ Listed'
  <2>1. Boot[w] \in Seq(Kinds)
    BY JobQueueAssumption
  <2>2. TableType' /\ RulesType'
    BY <1>0, <1>2 DEF Start, TableType, RulesType
  <2>3. ProcessType' /\ Listed'
    BY <1>0, <1>2, <2>1 DEF Start, ProcessType, Listed, PCs
  <2>. QED
    BY <2>2, <2>3
<1>3. ASSUME NEW w \in Workers, BootEnqueue(w) \/ BootInsert(w) \/ BootError(w)
      PROVE  TableType' /\ RulesType' /\ ProcessType' /\ Listed'
  <2>1. Booted(w) /\ pc[w] \in {"boot", "insert"}
    BY <1>3 DEF BootEnqueue, BootInsert, BootError
  <2>2. /\ boot' \in [Workers -> Seq(Kinds)]
        /\ pc' \in [Workers -> PCs]
        /\ pc'[w] \in {"poll", "boot"}
        /\ pc'[w] = "boot" => boot'[w] # <<>>
        /\ Head(boot[w]) \in Kinds
        /\ \A v \in Workers \ {w} : boot'[v] = boot[v] /\ pc'[v] = pc[v]
    BY <1>0, <2>1, BootedType
  <2>3. TableType'
    <3>1. EnqueueNow(Head(boot[w])) \/ UNCHANGED table
      BY <1>3 DEF BootEnqueue, BootInsert, BootError
    <3>2. CASE EnqueueNow(Head(boot[w]))
      BY <1>0, <2>2, <3>2, EnqueueType DEF EnqueueNow, TableType
    <3>3. CASE UNCHANGED table
      BY <1>0, <3>3 DEF TableType
    <3>. QED
      BY <3>1, <3>2, <3>3
  <2>4. /\ UNCHANGED <<next, made, locks, batch, due>>
        /\ absent' = absent \/ absent' = [absent EXCEPT ![w] = FALSE]
    BY <1>3 DEF BootEnqueue, BootInsert, BootError
  <2>5. RulesType' /\ ProcessType'
    BY <1>0, <2>2, <2>4 DEF RulesType, ProcessType
  <2>6. Listed'
    BY <1>0, <2>2, <2>4 DEF Listed
  <2>. QED
    BY <2>3, <2>5, <2>6
<1>4. ASSUME NEW w \in Workers, BootLook(w)
      PROVE  TableType' /\ RulesType' /\ ProcessType' /\ Listed'
  <2>1. Absent(Head(boot[w])) \in BOOLEAN
    BY DEF Absent
  <2>2. TableType' /\ RulesType'
    BY <1>0, <1>4 DEF BootLook, TableType, RulesType
  <2>3. ProcessType' /\ Listed'
    BY <1>0, <1>4, <2>1 DEF BootLook, ProcessType, Listed, PCs
  <2>. QED
    BY <2>2, <2>3
<1>5. ASSUME NEW w \in Workers, Crash(w) \/ ClaimError(w)
      PROVE  TableType' /\ RulesType' /\ ProcessType' /\ Listed'
  <2>1. TableType' /\ RulesType'
    BY <1>0, <1>5 DEF Crash, ClaimError, TableType, RulesType
  <2>2. CASE Crash(w)
    BY <1>0, <1>e, <2>1, <2>2 DEF Crash, ProcessType, Listed, PCs
  <2>3. CASE ClaimError(w)
    BY <1>0, <1>e, <2>1, <2>3 DEF ClaimError, ProcessType, Listed, PCs
  <2>. QED
    BY <1>5, <2>2, <2>3
<1>6. ASSUME NEW w \in Workers, Select(w)
      PROVE  TableType' /\ RulesType' /\ ProcessType' /\ Listed'
  <2>. DEFINE S == Selected(w)
  <2>1. PICK s \in [1 .. Cardinality(S) -> S] : locks' = [locks EXCEPT ![w] = s]
    BY <1>6 DEF Select, Sorted
  <2>2. S \subseteq JobIds
    BY <1>0 DEF Selected, Claimable, Range, TableType
  <2>3. s \in Seq(JobIds)
    <3>1. IsFiniteSet(S)
      BY <2>2, JobsFinite
    <3>. HIDE DEF S
    <3>2. s \in Seq(S)
      BY <3>1, SortedIsSeq
    <3>. QED
      BY <2>2, <3>2, SeqMonotonic
  <2>. HIDE DEF S
  <2>4. TableType' /\ RulesType'
    BY <1>0, <1>6 DEF Select, TableType, RulesType
  <2>5. ProcessType' /\ Listed'
    BY <1>0, <1>6, <2>1, <2>3 DEF Select, ProcessType, Listed, PCs
  <2>. QED
    BY <2>4, <2>5
<1>7. ASSUME NEW w \in Workers, Claim(w)
      PROVE  TableType' /\ RulesType' /\ ProcessType' /\ Listed'
  <2>1. /\ TableType'
        /\ batch' \in [Workers -> Seq([id : JobIds, attempts : 1 .. MaxAttempts])]
        /\ batch'[w] # <<>>
    BY <1>7, ClaimType DEF TableType
  <2>2. /\ pc' = [pc EXCEPT ![w] = "run"] /\ locks' = [locks EXCEPT ![w] = <<>>]
        /\ \A v \in Workers \ {w} : batch'[v] = batch[v]
        /\ UNCHANGED <<next, made, boot, absent, due>>
    BY <1>0, <1>7 DEF Claim, ProcessType
  <2>3. RulesType' /\ ProcessType'
    BY <1>0, <1>e, <2>1, <2>2 DEF RulesType, ProcessType, PCs
  <2>4. Listed'
    BY <1>0, <2>1, <2>2 DEF Listed, ProcessType
  <2>. QED
    BY <2>1, <2>3, <2>4
<1>8. ASSUME NEW w \in Workers,
             \/ Body(w) \/ ScanMalformed(w) \/ ScanEnd(w) \/ BodyError(w)
             \/ RescheduleError(w)
      PROVE  TableType' /\ RulesType' /\ ProcessType' /\ Listed'
  <2>1. /\ pc[w] \in {"run", "scan", "again"}
        /\ \E p \in {"again", "end", "fail"} : pc' = [pc EXCEPT ![w] = p]
        /\ UNCHANGED <<jobs, ready, next, made, boot, absent, locks, batch>>
        /\ due' = due \/ due' = [due EXCEPT ![w] = <<>>]
    BY <1>8 DEF Body, ScanMalformed, ScanEnd, BodyError, RescheduleError
  <2>2. TableType' /\ RulesType'
    BY <1>0, <2>1 DEF TableType, RulesType
  <2>3. ProcessType' /\ Listed'
    BY <1>0, <1>e, <2>1 DEF ProcessType, Listed, PCs
  <2>. QED
    BY <2>2, <2>3
<1>9. ASSUME NEW w \in Workers, ReadDue(w)
      PROVE  TableType' /\ RulesType' /\ ProcessType' /\ Listed'
  <2>. DEFINE S == DueRules
  <2>1. PICK s \in [1 .. Cardinality(S) -> S] : due' = [due EXCEPT ![w] = s]
    BY <1>9 DEF ReadDue, Sorted
  <2>2. S \subseteq Rules /\ IsFiniteSet(S)
    BY FS_Subset, JobQueueAssumption DEF DueRules
  <2>. HIDE DEF S
  <2>3. s \in Seq(S)
    BY <2>2, SortedIsSeq
  <2>4. s \in Seq(Rules)
    BY <2>2, <2>3, SeqMonotonic
  <2>5. TableType' /\ RulesType'
    BY <1>0, <1>9 DEF ReadDue, TableType, RulesType
  <2>6. ProcessType' /\ Listed'
    BY <1>0, <1>9, <2>1, <2>4 DEF ReadDue, ProcessType, Listed, PCs
  <2>. QED
    BY <2>5, <2>6
<1>10. ASSUME NEW w \in Workers, ScanRule(w)
       PROVE  TableType' /\ RulesType' /\ ProcessType' /\ Listed'
  <2>1. due[w] \in Seq(Rules) /\ due[w] # <<>>
    BY <1>0, <1>10 DEF ScanRule, ProcessType
  <2>2. Head(due[w]) \in Rules /\ Tail(due[w]) \in Seq(Rules)
    BY <2>1, TailFacts
  <2>3. RulesType'
    <3>1. /\ next' = [next EXCEPT ![Head(due[w])] = @ + 1]
          /\ made' = made \/ made' = [made EXCEPT ![Head(due[w])] = @ + 1]
      BY <1>10 DEF ScanRule, Materialise
    <3>. QED
      BY <1>0, <2>2, <3>1, SMTT(30) DEF RulesType
  <2>4. /\ due' = [due EXCEPT ![w] = Tail(due[w])]
        /\ UNCHANGED <<jobs, ready, pc, boot, absent, locks, batch>>
    BY <1>10 DEF ScanRule
  <2>5. TableType' /\ ProcessType' /\ Listed'
    BY <1>0, <2>2, <2>4 DEF TableType, ProcessType, Listed
  <2>. QED
    BY <2>3, <2>5
<1>11. ASSUME NEW w \in Workers, Reschedule(w)
       PROVE  TableType' /\ RulesType' /\ ProcessType' /\ Listed'
  <2>1. Kind(w) \in Kinds
    BY <1>0, <1>11, JobFacts DEF Reschedule, Kind, Rows, Working
  <2>2. jobs' \in [JobIds -> Rows \cup {NoJob}]
    BY <1>0, <1>11, <2>1, EnqueueType DEF Reschedule, EnqueueLater
  <2>3. /\ pc[w] = "again" /\ pc' = [pc EXCEPT ![w] = "end"]
        /\ UNCHANGED <<ready, next, made, boot, absent, locks, batch, due>>
    BY <1>11 DEF Reschedule, EnqueueLater
  <2>4. TableType' /\ RulesType'
    BY <1>0, <2>2, <2>3 DEF TableType, RulesType
  <2>5. ProcessType' /\ Listed'
    BY <1>0, <2>3 DEF ProcessType, Listed, PCs
  <2>. QED
    BY <2>4, <2>5
<1>12. ASSUME NEW w \in Workers, Complete(w) \/ Fail(w) \/ FinishError(w)
       PROVE  TableType' /\ RulesType' /\ ProcessType' /\ Listed'
  <2>1. NextJob(w) /\ pc[w] \in {"end", "fail"}
    BY <1>12 DEF Complete, Fail, FinishError
  <2>2. /\ batch' \in [Workers -> Seq([id : JobIds, attempts : 1 .. MaxAttempts])]
        /\ pc' \in [Workers -> PCs]
        /\ pc'[w] \in {"poll", "run"}
        /\ pc'[w] = "run" => batch'[w] # <<>>
        /\ \A v \in Workers \ {w} : batch'[v] = batch[v] /\ pc'[v] = pc[v]
    BY <1>0, <2>1, NextJobType DEF Working
  <2>3. Job(w).id \in JobIds /\ jobs[Job(w).id] \in Rows
    BY <1>0, <2>1, JobFacts DEF Working
  <2>4. jobs' \in [JobIds -> Rows \cup {NoJob}]
    <3>1. CASE Complete(w)
      BY <1>0, <2>3, <3>1 DEF Complete, TableType
    <3>2. CASE Fail(w)
      <4>1. [kind |-> jobs[Job(w).id].kind, status |-> AfterFailure(Job(w).attempts),
             attempts |-> jobs[Job(w).id].attempts, lockedBy |-> Nobody] \in Rows
        BY <2>3 DEF Rows, AfterFailure
      <4>. QED
        BY <1>0, <2>3, <3>2, <4>1 DEF Fail, TableType
    <3>3. CASE FinishError(w)
      BY <1>0, <3>3 DEF FinishError, TableType
    <3>. QED
      BY <1>12, <3>1, <3>2, <3>3
  <2>5. UNCHANGED <<ready, next, made, boot, absent, locks, due>>
    BY <1>12 DEF Complete, Fail, FinishError
  <2>6. TableType' /\ RulesType' /\ ProcessType'
    BY <1>0, <2>2, <2>4, <2>5 DEF TableType, RulesType, ProcessType
  <2>7. Listed'
    BY <1>0, <2>2, <2>5 DEF Listed
  <2>. QED
    BY <2>6, <2>7
<1>13. ASSUME NEW j \in JobIds, Elapse(j)
       PROVE  TableType' /\ RulesType' /\ ProcessType' /\ Listed'
  <2>1. Append(ready, j) \in Seq(JobIds)
    BY <1>0, AppendProperties DEF TableType
  <2>2. TableType' /\ RulesType'
    BY <1>0, <1>13, <2>1 DEF Elapse, TableType, RulesType
  <2>3. ProcessType' /\ Listed'
    BY <1>0, <1>13 DEF Elapse, ProcessType, Listed
  <2>. QED
    BY <2>2, <2>3
<1>14. CASE Tick \/ UNCHANGED vars
  <2>1. UNCHANGED <<jobs, ready, next, made, pc, boot, absent, locks, batch, due>>
    BY <1>14 DEF Tick, vars
  <2>. QED
    BY <1>0, <2>1 DEF TableType, RulesType, ProcessType, Listed
<1>. QED
  BY <1>2, <1>3, <1>4, <1>5, <1>6, <1>7, <1>8, <1>9, <1>10, <1>11, <1>12,
     <1>13, <1>14 DEF Next, Work, Trouble
-----------------------------------------------------------------------------
(***************************************************************************)
(* The life of a row.                                                      *)
(***************************************************************************)

RowInv ==
    /\ ReadyPending
    /\ AttemptsLeft
    /\ \A w \in Workers : Locked(w)
    /\ LocksApart
    /\ \A w \in Workers : Holds(w)

\* A new element at the end of a list.
LEMMA AppendFacts ==
    ASSUME NEW S, NEW s \in Seq(S), NEW e \in S
    PROVE  /\ Range(Append(s, e)) = Range(s) \cup {e}
           /\ OneToOne(s) /\ e \notin Range(s) => OneToOne(Append(s, e))
<1>1. /\ Len(s) \in Nat /\ DOMAIN s = 1 .. Len(s)
      /\ DOMAIN Append(s, e) = 1 .. (Len(s) + 1)
      /\ \A n \in 1 .. Len(s) : Append(s, e)[n] = s[n]
      /\ Append(s, e)[Len(s) + 1] = e
  BY LenProperties, AppendProperties
<1>2. Range(Append(s, e)) = Range(s) \cup {e}
  BY <1>1 DEF Range
<1>3. ASSUME OneToOne(s), e \notin Range(s)
      PROVE  OneToOne(Append(s, e))
  BY <1>1, <1>3 DEF OneToOne, Range
<1>. QED
  BY <1>2, <1>3

\* The jobs of a batch are rows of the table.
LEMMA BatchIds ==
    ASSUME TypeOK
    PROVE  \A v \in Workers : \A m \in DOMAIN batch[v] :
               batch[v][m].id \in JobIds
<1>1. ASSUME NEW v \in Workers, NEW m \in DOMAIN batch[v]
      PROVE  batch[v][m].id \in JobIds
  <2>1. batch[v] \in Seq([id : JobIds, attempts : 1 .. MaxAttempts])
    BY DEF TypeOK
  <2>2. batch[v][m] \in [id : JobIds, attempts : 1 .. MaxAttempts]
    BY <2>1, LenProperties
  <2>. QED
    BY <2>2
<1>. QED
  BY <1>1

\* Steps that leave the table, the locks and the batches alone.
LEMMA QuietRows ==
    ASSUME RowInv, UNCHANGED <<jobs, ready, locks, batch>>,
           \A v \in Workers : pc'[v] = "claim" <=> pc[v] = "claim"
    PROVE  RowInv'
<1>1. ReadyPending' /\ AttemptsLeft' /\ LocksApart'
  BY DEF RowInv, ReadyPending, AttemptsLeft, LocksApart
<1>2. \A v \in Workers : Locked(v)' /\ Holds(v)'
  BY DEF RowInv, Locked, Holds
<1>. QED
  BY <1>1, <1>2 DEF RowInv

\* INSERT: the new row is nobody's.
LEMMA EnqueueRows ==
    ASSUME RowInv, TypeOK, NEW k \in Kinds, NEW j \in FreeIds,
           jobs' = [jobs EXCEPT ![j] = NewJob(k)],
           ready' = ready \/ ready' = Append(ready, j),
           UNCHANGED <<locks, batch>>,
           \A v \in Workers : pc'[v] = "claim" <=> pc[v] = "claim"
    PROVE  RowInv'
<1>1. /\ j \in JobIds /\ jobs[j].status = "none"
      /\ jobs'[j] = NewJob(k)
      /\ \A i \in JobIds \ {j} : jobs'[i] = jobs[i]
      /\ ready \in Seq(JobIds)
  <2>1. jobs \in [JobIds -> Rows \cup {NoJob}] /\ ready \in Seq(JobIds)
    BY DEF TypeOK
  <2>2. j \in JobIds /\ jobs[j].status = "none"
    BY DEF FreeIds, NoJob
  <2>. QED
    BY <2>1, <2>2
<1>2. j \notin Range(ready) /\ \A n \in DOMAIN ready : ready[n] \in JobIds \ {j}
  BY <1>1 DEF RowInv, ReadyPending, Range
<1>3. /\ OneToOne(ready')
      /\ Range(ready) \subseteq Range(ready')
      /\ Range(ready') \subseteq Range(ready) \cup {j}
  <2>1. OneToOne(ready)
    BY DEF RowInv, ReadyPending
  <2>2. CASE ready' = Append(ready, j)
    BY <1>1, <1>2, <2>1, <2>2, AppendFacts
  <2>. QED
    BY <2>1, <2>2
<1>4. ReadyPending'
  <2>1. \A n \in DOMAIN ready' : ready'[n] \in Range(ready) \cup {j}
    BY <1>3 DEF Range
  <2>2. \A i \in Range(ready) : i \in JobIds \ {j} /\ jobs[i].status = "pending"
    BY <1>2 DEF RowInv, ReadyPending, Range
  <2>. QED
    BY <1>1, <1>3, <2>1, <2>2 DEF ReadyPending, NewJob
<1>5. AttemptsLeft'
  BY <1>1, JobQueueAssumption DEF RowInv, AttemptsLeft, NewJob
<1>6. \A v \in Workers : Locked(v)'
  BY <1>3 DEF RowInv, Locked
<1>7. LocksApart'
  BY DEF RowInv, LocksApart
<1>8. \A v \in Workers : Holds(v)'
  <2>1. \A v \in Workers : \A m \in DOMAIN batch[v] :
            batch[v][m].id \in JobIds \ {j}
    BY <1>1, BatchIds DEF RowInv, Holds
  <2>. QED
    BY <1>1, <2>1 DEF RowInv, Holds
<1>. QED
  BY <1>4, <1>5, <1>6, <1>7, <1>8 DEF RowInv

\* The time of a row comes.
LEMMA ElapseRows ==
    ASSUME RowInv, TypeOK, NEW j \in JobIds, Elapse(j)
    PROVE  RowInv'
<1>1. /\ ready' = Append(ready, j) /\ j \notin Range(ready)
      /\ jobs[j].status = "pending" /\ ready \in Seq(JobIds)
      /\ UNCHANGED <<jobs, locks, batch, pc>>
  BY DEF Elapse, Pending, TypeOK
<1>2. OneToOne(ready') /\ Range(ready') = Range(ready) \cup {j}
  BY <1>1, AppendFacts DEF RowInv, ReadyPending
<1>3. ReadyPending'
  <2>1. \A n \in DOMAIN ready' : ready'[n] \in Range(ready) \cup {j}
    BY <1>2 DEF Range
  <2>2. \A i \in Range(ready) : jobs[i].status = "pending"
    BY DEF RowInv, ReadyPending, Range
  <2>. QED
    BY <1>1, <1>2, <2>1, <2>2 DEF ReadyPending
<1>4. AttemptsLeft' /\ LocksApart'
  BY <1>1 DEF RowInv, AttemptsLeft, LocksApart
<1>5. \A v \in Workers : Locked(v)'
  BY <1>1, <1>2 DEF RowInv, Locked
<1>6. \A v \in Workers : Holds(v)'
  BY <1>1 DEF RowInv, Holds
<1>. QED
  BY <1>3, <1>4, <1>5, <1>6 DEF RowInv

\* A connection that goes away gives up its locks.
LEMMA DropRows ==
    ASSUME RowInv, TypeOK, NEW w \in Workers, Crash(w) \/ ClaimError(w)
    PROVE  RowInv'
<1>1. /\ UNCHANGED <<jobs, ready>>
      /\ locks' = [locks EXCEPT ![w] = <<>>]
      /\ batch' = batch \/ batch' = [batch EXCEPT ![w] = <<>>]
      /\ pc' = [pc EXCEPT ![w] = "down"] \/ pc' = [pc EXCEPT ![w] = "exited"]
      /\ locks \in [Workers -> Seq(JobIds)] /\ pc \in [Workers -> PCs]
      /\ batch \in [Workers -> Seq([id : JobIds, attempts : 1 .. MaxAttempts])]
  BY DEF Crash, ClaimError, TypeOK, table
<1>2. /\ locks'[w] = <<>> /\ pc'[w] # "claim"
      /\ \A v \in Workers \ {w} : locks'[v] = locks[v] /\ pc'[v] = pc[v]
      /\ \A v \in Workers : batch'[v] = batch[v] \/ batch'[v] = <<>>
  BY <1>1
<1>3. Range(<<>>) = {} /\ OneToOne(<<>>)
  BY DEF Range, OneToOne
<1>4. ReadyPending' /\ AttemptsLeft'
  BY <1>1 DEF RowInv, ReadyPending, AttemptsLeft
<1>5. \A v \in Workers : Locked(v)'
  BY <1>1, <1>2, <1>3 DEF RowInv, Locked
<1>6. LocksApart'
  BY <1>2, <1>3 DEF RowInv, LocksApart
<1>7. \A v \in Workers : Holds(v)'
  BY <1>1, <1>2, SMTT(30) DEF RowInv, Holds
<1>. QED
  BY <1>4, <1>5, <1>6, <1>7 DEF RowInv

\* SKIP LOCKED: a claim locks rows of ready that nobody has locked.
LEMMA SelectRows ==
    ASSUME RowInv, TypeOK, NEW w \in Workers, Select(w)
    PROVE  RowInv'
<1>. DEFINE S == Selected(w)
<1>1. PICK s \in [1 .. Cardinality(S) -> S] :
          /\ locks' = [locks EXCEPT ![w] = s]
          /\ \A m, n \in DOMAIN s : m < n => Older(s[m], s[n])
  BY DEF Select, Sorted
<1>2. /\ S \subseteq Range(ready) /\ S # {}
      /\ \A v \in Workers : S \cap Range(locks[v]) = {}
  BY DEF Selected, Claimable, Select
<1>3. ready \in Seq(JobIds) /\ locks \in [Workers -> Seq(JobIds)] /\ pc \in [Workers -> PCs]
  BY DEF TypeOK
<1>4. IsFiniteSet(S)
  <2>1. S \subseteq JobIds
    BY <1>2, <1>3 DEF Range
  <2>. QED
    BY <2>1, JobsFinite
<1>. HIDE DEF S
<1>5. /\ s # <<>> /\ Range(s) \subseteq S /\ DOMAIN s = 1 .. Cardinality(S)
      /\ Cardinality(S) \in Nat
  BY <1>2, <1>4, SortedIsSeq
<1>6. OneToOne(s)
  <2>1. \A j : ~Older(j, j)
    BY <1>3 DEF Older, RowInv, ReadyPending, OneToOne
  <2>2. ASSUME NEW m \in DOMAIN s, NEW n \in DOMAIN s, s[m] = s[n], m # n
        PROVE  FALSE
    <3>1. m < n \/ n < m
      BY <1>5, <2>2
    <3>. QED
      BY <1>1, <2>1, <2>2, <3>1
  <2>. QED
    BY <2>2 DEF OneToOne
<1>7. /\ UNCHANGED <<jobs, ready, batch>>
      /\ pc' = [pc EXCEPT ![w] = "claim"]
  BY DEF Select, table
<1>8. /\ locks'[w] = s /\ pc'[w] = "claim"
      /\ \A v \in Workers \ {w} : locks'[v] = locks[v] /\ pc'[v] = pc[v]
  BY <1>1, <1>3, <1>7
<1>9. ReadyPending' /\ AttemptsLeft' /\ \A v \in Workers : Holds(v)'
  BY <1>7 DEF RowInv, ReadyPending, AttemptsLeft, Holds
<1>10. \A v \in Workers : Locked(v)'
  BY <1>2, <1>5, <1>6, <1>7, <1>8 DEF RowInv, Locked
<1>11. LocksApart'
  BY <1>2, <1>5, <1>8 DEF RowInv, LocksApart
<1>. QED
  BY <1>9, <1>10, <1>11 DEF RowInv

\* A sorted set without repetition holds every element of the set.
LEMMA SortedOnto ==
    ASSUME NEW S, IsFiniteSet(S), NEW s \in [1 .. Cardinality(S) -> S], OneToOne(s)
    PROVE  Range(s) = S
<1>1. Cardinality(S) \in Nat
  BY FS_CardinalityType
<1>. DEFINE n == Cardinality(S)
<1>2. Cardinality(1 .. n) = n
  BY <1>1, FS_Interval
<1>3. s \in Injection(1 .. n, S)
  BY DEF Injection, IsInjective, OneToOne
<1>4. s \in Surjection(1 .. n, S)
  <2>. HIDE DEF n
  <2>1. Cardinality(1 .. n) = Cardinality(S)
    BY <1>2 DEF n
  <2>. QED
    BY <1>3, <2>1, FS_Injection
<1>. QED
  BY <1>4 DEF Surjection, Range

\* A claim: its rows leave ready and run under the worker's name, the rows
\* others have locked stay where they are.
LEMMA ClaimRows ==
    ASSUME RowInv, TypeOK, NEW w \in Workers, Claim(w)
    PROVE  RowInv'
<1>. DEFINE mine == Range(locks[w])
            rest == Range(ready) \ mine
<1>1. /\ jobs' = [j \in JobIds |-> IF j \in mine THEN Claimed(j, w) ELSE jobs[j]]
      /\ locks' = [locks EXCEPT ![w] = <<>>]
      /\ pc' = [pc EXCEPT ![w] = "run"]
      /\ ready' \in [1 .. Cardinality(rest) -> rest]
      /\ \A m, n \in DOMAIN ready' : m < n => Older(ready'[m], ready'[n])
  BY DEF Claim, Sorted
<1>2. /\ ready \in Seq(JobIds) /\ locks \in [Workers -> Seq(JobIds)]
      /\ pc \in [Workers -> PCs]
      /\ batch \in [Workers -> Seq([id : JobIds, attempts : 1 .. MaxAttempts])]
  BY DEF TypeOK
<1>3. QueueInv
  BY DEF QueueInv, RowInv
<1>4. /\ batch'[w] # <<>>
      /\ DOMAIN batch'[w] = DOMAIN locks[w]
      /\ \A m \in DOMAIN locks[w] :
            /\ locks[w][m] \in JobIds
            /\ jobs[locks[w][m]].status = "pending"
            /\ batch'[w][m] = [id |-> locks[w][m],
                               attempts |-> jobs[locks[w][m]].attempts + 1]
  BY <1>3, ClaimType
<1>5. /\ \A v \in Workers \ {w} : batch'[v] = batch[v] /\ locks'[v] = locks[v] /\ pc'[v] = pc[v]
      /\ locks'[w] = <<>> /\ pc'[w] = "run"
  BY <1>1, <1>2 DEF Claim
<1>6. rest \subseteq JobIds /\ IsFiniteSet(rest)
  <2>1. rest \subseteq JobIds
    BY <1>2 DEF Range
  <2>. QED
    BY <2>1, JobsFinite
<1>7. OneToOne(ready')
  <2>1. \A j : ~Older(j, j)
    BY <1>2 DEF Older, RowInv, ReadyPending, OneToOne
  <2>2. Cardinality(rest) \in Nat /\ DOMAIN ready' = 1 .. Cardinality(rest)
    BY <1>1, <1>6, FS_CardinalityType
  <2>3. ASSUME NEW m \in DOMAIN ready', NEW n \in DOMAIN ready',
               ready'[m] = ready'[n], m # n
        PROVE  FALSE
    <3>1. m < n \/ n < m
      BY <2>2, <2>3
    <3>. QED
      BY <1>1, <2>1, <2>3, <3>1
  <2>. QED
    BY <2>3 DEF OneToOne
<1>8. Range(ready') = rest
  <2>. HIDE DEF rest
  <2>. QED
    BY <1>1, <1>6, <1>7, SortedOnto
<1>9. \A j \in rest : jobs'[j] = jobs[j] /\ jobs[j].status = "pending"
  <2>1. \A j \in Range(ready) : jobs[j].status = "pending"
    BY DEF RowInv, ReadyPending, Range
  <2>. QED
    BY <1>1, <1>6, <2>1
<1>10. ReadyPending'
  <2>1. \A n \in DOMAIN ready' : ready'[n] \in rest
    BY <1>8 DEF Range
  <2>. QED
    BY <1>7, <1>9, <2>1 DEF ReadyPending
<1>11. AttemptsLeft'
  <2>1. \A j \in JobIds : jobs'[j].status = "pending" => jobs'[j] = jobs[j]
    BY <1>1 DEF Claimed
  <2>. QED
    BY <2>1 DEF RowInv, AttemptsLeft
<1>12. Range(<<>>) = {} /\ OneToOne(<<>>)
  BY DEF Range, OneToOne
<1>13. \A v \in Workers : Locked(v)'
  <2>1. Locked(w)'
    BY <1>5, <1>12 DEF Locked
  <2>2. ASSUME NEW v \in Workers \ {w}
        PROVE  Locked(v)'
    <3>1. Range(locks[v]) \subseteq rest
      BY <2>2 DEF RowInv, Locked, LocksApart
    <3>. QED
      BY <1>5, <1>8, <2>2, <3>1 DEF RowInv, Locked
  <2>. QED
    BY <2>1, <2>2
<1>14. LocksApart'
  BY <1>5, <1>12 DEF RowInv, LocksApart
<1>15. Holds(w)'
  <2>1. \A m \in DOMAIN locks[w] : locks[w][m] \in mine
    BY DEF Range
  <2>2. \A m \in DOMAIN locks[w] : jobs'[locks[w][m]] = Claimed(locks[w][m], w)
    BY <1>1, <1>4, <2>1
  <2>3. \A m \in DOMAIN batch'[w] :
            /\ batch'[w][m].id = locks[w][m]
            /\ batch'[w][m].attempts = jobs[locks[w][m]].attempts + 1
    <3>1. ASSUME NEW m \in DOMAIN locks[w]
          PROVE  /\ batch'[w][m].id = locks[w][m]
                 /\ batch'[w][m].attempts = jobs[locks[w][m]].attempts + 1
      <4>1. batch'[w][m] = [id |-> locks[w][m],
                            attempts |-> jobs[locks[w][m]].attempts + 1]
        BY <1>4
      <4>. QED
        BY <4>1
    <3>. QED
      BY <1>4, <3>1
  <2>4. OneToOne(locks[w])
    BY DEF RowInv, Locked
  <2>5. \A m \in DOMAIN locks[w] :
            /\ jobs'[locks[w][m]].status = "running"
            /\ jobs'[locks[w][m]].lockedBy = w
            /\ jobs'[locks[w][m]].attempts = jobs[locks[w][m]].attempts + 1
    <3>1. \A j : /\ Claimed(j, w).status = "running" /\ Claimed(j, w).lockedBy = w
                 /\ Claimed(j, w).attempts = jobs[j].attempts + 1
      BY DEF Claimed
    <3>. QED
      BY <2>2, <3>1
  <2>6. \A m \in DOMAIN batch'[w] :
          /\ jobs'[batch'[w][m].id].status = "running"
          /\ jobs'[batch'[w][m].id].lockedBy = w
          /\ jobs'[batch'[w][m].id].attempts = batch'[w][m].attempts
    <3>1. ASSUME NEW m \in DOMAIN batch'[w]
          PROVE  /\ m \in DOMAIN locks[w]
                 /\ batch'[w][m].id = locks[w][m]
                 /\ batch'[w][m].attempts = jobs[locks[w][m]].attempts + 1
      BY <1>4, <2>3
    <3>. QED
      BY <2>5, <3>1
  <2>7. \A m, n \in DOMAIN batch'[w] : batch'[w][m].id = batch'[w][n].id => m = n
    BY <1>4, <2>3, <2>4 DEF OneToOne
  <2>. QED
    BY <2>6, <2>7 DEF Holds
<1>16. ASSUME NEW v \in Workers \ {w}
       PROVE  Holds(v)'
  <2>1. \A j \in mine : jobs[j].status = "pending"
    <3>1. ASSUME NEW j \in mine
          PROVE  jobs[j].status = "pending"
      <4>1. PICK m \in DOMAIN locks[w] : locks[w][m] = j
        BY DEF Range
      <4>. QED
        BY <1>4, <4>1
    <3>. QED
      BY <3>1
  <2>2. \A m \in DOMAIN batch[v] :
            /\ batch[v][m].id \in JobIds
            /\ jobs[batch[v][m].id].status = "running"
    BY BatchIds DEF RowInv, Holds
  <2>3. \A m \in DOMAIN batch[v] : jobs'[batch[v][m].id] = jobs[batch[v][m].id]
    BY <1>1, <2>1, <2>2
  <2>. QED
    BY <1>5, <2>3 DEF RowInv, Holds
<1>. QED
  BY <1>10, <1>11, <1>13, <1>14, <1>15, <1>16 DEF RowInv

\* complete_job and fail_job, or a failure of theirs: the row leaves the batch.
LEMMA FinishRows ==
    ASSUME RowInv, TypeOK, NEW w \in Workers, Complete(w) \/ Fail(w) \/ FinishError(w)
    PROVE  RowInv'
<1>. DEFINE id == Job(w).id
<1>1. /\ NextJob(w) /\ pc[w] \in {"end", "fail"} /\ pc[w] \in Working
      /\ UNCHANGED <<ready, locks>>
  BY DEF Complete, Fail, FinishError, table, Working
<1>2. /\ batch'[w] = Tail(batch[w]) /\ pc'[w] \in {"poll", "run"}
      /\ \A v \in Workers \ {w} : batch'[v] = batch[v] /\ pc'[v] = pc[v]
  BY <1>1, NextJobType
<1>3. /\ 1 \in DOMAIN batch[w] /\ Job(w) = batch[w][1]
      /\ id \in JobIds
      /\ jobs[id].status = "running"
      /\ jobs[id].lockedBy = w
      /\ jobs[id].attempts = Job(w).attempts
  BY <1>1, JobFacts DEF RowInv
<1>4. /\ \A j \in JobIds \ {id} : jobs'[j] = jobs[j]
      /\ jobs'[id].status = "pending" => jobs'[id].attempts < MaxAttempts
  <2>1. jobs \in [JobIds -> Rows \cup {NoJob}]
    BY DEF TypeOK
  <2>2. CASE Complete(w)
    BY <1>3, <2>1, <2>2 DEF Complete, NoJob
  <2>3. CASE Fail(w)
    <3>1. jobs' = [jobs EXCEPT ![id] =
            [kind |-> jobs[id].kind, status |-> AfterFailure(Job(w).attempts),
             attempts |-> jobs[id].attempts, lockedBy |-> Nobody]]
      BY <2>3 DEF Fail
    <3>2. jobs'[id] = [kind |-> jobs[id].kind, status |-> AfterFailure(Job(w).attempts),
             attempts |-> jobs[id].attempts, lockedBy |-> Nobody]
      BY <1>3, <2>1, <3>1
    <3>3. jobs'[id].status = AfterFailure(Job(w).attempts) /\ jobs'[id].attempts = jobs[id].attempts
      BY <3>2
    <3>4. Job(w).attempts \in 1 .. MaxAttempts
      BY <1>1, JobFacts DEF RowInv
    <3>5. AfterFailure(Job(w).attempts) = "pending" => Job(w).attempts < MaxAttempts
      BY <3>4, JobQueueAssumption DEF AfterFailure
    <3>. QED
      BY <1>3, <2>1, <3>1, <3>3, <3>5
  <2>4. CASE FinishError(w)
    BY <1>3, <2>4 DEF FinishError, table
  <2>. QED
    BY <2>2, <2>3, <2>4
<1>5. ReadyPending'
  <2>1. \A n \in DOMAIN ready : ready[n] \in JobIds \ {id}
    BY <1>3 DEF RowInv, ReadyPending, TypeOK
  <2>. QED
    BY <1>1, <1>4, <2>1 DEF RowInv, ReadyPending
<1>6. AttemptsLeft'
  BY <1>4 DEF RowInv, AttemptsLeft
<1>7. \A v \in Workers : Locked(v)'
  BY <1>1, <1>2 DEF RowInv, Locked
<1>8. LocksApart'
  BY <1>1 DEF RowInv, LocksApart
<1>9. \A v \in Workers : \A m \in DOMAIN batch[v] : batch[v][m].id \in JobIds
  BY BatchIds
<1>10. Holds(w)'
  <2>1. batch[w] # <<>> /\ batch[w] \in Seq([id : JobIds, attempts : 1 .. MaxAttempts])
    BY <1>1 DEF TypeOK, Working
  <2>2. /\ DOMAIN batch[w] = 1 .. Len(batch[w]) /\ Len(batch[w]) \in Nat
        /\ DOMAIN batch'[w] = 1 .. (Len(batch[w]) - 1)
        /\ \A n \in DOMAIN batch'[w] :
              n + 1 \in DOMAIN batch[w] /\ batch'[w][n] = batch[w][n + 1]
    BY <1>2, <2>1, TailFacts
  <2>3. \A m, n \in DOMAIN batch[w] : batch[w][m].id = batch[w][n].id => m = n
    BY DEF RowInv, Holds
  <2>4. \A n \in DOMAIN batch'[w] : batch'[w][n].id \in JobIds \ {id} 
    BY <1>3, <1>9, <2>2, <2>3, SMTT(30)
  <2>5. \A n \in DOMAIN batch'[w] : jobs'[batch'[w][n].id] = jobs[batch[w][n + 1].id]
    BY <1>4, <2>2, <2>4
  <2>6. \A n \in DOMAIN batch'[w] :
          /\ jobs'[batch'[w][n].id].status = "running"
          /\ jobs'[batch'[w][n].id].lockedBy = w
          /\ jobs'[batch'[w][n].id].attempts = batch'[w][n].attempts
    BY <2>2, <2>5, SMTT(30) DEF RowInv, Holds
  <2>7. \A m, n \in DOMAIN batch'[w] : batch'[w][m].id = batch'[w][n].id => m = n
    <3>1. ASSUME NEW m \in DOMAIN batch'[w], NEW n \in DOMAIN batch'[w],
                 batch'[w][m].id = batch'[w][n].id
          PROVE  m = n
      <4>1. m + 1 = n + 1
        BY <2>2, <2>3, <3>1, SMTT(30)
      <4>. QED
        BY <2>2, <4>1
    <3>. QED
      BY <3>1
  <2>. QED
    BY <2>6, <2>7 DEF Holds
<1>11. ASSUME NEW v \in Workers \ {w}
       PROVE  Holds(v)'
  <2>1. \A m \in DOMAIN batch[v] : batch[v][m].id \in JobIds \ {id}
    BY <1>3, <1>9, <1>11 DEF RowInv, Holds
  <2>. QED
    BY <1>2, <1>4, <2>1 DEF RowInv, Holds
<1>. QED
  BY <1>5, <1>6, <1>7, <1>8, <1>10, <1>11 DEF RowInv
-----------------------------------------------------------------------------
\* In a start every table is empty.
LEMMA InitQueue ==
    ASSUME Init
    PROVE  QueueInv
<1>1. TypeOK
  <2>1. /\ <<>> \in Seq(JobIds) /\ <<>> \in Seq(Rules) /\ <<>> \in Seq(Kinds)
        /\ <<>> \in Seq([id : JobIds, attempts : 1 .. MaxAttempts])
    BY EmptySeq
  <2>2. TableType /\ RulesType /\ ProcessType /\ Listed
    BY <2>1 DEF Init, TableType, RulesType, ProcessType, Listed, PCs
  <2>3. Counters
    BY JobQueueAssumption DEF Init, Counters
  <2>. QED
    BY <2>2, <2>3, TypeParts
<1>2. Range(<<>>) = {} /\ OneToOne(<<>>)
  BY DEF Range, OneToOne
<1>3. ReadyPending /\ AttemptsLeft
  BY <1>2 DEF Init, ReadyPending, AttemptsLeft, NoJob
<1>4. \A w \in Workers : Locked(w) /\ Holds(w)
  BY <1>2 DEF Init, Locked, Holds
<1>5. LocksApart
  BY <1>2 DEF Init, LocksApart
<1>. QED
  BY <1>1, <1>3, <1>4, <1>5 DEF QueueInv

\* Every statement preserves the life of the rows.
LEMMA QueueStep ==
    ASSUME QueueInv, [Next]_vars
    PROVE  QueueInv'
<1>. USE DEF table, rules, budget
<1>1. TypeOK'
  BY TypeStep
<1>2. RowInv /\ TypeOK /\ pc \in [Workers -> PCs]
  BY DEF QueueInv, RowInv, TypeOK
<1>. SUFFICES RowInv'
  BY <1>1 DEF QueueInv, RowInv
<1>3. ASSUME NEW w \in Workers,
             \/ Start(w) \/ BootLook(w) \/ BootError(w) \/ Body(w) \/ ReadDue(w)
             \/ ScanRule(w) \/ ScanMalformed(w) \/ ScanEnd(w) \/ BodyError(w)
             \/ RescheduleError(w)
      PROVE  RowInv'
  <2>1. UNCHANGED <<jobs, ready, locks, batch>>
    BY <1>3 DEF Start, BootLook, BootError, Body, ReadDue, ScanRule,
       ScanMalformed, ScanEnd, BodyError, RescheduleError
  <2>2. /\ pc[w] # "claim"
        /\ \/ pc' = pc
           \/ \E p \in PCs \ {"claim"} : pc' = [pc EXCEPT ![w] = p]
    BY <1>3 DEF Start, BootLook, BootError, Booted, Body, ReadDue, ScanRule,
       ScanMalformed, ScanEnd, BodyError, RescheduleError, PCs
  <2>3. \A v \in Workers : pc'[v] = "claim" <=> pc[v] = "claim"
    BY <1>2, <2>2
  <2>. QED
    BY <1>2, <2>1, <2>3, QuietRows
<1>4. ASSUME NEW w \in Workers, BootEnqueue(w) \/ BootInsert(w)
      PROVE  RowInv'
  <2>1. /\ Booted(w) /\ pc[w] \in {"boot", "insert"}
        /\ EnqueueNow(Head(boot[w])) \/ UNCHANGED <<jobs, ready>>
        /\ UNCHANGED <<locks, batch>>
    BY <1>4 DEF BootEnqueue, BootInsert
  <2>2. /\ Head(boot[w]) \in Kinds
        /\ \A v \in Workers : pc'[v] = "claim" <=> pc[v] = "claim"
    BY <1>2, <2>1, BootedType
  <2>3. CASE EnqueueNow(Head(boot[w]))
    BY <1>2, <2>1, <2>2, <2>3, EnqueueRows DEF EnqueueNow
  <2>4. CASE UNCHANGED <<jobs, ready>>
    BY <1>2, <2>1, <2>2, <2>4, QuietRows
  <2>. QED
    BY <2>1, <2>3, <2>4
<1>5. ASSUME NEW w \in Workers, Reschedule(w)
      PROVE  RowInv'
  <2>1. /\ EnqueueLater(Kind(w)) /\ pc[w] = "again"
        /\ pc' = [pc EXCEPT ![w] = "end"] /\ UNCHANGED <<locks, batch>>
    BY <1>5 DEF Reschedule
  <2>2. Kind(w) \in Kinds
    BY <1>2, <2>1, JobFacts DEF RowInv, Kind, Rows, Working
  <2>3. \A v \in Workers : pc'[v] = "claim" <=> pc[v] = "claim"
    BY <1>2, <2>1
  <2>. QED
    BY <1>2, <2>1, <2>2, <2>3, EnqueueRows DEF EnqueueLater
<1>6. ASSUME NEW w \in Workers, Select(w) \/ Claim(w)
      PROVE  RowInv'
  BY <1>2, <1>6, SelectRows, ClaimRows
<1>7. ASSUME NEW w \in Workers, Complete(w) \/ Fail(w) \/ FinishError(w)
      PROVE  RowInv'
  BY <1>2, <1>7, FinishRows
<1>8. ASSUME NEW w \in Workers, Crash(w) \/ ClaimError(w)
      PROVE  RowInv'
  BY <1>2, <1>8, DropRows
<1>9. ASSUME NEW j \in JobIds, Elapse(j)
      PROVE  RowInv'
  BY <1>2, <1>9, ElapseRows
<1>10. CASE Tick \/ UNCHANGED vars
  <2>1. UNCHANGED <<jobs, ready, locks, batch, pc>>
    BY <1>10 DEF Tick, vars
  <2>. QED
    BY <1>2, <2>1, QuietRows
<1>. QED
  BY <1>3, <1>4, <1>5, <1>6, <1>7, <1>8, <1>9, <1>10 DEF Next, Work, Trouble

\* The life of a row, in every reachable state.
THEOREM QueueInvariance == Spec => []QueueInv
<1>1. Init => QueueInv
  BY InitQueue
<1>2. QueueInv /\ [Next]_vars => QueueInv'
  BY QueueStep
<1>. QED
  BY <1>1, <1>2, PTL DEF Spec

\* Every variable has its type, and a process has what the statement it has
\* reached works on.
THEOREM TypeCorrect == Spec => []TypeOK
<1>1. QueueInv => TypeOK
  BY DEF QueueInv
<1>. QED
  BY <1>1, QueueInvariance, PTL

\* complete_job and fail_job update by id, long after the claim was committed;
\* whatever stops, fails or is claimed in between, the row they update is still
\* running under the name of the worker that claimed it, with its attempts, and
\* is in no other batch.
THEOREM HoldersDisjoint == Spec => []OneHolder
<1>1. QueueInv => OneHolder
  <2>. SUFFICES ASSUME QueueInv, NEW w \in Workers
                PROVE  /\ \A i \in DOMAIN batch[w] :
                            /\ jobs[batch[w][i].id].status = "running"
                            /\ jobs[batch[w][i].id].lockedBy = w
                            /\ jobs[batch[w][i].id].attempts = batch[w][i].attempts
                       /\ Cardinality(Ids(batch[w])) = Len(batch[w])
    BY DEF OneHolder
  <2>1. Holds(w)
    BY DEF QueueInv
  <2>2. batch[w] \in Seq([id : JobIds, attempts : 1 .. MaxAttempts])
    BY DEF QueueInv, TypeOK
  <2>. DEFINE n == Len(batch[w])
              f == [i \in 1 .. n |-> batch[w][i].id]
              S == Ids(batch[w])
  <2>3. n \in Nat /\ DOMAIN batch[w] = 1 .. n
    BY <2>2, LenProperties
  <2>4. f \in Bijection(1 .. n, S)
    <3>1. f \in [1 .. n -> S]
      BY <2>3 DEF Ids
    <3>2. \A a, b \in DOMAIN f : f[a] = f[b] => a = b
      BY <2>1, <2>3 DEF Holds
    <3>3. \A t \in S : \E s \in 1 .. n : f[s] = t
      BY <2>3 DEF Ids
    <3>. QED
      BY <3>1, <3>2, <3>3 DEF Bijection, Injection, Surjection, IsInjective
  <2>5. Cardinality(S) = n
    <3>. HIDE DEF n, f, S
    <3>1. ExistsBijection(1 .. n, S)
      BY <2>4 DEF ExistsBijection
    <3>. QED
      BY <2>3, <3>1, FS_CountingElements
  <2>. QED
    BY <2>1, <2>5 DEF Holds
<1>. QED
  BY <1>1, QueueInvariance, PTL
-----------------------------------------------------------------------------
(***************************************************************************)
(* The recurring rules.  A rule is booked and advanced in one transaction; *)
(* a scan works through the list it read without looking again, so the     *)
(* bound on early bookings counts the scans that still have the rule ahead *)
(* of them, each of them once (DueOnce).                                   *)
(***************************************************************************)

DueOnce == \A w \in Workers : OneToOne(due[w])

RulesInv == TypeOK /\ DueOnce /\ EachAdvanceBooked /\ NotEarly

\* What the statements do to the rules and to the lists of the scans.
LEMMA RulesMove ==
    ASSUME [Next]_vars
    PROVE  \/ /\ UNCHANGED <<next, made, month>>
              /\ \/ due' = due
                 \/ \E w \in Workers : due' = [due EXCEPT ![w] = <<>>]
           \/ month' = month + 1 /\ UNCHANGED <<next, made, due>>
           \/ \E w \in Workers : ReadDue(w) \/ ScanRule(w)
<1>. USE DEF table, rules, budget
<1>1. ASSUME NEW w \in Workers, Start(w) \/ Work(w) \/ Trouble(w),
             ~ReadDue(w), ~ScanRule(w)
      PROVE  /\ UNCHANGED <<next, made, month>>
             /\ due' = due \/ due' = [due EXCEPT ![w] = <<>>]
  <2>1. CASE Start(w) \/ Work(w)
    BY <1>1, <2>1 DEF Start, Work, BootEnqueue, BootLook, BootInsert, Select,
       Claim, Body, ScanMalformed, ScanEnd, Reschedule, Complete, Fail
  <2>2. CASE Trouble(w)
    BY <2>2 DEF Trouble, BootError, Crash, ClaimError, BodyError,
       RescheduleError, FinishError
  <2>. QED
    BY <1>1, <2>1, <2>2
<1>2. CASE (\E j \in JobIds : Elapse(j)) \/ UNCHANGED vars
  BY <1>2 DEF Elapse, vars
<1>3. CASE Tick
  BY <1>3 DEF Tick
<1>. QED
  BY <1>1, <1>2, <1>3 DEF Next

\* A scan comes to the first rule of its list.
LEMMA ScanRuleFacts ==
    ASSUME RulesInv, NEW w \in Workers, ScanRule(w)
    PROVE  LET r == Head(due[w]) IN
           /\ r \in Rules /\ r \in Range(due[w])
           /\ Range(due'[w]) = Range(due[w]) \ {r}
           /\ OneToOne(due'[w])
           /\ \A v \in Workers \ {w} : due'[v] = due[v]
           /\ next' = [next EXCEPT ![r] = @ + 1]
           /\ \/ Payload[r] = "good" /\ made' = [made EXCEPT ![r] = @ + 1]
              \/ Payload[r] = "unbalanced" /\ made' = made
<1>. DEFINE s == due[w]
            r == Head(s)
<1>1. s \in Seq(Rules) /\ s # <<>> /\ OneToOne(s) /\ due \in [Workers -> Seq(Rules)]
  BY DEF RulesInv, TypeOK, DueOnce, ScanRule
<1>2. due' = [due EXCEPT ![w] = Tail(s)]
  BY DEF ScanRule
<1>3. due'[w] = Tail(s) /\ \A v \in Workers \ {w} : due'[v] = due[v]
  BY <1>1, <1>2
<1>4. /\ 1 \in DOMAIN s /\ r = s[1] /\ r \in Rules
      /\ Len(s) \in Nat \ {0}
      /\ DOMAIN s = 1 .. Len(s)
      /\ DOMAIN Tail(s) = 1 .. (Len(s) - 1)
      /\ \A n \in DOMAIN Tail(s) : n + 1 \in DOMAIN s /\ Tail(s)[n] = s[n + 1]
  <2>. HIDE DEF s
  <2>. QED
    BY <1>1, TailFacts
<1>5. OneToOne(Tail(s))
  <2>1. ASSUME NEW m \in DOMAIN Tail(s), NEW n \in DOMAIN Tail(s),
               Tail(s)[m] = Tail(s)[n]
        PROVE  m = n
    <3>1. m + 1 = n + 1
      BY <1>1, <1>4, <2>1 DEF OneToOne
    <3>. QED
      BY <1>4, <3>1
  <2>. QED
    BY <2>1 DEF OneToOne
<1>6. Range(Tail(s)) \subseteq Range(s) \ {r}
  <2>1. ASSUME NEW n \in DOMAIN Tail(s)
        PROVE  Tail(s)[n] \in Range(s) \ {r}
    <3>1. s[n + 1] \in Range(s)
      BY <1>4, <2>1 DEF Range
    <3>2. n + 1 # 1
      BY <1>4, <2>1
    <3>. QED
      BY <1>1, <1>4, <2>1, <3>1, <3>2 DEF OneToOne
  <2>. QED
    BY <2>1 DEF Range
<1>7. Range(s) \ {r} \subseteq Range(Tail(s))
  <2>1. ASSUME NEW m \in DOMAIN s, s[m] # r
        PROVE  s[m] \in Range(Tail(s))
    <3>1. m - 1 \in DOMAIN Tail(s) /\ Tail(s)[m - 1] = s[(m - 1) + 1] /\ (m - 1) + 1 = m
      BY <1>4, <2>1
    <3>. QED
      BY <3>1 DEF Range
  <2>. QED
    BY <2>1 DEF Range
<1>8. /\ next' = [next EXCEPT ![r] = @ + 1]
      /\ \/ Payload[r] = "good" /\ made' = [made EXCEPT ![r] = @ + 1]
         \/ Payload[r] = "unbalanced" /\ made' = made
  BY DEF ScanRule, Materialise
<1>9. r \in Range(s)
  BY <1>4 DEF Range
<1>. QED
  BY <1>3, <1>4, <1>5, <1>6, <1>7, <1>8, <1>9

\* A scan reads the rules that are due, each of them once.
LEMMA ReadDueFacts ==
    ASSUME RulesInv, NEW w \in Workers, ReadDue(w)
    PROVE  /\ UNCHANGED <<next, made, month>>
           /\ \A v \in Workers \ {w} : due'[v] = due[v]
           /\ Range(due'[w]) \subseteq DueRules
           /\ OneToOne(due'[w])
<1>. DEFINE S == DueRules
<1>1. PICK s \in [1 .. Cardinality(S) -> S] :
          /\ due' = [due EXCEPT ![w] = s]
          /\ \A m, n \in DOMAIN s : m < n => Before(s[m], s[n])
  BY DEF ReadDue, Sorted
<1>2. due \in [Workers -> Seq(Rules)] /\ next \in [Rules -> Nat]
  BY DEF RulesInv, TypeOK
<1>3. S \subseteq Rules /\ IsFiniteSet(S)
  BY FS_Subset, JobQueueAssumption DEF DueRules
<1>4. \A r \in Rules : ~Before(r, r)
  BY <1>2, JobQueueAssumption DEF Before
<1>. HIDE DEF S
<1>5. /\ Range(s) \subseteq S /\ DOMAIN s = 1 .. Cardinality(S)
      /\ Cardinality(S) \in Nat
  BY <1>3, SortedIsSeq
<1>6. OneToOne(s)
  <2>1. ASSUME NEW m \in DOMAIN s, NEW n \in DOMAIN s, s[m] = s[n], m # n
        PROVE  FALSE
    <3>1. m < n \/ n < m
      BY <1>5, <2>1
    <3>2. s[m] \in Rules
      BY <1>3
    <3>. QED
      BY <1>1, <1>4, <2>1, <3>1, <3>2
  <2>. QED
    BY <2>1 DEF OneToOne
<1>7. due'[w] = s /\ \A v \in Workers \ {w} : due'[v] = due[v]
  BY <1>1, <1>2
<1>. QED
  BY <1>5, <1>6, <1>7 DEF S, ReadDue, rules

\* Sets of workers have a size, and a smaller set a smaller one.
LEMMA WorkerSets ==
    ASSUME NEW S, S \subseteq Workers
    PROVE  /\ IsFiniteSet(S) /\ Cardinality(S) \in Nat
           /\ Cardinality(S) <= Cardinality(Workers)
           /\ Cardinality(Workers) \in Nat
           /\ \A T \in SUBSET S : Cardinality(T) <= Cardinality(S) /\ Cardinality(T) \in Nat
           /\ \A x \in S : Cardinality(S \ {x}) = Cardinality(S) - 1
<1>1. IsFiniteSet(Workers)
  BY JobQueueAssumption
<1>2. IsFiniteSet(S) /\ Cardinality(S) <= Cardinality(Workers)
  BY <1>1, FS_Subset
<1>3. Cardinality(S) \in Nat /\ Cardinality(Workers) \in Nat
  BY <1>1, <1>2, FS_CardinalityType
<1>4. \A T \in SUBSET S : Cardinality(T) <= Cardinality(S) /\ Cardinality(T) \in Nat
  BY <1>2, FS_Subset, FS_CardinalityType
<1>5. \A x \in S : Cardinality(S \ {x}) = Cardinality(S) - 1
  BY <1>2, FS_RemoveElement
<1>. QED
  BY <1>2, <1>3, <1>4, <1>5

\* No statement books a rule twice for one month or earlier than the bound.
LEMMA RulesStep ==
    ASSUME RulesInv, TypeOK', [Next]_vars
    PROVE  RulesInv'
<1>0. /\ next \in [Rules -> Nat] /\ made \in [Rules -> Nat] /\ month \in Nat
      /\ due \in [Workers -> Seq(Rules)]
      /\ \A r \in Rules : Scanning(r) \subseteq Workers /\ Scanning(r)' \subseteq Workers
  BY JobQueueAssumption DEF RulesInv, TypeOK, Scanning
<1>1. \/ /\ UNCHANGED <<next, made, month>>
         /\ \/ due' = due
            \/ \E w \in Workers : due' = [due EXCEPT ![w] = <<>>]
      \/ month' = month + 1 /\ UNCHANGED <<next, made, due>>
      \/ \E w \in Workers : ReadDue(w) \/ ScanRule(w)
  BY RulesMove
<1>2. CASE \/ /\ UNCHANGED <<next, made, month>>
              /\ \/ due' = due
                 \/ \E w \in Workers : due' = [due EXCEPT ![w] = <<>>]
           \/ month' = month + 1 /\ UNCHANGED <<next, made, due>>
  <2>1. \A v \in Workers : due'[v] = due[v] \/ due'[v] = <<>>
    BY <1>0, <1>2
  <2>2. Range(<<>>) = {} /\ OneToOne(<<>>)
    BY DEF Range, OneToOne
  <2>3. DueOnce'
    BY <2>1, <2>2 DEF RulesInv, DueOnce
  <2>4. EachAdvanceBooked'
    BY <1>2 DEF RulesInv, EachAdvanceBooked
  <2>5. ASSUME NEW r \in Rules
        PROVE  next'[r] + Cardinality(Scanning(r)') <= month' + Cardinality(Workers)
    <3>1. Scanning(r)' \subseteq Scanning(r)
      BY <2>1, <2>2 DEF Scanning
    <3>2. /\ Cardinality(Scanning(r)') <= Cardinality(Scanning(r))
          /\ Cardinality(Scanning(r)') \in Nat /\ Cardinality(Scanning(r)) \in Nat
          /\ Cardinality(Workers) \in Nat
      BY <1>0, <3>1, WorkerSets
    <3>3. next[r] + Cardinality(Scanning(r)) <= month + Cardinality(Workers)
      BY DEF RulesInv, NotEarly
    <3>4. next'[r] = next[r] /\ month' >= month /\ month' \in Nat /\ next[r] \in Nat
      BY <1>0, <1>2
    <3>. QED
      BY <1>0, <3>2, <3>3, <3>4
  <2>. QED
    BY <2>3, <2>4, <2>5 DEF RulesInv, NotEarly
<1>3. ASSUME NEW w \in Workers, ReadDue(w)
      PROVE  RulesInv'
  <2>1. /\ UNCHANGED <<next, made, month>>
        /\ \A v \in Workers \ {w} : due'[v] = due[v]
        /\ Range(due'[w]) \subseteq DueRules
        /\ OneToOne(due'[w])
    BY <1>3, ReadDueFacts
  <2>2. DueOnce'
    BY <2>1 DEF RulesInv, DueOnce
  <2>3. EachAdvanceBooked'
    BY <2>1 DEF RulesInv, EachAdvanceBooked
  <2>4. ASSUME NEW r \in Rules
        PROVE  next'[r] + Cardinality(Scanning(r)') <= month' + Cardinality(Workers)
    <3>0. /\ Cardinality(Scanning(r)') \in Nat /\ Cardinality(Scanning(r)) \in Nat
          /\ Cardinality(Workers) \in Nat
          /\ Cardinality(Scanning(r)') <= Cardinality(Workers)
      BY <1>0, WorkerSets
    <3>1. CASE next[r] <= month
      BY <1>0, <2>1, <3>0, <3>1
    <3>2. CASE ~(next[r] <= month)
      <4>1. Scanning(r)' \subseteq Scanning(r)
        BY <2>1, <3>2 DEF Scanning, DueRules
      <4>2. Cardinality(Scanning(r)') <= Cardinality(Scanning(r))
        BY <1>0, <4>1, WorkerSets
      <4>3. next[r] + Cardinality(Scanning(r)) <= month + Cardinality(Workers)
        BY DEF RulesInv, NotEarly
      <4>. QED
        BY <1>0, <2>1, <3>0, <4>2, <4>3
    <3>. QED
      BY <3>1, <3>2
  <2>. QED
    BY <2>2, <2>3, <2>4 DEF RulesInv, NotEarly
<1>4. ASSUME NEW w \in Workers, ScanRule(w)
      PROVE  RulesInv'
  <2>. DEFINE q == Head(due[w])
  <2>1. /\ q \in Rules /\ q \in Range(due[w])
        /\ Range(due'[w]) = Range(due[w]) \ {q}
        /\ OneToOne(due'[w])
        /\ \A v \in Workers \ {w} : due'[v] = due[v]
        /\ next' = [next EXCEPT ![q] = @ + 1]
        /\ \/ Payload[q] = "good" /\ made' = [made EXCEPT ![q] = @ + 1]
           \/ Payload[q] = "unbalanced" /\ made' = made
        /\ month' = month
    BY <1>4, ScanRuleFacts DEF ScanRule
  <2>2. DueOnce'
    BY <2>1 DEF RulesInv, DueOnce
  <2>3. EachAdvanceBooked'
    <3>1. \A r \in Rules : made[r] = IF Payload[r] = "good" THEN next[r] ELSE 0
      BY DEF RulesInv, EachAdvanceBooked
    <3>. HIDE DEF q
    <3>2. CASE Payload[q] = "good" /\ made' = [made EXCEPT ![q] = @ + 1]
      BY <1>0, <2>1, <3>1, <3>2 DEF EachAdvanceBooked
    <3>3. CASE Payload[q] = "unbalanced" /\ made' = made
      BY <1>0, <2>1, <3>1, <3>3 DEF EachAdvanceBooked
    <3>. QED
      BY <2>1, <3>2, <3>3
  <2>4. ASSUME NEW r \in Rules
        PROVE  next'[r] + Cardinality(Scanning(r)') <= month' + Cardinality(Workers)
    <3>0. /\ Cardinality(Scanning(r)') \in Nat /\ Cardinality(Scanning(r)) \in Nat
          /\ Cardinality(Workers) \in Nat
      BY <1>0, WorkerSets
    <3>1. next[r] + Cardinality(Scanning(r)) <= month + Cardinality(Workers)
      BY DEF RulesInv, NotEarly
    <3>2. CASE r = q
      <4>1. Scanning(r)' = Scanning(r) \ {w} /\ w \in Scanning(r)
        BY <2>1, <3>2 DEF Scanning
      <4>2. Cardinality(Scanning(r)') = Cardinality(Scanning(r)) - 1
        BY <1>0, <4>1, WorkerSets
      <4>3. next'[r] = next[r] + 1
        BY <1>0, <2>1, <3>2
      <4>. QED
        BY <1>0, <2>1, <3>0, <3>1, <4>2, <4>3
    <3>3. CASE r # q
      <4>1. Scanning(r)' \subseteq Scanning(r)
        BY <2>1 DEF Scanning
      <4>2. Cardinality(Scanning(r)') <= Cardinality(Scanning(r))
        BY <1>0, <4>1, WorkerSets
      <4>3. next'[r] = next[r]
        BY <1>0, <2>1, <3>3
      <4>. QED
        BY <1>0, <2>1, <3>0, <3>1, <4>2, <4>3, SMTT(30)
    <3>. QED
      BY <3>2, <3>3
  <2>. QED
    BY <2>2, <2>3, <2>4 DEF RulesInv, NotEarly
<1>. QED
  BY <1>1, <1>2, <1>3, <1>4

\* The rules, in every reachable state.
THEOREM RulesInvariance == Spec => []RulesInv
<1>1. ASSUME Init
      PROVE  RulesInv
  <2>1. TypeOK
    BY <1>1, InitQueue DEF QueueInv
  <2>2. Range(<<>>) = {} /\ OneToOne(<<>>)
    BY DEF Range, OneToOne
  <2>3. DueOnce
    BY <1>1, <2>2 DEF Init, DueOnce
  <2>4. EachAdvanceBooked
    BY <1>1 DEF Init, EachAdvanceBooked
  <2>5. NotEarly
    <3>1. \A r \in Rules : next[r] = 0 /\ month = 0 /\ Scanning(r) = {}
      BY <1>1, <2>2 DEF Init, Scanning
    <3>2. Cardinality({}) = 0 /\ Cardinality(Workers) \in Nat
      BY WorkerSets, FS_EmptySet
    <3>. QED
      BY <3>1, <3>2 DEF NotEarly
  <2>. QED
    BY <2>1, <2>3, <2>4, <2>5 DEF RulesInv
<1>2. RulesInv /\ TypeOK' /\ [Next]_vars => RulesInv'
  BY RulesStep
<1>. QED
  BY <1>1, <1>2, TypeCorrect, PTL DEF Spec

\* Whatever stops, fails or overlaps, the transactions booked for a rule are
\* exactly as many as the months it has been advanced by: the transaction of
\* generate_due_recurring leaves no rule booked and not advanced, or the reverse.
THEOREM AdvancesBooked == Spec => []EachAdvanceBooked
<1>1. RulesInv => EachAdvanceBooked
  BY DEF RulesInv
<1>. QED
  BY <1>1, RulesInvariance, PTL

\* generate_due_recurring books without reading next_run_at again: for any
\* number of workers, a rule runs ahead of the month by less than the number of
\* scans that overlap, so one worker alone never books early.
THEOREM BookedInTime == Spec => []NotEarly
<1>1. RulesInv => NotEarly
  BY DEF RulesInv
<1>. QED
  BY <1>1, RulesInvariance, PTL
-----------------------------------------------------------------------------
(***************************************************************************)
(* Registrations.  The pending rows of a job type alone are not bounded by *)
(* an inductive invariant: a row that is being worked on comes back when   *)
(* its job fails, and leaves a successor when it does not.  What is        *)
(* bounded is the rows that are pending or worked on and have not left     *)
(* their successor yet (Coming) together with the processes that have seen *)
(* no row and will insert one (Inserting).                                 *)
(***************************************************************************)

\* The jobs of a worker's batch that have not left their successor.
Busy(w) == {j \in Ids(batch[w]) : ~(pc[w] = "end" /\ Job(w).id = j)}

InWork(j) == \E w \in Workers : j \in Busy(w)

Coming(k) ==
    {j \in JobIds : /\ \/ jobs[j].status = "pending"
                       \/ jobs[j].status = "running" /\ InWork(j)
                    /\ jobs[j].kind = k}

Inserting(k) == {w \in Workers : pc[w] = "insert" /\ absent[w] /\ Head(boot[w]) = k}

FewComing ==
    \A k \in IfAbsent :
        Cardinality(Coming(k)) + Cardinality(Inserting(k)) <= Cardinality(Workers)

\* The rows of a batch.
LEMMA BatchRows ==
    ASSUME QueueInv, NEW w \in Workers, NEW j \in Ids(batch[w])
    PROVE  /\ j \in JobIds
           /\ jobs[j].status = "running" /\ jobs[j].lockedBy = w
<1>1. PICK m \in DOMAIN batch[w] : batch[w][m].id = j
  BY DEF Ids
<1>2. TypeOK /\ Holds(w)
  BY DEF QueueInv
<1>3. j \in JobIds
  BY <1>1, <1>2, BatchIds
<1>. QED
  BY <1>1, <1>2, <1>3 DEF Holds

\* Sizes of sets of rows.
LEMMA RowSets ==
    ASSUME NEW S, S \subseteq JobIds
    PROVE  /\ Cardinality(S) \in Nat
           /\ \A T \in SUBSET S : Cardinality(T) <= Cardinality(S) /\ Cardinality(T) \in Nat
           /\ \A x \in JobIds : \A T \in SUBSET (S \cup {x}) :
                 Cardinality(T) <= Cardinality(S) + 1 /\ Cardinality(T) \in Nat
           /\ \A y \in S : \A x \in JobIds : \A T \in SUBSET ((S \ {y}) \cup {x}) :
                 Cardinality(T) <= Cardinality(S) /\ Cardinality(T) \in Nat
<1>1. IsFiniteSet(S) /\ Cardinality(S) \in Nat
  BY JobsFinite, FS_CardinalityType
<1>2. ASSUME NEW U, IsFiniteSet(U), NEW T \in SUBSET U
      PROVE  Cardinality(T) <= Cardinality(U) /\ Cardinality(T) \in Nat /\ Cardinality(U) \in Nat
  BY <1>2, FS_Subset, FS_CardinalityType
<1>3. ASSUME NEW x, NEW T \in SUBSET (S \cup {x})
      PROVE  Cardinality(T) <= Cardinality(S) + 1 /\ Cardinality(T) \in Nat
  <2>1. /\ IsFiniteSet(S \cup {x})
        /\ Cardinality(S \cup {x}) = IF x \in S THEN Cardinality(S) ELSE Cardinality(S) + 1
    BY <1>1, FS_AddElement
  <2>. QED
    BY <1>1, <1>2, <2>1
<1>4. ASSUME NEW y \in S, NEW x, NEW T \in SUBSET ((S \ {y}) \cup {x})
      PROVE  Cardinality(T) <= Cardinality(S) /\ Cardinality(T) \in Nat
  <2>. DEFINE R == S \ {y}
  <2>1. IsFiniteSet(R) /\ Cardinality(R) = Cardinality(S) - 1
    BY <1>1, FS_RemoveElement
  <2>. HIDE DEF R
  <2>2. /\ IsFiniteSet(R \cup {x})
        /\ Cardinality(R \cup {x}) = IF x \in R THEN Cardinality(R) ELSE Cardinality(R) + 1
    BY <2>1, FS_AddElement
  <2>3. Cardinality(T) <= Cardinality(R \cup {x}) /\ Cardinality(T) \in Nat
    BY <1>2, <2>2 DEF R
  <2>. QED
    BY <1>1, <2>1, <2>2, <2>3
<1>. QED
  BY <1>1, <1>2, <1>3, <1>4

\* When neither set grows the bound stays.
LEMMA ComingShrinks ==
    ASSUME FewComing, NEW k \in IfAbsent,
           Coming(k)' \subseteq Coming(k), Inserting(k)' \subseteq Inserting(k)
    PROVE  Cardinality(Coming(k)') + Cardinality(Inserting(k)') <= Cardinality(Workers)
<1>1. Coming(k) \subseteq JobIds /\ Inserting(k) \subseteq Workers
  BY DEF Coming, Inserting
<1>2. /\ Cardinality(Coming(k)') <= Cardinality(Coming(k))
      /\ Cardinality(Coming(k)') \in Nat /\ Cardinality(Coming(k)) \in Nat
  BY <1>1, RowSets
<1>3. /\ Cardinality(Inserting(k)') <= Cardinality(Inserting(k))
      /\ Cardinality(Inserting(k)') \in Nat /\ Cardinality(Inserting(k)) \in Nat
      /\ Cardinality(Workers) \in Nat
  BY <1>1, WorkerSets
<1>4. Cardinality(Coming(k)) + Cardinality(Inserting(k)) <= Cardinality(Workers)
  BY DEF FewComing
<1>. QED
  BY <1>2, <1>3, <1>4

\* A step that leaves the rows alone adds nothing.
LEMMA QuietComing ==
    ASSUME UNCHANGED jobs, \A v \in Workers : Busy(v)' \subseteq Busy(v), NEW k
    PROVE  Coming(k)' \subseteq Coming(k)
  BY DEF Coming, InWork

\* An INSERT adds one row, of its own type.
LEMMA EnqueueComing ==
    ASSUME QueueInv, NEW k \in Kinds, NEW j \in FreeIds,
           jobs' = [jobs EXCEPT ![j] = NewJob(k)],
           \A v \in Workers : Busy(v)' \subseteq Busy(v)
    PROVE  /\ j \in JobIds
           /\ Coming(k)' \subseteq Coming(k) \cup {j}
           /\ \A i \in Kinds \ {k} : Coming(i)' \subseteq Coming(i)
<1>1. /\ j \in JobIds /\ jobs'[j] = NewJob(k)
      /\ \A i \in JobIds \ {j} : jobs'[i] = jobs[i]
  BY DEF FreeIds, QueueInv, TypeOK
<1>2. jobs'[j].kind = k
  BY <1>1 DEF NewJob
<1>3. \A i \in JobIds : InWork(i)' => InWork(i)
  BY DEF InWork
<1>. QED
  BY <1>1, <1>2, <1>3 DEF Coming

\* A worker that is not finishing keeps its batch.
LEMMA SameBusy ==
    ASSUME NEW v \in Workers, batch'[v] = batch[v], pc[v] = "end" => pc'[v] = "end"
    PROVE  Busy(v)' \subseteq Busy(v)
  BY DEF Busy, Job

\* A process that has not just looked does not begin to insert.
LEMMA SameInserting ==
    ASSUME NEW k,
           \A v \in Workers :
               \/ pc'[v] # "insert"
               \/ ~absent'[v]
               \/ pc'[v] = pc[v] /\ absent'[v] = absent[v] /\ boot'[v] = boot[v]
    PROVE  Inserting(k)' \subseteq Inserting(k)
  BY DEF Inserting

\* A claim: rows that were pending are worked on.
LEMMA ClaimComing ==
    ASSUME QueueInv, NEW w \in Workers, Claim(w), NEW k
    PROVE  Coming(k)' \subseteq Coming(k)
<1>. DEFINE mine == Range(locks[w])
<1>1. /\ jobs' = [j \in JobIds |-> IF j \in mine THEN Claimed(j, w) ELSE jobs[j]]
      /\ pc' = [pc EXCEPT ![w] = "run"]
      /\ \A v \in Workers \ {w} : batch'[v] = batch[v] /\ pc'[v] = pc[v]
  BY DEF Claim, QueueInv, TypeOK
<1>2. \A j \in mine : j \in JobIds /\ jobs[j].status = "pending"
  <2>1. \A m \in DOMAIN locks[w] :
            locks[w][m] \in JobIds /\ jobs[locks[w][m]].status = "pending"
    BY ClaimType
  <2>. QED
    BY <2>1 DEF Range
<1>3. \A j \in Ids(batch'[w]) : j \in mine
  <2>1. /\ DOMAIN batch'[w] = DOMAIN locks[w]
        /\ \A m \in DOMAIN locks[w] :
              batch'[w][m] = [id |-> locks[w][m],
                              attempts |-> jobs[locks[w][m]].attempts + 1]
    BY ClaimType
  <2>2. ASSUME NEW m \in DOMAIN locks[w]
        PROVE  batch'[w][m].id = locks[w][m]
    <3>1. batch'[w][m] = [id |-> locks[w][m],
                          attempts |-> jobs[locks[w][m]].attempts + 1]
      BY <2>1
    <3>. QED
      BY <3>1
  <2>. QED
    BY <2>1, <2>2 DEF Ids, Range
<1>4. \A j \in mine : Claimed(j, w).kind = jobs[j].kind /\ Claimed(j, w).status = "running"
  BY DEF Claimed
<1>. HIDE DEF mine
<1>5. \A j \in JobIds : jobs'[j].kind = jobs[j].kind
  BY <1>1, <1>4
<1>6. ASSUME NEW j \in JobIds, jobs'[j].status = "running", InWork(j)', j \notin mine
      PROVE  jobs[j].status = "running" /\ InWork(j)
  <2>1. PICK v \in Workers : j \in Busy(v)'
    BY <1>6 DEF InWork
  <2>2. v # w
    BY <1>3, <1>6, <2>1 DEF Busy
  <2>3. Busy(v)' \subseteq Busy(v)
    BY <1>1, <2>2, SameBusy
  <2>. QED
    BY <1>1, <1>6, <2>1, <2>3 DEF InWork
<1>7. ASSUME NEW j \in JobIds, jobs'[j].status = "pending"
      PROVE  jobs[j].status = "pending"
  BY <1>1, <1>4, <1>7
<1>. QED
  BY <1>2, <1>5, <1>6, <1>7 DEF Coming

\* The end of a job: its row is gone, or pending again, or nobody's.
LEMMA FinishComing ==
    ASSUME QueueInv, QueueInv', NEW w \in Workers,
           Complete(w) \/ Fail(w) \/ FinishError(w), NEW k
    PROVE  Coming(k)' \subseteq Coming(k)
<1>. DEFINE id == Job(w).id
<1>1. NextJob(w) /\ pc[w] \in {"end", "fail"} /\ pc[w] \in Working /\ TypeOK /\ Holds(w)
  BY DEF Complete, Fail, FinishError, Working, QueueInv
<1>2. /\ batch'[w] = Tail(batch[w])
      /\ \A v \in Workers \ {w} : batch'[v] = batch[v] /\ pc'[v] = pc[v]
  BY <1>1, NextJobType
<1>3. /\ 1 \in DOMAIN batch[w] /\ Job(w) = batch[w][1]
      /\ id \in JobIds /\ id \in Ids(batch[w])
      /\ jobs[id].status = "running"
  BY <1>1, JobFacts DEF Ids
<1>4. \A j \in JobIds \ {id} : jobs'[j] = jobs[j]
  BY <1>3 DEF Complete, Fail, FinishError, table, TypeOK, QueueInv
<1>5. Ids(batch'[w]) \subseteq Ids(batch[w]) \ {id}
  <2>1. batch[w] # <<>> /\ batch[w] \in Seq([id : JobIds, attempts : 1 .. MaxAttempts])
    BY <1>1 DEF TypeOK, Working
  <2>2. /\ DOMAIN batch[w] = 1 .. Len(batch[w]) /\ Len(batch[w]) \in Nat
        /\ DOMAIN batch'[w] = 1 .. (Len(batch[w]) - 1)
        /\ \A n \in DOMAIN batch'[w] :
              n + 1 \in DOMAIN batch[w] /\ batch'[w][n] = batch[w][n + 1]
    BY <1>2, <2>1, TailFacts
  <2>3. \A m, n \in DOMAIN batch[w] : batch[w][m].id = batch[w][n].id => m = n
    BY <1>1 DEF Holds
  <2>4. ASSUME NEW n \in DOMAIN batch'[w]
        PROVE  batch'[w][n].id \in Ids(batch[w]) /\ batch'[w][n].id # id
    <3>1. n + 1 \in DOMAIN batch[w] /\ batch'[w][n] = batch[w][n + 1] /\ n + 1 # 1
      BY <2>2, <2>4
    <3>. QED
      BY <1>3, <2>3, <3>1 DEF Ids
  <2>. QED
    BY <2>4 DEF Ids
<1>. HIDE DEF id
<1>6. ASSUME NEW v \in Workers, NEW j \in Busy(v)'
      PROVE  j # id /\ j \in Busy(v)
  <2>1. CASE v = w
    BY <1>5, <1>6, <2>1 DEF Busy, id
  <2>2. CASE v # w
    <3>1. Busy(v)' \subseteq Busy(v)
      BY <1>2, <2>2, SameBusy
    <3>2. j \in Ids(batch[v])
      BY <1>6, <3>1 DEF Busy
    <3>3. jobs[j].lockedBy = v /\ jobs[id].lockedBy = w
      BY <1>3, <3>2, BatchRows
    <3>. QED
      BY <1>6, <2>2, <3>1, <3>3
  <2>. QED
    BY <2>1, <2>2
<1>7. ASSUME NEW j \in JobIds, InWork(j)'
      PROVE  j # id /\ InWork(j)
  BY <1>6, <1>7 DEF InWork
<1>8. ASSUME id \in Coming(k)'
      PROVE  id \in Coming(k)
  <2>1. jobs'[id].status = "pending" /\ jobs'[id].kind = k
    BY <1>3, <1>7, <1>8 DEF Coming
  <2>2. jobs \in [JobIds -> Rows \cup {NoJob}]
    BY <1>1 DEF TypeOK
  <2>3. ~Complete(w)
    <3>1. ASSUME Complete(w) PROVE FALSE
      <4>1. jobs'[id] = NoJob
        BY <1>3, <2>2, <3>1 DEF Complete, id
      <4>. QED
        BY <2>1, <4>1 DEF NoJob
    <3>. QED
      BY <3>1
  <2>4. ~FinishError(w)
    BY <1>3, <2>1 DEF FinishError, table
  <2>5. Fail(w)
    BY <2>3, <2>4
  <2>6. jobs'[id].kind = jobs[id].kind
    <3>1. jobs' = [jobs EXCEPT ![id] =
            [kind |-> jobs[id].kind, status |-> AfterFailure(Job(w).attempts),
             attempts |-> jobs[id].attempts, lockedBy |-> Nobody]]
      BY <2>5 DEF Fail, id
    <3>. QED
      BY <1>3, <2>2, <3>1
  <2>7. id \in Busy(w)
    BY <1>3, <2>5 DEF Busy, Fail
  <2>. QED
    BY <1>3, <2>1, <2>6, <2>7 DEF Coming, InWork
<1>9. ASSUME NEW j \in Coming(k)', j # id
      PROVE  j \in Coming(k)
  BY <1>4, <1>7, <1>9 DEF Coming
<1>. QED
  BY <1>8, <1>9
\* The successor takes the place of the job that leaves it.
LEMMA RescheduleComing ==
    ASSUME QueueInv, NEW w \in Workers, Reschedule(w), FewComing, NEW k \in IfAbsent
    PROVE  Cardinality(Coming(k)') + Cardinality(Inserting(k)') <= Cardinality(Workers)
<1>1. /\ pc[w] = "again" /\ pc' = [pc EXCEPT ![w] = "end"] /\ EnqueueLater(Kind(w))
      /\ UNCHANGED <<batch, absent, boot>>
  BY DEF Reschedule
<1>2. TypeOK /\ Holds(w) /\ pc \in [Workers -> PCs] /\ pc[w] \in Working
  BY <1>1 DEF QueueInv, TypeOK, Working
<1>3. PICK id \in JobIds :
          /\ id = Job(w).id /\ id \in Ids(batch[w])
          /\ jobs[id].status = "running" /\ jobs[id].lockedBy = w
          /\ jobs[id] \in Rows
  BY <1>2, JobFacts DEF Ids
<1>4. PICK k0 \in Kinds : k0 = Kind(w) /\ k0 = jobs[id].kind
  BY <1>3 DEF Kind, Rows
<1>5. PICK j \in FreeIds : jobs' = [jobs EXCEPT ![j] = NewJob(k0)]
  BY <1>1, <1>4 DEF EnqueueLater
<1>6. \A v \in Workers : Busy(v)' \subseteq Busy(v)
  BY <1>1, <1>2, SameBusy
<1>7. /\ j \in JobIds
      /\ Coming(k0)' \subseteq Coming(k0) \cup {j}
      /\ \A i \in Kinds \ {k0} : Coming(i)' \subseteq Coming(i)
  BY <1>5, <1>6, EnqueueComing
<1>8. Inserting(k)' \subseteq Inserting(k)
  BY <1>1, <1>2 DEF Inserting
<1>9. CASE k # k0
  BY <1>7, <1>8, <1>9, ComingShrinks, JobQueueAssumption
<1>10. CASE k = k0
  <2>1. id \in Coming(k)
    <3>1. id \in Busy(w)
      BY <1>1, <1>3 DEF Busy
    <3>. QED
      BY <1>3, <1>4, <1>10, <3>1 DEF Coming, InWork
  <2>2. id # j /\ jobs'[id] = jobs[id]
    <3>1. jobs[j].status = "none"
      BY <1>5 DEF FreeIds, NoJob
    <3>. QED
      BY <1>2, <1>3, <1>5, <3>1 DEF TypeOK
  <2>3. id \notin Coming(k)'
    <3>1. ASSUME InWork(id)' PROVE FALSE
      <4>1. PICK v \in Workers : id \in Busy(v)'
        BY <3>1 DEF InWork
      <4>2. id \in Ids(batch[v])
        BY <1>6, <4>1 DEF Busy
      <4>3. v = w
        BY <1>3, <4>2, BatchRows
      <4>4. pc'[w] = "end" /\ Job(w)' = Job(w)
        BY <1>1, <1>2 DEF Job
      <4>5. Job(w)'.id = id
        BY <1>3, <4>4
      <4>. QED
        BY <4>1, <4>3, <4>4, <4>5 DEF Busy
    <3>2. jobs'[id].status = "running"
      BY <1>3, <2>2
    <3>. QED
      BY <3>1, <3>2 DEF Coming
  <2>4. Coming(k)' \subseteq (Coming(k) \ {id}) \cup {j}
    BY <1>7, <1>10, <2>3
  <2>5. Coming(k) \subseteq JobIds /\ Inserting(k) \subseteq Workers
    BY DEF Coming, Inserting
  <2>6. /\ Cardinality(Coming(k)') <= Cardinality(Coming(k))
        /\ Cardinality(Coming(k)') \in Nat /\ Cardinality(Coming(k)) \in Nat
    BY <1>7, <2>1, <2>4, <2>5, RowSets
  <2>7. /\ Cardinality(Inserting(k)') <= Cardinality(Inserting(k))
        /\ Cardinality(Inserting(k)') \in Nat /\ Cardinality(Inserting(k)) \in Nat
        /\ Cardinality(Workers) \in Nat
    BY <1>8, <2>5, WorkerSets
  <2>8. Cardinality(Coming(k)) + Cardinality(Inserting(k)) <= Cardinality(Workers)
    BY DEF FewComing
  <2>. QED
    BY <2>6, <2>7, <2>8
<1>. QED
  BY <1>9, <1>10

\* enqueue_if_absent begins: what it has seen is that there is no such row.
LEMMA LookComing ==
    ASSUME QueueInv, NEW w \in Workers, BootLook(w), FewComing, NEW k \in IfAbsent
    PROVE  Cardinality(Coming(k)') + Cardinality(Inserting(k)') <= Cardinality(Workers)
<1>1. /\ pc[w] = "boot" /\ pc' = [pc EXCEPT ![w] = "insert"]
      /\ absent' = [absent EXCEPT ![w] = Absent(Head(boot[w]))]
      /\ UNCHANGED <<jobs, batch, boot>>
  BY DEF BootLook, table
<1>2. pc \in [Workers -> PCs] /\ absent \in [Workers -> BOOLEAN]
  BY DEF QueueInv, TypeOK
<1>3. \A v \in Workers : Busy(v)' \subseteq Busy(v)
  BY <1>1, <1>2, SameBusy
<1>4. Coming(k)' \subseteq Coming(k)
  BY <1>1, <1>3, QuietComing
<1>5. /\ absent'[w] = Absent(Head(boot[w])) /\ pc'[w] = "insert" /\ boot'[w] = boot[w]
      /\ \A v \in Workers \ {w} :
            pc'[v] = pc[v] /\ absent'[v] = absent[v] /\ boot'[v] = boot[v]
  BY <1>1, <1>2
<1>6. CASE Head(boot[w]) = k /\ Absent(k)
  <2>1. Coming(k) = {}
    BY <1>6 DEF Absent, Coming, Pending, Running
  <2>2. Cardinality(Coming(k)') = 0
    BY <1>4, <2>1, FS_EmptySet
  <2>3. Inserting(k)' \subseteq Workers
    BY DEF Inserting
  <2>4. Cardinality(Inserting(k)') <= Cardinality(Workers) /\ Cardinality(Inserting(k)') \in Nat
    BY <2>3, WorkerSets
  <2>. QED
    BY <2>2, <2>4
<1>7. CASE ~(Head(boot[w]) = k /\ Absent(k))
  <2>1. w \notin Inserting(k)'
    BY <1>5, <1>7 DEF Inserting
  <2>2. Inserting(k)' \subseteq Inserting(k)
    BY <1>5, <2>1 DEF Inserting
  <2>. QED
    BY <1>4, <2>2, ComingShrinks
<1>. QED
  BY <1>6, <1>7

\* The INSERT of a start: either it was counted already, or it is of a type
\* nobody looks for.
LEMMA BootComing ==
    ASSUME QueueInv, NEW w \in Workers, BootEnqueue(w) \/ BootInsert(w) \/ BootError(w),
           FewComing, NEW k \in IfAbsent
    PROVE  Cardinality(Coming(k)') + Cardinality(Inserting(k)') <= Cardinality(Workers)
<1>0. /\ TypeOK /\ pc \in [Workers -> PCs] /\ absent \in [Workers -> BOOLEAN]
      /\ IfAbsent \subseteq Kinds
  BY JobQueueAssumption DEF QueueInv, TypeOK
<1>b. Booted(w) /\ pc[w] \in {"boot", "insert"} /\ UNCHANGED batch
  BY DEF BootEnqueue, BootInsert, BootError
<1>k. PICK k0 \in Kinds : k0 = Head(boot[w])
  BY <1>0, <1>b, BootedType
<1>1. /\ absent' = absent \/ absent' = [absent EXCEPT ![w] = FALSE]
      /\ \/ UNCHANGED jobs
         \/ EnqueueNow(k0) /\ k0 \notin IfAbsent
         \/ EnqueueNow(k0) /\ pc[w] = "insert" /\ absent[w]
  BY <1>k DEF BootEnqueue, BootInsert, BootError, table
<1>2. /\ pc'[w] \in {"poll", "boot"}
      /\ \A v \in Workers \ {w} : boot'[v] = boot[v] /\ pc'[v] = pc[v]
  BY <1>0, <1>b, BootedType
<1>3. \A v \in Workers : Busy(v)' \subseteq Busy(v)
  <2>1. \A v \in Workers : batch'[v] = batch[v] /\ (pc[v] = "end" => pc'[v] = "end")
    BY <1>b, <1>2
  <2>. QED
    BY <2>1, SameBusy
<1>4. \A v \in Workers \ {w} : absent'[v] = absent[v]
  BY <1>0, <1>1
<1>5. Inserting(k)' \subseteq Inserting(k) \ {w}
  BY <1>2, <1>4 DEF Inserting
<1>6. CASE Coming(k)' \subseteq Coming(k)
  BY <1>5, <1>6, ComingShrinks
<1>7. CASE UNCHANGED jobs
  <2>1. Coming(k)' \subseteq Coming(k)
    BY <1>3, <1>7, QuietComing
  <2>. QED
    BY <1>6, <2>1
<1>8. CASE EnqueueNow(k0)
  <2>1. PICK j \in FreeIds : jobs' = [jobs EXCEPT ![j] = NewJob(k0)]
    BY <1>8 DEF EnqueueNow
  <2>2. /\ j \in JobIds
        /\ Coming(k0)' \subseteq Coming(k0) \cup {j}
        /\ \A i \in Kinds \ {k0} : Coming(i)' \subseteq Coming(i)
    BY <1>3, <2>1, EnqueueComing
  <2>3. CASE k # k0
    BY <1>0, <1>6, <2>2, <2>3
  <2>4. CASE k = k0 /\ pc[w] = "insert" /\ absent[w]
    <3>1. w \in Inserting(k)
      BY <1>k, <2>4 DEF Inserting
    <3>2. Coming(k) \subseteq JobIds /\ Inserting(k) \subseteq Workers
      BY DEF Coming, Inserting
    <3>3. /\ Cardinality(Coming(k)') <= Cardinality(Coming(k)) + 1
          /\ Cardinality(Coming(k)') \in Nat /\ Cardinality(Coming(k)) \in Nat
      BY <2>2, <2>4, <3>2, RowSets
    <3>4. /\ Cardinality(Inserting(k) \ {w}) = Cardinality(Inserting(k)) - 1
          /\ Cardinality(Inserting(k)) \in Nat /\ Cardinality(Workers) \in Nat
      BY <3>1, <3>2, WorkerSets
    <3>5. /\ Cardinality(Inserting(k)') <= Cardinality(Inserting(k) \ {w})
          /\ Cardinality(Inserting(k)') \in Nat
      <4>. DEFINE S == Inserting(k) \ {w}
      <4>1. S \subseteq Workers /\ Inserting(k)' \in SUBSET S
        BY <1>5, <3>2
      <4>. HIDE DEF S
      <4>2. Cardinality(Inserting(k)') <= Cardinality(S) /\ Cardinality(Inserting(k)') \in Nat
        BY <4>1, WorkerSets
      <4>. QED
        BY <4>2 DEF S
    <3>6. Cardinality(Coming(k)) + Cardinality(Inserting(k)) <= Cardinality(Workers)
      BY DEF FewComing
    <3>. QED
      BY <3>3, <3>4, <3>5, <3>6
  <2>5. k # k0 \/ (k = k0 /\ pc[w] = "insert" /\ absent[w]) \/ UNCHANGED jobs
    BY <1>1
  <2>. QED
    BY <1>7, <2>3, <2>4, <2>5
<1>. QED
  BY <1>1, <1>7, <1>8

\* No statement adds to the rows and the insertions of a type.
LEMMA ComingStep ==
    ASSUME QueueInv, QueueInv', FewComing, [Next]_vars
    PROVE  FewComing'
<1>. USE DEF table, rules, budget
<1>. SUFFICES ASSUME NEW k \in IfAbsent
              PROVE  Cardinality(Coming(k)') + Cardinality(Inserting(k)') <= Cardinality(Workers)
  BY DEF FewComing
<1>0. /\ pc \in [Workers -> PCs] /\ absent \in [Workers -> BOOLEAN]
      /\ boot \in [Workers -> Seq(Kinds)]
      /\ batch \in [Workers -> Seq([id : JobIds, attempts : 1 .. MaxAttempts])]
  BY DEF QueueInv, TypeOK
<1>1. ASSUME NEW w \in Workers,
             \/ Start(w) \/ Select(w) \/ Body(w) \/ ReadDue(w) \/ ScanRule(w)
             \/ ScanMalformed(w) \/ ScanEnd(w) \/ ClaimError(w) \/ BodyError(w)
             \/ RescheduleError(w) \/ Crash(w)
      PROVE  Cardinality(Coming(k)') + Cardinality(Inserting(k)') <= Cardinality(Workers)
  <2>1. /\ UNCHANGED jobs
        /\ batch' = batch \/ batch' = [batch EXCEPT ![w] = <<>>]
    BY <1>1 DEF Start, Select, Body, ReadDue, ScanRule, ScanMalformed, ScanEnd,
       ClaimError, BodyError, RescheduleError, Crash
  <2>2. \/ pc' = pc /\ UNCHANGED <<absent, boot>>
        \/ /\ \E p \in PCs \ {"insert"} : pc' = [pc EXCEPT ![w] = p]
           /\ absent' = absent \/ absent' = [absent EXCEPT ![w] = FALSE]
           /\ boot' = boot \/ \E s : boot' = [boot EXCEPT ![w] = s]
    BY <1>1 DEF Start, Select, Body, ReadDue, ScanRule, ScanMalformed, ScanEnd,
       ClaimError, BodyError, RescheduleError, Crash, PCs
  <2>3. batch'[w] = <<>> \/ pc[w] # "end"
    BY <1>0, <1>1 DEF Start, Select, Body, ReadDue, ScanRule, ScanMalformed, ScanEnd,
       ClaimError, BodyError, RescheduleError, Crash
  <2>4. \A v \in Workers : Busy(v)' \subseteq Busy(v)
    <3>1. Ids(<<>>) = {}
      BY DEF Ids
    <3>2. ASSUME NEW v \in Workers, batch'[v] = <<>>
          PROVE  Busy(v)' \subseteq Busy(v)
      BY <3>1, <3>2 DEF Busy
    <3>3. ASSUME NEW v \in Workers, batch'[v] # <<>>
          PROVE  Busy(v)' \subseteq Busy(v)
      <4>1. batch'[v] = batch[v]
        BY <1>0, <2>1, <3>3
      <4>2. pc[v] = "end" => pc'[v] = "end"
        BY <1>0, <2>2, <2>3, <3>3
      <4>. QED
        BY <4>1, <4>2, SameBusy
    <3>. QED
      BY <3>2, <3>3
  <2>5. \A v \in Workers \ {w} : pc'[v] = pc[v] /\ absent'[v] = absent[v] /\ boot'[v] = boot[v]
    BY <1>0, <2>2
  <2>6. pc'[w] # "insert" \/ (pc'[w] = pc[w] /\ absent'[w] = absent[w] /\ boot'[w] = boot[w])
    BY <1>0, <2>2
  <2>7. Coming(k)' \subseteq Coming(k)
    BY <2>1, <2>4, QuietComing
  <2>8. Inserting(k)' \subseteq Inserting(k)
    BY <2>5, <2>6 DEF Inserting
  <2>. QED
    BY <2>7, <2>8, ComingShrinks
<1>2. ASSUME NEW w \in Workers,
             Claim(w) \/ Complete(w) \/ Fail(w) \/ FinishError(w)
      PROVE  Cardinality(Coming(k)') + Cardinality(Inserting(k)') <= Cardinality(Workers)
  <2>1. Coming(k)' \subseteq Coming(k)
    BY <1>2, ClaimComing, FinishComing
  <2>2. /\ \E p \in PCs \ {"insert"} : pc' = [pc EXCEPT ![w] = p]
        /\ UNCHANGED <<absent, boot>>
    BY <1>2 DEF Claim, Complete, Fail, FinishError, NextJob, PCs
  <2>3. Inserting(k)' \subseteq Inserting(k)
    BY <1>0, <2>2 DEF Inserting
  <2>. QED
    BY <2>1, <2>3, ComingShrinks
<1>3. ASSUME NEW w \in Workers,
             \/ BootEnqueue(w) \/ BootInsert(w) \/ BootError(w) \/ BootLook(w)
             \/ Reschedule(w)
      PROVE  Cardinality(Coming(k)') + Cardinality(Inserting(k)') <= Cardinality(Workers)
  BY <1>3, BootComing, LookComing, RescheduleComing
<1>4. CASE (\E j \in JobIds : Elapse(j)) \/ Tick \/ UNCHANGED vars
  <2>1. UNCHANGED <<jobs, batch, pc, absent, boot>>
    BY <1>4 DEF Elapse, Tick, vars
  <2>2. \A v \in Workers : Busy(v)' \subseteq Busy(v)
    BY <2>1, SameBusy
  <2>3. Coming(k)' \subseteq Coming(k)
    BY <2>1, <2>2, QuietComing
  <2>4. Inserting(k)' \subseteq Inserting(k)
    BY <2>1 DEF Inserting
  <2>. QED
    BY <2>3, <2>4, ComingShrinks
<1>. QED
  BY <1>1, <1>2, <1>3, <1>4 DEF Next, Work, Trouble

\* enqueue_if_absent does not exclude a second registration; but for any number
\* of processes, restarts, failures and successors, the rows of a type that wait
\* or are worked on never outnumber the processes.
THEOREM RegistrationsBounded == Spec => []FewPending
<1>1. ASSUME Init
      PROVE  QueueInv /\ FewComing
  <2>1. \A k : Coming(k) = {} /\ Inserting(k) = {}
    BY <1>1 DEF Init, Coming, Inserting, NoJob
  <2>2. Cardinality({}) = 0 /\ Cardinality(Workers) \in Nat
    BY WorkerSets, FS_EmptySet
  <2>3. FewComing
    BY <2>1, <2>2 DEF FewComing
  <2>. QED
    BY <1>1, <2>3, InitQueue
<1>2. QueueInv /\ FewComing /\ [Next]_vars => (QueueInv /\ FewComing)'
  BY QueueStep, ComingStep
<1>3. QueueInv /\ FewComing => FewPending
  <2>. SUFFICES ASSUME FewComing, NEW k \in IfAbsent
                PROVE  Cardinality({j \in Pending : jobs[j].kind = k}) <= Cardinality(Workers)
    BY DEF FewPending
  <2>. DEFINE S == {j \in Pending : jobs[j].kind = k}
  <2>1. S \in SUBSET Coming(k) /\ Coming(k) \subseteq JobIds /\ Inserting(k) \subseteq Workers
    BY DEF Pending, Coming, Inserting
  <2>. HIDE DEF S
  <2>2. /\ Cardinality(S) <= Cardinality(Coming(k)) /\ Cardinality(S) \in Nat
        /\ Cardinality(Coming(k)) \in Nat
    BY <2>1, RowSets
  <2>3. Cardinality(Inserting(k)) \in Nat /\ Cardinality(Workers) \in Nat
    BY <2>1, WorkerSets
  <2>4. Cardinality(Coming(k)) + Cardinality(Inserting(k)) <= Cardinality(Workers)
    BY DEF FewComing
  <2>5. Cardinality(S) <= Cardinality(Workers)
    BY <2>2, <2>3, <2>4
  <2>. QED
    BY <2>5 DEF S
<1>. QED
  BY <1>1, <1>2, <1>3, PTL DEF Spec
=============================================================================
