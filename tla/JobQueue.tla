------------------------------- MODULE JobQueue -----------------------------
(***************************************************************************)
(* The job table of the server, its workers, and the recurring rules one   *)
(* of the jobs turns into transactions.                                    *)
(*                                                                         *)
(* A process starts, enqueues the jobs of its kind (some of them only if   *)
(* none is pending or running) and polls.  A poll claims a batch: one      *)
(* database transaction selects pending rows FOR UPDATE SKIP LOCKED and    *)
(* marks them running.  The batch is then worked through, one statement at *)
(* a time, outside that transaction.  A process may stop between any two   *)
(* statements, and any statement may fail.                                 *)
(*                                                                         *)
(* Time is abstract.  Months tick for the rules; a row whose run_at lies   *)
(* in the future waits until Elapse puts it at the end of ready, so ready  *)
(* is in the order of run_at.  Rows that are completed are read by nobody  *)
(* and leave the model.                                                    *)
(***************************************************************************)
EXTENDS Integers, Sequences, FiniteSets, Functions

CONSTANTS
    Workers,
    Kinds,        \* job types
    Scan,         \* the job type that materialises the recurring rules
    Repeating,    \* job types that enqueue their successor
    IfAbsent,     \* job types enqueued at the start only if there is none
    Boot,         \* the job types each process enqueues when it starts
    Rules,        \* recurring rules, in the order of their ids
    Payload,      \* is the payload of a rule good, unbalanced or malformed
    Nobody,
    Batch,        \* jobs claimed by one poll
    MaxAttempts,
    MaxJobs,      \* bound: rows of the table
    MaxMonth,     \* bound: months
    MaxCrashes,   \* bound: processes that stop
    MaxFails,     \* bound: job bodies that fail
    MaxErrors     \* bound: bookkeeping statements that fail

ASSUME JobQueueAssumption ==
    /\ IsFiniteSet(Workers)
    /\ Scan \in Kinds
    /\ Repeating \subseteq Kinds
    /\ IfAbsent \subseteq Kinds
    /\ Boot \in [Workers -> Seq(Kinds)]
    /\ Rules \subseteq Nat
    /\ IsFiniteSet(Rules)
    /\ Payload \in [Rules -> {"good", "unbalanced", "malformed"}]
    /\ Nobody \notin Workers
    /\ Batch \in Nat \ {0}
    /\ MaxAttempts \in Nat \ {0}
    /\ MaxJobs \in Nat
    /\ MaxMonth \in Nat
    /\ MaxCrashes \in Nat
    /\ MaxFails \in Nat
    /\ MaxErrors \in Nat

JobIds == 1 .. MaxJobs

VARIABLES
    jobs,      \* the rows of the job table
    ready,     \* the pending rows whose run_at has come, oldest first
    month,     \* now
    next,      \* next_run_at of each rule
    made,      \* transactions made for each rule
    pc,        \* what a process does
    boot,      \* the job types it has still to enqueue
    absent,    \* what enqueue_if_absent has seen
    locks,     \* the rows its claim has locked
    batch,     \* the jobs it has claimed and not finished
    due,       \* the rules its scan has still to work through
    crashes,
    fails,
    errors

table == <<jobs, ready>>
rules == <<next, made>>
budget == <<crashes, fails, errors>>
vars == <<table, month, rules, pc, boot, absent, locks, batch, due, budget>>

NoJob == [status |-> "none"]

\* A row of the table, as INSERT makes it.
NewJob(k) == [kind |-> k, status |-> "pending", attempts |-> 0, lockedBy |-> Nobody]

Rows == [kind : Kinds, status : {"pending", "running", "dead"},
         attempts : 0 .. MaxAttempts, lockedBy : Workers \cup {Nobody}]

Init ==
    /\ jobs = [j \in JobIds |-> NoJob]
    /\ ready = <<>>
    /\ month = 0
    /\ next = [r \in Rules |-> 0]
    /\ made = [r \in Rules |-> 0]
    /\ pc = [w \in Workers |-> "down"]
    /\ boot = [w \in Workers |-> <<>>]
    /\ absent = [w \in Workers |-> FALSE]
    /\ locks = [w \in Workers |-> <<>>]
    /\ batch = [w \in Workers |-> <<>>]
    /\ due = [w \in Workers |-> <<>>]
    /\ crashes = 0
    /\ fails = 0
    /\ errors = 0

-----------------------------------------------------------------------------
(***************************************************************************)
(* The job table                                                           *)
(***************************************************************************)
FreeIds == {j \in JobIds : jobs[j] = NoJob}

\* INSERT INTO jobs with run_at now, or later.
EnqueueNow(k) ==
    \E j \in FreeIds :
        /\ \A i \in FreeIds : j <= i
        /\ jobs' = [jobs EXCEPT ![j] = NewJob(k)]
        /\ ready' = Append(ready, j)

EnqueueLater(k) ==
    /\ \E j \in FreeIds :
        /\ \A i \in FreeIds : j <= i
        /\ jobs' = [jobs EXCEPT ![j] = NewJob(k)]
    /\ ready' = ready

Pending == {j \in JobIds : jobs[j].status = "pending"}
Running == {j \in JobIds : jobs[j].status = "running"}

\* Mutant: enqueue_if_absent does not look.
AlwaysAbsent(k) == TRUE

\* The NOT EXISTS of enqueue_if_absent.
Absent(k) == \A j \in Pending \cup Running : jobs[j].kind # k

\* The run_at of a pending row comes.
Elapse(j) ==
    /\ j \in Pending
    /\ j \notin Range(ready)
    /\ ready' = Append(ready, j)
    /\ UNCHANGED <<jobs, month, rules, pc, boot, absent, locks, batch, due, budget>>

Tick ==
    /\ month < MaxMonth
    /\ month' = month + 1
    /\ UNCHANGED <<table, rules, pc, boot, absent, locks, batch, due, budget>>

-----------------------------------------------------------------------------
(***************************************************************************)
(* Starting and stopping                                                   *)
(***************************************************************************)
\* A process starts; its worker begins to poll once the enqueues are done.
Start(w) ==
    /\ pc[w] \in {"down", "exited"}
    /\ boot' = [boot EXCEPT ![w] = Boot[w]]
    /\ pc' = [pc EXCEPT ![w] = IF Boot[w] = <<>> THEN "poll" ELSE "boot"]
    /\ UNCHANGED <<table, month, rules, absent, locks, batch, due, budget>>

\* The next statement of the start, or the first poll.
Booted(w) ==
    /\ boot' = [boot EXCEPT ![w] = Tail(boot[w])]
    /\ pc' = [pc EXCEPT ![w] = IF Len(boot[w]) = 1 THEN "poll" ELSE "boot"]

BootEnqueue(w) ==
    /\ pc[w] = "boot"
    /\ Head(boot[w]) \notin IfAbsent
    /\ EnqueueNow(Head(boot[w]))
    /\ Booted(w)
    /\ UNCHANGED <<month, rules, absent, locks, batch, due, budget>>

\* enqueue_if_absent is one statement, but its subquery sees only what was
\* committed when it began: another process may insert before it does.
BootLook(w) ==
    /\ pc[w] = "boot"
    /\ Head(boot[w]) \in IfAbsent
    /\ absent' = [absent EXCEPT ![w] = Absent(Head(boot[w]))]
    /\ pc' = [pc EXCEPT ![w] = "insert"]
    /\ UNCHANGED <<table, month, rules, boot, locks, batch, due, budget>>

BootInsert(w) ==
    /\ pc[w] = "insert"
    /\ \/ absent[w] /\ EnqueueNow(Head(boot[w]))
       \/ ~absent[w] /\ UNCHANGED table
    /\ absent' = [absent EXCEPT ![w] = FALSE]
    /\ Booted(w)
    /\ UNCHANGED <<month, rules, locks, batch, due, budget>>

\* The result of an enqueue is discarded: the start goes on without the job.
BootError(w) ==
    /\ pc[w] \in {"boot", "insert"}
    /\ errors < MaxErrors
    /\ errors' = errors + 1
    /\ absent' = [absent EXCEPT ![w] = FALSE]
    /\ Booted(w)
    /\ UNCHANGED <<table, month, rules, locks, batch, due, crashes, fails>>

\* The process stops.  Row locks go with its connection; rows it has marked
\* running stay running.
Crash(w) ==
    /\ pc[w] \notin {"down", "exited"}
    /\ crashes < MaxCrashes
    /\ crashes' = crashes + 1
    /\ pc' = [pc EXCEPT ![w] = "down"]
    /\ boot' = [boot EXCEPT ![w] = <<>>]
    /\ absent' = [absent EXCEPT ![w] = FALSE]
    /\ locks' = [locks EXCEPT ![w] = <<>>]
    /\ batch' = [batch EXCEPT ![w] = <<>>]
    /\ due' = [due EXCEPT ![w] = <<>>]
    /\ UNCHANGED <<table, month, rules, fails, errors>>

-----------------------------------------------------------------------------
(***************************************************************************)
(* claim_jobs                                                              *)
(***************************************************************************)

\* The elements of a finite set in an order: the one sequence ORDER BY returns.
Sorted(S, Less(_, _)) ==
    {s \in [1 .. Cardinality(S) -> S] :
        \A m, n \in DOMAIN s : m < n => Less(s[m], s[n])}

\* ORDER BY run_at
Older(i, j) ==
    \E m, n \in DOMAIN ready : m < n /\ ready[m] = i /\ ready[n] = j

\* Mutant: without FOR UPDATE SKIP LOCKED a poll sees the rows others are claiming.
AllReady(w) == Range(ready)

\* The rows a SELECT ... FOR UPDATE SKIP LOCKED may return to w.
Claimable(w) == {j \in Range(ready) : \A v \in Workers : j \notin Range(locks[v])}

\* The rows it returns: LIMIT.
Selected(w) ==
    {j \in Claimable(w) : Cardinality({i \in Claimable(w) : Older(i, j)}) < Batch}

\* A poll that returns nothing claims nothing.
Select(w) ==
    /\ pc[w] = "poll"
    /\ Selected(w) # {}
    /\ \E s \in Sorted(Selected(w), Older) : locks' = [locks EXCEPT ![w] = s]
    /\ pc' = [pc EXCEPT ![w] = "claim"]
    /\ UNCHANGED <<table, month, rules, boot, absent, batch, due, budget>>

\* The row of a claimed job.
Claimed(j, w) ==
    [kind |-> jobs[j].kind, status |-> "running",
     attempts |-> jobs[j].attempts + 1, lockedBy |-> w]

\* The locked rows are marked running and committed.
Claim(w) ==
    LET mine == Range(locks[w]) IN
    /\ pc[w] = "claim"
    /\ jobs' = [j \in JobIds |-> IF j \in mine THEN Claimed(j, w) ELSE jobs[j]]
    /\ \E s \in Sorted(Range(ready) \ mine, Older) : ready' = s
    /\ batch' = [batch EXCEPT ![w] = [i \in DOMAIN locks[w] |->
            [id |-> locks[w][i], attempts |-> jobs[locks[w][i]].attempts + 1]]]
    /\ locks' = [locks EXCEPT ![w] = <<>>]
    /\ pc' = [pc EXCEPT ![w] = "run"]
    /\ UNCHANGED <<month, rules, boot, absent, due, budget>>

\* A failed claim ends run_worker: the process goes on without a worker.
ClaimError(w) ==
    /\ pc[w] \in {"poll", "claim"}
    /\ errors < MaxErrors
    /\ errors' = errors + 1
    /\ locks' = [locks EXCEPT ![w] = <<>>]
    /\ pc' = [pc EXCEPT ![w] = "exited"]
    /\ UNCHANGED <<table, month, rules, boot, absent, batch, due, crashes, fails>>

-----------------------------------------------------------------------------
(***************************************************************************)
(* execute_job                                                             *)
(***************************************************************************)
Job(w) == Head(batch[w])
Kind(w) == jobs[Job(w).id].kind

\* Mutant: only the scan is scheduled again.
OnlyScan(k) == k = Scan

\* Does a job of this type enqueue its successor?
Repeats(k) == k \in Repeating

\* The body of every job but the scan: work the model does not look into.
Body(w) ==
    /\ pc[w] = "run"
    /\ Kind(w) # Scan
    /\ pc' = [pc EXCEPT ![w] = IF Repeats(Kind(w)) THEN "again" ELSE "end"]
    /\ UNCHANGED <<table, month, rules, boot, absent, locks, batch, due, budget>>

\* Mutant: a rule is due a month early.
AlmostDueRules == {r \in Rules : next[r] <= month + 1}

\* Mutant: a rule is due a month late.
OverdueRules == {r \in Rules : next[r] < month}

\* The rules the scan selects.
DueRules == {r \in Rules : next[r] <= month}

\* ORDER BY next_run_at, id
Before(r, s) == next[r] < next[s] \/ (next[r] = next[s] /\ r < s)

ReadDue(w) ==
    /\ pc[w] = "run"
    /\ Kind(w) = Scan
    /\ \E s \in Sorted(DueRules, Before) : due' = [due EXCEPT ![w] = s]
    /\ pc' = [pc EXCEPT ![w] = "scan"]
    /\ UNCHANGED <<table, month, rules, boot, absent, locks, batch, budget>>

\* Mutant: the transaction is made but the rule is left where it was.
ForgetAdvance(r) ==
    /\ made' = [made EXCEPT ![r] = @ + 1]
    /\ next' = next

\* One database transaction: the transaction, its entries, its change and
\* the advance of the rule, which is relative to what next_run_at is then.
Materialise(r) ==
    /\ made' = [made EXCEPT ![r] = @ + 1]
    /\ next' = [next EXCEPT ![r] = @ + 1]

ScanRule(w) ==
    LET r == Head(due[w]) IN
    /\ pc[w] = "scan"
    /\ due[w] # <<>>
    /\ \/ /\ Payload[r] = "good"
          /\ Materialise(r)
       \/ /\ Payload[r] = "unbalanced"
          /\ next' = [next EXCEPT ![r] = @ + 1]
          /\ made' = made
    /\ due' = [due EXCEPT ![w] = Tail(due[w])]
    /\ UNCHANGED <<table, month, pc, boot, absent, locks, batch, budget>>

\* A payload that cannot be read ends the scan with an error.
ScanMalformed(w) ==
    /\ pc[w] = "scan"
    /\ due[w] # <<>>
    /\ Payload[Head(due[w])] = "malformed"
    /\ due' = [due EXCEPT ![w] = <<>>]
    /\ pc' = [pc EXCEPT ![w] = "fail"]
    /\ UNCHANGED <<table, month, rules, boot, absent, locks, batch, budget>>

ScanEnd(w) ==
    /\ pc[w] = "scan"
    /\ due[w] = <<>>
    /\ pc' = [pc EXCEPT ![w] = IF Repeats(Scan) THEN "again" ELSE "end"]
    /\ UNCHANGED <<table, month, rules, boot, absent, locks, batch, due, budget>>

BodyError(w) ==
    /\ pc[w] \in {"run", "scan"}
    /\ fails < MaxFails
    /\ fails' = fails + 1
    /\ due' = [due EXCEPT ![w] = <<>>]
    /\ pc' = [pc EXCEPT ![w] = "fail"]
    /\ UNCHANGED <<table, month, rules, boot, absent, locks, batch, crashes, errors>>

\* The successor is enqueued before the job itself is completed.
Reschedule(w) ==
    /\ pc[w] = "again"
    /\ EnqueueLater(Kind(w))
    /\ pc' = [pc EXCEPT ![w] = "end"]
    /\ UNCHANGED <<month, rules, boot, absent, locks, batch, due, budget>>

\* The result of enqueue_at is discarded too.
RescheduleError(w) ==
    /\ pc[w] = "again"
    /\ errors < MaxErrors
    /\ errors' = errors + 1
    /\ pc' = [pc EXCEPT ![w] = "end"]
    /\ UNCHANGED <<table, month, rules, boot, absent, locks, batch, due, crashes, fails>>

-----------------------------------------------------------------------------
(***************************************************************************)
(* complete_job, fail_job                                                  *)
(***************************************************************************)
\* On to the next job of the batch, or to the next poll.
NextJob(w) ==
    /\ batch' = [batch EXCEPT ![w] = Tail(batch[w])]
    /\ pc' = [pc EXCEPT ![w] = IF Len(batch[w]) = 1 THEN "poll" ELSE "run"]

Complete(w) ==
    /\ pc[w] = "end"
    /\ jobs' = [jobs EXCEPT ![Job(w).id] = NoJob]
    /\ NextJob(w)
    /\ UNCHANGED <<ready, month, rules, boot, absent, locks, due, budget>>

\* Mutant: attempts > max_attempts.
OneMoreAttempt(n) == IF n > MaxAttempts THEN "dead" ELSE "pending"

\* A job that has used its attempts is dead, another one is tried again.
AfterFailure(n) == IF n >= MaxAttempts THEN "dead" ELSE "pending"

Fail(w) ==
    /\ pc[w] = "fail"
    /\ jobs' = [jobs EXCEPT ![Job(w).id] =
            [kind |-> @.kind, status |-> AfterFailure(Job(w).attempts),
             attempts |-> @.attempts, lockedBy |-> Nobody]]
    /\ NextJob(w)
    /\ UNCHANGED <<ready, month, rules, boot, absent, locks, due, budget>>

\* run_worker discards what complete_job and fail_job return: if the
\* statement fails the row stays running and the worker goes on.
FinishError(w) ==
    /\ pc[w] \in {"end", "fail"}
    /\ errors < MaxErrors
    /\ errors' = errors + 1
    /\ NextJob(w)
    /\ UNCHANGED <<table, month, rules, boot, absent, locks, due, crashes, fails>>

-----------------------------------------------------------------------------
\* What a process does by itself, when nothing fails.
Work(w) ==
    \/ BootEnqueue(w)
    \/ BootLook(w)
    \/ BootInsert(w)
    \/ Select(w)
    \/ Claim(w)
    \/ Body(w)
    \/ ReadDue(w)
    \/ ScanRule(w)
    \/ ScanMalformed(w)
    \/ ScanEnd(w)
    \/ Reschedule(w)
    \/ Complete(w)
    \/ Fail(w)

Trouble(w) ==
    \/ BootError(w)
    \/ Crash(w)
    \/ ClaimError(w)
    \/ BodyError(w)
    \/ RescheduleError(w)
    \/ FinishError(w)

Next ==
    \/ \E w \in Workers : Start(w) \/ Work(w) \/ Trouble(w)
    \/ \E j \in JobIds : Elapse(j)
    \/ Tick

Spec == Init /\ [][Next]_vars

(***************************************************************************)
(* A live process takes its next statement, a process that went down is    *)
(* started again, and time passes for the rows that wait.  A worker that   *)
(* ended by an error is not started again by anything.                     *)
(***************************************************************************)
Fairness ==
    /\ \A w \in Workers : WF_vars(Work(w))
    /\ \A w \in Workers : WF_vars(pc[w] = "down" /\ Start(w))
    /\ \A j \in JobIds : WF_vars(Elapse(j))

FairSpec == Spec /\ Fairness

-----------------------------------------------------------------------------
(***************************************************************************)
(* Properties                                                              *)
(***************************************************************************)
PCs == {"down", "exited", "boot", "insert", "poll", "claim", "run", "scan", "again", "end", "fail"}

\* Every variable has its type, and the bookkeeping of a process belongs to
\* the statement of run_worker it has reached.
TypeOK ==
    /\ jobs \in [JobIds -> Rows \cup {NoJob}]
    /\ ready \in Seq(JobIds)
    /\ month \in 0 .. MaxMonth
    /\ next \in [Rules -> Nat]
    /\ made \in [Rules -> Nat]
    /\ pc \in [Workers -> PCs]
    /\ boot \in [Workers -> Seq(Kinds)]
    /\ absent \in [Workers -> BOOLEAN]
    /\ locks \in [Workers -> Seq(JobIds)]
    /\ batch \in [Workers -> Seq([id : JobIds, attempts : 1 .. MaxAttempts])]
    /\ due \in [Workers -> Seq(Rules)]
    /\ crashes \in 0 .. MaxCrashes
    /\ fails \in 0 .. MaxFails
    /\ errors \in 0 .. MaxErrors
    /\ \A w \in Workers :
        /\ pc[w] \in {"boot", "insert"} => boot[w] # <<>>
        /\ pc[w] \in {"run", "scan", "again", "end", "fail"} => batch[w] # <<>>

Ids(s) == {s[i].id : i \in DOMAIN s}

\* A job a worker has claimed is in no other batch, twice in none, and its row
\* is running under that worker's name with the attempts the worker counts:
\* complete_job and fail_job, which update by id and look at nothing else,
\* therefore never touch a job somebody else is working on.
OneHolder ==
    \A w \in Workers :
        /\ \A i \in DOMAIN batch[w] :
            LET row == jobs[batch[w][i].id] IN
            /\ row.status = "running"
            /\ row.lockedBy = w
            /\ row.attempts = batch[w][i].attempts
        /\ Cardinality(Ids(batch[w])) = Len(batch[w])

\* Whatever stops or fails, and however many scans overlap, the transactions of
\* a rule are as many as the months it has been advanced by.
EachAdvanceBooked ==
    \A r \in Rules : made[r] = IF Payload[r] = "good" THEN next[r] ELSE 0

\* The workers whose scan has read rule r as due and not come to it yet.
Scanning(r) == {w \in Workers : r \in Range(due[w])}

\* generate_due_recurring does not look at next_run_at again before it books a
\* rule: a rule is booked early only by scans that overlap, at most once for
\* each worker beyond the first.  With one worker it is never booked early.
NotEarly ==
    \A r \in Rules : next[r] + Cardinality(Scanning(r)) <= month + Cardinality(Workers)

\* A job type enqueued only if absent is registered twice only by processes that
\* start together: its pending rows, over all restarts and successors, are
\* never more than the processes.  With one process there is at most one.
FewPending ==
    \A k \in IfAbsent :
        Cardinality({j \in Pending : jobs[j].kind = k}) <= Cardinality(Workers)

Undisturbed == crashes = 0 /\ errors = 0

Held(j) == \E w \in Workers : j \in Ids(batch[w])

Alive(k) == \E j \in Pending \cup Running : jobs[j].kind = k /\ (j \in Pending \/ Held(j))

\* A repeating job that is registered at the start goes on for ever, whichever
\* process stops: it is retried, and registered again at the next start.
GoesOn == \A k \in IfAbsent \cap Repeating : []<>Alive(k)

\* Undisturbed, and with attempts left for the bodies that fail, it does.
GoesOnUndisturbed ==
    \A k \in IfAbsent \cap Repeating : []<>(Alive(k) \/ ~Undisturbed)

\* A due rule whose payload is good is materialised, unless a rule that cannot
\* be read comes before it in the order of the scan.
DueIsBooked ==
    \A r \in Rules :
        (/\ Payload[r] = "good" /\ next[r] <= month /\ Undisturbed
         /\ \A q \in Rules : Payload[q] = "malformed" => Before(r, q))
            ~> (next[r] > month \/ ~Undisturbed)
=============================================================================
