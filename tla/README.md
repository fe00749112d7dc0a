# Ledgerly: TLA+ models of synchronisation, sessions, attachments, jobs and backups

Ledgerly is a local-first ledger. Flutter clients keep their own SQLite copy of a
book and a queue of pending mutations; a Rust server (Axum, PostgreSQL) is the
authority that orders mutations into a change log all devices replay. This
directory models the parts of that system whose correctness depends on the order
in which several actors act.

Check a run with `tlc -config <cfg> <module>`, and the proofs with `tlapm` on each
`*Proofs.tla` and on `SyncServerRefinement.tla`. `PROJECT.json` lists the runs, the
source lines behind every definition, one mutated definition per property that must
break it, the findings, the hazards and the theorems.

## Inventory

| Component | State | Operations | What is hard about it |
|---|---|---|---|
| Sync server, transactions (`server/src/transport/http/sync.rs`, `push`, `process_mutation_pg`, `pull`, `bootstrap`) | `transactions`, `sync_changes` with a BIGSERIAL, `sync_mutations` (receipts), advisory locks | push a batch, pull a page, bootstrap | concurrent requests at READ COMMITTED, retries, lost acknowledgements, sequences that commit out of order, two unique indexes |
| Sync server, categories (`process_account_mutation_pg`) | `accounts`, the same log and receipts | create, rename, move | two requests that are each legal and together build a cycle |
| Client repository and sync (`sync_service.dart`, `ledger_repository.dart`) | local rows, `pending_mutations`, `sync_conflicts`, `sync_states.cursor` | create, edit, delete, resolve a conflict, `syncNow` | every await is a gap: edits during a push, overlapping runs, killed runs, stale versions |
| Job queue (`infrastructure/jobs.rs`, `bootstrap.rs`) | `jobs`, `recurring_rules` | start a process, claim, execute, complete, fail, enqueue | several workers, processes that stop, discarded errors |
| Sessions (`auth.rs`, `authz.rs`, `state.rs`, `auth_repository.dart`) | `users`, `device_sessions`, the books of the account; epoch, access token and refresh token on the device | register, login, refresh with rotation, logout, an API request that refreshes and retries | lost rotation responses, concurrent refreshes, logout during a refresh, two first logins |
| Automatic ledger (`auto_ledger_service.dart`, Android listener) | queue of captured payments, seen ids | capture, post, clear | the queue grows while it is drained; failed posts |
| Attachments (`commercial.rs`, `object_store.rs`, `attachment_cleanup.rs`) | `attachments`, objects, open uploads and their parts | open a session, put an object or a part, complete, abort, delete, purge | database and object store have no common transaction; parts side by side, purge against completion, dropped handlers |
| Local recurring rules (`recurring_scheduler.dart`) | rules with a next date | catch up | post and advance are two transactions |
| Double-entry domain (`packages/ledger_domain`, `server/crates/ledger-domain`) | none | build and validate entries | the two sides must agree |
| Server backups (`backup_runtime.rs`, `backup_bundle.rs`, `backup_status.rs`, `object_store.rs`) | bundle directories in two roots, three status files, database and object store | back up, replicate, clean up, restore, recovery drill | no lock between runs, killed processes, one step of several failing, the bundle in use may be cleaned up |
| Client backups, reports, audit, rate limit, UI, AI insights, imports | files, counters, views | - | I/O, encryption and presentation; not modelled |

Components interact through the change log (server to devices), receipts (answer
to each pushed mutation), the `transactions` and `sync_changes` tables (written by
pushes and by the recurring scan), and the account hierarchy that transaction
entries refer to. Attachments and their purge share rows and objects with the
backups; the purge, the backups and the drills are jobs of the queue.

What makes each one correct:

* server: each mutation takes effect at most once; row, log entry and receipt
  appear together; the log is the complete version history of every row; nobody
  overwrites a version they have not seen; a captured payment is booked once; every
  device is handed every change; requests end;
* categories: two levels, one type per branch, no cycle, in the rows and in every
  prefix of the log a device may have replayed;
* device: no queued mutation disappears, devices that have caught up show the log,
  every device catches up;
* jobs: a job has one holder, retries are bounded, repeating jobs go on, a due rule
  is booked once and only when due;
* sessions: a refresh token is exchanged once, a late answer does not undo a logout,
  nobody is signed out without a cause, an account has one book, calls end;
* attachments: what is ready has the size that was asked for and has its object, no
  acknowledged part is lost, the purge keeps away from what is being completed, every
  upload settles;
* backups: what health and status report is on disk, a restore has a way back, a
  bundle that passed a drill can be restored, what a restore reports is so.

## Modules

| Module | Models | Composed of |
|---|---|---|
| `Book` | what a push promises, whichever store is behind it: every mutation is one step | - |
| `SyncServer` | push and pull of transactions on PostgreSQL | implements `Book` (`B == INSTANCE Book WITH log <- Told`) |
| `SyncServerProofs` | its inductive invariant and theorems | `SyncServer`, TLAPS |
| `SyncServerRefinement` | the proof that it implements `Book` | `SyncServerProofs`, `Book` |
| `AccountTree` | category mutations | - |
| `AccountTreeProofs` | its inductive invariant and theorems | `AccountTree`, TLAPS |
| `DeviceSync` | several devices, their queues and runs of `syncNow`, against a server that handles a mutation in one step | abstracts what `SyncServer` shows of one mutation |
| `DeviceSyncProofs` | its inductive invariants and theorems | `DeviceSync`, TLAPS |
| `JobQueue` | processes, workers, the job table, recurring rules | - |
| `JobQueueProofs` | its inductive invariants and theorems | `JobQueue`, TLAPS |
| `Attachments` | requests, the purge job, the table and the object store | - |
| `AttachmentsProofs` | its inductive invariant and theorems | `Attachments`, TLAPS |
| `Sessions` | the auth handlers and the `AuthRepository` of a device | - |
| `SessionsProofs` | its inductive invariants and theorems | `Sessions`, TLAPS |
| `Backups` | workers, operators, bundles, status files, rows and objects | - |
| `BackupsProofs` | its inductive invariants and theorems | `Backups`, TLAPS |
| `MC_*` | finite instances for TLC | |

### SyncServer

A push request (`h \in Handlers`) works through `todo[h]`. For each mutation:
`Replay` (a stored receipt answers it) or `RejectPayload` (validation before the
transaction) or `StartTx`; `LockEntity` (`pg_advisory_xact_lock`, waits while
another open transaction holds the same entity, and looks for the receipt again);
`Read` (accounts, current version, source and fingerprint; `Decide` is the handler's
chain of early returns); `Write` (row, revision, change and receipt as uncommitted
writes: the unique indexes on fingerprint and receipt make it wait for another open
transaction or fail); `Commit`; `Record` (push stores the receipt once more, in a
statement of its own); `Respond`. Faults: `TxError` (a statement fails, the
transaction rolls back and the handler answers `DB_ERROR`),
`CommitUnacknowledged` (the commit took effect and the handler sees an error),
`Fail` (the request is dropped anywhere). Requests are retried by being received
again. `AddAccount` stands for accounts that appear meanwhile. `Pull(d)` hands a
page in sequence order and moves the cursor.

`lastSeq` is drawn in `Write`, the change becomes visible in `Commit`: that gap is
why `NothingSkipped` fails with two writers. Payloads are abstracted to what the
handler branches on (entity, operation, base version, source, fingerprint, account,
outcome of the validation); the content of a row is the id of the mutation that
wrote it.

A row has a fingerprint, given by its INSERT and kept, and a tag (`auto`: its source is
`auto_ledger`), which an edit that names a source replaces. Only live rows with both are
found by the deduplication SELECT and are in the partial unique index (`IndexKey`). So an
edit can take a row out of the index, after which its payment may be booked again under
another id, and an edit can put it back: then the UPDATE may wait for the index or violate
it (`EntersIndex`, `FpClash`). The answer is `AUTO_LEDGER_DEDUPED` when the mutation itself
carries tag and fingerprint, and `DB_ERROR` otherwise (`ClassifyUniqueViolation`).

### Book, and how SyncServer implements it

`Book` has four actions: `Apply` (row, change and receipt together), `Refuse`,
`Dedupe`, `AddAccount`. It is what the server does without a database, where one
lock is held around the look-up of the receipt, `process_mutation_mem` and the
insertion of the receipt. `ImplementsBook` (`B!Spec`) says that the many steps of
overlapping PostgreSQL requests look like these: `Commit` and `CommitUnacknowledged`
map to `Apply`, `Refuse` or `Dedupe`, `Record` to `Refuse`, `Dedupe` or nothing, and
everything else to nothing. Rows, receipts and accounts map to themselves; the log is
mapped to `Told`, the changes without their sequences, because the order in which
PostgreSQL's changes become visible is not the order of their sequences (that is
`pull_gap`). Where the two stores differ, `Book` allows both: an edit takes over the
edit's fingerprint in memory, and brings a deleted row back, and leaves both alone on
PostgreSQL; an edit that tags a second row of a payment is refused only by PostgreSQL's
index.

### AccountTree

`LockMutation`, `ParsePayload`, `LockTree` (one advisory lock for the whole
hierarchy of a book), `Check` (`Decide`: existence, classification, parent is a
first-level category of the same type, a category with children stays a root),
`Commit`, `Record`, with the same faults. Replay by a device is defined from the
log (`ParentAt`), starting from the default accounts every device seeds itself.

### DeviceSync

User actions: `Create`, `Edit` (folds into a queued create, otherwise queues an
update based on the local version), `ReadForDelete`/`Delete` (the two halves of
`softDeleteTransaction`), `KeepLocal`/`AcceptRemote` (`resolveConflict`). A run of
`syncNow`: `Start` (reads the cursor), `List`, `Serve` (the server handles one
mutation of the request; the receipt answers every retry), `Respond`,
`HandleReceipt` per receipt, `RemoveRefused` (the second half of recording a
conflict), `AfterReceipts` (second push or error), `Pull`, `ApplyChange` per
change, `Finish` (saves the cursor). `Abort` cuts a run off anywhere: a lost
response, an exception or a killed app. `ServeError` makes the server store a
`DB_ERROR`. Each user operation has a number that stands for its mutation id and
for the content it leaves. `raced` records the devices where a pulled change was
applied between the two halves of a delete of the same transaction: the server
refuses that delete, and the copy stays deleted whatever is pulled afterwards, so
`Converged` and `SyncedUnlessError` speak of the other devices. Transactions are
the ones entered by hand; fingerprints of captured payments are in `SyncServer`.

### JobQueue

A process starts (`Start`, `BootEnqueue`, `BootLook`/`BootInsert` for
`enqueue_if_absent`), polls (`Select` with `FOR UPDATE SKIP LOCKED`, `Claim`), and
works through its batch: `Body` for the opaque jobs; `ReadDue`, `ScanRule`,
`ScanMalformed`, `ScanEnd` for the recurring scan; `Reschedule`; `Complete` or
`Fail`. Trouble: `Crash` anywhere, `BodyError`, and the bookkeeping statements
whose errors the code discards (`BootError`, `RescheduleError`, `FinishError`) or
that end the worker (`ClaimError`). `Elapse` lets the `run_at` of a waiting row
come; `Tick` is a month of the rules. Completed rows are read by no statement and
leave the model, so repeating jobs run for ever in a finite state space. The
`LIMIT 50` of the scan is not reached by the instances.

### Attachments

A request arrives (`CreateSession`, `PutObject`, `PartLock`, `AbortRead`,
`DeleteRead`, `CompleteRead`) and goes on by one database statement or one call of the
object store at a time. Only the upload of a part and the purge hold the lock of a row
while they talk to the store; the others read the row, work on the store and write the
row by its id. `DirectPut`/`DirectRecord` are uploads through a signed URL: the client
puts a body of any length, and reports a part with whatever id it says, whether or not it
has put one, since nobody asks the store. A completion gathers the parts
(`CompleteGather`, `CompletePublish`, `CompleteClear`, or S3's own assembly), measures the object twice (`CompleteSize`, `CompleteMetadata`) and
updates the row, or rejects it (`RejectStore`, `RejectMark`). The purge is
`PurgeSelect` (`FOR UPDATE SKIP LOCKED`), `PurgeAbort` and `PurgeDelete` per row,
`PurgeCommit`; a failing call of the store (`PurgeFails`, whether or not it took effect)
leaves the row for the next purge. `Dropped` and `InsertFails` end a handler anywhere,
`PurgeRollback` a purge. Content is its size; on the local backend a file being written
can be seen torn.

### Sessions

One account, one device. The server's slots run `Register`, `FindUser`, `BookLookup`,
`BookBegin`, `BookCommit` (`ensure_demo_book`), `IssueTokens`, `RotateRead`,
`RotateClaim` (the conditional UPDATE), `AuthCheck`, `Revoke`. The device has three
calls under way at most, each a sequence of awaits: what the user does (`Login`,
`SignUp`, `Restore`, `Logout`), an API request with the interceptor that refreshes and
retries once, and the refresh that all of them share. `GiveUp` is a timeout or a lost
answer while the server goes on; `Kill` restarts the app with what is on its disk;
`ServerError` fails a statement; tokens expire at any time. The history variables
`overtaken` and `overlap` mark the two gaps of the code: a device cleared while a
refreshed token is being written, and two requests that both found no book.

### Backups

`Workers` run scheduled backups and drills, `Operators` restore by hand, the
application changes attachments meanwhile (`AppStep`). Nothing excludes one worker or
operator from another. The application alone is kept out, and only while a restore is
replacing data: that is the change window the operator confirms to have opened, which the
code asks for and does not enforce. A backup: `Dump`, `ListObjects`, `CopyObject` one by one, `WritePayload`,
`WriteManifest`, `Replicate`/`CopyPayloads`/`PublishReplica` (staged in the offsite
root itself), `ListBundles` and `DeleteBundle` in both roots, `EndBackup`. A restore
makes a safety backup first and goes on when it succeeded: `Unpack`, `StageObjects`,
then `MoveAway`, `PublishObjects`, `RemovePrevious` (local) or `PutObject` one by one
(S3), `CleanTables`, `LoadTables`, `CheckRestored`, `EndRestore`. A drill finds the
newest bundle, opens it, and replays it into a temporary database. `StepFails` fails
any step with the code's clean-up, `Crash` stops a process between two. Encryption is
data. The instance starts after a first run.

## Runs that hold

| Run | Instance | Shows |
|---|---|---|
| `push_safety` | 2 requests at a time, 3 in all from 5 batches, 1 fault, handlers symmetric; one payment captured under two ids, two edits and a delete, an account that is missing at first | types, `LogFaithful` (= `AtMostOnce`, `AllOrNothing`, `HistoryComplete`, `LogOrder`, `BaseRespected`), `AckedIsDurable`, `ImplementsBook` |
| `push_ends` | 2 requests that take locks, fingerprints and receipts in opposite orders, 3 in all, without faults; one payment captured under two ids, a delete, and edits that take the tag of its row away and give it back with and without the fingerprint; a device that pulls pages of 1 | `OneLiveRowPerFp`, `AnswersHold`, `PushEnds`: no wait cycle |
| `category_tree` | 2 requests, 4 mutations out of 8 over 4 accounts, 1 fault | types, `TwoLevel`, `ReplayIsTwoLevel`, `ReplayReachesRows` |
| `device_sync` | 2 devices, 1 run each, 3 operations and 1 `keepLocal` on one transaction, 1 abort, 1 database error, with fairness | types, `PendingKept`, `Converged`, `SyncedUnlessError` |
| `job_safety` | a server and a worker process that start in any order, both register the backup, and the server a scan at every start; both work on all jobs; a good and an unreadable rule, batches of 2, 1 crash, 1 discarded error | types, `OneHolder`, `EachAdvanceBooked`, `NotEarly`, `FewPending` |
| `jobs_go_on` | 2 workers, one of which registers the jobs, a good and an unbalanced rule, 2 months, 1 failing body, with fairness | `GoesOnUndisturbed`, `DueIsBooked` |
| `attachments` | 1 attachment, 2 requests at a time and 5 in all, the purge, both backends, no size stated or sizes put whole, of exactly one part, and of two parts, bodies shorter, equal and longer than asked, 1 dropped handler, rolled back purge or failing call of the purge, with fairness | types, `ReadyVerified`, `PartsKept`, `PurgeSparesReady`, `ReadyHasObject`, `Settles` |
| `sessions` | 3 requests at a time in the server, 3 sessions, 3 books, 1 lost answer, failed statement or kill, 1 logout, with fairness | types, `NoFork`, `LateAnswerDropped`, `NotKickedOut`, `OneBook`, `CallsEnd` |
| `backups` | 1 worker and 1 operator, 1 attachment, 2 bundles kept, 3 runs, both backends, 1 failing step or killed process | types, `NewestWhole`, `ReadyMeansBundle`, `SafetyKept`, `DrillPredicts`, `RestoreHonest` |

Some of these say exactly how far the code goes. `AnswersHold` holds while nothing
fails: the receipt of a rolled-back attempt is stored in a statement of its own after
the locks are gone, so after a fault a retry may overtake it and be answered
differently, and a collision on the receipt table is then taken for a duplicate
payment. `OneLiveRowPerFp` counts rows that still carry the tag: a payment whose row was
tagged otherwise by an edit can be booked again, in the code and in the model. The second
half of `PartsKept` speaks of parts the server has put itself. `NotEarly` and `FewPending` bound what
overlapping scans and simultaneous starts may do by the number of processes; with
one process they say that a rule is never booked early and a job never registered
twice. `DueIsBooked` leaves out the rules behind one whose payload cannot be read,
because the scan fails there, attempt after attempt. `Settles` leaves out the uploads
that S3 has ended while their row stayed pending (`Stranded`). `LateAnswerDropped` and
`OneBook` hold outside the two gaps named above. For replicas `ReadyMeansBundle` asks
that more bundles are kept than runs are under way or were killed, because an
unfinished replica counts as one.

Why the bounds are enough: two concurrent requests are what every race of the
server needs, the third is the retry of either; for a captured payment the three are the
capture and its demotion, the second capture, and an edit that tags the first row again
(without faults, which the theorem adds); one fault separates any two statements, and its position is arbitrary. Four category mutations allow two roots
to be set up and then moved against each other. On the devices, three operations
are a create, and two conflicting edits or an edit and a delete; `keepLocal`, which
needs a conflict first, has a bound of its own; one abort may hit any step of any
run. For the jobs, two workers and one crash or failure cover every
pair of holders; `MaxAttempts = 2` has a first failure that is retried and a last
one that is not; `MaxJobs`, the rows not yet completed, leaves room for two scans (the
server starts twice) and two registrations of the backup. Attachments do not interact
with each other except in a purge's transaction; five requests are a session, two
parts (put through the server or only reported), a completion and one that races with
them. Three sessions are a login, a rotation
and its retry. Three backup runs with two kept are the smallest number at which a
cleanup takes away the bundle a restore works with.

Deadlock checking is off where the instance really comes to rest: no request left
to send, or a job table with nothing pending (a worker that sleeps and polls again
is a stuttering step).

## Runs that show a disagreement

Each one has a line of the documentation, or of a comment in the code, that the
code does not keep; `PROJECT.json` quotes it.

| Run | Property | What happens |
|---|---|---|
| `pull_gap` | `NothingSkipped` | sequences commit out of order and a pull in between skips one for ever |
| `edit_lost` | `NoSilentLoss` | an edit folded into a create that was already sent is dropped |
| `restore_order` | `OldRowsKeepObjects` | on the local backend the objects are swapped as a whole before the database; when `pg_restore` then fails, rows of the old database have lost their objects |

Six further configurations are kept for the regression of known gaps. Each is refuted
in seconds, and the hazard at its line in `PROJECT.json` says what it means.

| Configuration | Module | Property | What happens |
|---|---|---|---|
| `DeviceSync_overwrite.cfg` | `MC_DeviceSync` | `NoSilentOverwrite` | the second of two offline edits has by accident the version another device wrote |
| `DeviceSync_races.cfg` | `MC_DeviceSync` | `Converged` | two runs on one device apply pages and save cursors in opposite orders |
| `DeviceSync_sticky.cfg` | `MC_DeviceSync` | `EventuallySynced` | one stored `DB_ERROR` stops a device for good |
| `JobQueue_stuck.cfg` | `MC_JobQueue` | `GoesOn` | a job whose process stopped stays running and is never registered again |
| `Attachments_s3.cfg` | `MC_Attachments` | `EachSettles` | S3 has ended an upload whose row is pending: every purge fails on it |
| `Sessions_logout.cfg` | `MC_Sessions` | `LogoutSticks` | a logout that ends while the refreshed token is written is undone |

## Fairness

* `SyncServer`: weak fairness of each request's own steps. The runtime polls an
  accepted request until it ends, and PostgreSQL grants a lock that stays free.
  Nothing is assumed of clients, of pulls or of faults.
* `DeviceSync`: weak fairness of each run and of starting the next one (the user
  opens the app or presses sync again), and of the second half of a delete. Edits
  and the resolution of conflicts are never assumed.
* `JobQueue`: weak fairness of a live process's next statement, of the restart of a
  process that went down (its supervisor), and of time passing. A worker that ended
  by an error is not assumed to come back, because nothing in the code starts it.

* `Attachments`: strong fairness of a request's own steps (PostgreSQL grants a row lock
  to those who wait in turn), weak fairness of the purge job (it is scheduled again
  after every run) and of uploads getting old. Clients are never assumed to go on.
* `Sessions`: weak fairness of the steps of requests the server has begun and of calls
  the device has begun. Neither the user nor the clock is assumed to act.
* `Backups`: none; all its properties are invariants.

## Proofs

TLAPS proves every safety property that a passing run checks, for every number of
requests, devices, workers, entities, mutations and faults, and that push implements
`Book`. The assumptions on the constants are stated in the modules: mutation bodies are
well formed, the markers for "none" differ from real values, bounds are natural numbers
and batch, page and retention sizes are at least one; the default accounts are a
two-level tree; workers, operators and rules are finite sets; every transaction has the
device that creates it. Two properties of the backups are proved for one operator at a
time, and convergence for one run of `syncNow` per device: TLC refutes them without.

None of the properties is inductive by itself, because every handler acts on what it
decided or read some steps before. Each proof module says in its invariant what may be
relied on in between, shows with a lemma per group of actions that it stays so, and
draws the properties from it.

`SyncServerProofs`. `Inv` adds to `TypeOK` and the properties what an open transaction
may rely on: two open transactions never work on the same entity (`LockExclusive`); the
version a plan was made for is still the row's version (`PlanCurrent`); the mutation of
an open transaction past its write has no receipt (`ReceiptAbsent`); a sequence that was
drawn is ahead of every change of the entity (`SeqAhead`); what a writer adds to the
fingerprint index, by an INSERT or by an UPDATE that tags its row, is held by no other
row and no other writer (`FpReserved`); every answer on its way that says OK has
its change (`AnswersTrue`). Steps that leave rows and log alone are handled once
(`QuietStep`, `QuietInv`); locking, reading, writing, recording and committing have a
lemma each. From `Invariance` follow `TypeCorrect`, `AppliedAtMostOnce`, `Atomicity`,
`LogIsComplete`, `LogIsOrdered`, `NoBlindOverwrite`, and their conjunction
`LogIsFaithful`, `PaymentBookedOnce` (among live rows tagged `auto_ledger`),
`AcknowledgedIsDurable`, `ReceiptsAreFinal`, and `CasIsRedundant`: the version test in the UPDATE never fails, because the entity lock
already excludes every other writer.

`SyncServerRefinement`. `PushImplementsBook` is the refinement, step by step: a commit
is `Apply`, `Refuse` or `Dedupe`, a recorded receipt `Refuse`, `Dedupe` or nothing. A
step of `Book` must be allowed when it is seen, and the handler decided earlier. So
`RefInv` adds that the plan of an open transaction is still one `Book` allows
(`PlanJustified`), that a receipt stored after the locks were given up is one nothing
can make wrong (`Standing`), that a row owes its fingerprint to the change that inserted
it (`RowsFromLog`, so that a duplicate is booked under another id), and that accounts
only appear (`AccountsKept`). `AnswersInv` says the same of answers on their way while nothing has failed, and gives `FaultlessAnswersHold`:
a mutation that is not tagged `auto_ledger` has one answer, and what is answered as a
duplicate was booked under another id.

`AccountTreeProofs`. `Inv` adds to `TypeOK` and `TwoLevel` that only one request is
past the hierarchy lock (`TreeExclusive`) and that the plan of a request about to
commit is the one it would make now (`PlanFresh`); without them a plan made for an
old tree could build a third level. From it follow `TypeCorrect`,
`TreeHasTwoLevels` and `AccountsAreClassifiedOnce`. For the devices, `LogInv` adds that
sequences are drawn once (`SeqsDrawn`) and that replaying the whole log gives the rows
(`RowsAreReplayed`): a commit then extends the last replay by a legal step, and every
prefix is a tree (`ReplaysAreTrees`, `ReplaysReachTheRows`). This needs the sequences of
one book to commit in order, which the hierarchy lock ensures for categories and nothing
ensures for transactions (`pull_gap`).

`DeviceSyncProofs`. For `PendingKept`, `Inv` says of each run that what it was told is
applied has been applied, and that the refused mutation it is about to remove is in a
conflict or out of it (`GoodRun`); a queue, or a conflict, only holds what was once queued
(`QueueIds`); and every applied mutation is one change of the log (`LogCounts`). With it
come `TypeCorrect` and `NothingQueuedIsLost`. `DevicesConverge` rests on `ConvInv`:
of a transaction the device shows the last change, or a change of it is still to be
applied, or its queue holds a mutation the server will take or has stored an error for
(`Settled`: `Mirror`, `Ahead`, `Viable`). That survives a step because a run applies the log in its order from
the saved cursor (`ReadInv`), folding an edit changes nothing the server decides by
(`TicketsAgree`), a create leaves the queue before its own change is pulled
(`CreatesFirst`), and the version read for a delete stays current unless the delete was
raced (`DeletesCurrent`). `ReadInv` is what a second run on the device breaks
(`DeviceSync_races.cfg`), hence the hypothesis `OneRun`.

`JobQueueProofs`. `QueueInv`: ready rows are pending and differ (`ReadyPending`), have
attempts left (`AttemptsLeft`), row locks are held by one worker (`Locked`,
`LocksApart`), and the rows of a batch are still running under its worker (`Holds`). It
gives `TypeCorrect` and `HoldersDisjoint`. `RulesInv` adds that a scan has each rule
once in hand (`DueOnce`): `AdvancesBooked`, `BookedInTime`. `RegistrationsBounded`
counts more than the property does, or it would not be inductive: rows that are pending,
rows at work that have not left their successor (`Coming`), and starts that found none
and are about to insert one (`Inserting`) are together at most one per worker.

`SessionsProofs`. `Protocol` says where requests and calls may be and that a call waits
for a slot of its own, of the right kind. On it rest: `ForkInv`, where session ids are
used once (`Origins`), for `NeverForks`; `OutInv`, where after a logout every refresh
under way has an older epoch, for `LateAnswersDropped`; `BookInv`, where a request that
makes a book is alone and makes the first, for `OneBookPerAccount`; and `CalmInv`,
which follows the one live refresh token through request, rotation, answer and disk
while nothing fails (`LiveToken`, `CalmCalls`), for `NeverKickedOut`.

`AttachmentsProofs`. `Inv` says at which statement a handler is and with what in hand
(`Stage`), that until its row is inserted one request knows an id (`Fresh`), that sizes
stay as asked and measured (`SizesKept`), that the upload of a part and the purge hold
the locks of their rows (`PartHeld`, `PurgeHeld`), that a part the server has put and is
about to record is in the store (`PartsInv`), and that an object measured by a completion
is there when its row becomes ready (`ObjectsInv`). From it follow `TypeCorrect` (a part that goes through
the server is no longer than a part may be; a direct one has any length), `ReadyIsVerified`,
`PartsAreKept` (parts answered as uploaded stay listed while the row is pending, and the
ones the server put are in the store while the upload is open), `PurgeKeepsAway` and
`ReadyObjects`.

`BackupsProofs` has three layers. `BundleInv`: a run belongs to one process
(`RunsApart`), leaves no manifest before its time (`Unborn`), the newest stamp is that of
a bundle on disk (`LastStamp`, with the counting of `Counted` and `Dated`), and what a
cleanup is about to delete is still surplus (`DropsSurplus`); hence `TypeCorrect`,
`NewestAreWhole` and `SafetyIsKept`. `ReplicaInv`: unfinished replicas nobody works on
are at most the faults (`FewOrphans`), so with `EnoughKept` a cleanup of the offsite root
always leaves a newer replica (`Replicated`, `DropsReplaced`); hence `ReadyHasBundle`.
`DataInv`: bundles that were drilled or are being restored do not change (`OfBorn`,
`DrillInv`), and rows and objects are what the restore under way has made of them
(`Restoring`, `RestoredInv`, `ObjectsStay`); hence `DrillsPredict` and
`RestoresAreHonest`. The last two are stated under `OneOperator`: the code has no lock
between two restores by hand, and with two operators TLC finds each overwriting what the
other one has put back.

Only model-checked: liveness (`PushEnds`, `SyncedUnlessError`, `GoesOnUndisturbed`,
`DueIsBooked`, `Settles`, `CallsEnd`). It needs fairness and `ENABLED`, which are out of
this proof system's reach. The properties of the runs that show a disagreement are
false, and stay with TLC too.

## Not modelled, and why

`bootstrap` only reads. Plan limits, membership and rate limits refuse a request before
it reaches the modelled code. Entries are replaced as a whole with their transaction, so
their contents do not matter to any property here; balance is one of the validation
outcomes. Of the sessions, cookies, the store without a database and passwords are left
out; of the attachments, the upload queue of the client, signatures and content types;
of the backups, passwords, bundles of schema 1, metrics, failures to write a status file
and the migration of a local store to S3. Reports, billing and budgets are read-only
aggregation and single-statement writes. Client backups, imports, insights and the user
interface are I/O and presentation.

The automatic ledger and the local recurring scheduler are not modelled yet. What is
known of them: events whose posting failed, or that were captured while a batch was
posted, are cleared with the rest; an edit before the first push drops the fingerprint
that keeps a captured payment single; a rule is posted and advanced in two transactions.

## Plan

1. Proofs: every safety property of a passing run has its theorem. What is left is to
   say under weaker conditions than one run of `syncNow` per device, or one operator at a
   time, what still converges and what a restore may still promise, and more action
   properties (that a device's cursor is never saved beyond what it applied, that a row
   of the job table never goes back to an earlier attempt).
2. Client: category mutations in `DeviceSync` (the repair of refused receipts,
   `retryCategoryMutationAsRoot`, `renewPendingMutation`, and `resolveConflict`, which
   answers category conflicts as transactions).
3. `AutoLedger`: captured payments, the pending queue shared with the Android listener,
   posting, clearing, and the local recurring scheduler.
