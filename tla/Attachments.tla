----------------------------- MODULE Attachments ----------------------------
(***************************************************************************)
(* The life of an attachment between the attachments table and the object  *)
(* store: upload sessions, single and multipart uploads, completion,       *)
(* abort, deletion, and the job that purges stale uploads.                 *)
(*                                                                         *)
(* A handler runs one database statement or one store call at a time, and  *)
(* only the uploads of parts and the purge hold the lock of a row while    *)
(* they talk to the store.  Everything else reads the row, works on the    *)
(* store, and writes the row by its id.  A handler may be dropped between  *)
(* any two of its steps: the connection is closed, a call fails or the     *)
(* process stops.                                                          *)
(*                                                                         *)
(* Content is its size.  On the local backend a file that is being written *)
(* is first empty, so that a reader can see it torn; S3 shows an object or *)
(* a part only when it is whole.  S3 names a part by its content, and      *)
(* assembles the parts only under the names they have then.                *)
(***************************************************************************)
EXTENDS Integers, FiniteSets

CONSTANTS
    Ids,          \* attachment ids
    Reqs,         \* requests served at one time
    Nobody, Purger,
    Backends,     \* the backends a deployment may have: "local", "s3"
    Sizes,        \* sizes asked for; NoSize where the client states none
    NoSize,
    Bodies,       \* sizes of the bodies clients send to a signed URL
    PartSize,     \* MULTIPART_PART_SIZE_BYTES
    Threshold,    \* above this size an upload is in parts
    MaxSize,      \* attachment_max_bytes
    MaxRequests,  \* bound: requests
    MaxFaults     \* bound: dropped handlers and rolled back purges

ASSUME AttachmentsAssumption ==
    /\ Nobody \notin Reqs /\ Purger \notin Reqs /\ Purger # Nobody
    /\ Ids \cap {"rest", "abort"} = {}
    /\ Backends \subseteq {"local", "s3"}
    /\ NoSize \in Int \ Nat
    /\ Sizes \subseteq Nat \cup {NoSize}
    /\ Bodies \subseteq Nat
    /\ {PartSize, MaxSize} \subseteq Nat \ {0}
    /\ Threshold \in Nat
    /\ {MaxRequests, MaxFaults} \subseteq Nat

VARIABLES
    backend,
    rows,      \* the attachments table
    lock,      \* who holds the lock of a row
    age,       \* "new", "fresh", or "stale": older than the pending TTL
    objects,   \* size of the object of an attachment, or NoSize
    open,      \* the attachments with an open multipart upload
    stored,    \* size of each part of that upload, or NoSize
    req,       \* what each request is at
    purge,     \* what the purge job is at
    asked,     \* history: the size an upload session was asked for
    acked,     \* history: parts answered as uploaded, and who put them
    unsafe,    \* history: attachments whose object was removed by a delete
               \* request, a rejected upload or a purge that left the row
    requests,
    faults

store == <<objects, open, stored>>
history == <<asked, acked, unsafe>>
budget == <<requests, faults>>
vars == <<backend, rows, lock, age, store, req, purge, history, budget>>

-----------------------------------------------------------------------------
(***************************************************************************)
(* The plan of a multipart upload                                          *)
(***************************************************************************)
should_use_multipart(s) == s > Threshold

multipart_part_count(s) == (s + PartSize - 1) \div PartSize

\* Mutant: every part has the full length.
UncutLastPart(s, n) == IF n < multipart_part_count(s) THEN PartSize ELSE s

multipart_part_length(s, n) ==
    IF n < multipart_part_count(s) THEN PartSize
    ELSE s - (multipart_part_count(s) - 1) * PartSize

PartNumbers == 1 .. multipart_part_count(MaxSize)

\* A value for each part: its size in the store, or the part id of the row.
PartValues == [PartNumbers -> Nat \cup {NoSize}]
NoPart == [n \in PartNumbers |-> NoSize]

-----------------------------------------------------------------------------
NoRow == [status |-> "none"]

Row(status, size, parts, mode) ==
    [status |-> status, size |-> size, parts |-> parts, mode |-> mode]

NewRow(s) == Row("pending", s, NoPart, IF should_use_multipart(s) THEN "multipart" ELSE "single")

Rows == [status : {"pending", "ready", "failed"}, size : Nat \cup {NoSize},
         parts : PartValues, mode : {"single", "multipart"}]

\* What a handler has in hand; seen are the part ids it has read, n and
\* length those of a part.
Request(op, pc, a, size, seen) ==
    [op |-> op, pc |-> pc, a |-> a, size |-> size, actual |-> NoSize,
     n |-> 0, length |-> 0, seen |-> seen]

Idle == [op |-> "idle"]
Resting == [pc |-> "rest", parted |-> {}, todo |-> {}, done |-> {}]

Init ==
    /\ backend \in Backends
    /\ rows = [a \in Ids |-> NoRow]
    /\ lock = [a \in Ids |-> Nobody]
    /\ age = [a \in Ids |-> "new"]
    /\ objects = [a \in Ids |-> NoSize]
    /\ open = {}
    /\ stored = [a \in Ids |-> NoPart]
    /\ req = [q \in Reqs |-> Idle]
    /\ purge = Resting
    /\ asked = [a \in Ids |-> NoSize]
    /\ acked = [a \in Ids |-> {}]
    /\ unsafe = {}
    /\ requests = 0
    /\ faults = 0

\* validate_multipart_part_plan: the row takes part number n.
ValidPlan(a, n) ==
    /\ rows[a].status = "pending"
    /\ rows[a].mode = "multipart"
    /\ n \in 1 .. multipart_part_count(rows[a].size)

\* A request arrives, moves on, and is answered.
Begin(q, r) ==
    /\ req[q] = Idle
    /\ requests < MaxRequests
    /\ requests' = requests + 1
    /\ req' = [req EXCEPT ![q] = r]

At(q, op, pc) == req[q].op = op /\ req[q].pc = pc
Measured(q, pc, actual) ==
    req' = [req EXCEPT ![q] = [op |-> @.op, pc |-> pc, a |-> @.a, size |-> @.size,
                               actual |-> actual, n |-> @.n, length |-> @.length,
                               seen |-> @.seen]]
Goto(q, pc) == Measured(q, pc, req[q].actual)
Answer(q) == req' = [req EXCEPT ![q] = Idle]

Fault == faults < MaxFaults /\ faults' = faults + 1

\* Mutant: an UPDATE does not wait for the lock of the row.
NeverLocked(a) == TRUE

\* UPDATE and DELETE by id: a row that is gone is not noticed, and a row
\* another transaction has locked is waited for.
Free(a) == lock[a] = Nobody
UpdateRow(a, r) == rows' = [rows EXCEPT ![a] = IF @ = NoRow THEN NoRow ELSE r]
DeleteRow(a) == rows' = [rows EXCEPT ![a] = NoRow]
Unlock(who) == lock' = [a \in Ids |-> IF lock[a] = who THEN Nobody ELSE lock[a]]

\* Mutant: SELECT without FOR UPDATE.
NoLock(who, S) == UNCHANGED lock

LockRows(who, S) == lock' = [a \in Ids |-> IF a \in S THEN who ELSE lock[a]]

\* The directory of parts is removed, or the upload id ends.
CloseUpload(a) ==
    /\ open' = open \ {a}
    /\ stored' = [stored EXCEPT ![a] = NoPart]

RemoveObject(a) == objects' = [objects EXCEPT ![a] = NoSize]

-----------------------------------------------------------------------------
(***************************************************************************)
(* create_upload_session                                                   *)
(***************************************************************************)
\* The upload is started in the store before the row is inserted.
CreateSession(q, a, s) ==
    /\ age[a] = "new"
    /\ \A p \in Reqs : req[p] # Idle => req[p].a # a
    /\ s <= MaxSize
    /\ Begin(q, Request("create", "insert", a, s, NoPart))
    /\ IF should_use_multipart(s)
       THEN /\ open' = open \cup {a}
            /\ UNCHANGED <<objects, stored>>
       ELSE UNCHANGED store
    /\ UNCHANGED <<backend, rows, lock, age, purge, history, faults>>

InsertRow(q) ==
    /\ At(q, "create", "insert")
    /\ LET a == req[q].a
       IN  /\ rows' = [rows EXCEPT ![a] = NewRow(req[q].size)]
           /\ age' = [age EXCEPT ![a] = "fresh"]
           /\ asked' = [asked EXCEPT ![a] = req[q].size]
    /\ Answer(q)
    /\ UNCHANGED <<backend, lock, store, purge, acked, unsafe, budget>>

\* The INSERT fails, and the upload is aborted as far as that works.
InsertFails(q) ==
    /\ At(q, "create", "insert")
    /\ Fault
    /\ \/ CloseUpload(req[q].a)
       \/ UNCHANGED <<open, stored>>
    /\ age' = [age EXCEPT ![req[q].a] = "stale"]
    /\ Answer(q)
    /\ UNCHANGED <<backend, rows, lock, objects, purge, history, requests>>

-----------------------------------------------------------------------------
(***************************************************************************)
(* put_object: the signed URL of a single upload, valid for ten minutes    *)
(* whatever becomes of the row.                                            *)
(***************************************************************************)
PutObject(q, a, b) ==
    /\ age[a] = "fresh"
    /\ ~should_use_multipart(asked[a])
    /\ Begin(q, Request("put", "write", a, b, NoPart))
    /\ IF backend = "local"
       THEN objects' = [objects EXCEPT ![a] = 0]
       ELSE UNCHANGED objects
    /\ UNCHANGED <<backend, rows, lock, age, open, stored, purge, history, faults>>

\* A local file that was removed meanwhile is written to no effect.
PutWritten(q) ==
    /\ At(q, "put", "write")
    /\ objects' = [objects EXCEPT ![req[q].a] =
                      IF backend = "local" /\ @ = NoSize THEN NoSize ELSE req[q].size]
    /\ Answer(q)
    /\ UNCHANGED <<backend, rows, lock, age, open, stored, purge, history, budget>>

-----------------------------------------------------------------------------
(***************************************************************************)
(* upload_multipart_part: SELECT ... FOR UPDATE, the part is put into the  *)
(* store, the list of parts read before is written back, COMMIT.           *)
(***************************************************************************)
PartLock(q, a, n) ==
    /\ Free(a)
    /\ ValidPlan(a, n)
    /\ Begin(q, [op |-> "part", pc |-> "put", a |-> a, size |-> rows[a].size,
                 actual |-> NoSize, n |-> n,
                 length |-> multipart_part_length(rows[a].size, n), seen |-> rows[a].parts])
    /\ LockRows(q, {a})
    /\ UNCHANGED <<backend, rows, age, store, purge, history, faults>>

PartPut(q) ==
    /\ At(q, "part", "put")
    /\ LET a == req[q].a
           n == req[q].n
       IN  /\ a \in open
           /\ stored' = [stored EXCEPT ![a][n] =
                            IF backend = "local" THEN 0 ELSE req[q].length]
    /\ Goto(q, IF backend = "local" THEN "write" ELSE "record")
    /\ UNCHANGED <<backend, rows, lock, age, objects, open, purge, history, budget>>

PartWritten(q) ==
    /\ At(q, "part", "write")
    /\ LET a == req[q].a
           n == req[q].n
       IN  stored' = [stored EXCEPT ![a][n] =
                         IF a \in open THEN req[q].length ELSE NoSize]
    /\ Goto(q, "record")
    /\ UNCHANGED <<backend, rows, lock, age, objects, open, purge, history, budget>>

\* The upload is gone: the handler returns and its transaction rolls back.
PartRefused(q) ==
    /\ At(q, "part", "put")
    /\ req[q].a \notin open
    /\ Unlock(q)
    /\ Answer(q)
    /\ UNCHANGED <<backend, rows, age, store, purge, history, budget>>

\* update_multipart_part
ListPart(a, parts, n, id) ==
    UpdateRow(a, Row(rows[a].status, rows[a].size, [parts EXCEPT ![n] = id], rows[a].mode))

PartRecord(q) ==
    /\ At(q, "part", "record")
    /\ LET a == req[q].a
       IN  /\ ListPart(a, req[q].seen, req[q].n, req[q].length)
           /\ acked' = [acked EXCEPT ![a] = @ \cup {<<req[q].n, "server">>}]
    /\ Unlock(q)
    /\ Answer(q)
    /\ UNCHANGED <<backend, age, store, purge, asked, unsafe, budget>>

\* With S3 the client may put a part itself.  The URL, which it gets from
\* multipart_part_upload_url for a pending row, names the part and nothing
\* else: the body has any length, and the row may have changed since.
DirectPut(a, n, b) ==
    /\ backend = "s3"
    /\ a \in open
    /\ n \in 1 .. multipart_part_count(asked[a])
    /\ stored' = [stored EXCEPT ![a][n] = b]
    /\ UNCHANGED <<backend, rows, lock, age, objects, open, req, purge, history, budget>>

\* complete_multipart_part: the client reports a part and its id, and nobody
\* asks the store for it.
DirectRecord(a, n, id) ==
    /\ backend = "s3"
    /\ Free(a)
    /\ ValidPlan(a, n)
    /\ requests < MaxRequests
    /\ requests' = requests + 1
    /\ ListPart(a, rows[a].parts, n, id)
    /\ acked' = [acked EXCEPT ![a] = @ \cup {<<n, "client">>}]
    /\ UNCHANGED <<backend, lock, age, store, req, purge, asked, unsafe, faults>>

-----------------------------------------------------------------------------
(***************************************************************************)
(* abort_multipart_upload and delete_attachment: the row is read without a *)
(* lock and deleted at the end, whatever it has become.                    *)
(***************************************************************************)
AbortRead(q, a) ==
    /\ rows[a].status = "pending"
    /\ rows[a].mode = "multipart"
    /\ Begin(q, Request("abort", "store", a, NoSize, NoPart))
    /\ UNCHANGED <<backend, rows, lock, age, store, purge, history, faults>>

\* S3 answers NoSuchUpload for an upload that is gone; a directory that is
\* gone is no error.
AbortStore(q) ==
    /\ At(q, "abort", "store")
    /\ IF backend = "s3" /\ req[q].a \notin open
       THEN Answer(q) /\ UNCHANGED <<open, stored>>
       ELSE Goto(q, "delete") /\ CloseUpload(req[q].a)
    /\ UNCHANGED <<backend, rows, lock, age, objects, purge, history, budget>>

DeleteRead(q, a) ==
    /\ rows[a] # NoRow
    /\ Begin(q, Request("delete", "store", a, NoSize, NoPart))
    /\ UNCHANGED <<backend, rows, lock, age, store, purge, history, faults>>

DeleteStore(q) ==
    /\ At(q, "delete", "store")
    /\ RemoveObject(req[q].a)
    /\ unsafe' = unsafe \cup {req[q].a}
    /\ Goto(q, "delete")
    /\ UNCHANGED <<backend, rows, lock, age, open, stored, purge, asked, acked, budget>>

RemoveRow(q) ==
    /\ At(q, "abort", "delete") \/ At(q, "delete", "delete")
    /\ Free(req[q].a)
    /\ DeleteRow(req[q].a)
    /\ Answer(q)
    /\ UNCHANGED <<backend, lock, age, store, purge, history, budget>>

-----------------------------------------------------------------------------
(***************************************************************************)
(* complete_attachment                                                     *)
(***************************************************************************)
\* The row is read without a lock and whatever its status; a multipart
\* upload must have all its parts.
CompleteRead(q, a) ==
    /\ rows[a] # NoRow
    /\ rows[a].mode = "multipart" =>
           \A n \in 1 .. multipart_part_count(rows[a].size) : rows[a].parts[n] # NoSize
    /\ Begin(q, Request("complete", IF rows[a].mode = "multipart" THEN "gather" ELSE "size",
                        a, rows[a].size, rows[a].parts))
    /\ UNCHANGED <<backend, rows, lock, age, store, purge, history, faults>>

\* The bytes of the parts, put together.
Gathered(a) == Cardinality(UNION {{n} \X (1 .. stored[a][n]) : n \in PartNumbers})

\* The store has the parts; S3 has them under the ids that were read.
HasParts(q) ==
    LET a == req[q].a IN
    /\ a \in open
    /\ \A n \in 1 .. multipart_part_count(req[q].size) :
          /\ stored[a][n] # NoSize
          /\ backend = "s3" => stored[a][n] = req[q].seen[n]

\* complete_multipart: S3 assembles the parts and ends the upload at once.
\* Locally they are copied to a temporary file, the file is renamed to the
\* object, and the directory of parts is removed.
CompleteGather(q) ==
    /\ At(q, "complete", "gather")
    /\ HasParts(q)
    /\ LET a == req[q].a
       IN  IF backend = "local"
           THEN /\ Measured(q, "publish", Gathered(a))
                /\ UNCHANGED store
           ELSE /\ Goto(q, "size")
                /\ objects' = [objects EXCEPT ![a] = Gathered(a)]
                /\ CloseUpload(a)
    /\ UNCHANGED <<backend, rows, lock, age, purge, history, budget>>

CompletePublish(q) ==
    /\ At(q, "complete", "publish")
    /\ objects' = [objects EXCEPT ![req[q].a] = req[q].actual]
    /\ Measured(q, "clear", NoSize)
    /\ UNCHANGED <<backend, rows, lock, age, open, stored, purge, history, budget>>

CompleteClear(q) ==
    /\ At(q, "complete", "clear")
    /\ CloseUpload(req[q].a)
    /\ Goto(q, "size")
    /\ UNCHANGED <<backend, rows, lock, age, objects, purge, history, budget>>

\* object_size
CompleteSize(q) ==
    /\ At(q, "complete", "size")
    /\ LET actual == objects[req[q].a]
           s == req[q].size
       IN  /\ actual # NoSize
           /\ IF actual > MaxSize \/ (s # NoSize /\ s # actual)
              THEN Goto(q, "reject")
              ELSE Measured(q, "metadata", actual)
    /\ UNCHANGED <<backend, rows, lock, age, store, purge, history, budget>>

\* Mutant: the second measure is not compared with the first.
NeverChanged(q) == FALSE

SizeChanged(q) == objects[req[q].a] # req[q].actual

\* object_metadata: the object is read again, for its hash.
CompleteMetadata(q) ==
    /\ At(q, "complete", "metadata")
    /\ LET again == objects[req[q].a]
       IN  /\ again # NoSize
           /\ IF SizeChanged(q)
              THEN Goto(q, "reject")
              ELSE Measured(q, "update", again)
    /\ UNCHANGED <<backend, rows, lock, age, store, purge, history, budget>>

\* The parts or the object are not there: the handler answers with an error.
CompleteRefused(q) ==
    /\ \/ /\ At(q, "complete", "gather")
          /\ ~HasParts(q)
       \/ /\ At(q, "complete", "size") \/ At(q, "complete", "metadata")
          /\ objects[req[q].a] = NoSize
    /\ Answer(q)
    /\ UNCHANGED <<backend, rows, lock, age, store, purge, history, budget>>

CompleteUpdate(q) ==
    /\ At(q, "complete", "update")
    /\ LET a == req[q].a
       IN  /\ Free(a)
           /\ UpdateRow(a, Row("ready", req[q].actual, NoPart, rows[a].mode))
    /\ Answer(q)
    /\ UNCHANGED <<backend, lock, age, store, purge, history, budget>>

\* reject_attachment_upload: an open S3 upload is aborted and the object
\* deleted (the outcome of either is ignored), the row marked as failed.
RejectStore(q) ==
    /\ At(q, "complete", "reject")
    /\ IF backend = "s3" THEN CloseUpload(req[q].a) ELSE UNCHANGED <<open, stored>>
    /\ RemoveObject(req[q].a)
    /\ unsafe' = unsafe \cup {req[q].a}
    /\ Goto(q, "mark")
    /\ UNCHANGED <<backend, rows, lock, age, purge, asked, acked, budget>>

\* mark_attachment_failed
RejectMark(q) ==
    /\ At(q, "complete", "mark")
    /\ Free(req[q].a)
    /\ LET row == rows[req[q].a]
       IN  UpdateRow(req[q].a, Row("failed", row.size, row.parts, row.mode))
    /\ Answer(q)
    /\ UNCHANGED <<backend, lock, age, store, purge, history, budget>>

\* A handler is dropped; a transaction it had open is rolled back.
Dropped(q) ==
    /\ req[q] # Idle
    /\ Fault
    /\ Unlock(q)
    /\ age' = IF req[q].op = "create" THEN [age EXCEPT ![req[q].a] = "stale"] ELSE age
    /\ Answer(q)
    /\ UNCHANGED <<backend, rows, store, purge, history, requests>>

-----------------------------------------------------------------------------
(***************************************************************************)
(* purge_stale_attachments: one transaction over all rows it has locked.   *)
(***************************************************************************)
\* A row is older than the TTL, which is an hour at least; the signed URL
\* and the requests that came by it ended long before.
Age(a) ==
    /\ age[a] = "fresh"
    /\ \A q \in Reqs : req[q] # Idle => req[q].op # "put"
    /\ age' = [age EXCEPT ![a] = "stale"]
    /\ UNCHANGED <<backend, rows, lock, store, req, purge, history, budget>>

\* Mutant: failed uploads are not purged.
StalePending(a) == age[a] = "stale" /\ rows[a].status = "pending"

Stale(a) == age[a] = "stale" /\ rows[a].status \in {"pending", "failed"}

\* Mutant: the purge selects its rows without locking them.
SelectOnly(S) == UNCHANGED lock

LockForPurge(S) == LockRows(Purger, S)

\* FOR UPDATE SKIP LOCKED
PurgeSelect ==
    /\ purge = Resting
    /\ LET picked == {a \in Ids : Stale(a) /\ Free(a)}
       IN  /\ picked # {}
           /\ purge' = [pc |-> "abort", todo |-> picked, done |-> {},
                         parted |-> {a \in picked : rows[a].mode = "multipart"}]
           /\ LockForPurge(picked)
    /\ UNCHANGED <<backend, rows, age, store, req, history, budget>>

InParts(a) == a \in purge.parted

PurgeAt(pc, todo, done) ==
    purge' = [pc |-> pc, parted |-> purge.parted, todo |-> todo, done |-> done]

\* A row whose upload S3 does not know is left for the next purge.
PurgeAbort(a) ==
    /\ purge.pc = "abort"
    /\ a \in purge.todo
    /\ IF InParts(a)
       THEN IF backend = "s3" /\ a \notin open
            THEN /\ PurgeAt("abort", purge.todo \ {a}, purge.done)
                 /\ UNCHANGED store
            ELSE /\ CloseUpload(a)
                 /\ PurgeAt(a, purge.todo, purge.done)
                 /\ UNCHANGED objects
       ELSE /\ PurgeAt(a, purge.todo, purge.done)
            /\ UNCHANGED store
    /\ UNCHANGED <<backend, rows, lock, age, req, history, budget>>

\* The object is deleted, and the row in the transaction.
PurgeDelete(a) ==
    /\ purge.pc = a
    /\ RemoveObject(a)
    /\ PurgeAt("abort", purge.todo \ {a}, purge.done \cup {a})
    /\ UNCHANGED <<backend, rows, lock, age, open, stored, req, history, budget>>

\* Any other call of the store fails, whether or not it took effect: the row
\* is left for the next purge.
PurgeFails(a) ==
    /\ Fault
    /\ \/ /\ purge.pc = "abort"
          /\ a \in purge.todo
          /\ InParts(a)
          /\ CloseUpload(a) \/ UNCHANGED <<open, stored>>
          /\ UNCHANGED <<objects, unsafe>>
       \/ /\ purge.pc = a
          /\ \/ RemoveObject(a) /\ unsafe' = unsafe \cup {a}
             \/ UNCHANGED <<objects, unsafe>>
          /\ UNCHANGED <<open, stored>>
    /\ PurgeAt("abort", purge.todo \ {a}, purge.done)
    /\ UNCHANGED <<backend, rows, lock, age, req, asked, acked, requests>>

PurgeCommit ==
    /\ purge.pc = "abort"
    /\ purge.todo = {}
    /\ rows' = [a \in Ids |-> IF a \in purge.done THEN NoRow ELSE rows[a]]
    /\ Unlock(Purger)
    /\ purge' = Resting
    /\ UNCHANGED <<backend, age, store, req, history, budget>>

\* A statement or the COMMIT fails, or the worker stops: the rows stay,
\* the objects that were deleted do not come back.
PurgeRollback ==
    /\ purge # Resting
    /\ Fault
    /\ Unlock(Purger)
    /\ unsafe' = unsafe \cup purge.done
    /\ purge' = Resting
    /\ UNCHANGED <<backend, rows, age, store, req, asked, acked, requests>>

-----------------------------------------------------------------------------
Step(q) ==
    \/ InsertRow(q) \/ PutWritten(q)
    \/ PartPut(q) \/ PartWritten(q) \/ PartRefused(q) \/ PartRecord(q)
    \/ AbortStore(q) \/ DeleteStore(q) \/ RemoveRow(q)
    \/ CompleteGather(q) \/ CompletePublish(q) \/ CompleteClear(q)
    \/ CompleteSize(q) \/ CompleteMetadata(q) \/ CompleteRefused(q) \/ CompleteUpdate(q)
    \/ RejectStore(q) \/ RejectMark(q)

Purge ==
    \/ PurgeSelect
    \/ \E a \in Ids : PurgeAbort(a) \/ PurgeDelete(a)
    \/ PurgeCommit

Arrive(q, a) ==
    \/ \E s \in Sizes : CreateSession(q, a, s)
    \/ \E b \in Bodies : PutObject(q, a, b)
    \/ \E n \in PartNumbers : PartLock(q, a, n)
    \/ AbortRead(q, a)
    \/ DeleteRead(q, a)
    \/ CompleteRead(q, a)

Next ==
    \/ \E q \in Reqs, a \in Ids : Arrive(q, a)
    \/ \E q \in Reqs : Step(q) \/ InsertFails(q) \/ Dropped(q)
    \/ \E a \in Ids, n \in PartNumbers, b \in Bodies : DirectPut(a, n, b) \/ DirectRecord(a, n, b)
    \/ \E a \in Ids : Age(a) \/ PurgeFails(a)
    \/ Purge
    \/ PurgeRollback

\* Handlers that are not dropped run to their end (the database grants a
\* row lock to those who wait for it in turn), the job that purges
\* comes back every six hours, and time passes.
Spec ==
    /\ Init /\ [][Next]_vars
    /\ \A q \in Reqs : SF_vars(Step(q))
    /\ \A a \in Ids : WF_vars(Age(a))
    /\ WF_vars(Purge)

-----------------------------------------------------------------------------
(***************************************************************************)
(* Properties                                                              *)
(***************************************************************************)

Requests ==
    [op : {"create", "put", "part", "abort", "delete", "complete"},
     pc : {"insert", "write", "put", "record", "store", "delete", "gather", "publish", "clear",
           "size", "metadata", "update", "reject", "mark"},
     a : Ids, size : Nat \cup {NoSize}, actual : Nat \cup {NoSize},
     n : PartNumbers \cup {0}, length : 0 .. PartSize, seen : PartValues]

\* Every variable has its type; a part that is uploaded through the server is
\* never longer than a part may be, the last one, which is cut, included.
TypeOK ==
    /\ backend \in Backends
    /\ rows \in [Ids -> Rows \cup {NoRow}]
    /\ lock \in [Ids -> Reqs \cup {Nobody, Purger}]
    /\ age \in [Ids -> {"new", "fresh", "stale"}]
    /\ objects \in [Ids -> Nat \cup {NoSize}]
    /\ open \subseteq Ids
    /\ stored \in [Ids -> PartValues]
    /\ req \in [Reqs -> Requests \cup {Idle}]
    /\ purge \in [pc : {"rest", "abort"} \cup Ids, parted : SUBSET Ids,
                  todo : SUBSET Ids, done : SUBSET Ids]
    /\ asked \in [Ids -> Nat \cup {NoSize}]
    /\ acked \in [Ids -> SUBSET (PartNumbers \X {"server", "client"})]
    /\ unsafe \subseteq Ids
    /\ requests \in 0 .. MaxRequests
    /\ faults \in 0 .. MaxFaults

\* An attachment that is ready has the size its session was asked for, if
\* that was stated, and never more than the maximum, although the object
\* may be overwritten, or its parts torn, while it is measured.
ReadyVerified ==
    \A a \in Ids :
        rows[a].status = "ready" =>
            /\ rows[a].size \in 0 .. MaxSize
            /\ asked[a] # NoSize => rows[a].size = asked[a]

\* A part that was answered as uploaded stays in the list of its row, also
\* when several parts are uploaded at once (a resumed upload skips it); and a
\* part the server itself has put is in the store while the upload is open.
\* (Of a part the client put and reported the server knows nothing.)
PartsKept ==
    \A a \in Ids : \A p \in acked[a] :
        /\ rows[a].status = "pending" => rows[a].parts[p[1]] # NoSize
        /\ a \in open /\ p[2] = "server" => stored[a][p[1]] # NoSize

\* The purge never has a ready attachment in hand, whatever completions run
\* at the same time.
PurgeSparesReady ==
    \A a \in purge.todo \cup purge.done : rows[a].status # "ready"

\* The object of a ready attachment is there, unless a delete request, a
\* rejected upload or a purge that left the row has removed it.
ReadyHasObject ==
    \A a \in Ids :
        rows[a].status = "ready" /\ objects[a] = NoSize => a \in unsafe

\* An upload whose parts S3 has assembled while its row stayed pending: an
\* abort of it is refused for ever.
Stranded(a) ==
    /\ backend = "s3"
    /\ rows[a].status \in {"pending", "failed"}
    /\ rows[a].mode = "multipart"
    /\ a \notin open

\* Every upload is completed, or purged once it is stale, unless S3 has
\* ended its multipart upload.
Settles ==
    \A a \in Ids :
        rows[a].status \in {"pending", "failed"} ~>
            \/ rows[a].status \in {"none", "ready"}
            \/ Stranded(a)

\* What the comment in the purge counts on: a stale upload whose completion
\* stopped half-way is deleted as well.
EachSettles ==
    \A a \in Ids :
        rows[a].status \in {"pending", "failed"} ~> rows[a].status \in {"none", "ready"}
=============================================================================
