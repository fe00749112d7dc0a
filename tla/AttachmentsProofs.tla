--------------------------- MODULE AttachmentsProofs ---------------------------
(***************************************************************************)
(* Proofs about Attachments, for any number of attachments, requests,      *)
(* sizes and faults, on either backend.                                    *)
(*                                                                         *)
(* An id is used once, so that what a request knows of its attachment is   *)
(* never about an earlier one (Fresh).  A request that holds the lock of a *)
(* row has the parts of that row in hand (PartHeld), a row the purge has   *)
(* in hand is locked by it and never ready (PurgeHeld), and what a         *)
(* completion has measured is what its session was asked for (SizesKept).  *)
(***************************************************************************)
EXTENDS Attachments, FiniteSetTheorems, TLAPS

Serving(q) == req[q] # Idle

\* The statements of each handler, and what it has in hand there.
Stage(r) ==
    \/ r = Idle
    \/ r.op = "create" /\ r.pc = "insert" /\ r.size <= MaxSize
    \/ r.op = "put" /\ r.pc = "write" /\ r.size \in Nat
    \/ r.op = "part" /\ r.pc \in {"put", "write", "record"} /\ r.n \in PartNumbers
    \/ r.op \in {"abort", "delete"} /\ r.pc \in {"store", "delete"}
    \/ r.op = "complete" /\ r.pc \in {"gather", "clear", "size", "reject", "mark"}
    \/ r.op = "complete" /\ r.pc = "publish" /\ r.actual \in Nat
    \/ /\ r.op = "complete" /\ r.pc \in {"metadata", "update"}
       /\ r.actual \in 0 .. MaxSize
       /\ r.size # NoSize => r.size = r.actual

\* An id is used once: until its row is inserted one request knows it.
Fresh ==
    /\ \A q \in Reqs : Serving(q) =>
          /\ age[req[q].a] = "new" <=> req[q].op = "create"
          /\ req[q].op = "create" => \A p \in Reqs \ {q} : Serving(p) => req[p].a # req[q].a
    /\ \A a \in Ids : age[a] = "new" => rows[a] = NoRow /\ acked[a] = {}

\* A row and a completion have the size that was asked for; that of a row in
\* parts is within the bounds, and so is a size that was measured.
SizesKept ==
    /\ \A a \in Ids : rows[a] # NoRow =>
          /\ asked[a] # NoSize => rows[a].size = asked[a]
          /\ rows[a].status = "pending" /\ rows[a].mode = "multipart" =>
                rows[a].size \in 0 .. MaxSize
          /\ rows[a].status = "ready" => rows[a].size \in 0 .. MaxSize
    /\ \A q \in Reqs : Serving(q) /\ req[q].op = "complete" /\ asked[req[q].a] # NoSize =>
          req[q].size = asked[req[q].a]

\* The upload of a part holds the lock of its row, and has its parts in hand.
PartHeld ==
    \A q \in Reqs : Serving(q) /\ req[q].op = "part" =>
        /\ lock[req[q].a] = q
        /\ rows[req[q].a] # NoRow
        /\ rows[req[q].a].parts = req[q].seen

\* The purge holds the lock of the rows it has in hand.
PurgeHeld ==
    /\ purge.pc = "rest" => purge.todo = {} /\ purge.done = {}
    /\ purge.pc \notin {"rest", "abort"} => purge.pc \in purge.todo
    /\ \A a \in purge.todo \cup purge.done :
          /\ lock[a] = Purger
          /\ age[a] = "stale"
          /\ rows[a].status \in {"pending", "failed"}

\* A part that is about to be recorded is in the store, while that is open.
PartsInv ==
    /\ PartsKept
    /\ \A q \in Reqs :
          Serving(q) /\ req[q].op = "part" /\ req[q].pc # "put" /\ req[q].a \in open =>
              stored[req[q].a][req[q].n] # NoSize

\* An object that was measured is there when its row becomes ready.
There(a) == objects[a] # NoSize \/ a \in unsafe

ObjectsInv ==
    /\ ReadyHasObject
    /\ \A q \in Reqs : Serving(q) /\ req[q].op = "complete" /\ req[q].pc = "update" =>
          There(req[q].a) \/ req[q].a \in purge.done \/ rows[req[q].a] = NoRow

Inv ==
    /\ TypeOK
    /\ \A q \in Reqs : Stage(req[q])
    /\ Fresh /\ SizesKept /\ PartHeld /\ PurgeHeld /\ PartsInv /\ ObjectsInv
-----------------------------------------------------------------------------
(***************************************************************************)
(* The plan of a multipart upload.                                         *)
(***************************************************************************)

\* Division.
LEMMA Quotient ==
    ASSUME NEW x \in Nat, NEW p \in Nat \ {0}
    PROVE  /\ x \div p \in Nat
           /\ (x \div p) * p <= x
           /\ x < (x \div p) * p + p
  BY SMT

\* More bytes never make fewer parts.
LEMMA QuotientMonotone ==
    ASSUME NEW p \in Nat \ {0}, NEW c \in Nat, NEW d \in Nat, NEW x \in Nat, NEW y \in Nat,
           x <= y, c * p <= x, y < d * p + p
    PROVE  c <= d
<1>1. SUFFICES ASSUME c >= d + 1
               PROVE  FALSE
  OBVIOUS
<1>2. c * p >= (d + 1) * p
  BY <1>1
<1>3. (d + 1) * p = d * p + p
  OBVIOUS
<1>. QED
  BY <1>2, <1>3

\* A part is as long as a part may be, the last one included, and its number
\* is one of those the largest upload has.
LEMMA PartPlan ==
    ASSUME NEW s \in 0 .. MaxSize
    PROVE  /\ multipart_part_count(s) \in Nat
           /\ \A n \in 1 .. multipart_part_count(s) :
                 n \in PartNumbers /\ multipart_part_length(s, n) \in 0 .. PartSize
<1>0. PartSize \in Nat \ {0} /\ MaxSize \in Nat
  BY AttachmentsAssumption
<1>. DEFINE c == multipart_part_count(s)
            d == multipart_part_count(MaxSize)
<1>1. s + PartSize - 1 \in Nat /\ MaxSize + PartSize - 1 \in Nat
  BY <1>0
<1>2. c \in Nat /\ c * PartSize <= s + PartSize - 1 /\ s + PartSize - 1 < c * PartSize + PartSize
  BY <1>0, <1>1, Quotient DEF multipart_part_count
<1>3. /\ d \in Nat /\ d * PartSize <= MaxSize + PartSize - 1
      /\ MaxSize + PartSize - 1 < d * PartSize + PartSize
  BY <1>0, <1>1, Quotient DEF multipart_part_count
<1>4. PartNumbers = 1 .. d
  BY DEF PartNumbers
<1>5. multipart_part_length(s, c) = s - (c - 1) * PartSize
  BY <1>2 DEF multipart_part_length
<1>6. \A n \in 1 .. c : n # c => multipart_part_length(s, n) = PartSize
  BY <1>2 DEF multipart_part_length
<1>. HIDE DEF c, d
<1>7. c <= d
  <2>1. s + PartSize - 1 <= MaxSize + PartSize - 1
    BY <1>0
  <2>. QED
    BY <1>0, <1>1, <1>2, <1>3, <2>1, QuotientMonotone
<1>8. s - (c - 1) * PartSize \in 0 .. PartSize
  <2>1. (c - 1) * PartSize = c * PartSize - PartSize
    BY <1>0, <1>2
  <2>. QED
    BY <1>0, <1>2, <2>1
<1>9. \A n \in 1 .. c : n \in PartNumbers /\ multipart_part_length(s, n) \in 0 .. PartSize
  BY <1>0, <1>2, <1>3, <1>4, <1>5, <1>6, <1>7, <1>8
<1>. QED
  BY <1>2, <1>9 DEF c

\* The absence of parts.
LEMMA NoPartType == NoPart \in PartValues
  BY DEF NoPart, PartValues

\* A value of one part is set.
LEMMA PartSet ==
    ASSUME NEW f \in PartValues, NEW n \in PartNumbers, NEW v \in Nat \cup {NoSize}
    PROVE  /\ [f EXCEPT ![n] = v] \in PartValues
           /\ [f EXCEPT ![n] = v][n] = v
           /\ \A m \in PartNumbers : m # n => [f EXCEPT ![n] = v][m] = f[m]
  BY DEF PartValues

\* The parts put together have a size.
LEMMA GatheredType ==
    ASSUME TypeOK, NEW a \in Ids
    PROVE  Gathered(a) \in Nat
<1>. DEFINE c == multipart_part_count(MaxSize)
            S(n) == {n} \X (1 .. stored[a][n])
            T == {S(n) : n \in 1 .. c}
<1>1. c \in Nat
  BY PartPlan, AttachmentsAssumption
<1>2. PartNumbers = 1 .. c
  BY DEF PartNumbers
<1>. HIDE DEF c
<1>3. ASSUME NEW n \in 1 .. c
      PROVE  stored[a][n] \in Int
  <2>1. stored[a] \in PartValues /\ NoSize \in Int /\ n \in PartNumbers
    BY <1>2, <1>3, AttachmentsAssumption DEF TypeOK
  <2>2. stored[a][n] \in Nat \cup {NoSize}
    BY <2>1 DEF PartValues
  <2>. QED
    BY <2>1, <2>2
<1>4. ASSUME NEW n \in 1 .. c
      PROVE  IsFiniteSet(S(n))
  <2>1. IsFiniteSet(1 .. stored[a][n])
    BY <1>3, FS_Interval
  <2>2. IsFiniteSet({n})
    BY FS_Singleton
  <2>. QED
    BY <2>1, <2>2, FS_Product
<1>5. [n \in 1 .. c |-> S(n)] \in Surjection(1 .. c, T)
  BY DEF Surjection
<1>6. IsFiniteSet(T)
  BY <1>1, <1>5, FS_NatSurjection DEF ExistsSurjection
<1>7. IsFiniteSet(UNION T)
  BY <1>4, <1>6, FS_UNION
<1>. QED
  BY <1>2, <1>7, FS_CardinalityType DEF Gathered
-----------------------------------------------------------------------------
(***************************************************************************)
(* What a step does to the requests and to the rows.                       *)
(***************************************************************************)

\* Only one request moves.
OnlyMoves(q) == \A p \in Reqs \ {q} : req'[p] = req[p]

\* A request on its way.
LEMMA IdleFacts == Idle.op = "idle" /\ Idle \notin Requests
<1>1. Idle.op = "idle"
  BY DEF Idle
<1>. QED
  BY <1>1 DEF Requests

\* What a request that is served has in hand.
LEMMA ServingType ==
    ASSUME TypeOK, NEW q \in Reqs, Serving(q)
    PROVE  /\ req[q] \in Requests
           /\ req[q].a \in Ids /\ req[q].size \in Nat \cup {NoSize}
           /\ req[q].actual \in Nat \cup {NoSize} /\ req[q].n \in PartNumbers \cup {0}
           /\ req[q].length \in 0 .. PartSize /\ req[q].seen \in PartValues
  BY DEF TypeOK, Serving, Requests

\* A request that is at a statement is served.
LEMMA AtServing ==
    ASSUME NEW q \in Reqs, NEW op \in {"create", "put", "part", "abort", "delete", "complete"},
           NEW pc, At(q, op, pc)
    PROVE  Serving(q)
  BY IdleFacts DEF At, Serving

\* A request arrives where none was served.
LEMMA Begins ==
    ASSUME TypeOK, NEW q \in Reqs, NEW r, Begin(q, r)
    PROVE  /\ req[q] = Idle /\ req'[q] = r /\ OnlyMoves(q)
           /\ r \in Requests => req' \in [Reqs -> Requests \cup {Idle}] /\ Serving(q)'
           /\ requests' \in 0 .. MaxRequests
<1>1. requests' \in 0 .. MaxRequests
  BY AttachmentsAssumption DEF TypeOK, Begin
<1>. QED
  BY <1>1, IdleFacts DEF TypeOK, Begin, OnlyMoves, Serving

\* A request is answered.
LEMMA Answered ==
    ASSUME TypeOK, NEW q \in Reqs, Answer(q)
    PROVE  /\ req'[q] = Idle /\ OnlyMoves(q) /\ ~Serving(q)'
           /\ req' \in [Reqs -> Requests \cup {Idle}]
  BY DEF TypeOK, Answer, OnlyMoves, Serving

\* A request moves on; only its place and what it has measured change.
LEMMA Moves ==
    ASSUME TypeOK, NEW q \in Reqs, NEW pc, NEW actual, Measured(q, pc, actual), Serving(q)
    PROVE  /\ OnlyMoves(q)
           /\ req'[q].op = req[q].op /\ req'[q].pc = pc /\ req'[q].a = req[q].a
           /\ req'[q].size = req[q].size /\ req'[q].actual = actual
           /\ req'[q].n = req[q].n /\ req'[q].length = req[q].length
           /\ req'[q].seen = req[q].seen
           /\ /\ pc \in {"record", "write", "delete", "publish", "clear", "size", "metadata",
                         "update", "reject", "mark"}
              /\ actual \in Nat \cup {NoSize}
              => Serving(q)' /\ req' \in [Reqs -> Requests \cup {Idle}]
<1>. DEFINE r == [op |-> req[q].op, pc |-> pc, a |-> req[q].a, size |-> req[q].size,
                  actual |-> actual, n |-> req[q].n, length |-> req[q].length,
                  seen |-> req[q].seen]
<1>1. req' = [req EXCEPT ![q] = r] /\ req \in [Reqs -> Requests \cup {Idle}]
  BY DEF Measured, TypeOK
<1>2. req'[q] = r /\ OnlyMoves(q)
  BY <1>1 DEF OnlyMoves
<1>3. /\ pc \in {"record", "write", "delete", "publish", "clear", "size", "metadata",
                 "update", "reject", "mark"}
      /\ actual \in Nat \cup {NoSize}
      => r \in Requests
  BY ServingType DEF Requests
<1>4. r \in Requests => req' \in [Reqs -> Requests \cup {Idle}] /\ Serving(q)'
  <2>. HIDE DEF r
  <2>. QED
    BY <1>1, <1>2, IdleFacts DEF Serving
<1>. QED
  BY <1>2, <1>3, <1>4

\* A request of the kinds that begin with a size alone.
LEMMA RequestType ==
    ASSUME NEW op \in {"create", "put", "abort", "delete", "complete"},
           NEW pc \in {"insert", "write", "store", "gather", "size"},
           NEW a \in Ids, NEW size \in Nat \cup {NoSize}, NEW seen \in PartValues
    PROVE  /\ Request(op, pc, a, size, seen) \in Requests
           /\ Request(op, pc, a, size, seen).op = op /\ Request(op, pc, a, size, seen).pc = pc
           /\ Request(op, pc, a, size, seen).a = a /\ Request(op, pc, a, size, seen).size = size
<1>1. 0 \in 0 .. PartSize
  BY AttachmentsAssumption
<1>. QED
  BY <1>1 DEF Request, Requests

\* A row is not the absence of one.
LEMMA RowFacts ==
    ASSUME NEW status \in {"pending", "ready", "failed"}, NEW size \in Nat \cup {NoSize},
           NEW parts \in PartValues, NEW mode \in {"single", "multipart"}
    PROVE  /\ Row(status, size, parts, mode) \in Rows
           /\ Row(status, size, parts, mode).status = status
           /\ Row(status, size, parts, mode).size = size
           /\ Row(status, size, parts, mode).parts = parts
           /\ Row(status, size, parts, mode).mode = mode
  BY DEF Row, Rows

\* The absence of a row is told from every row by its status.
LEMMA NoRowFacts ==
    /\ NoRow.status = "none" /\ NoRow \notin Rows
    /\ \A r \in Rows : /\ r # NoRow /\ r.status \in {"pending", "ready", "failed"}
                       /\ r.size \in Nat \cup {NoSize} /\ r.parts \in PartValues
                       /\ r.mode \in {"single", "multipart"}
<1>1. NoRow.status = "none"
  BY DEF NoRow
<1>. QED
  BY <1>1 DEF Rows

\* The fields of a row that is there.
LEMMA RowType ==
    ASSUME TypeOK, NEW a \in Ids, rows[a] # NoRow
    PROVE  /\ rows[a] \in Rows /\ rows[a].status \in {"pending", "ready", "failed"}
           /\ rows[a].size \in Nat \cup {NoSize} /\ rows[a].parts \in PartValues
           /\ rows[a].mode \in {"single", "multipart"}
<1>1. rows[a] \in Rows
  BY DEF TypeOK
<1>. QED
  BY <1>1, NoRowFacts

\* A row is rewritten, unless it is gone.
LEMMA Updates ==
    ASSUME TypeOK, NEW a \in Ids, NEW r, UpdateRow(a, r), rows[a] # NoRow => r \in Rows
    PROVE  /\ rows' \in [Ids -> Rows \cup {NoRow}]
           /\ rows[a] = NoRow => rows'[a] = NoRow
           /\ rows[a] # NoRow => rows'[a] = r
           /\ \A b \in Ids \ {a} : rows'[b] = rows[b]
  BY DEF TypeOK, UpdateRow
-----------------------------------------------------------------------------
(***************************************************************************)
(* The types are kept.                                                     *)
(***************************************************************************)

\* The upload is closed.
LEMMA Closes ==
    ASSUME TypeOK, NEW a \in Ids, CloseUpload(a)
    PROVE  /\ open' \subseteq Ids /\ a \notin open' /\ open' \subseteq open
           /\ stored' \in [Ids -> PartValues]
           /\ \A b \in Ids \ {a} : stored'[b] = stored[b] /\ (b \in open' <=> b \in open)
  BY NoPartType DEF TypeOK, CloseUpload

\* A part is written.
LEMMA PartStored ==
    ASSUME TypeOK, NEW a \in Ids, NEW n \in PartNumbers, NEW v \in Nat \cup {NoSize},
           stored' = [stored EXCEPT ![a][n] = v]
    PROVE  /\ stored' \in [Ids -> PartValues]
           /\ stored'[a][n] = v
           /\ \A b \in Ids, m \in PartNumbers : b # a \/ m # n => stored'[b][m] = stored[b][m]
  BY DEF TypeOK, PartValues

\* An object is written or removed.
LEMMA ObjectStored ==
    ASSUME TypeOK, NEW a \in Ids, NEW v \in Nat \cup {NoSize},
           objects' = [objects EXCEPT ![a] = v]
    PROVE  /\ objects' \in [Ids -> Nat \cup {NoSize}] /\ objects'[a] = v
           /\ \A b \in Ids \ {a} : objects'[b] = objects[b]
  BY DEF TypeOK

\* A lock is released.
LEMMA Unlocks ==
    ASSUME TypeOK, NEW who \in Reqs \cup {Purger}, Unlock(who)
    PROVE  /\ lock' \in [Ids -> Reqs \cup {Nobody, Purger}]
           /\ \A b \in Ids : lock[b] # who => lock'[b] = lock[b]
  BY DEF TypeOK, Unlock

\* Rows are locked; the others keep their locks.
LEMMA Locks ==
    ASSUME TypeOK, NEW who \in Reqs \cup {Purger}, NEW S \in SUBSET Ids, LockRows(who, S)
    PROVE  /\ lock' \in [Ids -> Reqs \cup {Nobody, Purger}]
           /\ \A b \in S : lock'[b] = who
           /\ \A b \in Ids \ S : lock'[b] = lock[b]
  BY DEF TypeOK, LockRows

\* A fault is counted.
LEMMA Faults ==
    ASSUME TypeOK, Fault
    PROVE  faults' \in 0 .. MaxFaults
  BY AttachmentsAssumption DEF TypeOK, Fault

\* The size of an upload in parts is within the bounds; so is its part.
LEMMA PlanFacts ==
    ASSUME TypeOK, SizesKept, NEW a \in Ids, NEW n, ValidPlan(a, n)
    PROVE  /\ rows[a] \in Rows /\ rows[a].status = "pending" /\ rows[a].mode = "multipart"
           /\ rows[a].size \in 0 .. MaxSize
           /\ n \in PartNumbers /\ multipart_part_length(rows[a].size, n) \in 0 .. PartSize
<1>1. rows[a] \in Rows
  BY NoRowFacts DEF TypeOK, ValidPlan
<1>2. rows[a].size \in 0 .. MaxSize
  BY <1>1, NoRowFacts DEF SizesKept, ValidPlan
<1>. QED
  BY <1>1, <1>2, PartPlan DEF ValidPlan

\* Requests that arrive.
LEMMA ArriveType ==
    ASSUME Inv, NEW q \in Reqs, NEW a \in Ids, Arrive(q, a)
    PROVE  TypeOK'
<1>. USE DEF store, history, budget
<1>0. TypeOK /\ SizesKept /\ NoSize \in Nat \cup {NoSize}
  BY DEF Inv
<1>1. ASSUME NEW s \in Sizes, CreateSession(q, a, s)
      PROVE  TypeOK'
  <2>1. s \in Nat \cup {NoSize}
    BY AttachmentsAssumption
  <2>2. Begin(q, Request("create", "insert", a, s, NoPart))
    BY <1>1 DEF CreateSession
  <2>3. req' \in [Reqs -> Requests \cup {Idle}] /\ requests' \in 0 .. MaxRequests
    BY <1>0, <2>1, <2>2, Begins, RequestType, NoPartType
  <2>4. open' \subseteq Ids /\ UNCHANGED <<objects, stored>>
    BY <1>0, <1>1 DEF CreateSession, TypeOK
  <2>. QED
    BY <1>0, <1>1, <2>3, <2>4 DEF CreateSession, TypeOK
<1>2. ASSUME NEW b \in Bodies, PutObject(q, a, b)
      PROVE  TypeOK'
  <2>1. b \in Nat \cup {NoSize}
    BY AttachmentsAssumption
  <2>2. Begin(q, Request("put", "write", a, b, NoPart))
    BY <1>2 DEF PutObject
  <2>3. req' \in [Reqs -> Requests \cup {Idle}] /\ requests' \in 0 .. MaxRequests
    BY <1>0, <2>1, <2>2, Begins, RequestType, NoPartType
  <2>4. objects' = objects \/ objects' = [objects EXCEPT ![a] = 0]
    BY <1>2 DEF PutObject
  <2>5. objects' \in [Ids -> Nat \cup {NoSize}]
    BY <1>0, <2>4 DEF TypeOK
  <2>. QED
    BY <1>0, <1>2, <2>3, <2>5 DEF PutObject, TypeOK
<1>3. ASSUME NEW n \in PartNumbers, PartLock(q, a, n)
      PROVE  TypeOK'
  <2>1. /\ rows[a] \in Rows /\ multipart_part_length(rows[a].size, n) \in 0 .. PartSize
        /\ rows[a].size \in 0 .. MaxSize
    BY <1>0, <1>3, PlanFacts DEF PartLock
  <2>. DEFINE r == [op |-> "part", pc |-> "put", a |-> a, size |-> rows[a].size,
                    actual |-> NoSize, n |-> n,
                    length |-> multipart_part_length(rows[a].size, n), seen |-> rows[a].parts]
  <2>2. r \in Requests
    BY <2>1, NoRowFacts DEF Requests
  <2>3. Begin(q, r)
    BY <1>3 DEF PartLock
  <2>. HIDE DEF r
  <2>4. req' \in [Reqs -> Requests \cup {Idle}] /\ requests' \in 0 .. MaxRequests
    BY <1>0, <2>2, <2>3, Begins
  <2>5. lock' \in [Ids -> Reqs \cup {Nobody, Purger}]
    BY <1>0, <1>3, Locks DEF PartLock
  <2>. QED
    BY <1>0, <1>3, <2>4, <2>5 DEF PartLock, TypeOK
<1>4. CASE AbortRead(q, a) \/ DeleteRead(q, a)
  <2>1. \E op \in {"abort", "delete"} : Begin(q, Request(op, "store", a, NoSize, NoPart))
    BY <1>4 DEF AbortRead, DeleteRead
  <2>2. req' \in [Reqs -> Requests \cup {Idle}] /\ requests' \in 0 .. MaxRequests
    BY <1>0, <2>1, Begins, RequestType, NoPartType
  <2>. QED
    BY <1>0, <1>4, <2>2 DEF AbortRead, DeleteRead, TypeOK
<1>5. CASE CompleteRead(q, a)
  <2>1. \E pc \in {"gather", "size"} :
           Begin(q, Request("complete", pc, a, rows[a].size, rows[a].parts))
    BY <1>5 DEF CompleteRead
  <2>2. rows[a].size \in Nat \cup {NoSize} /\ rows[a].parts \in PartValues
    BY <1>0, <1>5, NoRowFacts DEF CompleteRead, TypeOK
  <2>3. req' \in [Reqs -> Requests \cup {Idle}] /\ requests' \in 0 .. MaxRequests
    BY <1>0, <2>1, <2>2, Begins, RequestType, NoPartType
  <2>. QED
    BY <1>0, <1>5, <2>3 DEF CompleteRead, TypeOK
<1>. QED
  BY <1>1, <1>2, <1>3, <1>4, <1>5 DEF Arrive

\* The statements of the uploads, aborts and deletions.
LEMMA UploadType ==
    ASSUME Inv, NEW q \in Reqs,
           \/ InsertRow(q) \/ InsertFails(q) \/ PutWritten(q)
           \/ PartPut(q) \/ PartWritten(q) \/ PartRefused(q) \/ PartRecord(q)
           \/ AbortStore(q) \/ DeleteStore(q) \/ RemoveRow(q) \/ Dropped(q)
    PROVE  TypeOK'
<1>. USE DEF store, history, budget
<1>0. TypeOK /\ Stage(req[q]) /\ NoSize \in Nat \cup {NoSize}
  BY DEF Inv
<1>1. Serving(q)
  BY AtServing DEF InsertRow, InsertFails, PutWritten, PartPut, PartWritten, PartRefused,
     PartRecord, AbortStore, DeleteStore, RemoveRow, Dropped, Serving
<1>2. /\ req[q].a \in Ids /\ req[q].size \in Nat \cup {NoSize}
      /\ req[q].actual \in Nat \cup {NoSize} /\ req[q].n \in PartNumbers \cup {0}
      /\ req[q].length \in 0 .. PartSize /\ req[q].seen \in PartValues
  BY <1>0, <1>1, ServingType
<1>3. Answer(q) => req' \in [Reqs -> Requests \cup {Idle}]
  BY <1>0, Answered
<1>4. \A pc \in {"record", "write", "delete"} : Goto(q, pc) => req' \in [Reqs -> Requests \cup {Idle}]
  BY <1>0, <1>1, <1>2, Moves DEF Goto
<1>5. req[q].op = "part" => req[q].n \in PartNumbers
  BY <1>0, <1>1 DEF Stage, Serving
<1>6. CASE InsertRow(q)
  <2>1. NewRow(req[q].size) \in Rows
    BY <1>2, RowFacts, NoPartType DEF NewRow
  <2>2. /\ rows' \in [Ids -> Rows \cup {NoRow}] /\ age' \in [Ids -> {"new", "fresh", "stale"}]
        /\ asked' \in [Ids -> Nat \cup {NoSize}]
    BY <1>0, <1>2, <1>6, <2>1 DEF InsertRow, TypeOK
  <2>. QED
    BY <1>0, <1>3, <1>6, <2>2 DEF InsertRow, TypeOK
<1>7. CASE InsertFails(q)
  <2>1. /\ open' \subseteq Ids
        /\ stored' \in [Ids -> PartValues]
    BY <1>0, <1>2, <1>7, Closes DEF InsertFails, TypeOK
  <2>2. age' \in [Ids -> {"new", "fresh", "stale"}] /\ faults' \in 0 .. MaxFaults
    BY <1>0, <1>2, <1>7, Faults DEF InsertFails, TypeOK
  <2>. QED
    BY <1>0, <1>3, <1>7, <2>1, <2>2 DEF InsertFails, TypeOK
<1>8. CASE PutWritten(q)
  <2>1. objects' \in [Ids -> Nat \cup {NoSize}]
    BY <1>0, <1>2, <1>8 DEF PutWritten, TypeOK
  <2>. QED
    BY <1>0, <1>3, <1>8, <2>1 DEF PutWritten, TypeOK
<1>9. CASE PartPut(q)
  <2>1. req[q].n \in PartNumbers
    BY <1>5, <1>9 DEF PartPut, At
  <2>2. \E v \in Nat \cup {NoSize} : stored' = [stored EXCEPT ![req[q].a][req[q].n] = v]
    <3>1. 0 \in Nat /\ req[q].length \in Nat
      BY <1>2, AttachmentsAssumption
    <3>. QED
      BY <1>9, <3>1 DEF PartPut
  <2>3. stored' \in [Ids -> PartValues]
    BY <1>0, <1>2, <2>1, <2>2, PartStored
  <2>4. Goto(q, "write") \/ Goto(q, "record")
    BY <1>9 DEF PartPut
  <2>. QED
    BY <1>0, <1>4, <1>9, <2>3, <2>4 DEF PartPut, TypeOK
<1>10. CASE PartWritten(q)
  <2>1. req[q].n \in PartNumbers
    BY <1>5, <1>10 DEF PartWritten, At
  <2>2. \E v \in Nat \cup {NoSize} : stored' = [stored EXCEPT ![req[q].a][req[q].n] = v]
    <3>1. 0 \in Nat /\ req[q].length \in Nat
      BY <1>2, AttachmentsAssumption
    <3>. QED
      BY <1>10, <3>1 DEF PartWritten
  <2>3. stored' \in [Ids -> PartValues]
    BY <1>0, <1>2, <2>1, <2>2, PartStored
  <2>. QED
    BY <1>0, <1>4, <1>10, <2>3 DEF PartWritten, TypeOK
<1>11. CASE PartRefused(q)
  <2>1. lock' \in [Ids -> Reqs \cup {Nobody, Purger}]
    BY <1>0, <1>11, Unlocks DEF PartRefused
  <2>. QED
    BY <1>0, <1>3, <1>11, <2>1 DEF PartRefused, TypeOK
<1>12. CASE PartRecord(q)
  <2>1. req[q].n \in PartNumbers
    BY <1>5, <1>12 DEF PartRecord, At
  <2>2. rows' \in [Ids -> Rows \cup {NoRow}]
    <3>. DEFINE r == Row(rows[req[q].a].status, rows[req[q].a].size,
                         [req[q].seen EXCEPT ![req[q].n] = req[q].length], rows[req[q].a].mode)
    <3>0. [req[q].seen EXCEPT ![req[q].n] = req[q].length] \in PartValues
      BY <1>2, <2>1, PartSet
    <3>1. rows[req[q].a] # NoRow => r \in Rows
      BY <1>0, <1>2, <3>0, RowFacts, RowType
    <3>2. UpdateRow(req[q].a, r)
      BY <1>12 DEF PartRecord, ListPart
    <3>. HIDE DEF r
    <3>. QED
      BY <1>0, <1>2, <3>1, <3>2, Updates
  <2>3. acked' \in [Ids -> SUBSET (PartNumbers \X {"server", "client"})]
    BY <1>0, <1>2, <1>12, <2>1 DEF PartRecord, TypeOK
  <2>4. lock' \in [Ids -> Reqs \cup {Nobody, Purger}]
    BY <1>0, <1>12, Unlocks DEF PartRecord
  <2>. QED
    BY <1>0, <1>3, <1>12, <2>2, <2>3, <2>4 DEF PartRecord, TypeOK
<1>13. CASE AbortStore(q)
  <2>1. /\ open' \subseteq Ids
        /\ stored' \in [Ids -> PartValues]
    BY <1>0, <1>2, <1>13, Closes DEF AbortStore, TypeOK
  <2>2. req' \in [Reqs -> Requests \cup {Idle}]
    BY <1>3, <1>4, <1>13 DEF AbortStore
  <2>. QED
    BY <1>0, <1>13, <2>1, <2>2 DEF AbortStore, TypeOK
<1>14. CASE DeleteStore(q)
  <2>1. objects' \in [Ids -> Nat \cup {NoSize}] /\ unsafe' \subseteq Ids
    BY <1>0, <1>2, <1>14 DEF DeleteStore, RemoveObject, TypeOK
  <2>. QED
    BY <1>0, <1>4, <1>14, <2>1 DEF DeleteStore, TypeOK
<1>15. CASE RemoveRow(q)
  <2>1. rows' \in [Ids -> Rows \cup {NoRow}]
    BY <1>0, <1>2, <1>15 DEF RemoveRow, DeleteRow, TypeOK
  <2>. QED
    BY <1>0, <1>3, <1>15, <2>1 DEF RemoveRow, TypeOK
<1>16. CASE Dropped(q)
  <2>1. /\ lock' \in [Ids -> Reqs \cup {Nobody, Purger}] /\ faults' \in 0 .. MaxFaults
    BY <1>0, <1>16, Unlocks, Faults DEF Dropped
  <2>2. age' \in [Ids -> {"new", "fresh", "stale"}]
    BY <1>0, <1>2, <1>16 DEF Dropped, TypeOK
  <2>. QED
    BY <1>0, <1>3, <1>16, <2>1, <2>2 DEF Dropped, TypeOK
<1>. QED
  BY <1>6, <1>7, <1>8, <1>9, <1>10, <1>11, <1>12, <1>13, <1>14, <1>15, <1>16

\* The statements of a completion.
LEMMA CompleteType ==
    ASSUME Inv, NEW q \in Reqs,
           \/ CompleteGather(q) \/ CompletePublish(q) \/ CompleteClear(q)
           \/ CompleteSize(q) \/ CompleteMetadata(q) \/ CompleteRefused(q) \/ CompleteUpdate(q)
           \/ RejectStore(q) \/ RejectMark(q)
    PROVE  TypeOK'
<1>. USE DEF store, history, budget
<1>0. TypeOK /\ Stage(req[q]) /\ NoSize \in Nat \cup {NoSize}
  BY DEF Inv
<1>1. Serving(q)
  BY AtServing DEF CompleteGather, CompletePublish, CompleteClear, CompleteSize,
     CompleteMetadata, CompleteRefused, CompleteUpdate, RejectStore, RejectMark
<1>2. /\ req[q].a \in Ids /\ req[q].size \in Nat \cup {NoSize}
      /\ req[q].actual \in Nat \cup {NoSize}
      /\ objects[req[q].a] \in Nat \cup {NoSize}
  BY <1>0, <1>1, ServingType DEF TypeOK
<1>3. Answer(q) => req' \in [Reqs -> Requests \cup {Idle}]
  BY <1>0, Answered
<1>4. \A pc \in {"publish", "clear", "size", "metadata", "update", "reject", "mark"},
         v \in Nat \cup {NoSize} : Measured(q, pc, v) => req' \in [Reqs -> Requests \cup {Idle}]
  BY <1>0, <1>1, Moves
<1>5. \A pc \in {"size", "reject", "mark"} : Goto(q, pc) => req' \in [Reqs -> Requests \cup {Idle}]
  BY <1>2, <1>4 DEF Goto
<1>6. CASE CompleteGather(q)
  <2>. DEFINE a == req[q].a
  <2>1. Gathered(a) \in Nat
    BY <1>0, <1>2, GatheredType
  <2>2. CASE backend = "local"
    <3>1. Measured(q, "publish", Gathered(a)) /\ UNCHANGED store
      BY <1>6, <2>2 DEF CompleteGather
    <3>2. req' \in [Reqs -> Requests \cup {Idle}]
      BY <1>4, <2>1, <3>1
    <3>. QED
      BY <1>0, <1>6, <3>1, <3>2 DEF CompleteGather, TypeOK
  <2>3. CASE backend # "local"
    <3>1. /\ Goto(q, "size") /\ CloseUpload(a)
          /\ objects' = [objects EXCEPT ![a] = Gathered(a)]
      BY <1>6, <2>3 DEF CompleteGather
    <3>2. req' \in [Reqs -> Requests \cup {Idle}]
      BY <1>5, <3>1
    <3>3. /\ open' \subseteq Ids
          /\ stored' \in [Ids -> PartValues]
      BY <1>0, <1>2, <3>1, Closes
    <3>4. objects' \in [Ids -> Nat \cup {NoSize}]
      BY <1>0, <1>2, <2>1, <3>1, ObjectStored
    <3>. QED
      BY <1>0, <1>6, <3>2, <3>3, <3>4 DEF CompleteGather, TypeOK
  <2>. QED
    BY <2>2, <2>3
<1>7. CASE CompletePublish(q)
  <2>1. objects' \in [Ids -> Nat \cup {NoSize}]
    BY <1>0, <1>2, <1>7, ObjectStored DEF CompletePublish
  <2>2. req' \in [Reqs -> Requests \cup {Idle}]
    BY <1>0, <1>4, <1>7 DEF CompletePublish
  <2>. QED
    BY <1>0, <1>7, <2>1, <2>2 DEF CompletePublish, TypeOK
<1>8. CASE CompleteClear(q)
  <2>1. /\ open' \subseteq Ids
        /\ stored' \in [Ids -> PartValues]
    BY <1>0, <1>2, <1>8, Closes DEF CompleteClear
  <2>. QED
    BY <1>0, <1>5, <1>8, <2>1 DEF CompleteClear, TypeOK
<1>9. CASE CompleteSize(q) \/ CompleteMetadata(q)
  <2>1. \/ Goto(q, "reject") \/ Measured(q, "metadata", objects[req[q].a])
        \/ Measured(q, "update", objects[req[q].a])
    BY <1>9 DEF CompleteSize, CompleteMetadata
  <2>2. req' \in [Reqs -> Requests \cup {Idle}]
    BY <1>2, <1>4, <1>5, <2>1
  <2>. QED
    BY <1>0, <1>9, <2>2 DEF CompleteSize, CompleteMetadata, TypeOK
<1>10. CASE CompleteRefused(q)
  BY <1>0, <1>3, <1>10 DEF CompleteRefused, TypeOK
<1>11. CASE CompleteUpdate(q)
  <2>. DEFINE r == Row("ready", req[q].actual, NoPart, rows[req[q].a].mode)
  <2>1. rows[req[q].a] # NoRow => r \in Rows
    BY <1>0, <1>2, RowFacts, RowType, NoPartType
  <2>2. UpdateRow(req[q].a, r)
    BY <1>11 DEF CompleteUpdate
  <2>. HIDE DEF r
  <2>3. rows' \in [Ids -> Rows \cup {NoRow}]
    BY <1>0, <1>2, <2>1, <2>2, Updates
  <2>. QED
    BY <1>0, <1>3, <1>11, <2>3 DEF CompleteUpdate, TypeOK
<1>12. CASE RejectStore(q)
  <2>1. /\ open' \subseteq Ids
        /\ stored' \in [Ids -> PartValues]
    BY <1>0, <1>2, <1>12, Closes DEF RejectStore, TypeOK
  <2>2. objects' \in [Ids -> Nat \cup {NoSize}] /\ unsafe' \subseteq Ids
    BY <1>0, <1>2, <1>12 DEF RejectStore, RemoveObject, TypeOK
  <2>. QED
    BY <1>0, <1>5, <1>12, <2>1, <2>2 DEF RejectStore, TypeOK
<1>13. CASE RejectMark(q)
  <2>. DEFINE r == Row("failed", rows[req[q].a].size, rows[req[q].a].parts, rows[req[q].a].mode)
  <2>1. rows[req[q].a] # NoRow => r \in Rows
    BY <1>0, <1>2, RowFacts, RowType
  <2>2. UpdateRow(req[q].a, r)
    BY <1>13 DEF RejectMark
  <2>. HIDE DEF r
  <2>3. rows' \in [Ids -> Rows \cup {NoRow}]
    BY <1>0, <1>2, <2>1, <2>2, Updates
  <2>. QED
    BY <1>0, <1>3, <1>13, <2>3 DEF RejectMark, TypeOK
<1>. QED
  BY <1>6, <1>7, <1>8, <1>9, <1>10, <1>11, <1>12, <1>13

\* The clock, the parts put directly, and the purge.
LEMMA OtherType ==
    ASSUME Inv,
           \/ \E a \in Ids, n \in PartNumbers, v \in Bodies :
                  DirectPut(a, n, v) \/ DirectRecord(a, n, v)
           \/ (\E a \in Ids : Age(a) \/ PurgeFails(a)) \/ Purge \/ PurgeRollback \/ UNCHANGED vars
    PROVE  TypeOK'
<1>. USE DEF store, history, budget
<1>0. TypeOK /\ SizesKept /\ NoSize \in Nat \cup {NoSize}
  BY DEF Inv
<1>. DEFINE PurgeType == [pc : {"rest", "abort"} \cup Ids, parted : SUBSET Ids,
                          todo : SUBSET Ids, done : SUBSET Ids]
<1>1. ASSUME NEW a \in Ids, NEW n \in PartNumbers, NEW v \in Bodies, DirectPut(a, n, v)
      PROVE  TypeOK'
  <2>1. v \in Nat \cup {NoSize}
    BY AttachmentsAssumption
  <2>2. stored' \in [Ids -> PartValues]
    BY <1>0, <1>1, <2>1, PartStored DEF DirectPut
  <2>. QED
    BY <1>0, <1>1, <2>2 DEF DirectPut, TypeOK
<1>2. ASSUME NEW a \in Ids, NEW n \in PartNumbers, NEW v \in Bodies, DirectRecord(a, n, v)
      PROVE  TypeOK'
  <2>. DEFINE r == Row(rows[a].status, rows[a].size, [rows[a].parts EXCEPT ![n] = v], rows[a].mode)
  <2>1. rows[a] # NoRow => r \in Rows
    <3>1. rows[a] # NoRow => [rows[a].parts EXCEPT ![n] = v] \in PartValues
      BY <1>0, RowType, PartSet, AttachmentsAssumption
    <3>. QED
      BY <1>0, <3>1, RowFacts, RowType
  <2>2. UpdateRow(a, r)
    BY <1>2 DEF DirectRecord, ListPart
  <2>. HIDE DEF r
  <2>3. rows' \in [Ids -> Rows \cup {NoRow}]
    BY <1>0, <2>1, <2>2, Updates
  <2>4. acked' \in [Ids -> SUBSET (PartNumbers \X {"server", "client"})]
    BY <1>0, <1>2 DEF DirectRecord, TypeOK
  <2>5. requests' \in 0 .. MaxRequests
    BY <1>0, <1>2, AttachmentsAssumption DEF DirectRecord, TypeOK
  <2>. QED
    BY <1>0, <1>2, <2>3, <2>4, <2>5 DEF DirectRecord, TypeOK
<1>3. ASSUME NEW a \in Ids, Age(a)
      PROVE  TypeOK'
  <2>1. age' \in [Ids -> {"new", "fresh", "stale"}]
    BY <1>0, <1>3 DEF Age, TypeOK
  <2>. QED
    BY <1>0, <1>3, <2>1 DEF Age, TypeOK
<1>4. purge \in PurgeType /\ Resting \in PurgeType
  BY <1>0 DEF TypeOK, Resting
<1>5. CASE PurgeSelect
  <2>1. PICK S \in SUBSET Ids : LockForPurge(S)
    BY <1>5 DEF PurgeSelect
  <2>2. lock' \in [Ids -> Reqs \cup {Nobody, Purger}]
    BY <1>0, <2>1, Locks DEF LockForPurge
  <2>3. purge' \in PurgeType
    BY <1>5 DEF PurgeSelect
  <2>. QED
    BY <1>0, <1>5, <2>2, <2>3 DEF PurgeSelect, TypeOK
<1>6. ASSUME NEW a \in Ids, PurgeAbort(a)
      PROVE  TypeOK'
  <2>1. purge' \in PurgeType
    BY <1>4, <1>6 DEF PurgeAbort, PurgeAt
  <2>2. /\ open' \subseteq Ids /\ UNCHANGED objects
        /\ stored' \in [Ids -> PartValues]
    BY <1>0, <1>6, Closes DEF PurgeAbort, TypeOK
  <2>. QED
    BY <1>0, <1>6, <2>1, <2>2 DEF PurgeAbort, TypeOK
<1>7. ASSUME NEW a \in Ids, PurgeDelete(a)
      PROVE  TypeOK'
  <2>1. purge' \in PurgeType
    BY <1>4, <1>7 DEF PurgeDelete, PurgeAt
  <2>2. objects' \in [Ids -> Nat \cup {NoSize}]
    BY <1>0, <1>7, ObjectStored DEF PurgeDelete, RemoveObject
  <2>. QED
    BY <1>0, <1>7, <2>1, <2>2 DEF PurgeDelete, TypeOK
<1>8. CASE PurgeCommit
  <2>1. rows' \in [Ids -> Rows \cup {NoRow}]
    BY <1>0, <1>8 DEF PurgeCommit, TypeOK
  <2>2. lock' \in [Ids -> Reqs \cup {Nobody, Purger}]
    BY <1>0, <1>8, Unlocks DEF PurgeCommit
  <2>. QED
    BY <1>0, <1>4, <1>8, <2>1, <2>2 DEF PurgeCommit, TypeOK
<1>9. CASE PurgeRollback
  <2>1. lock' \in [Ids -> Reqs \cup {Nobody, Purger}] /\ faults' \in 0 .. MaxFaults
    BY <1>0, <1>9, Unlocks, Faults DEF PurgeRollback
  <2>2. unsafe' \subseteq Ids
    BY <1>0, <1>4, <1>9 DEF PurgeRollback, TypeOK
  <2>. QED
    BY <1>0, <1>4, <1>9, <2>1, <2>2 DEF PurgeRollback, TypeOK
<1>10. CASE UNCHANGED vars
  BY <1>0, <1>10 DEF vars, TypeOK
<1>11. ASSUME NEW a \in Ids, PurgeFails(a)
       PROVE  TypeOK'
  <2>1. purge' \in PurgeType /\ faults' \in 0 .. MaxFaults
    BY <1>0, <1>4, <1>11, Faults DEF PurgeFails, PurgeAt
  <2>2. open' \subseteq Ids /\ stored' \in [Ids -> PartValues]
    BY <1>0, <1>11, Closes DEF PurgeFails, TypeOK
  <2>3. objects' \in [Ids -> Nat \cup {NoSize}] /\ unsafe' \subseteq Ids
    BY <1>0, <1>11, ObjectStored DEF PurgeFails, RemoveObject, TypeOK
  <2>. QED
    BY <1>0, <1>11, <2>1, <2>2, <2>3 DEF PurgeFails, TypeOK
<1>. QED
  BY <1>1, <1>2, <1>3, <1>5, <1>6, <1>7, <1>8, <1>9, <1>10, <1>11 DEF Purge

\* Every step keeps the types.
LEMMA TypeStep ==
    ASSUME Inv, [Next]_vars
    PROVE  TypeOK'
  BY ArriveType, UploadType, CompleteType, OtherType DEF Next, Step
-----------------------------------------------------------------------------
(***************************************************************************)
(* What a step may change, and by which action.                            *)
(***************************************************************************)

\* What stays of a request on its way.
SameRequest(q) ==
    /\ req'[q].op = req[q].op /\ req'[q].a = req[q].a /\ req'[q].size = req[q].size
    /\ req'[q].n = req[q].n /\ req'[q].length = req[q].length /\ req'[q].seen = req[q].seen

\* A step of a handler moves its own request, or answers it.
LEMMA StepMoves ==
    ASSUME TypeOK, NEW q \in Reqs, Step(q) \/ InsertFails(q) \/ Dropped(q)
    PROVE  /\ Serving(q) /\ OnlyMoves(q)
           /\ Serving(q)' => SameRequest(q)
           /\ InsertRow(q) \/ InsertFails(q) \/ Dropped(q) \/ PartRecord(q) \/ RemoveRow(q)
              \/ CompleteUpdate(q) \/ RejectMark(q) \/ PartRefused(q) \/ PutWritten(q) => ~Serving(q)'
<1>1. Serving(q)
  BY AtServing DEF Step, InsertRow, InsertFails, PutWritten, PartPut, PartWritten, PartRefused,
     PartRecord, AbortStore, DeleteStore, RemoveRow, Dropped, Serving, CompleteGather,
     CompletePublish, CompleteClear, CompleteSize, CompleteMetadata, CompleteRefused,
     CompleteUpdate, RejectStore, RejectMark
<1>2. CASE Answer(q)
  BY <1>1, <1>2, Answered
<1>3. ASSUME NEW pc, NEW v, Measured(q, pc, v)
      PROVE  OnlyMoves(q) /\ SameRequest(q)
  BY <1>1, <1>3, Moves DEF SameRequest
<1>4. \/ Answer(q)
      \/ /\ (\E pc, v : Measured(q, pc, v))
         /\ ~(InsertRow(q) \/ InsertFails(q) \/ Dropped(q) \/ PartRecord(q) \/ RemoveRow(q)
              \/ CompleteUpdate(q) \/ RejectMark(q) \/ PartRefused(q) \/ PutWritten(q))
  <2>1. CASE InsertRow(q) \/ InsertFails(q) \/ Dropped(q) \/ PartRecord(q) \/ RemoveRow(q)
              \/ CompleteUpdate(q) \/ RejectMark(q) \/ PartRefused(q) \/ PutWritten(q)
    BY <2>1 DEF InsertRow, InsertFails, Dropped, PartRecord, RemoveRow, CompleteUpdate,
       RejectMark, PartRefused, PutWritten
  <2>2. CASE PartPut(q) \/ PartWritten(q) \/ AbortStore(q) \/ DeleteStore(q)
    BY <2>1, <2>2 DEF PartPut, PartWritten, AbortStore, DeleteStore, Goto
  <2>3. CASE CompleteGather(q) \/ CompletePublish(q) \/ CompleteClear(q) \/ CompleteSize(q)
             \/ CompleteMetadata(q) \/ CompleteRefused(q) \/ RejectStore(q)
    BY <2>1, <2>3 DEF CompleteGather, CompletePublish, CompleteClear, CompleteSize,
       CompleteMetadata, CompleteRefused, RejectStore, Goto
  <2>. QED
    BY <2>1, <2>2, <2>3 DEF Step
<1>. QED
  BY <1>1, <1>2, <1>3, <1>4

\* A request that arrives is at its first statement, and changes no row.
LEMMA ArriveMoves ==
    ASSUME Inv, NEW q \in Reqs, NEW a \in Ids, Arrive(q, a)
    PROVE  /\ ~Serving(q) /\ OnlyMoves(q) /\ Serving(q)' /\ req'[q].a = a
           /\ Stage(req'[q])
           /\ rows' = rows /\ age' = age /\ asked' = asked /\ purge' = purge
           /\ req'[q].op = "create" <=> \E s \in Sizes : CreateSession(q, a, s)
           /\ req'[q].op = "part" =>
                 /\ \E n \in PartNumbers : PartLock(q, a, n)
                 /\ req'[q].pc = "put" /\ req'[q].seen = rows[a].parts
           /\ req'[q].op = "complete" =>
                 rows[a] # NoRow /\ req'[q].size = rows[a].size /\ req'[q].pc # "update"
           /\ req'[q].op # "create" => age[a] # "new"
<1>. USE DEF store, history, budget
<1>0. TypeOK /\ SizesKept /\ Fresh /\ NoSize \in Nat \cup {NoSize}
  BY DEF Inv
<1>1. rows[a].status = "pending" => rows[a] # NoRow
  BY NoRowFacts
<1>2. rows[a] # NoRow => age[a] # "new"
  BY <1>0 DEF Fresh
<1>3. ASSUME NEW s \in Sizes, CreateSession(q, a, s)
      PROVE  /\ req'[q].op = "create" /\ req'[q].a = a /\ Stage(req'[q])
             /\ Serving(q)' /\ OnlyMoves(q) /\ ~Serving(q)
             /\ rows' = rows /\ age' = age /\ asked' = asked /\ purge' = purge
  <2>1. s \in Nat \cup {NoSize} /\ s <= MaxSize /\ Begin(q, Request("create", "insert", a, s, NoPart))
    BY <1>3, AttachmentsAssumption DEF CreateSession
  <2>2. /\ req'[q] = Request("create", "insert", a, s, NoPart)
        /\ Serving(q)' /\ OnlyMoves(q) /\ ~Serving(q)
    <3>1. Request("create", "insert", a, s, NoPart) \in Requests
      BY <2>1, RequestType, NoPartType
    <3>2. /\ req[q] = Idle /\ req'[q] = Request("create", "insert", a, s, NoPart)
          /\ OnlyMoves(q) /\ Serving(q)'
      BY <1>0, <2>1, <3>1, Begins
    <3>. QED
      BY <3>2 DEF Serving
  <2>. QED
    BY <1>3, <2>1, <2>2, RequestType, NoPartType DEF CreateSession, Stage
<1>4. ASSUME NEW b \in Bodies, PutObject(q, a, b)
      PROVE  /\ req'[q].op = "put" /\ req'[q].a = a /\ Stage(req'[q]) /\ age[a] # "new"
             /\ Serving(q)' /\ OnlyMoves(q) /\ ~Serving(q)
             /\ rows' = rows /\ age' = age /\ asked' = asked /\ purge' = purge
  <2>1. b \in Nat /\ Begin(q, Request("put", "write", a, b, NoPart))
    BY <1>4, AttachmentsAssumption DEF PutObject
  <2>2. /\ req'[q] = Request("put", "write", a, b, NoPart)
        /\ Serving(q)' /\ OnlyMoves(q) /\ ~Serving(q)
    BY <1>0, <2>1, Begins, RequestType, NoPartType DEF Serving
  <2>. QED
    BY <1>4, <2>1, <2>2, RequestType, NoPartType DEF PutObject, Stage
<1>5. ASSUME NEW n \in PartNumbers, PartLock(q, a, n)
      PROVE  /\ req'[q].op = "part" /\ req'[q].a = a /\ Stage(req'[q]) /\ age[a] # "new"
             /\ req'[q].pc = "put" /\ req'[q].seen = rows[a].parts
             /\ Serving(q)' /\ OnlyMoves(q) /\ ~Serving(q)
             /\ rows' = rows /\ age' = age /\ asked' = asked /\ purge' = purge
  <2>. DEFINE r == [op |-> "part", pc |-> "put", a |-> a, size |-> rows[a].size,
                    actual |-> NoSize, n |-> n,
                    length |-> multipart_part_length(rows[a].size, n), seen |-> rows[a].parts]
  <2>1. rows[a] \in Rows /\ multipart_part_length(rows[a].size, n) \in 0 .. PartSize
    BY <1>0, <1>5, PlanFacts DEF PartLock
  <2>2. /\ r \in Requests /\ r.op = "part" /\ r.pc = "put" /\ r.a = a /\ r.n = n
        /\ r.seen = rows[a].parts
    BY <2>1, NoRowFacts DEF Requests
  <2>3. Begin(q, r)
    BY <1>5 DEF PartLock
  <2>. HIDE DEF r
  <2>4. req'[q] = r /\ Serving(q)' /\ OnlyMoves(q) /\ ~Serving(q)
    BY <1>0, <2>2, <2>3, Begins DEF Serving
  <2>5. Stage(r)
    BY <2>2 DEF Stage
  <2>6. age[a] # "new"
    BY <1>2, <2>1, NoRowFacts
  <2>. QED
    BY <1>5, <2>2, <2>4, <2>5, <2>6 DEF PartLock
<1>6. ASSUME AbortRead(q, a) \/ DeleteRead(q, a)
      PROVE  /\ req'[q].op \in {"abort", "delete"} /\ req'[q].a = a /\ Stage(req'[q]) /\ age[a] # "new"
             /\ Serving(q)' /\ OnlyMoves(q) /\ ~Serving(q)
             /\ rows' = rows /\ age' = age /\ asked' = asked /\ purge' = purge
  <2>1. PICK op \in {"abort", "delete"} : Begin(q, Request(op, "store", a, NoSize, NoPart))
    BY <1>6 DEF AbortRead, DeleteRead
  <2>2. /\ req'[q] = Request(op, "store", a, NoSize, NoPart)
        /\ Serving(q)' /\ OnlyMoves(q) /\ ~Serving(q)
    BY <1>0, <2>1, Begins, RequestType, NoPartType DEF Serving
  <2>3. age[a] # "new"
    BY <1>1, <1>2, <1>6 DEF AbortRead, DeleteRead
  <2>4. rows' = rows /\ age' = age /\ asked' = asked /\ purge' = purge
    BY <1>6 DEF AbortRead, DeleteRead
  <2>5. req'[q].op = op /\ req'[q].pc = "store" /\ req'[q].a = a
    BY <2>2 DEF Request
  <2>. QED
    BY <2>1, <2>2, <2>3, <2>4, <2>5 DEF Stage
<1>7. ASSUME CompleteRead(q, a)
      PROVE  /\ req'[q].op = "complete" /\ req'[q].a = a /\ Stage(req'[q]) /\ age[a] # "new"
             /\ rows[a] # NoRow /\ req'[q].size = rows[a].size /\ req'[q].pc # "update"
             /\ Serving(q)' /\ OnlyMoves(q) /\ ~Serving(q)
             /\ rows' = rows /\ age' = age /\ asked' = asked /\ purge' = purge
  <2>1. PICK pc \in {"gather", "size"} :
           Begin(q, Request("complete", pc, a, rows[a].size, rows[a].parts))
    BY <1>7 DEF CompleteRead
  <2>2. rows[a] # NoRow /\ rows[a].size \in Nat \cup {NoSize} /\ rows[a].parts \in PartValues
    BY <1>0, <1>7, RowType DEF CompleteRead
  <2>3. /\ req'[q] = Request("complete", pc, a, rows[a].size, rows[a].parts)
        /\ Serving(q)' /\ OnlyMoves(q) /\ ~Serving(q)
    <3>1. Request("complete", pc, a, rows[a].size, rows[a].parts) \in Requests
      <4>1. 0 \in 0 .. PartSize
        BY AttachmentsAssumption
      <4>. QED
        BY <2>1, <2>2, <4>1 DEF Request, Requests
    <3>2. /\ req[q] = Idle /\ req'[q] = Request("complete", pc, a, rows[a].size, rows[a].parts)
          /\ OnlyMoves(q) /\ Serving(q)'
      BY <1>0, <2>1, <3>1, Begins
    <3>. QED
      BY <3>2 DEF Serving
  <2>4. /\ req'[q].op = "complete" /\ req'[q].pc = pc /\ req'[q].a = a
        /\ req'[q].size = rows[a].size
    BY <2>3 DEF Request
  <2>5. Stage(req'[q])
    BY <2>1, <2>4 DEF Stage
  <2>. QED
    BY <1>2, <1>7, <2>1, <2>2, <2>3, <2>4, <2>5 DEF CompleteRead
<1>. QED
  BY <1>3, <1>4, <1>5, <1>6, <1>7 DEF Arrive

\* A request that is served after a step has just arrived, or was served
\* before: then it has not moved, or by a step of its own.
LEMMA Requesting ==
    ASSUME Inv, [Next]_vars, NEW q \in Reqs, Serving(q)'
    PROVE  \/ ~Serving(q) /\ \E a \in Ids : Arrive(q, a)
           \/ Serving(q) /\ SameRequest(q) /\ (req'[q] = req[q] \/ Step(q))
<1>. USE DEF store, history, budget
<1>0. TypeOK
  BY DEF Inv
<1>1. CASE req'[q] = req[q]
  BY <1>1 DEF Serving, SameRequest
<1>2. ASSUME NEW p \in Reqs, NEW a \in Ids, Arrive(p, a)
      PROVE  req'[q] = req[q] \/ (~Serving(q) /\ \E b \in Ids : Arrive(q, b))
  BY <1>2, ArriveMoves DEF OnlyMoves
<1>3. ASSUME NEW p \in Reqs, Step(p) \/ InsertFails(p) \/ Dropped(p)
      PROVE  req'[q] = req[q] \/ (Serving(q) /\ SameRequest(q) /\ Step(q))
  BY <1>0, <1>3, StepMoves DEF OnlyMoves
<1>4. ASSUME \/ \E a \in Ids, n \in PartNumbers, v \in Bodies :
                    DirectPut(a, n, v) \/ DirectRecord(a, n, v)
             \/ (\E a \in Ids : Age(a) \/ PurgeFails(a)) \/ Purge \/ PurgeRollback \/ UNCHANGED vars
      PROVE  req' = req
  BY <1>4 DEF DirectPut, DirectRecord, Age, Purge, PurgeSelect, PurgeAbort, PurgeDelete,
     PurgeFails, PurgeCommit, PurgeRollback, vars
<1>. QED
  BY <1>1, <1>2, <1>3, <1>4 DEF Next
\* The rows change by few actions, and one at a time, save at a commit of
\* the purge.  Who deletes a row by its id finds it free.
LEMMA RowChanges ==
    ASSUME Inv, [Next]_vars, NEW a \in Ids
    PROVE  \/ rows'[a] = rows[a]
           \/ rows'[a] = NoRow /\ (Free(a) \/ (a \in purge.done /\ PurgeCommit))
           \/ \E q \in Reqs : /\ InsertRow(q) /\ req[q].a = a
                              /\ rows'[a] = NewRow(req[q].size) /\ asked'[a] = req[q].size
           \/ \E q \in Reqs : /\ PartRecord(q) /\ req[q].a = a /\ rows[a] # NoRow
                              /\ rows'[a] = Row(rows[a].status, rows[a].size,
                                    [req[q].seen EXCEPT ![req[q].n] = req[q].length], rows[a].mode)
           \/ \E n \in PartNumbers, v \in Bodies :
                 /\ DirectRecord(a, n, v) /\ rows[a] # NoRow
                 /\ rows'[a] = Row(rows[a].status, rows[a].size,
                                   [rows[a].parts EXCEPT ![n] = v], rows[a].mode)
           \/ \E q \in Reqs : /\ CompleteUpdate(q) /\ req[q].a = a /\ rows[a] # NoRow
                              /\ rows'[a] = Row("ready", req[q].actual, NoPart, rows[a].mode)
           \/ \E q \in Reqs : /\ RejectMark(q) /\ req[q].a = a /\ rows[a] # NoRow
                              /\ rows'[a] = Row("failed", rows[a].size, rows[a].parts, rows[a].mode)
<1>. USE DEF store, history, budget
<1>0. TypeOK /\ DOMAIN rows = Ids
  BY DEF Inv, TypeOK
<1>1. ASSUME NEW q \in Reqs, NEW b \in Ids, Arrive(q, b)
      PROVE  rows' = rows
  BY <1>1, ArriveMoves
<1>2. ASSUME NEW q \in Reqs, Step(q) \/ InsertFails(q) \/ Dropped(q)
      PROVE  \/ InsertRow(q) \/ PartRecord(q) \/ RemoveRow(q) \/ CompleteUpdate(q) \/ RejectMark(q)
             \/ rows' = rows
  BY <1>2 DEF Step, InsertFails, PutWritten, PartPut, PartWritten, PartRefused, AbortStore,
     DeleteStore, Dropped, CompleteGather, CompletePublish, CompleteClear, CompleteSize,
     CompleteMetadata, CompleteRefused, RejectStore
<1>3. ASSUME \/ \E b \in Ids, n \in PartNumbers, v \in Bodies : DirectPut(b, n, v)
             \/ (\E b \in Ids : Age(b) \/ PurgeFails(b)) \/ PurgeSelect
             \/ (\E b \in Ids : PurgeAbort(b) \/ PurgeDelete(b)) \/ PurgeRollback \/ UNCHANGED vars
      PROVE  rows' = rows
  BY <1>3 DEF DirectPut, Age, PurgeSelect, PurgeAbort, PurgeDelete, PurgeFails, PurgeRollback, vars
<1>4. ASSUME NEW q \in Reqs, InsertRow(q), rows'[a] # rows[a]
      PROVE  req[q].a = a /\ rows'[a] = NewRow(req[q].size) /\ asked'[a] = req[q].size
  BY <1>0, <1>4 DEF InsertRow, TypeOK
<1>5. ASSUME NEW q \in Reqs, PartRecord(q), rows'[a] # rows[a]
      PROVE  /\ req[q].a = a /\ rows[a] # NoRow
             /\ rows'[a] = Row(rows[a].status, rows[a].size,
                               [req[q].seen EXCEPT ![req[q].n] = req[q].length], rows[a].mode)
  BY <1>0, <1>5 DEF PartRecord, ListPart, UpdateRow
<1>6. ASSUME NEW q \in Reqs, RemoveRow(q), rows'[a] # rows[a]
      PROVE  rows'[a] = NoRow /\ Free(a)
  BY <1>0, <1>6 DEF RemoveRow, DeleteRow
<1>7. ASSUME NEW q \in Reqs, CompleteUpdate(q), rows'[a] # rows[a]
      PROVE  /\ req[q].a = a /\ rows[a] # NoRow
             /\ rows'[a] = Row("ready", req[q].actual, NoPart, rows[a].mode)
  BY <1>0, <1>7 DEF CompleteUpdate, UpdateRow
<1>8. ASSUME NEW q \in Reqs, RejectMark(q), rows'[a] # rows[a]
      PROVE  /\ req[q].a = a /\ rows[a] # NoRow
             /\ rows'[a] = Row("failed", rows[a].size, rows[a].parts, rows[a].mode)
  BY <1>0, <1>8 DEF RejectMark, UpdateRow
<1>9. ASSUME NEW b \in Ids, NEW n \in PartNumbers, NEW v \in Bodies,
             DirectRecord(b, n, v), rows'[a] # rows[a]
      PROVE  /\ b = a /\ rows[a] # NoRow
             /\ rows'[a] = Row(rows[a].status, rows[a].size,
                               [rows[a].parts EXCEPT ![n] = v], rows[a].mode)
  BY <1>0, <1>9 DEF DirectRecord, ListPart, UpdateRow
<1>10. ASSUME PurgeCommit, rows'[a] # rows[a]
       PROVE  rows'[a] = NoRow /\ a \in purge.done
  BY <1>10 DEF PurgeCommit
<1>11. CASE \E q \in Reqs, b \in Ids : Arrive(q, b)
  BY <1>1, <1>11
<1>12. CASE \E q \in Reqs : Step(q) \/ InsertFails(q) \/ Dropped(q)
  <2>1. PICK q \in Reqs : Step(q) \/ InsertFails(q) \/ Dropped(q)
    BY <1>12
  <2>2. \/ InsertRow(q) \/ PartRecord(q) \/ RemoveRow(q) \/ CompleteUpdate(q) \/ RejectMark(q)
        \/ rows' = rows
    BY <1>2, <2>1
  <2>3. CASE rows'[a] = rows[a]
    BY <2>3
  <2>4. CASE InsertRow(q) /\ rows'[a] # rows[a]
    BY <1>4, <2>4
  <2>5. CASE PartRecord(q) /\ rows'[a] # rows[a]
    BY <1>5, <2>5
  <2>6. CASE RemoveRow(q) /\ rows'[a] # rows[a]
    <3>1. rows'[a] = NoRow /\ Free(a)
      BY <1>6, <2>6
    <3>. QED
      BY <3>1
  <2>7. CASE CompleteUpdate(q) /\ rows'[a] # rows[a]
    BY <1>7, <2>7
  <2>8. CASE RejectMark(q) /\ rows'[a] # rows[a]
    BY <1>8, <2>8
  <2>. QED
    BY <2>2, <2>3, <2>4, <2>5, <2>6, <2>7, <2>8
<1>13. CASE \E b \in Ids, n \in PartNumbers, v \in Bodies : DirectRecord(b, n, v)
  BY <1>9, <1>13
<1>14. CASE PurgeCommit
  BY <1>10, <1>14
<1>. QED
  BY <1>3, <1>11, <1>12, <1>13, <1>14 DEF Next, Purge

\* An id leaves "new" when its one request ends, and is never "new" again.
LEMMA AgeChanges ==
    ASSUME Inv, [Next]_vars, NEW a \in Ids
    PROVE  \/ age'[a] = age[a]
           \/ age[a] = "fresh" /\ age'[a] = "stale"
           \/ /\ age'[a] # "new"
              /\ \E q \in Reqs : Serving(q) /\ ~Serving(q)' /\ req[q].op = "create" /\ req[q].a = a
<1>. USE DEF store, history, budget
<1>0. TypeOK /\ DOMAIN age = Ids
  BY DEF Inv, TypeOK
<1>1. ASSUME NEW q \in Reqs, NEW b \in Ids, Arrive(q, b)
      PROVE  age' = age
  BY <1>1, ArriveMoves
<1>2. ASSUME NEW q \in Reqs, Step(q)
      PROVE  InsertRow(q) \/ age' = age
  BY <1>2 DEF Step, PutWritten, PartPut, PartWritten, PartRefused, PartRecord, AbortStore,
     DeleteStore, RemoveRow, CompleteGather, CompletePublish, CompleteClear, CompleteSize,
     CompleteMetadata, CompleteRefused, CompleteUpdate, RejectStore, RejectMark
<1>3. ASSUME \/ \E b \in Ids, n \in PartNumbers, v \in Bodies :
                    DirectPut(b, n, v) \/ DirectRecord(b, n, v)
             \/ (\E b \in Ids : PurgeFails(b)) \/ Purge \/ PurgeRollback \/ UNCHANGED vars
      PROVE  age' = age
  BY <1>3 DEF DirectPut, DirectRecord, Purge, PurgeSelect, PurgeAbort, PurgeDelete, PurgeFails,
     PurgeCommit, PurgeRollback, vars
<1>4. ASSUME NEW q \in Reqs, InsertRow(q) \/ InsertFails(q) \/ Dropped(q), age'[a] # age[a]
      PROVE  age'[a] # "new" /\ req[q].op = "create" /\ req[q].a = a /\ Serving(q) /\ ~Serving(q)'
  <2>1. Serving(q) /\ ~Serving(q)'
    BY <1>0, <1>4, StepMoves DEF Step
  <2>2. CASE InsertRow(q)
    BY <1>0, <1>4, <2>1, <2>2 DEF InsertRow, At
  <2>3. CASE InsertFails(q)
    BY <1>0, <1>4, <2>1, <2>3 DEF InsertFails, At
  <2>4. CASE Dropped(q)
    BY <1>0, <1>4, <2>1, <2>4 DEF Dropped
  <2>. QED
    BY <1>4, <2>2, <2>3, <2>4
<1>5. ASSUME NEW b \in Ids, Age(b), age'[a] # age[a]
      PROVE  age[a] = "fresh" /\ age'[a] = "stale"
  BY <1>0, <1>5 DEF Age
<1>6. CASE \E q \in Reqs, b \in Ids : Arrive(q, b)
  BY <1>1, <1>6
<1>7. CASE \E q \in Reqs : Step(q) \/ InsertFails(q) \/ Dropped(q)
  BY <1>2, <1>4, <1>7
<1>8. CASE \E b \in Ids : Age(b)
  BY <1>5, <1>8
<1>. QED
  BY <1>3, <1>6, <1>7, <1>8 DEF Next

\* A lock is taken when it is free, and given back when its holder ends.
LEMMA LockChanges ==
    ASSUME Inv, [Next]_vars, NEW a \in Ids
    PROVE  \/ lock'[a] = lock[a]
           \/ lock[a] = Nobody
           \/ \E q \in Reqs : lock[a] = q /\ ~Serving(q)'
           \/ lock[a] = Purger /\ purge' = Resting
<1>. USE DEF store, history, budget
<1>0. TypeOK /\ DOMAIN lock = Ids
  BY DEF Inv, TypeOK
<1>1. ASSUME NEW q \in Reqs, NEW b \in Ids, Arrive(q, b), lock'[a] # lock[a]
      PROVE  lock[a] = Nobody
  <2>1. PICK n \in PartNumbers : PartLock(q, b, n)
    BY <1>1 DEF Arrive, CreateSession, PutObject, AbortRead, DeleteRead, CompleteRead
  <2>2. Free(b) /\ LockRows(q, {b})
    BY <2>1 DEF PartLock
  <2>. QED
    BY <1>0, <1>1, <2>2 DEF LockRows, Free
<1>2. ASSUME NEW q \in Reqs, Step(q) \/ InsertFails(q) \/ Dropped(q)
      PROVE  (PartRefused(q) \/ PartRecord(q) \/ Dropped(q)) \/ lock' = lock
  BY <1>2 DEF Step, InsertRow, InsertFails, PutWritten, PartPut, PartWritten, AbortStore,
     DeleteStore, RemoveRow, CompleteGather, CompletePublish, CompleteClear, CompleteSize,
     CompleteMetadata, CompleteRefused, CompleteUpdate, RejectStore, RejectMark
<1>3. ASSUME NEW q \in Reqs, PartRefused(q) \/ PartRecord(q) \/ Dropped(q), lock'[a] # lock[a]
      PROVE  lock[a] = q /\ ~Serving(q)'
  <2>1. ~Serving(q)'
    BY <1>0, <1>3, StepMoves DEF Step
  <2>2. Unlock(q)
    BY <1>3 DEF PartRefused, PartRecord, Dropped
  <2>. QED
    BY <1>0, <1>3, <2>1, <2>2, Unlocks
<1>4. ASSUME \/ \E b \in Ids, n \in PartNumbers, v \in Bodies :
                    DirectPut(b, n, v) \/ DirectRecord(b, n, v)
             \/ (\E b \in Ids : Age(b) \/ PurgeFails(b))
             \/ (\E b \in Ids : PurgeAbort(b) \/ PurgeDelete(b)) \/ UNCHANGED vars
      PROVE  lock' = lock
  BY <1>4 DEF DirectPut, DirectRecord, Age, PurgeAbort, PurgeDelete, PurgeFails, vars
<1>5. ASSUME PurgeSelect, lock'[a] # lock[a]
      PROVE  lock[a] = Nobody
  BY <1>0, <1>5 DEF PurgeSelect, LockForPurge, LockRows, Free
<1>6. ASSUME PurgeCommit \/ PurgeRollback, lock'[a] # lock[a]
      PROVE  lock[a] = Purger /\ purge' = Resting
  BY <1>0, <1>6, Unlocks DEF PurgeCommit, PurgeRollback
<1>7. CASE \E q \in Reqs, b \in Ids : Arrive(q, b)
  BY <1>1, <1>7
<1>8. CASE \E q \in Reqs : Step(q) \/ InsertFails(q) \/ Dropped(q)
  <2>1. PICK q \in Reqs : Step(q) \/ InsertFails(q) \/ Dropped(q)
    BY <1>8
  <2>2. lock'[a] # lock[a] => lock[a] = q /\ ~Serving(q)'
    BY <1>2, <1>3, <2>1
  <2>. QED
    BY <2>2
<1>. QED
  BY <1>4, <1>5, <1>6, <1>7, <1>8 DEF Next, Purge
\* What was asked for and what was answered is known when a row is written.
LEMMA HistoryChanges ==
    ASSUME Inv, [Next]_vars, NEW a \in Ids
    PROVE  /\ \/ asked'[a] = asked[a]
              \/ \E q \in Reqs : /\ Serving(q) /\ ~Serving(q)' /\ req[q].op = "create"
                                 /\ req[q].a = a /\ InsertRow(q)
           /\ \/ acked'[a] = acked[a]
              \/ \E q \in Reqs : /\ PartRecord(q) /\ req[q].a = a
                                 /\ acked'[a] = acked[a] \cup {<<req[q].n, "server">>}
              \/ \E n \in PartNumbers, v \in Bodies :
                    DirectRecord(a, n, v) /\ acked'[a] = acked[a] \cup {<<n, "client">>}
<1>. USE DEF store, history, budget
<1>0. TypeOK /\ DOMAIN asked = Ids /\ DOMAIN acked = Ids
  BY DEF Inv, TypeOK
<1>1. ASSUME NEW q \in Reqs, NEW b \in Ids, Arrive(q, b)
      PROVE  asked' = asked /\ acked' = acked
  BY <1>1 DEF Arrive, CreateSession, PutObject, PartLock, AbortRead, DeleteRead, CompleteRead
<1>2. ASSUME NEW q \in Reqs, Step(q) \/ InsertFails(q) \/ Dropped(q)
      PROVE  InsertRow(q) \/ PartRecord(q) \/ (asked' = asked /\ acked' = acked)
  BY <1>2 DEF Step, InsertFails, PutWritten, PartPut, PartWritten, PartRefused, AbortStore,
     DeleteStore, RemoveRow, Dropped, CompleteGather, CompletePublish, CompleteClear,
     CompleteSize, CompleteMetadata, CompleteRefused, CompleteUpdate, RejectStore, RejectMark
<1>3. ASSUME \/ \E b \in Ids, n \in PartNumbers, v \in Bodies : DirectPut(b, n, v)
             \/ (\E b \in Ids : Age(b) \/ PurgeFails(b)) \/ Purge \/ PurgeRollback \/ UNCHANGED vars
      PROVE  asked' = asked /\ acked' = acked
  BY <1>3 DEF DirectPut, Age, Purge, PurgeSelect, PurgeAbort, PurgeDelete, PurgeFails,
     PurgeCommit, PurgeRollback, vars
<1>4. ASSUME NEW q \in Reqs, InsertRow(q)
      PROVE  /\ acked'[a] = acked[a]
             /\ asked'[a] = asked[a] \/ (Serving(q) /\ ~Serving(q)' /\ req[q].op = "create"
                                         /\ req[q].a = a)
  <2>1. Serving(q) /\ ~Serving(q)' /\ req[q].op = "create"
    BY <1>0, <1>4, StepMoves DEF Step, InsertRow, At
  <2>. QED
    BY <1>0, <1>4, <2>1 DEF InsertRow
<1>5. ASSUME NEW q \in Reqs, PartRecord(q)
      PROVE  /\ asked'[a] = asked[a]
             /\ \/ acked'[a] = acked[a]
                \/ req[q].a = a /\ acked'[a] = acked[a] \cup {<<req[q].n, "server">>}
  BY <1>0, <1>5 DEF PartRecord
<1>6. ASSUME NEW b \in Ids, NEW n \in PartNumbers, NEW v \in Bodies, DirectRecord(b, n, v)
      PROVE  /\ asked'[a] = asked[a]
             /\ acked'[a] = acked[a] \/ (b = a /\ acked'[a] = acked[a] \cup {<<n, "client">>})
  BY <1>0, <1>6 DEF DirectRecord
<1>7. CASE \E q \in Reqs, b \in Ids : Arrive(q, b)
  BY <1>1, <1>7
<1>8. CASE \E q \in Reqs : Step(q) \/ InsertFails(q) \/ Dropped(q)
  <2>1. PICK q \in Reqs : Step(q) \/ InsertFails(q) \/ Dropped(q)
    BY <1>8
  <2>. QED
    BY <1>2, <1>4, <1>5, <2>1
<1>9. CASE \E b \in Ids, n \in PartNumbers, v \in Bodies : DirectRecord(b, n, v)
  BY <1>6, <1>9
<1>. QED
  BY <1>3, <1>7, <1>8, <1>9 DEF Next
-----------------------------------------------------------------------------
(***************************************************************************)
(* The parts of the invariant, one by one.                                 *)
(***************************************************************************)

\* Every handler is at one of its statements, with what it needs there.
LEMMA StageStep ==
    ASSUME Inv, [Next]_vars, NEW q \in Reqs
    PROVE  Stage(req'[q])
<1>. USE DEF store, history, budget
<1>0. TypeOK /\ Stage(req[q]) /\ NoSize \notin Nat
  BY AttachmentsAssumption DEF Inv
<1>1. SUFFICES ASSUME Serving(q)'
               PROVE  Stage(req'[q])
  BY DEF Serving, Stage
<1>2. CASE \E a \in Ids : Arrive(q, a)
  BY <1>2, ArriveMoves
<1>3. CASE req'[q] = req[q]
  BY <1>0, <1>3
<1>4. CASE Serving(q) /\ SameRequest(q) /\ Step(q)
  <2>1. Stage(req[q]) /\ req[q] # Idle
    BY <1>0, <1>4 DEF Serving
  <2>2. \A pc, v : Measured(q, pc, v) => req'[q].pc = pc /\ req'[q].actual = v
    BY <1>0, <1>4, Moves
  <2>3. \A pc : Goto(q, pc) => req'[q].pc = pc
    BY <2>2 DEF Goto
  <2>4. ~Answer(q)
    BY <1>0, <1>1, Answered
  <2>5. CASE PartPut(q) \/ PartWritten(q)
    <3>1. req[q].op = "part" /\ req'[q].pc \in {"write", "record"}
      BY <2>3, <2>5 DEF PartPut, PartWritten, At
    <3>2. req[q].n \in PartNumbers
      BY <2>1, <3>1 DEF Stage
    <3>. QED
      BY <1>4, <3>1, <3>2 DEF SameRequest, Stage
  <2>6. CASE AbortStore(q) \/ DeleteStore(q)
    <3>1. req[q].op \in {"abort", "delete"} /\ req'[q].pc = "delete"
      BY <2>3, <2>4, <2>6 DEF AbortStore, DeleteStore, At
    <3>. QED
      BY <1>4, <3>1 DEF SameRequest, Stage
  <2>7. CASE CompleteGather(q)
    <3>1. req[q].op = "complete"
      BY <2>7 DEF CompleteGather, At
    <3>2. Gathered(req[q].a) \in Nat
      BY <1>0, <1>4, ServingType, GatheredType
    <3>3. \/ req'[q].pc = "size"
          \/ req'[q].pc = "publish" /\ req'[q].actual = Gathered(req[q].a)
      BY <2>2, <2>3, <2>7 DEF CompleteGather
    <3>. QED
      BY <1>4, <3>1, <3>2, <3>3 DEF SameRequest, Stage
  <2>8. CASE CompletePublish(q) \/ CompleteClear(q) \/ RejectStore(q)
    <3>1. req[q].op = "complete" /\ req'[q].pc \in {"clear", "size", "mark"}
      BY <2>2, <2>3, <2>8 DEF CompletePublish, CompleteClear, RejectStore, At
    <3>. QED
      BY <1>4, <3>1 DEF SameRequest, Stage
  <2>9. CASE CompleteSize(q)
    <3>. DEFINE v == objects[req[q].a]
    <3>1. req[q].op = "complete" /\ v # NoSize
      BY <2>9 DEF CompleteSize, At
    <3>2. v \in Nat /\ MaxSize \in Nat
      BY <1>0, <1>4, <3>1, ServingType, AttachmentsAssumption DEF TypeOK
    <3>3. \/ req'[q].pc = "reject"
          \/ /\ req'[q].pc = "metadata" /\ req'[q].actual = v /\ ~(v > MaxSize)
             /\ req[q].size # NoSize => req[q].size = v
      BY <2>2, <2>3, <2>9 DEF CompleteSize
    <3>. HIDE DEF v
    <3>4. req'[q].pc = "metadata" => req'[q].actual \in 0 .. MaxSize
      BY <3>2, <3>3
    <3>. QED
      BY <1>4, <3>1, <3>3, <3>4 DEF SameRequest, Stage
  <2>10. CASE CompleteMetadata(q)
    <3>1. req[q].op = "complete" /\ req[q].pc = "metadata"
      BY <2>10 DEF CompleteMetadata, At
    <3>2. req[q].actual \in 0 .. MaxSize /\ (req[q].size # NoSize => req[q].size = req[q].actual)
      BY <2>1, <3>1 DEF Stage
    <3>3. \/ req'[q].pc = "reject"
          \/ req'[q].pc = "update" /\ req'[q].actual = req[q].actual
      BY <2>2, <2>3, <2>10 DEF CompleteMetadata, SizeChanged
    <3>. QED
      BY <1>4, <3>1, <3>2, <3>3 DEF SameRequest, Stage
  <2>. QED
    BY <1>0, <1>1, <1>4, <2>5, <2>6, <2>7, <2>8, <2>9, <2>10, <2>4 DEF Step, InsertRow, PutWritten,
       PartRefused, PartRecord, RemoveRow, CompleteRefused, CompleteUpdate, RejectMark
<1>. QED
  BY <1>1, <1>2, <1>3, <1>4, Requesting
\* An id is used once.
LEMMA FreshStep ==
    ASSUME Inv, [Next]_vars
    PROVE  Fresh'
<1>0. TypeOK /\ Fresh
  BY DEF Inv
<1>1. ASSUME NEW q \in Reqs, Serving(q)'
      PROVE  \/ /\ Serving(q) /\ SameRequest(q)
             \/ /\ ~Serving(q) /\ OnlyMoves(q) /\ req'[q].a \in Ids
                /\ Arrive(q, req'[q].a) /\ age' = age
  BY <1>1, Requesting, ArriveMoves
<1>2. ASSUME NEW q \in Reqs, Serving(q), Serving(q)', SameRequest(q)
      PROVE  age'[req'[q].a] = "new" <=> req'[q].op = "create"
  <2>. DEFINE a == req[q].a
  <2>1. a \in Ids /\ req'[q].a = a /\ req'[q].op = req[q].op
    BY <1>0, <1>2, ServingType DEF SameRequest
  <2>2. age[a] = "new" <=> req[q].op = "create"
    BY <1>0, <1>2 DEF Fresh
  <2>3. ~(\E p \in Reqs : Serving(p) /\ ~Serving(p)' /\ req[p].op = "create" /\ req[p].a = a)
    BY <1>0, <1>2 DEF Fresh
  <2>4. age'[a] = age[a] \/ (age[a] = "fresh" /\ age'[a] = "stale")
    BY <2>1, <2>3, AgeChanges
  <2>. QED
    BY <2>1, <2>2, <2>4
<1>3. ASSUME NEW q \in Reqs, NEW a \in Ids, Arrive(q, a)
      PROVE  /\ age[a] = "new" <=> req'[q].op = "create"
             /\ req'[q].op = "create" => \A p \in Reqs : Serving(p) => req[p].a # a
  <2>1. ASSUME NEW s \in Sizes, CreateSession(q, a, s)
        PROVE  age[a] = "new" /\ \A p \in Reqs : Serving(p) => req[p].a # a
    BY <2>1 DEF CreateSession, Serving
  <2>. QED
    BY <1>3, <2>1, ArriveMoves
<1>4. ASSUME NEW q \in Reqs, Serving(q)'
      PROVE  age'[req'[q].a] = "new" <=> req'[q].op = "create"
  <2>1. CASE Serving(q) /\ SameRequest(q)
    BY <1>2, <1>4, <2>1
  <2>2. CASE /\ ~Serving(q) /\ OnlyMoves(q) /\ req'[q].a \in Ids
             /\ Arrive(q, req'[q].a) /\ age' = age
    BY <1>3, <2>2
  <2>. QED
    BY <1>1, <1>4, <2>1, <2>2
<1>5. ASSUME NEW q \in Reqs, Serving(q)', req'[q].op = "create",
             NEW p \in Reqs \ {q}, Serving(p)'
      PROVE  req'[p].a # req'[q].a
  <2>1. CASE Serving(q) /\ SameRequest(q) /\ Serving(p) /\ SameRequest(p)
    BY <1>0, <1>5, <2>1 DEF Fresh, SameRequest
  <2>2. CASE /\ Serving(p) /\ SameRequest(p)
             /\ ~Serving(q) /\ OnlyMoves(q) /\ req'[q].a \in Ids /\ Arrive(q, req'[q].a)
    BY <1>3, <1>5, <2>2 DEF SameRequest
  <2>3. CASE /\ Serving(q) /\ SameRequest(q)
             /\ ~Serving(p) /\ OnlyMoves(p) /\ req'[p].a \in Ids /\ Arrive(p, req'[p].a)
    <3>1. age[req[q].a] = "new" /\ req'[q].a = req[q].a
      BY <1>0, <1>5, <2>3 DEF Fresh, SameRequest
    <3>2. CASE req'[p].op = "create"
      BY <1>3, <1>5, <2>3, <3>1, <3>2
    <3>3. CASE req'[p].op # "create"
      BY <1>3, <1>5, <2>3, <3>1, <3>3
    <3>. QED
      BY <3>2, <3>3
  <2>4. CASE ~Serving(q) /\ OnlyMoves(q) /\ ~Serving(p)
    BY <1>5, <2>4 DEF OnlyMoves, Serving
  <2>. QED
    BY <1>1, <1>5, <2>1, <2>2, <2>3, <2>4
<1>6. ASSUME NEW a \in Ids, age'[a] = "new"
      PROVE  rows'[a] = NoRow /\ acked'[a] = {}
  <2>1. age[a] = "new" /\ rows[a] = NoRow /\ acked[a] = {}
    BY <1>0, <1>6, AgeChanges DEF Fresh
  <2>2. ASSUME NEW q \in Reqs, InsertRow(q), req[q].a = a
        PROVE  FALSE
    <3>1. age' = [age EXCEPT ![a] = "fresh"]
      BY <2>2 DEF InsertRow
    <3>. QED
      BY <1>0, <1>6, <3>1 DEF TypeOK
  <2>3. ASSUME NEW q \in Reqs, PartRecord(q), req[q].a = a
        PROVE  FALSE
    <3>1. Serving(q) /\ req[q].op = "part"
      BY <2>3, AtServing DEF PartRecord, At
    <3>. QED
      BY <1>0, <2>1, <2>3, <3>1 DEF Fresh
  <2>4. ASSUME NEW n \in PartNumbers, NEW v \in Bodies, DirectRecord(a, n, v)
        PROVE  FALSE
    BY <2>1, <2>4, NoRowFacts DEF DirectRecord, ValidPlan
  <2>5. rows'[a] = NoRow
    BY <2>1, <2>2, RowChanges
  <2>6. acked'[a] = {}
    BY <2>1, <2>3, <2>4, HistoryChanges
  <2>. QED
    BY <2>5, <2>6
<1>. QED
  BY <1>4, <1>5, <1>6 DEF Fresh

\* A row and a completion have the size that was asked for.
LEMMA SizesStep ==
    ASSUME Inv, [Next]_vars
    PROVE  SizesKept'
<1>0. TypeOK /\ Fresh /\ SizesKept /\ \A q \in Reqs : Stage(req[q])
  BY DEF Inv
<1>1. ASSUME NEW a \in Ids, rows'[a] # NoRow
      PROVE  /\ asked'[a] # NoSize => rows'[a].size = asked'[a]
             /\ rows'[a].status = "pending" /\ rows'[a].mode = "multipart" =>
                   rows'[a].size \in 0 .. MaxSize
             /\ rows'[a].status = "ready" => rows'[a].size \in 0 .. MaxSize
  <2>1. CASE \E q \in Reqs : InsertRow(q) /\ req[q].a = a
    <3>1. PICK q \in Reqs : InsertRow(q) /\ req[q].a = a
      BY <2>1
    <3>. DEFINE s == req[q].size
    <3>2. rows'[a] = NewRow(s) /\ asked'[a] = s
      BY <1>0, <3>1 DEF InsertRow, TypeOK
    <3>3. Serving(q) /\ req[q].op = "create"
      BY <3>1, AtServing DEF InsertRow, At
    <3>4. s <= MaxSize /\ s \in Nat \cup {NoSize}
      BY <1>0, <3>3, ServingType DEF Stage, Serving
    <3>. HIDE DEF s
    <3>5. /\ rows'[a].size = s /\ rows'[a].status = "pending"
          /\ rows'[a].mode = "multipart" => s > Threshold
      BY <3>2 DEF NewRow, Row, should_use_multipart
    <3>6. s > Threshold => s \in 0 .. MaxSize
      BY <3>4, AttachmentsAssumption
    <3>. QED
      BY <3>2, <3>5, <3>6
  <2>2. CASE ~(\E q \in Reqs : InsertRow(q) /\ req[q].a = a)
    <3>1. asked'[a] = asked[a]
      BY <2>2, HistoryChanges
    <3>2. CASE rows'[a] = rows[a]
      BY <1>0, <1>1, <3>1, <3>2 DEF SizesKept
    <3>3. ASSUME NEW q \in Reqs, CompleteUpdate(q), req[q].a = a, rows[a] # NoRow,
                 rows'[a] = Row("ready", req[q].actual, NoPart, rows[a].mode)
          PROVE  /\ asked'[a] # NoSize => rows'[a].size = asked'[a]
                 /\ rows'[a].status = "ready" /\ rows'[a].size \in 0 .. MaxSize
      <4>1. Serving(q) /\ req[q].op = "complete" /\ req[q].pc = "update"
        BY <3>3, AtServing DEF CompleteUpdate, At
      <4>2. req[q].actual \in 0 .. MaxSize /\ (req[q].size # NoSize => req[q].size = req[q].actual)
        BY <1>0, <4>1 DEF Stage, Serving
      <4>3. asked[a] # NoSize => req[q].size = asked[a]
        BY <1>0, <3>3, <4>1 DEF SizesKept
      <4>4. rows'[a].status = "ready" /\ rows'[a].size = req[q].actual
        BY <3>3 DEF Row
      <4>. QED
        BY <3>1, <4>2, <4>3, <4>4
    <3>4. ASSUME rows[a] # NoRow, NEW parts, NEW status \in {rows[a].status, "failed"},
                 rows'[a] = Row(status, rows[a].size, parts, rows[a].mode)
          PROVE  /\ asked'[a] # NoSize => rows'[a].size = asked'[a]
                 /\ rows'[a].status = "pending" /\ rows'[a].mode = "multipart" =>
                       rows'[a].size \in 0 .. MaxSize
                 /\ rows'[a].status = "ready" => rows'[a].size \in 0 .. MaxSize
      <4>1. rows'[a].size = rows[a].size /\ rows'[a].status = status /\ rows'[a].mode = rows[a].mode
        BY <3>4 DEF Row
      <4>. QED
        BY <1>0, <3>1, <3>4, <4>1 DEF SizesKept
    <3>. QED
      BY <1>1, <2>2, <3>2, <3>3, <3>4, RowChanges
  <2>. QED
    BY <2>1, <2>2
<1>2. ASSUME NEW q \in Reqs, Serving(q)', req'[q].op = "complete", asked'[req'[q].a] # NoSize
      PROVE  req'[q].size = asked'[req'[q].a]
  <2>1. CASE Serving(q) /\ SameRequest(q)
    <3>1. req[q].a \in Ids /\ req'[q].a = req[q].a /\ req'[q].size = req[q].size
          /\ req[q].op = "complete"
      BY <1>0, <1>2, <2>1, ServingType DEF SameRequest
    <3>2. ~(\E p \in Reqs : Serving(p) /\ req[p].op = "create" /\ req[p].a = req[q].a)
      BY <1>0, <2>1, <3>1 DEF Fresh
    <3>3. asked'[req[q].a] = asked[req[q].a]
      BY <3>1, <3>2, HistoryChanges
    <3>. QED
      BY <1>0, <1>2, <2>1, <3>1, <3>3 DEF SizesKept
  <2>2. CASE \E a \in Ids : Arrive(q, a)
    <3>1. PICK a \in Ids : Arrive(q, a)
      BY <2>2
    <3>2. /\ req'[q].a = a /\ asked' = asked /\ rows[a] # NoRow /\ req'[q].size = rows[a].size
      BY <1>2, <3>1, ArriveMoves
    <3>. QED
      BY <1>0, <1>2, <3>2 DEF SizesKept
  <2>. QED
    BY <1>2, <2>1, <2>2, Requesting
<1>. QED
  BY <1>1, <1>2 DEF SizesKept
\* A row that someone has locked is changed by its holder alone.
LEMMA HeldRow ==
    ASSUME Inv, [Next]_vars, NEW a \in Ids, lock[a] # Nobody, rows'[a] # rows[a]
    PROVE  \/ a \in purge.done /\ PurgeCommit
           \/ \E q \in Reqs : InsertRow(q) /\ req[q].a = a /\ rows'[a] = NewRow(req[q].size)
           \/ \E q \in Reqs : /\ PartRecord(q) /\ req[q].a = a /\ lock[a] = q /\ ~Serving(q)'
                              /\ rows[a] # NoRow
                              /\ rows'[a] = Row(rows[a].status, rows[a].size,
                                    [req[q].seen EXCEPT ![req[q].n] = req[q].length], rows[a].mode)
<1>0. TypeOK /\ PartHeld
  BY DEF Inv
<1>1. ~Free(a)
  BY DEF Free
<1>2. \A n \in PartNumbers, v \in Bodies : ~DirectRecord(a, n, v)
  BY <1>1 DEF DirectRecord
<1>3. \A q \in Reqs : req[q].a = a => ~CompleteUpdate(q) /\ ~RejectMark(q)
  BY <1>1 DEF CompleteUpdate, RejectMark
<1>4. ASSUME NEW q \in Reqs, PartRecord(q), req[q].a = a
      PROVE  lock[a] = q /\ ~Serving(q)'
  <2>1. Serving(q) /\ req[q].op = "part"
    BY <1>4, AtServing DEF PartRecord, At
  <2>2. ~Serving(q)'
    BY <1>0, <1>4, StepMoves DEF Step
  <2>. QED
    BY <1>0, <1>4, <2>1, <2>2 DEF PartHeld
<1>. QED
  BY <1>1, <1>2, <1>3, <1>4, RowChanges

\* The upload of a part holds its row.
LEMMA PartHeldStep ==
    ASSUME Inv, [Next]_vars
    PROVE  PartHeld'
<1>0. TypeOK /\ Fresh /\ PartHeld /\ PurgeHeld
  BY DEF Inv
<1>1. SUFFICES ASSUME NEW q \in Reqs, Serving(q)', req'[q].op = "part"
               PROVE  /\ lock'[req'[q].a] = q
                      /\ rows'[req'[q].a] # NoRow
                      /\ rows'[req'[q].a].parts = req'[q].seen
  BY DEF PartHeld
<1>2. CASE Serving(q) /\ SameRequest(q)
  <2>. DEFINE a == req[q].a
  <2>1. /\ a \in Ids /\ req'[q].a = a /\ req'[q].seen = req[q].seen
        /\ req[q].op = "part"
    BY <1>0, <1>1, <1>2, ServingType DEF SameRequest
  <2>2. lock[a] = q /\ rows[a] # NoRow /\ rows[a].parts = req[q].seen
    BY <1>0, <1>2, <2>1 DEF PartHeld
  <2>3. q # Nobody /\ q # Purger
    BY AttachmentsAssumption
  <2>4. lock'[a] = lock[a]
    BY <1>1, <2>1, <2>2, <2>3, LockChanges
  <2>5. ~(\E p \in Reqs : InsertRow(p) /\ req[p].a = a)
    <3>1. SUFFICES ASSUME NEW p \in Reqs, InsertRow(p), req[p].a = a
                   PROVE  FALSE
      OBVIOUS
    <3>2. Serving(p) /\ req[p].op = "create"
      BY <3>1, AtServing DEF InsertRow, At
    <3>. QED
      BY <1>0, <1>2, <2>1, <3>1, <3>2 DEF Fresh
  <2>6. a \notin purge.done
    BY <1>0, <2>2, <2>3 DEF PurgeHeld
  <2>7. rows'[a] = rows[a]
    <3>1. lock[a] # Nobody
      BY <2>2, <2>3
    <3>2. \A p \in Reqs : lock[a] = p => Serving(p)'
      BY <1>1, <2>2
    <3>. HIDE DEF a
    <3>. QED
      BY <2>1, <2>5, <2>6, <3>1, <3>2, HeldRow, ZenonT(60)
  <2>. QED
    BY <2>1, <2>2, <2>4, <2>7
<1>3. CASE ~Serving(q) /\ \E a \in Ids : Arrive(q, a)
  <2>1. PICK a \in Ids : Arrive(q, a)
    BY <1>3
  <2>2. PICK n \in PartNumbers : PartLock(q, a, n)
    BY <1>1, <2>1, ArriveMoves
  <2>3. req'[q].a = a /\ req'[q].seen = rows[a].parts /\ rows' = rows
    BY <1>1, <2>1, ArriveMoves
  <2>4. lock'[a] = q
    BY <1>0, <2>2, Locks DEF PartLock
  <2>5. rows[a] # NoRow
    BY <2>2, NoRowFacts DEF PartLock, ValidPlan
  <2>. QED
    BY <2>3, <2>4, <2>5
<1>. QED
  BY <1>1, <1>2, <1>3, Requesting

\* The purge works on the rows it has locked, one at a time.
LEMMA PurgeHeldStep ==
    ASSUME Inv, [Next]_vars
    PROVE  PurgeHeld'
<1>. USE DEF store, history, budget
<1>0. TypeOK /\ Fresh /\ PartHeld /\ PurgeHeld
  BY DEF Inv
<1>. DEFINE Held(a) == lock[a] = Purger /\ age[a] = "stale" /\ rows[a].status \in {"pending", "failed"}
<1>1. \A a \in Ids : a \notin {"rest", "abort"}
  BY AttachmentsAssumption
<1>2. \/ purge' = purge \/ purge' = Resting
      \/ PurgeSelect \/ \E a \in Ids : PurgeAbort(a) \/ PurgeDelete(a) \/ PurgeFails(a)
  <2>1. ASSUME NEW q \in Reqs, NEW a \in Ids, Arrive(q, a)
        PROVE  purge' = purge
    BY <2>1, ArriveMoves
  <2>2. ASSUME NEW q \in Reqs, Step(q) \/ InsertFails(q) \/ Dropped(q)
        PROVE  purge' = purge
    BY <2>2 DEF Step, InsertRow, InsertFails, PutWritten, PartPut, PartWritten, PartRefused,
       PartRecord, AbortStore, DeleteStore, RemoveRow, Dropped, CompleteGather, CompletePublish,
       CompleteClear, CompleteSize, CompleteMetadata, CompleteRefused, CompleteUpdate,
       RejectStore, RejectMark
  <2>3. ASSUME \/ \E a \in Ids, n \in PartNumbers, v \in Bodies :
                      DirectPut(a, n, v) \/ DirectRecord(a, n, v)
               \/ (\E a \in Ids : Age(a)) \/ UNCHANGED vars
        PROVE  purge' = purge
    BY <2>3 DEF DirectPut, DirectRecord, Age, vars
  <2>4. PurgeCommit \/ PurgeRollback => purge' = Resting
    BY DEF PurgeCommit, PurgeRollback
  <2>. QED
    BY <2>1, <2>2, <2>3, <2>4 DEF Next, Purge
<1>3. ASSUME NEW a \in Ids, Held(a), purge' # Resting
      PROVE  lock'[a] = Purger /\ age'[a] = "stale" /\ rows'[a].status \in {"pending", "failed"}
  <2>1. lock[a] # Nobody /\ lock[a] \notin Reqs /\ rows[a] # NoRow
    BY <1>3, AttachmentsAssumption, NoRowFacts
  <2>2. lock'[a] = lock[a]
    BY <1>3, <2>1, LockChanges
  <2>3. age'[a] = age[a]
    <3>1. ~(\E q \in Reqs : Serving(q) /\ req[q].op = "create" /\ req[q].a = a)
      BY <1>0, <1>3 DEF Fresh
    <3>. QED
      BY <1>3, <3>1, AgeChanges
  <2>4. ~PurgeCommit
    BY <1>3 DEF PurgeCommit
  <2>5. ASSUME NEW q \in Reqs, rows'[a] = NewRow(req[q].size)
        PROVE  rows'[a].status = "pending"
    BY <2>5 DEF NewRow, Row
  <2>6. rows'[a].status \in {"pending", "failed"}
    <3>1. CASE rows'[a] = rows[a]
      BY <1>3, <3>1
    <3>2. CASE rows'[a] # rows[a]
      BY <2>1, <2>4, <2>5, <3>2, HeldRow
    <3>. QED
      BY <3>1, <3>2
  <2>. QED
    BY <1>3, <2>2, <2>3, <2>6
<1>4. /\ \A a \in purge.todo \cup purge.done : Held(a) /\ a \in Ids
      /\ purge.todo \subseteq Ids /\ purge.done \subseteq Ids
  BY <1>0 DEF PurgeHeld, TypeOK
<1>5. CASE purge' = Resting
  BY <1>5 DEF Resting, PurgeHeld
<1>6. ASSUME purge' # Resting, purge'.todo \cup purge'.done \subseteq purge.todo \cup purge.done
      PROVE  \A a \in purge'.todo \cup purge'.done :
                lock'[a] = Purger /\ age'[a] = "stale" /\ rows'[a].status \in {"pending", "failed"}
  <2>. HIDE DEF Held
  <2>. QED
    BY <1>3, <1>4, <1>6
<1>7. CASE purge' = purge /\ purge' # Resting
  BY <1>0, <1>6, <1>7 DEF PurgeHeld
<1>8. ASSUME NEW a \in Ids, PurgeAbort(a), purge' # Resting
      PROVE  PurgeHeld'
  <2>1. /\ purge.pc = "abort" /\ a \in purge.todo /\ purge'.done = purge.done
        /\ \/ purge'.pc = "abort" /\ purge'.todo = purge.todo \ {a}
           \/ purge'.pc = a /\ purge'.todo = purge.todo
    BY <1>8 DEF PurgeAbort, PurgeAt
  <2>. QED
    BY <1>1, <1>6, <1>8, <2>1 DEF PurgeHeld
<1>9. ASSUME NEW a \in Ids, PurgeDelete(a), purge' # Resting
      PROVE  PurgeHeld'
  <2>1. a \in purge.todo
    BY <1>0, <1>1, <1>9 DEF PurgeDelete, PurgeHeld
  <2>2. purge'.pc = "abort" /\ purge'.todo = purge.todo \ {a} /\ purge'.done = purge.done \cup {a}
    BY <1>9 DEF PurgeDelete, PurgeAt
  <2>. QED
    BY <1>1, <1>6, <1>9, <2>1, <2>2 DEF PurgeHeld
<1>10. ASSUME NEW a \in Ids, PurgeFails(a), purge' # Resting
       PROVE  PurgeHeld'
  <2>1. purge'.pc = "abort" /\ purge'.todo = purge.todo \ {a} /\ purge'.done = purge.done
    BY <1>10 DEF PurgeFails, PurgeAt
  <2>. QED
    BY <1>1, <1>6, <1>10, <2>1 DEF PurgeHeld
<1>11. CASE PurgeSelect
  <2>. DEFINE picked == {a \in Ids : Stale(a) /\ Free(a)}
  <2>1. /\ purge'.pc = "abort" /\ purge'.todo = picked /\ purge'.done = {}
        /\ LockRows(Purger, picked) /\ rows' = rows /\ age' = age
    BY <1>11 DEF PurgeSelect, LockForPurge
  <2>2. \A a \in picked : lock'[a] = Purger
    BY <1>0, <2>1, Locks
  <2>3. \A a \in picked : age[a] = "stale" /\ rows[a].status \in {"pending", "failed"}
    BY DEF Stale
  <2>. HIDE DEF picked
  <2>. QED
    BY <2>1, <2>2, <2>3 DEF PurgeHeld
<1>. QED
  BY <1>2, <1>5, <1>7, <1>8, <1>9, <1>10, <1>11
\* The parts of an upload stay while it is open; it is opened before the row.
LEMMA PartsStay ==
    ASSUME Inv, [Next]_vars, NEW a \in Ids, a \in open'
    PROVE  \/ age'[a] = "new"
           \/ /\ a \in open
              /\ \A n \in PartNumbers : stored[a][n] # NoSize => stored'[a][n] # NoSize
<1>. USE DEF store, history, budget
<1>0. TypeOK /\ \A n \in Nat : n # NoSize
  BY AttachmentsAssumption DEF Inv
<1>. DEFINE Stays == a \in open /\ \A n \in PartNumbers : stored[a][n] # NoSize => stored'[a][n] # NoSize
<1>1. UNCHANGED <<open, stored>> => Stays
  OBVIOUS
<1>2. ASSUME NEW b \in Ids, CloseUpload(b)
      PROVE  Stays
  BY <1>0, <1>2, Closes
<1>3. ASSUME NEW b \in Ids, NEW n \in PartNumbers, NEW v \in Nat \cup {NoSize},
             stored' = [stored EXCEPT ![b][n] = v], open' = open, b \in open => v # NoSize
      PROVE  Stays
  <2>1. \A m \in PartNumbers : a # b \/ m # n => stored'[a][m] = stored[a][m]
    BY <1>0, <1>3, PartStored
  <2>2. stored'[b][n] = v
    BY <1>0, <1>3, PartStored, ZenonT(60)
  <2>. QED
    BY <1>3, <2>1, <2>2, SMTT(30)
<1>4. ASSUME NEW q \in Reqs, NEW b \in Ids, Arrive(q, b)
      PROVE  age'[a] = "new" \/ Stays
  <2>1. ASSUME NEW s \in Sizes, CreateSession(q, b, s)
        PROVE  age'[a] = "new" \/ Stays
    <3>1. age[b] = "new" /\ age' = age
      BY <2>1 DEF CreateSession
    <3>2. stored' = stored /\ open' \subseteq open \cup {b}
      BY <2>1 DEF CreateSession
    <3>. QED
      BY <3>1, <3>2
  <2>2. CASE UNCHANGED <<open, stored>>
    BY <1>1, <2>2
  <2>. QED
    BY <1>4, <2>1, <2>2 DEF Arrive, PutObject, PartLock, AbortRead, DeleteRead, CompleteRead
<1>5. ASSUME NEW q \in Reqs, Step(q) \/ InsertFails(q) \/ Dropped(q)
      PROVE  Stays
  <2>1. Serving(q) /\ req[q].a \in Ids /\ req[q].length \in 0 .. PartSize
    BY <1>0, <1>5, StepMoves, ServingType
  <2>2. req[q].op = "part" => req[q].n \in PartNumbers
    BY <2>1 DEF Inv, Stage, Serving
  <2>3. CASE PartPut(q) \/ PartWritten(q)
    <3>1. req[q].n \in PartNumbers /\ open' = open
      BY <2>2, <2>3 DEF PartPut, PartWritten, At
    <3>2. PICK v \in Nat \cup {NoSize} :
             /\ stored' = [stored EXCEPT ![req[q].a][req[q].n] = v]
             /\ req[q].a \in open => v # NoSize
      <4>1. 0 \in Nat /\ req[q].length \in Nat
        BY <2>1, AttachmentsAssumption
      <4>2. CASE PartPut(q)
        BY <1>0, <2>1, <4>1, <4>2 DEF PartPut
      <4>3. CASE PartWritten(q)
        BY <1>0, <2>1, <4>1, <4>3 DEF PartWritten
      <4>. QED
        BY <2>3, <4>2, <4>3
    <3>. HIDE DEF Stays
    <3>. QED
      BY <1>3, <2>1, <3>1, <3>2
  <2>4. CASE CloseUpload(req[q].a)
    BY <1>2, <2>1, <2>4
  <2>5. CASE UNCHANGED <<open, stored>>
    BY <1>1, <2>5
  <2>6. CASE Step(q)
    <3>. HIDE DEF Stays
    <3>. QED
      BY <2>3, <2>4, <2>5, <2>6 DEF Step, InsertRow, PutWritten, PartRefused, PartRecord, AbortStore,
       DeleteStore, RemoveRow, CompleteGather, CompletePublish, CompleteClear, CompleteSize,
       CompleteMetadata, CompleteRefused, CompleteUpdate, RejectStore, RejectMark
  <2>. QED
    BY <1>5, <2>4, <2>5, <2>6 DEF InsertFails, Dropped
<1>6. ASSUME NEW b \in Ids, NEW n \in PartNumbers, NEW v \in Bodies, DirectPut(b, n, v)
      PROVE  Stays
  <2>1. v \in Nat /\ v # NoSize
    BY AttachmentsAssumption
  <2>. QED
    BY <1>3, <1>6, <2>1 DEF DirectPut
<1>7. ASSUME NEW b \in Ids, PurgeAbort(b) \/ PurgeFails(b)
      PROVE  Stays
  BY <1>1, <1>2, <1>7 DEF PurgeAbort, PurgeFails
<1>8. ASSUME \/ \E b \in Ids, n \in PartNumbers, v \in Bodies : DirectRecord(b, n, v)
             \/ (\E b \in Ids : Age(b)) \/ PurgeSelect \/ (\E b \in Ids : PurgeDelete(b))
             \/ PurgeCommit \/ PurgeRollback \/ UNCHANGED vars
      PROVE  UNCHANGED <<open, stored>>
  BY <1>8 DEF DirectRecord, Age, PurgeSelect, PurgeDelete, PurgeCommit, PurgeRollback, vars
<1>. HIDE DEF Stays
<1>9. age'[a] = "new" \/ Stays
  BY <1>1, <1>4, <1>5, <1>6, <1>7, <1>8 DEF Next, Purge
<1>. QED
  BY <1>9 DEF Stays

\* The list of a row keeps the parts that were answered, and those that the
\* server has put stay in the store.
LEMMA PartsStep ==
    ASSUME Inv, [Next]_vars
    PROVE  PartsInv'
<1>. USE DEF store, history, budget
<1>0. TypeOK /\ Fresh /\ PartHeld /\ PartsInv /\ PartsKept /\ (\A n \in Nat : n # NoSize)
  BY AttachmentsAssumption DEF Inv, PartsInv
<1>1. ASSUME NEW q \in Reqs, PartRecord(q)
      PROVE  /\ Serving(q) /\ req[q].op = "part" /\ req[q].pc = "record"
             /\ rows[req[q].a].parts = req[q].seen /\ rows[req[q].a] # NoRow
             /\ req[q].a \in Ids /\ req[q].n \in PartNumbers /\ req[q].length \in Nat
  <2>1. Serving(q) /\ req[q].op = "part" /\ req[q].pc = "record"
    BY <1>1, AtServing DEF PartRecord, At
  <2>2. req[q].n \in PartNumbers
    BY <2>1 DEF Inv, Stage, Serving
  <2>3. req[q].a \in Ids /\ req[q].length \in Nat
    BY <1>0, <2>1, ServingType, AttachmentsAssumption
  <2>. QED
    BY <1>0, <2>1, <2>2, <2>3 DEF PartHeld
<1>2. ASSUME NEW a \in Ids, rows'[a].status = "pending", NEW p \in acked'[a]
      PROVE  rows'[a].parts[p[1]] # NoSize
  <2>0. /\ rows'[a] # NoRow
        /\ \A t \in acked[a] : /\ t[1] \in PartNumbers
                               /\ rows[a].status = "pending" => rows[a].parts[t[1]] # NoSize
    BY <1>0, <1>2, NoRowFacts DEF PartsKept, TypeOK
  <2>1. ASSUME rows[a] # NoRow, NEW n \in PartNumbers, NEW v \in Nat, NEW who,
               rows'[a] = Row(rows[a].status, rows[a].size, [rows[a].parts EXCEPT ![n] = v],
                              rows[a].mode),
               acked'[a] = acked[a] \cup {<<n, who>>}
        PROVE  rows'[a].parts[p[1]] # NoSize
    <3>1. /\ rows'[a].status = rows[a].status
          /\ rows'[a].parts = [rows[a].parts EXCEPT ![n] = v]
      BY <2>1 DEF Row
    <3>2. /\ rows'[a].parts[n] = v
          /\ \A m \in PartNumbers : m # n => rows'[a].parts[m] = rows[a].parts[m]
      BY <1>0, <2>1, <3>1, RowType, PartSet
    <3>3. CASE p \in acked[a]
      BY <1>0, <1>2, <2>0, <2>1, <3>1, <3>2, <3>3
    <3>4. CASE p = <<n, who>>
      BY <1>0, <2>1, <3>2, <3>4
    <3>. QED
      BY <1>2, <2>1, <3>3, <3>4
  <2>2. CASE \E q \in Reqs : PartRecord(q) /\ req[q].a = a
    <3>1. PICK q \in Reqs : PartRecord(q) /\ req[q].a = a
      BY <2>2
    <3>2. /\ rows[a] # NoRow
          /\ rows'[a] = Row(rows[a].status, rows[a].size,
                            [rows[a].parts EXCEPT ![req[q].n] = req[q].length], rows[a].mode)
          /\ acked'[a] = acked[a] \cup {<<req[q].n, "server">>}
      BY <1>0, <1>1, <3>1 DEF PartRecord, ListPart, UpdateRow, TypeOK
    <3>. QED
      BY <1>1, <2>1, <3>1, <3>2
  <2>3. CASE \E n \in PartNumbers, v \in Bodies : DirectRecord(a, n, v)
    <3>1. PICK n \in PartNumbers, v \in Bodies : DirectRecord(a, n, v)
      BY <2>3
    <3>2. rows[a] # NoRow /\ v \in Nat
      BY <3>1, NoRowFacts, AttachmentsAssumption DEF DirectRecord, ValidPlan
    <3>3. /\ rows'[a] = Row(rows[a].status, rows[a].size, [rows[a].parts EXCEPT ![n] = v],
                            rows[a].mode)
          /\ acked'[a] = acked[a] \cup {<<n, "client">>}
      BY <1>0, <3>1, <3>2 DEF DirectRecord, ListPart, UpdateRow, TypeOK
    <3>. QED
      BY <2>1, <3>2, <3>3
  <2>4. CASE /\ ~(\E q \in Reqs : PartRecord(q) /\ req[q].a = a)
             /\ ~(\E n \in PartNumbers, v \in Bodies : DirectRecord(a, n, v))
    <3>1. acked'[a] = acked[a]
      BY <2>4, HistoryChanges
    <3>2. CASE \E q \in Reqs : InsertRow(q) /\ req[q].a = a
      <4>1. PICK q \in Reqs : InsertRow(q) /\ req[q].a = a
        BY <3>2
      <4>2. Serving(q) /\ req[q].op = "create"
        BY <4>1, AtServing DEF InsertRow, At
      <4>3. acked[a] = {}
        BY <1>0, <4>1, <4>2 DEF Fresh
      <4>. QED
        BY <1>2, <3>1, <4>3
    <3>3. \A q \in Reqs : /\ rows'[a] # Row("ready", req[q].actual, NoPart, rows[a].mode)
                          /\ rows'[a] # Row("failed", rows[a].size, rows[a].parts, rows[a].mode)
      BY <1>2 DEF Row
    <3>4. rows'[a] = rows[a] \/ \E q \in Reqs : InsertRow(q) /\ req[q].a = a
      BY <2>0, <2>4, <3>3, RowChanges
    <3>. QED
      BY <1>2, <2>0, <3>1, <3>2, <3>4
  <2>. QED
    BY <2>2, <2>3, <2>4
<1>3. ASSUME NEW a \in Ids, a \in open', NEW p \in acked'[a], p[2] = "server"
      PROVE  stored'[a][p[1]] # NoSize
  <2>1. age'[a] # "new"
    BY <1>3, FreshStep DEF Fresh
  <2>2. a \in open /\ \A n \in PartNumbers : stored[a][n] # NoSize => stored'[a][n] # NoSize
    BY <1>3, <2>1, PartsStay
  <2>3. CASE p \in acked[a]
    <3>1. p[1] \in PartNumbers
      BY <1>0, <2>3 DEF TypeOK
    <3>. QED
      BY <1>0, <1>3, <2>2, <2>3, <3>1 DEF PartsKept
  <2>4. ASSUME NEW q \in Reqs, PartRecord(q), req[q].a = a, p = <<req[q].n, "server">>
        PROVE  stored'[a][p[1]] # NoSize
    <3>1. stored[a][req[q].n] # NoSize /\ req[q].n \in PartNumbers
      BY <1>0, <1>1, <2>2, <2>4 DEF PartsInv
    <3>. QED
      BY <2>2, <2>4, <3>1
  <2>5. \A n : p # <<n, "client">>
    BY <1>3
  <2>. QED
    BY <1>3, <2>3, <2>4, <2>5, HistoryChanges
<1>4. ASSUME NEW q \in Reqs, Serving(q)', req'[q].op = "part", req'[q].pc # "put", req'[q].a \in open'
      PROVE  stored'[req'[q].a][req'[q].n] # NoSize
  <2>1. Serving(q) /\ SameRequest(q) /\ (req'[q] = req[q] \/ Step(q))
    BY <1>4, Requesting, ArriveMoves
  <2>2. /\ req[q].a \in Ids /\ req'[q].a = req[q].a /\ req'[q].n = req[q].n /\ req[q].op = "part"
        /\ req[q].length \in 0 .. PartSize
    BY <1>0, <1>4, <2>1, ServingType DEF SameRequest
  <2>3. req[q].n \in PartNumbers
    BY <2>1, <2>2 DEF Inv, Stage, Serving
  <2>4. age'[req[q].a] # "new"
    BY <1>4, <2>2, FreshStep DEF Fresh
  <2>5. /\ req[q].a \in open
        /\ \A n \in PartNumbers : stored[req[q].a][n] # NoSize => stored'[req[q].a][n] # NoSize
    BY <1>4, <2>2, <2>4, PartsStay
  <2>6. CASE req[q].pc # "put"
    BY <1>0, <2>1, <2>2, <2>3, <2>5, <2>6 DEF PartsInv
  <2>7. CASE req[q].pc = "put"
    <3>1. Step(q) /\ ~Answer(q)
      BY <1>0, <1>4, <2>1, <2>7, Answered
    <3>2. PartPut(q)
      BY <2>2, <2>7, <3>1 DEF Step, At, InsertRow, PutWritten, PartWritten, PartRefused,
         PartRecord, AbortStore, DeleteStore, RemoveRow, CompleteGather, CompletePublish,
         CompleteClear, CompleteSize, CompleteMetadata, CompleteRefused, CompleteUpdate,
         RejectStore, RejectMark
    <3>3. PICK v \in Nat : stored' = [stored EXCEPT ![req[q].a][req[q].n] = v]
      <4>1. 0 \in Nat /\ req[q].length \in Nat
        BY <2>2, AttachmentsAssumption
      <4>. QED
        BY <3>2, <4>1, ZenonT(60) DEF PartPut
    <3>4. stored'[req[q].a][req[q].n] = v
      <4>1. v \in Nat \cup {NoSize}
        BY <3>3
      <4>2. ASSUME NEW a \in Ids, NEW n \in PartNumbers, stored' = [stored EXCEPT ![a][n] = v]
            PROVE  stored'[a][n] = v
        BY <1>0, <4>1, <4>2, PartStored, ZenonT(60)
      <4>. QED
        BY <2>2, <2>3, <3>3, <4>2
    <3>. QED
      BY <1>0, <2>2, <3>3, <3>4
  <2>. QED
    BY <2>6, <2>7
<1>. QED
  BY <1>2, <1>3, <1>4 DEF PartsInv, PartsKept
\* An object goes when it is deleted, by a request, for a rejected upload
\* (that is remembered), or by the purge, which has its row in hand.
LEMMA ObjectsStay ==
    ASSUME Inv, [Next]_vars, NEW a \in Ids, objects[a] # NoSize
    PROVE  objects'[a] # NoSize \/ a \in unsafe' \/ PurgeDelete(a)
<1>. USE DEF store, history, budget
<1>0. /\ TypeOK /\ DOMAIN objects = Ids
      /\ \A n \in Nat : n # NoSize
  BY AttachmentsAssumption DEF Inv, TypeOK
<1>. DEFINE Stays == objects'[a] # NoSize \/ a \in unsafe'
<1>1. objects' = objects => Stays
  OBVIOUS
<1>2. ASSUME NEW b \in Ids, NEW v \in Nat, objects' = [objects EXCEPT ![b] = v]
      PROVE  Stays
  BY <1>0, <1>2
<1>3. ASSUME NEW b \in Ids, RemoveObject(b), b \in unsafe'
      PROVE  Stays
  BY <1>0, <1>3 DEF RemoveObject
<1>4. ASSUME NEW q \in Reqs, NEW b \in Ids, Arrive(q, b)
      PROVE  Stays
  <2>1. ASSUME NEW v \in Bodies, PutObject(q, b, v)
        PROVE  Stays
    BY <1>1, <1>2, <2>1 DEF PutObject
  <2>. QED
    BY <1>1, <1>4, <2>1 DEF Arrive, CreateSession, PartLock, AbortRead, DeleteRead, CompleteRead
<1>5. ASSUME NEW q \in Reqs, Step(q) \/ InsertFails(q) \/ Dropped(q)
      PROVE  Stays
  <2>1. Serving(q) /\ req[q].a \in Ids /\ req[q].size \in Nat \cup {NoSize} /\ Stage(req[q])
    BY <1>0, <1>5, StepMoves, ServingType DEF Inv
  <2>2. CASE PutWritten(q)
    <3>1. req[q].op = "put" /\ objects' = [objects EXCEPT ![req[q].a] =
             IF backend = "local" /\ objects[req[q].a] = NoSize THEN NoSize ELSE req[q].size]
      BY <2>2 DEF PutWritten, At
    <3>2. req[q].size \in Nat
      BY <2>1, <3>1 DEF Stage, Serving
    <3>. QED
      BY <1>0, <2>1, <3>1, <3>2
  <2>3. CASE CompleteGather(q)
    <3>1. Gathered(req[q].a) \in Nat
      BY <1>0, <2>1, GatheredType
    <3>2. objects' = objects \/ objects' = [objects EXCEPT ![req[q].a] = Gathered(req[q].a)]
      BY <2>3 DEF CompleteGather
    <3>. HIDE DEF Stays
    <3>. QED
      BY <1>1, <1>2, <2>1, <3>1, <3>2
  <2>4. CASE CompletePublish(q)
    <3>1. req[q].op = "complete" /\ req[q].pc = "publish"
      BY <2>4 DEF CompletePublish, At
    <3>2. req[q].actual \in Nat
      BY <2>1, <3>1 DEF Stage, Serving
    <3>. QED
      BY <1>2, <2>1, <2>4, <3>2 DEF CompletePublish
  <2>5. CASE DeleteStore(q) \/ RejectStore(q)
    <3>1. RemoveObject(req[q].a) /\ req[q].a \in unsafe'
      BY <2>5 DEF DeleteStore, RejectStore
    <3>. QED
      BY <1>3, <2>1, <3>1
  <2>6. CASE objects' = objects
    BY <1>1, <2>6
  <2>7. CASE Step(q)
    <3>. HIDE DEF Stays
    <3>. QED
      BY <2>2, <2>3, <2>4, <2>5, <2>6, <2>7 DEF Step, InsertRow, PartPut, PartWritten, PartRefused,
         PartRecord, AbortStore, RemoveRow, CompleteClear, CompleteSize, CompleteMetadata,
         CompleteRefused, CompleteUpdate, RejectMark
  <2>. QED
    BY <1>5, <2>6, <2>7 DEF InsertFails, Dropped
<1>6. ASSUME NEW b \in Ids, PurgeDelete(b)
      PROVE  Stays \/ PurgeDelete(a)
  BY <1>0, <1>6 DEF PurgeDelete, RemoveObject
<1>7. ASSUME NEW b \in Ids, PurgeFails(b)
      PROVE  Stays
  BY <1>1, <1>3, <1>7 DEF PurgeFails
<1>8. ASSUME \/ \E b \in Ids, n \in PartNumbers, v \in Bodies :
                    DirectPut(b, n, v) \/ DirectRecord(b, n, v)
             \/ (\E b \in Ids : Age(b)) \/ PurgeSelect \/ (\E b \in Ids : PurgeAbort(b))
             \/ PurgeCommit \/ PurgeRollback \/ UNCHANGED vars
      PROVE  objects' = objects
  BY <1>8 DEF DirectPut, DirectRecord, Age, PurgeSelect, PurgeAbort, PurgeCommit, PurgeRollback, vars
<1>. HIDE DEF Stays
<1>9. Stays \/ PurgeDelete(a)
  BY <1>1, <1>4, <1>5, <1>6, <1>7, <1>8 DEF Next, Purge
<1>. QED
  BY <1>9 DEF Stays

\* What the histories remember of objects that were removed is kept; what the
\* purge has deleted goes with its row, or is remembered.
LEMMA RemovedKept ==
    ASSUME Inv, [Next]_vars, NEW a \in Ids
    PROVE  /\ a \in unsafe => a \in unsafe'
           /\ a \in purge.done => a \in purge'.done \/ a \in unsafe' \/ rows'[a] = NoRow
<1>. USE DEF store, history, budget
<1>1. ASSUME NEW q \in Reqs, NEW b \in Ids, Arrive(q, b)
      PROVE  unsafe' = unsafe /\ purge' = purge
  BY <1>1 DEF Arrive, CreateSession, PutObject, PartLock, AbortRead, DeleteRead, CompleteRead
<1>2. ASSUME NEW q \in Reqs, Step(q) \/ InsertFails(q) \/ Dropped(q)
      PROVE  unsafe \subseteq unsafe' /\ purge' = purge
  BY <1>2 DEF Step, InsertRow, InsertFails, PutWritten, PartPut, PartWritten, PartRefused,
     PartRecord, AbortStore, DeleteStore, RemoveRow, Dropped, CompleteGather, CompletePublish,
     CompleteClear, CompleteSize, CompleteMetadata, CompleteRefused, CompleteUpdate,
     RejectStore, RejectMark
<1>3. ASSUME \/ \E b \in Ids, n \in PartNumbers, v \in Bodies :
                    DirectPut(b, n, v) \/ DirectRecord(b, n, v)
             \/ (\E b \in Ids : Age(b)) \/ UNCHANGED vars
      PROVE  unsafe' = unsafe /\ purge' = purge
  BY <1>3 DEF DirectPut, DirectRecord, Age, vars
<1>4. ASSUME PurgeSelect
      PROVE  unsafe' = unsafe /\ purge.done = {}
  BY <1>4 DEF PurgeSelect, Resting
<1>5. ASSUME NEW b \in Ids, PurgeAbort(b) \/ PurgeDelete(b)
      PROVE  unsafe' = unsafe /\ purge.done \subseteq purge'.done
  BY <1>5 DEF PurgeAbort, PurgeDelete, PurgeAt
<1>6. ASSUME NEW b \in Ids, PurgeFails(b)
      PROVE  unsafe \subseteq unsafe' /\ purge.done \subseteq purge'.done
  BY <1>6 DEF PurgeFails, PurgeAt
<1>7. ASSUME PurgeCommit
      PROVE  unsafe' = unsafe /\ (a \in purge.done => rows'[a] = NoRow)
  BY <1>7 DEF PurgeCommit
<1>8. ASSUME PurgeRollback
      PROVE  unsafe' = unsafe \cup purge.done
  BY <1>8 DEF PurgeRollback
<1>. QED
  BY <1>1, <1>2, <1>3, <1>4, <1>5, <1>6, <1>7, <1>8 DEF Next, Purge

\* A row becomes ready only while its object is there.
LEMMA ObjectsStep ==
    ASSUME Inv, [Next]_vars
    PROVE  ObjectsInv'
<1>. USE DEF store, history, budget
<1>0. TypeOK /\ Fresh /\ PurgeHeld /\ ObjectsInv /\ PartHeld
  BY DEF Inv
<1>1. ASSUME NEW a \in Ids, PurgeDelete(a)
      PROVE  /\ rows[a].status # "ready" /\ rows' = rows /\ a \in purge'.done
             /\ lock[a] # Nobody
  <2>1. a \in purge.todo
    BY <1>0, <1>1, AttachmentsAssumption DEF PurgeDelete, PurgeHeld
  <2>2. rows[a].status \in {"pending", "failed"} /\ lock[a] = Purger
    BY <1>0, <2>1 DEF PurgeHeld
  <2>. QED
    BY <1>1, <2>2, AttachmentsAssumption DEF PurgeDelete, PurgeAt
<1>2. ASSUME NEW a \in Ids, rows'[a].status = "ready", objects'[a] = NoSize
      PROVE  a \in unsafe'
  <2>1. CASE rows[a].status = "ready"
    <3>1. objects[a] = NoSize => a \in unsafe'
      BY <1>0, <2>1, RemovedKept DEF ObjectsInv, ReadyHasObject
    <3>2. objects[a] # NoSize => a \in unsafe'
      BY <1>1, <1>2, <2>1, ObjectsStay
    <3>. QED
      BY <3>1, <3>2
  <2>2. CASE rows[a].status # "ready"
    <3>1. rows'[a] # rows[a] /\ rows'[a] # NoRow
      BY <1>2, <2>2, NoRowFacts
    <3>2. \A q \in Reqs : rows'[a] # NewRow(req[q].size)
      BY <1>2 DEF NewRow, Row
    <3>3. \A parts : /\ rows'[a] # Row(rows[a].status, rows[a].size, parts, rows[a].mode)
                     /\ rows'[a] # Row("failed", rows[a].size, parts, rows[a].mode)
      BY <1>2, <2>2 DEF Row
    <3>4. PICK q \in Reqs : CompleteUpdate(q) /\ req[q].a = a /\ rows[a] # NoRow
      BY <3>1, <3>2, <3>3, RowChanges
    <3>5. Serving(q) /\ req[q].op = "complete" /\ req[q].pc = "update"
      BY <3>4, AtServing DEF CompleteUpdate, At
    <3>6. There(a) \/ a \in purge.done
      BY <1>0, <3>4, <3>5 DEF ObjectsInv
    <3>7. lock[a] = Nobody /\ objects' = objects
      BY <3>4 DEF CompleteUpdate, Free
    <3>8. a \notin purge.done
      BY <1>0, <3>7, AttachmentsAssumption DEF PurgeHeld
    <3>. QED
      BY <1>2, <3>6, <3>7, <3>8, RemovedKept DEF There
  <2>. QED
    BY <2>1, <2>2
<1>3. ASSUME NEW q \in Reqs, Serving(q)', req'[q].op = "complete", req'[q].pc = "update"
      PROVE  \/ objects'[req'[q].a] # NoSize \/ req'[q].a \in unsafe'
             \/ req'[q].a \in purge'.done \/ rows'[req'[q].a] = NoRow
  <2>1. Serving(q) /\ SameRequest(q) /\ (req'[q] = req[q] \/ Step(q))
    BY <1>3, Requesting, ArriveMoves
  <2>. DEFINE a == req[q].a
  <2>2. a \in Ids /\ req'[q].a = a /\ req[q].op = "complete"
    BY <1>0, <1>3, <2>1, ServingType DEF SameRequest
  <2>3. CASE req'[q] = req[q]
    <3>1. objects[a] # NoSize \/ a \in unsafe \/ a \in purge.done \/ rows[a] = NoRow
      BY <1>0, <1>3, <2>1, <2>2, <2>3 DEF ObjectsInv, There
    <3>2. CASE objects[a] # NoSize
      BY <1>1, <2>2, <3>2, ObjectsStay
    <3>3. CASE a \in unsafe \/ a \in purge.done
      BY <2>2, <3>3, RemovedKept
    <3>4. CASE rows[a] = NoRow
      <4>1. ~(\E p \in Reqs : InsertRow(p) /\ req[p].a = a)
        <5>1. SUFFICES ASSUME NEW p \in Reqs, InsertRow(p), req[p].a = a
                       PROVE  FALSE
          OBVIOUS
        <5>2. Serving(p) /\ req[p].op = "create"
          BY <5>1, AtServing DEF InsertRow, At
        <5>. QED
          BY <1>0, <2>1, <2>2, <5>1, <5>2 DEF Fresh
      <4>. HIDE DEF a
      <4>2. rows'[a] = NoRow
        BY <2>2, <3>4, <4>1, RowChanges
      <4>. QED
        BY <2>2, <4>2
    <3>. QED
      BY <3>1, <3>2, <3>3, <3>4
  <2>4. CASE Step(q) /\ req'[q] # req[q]
    <3>1. ~Answer(q)
      BY <1>0, <1>3, Answered
    <3>2. \A pc, v : Measured(q, pc, v) => pc = "update"
      BY <1>0, <1>3, <2>1, Moves
    <3>3. CompleteMetadata(q)
      BY <2>4, <3>1, <3>2 DEF Step, Goto, InsertRow, PutWritten, PartPut, PartWritten, PartRefused,
         PartRecord, AbortStore, DeleteStore, RemoveRow, CompleteGather, CompletePublish,
         CompleteClear, CompleteSize, CompleteRefused, CompleteUpdate, RejectStore, RejectMark
    <3>4. objects[a] # NoSize /\ objects' = objects
      BY <3>3 DEF CompleteMetadata
    <3>. QED
      BY <2>2, <3>4
  <2>. QED
    BY <2>1, <2>3, <2>4
<1>. QED
  BY <1>2, <1>3 DEF ObjectsInv, ReadyHasObject, There
-----------------------------------------------------------------------------
(***************************************************************************)
(* The invariant holds in every state, and what it shows.                  *)
(***************************************************************************)

\* Nothing is there at first.
LEMMA InitInv ==
    ASSUME Init
    PROVE  Inv
<1>0. /\ NoSize \in Nat \cup {NoSize} /\ 0 \in 0 .. MaxRequests /\ 0 \in 0 .. MaxFaults
  BY AttachmentsAssumption
<1>1. TypeOK
  <2>1. rows \in [Ids -> Rows \cup {NoRow}] /\ lock \in [Ids -> Reqs \cup {Nobody, Purger}]
    BY DEF Init
  <2>2. /\ age \in [Ids -> {"new", "fresh", "stale"}] /\ objects \in [Ids -> Nat \cup {NoSize}]
        /\ asked \in [Ids -> Nat \cup {NoSize}]
        /\ acked \in [Ids -> SUBSET (PartNumbers \X {"server", "client"})]
    BY <1>0 DEF Init
  <2>3. stored \in [Ids -> PartValues]
    BY NoPartType DEF Init
  <2>4. req \in [Reqs -> Requests \cup {Idle}]
    BY DEF Init
  <2>5. purge \in [pc : {"rest", "abort"} \cup Ids, parted : SUBSET Ids,
                   todo : SUBSET Ids, done : SUBSET Ids]
    BY DEF Init, Resting
  <2>. QED
    BY <1>0, <2>1, <2>2, <2>3, <2>4, <2>5 DEF Init, TypeOK
<1>2. \A q \in Reqs : Stage(req[q]) /\ ~Serving(q)
  BY DEF Init, Stage, Serving
<1>3. \A a \in Ids : rows[a] = NoRow /\ acked[a] = {} /\ rows[a].status = "none" /\ a \notin open
  BY NoRowFacts DEF Init
<1>4. purge.todo = {} /\ purge.done = {} /\ purge.pc = "rest"
  BY DEF Init, Resting
<1>. QED
  BY <1>1, <1>2, <1>3, <1>4 DEF Inv, Fresh, SizesKept, PartHeld, PurgeHeld, PartsInv, PartsKept,
     ObjectsInv, ReadyHasObject

\* Every step keeps the invariant.
LEMMA InvStep ==
    ASSUME Inv, [Next]_vars
    PROVE  Inv'
<1>1. \A q \in Reqs : Stage(req'[q])
  BY StageStep
<1>2. TypeOK'
  BY TypeStep
<1>3. Fresh' /\ SizesKept'
  BY FreshStep, SizesStep
<1>4. PartHeld' /\ PurgeHeld'
  BY PartHeldStep, PurgeHeldStep
<1>5. PartsInv' /\ ObjectsInv'
  BY PartsStep, ObjectsStep
<1>. QED
  BY <1>1, <1>2, <1>3, <1>4, <1>5 DEF Inv, Stage

\* The invariant holds in every state of every behaviour, whatever handlers
\* are dropped and whatever the purge runs into.
THEOREM Invariance == Spec => []Inv
  BY InitInv, InvStep, PTL DEF Spec

\* Every variable has its type; a part that upload_multipart_part puts, the
\* last one included, is no longer than MULTIPART_PART_SIZE_BYTES.
THEOREM TypeCorrect == Spec => []TypeOK
<1>1. Inv => TypeOK
  BY DEF Inv
<1>. QED
  BY <1>1, Invariance, PTL

\* complete_attachment marks an attachment as ready with the size that its
\* session was asked for, and never one above attachment_max_bytes, although
\* the object may be overwritten between the two times it is measured.
THEOREM ReadyIsVerified == Spec => []ReadyVerified
<1>1. Inv => ReadyVerified
  BY NoRowFacts DEF Inv, SizesKept, ReadyVerified
<1>. QED
  BY <1>1, Invariance, PTL

\* upload_multipart_part never loses a part that another upload recorded, as
\* it holds the lock of the row from reading its parts to writing them back,
\* and a part it has put is in the store while the upload is open.  (A part
\* that complete_multipart_part lists may never have been put.)
THEOREM PartsAreKept == Spec => []PartsKept
<1>1. Inv => PartsKept
  BY DEF Inv, PartsInv
<1>. QED
  BY <1>1, Invariance, PTL

\* purge_stale_attachments never deletes a ready attachment: a completion
\* waits for the rows it has locked.
THEOREM PurgeKeepsAway == Spec => []PurgeSparesReady
<1>1. Inv => PurgeSparesReady
  BY DEF Inv, PurgeHeld, PurgeSparesReady
<1>. QED
  BY <1>1, Invariance, PTL

\* A ready attachment has its object, unless a delete request, a rejected
\* upload or a purge that left the row has removed it.
THEOREM ReadyObjects == Spec => []ReadyHasObject
<1>1. Inv => ReadyHasObject
  BY DEF Inv, ObjectsInv
<1>. QED
  BY <1>1, Invariance, PTL
=============================================================================
