---------------------------- MODULE SessionsProofs ----------------------------
(***************************************************************************)
(* Proofs about Sessions, for any number of requests, sessions, books,     *)
(* faults and logouts.                                                     *)
(*                                                                         *)
(* All of them need the protocol between device and server (Protocol):     *)
(* which statements a request of each kind runs through, which call waits  *)
(* for which kind of request, and that no two calls wait for one request.  *)
(* On top of it each property has an invariant of its own.                 *)
(***************************************************************************)
EXTENDS Sessions, FiniteSetTheorems, TLAPS

\* The statements a request runs through, and what its session id is by then.
Stage(r) ==
    \/ r = Free
    \/ r.op = "register" /\ r.pc \in {"insert", "done"}
    \/ r.op = "login" /\ r.pc \in {"user", "book", "begin", "issue"}
    \/ r.op = "login" /\ r.pc = "plan" /\ r.sid \in Sids
    \/ r.op = "refresh" /\ r.pc \in {"read", "book", "begin", "claim"} /\ r.sid \in Sids
    \/ /\ r.pc = "commit" /\ r.made \in 1 .. MaxBooks
       /\ r.op = "login" \/ (r.op = "refresh" /\ r.sid \in Sids)
    \/ r.op \in {"login", "refresh"} /\ r.pc = "done" /\ (r.res = "ok" => r.sid \in Sids)
    \/ r.op = "logout" /\ r.pc \in {"auth", "revoke"} /\ r.sid \in Sids
    \/ r.op = "api" /\ r.pc = "auth" /\ r.sid \in Sids
    \/ r.op \in {"logout", "api"} /\ r.pc = "done"

\* The kind of request each call waits for.
OpOf(c, pc) ==
    CASE pc = "register" -> "register"
      [] pc = "login" -> "login"
      [] pc = "restore" -> "refresh"
      [] pc = "wait" -> IF c = "user" THEN "logout" ELSE c
      [] OTHER -> "free"

Waiting == {"register", "login", "restore", "wait"}

\* Where a call may be, and what it waits for.
PlacesOf(c) ==
    CASE c = "user" -> {"rest", "register", "login", "restore", "wait", "join", "retry", "stored"}
      [] c = "api" -> {"rest", "wait", "join", "retry"}
      [] c = "refresh" -> {"rest", "read", "wait", "stored"}

CallOK(c) ==
    /\ task[c].pc \in PlacesOf(c)
    /\ task[c].pc = "rest" => task[c] = Rest
    /\ task[c].pc = "stored" => task[c].sid \in Sids
    /\ task[c].slot # NoSlot <=> task[c].pc \in Waiting
    /\ task[c].slot # NoSlot => srv[task[c].slot].op = OpOf(c, task[c].pc)
    /\ task[c].epoch <= mem.epoch

SlotsApart ==
    \A c, d \in Calls : task[c].slot # NoSlot /\ task[c].slot = task[d].slot => c = d

Protocol ==
    /\ \A i \in Slots : Stage(srv[i])
    /\ \A c \in Calls : CallOK(c)
    /\ SlotsApart
    /\ mem.signed <=> mem.access \in Sids

\* A used id is never unused again, and only a used one lives or is rotated.
Origins ==
    \A s \in Sids : /\ sess[s].live => sess[s].from # NoRow
                    /\ sess[s].from \in Sids => sess[sess[s].from].from # NoRow

ForkInv == Origins /\ NoFork

\* After a logout nothing on the device can bring a session back, but for a
\* token that was being stored.
OutInv ==
    out /\ ~overtaken =>
        /\ ~mem.signed
        /\ disk = None
        /\ task["user"].pc \in {"rest", "register"}
        /\ task["refresh"].pc # "stored"
        /\ task["refresh"].pc # "rest" => task["refresh"].epoch < mem.epoch

\* Without an overlap one request at a time makes a book, and makes the first.
Making(i) == srv[i].pc \in {"begin", "commit"}

BookInv ==
    ~overlap =>
        /\ \A i \in Slots : Making(i) => books = {}
        /\ \A i, j \in Slots : Making(i) /\ Making(j) => i = j
        /\ \A b, c \in books : b = c

\* Nothing was given up, nothing failed, nobody logged out, no token is old.
Calm == faults = 0 /\ logouts = 0 /\ \A s \in Sids : ~sess[s].old

\* Where the one live token is while all is calm.
LiveToken ==
    /\ disk = None <=> ~mem.signed /\ task["user"].pc # "stored"
    /\ task["user"].pc = "stored" => disk = task["user"].sid
    /\ disk # None /\ task["refresh"].pc # "wait" => sess[disk].live
    /\ task["refresh"].pc = "wait" =>
          LET r == srv[task["refresh"].slot] IN
          IF r.pc = "done" THEN r.res = "ok" /\ sess[r.sid].live
                           ELSE r.sid = disk /\ sess[disk].live
    /\ task["refresh"].pc = "stored" => disk = task["refresh"].sid
    /\ task["user"].pc = "login" =>
          LET r == srv[task["user"].slot] IN
          r.pc = "plan" \/ (r.pc = "done" /\ r.res = "ok") => sess[r.sid].live

CalmCalls ==
    /\ \A i \in Slots : srv[i] # Free => Awaited(i)
    /\ task["user"].pc \in {"rest", "register", "login", "stored"}
    /\ mem.signed => task["user"].pc = "rest"
    /\ ~mem.signed => task["api"].pc = "rest" /\ task["refresh"].pc = "rest"
    /\ task["refresh"].pc # "rest" => task["refresh"].epoch = mem.epoch

CalmInv == Calm => ~kicked /\ CalmCalls /\ LiveToken

NetInv == TypeOK /\ Protocol

-----------------------------------------------------------------------------
(***************************************************************************)
(* What a step does to the requests in the server.                         *)
(***************************************************************************)

\* A statement of a request moves it on, or its slot is free again.
ServerMove(i) ==
    \E r \in Requests :
        /\ srv' = [srv EXCEPT ![i] = r]
        /\ Stage(r)
        /\ Awaited(i) => r.op = srv[i].op

\* Free is a request record.
LEMMA FreeType == Free \in Requests /\ Free.op = "free" /\ Free.pc = "free" /\ Stage(Free)
<1>1. 0 \in 0 .. MaxBooks
  BY SessionsAssumption
<1>. QED
  BY <1>1 DEF Free, Req, Requests, None, Stage

\* A response.
LEMMA RespondMove ==
    ASSUME TypeOK, NEW i \in Slots, NEW res, NEW sid, Respond(i, res, sid),
           res \in {"ok", "taken", "401", "reuse", "expired", "500"},
           sid \in Sids \cup {None},
           srv[i].op \in {"register", "login", "refresh", "logout", "api"},
           srv[i].op \in {"login", "refresh"} /\ res = "ok" => sid \in Sids
    PROVE  ServerMove(i)
<1>. DEFINE r == [op |-> srv[i].op, pc |-> "done", sid |-> sid, made |-> None, res |-> res]
<1>1. r \in Requests
  <2>1. None \in 0 .. MaxBooks
    BY SessionsAssumption DEF None
  <2>. QED
    BY <2>1 DEF Requests
<1>2. Stage(r)
  BY DEF Stage
<1>3. CASE Awaited(i)
  <2>1. srv' = [srv EXCEPT ![i] = r]
    BY <1>3 DEF Respond
  <2>2. r.op = srv[i].op
    OBVIOUS
  <2>. HIDE DEF r
  <2>. QED
    BY <1>1, <1>2, <2>1, <2>2 DEF ServerMove
<1>4. CASE ~Awaited(i)
  BY <1>4, FreeType DEF Respond, ServerMove
<1>. QED
  BY <1>3, <1>4

\* The next statement.
LEMMA GotoMove ==
    ASSUME TypeOK, NEW i \in Slots, NEW pc, Goto(i, pc),
           pc \in {"book", "begin", "issue", "claim", "revoke"},
           \/ srv[i].op = "login" /\ pc \in {"book", "begin", "issue"}
           \/ srv[i].op = "refresh" /\ pc \in {"book", "begin", "claim"} /\ srv[i].sid \in Sids
           \/ srv[i].op = "logout" /\ pc = "revoke" /\ srv[i].sid \in Sids
    PROVE  ServerMove(i)
<1>. DEFINE r == [op |-> srv[i].op, pc |-> pc, sid |-> srv[i].sid,
                  made |-> srv[i].made, res |-> srv[i].res]
<1>1. srv[i] \in Requests /\ srv \in [Slots -> Requests]
  BY DEF TypeOK
<1>2. srv' = [srv EXCEPT ![i] = r]
  BY <1>1 DEF Goto, Requests
<1>3. r \in Requests
  BY <1>1 DEF Requests
<1>4. Stage(r)
  BY DEF Stage
<1>. QED
  BY <1>2, <1>3, <1>4 DEF ServerMove
\* Every statement of a handler is such a move.
LEMMA ServerMoves ==
    ASSUME NetInv, NEW i \in Slots, ServerStep(i) \/ ServerError(i)
    PROVE  ServerMove(i)
<1>0. /\ TypeOK /\ Stage(srv[i]) /\ srv[i] \in Requests /\ srv \in [Slots -> Requests]
      /\ None \in Sids \cup {None} /\ begun \in 0 .. MaxBooks
  BY DEF NetInv, Protocol, TypeOK
<1>1. CASE Register(i)
  <2>1. srv[i].op = "register"
    BY <1>1 DEF Register, At
  <2>2. PICK res \in {"ok", "taken"} : Respond(i, res, None)
    BY <1>1 DEF Register
  <2>. QED
    BY <1>0, <2>1, <2>2, RespondMove
<1>2. CASE FindUser(i)
  <2>1. srv[i].op = "login"
    BY <1>2 DEF FindUser, At
  <2>2. Goto(i, "book") \/ Respond(i, "401", None)
    BY <1>2 DEF FindUser
  <2>. QED
    BY <1>0, <2>1, <2>2, RespondMove, GotoMove
<1>3. CASE BookLookup(i)
  <2>1. srv[i].op = "login" \/ (srv[i].op = "refresh" /\ srv[i].sid \in Sids)
    BY <1>0, <1>3, FreeType DEF BookLookup, Stage
  <2>2. Goto(i, "begin") \/ Goto(i, IF srv[i].op = "login" THEN "issue" ELSE "claim")
    BY <1>3 DEF BookLookup
  <2>. QED
    BY <1>0, <2>1, <2>2, GotoMove
<1>4. CASE BookBegin(i)
  <2>. DEFINE r == [op |-> srv[i].op, pc |-> "commit", sid |-> srv[i].sid,
                    made |-> begun + 1, res |-> srv[i].res]
  <2>1. srv[i].op = "login" \/ (srv[i].op = "refresh" /\ srv[i].sid \in Sids)
    BY <1>0, <1>4, FreeType DEF BookBegin, Stage
  <2>2. srv' = [srv EXCEPT ![i] = r]
    BY <1>4 DEF BookBegin
  <2>3. begun + 1 \in 0 .. MaxBooks /\ begun + 1 \in 1 .. MaxBooks
    BY <1>0, <1>4, SessionsAssumption DEF BookBegin
  <2>4. r \in Requests
    BY <1>0, <2>3 DEF Requests
  <2>5. Stage(r)
    BY <2>1, <2>3 DEF Stage
  <2>. QED
    BY <2>2, <2>4, <2>5 DEF ServerMove
<1>5. CASE BookCommit(i)
  <2>1. srv[i].op = "login" \/ (srv[i].op = "refresh" /\ srv[i].sid \in Sids)
    BY <1>0, <1>5, FreeType DEF BookCommit, Stage
  <2>2. Goto(i, IF srv[i].op = "login" THEN "issue" ELSE "claim")
    BY <1>5 DEF BookCommit
  <2>. QED
    BY <1>0, <2>1, <2>2, GotoMove
<1>6. CASE IssueTokens(i)
  <2>1. PICK s \in UnusedIds :
            srv' = [srv EXCEPT ![i] = [op |-> srv[i].op, pc |-> "plan", sid |-> s,
                                       made |-> srv[i].made, res |-> srv[i].res]]
    BY <1>6 DEF IssueTokens
  <2>. DEFINE r == [op |-> srv[i].op, pc |-> "plan", sid |-> s,
                    made |-> srv[i].made, res |-> srv[i].res]
  <2>2. s \in Sids
    BY DEF UnusedIds
  <2>3. srv[i].op = "login"
    BY <1>6 DEF IssueTokens, At
  <2>4. r \in Requests
    BY <1>0, <2>2 DEF Requests
  <2>5. Stage(r)
    BY <2>2, <2>3 DEF Stage
  <2>. QED
    BY <2>1, <2>4, <2>5 DEF ServerMove
<1>7. CASE IssuePlan(i)
  <2>1. srv[i].op = "login" /\ srv[i].pc = "plan" /\ Respond(i, "ok", srv[i].sid)
    BY <1>7 DEF IssuePlan, At
  <2>2. srv[i].sid \in Sids
    BY <1>0, <2>1, FreeType DEF Stage
  <2>. QED
    BY <1>0, <2>1, <2>2, RespondMove
<1>8. CASE RotateRead(i)
  <2>1. srv[i].op = "refresh" /\ srv[i].pc = "read"
    BY <1>8 DEF RotateRead, At
  <2>2. srv[i].sid \in Sids
    BY <1>0, <2>1, FreeType DEF Stage
  <2>3. Respond(i, "reuse", None) \/ Respond(i, "expired", None) \/ Goto(i, "book")
    BY <1>8 DEF RotateRead
  <2>. QED
    BY <1>0, <2>1, <2>2, <2>3, RespondMove, GotoMove
<1>9. CASE RotateClaim(i)
  <2>1. srv[i].op = "refresh"
    BY <1>9 DEF RotateClaim, At
  <2>2. (\E t \in UnusedIds : Respond(i, "ok", t)) \/ Respond(i, "reuse", None)
    BY <1>9 DEF RotateClaim
  <2>3. UnusedIds \subseteq Sids
    BY DEF UnusedIds
  <2>. QED
    BY <1>0, <2>1, <2>2, <2>3, RespondMove
<1>10. CASE AuthCheck(i)
  <2>1. srv[i].op \in {"logout", "api"} /\ srv[i].sid \in Sids
    BY <1>0, <1>10, FreeType DEF AuthCheck, Stage
  <2>2. \/ Respond(i, "401", None) \/ Respond(i, "ok", None)
        \/ srv[i].op = "logout" /\ Goto(i, "revoke")
    BY <1>10 DEF AuthCheck
  <2>. QED
    BY <1>0, <2>1, <2>2, RespondMove, GotoMove
<1>11. CASE Revoke(i)
  <2>1. srv[i].op = "logout" /\ Respond(i, "ok", None)
    BY <1>11 DEF Revoke, At
  <2>. QED
    BY <1>0, <2>1, RespondMove
<1>12. CASE ServerError(i)
  <2>1. srv[i].op \in {"register", "login", "refresh", "logout", "api"}
    BY <1>0, <1>12, FreeType DEF ServerError, Stage
  <2>2. Respond(i, "500", None)
    BY <1>12 DEF ServerError
  <2>. QED
    BY <1>0, <2>1, <2>2, RespondMove
<1>. QED
  BY <1>1, <1>2, <1>3, <1>4, <1>5, <1>6, <1>7, <1>8, <1>9, <1>10, <1>11, <1>12
     DEF ServerStep

-----------------------------------------------------------------------------
(***************************************************************************)
(* The protocol is kept.                                                   *)
(***************************************************************************)

\* The places of the calls, and what they wait for there.
LEMMA Places ==
    /\ Calls = {"user", "api", "refresh"}
    /\ PlacesOf("user") = {"rest", "register", "login", "restore", "wait", "join", "retry", "stored"}
    /\ PlacesOf("api") = {"rest", "wait", "join", "retry"}
    /\ PlacesOf("refresh") = {"rest", "read", "wait", "stored"}
    /\ \A c \in Calls : /\ OpOf(c, "register") = "register"
                        /\ OpOf(c, "login") = "login"
                        /\ OpOf(c, "restore") = "refresh"
    /\ OpOf("user", "wait") = "logout" /\ OpOf("api", "wait") = "api"
    /\ OpOf("refresh", "wait") = "refresh"
  BY DEF Calls, PlacesOf, OpOf

\* A call that does not move is where it was.
LEMMA SameCall ==
    ASSUME NEW c \in Calls, CallOK(c), task'[c] = task[c],
           task[c].epoch \in Nat, mem.epoch \in Nat, mem'.epoch \in Nat,
           mem.epoch <= mem'.epoch,
           task[c].slot # NoSlot => srv'[task[c].slot].op = srv[task[c].slot].op
    PROVE  CallOK(c)'
  BY DEF CallOK

\* The slot a call waits for is taken, by nobody else.
LEMMA WaitingFacts ==
    ASSUME NetInv, NEW c \in Calls, task[c].slot # NoSlot
    PROVE  /\ task[c].slot \in Slots
           /\ srv[task[c].slot].op # "free"
           /\ \A d \in Calls : d # c => task[d].slot # task[c].slot
<1>1. CallOK(c) /\ SlotsApart /\ task[c] \in Tasks
  BY DEF NetInv, Protocol, TypeOK
<1>2. task[c].slot \in Slots
  BY <1>1 DEF Tasks
<1>3. OpOf(c, task[c].pc) # "free"
  BY <1>1 DEF CallOK, Waiting, OpOf, Calls
<1>. QED
  BY <1>1, <1>2, <1>3 DEF CallOK, SlotsApart

\* A move in the server keeps the protocol.
LEMMA ServerMoveNet ==
    ASSUME NetInv, NEW i \in Slots, ServerMove(i), UNCHANGED <<mem, task>>
    PROVE  /\ Protocol'
           /\ srv' \in [Slots -> Requests]
           /\ \A j \in Slots : srv'[j].pc = "auth" => srv'[j].sid \in Sids
<1>0. /\ srv \in [Slots -> Requests] /\ task \in [Calls -> Tasks] /\ mem.epoch \in Nat
      /\ \A c \in Calls : CallOK(c) /\ task[c].epoch \in Nat
      /\ \A j \in Slots : Stage(srv[j])
      /\ SlotsApart /\ (mem.signed <=> mem.access \in Sids)
  BY DEF NetInv, Protocol, TypeOK, Tasks
<1>1. PICK r \in Requests :
          /\ srv' = [srv EXCEPT ![i] = r]
          /\ Stage(r)
          /\ Awaited(i) => r.op = srv[i].op
  BY DEF ServerMove
<1>2. /\ srv' \in [Slots -> Requests]
      /\ \A j \in Slots : Stage(srv'[j])
  BY <1>0, <1>1
<1>3. ASSUME NEW c \in Calls
      PROVE  CallOK(c)'
  <2>1. task[c].slot # NoSlot => srv'[task[c].slot].op = srv[task[c].slot].op
    BY <1>0, <1>1, WaitingFacts DEF Awaited
  <2>. QED
    BY <1>0, <2>1, SameCall
<1>4. SlotsApart' /\ (mem.signed <=> mem.access \in Sids)'
  BY <1>0 DEF SlotsApart
<1>5. \A j \in Slots : srv'[j].pc = "auth" => srv'[j].sid \in Sids
  BY <1>2, FreeType DEF Stage
<1>. QED
  BY <1>2, <1>3, <1>4, <1>5 DEF Protocol
-----------------------------------------------------------------------------
\* What the device remembers moves forward.
MemType == [epoch : Nat, access : Sids \cup {None}, signed : BOOLEAN]

MemMoves ==
    /\ mem' \in MemType
    /\ mem.epoch <= mem'.epoch
    /\ mem'.signed <=> mem'.access \in Sids

\* The slot a call leaves is free, or goes on without it; the others go on.
Releases(c) ==
    /\ srv' \in [Slots -> Requests]
    /\ \A j \in Slots : srv'[j] = srv[j] \/ (j = task[c].slot /\ srv'[j] = Free)

SrvType ==
    /\ srv \in [Slots -> Requests]
    /\ \A j \in Slots : srv[j].pc = "auth" => srv[j].sid \in Sids

\* One call moves, the others stay where they are.
LEMMA OneCallNet ==
    ASSUME NetInv, NEW c \in Calls, NEW t \in Tasks, task' = [task EXCEPT ![c] = t],
           MemMoves, srv' \in [Slots -> Requests], \A j \in Slots : Stage(srv'[j]),
           \A d \in Calls \ {c} :
               task[d].slot # NoSlot => srv'[task[d].slot].op = srv[task[d].slot].op,
           t.slot # NoSlot => \A d \in Calls \ {c} : task[d].slot # t.slot,
           CallOK(c)'
    PROVE  Protocol' /\ task' \in [Calls -> Tasks] /\ SrvType'
<1>0. /\ task \in [Calls -> Tasks] /\ mem.epoch \in Nat /\ mem'.epoch \in Nat
      /\ \A d \in Calls : CallOK(d) /\ task[d].epoch \in Nat
      /\ SlotsApart
  BY DEF NetInv, Protocol, TypeOK, Tasks, MemMoves, MemType
<1>1. /\ task' \in [Calls -> Tasks] /\ task'[c] = t
      /\ \A d \in Calls \ {c} : task'[d] = task[d]
  BY <1>0
<1>2. ASSUME NEW d \in Calls
      PROVE  CallOK(d)'
  <2>1. CASE d # c
    BY <1>0, <1>1, <2>1, SameCall DEF MemMoves
  <2>. QED
    BY <2>1
<1>3. SlotsApart'
  BY <1>0, <1>1 DEF SlotsApart
<1>4. SrvType'
  BY FreeType DEF SrvType, Stage
<1>. QED
  BY <1>1, <1>2, <1>3, <1>4 DEF Protocol, MemMoves

\* What the device remembers is left alone.
LEMMA SameMem ==
    ASSUME NetInv, UNCHANGED mem
    PROVE  MemMoves
<1>1. mem \in MemType /\ (mem.signed <=> mem.access \in Sids)
  BY DEF NetInv, TypeOK, Protocol, MemType
<1>. QED
  BY <1>1 DEF MemMoves, MemType

\* It is cleared.
LEMMA ClearedMem ==
    ASSUME NetInv, mem' = [epoch |-> mem.epoch + 1, access |-> None, signed |-> FALSE]
    PROVE  MemMoves
<1>1. mem.epoch \in Nat
  BY DEF NetInv, TypeOK
<1>2. None \notin Sids
  BY SessionsAssumption DEF None, Sids
<1>3. /\ mem'.epoch = mem.epoch + 1 /\ mem'.access = None /\ mem'.signed = FALSE
      /\ mem' \in MemType
  BY <1>1 DEF MemType
<1>. QED
  BY <1>1, <1>2, <1>3 DEF MemMoves

\* A call takes its answer, or goes on without one.
LEMMA TakenReleases ==
    ASSUME NetInv, NEW c \in Calls,
           \/ Taken(c)
           \/ UNCHANGED srv
           \/ srv' = [srv EXCEPT ![task[c].slot] = IF @.pc = "done" THEN Free ELSE @]
    PROVE  Releases(c)
<1>1. srv \in [Slots -> Requests]
  BY DEF NetInv, TypeOK
<1>. QED
  BY <1>1, FreeType DEF Taken, Releases

\* A released slot disturbs nobody else.
LEMMA ReleasedOthers ==
    ASSUME NetInv, NEW c \in Calls, Releases(c)
    PROVE  /\ \A j \in Slots : Stage(srv'[j])
           /\ \A d \in Calls \ {c} :
                 task[d].slot # NoSlot => srv'[task[d].slot].op = srv[task[d].slot].op
<1>1. \A j \in Slots : Stage(srv'[j])
  BY FreeType DEF Releases, NetInv, Protocol
<1>2. ASSUME NEW d \in Calls \ {c}, task[d].slot # NoSlot
      PROVE  srv'[task[d].slot].op = srv[task[d].slot].op
  BY <1>2, WaitingFacts DEF Releases
<1>. QED
  BY <1>1, <1>2

\* A call ends.
LEMMA EndNet ==
    ASSUME NetInv, NEW c \in Calls, End(c), Releases(c), MemMoves
    PROVE  Protocol' /\ task' \in [Calls -> Tasks] /\ SrvType'
<1>1. Rest \in Tasks /\ Rest.slot = NoSlot /\ Rest.pc = "rest" /\ Rest.epoch = 0
  BY DEF Rest, Tasks, NoSlot, None
<1>2. task' = [task EXCEPT ![c] = Rest] /\ task'[c] = Rest
  BY DEF End, NetInv, TypeOK
<1>3. CallOK(c)'
  <2>1. "rest" \in PlacesOf(c) /\ "rest" \notin Waiting
    BY Places DEF Waiting
  <2>2. mem'.epoch \in Nat
    BY DEF MemMoves, MemType
  <2>. QED
    BY <1>1, <1>2, <2>1, <2>2 DEF CallOK
<1>. QED
  BY <1>1, <1>2, <1>3, ReleasedOthers, OneCallNet DEF Releases

\* A call goes on without a slot.
LEMMA FreeCallNet ==
    ASSUME NetInv, NEW c \in Calls, NEW t \in Tasks, task' = [task EXCEPT ![c] = t],
           Releases(c), UNCHANGED mem, t.slot = NoSlot, t.epoch = task[c].epoch,
           t.pc \in {"stored", "join", "retry"}, t.pc \in PlacesOf(c),
           t.pc = "stored" => t.sid \in Sids
    PROVE  Protocol' /\ task' \in [Calls -> Tasks] /\ SrvType'
<1>1. task'[c] = t
  BY DEF NetInv, TypeOK
<1>2. MemMoves
  BY SameMem
<1>3. CallOK(c)'
  <2>1. task[c].epoch <= mem.epoch
    BY DEF NetInv, Protocol, CallOK
  <2>2. t.pc \notin Waiting /\ t.pc # "rest"
    BY DEF Waiting
  <2>. QED
    BY <1>1, <2>1, <2>2 DEF CallOK
<1>. QED
  BY <1>2, <1>3, ReleasedOthers, OneCallNet DEF Releases

\* A call sends a request.
LEMMA SendNet ==
    ASSUME NetInv, NEW c \in Calls, NEW op, NEW sid, NEW i \in Slots, NEW t \in Tasks,
           FreeSlot(i), srv' = [srv EXCEPT ![i] = Req(op, FirstStep(op), sid)],
           task' = [task EXCEPT ![c] = t], UNCHANGED mem,
           op \in {"register", "login", "refresh", "logout", "api"},
           op \in {"register", "login"} \/ sid \in Sids,
           sid \in Sids \cup {None},
           t.slot = i, t.pc \in Waiting, t.pc \in PlacesOf(c), OpOf(c, t.pc) = op,
           t.epoch <= mem.epoch
    PROVE  Protocol' /\ task' \in [Calls -> Tasks] /\ SrvType'
<1>. DEFINE r == Req(op, FirstStep(op), sid)
<1>0. /\ srv \in [Slots -> Requests] /\ task \in [Calls -> Tasks]
      /\ \A j \in Slots : Stage(srv[j])
  BY DEF NetInv, Protocol, TypeOK
<1>1. /\ FirstStep(op) \in {"insert", "user", "read", "auth"}
      /\ op = "register" => FirstStep(op) = "insert"
      /\ op = "login" => FirstStep(op) = "user"
      /\ op = "refresh" => FirstStep(op) = "read"
      /\ op \in {"logout", "api"} => FirstStep(op) = "auth"
  BY DEF FirstStep
<1>2. r \in Requests /\ r.op = op
  <2>1. None \in 0 .. MaxBooks
    BY SessionsAssumption DEF None
  <2>. QED
    BY <1>1, <2>1 DEF Req, Requests
<1>3. Stage(r)
  BY <1>1 DEF Req, Stage
<1>. HIDE DEF r
<1>4. /\ srv' \in [Slots -> Requests] /\ srv'[i] = r
      /\ \A j \in Slots \ {i} : srv'[j] = srv[j]
      /\ \A j \in Slots : Stage(srv'[j])
  <2>1. srv' = [srv EXCEPT ![i] = r]
    BY DEF r
  <2>. QED
    BY <1>0, <1>2, <1>3, <2>1
<1>5. srv[i].op = "free"
  BY FreeType DEF FreeSlot
<1>6. \A d \in Calls : task[d].slot # NoSlot => task[d].slot \in Slots \ {i}
  BY <1>5, WaitingFacts
<1>7. task'[c] = t /\ i # NoSlot
  BY <1>0, SessionsAssumption DEF Slots, NoSlot
<1>8. CallOK(c)'
  <2>1. t.pc # "rest" /\ t.pc # "stored"
    BY DEF Waiting
  <2>. QED
    BY <1>2, <1>4, <1>7, <2>1 DEF CallOK
<1>9. MemMoves
  BY SameMem
<1>10. /\ \A d \in Calls \ {c} :
             task[d].slot # NoSlot => srv'[task[d].slot].op = srv[task[d].slot].op
       /\ \A d \in Calls \ {c} : task[d].slot # t.slot
  BY <1>4, <1>6, <1>7
<1>. QED
  BY <1>4, <1>8, <1>9, <1>10, OneCallNet
-----------------------------------------------------------------------------
(***************************************************************************)
(* The steps of the device.                                                *)
(***************************************************************************)
DeviceType ==
    /\ mem \in MemType
    /\ disk \in Sids \cup {None}
    /\ task \in [Calls -> Tasks]

NetOK == Protocol /\ SrvType /\ DeviceType

\* What the answer a call waits for carries.
LEMMA AnswerFacts ==
    ASSUME NetInv, NEW c \in Calls, NEW pc, Done(c, pc), pc \in Waiting
    PROVE  /\ task[c].slot \in Slots /\ task[c].slot # NoSlot
           /\ Answer(c) \in Requests
           /\ Answer(c).op = OpOf(c, pc)
           /\ OpOf(c, pc) \in {"login", "refresh"} /\ Answer(c).res = "ok" =>
                 Answer(c).sid \in Sids
<1>1. task[c].pc = pc /\ srv[task[c].slot].pc = "done"
  BY DEF Done
<1>2. CallOK(c)
  BY DEF NetInv, Protocol
<1>3. task[c].slot # NoSlot /\ srv[task[c].slot].op = OpOf(c, pc)
  BY <1>1, <1>2 DEF CallOK
<1>4. task[c].slot \in Slots
  BY <1>3, WaitingFacts
<1>5. Answer(c) \in Requests /\ Stage(Answer(c))
  BY <1>4 DEF NetInv, Protocol, TypeOK, Answer
<1>6. OpOf(c, pc) \in {"login", "refresh"} /\ Answer(c).res = "ok" => Answer(c).sid \in Sids
  BY <1>1, <1>3, <1>5, FreeType DEF Stage, Answer
<1>. QED
  BY <1>3, <1>4, <1>5, <1>6 DEF Answer

\* The device as the invariant types it.
LEMMA DeviceFacts ==
    ASSUME NetInv
    PROVE  /\ mem \in MemType /\ disk \in Sids \cup {None} /\ task \in [Calls -> Tasks]
           /\ mem.epoch \in Nat /\ (mem.signed <=> mem.access \in Sids)
           /\ \A c \in Calls : /\ CallOK(c) /\ task[c] \in Tasks /\ task[c].epoch \in Nat
                               /\ task[c].sid \in Sids \cup {None}
                               /\ task[c].retried \in BOOLEAN
           /\ None \notin Sids
<1>1. None \notin Sids
  BY SessionsAssumption DEF None, Sids
<1>. QED
  BY <1>1 DEF NetInv, Protocol, TypeOK, MemType, Tasks

\* A token is accepted.
LEMMA AcceptNet ==
    ASSUME NetInv, NEW c \in {"user", "refresh"}, NEW sid \in Sids, Accept(c, sid),
           Taken(c), UNCHANGED mem
    PROVE  NetOK'
<1>. DEFINE t == [pc |-> "stored", slot |-> NoSlot, sid |-> sid,
                  epoch |-> task[c].epoch, retried |-> task[c].retried]
<1>1. task' = [task EXCEPT ![c] = t] /\ disk' = sid
  BY DEF Accept, StoreToken
<1>2. c \in Calls /\ "stored" \in PlacesOf(c)
  BY Places
<1>3. /\ t \in Tasks /\ t.slot = NoSlot /\ t.epoch = task[c].epoch
      /\ t.pc = "stored" /\ t.sid \in Sids
  BY <1>2, DeviceFacts DEF Tasks
<1>4. Releases(c)
  BY <1>2, TakenReleases
<1>. HIDE DEF t
<1>5. Protocol' /\ task' \in [Calls -> Tasks] /\ SrvType'
  BY <1>1, <1>2, <1>3, <1>4, FreeCallNet
<1>. QED
  BY <1>1, <1>5, DeviceFacts DEF NetOK, DeviceType

\* A call ends and the device keeps or clears its session.
LEMMA EndsNet ==
    ASSUME NetInv, NEW c \in Calls, End(c),
           \/ Taken(c)
           \/ UNCHANGED srv
           \/ srv' = [srv EXCEPT ![task[c].slot] = IF @.pc = "done" THEN Free ELSE @],
           Clear \/ UNCHANGED <<mem, disk>>
    PROVE  NetOK'
<1>1. Releases(c)
  BY TakenReleases
<1>2. MemMoves
  BY SameMem, ClearedMem DEF Clear
<1>3. disk' \in Sids \cup {None}
  BY DeviceFacts DEF Clear
<1>. QED
  BY <1>1, <1>2, <1>3, EndNet DEF NetOK, DeviceType, MemMoves

\* A call of the user, or of the interceptor, begins or repeats a request.
LEMMA SendsNet ==
    ASSUME NetInv, NEW c \in Calls, NEW op, NEW sid, NEW pc, NEW retried \in BOOLEAN,
           Send(c, op, sid, pc, retried), UNCHANGED <<mem, disk>>,
           op \in {"register", "login", "refresh", "logout", "api"},
           op \in {"register", "login"} \/ sid \in Sids,
           sid \in Sids \cup {None},
           pc \in Waiting, pc \in PlacesOf(c), OpOf(c, pc) = op
    PROVE  NetOK'
<1>1. PICK i \in Slots :
        /\ FreeSlot(i)
        /\ srv' = [srv EXCEPT ![i] = Req(op, FirstStep(op), sid)]
        /\ task' = [task EXCEPT ![c] = [pc |-> pc, slot |-> i, sid |-> sid,
                                        epoch |-> mem.epoch, retried |-> retried]]
  BY DEF Send
<1>. DEFINE t == [pc |-> pc, slot |-> i, sid |-> sid,
                  epoch |-> mem.epoch, retried |-> retried]
<1>2. t \in Tasks /\ t.slot = i /\ t.pc = pc /\ t.epoch <= mem.epoch
  BY DeviceFacts DEF Tasks, Waiting
<1>. HIDE DEF t
<1>3. Protocol' /\ task' \in [Calls -> Tasks] /\ SrvType'
  <2>1. task' = [task EXCEPT ![c] = t]
    BY <1>1 DEF t
  <2>. QED
    BY <1>1, <1>2, <2>1, SendNet
<1>. QED
  BY <1>3, DeviceFacts DEF NetOK, DeviceType

\* A call goes on from Step.
LEMMA StepType ==
    ASSUME NetInv, NEW c \in Calls, NEW slot \in Slots \cup {NoSlot},
           NEW pc \in {"login", "wait", "join", "retry"}
    PROVE  /\ Step(c, pc, slot) \in Tasks
           /\ Step(c, pc, slot).slot = slot /\ Step(c, pc, slot).pc = pc
           /\ Step(c, pc, slot).epoch = task[c].epoch
  BY DeviceFacts DEF Step, Tasks

\* The calls of the user and the end of a store.
LEMMA UserNet ==
    ASSUME NetInv,
           \/ SignUp \/ Login \/ Restore \/ Request \/ Logout
           \/ \E c \in Calls : Stored(c)
           \/ Registered \/ LoginAnswered \/ RestoreAnswered
    PROVE  NetOK'
<1>. USE DEF device
<1>0. /\ {"register", "login", "restore", "wait"} = Waiting
      /\ {"user", "api", "refresh"} = Calls
  BY DEF Waiting, Calls
<1>1. CASE SignUp
  <2>1. Send("user", "register", None, "register", FALSE) /\ UNCHANGED <<mem, disk>>
    BY <1>1 DEF SignUp
  <2>. QED
    BY <1>0, <2>1, SendsNet, Places
<1>2. CASE Login
  <2>1. Send("user", "login", None, "login", FALSE) /\ UNCHANGED <<mem, disk>>
    BY <1>2 DEF Login
  <2>. QED
    BY <1>0, <2>1, SendsNet, Places
<1>3. CASE Restore
  <2>1. Send("user", "refresh", disk, "restore", FALSE) /\ UNCHANGED <<mem, disk>>
    BY <1>3 DEF Restore
  <2>2. disk \in Sids
    BY <1>3, DeviceFacts DEF Restore
  <2>. QED
    BY <1>0, <2>1, <2>2, SendsNet, Places
<1>4. CASE Request
  <2>1. Send("api", "api", mem.access, "wait", FALSE) /\ UNCHANGED <<mem, disk>>
    BY <1>4 DEF Request
  <2>2. mem.access \in Sids
    BY <1>4, DeviceFacts DEF Request
  <2>. QED
    BY <1>0, <2>1, <2>2, SendsNet, Places
<1>5. CASE Logout
  <2>1. Send("user", "logout", mem.access, "wait", FALSE) /\ UNCHANGED <<mem, disk>>
    BY <1>5 DEF Logout
  <2>2. mem.access \in Sids
    BY <1>5, DeviceFacts DEF Logout
  <2>. QED
    BY <1>0, <2>1, <2>2, SendsNet, Places
<1>6. ASSUME NEW c \in Calls, Stored(c)
      PROVE  NetOK'
  <2>1. /\ task[c].pc = "stored" /\ End(c) /\ UNCHANGED <<srv, disk>>
        /\ mem' = [epoch |-> IF c = "user" THEN mem.epoch + 1 ELSE mem.epoch,
                   access |-> task[c].sid, signed |-> TRUE]
    BY <1>6 DEF Stored
  <2>2. task[c].sid \in Sids
    BY <2>1, DeviceFacts DEF CallOK
  <2>3. /\ mem'.epoch = (IF c = "user" THEN mem.epoch + 1 ELSE mem.epoch)
        /\ mem'.access = task[c].sid /\ mem'.signed = TRUE /\ mem' \in MemType
    BY <2>1, <2>2, DeviceFacts DEF MemType
  <2>4. MemMoves
    BY <2>2, <2>3, DeviceFacts DEF MemMoves
  <2>5. Releases(c)
    BY <2>1, TakenReleases
  <2>. QED
    BY <2>1, <2>4, <2>5, EndNet, DeviceFacts DEF NetOK, DeviceType, MemMoves
<1>7. CASE Registered
  <2>0. Done("user", "register") /\ UNCHANGED <<mem, disk>>
    BY <1>7 DEF Registered
  <2>1. CASE Taken("user") /\ End("user")
    BY <1>0, <2>0, <2>1, EndsNet
  <2>2. CASE ~(Taken("user") /\ End("user"))
    <3>. DEFINE i == task["user"].slot
                t == Step("user", "login", i)
                r == Req("login", "user", None)
    <3>1. /\ srv' = [srv EXCEPT ![i] = r] /\ task' = [task EXCEPT !["user"] = t]
      BY <1>7, <2>2 DEF Registered, FirstStep
    <3>2. i \in Slots /\ i # NoSlot /\ "user" \in Calls
      BY <1>0, <2>0, AnswerFacts
    <3>3. t \in Tasks /\ t.slot = i /\ t.pc = "login" /\ t.epoch = task["user"].epoch
      BY <3>2, StepType
    <3>4. r \in Requests /\ Stage(r) /\ r.op = "login"
      <4>1. None \in 0 .. MaxBooks
        BY SessionsAssumption DEF None
      <4>. QED
        BY <4>1 DEF Req, Requests, Stage
    <3>5. /\ srv \in [Slots -> Requests] /\ \A j \in Slots : Stage(srv[j])
      BY DEF NetInv, TypeOK, Protocol
    <3>. HIDE DEF i, t, r
    <3>6. /\ srv' \in [Slots -> Requests] /\ srv'[i] = r
          /\ \A j \in Slots \ {i} : srv'[j] = srv[j]
          /\ \A j \in Slots : Stage(srv'[j])
      BY <3>1, <3>2, <3>4, <3>5
    <3>7. \A d \in Calls \ {"user"} :
              task[d].slot # i /\ (task[d].slot # NoSlot => task[d].slot \in Slots)
      BY <1>0, <3>2, WaitingFacts DEF i
    <3>8. task'["user"] = t
      BY <3>1, <3>2, DeviceFacts
    <3>9. CallOK("user")'
      <4>1. task["user"].epoch <= mem.epoch
        BY <3>2, DeviceFacts DEF CallOK
      <4>. QED
        BY <1>0, <2>0, <3>2, <3>3, <3>4, <3>6, <3>8, <4>1, Places DEF CallOK
    <3>10. Protocol' /\ task' \in [Calls -> Tasks] /\ SrvType'
      BY <2>0, <3>1, <3>2, <3>3, <3>6, <3>7, <3>9, SameMem, OneCallNet
    <3>. QED
      BY <2>0, <3>10, DeviceFacts DEF NetOK, DeviceType
  <2>. QED
    BY <2>1, <2>2
<1>8. CASE LoginAnswered
  <2>1. Done("user", "login") /\ Taken("user") /\ UNCHANGED mem
    BY <1>8 DEF LoginAnswered
  <2>2. CASE Answer("user").res = "ok"
    <3>1. Accept("user", Answer("user").sid)
      BY <1>8, <2>2 DEF LoginAnswered
    <3>2. Answer("user").sid \in Sids
      BY <1>0, <2>1, <2>2, AnswerFacts, Places
    <3>. QED
      BY <2>1, <3>1, <3>2, AcceptNet
  <2>3. CASE Answer("user").res # "ok"
    <3>1. End("user") /\ UNCHANGED disk
      BY <1>8, <2>3 DEF LoginAnswered
    <3>. QED
      BY <1>0, <2>1, <3>1, EndsNet
  <2>. QED
    BY <2>2, <2>3
<1>9. CASE RestoreAnswered
  <2>1. Done("user", "restore") /\ Taken("user")
    BY <1>9 DEF RestoreAnswered
  <2>2. CASE Answer("user").res = "ok"
    <3>1. Accept("user", Answer("user").sid) /\ UNCHANGED mem
      BY <1>9, <2>2 DEF RestoreAnswered
    <3>2. Answer("user").sid \in Sids
      BY <1>0, <2>1, <2>2, AnswerFacts, Places
    <3>. QED
      BY <2>1, <3>1, <3>2, AcceptNet
  <2>3. CASE Answer("user").res # "ok"
    <3>1. End("user") /\ (Clear \/ UNCHANGED <<mem, disk>>)
      BY <1>9, <2>3 DEF RestoreAnswered
    <3>. QED
      BY <1>0, <2>1, <3>1, EndsNet
  <2>. QED
    BY <2>2, <2>3
<1>. QED
  BY <1>1, <1>2, <1>3, <1>4, <1>5, <1>6, <1>7, <1>8, <1>9
\* A 401 begins the shared refresh: the one step that moves two calls.
LEMMA RefreshBegins ==
    ASSUME NetInv, NEW c \in {"user", "api"}, NEW p \in {"join", "retry"},
           Taken(c), UNCHANGED <<mem, disk>>,
           \/ task' = [task EXCEPT ![c] = Step(c, p, NoSlot)]
           \/ /\ task["refresh"] = Rest
              /\ task' = [task EXCEPT ![c] = Step(c, p, NoSlot),
                                      !["refresh"] = [pc |-> "read", slot |-> NoSlot, sid |-> None,
                                                      epoch |-> mem.epoch, retried |-> FALSE]]
    PROVE  NetOK'
<1>. DEFINE t == Step(c, p, NoSlot)
            u == [pc |-> "read", slot |-> NoSlot, sid |-> None,
                  epoch |-> mem.epoch, retried |-> FALSE]
<1>0. /\ c \in Calls /\ "refresh" \in Calls /\ c # "refresh" /\ p \in PlacesOf(c)
      /\ "read" \in PlacesOf("refresh") /\ Calls = {"user", "api", "refresh"}
  BY Places
<1>1. t \in Tasks /\ t.slot = NoSlot /\ t.pc = p /\ t.epoch = task[c].epoch
  BY <1>0, StepType
<1>2. u \in Tasks /\ u.slot = NoSlot /\ u.pc = "read" /\ u.epoch = mem.epoch
  BY DeviceFacts DEF Tasks
<1>3. Releases(c)
  BY <1>0, TakenReleases
<1>. HIDE DEF t, u
<1>4. CASE task' = [task EXCEPT ![c] = t]
  <2>1. Protocol' /\ task' \in [Calls -> Tasks] /\ SrvType'
    BY <1>0, <1>1, <1>3, <1>4, FreeCallNet
  <2>. QED
    BY <2>1, DeviceFacts DEF NetOK, DeviceType
<1>5. CASE task["refresh"] = Rest /\ task' = [task EXCEPT ![c] = t, !["refresh"] = u]
  <2>1. /\ task' \in [Calls -> Tasks] /\ task'[c] = t /\ task'["refresh"] = u
        /\ \A d \in Calls \ {c, "refresh"} : task'[d] = task[d]
    BY <1>0, <1>1, <1>2, <1>5, DeviceFacts
  <2>2. /\ \A j \in Slots : Stage(srv'[j])
        /\ \A d \in Calls \ {c} :
              task[d].slot # NoSlot => srv'[task[d].slot].op = srv[task[d].slot].op
        /\ srv' \in [Slots -> Requests]
    BY <1>0, <1>3, ReleasedOthers DEF Releases
  <2>3. \A d \in Calls \ {c, "refresh"} : CallOK(d)'
    BY <2>1, <2>2, SameCall, DeviceFacts
  <2>4. CallOK(c)'
    <3>1. task[c].epoch <= mem.epoch
      BY <1>0, DeviceFacts DEF CallOK
    <3>2. p \notin Waiting /\ p # "rest" /\ p # "stored"
      BY DEF Waiting
    <3>. QED
      BY <1>0, <1>1, <2>1, <3>1, <3>2 DEF CallOK
  <2>5. CallOK("refresh")'
    <3>1. "read" \notin Waiting
      BY DEF Waiting
    <3>. QED
      BY <1>0, <1>2, <2>1, <3>1, DeviceFacts DEF CallOK
  <2>6. SlotsApart'
    <3>1. \A d, e \in Calls \ {c, "refresh"} : d = e
      BY <1>0
    <3>. QED
      BY <1>1, <1>2, <2>1, <3>1 DEF SlotsApart
  <2>7. SrvType'
    BY <2>2, FreeType DEF SrvType, Stage
  <2>8. (mem.signed <=> mem.access \in Sids)'
    BY DeviceFacts
  <2>9. Protocol'
    BY <2>2, <2>3, <2>4, <2>5, <2>6, <2>8 DEF Protocol
  <2>. QED
    BY <2>1, <2>7, <2>9, DeviceFacts DEF NetOK, DeviceType
<1>. QED
  BY <1>4, <1>5 DEF t, u

\* The interceptor and the shared refresh.
LEMMA RefreshNet ==
    ASSUME NetInv,
           \/ \E c \in Calls \ {"refresh"} : RequestAnswered(c) \/ Joined(c) \/ Retry(c)
           \/ RefreshSend \/ RefreshAnswered
    PROVE  NetOK'
<1>. USE DEF device
<1>0. /\ {"register", "login", "restore", "wait"} = Waiting
      /\ {"user", "api", "refresh"} = Calls
  BY DEF Waiting, Calls
<1>1. ASSUME NEW c \in Calls \ {"refresh"}, RequestAnswered(c)
      PROVE  NetOK'
  <2>0. Taken(c) /\ c \in {"user", "api"}
    BY <1>0, <1>1 DEF RequestAnswered
  <2>1. CASE Answer(c).res = "401" /\ MayRetry(c)
    <3>. DEFINE p == IF task[c].sid = mem.access THEN "join" ELSE "retry"
                u == [pc |-> "read", slot |-> NoSlot, sid |-> None,
                      epoch |-> mem.epoch, retried |-> FALSE]
    <3>1. /\ UNCHANGED <<mem, disk>>
          /\ task' = [task EXCEPT ![c] = Step(c, p, NoSlot),
                        !["refresh"] = IF task[c].sid = mem.access /\ @ = Rest
                                       THEN u ELSE @]
      BY <1>1, <2>1, DeviceFacts DEF RequestAnswered
    <3>2. p \in {"join", "retry"}
      OBVIOUS
    <3>. HIDE DEF p
    <3>3. \/ task' = [task EXCEPT ![c] = Step(c, p, NoSlot)]
          \/ /\ task["refresh"] = Rest
             /\ task' = [task EXCEPT ![c] = Step(c, p, NoSlot), !["refresh"] = u]
      <4>1. CASE task[c].sid = mem.access /\ task["refresh"] = Rest
        BY <2>0, <3>1, <4>1
      <4>2. CASE ~(task[c].sid = mem.access /\ task["refresh"] = Rest)
        <5>. HIDE DEF u
        <5>1. task' = [task EXCEPT ![c] = Step(c, p, NoSlot)]
          BY <1>0, <2>0, <3>1, <4>2, DeviceFacts
        <5>. QED
          BY <5>1
      <4>. QED
        BY <4>1, <4>2
    <3>. QED
      BY <2>0, <3>1, <3>2, <3>3, RefreshBegins
  <2>2. CASE ~(Answer(c).res = "401" /\ MayRetry(c))
    <3>1. End(c) /\ (Clear \/ UNCHANGED <<mem, disk>>)
      BY <1>1, <2>2 DEF RequestAnswered, Finish
    <3>. QED
      BY <2>0, <3>1, EndsNet
  <2>. QED
    BY <2>1, <2>2
<1>2. ASSUME NEW c \in Calls \ {"refresh"}, Joined(c)
      PROVE  NetOK'
  <2>0. UNCHANGED srv /\ c \in {"user", "api"}
    BY <1>0, <1>2 DEF Joined
  <2>1. CASE Current(c)
    <3>1. task' = [task EXCEPT ![c] = Step(c, "retry", NoSlot)] /\ UNCHANGED <<mem, disk>>
      BY <1>2, <2>1 DEF Joined
    <3>2. /\ Step(c, "retry", NoSlot) \in Tasks
          /\ Step(c, "retry", NoSlot).slot = NoSlot
          /\ Step(c, "retry", NoSlot).pc = "retry"
          /\ Step(c, "retry", NoSlot).epoch = task[c].epoch
      BY StepType
    <3>3. "retry" \in PlacesOf(c)
      BY <2>0, Places
    <3>4. Releases(c)
      BY <2>0, TakenReleases
    <3>5. Protocol' /\ task' \in [Calls -> Tasks] /\ SrvType'
      BY <3>1, <3>2, <3>3, <3>4, FreeCallNet
    <3>. QED
      BY <3>1, <3>5, DeviceFacts DEF NetOK, DeviceType
  <2>2. CASE ~Current(c)
    <3>1. End(c) /\ (Clear \/ UNCHANGED <<mem, disk>>)
      BY <1>2, <2>2 DEF Joined, Finish
    <3>. QED
      BY <2>0, <3>1, EndsNet
  <2>. QED
    BY <2>1, <2>2
<1>3. ASSUME NEW c \in Calls \ {"refresh"}, Retry(c)
      PROVE  NetOK'
  <2>0. c \in {"user", "api"}
    BY <1>0
  <2>1. CASE Current(c)
    <3>. DEFINE op == IF c = "user" THEN "logout" ELSE "api"
    <3>1. Send(c, op, mem.access, "wait", TRUE) /\ UNCHANGED <<mem, disk>>
      BY <1>3, <2>1 DEF Retry
    <3>2. mem.access \in Sids
      BY <2>1, DeviceFacts DEF Current, MemType
    <3>3. /\ op \in {"register", "login", "refresh", "logout", "api"}
          /\ OpOf(c, "wait") = op /\ "wait" \in PlacesOf(c)
      BY <2>0, Places
    <3>. HIDE DEF op
    <3>. QED
      BY <1>0, <3>1, <3>2, <3>3, SendsNet
  <2>2. CASE ~Current(c)
    <3>1. End(c) /\ (Clear \/ UNCHANGED <<mem, disk>>) /\ UNCHANGED srv
      BY <1>3, <2>2 DEF Retry, Finish
    <3>. QED
      BY <3>1, EndsNet
  <2>. QED
    BY <2>1, <2>2
<1>4. CASE RefreshSend
  <2>1. CASE disk = None
    <3>1. Clear /\ End("refresh") /\ UNCHANGED srv
      BY <1>4, <2>1 DEF RefreshSend, RefreshFails
    <3>. QED
      BY <1>0, <3>1, EndsNet
  <2>2. CASE disk # None
    <3>1. PICK i \in Slots :
             /\ FreeSlot(i)
             /\ srv' = [srv EXCEPT ![i] = Req("refresh", FirstStep("refresh"), disk)]
             /\ task' = [task EXCEPT !["refresh"] = Step("refresh", "wait", i)]
             /\ UNCHANGED <<mem, disk>>
      BY <1>4, <2>2 DEF RefreshSend
    <3>2. /\ Step("refresh", "wait", i) \in Tasks
          /\ Step("refresh", "wait", i).slot = i
          /\ Step("refresh", "wait", i).pc = "wait"
          /\ Step("refresh", "wait", i).epoch = task["refresh"].epoch
      BY <1>0, StepType
    <3>3. disk \in Sids /\ task["refresh"].epoch <= mem.epoch
      BY <1>0, <2>2, DeviceFacts DEF CallOK
    <3>4. Protocol' /\ task' \in [Calls -> Tasks] /\ SrvType'
      <4>. DEFINE op == "refresh"
                  sid == disk
                  t == Step("refresh", "wait", i)
      <4>1. /\ srv' = [srv EXCEPT ![i] = Req(op, FirstStep(op), sid)]
            /\ task' = [task EXCEPT !["refresh"] = t]
            /\ t \in Tasks /\ t.slot = i /\ t.pc \in Waiting /\ t.epoch <= mem.epoch
            /\ OpOf("refresh", t.pc) = op /\ t.pc \in PlacesOf("refresh")
            /\ sid \in Sids /\ sid \in Sids \cup {None} /\ "refresh" \in Calls
            /\ op \in {"register", "login", "refresh", "logout", "api"}
            /\ op \in {"register", "login"} \/ sid \in Sids
            /\ FreeSlot(i) /\ UNCHANGED mem
        BY <1>0, <3>1, <3>2, <3>3, Places
      <4>. HIDE DEF t, sid, op
      <4>. QED
        BY <4>1, SendNet
    <3>. QED
      BY <3>1, <3>4, DeviceFacts DEF NetOK, DeviceType
  <2>. QED
    BY <2>1, <2>2
<1>5. CASE RefreshAnswered
  <2>0. Done("refresh", "wait") /\ Taken("refresh")
    BY <1>5 DEF RefreshAnswered
  <2>1. CASE Answer("refresh").res = "ok" /\ SameEpoch("refresh")
    <3>1. Accept("refresh", Answer("refresh").sid) /\ UNCHANGED mem
      BY <1>5, <2>1 DEF RefreshAnswered
    <3>2. Answer("refresh").sid \in Sids
      BY <1>0, <2>0, <2>1, AnswerFacts, Places
    <3>. QED
      BY <2>0, <3>1, <3>2, AcceptNet
  <2>2. CASE ~(Answer("refresh").res = "ok" /\ SameEpoch("refresh"))
    <3>1. Clear /\ End("refresh")
      BY <1>5, <2>2 DEF RefreshAnswered, RefreshFails
    <3>. QED
      BY <1>0, <2>0, <3>1, EndsNet
  <2>. QED
    BY <2>1, <2>2
<1>. QED
  BY <1>1, <1>2, <1>3, <1>4, <1>5

\* Requests given up, and the end of the app.
LEMMA FaultNet ==
    ASSUME NetInv, Kill \/ \E c \in Calls : GiveUp(c)
    PROVE  NetOK'
<1>. USE DEF device
<1>1. ASSUME NEW c \in Calls, GiveUp(c)
      PROVE  NetOK'
  <2>1. srv' = [srv EXCEPT ![task[c].slot] = IF @.pc = "done" THEN Free ELSE @]
    BY <1>1 DEF GiveUp
  <2>2. End(c) /\ (Clear \/ UNCHANGED <<mem, disk>>)
    BY <1>1 DEF GiveUp, RefreshFails, Finish
  <2>. QED
    BY <2>1, <2>2, EndsNet
<1>2. CASE Kill
  <2>1. /\ mem' = [epoch |-> mem.epoch + 1, access |-> None, signed |-> FALSE]
        /\ task' = [c \in Calls |-> Rest]
        /\ srv' = [i \in Slots |-> IF srv[i].pc = "done" THEN Free ELSE srv[i]]
        /\ UNCHANGED disk
    BY <1>2 DEF Kill
  <2>2. MemMoves
    BY <2>1, ClearedMem
  <2>3. /\ Rest \in Tasks /\ Rest.slot = NoSlot /\ Rest.pc = "rest" /\ Rest.epoch = 0
        /\ \A c \in Calls : "rest" \in PlacesOf(c)
        /\ "rest" \notin Waiting
    BY Places DEF Rest, Tasks, NoSlot, None, Waiting
  <2>4. /\ task' \in [Calls -> Tasks] /\ \A c \in Calls : task'[c] = Rest
    BY <2>1, <2>3
  <2>5. \A c \in Calls : CallOK(c)'
    <3>1. mem'.epoch \in Nat
      BY <2>2 DEF MemMoves, MemType
    <3>. QED
      BY <2>3, <2>4, <3>1 DEF CallOK
  <2>6. SlotsApart'
    BY <2>3, <2>4 DEF SlotsApart
  <2>7. srv' \in [Slots -> Requests] /\ \A j \in Slots : Stage(srv'[j])
    BY <2>1, FreeType DEF NetInv, Protocol, TypeOK
  <2>8. SrvType'
    BY <2>7, FreeType DEF SrvType, Stage
  <2>9. Protocol'
    BY <2>2, <2>5, <2>6, <2>7 DEF Protocol, MemMoves
  <2>. QED
    BY <2>1, <2>2, <2>4, <2>8, <2>9, DeviceFacts DEF NetOK, DeviceType, MemMoves
<1>. QED
  BY <1>1, <1>2
-----------------------------------------------------------------------------
(***************************************************************************)
(* The tables of the server.                                               *)
(***************************************************************************)
SessType == sess \in [Sids -> [live : BOOLEAN, old : BOOLEAN, from : Sids \cup {None, NoRow}]]

ServerType ==
    /\ users \in BOOLEAN
    /\ SessType
    /\ valid \subseteq Sids
    /\ books \subseteq 1 .. MaxBooks
    /\ begun \in 0 .. MaxBooks

HistoryType ==
    /\ {out, overtaken, kicked, overlap} \subseteq BOOLEAN
    /\ logouts \in 0 .. MaxLogouts
    /\ faults \in 0 .. MaxFaults

\* The parts of the type invariant.
LEMMA TypeParts ==
    TypeOK <=> ServerType /\ SrvType /\ DeviceType /\ HistoryType
  BY DEF TypeOK, ServerType, SessType, SrvType, DeviceType, HistoryType, MemType

\* What a step does to device_sessions: nothing, or it revokes a session,
\* begins one, replaces one, or lets one grow old.
SessStep ==
    \/ sess' = sess
    \/ \E s \in Sids : sess' = [sess EXCEPT ![s] = Revoked(s)]
    \/ \E t \in UnusedIds : sess' = [sess EXCEPT ![t] = NewSession(None)]
    \/ \E s \in Sids, t \in UnusedIds : Claimable(s) /\ sess' = Rotated(s, t)
    \/ \E s \in Sids : sess' = [sess EXCEPT ![s] = [live |-> sess[s].live, old |-> TRUE,
                                                    from |-> sess[s].from]]

\* The steps of the device leave the tables alone.
LEMMA DeviceLeavesServer ==
    ASSUME \/ \E c \in Calls : CallStep(c) \/ GiveUp(c)
           \/ SignUp \/ Login \/ Restore \/ Request \/ Logout \/ Kill
           \/ UNCHANGED vars
    PROVE  UNCHANGED server
<1>. USE DEF vars
<1>1. ASSUME NEW c \in Calls, CallStep(c)
      PROVE  UNCHANGED server
  BY <1>1 DEF CallStep, Stored, Registered, LoginAnswered, RestoreAnswered,
     RefreshSend, RefreshAnswered, RequestAnswered, Joined, Retry
<1>2. ASSUME NEW c \in Calls, GiveUp(c)
      PROVE  UNCHANGED server
  BY <1>2 DEF GiveUp
<1>3. CASE SignUp \/ Login \/ Restore \/ Request \/ Logout \/ Kill \/ UNCHANGED vars
  BY <1>3 DEF SignUp, Login, Restore, Request, Logout, Kill
<1>. QED
  BY <1>1, <1>2, <1>3

\* Every step that writes a session writes one of those.
LEMMA SessSteps ==
    ASSUME NetInv, [Next]_vars
    PROVE  SessStep
<1>1. ASSUME NEW i \in Slots, RotateRead(i)
      PROVE  SessStep
  <2>1. srv[i].sid \in Sids
    BY <1>1, FreeType DEF RotateRead, At, NetInv, Protocol, Stage
  <2>2. UNCHANGED sess \/ sess' = [sess EXCEPT ![srv[i].sid] = Revoked(srv[i].sid)]
    BY <1>1 DEF RotateRead
  <2>. QED
    BY <2>1, <2>2 DEF SessStep
<1>2. ASSUME NEW i \in Slots, RotateClaim(i)
      PROVE  SessStep
  <2>1. srv[i].sid \in Sids
    BY <1>2, FreeType DEF RotateClaim, At, NetInv, Protocol, Stage
  <2>2. \/ UNCHANGED sess
        \/ \E t \in UnusedIds : Claimable(srv[i].sid) /\ sess' = Rotated(srv[i].sid, t)
    BY <1>2 DEF RotateClaim
  <2>. QED
    BY <2>1, <2>2 DEF SessStep
<1>3. ASSUME NEW i \in Slots, Revoke(i)
      PROVE  SessStep
  <2>1. srv[i].sid \in Sids
    BY <1>3, FreeType DEF Revoke, At, NetInv, Protocol, Stage
  <2>2. sess' = [sess EXCEPT ![srv[i].sid] = Revoked(srv[i].sid)]
    BY <1>3 DEF Revoke
  <2>. QED
    BY <2>1, <2>2 DEF SessStep
<1>4. ASSUME NEW i \in Slots, IssueTokens(i)
      PROVE  SessStep
  BY <1>4 DEF IssueTokens, SessStep
<1>5. ASSUME NEW s \in Sids, RefreshExpires(s)
      PROVE  SessStep
  BY <1>5 DEF RefreshExpires, SessStep
<1>6. ASSUME NEW i \in Slots,
             \/ Register(i) \/ FindUser(i) \/ BookLookup(i) \/ BookBegin(i)
             \/ BookCommit(i) \/ IssuePlan(i) \/ AuthCheck(i) \/ ServerError(i)
      PROVE  SessStep
  <2>1. sess' = sess
    BY <1>6 DEF Register, FindUser, BookLookup, BookBegin, BookCommit, IssuePlan,
       AuthCheck, ServerError, server
  <2>. QED
    BY <2>1 DEF SessStep
<1>7. ASSUME NEW s \in Sids, AccessExpires(s)
      PROVE  SessStep
  BY <1>7 DEF AccessExpires, SessStep
<1>8. CASE UNCHANGED server
  BY <1>8 DEF server, SessStep
<1>. QED
  BY <1>1, <1>2, <1>3, <1>4, <1>5, <1>6, <1>7, <1>8, DeviceLeavesServer
     DEF Next, ServerStep

\* What such a step leaves of each session.
LEMMA SessEffect ==
    ASSUME SessType, SessStep
    PROVE  /\ SessType'
           /\ \A s \in Sids : /\ sess[s].old => sess'[s].old
                              /\ s \notin UnusedIds => sess'[s].from = sess[s].from
                              /\ s \notin UnusedIds /\ sess'[s].live => sess[s].live
<1>0. /\ \A s \in Sids : /\ sess[s] \in [live : BOOLEAN, old : BOOLEAN, from : Sids \cup {None, NoRow}]
                         /\ Revoked(s) \in [live : BOOLEAN, old : BOOLEAN, from : Sids \cup {None, NoRow}]
                         /\ Revoked(s).old = sess[s].old /\ Revoked(s).from = sess[s].from
                         /\ Revoked(s).live = FALSE
      /\ \A f \in Sids \cup {None} :
            NewSession(f) \in [live : BOOLEAN, old : BOOLEAN, from : Sids \cup {None, NoRow}]
      /\ \A t \in UnusedIds : t \in Sids /\ sess[t] = NoSession
  BY DEF SessType, Revoked, NewSession, UnusedIds
<1>1. CASE sess' = sess
  BY <1>1 DEF SessType
<1>2. ASSUME NEW s \in Sids, sess' = [sess EXCEPT ![s] = Revoked(s)]
      PROVE  /\ SessType'
             /\ \A u \in Sids : /\ sess[u].old => sess'[u].old
                                /\ sess'[u].from = sess[u].from
                                /\ sess'[u].live => sess[u].live
  <2>1. /\ SessType' /\ sess'[s] = Revoked(s)
        /\ \A u \in Sids \ {s} : sess'[u] = sess[u]
    BY <1>0, <1>2 DEF SessType
  <2>. QED
    BY <1>0, <2>1
<1>3. ASSUME NEW t \in UnusedIds, sess' = [sess EXCEPT ![t] = NewSession(None)]
      PROVE  /\ SessType'
             /\ \A u \in Sids : /\ sess[u].old => sess'[u].old
                                /\ u # t => sess'[u] = sess[u]
  <2>1. /\ SessType' /\ \A u \in Sids \ {t} : sess'[u] = sess[u]
    BY <1>0, <1>3 DEF SessType
  <2>2. sess[t].old = FALSE
    BY <1>0 DEF NoSession
  <2>. QED
    BY <1>0, <2>1, <2>2
<1>4. ASSUME NEW s \in Sids, NEW t \in UnusedIds, Claimable(s), sess' = Rotated(s, t)
      PROVE  /\ SessType'
             /\ \A u \in Sids : /\ sess[u].old => sess'[u].old
                                /\ u # t => sess'[u].from = sess[u].from
                                /\ u # t /\ sess'[u].live => sess[u].live
  <2>1. s # t
    BY <1>0, <1>4 DEF Claimable, NoSession
  <2>2. /\ SessType' /\ sess'[s] = Revoked(s) /\ sess'[t] = NewSession(s)
        /\ \A u \in Sids \ {s, t} : sess'[u] = sess[u]
    BY <1>0, <1>4, <2>1 DEF SessType, Rotated
  <2>3. sess[t].old = FALSE
    BY <1>0 DEF NoSession
  <2>. QED
    BY <1>0, <2>1, <2>2, <2>3
<1>5. ASSUME NEW s \in Sids,
             sess' = [sess EXCEPT ![s] = [live |-> sess[s].live, old |-> TRUE,
                                          from |-> sess[s].from]]
      PROVE  /\ SessType'
             /\ \A u \in Sids : /\ sess[u].old => sess'[u].old
                                /\ sess'[u].from = sess[u].from
                                /\ sess'[u].live => sess[u].live
  <2>. DEFINE r == [live |-> sess[s].live, old |-> TRUE, from |-> sess[s].from]
  <2>1. /\ r \in [live : BOOLEAN, old : BOOLEAN, from : Sids \cup {None, NoRow}]
        /\ r.live = sess[s].live /\ r.old = TRUE /\ r.from = sess[s].from
    BY <1>0
  <2>. HIDE DEF r
  <2>2. /\ SessType' /\ sess'[s] = r
        /\ \A u \in Sids \ {s} : sess'[u] = sess[u]
    BY <1>0, <1>5, <2>1 DEF SessType, r
  <2>. QED
    BY <2>1, <2>2
<1>. QED
  BY <1>1, <1>2, <1>3, <1>4, <1>5 DEF SessStep

\* The types of the tables are kept.
LEMMA ServerTypeStep ==
    ASSUME NetInv, [Next]_vars
    PROVE  ServerType'
<1>0. ServerType /\ SessType /\ srv \in [Slots -> Requests]
  BY TypeParts DEF NetInv, ServerType, SrvType
<1>1. SessType'
  BY <1>0, SessSteps, SessEffect
<1>2. /\ users' \in BOOLEAN /\ valid' \subseteq Sids /\ books' \subseteq 1 .. MaxBooks
      /\ begun' \in 0 .. MaxBooks
  <2>. USE DEF ServerType
  <2>1. ASSUME NEW i \in Slots, ServerStep(i), ~BookBegin(i), ~BookCommit(i)
        PROVE  /\ users' = users \/ users' = TRUE
               /\ valid' = valid \/ \E s \in UnusedIds : valid' = valid \cup {s}
               /\ UNCHANGED <<books, begun>>
    BY <2>1 DEF ServerStep, Register, FindUser, BookLookup, IssueTokens, IssuePlan,
       RotateRead, RotateClaim, AuthCheck, Revoke, server
  <2>2. ASSUME NEW i \in Slots, BookBegin(i)
        PROVE  /\ UNCHANGED <<users, valid, books>>
               /\ begun' = begun + 1 /\ begun < MaxBooks
    BY <2>2 DEF BookBegin
  <2>3. ASSUME NEW i \in Slots, BookCommit(i)
        PROVE  /\ UNCHANGED <<users, valid, begun>>
               /\ books' = books \cup {srv[i].made}
               /\ srv[i].pc = "commit"
    BY <2>3 DEF BookCommit
  <2>4. ASSUME NEW i \in Slots, ServerError(i)
        PROVE  UNCHANGED server
    BY <2>4 DEF ServerError
  <2>5. ASSUME NEW s \in Sids, AccessExpires(s) \/ RefreshExpires(s)
        PROVE  valid' \subseteq valid /\ UNCHANGED <<users, books, begun>>
    BY <2>5 DEF AccessExpires, RefreshExpires
  <2>6. CASE UNCHANGED server
    BY <1>0, <2>6 DEF server
  <2>7. ASSUME NEW i \in Slots, srv[i].pc = "commit"
        PROVE  srv[i].made \in 1 .. MaxBooks
    BY <2>7, FreeType DEF NetInv, Protocol, Stage
  <2>8. ASSUME NEW i \in Slots, ServerStep(i)
        PROVE  /\ users' \in BOOLEAN /\ valid' \subseteq Sids
               /\ books' \subseteq 1 .. MaxBooks /\ begun' \in 0 .. MaxBooks
    <3>1. CASE BookBegin(i)
      <4>1. begun' = begun + 1 /\ begun < MaxBooks /\ UNCHANGED <<users, valid, books>>
        BY <2>2, <3>1
      <4>2. begun' \in 0 .. MaxBooks
        BY <1>0, <4>1, SessionsAssumption
      <4>. QED
        BY <1>0, <4>1, <4>2
    <3>2. CASE BookCommit(i)
      BY <1>0, <2>3, <2>7, <3>2
    <3>3. CASE ~BookBegin(i) /\ ~BookCommit(i)
      BY <1>0, <2>1, <2>8, <3>3 DEF UnusedIds
    <3>. QED
      BY <3>1, <3>2, <3>3
  <2>9. ASSUME NEW s \in Sids, AccessExpires(s) \/ RefreshExpires(s)
        PROVE  /\ users' \in BOOLEAN /\ valid' \subseteq Sids
               /\ books' \subseteq 1 .. MaxBooks /\ begun' \in 0 .. MaxBooks
    BY <1>0, <2>5, <2>9
  <2>10. \/ \E i \in Slots : ServerStep(i)
         \/ \E s \in Sids : AccessExpires(s) \/ RefreshExpires(s)
         \/ UNCHANGED server
    BY <2>4, DeviceLeavesServer DEF Next
  <2>. QED
    BY <2>6, <2>8, <2>9, <2>10
<1>. QED
  BY <1>1, <1>2 DEF ServerType
\* The types of the histories and of the bounded counters are kept.
LEMMA HistoryTypeStep ==
    ASSUME TypeOK, [Next]_vars
    PROVE  HistoryType'
<1>0. /\ out \in BOOLEAN /\ overtaken \in BOOLEAN /\ kicked \in BOOLEAN /\ overlap \in BOOLEAN
      /\ logouts \in 0 .. MaxLogouts /\ faults \in 0 .. MaxFaults
  BY DEF TypeOK
<1>1. Fault => faults' \in 0 .. MaxFaults
  BY <1>0, SessionsAssumption DEF Fault
<1>2. Clear => overtaken' \in BOOLEAN
  BY DEF Clear
<1>3. RefreshFails => overtaken' \in BOOLEAN /\ kicked' \in BOOLEAN /\ UNCHANGED <<out, overlap>>
  BY <1>2 DEF RefreshFails
<1>4. \A c \in Calls : Finish(c) => out' \in BOOLEAN /\ overtaken' \in BOOLEAN /\ UNCHANGED <<kicked, overlap>>
  BY <1>0, <1>2 DEF Finish
<1>. DEFINE Kept == /\ out' \in BOOLEAN /\ overtaken' \in BOOLEAN /\ kicked' \in BOOLEAN
                    /\ overlap' \in BOOLEAN
<1>5. ASSUME NEW i \in Slots, ServerStep(i) \/ ServerError(i)
      PROVE  Kept /\ UNCHANGED logouts /\ faults' \in 0 .. MaxFaults
  <2>1. CASE BookLookup(i)
    BY <1>0, <2>1 DEF BookLookup
  <2>2. CASE ServerError(i)
    BY <1>0, <1>1, <2>2 DEF ServerError, history
  <2>3. CASE ServerStep(i) /\ ~BookLookup(i)
    BY <1>0, <2>3 DEF ServerStep, Register, FindUser, BookBegin, BookCommit, IssueTokens,
       IssuePlan, RotateRead, RotateClaim, AuthCheck, Revoke, history
  <2>. QED
    BY <1>5, <2>1, <2>2, <2>3
<1>6. ASSUME NEW c \in Calls, CallStep(c)
      PROVE  Kept /\ UNCHANGED <<logouts, faults>>
  <2>1. CASE Stored(c) \/ Registered \/ LoginAnswered
    BY <1>0, <2>1 DEF Stored, Registered, LoginAnswered, history
  <2>2. CASE RestoreAnswered
    BY <1>0, <1>2, <2>2 DEF RestoreAnswered
  <2>3. CASE RefreshSend \/ RefreshAnswered
    BY <1>0, <1>3, <2>3 DEF RefreshSend, RefreshAnswered, history
  <2>4. CASE RequestAnswered(c) \/ Joined(c) \/ Retry(c)
    BY <1>0, <1>4, <2>4 DEF RequestAnswered, Joined, Retry, history
  <2>. QED
    BY <1>6, <2>1, <2>2, <2>3, <2>4 DEF CallStep
<1>7. ASSUME NEW c \in Calls, GiveUp(c)
      PROVE  Kept /\ UNCHANGED logouts /\ faults' \in 0 .. MaxFaults
  <2>1. UNCHANGED logouts /\ Fault
    BY <1>7 DEF GiveUp
  <2>2. RefreshFails \/ Finish(c) \/ UNCHANGED history
    BY <1>7 DEF GiveUp
  <2>. QED
    BY <1>0, <1>1, <1>3, <1>4, <2>1, <2>2 DEF history
<1>8. CASE SignUp \/ Login \/ Restore \/ Request \/ UNCHANGED vars
  <2>1. UNCHANGED <<logouts, faults, overtaken, kicked, overlap>> /\ (out' = out \/ out' = FALSE)
    BY <1>8 DEF SignUp, Login, Restore, Request, vars, history
  <2>. QED
    BY <1>0, <2>1 DEF HistoryType
<1>9. CASE Logout
  <2>1. UNCHANGED history /\ UNCHANGED faults /\ logouts < MaxLogouts /\ logouts' = logouts + 1
    BY <1>9 DEF Logout
  <2>2. logouts' \in 0 .. MaxLogouts
    BY <1>0, <2>1, SessionsAssumption
  <2>. QED
    BY <1>0, <2>1, <2>2 DEF HistoryType, history
<1>10. CASE Kill
  BY <1>0, <1>1, <1>10 DEF Kill, HistoryType, history
<1>11. CASE \E s \in Sids : AccessExpires(s) \/ RefreshExpires(s)
  BY <1>0, <1>11 DEF AccessExpires, RefreshExpires, HistoryType, history
<1>. QED
  BY <1>0, <1>5, <1>6, <1>7, <1>8, <1>9, <1>10, <1>11 DEF Next, HistoryType

\* The types and the protocol are kept by every step.
LEMMA NetStep ==
    ASSUME NetInv, [Next]_vars
    PROVE  NetInv'
<1>0. ServerType' /\ HistoryType' /\ SrvType /\ DeviceType /\ Protocol
  BY ServerTypeStep, HistoryTypeStep, TypeParts DEF NetInv
<1>1. SUFFICES SrvType' /\ DeviceType' /\ Protocol'
  BY <1>0 DEF NetInv, TypeOK, ServerType, SessType, SrvType, DeviceType, HistoryType, MemType
<1>2. ASSUME NEW i \in Slots, ServerStep(i) \/ ServerError(i)
      PROVE  SrvType' /\ DeviceType' /\ Protocol'
  <2>1. UNCHANGED <<device, task>>
    BY <1>2 DEF ServerStep, Register, FindUser, BookLookup, BookBegin, BookCommit, IssueTokens,
       IssuePlan, RotateRead, RotateClaim, AuthCheck, Revoke, ServerError
  <2>2. UNCHANGED <<mem, disk, task>>
    BY <2>1 DEF device
  <2>3. ServerMove(i)
    BY <1>2, ServerMoves
  <2>. QED
    BY <1>0, <2>2, <2>3, ServerMoveNet DEF SrvType, DeviceType
<1>3. CASE (\E s \in Sids : AccessExpires(s) \/ RefreshExpires(s)) \/ UNCHANGED vars
  <2>1. UNCHANGED <<srv, mem, disk, task>>
    BY <1>3 DEF AccessExpires, RefreshExpires, vars, device
  <2>. QED
    BY <1>0, <2>1 DEF SrvType, DeviceType, Protocol, CallOK, SlotsApart
<1>4. CASE SignUp \/ Login \/ Restore \/ Request \/ Logout
  BY <1>4, UserNet DEF NetOK
<1>5. ASSUME NEW c \in Calls, CallStep(c)
      PROVE  SrvType' /\ DeviceType' /\ Protocol'
  BY <1>5, UserNet, RefreshNet DEF CallStep, NetOK
<1>6. CASE Kill \/ \E c \in Calls : GiveUp(c)
  BY <1>6, FaultNet DEF NetOK
<1>. QED
  BY <1>2, <1>3, <1>4, <1>5, <1>6 DEF Next
\* The initial state.
LEMMA NetInit == Init => NetInv
<1>. SUFFICES ASSUME Init
              PROVE  NetInv
  OBVIOUS
<1>1. /\ Rest \in Tasks /\ Rest.slot = NoSlot /\ Rest.pc = "rest" /\ Rest.epoch = 0
      /\ \A c \in Calls : "rest" \in PlacesOf(c)
      /\ "rest" \notin Waiting
  BY Places DEF Rest, Tasks, NoSlot, None, Waiting
<1>2. NoSession \in [live : BOOLEAN, old : BOOLEAN, from : Sids \cup {None, NoRow}]
  BY DEF NoSession
<1>0. 0 \in 0 .. MaxBooks /\ 0 \in 0 .. MaxLogouts /\ 0 \in 0 .. MaxFaults
  BY SessionsAssumption
<1>3. ServerType
  BY <1>0, <1>2 DEF Init, ServerType, SessType
<1>4. mem = [epoch |-> 0, access |-> None, signed |-> FALSE]
  BY DEF Init
<1>5. DeviceType /\ mem.epoch = 0 /\ (mem.signed <=> mem.access \in Sids)
  BY <1>1, <1>4 DEF Init, DeviceType, MemType, None, Sids
<1>6. HistoryType
  BY <1>0 DEF Init, HistoryType
<1>7. srv \in [Slots -> Requests] /\ \A i \in Slots : srv[i] = Free
  BY FreeType DEF Init
<1>8. SrvType /\ \A i \in Slots : Stage(srv[i])
  BY <1>7, FreeType DEF SrvType
<1>9. \A c \in Calls : task[c] = Rest
  BY DEF Init
<1>10. (\A c \in Calls : CallOK(c)) /\ SlotsApart
  BY <1>1, <1>5, <1>9 DEF CallOK, SlotsApart
<1>. QED
  BY <1>3, <1>5, <1>6, <1>8, <1>10, TypeParts DEF NetInv, Protocol

\* The types and the protocol hold in every reachable state.
THEOREM NetInvariance == Spec => []NetInv
<1>1. NetInv /\ [Next]_vars => NetInv'
  BY NetStep
<1>. QED
  BY <1>1, NetInit, PTL DEF Spec

\* The types of the state, and that a request that needs an access token has
\* one: the type invariant of the run.
THEOREM TypeCorrect == Spec => []TypeOK
<1>1. NetInv => TypeOK
  BY DEF NetInv
<1>. QED
  BY <1>1, NetInvariance, PTL

-----------------------------------------------------------------------------
(***************************************************************************)
(* The sessions that go back to one login.                                 *)
(***************************************************************************)

\* A step keeps the chain of sessions: a claimed session was live, so nothing
\* came from it yet, and the id of the new one was unused, so nothing came
\* from that either.
LEMMA ForkStep ==
    ASSUME SessType, ForkInv, SessStep
    PROVE  ForkInv'
<1>0. /\ SessType'
      /\ \A s \in Sids : /\ s \notin UnusedIds => sess'[s].from = sess[s].from
                         /\ s \notin UnusedIds /\ sess'[s].live => sess[s].live
  BY SessEffect
<1>1. \A s \in Sids : s \in UnusedIds => sess[s].from = NoRow
  BY DEF UnusedIds, NoSession
<1>2. NoRow \notin Sids /\ None \notin Sids /\ None # NoRow
  BY DEF NoRow, Sids, None
<1>. SUFFICES Origins' /\ NoFork'
  BY DEF ForkInv
<1>3. ASSUME \A s \in Sids : /\ sess'[s].from = sess[s].from
                             /\ sess'[s].live => sess[s].live
      PROVE  Origins' /\ NoFork'
  BY <1>3 DEF ForkInv, Origins, NoFork
<1>4. ASSUME NEW s \in Sids,
             \/ sess' = [sess EXCEPT ![s] = Revoked(s)]
             \/ sess' = [sess EXCEPT ![s] = [live |-> sess[s].live, old |-> TRUE,
                                             from |-> sess[s].from]]
      PROVE  Origins' /\ NoFork'
  <2>1. sess'[s].from = sess[s].from /\ (sess'[s].live => sess[s].live)
    BY <1>4 DEF SessType, Revoked
  <2>2. \A u \in Sids \ {s} : sess'[u] = sess[u]
    BY <1>4 DEF SessType
  <2>. QED
    BY <1>3, <2>1, <2>2
<1>5. ASSUME NEW t \in UnusedIds, sess' = [sess EXCEPT ![t] = NewSession(None)]
      PROVE  Origins' /\ NoFork'
  <2>1. t \in Sids /\ sess[t].from = NoRow
    BY <1>1 DEF UnusedIds
  <2>2. sess'[t].from = None /\ \A u \in Sids \ {t} : sess'[u] = sess[u]
    BY <1>5, <2>1 DEF SessType, NewSession
  <2>3. \A u \in Sids : sess'[u].from \in Sids =>
            u # t /\ sess[u].from = sess'[u].from /\ sess[u].from # t
    BY <1>2, <2>1, <2>2 DEF ForkInv, Origins
  <2>. QED
    BY <1>2, <2>1, <2>2, <2>3 DEF ForkInv, Origins, NoFork
<1>6. ASSUME NEW s \in Sids, NEW t \in UnusedIds, Claimable(s), sess' = Rotated(s, t)
      PROVE  Origins' /\ NoFork'
  <2>1. t \in Sids /\ sess[t].from = NoRow /\ sess[s].live /\ sess[s].from # NoRow /\ s # t
    BY <1>1, <1>6 DEF UnusedIds, Claimable, ForkInv, Origins
  <2>2. /\ sess'[t].from = s /\ sess'[s].from = sess[s].from /\ ~sess'[s].live
        /\ \A u \in Sids \ {s, t} : sess'[u] = sess[u]
    BY <1>6, <2>1 DEF SessType, Rotated, NewSession, Revoked
  <2>3. \A u \in Sids : sess[u].from # s
    BY <2>1 DEF ForkInv, NoFork
  <2>4. \A u \in Sids \ {t} : sess'[u].from = sess[u].from /\ (sess'[u].live => sess[u].live)
    BY <2>1, <2>2
  <2>5. \A u \in Sids : sess[u].from # t
    BY <2>1 DEF ForkInv, Origins
  <2>6. Origins'
    BY <1>2, <2>1, <2>2, <2>4, <2>5 DEF ForkInv, Origins
  <2>7. NoFork'
    BY <1>2, <2>1, <2>2, <2>3, <2>4, <2>5 DEF ForkInv, NoFork
  <2>. QED
    BY <2>6, <2>7
<1>7. CASE sess' = sess
  BY <1>3, <1>7
<1>. QED
  BY <1>4, <1>5, <1>6, <1>7 DEF SessStep

\* A refresh token is exchanged once at most, however requests overlap and
\* whatever the device presents again, and the session it replaces is revoked.
THEOREM NeverForks == Spec => []NoFork
<1>1. Init => ForkInv
  BY DEF Init, ForkInv, Origins, NoFork, NoSession, NoRow, Sids
<1>2. NetInv /\ ForkInv /\ [Next]_vars => ForkInv'
  BY ForkStep, SessSteps, TypeParts DEF NetInv, ServerType
<1>3. ForkInv => NoFork
  BY DEF ForkInv
<1>. QED
  BY <1>1, <1>2, <1>3, NetInvariance, PTL DEF Spec
-----------------------------------------------------------------------------
(***************************************************************************)
(* Answers that come after a logout.                                       *)
(***************************************************************************)

\* The steps that leave the device and its histories alone.
LEMMA OutSame ==
    ASSUME OutInv, UNCHANGED <<mem, disk, out, overtaken>>,
           task'["user"] = task["user"], task'["refresh"] = task["refresh"]
    PROVE  OutInv'
  BY DEF OutInv

\* Where the call of the user and the refresh are once all is cleared.
LEMMA OutClear ==
    ASSUME NetInv, OutInv, Clear, NEW c \in Calls, End(c),
           c = "user" \/ (c = "refresh" /\ out' = out)
    PROVE  OutInv'
<1>0. /\ "user" \in Calls /\ "refresh" \in Calls /\ Rest.pc = "rest"
      /\ task \in [Calls -> Tasks] /\ mem.epoch \in Nat
      /\ task["refresh"].epoch \in Nat /\ task["refresh"].epoch <= mem.epoch
  BY DEF Calls, Rest, NetInv, TypeOK, Tasks, Protocol, CallOK
<1>1. /\ mem'.epoch = mem.epoch + 1 /\ mem'.signed = FALSE /\ disk' = None
      /\ overtaken' = (overtaken \/ \E d \in Calls : task[d].pc = "stored")
  BY DEF Clear
<1>2. \A d \in Calls : task'[d] = IF d = c THEN Rest ELSE task[d]
  BY <1>0 DEF End
<1>3. SUFFICES ASSUME out', ~overtaken'
               PROVE  /\ task'["user"].pc \in {"rest", "register"}
                      /\ task'["refresh"].pc # "stored"
                      /\ task'["refresh"].pc # "rest" => task'["refresh"].epoch < mem'.epoch
  BY <1>1 DEF OutInv
<1>4. ~overtaken /\ \A d \in Calls : task[d].pc # "stored"
  BY <1>1, <1>3
<1>5. task'["refresh"].pc # "rest" => task'["refresh"].epoch < mem'.epoch
  BY <1>0, <1>1, <1>2
<1>6. task'["refresh"].pc # "stored"
  BY <1>0, <1>2, <1>4
<1>7. task'["user"].pc \in {"rest", "register"}
  BY <1>0, <1>2, <1>3, <1>4 DEF OutInv
<1>. QED
  BY <1>5, <1>6, <1>7

\* The end of a request.
LEMMA OutFinish ==
    ASSUME NetInv, OutInv, NEW c \in Calls \ {"refresh"}, Finish(c)
    PROVE  OutInv'
<1>0. "user" \in Calls /\ "refresh" \in Calls /\ task \in [Calls -> Tasks]
  BY DEF Calls, NetInv, TypeOK
<1>1. CASE c = "user"
  <2>1. Clear /\ End(c)
    BY <1>1 DEF Finish
  <2>. QED
    BY <1>1, <2>1, OutClear
<1>2. CASE c # "user"
  <2>1. UNCHANGED <<mem, disk, out, overtaken>> /\ End(c)
    BY <1>2 DEF Finish, device
  <2>2. task'["user"] = task["user"] /\ task'["refresh"] = task["refresh"]
    BY <1>0, <1>2, <2>1 DEF End
  <2>. QED
    BY <2>1, <2>2, OutSame
<1>. QED
  BY <1>1, <1>2

\* The failure of a refresh.
LEMMA OutFails ==
    ASSUME NetInv, OutInv, RefreshFails
    PROVE  OutInv'
<1>1. "refresh" \in Calls /\ Clear /\ End("refresh") /\ out' = out
  BY DEF Calls, RefreshFails
<1>. QED
  BY <1>1, OutClear

\* After a logout no step of the device brings a session back.
LEMMA OutStep ==
    ASSUME NetInv, OutInv, [Next]_vars
    PROVE  OutInv'
<1>0. /\ Calls = {"user", "api", "refresh"}
      /\ task \in [Calls -> Tasks] /\ Rest.pc = "rest"
      /\ (mem.signed <=> mem.access \in Sids) /\ mem.access \in Sids \cup {None}
      /\ \A c \in Calls : CallOK(c)
  BY DEF Calls, NetInv, TypeOK, Rest, Protocol
<1>1. ASSUME NEW i \in Slots, ServerStep(i) \/ ServerError(i)
      PROVE  OutInv'
  <2>1. UNCHANGED <<mem, disk, task, out, overtaken>>
    BY <1>1 DEF ServerStep, Register, FindUser, BookLookup, BookBegin, BookCommit, IssueTokens,
       IssuePlan, RotateRead, RotateClaim, AuthCheck, Revoke, ServerError, device, history
  <2>. QED
    BY <2>1, OutSame
<1>2. CASE (\E s \in Sids : AccessExpires(s) \/ RefreshExpires(s)) \/ UNCHANGED vars
  <2>1. UNCHANGED <<mem, disk, task, out, overtaken>>
    BY <1>2 DEF AccessExpires, RefreshExpires, vars, device, history
  <2>. QED
    BY <2>1, OutSame
<1>3. ASSUME NEW c \in Calls, Stored(c)
      PROVE  OutInv'
  <2>1. task[c].pc = "stored" /\ UNCHANGED <<out, overtaken>>
    BY <1>3 DEF Stored, history
  <2>2. c \in {"user", "refresh"}
    BY <1>0, <2>1, Places DEF CallOK
  <2>. QED
    BY <2>1, <2>2 DEF OutInv
<1>4. CASE Login
  BY <1>4 DEF Login, OutInv
<1>5. CASE SignUp
  <2>1. /\ UNCHANGED <<mem, disk, out, overtaken>>
        /\ Send("user", "register", None, "register", FALSE)
    BY <1>5 DEF SignUp, device, history
  <2>2. task'["user"].pc = "register" /\ task'["refresh"] = task["refresh"]
    BY <1>0, <2>1 DEF Send
  <2>. QED
    BY <2>1, <2>2 DEF OutInv
<1>6. CASE Registered
  <2>1. UNCHANGED <<mem, disk, overtaken>>
    BY <1>6 DEF Registered, device
  <2>2. out' = FALSE \/ (End("user") /\ out' = out)
    BY <1>6 DEF Registered
  <2>3. End("user") => task'["user"].pc = "rest" /\ task'["refresh"] = task["refresh"]
    BY <1>0 DEF End
  <2>. QED
    BY <2>1, <2>2, <2>3 DEF OutInv
<1>7. CASE LoginAnswered
  <2>1. task["user"].pc = "login" /\ UNCHANGED <<out, overtaken>>
    BY <1>7 DEF LoginAnswered, Done
  <2>. QED
    BY <2>1 DEF OutInv
<1>8. CASE RestoreAnswered
  <2>1. task["user"].pc = "restore" /\ UNCHANGED out
    BY <1>8 DEF RestoreAnswered, Done
  <2>2. Clear \/ UNCHANGED overtaken
    BY <1>8 DEF RestoreAnswered
  <2>. QED
    BY <2>1, <2>2 DEF OutInv, Clear
<1>9. CASE Restore \/ Request \/ Logout
  <2>1. UNCHANGED <<out, overtaken>> /\ (disk # None \/ mem.signed)
    BY <1>9 DEF Restore, Request, Logout, history
  <2>. QED
    BY <2>1 DEF OutInv
<1>10. ASSUME NEW c \in Calls \ {"refresh"}, RequestAnswered(c) \/ Joined(c) \/ Retry(c)
       PROVE  OutInv'
  <2>1. Finish(c) \/ (UNCHANGED <<out, overtaken>> /\ (mem.signed \/ mem.access # None))
    BY <1>10 DEF RequestAnswered, Joined, Retry, MayRetry, Current, history
  <2>. QED
    BY <1>0, <2>1, OutFinish DEF OutInv
<1>11. CASE RefreshSend
  <2>1. RefreshFails \/ (UNCHANGED <<out, overtaken>> /\ disk # None)
    BY <1>11 DEF RefreshSend, history
  <2>. QED
    BY <2>1, OutFails DEF OutInv
<1>12. CASE RefreshAnswered
  <2>1. task["refresh"].pc = "wait"
    BY <1>12 DEF RefreshAnswered, Done
  <2>2. RefreshFails \/ (UNCHANGED <<out, overtaken>> /\ task["refresh"].epoch = mem.epoch)
    BY <1>12 DEF RefreshAnswered, SameEpoch
  <2>3. CASE RefreshFails
    BY <2>3, OutFails
  <2>4. CASE UNCHANGED <<out, overtaken>> /\ task["refresh"].epoch = mem.epoch
    <3>1. ~(task["refresh"].epoch < mem.epoch)
      BY <2>4 DEF NetInv, TypeOK
    <3>. QED
      BY <2>1, <2>4, <3>1 DEF OutInv
  <2>. QED
    BY <2>2, <2>3, <2>4
<1>13. ASSUME NEW c \in Calls, GiveUp(c)
       PROVE  OutInv'
  <2>1. \/ RefreshFails
        \/ c # "refresh" /\ Finish(c)
        \/ c # "refresh" /\ End(c) /\ UNCHANGED <<mem, disk, out, overtaken>>
    BY <1>13 DEF GiveUp, device, history
  <2>2. ASSUME c # "refresh", End(c), UNCHANGED <<mem, disk, out, overtaken>>
        PROVE  OutInv'
    <3>1. /\ task'["user"] = task["user"] \/ task'["user"].pc = "rest"
          /\ task'["refresh"] = task["refresh"]
      BY <1>0, <2>2 DEF End
    <3>. QED
      BY <2>2, <3>1 DEF OutInv
  <2>. QED
    BY <2>1, <2>2, OutFails, OutFinish
<1>14. CASE Kill
  <2>1. mem'.signed = FALSE /\ UNCHANGED <<disk, out, overtaken>>
    BY <1>14 DEF Kill, history
  <2>2. task'["user"].pc = "rest" /\ task'["refresh"].pc = "rest"
    BY <1>0, <1>14 DEF Kill
  <2>. QED
    BY <2>1, <2>2 DEF OutInv
<1>. QED
  BY <1>1, <1>2, <1>3, <1>4, <1>5, <1>6, <1>7, <1>8, <1>9, <1>10, <1>11, <1>12, <1>13, <1>14
     DEF Next, CallStep

\* An answer that comes after a logout does not sign the device in again,
\* unless its token was being stored when the device was cleared.
THEOREM LateAnswersDropped == Spec => []LateAnswerDropped
<1>1. Init => OutInv
  BY DEF Init, OutInv
<1>2. NetInv /\ OutInv /\ [Next]_vars => OutInv'
  BY OutStep
<1>3. OutInv => LateAnswerDropped
  BY DEF OutInv, LateAnswerDropped
<1>. QED
  BY <1>1, <1>2, <1>3, NetInvariance, PTL DEF Spec
-----------------------------------------------------------------------------
(***************************************************************************)
(* The book of the account.                                                *)
(***************************************************************************)

\* Steps that add no book and let no request begin one.
LEMMA BookSame ==
    ASSUME BookInv, UNCHANGED <<books, overlap>>, \A j \in Slots : Making(j)' => Making(j)
    PROVE  BookInv'
  BY DEF BookInv

\* A request the device sends has not looked for a book yet.
LEMMA FirstSteps ==
    \A op \in {"register", "login", "refresh", "logout", "api"}, sid \in Sids \cup {None} :
        Req(op, FirstStep(op), sid).pc \notin {"begin", "commit"}
  BY DEF Req, FirstStep

\* What the device does to the requests in the server: it sends one, and
\* frees the slots of those it has the answer of.
DeviceMove ==
    \A j \in Slots :
        \/ srv'[j] = srv[j]
        \/ srv'[j] = Free
        \/ \E op \in {"register", "login", "refresh", "logout", "api"}, sid \in Sids \cup {None} :
               srv'[j] = Req(op, FirstStep(op), sid)

\* A request of the device, sent.
LEMMA SendMove ==
    ASSUME NetInv, NEW c, NEW op \in {"register", "login", "refresh", "logout", "api"},
           NEW sid \in Sids \cup {None}, NEW pc, NEW retried, Send(c, op, sid, pc, retried)
    PROVE  DeviceMove
<1>1. srv \in [Slots -> Requests]
  BY DEF NetInv, TypeOK
<1>2. PICK i \in Slots : srv' = [srv EXCEPT ![i] = Req(op, FirstStep(op), sid)]
  BY DEF Send
<1>. QED
  BY <1>1, <1>2 DEF DeviceMove

\* An answer of the server, taken.
LEMMA TakenMove ==
    ASSUME NetInv, NEW c, Taken(c)
    PROVE  DeviceMove
<1>1. srv \in [Slots -> Requests]
  BY DEF NetInv, TypeOK
<1>. QED
  BY <1>1 DEF DeviceMove, Taken

\* Every step of the device does that to the requests.
LEMMA DeviceMoves ==
    ASSUME NetInv,
           \/ \E c \in Calls : CallStep(c) \/ GiveUp(c)
           \/ SignUp \/ Login \/ Restore \/ Request \/ Logout \/ Kill
           \/ UNCHANGED vars
    PROVE  DeviceMove
<1>0. /\ srv \in [Slots -> Requests] /\ mem.access \in Sids \cup {None}
      /\ disk \in Sids \cup {None} /\ None \in Sids \cup {None}
  BY DEF NetInv, TypeOK
<1>1. UNCHANGED srv => DeviceMove
  BY DEF DeviceMove
<1>2. ASSUME NEW c \in Calls, CallStep(c)
      PROVE  DeviceMove
  <2>1. CASE Stored(c) \/ Joined(c)
    BY <1>1, <2>1 DEF Stored, Joined
  <2>2. CASE LoginAnswered \/ RestoreAnswered \/ RefreshAnswered \/ RequestAnswered(c)
    BY <2>2, TakenMove DEF LoginAnswered, RestoreAnswered, RefreshAnswered, RequestAnswered
  <2>3. CASE Registered
    <3>1. \/ Taken("user")
          \/ srv' = [srv EXCEPT ![task["user"].slot] = Req("login", FirstStep("login"), None)]
      BY <2>3 DEF Registered
    <3>2. CASE srv' = [srv EXCEPT ![task["user"].slot] = Req("login", FirstStep("login"), None)]
      <4>1. \A j \in Slots : srv'[j] = srv[j] \/ srv'[j] = Req("login", FirstStep("login"), None)
        BY <1>0, <3>2
      <4>. QED
        BY <1>0, <4>1 DEF DeviceMove
    <3>. QED
      BY <3>1, <3>2, TakenMove
  <2>4. CASE RefreshSend
    <3>1. \/ UNCHANGED srv
          \/ \E i \in Slots : srv' = [srv EXCEPT ![i] = Req("refresh", FirstStep("refresh"), disk)]
      BY <2>4 DEF RefreshSend
    <3>2. ASSUME NEW i \in Slots, srv' = [srv EXCEPT ![i] = Req("refresh", FirstStep("refresh"), disk)]
          PROVE  DeviceMove
      <4>1. \A j \in Slots : srv'[j] = srv[j] \/ srv'[j] = Req("refresh", FirstStep("refresh"), disk)
        BY <1>0, <3>2
      <4>. QED
        BY <1>0, <4>1 DEF DeviceMove
    <3>. QED
      BY <1>1, <3>1, <3>2
  <2>5. CASE Retry(c)
    <3>1. \/ UNCHANGED srv
          \/ \E op \in {"logout", "api"} : Send(c, op, mem.access, "wait", TRUE)
      BY <2>5 DEF Retry
    <3>. QED
      BY <1>0, <1>1, <3>1, SendMove
  <2>. QED
    BY <1>2, <2>1, <2>2, <2>3, <2>4, <2>5 DEF CallStep
<1>3. ASSUME NEW c \in Calls, GiveUp(c)
      PROVE  DeviceMove
  <2>1. srv' = [srv EXCEPT ![task[c].slot] = IF @.pc = "done" THEN Free ELSE @]
    BY <1>3 DEF GiveUp
  <2>. QED
    BY <1>0, <2>1 DEF DeviceMove
<1>4. CASE SignUp \/ Login
  BY <1>0, <1>4, SendMove DEF SignUp, Login
<1>5. CASE Restore
  BY <1>0, <1>5, SendMove DEF Restore
<1>6. CASE Request \/ Logout
  BY <1>0, <1>6, SendMove DEF Request, Logout
<1>7. CASE Kill
  BY <1>0, <1>7 DEF Kill, DeviceMove
<1>8. CASE UNCHANGED vars
  BY <1>1, <1>8 DEF vars
<1>. QED
  BY <1>2, <1>3, <1>4, <1>5, <1>6, <1>7, <1>8

\* A statement leaves the other requests where they are.
LEMMA OthersStay ==
    ASSUME NetInv, NEW i \in Slots, ServerMove(i)
    PROVE  /\ srv' \in [Slots -> Requests]
           /\ \A j \in Slots \ {i} : srv'[j] = srv[j]
<1>1. srv \in [Slots -> Requests]
  BY DEF NetInv, TypeOK
<1>. QED
  BY <1>1 DEF ServerMove

\* Without an overlap a book is begun by one request, when there is none.
LEMMA BookStep ==
    ASSUME NetInv, BookInv, [Next]_vars
    PROVE  BookInv'
<1>0. srv \in [Slots -> Requests] /\ overlap \in BOOLEAN
  BY DEF NetInv, TypeOK
<1>1. ASSUME \/ \E c \in Calls : CallStep(c) \/ GiveUp(c)
             \/ SignUp \/ Login \/ Restore \/ Request \/ Logout \/ Kill
             \/ UNCHANGED vars
      PROVE  BookInv'
  <2>1. UNCHANGED books
    BY <1>1, DeviceLeavesServer DEF server
  <2>2. UNCHANGED overlap
    BY <1>1 DEF CallStep, Stored, Registered, LoginAnswered, RestoreAnswered, RefreshSend,
       RefreshAnswered, RequestAnswered, Joined, Retry, GiveUp, SignUp, Login, Restore, Request,
       Logout, Kill, RefreshFails, Finish, vars, history
  <2>3. \A j \in Slots : Making(j)' => Making(j)
    BY <1>1, DeviceMoves, FirstSteps, FreeType DEF DeviceMove, Making
  <2>. QED
    BY <2>1, <2>2, <2>3, BookSame
<1>2. CASE \E s \in Sids : AccessExpires(s) \/ RefreshExpires(s)
  <2>1. UNCHANGED <<books, overlap, srv>>
    BY <1>2 DEF AccessExpires, RefreshExpires, history
  <2>. QED
    BY <2>1, BookSame DEF Making
<1>3. ASSUME NEW i \in Slots, ServerStep(i) \/ ServerError(i)
      PROVE  BookInv'
  <2>0. srv' \in [Slots -> Requests] /\ \A j \in Slots \ {i} : srv'[j] = srv[j]
    BY <1>3, ServerMoves, OthersStay
  <2>1. CASE BookLookup(i) /\ NoBookYet
    <3>1. /\ books = {} /\ books' = {}
          /\ overlap' = (overlap \/ \E j \in Slots \ {i} : srv[j].pc \in {"begin", "commit"})
      BY <2>1 DEF BookLookup, NoBookYet, server
    <3>2. \A j \in Slots \ {i} : Making(j)' = Making(j)
      BY <2>0 DEF Making
    <3>3. ASSUME ~overlap'
          PROVE  \A j \in Slots \ {i} : ~Making(j)'
      BY <3>1, <3>2, <3>3 DEF Making
    <3>. QED
      BY <3>1, <3>3 DEF BookInv
  <2>2. CASE BookBegin(i)
    <3>1. UNCHANGED <<books, overlap>> /\ Making(i)
      BY <2>2 DEF BookBegin, Making, history
    <3>2. \A j \in Slots : Making(j)' => Making(j)
      BY <2>0, <3>1 DEF Making
    <3>. QED
      BY <3>1, <3>2, BookSame
  <2>3. CASE BookCommit(i)
    <3>1. UNCHANGED overlap /\ books' = books \cup {srv[i].made} /\ Making(i)
      BY <2>3 DEF BookCommit, Making, history
    <3>2. ~Making(i)'
      BY <1>0, <2>3 DEF BookCommit, Making, Goto
    <3>3. \A j \in Slots : Making(j)' => Making(j) /\ j # i
      BY <2>0, <3>2 DEF Making
    <3>. QED
      BY <3>1, <3>3 DEF BookInv
  <2>4. CASE ~(BookLookup(i) /\ NoBookYet) /\ ~BookBegin(i) /\ ~BookCommit(i)
    <3>1. UNCHANGED <<books, overlap>>
      BY <1>3, <2>4 DEF ServerStep, Register, FindUser, BookLookup, IssueTokens,
         IssuePlan, RotateRead, RotateClaim, AuthCheck, Revoke, ServerError, server, history
    <3>2. srv'[i].pc \notin {"begin", "commit"}
      <4>1. \A pc \in {"book", "issue", "claim", "revoke"} :
                Goto(i, pc) => srv'[i].pc \notin {"begin", "commit"}
        BY <1>0 DEF Goto
      <4>2. \A res, sid : Respond(i, res, sid) => srv'[i].pc \notin {"begin", "commit"}
        BY <1>0, FreeType DEF Respond
      <4>3. IssueTokens(i) => srv'[i].pc \notin {"begin", "commit"}
        BY <1>0 DEF IssueTokens
      <4>. QED
        BY <1>3, <2>4, <4>1, <4>2, <4>3 DEF ServerStep, Register, FindUser, BookLookup,
           IssuePlan, RotateRead, RotateClaim, AuthCheck, Revoke, ServerError
    <3>3. \A j \in Slots : Making(j)' => Making(j)
      BY <2>0, <3>2 DEF Making
    <3>. QED
      BY <3>1, <3>3, BookSame
  <2>. QED
    BY <2>1, <2>2, <2>3, <2>4
<1>. QED
  BY <1>1, <1>2, <1>3 DEF Next

\* The account has one book, unless two first requests overlapped.
THEOREM OneBookPerAccount == Spec => []OneBook
<1>1. Init => BookInv
  BY FreeType DEF Init, BookInv, Making
<1>2. NetInv /\ BookInv /\ [Next]_vars => BookInv'
  BY BookStep
<1>3. BookInv /\ NetInv => OneBook
  <2>. SUFFICES ASSUME BookInv, NetInv, ~overlap
                PROVE  ~(Cardinality(books) > 1)
    BY DEF OneBook
  <2>1. CASE books = {}
    BY <2>1, FS_EmptySet
  <2>2. CASE books # {}
    <3>1. PICK b \in books : TRUE
      BY <2>2
    <3>2. books = {b}
      BY <3>1 DEF BookInv
    <3>. QED
      BY <3>2, FS_Singleton
  <2>. QED
    BY <2>1, <2>2
<1>. QED
  BY <1>1, <1>2, <1>3, NetInvariance, PTL DEF Spec
-----------------------------------------------------------------------------
(***************************************************************************)
(* A device that is signed out by a failed refresh.                        *)
(***************************************************************************)

\* What is calm was calm before.
LEMMA CalmBefore ==
    ASSUME NetInv, [Next]_vars, Calm'
    PROVE  Calm
<1>1. \A s \in Sids : ~sess[s].old
  BY SessSteps, SessEffect, TypeParts DEF NetInv, ServerType, Calm
<1>2. faults \in Nat /\ logouts \in Nat
  BY SessionsAssumption DEF NetInv, TypeOK
<1>3. (faults' = faults \/ faults' = faults + 1) /\ (logouts' = logouts \/ logouts' = logouts + 1)
  <2>1. ASSUME NEW i \in Slots, ServerStep(i) \/ ServerError(i)
        PROVE  (faults' = faults \/ faults' = faults + 1) /\ logouts' = logouts
    BY <2>1 DEF ServerStep, Register, FindUser, BookLookup, BookBegin, BookCommit, IssueTokens,
       IssuePlan, RotateRead, RotateClaim, AuthCheck, Revoke, ServerError, Fault
  <2>2. ASSUME NEW c \in Calls, CallStep(c) \/ GiveUp(c)
        PROVE  (faults' = faults \/ faults' = faults + 1) /\ logouts' = logouts
    BY <2>2 DEF CallStep, Stored, Registered, LoginAnswered, RestoreAnswered, RefreshSend,
       RefreshAnswered, RequestAnswered, Joined, Retry, GiveUp, Fault
  <2>3. CASE SignUp \/ Login \/ Restore \/ Request \/ Logout \/ Kill \/ UNCHANGED vars
    BY <2>3 DEF SignUp, Login, Restore, Request, Logout, Kill, Fault, vars
  <2>4. CASE \E s \in Sids : AccessExpires(s) \/ RefreshExpires(s)
    BY <2>4 DEF AccessExpires, RefreshExpires
  <2>. QED
    BY <2>1, <2>2, <2>3, <2>4 DEF Next
<1>4. faults = 0 /\ logouts = 0
  BY <1>2, <1>3 DEF Calm
<1>. QED
  BY <1>1, <1>4 DEF Calm

\* While all is calm each kind of request has one call that waits for it.
LEMMA CalmFacts ==
    ASSUME NetInv, CalmInv, Calm
    PROVE  /\ ~kicked /\ CalmCalls /\ LiveToken
           /\ task["refresh"].pc # "rest" => mem.signed /\ task["user"].pc = "rest"
           /\ task["user"].pc # "rest" => /\ ~mem.signed
                                          /\ task["refresh"].pc = "rest"
                                          /\ disk = None \/ task["user"].pc = "stored"
           /\ \A i \in Slots :
                 /\ srv[i].op # "free" => Awaited(i)
                 /\ srv[i].op = "refresh" => task["refresh"].pc = "wait" /\ task["refresh"].slot = i
                 /\ srv[i].op = "login" => task["user"].pc = "login" /\ task["user"].slot = i
                 /\ srv[i].op # "logout"
<1>1. ~kicked /\ CalmCalls /\ LiveToken
  BY DEF CalmInv
<1>2. mem.signed \in BOOLEAN
  BY DEF NetInv, TypeOK
<1>3. ASSUME NEW i \in Slots, srv[i].op # "free"
      PROVE  /\ Awaited(i)
             /\ srv[i].op = "refresh" => task["refresh"].pc = "wait" /\ task["refresh"].slot = i
             /\ srv[i].op = "login" => task["user"].pc = "login" /\ task["user"].slot = i
             /\ srv[i].op # "logout"
  <2>1. Awaited(i)
    BY <1>1, <1>3, FreeType DEF CalmCalls
  <2>2. PICK c \in Calls : task[c].slot = i
    BY <2>1 DEF Awaited
  <2>3. i # NoSlot /\ CallOK(c)
    BY DEF Slots, NoSlot, NetInv, Protocol
  <2>4. task[c].pc \in Waiting /\ srv[i].op = OpOf(c, task[c].pc) /\ task[c].pc \in PlacesOf(c)
    BY <2>2, <2>3 DEF CallOK
  <2>5. CASE c = "user"
    <3>1. task[c].pc \in {"register", "login"}
      BY <1>1, <2>4, <2>5 DEF CalmCalls, Waiting
    <3>. QED
      BY <2>1, <2>2, <2>4, <2>5, <3>1, Places
  <2>6. CASE c = "api"
    <3>1. task[c].pc = "wait"
      BY <2>4, <2>6, Places DEF Waiting
    <3>. QED
      BY <2>1, <2>2, <2>4, <2>6, <3>1, Places
  <2>7. CASE c = "refresh"
    <3>1. task[c].pc = "wait"
      BY <2>4, <2>7, Places DEF Waiting
    <3>. QED
      BY <2>1, <2>2, <2>4, <2>7, <3>1, Places
  <2>. QED
    BY <2>5, <2>6, <2>7 DEF Calls
<1>. QED
  BY <1>1, <1>2, <1>3 DEF CalmCalls, LiveToken

\* The next statement of a request, and its response.
LEMMA Effects ==
    ASSUME NetInv, NEW i \in Slots, Awaited(i)
    PROVE  /\ \A pc : Goto(i, pc) => srv'[i].pc = pc /\ srv'[i].sid = srv[i].sid
           /\ \A res, sid : Respond(i, res, sid) =>
                  srv'[i].pc = "done" /\ srv'[i].sid = sid /\ srv'[i].res = res
<1>1. srv \in [Slots -> Requests]
  BY DEF NetInv, TypeOK
<1>. QED
  BY <1>1 DEF Goto, Respond

\* A live session goes on, unless it is claimed.
LEMMA CalmServer ==
    ASSUME NetInv, CalmInv, Calm, NEW i \in Slots, ServerStep(i)
    PROVE  ~kicked' /\ CalmCalls' /\ LiveToken'
<1>0. /\ SessType /\ Stage(srv[i]) /\ (\A s \in Sids : ~sess[s].old) /\ NoRow # None
      /\ disk \in Sids \cup {None}
  BY TypeParts DEF NetInv, ServerType, Protocol, Calm, NoRow, None, DeviceType
<1>1. /\ UNCHANGED <<mem, disk, task, kicked>>
      /\ \A j \in Slots : Awaited(j)' = Awaited(j)
  BY DEF ServerStep, Register, FindUser, BookLookup, BookBegin, BookCommit, IssueTokens,
     IssuePlan, RotateRead, RotateClaim, AuthCheck, Revoke, device, history, Awaited
<1>2. \A j \in Slots \ {i} : srv'[j] = srv[j]
  BY ServerMoves, OthersStay
<1>3. srv[i].op # "free" /\ srv[i].pc \notin {"free", "done"}
  BY <1>0, FreeType DEF Stage, ServerStep, Register, FindUser, BookLookup, BookBegin, BookCommit,
     IssueTokens, IssuePlan, RotateRead, RotateClaim, AuthCheck, Revoke, At
<1>4. Awaited(i) /\ srv[i].op # "logout" /\ ~kicked /\ CalmCalls /\ LiveToken
  BY <1>3, CalmFacts
<1>5. CalmCalls'
  <2>1. \A j \in Slots : srv'[j] # Free => Awaited(j)'
    BY <1>1, <1>2, <1>4 DEF CalmCalls
  <2>. QED
    BY <1>1, <1>4, <2>1 DEF CalmCalls
<1>6. CASE srv[i].op = "refresh"
  <2>1. /\ task["refresh"].pc = "wait" /\ task["refresh"].slot = i /\ task["user"].pc = "rest"
        /\ srv[i].sid = disk /\ sess[disk].live /\ ~sess[disk].old /\ disk \in Sids
    BY <1>0, <1>3, <1>4, <1>6, CalmFacts, FreeType DEF LiveToken, Stage
  <2>2. CASE RotateClaim(i)
    <3>1. PICK t \in UnusedIds : sess' = Rotated(disk, t) /\ Respond(i, "ok", t)
      BY <2>1, <2>2 DEF RotateClaim, Claimable
    <3>2. srv'[i].pc = "done" /\ srv'[i].sid = t /\ srv'[i].res = "ok"
      BY <1>4, <3>1, Effects
    <3>3. sess'[t].live
      BY <1>0, <3>1 DEF SessType, Rotated, NewSession, UnusedIds
    <3>. QED
      BY <1>1, <1>4, <1>5, <2>1, <3>2, <3>3 DEF LiveToken
  <2>3. CASE ~RotateClaim(i)
    <3>1. UNCHANGED sess /\ \E pc \in {"book", "begin", "commit", "claim"} :
                                srv'[i].pc = pc /\ srv'[i].sid = srv[i].sid
      <4>1. CASE RotateRead(i)
        <5>1. Goto(i, "book") /\ UNCHANGED sess
          BY <2>1, <4>1 DEF RotateRead
        <5>. QED
          BY <1>4, <5>1, Effects
      <4>2. CASE BookLookup(i) \/ BookCommit(i)
        <5>1. UNCHANGED sess /\ (Goto(i, "begin") \/ Goto(i, "claim"))
          BY <1>6, <4>2 DEF BookLookup, BookCommit, server
        <5>. QED
          BY <1>4, <5>1, Effects
      <4>3. CASE BookBegin(i)
        <5>1. srv \in [Slots -> Requests]
          BY DEF NetInv, TypeOK
        <5>. QED
          BY <4>3, <5>1 DEF BookBegin
      <4>4. srv[i].pc # "auth"
        BY <1>0, <1>6, FreeType DEF Stage
      <4>. QED
        BY <1>6, <2>3, <4>1, <4>2, <4>3, <4>4 DEF ServerStep, Register, FindUser, IssueTokens,
           IssuePlan, AuthCheck, Revoke, At
    <3>. QED
      BY <1>1, <1>4, <1>5, <2>1, <3>1 DEF LiveToken
  <2>. QED
    BY <2>2, <2>3
<1>7. CASE srv[i].op = "login"
  <2>1. /\ task["user"].pc = "login" /\ task["user"].slot = i
        /\ ~mem.signed /\ disk = None /\ task["refresh"].pc = "rest"
    BY <1>7, CalmFacts
  <2>2. SUFFICES srv'[i].pc = "plan" \/ (srv'[i].pc = "done" /\ srv'[i].res = "ok")
                     => sess'[srv'[i].sid].live
    BY <1>1, <1>4, <1>5, <2>1, <2>2 DEF LiveToken
  <2>3. CASE IssueTokens(i)
    <3>1. PICK s \in UnusedIds :
              /\ sess' = [sess EXCEPT ![s] = NewSession(None)]
              /\ srv' = [srv EXCEPT ![i] = [op |-> srv[i].op, pc |-> "plan", sid |-> s,
                                            made |-> srv[i].made, res |-> srv[i].res]]
      BY <2>3 DEF IssueTokens
    <3>2. srv'[i].sid = s /\ s \in Sids
      BY <3>1 DEF NetInv, TypeOK, UnusedIds
    <3>. QED
      BY <1>0, <3>1, <3>2 DEF SessType, NewSession
  <2>4. CASE IssuePlan(i)
    <3>1. srv'[i].sid = srv[i].sid /\ UNCHANGED sess /\ srv[i].pc = "plan"
      BY <1>4, <2>4, Effects DEF IssuePlan, server, At
    <3>. QED
      BY <1>4, <2>1, <3>1 DEF LiveToken
  <2>5. CASE BookBegin(i)
    BY <2>5 DEF BookBegin, NetInv, TypeOK
  <2>6. CASE FindUser(i) \/ BookLookup(i) \/ BookCommit(i)
    <3>1. Goto(i, "book") \/ Goto(i, "begin") \/ Goto(i, "issue") \/ Respond(i, "401", None)
      BY <1>7, <2>6 DEF FindUser, BookLookup, BookCommit
    <3>. QED
      BY <1>4, <3>1, Effects
  <2>7. srv[i].pc # "auth"
    BY <1>0, <1>7, FreeType DEF Stage
  <2>. QED
    BY <1>7, <2>3, <2>4, <2>5, <2>6, <2>7 DEF ServerStep, Register, RotateRead,
       RotateClaim, AuthCheck, Revoke, At
<1>8. CASE srv[i].op \notin {"refresh", "login"}
  <2>1. Register(i) \/ AuthCheck(i)
    BY <1>0, <1>4, <1>8, FreeType DEF ServerStep, FindUser, BookLookup, BookBegin, BookCommit,
       IssueTokens, IssuePlan, RotateRead, RotateClaim, Revoke, At, Stage
  <2>2. UNCHANGED sess
    BY <2>1 DEF Register, AuthCheck, server
  <2>3. /\ task["refresh"].pc = "wait" => /\ srv[task["refresh"].slot].op = "refresh"
                                          /\ task["refresh"].slot \in Slots
        /\ task["user"].pc = "login" => /\ srv[task["user"].slot].op = "login"
                                        /\ task["user"].slot \in Slots
    BY WaitingFacts, Places DEF NetInv, Protocol, CallOK, Waiting
  <2>4. /\ task["refresh"].pc = "wait" => srv'[task["refresh"].slot] = srv[task["refresh"].slot]
        /\ task["user"].pc = "login" => srv'[task["user"].slot] = srv[task["user"].slot]
    BY <1>2, <1>8, <2>3
  <2>. QED
    BY <1>1, <1>4, <1>5, <2>2, <2>4 DEF LiveToken
<1>. QED
  BY <1>6, <1>7, <1>8
\* The requests somebody waits for, when one call moves.
LEMMA AwaitedKept ==
    ASSUME NetInv, CalmCalls, NEW c \in Calls,
           \A d \in Calls \ {c} : task'[d].slot = task[d].slot,
           \A i \in Slots : \/ srv'[i] = Free
                            \/ srv'[i] = srv[i] /\ task[c].slot # i
                            \/ task'[c].slot = i
    PROVE  \A i \in Slots : srv'[i] # Free => Awaited(i)'
<1>. SUFFICES ASSUME NEW i \in Slots, srv'[i] # Free
              PROVE  Awaited(i)'
  OBVIOUS
<1>1. CASE task'[c].slot = i
  BY <1>1 DEF Awaited
<1>2. CASE srv'[i] = srv[i] /\ task[c].slot # i
  BY <1>2 DEF Awaited, CalmCalls
<1>. QED
  BY <1>1, <1>2

\* An API request moves, and may begin a refresh.
LEMMA CalmApi ==
    ASSUME NetInv, CalmInv, Calm, UNCHANGED <<sess, mem, disk, kicked>>,
           task'["user"] = task["user"],
           \/ task'["refresh"] = task["refresh"]
           \/ /\ mem.signed
              /\ task["refresh"].pc = "rest" /\ task'["refresh"].pc = "read"
              /\ task'["refresh"].slot = NoSlot /\ task'["refresh"].epoch = mem.epoch,
           mem.signed \/ task'["api"].pc = "rest",
           \A i \in Slots : \/ srv'[i] = Free /\ task["api"].slot = i
                            \/ srv'[i] = srv[i] /\ task["api"].slot # i
                            \/ task'["api"].slot = i /\ srv[i] = Free
    PROVE  ~kicked' /\ CalmCalls' /\ LiveToken'
<1>0. /\ Calls = {"user", "api", "refresh"} /\ mem.signed \in BOOLEAN
      /\ task["refresh"].pc = "rest" => task["refresh"].slot = NoSlot
  BY DEF Calls, NetInv, TypeOK, Protocol, CallOK, Rest
<1>1. ~kicked /\ CalmCalls /\ LiveToken
  BY CalmFacts
<1>2. \A d \in Calls \ {"api"} : task'[d].slot = task[d].slot
  BY <1>0
<1>3. \A i \in Slots : srv'[i] # Free => Awaited(i)'
  BY <1>0, <1>1, <1>2, AwaitedKept
<1>4. CalmCalls'
  BY <1>0, <1>1, <1>3 DEF CalmCalls
<1>5. ASSUME NEW d \in {"user", "refresh"}, task[d].slot # NoSlot
      PROVE  srv'[task[d].slot] = srv[task[d].slot]
  <2>1. d \in Calls /\ "api" \in Calls /\ d # "api"
    BY <1>0
  <2>2. task[d].slot \in Slots /\ srv[task[d].slot].op # "free" /\ task["api"].slot # task[d].slot
    BY <1>5, <2>1, WaitingFacts
  <2>. QED
    BY <2>2, FreeType
<1>6. /\ task["refresh"].pc = "wait" => task["refresh"].slot # NoSlot
      /\ task["user"].pc = "login" => task["user"].slot # NoSlot
  BY <1>0 DEF NetInv, Protocol, CallOK, Waiting
<1>7. /\ task["refresh"].pc = "wait" => srv'[task["refresh"].slot] = srv[task["refresh"].slot]
      /\ task["user"].pc = "login" => srv'[task["user"].slot] = srv[task["user"].slot]
  BY <1>5, <1>6
<1>8. LiveToken'
  <2>1. CASE task'["refresh"] = task["refresh"]
    BY <1>1, <1>7, <2>1 DEF LiveToken
  <2>2. CASE task["refresh"].pc = "rest" /\ task'["refresh"].pc = "read"
    BY <1>1, <1>7, <2>2 DEF LiveToken
  <2>. QED
    BY <2>1, <2>2
<1>. QED
  BY <1>1, <1>4, <1>8

\* The steps of an API request.
LEMMA CalmRequests ==
    ASSUME NetInv, CalmInv, Calm,
           \/ Request
           \/ \E c \in Calls \ {"refresh"} : RequestAnswered(c) \/ Joined(c) \/ Retry(c)
    PROVE  ~kicked' /\ CalmCalls' /\ LiveToken'
<1>0. /\ Calls = {"user", "api", "refresh"} /\ "api" \in Calls /\ "refresh" \in Calls
      /\ task \in [Calls -> Tasks] /\ srv \in [Slots -> Requests]
      /\ mem.signed \in BOOLEAN /\ NoSlot \notin Slots /\ Rest.slot = NoSlot /\ Rest.pc = "rest"
      /\ CalmCalls
  BY CalmFacts DEF Calls, NetInv, TypeOK, NoSlot, Slots, Rest
<1>. DEFINE Slotted == \A i \in Slots : \/ srv'[i] = Free /\ task["api"].slot = i
                                        \/ srv'[i] = srv[i] /\ task["api"].slot # i
                                        \/ task'["api"].slot = i /\ srv[i] = Free
<1>1. ASSUME NEW op, NEW sid, NEW pc, NEW retried, Send("api", op, sid, pc, retried),
             task["api"].slot = NoSlot, UNCHANGED <<sess, mem, disk, kicked>>, mem.signed
      PROVE  ~kicked' /\ CalmCalls' /\ LiveToken'
  <2>1. /\ task'["user"] = task["user"] /\ task'["refresh"] = task["refresh"] /\ Slotted
    BY <1>0, <1>1 DEF Send, FreeSlot
  <2>. QED
    BY <1>1, <2>1, CalmApi
<1>2. CASE Request
  <2>1. /\ Send("api", "api", mem.access, "wait", FALSE) /\ UNCHANGED <<sess, mem, disk, kicked>>
        /\ mem.signed /\ task["api"] = Rest
    BY <1>2 DEF Request, server, device, history
  <2>. QED
    BY <1>0, <1>1, <2>1
<1>3. ASSUME NEW c \in Calls \ {"refresh"}, RequestAnswered(c) \/ Joined(c) \/ Retry(c)
      PROVE  ~kicked' /\ CalmCalls' /\ LiveToken'
  <2>1. task[c].pc \in {"wait", "join", "retry"}
    BY <1>3 DEF RequestAnswered, Joined, Retry, Done
  <2>2. c = "api" /\ mem.signed
    BY <1>0, <2>1 DEF CalmCalls
  <2>3. /\ task["api"].pc = "wait" => task["api"].slot \in Slots
        /\ task["api"].pc # "wait" => task["api"].slot = NoSlot
    BY <1>0, <2>1, <2>2, WaitingFacts DEF NetInv, Protocol, CallOK, Waiting
  <2>4. CASE RequestAnswered("api")
    <3>1. \A i \in Slots : \/ srv'[i] = Free /\ task["api"].slot = i
                           \/ srv'[i] = srv[i] /\ task["api"].slot # i
      BY <1>0, <2>4 DEF RequestAnswered, Taken
    <3>2. UNCHANGED <<sess, mem, disk, kicked>>
      BY <2>4 DEF RequestAnswered, Finish, server, device, history
    <3>3. CASE End("api")
      <4>1. task'["user"] = task["user"] /\ task'["refresh"] = task["refresh"]
        BY <1>0, <3>3 DEF End
      <4>. QED
        BY <2>2, <3>1, <3>2, <4>1, CalmApi
    <3>4. CASE ~End("api")
      <4>1. PICK t, u :
              /\ task' = [task EXCEPT !["api"] = t, !["refresh"] = u]
              /\ \/ u = task["refresh"]
                 \/ /\ task["refresh"] = Rest
                    /\ u = [pc |-> "read", slot |-> NoSlot, sid |-> None,
                            epoch |-> mem.epoch, retried |-> FALSE]
        BY <2>4, <3>4 DEF RequestAnswered, Finish
      <4>2. task'["user"] = task["user"] /\ task'["refresh"] = u
        BY <1>0, <4>1
      <4>3. \/ task'["refresh"] = task["refresh"]
            \/ /\ task["refresh"].pc = "rest" /\ task'["refresh"].pc = "read"
               /\ task'["refresh"].slot = NoSlot /\ task'["refresh"].epoch = mem.epoch
        BY <1>0, <4>1, <4>2
      <4>. QED
        BY <2>2, <3>1, <3>2, <4>2, <4>3, CalmApi
    <3>. QED
      BY <3>3, <3>4
  <2>5. CASE Joined("api")
    <3>1. /\ UNCHANGED <<srv, sess, mem, disk, kicked>> /\ task["api"].slot = NoSlot
          /\ task'["user"] = task["user"] /\ task'["refresh"] = task["refresh"]
      BY <1>0, <2>3, <2>5 DEF Joined, Finish, End, server, device, history
    <3>2. Slotted
      BY <1>0, <3>1
    <3>. QED
      BY <2>2, <3>1, <3>2, CalmApi
  <2>6. CASE Retry("api")
    <3>1. task["api"].slot = NoSlot /\ UNCHANGED <<sess, mem, disk, kicked>>
      BY <2>3, <2>6 DEF Retry, Finish, server, device, history
    <3>2. Send("api", "api", mem.access, "wait", TRUE) \/ (End("api") /\ UNCHANGED srv)
      BY <2>6 DEF Retry, Finish
    <3>3. CASE End("api") /\ UNCHANGED srv
      <4>1. task'["user"] = task["user"] /\ task'["refresh"] = task["refresh"] /\ Slotted
        BY <1>0, <3>1, <3>3 DEF End
      <4>. QED
        BY <2>2, <3>1, <4>1, CalmApi
    <3>. QED
      BY <1>1, <2>2, <3>1, <3>2, <3>3
  <2>. QED
    BY <1>3, <2>2, <2>4, <2>5, <2>6
<1>. QED
  BY <1>2, <1>3

\* A call of the user that signs in; the refresh rests.
LEMMA CalmUser ==
    ASSUME NetInv, CalmInv, Calm,
           \/ Stored("user") \/ SignUp \/ Login \/ Registered \/ LoginAnswered
           \/ Restore \/ RestoreAnswered
    PROVE  ~kicked' /\ CalmCalls' /\ LiveToken'
<1>0. /\ Calls = {"user", "api", "refresh"} /\ "user" \in Calls
      /\ task \in [Calls -> Tasks] /\ srv \in [Slots -> Requests]
      /\ NoSlot \notin Slots /\ Rest.slot = NoSlot /\ Rest.pc = "rest"
      /\ ~kicked /\ CalmCalls /\ LiveToken
      /\ None \notin Sids /\ (mem.signed => mem.access \in Sids) /\ mem.signed \in BOOLEAN
  BY CalmFacts DEF Calls, NetInv, TypeOK, NoSlot, Slots, Rest, Protocol, None, Sids
<1>1. UNCHANGED sess
  BY DEF Stored, SignUp, Login, Registered, LoginAnswered, Restore, RestoreAnswered, server
<1>2. task["user"].pc # "rest" \/ ~mem.signed
  BY DEF Stored, SignUp, Login, Registered, LoginAnswered, Restore, RestoreAnswered, Done
<1>3. ~mem.signed /\ task["api"].pc = "rest" /\ task["refresh"].pc = "rest"
  BY <1>0, <1>2 DEF CalmCalls
<1>4. disk = None \/ task["user"].pc = "stored"
  BY <1>0, <1>3 DEF LiveToken
<1>5. ASSUME NEW t, NEW r, NEW i \in Slots \cup {NoSlot},
             task' = [task EXCEPT !["user"] = t], srv' = [srv EXCEPT ![i] = r],
             UNCHANGED kicked, r = Free \/ t.slot = i, task["user"].slot \in {i, NoSlot},
             t.pc \in {"rest", "register", "login", "stored"}
      PROVE  /\ \A j \in Slots : srv'[j] # Free => Awaited(j)'
             /\ task'["user"] = t /\ task'["refresh"].pc = "rest" /\ task'["api"].pc = "rest"
  <2>1. task'["user"] = t /\ task'["api"] = task["api"] /\ task'["refresh"] = task["refresh"]
    BY <1>0, <1>5
  <2>2. \A j \in Slots : \/ srv'[j] = Free
                         \/ srv'[j] = srv[j] /\ task["user"].slot # j
                         \/ task'["user"].slot = j
    BY <1>0, <1>5, <2>1
  <2>3. \A d \in Calls \ {"user"} : task'[d].slot = task[d].slot
    BY <1>0, <2>1
  <2>. QED
    BY <1>0, <1>3, <2>1, <2>2, <2>3, AwaitedKept
<1>6. CASE Stored("user")
  <2>1. /\ task["user"].pc = "stored" /\ End("user") /\ UNCHANGED <<srv, disk, kicked>>
        /\ mem'.signed = TRUE
    BY <1>6 DEF Stored, history
  <2>2. task'["user"] = Rest /\ task'["refresh"] = task["refresh"] /\ task'["api"] = task["api"]
    BY <1>0, <2>1 DEF End
  <2>3. task["user"].slot = NoSlot /\ task["user"].sid \in Sids
    BY <1>0, <2>1 DEF NetInv, Protocol, CallOK, Waiting
  <2>4. \A j \in Slots : srv'[j] # Free => Awaited(j)'
    <3>1. \A d \in Calls : task'[d].slot = task[d].slot
      BY <1>0, <2>2, <2>3
    <3>. QED
      BY <1>0, <2>1, <3>1 DEF CalmCalls, Awaited
  <2>5. CalmCalls'
    BY <1>0, <1>3, <2>1, <2>2, <2>4 DEF CalmCalls
  <2>6. LiveToken'
    BY <1>0, <1>1, <1>3, <2>1, <2>2, <2>3 DEF LiveToken
  <2>. QED
    BY <1>0, <2>1, <2>5, <2>6
<1>7. CASE SignUp \/ Login
  <2>1. /\ UNCHANGED <<mem, disk, kicked>> /\ task["user"] = Rest
        /\ \E op \in {"register", "login"} : Send("user", op, None, op, FALSE)
    BY <1>7 DEF SignUp, Login, device, history
  <2>2. PICK op \in {"register", "login"}, i \in Slots :
            /\ srv' = [srv EXCEPT ![i] = Req(op, FirstStep(op), None)]
            /\ task' = [task EXCEPT !["user"] = [pc |-> op, slot |-> i, sid |-> None,
                                                 epoch |-> mem.epoch, retried |-> FALSE]]
    BY <2>1 DEF Send
  <2>3. /\ \A j \in Slots : srv'[j] # Free => Awaited(j)'
        /\ task'["user"].pc = op /\ task'["user"].slot = i
        /\ task'["refresh"].pc = "rest" /\ task'["api"].pc = "rest"
    BY <1>0, <1>5, <2>1, <2>2
  <2>4. CalmCalls'
    BY <1>3, <2>1, <2>3 DEF CalmCalls
  <2>5. srv'[i].pc \in {"insert", "user"}
    BY <1>0, <2>2 DEF Req, FirstStep
  <2>6. LiveToken'
    BY <1>0, <1>3, <1>4, <2>1, <2>3, <2>5 DEF LiveToken
  <2>. QED
    BY <1>0, <2>1, <2>4, <2>6
<1>8. CASE Registered
  <2>. DEFINE i == task["user"].slot
  <2>1. /\ UNCHANGED <<mem, disk, kicked>> /\ task["user"].pc = "register"
        /\ \/ /\ srv' = [srv EXCEPT ![i] = Req("login", FirstStep("login"), None)]
              /\ task' = [task EXCEPT !["user"] = Step("user", "login", i)]
           \/ srv' = [srv EXCEPT ![i] = Free] /\ task' = [task EXCEPT !["user"] = Rest]
    BY <1>8 DEF Registered, Done, Taken, End, device
  <2>2. i \in Slots
    BY <1>0, <2>1, WaitingFacts DEF NetInv, Protocol, CallOK, Waiting
  <2>3. disk = None
    BY <1>4, <2>1
  <2>4. Step("user", "login", i).slot = i /\ Step("user", "login", i).pc = "login"
    BY DEF Step
  <2>5. PICK j \in Slots, t \in {Step("user", "login", i), Rest},
             r \in {Req("login", FirstStep("login"), None), Free} :
            /\ srv' = [srv EXCEPT ![j] = r] /\ task' = [task EXCEPT !["user"] = t]
            /\ j = i /\ (r = Free \/ t.slot = j) /\ t.pc \in {"rest", "login"}
            /\ t.pc = "login" => t.slot = j
    BY <1>0, <2>1, <2>2, <2>4
  <2>6. /\ \A k \in Slots : srv'[k] # Free => Awaited(k)'
        /\ task'["user"] = t /\ task'["refresh"].pc = "rest" /\ task'["api"].pc = "rest"
    BY <1>0, <1>5, <2>1, <2>5
  <2>7. srv'[j].pc \in {"user", "free"}
    BY <1>0, <2>5, FreeType DEF Req, FirstStep
  <2>8. CalmCalls'
    BY <1>3, <2>1, <2>5, <2>6 DEF CalmCalls
  <2>9. LiveToken'
    BY <1>3, <2>1, <2>3, <2>5, <2>6, <2>7 DEF LiveToken
  <2>. QED
    BY <1>0, <2>1, <2>8, <2>9
<1>9. CASE LoginAnswered
  <2>. DEFINE i == task["user"].slot
  <2>1. /\ UNCHANGED <<mem, kicked>> /\ task["user"].pc = "login" /\ srv[i].pc = "done"
        /\ srv' = [srv EXCEPT ![i] = Free]
        /\ \/ /\ srv[i].res = "ok" /\ disk' = srv[i].sid
              /\ task' = [task EXCEPT !["user"] =
                     [pc |-> "stored", slot |-> NoSlot, sid |-> srv[i].sid,
                      epoch |-> task["user"].epoch, retried |-> task["user"].retried]]
           \/ disk' = disk /\ task' = [task EXCEPT !["user"] = Rest]
    BY <1>9 DEF LoginAnswered, Done, Taken, End, Accept, StoreToken, Answer
  <2>2. i \in Slots
    BY <1>0, <2>1, WaitingFacts DEF NetInv, Protocol, CallOK, Waiting
  <2>3. disk = None
    BY <1>4, <2>1
  <2>4. srv[i].res = "ok" => srv[i].sid \in Sids /\ sess[srv[i].sid].live
    <3>1. Done("user", "login") /\ "login" \in Waiting
      BY <2>1 DEF Done, Waiting
    <3>2. srv[i].res = "ok" => srv[i].sid \in Sids
      BY <1>0, <3>1, AnswerFacts, Places DEF Answer
    <3>. QED
      BY <1>0, <2>1, <3>2 DEF LiveToken
  <2>5. PICK j, t :
            /\ j \in Slots
            /\ srv' = [srv EXCEPT ![j] = Free] /\ task' = [task EXCEPT !["user"] = t]
            /\ j = i /\ t.pc \in {"rest", "stored"}
            /\ t.pc = "stored" => disk' = t.sid /\ disk' \in Sids /\ sess[disk'].live
            /\ t.pc = "rest" => disk' = None
    <3>1. CASE disk' = disk /\ task' = [task EXCEPT !["user"] = Rest]
      BY <1>0, <2>1, <2>2, <2>3, <3>1
    <3>2. CASE srv[i].res = "ok" /\ disk' = srv[i].sid
      <4>. DEFINE u == [pc |-> "stored", slot |-> NoSlot, sid |-> srv[i].sid,
                        epoch |-> task["user"].epoch, retried |-> task["user"].retried]
      <4>1. u.pc = "stored" /\ u.sid = srv[i].sid
        OBVIOUS
      <4>2. task' = [task EXCEPT !["user"] = u] \/ (disk' = disk /\ task' = [task EXCEPT !["user"] = Rest])
        BY <2>1
      <4>. HIDE DEF u
      <4>3. CASE task' = [task EXCEPT !["user"] = u]
        BY <2>1, <2>2, <2>4, <3>2, <4>1, <4>3
      <4>. QED
        BY <3>1, <4>2, <4>3
    <3>. QED
      BY <2>1, <3>1, <3>2
  <2>6. /\ \A k \in Slots : srv'[k] # Free => Awaited(k)'
        /\ task'["user"] = t /\ task'["refresh"].pc = "rest" /\ task'["api"].pc = "rest"
    <3>1. /\ task["user"].slot \in {j, NoSlot} /\ j \in Slots \cup {NoSlot} /\ UNCHANGED kicked
          /\ t.pc \in {"rest", "register", "login", "stored"}
      BY <2>1, <2>5
    <3>2. task' = [task EXCEPT !["user"] = t] /\ srv' = [srv EXCEPT ![j] = Free]
      BY <2>5
    <3>. QED
      BY <1>5, <3>1, <3>2
  <2>7. CalmCalls'
    BY <1>3, <2>1, <2>5, <2>6 DEF CalmCalls
  <2>8. LiveToken'
    BY <1>0, <1>1, <1>3, <2>1, <2>5, <2>6 DEF LiveToken
  <2>. QED
    BY <1>0, <2>1, <2>7, <2>8
<1>10. CASE Restore \/ RestoreAnswered
  <2>1. (task["user"] = Rest /\ disk # None) \/ task["user"].pc = "restore"
    BY <1>10 DEF Restore, RestoreAnswered, Done
  <2>. QED
    BY <1>0, <1>4, <2>1 DEF CalmCalls
<1>. QED
  BY <1>6, <1>7, <1>8, <1>9, <1>10
\* The refresh presents the live token, and gets its replacement.
LEMMA CalmRefresh ==
    ASSUME NetInv, CalmInv, Calm, Stored("refresh") \/ RefreshSend \/ RefreshAnswered
    PROVE  ~kicked' /\ CalmCalls' /\ LiveToken'
<1>0. /\ Calls = {"user", "api", "refresh"} /\ "refresh" \in Calls
      /\ task \in [Calls -> Tasks] /\ srv \in [Slots -> Requests]
      /\ NoSlot \notin Slots /\ Rest.slot = NoSlot /\ Rest.pc = "rest"
      /\ ~kicked /\ CalmCalls /\ LiveToken
      /\ None \notin Sids /\ mem.signed \in BOOLEAN /\ disk \in Sids \cup {None}
  BY CalmFacts DEF Calls, NetInv, TypeOK, NoSlot, Slots, Rest, None, Sids
<1>1. UNCHANGED sess
  BY DEF Stored, RefreshSend, RefreshAnswered, server
<1>2. task["refresh"].pc # "rest"
  BY DEF Stored, RefreshSend, RefreshAnswered, Done
<1>3. mem.signed /\ task["user"].pc = "rest" /\ disk # None /\ task["refresh"].epoch = mem.epoch
  BY <1>0, <1>2, CalmFacts DEF CalmCalls, LiveToken
<1>4. CASE Stored("refresh")
  <2>1. /\ task["refresh"].pc = "stored" /\ End("refresh") /\ UNCHANGED <<srv, disk, kicked>>
        /\ mem'.signed = TRUE /\ mem'.epoch = mem.epoch
    BY <1>4 DEF Stored, history
  <2>2. task'["refresh"] = Rest /\ task'["user"] = task["user"] /\ task'["api"] = task["api"]
    BY <1>0, <2>1 DEF End
  <2>3. task["refresh"].slot = NoSlot
    BY <1>0, <2>1 DEF NetInv, Protocol, CallOK, Waiting
  <2>4. \A j \in Slots : srv'[j] # Free => Awaited(j)'
    <3>1. \A d \in Calls : task'[d].slot = task[d].slot
      BY <1>0, <2>2, <2>3
    <3>. QED
      BY <1>0, <2>1, <3>1 DEF CalmCalls, Awaited
  <2>5. CalmCalls'
    BY <1>0, <1>3, <2>1, <2>2, <2>4 DEF CalmCalls
  <2>6. LiveToken'
    BY <1>0, <1>1, <1>3, <2>1, <2>2 DEF LiveToken
  <2>. QED
    BY <1>0, <2>1, <2>5, <2>6
<1>5. CASE RefreshSend
  <2>1. /\ task["refresh"].pc = "read" /\ UNCHANGED <<mem, disk, kicked>>
        /\ \E i \in Slots :
              /\ srv' = [srv EXCEPT ![i] = Req("refresh", FirstStep("refresh"), disk)]
              /\ task' = [task EXCEPT !["refresh"] = Step("refresh", "wait", i)]
    BY <1>3, <1>5 DEF RefreshSend, device, history
  <2>2. PICK i \in Slots :
            /\ srv' = [srv EXCEPT ![i] = Req("refresh", FirstStep("refresh"), disk)]
            /\ task' = [task EXCEPT !["refresh"] = Step("refresh", "wait", i)]
    BY <2>1
  <2>3. /\ task'["refresh"].pc = "wait" /\ task'["refresh"].slot = i
        /\ task'["refresh"].epoch = task["refresh"].epoch
        /\ task'["user"] = task["user"] /\ task'["api"] = task["api"]
    BY <1>0, <2>2 DEF Step
  <2>4. srv'[i].pc = "read" /\ srv'[i].sid = disk /\ \A j \in Slots \ {i} : srv'[j] = srv[j]
    BY <1>0, <2>2 DEF Req, FirstStep
  <2>5. task["refresh"].slot = NoSlot
    BY <1>0, <2>1 DEF NetInv, Protocol, CallOK, Waiting
  <2>6. \A j \in Slots : srv'[j] # Free => Awaited(j)'
    <3>1. \A d \in Calls \ {"refresh"} : task'[d].slot = task[d].slot
      BY <1>0, <2>3
    <3>2. \A j \in Slots : \/ srv'[j] = Free
                           \/ srv'[j] = srv[j] /\ task["refresh"].slot # j
                           \/ task'["refresh"].slot = j
      BY <1>0, <2>3, <2>4, <2>5
    <3>. QED
      BY <1>0, <3>1, <3>2, AwaitedKept
  <2>7. CalmCalls'
    BY <1>0, <1>3, <2>1, <2>3, <2>6 DEF CalmCalls
  <2>8. sess[disk].live
    BY <1>0, <1>3, <2>1 DEF LiveToken
  <2>9. LiveToken'
    BY <1>1, <1>3, <2>1, <2>3, <2>4, <2>8 DEF LiveToken
  <2>. QED
    BY <1>0, <2>1, <2>7, <2>9
<1>6. CASE RefreshAnswered
  <2>. DEFINE i == task["refresh"].slot
              s == srv[i].sid
              t == [pc |-> "stored", slot |-> NoSlot, sid |-> s,
                    epoch |-> task["refresh"].epoch, retried |-> task["refresh"].retried]
  <2>1. task["refresh"].pc = "wait" /\ srv[i].pc = "done" /\ srv' = [srv EXCEPT ![i] = Free]
    BY <1>6 DEF RefreshAnswered, Done, Taken
  <2>2. srv[i].res = "ok" /\ sess[s].live
    BY <1>0, <2>1 DEF LiveToken
  <2>3. i \in Slots /\ s \in Sids
    <3>1. Done("refresh", "wait") /\ "wait" \in Waiting
      BY <2>1 DEF Done, Waiting
    <3>. QED
      BY <1>0, <2>2, <3>1, AnswerFacts, Places DEF Answer
  <2>4. UNCHANGED <<mem, kicked>> /\ disk' = s /\ task' = [task EXCEPT !["refresh"] = t]
    <3>1. Answer("refresh").res = "ok" /\ SameEpoch("refresh")
      BY <1>3, <2>2 DEF Answer, SameEpoch
    <3>. QED
      BY <1>6, <3>1 DEF RefreshAnswered, Accept, StoreToken, Answer
  <2>5. t.pc = "stored" /\ t.sid = s /\ t.epoch = task["refresh"].epoch
    OBVIOUS
  <2>. HIDE DEF t, s
  <2>6. task'["refresh"] = t /\ task'["user"] = task["user"] /\ task'["api"] = task["api"]
    BY <1>0, <2>4
  <2>7. \A j \in Slots : srv'[j] # Free => Awaited(j)'
    <3>1. \A d \in Calls \ {"refresh"} : task'[d].slot = task[d].slot
      BY <1>0, <2>6
    <3>2. \A j \in Slots : srv'[j] = Free \/ (srv'[j] = srv[j] /\ task["refresh"].slot # j)
      BY <1>0, <2>1
    <3>. QED
      BY <1>0, <3>1, <3>2, AwaitedKept
  <2>8. CalmCalls'
    BY <1>0, <1>3, <2>4, <2>5, <2>6, <2>7 DEF CalmCalls
  <2>9. sess'[disk'].live /\ disk' # None /\ disk' = task'["refresh"].sid
    BY <1>0, <1>1, <2>2, <2>3, <2>4, <2>5, <2>6
  <2>10. LiveToken'
    BY <1>3, <2>4, <2>5, <2>6, <2>9 DEF LiveToken
  <2>. QED
    BY <1>0, <2>4, <2>8, <2>10
<1>. QED
  BY <1>4, <1>5, <1>6

\* While all is calm the device holds the live token, or is about to get it.
LEMMA CalmStep ==
    ASSUME NetInv, CalmInv, [Next]_vars
    PROVE  CalmInv'
<1>1. SUFFICES ASSUME Calm'
               PROVE  ~kicked' /\ CalmCalls' /\ LiveToken'
  BY DEF CalmInv
<1>2. Calm
  BY <1>1, CalmBefore
<1>3. ~kicked /\ CalmCalls /\ LiveToken
  BY <1>2, CalmFacts
<1>4. ASSUME NEW i \in Slots, ServerStep(i)
      PROVE  ~kicked' /\ CalmCalls' /\ LiveToken'
  BY <1>2, <1>4, CalmServer
<1>5. faults' = faults /\ faults \in Nat /\ logouts' = logouts /\ logouts \in Nat
  BY <1>1, <1>2, SessionsAssumption DEF Calm
<1>6. ASSUME NEW i \in Slots, ServerError(i)
      PROVE  FALSE
  <2>1. srv[i].pc \notin {"free", "done"} /\ (Awaited(i) => Fault)
    BY <1>6 DEF ServerError
  <2>2. srv[i] # Free
    BY <2>1, FreeType
  <2>3. Fault
    BY <1>3, <2>1, <2>2 DEF CalmCalls
  <2>. QED
    BY <1>5, <2>3 DEF Fault
<1>7. CASE (\E s \in Sids : AccessExpires(s)) \/ UNCHANGED vars
  <2>1. UNCHANGED <<sess, srv, mem, disk, task, kicked>>
    BY <1>7 DEF AccessExpires, vars, server, device, history
  <2>2. CalmCalls'
    BY <1>3, <2>1 DEF CalmCalls, Awaited
  <2>3. LiveToken'
    BY <1>3, <2>1 DEF LiveToken
  <2>. QED
    BY <1>3, <2>1, <2>2, <2>3
<1>8. ASSUME NEW s \in Sids, RefreshExpires(s)
      PROVE  FALSE
  <2>1. sess \in [Sids -> [live : BOOLEAN, old : BOOLEAN, from : Sids \cup {None, NoRow}]]
    BY DEF NetInv, TypeOK
  <2>2. sess'[s].old = TRUE
    BY <1>8, <2>1 DEF RefreshExpires
  <2>. QED
    BY <1>1, <2>2 DEF Calm
<1>9. ASSUME NEW c \in Calls, CallStep(c)
      PROVE  ~kicked' /\ CalmCalls' /\ LiveToken'
  <2>1. CASE Stored(c)
    <3>1. c \in {"user", "refresh"}
      BY <2>1, Places DEF Stored, NetInv, Protocol, CallOK
    <3>. QED
      BY <1>2, <2>1, <3>1, CalmUser, CalmRefresh
  <2>2. CASE Registered \/ LoginAnswered \/ RestoreAnswered
    BY <1>2, <2>2, CalmUser
  <2>3. CASE RefreshSend \/ RefreshAnswered
    BY <1>2, <2>3, CalmRefresh
  <2>4. CASE c # "refresh" /\ (RequestAnswered(c) \/ Joined(c) \/ Retry(c))
    BY <1>2, <2>4, CalmRequests
  <2>. QED
    BY <1>9, <2>1, <2>2, <2>3, <2>4 DEF CallStep
<1>10. CASE SignUp \/ Login \/ Restore
  BY <1>2, <1>10, CalmUser
<1>11. CASE Request
  BY <1>2, <1>11, CalmRequests
<1>12. CASE Logout \/ Kill \/ \E c \in Calls : GiveUp(c)
  <2>1. logouts' = logouts + 1 \/ Fault
    BY <1>12 DEF Logout, Kill, GiveUp
  <2>2. ~(logouts' = logouts + 1) /\ ~Fault
    BY <1>5 DEF Fault
  <2>. QED
    BY <2>1, <2>2
<1>. QED
  BY <1>4, <1>6, <1>7, <1>8, <1>9, <1>10, <1>11, <1>12 DEF Next

\* A device that gave up nothing and saw no error is signed out by a failed
\* refresh only after thirty idle days or a logout.
THEOREM NeverKickedOut == Spec => []NotKickedOut
<1>1. Init => CalmInv
  <2>. SUFFICES ASSUME Init
                PROVE  ~kicked /\ CalmCalls /\ LiveToken
    BY DEF CalmInv
  <2>1. /\ mem.signed = FALSE /\ disk = None /\ ~kicked /\ Rest.pc = "rest"
        /\ \A i \in Slots : srv[i] = Free
    BY DEF Init, Rest
  <2>2. \A c \in {"user", "api", "refresh"} : task[c] = Rest
    BY DEF Init, Calls
  <2>. QED
    BY <2>1, <2>2 DEF CalmCalls, LiveToken
<1>2. NetInv /\ CalmInv /\ [Next]_vars => CalmInv'
  BY CalmStep
<1>3. NetInv /\ CalmInv => NotKickedOut
  <2>. SUFFICES ASSUME NetInv, CalmInv, kicked
                PROVE  faults > 0 \/ logouts > 0 \/ \E s \in Sids : sess[s].old
    BY DEF NotKickedOut
  <2>1. ~Calm
    BY DEF CalmInv
  <2>2. faults \in Nat /\ logouts \in Nat
    BY SessionsAssumption DEF NetInv, TypeOK
  <2>. QED
    BY <2>1, <2>2 DEF Calm
<1>. QED
  BY <1>1, <1>2, <1>3, NetInvariance, PTL DEF Spec
=============================================================================
