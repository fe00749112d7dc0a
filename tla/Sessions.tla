------------------------------ MODULE Sessions ------------------------------
(***************************************************************************)
(* The sessions of one account: the handlers of the server that log in,    *)
(* rotate a refresh token, log out and check an access token, and the      *)
(* AuthRepository of a device that uses them.                              *)
(*                                                                         *)
(* A session is a row of device_sessions; its id stands for the refresh    *)
(* token and for the access token issued with it.  The server runs several *)
(* requests at once, a statement at a time.  The device runs on one thread *)
(* that gives way at every await: a call of the user, an API request with  *)
(* its interceptor, and the refresh all of them share.  The device may     *)
(* give up on a request that the server goes on with, and the app may be   *)
(* killed.                                                                 *)
(***************************************************************************)
EXTENDS Integers, FiniteSets

CONSTANTS
    MaxRequests, \* bound: requests the server runs at one time
    MaxSessions, \* bound: rows of device_sessions
    MaxBooks,    \* bound: books of the account
    MaxFaults,   \* bound: requests given up, statements that fail, kills
    MaxLogouts   \* bound: logouts

ASSUME SessionsAssumption ==
    {MaxRequests, MaxSessions, MaxBooks, MaxFaults, MaxLogouts} \subseteq Nat

Slots == 1 .. MaxRequests
NoSlot == 0
Sids == 1 .. MaxSessions
None == 0
NoRow == -1

VARIABLES
    users,    \* whether users has the row of the account
    sess,     \* device_sessions
    valid,    \* sessions whose access token has not expired
    books,    \* created_at of the committed books of the account
    begun,    \* books begun
    srv,      \* what each request is at in the server
    mem,      \* _sessionEpoch, _accessToken, whether _currentSession is set
    disk,     \* the stored refresh token
    task,     \* the calls under way on the device
    book,     \* history: the book of the last answer
    out,      \* history: the user has logged out and not logged in since
    overtaken,\* history: the device was cleared while a token was being stored
    kicked,   \* history: a refresh failed and signed the device out
    overlap,  \* history: two requests found no book
    logouts,
    faults

server == <<users, sess, valid, books, begun>>
device == <<mem, disk>>
history == <<book, out, overtaken, kicked, overlap>>
vars == <<server, srv, device, task, history, logouts, faults>>

Calls == {"user", "api", "refresh"}

NoSession == [live |-> FALSE, old |-> FALSE, from |-> NoRow]
Req(op, pc, sid) == [op |-> op, pc |-> pc, sid |-> sid, made |-> None, res |-> "none"]
Free == Req("free", "free", None)
Rest == [pc |-> "rest", slot |-> NoSlot, sid |-> None, epoch |-> 0, retried |-> FALSE]

Init ==
    /\ users = FALSE
    /\ sess = [s \in Sids |-> NoSession]
    /\ valid = {}
    /\ books = {}
    /\ begun = 0
    /\ srv = [i \in Slots |-> Free]
    /\ mem = [epoch |-> 0, access |-> None, signed |-> FALSE]
    /\ disk = None
    /\ task = [c \in Calls |-> Rest]
    /\ book = None
    /\ out = FALSE
    /\ overtaken = FALSE
    /\ kicked = FALSE
    /\ overlap = FALSE
    /\ logouts = 0
    /\ faults = 0

Fault == faults < MaxFaults /\ faults' = faults + 1

Awaited(i) == \E c \in Calls : task[c].slot = i

-----------------------------------------------------------------------------
(***************************************************************************)
(* The server                                                              *)
(***************************************************************************)
At(i, op, pc) == srv[i].op = op /\ srv[i].pc = pc
Goto(i, pc) ==
    srv' = [srv EXCEPT ![i] = [op |-> @.op, pc |-> pc, sid |-> @.sid,
                               made |-> @.made, res |-> @.res]]

\* A response nobody waits for is lost.
Respond(i, res, sid) ==
    srv' = [srv EXCEPT ![i] = IF Awaited(i)
                              THEN [op |-> srv[i].op, pc |-> "done", sid |-> sid,
                                    made |-> None, res |-> res]
                              ELSE Free]

\* ensure_session_active
Active(s) == s \in valid /\ sess[s].live

UnusedIds == {s \in Sids : sess[s] = NoSession}

\* A 401 that is about to be met by a refresh, and a refresh not yet sent.
Refreshing ==
    \/ task["refresh"].pc = "read"
    \/ \E c \in Calls : task[c].slot # NoSlot /\ ~task[c].retried /\ srv[task[c].slot].res = "401"

\* The bound on sessions: what would need another one does not begin while
\* the ids left may all be needed by what is under way.
Spare ==
    LET issuing == {i \in Slots : /\ srv[i].op \in {"register", "login", "refresh"}
                                  /\ srv[i].pc \notin {"plan", "done"}}
        expired == {s \in Sids : /\ sess[s].live /\ s \notin valid
                                 /\ \A i \in issuing : srv[i].sid # s}
    IN  Cardinality(UnusedIds) >
            Cardinality(issuing) + Cardinality(expired) + (IF Refreshing THEN 1 ELSE 0)

NewSession(from) == [live |-> TRUE, old |-> FALSE, from |-> from]
Revoked(s) == [live |-> FALSE, old |-> sess[s].old, from |-> sess[s].from]

\* register: ON CONFLICT (email) DO NOTHING.
Register(i) ==
    /\ At(i, "register", "insert")
    /\ users' = TRUE
    /\ Respond(i, IF users THEN "taken" ELSE "ok", None)
    /\ UNCHANGED <<sess, valid, books, begun, device, task, history, logouts, faults>>

\* login finds the user; the password is the right one.
FindUser(i) ==
    /\ At(i, "login", "user")
    /\ IF users THEN Goto(i, "book") ELSE Respond(i, "401", None)
    /\ UNCHANGED <<server, device, task, history, logouts, faults>>

\* ensure_demo_book: the book of the account with the least created_at, or
\* a new one.  created_at is the time its transaction begins.
FirstBook == CHOOSE b \in books : \A c \in books : b <= c

\* Mutant: an existing book is not looked for.
Overlooked == TRUE

NoBookYet == books = {}

BookLookup(i) ==
    /\ srv[i].pc = "book"
    /\ IF NoBookYet
       THEN /\ Goto(i, "begin")
            /\ overlap' = (overlap \/ \E j \in Slots \ {i} : srv[j].pc \in {"begin", "commit"})
       ELSE /\ Goto(i, IF srv[i].op = "login" THEN "issue" ELSE "claim")
            /\ UNCHANGED overlap
    /\ UNCHANGED <<server, device, task, book, out, overtaken, kicked, logouts, faults>>

BookBegin(i) ==
    /\ srv[i].pc = "begin"
    /\ begun < MaxBooks
    /\ begun' = begun + 1
    /\ srv' = [srv EXCEPT ![i] = [op |-> @.op, pc |-> "commit", sid |-> @.sid,
                                  made |-> begun + 1, res |-> @.res]]
    /\ UNCHANGED <<users, sess, valid, books, device, task, history, logouts, faults>>

BookCommit(i) ==
    /\ srv[i].pc = "commit"
    /\ books' = books \cup {srv[i].made}
    /\ Goto(i, IF srv[i].op = "login" THEN "issue" ELSE "claim")
    /\ UNCHANGED <<users, sess, valid, begun, device, task, history, logouts, faults>>

\* issue_tokens
IssueTokens(i) ==
    /\ At(i, "login", "issue")
    /\ \E s \in UnusedIds :
           /\ \A t \in UnusedIds : s <= t
           /\ sess' = [sess EXCEPT ![s] = NewSession(None)]
           /\ valid' = valid \cup {s}
           /\ srv' = [srv EXCEPT ![i] = [op |-> @.op, pc |-> "plan", sid |-> s,
                                         made |-> @.made, res |-> @.res]]
    /\ UNCHANGED <<users, books, begun, device, task, history, logouts, faults>>

\* The subscription is a statement of its own.
IssuePlan(i) ==
    /\ At(i, "login", "plan")
    /\ Respond(i, "ok", srv[i].sid)
    /\ UNCHANGED <<server, device, task, history, logouts, faults>>

\* rotate_refresh_token: the SELECT, and what it refuses at once.
RotateRead(i) ==
    /\ At(i, "refresh", "read")
    /\ LET s == srv[i].sid
       IN  CASE ~sess[s].live -> Respond(i, "reuse", None) /\ UNCHANGED sess
             [] sess[s].live /\ sess[s].old ->
                    /\ sess' = [sess EXCEPT ![s] = Revoked(s)]
                    /\ Respond(i, "expired", None)
             [] OTHER -> Goto(i, "book") /\ UNCHANGED sess
    /\ UNCHANGED <<users, valid, books, begun, device, task, history, logouts, faults>>

\* Mutant: the UPDATE that claims a token has no condition.
AnyClaim(s) == TRUE

\* The transaction that claims the token and inserts its replacement.
Claimable(s) == sess[s].live /\ ~sess[s].old

Rotated(s, t) == [sess EXCEPT ![s] = Revoked(s), ![t] = NewSession(s)]

RotateClaim(i) ==
    /\ At(i, "refresh", "claim")
    /\ LET s == srv[i].sid
       IN  IF Claimable(s)
           THEN \E t \in UnusedIds :
                    /\ \A u \in UnusedIds : t <= u
                    /\ sess' = Rotated(s, t)
                    /\ valid' = valid \cup {t}
                    /\ Respond(i, "ok", t)
           ELSE Respond(i, "reuse", None) /\ UNCHANGED <<sess, valid>>
    /\ UNCHANGED <<users, books, begun, device, task, history, logouts, faults>>

\* AuthUser: the access token is checked before the handler runs.
AuthCheck(i) ==
    /\ srv[i].pc = "auth"
    /\ IF ~Active(srv[i].sid) THEN Respond(i, "401", None)
       ELSE IF srv[i].op = "logout" THEN Goto(i, "revoke")
       ELSE Respond(i, "ok", None)
    /\ UNCHANGED <<server, device, task, history, logouts, faults>>

\* logout
Revoke(i) ==
    /\ At(i, "logout", "revoke")
    /\ sess' = [sess EXCEPT ![srv[i].sid] = Revoked(srv[i].sid)]
    /\ Respond(i, "ok", None)
    /\ UNCHANGED <<users, valid, books, begun, device, task, history, logouts, faults>>

\* A statement fails, or the connection of a request the device has given
\* up is closed and its handler dropped.
ServerError(i) ==
    /\ srv[i].pc \notin {"free", "done"}
    /\ IF Awaited(i) THEN Fault ELSE UNCHANGED faults
    /\ Respond(i, "500", None)
    /\ UNCHANGED <<server, device, task, history, logouts>>

\* Fifteen minutes, and thirty days.
AccessExpires(s) ==
    /\ s \in valid
    /\ Spare
    /\ valid' = valid \ {s}
    /\ UNCHANGED <<users, sess, books, begun, srv, device, task, history, logouts, faults>>

RefreshExpires(s) ==
    /\ sess[s].live /\ ~sess[s].old
    /\ s \notin valid
    /\ sess' = [sess EXCEPT ![s] = [live |-> @.live, old |-> TRUE, from |-> @.from]]
    /\ UNCHANGED <<users, valid, books, begun, srv, device, task, history, logouts, faults>>

ServerStep(i) ==
    \/ Register(i) \/ FindUser(i) \/ BookLookup(i) \/ BookBegin(i) \/ BookCommit(i)
    \/ IssueTokens(i) \/ IssuePlan(i)
    \/ RotateRead(i) \/ RotateClaim(i) \/ AuthCheck(i) \/ Revoke(i)

-----------------------------------------------------------------------------
(***************************************************************************)
(* The device                                                              *)
(***************************************************************************)
FirstStep(op) ==
    CASE op = "register" -> "insert"
      [] op = "login" -> "user"
      [] op = "refresh" -> "read"
      [] op \in {"logout", "api"} -> "auth"

\* A call sends a request and waits for its answer.
FreeSlot(i) == srv[i] = Free /\ \A j \in Slots : srv[j] = Free => i <= j

Send(c, op, sid, pc, retried) ==
    \E i \in Slots :
        /\ FreeSlot(i)
        /\ srv' = [srv EXCEPT ![i] = Req(op, FirstStep(op), sid)]
        /\ task' = [task EXCEPT ![c] = [pc |-> pc, slot |-> i, sid |-> sid,
                                        epoch |-> mem.epoch, retried |-> retried]]

Done(c, pc) == task[c].pc = pc /\ srv[task[c].slot].pc = "done"
Answer(c) == srv[task[c].slot]
Taken(c) == srv' = [srv EXCEPT ![task[c].slot] = Free]
End(c) == task' = [task EXCEPT ![c] = Rest]

\* A call goes on within one request of the user.
Step(c, pc, slot) ==
    [pc |-> pc, slot |-> slot, sid |-> task[c].sid, epoch |-> task[c].epoch,
     retried |-> task[c].retried]

\* _clearLocalAuthentication: the delete is issued with the rest.
Clear ==
    /\ mem' = [epoch |-> mem.epoch + 1, access |-> None, signed |-> FALSE]
    /\ disk' = None
    /\ overtaken' = (overtaken \/ \E c \in Calls : task[c].pc = "stored")

\* Mutant: the new refresh token is not stored.
KeepOld(c, sid) == UNCHANGED disk

\* _acceptTokens issues the write of the refresh token and waits for it.
StoreToken(c, sid) == disk' = sid

Accept(c, sid) ==
    /\ StoreToken(c, sid)
    /\ task' = [task EXCEPT ![c] = [pc |-> "stored", slot |-> NoSlot, sid |-> sid,
                                    epoch |-> @.epoch, retried |-> @.retried]]
    /\ book' = FirstBook

\* It goes on when the write is done.
Stored(c) ==
    /\ task[c].pc = "stored"
    /\ mem' = [epoch |-> IF c = "user" THEN mem.epoch + 1 ELSE mem.epoch,
               access |-> task[c].sid, signed |-> TRUE]
    /\ End(c)
    /\ UNCHANGED <<server, srv, disk, history, logouts, faults>>

\* login
Login ==
    /\ task["user"] = Rest
    /\ ~mem.signed
    /\ Spare
    /\ out' = FALSE
    /\ Send("user", "login", None, "login", FALSE)
    /\ UNCHANGED <<server, device, book, overtaken, kicked, overlap, logouts, faults>>

\* registerAndLogin logs in when the registration succeeds.
SignUp ==
    /\ task["user"] = Rest
    /\ ~mem.signed
    /\ Spare
    /\ Send("user", "register", None, "register", FALSE)
    /\ UNCHANGED <<server, device, history, logouts, faults>>

Registered ==
    /\ Done("user", "register")
    /\ LET i == task["user"].slot
       IN  IF srv[i].res = "ok"
           THEN /\ srv' = [srv EXCEPT ![i] = Req("login", FirstStep("login"), None)]
                /\ task' = [task EXCEPT !["user"] = Step("user", "login", i)]
                /\ out' = FALSE
           ELSE Taken("user") /\ End("user") /\ UNCHANGED out
    /\ UNCHANGED <<server, device, book, overtaken, kicked, overlap, logouts, faults>>

LoginAnswered ==
    /\ Done("user", "login")
    /\ Taken("user")
    /\ IF Answer("user").res = "ok"
       THEN Accept("user", Answer("user").sid)
       ELSE End("user") /\ UNCHANGED <<disk, book>>
    /\ UNCHANGED <<server, mem, out, overtaken, kicked, overlap, logouts, faults>>

\* restore, when the app starts and again when the user retries.
Restore ==
    /\ task["user"] = Rest
    /\ ~mem.signed
    /\ disk # None
    /\ Spare
    /\ Send("user", "refresh", disk, "restore", FALSE)
    /\ UNCHANGED <<server, device, history, logouts, faults>>

RestoreAnswered ==
    /\ Done("user", "restore")
    /\ Taken("user")
    /\ CASE Answer("user").res = "ok" ->
                Accept("user", Answer("user").sid) /\ UNCHANGED <<mem, overtaken>>
         [] Answer("user").res \in {"reuse", "expired"} ->
                Clear /\ End("user") /\ UNCHANGED book
         [] OTHER -> End("user") /\ UNCHANGED <<device, book, overtaken>>
    /\ UNCHANGED <<server, out, kicked, overlap, logouts, faults>>

\* A request through the authenticated client: an API call, or logout.
Request ==
    /\ task["api"] = Rest
    /\ mem.signed
    /\ Send("api", "api", mem.access, "wait", FALSE)
    /\ UNCHANGED <<server, device, history, logouts, faults>>

Logout ==
    /\ task["user"] = Rest
    /\ mem.signed
    /\ logouts < MaxLogouts
    /\ logouts' = logouts + 1
    /\ Send("user", "logout", mem.access, "wait", FALSE)
    /\ UNCHANGED <<server, device, history, faults>>

\* The end of a request; logout clears what the device holds, whatever the
\* answer was.
Finish(c) ==
    /\ End(c)
    /\ IF c = "user"
       THEN /\ Clear
            /\ out' = TRUE
       ELSE UNCHANGED <<device, out, overtaken>>
    /\ UNCHANGED <<book, kicked, overlap>>

\* _refreshAndRetry: a 401 of the current session is met by a refresh,
\* unless the token has been replaced meanwhile, and by one retry.
MayRetry(c) ==
    /\ ~task[c].retried
    /\ task[c].epoch = mem.epoch
    /\ mem.signed

RequestAnswered(c) ==
    /\ Done(c, "wait")
    /\ Taken(c)
    /\ IF Answer(c).res = "401" /\ MayRetry(c)
       THEN /\ task' = [task EXCEPT
                  ![c] = Step(c, IF @.sid = mem.access THEN "join" ELSE "retry", NoSlot),
                  !["refresh"] =
                      IF task[c].sid = mem.access /\ @ = Rest
                      THEN [pc |-> "read", slot |-> NoSlot, sid |-> None,
                            epoch |-> mem.epoch, retried |-> FALSE]
                      ELSE @]
            /\ UNCHANGED <<device, history>>
       ELSE Finish(c)
    /\ UNCHANGED <<server, logouts, faults>>

\* Mutant: a request is sent without looking at the token.
AnyToken(c) == TRUE

\* The session is still the one the request was made in, and has a token.
Current(c) == task[c].epoch = mem.epoch /\ mem.access # None

\* Mutant: only the success of the shared refresh wakes those who wait.
RefreshSucceeded == task["refresh"].pc = "rest" /\ mem.access # None

\* The shared refresh is over; its failure ends the request.
RefreshOver == task["refresh"].pc = "rest"

Joined(c) ==
    /\ task[c].pc = "join"
    /\ RefreshOver
    /\ IF Current(c)
       THEN task' = [task EXCEPT ![c] = Step(c, "retry", NoSlot)] /\ UNCHANGED <<device, history>>
       ELSE Finish(c)
    /\ UNCHANGED <<server, srv, logouts, faults>>

Retry(c) ==
    /\ task[c].pc = "retry"
    /\ IF Current(c)
       THEN /\ Send(c, IF c = "user" THEN "logout" ELSE "api", mem.access, "wait", TRUE)
            /\ UNCHANGED <<device, history>>
       ELSE Finish(c) /\ UNCHANGED srv
    /\ UNCHANGED <<server, logouts, faults>>

\* _runRefresh and _performRefresh
RefreshFails ==
    /\ Clear
    /\ End("refresh")
    /\ kicked' = (kicked \/ task["refresh"].epoch = mem.epoch)
    /\ UNCHANGED <<book, out, overlap>>

RefreshSend ==
    /\ task["refresh"].pc = "read"
    /\ IF disk = None
       THEN RefreshFails /\ UNCHANGED srv
       ELSE /\ \E i \in Slots :
                   /\ FreeSlot(i)
                   /\ srv' = [srv EXCEPT ![i] = Req("refresh", FirstStep("refresh"), disk)]
                   /\ task' = [task EXCEPT !["refresh"] = Step("refresh", "wait", i)]
            /\ UNCHANGED <<device, history>>
    /\ UNCHANGED <<server, logouts, faults>>

\* Mutant: the epoch is not compared.
AnyEpoch(c) == TRUE

\* The epoch must be the one the refresh began in.
SameEpoch(c) == task[c].epoch = mem.epoch

RefreshAnswered ==
    /\ Done("refresh", "wait")
    /\ Taken("refresh")
    /\ IF Answer("refresh").res = "ok" /\ SameEpoch("refresh")
       THEN /\ Accept("refresh", Answer("refresh").sid)
            /\ UNCHANGED <<mem, out, overtaken, kicked, overlap>>
       ELSE RefreshFails
    /\ UNCHANGED <<server, logouts, faults>>

\* The device gives up: no answer came in time, or it was lost.
GiveUp(c) ==
    /\ task[c].slot # NoSlot
    /\ Fault
    /\ srv' = [srv EXCEPT ![task[c].slot] = IF @.pc = "done" THEN Free ELSE @]
    /\ CASE c = "refresh" -> RefreshFails
         [] c # "refresh" /\ task[c].pc = "wait" -> Finish(c)
         [] OTHER -> End(c) /\ UNCHANGED <<device, history>>
    /\ UNCHANGED <<server, logouts>>

\* The app is killed and started again.
Kill ==
    /\ Fault
    /\ mem' = [epoch |-> mem.epoch + 1, access |-> None, signed |-> FALSE]
    /\ task' = [c \in Calls |-> Rest]
    /\ srv' = [i \in Slots |-> IF srv[i].pc = "done" THEN Free ELSE srv[i]]
    /\ UNCHANGED <<server, disk, history, logouts>>

CallStep(c) ==
    \/ Stored(c)
    \/ c = "user" /\ (Registered \/ LoginAnswered \/ RestoreAnswered)
    \/ c = "refresh" /\ (RefreshSend \/ RefreshAnswered)
    \/ c # "refresh" /\ (RequestAnswered(c) \/ Joined(c) \/ Retry(c))

-----------------------------------------------------------------------------
Next ==
    \/ \E i \in Slots : ServerStep(i) \/ ServerError(i)
    \/ \E s \in Sids : AccessExpires(s) \/ RefreshExpires(s)
    \/ \E c \in Calls : CallStep(c)
    \/ SignUp \/ Login \/ Restore \/ Request \/ Logout
    \/ \E c \in Calls : GiveUp(c)
    \/ Kill

\* Requests the server has begun and calls the device has begun go on;
\* nothing makes the user or the clock act.
Spec ==
    /\ Init /\ [][Next]_vars
    /\ \A i \in Slots : WF_vars(ServerStep(i))
    /\ \A c \in Calls : WF_vars(CallStep(c))

-----------------------------------------------------------------------------
(***************************************************************************)
(* Properties                                                              *)
(***************************************************************************)
Requests ==
    [op : {"free", "register", "login", "refresh", "logout", "api"},
     pc : {"free", "insert", "user", "book", "begin", "commit", "issue", "plan",
           "read", "claim", "auth", "revoke", "done"},
     sid : Sids \cup {None}, made : 0 .. MaxBooks,
     res : {"none", "ok", "taken", "401", "reuse", "expired", "500"}]

Tasks ==
    [pc : {"rest", "register", "login", "restore", "wait", "join", "retry", "read", "stored"},
     slot : Slots \cup {NoSlot}, sid : Sids \cup {None}, epoch : Nat, retried : BOOLEAN]

\* The types of the state; a request that needs an access token has one.
TypeOK ==
    /\ users \in BOOLEAN
    /\ sess \in [Sids -> [live : BOOLEAN, old : BOOLEAN, from : Sids \cup {None, NoRow}]]
    /\ valid \subseteq Sids
    /\ books \subseteq 1 .. MaxBooks
    /\ begun \in 0 .. MaxBooks
    /\ srv \in [Slots -> Requests]
    /\ \A i \in Slots : srv[i].pc = "auth" => srv[i].sid \in Sids
    /\ mem \in [epoch : Nat, access : Sids \cup {None}, signed : BOOLEAN]
    /\ disk \in Sids \cup {None}
    /\ task \in [Calls -> Tasks]
    /\ {out, overtaken, kicked, overlap} \subseteq BOOLEAN
    /\ logouts \in 0 .. MaxLogouts
    /\ faults \in 0 .. MaxFaults

\* A refresh token is exchanged once at most, also when a device presents it
\* again because it lost the answer, or the app was killed meanwhile, and the
\* session it replaces is revoked: of the sessions that go back to one login
\* at most one lives.
NoFork ==
    \A s \in Sids : sess[s].from \in Sids =>
        /\ ~sess[sess[s].from].live
        /\ \A t \in Sids : sess[t].from = sess[s].from => s = t

\* An answer that comes after a logout does not sign the device in again,
\* unless its token was being stored when the device was cleared.
LateAnswerDropped == out /\ mem.signed => overtaken

\* A device that gave up nothing and saw no error is signed out by a
\* failed refresh only after thirty idle days or a logout.
NotKickedOut ==
    kicked => \/ faults > 0
              \/ logouts > 0
              \/ \E s \in Sids : sess[s].old

\* The account has one book, unless two first requests overlapped.
OneBook == Cardinality(books) > 1 => overlap

\* Every call on the device ends, the shared refresh included.
CallsEnd == \A c \in Calls : (task[c] # Rest) ~> (task[c] = Rest)

\* What the design says of the epochs: no late answer restores
\* authentication after logout.
LogoutSticks == out => ~mem.signed
=============================================================================
