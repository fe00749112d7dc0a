--------------------------- MODULE BackupsProofs ----------------------------
(***************************************************************************)
(* Proofs about Backups, for any number of processes, attachments, kept    *)
(* bundles, runs and faults.                                               *)
(*                                                                         *)
(* A run writes its bundle in a fixed order of places, and nobody else     *)
(* writes there (RunsApart, Unborn).  A cleanup deletes what it listed     *)
(* some steps ago, while others write and delete: it is safe because what  *)
(* was surplus stays surplus (DropsSurplus), so the bundle with the last   *)
(* stamp is never touched (LastStamp).  For the replicas the same argument *)
(* has to leave out the ones that are being staged, or were left there by  *)
(* a killed process; there are no more of these than faults (FewOrphans).  *)
(*                                                                         *)
(* The data are replaced step by step by one operator at a time; Restoring *)
(* says what is where at each step.  Two operators who restore side by     *)
(* side would mix what they load, so the last two theorems are about one   *)
(* (OneOperator).                                                          *)
(***************************************************************************)
EXTENDS Backups, FiniteSetTheorems, TLAPS

BackupPCs == {"dump", "list", "copy", "payload", "manifest", "replicate", "replica", "rename",
              "offlist", "offdel", "loclist", "locdel", "bend"}
RestorePCs == {"unpack", "stage"} \cup Window
DrillPCs == {"find", "open", "createdb", "replay", "dropdb", "dend"}

\* The steps before a run has its manifest in a place.
Early == [local |-> {"dump", "list", "copy", "payload", "manifest"},
          staging |-> {"dump", "list", "copy", "payload", "manifest", "replicate"},
          offsite |-> {"dump", "list", "copy", "payload", "manifest", "replicate", "replica", "rename"}]

\* A process is at a step of its operation.
Stage(a) ==
    \/ a = Idle
    \/ a.op \in {"backup", "restore"} /\ a.pc \in BackupPCs /\ a.run \in 1 .. runs
    \/ a.op = "restore" /\ a.pc \in RestorePCs /\ a.run \in 1 .. runs
    \/ a.op = "drill" /\ a.pc \in DrillPCs /\ a.run = None

\* A process that failed goes to its end.
Careful(a) == ~a.ok => a.pc \in {"bend", "rend", "dropdb", "dend"}

\* A restore has a bundle.
HasTarget(a) == a.op = "restore" => a.of[2] \in Runs

Stages == \A p \in Actors : Stage(act[p]) /\ Careful(act[p]) /\ HasTarget(act[p])

\* A run belongs to one process.
RunsApart == \A p, q \in Actors : act[p].run = act[q].run /\ act[p].run # None => p = q

\* The run has come past the writing of its manifest in the place, or ended.
Born(pl, r) == r <= runs /\ \A p \in Actors : act[p].run = r => act[p].pc \notin Early[pl]

Unborn ==
    \A pl \in Places, r \in Runs : ~Born(pl, r) =>
        /\ ~HasManifest(pl, r)
        /\ \A p \in Actors : <<pl, r>> \notin act[p].drop

\* The runs that will have a stamp.
Coming == {r \in Runs : r <= runs /\ ~Born("local", r)}
Counted == Cardinality(Coming) + stamps <= runs

Dated ==
    /\ \A pl \in Places, r \in Runs : HasManifest(pl, r) => made[r].at <= stamps
    /\ \A p \in Actors : act[p].op \in {"backup", "restore"} /\ act[p].ok
                         /\ act[p].pc \notin Early["local"] => made[act[p].run].at <= stamps
    /\ status.outcome = "success" =>
           status.run \in 1 .. runs /\ Born("offsite", status.run) /\ made[status.run].at <= stamps

LastStamp == \E r \in Runs : HasManifest("local", r) /\ made[r].at = stamps

\* What a cleanup of the local root is about to delete is surplus, now as
\* when it was listed.
DropsSurplus ==
    \A p \in Actors : act[p].pc = "locdel" =>
        \A d \in act[p].drop :
            /\ d[1] = "local"
            /\ HasManifest("local", d[2]) => d \in Surplus("local")

\* A cleanup of the offsite root keeps to it.
DropsOffsite == \A p \in Actors : act[p].pc = "offdel" => \A d \in act[p].drop : d[1] # "local"

BundleInv ==
    /\ TypeOK /\ Stages /\ RunsApart /\ Unborn /\ Counted /\ Dated /\ LastStamp
    /\ DropsSurplus /\ DropsOffsite /\ NewestWhole

\* Replicas that are staged by nobody.
Orphans == {r \in Runs : HasManifest("staging", r)
                         /\ \A p \in Actors : act[p].run = r => act[p].pc \notin {"replica", "rename"}}
FewOrphans == Cardinality(Orphans) <= faults

Published(s) ==
    \/ HasManifest("offsite", s)
    \/ \E p \in Actors : /\ act[p].run = s
                         /\ act[p].op \in {"backup", "restore"} /\ act[p].ok
                         /\ act[p].pc \notin Early["offsite"]
    \/ status.outcome = "success" /\ status.run = s

EnoughKept == Keep >= Cardinality(Actors) + faults

\* A replica is missed by nobody: there is one as new, and one newer than
\* each that is about to be deleted.
Replicated ==
    EnoughKept => \A s \in Runs : Published(s) =>
        \E r \in Runs : Whole("offsite", r) /\ made[r].at >= made[s].at

DropsReplaced ==
    EnoughKept => \A p \in Actors : act[p].pc = "offdel" =>
        \A d \in act[p].drop : d[1] = "offsite" =>
            \E r \in Runs : Whole("offsite", r) /\ made[r].at > made[d[2]].at

ReplicaInv == FewOrphans /\ Replicated /\ DropsReplaced

Good(r) == Verified(made[r].rows, made[r].objs, made[r].objs)

OfBorn ==
    \A p \in Actors :
        /\ act[p].op = "restore" => act[p].of[2] \in Runs /\ Born("local", act[p].of[2])
        /\ act[p].pc \in {"open", "createdb", "replay", "dropdb"} \/ (act[p].pc = "dend" /\ act[p].ok)
           => act[p].of[2] \in Runs /\ Born("local", act[p].of[2])

DrillInv ==
    /\ \A p \in Actors : act[p].pc \in {"dropdb", "dend"} /\ act[p].ok => Good(act[p].of[2])
    /\ drill.outcome = "success" =>
           drill.run \in Runs /\ Born("local", drill.run) /\ Good(drill.run)

\* The data while p replaces them.
Restoring(p) ==
    /\ act[p].pc \in {"swap", "publish", "remove"} => backend = "local"
    /\ act[p].pc = "put" => backend = "s3"
    /\ act[p].pc \in {"swap", "publish"} => act[p].todo = Target(p).objs
    /\ act[p].pc = "put" => Target(p).objs \subseteq objs \cup act[p].todo
    /\ act[p].pc \in {"remove", "clean", "load", "check"} =>
           /\ Target(p).objs \subseteq objs
           /\ backend = "local" => objs = Target(p).objs
    /\ act[p].pc = "check" => rows = Target(p).rows
    /\ act[p].pc = "rend" /\ act[p].ok =>
           /\ rows = Target(p).rows
           /\ Named(rows) \subseteq objs
           /\ backend = "local" => objs = Target(p).objs
    /\ act[p].pc = "rend" /\ ~act[p].hit /\ Good(act[p].of[2]) => act[p].ok
    /\ act[p].op = "restore" /\ act[p].pc = "bend" /\ ~act[p].ok => act[p].hit

RestoredInv ==
    /\ restore.run # None => Born("local", restore.run)
    /\ restore.run \in Runs /\ ~restore.hit /\ Good(restore.run) => restore.outcome = "success"
    /\ restore.fresh => restore.run \in Runs
    /\ restore.fresh => \A p \in Actors : act[p].pc \notin Replacing
    /\ restore.fresh /\ restore.outcome = "success" =>
           /\ rows = made[restore.run].rows
           /\ Named(rows) \subseteq objs
           /\ backend = "local" => objs = made[restore.run].objs

ByOperators == \A p \in Actors : act[p].op = "restore" => p \in Operators
ObjectsStay == backend = "s3" => before.objs \subseteq objs

DataInv == OfBorn /\ DrillInv /\ ByOperators /\ ObjectsStay /\ RestoredInv /\ \A p \in Actors : Restoring(p)

-----------------------------------------------------------------------------
(***************************************************************************)
(* How a process moves                                                     *)
(***************************************************************************)
OnlyMoves(p) == act' \in [Actors -> Acts] /\ \A q \in Actors \ {p} : act'[q] = act[q]

\* One process moves.
LEMMA Moves ==
    ASSUME act \in [Actors -> Acts], NEW p \in Actors, NEW a \in Acts,
           act' = [act EXCEPT ![p] = a]
    PROVE  OnlyMoves(p) /\ act'[p] = a
  BY DEF OnlyMoves

\* An idle process.
LEMMA IdleFacts ==
    /\ Idle \in Acts
    /\ Idle.op = "none" /\ Idle.pc = "idle" /\ Idle.run = None /\ Idle.drop = {}
    /\ Idle.ok = TRUE /\ Idle.hit = FALSE
  BY DEF Idle, Acts, PCs, Ends, NoRows, RowStates, Places, None

\* The end of a process, by itself or killed.
LEMMA MovesIdle ==
    ASSUME act \in [Actors -> Acts], NEW p \in Actors, act' = [act EXCEPT ![p] = Idle]
    PROVE  OnlyMoves(p) /\ act'[p] = Idle
  BY IdleFacts, Moves

\* Goto changes the step and nothing else.
LEMMA GotoFacts ==
    ASSUME act \in [Actors -> Acts], NEW p \in Actors, NEW pc \in PCs, Goto(p, pc)
    PROVE  /\ OnlyMoves(p)
           /\ act'[p] = [act[p] EXCEPT !.pc = pc]
           /\ act'[p].pc = pc /\ act'[p].op = act[p].op /\ act'[p].run = act[p].run
           /\ act'[p].of = act[p].of /\ act'[p].drop = act[p].drop /\ act'[p].todo = act[p].todo
           /\ act'[p].ok = act[p].ok /\ act'[p].hit = act[p].hit
<1>. DEFINE a == [act[p] EXCEPT !.pc = pc]
<1>0. act[p] \in Acts
  OBVIOUS
<1>1. a \in Acts
  BY <1>0 DEF Acts
<1>2. act' = [act EXCEPT ![p] = a]
  BY DEF Goto
<1>3. OnlyMoves(p) /\ act'[p] = a
  BY <1>1, <1>2, Moves
<1>. QED
  BY <1>0, <1>3 DEF Acts

\* Every step of a process can fail, and has an end to go to.
LEMMA AfterFailureType ==
    ASSUME NEW pc \in PCs \ Ends
    PROVE  /\ AfterFailure(pc) \in {"bend", "rend", "dropdb", "dend"}
           /\ pc \in BackupPCs => AfterFailure(pc) = "bend"
           /\ pc \in RestorePCs => AfterFailure(pc) = "rend"
           /\ pc \in DrillPCs => AfterFailure(pc) \in {"dropdb", "dend"}
  BY DEF AfterFailure, PCs, Ends, BackupPCs, RestorePCs, DrillPCs, Window, Replacing

\* What a failed step leaves in the process.
LEMMA FailsFacts ==
    ASSUME act \in [Actors -> Acts], NEW p \in Actors, Fails(p), act[p].pc \notin Ends
    PROVE  /\ OnlyMoves(p)
           /\ act'[p].pc = AfterFailure(act[p].pc) /\ act'[p].op = act[p].op
           /\ act'[p].run = act[p].run
           /\ act'[p].of = act[p].of /\ act'[p].drop = act[p].drop /\ act'[p].todo = act[p].todo
           /\ act'[p].ok = FALSE /\ act'[p].hit = TRUE
<1>. DEFINE x == AfterFailure(act[p].pc)
            a == [act[p] EXCEPT !.pc = x, !.ok = FALSE, !.hit = TRUE]
<1>0. act[p] \in Acts
  OBVIOUS
<1>1. act[p].pc \in PCs \ Ends
  BY <1>0 DEF Acts
<1>2. x \in PCs
  BY <1>1, AfterFailureType DEF PCs, Ends
<1>3. a \in Acts
  BY <1>0, <1>2 DEF Acts
<1>4. act' = [act EXCEPT ![p] = a]
  BY DEF Fails
<1>5. OnlyMoves(p) /\ act'[p] = a
  BY <1>3, <1>4, Moves
<1>. QED
  BY <1>0, <1>2, <1>5 DEF Acts

\* The process goes on with what it is doing: op, run and of stay.
GoesOn(p) ==
    /\ OnlyMoves(p)
    /\ act'[p].op = act[p].op /\ act'[p].run = act[p].run
    /\ act'[p].ok => act[p].ok

\* The lists of a cleanup name bundles.
LEMMA SurplusType ==
    ASSUME NEW root \in {"local", "offsite"}
    PROVE  Listed(root) \subseteq Bundles /\ Surplus(root) \subseteq Listed(root)
  BY DEF Listed, Surplus, Roots, Bundles, Places

\* The steps of a backup, and what they leave in the process.
LEMMA BackupMoves ==
    ASSUME TypeOK, NEW p \in Actors, BackupStep(p), ~EndBackup(p)
    PROVE  /\ GoesOn(p)
           /\ act[p].pc \in BackupPCs \ {"bend"}
           /\ act'[p].pc \in BackupPCs
           /\ ~act'[p].ok => (act'[p].pc = "bend" /\ act'[p].hit) \/ ~act[p].ok
           /\ \A pl \in Places : act[p].pc \notin Early[pl] => act'[p].pc \notin Early[pl]
           /\ act'[p].of = act[p].of
           /\ act'[p].hit = act[p].hit \/ ~act'[p].ok
<1>. USE DEF GoesOn, At
<1>0. act \in [Actors -> Acts] /\ act[p] \in Acts /\ objs \in SUBSET Atts /\ rows \in [Atts -> RowStates]
  BY DEF TypeOK
<1>. DEFINE x == act[p]
<1>f. ASSUME Fails(p), act[p].pc \in BackupPCs \ {"bend"}
      PROVE  /\ GoesOn(p)
             /\ act'[p].pc = "bend" /\ ~act'[p].ok /\ act'[p].hit
             /\ act'[p].of = act[p].of
  <2>1. act[p].pc \in PCs \ Ends
    BY <1>f DEF BackupPCs, PCs, Ends
  <2>. QED
    BY <1>0, <1>f, <2>1, FailsFacts, AfterFailureType
<1>g. ASSUME NEW pc \in BackupPCs, Goto(p, pc)
      PROVE  /\ GoesOn(p)
             /\ act'[p].pc = pc /\ act'[p].ok = act[p].ok /\ act'[p].hit = act[p].hit
             /\ act'[p].of = act[p].of
  <2>1. pc \in PCs
    BY <1>g DEF BackupPCs, PCs, Ends
  <2>. QED
    BY <1>0, <1>g, <2>1, GotoFacts
<1>1. CASE Dump(p)
  <2>. DEFINE a == [x EXCEPT !.rows = rows, !.pc = "list"]
  <2>1. a \in Acts
    BY <1>0 DEF Acts, PCs
  <2>2. OnlyMoves(p) /\ act'[p] = a
    BY <1>0, <1>1, <2>1, Moves DEF Dump
  <2>. QED
    BY <1>0, <1>1, <2>2 DEF Dump, Acts, BackupPCs, Early, Places
<1>2. CASE ListObjects(p)
  <2>. DEFINE a == [x EXCEPT !.todo = objs, !.pc = "copy"]
  <2>1. a \in Acts
    BY <1>0 DEF Acts, PCs
  <2>2. OnlyMoves(p) /\ act'[p] = a
    BY <1>0, <1>2, <2>1, Moves DEF ListObjects
  <2>. QED
    BY <1>0, <1>2, <2>2 DEF ListObjects, Acts, BackupPCs, Early, Places
<1>3. CASE CopyObject(p)
  <2>0. PICK o \in act[p].todo :
           IF o \in objs
           THEN act' = [act EXCEPT ![p].todo = @ \ {o}, ![p].objs = @ \cup {o}]
           ELSE Fails(p)
    BY <1>3 DEF CopyObject
  <2>1. CASE o \in objs
    <3>. DEFINE a == [x EXCEPT !.todo = @ \ {o}, !.objs = @ \cup {o}]
    <3>1. a \in Acts
      BY <1>0, <2>1 DEF Acts
    <3>2. OnlyMoves(p) /\ act'[p] = a
      BY <1>0, <2>0, <2>1, <3>1, Moves
    <3>. QED
      BY <1>0, <1>3, <3>2 DEF CopyObject, Acts, BackupPCs, Early, Places
  <2>2. CASE o \notin objs
    BY <1>3, <1>f, <2>0, <2>2 DEF CopyObject, BackupPCs, Early, Places
  <2>. QED
    BY <2>1, <2>2
<1>4. CASE ObjectsCopied(p) \/ WritePayload(p) \/ WriteManifest(p)
  <2>1. CASE ObjectsCopied(p)
    BY <2>1, <1>g DEF ObjectsCopied, BackupPCs, Early, Places
  <2>2. CASE WritePayload(p)
    BY <2>2, <1>g DEF WritePayload, BackupPCs, Early, Places
  <2>3. CASE WriteManifest(p)
    BY <2>3, <1>g DEF WriteManifest, BackupPCs, Early, Places
  <2>. QED
    BY <1>4, <2>1, <2>2, <2>3
<1>5. CASE Replicate(p) \/ CopyPayloads(p) \/ PublishReplica(p)
  <2>1. CASE Replicate(p)
    BY <2>1, <1>g, <1>f DEF Replicate, BackupPCs, Early, Places
  <2>2. CASE CopyPayloads(p)
    BY <2>2, <1>g, <1>f DEF CopyPayloads, BackupPCs, Early, Places
  <2>3. CASE PublishReplica(p)
    BY <2>3, <1>g, <1>f DEF PublishReplica, BackupPCs, Early, Places
  <2>. QED
    BY <1>5, <2>1, <2>2, <2>3
<1>6. CASE ListBundles(p)
  <2>. DEFINE old == Surplus(IF act[p].pc = "offlist" THEN "offsite" ELSE "local")
              pc == IF old = {} THEN Cleaned(x.pc) ELSE IF x.pc = "offlist" THEN "offdel" ELSE "locdel"
              a == [x EXCEPT !.drop = old, !.pc = pc]
  <2>1. old \in SUBSET Bundles
    BY SurplusType
  <2>2. pc \in {"loclist", "bend", "offdel", "locdel"}
    BY DEF Cleaned
  <2>3. act' = [act EXCEPT ![p] = a]
    BY <1>6 DEF ListBundles
  <2>. HIDE DEF old, pc
  <2>4. a \in Acts
    BY <1>0, <2>1, <2>2 DEF Acts, PCs, Ends
  <2>5. OnlyMoves(p) /\ act'[p] = a
    BY <1>0, <2>3, <2>4, Moves
  <2>. QED
    BY <1>0, <1>6, <2>2, <2>5 DEF ListBundles, Acts, BackupPCs, Early, Places
<1>7. CASE DeleteBundle(p)
  <2>0. PICK d \in act[p].drop : LET held == dir[d[1]][d[2]]
           IN  IF held = {}
               THEN Fails(p) /\ UNCHANGED dir
               ELSE \E rest \in SUBSET held :
                        /\ rest # held
                        /\ dir' = [dir EXCEPT ![d[1]][d[2]] = rest]
                        /\ LET left == IF rest = {} THEN act[p].drop \ {d} ELSE act[p].drop
                           IN  act' = [act EXCEPT ![p].drop = left,
                                                  ![p].pc = IF left = {} THEN Cleaned(@) ELSE @]
    BY <1>7 DEF DeleteBundle
  <2>1. CASE dir[d[1]][d[2]] = {}
    BY <1>7, <1>f, <2>0, <2>1 DEF DeleteBundle, BackupPCs, Early, Places
  <2>2. CASE dir[d[1]][d[2]] # {}
    <3>1. PICK left \in SUBSET act[p].drop :
              act' = [act EXCEPT ![p].drop = left, ![p].pc = IF left = {} THEN Cleaned(@) ELSE @]
      BY <2>0, <2>2
    <3>. DEFINE pc == IF left = {} THEN Cleaned(x.pc) ELSE x.pc
                a == [x EXCEPT !.drop = left, !.pc = pc]
    <3>2. pc \in {"loclist", "bend", "offdel", "locdel"}
      BY <1>7 DEF Cleaned, DeleteBundle
    <3>3. act' = [act EXCEPT ![p] = a]
      BY <3>1
    <3>. HIDE DEF pc
    <3>4. a \in Acts
      BY <1>0, <3>2 DEF Acts, PCs, Ends
    <3>5. OnlyMoves(p) /\ act'[p] = a
      BY <1>0, <3>3, <3>4, Moves
    <3>. QED
      BY <1>0, <1>7, <3>2, <3>5 DEF DeleteBundle, Acts, BackupPCs, Early, Places
  <2>. QED
    BY <2>1, <2>2
<1>. QED
  BY <1>1, <1>2, <1>3, <1>4, <1>5, <1>6, <1>7 DEF BackupStep

\* The end of a backup: the process is done, or goes on with its restore.
LEMMA EndBackupMoves ==
    ASSUME TypeOK, NEW p \in Actors, EndBackup(p)
    PROVE  /\ OnlyMoves(p) /\ act[p].pc = "bend"
           /\ \/ act[p].op = "backup" /\ act'[p] = Idle
              \/ /\ act[p].op # "backup" /\ GoesOn(p)
                 /\ act'[p].pc = IF act[p].ok THEN "unpack" ELSE "rend"
                 /\ act'[p].of = act[p].of /\ act'[p].ok = act[p].ok /\ act'[p].hit = act[p].hit
                 /\ act'[p].drop = act[p].drop
<1>0. act \in [Actors -> Acts] /\ act[p] \in Acts
  BY DEF TypeOK
<1>. DEFINE x == act[p]
            pc == IF SafetyDone(act[p].ok) THEN "unpack" ELSE "rend"
            a == [x EXCEPT !.pc = pc]
<1>1. CASE act[p].op = "backup"
  <2>1. act' = [act EXCEPT ![p] = Idle]
    BY <1>1 DEF EndBackup
  <2>. QED
    BY <1>0, <1>1, <2>1, MovesIdle DEF EndBackup, At
<1>2. CASE act[p].op # "backup"
  <2>1. act' = [act EXCEPT ![p] = a]
    BY <1>2 DEF EndBackup
  <2>2. pc \in PCs /\ pc = IF act[p].ok THEN "unpack" ELSE "rend"
    BY DEF PCs, Ends, SafetyDone
  <2>. HIDE DEF pc
  <2>3. a \in Acts
    BY <1>0, <2>2 DEF Acts
  <2>4. OnlyMoves(p) /\ act'[p] = a
    BY <1>0, <2>1, <2>3, Moves
  <2>. QED
    BY <1>0, <1>2, <2>2, <2>4 DEF EndBackup, At, GoesOn, Acts
<1>. QED
  BY <1>1, <1>2

\* The steps of a restore after its safety backup.
LEMMA RestoreMoves ==
    ASSUME TypeOK, Stages, NEW p \in Actors, RestoreStep(p)
    PROVE  \/ act[p].pc = "rend" /\ OnlyMoves(p) /\ act'[p] = Idle
           \/ /\ GoesOn(p)
              /\ act[p].pc \in RestorePCs \ {"rend"}
              /\ act'[p].pc \in RestorePCs
              /\ ~act'[p].ok => act'[p].pc = "rend" \/ ~act[p].ok
              /\ act'[p].of = act[p].of
              /\ act'[p].drop = act[p].drop
<1>. USE DEF GoesOn, At
<1>0. act \in [Actors -> Acts] /\ act[p] \in Acts /\ objs \in SUBSET Atts /\ made \in [Runs -> Contents]
  BY DEF TypeOK
<1>. DEFINE x == act[p]
<1>f. ASSUME Fails(p), act[p].pc \in RestorePCs \ {"rend"}
      PROVE  /\ GoesOn(p)
             /\ act'[p].pc = "rend" /\ ~act'[p].ok /\ act'[p].hit
             /\ act'[p].of = act[p].of
             /\ act'[p].drop = act[p].drop
  <2>1. act[p].pc \in PCs \ Ends
    BY <1>f DEF RestorePCs, Window, PCs, Ends, Replacing
  <2>. QED
    BY <1>0, <1>f, <2>1, FailsFacts, AfterFailureType
<1>g. ASSUME NEW pc \in RestorePCs, Goto(p, pc)
      PROVE  /\ GoesOn(p)
             /\ act'[p].pc = pc /\ act'[p].ok = act[p].ok /\ act'[p].hit = act[p].hit
             /\ act'[p].of = act[p].of
             /\ act'[p].drop = act[p].drop
  <2>1. pc \in PCs
    BY <1>g DEF RestorePCs, Window, PCs, Ends, Replacing
  <2>. QED
    BY <1>0, <1>g, <2>1, GotoFacts
<1>1. CASE Unpack(p)
  BY <1>1, <1>f, <1>g DEF Unpack, RestorePCs, Window
<1>2. CASE StageObjects(p)
  <2>. DEFINE pc == IF backend = "local" THEN "swap" ELSE "put"
              t == Staged(p)
              a == [x EXCEPT !.pc = pc, !.todo = t]
  <2>1. x.pc = "stage" /\ act' = [act EXCEPT ![p] = a]
    BY <1>2 DEF StageObjects
  <2>2. act[p].op = "restore" /\ act[p].of[2] \in Runs
    BY <2>1, IdleFacts DEF Stages, Stage, HasTarget, BackupPCs, DrillPCs
  <2>3. made[act[p].of[2]] \in Contents
    BY <1>0, <2>2
  <2>4. t \in SUBSET Atts
    BY <2>3 DEF Staged, Target, Contents
  <2>5. pc \in {"swap", "put"}
    OBVIOUS
  <2>. HIDE DEF pc, t
  <2>6. a \in Acts
    BY <1>0, <2>4, <2>5 DEF Acts, PCs, Replacing
  <2>7. OnlyMoves(p) /\ act'[p] = a
    BY <1>0, <2>1, <2>6, Moves
  <2>. QED
    BY <1>0, <2>1, <2>5, <2>7 DEF Acts, RestorePCs, Window, Replacing
<1>3. CASE MoveAway(p)
  <2>. DEFINE a == [x EXCEPT !.objs = objs, !.pc = "publish"]
  <2>1. a \in Acts
    BY <1>0 DEF Acts, PCs, Replacing
  <2>2. OnlyMoves(p) /\ act'[p] = a
    BY <1>0, <1>3, <2>1, Moves DEF MoveAway
  <2>. QED
    BY <1>0, <1>3, <2>2 DEF MoveAway, Acts, RestorePCs, Window, Replacing
<1>4. CASE PublishObjects(p)
  <2>. DEFINE a == [x EXCEPT !.todo = {}, !.pc = "remove"]
  <2>1. a \in Acts
    BY <1>0 DEF Acts, PCs, Replacing
  <2>2. OnlyMoves(p) /\ act'[p] = a
    BY <1>0, <1>4, <2>1, Moves DEF PublishObjects
  <2>. QED
    BY <1>0, <1>4, <2>2 DEF PublishObjects, Acts, RestorePCs, Window, Replacing
<1>5. CASE RemovePrevious(p) \/ CleanTables(p) \/ LoadTables(p)
  BY <1>5, <1>g DEF RemovePrevious, CleanTables, LoadTables, RestorePCs, Window, Replacing
<1>6. CASE PutObject(p)
  <2>1. CASE Goto(p, "clean")
    BY <1>6, <2>1, <1>g DEF PutObject, RestorePCs, Window, Replacing
  <2>2. ASSUME NEW o \in act[p].todo, act' = [act EXCEPT ![p].todo = @ \ {o}]
        PROVE  GoesOn(p) /\ act'[p].pc = act[p].pc /\ act'[p].of = act[p].of
               /\ act'[p].ok = act[p].ok /\ act'[p].drop = act[p].drop
    <3>. DEFINE a == [x EXCEPT !.todo = @ \ {o}]
    <3>1. a \in Acts
      BY <1>0 DEF Acts
    <3>2. OnlyMoves(p) /\ act'[p] = a
      BY <1>0, <2>2, <3>1, Moves
    <3>. QED
      BY <1>0, <3>2 DEF Acts
  <2>. QED
    BY <1>6, <2>1, <2>2 DEF PutObject, RestorePCs, Window, Replacing
<1>7. CASE CheckRestored(p)
  <2>1. CASE Goto(p, "rend")
    BY <1>7, <2>1, <1>g DEF CheckRestored, RestorePCs, Window, Replacing
  <2>2. CASE act' = [act EXCEPT ![p].pc = "rend", ![p].ok = FALSE]
    <3>. DEFINE a == [x EXCEPT !.pc = "rend", !.ok = FALSE]
    <3>1. a \in Acts
      BY <1>0 DEF Acts, PCs, Ends
    <3>2. OnlyMoves(p) /\ act'[p] = a
      BY <1>0, <2>2, <3>1, Moves
    <3>. QED
      BY <1>0, <1>7, <3>2 DEF CheckRestored, Acts, RestorePCs, Window, Replacing
  <2>. QED
    BY <1>7, <2>1, <2>2 DEF CheckRestored
<1>8. CASE EndRestore(p)
  BY <1>0, <1>8, MovesIdle DEF EndRestore
<1>. QED
  BY <1>1, <1>2, <1>3, <1>4, <1>5, <1>6, <1>7, <1>8 DEF RestoreStep

\* The steps of a recovery drill.
LEMMA DrillMoves ==
    ASSUME TypeOK, NEW p \in Actors, DrillStep(p)
    PROVE  \/ act[p].pc = "dend" /\ OnlyMoves(p) /\ act'[p] = Idle
           \/ /\ OnlyMoves(p) /\ act'[p].op = act[p].op /\ act'[p].run = act[p].run
              /\ act[p].pc \in DrillPCs \ {"dend"}
              /\ act'[p].pc \in DrillPCs
              /\ ~act'[p].ok => act'[p].pc \in {"dropdb", "dend"} \/ (~act[p].ok /\ act[p].pc # "dropdb")
              /\ act'[p].drop = act[p].drop
<1>. USE DEF At
<1>0. act \in [Actors -> Acts] /\ act[p] \in Acts
  BY DEF TypeOK
<1>. DEFINE x == act[p]
<1>f. ASSUME Fails(p), act[p].pc \in DrillPCs \ {"dend"}
      PROVE  /\ OnlyMoves(p) /\ act'[p].op = act[p].op /\ act'[p].run = act[p].run
             /\ act'[p].pc \in {"dropdb", "dend"}
             /\ act'[p].drop = act[p].drop
  <2>1. act[p].pc \in PCs \ Ends
    BY <1>f DEF DrillPCs, PCs, Ends
  <2>. QED
    BY <1>0, <1>f, <2>1, FailsFacts, AfterFailureType
<1>g. ASSUME NEW pc \in DrillPCs, Goto(p, pc)
      PROVE  /\ OnlyMoves(p) /\ act'[p].op = act[p].op /\ act'[p].run = act[p].run
             /\ act'[p].pc = pc /\ act'[p].ok = act[p].ok
             /\ act'[p].drop = act[p].drop
  <2>1. pc \in PCs
    BY <1>g DEF DrillPCs, PCs, Ends
  <2>. QED
    BY <1>0, <1>g, <2>1, GotoFacts
<1>1. CASE FindLatest(p)
  <2>1. CASE Fails(p)
    BY <1>1, <1>f, <2>1 DEF FindLatest, DrillPCs
  <2>2. ASSUME NEW d \in Listed("offsite"),
               act' = [act EXCEPT ![p].of = d, ![p].pc = IF Opens(d) THEN "open" ELSE "dend",
                                  ![p].ok = Opens(d), ![p].hit = ~Opens(d)]
        PROVE  /\ OnlyMoves(p) /\ act'[p].op = act[p].op /\ act'[p].run = act[p].run
               /\ act'[p].pc = IF act'[p].ok THEN "open" ELSE "dend"
               /\ act'[p].drop = act[p].drop
    <3>. DEFINE opens == Opens(d)
                pc == IF opens THEN "open" ELSE "dend"
                a == [x EXCEPT !.of = d, !.pc = pc, !.ok = opens, !.hit = ~opens]
    <3>1. d \in Places \X (Runs \cup {None})
      BY SurplusType DEF Bundles
    <3>2. opens \in BOOLEAN
      BY DEF Opens, Whole
    <3>3. pc \in PCs
      BY DEF PCs, Ends
    <3>4. act' = [act EXCEPT ![p] = a]
      BY <2>2
    <3>. HIDE DEF opens
    <3>5. a \in Acts
      BY <1>0, <3>1, <3>2, <3>3 DEF Acts
    <3>6. OnlyMoves(p) /\ act'[p] = a
      BY <1>0, <3>4, <3>5, Moves
    <3>. QED
      BY <1>0, <3>2, <3>6 DEF Acts
  <2>. QED
    BY <1>1, <2>1, <2>2, ZenonT(60) DEF FindLatest, DrillPCs
<1>2. CASE OpenBundle(p)
  BY <1>2, <1>f, <1>g DEF OpenBundle, DrillPCs
<1>3. CASE CreateDatabase(p) \/ DropDatabase(p)
  BY <1>3, <1>g DEF CreateDatabase, DropDatabase, DrillPCs
<1>4. CASE Replay(p)
  <2>. DEFINE ok == Verified(Target(p).rows, Target(p).objs, Target(p).objs)
              a == [x EXCEPT !.pc = "dropdb", !.ok = ok]
  <2>1. ok \in BOOLEAN
    BY DEF Verified
  <2>2. act' = [act EXCEPT ![p] = a]
    BY <1>4 DEF Replay
  <2>. HIDE DEF ok
  <2>3. a \in Acts
    BY <1>0, <2>1 DEF Acts, PCs
  <2>4. OnlyMoves(p) /\ act'[p] = a
    BY <1>0, <2>2, <2>3, Moves
  <2>. QED
    BY <1>0, <1>4, <2>4 DEF Replay, Acts, DrillPCs
<1>5. CASE EndDrill(p)
  BY <1>0, <1>5, MovesIdle DEF EndDrill
<1>. QED
  BY <1>1, <1>2, <1>3, <1>4, <1>5 DEF DrillStep

\* A new run, of a backup or before a restore.
LEMMA BeginMoves ==
    ASSUME TypeOK, NEW p \in Actors, NEW op \in {"backup", "restore"},
           NEW of \in Places \X (Runs \cup {None}), BeginRun(p, op, of)
    PROVE  /\ OnlyMoves(p)
           /\ runs < MaxRuns /\ runs' = runs + 1 /\ runs + 1 \in Runs
           /\ act'[p].op = op /\ act'[p].pc = "dump" /\ act'[p].run = runs + 1 /\ act'[p].of = of
           /\ act'[p].drop = {} /\ act'[p].ok /\ ~act'[p].hit
<1>. DEFINE n == runs + 1
            a == [Idle EXCEPT !.op = op, !.pc = "dump", !.run = n, !.of = of]
<1>1. act \in [Actors -> Acts] /\ Idle \in Acts
  BY IdleFacts DEF TypeOK
<1>2. runs < MaxRuns /\ runs' = n /\ n \in Runs
  BY BackupsAssumption DEF BeginRun, TypeOK, Runs
<1>3. act' = [act EXCEPT ![p] = a]
  BY DEF BeginRun
<1>. HIDE DEF n
<1>4. a \in Acts
  BY <1>1, <1>2 DEF Acts, PCs
<1>5. OnlyMoves(p) /\ act'[p] = a
  BY <1>1, <1>3, <1>4, Moves
<1>6. /\ a.op = op /\ a.pc = "dump" /\ a.run = n /\ a.of = of
      /\ a.drop = Idle.drop /\ a.ok = Idle.ok /\ a.hit = Idle.hit
  BY <1>1 DEF Acts
<1>. QED
  BY <1>2, <1>5, <1>6, IdleFacts DEF n

\* A drill begins.
LEMMA RunDrillMoves ==
    ASSUME TypeOK, NEW p \in Actors, RunDrill(p)
    PROVE  /\ OnlyMoves(p) /\ act[p] = Idle
           /\ act'[p].op = "drill" /\ act'[p].pc = "find" /\ act'[p].run = None
           /\ act'[p].drop = {} /\ act'[p].ok /\ ~act'[p].hit
<1>. DEFINE a == [Idle EXCEPT !.op = "drill", !.pc = "find"]
<1>1. act \in [Actors -> Acts] /\ Idle \in Acts
  BY IdleFacts DEF TypeOK
<1>2. act' = [act EXCEPT ![p] = a]
  BY DEF RunDrill
<1>3. a \in Acts
  BY <1>1 DEF Acts, PCs
<1>4. OnlyMoves(p) /\ act'[p] = a
  BY <1>1, <1>2, <1>3, Moves
<1>5. /\ a.op = "drill" /\ a.pc = "find" /\ a.run = Idle.run
      /\ a.drop = Idle.drop /\ a.ok = Idle.ok /\ a.hit = Idle.hit
  BY <1>1 DEF Acts
<1>. QED
  BY <1>4, <1>5, IdleFacts DEF RunDrill

\* A process at a step, of one of the three operations.
LEMMA StageFacts ==
    ASSUME NEW a, Stage(a)
    PROVE  /\ a.pc \in BackupPCs => a.op \in {"backup", "restore"} /\ a.run \in 1 .. runs
           /\ a.pc \in RestorePCs => a.op = "restore" /\ a.run \in 1 .. runs
           /\ a.pc \in DrillPCs => a.op = "drill" /\ a.run = None
           /\ a.pc \notin Ends => a.pc \in BackupPCs \cup RestorePCs \cup DrillPCs
           /\ a.pc = "idle" => a = Idle
           /\ a.op = "drill" => a.pc \in DrillPCs
           /\ a.op = "restore" => a.pc \in BackupPCs \cup RestorePCs
           /\ a.op \in {"backup", "restore"} => a.run \in 1 .. runs
  BY IdleFacts DEF Stage, BackupPCs, RestorePCs, DrillPCs, Window, Replacing, Ends

\* A process goes on with its run, or gives it up, or has none.
Advances(p) ==
    /\ OnlyMoves(p)
    /\ runs' = runs
    /\ \/ act'[p].run = None
       \/ /\ act'[p].run = act[p].run
          /\ \A pl \in Places : act[p].pc \notin Early[pl] => act'[p].pc \notin Early[pl]

Begins(p) ==
    /\ OnlyMoves(p)
    /\ act[p] = Idle
    /\ runs' = runs + 1
    /\ act'[p].run = runs + 1 /\ act'[p].pc = "dump"

ProcessStep(p) == Step(p) \/ StepFails(p) \/ Crash(p)

\* Every step keeps the process at a step of its operation.
LEMMA ProcessMoves ==
    ASSUME TypeOK, Stages, NEW p \in Actors, ProcessStep(p)
    PROVE  /\ Advances(p)
           /\ Stage(act[p])' /\ Careful(act[p])' /\ HasTarget(act[p])'
           /\ act[p] # Idle
           /\ act'[p] = Idle \/ act'[p].op = act[p].op
<1>0. act \in [Actors -> Acts] /\ act[p] \in Acts /\ Stage(act[p]) /\ Careful(act[p]) /\ HasTarget(act[p])
  BY DEF TypeOK, Stages
<1>r. runs' = runs
  <2>1. CASE BackupStep(p)
    BY <2>1 DEF BackupStep, Dump, ListObjects, CopyObject, ObjectsCopied, WritePayload, WriteManifest,
       Replicate, CopyPayloads, PublishReplica, ListBundles, DeleteBundle, EndBackup, bundles
  <2>2. CASE RestoreStep(p)
    BY <2>2, SMTT(30) DEF RestoreStep, Unpack, StageObjects, MoveAway, PublishObjects, RemovePrevious,
       PutObject, CleanTables, LoadTables, CheckRestored, EndRestore, bundles
  <2>3. CASE DrillStep(p) \/ StepFails(p) \/ Crash(p)
    BY <2>3 DEF DrillStep, FindLatest, OpenBundle, CreateDatabase, Replay, DropDatabase, EndDrill,
       StepFails, Crash, bundles
  <2>. QED
    BY <2>1, <2>2, <2>3, SMTT(30) DEF ProcessStep, Step
<1>i. ASSUME OnlyMoves(p), act'[p] = Idle, act[p].pc # "idle"
      PROVE  /\ Advances(p)
             /\ Stage(act[p])' /\ Careful(act[p])' /\ HasTarget(act[p])'
             /\ act[p] # Idle
  BY <1>r, <1>i, IdleFacts DEF Advances, Stage, Careful, HasTarget, Idle
<1>s. ASSUME OnlyMoves(p), act'[p].op = act[p].op, act'[p].run = act[p].run,
             \/ act[p].pc \in BackupPCs /\ act'[p].pc \in BackupPCs
             \/ act[p].op = "restore" /\ act[p].pc \in BackupPCs \cup RestorePCs /\ act'[p].pc \in RestorePCs
             \/ act[p].pc \in DrillPCs /\ act'[p].pc \in DrillPCs
      PROVE  Stage(act[p])' /\ act[p] # Idle
  <2>1. act[p] # Idle
    BY <1>s, IdleFacts DEF BackupPCs, RestorePCs, DrillPCs, Window, Replacing
  <2>2. Stage(act[p])' <=> \/ act'[p] = Idle
                           \/ act'[p].op \in {"backup", "restore"} /\ act'[p].pc \in BackupPCs /\ act'[p].run \in 1 .. runs
                           \/ act'[p].op = "restore" /\ act'[p].pc \in RestorePCs /\ act'[p].run \in 1 .. runs
                           \/ act'[p].op = "drill" /\ act'[p].pc \in DrillPCs /\ act'[p].run = None
    BY <1>r DEF Stage, Idle, NoRows
  <2>. QED
    BY <1>0, <1>s, <2>1, <2>2, StageFacts
<1>1. CASE BackupStep(p) /\ ~EndBackup(p)
  <2>1. /\ GoesOn(p) /\ act[p].pc \in BackupPCs /\ act'[p].pc \in BackupPCs
        /\ ~act'[p].ok => act'[p].pc = "bend" \/ ~act[p].ok
        /\ \A pl \in Places : act[p].pc \notin Early[pl] => act'[p].pc \notin Early[pl]
        /\ act'[p].of = act[p].of /\ act[p].pc # "bend"
    BY <1>1, BackupMoves
  <2>2. Careful(act[p])' /\ HasTarget(act[p])'
    BY <1>0, <2>1 DEF Careful, HasTarget, GoesOn, BackupPCs
  <2>. QED
    BY <1>r, <1>s, <2>1, <2>2 DEF GoesOn, Advances
<1>2. CASE EndBackup(p)
  <2>1. OnlyMoves(p) /\ act[p].pc = "bend"
    BY <1>2, EndBackupMoves
  <2>2. CASE act'[p] = Idle
    BY <1>i, <2>1, <2>2
  <2>3. CASE /\ act[p].op # "backup" /\ GoesOn(p)
             /\ act'[p].pc = IF act[p].ok THEN "unpack" ELSE "rend"
             /\ act'[p].of = act[p].of /\ act'[p].ok = act[p].ok
    <3>1. act[p].op = "restore"
      BY <1>0, <2>1, <2>3, StageFacts DEF BackupPCs
    <3>2. act'[p].pc \in RestorePCs /\ \A pl \in Places : act'[p].pc \notin Early[pl]
      BY <2>3 DEF RestorePCs, Window, Early, Places
    <3>3. Careful(act[p])' /\ HasTarget(act[p])'
      BY <1>0, <2>3 DEF Careful, HasTarget, GoesOn
    <3>4. Stage(act[p])' /\ act[p] # Idle
      BY <1>s, <2>1, <2>3, <3>1, <3>2 DEF GoesOn, BackupPCs
    <3>. QED
      BY <1>r, <2>3, <3>2, <3>3, <3>4 DEF GoesOn, Advances
  <2>. QED
    BY <1>2, <2>2, <2>3, EndBackupMoves
<1>3. CASE RestoreStep(p)
  <2>1. CASE act[p].pc = "rend" /\ OnlyMoves(p) /\ act'[p] = Idle
    BY <1>i, <2>1
  <2>2. CASE /\ GoesOn(p) /\ act[p].pc \in RestorePCs \ {"rend"} /\ act'[p].pc \in RestorePCs
             /\ ~act'[p].ok => act'[p].pc = "rend" \/ ~act[p].ok
             /\ act'[p].of = act[p].of
    <3>1. act[p].op = "restore"
      BY <1>0, <2>2, StageFacts
    <3>2. \A pl \in Places : act'[p].pc \notin Early[pl]
      BY <2>2 DEF RestorePCs, Window, Replacing, Early, Places
    <3>3. Careful(act[p])' /\ HasTarget(act[p])'
      BY <1>0, <2>2 DEF Careful, HasTarget, GoesOn, RestorePCs, Window, Replacing
    <3>4. Stage(act[p])' /\ act[p] # Idle
      BY <1>s, <2>2, <3>1 DEF GoesOn
    <3>. QED
      BY <1>r, <2>2, <3>2, <3>3, <3>4 DEF GoesOn, Advances
  <2>. QED
    BY <1>3, <2>1, <2>2, RestoreMoves
<1>4. CASE DrillStep(p)
  <2>1. CASE act[p].pc = "dend" /\ OnlyMoves(p) /\ act'[p] = Idle
    BY <1>i, <2>1
  <2>2. CASE /\ OnlyMoves(p) /\ act'[p].op = act[p].op /\ act'[p].run = act[p].run
             /\ act[p].pc \in DrillPCs \ {"dend"} /\ act'[p].pc \in DrillPCs
             /\ ~act'[p].ok => act'[p].pc \in {"dropdb", "dend"} \/ (~act[p].ok /\ act[p].pc # "dropdb")
    <3>1. act[p].op = "drill" /\ act[p].run = None
      BY <1>0, <2>2, StageFacts
    <3>2. Careful(act[p])'
      BY <1>0, <2>2 DEF Careful, DrillPCs
    <3>3. HasTarget(act[p])'
      BY <2>2, <3>1 DEF HasTarget
    <3>4. Stage(act[p])' /\ act[p] # Idle
      BY <1>s, <2>2
    <3>. QED
      BY <1>r, <2>2, <3>1, <3>2, <3>3, <3>4 DEF Advances
  <2>. QED
    BY <1>4, <2>1, <2>2, DrillMoves
<1>5. CASE StepFails(p)
  <2>1. act[p].pc \in PCs \ Ends /\ Fails(p)
    BY <1>0, <1>5 DEF StepFails, Acts
  <2>2. /\ OnlyMoves(p)
        /\ act'[p].pc = AfterFailure(act[p].pc) /\ act'[p].op = act[p].op
        /\ act'[p].run = act[p].run /\ act'[p].of = act[p].of
    BY <1>0, <2>1, FailsFacts
  <2>3. Careful(act[p])' /\ HasTarget(act[p])' /\ \A pl \in Places : act'[p].pc \notin Early[pl]
    BY <1>0, <2>1, <2>2, AfterFailureType DEF Careful, HasTarget, Early, Places
  <2>4. act[p].pc \in BackupPCs \cup RestorePCs \cup DrillPCs
    BY <1>0, <2>1, StageFacts
  <2>5. Stage(act[p])' /\ act[p] # Idle
    <3>1. CASE act[p].pc \in BackupPCs
      BY <1>s, <2>1, <2>2, <3>1, AfterFailureType DEF BackupPCs
    <3>2. CASE act[p].pc \in RestorePCs
      BY <1>0, <1>s, <2>1, <2>2, <3>2, AfterFailureType, StageFacts DEF RestorePCs, Window
    <3>3. CASE act[p].pc \in DrillPCs
      BY <1>s, <2>1, <2>2, <3>3, AfterFailureType DEF DrillPCs
    <3>. QED
      BY <2>4, <3>1, <3>2, <3>3
  <2>. QED
    BY <1>r, <2>2, <2>3, <2>5 DEF Advances
<1>6. CASE Crash(p)
  <2>1. act[p].pc # "idle" /\ act[p] # Idle
    BY <1>0, <1>6, StageFacts DEF Crash
  <2>. QED
    BY <1>0, <1>6, <1>i, <2>1, MovesIdle DEF Crash
<1>. QED
  BY <1>1, <1>2, <1>3, <1>4, <1>5, <1>6 DEF ProcessStep, Step, BackupStep

\* A new run.
LEMMA BeginFacts ==
    ASSUME TypeOK, NEW p \in Actors, RunBackup(p) \/ RestoreBundle(p)
    PROVE  /\ Begins(p)
           /\ Stage(act[p])' /\ Careful(act[p])' /\ HasTarget(act[p])'
           /\ act'[p].drop = {} /\ act'[p].ok
           /\ act'[p].op \in {"backup", "restore"}
           /\ runs + 1 \in Runs
           /\ UNCHANGED <<backend, data, dir, made, stamps, statuses, before, writes, faults>>
<1>1. PICK op \in {"backup", "restore"}, of \in Places \X (Runs \cup {None}) :
          BeginRun(p, op, of) /\ act[p] = Idle /\ (op = "restore" => of[2] \in Runs)
  <2>1. CASE RunBackup(p)
    <3>1. BeginRun(p, "backup", <<"local", None>>) /\ act[p] = Idle
      BY <2>1 DEF RunBackup
    <3>2. <<"local", None>> \in Places \X (Runs \cup {None})
      BY DEF Places
    <3>. QED
      BY <3>1, <3>2
  <2>2. CASE RestoreBundle(p)
    <3>1. PICK pl \in {"local", "offsite"}, r \in Runs : BeginRun(p, "restore", <<pl, r>>)
      BY <2>2 DEF RestoreBundle
    <3>2. <<pl, r>> \in Places \X (Runs \cup {None}) /\ <<pl, r>>[2] \in Runs
      BY DEF Places
    <3>. QED
      BY <2>2, <3>1, <3>2 DEF RestoreBundle
  <2>. QED
    BY <2>1, <2>2
<1>2. /\ OnlyMoves(p)
      /\ runs' = runs + 1 /\ runs + 1 \in Runs
      /\ act'[p].op = op /\ act'[p].pc = "dump" /\ act'[p].run = runs + 1 /\ act'[p].of = of
      /\ act'[p].drop = {} /\ act'[p].ok
  BY <1>1, BeginMoves
<1>3. runs + 1 \in 1 .. (runs + 1)
  BY <1>2 DEF Runs
<1>4. Stage(act[p])' /\ Careful(act[p])' /\ HasTarget(act[p])'
  BY <1>1, <1>2, <1>3 DEF Stage, Careful, HasTarget, BackupPCs, Idle, NoRows, Runs
<1>5. UNCHANGED <<backend, data, dir, made, stamps, statuses, before, writes, faults>>
  BY DEF RunBackup, RestoreBundle, data, statuses
<1>. QED
  BY <1>1, <1>2, <1>4, <1>5 DEF Begins

\* A drill begins: nothing else moves.
LEMMA DrillFacts ==
    ASSUME TypeOK, NEW p \in Actors, RunDrill(p)
    PROVE  /\ Advances(p)
           /\ Stage(act[p])' /\ Careful(act[p])' /\ HasTarget(act[p])'
           /\ act'[p].drop = {} /\ act'[p].ok
           /\ UNCHANGED <<backend, data, bundles, statuses, before, writes, faults>>
<1>1. /\ OnlyMoves(p) /\ act[p] = Idle
      /\ act'[p].op = "drill" /\ act'[p].pc = "find" /\ act'[p].run = None
      /\ act'[p].drop = {} /\ act'[p].ok
  BY RunDrillMoves
<1>2. UNCHANGED <<backend, data, bundles, statuses, before, writes, faults>>
  BY DEF RunDrill
<1>3. Stage(act[p])' /\ Careful(act[p])' /\ HasTarget(act[p])'
  BY <1>1 DEF Stage, Careful, HasTarget, DrillPCs, Idle, NoRows, None
<1>. QED
  BY <1>1, <1>2, <1>3 DEF Advances, bundles

\* Who moves in a step of the whole.
LEMMA Kinds ==
    ASSUME [Next]_vars
    PROVE  \/ \E p \in Actors : ProcessStep(p)
           \/ \E p \in Actors : RunBackup(p) \/ RestoreBundle(p)
           \/ \E p \in Actors : RunDrill(p)
           \/ \E a \in Atts : AppStep(a)
           \/ UNCHANGED vars
  BY DEF Next, Actors, ProcessStep

\* Every process stays at a step of its operation.
LEMMA StagesStep ==
    ASSUME TypeOK, Stages, [Next]_vars
    PROVE  Stages'
<1>1. ASSUME NEW p \in Actors, OnlyMoves(p), runs' \in {runs, runs + 1},
             Stage(act[p])' /\ Careful(act[p])' /\ HasTarget(act[p])'
      PROVE  Stages'
  <2>1. ASSUME NEW q \in Actors, q # p
        PROVE  Stage(act[q])' /\ Careful(act[q])' /\ HasTarget(act[q])'
    <3>1. act'[q] = act[q] /\ Stage(act[q]) /\ Careful(act[q]) /\ HasTarget(act[q])
      BY <1>1, <2>1 DEF OnlyMoves, Stages
    <3>2. 1 .. runs \subseteq 1 .. runs'
      BY <1>1 DEF TypeOK
    <3>. QED
      BY <3>1, <3>2 DEF Stage, Careful, HasTarget, Idle, NoRows
  <2>. QED
    BY <1>1, <2>1 DEF Stages
<1>2. ASSUME UNCHANGED <<act, runs>>
      PROVE  Stages'
  BY <1>2 DEF Stages, Stage, Careful, HasTarget, Idle, NoRows
<1>3. CASE \E p \in Actors : ProcessStep(p)
  BY <1>1, <1>3, ProcessMoves DEF Advances
<1>4. CASE \E p \in Actors : RunBackup(p) \/ RestoreBundle(p)
  BY <1>1, <1>4, BeginFacts DEF Begins
<1>5. CASE \E p \in Actors : RunDrill(p)
  BY <1>1, <1>5, DrillFacts DEF Advances
<1>6. CASE \E a \in Atts : AppStep(a)
  BY <1>2, <1>6 DEF AppStep, bundles
<1>7. CASE UNCHANGED vars
  BY <1>2, <1>7 DEF vars, bundles
<1>. QED
  BY <1>3, <1>4, <1>5, <1>6, <1>7, Kinds

\* A run is begun by one process, and nobody takes it over.
LEMMA RunsApartStep ==
    ASSUME TypeOK, Stages, RunsApart, [Next]_vars
    PROVE  RunsApart'
<1>1. ASSUME NEW p \in Actors, Advances(p)
      PROVE  RunsApart'
  BY <1>1 DEF Advances, OnlyMoves, RunsApart
<1>2. ASSUME NEW p \in Actors, Begins(p)
      PROVE  RunsApart'
  <2>1. \A q \in Actors : act[q].run # runs + 1
    <3>1. \A q \in Actors : act[q].run = None \/ act[q].run \in 1 .. runs
      BY IdleFacts DEF Stages, Stage
    <3>. QED
      BY <3>1 DEF TypeOK, None
  <2>. QED
    BY <1>2, <2>1 DEF Begins, OnlyMoves, RunsApart
<1>3. ASSUME UNCHANGED act
      PROVE  RunsApart'
  BY <1>3 DEF RunsApart
<1>4. CASE \E p \in Actors : ProcessStep(p)
  BY <1>1, <1>4, ProcessMoves
<1>5. CASE \E p \in Actors : RunBackup(p) \/ RestoreBundle(p)
  BY <1>2, <1>5, BeginFacts
<1>6. CASE \E p \in Actors : RunDrill(p)
  BY <1>1, <1>6, DrillFacts
<1>7. CASE \E a \in Atts : AppStep(a)
  BY <1>3, <1>7 DEF AppStep
<1>8. CASE UNCHANGED vars
  BY <1>3, <1>8 DEF vars
<1>. QED
  BY <1>4, <1>5, <1>6, <1>7, <1>8, Kinds

\* A run that has come past a place stays past it.
LEMMA BornKept ==
    ASSUME TypeOK, Stages, [Next]_vars, NEW pl \in Places, NEW r \in Runs, Born(pl, r)
    PROVE  Born(pl, r)'
<1>0. r \in Nat \ {0} /\ runs \in Nat /\ r <= runs
  BY BackupsAssumption DEF Runs, TypeOK, Born
<1>1. ASSUME NEW p \in Actors, Advances(p)
      PROVE  Born(pl, r)'
  BY <1>0, <1>1 DEF Advances, OnlyMoves, Born, None
<1>2. ASSUME NEW p \in Actors, Begins(p)
      PROVE  Born(pl, r)'
  <2>1. r # runs + 1 /\ r <= runs'
    BY <1>0, <1>2 DEF Begins
  <2>. QED
    BY <1>2, <2>1 DEF Begins, OnlyMoves, Born
<1>3. ASSUME UNCHANGED <<act, runs>>
      PROVE  Born(pl, r)'
  BY <1>3 DEF Born
<1>4. CASE \E p \in Actors : ProcessStep(p)
  BY <1>1, <1>4, ProcessMoves
<1>5. CASE \E p \in Actors : RunBackup(p) \/ RestoreBundle(p)
  BY <1>2, <1>5, BeginFacts
<1>6. CASE \E p \in Actors : RunDrill(p)
  BY <1>1, <1>6, DrillFacts
<1>7. CASE \E a \in Atts : AppStep(a)
  BY <1>3, <1>7 DEF AppStep, bundles
<1>8. CASE UNCHANGED vars
  BY <1>3, <1>8 DEF vars, bundles
<1>. QED
  BY <1>4, <1>5, <1>6, <1>7, <1>8, Kinds

-----------------------------------------------------------------------------
(***************************************************************************)
(* What is written where                                                   *)
(***************************************************************************)
Both == {"payload", "manifest"}
DirType == dir \in [Places -> [Runs -> SUBSET Both]]

\* The directories after the one of run r in pl was given the contents s.
WithCell(pl, r, s) == [dir EXCEPT ![pl][r] = s]

\* One directory changes.
LEMMA CellWritten ==
    ASSUME DirType, NEW pl \in Places, NEW r \in Runs, NEW s \in SUBSET Both,
           dir' = WithCell(pl, r, s)
    PROVE  /\ DirType'
           /\ dir'[pl][r] = s
           /\ \A x \in Places, y \in Runs : x # pl \/ y # r => dir'[x][y] = dir[x][y]
<1>1. dir' = [dir EXCEPT ![pl] = [dir[pl] EXCEPT ![r] = s]]
  BY DEF WithCell
<1>2. [dir[pl] EXCEPT ![r] = s] \in [Runs -> SUBSET Both]
  BY DEF DirType
<1>3. DirType'
  BY <1>1, <1>2 DEF DirType
<1>4. dir'[pl] = [dir[pl] EXCEPT ![r] = s] /\ \A x \in Places \ {pl} : dir'[x] = dir[x]
  BY <1>1 DEF DirType
<1>. QED
  BY <1>3, <1>4 DEF DirType

\* What a process writes in the directory of its own run.
OwnWrite(p, pl, r) ==
    /\ r = act[p].run
    /\ \/ /\ pl = "local" /\ act[p].pc \in {"payload", "manifest"}
          /\ "manifest" \notin dir'[pl][r]
       \/ /\ pl = "local" /\ act[p].pc = "manifest" /\ WriteManifest(p)
          /\ dir'[pl][r] = Both
       \/ /\ pl = "staging" /\ act[p].pc = "replicate" /\ act'[p].pc = "replica"
          /\ Whole("local", r)
       \/ pl = "staging" /\ act[p].pc \in {"replica", "rename"} /\ dir'[pl][r] = {}
       \/ /\ pl = "staging" /\ act[p].pc = "replica" /\ act'[p].pc = "rename"
          /\ HasManifest("staging", r) /\ dir'[pl][r] = Both
       \/ /\ pl = "offsite" /\ act[p].pc = "rename" /\ act'[p].pc = "offlist"
          /\ HasManifest("staging", r) /\ dir'[pl][r] = Both

\* What a cleanup takes away.
Deletes(p, pl, r) ==
    /\ DeleteBundle(p) /\ <<pl, r>> \in act[p].drop
    /\ dir'[pl][r] \subseteq dir[pl][r]

MadeMoves(p) ==
    /\ \A r \in Runs : made'[r] # made[r] => r = act[p].run /\ act[p].pc \in {"payload", "manifest"}
    /\ \/ stamps' = stamps
       \/ WriteManifest(p) /\ stamps' = stamps + 1 /\ made'[act[p].run].at = stamps + 1

DirMoves(p) == \A pl \in Places, r \in Runs :
                   dir'[pl][r] = dir[pl][r] \/ OwnWrite(p, pl, r) \/ Deletes(p, pl, r)

\* A process that leaves the staging of a replica has taken it away.
Unstages(p) ==
    act[p].pc \in {"replica", "rename"} /\ act'[p].pc \notin {"replica", "rename"} =>
        dir'["staging"][act[p].run] = {}

\* A run that has no stamp yet leaves room for one.
LEMMA RoomForStamp ==
    ASSUME TypeOK, Stages, Counted, NEW p \in Actors, act[p].pc \in Early["local"]
    PROVE  /\ act[p].run \in Coming /\ act[p].run \in Runs /\ act[p].run \in 1 .. runs
           /\ IsFiniteSet(Coming) /\ Cardinality(Coming) \in Nat
           /\ stamps + 1 \in 0 .. runs
<1>1. act[p].run \in 1 .. runs
  BY StageFacts DEF Stages, Early, BackupPCs
<1>2. act[p].run \in Runs /\ act[p].run <= runs
  BY <1>1, BackupsAssumption DEF TypeOK, Runs
<1>3. act[p].run \in Coming
  BY <1>2 DEF Coming, Born
<1>4. IsFiniteSet(Runs)
  BY BackupsAssumption, FS_Interval DEF Runs
<1>5. Coming \subseteq Runs
  BY DEF Coming
<1>6. IsFiniteSet(Coming)
  BY <1>4, <1>5, FS_Subset
<1>7. Cardinality(Coming) \in Nat
  BY <1>6, FS_CardinalityType
<1>8. Cardinality(Coming) # 0
  BY <1>3, <1>6, FS_EmptySet
<1>9. stamps \in Nat /\ runs \in Nat
  BY BackupsAssumption DEF TypeOK
<1>10. stamps + 1 \in 0 .. runs
  BY <1>7, <1>8, <1>9 DEF Counted
<1>. QED
  BY <1>1, <1>2, <1>3, <1>6, <1>7, <1>10

\* The payloads are written to the run's own directory.
LEMMA WritePayloadEffect ==
    ASSUME TypeOK, Stages, Counted, NEW p \in Actors, WritePayload(p)
    PROVE  /\ DirType' /\ made' \in [Runs -> Contents]
           /\ DirMoves(p) /\ MadeMoves(p) /\ Unstages(p)
<1>1. act[p].pc = "payload" /\ act[p].pc \in Early["local"]
  BY DEF WritePayload, At, Early
<1>2. act[p].run \in Runs /\ stamps + 1 \in 0 .. runs
  BY <1>1, RoomForStamp
<1>3. DirType /\ {"payload"} \in SUBSET Both /\ "local" \in Places
  BY DEF TypeOK, DirType, Both, Places
<1>4. dir' = WithCell("local", act[p].run, {"payload"})
  BY DEF WritePayload, Written, WithCell
<1>5. /\ DirType'
      /\ dir'["local"][act[p].run] = {"payload"}
      /\ \A x \in Places, y \in Runs : x # "local" \/ y # act[p].run => dir'[x][y] = dir[x][y]
  BY <1>2, <1>3, <1>4, CellWritten
<1>6. DirMoves(p)
  BY <1>1, <1>5 DEF DirMoves, OwnWrite
<1>. DEFINE c == [rows |-> act[p].rows, objs |-> act[p].objs, at |-> stamps + 1]
<1>7. c \in Contents
  <2>1. act[p] \in Acts
    BY DEF TypeOK
  <2>2. act[p].rows \in [Atts -> RowStates] /\ act[p].objs \in SUBSET Atts
    BY <2>1 DEF Acts
  <2>3. stamps + 1 \in 0 .. MaxRuns
    BY <1>2, BackupsAssumption DEF TypeOK
  <2>. QED
    BY <2>2, <2>3 DEF Contents
<1>8. made' = [made EXCEPT ![act[p].run] = c] /\ stamps' = stamps
  BY DEF WritePayload
<1>. HIDE DEF c
<1>9. made' \in [Runs -> Contents]
  BY <1>7, <1>8 DEF TypeOK
<1>10. MadeMoves(p)
  BY <1>1, <1>8 DEF MadeMoves, TypeOK
<1>11. Unstages(p)
  BY <1>1 DEF Unstages
<1>. QED
  BY <1>5, <1>6, <1>9, <1>10, <1>11

\* The manifest completes the run's own directory and stamps it.
LEMMA WriteManifestEffect ==
    ASSUME TypeOK, Stages, Counted, NEW p \in Actors, WriteManifest(p)
    PROVE  /\ DirType' /\ made' \in [Runs -> Contents]
           /\ DirMoves(p) /\ MadeMoves(p) /\ Unstages(p)
           /\ dir'["local"][act[p].run] = Both
           /\ \A x \in Places, y \in Runs : x # "local" \/ y # act[p].run => dir'[x][y] = dir[x][y]
           /\ made'[act[p].run].at = stamps + 1 /\ stamps' = stamps + 1
           /\ act[p].run \in Runs /\ act[p].pc = "manifest" /\ act'[p].pc = "replicate"
           /\ act'[p].run = act[p].run
<1>1. act[p].pc = "manifest" /\ act[p].pc \in Early["local"]
  BY DEF WriteManifest, At, Early
<1>2. act[p].run \in Runs /\ stamps + 1 \in 0 .. runs
  BY <1>1, RoomForStamp
<1>3. DirType /\ Both \in SUBSET Both /\ "local" \in Places
  BY DEF TypeOK, DirType, Both, Places
<1>4. dir' = WithCell("local", act[p].run, Both)
  BY DEF WriteManifest, Written, Both, WithCell
<1>5. /\ DirType'
      /\ dir'["local"][act[p].run] = Both
      /\ \A x \in Places, y \in Runs : x # "local" \/ y # act[p].run => dir'[x][y] = dir[x][y]
  BY <1>2, <1>3, <1>4, CellWritten
<1>6. DirMoves(p)
  BY <1>1, <1>5 DEF DirMoves, OwnWrite
<1>. DEFINE r == act[p].run
            c == [made[r] EXCEPT !.at = stamps + 1]
<1>7. c \in Contents /\ c.at = stamps + 1
  <2>1. made[r] \in Contents
    BY <1>2 DEF TypeOK
  <2>2. stamps + 1 \in 0 .. MaxRuns
    BY <1>2, BackupsAssumption DEF TypeOK
  <2>. QED
    BY <2>1, <2>2 DEF Contents
<1>8. made' = [made EXCEPT ![r] = c] /\ stamps' = stamps + 1
  BY DEF WriteManifest
<1>. HIDE DEF c
<1>9. made' \in [Runs -> Contents] /\ made'[r] = c /\ \A y \in Runs \ {r} : made'[y] = made[y]
  BY <1>2, <1>7, <1>8 DEF TypeOK
<1>10. MadeMoves(p)
  BY <1>1, <1>7, <1>8, <1>9 DEF MadeMoves
<1>11. Unstages(p)
  BY <1>1 DEF Unstages
<1>12. act'[p].pc = "replicate" /\ act'[p].run = act[p].run
  BY GotoFacts DEF WriteManifest, TypeOK, PCs
<1>. QED
  BY <1>1, <1>2, <1>5, <1>6, <1>7, <1>8, <1>9, <1>10, <1>11, <1>12

\* A run of a backup.
LEMMA OwnRun ==
    ASSUME TypeOK, Stages, NEW p \in Actors, act[p].pc \in BackupPCs
    PROVE  act[p].run \in Runs /\ act[p].run \in 1 .. runs
<1>1. act[p].run \in 1 .. runs
  BY StageFacts DEF Stages
<1>. QED
  BY <1>1, BackupsAssumption DEF TypeOK, Runs

\* The replica is staged, copied and published in the run's own directories.
LEMMA ReplicaEffects ==
    ASSUME TypeOK, Stages, NEW p \in Actors,
           Replicate(p) \/ CopyPayloads(p) \/ PublishReplica(p)
    PROVE  DirType' /\ DirMoves(p) /\ Unstages(p)
<1>. DEFINE r == act[p].run
<1>1. act[p].pc \in {"replicate", "replica", "rename"} /\ act[p].pc \in BackupPCs
  BY DEF Replicate, CopyPayloads, PublishReplica, At, BackupPCs
<1>2. r \in Runs
  BY <1>1, OwnRun
<1>3. DirType /\ act \in [Actors -> Acts]
  BY DEF TypeOK, DirType, Both
<1>4. "staging" \in Places /\ "offsite" \in Places /\ "local" \in Places
  BY DEF Places
<1>5. {} \in SUBSET Both /\ {"manifest"} \in SUBSET Both /\ Both \in SUBSET Both
  BY DEF Both
<1>6. ASSUME NEW s \in SUBSET Both, dir' = WithCell("staging", r, s)
      PROVE  /\ DirType'
             /\ dir'["staging"][r] = s
             /\ \A x \in Places, y \in Runs : x # "staging" \/ y # r => dir'[x][y] = dir[x][y]
  BY <1>2, <1>3, <1>4, <1>6, CellWritten
<1>7. CASE Replicate(p)
  <2>1. act[p].pc = "replicate"
    BY <1>7 DEF Replicate, At
  <2>2. CASE Sound(p)
    <3>1. dir' = WithCell("staging", r, {"manifest"}) /\ Goto(p, "replica") /\ Whole("local", r)
      BY <1>7, <2>2 DEF Replicate, WithCell, Sound
    <3>2. act'[p].pc = "replica"
      BY <1>3, <3>1, GotoFacts DEF PCs
    <3>. QED
      BY <1>5, <1>6, <2>1, <3>1, <3>2 DEF DirMoves, OwnWrite, Unstages
  <2>3. CASE ~Sound(p)
    BY <1>3, <1>7, <2>1, <2>3 DEF Replicate, DirMoves, Unstages, DirType
  <2>. QED
    BY <2>2, <2>3
<1>8. CASE CopyPayloads(p)
  <2>1. act[p].pc = "replica"
    BY <1>8 DEF CopyPayloads, At
  <2>2. CASE Intact("local", r) /\ HasManifest("staging", r)
    <3>1. dir' = WithCell("staging", r, Both) /\ Goto(p, "rename")
      BY <1>8, <2>2 DEF CopyPayloads, WithCell, Both
    <3>2. act'[p].pc = "rename"
      BY <1>3, <3>1, GotoFacts DEF PCs
    <3>. QED
      BY <1>5, <1>6, <2>1, <2>2, <3>1, <3>2 DEF DirMoves, OwnWrite, Unstages
  <2>3. CASE ~(Intact("local", r) /\ HasManifest("staging", r))
    <3>1. dir' = WithCell("staging", r, {})
      BY <1>8, <2>3 DEF CopyPayloads, WithCell
    <3>. QED
      BY <1>5, <1>6, <2>1, <3>1 DEF DirMoves, OwnWrite, Unstages
  <2>. QED
    BY <2>2, <2>3
<1>9. CASE PublishReplica(p)
  <2>1. act[p].pc = "rename"
    BY <1>9 DEF PublishReplica, At
  <2>2. CASE Whole("staging", r)
    <3>1. dir["staging"][r] = Both
      BY <1>2, <1>3, <1>4, <2>2 DEF Whole, HasManifest, Intact, DirType, Both
    <3>2. dir' = [dir EXCEPT !["staging"][r] = {}, !["offsite"][r] = Both] /\ Goto(p, "offlist")
      BY <1>9, <2>2, <3>1 DEF PublishReplica
    <3>3. act'[p].pc = "offlist"
      BY <1>3, <3>2, GotoFacts DEF PCs
    <3>. DEFINE st == [dir["staging"] EXCEPT ![r] = {}]
                of == [dir["offsite"] EXCEPT ![r] = Both]
    <3>4. dir' = [[dir EXCEPT !["staging"] = st] EXCEPT !["offsite"] = of]
      BY <1>3, <1>4, <3>2 DEF DirType
    <3>5. st \in [Runs -> SUBSET Both] /\ of \in [Runs -> SUBSET Both]
      BY <1>2, <1>3, <1>4, <1>5 DEF DirType
    <3>6. st[r] = {} /\ of[r] = Both /\ \A y \in Runs \ {r} : st[y] = dir["staging"][y] /\ of[y] = dir["offsite"][y]
      BY <1>2, <1>3, <1>4 DEF DirType
    <3>. HIDE DEF st, of
    <3>7. DirType' /\ dir'["staging"] = st /\ dir'["offsite"] = of /\ dir'["local"] = dir["local"]
      BY <1>3, <1>4, <3>4, <3>5 DEF DirType
    <3>. QED
      BY <2>1, <2>2, <3>3, <3>6, <3>7 DEF DirMoves, OwnWrite, Unstages, Whole, Places
  <2>3. CASE ~Whole("staging", r)
    <3>1. dir' = WithCell("staging", r, {})
      BY <1>9, <2>3 DEF PublishReplica, WithCell
    <3>. QED
      BY <1>5, <1>6, <2>1, <3>1 DEF DirMoves, OwnWrite, Unstages
  <2>. QED
    BY <2>2, <2>3
<1>. QED
  BY <1>7, <1>8, <1>9

\* A cleanup takes away the files of one of the directories it listed.
LEMMA DeleteEffect ==
    ASSUME TypeOK, NEW p \in Actors, DeleteBundle(p)
    PROVE  /\ DirType' /\ DirMoves(p) /\ Unstages(p)
           /\ act[p].pc \in {"offdel", "locdel"}
           /\ act'[p].drop \subseteq act[p].drop
           /\ act'[p].pc = act[p].pc \/ act'[p].pc \notin {"offdel", "locdel"}
           /\ \/ UNCHANGED dir
              \/ \E d \in act[p].drop, rest \in SUBSET Both :
                    /\ d \in Bundles
                    /\ rest \subseteq dir[d[1]][d[2]]
                    /\ dir'[d[1]][d[2]] = rest
                    /\ \A x \in Places, y \in Runs : x # d[1] \/ y # d[2] => dir'[x][y] = dir[x][y]
<1>0. DirType /\ act \in [Actors -> Acts] /\ act[p] \in Acts
  BY DEF TypeOK, DirType, Both
<1>1. act[p].pc \in {"offdel", "locdel"}
  BY DEF DeleteBundle
<1>2. Unstages(p)
  BY <1>1 DEF Unstages
<1>3. PICK d \in act[p].drop : LET held == dir[d[1]][d[2]]
           IN  IF held = {}
               THEN Fails(p) /\ UNCHANGED dir
               ELSE \E rest \in SUBSET held :
                        /\ rest # held
                        /\ dir' = [dir EXCEPT ![d[1]][d[2]] = rest]
                        /\ LET left == IF rest = {} THEN act[p].drop \ {d} ELSE act[p].drop
                           IN  act' = [act EXCEPT ![p].drop = left,
                                                  ![p].pc = IF left = {} THEN Cleaned(@) ELSE @]
  BY DEF DeleteBundle
<1>4. d \in Bundles
  BY <1>0 DEF Acts
<1>5. d[1] \in Places /\ d[2] \in Runs /\ d = <<d[1], d[2]>>
  BY <1>4 DEF Bundles
<1>6. CASE dir[d[1]][d[2]] = {}
  <2>1. Fails(p) /\ UNCHANGED dir
    BY <1>3, <1>6
  <2>2. act[p].pc \in PCs \ Ends /\ act[p].pc \in BackupPCs
    BY <1>1 DEF PCs, Ends, BackupPCs
  <2>3. act'[p].pc = "bend" /\ act'[p].drop = act[p].drop
    BY <1>0, <2>1, <2>2, FailsFacts, AfterFailureType
  <2>. QED
    BY <1>0, <1>1, <1>2, <2>1, <2>3 DEF DirType, DirMoves
<1>7. CASE dir[d[1]][d[2]] # {}
  <2>1. PICK rest \in SUBSET dir[d[1]][d[2]], left \in SUBSET act[p].drop :
            /\ dir' = [dir EXCEPT ![d[1]][d[2]] = rest]
            /\ act' = [act EXCEPT ![p].drop = left, ![p].pc = IF left = {} THEN Cleaned(@) ELSE @]
    BY <1>3, <1>7
  <2>2. dir' = WithCell(d[1], d[2], rest) /\ rest \in SUBSET Both
    BY <1>0, <1>5, <2>1 DEF WithCell, DirType
  <2>3. /\ DirType' /\ dir'[d[1]][d[2]] = rest
        /\ \A x \in Places, y \in Runs : x # d[1] \/ y # d[2] => dir'[x][y] = dir[x][y]
    BY <1>0, <1>5, <2>2, CellWritten
  <2>4. DirMoves(p)
    BY <1>5, <2>1, <2>3 DEF DirMoves, Deletes
  <2>. DEFINE pc == IF left = {} THEN Cleaned(act[p].pc) ELSE act[p].pc
              a == [act[p] EXCEPT !.drop = left, !.pc = pc]
  <2>5. act'[p] = a
    BY <1>0, <2>1
  <2>6. pc = act[p].pc \/ pc \notin {"offdel", "locdel"}
    BY DEF Cleaned
  <2>. HIDE DEF pc
  <2>7. act'[p].drop = left /\ act'[p].pc = pc
    BY <1>0, <2>5 DEF Acts
  <2>. QED
    BY <1>1, <1>2, <1>4, <2>1, <2>2, <2>3, <2>4, <2>6, <2>7
<1>. QED
  BY <1>6, <1>7

\* A failing step takes away what its function was writing.
LEMMA StepFailsEffect ==
    ASSUME TypeOK, Stages, NEW p \in Actors, StepFails(p)
    PROVE  DirType' /\ DirMoves(p) /\ Unstages(p)
<1>. DEFINE r == act[p].run
<1>0. DirType /\ {} \in SUBSET Both /\ "local" \in Places /\ "staging" \in Places
  BY DEF TypeOK, DirType, Both, Places
<1>1. CASE act[p].pc \in {"payload", "manifest"}
  <2>1. r \in Runs
    BY <1>1, OwnRun DEF BackupPCs
  <2>2. dir' = WithCell("local", r, {})
    BY <1>1 DEF StepFails, WithCell
  <2>3. /\ DirType' /\ dir'["local"][r] = {}
        /\ \A x \in Places, y \in Runs : x # "local" \/ y # r => dir'[x][y] = dir[x][y]
    BY <1>0, <2>1, <2>2, CellWritten
  <2>. QED
    BY <1>1, <2>3 DEF DirMoves, OwnWrite, Unstages
<1>2. CASE act[p].pc \in {"replica", "rename"}
  <2>1. r \in Runs
    BY <1>2, OwnRun DEF BackupPCs
  <2>2. dir' = WithCell("staging", r, {})
    BY <1>2 DEF StepFails, WithCell
  <2>3. /\ DirType' /\ dir'["staging"][r] = {}
        /\ \A x \in Places, y \in Runs : x # "staging" \/ y # r => dir'[x][y] = dir[x][y]
    BY <1>0, <2>1, <2>2, CellWritten
  <2>. QED
    BY <1>2, <2>3 DEF DirMoves, OwnWrite, Unstages
<1>3. CASE act[p].pc \notin {"payload", "manifest", "replica", "rename"}
  <2>1. dir' = dir
    BY <1>3 DEF StepFails
  <2>. QED
    BY <1>0, <1>3, <2>1 DEF DirType, DirMoves, Unstages
<1>. QED
  BY <1>1, <1>2, <1>3

\* What the steps of a process do to the bundles.
LEMMA BundleEffect ==
    ASSUME TypeOK, Stages, Counted, NEW p \in Actors, ProcessStep(p)
    PROVE  /\ DirType' /\ made' \in [Runs -> Contents]
           /\ DirMoves(p) /\ MadeMoves(p)
           /\ Unstages(p) \/ Crash(p)
           /\ faults' = faults \/ faults' = faults + 1
           /\ Crash(p) => faults' = faults + 1 /\ UNCHANGED <<dir, made, stamps>>
           /\ UNCHANGED status \/ EndBackup(p)
<1>0. DirType /\ made \in [Runs -> Contents]
  BY DEF TypeOK, DirType, Both
<1>q. ASSUME UNCHANGED <<dir, made, stamps>>
      PROVE  DirType' /\ made' \in [Runs -> Contents] /\ DirMoves(p) /\ MadeMoves(p)
  BY <1>0, <1>q DEF DirType, DirMoves, MadeMoves
<1>m. ASSUME UNCHANGED <<made, stamps>>
      PROVE  made' \in [Runs -> Contents] /\ MadeMoves(p)
  BY <1>0, <1>m DEF MadeMoves
<1>1. CASE WritePayload(p)
  <2>1. faults' = faults /\ UNCHANGED status /\ ~Crash(p)
    BY <1>1, BackupsAssumption DEF WritePayload, statuses, Crash, TypeOK
  <2>. QED
    BY <1>1, <2>1, WritePayloadEffect
<1>2. CASE WriteManifest(p)
  <2>1. faults' = faults /\ UNCHANGED status /\ ~Crash(p)
    BY <1>2, BackupsAssumption DEF WriteManifest, statuses, Crash, TypeOK
  <2>. QED
    BY <1>2, <2>1, WriteManifestEffect
<1>3. CASE Replicate(p) \/ CopyPayloads(p) \/ PublishReplica(p)
  <2>1. faults' = faults /\ UNCHANGED <<made, stamps, status>> /\ ~Crash(p)
    BY <1>3, BackupsAssumption DEF Replicate, CopyPayloads, PublishReplica, statuses, Crash, TypeOK
  <2>. QED
    BY <1>3, <1>m, <2>1, ReplicaEffects
<1>4. CASE DeleteBundle(p)
  <2>1. faults' = faults /\ UNCHANGED <<made, stamps, status>> /\ ~Crash(p)
    BY <1>4, BackupsAssumption DEF DeleteBundle, statuses, Crash, TypeOK
  <2>. QED
    BY <1>4, <1>m, <2>1, DeleteEffect
<1>5. CASE StepFails(p)
  <2>1. faults' = faults + 1 /\ UNCHANGED <<made, stamps, status>>
    BY <1>5 DEF StepFails, statuses
  <2>2. ~Crash(p)
    <3>1. act'[p].ok = FALSE
      BY <1>5, FailsFacts DEF StepFails, TypeOK
    <3>. QED
      BY <3>1, IdleFacts, MovesIdle DEF Crash, TypeOK
  <2>. QED
    BY <1>5, <1>m, <2>1, <2>2, StepFailsEffect
<1>6. CASE Crash(p)
  <2>1. faults' = faults + 1 /\ UNCHANGED <<dir, made, stamps, status>>
    BY <1>6 DEF Crash, bundles, statuses
  <2>. QED
    BY <1>6, <1>q, <2>1
<1>7. CASE Dump(p) \/ ListObjects(p) \/ CopyObject(p) \/ ObjectsCopied(p) \/ ListBundles(p)
  <2>1. /\ UNCHANGED <<dir, made, stamps, status, faults>>
        /\ act[p].pc \in {"dump", "list", "copy", "offlist", "loclist"}
    BY <1>7 DEF Dump, ListObjects, CopyObject, ObjectsCopied, ListBundles, At, bundles, statuses
  <2>2. Unstages(p) /\ ~Crash(p)
    BY <2>1, BackupsAssumption DEF Unstages, Crash, TypeOK
  <2>. QED
    BY <1>q, <2>1, <2>2
<1>8. CASE EndBackup(p) \/ RestoreStep(p) \/ DrillStep(p)
  <2>1. UNCHANGED <<dir, made, stamps, faults>> /\ (UNCHANGED status \/ EndBackup(p))
    <3>1. CASE EndBackup(p)
      BY <3>1 DEF EndBackup, bundles
    <3>2. CASE RestoreStep(p)
      BY <3>2, SMTT(30) DEF RestoreStep, Unpack, StageObjects, MoveAway, PublishObjects, RemovePrevious,
         PutObject, CleanTables, LoadTables, CheckRestored, EndRestore, bundles, statuses
    <3>3. CASE DrillStep(p)
      BY <3>3 DEF DrillStep, FindLatest, OpenBundle, CreateDatabase, Replay, DropDatabase, EndDrill,
         bundles, statuses
    <3>. QED
      BY <1>8, <3>1, <3>2, <3>3
  <2>2. act[p].pc \notin {"replica", "rename"}
    <3>1. CASE EndBackup(p)
      BY <3>1 DEF EndBackup, At
    <3>2. CASE RestoreStep(p)
      BY <3>2, RestoreMoves DEF RestorePCs, Window, Replacing
    <3>3. CASE DrillStep(p)
      BY <3>3, DrillMoves DEF DrillPCs
    <3>. QED
      BY <1>8, <3>1, <3>2, <3>3
  <2>3. Unstages(p) /\ ~Crash(p)
    BY <2>1, <2>2, BackupsAssumption DEF Unstages, Crash, TypeOK
  <2>. QED
    BY <1>q, <2>1, <2>3
<1>. QED
  BY <1>1, <1>2, <1>3, <1>4, <1>5, <1>6, <1>7, <1>8 DEF ProcessStep, Step, BackupStep

\* The list of a cleanup.
LEMMA ListFacts ==
    ASSUME TypeOK, NEW p \in Actors, ListBundles(p)
    PROVE  LET root == IF act[p].pc = "offlist" THEN "offsite" ELSE "local"
           IN  /\ act[p].pc \in {"offlist", "loclist"}
               /\ act'[p].drop = Surplus(root)
               /\ act'[p].pc = "offdel" => root = "offsite"
               /\ act'[p].pc = "locdel" => root = "local"
               /\ UNCHANGED <<dir, made, stamps>>
<1>0. act \in [Actors -> Acts] /\ act[p] \in Acts
  BY DEF TypeOK
<1>. DEFINE root == IF act[p].pc = "offlist" THEN "offsite" ELSE "local"
            old == Surplus(root)
            pc == IF old = {} THEN Cleaned(act[p].pc) ELSE IF act[p].pc = "offlist" THEN "offdel" ELSE "locdel"
            a == [act[p] EXCEPT !.drop = old, !.pc = pc]
<1>1. act'[p] = a
  BY <1>0 DEF ListBundles
<1>2. act[p].pc \in {"offlist", "loclist"}
  BY DEF ListBundles
<1>3. (pc = "offdel" => root = "offsite") /\ (pc = "locdel" => root = "local")
  BY <1>2 DEF Cleaned
<1>. HIDE DEF pc, old
<1>4. act'[p].drop = old /\ act'[p].pc = pc
  BY <1>0, <1>1 DEF Acts
<1>. QED
  BY <1>2, <1>3, <1>4 DEF old, ListBundles, bundles

\* Only a listing adds to what is to be deleted.
LEMMA DropMoves ==
    ASSUME TypeOK, Stages, NEW p \in Actors, ProcessStep(p)
    PROVE  \/ ListBundles(p)
           \/ /\ act'[p].drop \subseteq act[p].drop
              /\ act'[p].pc \in {"offdel", "locdel"} => act'[p].pc = act[p].pc
<1>0. act \in [Actors -> Acts] /\ act[p] \in Acts
  BY DEF TypeOK
<1>g. ASSUME NEW pc \in PCs, Goto(p, pc)
      PROVE  act'[p].drop = act[p].drop /\ act'[p].pc = pc
  BY <1>0, <1>g, GotoFacts
<1>f. ASSUME Fails(p), act[p].pc \notin Ends
      PROVE  act'[p].drop = act[p].drop /\ act'[p].pc \notin {"offdel", "locdel"}
  <2>1. act[p].pc \in PCs \ Ends
    BY <1>0, <1>f DEF Acts
  <2>. QED
    BY <1>0, <1>f, <2>1, FailsFacts, AfterFailureType
<1>1. CASE Dump(p)
  <2>1. act'[p] = [act[p] EXCEPT !.rows = rows, !.pc = "list"]
    BY <1>0, <1>1 DEF Dump
  <2>. QED
    BY <1>0, <2>1 DEF Acts
<1>2. CASE ListObjects(p)
  <2>1. act'[p] = [act[p] EXCEPT !.todo = objs, !.pc = "copy"]
    BY <1>0, <1>2 DEF ListObjects
  <2>. QED
    BY <1>0, <2>1 DEF Acts
<1>3. CASE CopyObject(p)
  <2>1. PICK o \in act[p].todo :
           IF o \in objs
           THEN act' = [act EXCEPT ![p].todo = @ \ {o}, ![p].objs = @ \cup {o}]
           ELSE Fails(p)
    BY <1>3 DEF CopyObject
  <2>2. CASE o \in objs
    <3>1. act'[p] = [act[p] EXCEPT !.todo = @ \ {o}, !.objs = @ \cup {o}]
      BY <1>0, <2>1, <2>2
    <3>. QED
      BY <1>0, <3>1 DEF Acts
  <2>3. CASE o \notin objs
    BY <1>3, <1>f, <2>1, <2>3 DEF CopyObject, At, Ends
  <2>. QED
    BY <2>2, <2>3
<1>4. CASE ObjectsCopied(p) \/ WritePayload(p) \/ WriteManifest(p)
  BY <1>4, <1>g DEF ObjectsCopied, WritePayload, WriteManifest, PCs
<1>5. CASE Replicate(p) \/ CopyPayloads(p) \/ PublishReplica(p)
  <2>1. act[p].pc \notin Ends
    BY <1>5 DEF Replicate, CopyPayloads, PublishReplica, At, Ends
  <2>2. Fails(p) \/ Goto(p, "replica") \/ Goto(p, "rename") \/ Goto(p, "offlist")
    BY <1>5 DEF Replicate, CopyPayloads, PublishReplica
  <2>3. {"replica", "rename", "offlist"} \subseteq PCs
    BY DEF PCs
  <2>. QED
    BY <1>f, <1>g, <2>1, <2>2, <2>3
<1>6. CASE DeleteBundle(p)
  BY <1>6, DeleteEffect
<1>7. CASE EndBackup(p)
  BY <1>7, EndBackupMoves, IdleFacts
<1>8. CASE RestoreStep(p)
  BY <1>8, RestoreMoves, IdleFacts DEF RestorePCs, Window, Replacing
<1>9. CASE DrillStep(p)
  BY <1>9, DrillMoves, IdleFacts DEF DrillPCs
<1>10. CASE StepFails(p)
  BY <1>10, <1>f DEF StepFails
<1>11. CASE Crash(p)
  BY <1>0, <1>11, MovesIdle, IdleFacts DEF Crash
<1>. QED
  BY <1>1, <1>2, <1>3, <1>4, <1>5, <1>6, <1>7, <1>8, <1>9, <1>10, <1>11 DEF ProcessStep, Step, BackupStep

-----------------------------------------------------------------------------
(***************************************************************************)
(* Types                                                                   *)
(***************************************************************************)
DataType ==
    /\ backend \in Backends
    /\ rows \in [Atts -> RowStates]
    /\ objs \subseteq Atts

StatusType ==
    /\ status \in [outcome : Outcomes, run : Runs \cup {None}]
    /\ drill \in [outcome : Outcomes, run : Runs \cup {None}, hit : BOOLEAN]
    /\ restore \in [outcome : Outcomes, run : Runs \cup {None}, hit : BOOLEAN, fresh : BOOLEAN]
    /\ before \in [rows : [Atts -> RowStates], objs : SUBSET Atts]

BundleType ==
    /\ DirType
    /\ made \in [Runs -> Contents]
    /\ runs \in 0 .. MaxRuns /\ stamps \in 0 .. runs
    /\ act \in [Actors -> Acts]

CounterType == jobs \in Nat /\ writes \in Nat /\ faults \in Nat

\* The parts of the type invariant.
LEMMA TypeParts == TypeOK <=> DataType /\ StatusType /\ BundleType /\ CounterType
  BY DEF TypeOK, DataType, StatusType, BundleType, CounterType, DirType, Both

\* What a restore restores from.
LEMMA TargetType ==
    ASSUME TypeOK, Stages, NEW p \in Actors, act[p].pc \in RestorePCs
    PROVE  /\ act[p].op = "restore" /\ act[p].of[2] \in Runs
           /\ Target(p) \in Contents
           /\ Target(p).rows \in [Atts -> RowStates] /\ Target(p).objs \in SUBSET Atts
<1>1. act[p].op = "restore" /\ act[p].of[2] \in Runs
  BY StageFacts DEF Stages, HasTarget
<1>2. Target(p) \in Contents
  BY <1>1 DEF Target, TypeOK
<1>. QED
  BY <1>1, <1>2 DEF Contents

\* The data keep their types.
LEMMA DataTypes ==
    ASSUME TypeOK, Stages, [Next]_vars
    PROVE  DataType'
<1>0. DataType /\ act \in [Actors -> Acts]
  BY SMTT(30) DEF TypeOK, DataType
<1>1. ASSUME NEW p \in Actors, BackupStep(p)
      PROVE  DataType'
  BY <1>0, <1>1 DEF DataType, BackupStep, Dump, ListObjects, CopyObject, ObjectsCopied, WritePayload,
     WriteManifest, Replicate, CopyPayloads, PublishReplica, ListBundles, DeleteBundle, EndBackup, data
<1>2. ASSUME NEW p \in Actors, RestoreStep(p)
      PROVE  DataType'
  <2>1. CASE LoadTables(p)
    <3>1. Target(p).rows \in [Atts -> RowStates]
      BY <2>1, TargetType DEF LoadTables, At, RestorePCs, Window, Replacing
    <3>. QED
      BY <1>0, <2>1, <3>1 DEF LoadTables, DataType
  <2>2. CASE MoveAway(p) \/ PublishObjects(p) \/ PutObject(p) \/ CleanTables(p)
    <3>1. act[p].todo \subseteq Atts
      BY <1>0 DEF Acts
    <3>2. NoRows \in [Atts -> RowStates]
      BY DEF NoRows, RowStates
    <3>. QED
      BY <1>0, <2>2, <3>1, <3>2 DEF MoveAway, PublishObjects, PutObject, CleanTables, DataType
  <2>3. CASE Unpack(p) \/ StageObjects(p) \/ RemovePrevious(p) \/ CheckRestored(p) \/ EndRestore(p)
    BY <1>0, <2>3, SMTT(30) DEF Unpack, StageObjects, RemovePrevious, CheckRestored, EndRestore, DataType, data
  <2>. QED
    BY <1>2, <2>1, <2>2, <2>3 DEF RestoreStep
<1>3. ASSUME NEW p \in Actors, DrillStep(p) \/ Crash(p) \/ RunDrill(p) \/ RunBackup(p) \/ RestoreBundle(p)
      PROVE  DataType'
  BY <1>0, <1>3 DEF DataType, DrillStep, FindLatest, OpenBundle, CreateDatabase, Replay, DropDatabase,
     EndDrill, Crash, RunDrill, RunBackup, RestoreBundle, data
<1>4. ASSUME NEW p \in Actors, StepFails(p)
      PROVE  DataType'
  <2>1. act[p].objs \subseteq Atts
    BY <1>0 DEF Acts
  <2>. QED
    BY <1>0, <1>4, <2>1 DEF StepFails, PutBack, DataType
<1>5. ASSUME NEW a \in Atts, AppStep(a)
      PROVE  DataType'
  BY <1>0, <1>5 DEF AppStep, DataType, RowStates
<1>6. CASE UNCHANGED vars
  BY <1>0, <1>6 DEF vars, data, DataType
<1>. QED
  BY <1>1, <1>2, <1>3, <1>4, <1>5, <1>6, Kinds DEF ProcessStep, Step

\* The status files keep their types.
LEMMA StatusTypes ==
    ASSUME TypeOK, Stages, [Next]_vars
    PROVE  StatusType'
<1>0. StatusType /\ act \in [Actors -> Acts]
  BY DEF TypeOK, StatusType
<1>u. ASSUME UNCHANGED <<statuses, before>>
      PROVE  StatusType'
  BY <1>0, <1>u DEF StatusType, statuses
<1>a. ASSUME NEW p \in Actors
      PROVE  act[p].run \in Runs \cup {None} /\ act[p].of[2] \in Runs \cup {None}
             /\ act[p].ok \in BOOLEAN /\ act[p].hit \in BOOLEAN
  <2>1. act[p] \in Acts
    BY <1>0
  <2>2. act[p].of \in Places \X (Runs \cup {None})
    BY <2>1 DEF Acts
  <2>. QED
    BY <2>1, <2>2 DEF Acts
<1>f. [restore EXCEPT !.fresh = FALSE] \in [outcome : Outcomes, run : Runs \cup {None}, hit : BOOLEAN, fresh : BOOLEAN]
  BY <1>0 DEF StatusType
<1>1. ASSUME NEW p \in Actors, EndBackup(p)
      PROVE  StatusType'
  BY <1>0, <1>1, <1>a DEF EndBackup, StatusType, Outcomes
<1>2. ASSUME NEW p \in Actors, EndRestore(p)
      PROVE  StatusType'
  BY <1>0, <1>2, <1>a DEF EndRestore, StatusType, Outcomes
<1>3. ASSUME NEW p \in Actors, EndDrill(p)
      PROVE  StatusType'
  BY <1>0, <1>3, <1>a DEF EndDrill, StatusType, Outcomes
<1>4. ASSUME NEW p \in Actors, StageObjects(p)
      PROVE  StatusType'
  BY <1>0, <1>4, <1>f DEF StageObjects, StatusType, TypeOK
<1>5. ASSUME NEW a \in Atts, AppStep(a)
      PROVE  StatusType'
  <2>1. NoData \in [rows : [Atts -> RowStates], objs : SUBSET Atts]
    BY SMTT(30) DEF NoData, NoRows, RowStates
  <2>. QED
    BY <1>0, <1>5, <1>f, <2>1 DEF AppStep, StatusType
<1>6. ASSUME NEW p \in Actors, BackupStep(p), ~EndBackup(p)
      PROVE  StatusType'
  BY <1>6, <1>u DEF BackupStep, Dump, ListObjects, CopyObject, ObjectsCopied, WritePayload,
     WriteManifest, Replicate, CopyPayloads, PublishReplica, ListBundles, DeleteBundle
<1>7. ASSUME NEW p \in Actors, RestoreStep(p), ~EndRestore(p), ~StageObjects(p)
      PROVE  StatusType'
  BY <1>7, <1>u, SMTT(30) DEF RestoreStep, Unpack, MoveAway, PublishObjects, RemovePrevious,
     PutObject, CleanTables, LoadTables, CheckRestored
<1>8. ASSUME NEW p \in Actors, DrillStep(p), ~EndDrill(p)
      PROVE  StatusType'
  BY <1>8, <1>u DEF DrillStep, FindLatest, OpenBundle, CreateDatabase, Replay, DropDatabase
<1>9. ASSUME NEW p \in Actors, StepFails(p) \/ Crash(p) \/ RunDrill(p) \/ RunBackup(p) \/ RestoreBundle(p)
      PROVE  StatusType'
  BY <1>9, <1>u DEF StepFails, Crash, RunDrill, RunBackup, RestoreBundle
<1>10. CASE UNCHANGED vars
  BY <1>10, <1>u DEF vars
<1>. QED
  BY <1>1, <1>2, <1>3, <1>4, <1>5, <1>6, <1>7, <1>8, <1>9, <1>10, Kinds DEF ProcessStep, Step

\* The counters only grow.
LEMMA CounterTypes ==
    ASSUME TypeOK, [Next]_vars
    PROVE  CounterType'
<1>0. CounterType
  BY SMTT(30) DEF TypeOK, CounterType
<1>1. ASSUME NEW p \in Actors, BackupStep(p)
      PROVE  CounterType'
  BY <1>0, <1>1 DEF CounterType, BackupStep, Dump, ListObjects, CopyObject, ObjectsCopied, WritePayload,
     WriteManifest, Replicate, CopyPayloads, PublishReplica, ListBundles, DeleteBundle, EndBackup
<1>2. ASSUME NEW p \in Actors, RestoreStep(p)
      PROVE  CounterType'
  BY <1>0, <1>2 DEF CounterType, RestoreStep, Unpack, StageObjects, MoveAway, PublishObjects, RemovePrevious,
     PutObject, CleanTables, LoadTables, CheckRestored, EndRestore
<1>3. ASSUME NEW p \in Actors, DrillStep(p)
      PROVE  CounterType'
  <2>1. UNCHANGED <<jobs, writes, faults>>
    BY <1>3 DEF DrillStep, FindLatest, OpenBundle, CreateDatabase, Replay, DropDatabase, EndDrill
  <2>. QED
    BY <1>0, <2>1, SMTT(30) DEF CounterType
<1>7. ASSUME NEW p \in Actors, Crash(p) \/ StepFails(p)
      PROVE  CounterType'
  <2>1. UNCHANGED <<jobs, writes>> /\ faults' = faults + 1
    BY <1>7 DEF Crash, StepFails
  <2>. QED
    BY <1>0, <2>1 DEF CounterType
<1>4. ASSUME NEW p \in Actors, RunDrill(p) \/ RunBackup(p) \/ RestoreBundle(p)
      PROVE  CounterType'
  BY <1>0, <1>4 DEF CounterType, RunDrill, RunBackup, RestoreBundle
<1>5. ASSUME NEW a \in Atts, AppStep(a)
      PROVE  CounterType'
  BY <1>0, <1>5 DEF AppStep, CounterType
<1>6. CASE UNCHANGED vars
  BY <1>0, <1>6 DEF vars, CounterType
<1>. QED
  BY <1>1, <1>2, <1>3, <1>4, <1>5, <1>6, <1>7, Kinds DEF ProcessStep, Step

\* The bundles keep their types, and every stamp belongs to a run.
LEMMA BundleTypes ==
    ASSUME TypeOK, Stages, Counted, [Next]_vars
    PROVE  BundleType'
<1>0. BundleType /\ stamps \in Nat /\ runs \in Nat /\ MaxRuns \in Nat
  BY BackupsAssumption DEF TypeOK, BundleType, DirType, Both
<1>1. ASSUME NEW p \in Actors, ProcessStep(p)
      PROVE  BundleType'
  <2>1. DirType' /\ made' \in [Runs -> Contents] /\ MadeMoves(p)
    BY <1>1, BundleEffect
  <2>2. act' \in [Actors -> Acts] /\ runs' = runs
    BY <1>1, ProcessMoves DEF Advances, OnlyMoves
  <2>3. stamps' \in 0 .. runs
    <3>1. CASE stamps' = stamps
      BY <1>0, <3>1 DEF BundleType
    <3>2. CASE WriteManifest(p) /\ stamps' = stamps + 1
      BY <3>2, RoomForStamp DEF WriteManifest, At, Early
    <3>. QED
      BY <2>1, <3>1, <3>2 DEF MadeMoves
  <2>. QED
    BY <1>0, <2>1, <2>2, <2>3 DEF BundleType
<1>2. ASSUME NEW p \in Actors, RunBackup(p) \/ RestoreBundle(p)
      PROVE  BundleType'
  <2>1. /\ act' \in [Actors -> Acts] /\ runs' = runs + 1 /\ runs + 1 \in Runs
        /\ UNCHANGED <<dir, made, stamps>>
    BY <1>2, BeginFacts DEF Begins, OnlyMoves
  <2>. QED
    BY <1>0, <2>1 DEF BundleType, DirType, Runs
<1>3. ASSUME NEW p \in Actors, RunDrill(p)
      PROVE  BundleType'
  <2>1. act' \in [Actors -> Acts] /\ UNCHANGED <<dir, made, runs, stamps>>
    BY <1>3, DrillFacts DEF Advances, OnlyMoves, bundles
  <2>. QED
    BY <1>0, <2>1 DEF BundleType, DirType
<1>4. CASE (\E a \in Atts : AppStep(a)) \/ UNCHANGED vars
  BY <1>0, <1>4 DEF AppStep, vars, bundles, BundleType, DirType
<1>. QED
  BY <1>1, <1>2, <1>3, <1>4, Kinds

\* Every step keeps the types.
LEMMA TypeStep ==
    ASSUME TypeOK, Stages, Counted, [Next]_vars
    PROVE  TypeOK'
<1>1. DataType' /\ StatusType' /\ BundleType' /\ CounterType'
  BY DataTypes, StatusTypes, BundleTypes, CounterTypes
<1>. QED
  BY <1>1, TypeParts DEF TypeOK, DataType, StatusType, BundleType, CounterType, DirType, Both

-----------------------------------------------------------------------------
(***************************************************************************)
(* The order in which bundles appear                                       *)
(***************************************************************************)
\* The step of a process that is past a place puts its run past it.
LEMMA BornNow ==
    ASSUME TypeOK, Stages, RunsApart, [Next]_vars, NEW p \in Actors, NEW pl \in Places,
           act'[p].run \in Runs, act'[p].pc \notin Early[pl]
    PROVE  Born(pl, act[p].run)'
<1>1. Stages' /\ RunsApart'
  BY StagesStep, RunsApartStep
<1>2. act'[p].run \in 1 .. runs'
  <2>1. Stage(act[p])'
    BY <1>1 DEF Stages
  <2>2. act'[p].run # None
    BY BackupsAssumption DEF Runs, None
  <2>. QED
    BY <2>1, <2>2, IdleFacts DEF Stage, Idle, NoRows
<1>3. runs' \in Nat
  <2>1. runs \in Nat
    BY BackupsAssumption DEF TypeOK
  <2>2. runs' = runs \/ runs' = runs + 1
    <3>1. CASE \E q \in Actors : ProcessStep(q)
      BY <3>1, ProcessMoves DEF Advances
    <3>2. CASE \E q \in Actors : RunBackup(q) \/ RestoreBundle(q)
      BY <3>2, BeginFacts DEF Begins
    <3>3. CASE \E q \in Actors : RunDrill(q)
      BY <3>3, DrillFacts DEF Advances
    <3>4. CASE (\E a \in Atts : AppStep(a)) \/ UNCHANGED vars
      BY <3>4 DEF AppStep, vars, bundles
    <3>. QED
      BY <3>1, <3>2, <3>3, <3>4, Kinds
  <2>. QED
    BY <2>1, <2>2
<1>4. act'[p].run <= runs' /\ act'[p].run # None
  BY <1>2, <1>3 DEF None
<1>5. \A q \in Actors : act'[q].run = act'[p].run => q = p
  BY <1>1, <1>4 DEF RunsApart
<1>. QED
  BY <1>4, <1>5 DEF Born

\* The steps that are not a process's leave the bundles and their runs.
LEMMA OtherSteps ==
    ASSUME TypeOK, [Next]_vars, ~\E p \in Actors : ProcessStep(p)
    PROVE  /\ UNCHANGED <<dir, made, stamps, status, faults>>
           /\ \A q \in Actors :
                 \/ act'[q] = act[q]
                 \/ /\ act'[q].drop = {} /\ act'[q].pc \notin {"offdel", "locdel", "replica", "rename"}
                    /\ act[q] = Idle
                    /\ act'[q].op = "drill" \/ act'[q].pc \in Early["local"]
<1>1. CASE \E p \in Actors : RunBackup(p) \/ RestoreBundle(p)
  BY <1>1, BeginFacts DEF Begins, OnlyMoves, Early, statuses
<1>2. CASE \E p \in Actors : RunDrill(p)
  BY <1>2, DrillFacts, RunDrillMoves DEF Advances, OnlyMoves, Early, statuses, bundles
<1>3. CASE (\E a \in Atts : AppStep(a)) \/ UNCHANGED vars
  BY <1>3 DEF AppStep, vars, bundles, statuses
<1>. QED
  BY <1>1, <1>2, <1>3, Kinds

\* A manifest appears when its run is past the place, and only what has a
\* manifest is listed for deletion.
LEMMA UnbornStep ==
    ASSUME TypeOK, Stages, Counted, RunsApart, Unborn, [Next]_vars
    PROVE  Unborn'
<1>. SUFFICES ASSUME NEW pl \in Places, NEW r \in Runs, ~Born(pl, r)'
              PROVE  /\ ~HasManifest(pl, r)'
                     /\ \A q \in Actors : <<pl, r>> \notin act'[q].drop
  BY DEF Unborn
<1>1. ~Born(pl, r)
  BY BornKept
<1>2. "manifest" \notin dir[pl][r] /\ \A q \in Actors : <<pl, r>> \notin act[q].drop
  BY <1>1 DEF Unborn, HasManifest
<1>3. ASSUME NEW p \in Actors, ProcessStep(p)
      PROVE  /\ ~HasManifest(pl, r)'
             /\ \A q \in Actors : <<pl, r>> \notin act'[q].drop
  <2>1. DirMoves(p)
    BY <1>3, BundleEffect
  <2>2. OnlyMoves(p)
    BY <1>3, ProcessMoves DEF Advances
  <2>3. ASSUME act'[p].run = r
        PROVE  act'[p].pc \in Early[pl]
    BY <2>3, BornNow
  <2>4. act'[p].pc # "idle" => act'[p].run = act[p].run \/ act'[p].run = None
    BY <1>3, ProcessMoves, IdleFacts DEF Advances
  <2>5. "manifest" \notin dir'[pl][r]
    <3>1. CASE OwnWrite(p, pl, r)
      <4>1. r = act[p].run
        BY <3>1 DEF OwnWrite
      <4>2. ASSUME act[p].pc \in BackupPCs, act'[p].pc \in BackupPCs
            PROVE  act'[p].run = act[p].run
        <5>1. Stage(act[p])' /\ act[p].run \in 1 .. runs
          BY <1>3, <4>2, ProcessMoves, StageFacts DEF Stages
        <5>2. act'[p].op \in {"backup", "restore"} /\ act'[p].run \in 1 .. runs'
          BY <4>2, <5>1, IdleFacts DEF Stage, Idle, NoRows, BackupPCs, RestorePCs, DrillPCs, Window, Replacing
        <5>3. runs' = runs /\ runs \in Nat
          BY <1>3, ProcessMoves, BackupsAssumption DEF Advances, TypeOK
        <5>4. act'[p].run # None
          BY <5>2, <5>3 DEF None
        <5>. QED
          BY <1>3, <5>4, ProcessMoves DEF Advances
      <4>3. CASE WriteManifest(p) /\ pl = "local"
        BY <2>3, <4>1, <4>3, WriteManifestEffect DEF Early
      <4>4. CASE pl = "staging" /\ act[p].pc = "replicate" /\ act'[p].pc = "replica"
        BY <2>3, <4>1, <4>2, <4>4 DEF Early, BackupPCs
      <4>5. CASE pl = "offsite" /\ act[p].pc = "rename" /\ act'[p].pc = "offlist"
        BY <2>3, <4>1, <4>2, <4>5 DEF Early, BackupPCs
      <4>. QED
        BY <1>2, <3>1, <4>3, <4>4, <4>5 DEF OwnWrite, HasManifest
    <3>2. CASE Deletes(p, pl, r)
      BY <1>2, <3>2 DEF Deletes
    <3>. QED
      BY <1>2, <2>1, <3>1, <3>2 DEF DirMoves
  <2>6. <<pl, r>> \notin act'[p].drop
    <3>1. CASE ListBundles(p)
      <4>1. PICK root \in {"local", "offsite"} : act'[p].drop = Surplus(root)
        BY <3>1, ListFacts
      <4>. QED
        BY <1>2, <4>1 DEF Surplus, Listed, HasManifest
    <3>. QED
      BY <1>2, <1>3, <3>1, DropMoves
  <2>. QED
    BY <1>2, <2>2, <2>5, <2>6 DEF OnlyMoves, HasManifest
<1>4. ASSUME ~\E p \in Actors : ProcessStep(p)
      PROVE  /\ ~HasManifest(pl, r)'
             /\ \A q \in Actors : <<pl, r>> \notin act'[q].drop
  BY <1>2, <1>4, OtherSteps DEF HasManifest
<1>. QED
  BY <1>3, <1>4

\* A run with a manifest anywhere has been written.
LEMMA ListedBorn ==
    ASSUME Unborn, NEW pl \in Places, NEW r \in Runs, HasManifest(pl, r)
    PROVE  Born(pl, r) /\ Born("local", r)
<1>1. Born(pl, r)
  BY DEF Unborn
<1>. QED
  BY <1>1 DEF Born, Early, Places

\* What a run has written does not change.
LEMMA MadeKept ==
    ASSUME TypeOK, Stages, Counted, [Next]_vars, NEW r \in Runs, Born("local", r)
    PROVE  made'[r] = made[r]
<1>1. ASSUME NEW p \in Actors, ProcessStep(p)
      PROVE  made'[r] = made[r]
  BY <1>1, BundleEffect DEF MadeMoves, Born, Early
<1>. QED
  BY <1>1, OtherSteps

\* The stamps only grow.
LEMMA StampsGrow ==
    ASSUME TypeOK, Stages, Counted, [Next]_vars
    PROVE  stamps \in Nat /\ stamps' \in Nat /\ stamps <= stamps'
<1>0. stamps \in Nat
  BY BackupsAssumption DEF TypeOK
<1>1. ASSUME NEW p \in Actors, ProcessStep(p)
      PROVE  stamps' = stamps \/ stamps' = stamps + 1
  BY <1>1, BundleEffect DEF MadeMoves
<1>2. stamps' = stamps \/ stamps' = stamps + 1
  BY <1>1, OtherSteps
<1>. QED
  BY <1>0, <1>2

\* Every run has at most one stamp.
LEMMA CountedStep ==
    ASSUME TypeOK, Stages, RunsApart, Counted, [Next]_vars
    PROVE  Counted'
<1>0. IsFiniteSet(Runs) /\ Coming \subseteq Runs /\ runs \in Nat /\ stamps \in Nat
  BY BackupsAssumption, FS_Interval DEF Runs, Coming, TypeOK
<1>1. IsFiniteSet(Coming) /\ Cardinality(Coming) \in Nat
  BY <1>0, FS_Subset, FS_CardinalityType
<1>2. ASSUME NEW S, IsFiniteSet(S), Coming' \subseteq S
      PROVE  Cardinality(Coming') \in Nat /\ Cardinality(Coming') <= Cardinality(S) /\ Cardinality(S) \in Nat
  BY <1>2, FS_Subset, FS_CardinalityType
<1>3. ASSUME Coming' \subseteq Coming, runs' = runs, stamps' = stamps
      PROVE  Counted'
  BY <1>0, <1>1, <1>2, <1>3 DEF Counted
<1>4. \A r \in Runs : ~Born("local", r)' => ~Born("local", r)
  BY BornKept DEF Places
<1>5. runs' = runs => Coming' \subseteq Coming
  BY <1>4 DEF Coming
<1>6. ASSUME NEW p \in Actors, ProcessStep(p)
      PROVE  Counted'
  <2>1. runs' = runs /\ MadeMoves(p)
    BY <1>6, ProcessMoves, BundleEffect DEF Advances
  <2>2. CASE WriteManifest(p)
    <3>. DEFINE r == act[p].run
    <3>1. stamps' = stamps + 1 /\ act'[p].run = r /\ act'[p].pc = "replicate" /\ r \in Runs
          /\ act[p].pc = "manifest"
      BY <2>2, WriteManifestEffect
    <3>2. Born("local", act[p].run)'
      BY <3>1, BornNow DEF Early, Places
    <3>3. r \notin Coming'
      BY <3>1, <3>2 DEF Coming
    <3>4. r \in Coming
      BY <3>1, RoomForStamp DEF Early
    <3>5. IsFiniteSet(Coming \ {r}) /\ Cardinality(Coming \ {r}) = Cardinality(Coming) - 1
      BY <1>1, <3>4, FS_RemoveElement
    <3>6. Coming' \subseteq Coming \ {r}
      BY <1>5, <2>1, <3>3
    <3>7. Cardinality(Coming') \in Nat /\ Cardinality(Coming') <= Cardinality(Coming) - 1
      BY <1>2, <3>5, <3>6
    <3>. QED
      BY <1>0, <1>1, <2>1, <3>1, <3>7 DEF Counted
  <2>3. CASE stamps' = stamps
    BY <1>3, <1>5, <2>1, <2>3
  <2>. QED
    BY <2>1, <2>2, <2>3 DEF MadeMoves
<1>7. ASSUME NEW p \in Actors, RunBackup(p) \/ RestoreBundle(p)
      PROVE  Counted'
  <2>1. runs' = runs + 1 /\ stamps' = stamps
    BY <1>7, BeginFacts DEF Begins
  <2>2. IsFiniteSet(Coming \cup {runs + 1}) /\ Cardinality(Coming \cup {runs + 1}) <= Cardinality(Coming) + 1
    BY <1>1, FS_AddElement
  <2>3. Coming' \subseteq Coming \cup {runs + 1}
    BY <1>0, <1>4, <2>1 DEF Coming, Runs
  <2>4. /\ Cardinality(Coming') \in Nat /\ Cardinality(Coming \cup {runs + 1}) \in Nat
        /\ Cardinality(Coming') <= Cardinality(Coming \cup {runs + 1})
    BY <1>2, <2>2, <2>3
  <2>. QED
    BY <1>0, <1>1, <2>1, <2>2, <2>4 DEF Counted
<1>8. CASE \E p \in Actors : RunDrill(p)
  BY <1>3, <1>5, <1>8, DrillFacts DEF bundles
<1>9. CASE (\E a \in Atts : AppStep(a)) \/ UNCHANGED vars
  BY <1>3, <1>5, <1>9 DEF AppStep, vars, bundles
<1>. QED
  BY <1>6, <1>7, <1>8, <1>9, Kinds

\* The status file names the run that ended.
LEMMA EndBackupStatus ==
    ASSUME TypeOK, Stages, RunsApart, NEW p \in Actors, EndBackup(p), [Next]_vars
    PROVE  /\ status' = [outcome |-> IF act[p].ok THEN "success" ELSE "failed", run |-> act[p].run]
           /\ act[p].pc = "bend" /\ act[p].run \in Runs /\ act[p].run \in 1 .. runs
           /\ act[p].op \in {"backup", "restore"}
           /\ Born("offsite", act[p].run)
<1>1. act[p].pc = "bend" /\ status' = [outcome |-> IF act[p].ok THEN "success" ELSE "failed", run |-> act[p].run]
  BY DEF EndBackup, At
<1>2. act[p].run \in Runs /\ act[p].run \in 1 .. runs
  BY <1>1, OwnRun DEF BackupPCs
<1>3. act[p].op \in {"backup", "restore"}
  BY <1>1, StageFacts DEF Stages, BackupPCs
<1>4. act[p].run # None /\ act[p].run <= runs
  BY <1>2, BackupsAssumption DEF None, TypeOK, Runs
<1>5. Born("offsite", act[p].run)
  BY <1>1, <1>4 DEF Born, RunsApart, Early
<1>. QED
  BY <1>1, <1>2, <1>3, <1>5

\* How a backup that does not fail comes past the places.
LEMMA SoundMoves ==
    ASSUME TypeOK, Stages, NEW p \in Actors, ProcessStep(p),
           act[p].pc \in Early["offsite"], act'[p].ok, act'[p] # Idle
    PROVE  \/ act'[p].pc \in Early["local"]
           \/ WriteManifest(p) /\ act'[p].pc = "replicate"
           \/ act[p].pc \notin Early["local"] /\ act'[p].pc \in Early["offsite"]
           \/ /\ PublishReplica(p) /\ act[p].pc = "rename" /\ act'[p].pc = "offlist"
              /\ dir'["offsite"][act[p].run] = Both
<1>0. act \in [Actors -> Acts] /\ act[p] \in Acts /\ DirType
  BY DEF TypeOK, DirType, Both
<1>e. Early["local"] = {"dump", "list", "copy", "payload", "manifest"}
      /\ Early["offsite"] = {"dump", "list", "copy", "payload", "manifest", "replicate", "replica", "rename"}
  BY DEF Early
<1>f. ASSUME Fails(p)
      PROVE  FALSE
  BY <1>0, <1>e, <1>f, FailsFacts DEF Ends
<1>g. ASSUME NEW pc \in PCs, Goto(p, pc)
      PROVE  act'[p].pc = pc
  BY <1>0, <1>g, GotoFacts
<1>1. CASE Dump(p)
  <2>1. act'[p] = [act[p] EXCEPT !.rows = rows, !.pc = "list"]
    BY <1>0, <1>1 DEF Dump
  <2>. QED
    BY <1>0, <1>e, <2>1 DEF Acts
<1>2. CASE ListObjects(p)
  <2>1. act'[p] = [act[p] EXCEPT !.todo = objs, !.pc = "copy"]
    BY <1>0, <1>2 DEF ListObjects
  <2>. QED
    BY <1>0, <1>e, <2>1 DEF Acts
<1>3. CASE CopyObject(p)
  <2>1. PICK o \in act[p].todo : act' = [act EXCEPT ![p].todo = @ \ {o}, ![p].objs = @ \cup {o}]
    BY <1>3, <1>f DEF CopyObject
  <2>2. act'[p] = [act[p] EXCEPT !.todo = @ \ {o}, !.objs = @ \cup {o}]
    BY <1>0, <2>1
  <2>. QED
    BY <1>0, <1>3, <1>e, <2>2 DEF Acts, CopyObject, At
<1>4. CASE ObjectsCopied(p) \/ WritePayload(p)
  BY <1>4, <1>e, <1>g DEF ObjectsCopied, WritePayload, PCs
<1>5. CASE WriteManifest(p)
  BY <1>5, <1>g DEF WriteManifest, PCs
<1>6. CASE Replicate(p)
  BY <1>6, <1>e, <1>f, <1>g DEF Replicate, PCs, At
<1>7. CASE CopyPayloads(p)
  BY <1>7, <1>e, <1>f, <1>g DEF CopyPayloads, PCs, At
<1>8. CASE PublishReplica(p)
  <2>1. act[p].pc = "rename" /\ Whole("staging", act[p].run) /\ Goto(p, "offlist")
    BY <1>8, <1>f DEF PublishReplica, At
  <2>2. act[p].run \in Runs
    BY <2>1, OwnRun DEF BackupPCs
  <2>3. dir["staging"][act[p].run] = Both
    BY <1>0, <2>1, <2>2 DEF Whole, HasManifest, Intact, DirType, Both, Places
  <2>4. dir' = [dir EXCEPT !["staging"][act[p].run] = {}, !["offsite"][act[p].run] = Both]
    BY <1>8, <2>1, <2>3 DEF PublishReplica
  <2>5. dir'["offsite"][act[p].run] = Both
    BY <1>0, <2>2, <2>4 DEF DirType, Places
  <2>6. act'[p].pc = "offlist"
    BY <1>g, <2>1 DEF PCs
  <2>. QED
    BY <1>8, <2>1, <2>5, <2>6
<1>9. CASE ListBundles(p) \/ DeleteBundle(p) \/ EndBackup(p)
  BY <1>9, <1>e DEF ListBundles, DeleteBundle, EndBackup, At
<1>10. CASE RestoreStep(p)
  BY <1>10, <1>e, RestoreMoves DEF RestorePCs, Window, Replacing
<1>11. CASE DrillStep(p)
  BY <1>11, <1>e, DrillMoves DEF DrillPCs
<1>12. CASE StepFails(p)
  BY <1>12, <1>f DEF StepFails
<1>13. CASE Crash(p)
  BY <1>0, <1>13, MovesIdle DEF Crash
<1>. QED
  BY <1>1, <1>2, <1>3, <1>4, <1>5, <1>6, <1>7, <1>8, <1>9, <1>10, <1>11, <1>12, <1>13
     DEF ProcessStep, Step, BackupStep

\* A backup that is well has been well.
LEMMA OkBefore ==
    ASSUME TypeOK, Stages, NEW p \in Actors, ProcessStep(p),
           act'[p].op \in {"backup", "restore"}, act'[p].ok
    PROVE  /\ act[p].ok /\ act[p].op = act'[p].op
           /\ act'[p].run = act[p].run /\ act[p].run \in Runs /\ act[p].run \in 1 .. runs
           /\ act'[p] # Idle
<1>0. act \in [Actors -> Acts] /\ act[p] \in Acts
  BY DEF TypeOK
<1>1. act'[p] # Idle /\ act'[p].op = act[p].op
  BY ProcessMoves, IdleFacts
<1>2. Stage(act[p]) /\ Stage(act[p])' /\ runs' = runs /\ runs \in Nat
  BY ProcessMoves, BackupsAssumption DEF Stages, Advances, TypeOK
<1>3. act[p].run \in 1 .. runs /\ act'[p].run \in 1 .. runs
  BY <1>1, <1>2, StageFacts DEF Stage, Idle, NoRows
<1>4. act'[p].run = act[p].run /\ act[p].run \in Runs
  BY <1>2, <1>3, ProcessMoves, BackupsAssumption DEF Advances, None, Runs, TypeOK
<1>5. act[p].ok
  <2>1. CASE DrillStep(p)
    <3>1. act[p].op = "drill"
      BY <1>2, <2>1, DrillMoves, StageFacts DEF DrillPCs
    <3>. QED
      BY <1>1, <3>1
  <2>2. CASE BackupStep(p) /\ ~EndBackup(p)
    BY <2>2, BackupMoves DEF GoesOn
  <2>3. CASE EndBackup(p)
    BY <1>1, <2>3, EndBackupMoves
  <2>4. CASE RestoreStep(p)
    BY <1>1, <2>4, RestoreMoves DEF GoesOn
  <2>5. CASE StepFails(p)
    BY <1>0, <2>5, FailsFacts DEF StepFails
  <2>6. CASE Crash(p)
    BY <1>0, <1>1, <2>6, MovesIdle DEF Crash
  <2>. QED
    BY <2>1, <2>2, <2>3, <2>4, <2>5, <2>6 DEF ProcessStep, Step
<1>. QED
  BY <1>1, <1>3, <1>4, <1>5

\* What has a manifest has a stamp, and so has a backup that came past it.
LEMMA DatedStep ==
    ASSUME TypeOK, Stages, RunsApart, Unborn, Counted, Dated, [Next]_vars
    PROVE  Dated'
<1>0. made \in [Runs -> Contents] /\ \A r \in Runs : made[r].at \in Nat
  BY BackupsAssumption DEF TypeOK, Contents
<1>s. stamps \in Nat /\ stamps' \in Nat /\ stamps <= stamps'
  BY StampsGrow
<1>k. ASSUME NEW r \in Runs, Born("local", r), made[r].at <= stamps
      PROVE  made'[r].at <= stamps'
  BY <1>0, <1>s, <1>k, MadeKept
<1>1. ASSUME NEW pl \in Places, NEW r \in Runs, HasManifest(pl, r)'
      PROVE  made'[r].at <= stamps'
  <2>1. CASE \E x \in Places : HasManifest(x, r)
    BY <1>k, <2>1, ListedBorn DEF Dated
  <2>2. CASE ~\E x \in Places : HasManifest(x, r)
    <3>1. PICK p \in Actors : ProcessStep(p)
      BY <1>1, <2>2, OtherSteps DEF HasManifest
    <3>2. OwnWrite(p, pl, r)
      BY <1>1, <2>2, <3>1, BundleEffect DEF DirMoves, Deletes, HasManifest
    <3>3. WriteManifest(p) /\ r = act[p].run
      BY <1>1, <2>2, <3>2 DEF OwnWrite, HasManifest, Whole, Places
    <3>4. made'[r].at = stamps + 1 /\ stamps' = stamps + 1
      BY <3>3, WriteManifestEffect
    <3>. QED
      BY <1>s, <3>4
  <2>. QED
    BY <2>1, <2>2
<1>2. ASSUME NEW q \in Actors, act'[q].op \in {"backup", "restore"}, act'[q].ok,
             act'[q].pc \notin Early["local"]
      PROVE  made'[act'[q].run].at <= stamps'
  <2>b. ASSUME act[q].op \in {"backup", "restore"}, act[q].ok, act[q].pc \notin Early["local"],
               act'[q].run = act[q].run
        PROVE  made'[act'[q].run].at <= stamps'
    <3>1. act[q].run \in 1 .. runs /\ act[q].run \in Runs
      BY <2>b, StageFacts, BackupsAssumption DEF Stages, TypeOK, Runs
    <3>3. act[q].run <= runs /\ act[q].run # None
      BY <3>1, BackupsAssumption DEF None, TypeOK
    <3>2. Born("local", act[q].run)
      BY <2>b, <3>3 DEF Born, RunsApart
    <3>. QED
      BY <1>k, <2>b, <3>1, <3>2 DEF Dated
  <2>1. CASE act'[q] = act[q]
    BY <1>2, <2>1, <2>b
  <2>2. CASE act'[q] # act[q]
    <3>1. PICK p \in Actors : ProcessStep(p)
      BY <1>2, <2>2, OtherSteps
    <3>2. q = p
      BY <2>2, <3>1, ProcessMoves DEF Advances, OnlyMoves
    <3>3. /\ act[q].ok /\ act[q].op = act'[q].op
          /\ act'[q].run = act[q].run /\ act[q].run \in Runs
          /\ act'[q] # Idle
      BY <1>2, <3>1, <3>2, OkBefore
    <3>4. CASE act[q].pc \notin Early["local"]
      BY <1>2, <2>b, <3>3, <3>4
    <3>5. CASE act[q].pc \in Early["local"]
      <4>1. WriteManifest(q)
        BY <1>2, <3>1, <3>2, <3>3, <3>5, SoundMoves DEF Early
      <4>2. made'[act[q].run].at = stamps + 1 /\ stamps' = stamps + 1
        BY <4>1, WriteManifestEffect
      <4>. QED
        BY <1>s, <3>3, <4>2
    <3>. QED
      BY <3>4, <3>5
  <2>. QED
    BY <2>1, <2>2
<1>3. ASSUME status'.outcome = "success"
      PROVE  status'.run \in 1 .. runs' /\ Born("offsite", status.run)' /\ made'[status'.run].at <= stamps'
  <2>r. \A x \in 1 .. runs : x \in Runs
    BY BackupsAssumption DEF TypeOK, Runs
  <2>b. ASSUME NEW x \in 1 .. runs, Born("offsite", x), made[x].at <= stamps, status'.run = x
        PROVE  status'.run \in 1 .. runs' /\ Born("offsite", status.run)' /\ made'[status'.run].at <= stamps'
    <3>1. Born("offsite", x)' /\ Born("local", x)
      BY <2>b, <2>r, BornKept DEF Places, Born, Early
    <3>2. made'[x].at <= stamps'
      BY <1>k, <2>b, <2>r, <3>1
    <3>3. runs' \in {runs, runs + 1}
      BY Kinds, ProcessMoves, BeginFacts, DrillFacts DEF Advances, Begins, AppStep, vars, bundles
    <3>4. x \in 1 .. runs'
      BY <3>3, BackupsAssumption DEF TypeOK
    <3>5. Born("offsite", status.run)'
      BY <2>b, <3>1 DEF Born
    <3>. QED
      BY <2>b, <3>2, <3>4, <3>5
  <2>1. CASE UNCHANGED status
    BY <1>3, <2>1, <2>b DEF Dated
  <2>2. CASE ~UNCHANGED status
    <3>1. PICK p \in Actors : EndBackup(p)
      BY <2>2, OtherSteps, BundleEffect
    <3>2. /\ status' = [outcome |-> IF act[p].ok THEN "success" ELSE "failed", run |-> act[p].run]
          /\ act[p].pc = "bend" /\ act[p].run \in Runs /\ act[p].run \in 1 .. runs
          /\ act[p].op \in {"backup", "restore"}
          /\ Born("offsite", act[p].run)
      BY <3>1, EndBackupStatus
    <3>3. act[p].ok /\ status'.run = act[p].run
      BY <1>3, <3>2
    <3>4. made[act[p].run].at <= stamps
      BY <3>2, <3>3 DEF Dated, Early
    <3>. QED
      BY <2>b, <3>2, <3>3, <3>4
  <2>. QED
    BY <2>1, <2>2
<1>. QED
  BY <1>1, <1>2, <1>3 DEF Dated

-----------------------------------------------------------------------------
(***************************************************************************)
(* The cleanup of the local root                                           *)
(***************************************************************************)
Newer(root, d) == {e \in Listed(root) : NewerThan(e, d)}

\* There are finitely many bundles.
LEMMA NewerFinite ==
    ASSUME NEW root \in {"local", "offsite"}, NEW d
    PROVE  IsFiniteSet(Listed(root)) /\ IsFiniteSet(Newer(root, d)) /\ Cardinality(Newer(root, d)) \in Nat
<1>1. IsFiniteSet(Runs)
  BY BackupsAssumption, FS_Interval DEF Runs
<1>2. IsFiniteSet({"local"}) /\ IsFiniteSet({"offsite", "staging"})
  <2>1. IsFiniteSet({"local"}) /\ IsFiniteSet({"offsite"})
    BY FS_Singleton
  <2>2. IsFiniteSet({"offsite"} \cup {"staging"})
    BY <2>1, FS_AddElement
  <2>3. {"offsite"} \cup {"staging"} = {"offsite", "staging"}
    OBVIOUS
  <2>. QED
    BY <2>1, <2>2, <2>3
<1>3. IsFiniteSet(Roots[root])
  BY <1>2 DEF Roots
<1>4. IsFiniteSet(Roots[root] \X Runs)
  BY <1>1, <1>3, FS_Product
<1>5. Listed(root) \subseteq Roots[root] \X Runs
  BY DEF Listed
<1>6. IsFiniteSet(Listed(root))
  BY <1>4, <1>5, FS_Subset
<1>7. Newer(root, d) \subseteq Listed(root)
  BY DEF Newer
<1>8. IsFiniteSet(Newer(root, d))
  BY <1>6, <1>7, FS_Subset
<1>. QED
  BY <1>6, <1>8, FS_CardinalityType

\* The elements of a root.
LEMMA ListedLocal ==
    \A d : d \in Listed("local") <=>
        d = <<"local", d[2]>> /\ d[2] \in Runs /\ HasManifest("local", d[2])
  BY DEF Listed, Roots

\* A manifest of the local root disappears only by a cleanup.
LEMMA LocalLoss ==
    ASSUME TypeOK, Stages, Counted, RunsApart, Unborn, DropsSurplus, DropsOffsite, [Next]_vars,
           NEW r \in Runs, HasManifest("local", r), ~HasManifest("local", r)' \/ ~Intact("local", r)',
           Intact("local", r) \/ ~HasManifest("local", r)'
    PROVE  /\ <<"local", r>> \in Surplus("local")
           /\ \A x \in Runs \ {r} : dir'["local"][x] = dir["local"][x]
           /\ UNCHANGED made
<1>1. PICK p \in Actors : ProcessStep(p)
  BY OtherSteps DEF HasManifest, Intact
<1>2. DirMoves(p)
  BY <1>1, BundleEffect
<1>3. dir'["local"][r] # dir["local"][r]
  BY DEF HasManifest, Intact
<1>4. ~OwnWrite(p, "local", r)
  <2>1. Born("local", r)
    BY ListedBorn DEF Places
  <2>2. act[p].run = r => act[p].pc \notin {"payload", "manifest"}
    BY <2>1 DEF Born, Early
  <2>. QED
    BY <2>2 DEF OwnWrite
<1>5. Deletes(p, "local", r)
  BY <1>2, <1>3, <1>4 DEF DirMoves, Places
<1>6. DeleteBundle(p) /\ <<"local", r>> \in act[p].drop
  BY <1>5 DEF Deletes
<1>7. act[p].pc \in {"offdel", "locdel"}
  BY <1>6 DEF DeleteBundle
<1>8. act[p].pc = "locdel"
  BY <1>6, <1>7 DEF DropsOffsite
<1>9. <<"local", r>> \in Surplus("local")
  BY <1>6, <1>8 DEF DropsSurplus
<1>10. \A x \in Runs \ {r} : dir'["local"][x] = dir["local"][x]
  BY <1>3, <1>6, DeleteEffect DEF Places, Bundles
<1>11. UNCHANGED made
  BY <1>6 DEF DeleteBundle
<1>. QED
  BY <1>9, <1>10, <1>11

\* Stamps are ordered, so being newer is.
LEMMA NewerOrder ==
    ASSUME TypeOK, NEW a \in Bundles, NEW b \in Bundles, NEW c \in Bundles,
           NewerThan(a, b), NewerThan(b, c)
    PROVE  NewerThan(a, c) /\ ~NewerThan(b, a) /\ ~NewerThan(a, a)
<1>1. made[a[2]].at \in Nat /\ made[b[2]].at \in Nat /\ made[c[2]].at \in Nat
  BY BackupsAssumption DEF TypeOK, Contents, Bundles
<1>. QED
  BY <1>1 DEF NewerThan

\* What is surplus stays surplus while others write and delete.
LEMMA SurplusKept ==
    ASSUME TypeOK, Stages, Counted, RunsApart, Unborn, DropsSurplus, DropsOffsite, [Next]_vars,
           NEW d \in Surplus("local"), d \in Listed("local")'
    PROVE  d \in Surplus("local")'
<1>1. d \in Listed("local") /\ Keep <= Cardinality(Newer("local", d))
  BY DEF Surplus, Newer
<1>2. /\ IsFiniteSet(Newer("local", d)) /\ Cardinality(Newer("local", d)) \in Nat
      /\ IsFiniteSet(Newer("local", d)') /\ Cardinality(Newer("local", d)') \in Nat
  <2>1. \A x : IsFiniteSet(Newer("local", x)) /\ Cardinality(Newer("local", x)) \in Nat
    BY NewerFinite
  <2>2. IsFiniteSet(Listed("local")')
    <3>1. IsFiniteSet(Runs)
      BY BackupsAssumption, FS_Interval DEF Runs
    <3>4. IsFiniteSet({"local"})
      BY FS_Singleton
    <3>2. IsFiniteSet({"local"} \X Runs)
      BY <3>1, <3>4, FS_Product
    <3>3. Listed("local")' \subseteq {"local"} \X Runs
      BY DEF Listed, Roots
    <3>. QED
      BY <3>2, <3>3, FS_Subset
  <2>3. Newer("local", d)' \subseteq Listed("local")'
    BY DEF Newer
  <2>4. IsFiniteSet(Newer("local", d)')
    BY <2>2, <2>3, FS_Subset
  <2>. QED
    BY <2>1, <2>4, FS_CardinalityType
<1>k. Keep \in Nat
  BY BackupsAssumption
<1>3. ASSUME NEW S, S \subseteq Newer("local", d)', Keep <= Cardinality(S)
      PROVE  d \in Surplus("local")'
  <2>1. IsFiniteSet(S) /\ Cardinality(S) <= Cardinality(Newer("local", d)')
    BY <1>2, <1>3, FS_Subset
  <2>2. Cardinality(S) \in Nat
    BY <2>1, FS_CardinalityType
  <2>3. Keep <= Cardinality(Newer("local", d)')
    BY <1>2, <1>3, <1>k, <2>1, <2>2
  <2>. QED
    BY <1>2, <1>k, <2>3 DEF Surplus, Newer
<1>4. \A e \in Listed("local") : made'[e[2]] = made[e[2]]
  <2>1. ASSUME NEW e \in Listed("local")
        PROVE  made'[e[2]] = made[e[2]]
    BY <2>1, ListedLocal, ListedBorn, MadeKept DEF Places
  <2>. QED
    BY <2>1
<1>5. \A e \in Listed("local") : e \in Newer("local", d) /\ e \in Listed("local")' => e \in Newer("local", d)'
  BY <1>1, <1>4 DEF Newer, NewerThan
<1>6. CASE \A r \in Runs : HasManifest("local", r) => HasManifest("local", r)'
  <2>1. Listed("local") \subseteq Listed("local")'
    BY <1>6 DEF Listed, Roots
  <2>2. Newer("local", d) \subseteq Newer("local", d)'
    BY <1>5, <2>1 DEF Newer
  <2>. QED
    BY <1>1, <1>3, <2>2
<1>7. CASE \E r \in Runs : HasManifest("local", r) /\ ~HasManifest("local", r)'
  <2>1. PICK r \in Runs : HasManifest("local", r) /\ ~HasManifest("local", r)'
    BY <1>7
  <2>. DEFINE e == <<"local", r>>
  <2>2. /\ e \in Surplus("local")
        /\ \A x \in Runs \ {r} : dir'["local"][x] = dir["local"][x]
    BY <2>1, LocalLoss
  <2>3. Listed("local") \ {e} \subseteq Listed("local")'
    BY <2>2 DEF Listed, Roots, HasManifest
  <2>4. CASE e \notin Newer("local", d)
    <3>1. Newer("local", d) \subseteq Newer("local", d)'
      BY <1>5, <2>3, <2>4 DEF Newer
    <3>. QED
      BY <1>1, <1>3, <3>1
  <2>5. CASE e \in Newer("local", d)
    <3>1. Keep <= Cardinality(Newer("local", e))
      BY <2>2 DEF Surplus, Newer
    <3>2. Newer("local", e) \subseteq Newer("local", d) \ {e}
      <4>. SUFFICES ASSUME NEW x \in Newer("local", e)
                    PROVE  x \in Newer("local", d) \ {e}
        OBVIOUS
      <4>1. x \in Bundles /\ e \in Bundles /\ d \in Bundles /\ NewerThan(x, e) /\ NewerThan(e, d)
        BY <1>1, <2>5, SurplusType DEF Newer, Bundles, Places
      <4>2. NewerThan(x, d)
        BY <4>1, NewerOrder
      <4>3. x # e
        BY <4>1, NewerOrder
      <4>. QED
        BY <4>2, <4>3 DEF Newer
    <3>3. Newer("local", e) \subseteq Newer("local", d)'
      BY <1>5, <2>3, <3>2 DEF Newer
    <3>. QED
      BY <1>3, <3>1, <3>3
  <2>. QED
    BY <2>4, <2>5
<1>. QED
  BY <1>6, <1>7

\* The bundle with the last stamp is nobody's surplus.
LEMMA LastIsKept ==
    ASSUME TypeOK, Dated, NEW r \in Runs, made[r].at = stamps
    PROVE  <<"local", r>> \notin Surplus("local")
<1>. DEFINE d == <<"local", r>>
<1>1. \A e \in Listed("local") : e[2] \in Runs /\ e[1] = "local" /\ made[e[2]].at <= stamps
  BY ListedLocal DEF Dated, Places
<1>2. \A e \in Listed("local") : made[e[2]].at \in Nat /\ stamps \in Nat
  BY <1>1, BackupsAssumption DEF TypeOK, Contents
<1>3. {e \in Listed("local") : NewerThan(e, d)} = {}
  BY <1>1, <1>2 DEF NewerThan
<1>4. Cardinality({e \in Listed("local") : NewerThan(e, d)}) = 0
  BY <1>3, FS_EmptySet
<1>. QED
  BY <1>4, BackupsAssumption DEF Surplus

\* The last bundle to be stamped is there.
LEMMA LastStampStep ==
    ASSUME TypeOK, Stages, RunsApart, Unborn, Counted, Dated, LastStamp, DropsSurplus, DropsOffsite,
           [Next]_vars
    PROVE  LastStamp'
<1>1. CASE stamps' = stamps
  <2>1. PICK r \in Runs : HasManifest("local", r) /\ made[r].at = stamps
    BY DEF LastStamp
  <2>2. made'[r] = made[r]
    BY <2>1, ListedBorn, MadeKept DEF Places
  <2>3. HasManifest("local", r)'
    BY <2>1, LastIsKept, LocalLoss
  <2>. QED
    BY <1>1, <2>1, <2>2, <2>3 DEF LastStamp
<1>2. CASE stamps' # stamps
  <2>1. PICK p \in Actors : WriteManifest(p)
    BY <1>2, OtherSteps, BundleEffect DEF MadeMoves
  <2>2. /\ dir'["local"][act[p].run] = Both /\ act[p].run \in Runs
        /\ made'[act[p].run].at = stamps + 1 /\ stamps' = stamps + 1
    BY <2>1, WriteManifestEffect
  <2>. QED
    BY <2>2 DEF LastStamp, HasManifest, Both
<1>. QED
  BY <1>1, <1>2

\* What a cleanup has listed stays surplus until it is gone.
LEMMA DropsStep ==
    ASSUME TypeOK, Stages, RunsApart, Unborn, Counted, DropsSurplus, DropsOffsite, [Next]_vars
    PROVE  DropsSurplus' /\ DropsOffsite'
<1>1. ASSUME NEW q \in Actors, act'[q].pc \in {"offdel", "locdel"}
      PROVE  \/ ListBundles(q)
             \/ act'[q].drop \subseteq act[q].drop /\ act'[q].pc = act[q].pc
  <2>1. CASE act'[q] = act[q]
    BY <2>1
  <2>2. CASE act'[q] # act[q]
    <3>1. PICK p \in Actors : ProcessStep(p)
      BY <1>1, <2>2, OtherSteps
    <3>2. q = p
      BY <2>2, <3>1, ProcessMoves DEF Advances, OnlyMoves
    <3>. QED
      BY <1>1, <3>1, <3>2, DropMoves
  <2>. QED
    BY <2>1, <2>2
<1>2. ASSUME NEW q \in Actors, act'[q].pc = "locdel", NEW d \in act'[q].drop
      PROVE  d[1] = "local" /\ (HasManifest("local", d[2])' => d \in Surplus("local")')
  <2>1. CASE ListBundles(q)
    <3>1. act'[q].drop = Surplus("local") /\ UNCHANGED <<dir, made>>
      BY <1>2, <2>1, ListFacts
    <3>2. d[1] = "local"
      BY <1>2, <3>1 DEF Surplus, Listed, Roots
    <3>3. d \in Surplus("local")'
      BY <1>2, <3>1 DEF Surplus, Listed, HasManifest, NewerThan
    <3>. QED
      BY <3>2, <3>3
  <2>2. CASE act'[q].drop \subseteq act[q].drop /\ act'[q].pc = act[q].pc
    <3>1. d \in act[q].drop /\ act[q].pc = "locdel"
      BY <1>2, <2>2
    <3>2. d[1] = "local" /\ d \in Bundles
      BY <3>1 DEF DropsSurplus, TypeOK, Acts
    <3>3. ASSUME HasManifest("local", d[2])'
          PROVE  d \in Surplus("local")'
      <4>1. d \in Listed("local")'
        BY <3>2, <3>3 DEF Listed, Roots, Bundles
      <4>2. HasManifest("local", d[2])
        <5>1. d = <<"local", d[2]>> /\ d[2] \in Runs
          BY <3>2 DEF Bundles
        <5>2. Born("local", d[2])
          BY <3>1, <5>1 DEF Unborn, Places
        <5>. QED
          <6>1. CASE HasManifest("local", d[2])
            BY <6>1
          <6>2. CASE ~HasManifest("local", d[2])
            <7>1. PICK p \in Actors : ProcessStep(p)
              BY <3>3, <6>2, OtherSteps DEF HasManifest
            <7>2. OwnWrite(p, "local", d[2])
              BY <3>3, <5>1, <6>2, <7>1, BundleEffect DEF DirMoves, Deletes, HasManifest, Places
            <7>3. act[p].pc \in {"payload", "manifest"} /\ act[p].run = d[2]
              BY <7>2 DEF OwnWrite
            <7>. QED
              BY <5>2, <7>3 DEF Born, Early
          <6>. QED
            BY <6>1, <6>2
      <4>3. d \in Surplus("local")
        BY <3>1, <4>2 DEF DropsSurplus
      <4>. QED
        BY <4>1, <4>3, SurplusKept
    <3>. QED
      BY <3>2, <3>3
  <2>. QED
    BY <1>1, <1>2, <2>1, <2>2
<1>3. ASSUME NEW q \in Actors, act'[q].pc = "offdel", NEW d \in act'[q].drop
      PROVE  d[1] # "local"
  <2>1. CASE ListBundles(q)
    <3>1. act'[q].drop = Surplus("offsite")
      BY <1>3, <2>1, ListFacts
    <3>. QED
      BY <1>3, <3>1 DEF Surplus, Listed, Roots
  <2>2. CASE act'[q].drop \subseteq act[q].drop /\ act'[q].pc = act[q].pc
    BY <1>3, <2>2 DEF DropsOffsite
  <2>. QED
    BY <1>1, <1>3, <2>1, <2>2
<1>. QED
  BY <1>2, <1>3 DEF DropsSurplus, DropsOffsite

\* The bundles that are kept stay whole.
LEMMA NewestWholeStep ==
    ASSUME TypeOK, Stages, RunsApart, Unborn, Counted, DropsSurplus, DropsOffsite, NewestWhole, [Next]_vars
    PROVE  NewestWhole'
<1>. SUFFICES ASSUME NEW d \in Listed("local")', d \notin Surplus("local")'
              PROVE  Whole(d[1], d[2])'
  BY DEF NewestWhole
<1>1. d = <<"local", d[2]>> /\ d[1] = "local" /\ d[2] \in Runs /\ HasManifest("local", d[2])'
  BY DEF Listed, Roots
<1>2. CASE HasManifest("local", d[2])
  <2>1. d \in Listed("local")
    BY <1>1, <1>2, ListedLocal
  <2>2. d \notin Surplus("local")
    BY SurplusKept
  <2>3. Intact("local", d[2])
    BY <1>1, <2>1, <2>2 DEF NewestWhole, Whole
  <2>4. Intact("local", d[2])'
    BY <1>1, <1>2, <2>2, <2>3, LocalLoss
  <2>. QED
    BY <1>1, <2>4 DEF Whole
<1>3. CASE ~HasManifest("local", d[2])
  <2>1. PICK p \in Actors : ProcessStep(p)
    BY <1>1, <1>3, OtherSteps DEF HasManifest
  <2>2. OwnWrite(p, "local", d[2])
    BY <1>1, <1>3, <2>1, BundleEffect DEF DirMoves, Deletes, HasManifest, Places
  <2>3. dir'["local"][d[2]] = Both
    BY <1>1, <2>2 DEF OwnWrite, HasManifest
  <2>. QED
    BY <1>1, <2>3 DEF Whole, HasManifest, Intact, Both
<1>. QED
  BY <1>2, <1>3

\* The program begins with one run that is over.
LEMMA InitBundles == Init => BundleInv
<1>. SUFFICES ASSUME Init
              PROVE  BundleInv
  OBVIOUS
<1>. USE DEF Init
<1>0. 1 \in Runs /\ MaxRuns \in Nat /\ 1 <= MaxRuns
  BY BackupsAssumption DEF Runs
<1>1. \A p \in Actors : act[p] = Idle
  OBVIOUS
<1>c. [rows |-> rows, objs |-> objs, at |-> 1] \in Contents /\ Nothing \in Contents
  BY <1>0 DEF Contents, Nothing, NoRows, RowStates
<1>2. TypeOK
  <2>1. DataType
    BY DEF DataType, RowStates
  <2>2. StatusType
    BY <1>0 DEF StatusType, Outcomes, NoData, NoRows, RowStates, None
  <2>3. DirType
    BY DEF DirType, Both
  <2>4. made \in [Runs -> Contents]
    BY <1>c
  <2>5. BundleType
    BY <1>0, <2>3, <2>4, IdleFacts DEF BundleType
  <2>6. CounterType
    BY DEF CounterType
  <2>. QED
    BY <2>1, <2>2, <2>5, <2>6, TypeParts
<1>3. Stages /\ RunsApart
  BY <1>1, IdleFacts DEF Stages, Stage, Careful, HasTarget, RunsApart
<1>4. \A pl \in Places, r \in Runs : Born(pl, r) <=> r <= 1
  <2>1. \A r \in Runs : r # None
    BY BackupsAssumption DEF Runs, None
  <2>. QED
    BY <1>1, <2>1, IdleFacts DEF Born
<1>d. \A pl \in Places, r \in Runs :
          dir[pl][r] = IF r = 1 /\ pl # "staging" THEN {"payload", "manifest"} ELSE {}
  OBVIOUS
<1>5. Unborn
  BY <1>1, <1>4, <1>d, IdleFacts, BackupsAssumption DEF Unborn, HasManifest, Runs
<1>6. Counted
  <2>1. Coming = {}
    BY <1>4 DEF Coming, Places
  <2>. QED
    BY <2>1, FS_EmptySet DEF Counted
<1>7. Dated
  <2>1. \A pl \in Places, r \in Runs : HasManifest(pl, r) => made[r].at <= stamps
    BY <1>d DEF HasManifest
  <2>2. made[1].at <= stamps /\ Born("offsite", 1) /\ 1 \in 1 .. runs
    BY <1>0, <1>4 DEF Places
  <2>3. \A p \in Actors : act[p].op \notin {"backup", "restore"}
    BY <1>1, IdleFacts
  <2>. QED
    BY <2>1, <2>2, <2>3 DEF Dated
<1>8. LastStamp
  BY <1>0, <1>d DEF LastStamp, HasManifest, Places
<1>9. DropsSurplus /\ DropsOffsite
  BY <1>1, IdleFacts DEF DropsSurplus, DropsOffsite
<1>10. NewestWhole
  BY <1>d DEF NewestWhole, Listed, Roots, Whole, HasManifest, Intact, Places
<1>. QED
  BY <1>2, <1>3, <1>5, <1>6, <1>7, <1>8, <1>9, <1>10 DEF BundleInv

\* Every step keeps the bundles in order.
LEMMA BundleStep == BundleInv /\ [Next]_vars => BundleInv'
<1>. SUFFICES ASSUME BundleInv, [Next]_vars
              PROVE  BundleInv'
  OBVIOUS
<1>0. /\ TypeOK /\ Stages /\ RunsApart /\ Unborn /\ Counted /\ Dated /\ LastStamp
      /\ DropsSurplus /\ DropsOffsite /\ NewestWhole
  BY DEF BundleInv
<1>1. TypeOK' /\ Stages' /\ RunsApart'
  BY <1>0, TypeStep, StagesStep, RunsApartStep
<1>2. Unborn' /\ Counted' /\ Dated'
  BY <1>0, UnbornStep, CountedStep, DatedStep
<1>3. LastStamp' /\ DropsSurplus' /\ DropsOffsite' /\ NewestWhole'
  BY <1>0, LastStampStep, DropsStep, NewestWholeStep
<1>. QED
  BY <1>1, <1>2, <1>3 DEF BundleInv

\* The inductive invariant of the bundles: who writes where, what is stamped,
\* and that a cleanup deletes what is surplus.
THEOREM BundleInvariance == Spec => []BundleInv
  BY InitBundles, BundleStep, PTL DEF Spec

\* The state of the processes, the bundles and the status files keeps its
\* types, whatever fails or is killed.
THEOREM TypeCorrect == Spec => []TypeOK
<1>1. BundleInv => TypeOK
  BY DEF BundleInv
<1>. QED
  BY <1>1, BundleInvariance, PTL

\* cleanup_backup_bundles never touches one of the newest bundles, and
\* create_backup_bundle writes the manifest last: what the local root lists
\* among its Keep newest can be unpacked, for any number of processes that
\* write, delete and are killed side by side.
THEOREM NewestAreWhole == Spec => []NewestWhole
<1>1. BundleInv => NewestWhole
  BY DEF BundleInv
<1>. QED
  BY <1>1, BundleInvariance, PTL

\* The last bundle to be stamped is whole.
LEMMA LastIsWhole ==
    ASSUME BundleInv
    PROVE  \E r \in Runs : Whole("local", r) /\ made[r].at = stamps
<1>0. TypeOK /\ Dated /\ LastStamp /\ NewestWhole
  BY DEF BundleInv
<1>1. PICK r \in Runs : HasManifest("local", r) /\ made[r].at = stamps
  BY <1>0 DEF LastStamp
<1>2. <<"local", r>> \notin Surplus("local")
  BY <1>0, <1>1, LastIsKept
<1>3. <<"local", r>> \in Listed("local")
  BY <1>1 DEF Listed, Roots
<1>4. Whole("local", r)
  BY <1>0, <1>2, <1>3 DEF NewestWhole
<1>. QED
  BY <1>1, <1>4

\* restore_backup_bundle makes a safety backup before it replaces anything,
\* and while it replaces the data a bundle at least as new is whole, however
\* many cleanups run beside it.
THEOREM SafetyIsKept == Spec => []SafetyKept
<1>1. BundleInv => SafetyKept
  <2>. SUFFICES ASSUME BundleInv, NEW p \in Actors, act[p].pc \in Replacing
                PROVE  \E r \in Runs : Whole("local", r) /\ made[r].at >= made[act[p].run].at
    BY DEF SafetyKept
  <2>0. TypeOK /\ Stages /\ Dated
    BY DEF BundleInv
  <2>1. act[p].pc \in RestorePCs /\ act[p].pc \notin Early["local"]
    BY DEF RestorePCs, Window, Replacing, Early
  <2>2. act[p].op = "restore" /\ act[p].run \in 1 .. runs
    BY <2>0, <2>1, StageFacts DEF Stages
  <2>3. act[p].ok
    BY <2>0 DEF Stages, Careful, Replacing
  <2>4. made[act[p].run].at <= stamps
    BY <2>0, <2>1, <2>2, <2>3 DEF Dated
  <2>. QED
    BY <2>4, LastIsWhole
<1>. QED
  BY <1>1, BundleInvariance, PTL

-----------------------------------------------------------------------------
(***************************************************************************)
(* The replicas                                                            *)
(***************************************************************************)
\* A process that stages a replica keeps its run.
LEMMA StagingRun ==
    ASSUME TypeOK, Stages, NEW p \in Actors, ProcessStep(p), act'[p].pc \in {"replica", "rename"}
    PROVE  act'[p].run = act[p].run
<1>1. Stage(act[p])' /\ Advances(p) /\ runs' = runs /\ runs \in Nat
  BY ProcessMoves, BackupsAssumption DEF Advances, TypeOK
<1>2. act'[p].run \in 1 .. runs
  BY <1>1 DEF Stage, Idle, NoRows, RestorePCs, Window, Replacing, DrillPCs
<1>3. act'[p].run # None
  BY <1>1, <1>2 DEF None
<1>. QED
  BY <1>1, <1>3 DEF Advances

\* Only a killed process leaves a staged replica behind.
LEMMA OrphansStep ==
    ASSUME TypeOK, Stages, Counted, RunsApart, [Next]_vars, NEW r \in Runs, r \in Orphans', r \notin Orphans
    PROVE  \E p \in Actors : Crash(p) /\ r = act[p].run
<1>1. /\ HasManifest("staging", r)'
      /\ \A q \in Actors : act'[q].run = r => act'[q].pc \notin {"replica", "rename"}
  BY DEF Orphans
<1>2. CASE ~HasManifest("staging", r)
  <2>1. PICK p \in Actors : ProcessStep(p)
    BY <1>1, <1>2, OtherSteps DEF HasManifest
  <2>2. OwnWrite(p, "staging", r)
    BY <1>1, <1>2, <2>1, BundleEffect DEF DirMoves, Deletes, HasManifest, Places
  <2>3. act'[p].pc \in {"replica", "rename"} /\ act[p].run = r
    BY <1>1, <2>2 DEF OwnWrite, HasManifest
  <2>. QED
    BY <1>1, <2>1, <2>3, StagingRun
<1>3. CASE HasManifest("staging", r)
  <2>1. PICK q \in Actors : act[q].run = r /\ act[q].pc \in {"replica", "rename"}
    BY <1>3 DEF Orphans
  <2>2. act'[q] # act[q]
    BY <1>1, <2>1
  <2>3. act[q] # Idle
    BY <2>1, IdleFacts
  <2>4. PICK p \in Actors : ProcessStep(p)
    BY <2>2, <2>3, OtherSteps
  <2>5. q = p
    BY <2>2, <2>4, ProcessMoves DEF Advances, OnlyMoves
  <2>6. CASE Crash(q)
    BY <2>1, <2>6
  <2>7. CASE ~Crash(q)
    <3>1. Unstages(q)
      BY <2>4, <2>5, <2>7, BundleEffect
    <3>2. CASE act'[q].pc \in {"replica", "rename"}
      BY <1>1, <2>1, <2>4, <2>5, <3>2, StagingRun
    <3>3. CASE act'[q].pc \notin {"replica", "rename"}
      BY <1>1, <2>1, <3>1, <3>3 DEF Unstages, HasManifest
    <3>. QED
      BY <3>2, <3>3
  <2>. QED
    BY <2>6, <2>7
<1>. QED
  BY <1>2, <1>3

\* There are finitely many of them.
LEMMA OrphansFinite == IsFiniteSet(Orphans) /\ Cardinality(Orphans) \in Nat
<1>1. IsFiniteSet(Runs)
  BY BackupsAssumption, FS_Interval DEF Runs
<1>2. Orphans \subseteq Runs
  BY DEF Orphans
<1>3. IsFiniteSet(Orphans)
  BY <1>1, <1>2, FS_Subset
<1>. QED
  BY <1>3, FS_CardinalityType

\* The faults only grow.
LEMMA FaultsGrow ==
    ASSUME TypeOK, Stages, Counted, [Next]_vars
    PROVE  faults \in Nat /\ faults' \in Nat /\ faults <= faults'
<1>1. faults \in Nat
  BY DEF TypeOK
<1>2. faults' = faults \/ faults' = faults + 1
  BY OtherSteps, BundleEffect
<1>. QED
  BY <1>1, <1>2

\* There are no more staged replicas without a process than faults.
LEMMA FewOrphansStep ==
    ASSUME TypeOK, Stages, Counted, RunsApart, FewOrphans, [Next]_vars
    PROVE  FewOrphans'
<1>0. IsFiniteSet(Orphans) /\ Cardinality(Orphans) \in Nat
  BY OrphansFinite
<1>f. faults \in Nat /\ faults' \in Nat /\ faults <= faults'
  BY FaultsGrow
<1>1. Orphans' \subseteq Runs
  BY DEF Orphans
<1>2. CASE \E p \in Actors : Crash(p)
  <2>1. PICK p \in Actors : Crash(p)
    BY <1>2
  <2>2. faults' = faults + 1
    BY <2>1 DEF Crash
  <2>3. Orphans' \subseteq Orphans \cup {act[p].run}
    <3>. SUFFICES ASSUME NEW r \in Orphans', r \notin Orphans
                  PROVE  r = act[p].run
      OBVIOUS
    <3>1. PICK q \in Actors : Crash(q) /\ r = act[q].run
      BY <1>1, OrphansStep
    <3>2. act'[p] # act[p] /\ act'[q] # act[q]
      BY <2>1, <3>1 DEF Crash, TypeOK
    <3>3. ProcessStep(p)
      BY <2>1 DEF ProcessStep
    <3>4. q = p
      BY <3>2, <3>3, ProcessMoves DEF Advances, OnlyMoves
    <3>. QED
      BY <3>1, <3>4
  <2>4. /\ IsFiniteSet(Orphans \cup {act[p].run})
        /\ Cardinality(Orphans \cup {act[p].run}) \in {Cardinality(Orphans), Cardinality(Orphans) + 1}
    BY <1>0, FS_AddElement
  <2>5. IsFiniteSet(Orphans') /\ Cardinality(Orphans') <= Cardinality(Orphans \cup {act[p].run})
    BY <2>3, <2>4, FS_Subset
  <2>6. Cardinality(Orphans') \in Nat
    BY <2>5, FS_CardinalityType
  <2>. QED
    BY <1>0, <1>f, <2>2, <2>4, <2>5, <2>6 DEF FewOrphans
<1>3. CASE ~\E p \in Actors : Crash(p)
  <2>1. Orphans' \subseteq Orphans
    BY <1>1, <1>3, OrphansStep
  <2>2. IsFiniteSet(Orphans') /\ Cardinality(Orphans') <= Cardinality(Orphans)
    BY <1>0, <2>1, FS_Subset
  <2>3. Cardinality(Orphans') \in Nat
    BY <2>2, FS_CardinalityType
  <2>. QED
    BY <1>0, <1>f, <2>2, <2>3 DEF FewOrphans
<1>. QED
  BY <1>2, <1>3

\* The newest replica is not counted away by replicas that are being staged:
\* of the bundles newer than a surplus one, one at least was published.
LEMMA SurplusReplaced ==
    ASSUME TypeOK, Stages, FewOrphans, EnoughKept, NEW p \in Actors, act[p].pc = "offlist",
           NEW d \in Surplus("offsite"), d[1] = "offsite"
    PROVE  \E y \in Runs : HasManifest("offsite", y) /\ made[y].at > made[d[2]].at
<1>. SUFFICES ASSUME \A y \in Runs : HasManifest("offsite", y) => ~(made[y].at > made[d[2]].at)
              PROVE  FALSE
  OBVIOUS
<1>. DEFINE Others == Actors \ {p}
            Copying == {act[q].run : q \in Others}
            S == Orphans \cup Copying
            T == {<<"staging", r>> : r \in S}
            N == Newer("offsite", d)
<1>1. IsFiniteSet(N) /\ Cardinality(N) \in Nat /\ Keep <= Cardinality(N)
  BY NewerFinite DEF Surplus, Newer
<1>2. N \subseteq T
  <2>. SUFFICES ASSUME NEW e \in N
                PROVE  e \in T
    OBVIOUS
  <2>1. e \in {"offsite", "staging"} \X Runs /\ HasManifest(e[1], e[2]) /\ NewerThan(e, d)
    BY DEF Newer, Listed, Roots
  <2>2. made[e[2]].at > made[d[2]].at
    BY <2>1 DEF NewerThan
  <2>3. e = <<"staging", e[2]>> /\ e[2] \in Runs /\ HasManifest("staging", e[2])
    BY <2>1, <2>2
  <2>4. e[2] \in S
    <3>1. CASE e[2] \in Orphans
      BY <3>1
    <3>2. CASE e[2] \notin Orphans
      <4>1. PICK q \in Actors : act[q].run = e[2] /\ act[q].pc \in {"replica", "rename"}
        BY <2>3, <3>2 DEF Orphans
      <4>2. q # p
        BY <4>1
      <4>. QED
        BY <4>1, <4>2
    <3>. QED
      BY <3>1, <3>2
  <2>. QED
    BY <2>3, <2>4
<1>a. IsFiniteSet(Actors) /\ Cardinality(Actors) \in Nat
  <2>1. IsFiniteSet(Workers) /\ IsFiniteSet(Operators)
    BY BackupsAssumption
  <2>2. IsFiniteSet(Actors)
    BY <2>1, FS_Union DEF Actors
  <2>. QED
    BY <2>2, FS_CardinalityType
<1>b. IsFiniteSet(Others) /\ Cardinality(Others) = Cardinality(Actors) - 1
  BY <1>a, FS_RemoveElement
<1>c. IsFiniteSet(Copying) /\ Cardinality(Copying) <= Cardinality(Others)
  <2>. DEFINE f == [q \in Others |-> act[q].run]
  <2>1. f \in Surjection(Others, Copying)
    BY DEF Surjection
  <2>. HIDE DEF Others, Copying, f
  <2>. QED
    BY <1>b, <2>1, FS_Surjection
<1>o. IsFiniteSet(Orphans) /\ Cardinality(Orphans) \in Nat
  BY OrphansFinite
<1>d. Cardinality(Copying) \in Nat /\ Cardinality(Others) \in Nat
  BY <1>b, <1>c, FS_CardinalityType
<1>s. IsFiniteSet(S) /\ Cardinality(S) \in Nat /\ Cardinality(S) <= Cardinality(Orphans) + Cardinality(Copying)
  <2>. HIDE DEF Copying
  <2>1. /\ IsFiniteSet(S)
        /\ Cardinality(S) = Cardinality(Orphans) + Cardinality(Copying) - Cardinality(Orphans \cap Copying)
    BY <1>c, <1>o, FS_Union
  <2>2. IsFiniteSet(Orphans \cap Copying)
    BY <1>o, FS_Intersection
  <2>3. Cardinality(Orphans \cap Copying) \in Nat /\ Cardinality(S) \in Nat
    BY <2>1, <2>2, FS_CardinalityType
  <2>. QED
    BY <1>d, <1>o, <2>1, <2>3
<1>t. IsFiniteSet(T) /\ Cardinality(T) <= Cardinality(S)
  <2>. DEFINE f == [r \in S |-> <<"staging", r>>]
  <2>1. f \in Surjection(S, T)
    BY DEF Surjection
  <2>. HIDE DEF S, T, f
  <2>. QED
    BY <1>s, <2>1, FS_Surjection
<1>n. Cardinality(N) <= Cardinality(T) /\ Cardinality(T) \in Nat
  <2>. HIDE DEF N, T
  <2>. QED
    BY <1>2, <1>t, FS_Subset, FS_CardinalityType
<1>. HIDE DEF N, T, S, Copying, Others
<1>k. Keep \in Nat /\ faults \in Nat /\ Keep >= Cardinality(Actors) + faults /\ Cardinality(Orphans) <= faults
  BY BackupsAssumption DEF TypeOK, EnoughKept, FewOrphans
<1>. QED
  BY <1>1, <1>a, <1>b, <1>c, <1>d, <1>o, <1>s, <1>t, <1>n, <1>k

\* What is published has been written.
LEMMA PublishedBorn ==
    ASSUME TypeOK, Stages, RunsApart, Unborn, Dated, NEW s \in Runs, Published(s)
    PROVE  Born("local", s)
<1>1. CASE HasManifest("offsite", s)
  BY <1>1, ListedBorn DEF Places
<1>2. CASE \E p \in Actors : /\ act[p].run = s
                             /\ act[p].op \in {"backup", "restore"} /\ act[p].ok
                             /\ act[p].pc \notin Early["offsite"]
  <2>1. PICK p \in Actors : act[p].run = s /\ act[p].op \in {"backup", "restore"}
                            /\ act[p].pc \notin Early["offsite"]
    BY <1>2
  <2>2. s \in 1 .. runs
    BY <2>1, StageFacts DEF Stages
  <2>3. s <= runs /\ s # None
    BY <2>2, BackupsAssumption DEF None, TypeOK
  <2>4. act[p].pc \notin Early["local"]
    BY <2>1 DEF Early
  <2>. QED
    BY <2>1, <2>3, <2>4 DEF Born, RunsApart
<1>3. CASE status.outcome = "success" /\ status.run = s
  BY <1>3 DEF Dated, Born, Early
<1>. QED
  BY <1>1, <1>2, <1>3 DEF Published

\* A replica is missed by nobody: when it goes there is a newer one.
LEMMA ReplicaLoss ==
    ASSUME BundleInv, DropsReplaced, EnoughKept, [Next]_vars, NEW r \in Runs, Whole("offsite", r)
    PROVE  \E y \in Runs : Whole("offsite", y)' /\ made'[y].at >= made[r].at /\ made'[y].at \in Nat
<1>0. TypeOK /\ Stages /\ Counted /\ RunsApart /\ Unborn /\ DropsSurplus
  BY DEF BundleInv
<1>m. \A x \in Runs : made[x].at \in Nat
  BY <1>0, BackupsAssumption DEF TypeOK, Contents
<1>k. ASSUME NEW y \in Runs, Whole("offsite", y)
      PROVE  made'[y] = made[y]
  BY <1>0, <1>k, ListedBorn, MadeKept DEF Whole, Places
<1>1. CASE Whole("offsite", r)'
  BY <1>m, <1>k, <1>1
<1>2. CASE ~Whole("offsite", r)'
  <2>1. dir'["offsite"][r] # dir["offsite"][r]
    BY <1>2 DEF Whole, HasManifest, Intact
  <2>2. PICK p \in Actors : ProcessStep(p)
    BY <1>0, <2>1, OtherSteps
  <2>3. ~OwnWrite(p, "offsite", r)
    BY <1>2 DEF OwnWrite, Whole, HasManifest, Intact, Both
  <2>4. Deletes(p, "offsite", r)
    BY <1>0, <2>1, <2>2, <2>3, BundleEffect DEF DirMoves, Places
  <2>5. DeleteBundle(p) /\ <<"offsite", r>> \in act[p].drop
    BY <2>4 DEF Deletes
  <2>6. act[p].pc \in {"offdel", "locdel"}
    BY <2>5 DEF DeleteBundle
  <2>7. act[p].pc = "offdel"
    BY <1>0, <2>5, <2>6 DEF DropsSurplus
  <2>8. PICK y \in Runs : Whole("offsite", y) /\ made[y].at > made[r].at
    BY <2>5, <2>7 DEF DropsReplaced
  <2>9. y # r
    BY <1>m, <2>8
  <2>10. dir'["offsite"][y] = dir["offsite"][y]
    BY <1>0, <2>1, <2>5, <2>9, DeleteEffect DEF Places, Bundles
  <2>11. Whole("offsite", y)'
    BY <2>8, <2>10 DEF Whole, HasManifest, Intact
  <2>12. made'[y].at = made[y].at
    BY <1>k, <2>8
  <2>. QED
    BY <1>m, <2>8, <2>11, <2>12
<1>. QED
  BY <1>1, <1>2

\* What a step publishes is whole.
LEMMA PublishedStep ==
    ASSUME BundleInv, [Next]_vars, NEW s \in Runs, Published(s)', ~Published(s)
    PROVE  Whole("offsite", s)'
<1>0. TypeOK /\ Stages /\ Counted /\ RunsApart /\ Unborn
  BY DEF BundleInv
<1>1. CASE HasManifest("offsite", s)'
  <2>1. ~HasManifest("offsite", s)
    BY DEF Published
  <2>2. PICK p \in Actors : ProcessStep(p)
    BY <1>0, <1>1, <2>1, OtherSteps DEF HasManifest
  <2>3. OwnWrite(p, "offsite", s)
    BY <1>0, <1>1, <2>1, <2>2, BundleEffect DEF DirMoves, Deletes, HasManifest, Places
  <2>4. dir'["offsite"][s] = Both
    BY <2>3 DEF OwnWrite
  <2>. QED
    BY <2>4 DEF Whole, HasManifest, Intact, Both
<1>2. ASSUME NEW q \in Actors, act'[q].run = s, act'[q].op \in {"backup", "restore"}, act'[q].ok,
             act'[q].pc \notin Early["offsite"]
      PROVE  Whole("offsite", s)'
  <2>1. act'[q] # act[q]
    BY <1>2 DEF Published
  <2>2. act'[q].pc \notin Early["local"]
    BY <1>2 DEF Early
  <2>3. PICK p \in Actors : ProcessStep(p)
    BY <1>0, <1>2, <2>1, <2>2, OtherSteps
  <2>4. q = p
    BY <1>0, <2>1, <2>3, ProcessMoves DEF Advances, OnlyMoves
  <2>5. act[q].ok /\ act[q].op = act'[q].op /\ act'[q].run = act[q].run /\ act'[q] # Idle
    BY <1>0, <1>2, <2>3, <2>4, OkBefore
  <2>6. act[q].pc \in Early["offsite"]
    BY <1>2, <2>5 DEF Published
  <2>7. dir'["offsite"][act[q].run] = Both
    <3>1. \/ act'[q].pc \in Early["local"]
          \/ act'[q].pc = "replicate"
          \/ act'[q].pc \in Early["offsite"]
          \/ dir'["offsite"][act[q].run] = Both
      BY <1>0, <1>2, <2>3, <2>4, <2>5, <2>6, SoundMoves
    <3>. QED
      BY <1>2, <2>2, <3>1 DEF Early
  <2>. QED
    BY <1>2, <2>5, <2>7 DEF Whole, HasManifest, Intact, Both
<1>3. CASE status'.outcome = "success" /\ status'.run = s
  <2>1. ~UNCHANGED status
    BY <1>3 DEF Published
  <2>2. PICK p \in Actors : EndBackup(p)
    BY <1>0, <2>1, OtherSteps, BundleEffect
  <2>3. /\ status' = [outcome |-> IF act[p].ok THEN "success" ELSE "failed", run |-> act[p].run]
        /\ act[p].pc = "bend" /\ act[p].op \in {"backup", "restore"}
    BY <1>0, <2>2, EndBackupStatus
  <2>4. act[p].ok /\ act[p].run = s
    BY <1>3, <2>3
  <2>5. act[p].pc \notin Early["offsite"]
    BY <2>3 DEF Early
  <2>. QED
    BY <2>3, <2>4, <2>5 DEF Published
<1>. QED
  BY <1>1, <1>2, <1>3 DEF Published

\* The lists that are being deleted keep their replacements.
LEMMA DropsReplacedStep ==
    ASSUME BundleInv, FewOrphans, Replicated, DropsReplaced, EnoughKept, [Next]_vars,
           NEW q \in Actors, act'[q].pc = "offdel", NEW d \in act'[q].drop, d[1] = "offsite"
    PROVE  \E r \in Runs : Whole("offsite", r)' /\ made'[r].at > made'[d[2]].at
<1>0. TypeOK /\ Stages /\ Counted /\ RunsApart /\ Unborn
  BY DEF BundleInv
<1>m. \A x \in Runs : made[x].at \in Nat
  BY <1>0, BackupsAssumption DEF TypeOK, Contents
<1>1. CASE ListBundles(q)
  <2>1. /\ act[q].pc = "offlist" /\ act'[q].drop = Surplus("offsite")
        /\ UNCHANGED <<dir, made, stamps>>
    BY <1>0, <1>1, ListFacts
  <2>2. PICK y \in Runs : HasManifest("offsite", y) /\ made[y].at > made[d[2]].at
    BY <1>0, <2>1, SurplusReplaced
  <2>3. PICK r \in Runs : Whole("offsite", r) /\ made[r].at >= made[y].at
    BY <2>2 DEF Replicated, Published
  <2>4. d[2] \in Runs
    BY <2>1, SurplusType DEF Bundles
  <2>5. made[r].at > made[d[2]].at
    BY <1>m, <2>2, <2>3, <2>4
  <2>6. Whole("offsite", r)'
    BY <2>1, <2>3 DEF Whole, HasManifest, Intact
  <2>. QED
    BY <2>1, <2>5, <2>6
<1>2. CASE act'[q].drop \subseteq act[q].drop /\ act'[q].pc = act[q].pc
  <2>1. d \in act[q].drop /\ act[q].pc = "offdel"
    BY <1>2
  <2>2. d \in Bundles
    BY <1>0, <2>1 DEF TypeOK, Acts
  <2>3. d = <<"offsite", d[2]>> /\ d[2] \in Runs
    BY <2>2 DEF Bundles
  <2>4. Born("offsite", d[2])
    BY <1>0, <2>1, <2>3 DEF Unborn, Places
  <2>5. Born("local", d[2])
    BY <2>4 DEF Born, Early
  <2>6. made'[d[2]] = made[d[2]]
    BY <1>0, <2>3, <2>5, MadeKept
  <2>7. PICK x \in Runs : Whole("offsite", x) /\ made[x].at > made[d[2]].at
    BY <2>1 DEF DropsReplaced
  <2>8. PICK y \in Runs : Whole("offsite", y)' /\ made'[y].at >= made[x].at /\ made'[y].at \in Nat
    BY <2>7, ReplicaLoss
  <2>9. made'[y].at > made[d[2]].at
    BY <1>m, <2>3, <2>7, <2>8
  <2>. QED
    BY <2>6, <2>8, <2>9
<1>3. \/ ListBundles(q)
      \/ act'[q].drop \subseteq act[q].drop /\ act'[q].pc = act[q].pc
  <2>1. CASE act'[q] = act[q]
    BY <2>1
  <2>2. CASE act'[q] # act[q]
    <3>1. PICK p \in Actors : ProcessStep(p)
      BY <1>0, <2>2, OtherSteps
    <3>2. q = p
      BY <1>0, <2>2, <3>1, ProcessMoves DEF Advances, OnlyMoves
    <3>. QED
      BY <1>0, <3>1, <3>2, DropMoves
  <2>. QED
    BY <2>1, <2>2
<1>. QED
  BY <1>1, <1>2, <1>3

\* Every step keeps the replicas in order.
LEMMA ReplicaStep == BundleInv /\ ReplicaInv /\ [Next]_vars => ReplicaInv'
<1>. SUFFICES ASSUME BundleInv, ReplicaInv, [Next]_vars
              PROVE  ReplicaInv'
  OBVIOUS
<1>0. TypeOK /\ Stages /\ Counted /\ RunsApart /\ Unborn /\ Dated
  BY DEF BundleInv
<1>i. FewOrphans /\ Replicated /\ DropsReplaced
  BY DEF ReplicaInv
<1>1. FewOrphans'
  BY <1>0, <1>i, FewOrphansStep
<1>2. EnoughKept' => EnoughKept
  <2>1. faults \in Nat /\ faults' \in Nat /\ faults <= faults'
    BY <1>0, FaultsGrow
  <2>2. IsFiniteSet(Workers) /\ IsFiniteSet(Operators) /\ Keep \in Nat
    BY BackupsAssumption
  <2>3. IsFiniteSet(Actors)
    BY <2>2, FS_Union DEF Actors
  <2>4. Cardinality(Actors) \in Nat
    BY <2>3, FS_CardinalityType
  <2>. QED
    BY <2>1, <2>2, <2>4 DEF EnoughKept
<1>m. \A x \in Runs : made[x].at \in Nat
  BY <1>0, BackupsAssumption DEF TypeOK, Contents
<1>3. ASSUME EnoughKept, NEW s \in Runs, Published(s)'
      PROVE  \E r \in Runs : Whole("offsite", r)' /\ made'[r].at >= made'[s].at
  <2>1. CASE Published(s)
    <3>1. made'[s] = made[s]
      BY <1>0, <2>1, PublishedBorn, MadeKept
    <3>2. PICK x \in Runs : Whole("offsite", x) /\ made[x].at >= made[s].at
      BY <1>3, <1>i, <2>1 DEF Replicated
    <3>3. PICK y \in Runs : Whole("offsite", y)' /\ made'[y].at >= made[x].at /\ made'[y].at \in Nat
      BY <1>3, <1>i, <3>2, ReplicaLoss
    <3>4. made'[y].at >= made[s].at
      BY <1>m, <3>2, <3>3
    <3>. QED
      BY <3>1, <3>3, <3>4
  <2>2. CASE ~Published(s)
    <3>1. Whole("offsite", s)'
      BY <1>3, <2>2, PublishedStep
    <3>2. TypeOK'
      BY <1>0, TypeStep
    <3>3. made'[s].at \in 0 .. MaxRuns
      BY <3>2 DEF TypeOK, Contents
    <3>4. made'[s].at >= made'[s].at
      BY <3>3, BackupsAssumption
    <3>. QED
      BY <3>1, <3>4
  <2>. QED
    BY <2>1, <2>2
<1>4. Replicated'
  BY <1>2, <1>3 DEF Replicated
<1>5. DropsReplaced'
  BY <1>2, <1>i, DropsReplacedStep DEF DropsReplaced
<1>. QED
  BY <1>1, <1>4, <1>5 DEF ReplicaInv

\* The first run is replicated.
LEMMA InitReplicas == Init => ReplicaInv
<1>. SUFFICES ASSUME Init
              PROVE  ReplicaInv
  OBVIOUS
<1>0. 1 \in Runs
  BY BackupsAssumption DEF Runs
<1>d. \A pl \in Places, r \in Runs :
          dir[pl][r] = IF r = 1 /\ pl # "staging" THEN {"payload", "manifest"} ELSE {}
  BY DEF Init
<1>a. \A p \in Actors : act[p] = Idle
  BY DEF Init
<1>1. FewOrphans
  <2>1. Orphans = {}
    BY <1>d DEF Orphans, HasManifest, Places
  <2>2. faults = 0
    BY DEF Init
  <2>. QED
    BY <2>1, <2>2, FS_EmptySet DEF FewOrphans
<1>2. \A s \in Runs : Published(s) => s = 1
  BY <1>a, <1>d, IdleFacts DEF Published, HasManifest, Places, Init
<1>3. Whole("offsite", 1)
  BY <1>0, <1>d DEF Whole, HasManifest, Intact, Places
<1>4. made[1].at = 1
  BY <1>0 DEF Init
<1>5. Replicated
  BY <1>0, <1>2, <1>3, <1>4 DEF Replicated
<1>6. DropsReplaced
  BY <1>a, IdleFacts DEF DropsReplaced
<1>. QED
  BY <1>1, <1>5, <1>6 DEF ReplicaInv

\* The inductive invariant of the replicas: few are staged by nobody, and a
\* newer one is whole wherever one is about to be deleted.
THEOREM ReplicaInvariance == Spec => []ReplicaInv
  BY BundleInvariance, InitReplicas, ReplicaStep, PTL DEF Spec

\* evaluate_backup_readiness says ready after a run that succeeded: there is
\* then a whole bundle at least as new, and a whole replica too as long as
\* BACKUP_KEEP covers the processes and the faults so far, however many
\* cleanups count and delete side by side.
THEOREM ReadyHasBundle == Spec => []ReadyMeansBundle
<1>1. BundleInv /\ ReplicaInv => ReadyMeansBundle
  <2>. SUFFICES ASSUME BundleInv, ReplicaInv, NEW place \in {"local", "offsite"}, Readiness = "ready",
                       place = "offsite" => Keep >= Cardinality(Actors) + faults
                PROVE  \E r \in Runs : Whole(place, r) /\ made[r].at >= made[status.run].at
    BY DEF ReadyMeansBundle
  <2>0. TypeOK /\ Dated /\ Replicated
    BY DEF BundleInv, ReplicaInv
  <2>1. status.outcome = "success"
    <3>1. status.outcome \in Outcomes
      BY <2>0 DEF TypeOK
    <3>. QED
      BY <3>1 DEF Readiness, Outcomes
  <2>2. status.run \in 1 .. runs /\ made[status.run].at <= stamps
    BY <2>0, <2>1 DEF Dated
  <2>3. CASE place = "local"
    BY <2>2, <2>3, LastIsWhole
  <2>4. CASE place = "offsite"
    <3>1. status.run \in Runs
      BY <2>0, <2>2, BackupsAssumption DEF TypeOK, Runs
    <3>2. Published(status.run) /\ EnoughKept
      BY <2>1, <2>4 DEF Published, EnoughKept
    <3>. QED
      BY <2>0, <2>4, <3>1, <3>2 DEF Replicated
  <2>. QED
    BY <2>3, <2>4
<1>. QED
  BY <1>1, BundleInvariance, ReplicaInvariance, PTL

-----------------------------------------------------------------------------
(***************************************************************************)
(* The data                                                                *)
(***************************************************************************)
\* One operator at a time: two restores side by side would mix their data.
OneOperator == \A p, q \in Operators : p = q

\* A process is moved by itself.
LEMMA WhoMoved ==
    ASSUME TypeOK, Stages, [Next]_vars, NEW q \in Actors, act'[q] # act[q]
    PROVE  \/ ProcessStep(q)
           \/ RunBackup(q)
           \/ RestoreBundle(q) /\ q \in Operators
           \/ RunDrill(q)
<1>m. ASSUME NEW p \in Actors, OnlyMoves(p)
      PROVE  q = p
  BY <1>m DEF OnlyMoves
<1>1. ASSUME NEW p \in Actors, ProcessStep(p)
      PROVE  q = p
  BY <1>1, <1>m, ProcessMoves DEF Advances
<1>2. ASSUME NEW p \in Actors, RunBackup(p) \/ RestoreBundle(p)
      PROVE  q = p
  BY <1>2, <1>m, BeginFacts DEF Begins
<1>3. ASSUME NEW p \in Actors, RunDrill(p)
      PROVE  q = p
  BY <1>3, <1>m, DrillFacts DEF Advances
<1>4. ASSUME NEW a \in Atts, AppStep(a)
      PROVE  FALSE
  BY <1>4 DEF AppStep
<1>5. CASE UNCHANGED vars
  BY <1>5 DEF vars
<1>6. CASE \E p \in Actors : ProcessStep(p)
  BY <1>6, <1>1
<1>7. CASE \E p \in Workers : RunBackup(p) \/ RunDrill(p)
  BY <1>7, <1>2, <1>3 DEF Actors
<1>8. CASE \E p \in Operators : RestoreBundle(p)
  BY <1>8, <1>2 DEF Actors
<1>. QED
  BY <1>4, <1>5, <1>6, <1>7, <1>8 DEF Next, ProcessStep

\* What the steps of a backup or a restore keep.
LEMMA RestoreKeeps ==
    ASSUME TypeOK, Stages, NEW p \in Actors, ProcessStep(p), act'[p].op = "restore"
    PROVE  act[p].op = "restore" /\ act'[p].of = act[p].of /\ act'[p].run = act[p].run
<1>0. act \in [Actors -> Acts] /\ act[p] \in Acts /\ Stage(act[p])
  BY DEF TypeOK, Stages
<1>1. act'[p] # Idle /\ act[p].op = "restore"
  BY ProcessMoves, IdleFacts
<1>2. CASE BackupStep(p) /\ ~EndBackup(p)
  BY <1>2, <1>1, BackupMoves DEF GoesOn
<1>3. CASE EndBackup(p)
  BY <1>3, <1>1, EndBackupMoves DEF GoesOn
<1>4. CASE RestoreStep(p)
  BY <1>4, <1>1, RestoreMoves DEF GoesOn
<1>5. CASE DrillStep(p)
  <2>1. act[p].op = "drill"
    BY <1>0, <1>5, DrillMoves, StageFacts DEF DrillPCs
  <2>. QED
    BY <1>1, <2>1
<1>6. CASE StepFails(p)
  BY <1>0, <1>1, <1>6, FailsFacts DEF StepFails
<1>7. CASE Crash(p)
  BY <1>0, <1>1, <1>7, MovesIdle DEF Crash
<1>. QED
  BY <1>2, <1>3, <1>4, <1>5, <1>6, <1>7 DEF ProcessStep, Step

\* What a drill has in hand: the latest bundle of the offsite root, and in
\* the end whether it replayed.
LEMMA DrillKeeps ==
    ASSUME TypeOK, Stages, NEW p \in Actors, ProcessStep(p), act'[p].pc \in DrillPCs
    PROVE  \/ act'[p].of \in Listed("offsite") /\ act'[p].pc = IF act'[p].ok THEN "open" ELSE "dend"
           \/ act'[p].pc = "dend" /\ ~act'[p].ok
           \/ /\ act'[p].of = act[p].of
              /\ act[p].pc \in {"open", "createdb", "replay", "dropdb"}
              /\ act'[p].pc \in {"dropdb", "dend"} /\ act'[p].ok =>
                     Good(act[p].of[2]) \/ (act[p].pc = "dropdb" /\ act[p].ok)
<1>. USE DEF At
<1>0. act \in [Actors -> Acts] /\ act[p] \in Acts /\ Stage(act[p])
  BY DEF TypeOK, Stages
<1>. DEFINE x == act[p]
<1>f. ASSUME Fails(p), act[p].pc \in DrillPCs \ {"dend"}
      PROVE  act'[p].of = act[p].of /\ ~act'[p].ok /\ (act[p].pc = "find" => act'[p].pc = "dend")
  <2>1. act[p].pc \in PCs \ Ends
    BY <1>f DEF DrillPCs, PCs, Ends
  <2>. QED
    <3>1. act'[p].of = act[p].of /\ ~act'[p].ok /\ act'[p].pc = AfterFailure(act[p].pc)
      BY <1>0, <1>f, <2>1, FailsFacts
    <3>2. AfterFailure("find") = "dend"
      BY DEF AfterFailure, Replacing
    <3>. QED
      BY <3>1, <3>2
<1>g. ASSUME NEW pc \in DrillPCs, Goto(p, pc)
      PROVE  act'[p].of = act[p].of /\ act'[p].pc = pc /\ act'[p].ok = act[p].ok
  <2>1. pc \in PCs
    BY <1>g, SMTT(30) DEF DrillPCs, PCs, Ends
  <2>. QED
    BY <1>0, <1>g, <2>1, GotoFacts, ZenonT(60)
<1>1. CASE FindLatest(p)
  <2>1. CASE Fails(p)
    BY <1>1, <1>f, <2>1 DEF FindLatest, DrillPCs
  <2>2. ASSUME NEW d \in Listed("offsite"),
               act' = [act EXCEPT ![p].of = d, ![p].pc = IF Opens(d) THEN "open" ELSE "dend",
                                  ![p].ok = Opens(d), ![p].hit = ~Opens(d)]
        PROVE  act'[p].of = d /\ act'[p].pc = IF act'[p].ok THEN "open" ELSE "dend"
    <3>. DEFINE opens == Opens(d)
                pc == IF opens THEN "open" ELSE "dend"
                a == [x EXCEPT !.of = d, !.pc = pc, !.ok = opens, !.hit = ~opens]
    <3>1. d \in Places \X (Runs \cup {None})
      BY SurplusType DEF Bundles
    <3>2. opens \in BOOLEAN
      BY DEF Opens, Whole
    <3>3. pc \in PCs
      BY DEF PCs, Ends
    <3>4. act' = [act EXCEPT ![p] = a]
      BY <2>2
    <3>. HIDE DEF opens
    <3>5. a \in Acts
      BY <1>0, <3>1, <3>2, <3>3 DEF Acts
    <3>6. OnlyMoves(p) /\ act'[p] = a
      BY <1>0, <3>4, <3>5, Moves
    <3>. QED
      BY <1>0, <3>2, <3>6 DEF Acts
  <2>. QED
    BY <1>1, <2>1, <2>2, ZenonT(60) DEF FindLatest
<1>2. CASE OpenBundle(p)
  BY <1>2, <1>f, <1>g DEF OpenBundle, DrillPCs
<1>3. CASE CreateDatabase(p)
  BY <1>3, <1>g DEF CreateDatabase, DrillPCs
<1>4. CASE DropDatabase(p)
  BY <1>4, <1>g DEF DropDatabase, DrillPCs
<1>5. CASE Replay(p)
  <2>. DEFINE ok == Verified(Target(p).rows, Target(p).objs, Target(p).objs)
              a == [x EXCEPT !.pc = "dropdb", !.ok = ok]
  <2>1. ok \in BOOLEAN /\ (ok => Good(act[p].of[2]))
    BY DEF Verified, Good, Target
  <2>2. act' = [act EXCEPT ![p] = a]
    BY <1>5 DEF Replay
  <2>. HIDE DEF ok
  <2>3. a \in Acts
    BY <1>0, <2>1 DEF Acts, PCs
  <2>4. OnlyMoves(p) /\ act'[p] = a
    BY <1>0, <2>2, <2>3, Moves
  <2>. QED
    BY <1>0, <1>5, <2>1, <2>4 DEF Acts, Replay
<1>6. CASE EndDrill(p) \/ Crash(p)
  BY <1>0, <1>6, MovesIdle, IdleFacts DEF EndDrill, Crash, DrillPCs
<1>7. CASE StepFails(p)
  <2>1. Fails(p) /\ act[p].pc \notin Ends
    BY <1>7 DEF StepFails
  <2>2. act[p].pc \in DrillPCs
    <3>1. act'[p].pc = AfterFailure(act[p].pc) /\ act[p].pc \in PCs \ Ends
      BY <1>0, <2>1, FailsFacts DEF Acts
    <3>. QED
      BY <1>0, <2>1, <3>1, AfterFailureType, StageFacts DEF DrillPCs
  <2>. QED
    BY <1>f, <2>1, <2>2 DEF DrillPCs, Ends
<1>8. CASE BackupStep(p) \/ RestoreStep(p)
  <2>1. act'[p] = Idle \/ act'[p].pc \in BackupPCs \cup RestorePCs
    BY <1>8, BackupMoves, EndBackupMoves, RestoreMoves DEF RestorePCs, Window
  <2>. QED
    BY <2>1, IdleFacts DEF DrillPCs, BackupPCs, RestorePCs, Window, Replacing
<1>. QED
  BY <1>1, <1>2, <1>3, <1>4, <1>5, <1>6, <1>7, <1>8 DEF ProcessStep, Step, DrillStep

\* Whoever has a bundle in hand has one that is written.
LEMMA OfBornStep ==
    ASSUME TypeOK, Stages, Counted, Unborn, OfBorn, [Next]_vars
    PROVE  OfBorn'
<1>b. ASSUME NEW r \in Runs, Born("local", r)
      PROVE  Born("local", r)'
  BY <1>b, BornKept DEF Places
<1>1. ASSUME NEW p \in Actors, act'[p].op = "restore"
      PROVE  act'[p].of[2] \in Runs /\ Born("local", act[p].of[2])'
  <2>1. CASE act'[p].of = act[p].of /\ act[p].op = "restore"
    <3>1. act[p].of[2] \in Runs /\ Born("local", act[p].of[2])
      BY <2>1 DEF OfBorn
    <3>2. PICK r \in Runs : r = act[p].of[2] /\ Born("local", r)'
      BY <1>b, <3>1
    <3>. QED
      BY <2>1, <3>2 DEF Born
  <2>2. CASE RestoreBundle(p)
    <3>1. PICK pl \in {"local", "offsite"}, r \in Runs : Opens(<<pl, r>>) /\ BeginRun(p, "restore", <<pl, r>>)
      BY <2>2 DEF RestoreBundle
    <3>2. HasManifest(pl, r) /\ pl \in Places
      BY <3>1 DEF Opens, Whole, Places
    <3>3. Born("local", r)'
      BY <1>b, <3>2, ListedBorn
    <3>4. act'[p].of = <<pl, r>>
      BY <3>1, <3>2, BeginMoves
    <3>. QED
      BY <3>3, <3>4 DEF Born
  <2>3. CASE RunBackup(p)
    BY <1>1, <2>3, BeginMoves DEF RunBackup, Places, None
  <2>4. CASE RunDrill(p)
    BY <1>1, <2>4, RunDrillMoves
  <2>. QED
    BY <1>1, <2>1, <2>2, <2>3, <2>4, WhoMoved, RestoreKeeps
<1>2. ASSUME NEW p \in Actors,
             act'[p].pc \in {"open", "createdb", "replay", "dropdb"} \/ (act'[p].pc = "dend" /\ act'[p].ok)
      PROVE  act'[p].of[2] \in Runs /\ Born("local", act[p].of[2])'
  <2>1. CASE /\ act'[p].of = act[p].of
             /\ act[p].pc \in {"open", "createdb", "replay", "dropdb"} \/ (act[p].pc = "dend" /\ act[p].ok)
    <3>1. act[p].of[2] \in Runs /\ Born("local", act[p].of[2])
      BY <2>1 DEF OfBorn
    <3>2. PICK r \in Runs : r = act[p].of[2] /\ Born("local", r)'
      BY <1>b, <3>1
    <3>. QED
      BY <2>1, <3>2 DEF Born
  <2>2. CASE act'[p].of \in Listed("offsite")
    <3>1. PICK pl \in Places, r \in Runs : act'[p].of = <<pl, r>> /\ HasManifest(pl, r)
      BY <2>2 DEF Listed, Roots, Places
    <3>2. Born("local", r)'
      BY <1>b, <3>1, ListedBorn
    <3>. QED
      BY <3>1, <3>2 DEF Born
  <2>3. CASE act'[p] = act[p]
    BY <1>2, <2>1, <2>3
  <2>4. CASE ProcessStep(p)
    <3>1. act'[p].pc \in DrillPCs
      BY <1>2 DEF DrillPCs
    <3>. QED
      BY <1>2, <2>1, <2>2, <2>4, <3>1, DrillKeeps
  <2>5. CASE RunBackup(p) \/ RestoreBundle(p)
    BY <1>2, <2>5, BeginFacts DEF Begins
  <2>6. CASE RunDrill(p)
    BY <1>2, <2>6, RunDrillMoves
  <2>. QED
    BY <2>3, <2>4, <2>5, <2>6, WhoMoved
<1>. QED
  BY <1>1, <1>2 DEF OfBorn

\* Only operators restore.
LEMMA ByOperatorsStep ==
    ASSUME TypeOK, Stages, ByOperators, [Next]_vars
    PROVE  ByOperators'
<1>. SUFFICES ASSUME NEW p \in Actors, act'[p].op = "restore"
              PROVE  p \in Operators
  BY DEF ByOperators
<1>1. CASE act'[p] = act[p]
  BY <1>1 DEF ByOperators
<1>2. CASE ProcessStep(p)
  BY <1>2, RestoreKeeps DEF ByOperators
<1>3. CASE RunBackup(p)
  BY <1>3, BeginMoves DEF RunBackup, Places, None
<1>4. CASE RunDrill(p)
  BY <1>4, RunDrillMoves
<1>. QED
  BY <1>1, <1>2, <1>3, <1>4, WhoMoved

\* What a written bundle is good for does not change.
LEMMA GoodKept ==
    ASSUME TypeOK, Stages, Counted, [Next]_vars, NEW r \in Runs, Born("local", r)
    PROVE  made'[r] = made[r] /\ (Good(r)' <=> Good(r))
<1>1. made'[r] = made[r]
  BY MadeKept
<1>. QED
  BY <1>1 DEF Good

\* Who writes the status files, the history and the data.
LEMMA StatusMoves ==
    ASSUME [Next]_vars
    PROVE  /\ backend' = backend
           /\ drill' = drill \/ \E p \in Actors : EndDrill(p)
           /\ \/ restore' = restore
              \/ \E p \in Actors : EndRestore(p)
              \/ restore' = [restore EXCEPT !.fresh = FALSE]
           /\ before' = before \/ before' = NoData \/ \E p \in Actors : StageObjects(p)
<1>. USE DEF statuses
<1>1. ASSUME NEW p \in Actors, BackupStep(p)
      PROVE  UNCHANGED <<backend, drill, restore, before>>
  BY <1>1 DEF BackupStep, Dump, ListObjects, CopyObject, ObjectsCopied, WritePayload,
     WriteManifest, Replicate, CopyPayloads, PublishReplica, ListBundles, DeleteBundle, EndBackup
<1>2. ASSUME NEW p \in Actors, RestoreStep(p), ~EndRestore(p), ~StageObjects(p)
      PROVE  UNCHANGED <<backend, drill, restore, before>>
  BY <1>2, SMTT(30) DEF RestoreStep, Unpack, MoveAway, PublishObjects, RemovePrevious,
     PutObject, CleanTables, LoadTables, CheckRestored
<1>3. ASSUME NEW p \in Actors, DrillStep(p), ~EndDrill(p)
      PROVE  UNCHANGED <<backend, drill, restore, before>>
  BY <1>3 DEF DrillStep, FindLatest, OpenBundle, CreateDatabase, Replay, DropDatabase
<1>4. ASSUME NEW p \in Actors, StepFails(p) \/ Crash(p) \/ RunDrill(p) \/ RunBackup(p) \/ RestoreBundle(p)
      PROVE  UNCHANGED <<backend, drill, restore, before>>
  BY <1>4 DEF StepFails, Crash, RunDrill, RunBackup, RestoreBundle
<1>5. ASSUME NEW p \in Actors, EndRestore(p) \/ StageObjects(p) \/ EndDrill(p)
      PROVE  /\ backend' = backend
             /\ drill' = drill \/ EndDrill(p)
             /\ restore' = restore \/ EndRestore(p) \/ restore' = [restore EXCEPT !.fresh = FALSE]
             /\ before' = before \/ StageObjects(p)
  BY <1>5 DEF EndRestore, StageObjects, EndDrill
<1>6. ASSUME NEW a \in Atts, AppStep(a)
      PROVE  /\ backend' = backend /\ drill' = drill /\ before' = NoData
             /\ restore' = [restore EXCEPT !.fresh = FALSE]
  BY <1>6 DEF AppStep
<1>7. CASE UNCHANGED vars
  BY <1>7 DEF vars
<1>. QED
  BY <1>1, <1>2, <1>3, <1>4, <1>5, <1>6, <1>7, Kinds, SMTT(30) DEF ProcessStep, Step

\* The data are changed by the application, and by who replaces them.
LEMMA DataMoves ==
    ASSUME [Next]_vars
    PROVE  \/ UNCHANGED data
           \/ \E a \in Atts : AppStep(a)
           \/ \E p \in Actors : act[p].pc \in Replacing /\ ProcessStep(p)
<1>. USE DEF data
<1>1. ASSUME NEW p \in Actors, BackupStep(p)
      PROVE  UNCHANGED data
  BY <1>1 DEF BackupStep, Dump, ListObjects, CopyObject, ObjectsCopied, WritePayload,
     WriteManifest, Replicate, CopyPayloads, PublishReplica, ListBundles, DeleteBundle, EndBackup
<1>2. ASSUME NEW p \in Actors, RestoreStep(p)
      PROVE  UNCHANGED data \/ act[p].pc \in Replacing
  BY <1>2, SMTT(30) DEF RestoreStep, Unpack, StageObjects, MoveAway, PublishObjects, RemovePrevious,
     PutObject, CleanTables, LoadTables, CheckRestored, EndRestore, At, Replacing
<1>3. ASSUME NEW p \in Actors, DrillStep(p) \/ Crash(p) \/ RunDrill(p) \/ RunBackup(p) \/ RestoreBundle(p)
      PROVE  UNCHANGED data
  BY <1>3 DEF DrillStep, FindLatest, OpenBundle, CreateDatabase, Replay, DropDatabase,
     EndDrill, Crash, RunDrill, RunBackup, RestoreBundle
<1>4. ASSUME NEW p \in Actors, StepFails(p)
      PROVE  UNCHANGED data \/ act[p].pc \in Replacing
  BY <1>4 DEF StepFails, PutBack, Replacing
<1>5. CASE UNCHANGED vars
  BY <1>5 DEF vars
<1>. QED
  BY <1>1, <1>2, <1>3, <1>4, <1>5, Kinds, SMTT(30) DEF ProcessStep, Step

\* What passed a drill is good.
LEMMA DrillInvStep ==
    ASSUME TypeOK, Stages, Counted, OfBorn, DrillInv, [Next]_vars
    PROVE  DrillInv'
<1>1. ASSUME NEW p \in Actors, act'[p].pc \in {"dropdb", "dend"}, act'[p].ok
      PROVE  Good(act[p].of[2])'
  <2>1. ASSUME NEW r \in Runs, Born("local", r), Good(r), act'[p].of[2] = r
        PROVE  Good(act[p].of[2])'
    <3>1. made'[r] = made[r]
      BY <2>1, GoodKept
    <3>. QED
      BY <2>1, <3>1 DEF Good
  <2>2. CASE act'[p] = act[p]
    <3>1. act[p].of[2] \in Runs /\ Born("local", act[p].of[2]) /\ Good(act[p].of[2])
      BY <1>1, <2>2 DEF OfBorn, DrillInv
    <3>. QED
      BY <2>1, <2>2, <3>1
  <2>3. CASE ProcessStep(p)
    <3>1. act'[p].pc \in DrillPCs
      BY <1>1 DEF DrillPCs
    <3>2. /\ act'[p].of = act[p].of
          /\ act[p].pc \in {"open", "createdb", "replay", "dropdb"}
          /\ Good(act[p].of[2]) \/ (act[p].pc = "dropdb" /\ act[p].ok)
      BY <1>1, <2>3, <3>1, DrillKeeps
    <3>3. act[p].of[2] \in Runs /\ Born("local", act[p].of[2]) /\ Good(act[p].of[2])
      BY <3>2 DEF OfBorn, DrillInv
    <3>. QED
      BY <2>1, <3>2, <3>3
  <2>4. CASE RunBackup(p) \/ RestoreBundle(p)
    BY <1>1, <2>4, BeginFacts DEF Begins
  <2>5. CASE RunDrill(p)
    BY <1>1, <2>5, RunDrillMoves
  <2>. QED
    BY <2>2, <2>3, <2>4, <2>5, WhoMoved
<1>2. ASSUME drill'.outcome = "success"
      PROVE  drill'.run \in Runs /\ Born("local", drill.run)' /\ Good(drill.run)'
  <2>1. ASSUME NEW r \in Runs, Born("local", r), Good(r), drill'.run = r
        PROVE  drill'.run \in Runs /\ Born("local", drill.run)' /\ Good(drill.run)'
    <3>1. made'[r] = made[r] /\ Born("local", r)'
      BY <2>1, GoodKept, BornKept DEF Places
    <3>. QED
      BY <2>1, <3>1 DEF Good, Born
  <2>2. CASE drill' = drill
    BY <1>2, <2>1, <2>2 DEF DrillInv
  <2>3. CASE \E p \in Actors : EndDrill(p)
    <3>1. PICK p \in Actors : EndDrill(p)
      BY <2>3
    <3>2. act[p].pc = "dend" /\ act[p].ok /\ drill'.run = act[p].of[2]
      BY <1>2, <3>1 DEF EndDrill, At
    <3>3. act[p].of[2] \in Runs /\ Born("local", act[p].of[2]) /\ Good(act[p].of[2])
      BY <3>2 DEF OfBorn, DrillInv
    <3>. QED
      BY <2>1, <3>2, <3>3
  <2>. QED
    BY <2>2, <2>3, StatusMoves
<1>. QED
  BY <1>1, <1>2 DEF DrillInv

\* An operator who replaces the data is alone with them.
LEMMA AloneInWindow ==
    ASSUME TypeOK, Stages, ByOperators, OneOperator, NEW p \in Actors, NEW q \in Actors,
           act[p].pc \in Window, act[q].pc \in Window
    PROVE  p = q
<1>1. act[p].op = "restore" /\ act[q].op = "restore"
  BY StageFacts DEF Stages, RestorePCs
<1>. QED
  BY <1>1 DEF ByOperators, OneOperator

\* Nobody else touches what a restore replaces.
LEMMA RestoringOther ==
    ASSUME TypeOK, Stages, Counted, OfBorn, ByOperators, OneOperator, [Next]_vars,
           NEW p \in Actors, Restoring(p), act'[p] = act[p], ~ProcessStep(p)
    PROVE  Restoring(p)'
<1>0. backend' = backend
  BY StatusMoves
<1>1. CASE act[p].pc \in Window
  <2>1. act[p].op = "restore"
    BY <1>1, StageFacts DEF Stages, RestorePCs
  <2>2. act[p].of[2] \in Runs /\ Born("local", act[p].of[2])
    BY <2>1 DEF OfBorn
  <2>3. made'[act[p].of[2]] = made[act[p].of[2]]
    BY <2>2, MadeKept
  <2>4. UNCHANGED data
    <3>1. \A a \in Atts : ~AppStep(a)
      BY <1>1 DEF AppStep
    <3>2. ASSUME NEW q \in Actors, act[q].pc \in Replacing, ProcessStep(q)
          PROVE  FALSE
      <4>1. q = p
        BY <1>1, <3>2, AloneInWindow DEF Window
      <4>. QED
        BY <3>2, <4>1
    <3>. QED
      BY <3>1, <3>2, DataMoves
  <2>5. rows' = rows /\ objs' = objs
    BY <2>4 DEF data
  <2>6. Target(p)' = Target(p) /\ (Good(act[p].of[2])' <=> Good(act[p].of[2]))
    BY <2>3 DEF Target, Good
  <2>. QED
    BY <1>0, <2>5, <2>6 DEF Restoring
<1>2. CASE act[p].pc \notin Window
  BY <1>2 DEF Restoring, Window, Replacing
<1>. QED
  BY <1>1, <1>2

\* The steps of the safety backup, and those of other operations.
LEMMA RestoringBefore ==
    ASSUME TypeOK, Stages, NEW p \in Actors, Restoring(p), ProcessStep(p), ~RestoreStep(p)
    PROVE  Restoring(p)'
<1>0. act \in [Actors -> Acts] /\ act[p] \in Acts /\ Stage(act[p]) /\ Careful(act[p])
  BY DEF TypeOK, Stages
<1>i. ASSUME act'[p] = Idle
      PROVE  Restoring(p)'
  BY <1>i, IdleFacts DEF Restoring
<1>1. CASE BackupStep(p) /\ ~EndBackup(p)
  <2>1. /\ act[p].pc \in BackupPCs \ {"bend"} /\ act'[p].pc \in BackupPCs
        /\ ~act'[p].ok => (act'[p].pc = "bend" /\ act'[p].hit) \/ ~act[p].ok
    BY <1>1, BackupMoves
  <2>2. act[p].ok
    BY <1>0, <2>1 DEF Careful, BackupPCs
  <2>. QED
    BY <2>1, <2>2 DEF Restoring, BackupPCs
<1>2. CASE EndBackup(p)
  <2>1. CASE act'[p] = Idle
    BY <1>i, <2>1
  <2>2. CASE act'[p] # Idle
    <3>1. /\ act[p].pc = "bend" /\ act[p].op # "backup" /\ act'[p].pc = IF act[p].ok THEN "unpack" ELSE "rend"
          /\ act'[p].ok = act[p].ok /\ act'[p].hit = act[p].hit
      BY <1>2, <2>2, EndBackupMoves
    <3>2. act[p].op = "restore"
      BY <1>0, <3>1, StageFacts DEF BackupPCs
    <3>3. ~act[p].ok => act[p].hit
      BY <3>1, <3>2 DEF Restoring
    <3>. QED
      BY <3>1, <3>3 DEF Restoring
  <2>. QED
    BY <2>1, <2>2
<1>3. CASE DrillStep(p)
  <2>1. act'[p] = Idle \/ act'[p].pc \in DrillPCs
    BY <1>3, DrillMoves
  <2>2. CASE act'[p].pc \in DrillPCs
    BY <2>2 DEF Restoring, DrillPCs
  <2>. QED
    BY <1>i, <2>1, <2>2
<1>4. CASE StepFails(p)
  <2>1. /\ act'[p].pc = AfterFailure(act[p].pc) /\ act'[p].ok = FALSE /\ act'[p].hit = TRUE
        /\ act[p].pc \in PCs \ Ends
    BY <1>0, <1>4, FailsFacts DEF StepFails, Acts
  <2>2. act'[p].pc \in {"bend", "rend", "dropdb", "dend"}
    BY <2>1, AfterFailureType
  <2>. QED
    BY <2>1, <2>2 DEF Restoring
<1>5. CASE Crash(p)
  BY <1>0, <1>5, <1>i, MovesIdle DEF Crash
<1>. QED
  BY <1>1, <1>2, <1>3, <1>4, <1>5 DEF ProcessStep, Step

\* The steps with which a restore replaces the data, one after the other.
LEMMA RestoringOwn ==
    ASSUME TypeOK, Stages, Counted, OfBorn, [Next]_vars,
           NEW p \in Actors, Restoring(p), RestoreStep(p)
    PROVE  Restoring(p)'
<1>. USE DEF At
<1>0. act \in [Actors -> Acts] /\ act[p] \in Acts /\ Stage(act[p]) /\ Careful(act[p])
  BY DEF TypeOK, Stages
<1>b. backend' = backend /\ backend \in {"local", "s3"}
  BY StatusMoves, BackupsAssumption DEF TypeOK
<1>. DEFINE x == act[p]
<1>r. act[p].pc \in RestorePCs
  BY RestoreMoves DEF RestorePCs, Window
<1>t. /\ act[p].op = "restore" /\ act[p].of[2] \in Runs
      /\ Target(p).objs \in SUBSET Atts
  BY <1>r, TargetType
<1>m. made'[act[p].of[2]] = made[act[p].of[2]]
  BY <1>t, MadeKept DEF OfBorn
<1>k. ASSUME act'[p].of = act[p].of
      PROVE  Target(p)' = Target(p) /\ (Good(act[p].of[2])' <=> Good(act[p].of[2]))
  BY <1>k, <1>m DEF Target, Good
<1>f. ASSUME Fails(p), act[p].pc \notin Ends
      PROVE  Restoring(p)'
  <2>1. /\ act'[p].pc = AfterFailure(act[p].pc) /\ act'[p].ok = FALSE /\ act'[p].hit = TRUE
        /\ act[p].pc \in PCs \ Ends
    BY <1>0, <1>f, FailsFacts DEF Acts
  <2>2. act'[p].pc \in {"bend", "rend", "dropdb", "dend"}
    BY <2>1, AfterFailureType
  <2>. QED
    BY <2>1, <2>2 DEF Restoring
<1>g. ASSUME NEW pc \in PCs, Goto(p, pc)
      PROVE  /\ act'[p].pc = pc /\ act'[p].op = act[p].op /\ act'[p].of = act[p].of
             /\ act'[p].todo = act[p].todo /\ act'[p].ok = act[p].ok /\ act'[p].hit = act[p].hit
             /\ Target(p)' = Target(p) /\ (Good(act[p].of[2])' <=> Good(act[p].of[2]))
  BY <1>0, <1>g, <1>k, GotoFacts
<1>1. CASE Unpack(p)
  <2>1. CASE Goto(p, "stage")
    <3>1. act'[p].pc = "stage"
      BY <1>g, <2>1 DEF PCs
    <3>. QED
      BY <3>1 DEF Restoring
  <2>2. CASE Fails(p)
    BY <1>1, <1>f, <2>2 DEF Unpack, Ends
  <2>. QED
    BY <1>1, <2>1, <2>2 DEF Unpack
<1>2. CASE StageObjects(p)
  <2>. DEFINE pc == IF backend = "local" THEN "swap" ELSE "put"
              t == Staged(p)
              a == [x EXCEPT !.pc = pc, !.todo = t]
  <2>1. act' = [act EXCEPT ![p] = a]
    BY <1>2 DEF StageObjects
  <2>2. t \in SUBSET Atts /\ t = Target(p).objs
    BY <1>t DEF Staged
  <2>3. pc \in {"swap", "put"} /\ (pc = "swap" => backend = "local") /\ (pc = "put" => backend = "s3")
    BY <1>b
  <2>. HIDE DEF pc, t
  <2>4. a \in Acts
    BY <1>0, <2>2, <2>3, ZenonT(60) DEF Acts, PCs, Replacing
  <2>5. OnlyMoves(p) /\ act'[p] = a
    BY <1>0, <2>1, <2>4, Moves
  <2>6. act'[p].pc = pc /\ act'[p].todo = t /\ act'[p].of = act[p].of
    BY <1>0, <2>5 DEF Acts
  <2>7. Target(p)' = Target(p)
    BY <1>k, <2>6
  <2>. QED
    BY <1>b, <2>2, <2>3, <2>6, <2>7 DEF Restoring
<1>3. CASE MoveAway(p)
  <2>. DEFINE a == [x EXCEPT !.objs = objs, !.pc = "publish"]
  <2>0. objs \in SUBSET Atts
    BY DEF TypeOK
  <2>1. a \in Acts
    BY <1>0, <2>0 DEF Acts, PCs, Replacing
  <2>2. OnlyMoves(p) /\ act'[p] = a
    BY <1>0, <1>3, <2>1, Moves DEF MoveAway
  <2>3. act'[p].pc = "publish" /\ act'[p].todo = act[p].todo /\ act'[p].of = act[p].of
    BY <1>0, <2>2 DEF Acts
  <2>4. Target(p)' = Target(p)
    BY <1>k, <2>3
  <2>5. backend = "local" /\ act[p].todo = Target(p).objs
    BY <1>3 DEF MoveAway, Restoring
  <2>. QED
    BY <1>b, <2>3, <2>4, <2>5 DEF Restoring
<1>4. CASE PublishObjects(p)
  <2>. DEFINE a == [x EXCEPT !.todo = {}, !.pc = "remove"]
  <2>1. a \in Acts
    BY <1>0 DEF Acts, PCs, Replacing
  <2>2. OnlyMoves(p) /\ act'[p] = a
    BY <1>0, <1>4, <2>1, Moves DEF PublishObjects
  <2>3. act'[p].pc = "remove" /\ act'[p].of = act[p].of
    BY <1>0, <2>2 DEF Acts
  <2>4. Target(p)' = Target(p)
    BY <1>k, <2>3
  <2>5. backend = "local" /\ objs' = Target(p).objs
    BY <1>4 DEF PublishObjects, Restoring
  <2>. QED
    BY <1>b, <2>3, <2>4, <2>5 DEF Restoring
<1>5. CASE RemovePrevious(p)
  <2>1. act'[p].pc = "clean" /\ Target(p)' = Target(p) /\ objs' = objs
    BY <1>5, <1>g DEF RemovePrevious, PCs, Replacing, data
  <2>2. Target(p).objs \subseteq objs /\ (backend = "local" => objs = Target(p).objs)
    BY <1>5 DEF RemovePrevious, Restoring
  <2>. QED
    BY <1>b, <2>1, <2>2 DEF Restoring
<1>6. CASE PutObject(p)
  <2>0. act[p].pc = "put" /\ backend = "s3" /\ Target(p).objs \subseteq objs \cup act[p].todo
    BY <1>6 DEF PutObject, Restoring
  <2>1. CASE act[p].todo = {} /\ Goto(p, "clean") /\ UNCHANGED objs
    <3>1. act'[p].pc = "clean" /\ Target(p)' = Target(p)
      BY <2>1, <1>g DEF PCs, Replacing
    <3>. QED
      BY <1>b, <2>0, <2>1, <3>1 DEF Restoring
  <2>2. ASSUME NEW o \in act[p].todo, objs' = objs \cup {o}, act' = [act EXCEPT ![p].todo = @ \ {o}]
        PROVE  Restoring(p)'
    <3>. DEFINE a == [x EXCEPT !.todo = @ \ {o}]
    <3>1. a \in Acts
      BY <1>0 DEF Acts
    <3>2. OnlyMoves(p) /\ act'[p] = a
      BY <1>0, <2>2, <3>1, Moves
    <3>3. act'[p].pc = "put" /\ act'[p].of = act[p].of /\ act'[p].todo = act[p].todo \ {o}
      BY <1>0, <2>0, <3>2 DEF Acts
    <3>4. Target(p)' = Target(p)
      BY <1>k, <3>3
    <3>5. Target(p).objs \subseteq objs' \cup act'[p].todo
      BY <2>0, <2>2, <3>3
    <3>. QED
      BY <1>b, <2>0, <3>3, <3>4, <3>5 DEF Restoring
  <2>. QED
    BY <1>6, <2>1, <2>2 DEF PutObject
<1>7. CASE CleanTables(p)
  <2>1. act'[p].pc = "load" /\ Target(p)' = Target(p) /\ objs' = objs
    BY <1>7, <1>g DEF CleanTables, PCs, Replacing
  <2>2. Target(p).objs \subseteq objs /\ (backend = "local" => objs = Target(p).objs)
    BY <1>7 DEF CleanTables, Restoring
  <2>. QED
    BY <1>b, <2>1, <2>2 DEF Restoring
<1>8. CASE LoadTables(p)
  <2>1. act'[p].pc = "check" /\ Target(p)' = Target(p) /\ objs' = objs /\ rows' = Target(p).rows
    BY <1>8, <1>g DEF LoadTables, PCs, Replacing
  <2>2. Target(p).objs \subseteq objs /\ (backend = "local" => objs = Target(p).objs)
    BY <1>8 DEF LoadTables, Restoring
  <2>. QED
    BY <1>b, <2>1, <2>2 DEF Restoring
<1>9. CASE CheckRestored(p)
  <2>0. act[p].pc = "check" /\ rows' = rows /\ objs' = objs
    BY <1>9 DEF CheckRestored, data
  <2>1. rows = Target(p).rows /\ Target(p).objs \subseteq objs /\ (backend = "local" => objs = Target(p).objs)
    BY <2>0 DEF Restoring
  <2>2. CASE Verified(rows, objs, Target(p).objs)
    <3>1. Goto(p, "rend")
      BY <1>9, <2>2 DEF CheckRestored
    <3>2. act'[p].pc = "rend" /\ act'[p].ok = act[p].ok /\ Target(p)' = Target(p)
      BY <1>g, <3>1 DEF PCs, Ends
    <3>3. act[p].ok
      BY <1>0, <2>0 DEF Careful
    <3>4. Named(rows) \subseteq objs
      BY <2>2 DEF Verified
    <3>5. Named(rows)' = Named(rows)
      BY <2>0 DEF Named
    <3>. QED
      BY <1>b, <2>0, <2>1, <3>2, <3>3, <3>4, <3>5 DEF Restoring
  <2>3. CASE ~Verified(rows, objs, Target(p).objs)
    <3>. DEFINE a == [x EXCEPT !.pc = "rend", !.ok = FALSE]
    <3>1. a \in Acts
      BY <1>0 DEF Acts, PCs, Ends
    <3>2. OnlyMoves(p) /\ act'[p] = a
      BY <1>0, <1>9, <2>3, <3>1, Moves DEF CheckRestored
    <3>3. act'[p].pc = "rend" /\ act'[p].of = act[p].of /\ act'[p].ok = FALSE
      BY <1>0, <3>2 DEF Acts
    <3>4. ~Good(act[p].of[2])
      BY <2>1, <2>3 DEF Good, Verified, Target
    <3>5. ~Good(act[p].of[2])'
      BY <1>k, <3>3, <3>4
    <3>. QED
      BY <3>3, <3>5 DEF Restoring
  <2>. QED
    BY <2>2, <2>3
<1>10. CASE EndRestore(p)
  <2>1. act'[p] = Idle
    BY <1>0, <1>10, MovesIdle DEF EndRestore
  <2>. QED
    BY <2>1, IdleFacts DEF Restoring
<1>. QED
  BY <1>1, <1>2, <1>3, <1>4, <1>5, <1>6, <1>7, <1>8, <1>9, <1>10 DEF RestoreStep

\* Every step keeps what a restore has replaced so far.
LEMMA RestoringStep ==
    ASSUME TypeOK, Stages, Counted, OfBorn, ByOperators, OneOperator, [Next]_vars,
           NEW p \in Actors, Restoring(p)
    PROVE  Restoring(p)'
<1>1. CASE ProcessStep(p)
  BY <1>1, RestoringOwn, RestoringBefore
<1>2. CASE ~ProcessStep(p) /\ act'[p] = act[p]
  BY <1>2, RestoringOther
<1>3. CASE RunBackup(p) \/ RestoreBundle(p)
  <2>1. act'[p].pc = "dump"
    BY <1>3, BeginFacts DEF Begins
  <2>. QED
    BY <2>1 DEF Restoring
<1>4. CASE RunDrill(p)
  <2>1. act'[p].pc = "find"
    BY <1>4, RunDrillMoves
  <2>. QED
    BY <2>1 DEF Restoring
<1>. QED
  BY <1>1, <1>2, <1>3, <1>4, WhoMoved

\* With S3 nothing is taken from the store.
LEMMA ObjectsStayStep ==
    ASSUME TypeOK, ObjectsStay, \A p \in Actors : Restoring(p), [Next]_vars
    PROVE  ObjectsStay'
<1>. SUFFICES ASSUME backend = "s3"
              PROVE  before'.objs \subseteq objs'
  BY StatusMoves DEF ObjectsStay
<1>0. before.objs \subseteq objs
  BY DEF ObjectsStay
<1>1. ASSUME NEW a \in Atts, AppStep(a)
      PROVE  before'.objs \subseteq objs'
  BY <1>1 DEF AppStep, NoData
<1>2. ASSUME NEW p \in Actors, StageObjects(p)
      PROVE  before'.objs \subseteq objs'
  BY <1>2 DEF StageObjects, data
<1>3. ASSUME NEW p \in Actors, ProcessStep(p), ~StageObjects(p)
      PROVE  before' = before /\ objs \subseteq objs'
  <2>0. act[p].pc \notin {"swap", "publish"}
    BY SMTT(30) DEF Restoring
  <2>1. CASE BackupStep(p)
    BY <2>1 DEF data, BackupStep, Dump, ListObjects, CopyObject, ObjectsCopied, WritePayload,
       WriteManifest, Replicate, CopyPayloads, PublishReplica, ListBundles, DeleteBundle, EndBackup
  <2>2. CASE RestoreStep(p)
    BY <1>3, <2>0, <2>2, SMTT(30) DEF data, RestoreStep, Unpack, MoveAway, PublishObjects, RemovePrevious,
       PutObject, CleanTables, LoadTables, CheckRestored, EndRestore, At
  <2>3. CASE DrillStep(p) \/ Crash(p)
    BY <2>3 DEF data, DrillStep, FindLatest, OpenBundle, CreateDatabase, Replay, DropDatabase,
       EndDrill, Crash
  <2>4. CASE StepFails(p)
    BY <2>0, <2>4 DEF StepFails, PutBack
  <2>. QED
    BY <1>3, <2>1, <2>2, <2>3, <2>4 DEF ProcessStep, Step
<1>4. ASSUME NEW p \in Actors, RunDrill(p) \/ RunBackup(p) \/ RestoreBundle(p)
      PROVE  before' = before /\ objs' = objs
  BY <1>4 DEF RunDrill, RunBackup, RestoreBundle, data
<1>5. CASE UNCHANGED vars
  BY <1>0, <1>5 DEF vars, data
<1>. QED
  BY <1>0, <1>1, <1>2, <1>3, <1>4, <1>5, Kinds

\* A restore begins to replace the data when it has staged the objects.
LEMMA Enters ==
    ASSUME TypeOK, Stages, [Next]_vars, NEW p \in Actors, act'[p].pc \in Replacing, act[p].pc \notin Replacing
    PROVE  StageObjects(p)
<1>0. act \in [Actors -> Acts] /\ act[p] \in Acts
  BY DEF TypeOK
<1>r. act'[p].pc \notin BackupPCs \cup DrillPCs \cup {"idle", "unpack", "stage", "rend", "dump", "find"}
  BY DEF Replacing, BackupPCs, DrillPCs
<1>i. act'[p] # Idle
  BY <1>r, IdleFacts
<1>1. CASE BackupStep(p)
  <2>1. act'[p].pc \in BackupPCs \cup {"unpack", "rend"}
    BY <1>1, <1>i, BackupMoves, EndBackupMoves
  <2>. QED
    BY <1>r, <2>1
<1>2. CASE DrillStep(p)
  BY <1>2, <1>r, <1>i, DrillMoves
<1>3. CASE Unpack(p)
  <2>1. CASE Goto(p, "stage")
    BY <1>0, <1>r, <2>1, GotoFacts, ZenonT(60) DEF PCs
  <2>2. CASE Fails(p)
    <3>1. act[p].pc \notin Ends
      BY <1>3 DEF Unpack, At, Ends
    <3>2. act'[p].pc = AfterFailure(act[p].pc) /\ act[p].pc \in PCs \ Ends
      BY <1>0, <2>2, <3>1, FailsFacts DEF Acts
    <3>. QED
      BY <1>r, <3>2, AfterFailureType DEF BackupPCs, DrillPCs
  <2>. QED
    BY <1>3, <2>1, <2>2 DEF Unpack
<1>4. CASE RestoreStep(p) /\ ~Unpack(p)
  <2>1. CASE EndRestore(p)
    BY <1>0, <1>i, <2>1, MovesIdle DEF EndRestore
  <2>. QED
    BY <1>4, <2>1 DEF RestoreStep, MoveAway, PublishObjects, RemovePrevious, PutObject, CleanTables,
       LoadTables, CheckRestored, At, Replacing
<1>5. CASE StepFails(p)
  <2>1. act'[p].pc = AfterFailure(act[p].pc) /\ act[p].pc \in PCs \ Ends
    BY <1>0, <1>5, FailsFacts DEF StepFails, Acts
  <2>. QED
    BY <1>r, <2>1, AfterFailureType DEF BackupPCs, DrillPCs
<1>6. CASE Crash(p)
  BY <1>0, <1>i, <1>6, MovesIdle DEF Crash
<1>7. CASE RunBackup(p) \/ RestoreBundle(p)
  BY <1>r, <1>7, BeginFacts DEF Begins
<1>8. CASE RunDrill(p)
  BY <1>r, <1>8, RunDrillMoves
<1>9. act'[p] # act[p]
  OBVIOUS
<1>. QED
  BY <1>1, <1>2, <1>3, <1>4, <1>5, <1>6, <1>7, <1>8, <1>9, WhoMoved DEF ProcessStep, Step

\* The status file of a restore, when the restore ends.
LEMMA RestoredNow ==
    ASSUME TypeOK, Stages, Counted, OfBorn, ByOperators, OneOperator, [Next]_vars,
           NEW p \in Actors, Restoring(p), EndRestore(p)
    PROVE  RestoredInv'
<1>0. act \in [Actors -> Acts] /\ act[p].pc = "rend"
  BY DEF TypeOK, EndRestore, At
<1>1. act[p].op = "restore" /\ act[p].of[2] \in Runs
  BY <1>0, TargetType DEF RestorePCs, Window
<1>r. PICK r \in Runs : r = act[p].of[2]
  BY <1>1
<1>2. Born("local", r) /\ Born("local", r)' /\ made'[r] = made[r] /\ (Good(r)' <=> Good(r))
  BY <1>1, <1>r, BornKept, GoodKept DEF OfBorn, Places
<1>3. /\ restore'.run = r /\ restore'.hit = act[p].hit
      /\ restore'.outcome = "success" <=> act[p].ok
  BY <1>r DEF EndRestore
<1>4. \A q \in Actors : act'[q].pc \notin Replacing
  <2>. SUFFICES ASSUME NEW q \in Actors, act'[q].pc \in Replacing
                PROVE  FALSE
    OBVIOUS
  <2>1. OnlyMoves(p) /\ act'[p] = Idle
    BY <1>0, MovesIdle DEF EndRestore
  <2>2. q # p
    BY <2>1, IdleFacts DEF Replacing
  <2>3. act[q].pc \in Window /\ act[p].pc \in Window
    BY <1>0, <2>1, <2>2 DEF OnlyMoves, Window
  <2>. QED
    BY <2>2, <2>3, AloneInWindow
<1>5. backend' = backend /\ rows' = rows /\ objs' = objs
  BY DEF EndRestore, data
<1>6. act[p].ok => /\ rows = made[r].rows
                   /\ Named(rows) \subseteq objs
                   /\ backend = "local" => objs = made[r].objs
  BY <1>0, <1>r DEF Restoring, Target
<1>7. ~act[p].hit /\ Good(r) => act[p].ok
  BY <1>0, <1>r DEF Restoring
<1>8. Named(rows)' = Named(rows)
  BY <1>5 DEF Named
<1>9. restore'.run # None => Born("local", restore.run)'
  BY <1>2, <1>3 DEF Born
<1>10. ~restore'.hit /\ Good(restore.run)' => restore'.outcome = "success"
  BY <1>2, <1>3, <1>7 DEF Good
<1>11. restore'.outcome = "success" =>
           /\ rows' = made'[restore'.run].rows
           /\ Named(rows)' \subseteq objs'
           /\ backend' = "local" => objs' = made'[restore'.run].objs
  BY <1>2, <1>3, <1>5, <1>6, <1>8
<1>. QED
  BY <1>1, <1>3, <1>4, <1>9, <1>10, <1>11 DEF RestoredInv

\* The status file of a restore stays true: what it says of the bundle for
\* ever, what it says of the data until somebody writes them.
LEMMA RestoredStep ==
    ASSUME TypeOK, Stages, Counted, OfBorn, ByOperators, OneOperator, RestoredInv, [Next]_vars,
           \A p \in Actors : Restoring(p)
    PROVE  RestoredInv'
<1>0. restore \in [outcome : Outcomes, run : Runs \cup {None}, hit : BOOLEAN, fresh : BOOLEAN]
  BY DEF TypeOK
<1>1. CASE \E p \in Actors : EndRestore(p)
  BY <1>1, RestoredNow
<1>2. CASE ~\E p \in Actors : EndRestore(p)
  <2>1. /\ restore'.run = restore.run /\ restore'.hit = restore.hit /\ restore'.outcome = restore.outcome
        /\ restore'.fresh => restore.fresh
    BY <1>0, <1>2, StatusMoves
  <2>2. restore.run # None => restore.run \in Runs /\ Born("local", restore.run)
    BY <1>0 DEF RestoredInv
  <2>3. restore.run # None => /\ Born("local", restore.run)'
                              /\ made'[restore.run] = made[restore.run]
    <3>1. ASSUME NEW r \in Runs, Born("local", r)
          PROVE  Born("local", r)' /\ made'[r] = made[r]
      BY <3>1, BornKept, GoodKept DEF Places
    <3>2. ASSUME restore.run # None
          PROVE  /\ Born("local", restore.run)'
                 /\ made'[restore.run] = made[restore.run]
      <4>1. PICK r \in Runs : r = restore.run /\ Born("local", r)
        BY <2>2, <3>2
      <4>2. Born("local", r)' /\ made'[r] = made[r]
        BY <3>1, <4>1
      <4>. QED
        BY <2>1, <4>1, <4>2 DEF Born
    <3>. QED
      BY <3>2
  <2>n. \A r \in Runs : r # None
    BY BackupsAssumption DEF Runs, None
  <2>4. restore'.run \in Runs /\ ~restore'.hit /\ Good(restore.run)' => restore'.outcome = "success"
    BY <2>1, <2>3, <2>n DEF RestoredInv, Good
  <2>5. ASSUME restore'.fresh
        PROVE  /\ restore'.run \in Runs
               /\ \A p \in Actors : act'[p].pc \notin Replacing
               /\ restore'.outcome = "success" =>
                      /\ rows' = made'[restore'.run].rows
                      /\ Named(rows)' \subseteq objs'
                      /\ backend' = "local" => objs' = made'[restore'.run].objs
    <3>1. restore.fresh /\ restore.run \in Runs /\ \A p \in Actors : act[p].pc \notin Replacing
      BY <2>1, <2>5 DEF RestoredInv
    <3>e. [restore EXCEPT !.fresh = FALSE].fresh = FALSE
      BY <1>0
    <3>2. (\A a \in Atts : ~AppStep(a)) /\ (\A p \in Actors : ~StageObjects(p))
      BY <2>5, <3>e DEF AppStep, StageObjects
    <3>3. rows' = rows /\ objs' = objs
      BY <3>1, <3>2, DataMoves DEF data
    <3>4. \A p \in Actors : act'[p].pc \notin Replacing
      BY <3>1, <3>2, Enters
    <3>5. backend' = backend /\ Named(rows)' = Named(rows)
      BY <3>3, StatusMoves DEF Named
    <3>6. made'[restore.run] = made[restore.run]
      BY <2>3, <2>n, <3>1
    <3>7. restore.outcome = "success" =>
              /\ rows = made[restore.run].rows
              /\ Named(rows) \subseteq objs
              /\ backend = "local" => objs = made[restore.run].objs
      BY <3>1 DEF RestoredInv
    <3>. QED
      BY <2>1, <3>1, <3>3, <3>4, <3>5, <3>6, <3>7
  <2>6. restore'.run # None => Born("local", restore.run)'
    BY <2>1, <2>3
  <2>. QED
    BY <2>4, <2>5, <2>6 DEF RestoredInv
<1>. QED
  BY <1>1, <1>2

\* Every step keeps the data in order.
LEMMA DataStep == OneOperator /\ BundleInv /\ DataInv /\ [Next]_vars => DataInv'
<1>. SUFFICES ASSUME OneOperator, BundleInv, DataInv, [Next]_vars
              PROVE  DataInv'
  OBVIOUS
<1>0. TypeOK /\ Stages /\ Counted /\ Unborn
  BY DEF BundleInv
<1>1. OfBorn /\ DrillInv /\ ByOperators /\ ObjectsStay /\ RestoredInv /\ \A p \in Actors : Restoring(p)
  BY DEF DataInv
<1>2. OfBorn' /\ ByOperators'
  BY <1>0, <1>1, OfBornStep, ByOperatorsStep
<1>3. DrillInv'
  BY <1>0, <1>1, DrillInvStep
<1>4. ObjectsStay'
  BY <1>0, <1>1, ObjectsStayStep
<1>5. RestoredInv'
  BY <1>0, <1>1, RestoredStep
<1>6. \A p \in Actors : Restoring(p)'
  BY <1>0, <1>1, RestoringStep
<1>. QED
  BY <1>2, <1>3, <1>4, <1>5, <1>6 DEF DataInv

\* Nothing has been restored or drilled.
LEMMA InitData == Init => DataInv
<1>. SUFFICES ASSUME Init
              PROVE  DataInv
  OBVIOUS
<1>0. \A p \in Actors : act[p] = Idle
  BY DEF Init
<1>1. OfBorn /\ ByOperators
  BY <1>0, IdleFacts DEF OfBorn, ByOperators
<1>2. DrillInv
  BY <1>0, IdleFacts DEF DrillInv, Init
<1>3. ObjectsStay
  BY DEF ObjectsStay, Init, NoData
<1>4. RestoredInv
  <2>1. None \notin Runs
    BY BackupsAssumption DEF Runs, None
  <2>. QED
    BY <2>1 DEF RestoredInv, Init
<1>5. \A p \in Actors : Restoring(p)
  BY <1>0, IdleFacts DEF Restoring
<1>. QED
  BY <1>1, <1>2, <1>3, <1>4, <1>5 DEF DataInv

\* The inductive invariant of the data: what a restore has replaced at each
\* of its steps, and what the status files say, for one operator and any
\* number of workers.
THEOREM DataInvariance == Spec => [](OneOperator => DataInv)
<1>1. Init => (OneOperator => DataInv)
  BY InitData
<1>2. BundleInv /\ (OneOperator => DataInv) /\ [Next]_vars => (OneOperator => DataInv)'
  <2>1. OneOperator' <=> OneOperator
    BY DEF OneOperator
  <2>. QED
    BY <2>1, DataStep
<1>. QED
  BY <1>1, <1>2, BundleInvariance, PTL DEF Spec

\* run_recovery_drill predicts restore_backup_bundle: what the drill replayed
\* from the offsite root is what a restore later loads, so a restore of that
\* run is not refused by verify_restored_state in the end.
THEOREM DrillsPredict == Spec => [](OneOperator => DrillPredicts)
<1>1. DataInv => DrillPredicts
  <2>. SUFFICES ASSUME DataInv, drill.outcome = "success", restore.run = drill.run, ~restore.hit
                PROVE  restore.outcome = "success"
    BY DEF DrillPredicts
  <2>1. drill.run \in Runs /\ Good(drill.run)
    BY DEF DataInv, DrillInv
  <2>. QED
    BY <2>1 DEF DataInv, RestoredInv
<1>. QED
  BY <1>1, DataInvariance, PTL

\* restore_backup_bundle reports success only when the rows are the bundle's
\* and every attachment they name has its object, though other processes
\* back up, delete bundles and are killed meanwhile; and the S3 restore takes
\* no object away.
THEOREM RestoresAreHonest == Spec => [](OneOperator => RestoreHonest)
<1>1. DataInv => RestoreHonest
  <2>. SUFFICES ASSUME DataInv
                PROVE  RestoreHonest
    OBVIOUS
  <2>1. restore.fresh /\ restore.outcome = "success" =>
            /\ rows = made[restore.run].rows
            /\ Named(rows) \subseteq objs
            /\ backend = "local" => objs = made[restore.run].objs
    BY DEF DataInv, RestoredInv
  <2>2. backend = "s3" => OldRowsKeepObjects
    BY DEF DataInv, ObjectsStay, OldRowsKeepObjects
  <2>. QED
    BY <2>1, <2>2 DEF RestoreHonest
<1>. QED
  BY <1>1, DataInvariance, PTL
=============================================================================
