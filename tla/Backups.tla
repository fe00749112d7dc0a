------------------------------ MODULE Backups -------------------------------
(***************************************************************************)
(* Backup runs, recovery drills and restores of the server.                *)
(*                                                                         *)
(* A worker process runs the scheduled backups and drills and an operator  *)
(* restores a bundle, side by side and without a lock, while the           *)
(* application adds and deletes attachments.  What they share is on disk:  *)
(* the bundles in BACKUP_DIR and BACKUP_OFFSITE_DIR, the status files, the *)
(* database and the object store.  A step may fail, and a process may be   *)
(* killed between two steps.                                               *)
(*                                                                         *)
(* A bundle directory is the set of what it holds: its payload and its     *)
(* manifest.  What a run put in a bundle is made[run].                     *)
(***************************************************************************)
EXTENDS Integers, FiniteSets

CONSTANTS
    Workers,   \* processes that run the scheduled backups and drills
    Operators, \* people who restore bundles from the command line
    Atts,      \* attachments
    Keep,      \* BACKUP_KEEP
    Backends,  \* object store backends: "local", "s3"
    MaxRuns,   \* bound: backup runs
    MaxJobs,   \* bound: scheduled backups and drills
    MaxWrites, \* bound: steps of the application
    MaxFaults  \* bound: failing steps and killed processes

ASSUME BackupsAssumption ==
    /\ IsFiniteSet(Workers) /\ IsFiniteSet(Operators)
    /\ Keep \in Nat \ {0}
    /\ Backends \subseteq {"local", "s3"}
    /\ MaxRuns \in Nat \ {0}
    /\ {MaxJobs, MaxWrites, MaxFaults} \subseteq Nat

Actors == Workers \cup Operators
Runs == 1 .. MaxRuns
None == 0

VARIABLES
    backend, \* OBJECT_STORE_BACKEND
    rows,    \* the attachments table
    objs,    \* the objects in the store
    dir,     \* dir[place][run]: what the bundle directory holds
    made,    \* made[run]: what the run bundled, and created_at
    runs,    \* backup runs begun
    stamps,  \* manifests written
    act,     \* what each process is at
    status,  \* status.json
    drill,   \* recovery-drill-status.json
    restore, \* restore-status.json
    before,  \* history: the data when the last restore began to replace them, if
             \* the application has not changed them since
    jobs, writes, faults

data == <<rows, objs>>
bundles == <<dir, made, runs, stamps>>
statuses == <<status, drill, restore>>
vars == <<backend, data, bundles, act, statuses, before, jobs, writes, faults>>

\* A replica is staged in the offsite root itself.
Places == {"local", "offsite", "staging"}
Roots == [local |-> {"local"}, offsite |-> {"offsite", "staging"}]

NoRows == [a \in Atts |-> "none"]
NoData == [rows |-> NoRows, objs |-> {}]
Nothing == [rows |-> NoRows, objs |-> {}, at |-> 0]
Idle == [op |-> "none", pc |-> "idle", run |-> None, of |-> <<"local", None>>, rows |-> NoRows,
         objs |-> {}, todo |-> {}, drop |-> {}, ok |-> TRUE, hit |-> FALSE]

\* The first scheduled run is over.
Init ==
    /\ backend \in Backends
    /\ rows \in [Atts -> {"none", "ready"}]
    /\ objs = {a \in Atts : rows[a] = "ready"}
    /\ dir = [pl \in Places |-> [r \in Runs |-> IF r = 1 /\ pl # "staging" THEN {"payload", "manifest"} ELSE {}]]
    /\ made = [r \in Runs |-> IF r = 1 THEN [rows |-> rows, objs |-> objs, at |-> 1] ELSE Nothing]
    /\ runs = 1
    /\ stamps = 1
    /\ act = [p \in Actors |-> Idle]
    /\ status = [outcome |-> "success", run |-> 1]
    /\ drill = [outcome |-> "none", run |-> None, hit |-> FALSE]
    /\ restore = [outcome |-> "none", run |-> None, hit |-> FALSE, fresh |-> FALSE]
    /\ before = NoData
    /\ jobs = 0 /\ writes = 0 /\ faults = 0

At(p, pc) == act[p].pc = pc
Goto(p, pc) == act' = [act EXCEPT ![p].pc = pc]

-----------------------------------------------------------------------------
(***************************************************************************)
(* The application, one statement at a time: an attachment is created,     *)
(* uploaded and completed, and deleted object first.  A restore replaces   *)
(* the data in the change window its operator confirms, in which the       *)
(* application does not write.                                             *)
(***************************************************************************)
Replacing == {"swap", "publish", "remove", "put", "clean", "load", "check"}
Window == Replacing \cup {"rend"}

AppStep(a) ==
    /\ writes < MaxWrites
    /\ writes' = writes + 1
    /\ \A p \in Actors : act[p].pc \notin Window
    /\ \/ rows[a] = "none" /\ rows' = [rows EXCEPT ![a] = "pending"] /\ UNCHANGED objs
       \/ rows[a] = "pending" /\ a \notin objs /\ objs' = objs \cup {a} /\ UNCHANGED rows
       \/ rows[a] = "pending" /\ a \in objs /\ rows' = [rows EXCEPT ![a] = "ready"] /\ UNCHANGED objs
       \/ rows[a] = "ready" /\ a \in objs /\ objs' = objs \ {a} /\ UNCHANGED rows
       \/ rows[a] = "ready" /\ a \notin objs /\ rows' = [rows EXCEPT ![a] = "none"] /\ UNCHANGED objs
    /\ restore' = [restore EXCEPT !.fresh = FALSE]
    /\ before' = NoData
    /\ UNCHANGED <<backend, bundles, act, status, drill, jobs, faults>>

-----------------------------------------------------------------------------
(***************************************************************************)
(* Bundles                                                                 *)
(***************************************************************************)
\* read_manifest succeeds; every payload file has the size and the hash
\* the manifest gives it.
HasManifest(pl, r) == "manifest" \in dir[pl][r]
Intact(pl, r) == "payload" \in dir[pl][r]
Whole(pl, r) == HasManifest(pl, r) /\ Intact(pl, r)

\* resolve_backup_password finds a password with which the bundle verifies.
Opens(d) == Whole(d[1], d[2])

\* What cleanup_backup_bundles and find_latest_backup_bundle take for a
\* bundle: a directory whose manifest can be read.
Listed(root) == {d \in Roots[root] \X Runs : HasManifest(d[1], d[2])}

\* Newest first: by created_at, then by path.
NewerThan(d, e) ==
    \/ made[d[2]].at > made[e[2]].at
    \/ made[d[2]].at = made[e[2]].at /\ d[1] = "offsite" /\ e[1] = "staging"

\* Mutant: the cleanup keeps the oldest bundles.
OldestKept(root) == {d \in Listed(root) :
    Cardinality({e \in Listed(root) : NewerThan(d, e)}) >= Keep}

\* What lies beyond the Keep newest.
Surplus(root) == {d \in Listed(root) :
    Cardinality({e \in Listed(root) : NewerThan(e, d)}) >= Keep}

\* Mutant: a failing step ends the process.
Unhandled(pc) == "panic"

\* What a failed step leads to.
AfterFailure(pc) ==
    CASE pc = "replay" -> "dropdb"
      [] pc \in {"find", "open", "createdb", "dropdb"} -> "dend"
      [] pc \in {"unpack", "stage"} \cup Replacing -> "rend"
      [] OTHER -> "bend"

Fails(p) == act' = [act EXCEPT ![p].pc = AfterFailure(@), ![p].ok = FALSE, ![p].hit = TRUE]

-----------------------------------------------------------------------------
(***************************************************************************)
(* run_backup                                                              *)
(***************************************************************************)
\* A restore begins with a backup of its own.
BeginRun(p, op, of) ==
    /\ runs < MaxRuns
    /\ runs' = runs + 1
    /\ act' = [act EXCEPT ![p] = [Idle EXCEPT !.op = op, !.pc = "dump", !.run = runs + 1, !.of = of]]

RunBackup(p) ==
    /\ act[p] = Idle
    /\ jobs < MaxJobs
    /\ jobs' = jobs + 1
    /\ BeginRun(p, "backup", <<"local", None>>)
    /\ UNCHANGED <<backend, data, dir, made, stamps, statuses, before, writes, faults>>

\* run_pg_dump
Dump(p) ==
    /\ At(p, "dump")
    /\ act' = [act EXCEPT ![p].rows = rows, ![p].pc = "list"]
    /\ UNCHANGED <<backend, data, bundles, statuses, before, jobs, writes, faults>>

\* backup_object_store: the keys are listed, then copied one by one.
ListObjects(p) ==
    /\ At(p, "list")
    /\ act' = [act EXCEPT ![p].todo = objs, ![p].pc = "copy"]
    /\ UNCHANGED <<backend, data, bundles, statuses, before, jobs, writes, faults>>

CopyObject(p) ==
    /\ At(p, "copy")
    /\ \E a \in act[p].todo :
           IF a \in objs
           THEN act' = [act EXCEPT ![p].todo = @ \ {a}, ![p].objs = @ \cup {a}]
           ELSE Fails(p)
    /\ UNCHANGED <<backend, data, bundles, statuses, before, jobs, writes, faults>>

\* The manifest of the objects is written.
ObjectsCopied(p) ==
    /\ At(p, "copy")
    /\ act[p].todo = {}
    /\ Goto(p, "payload")
    /\ UNCHANGED <<backend, data, bundles, statuses, before, jobs, writes, faults>>

\* Mutant: the manifest is written before the payloads.
PayloadLast(pc) == IF pc = "payload" THEN {"manifest"} ELSE {"payload", "manifest"}

\* create_backup_bundle: the payloads, then the manifest.
Written(pc) == IF pc = "payload" THEN {"payload"} ELSE {"payload", "manifest"}

WritePayload(p) ==
    /\ At(p, "payload")
    /\ dir' = [dir EXCEPT !["local"][act[p].run] = Written("payload")]
    /\ made' = [made EXCEPT ![act[p].run] = [rows |-> act[p].rows, objs |-> act[p].objs, at |-> stamps + 1]]
    /\ Goto(p, "manifest")
    /\ UNCHANGED <<backend, data, runs, stamps, statuses, before, jobs, writes, faults>>

\* created_at is the time the manifest is written.
WriteManifest(p) ==
    /\ At(p, "manifest")
    /\ dir' = [dir EXCEPT !["local"][act[p].run] = Written("manifest")]
    /\ made' = [made EXCEPT ![act[p].run].at = stamps + 1]
    /\ stamps' = stamps + 1
    /\ Goto(p, "replicate")
    /\ UNCHANGED <<backend, data, runs, statuses, before, jobs, writes, faults>>

\* verify_backup_bundle, which replicate_backup_bundle calls again before
\* it copies the manifest and then the payloads to its staging directory.
Sound(p) == Whole("local", act[p].run)

Replicate(p) ==
    /\ At(p, "replicate")
    /\ IF Sound(p)
       THEN /\ dir' = [dir EXCEPT !["staging"][act[p].run] = {"manifest"}]
            /\ Goto(p, "replica")
       ELSE Fails(p) /\ UNCHANGED dir
    /\ UNCHANGED <<backend, data, made, runs, stamps, statuses, before, jobs, writes, faults>>

CopyPayloads(p) ==
    /\ At(p, "replica")
    /\ LET r == act[p].run
       IN  IF Intact("local", r) /\ HasManifest("staging", r)
           THEN /\ dir' = [dir EXCEPT !["staging"][r] = {"payload", "manifest"}]
                /\ Goto(p, "rename")
           ELSE /\ dir' = [dir EXCEPT !["staging"][r] = {}]
                /\ Fails(p)
    /\ UNCHANGED <<backend, data, made, runs, stamps, statuses, before, jobs, writes, faults>>

\* The replica is verified and renamed.
PublishReplica(p) ==
    /\ At(p, "rename")
    /\ LET r == act[p].run
       IN  IF Whole("staging", r)
           THEN /\ dir' = [dir EXCEPT !["staging"][r] = {}, !["offsite"][r] = dir["staging"][r]]
                /\ Goto(p, "offlist")
           ELSE /\ dir' = [dir EXCEPT !["staging"][r] = {}]
                /\ Fails(p)
    /\ UNCHANGED <<backend, data, made, runs, stamps, statuses, before, jobs, writes, faults>>

\* cleanup_backup_bundles, first offsite and then local: the directories
\* are listed, and the surplus is deleted one by one.
Cleaned(pc) == IF pc \in {"offlist", "offdel"} THEN "loclist" ELSE "bend"

ListBundles(p) ==
    /\ act[p].pc \in {"offlist", "loclist"}
    /\ LET old == Surplus(IF act[p].pc = "offlist" THEN "offsite" ELSE "local")
       IN  act' = [act EXCEPT ![p].drop = old,
                              ![p].pc = IF old = {} THEN Cleaned(@)
                                        ELSE IF @ = "offlist" THEN "offdel" ELSE "locdel"]
    /\ UNCHANGED <<backend, data, bundles, statuses, before, jobs, writes, faults>>

\* remove_dir_all takes away the files in any order and then the directory.
\* It fails when another run was faster.
DeleteBundle(p) ==
    /\ act[p].pc \in {"offdel", "locdel"}
    /\ \E d \in act[p].drop :
           LET held == dir[d[1]][d[2]]
           IN  IF held = {}
               THEN Fails(p) /\ UNCHANGED dir
               ELSE \E rest \in SUBSET held :
                        /\ rest # held
                        /\ dir' = [dir EXCEPT ![d[1]][d[2]] = rest]
                        /\ LET left == IF rest = {} THEN act[p].drop \ {d} ELSE act[p].drop
                           IN  act' = [act EXCEPT ![p].drop = left,
                                                  ![p].pc = IF left = {} THEN Cleaned(@) ELSE @]
    /\ UNCHANGED <<backend, data, made, runs, stamps, statuses, before, jobs, writes, faults>>

\* Mutant: a restore goes on without its safety backup.
GoOnRegardless(ok) == TRUE

\* The end of run_backup.  restore_backup_bundle goes on when the backup
\* succeeded.
SafetyDone(ok) == ok

EndBackup(p) ==
    /\ At(p, "bend")
    /\ status' = [outcome |-> IF act[p].ok THEN "success" ELSE "failed", run |-> act[p].run]
    /\ act' = [act EXCEPT ![p] = IF act[p].op = "backup" THEN Idle
                                 ELSE [@ EXCEPT !.pc = IF SafetyDone(act[p].ok) THEN "unpack" ELSE "rend"]]
    /\ UNCHANGED <<backend, data, bundles, drill, restore, before, jobs, writes, faults>>

-----------------------------------------------------------------------------
(***************************************************************************)
(* restore_backup_bundle                                                   *)
(***************************************************************************)
RestoreBundle(p) ==
    /\ act[p] = Idle
    /\ \E pl \in {"local", "offsite"}, r \in Runs :
           /\ Opens(<<pl, r>>)
           /\ BeginRun(p, "restore", <<pl, r>>)
    /\ UNCHANGED <<backend, data, dir, made, stamps, statuses, before, jobs, writes, faults>>

Target(p) == made[act[p].of[2]]

\* unpack_backup_bundle
Unpack(p) ==
    /\ At(p, "unpack")
    /\ IF Whole(act[p].of[1], act[p].of[2]) THEN Goto(p, "stage") ELSE Fails(p)
    /\ UNCHANGED <<backend, data, bundles, statuses, before, jobs, writes, faults>>

\* Mutant: the objects of the store are restored instead of the bundle's.
Current(p) == objs

\* restore_object_store copies the objects to a staging directory and swaps
\* it with the store; restore_s3_object_store puts them one by one.
Staged(p) == Target(p).objs

StageObjects(p) ==
    /\ At(p, "stage")
    /\ act' = [act EXCEPT ![p].pc = IF backend = "local" THEN "swap" ELSE "put",
                          ![p].todo = Staged(p)]
    /\ before' = [rows |-> rows, objs |-> objs]
    /\ restore' = [restore EXCEPT !.fresh = FALSE]
    /\ UNCHANGED <<backend, data, bundles, status, drill, jobs, writes, faults>>

MoveAway(p) ==
    /\ At(p, "swap")
    /\ act' = [act EXCEPT ![p].objs = objs, ![p].pc = "publish"]
    /\ objs' = {}
    /\ UNCHANGED <<backend, rows, bundles, statuses, before, jobs, writes, faults>>

PublishObjects(p) ==
    /\ At(p, "publish")
    /\ objs' = act[p].todo
    /\ act' = [act EXCEPT ![p].todo = {}, ![p].pc = "remove"]
    /\ UNCHANGED <<backend, rows, bundles, statuses, before, jobs, writes, faults>>

RemovePrevious(p) ==
    /\ At(p, "remove")
    /\ Goto(p, "clean")
    /\ UNCHANGED <<backend, data, bundles, statuses, before, jobs, writes, faults>>

PutObject(p) ==
    /\ At(p, "put")
    /\ \/ /\ act[p].todo = {}
          /\ Goto(p, "clean")
          /\ UNCHANGED objs
       \/ \E a \in act[p].todo :
              /\ objs' = objs \cup {a}
              /\ act' = [act EXCEPT ![p].todo = @ \ {a}]
    /\ UNCHANGED <<backend, rows, bundles, statuses, before, jobs, writes, faults>>

\* run_pg_restore --clean
CleanTables(p) ==
    /\ At(p, "clean")
    /\ rows' = NoRows
    /\ Goto(p, "load")
    /\ UNCHANGED <<backend, objs, bundles, statuses, before, jobs, writes, faults>>

LoadTables(p) ==
    /\ At(p, "load")
    /\ rows' = Target(p).rows
    /\ Goto(p, "check")
    /\ UNCHANGED <<backend, objs, bundles, statuses, before, jobs, writes, faults>>

\* verify_restored_state: every attachment has its object, and there are as
\* many as the manifest of the objects says.
Named(rs) == {a \in Atts : rs[a] # "none"}

\* Mutant: the restored rows are not compared with the objects.
Unchecked(rs, os, listed) == TRUE

Verified(rs, os, listed) ==
    /\ Named(rs) \subseteq os
    /\ Cardinality(Named(rs)) = Cardinality(listed)

CheckRestored(p) ==
    /\ At(p, "check")
    /\ IF Verified(rows, objs, Target(p).objs)
       THEN Goto(p, "rend")
       ELSE act' = [act EXCEPT ![p].pc = "rend", ![p].ok = FALSE]
    /\ UNCHANGED <<backend, data, bundles, statuses, before, jobs, writes, faults>>

EndRestore(p) ==
    /\ At(p, "rend")
    /\ restore' = [outcome |-> IF act[p].ok THEN "success" ELSE "failed",
                   run |-> act[p].of[2], hit |-> act[p].hit, fresh |-> TRUE]
    /\ act' = [act EXCEPT ![p] = Idle]
    /\ UNCHANGED <<backend, data, bundles, status, drill, before, jobs, writes, faults>>

-----------------------------------------------------------------------------
(***************************************************************************)
(* run_recovery_drill                                                      *)
(***************************************************************************)
RunDrill(p) ==
    /\ act[p] = Idle
    /\ jobs < MaxJobs
    /\ jobs' = jobs + 1
    /\ act' = [act EXCEPT ![p] = [Idle EXCEPT !.op = "drill", !.pc = "find"]]
    /\ UNCHANGED <<backend, data, bundles, statuses, before, writes, faults>>

\* find_latest_backup_bundle and resolve_backup_password
Latest(d) == \A e \in Listed("offsite") : e = d \/ NewerThan(d, e)

FindLatest(p) ==
    /\ At(p, "find")
    /\ IF Listed("offsite") = {} THEN Fails(p)
       ELSE \E d \in Listed("offsite") :
                /\ Latest(d)
                /\ act' = [act EXCEPT ![p].of = d, ![p].pc = IF Opens(d) THEN "open" ELSE "dend",
                                      ![p].ok = Opens(d), ![p].hit = ~Opens(d)]
    /\ UNCHANGED <<backend, data, bundles, statuses, before, jobs, writes, faults>>

OpenBundle(p) ==
    /\ At(p, "open")
    /\ IF Whole(act[p].of[1], act[p].of[2]) THEN Goto(p, "createdb") ELSE Fails(p)
    /\ UNCHANGED <<backend, data, bundles, statuses, before, jobs, writes, faults>>

CreateDatabase(p) ==
    /\ At(p, "createdb")
    /\ Goto(p, "replay")
    /\ UNCHANGED <<backend, data, bundles, statuses, before, jobs, writes, faults>>

\* execute_recovery_drill, in the temporary database and directory.
Replay(p) ==
    /\ At(p, "replay")
    /\ act' = [act EXCEPT ![p].pc = "dropdb",
                          ![p].ok = Verified(Target(p).rows, Target(p).objs, Target(p).objs)]
    /\ UNCHANGED <<backend, data, bundles, statuses, before, jobs, writes, faults>>

DropDatabase(p) ==
    /\ At(p, "dropdb")
    /\ Goto(p, "dend")
    /\ UNCHANGED <<backend, data, bundles, statuses, before, jobs, writes, faults>>

EndDrill(p) ==
    /\ At(p, "dend")
    /\ drill' = [outcome |-> IF act[p].ok THEN "success" ELSE "failed",
                 run |-> act[p].of[2], hit |-> act[p].hit]
    /\ act' = [act EXCEPT ![p] = Idle]
    /\ UNCHANGED <<backend, data, bundles, status, restore, before, jobs, writes, faults>>

-----------------------------------------------------------------------------
(***************************************************************************)
(* Failures                                                                *)
(***************************************************************************)
Ends == {"idle", "bend", "rend", "dend"}

\* A step fails.  create_backup_bundle takes its directory away,
\* replicate_backup_bundle its staging directory, and restore_object_store
\* puts the previous store back.
PutBack(p) == IF act[p].pc = "publish" THEN act[p].objs ELSE objs

StepFails(p) ==
    /\ faults < MaxFaults
    /\ faults' = faults + 1
    /\ act[p].pc \notin Ends
    /\ Fails(p)
    /\ dir' = CASE act[p].pc \in {"payload", "manifest"} -> [dir EXCEPT !["local"][act[p].run] = {}]
                [] act[p].pc \in {"replica", "rename"} -> [dir EXCEPT !["staging"][act[p].run] = {}]
                [] OTHER -> dir
    /\ objs' = PutBack(p)
    /\ UNCHANGED <<backend, rows, made, runs, stamps, statuses, before, jobs, writes>>

\* A process is killed; what it had in its work directory stays there.
Crash(p) ==
    /\ faults < MaxFaults
    /\ faults' = faults + 1
    /\ act[p] # Idle
    /\ act' = [act EXCEPT ![p] = Idle]
    /\ UNCHANGED <<backend, data, bundles, statuses, before, jobs, writes>>

BackupStep(p) ==
    \/ Dump(p) \/ ListObjects(p) \/ CopyObject(p) \/ ObjectsCopied(p) \/ WritePayload(p) \/ WriteManifest(p)
    \/ Replicate(p) \/ CopyPayloads(p) \/ PublishReplica(p)
    \/ ListBundles(p) \/ DeleteBundle(p) \/ EndBackup(p)

RestoreStep(p) ==
    \/ Unpack(p) \/ StageObjects(p) \/ MoveAway(p) \/ PublishObjects(p) \/ RemovePrevious(p)
    \/ PutObject(p) \/ CleanTables(p) \/ LoadTables(p) \/ CheckRestored(p) \/ EndRestore(p)

DrillStep(p) ==
    \/ FindLatest(p) \/ OpenBundle(p) \/ CreateDatabase(p) \/ Replay(p) \/ DropDatabase(p)
    \/ EndDrill(p)

Step(p) == BackupStep(p) \/ RestoreStep(p) \/ DrillStep(p)

-----------------------------------------------------------------------------
\* evaluate_backup_readiness.  A success that is older than the interval
\* reads "stale"; time is not modelled.
Readiness ==
    CASE status.outcome = "none" -> "never_run"
      [] status.outcome = "failed" -> "failed"
      [] status.outcome = "success" -> "ready"

Next ==
    \/ \E p \in Actors : Step(p) \/ StepFails(p) \/ Crash(p)
    \/ \E p \in Workers : RunBackup(p) \/ RunDrill(p)
    \/ \E p \in Operators : RestoreBundle(p)
    \/ \E a \in Atts : AppStep(a)

Spec == Init /\ [][Next]_vars

-----------------------------------------------------------------------------
(***************************************************************************)
(* Properties                                                              *)
(***************************************************************************)
PCs == Replacing \cup Ends \cup
       {"dump", "list", "copy", "payload", "manifest", "replicate", "replica", "rename",
        "offlist", "offdel", "loclist", "locdel", "unpack", "stage",
        "find", "open", "createdb", "replay", "dropdb"}

RowStates == {"none", "pending", "ready"}
Contents == [rows : [Atts -> RowStates], objs : SUBSET Atts, at : 0 .. MaxRuns]
Bundles == Places \X Runs
Acts == [op : {"none", "backup", "restore", "drill"}, pc : PCs, run : Runs \cup {None},
         of : Places \X (Runs \cup {None}), rows : [Atts -> RowStates], objs : SUBSET Atts,
         todo : SUBSET Atts, drop : SUBSET Bundles, ok : BOOLEAN, hit : BOOLEAN]
Outcomes == {"none", "failed", "success"}

\* The types of the state: a process is at a step of one of its functions.
TypeOK ==
    /\ backend \in Backends
    /\ rows \in [Atts -> RowStates]
    /\ objs \subseteq Atts
    /\ dir \in [Places -> [Runs -> SUBSET {"payload", "manifest"}]]
    /\ made \in [Runs -> Contents]
    /\ runs \in 0 .. MaxRuns /\ stamps \in 0 .. runs
    /\ act \in [Actors -> Acts]
    /\ status \in [outcome : Outcomes, run : Runs \cup {None}]
    /\ drill \in [outcome : Outcomes, run : Runs \cup {None}, hit : BOOLEAN]
    /\ restore \in [outcome : Outcomes, run : Runs \cup {None}, hit : BOOLEAN, fresh : BOOLEAN]
    /\ before \in [rows : [Atts -> RowStates], objs : SUBSET Atts]
    /\ jobs \in Nat /\ writes \in Nat /\ faults \in Nat

\* The Keep newest bundles of the local root can be unpacked, whatever was
\* killed while it wrote or deleted one: a directory whose manifest can be
\* read has its payload, or is about to go anyway.
NewestWhole == \A d \in Listed("local") \ Surplus("local") : Whole(d[1], d[2])

\* While /health/backup says ready there is a whole bundle, as new as the
\* last run that succeeded.  The same holds of the replicas as long as more
\* bundles are kept than there are runs at one time or killed ones: a replica
\* that another run is staging, or was killed while staging, counts as a
\* bundle of the root.
ReadyMeansBundle ==
    \A place \in {"local", "offsite"} :
        /\ Readiness = "ready"
        /\ place = "offsite" => Keep >= Cardinality(Actors) + faults
        => \E r \in Runs : Whole(place, r) /\ made[r].at >= made[status.run].at

\* While a restore replaces the data there is a whole bundle at least as
\* new as its safety backup.
SafetyKept ==
    \A p \in Actors : act[p].pc \in Replacing =>
        \E r \in Runs : Whole("local", r) /\ made[r].at >= made[act[p].run].at

\* A bundle that passed a drill can be restored: a restore of it is not
\* refused in the end, unless a step fails or the bundle is taken away.
DrillPredicts ==
    /\ drill.outcome = "success"
    /\ restore.run = drill.run
    /\ ~restore.hit
    => restore.outcome = "success"

\* What the design says of the order of a restore: when the database was
\* not replaced, the attachments it names still have their objects.
OldRowsKeepObjects ==
    restore.fresh /\ rows = before.rows => Named(rows) \cap before.objs \subseteq objs

\* After a restore that reports success the database is the one in the
\* bundle, and no attachment lacks its object.  With S3, where objects are put
\* one by one, a restore that failed has taken no object away.
RestoreHonest ==
    /\ restore.fresh /\ restore.outcome = "success" =>
           /\ rows = made[restore.run].rows
           /\ Named(rows) \subseteq objs
           /\ backend = "local" => objs = made[restore.run].objs
    /\ backend = "s3" => OldRowsKeepObjects
=============================================================================
