------------------------------- MODULE Migration -------------------------------
(***************************************************************************)
(* The migration of a VM from vCenter to OpenStack: the row that           *)
(* MigrationService keeps in migration_tasks, MigrationManager's           *)
(* execute_vmware_migration that works on it, the worker's                 *)
(* cleanup_stale_migrations_task, and the progress that a client may post. *)
(* Nothing keeps a migration from being executed twice, or cleaned up      *)
(* while it is executed.  A run of the executor stands for the image and   *)
(* for the server that it creates.                                         *)
(*                                                                         *)
(* A session writes only the columns whose value differs from the one it   *)
(* loaded or committed last (expire_on_commit is off): `status` is what    *)
(* the run's session believes the row to hold.                             *)
(***************************************************************************)
EXTENDS Integers

CONSTANTS Migrations,
          Runs,          \* calls of execute_vmware_migration
          NoRun,
          StaleHours,    \* age at which the cleanup takes a row, in hours
          MaxFaults      \* bound: calls and commits that fail, and crashes

ASSUME StaleAssumption == StaleHours \in Nat
ASSUME NoRunAssumption == NoRun \notin Runs

Statuses == {"none", "queued", "in_progress", "completed", "failed"}
Progress == {0, 10, 30, 50, 70, 100}

VARIABLES
    row,        \* migration_tasks: status, progress and destination_ref
    age,        \* hours since the row was created, up to StaleHours + 1
    at,         \* the step that a run is to take next
    of,         \* the migration a run works on
    status,     \* the status its session holds
    images,     \* runs whose image is in Glance
    servers,    \* runs whose server is in Nova
    sweep,      \* rows that the cleanup has loaded and not yet committed
    faults,     \* failures so far
    swept,      \* history: migrations the cleanup marked
    broken      \* history: runs that crashed or met a commit or answer that failed

runVars == <<at, of, status>>
migrationVars == <<row, age, runVars, images, servers, sweep, faults, swept, broken>>

Live(r) == at[r] \notin {"idle", "ended", "dead"}

MigrationTypeOK ==
    /\ row \in [Migrations -> [status : Statuses, progress : Progress,
                               dest : Runs \cup {NoRun}]]
    /\ age \in [Migrations -> 0..StaleHours + 1]
    /\ at \in [Runs -> {"idle", "start", "find", "export", "upload", "boot", "complete",
                        "except", "ended", "dead"}]
    /\ images \subseteq Runs /\ servers \subseteq Runs /\ sweep \subseteq Migrations

MigrationInit ==
    /\ row = [m \in Migrations |-> [status |-> "none", progress |-> 0, dest |-> NoRun]]
    /\ age = [m \in Migrations |-> 0]
    /\ at = [r \in Runs |-> "idle"]
    /\ of \in [Runs -> Migrations]
    /\ status = [r \in Runs |-> "none"]
    /\ images = {} /\ servers = {} /\ sweep = {} /\ faults = 0
    /\ swept = {} /\ broken = {}

goto(r, label) == at' = [at EXCEPT ![r] = label]
Fault == faults < MaxFaults /\ faults' = faults + 1
NoFault == UNCHANGED faults

\* create_migration
Create(m) ==
    /\ row[m].status = "none"
    /\ row' = [row EXCEPT ![m].status = "queued"]
    /\ UNCHANGED <<age, runVars, images, servers, sweep, faults, swept, broken>>

\* update_migration_progress by way of its endpoint, which passes no status.
Report(m, p) ==
    /\ row[m].status # "none"
    /\ row' = [row EXCEPT ![m].progress = p]
    /\ UNCHANGED <<age, runVars, images, servers, sweep, faults, swept, broken>>
-----------------------------------------------------------------------------
(* execute_vmware_migration                                                *)

\* The row as the commit of `new` by a session that holds status `held` leaves it.
written(m, held, new, progress, dest) ==
    [status |-> IF new = held THEN row[m].status ELSE new,
     progress |-> progress,
     dest |-> IF dest = NoRun THEN row[m].dest ELSE dest]

\* A commit, and where the run goes on; a commit that raises may have taken place
\* and leads to the except clause.  Its rollback expires what the session held, so
\* the next commit writes the status whatever it is.
Commit(r, new, progress, dest, next) ==
    LET done == [row EXCEPT ![of[r]] = written(of[r], status[r], new, progress, dest)]
    IN  \/ /\ NoFault /\ row' = done /\ goto(r, next)
           /\ status' = [status EXCEPT ![r] = new]
           /\ UNCHANGED broken
        \/ /\ Fault /\ row' \in {row, done} /\ goto(r, "except")
           /\ broken' = broken \cup {r}
           /\ status' = [status EXCEPT ![r] = "unknown"]

\* select ... where id; a migration that does not exist ends the call.
Execute(r) ==
    /\ at[r] = "idle"
    /\ status' = [status EXCEPT ![r] = row[of[r]].status]
    /\ goto(r, IF row[of[r]].status = "none" THEN "ended" ELSE "start")
    /\ UNCHANGED <<row, age, of, images, servers, sweep, faults, swept, broken>>

Start(r) ==
    /\ at[r] = "start" /\ Commit(r, "in_progress", 10, NoRun, "find")
    /\ UNCHANGED <<age, of, images, servers, sweep, swept>>

\* get_vm_by_name and export_vm_disk.
Find(r) == at[r] = "find" /\ Commit(r, "in_progress", 30, NoRun, "export")
Export(r) == at[r] = "export" /\ Commit(r, "in_progress", 50, NoRun, "upload")

\* create_image: the image is there and the progress committed.
Upload(r) ==
    /\ at[r] = "upload"
    /\ images' = images \cup {r}
    /\ Commit(r, "in_progress", 70, NoRun, "boot")
    /\ UNCHANGED <<age, of, servers, sweep, swept>>

\* Faulty variant: the row is completed before create_server has returned.
BootEarly(r) ==
    /\ at[r] = "boot"
    /\ Commit(r, "completed", 100, r, "complete")
    /\ UNCHANGED <<age, of, images, servers, sweep, swept>>

\* get_flavor, get_network and create_server.
Boot(r) ==
    /\ at[r] = "boot"
    /\ servers' = servers \cup {r} /\ goto(r, "complete")
    /\ UNCHANGED <<row, age, of, status, images, sweep, faults, swept, broken>>

Complete(r) ==
    /\ at[r] = "complete" /\ Commit(r, "completed", 100, r, "ended")
    /\ UNCHANGED <<age, of, images, servers, sweep, swept>>

\* A call of vCenter, of the file system, of Glance or of Nova raises; an answer
\* that is lost leaves the image or the server behind.
Raise(r) ==
    /\ at[r] \in {"find", "export", "upload", "boot"} /\ Fault
    /\ goto(r, "except")
    /\ \/ UNCHANGED <<images, servers, broken>>
       \/ /\ at[r] = "upload" /\ images' = images \cup {r}
          /\ UNCHANGED <<servers, broken>>
       \/ /\ at[r] = "boot" /\ servers' = servers \cup {r} /\ broken' = broken \cup {r}
          /\ UNCHANGED images
    /\ UNCHANGED <<row, age, of, status, sweep, swept>>

\* Faulty variant: the except clause leaves the row to the caller.
ExceptSilently(r) ==
    /\ at[r] = "except" /\ goto(r, "ended")
    /\ UNCHANGED <<row, age, of, status, images, servers, sweep, faults, swept, broken>>

\* The except clause: failed, no progress, commit; a second commit that raises ends
\* the call with the row as it is.
Except(r) ==
    /\ at[r] = "except" /\ goto(r, "ended")
    /\ \/ /\ NoFault
          /\ row' = [row EXCEPT ![of[r]] = written(of[r], status[r], "failed", 0, NoRun)]
          /\ UNCHANGED broken
       \/ Fault /\ broken' = broken \cup {r} /\ UNCHANGED row
    /\ UNCHANGED <<age, of, status, images, servers, sweep, swept>>

Crash(r) ==
    /\ Live(r) /\ Fault /\ goto(r, "dead")
    /\ broken' = broken \cup {r}
    /\ UNCHANGED <<row, age, of, status, images, servers, sweep, swept>>
-----------------------------------------------------------------------------
(* cleanup_stale_migrations_task, a job of the arq worker: it takes rows   *)
(* that are in progress and were created long ago, whoever works on them.  *)

Hour ==
    /\ \E m \in Migrations : row[m].status # "none" /\ age[m] <= StaleHours
    /\ age' = [m \in Migrations |-> IF row[m].status = "none" \/ age[m] > StaleHours
                                    THEN age[m] ELSE age[m] + 1]
    /\ UNCHANGED <<row, runVars, images, servers, sweep, faults, swept, broken>>

stale == {m \in Migrations : row[m].status = "in_progress" /\ age[m] > StaleHours}

CleanupSelect ==
    /\ sweep = {} /\ stale # {} /\ sweep' = stale
    /\ UNCHANGED <<row, age, runVars, images, servers, faults, swept, broken>>

CleanupCommit ==
    /\ sweep # {} /\ sweep' = {}
    /\ \/ /\ NoFault /\ swept' = swept \cup sweep
          /\ row' = [m \in Migrations |->
                        IF m \in sweep
                        THEN [row[m] EXCEPT !.status = "failed", !.progress = 0]
                        ELSE row[m]]
       \/ Fault /\ UNCHANGED <<row, swept>>
    /\ UNCHANGED <<age, runVars, images, servers, broken>>

RunStep(r) ==
    \/ Execute(r) \/ Start(r) \/ Upload(r) \/ Boot(r) \/ Complete(r) \/ Raise(r)
    \/ Except(r) \/ Crash(r)
    \/ (Find(r) \/ Export(r)) /\ UNCHANGED <<age, of, images, servers, sweep, swept>>

MigrationNext ==
    \/ \E m \in Migrations : Create(m) \/ \E p \in {0, 100} : Report(m, p)
    \/ \E r \in Runs : RunStep(r)
    \/ Hour \/ CleanupSelect \/ CleanupCommit

MigrationSpec == MigrationInit /\ [][MigrationNext]_migrationVars
-----------------------------------------------------------------------------
RunsOf(m) == {r \in Runs : of[r] = m}

\* A migration that reads completed has its server: destination_ref names a server
\* that a run of this migration created from an image it uploaded, whatever other
\* runs, the cleanup and the clients did to the row.
CompletedHasServer ==
    \A m \in Migrations : row[m].status = "completed" =>
        row[m].dest \in RunsOf(m) \cap images \cap servers

\* A migration that reads failed although its server was created was marked by the
\* cleanup, has lost an answer or a commit, or was executed more than once: one run
\* left alone never calls a migration failed that it carried out.
FailedVerdictExplained ==
    \A m \in Migrations :
        (row[m].status = "failed" /\ \E r \in RunsOf(m) \cap servers : ~Live(r)) =>
            \/ m \in swept \/ RunsOf(m) \cap broken # {}
            \/ \E q, r \in RunsOf(m) : q # r /\ at[q] # "idle" /\ at[r] # "idle"

\* A migration that stays in progress with nobody at work on it was left by a run
\* that crashed or whose last commit failed: every other way out of
\* execute_vmware_migration records how it ended.
StuckExplained ==
    \A m \in Migrations :
        (row[m].status = "in_progress" /\ \A r \in RunsOf(m) : ~Live(r)) =>
            RunsOf(m) \cap broken # {}

\* What a reader of a row that is not completed may conclude from it, with cleanup,
\* crashes, failed commits and repeated runs: the two together.
VerdictExplained == FailedVerdictExplained /\ StuckExplained
=============================================================================
