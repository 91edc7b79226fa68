--------------------------- MODULE Migration_proofs ---------------------------
(***************************************************************************)
(* What a migration's row may be believed to say, for any set of           *)
(* migrations, of runs, of failures and of hours before the cleanup.       *)
(***************************************************************************)
EXTENDS Migration, TLAPS

Working == {"find", "export", "upload", "boot", "complete"}

Typed ==
    /\ MigrationTypeOK
    /\ of \in [Runs -> Migrations]
    /\ status \in [Runs -> Statuses \cup {"unknown"}]
    /\ swept \subseteq Migrations /\ broken \subseteq Runs

\* What a run knows: past its first commit its session holds in_progress, so its
\* last commit does write the status; what it made is there before the row says so;
\* a run that crashed is known to have broken.
RunOK(r) ==
    /\ at[r] \in Working => status[r] = "in_progress"
    /\ at[r] = "except" => status[r] \in {"in_progress", "unknown"}
    /\ at[r] \in {"boot", "complete"} => r \in images
    /\ at[r] = "complete" => r \in servers
    /\ at[r] = "dead" => r \in broken
    /\ r \in servers => at[r] # "idle"

\* A destination that was written names a server from an uploaded image.
DestinationOK(m) ==
    /\ row[m].dest # NoRun => row[m].dest \in RunsOf(m) \cap images \cap servers
    /\ row[m].status = "completed" => row[m].dest # NoRun

\* A migration in progress has a run at work on it, or one that broke.
Attended(m) ==
    row[m].status = "in_progress" => \E r \in RunsOf(m) : Live(r) \/ r \in broken

\* Nothing disturbed the migration: the cleanup did not mark it, no run of it broke
\* and no two runs of it began.
Undisturbed(m) ==
    /\ m \notin swept /\ \A r \in RunsOf(m) : r \notin broken
    /\ \A q, r \in RunsOf(m) : at[q] # "idle" /\ at[r] # "idle" => q = r

\* Then the row tells where its run is.
RowFollowsRun(m) ==
    /\ (\A r \in RunsOf(m) : at[r] = "idle") => row[m].status \in {"none", "queued"}
    /\ \A r \in RunsOf(m) :
          /\ at[r] = "start" => row[m].status = "queued" /\ status[r] = "queued"
          /\ at[r] \in Working \cup {"except"} => row[m].status = "in_progress"
          /\ at[r] \in Working \cup {"except"} => status[r] = "in_progress"
          /\ r \in servers => at[r] \in {"complete", "ended"}
          /\ at[r] = "ended" => \/ row[m].status \in {"none", "queued", "completed"}
                                \/ row[m].status = "failed" /\ r \notin servers
          /\ at[r] = "ended" /\ r \in servers => row[m].status = "completed"

IInv ==
    /\ Typed
    /\ \A r \in Runs : RunOK(r)
    /\ \A m \in Migrations : DestinationOK(m) /\ Attended(m)
    /\ \A m \in Migrations : Undisturbed(m) => RowFollowsRun(m)

\* No run has begun and no row exists.
LEMMA InitIInv == MigrationInit => IInv
  <1> SUFFICES ASSUME MigrationInit PROVE IInv
    OBVIOUS
  <1>1. Typed
    BY StaleAssumption DEF MigrationInit, Typed, MigrationTypeOK, Statuses, Progress
  <1>2. \A r \in Runs : RunOK(r)
    BY DEF MigrationInit, RunOK, Working
  <1>3. \A m \in Migrations : row[m].status = "none" /\ row[m].dest = NoRun
    BY DEF MigrationInit
  <1>4. \A m \in Migrations : DestinationOK(m) /\ Attended(m)
    BY <1>3 DEF DestinationOK, Attended
  <1>5. \A m \in Migrations : RowFollowsRun(m)
    BY <1>3 DEF MigrationInit, RowFollowsRun, Working, RunsOf
  <1> QED
    BY <1>1, <1>2, <1>4, <1>5 DEF IInv

-----------------------------------------------------------------------------
(* What a commit does to the row of the run's migration, and to no other. *)

RowType == [status : Statuses, progress : Progress, dest : Runs \cup {NoRun}]
Labels == {"idle", "start", "find", "export", "upload", "boot", "complete",
           "except", "ended", "dead"}

Wrote(r, new, dest) ==
    /\ row'[of[r]].status = IF new = status[r] THEN row[of[r]].status ELSE new
    /\ row'[of[r]].dest = IF dest = NoRun THEN row[of[r]].dest ELSE dest

Committed(r, new, dest, next) ==
    /\ \A m \in Migrations : m # of[r] => row'[m] = row[m]
    /\ \/ /\ at' = [at EXCEPT ![r] = next]
          /\ status' = [status EXCEPT ![r] = new] /\ broken' = broken
          /\ Wrote(r, new, dest)
       \/ /\ at' = [at EXCEPT ![r] = "except"]
          /\ status' = [status EXCEPT ![r] = "unknown"] /\ broken' = broken \cup {r}
          /\ row'[of[r]] = row[of[r]] \/ Wrote(r, new, dest)

\* The record that a commit leaves.
LEMMA WrittenRow ==
    ASSUME Typed, NEW m \in Migrations, NEW held, NEW new \in Statuses,
           NEW progress \in Progress, NEW dest \in Runs \cup {NoRun}
    PROVE  LET w == written(m, held, new, progress, dest)
           IN  /\ w \in RowType
               /\ w.status = IF new = held THEN row[m].status ELSE new
               /\ w.dest = IF dest = NoRun THEN row[m].dest ELSE dest
  BY DEF Typed, MigrationTypeOK, RowType, written

\* Commit, whether it returns or raises.
LEMMA CommitEffect ==
    ASSUME Typed, NEW r \in Runs, NEW new \in Statuses, NEW progress \in Progress,
           NEW dest \in Runs \cup {NoRun}, NEW next \in Labels,
           Commit(r, new, progress, dest, next)
    PROVE  /\ row' \in [Migrations -> RowType] /\ at' \in [Runs -> Labels]
           /\ status' \in [Runs -> Statuses \cup {"unknown"}] /\ broken' \subseteq Runs
           /\ Committed(r, new, dest, next)
  <1> DEFINE w == written(of[r], status[r], new, progress, dest)
             done == [row EXCEPT ![of[r]] = w]
  <1>1. of[r] \in Migrations
    BY DEF Typed
  <1>2. /\ w \in RowType
        /\ w.status = IF new = status[r] THEN row[of[r]].status ELSE new
        /\ w.dest = IF dest = NoRun THEN row[of[r]].dest ELSE dest
    BY <1>1, WrittenRow
  <1>3. row \in [Migrations -> RowType] /\ at \in [Runs -> Labels]
    BY DEF Typed, MigrationTypeOK, RowType, Labels
  <1>4. \/ /\ row' = done /\ at' = [at EXCEPT ![r] = next]
           /\ status' = [status EXCEPT ![r] = new] /\ broken' = broken
        \/ /\ row' \in {row, done} /\ at' = [at EXCEPT ![r] = "except"]
           /\ status' = [status EXCEPT ![r] = "unknown"] /\ broken' = broken \cup {r}
    BY DEF Commit, goto
  <1> HIDE DEF w
  <1>5. done \in [Migrations -> RowType] /\ done[of[r]] = w
        /\ \A m \in Migrations : m # of[r] => done[m] = row[m]
    BY <1>1, <1>2, <1>3
  <1> HIDE DEF done
  <1> QED
    BY <1>1, <1>2, <1>3, <1>4, <1>5 DEF Committed, Wrote, Labels, Typed

-----------------------------------------------------------------------------
(* One step. *)

Kept ==
    /\ \A r \in Runs : RunOK(r)
    /\ \A m \in Migrations : DestinationOK(m) /\ Attended(m)
    /\ \A m \in Migrations : Undisturbed(m) => RowFollowsRun(m)

\* A commit of progress, from the first to the one after the upload.
LEMMA ProgressKeeps ==
    ASSUME IInv, NEW r \in Runs, NEW next \in {"find", "export", "upload", "boot"},
           at[r] \in {"start", "find", "export", "upload"},
           Committed(r, "in_progress", NoRun, next),
           UNCHANGED <<of, servers, swept>>, images \subseteq images',
           next = "boot" => r \in images'
    PROVE  Kept'
  <1> USE DEF IInv, Typed, MigrationTypeOK, Committed, Wrote
  <1>1. of[r] \in Migrations /\ r \in RunsOf(of[r])
    BY DEF RunsOf
  <1>2. \A q \in Runs : RunOK(q)'
    BY DEF RunOK, Working
  <1>3. \A m \in Migrations : DestinationOK(m)'
    BY <1>1 DEF DestinationOK, RunsOf
  <1>4. \A m \in Migrations : Attended(m)'
    BY <1>1 DEF Attended, RunsOf, Live
  <1>5. ASSUME NEW m \in Migrations, Undisturbed(m)' PROVE RowFollowsRun(m)'
    <2>1. Undisturbed(m)
      BY <1>5 DEF Undisturbed, RunsOf
    <2>2. CASE m # of[r]
      BY <1>1, <2>1, <2>2 DEF RowFollowsRun, RunsOf
    <2>3. CASE m = of[r]
      <3>1. /\ at' = [at EXCEPT ![r] = next] /\ status' = [status EXCEPT ![r] = "in_progress"]
            /\ row'[m].status = IF "in_progress" = status[r] THEN row[m].status
                                ELSE "in_progress"
        BY <1>1, <1>5, <2>3 DEF Undisturbed, RunsOf
      <3>2. \A q \in RunsOf(m) : q # r => at[q] = "idle"
        BY <1>1, <2>1, <2>3 DEF Undisturbed
      <3>3. row'[m].status = "in_progress"
        BY <1>1, <2>1, <2>3, <3>1 DEF RowFollowsRun, Working
      <3>4. r \notin servers
        BY <1>1, <2>1, <2>3 DEF RowFollowsRun
      <3>5. RunsOf(m)' = RunsOf(m)
        BY DEF RunsOf
      <3>6. r \in RunsOf(m) /\ at'[r] = next /\ status'[r] = "in_progress"
        BY <1>1, <2>3, <3>1
      <3>7. \A q \in RunsOf(m) : q # r => at'[q] = "idle" /\ q \notin servers
        BY <3>1, <3>2 DEF RunOK, RunsOf
      <3> QED
        BY <3>3, <3>4, <3>5, <3>6, <3>7 DEF RowFollowsRun, Working
    <2> QED
      BY <2>2, <2>3
  <1> QED
    BY <1>2, <1>3, <1>4, <1>5 DEF Kept

\* The commit that completes the migration.
LEMMA CompleteKeeps ==
    ASSUME IInv, NEW r \in Runs, at[r] = "complete",
           Committed(r, "completed", r, "ended"), UNCHANGED <<of, servers, swept, images>>
    PROVE  Kept'
  <1> USE NoRunAssumption DEF IInv, Typed, MigrationTypeOK, Committed, Wrote
  <1>1. of[r] \in Migrations /\ r \in RunsOf(of[r])
    BY DEF RunsOf
  <1>2. \A q \in Runs : RunOK(q)'
    BY DEF RunOK, Working
  <1>3. \A m \in Migrations : DestinationOK(m)'
    BY <1>1 DEF DestinationOK, RunsOf, RunOK
  <1>4. \A m \in Migrations : Attended(m)'
    <2>1. row'[of[r]].status = "in_progress" => at'[r] = "except"
      BY <1>1 DEF RunOK, Working
    <2>2. \A q \in Runs : q # r => at'[q] = at[q] /\ (q \in broken => q \in broken')
      OBVIOUS
    <2> QED
      <3> SUFFICES ASSUME NEW m \in Migrations, row'[m].status = "in_progress"
                   PROVE  \E q \in Runs : of[q] = m /\ (Live(q)' \/ q \in broken')
        BY DEF Attended, RunsOf
      <3>1. CASE m = of[r]
        BY <2>1, <3>1 DEF Live
      <3>2. CASE m # of[r]
        <4>1. PICK q \in RunsOf(m) : Live(q) \/ q \in broken
          BY <3>2 DEF Attended
        <4> QED
          BY <2>2, <3>2, <4>1 DEF Live, RunsOf
      <3> QED
        BY <3>1, <3>2
  <1>5. ASSUME NEW m \in Migrations, Undisturbed(m)' PROVE RowFollowsRun(m)'
    <2>1. Undisturbed(m)
      BY <1>5 DEF Undisturbed, RunsOf
    <2>2. CASE m # of[r]
      BY <1>1, <2>1, <2>2 DEF RowFollowsRun, RunsOf
    <2>3. CASE m = of[r]
      <3>1. at' = [at EXCEPT ![r] = "ended"] /\ row'[m].status = "completed"
        BY <1>1, <1>5, <2>3 DEF Undisturbed, RunsOf, RunOK, Working
      <3>2. \A q \in RunsOf(m) : q # r => at'[q] = "idle" /\ q \notin servers
        BY <1>1, <2>1, <2>3, <3>1 DEF Undisturbed, RunOK, RunsOf
      <3>3. RunsOf(m)' = RunsOf(m) /\ r \in RunsOf(m) /\ at'[r] = "ended"
        BY <2>3, <3>1 DEF RunsOf
      <3> QED
        BY <3>1, <3>2, <3>3 DEF RowFollowsRun, Working
    <2> QED
      BY <2>2, <2>3
  <1> QED
    BY <1>2, <1>3, <1>4, <1>5 DEF Kept

\* The first read of a run, which finds the row or ends the call.
LEMMA ExecuteKeeps == ASSUME IInv, NEW r \in Runs, Execute(r) PROVE Kept'
  <1> USE DEF IInv, Typed, MigrationTypeOK, Execute, goto
  <1>1. of[r] \in Migrations /\ r \in RunsOf(of[r])
    BY DEF RunsOf
  <1>2. \A q \in Runs : RunOK(q)'
    BY DEF RunOK, Working
  <1>3. \A m \in Migrations : DestinationOK(m)'
    BY DEF DestinationOK, RunsOf
  <1>4. \A m \in Migrations : Attended(m)'
    BY DEF Attended, RunsOf, Live
  <1>5. ASSUME NEW m \in Migrations, Undisturbed(m)' PROVE RowFollowsRun(m)'
    <2>1. Undisturbed(m)
      BY <1>5 DEF Undisturbed, RunsOf
    <2>2. CASE m # of[r]
      BY <1>1, <2>1, <2>2 DEF RowFollowsRun, RunsOf
    <2>3. CASE m = of[r]
      <3>1. \A q \in RunsOf(m) : q # r => at[q] = "idle" /\ at'[q] = "idle" /\ q \notin servers
        BY <1>1, <1>5, <2>3 DEF Undisturbed, RunOK, RunsOf
      <3>2. \A q \in RunsOf(m) : at[q] = "idle"
        BY <3>1
      <3>3. row[m].status \in {"none", "queued"} /\ r \notin servers
        BY <2>1, <3>2 DEF RowFollowsRun, RunOK
      <3>4. RunsOf(m)' = RunsOf(m) /\ r \in RunsOf(m)
            /\ status'[r] = row[m].status
            /\ at'[r] = (IF row[m].status = "none" THEN "ended" ELSE "start")
        BY <2>3 DEF RunsOf
      <3> QED
        BY <3>1, <3>3, <3>4 DEF RowFollowsRun, Working
    <2> QED
      BY <2>2, <2>3
  <1> QED
    BY <1>2, <1>3, <1>4, <1>5 DEF Kept

\* create_server has returned.
LEMMA BootKeeps == ASSUME IInv, NEW r \in Runs, Boot(r) PROVE Kept'
  <1> USE DEF IInv, Typed, MigrationTypeOK, Boot, goto
  <1>2. \A q \in Runs : RunOK(q)'
    BY DEF RunOK, Working
  <1>3. \A m \in Migrations : DestinationOK(m)'
    BY DEF DestinationOK, RunsOf
  <1>4. \A m \in Migrations : Attended(m)'
    BY DEF Attended, RunsOf, Live
  <1>5. ASSUME NEW m \in Migrations, Undisturbed(m)' PROVE RowFollowsRun(m)'
    <2>1. Undisturbed(m)
      BY <1>5 DEF Undisturbed, RunsOf
    <2> QED
      BY <2>1 DEF RowFollowsRun, RunsOf, Working
  <1> QED
    BY <1>2, <1>3, <1>4, <1>5 DEF Kept

\* A call raises.
LEMMA RaiseKeeps == ASSUME IInv, NEW r \in Runs, Raise(r) PROVE Kept'
  <1> USE DEF IInv, Typed, MigrationTypeOK, Raise, goto
  <1>1. of[r] \in Migrations /\ r \in RunsOf(of[r])
    BY DEF RunsOf
  <1>2. \A q \in Runs : RunOK(q)'
    BY DEF RunOK, Working
  <1>3. \A m \in Migrations : DestinationOK(m)'
    BY DEF DestinationOK, RunsOf
  <1>4. \A m \in Migrations : Attended(m)'
    BY DEF Attended, RunsOf, Live
  <1>5. ASSUME NEW m \in Migrations, Undisturbed(m)' PROVE RowFollowsRun(m)'
    <2>1. Undisturbed(m)
      BY <1>5 DEF Undisturbed, RunsOf
    <2>2. CASE m # of[r]
      BY <1>1, <2>1, <2>2 DEF RowFollowsRun, RunsOf, Working
    <2>3. CASE m = of[r]
      <3>1. UNCHANGED <<servers, row, status>>
        BY <1>1, <1>5, <2>3 DEF Undisturbed, RunsOf
      <3> QED
        BY <1>1, <2>1, <2>3, <3>1 DEF RowFollowsRun, RunsOf, Working
    <2> QED
      BY <2>2, <2>3
  <1> QED
    BY <1>2, <1>3, <1>4, <1>5 DEF Kept

\* The except clause, whose commit returns or raises.
LEMMA ExceptKeeps == ASSUME IInv, NEW r \in Runs, Except(r) PROVE Kept'
  <1>1. of[r] \in Migrations /\ r \in RunsOf(of[r]) /\ RunsOf(of[r])' = RunsOf(of[r])
    BY DEF RunsOf, IInv, Typed, Except
  <1>2. /\ at[r] = "except" /\ at' = [at EXCEPT ![r] = "ended"]
        /\ UNCHANGED <<of, status, images, servers, swept>>
    BY DEF Except, goto
  <1>3. /\ \A m \in Migrations : m # of[r] => row'[m] = row[m]
        /\ row'[of[r]].dest = row[of[r]].dest
        /\ \/ broken' = broken /\ row'[of[r]].status = "failed"
           \/ broken' = broken \cup {r} /\ UNCHANGED row
    <2>1. CASE /\ row' = [row EXCEPT ![of[r]] = written(of[r], status[r], "failed", 0, NoRun)]
               /\ UNCHANGED broken
      <3> DEFINE w == written(of[r], status[r], "failed", 0, NoRun)
      <3>1. /\ w.status = IF "failed" = status[r] THEN row[of[r]].status ELSE "failed"
            /\ w.dest = row[of[r]].dest
        BY DEF written
      <3>2. status[r] # "failed"
        BY <1>2 DEF IInv, RunOK
      <3>3. row' = [row EXCEPT ![of[r]] = w]
        BY <2>1
      <3> HIDE DEF w
      <3> QED
        BY <1>1, <2>1, <3>1, <3>2, <3>3 DEF IInv, Typed, MigrationTypeOK
    <2>2. CASE broken' = broken \cup {r} /\ UNCHANGED row
      BY <2>2
    <2> QED
      BY <2>1, <2>2 DEF Except
  <1> USE DEF IInv, Typed, MigrationTypeOK
  <1>4. \A q \in Runs : RunOK(q)'
    BY <1>2, <1>3 DEF RunOK, Working
  <1>5. \A m \in Migrations : DestinationOK(m)'
    BY <1>1, <1>2, <1>3 DEF DestinationOK, RunsOf
  <1>6. \A m \in Migrations : Attended(m)'
    BY <1>1, <1>2, <1>3 DEF Attended, RunsOf, Live
  <1>7. ASSUME NEW m \in Migrations, Undisturbed(m)' PROVE RowFollowsRun(m)'
    <2>1. Undisturbed(m)
      BY <1>2, <1>3, <1>7 DEF Undisturbed, RunsOf
    <2>2. CASE m # of[r]
      BY <1>2, <1>3, <2>1, <2>2 DEF RowFollowsRun, RunsOf
    <2>3. CASE m = of[r]
      <3>1. row'[m].status = "failed"
        <4>1. r \notin broken'
          BY <1>2, <1>7, <2>3 DEF Undisturbed, RunsOf
        <4> QED
          BY <1>3, <2>3, <4>1
      <3>2. \A q \in RunsOf(m) : q # r => at'[q] = "idle" /\ q \notin servers
        BY <1>1, <1>2, <2>1, <2>3 DEF Undisturbed, RunOK, RunsOf
      <3>3. r \notin servers
        BY <1>1, <1>2, <2>1, <2>3 DEF RowFollowsRun
      <3>4. at'[r] = "ended" /\ r \in RunsOf(m) /\ RunsOf(m)' = RunsOf(m)
        BY <1>1, <1>2, <2>3
      <3> QED
        BY <1>2, <3>1, <3>2, <3>3, <3>4 DEF RowFollowsRun, Working
    <2> QED
      BY <2>2, <2>3
  <1> QED
    BY <1>4, <1>5, <1>6, <1>7 DEF Kept

\* A crash of the process.
LEMMA CrashKeeps == ASSUME IInv, NEW r \in Runs, Crash(r) PROVE Kept'
  <1> USE DEF IInv, Typed, MigrationTypeOK, Crash, goto
  <1>1. of[r] \in Migrations /\ r \in RunsOf(of[r])
    BY DEF RunsOf
  <1>2. \A q \in Runs : RunOK(q)'
    BY DEF RunOK, Working, Live
  <1>3. \A m \in Migrations : DestinationOK(m)'
    BY DEF DestinationOK, RunsOf
  <1>4. \A m \in Migrations : Attended(m)'
    BY DEF Attended, RunsOf, Live
  <1>5. ASSUME NEW m \in Migrations, Undisturbed(m)' PROVE RowFollowsRun(m)'
    <2>1. Undisturbed(m)
      BY <1>5 DEF Undisturbed, RunsOf, Live
    <2>2. m # of[r]
      BY <1>1, <1>5 DEF Undisturbed, RunsOf
    <2> QED
      BY <1>1, <2>1, <2>2 DEF RowFollowsRun, RunsOf
  <1> QED
    BY <1>2, <1>3, <1>4, <1>5 DEF Kept

\* create_migration.
LEMMA CreateKeeps == ASSUME IInv, NEW n \in Migrations, Create(n) PROVE Kept'
  <1> USE DEF IInv, Typed, MigrationTypeOK, Create, runVars
  <1>1. /\ \A m \in Migrations : row'[m].dest = row[m].dest
        /\ \A m \in Migrations : m # n => row'[m] = row[m]
        /\ row[n].status = "none" /\ row'[n].status = "queued"
    OBVIOUS
  <1>2. \A q \in Runs : RunOK(q)'
    BY DEF RunOK
  <1>3. \A m \in Migrations : DestinationOK(m)'
    BY <1>1 DEF DestinationOK, RunsOf
  <1>4. \A m \in Migrations : Attended(m)'
    BY <1>1 DEF Attended, RunsOf, Live
  <1>5. ASSUME NEW m \in Migrations, Undisturbed(m)' PROVE RowFollowsRun(m)'
    <2>1. Undisturbed(m)
      BY <1>5 DEF Undisturbed, RunsOf
    <2> QED
      BY <1>1, <2>1 DEF RowFollowsRun, RunsOf, Working
  <1> QED
    BY <1>2, <1>3, <1>4, <1>5 DEF Kept

\* Steps that leave the runs and what the rows say of status and destination.
LEMMA OthersKeep ==
    ASSUME IInv, UNCHANGED <<runVars, images, servers, swept, broken>>,
           \A m \in Migrations : row'[m].status = row[m].status /\ row'[m].dest = row[m].dest
    PROVE  Kept'
  <1> USE DEF IInv, runVars
  <1>1. \A q \in Runs : RunOK(q)'
    BY DEF RunOK
  <1>2. \A m \in Migrations : DestinationOK(m)'
    BY DEF DestinationOK, RunsOf
  <1>3. \A m \in Migrations : Attended(m)'
    BY DEF Attended, RunsOf, Live
  <1>4. \A m \in Migrations : Undisturbed(m)' => RowFollowsRun(m)'
    BY DEF RowFollowsRun, RunsOf, Undisturbed
  <1> QED
    BY <1>1, <1>2, <1>3, <1>4 DEF Kept

\* The commit of the cleanup, which marks what it swept.
LEMMA CleanupKeeps == ASSUME IInv, CleanupCommit PROVE Kept'
  <1>0. row \in [Migrations -> RowType] /\ UNCHANGED <<runVars, images, servers, broken>>
    BY DEF IInv, Typed, MigrationTypeOK, RowType, CleanupCommit
  <1>1. /\ \A m \in Migrations : row'[m].dest = row[m].dest
        /\ \A m \in Migrations : row'[m].status \in {row[m].status, "failed"}
        /\ \A m \in Migrations : m \notin swept' => row'[m] = row[m] /\ m \notin swept
    <2>1. CASE UNCHANGED <<row, swept>>
      BY <2>1
    <2>2. CASE /\ swept' = swept \cup sweep
               /\ row' = [m \in Migrations |->
                              IF m \in sweep
                              THEN [row[m] EXCEPT !.status = "failed", !.progress = 0]
                              ELSE row[m]]
      BY <1>0, <2>2 DEF RowType
    <2> QED
      BY <2>1, <2>2 DEF CleanupCommit
  <1> USE <1>0 DEF IInv, runVars
  <1>2. \A q \in Runs : RunOK(q)'
    BY DEF RunOK
  <1>3. \A m \in Migrations : DestinationOK(m)'
    BY <1>1 DEF DestinationOK, RunsOf
  <1>4. \A m \in Migrations : Attended(m)'
    BY <1>1 DEF Attended, RunsOf, Live
  <1>5. ASSUME NEW m \in Migrations, Undisturbed(m)' PROVE RowFollowsRun(m)'
    <2>1. Undisturbed(m) /\ row'[m] = row[m]
      BY <1>1, <1>5 DEF Undisturbed, RunsOf
    <2> QED
      BY <2>1 DEF RowFollowsRun, RunsOf
  <1> QED
    BY <1>2, <1>3, <1>4, <1>5 DEF Kept

\* The types are kept by every step.
LEMMA TypedKept == ASSUME Typed, \A r \in Runs : RunOK(r), [MigrationNext]_migrationVars PROVE Typed'
  <1> USE DEF Typed
  <1>t. MigrationTypeOK <=>
            /\ row \in [Migrations -> RowType] /\ age \in [Migrations -> 0..StaleHours + 1]
            /\ at \in [Runs -> Labels]
            /\ images \subseteq Runs /\ servers \subseteq Runs /\ sweep \subseteq Migrations
    BY DEF MigrationTypeOK, RowType, Labels
  <1>u. (MigrationTypeOK <=>
            /\ row \in [Migrations -> RowType] /\ age \in [Migrations -> 0..StaleHours + 1]
            /\ at \in [Runs -> Labels]
            /\ images \subseteq Runs /\ servers \subseteq Runs /\ sweep \subseteq Migrations)'
    BY DEF MigrationTypeOK, RowType, Labels
  <1>v. "in_progress" \in Statuses /\ "completed" \in Statuses /\ "failed" \in Statuses
        /\ {10, 30, 50, 70, 100, 0} \subseteq Progress
    BY DEF Statuses, Progress
  <1>1. ASSUME NEW r \in Runs, RunStep(r) PROVE Typed'
    <2>1. CASE Execute(r)
      BY <1>t, <1>u, <2>1 DEF Execute, goto, RowType, Labels
    <2>2. CASE Start(r)
      <3>1. row' \in [Migrations -> RowType] /\ at' \in [Runs -> Labels]
            /\ status' \in [Runs -> Statuses \cup {"unknown"}] /\ broken' \subseteq Runs
        BY <1>v, <2>2, CommitEffect DEF Start, Labels
      <3> QED
        BY <1>t, <1>u, <2>2, <3>1 DEF Start
    <2>3. CASE (Find(r) \/ Export(r)) /\ UNCHANGED <<age, of, images, servers, sweep, swept>>
      <3>1. row' \in [Migrations -> RowType] /\ at' \in [Runs -> Labels]
            /\ status' \in [Runs -> Statuses \cup {"unknown"}] /\ broken' \subseteq Runs
        BY <1>v, <2>3, CommitEffect DEF Find, Export, Labels
      <3> QED
        BY <1>t, <1>u, <2>3, <3>1
    <2>4. CASE Upload(r)
      <3>1. row' \in [Migrations -> RowType] /\ at' \in [Runs -> Labels]
            /\ status' \in [Runs -> Statuses \cup {"unknown"}] /\ broken' \subseteq Runs
        BY <1>v, <2>4, CommitEffect DEF Upload, Labels
      <3> QED
        BY <1>t, <1>u, <2>4, <3>1 DEF Upload
    <2>5. CASE Boot(r)
      BY <1>t, <1>u, <2>5 DEF Boot, goto, Labels
    <2>6. CASE Complete(r)
      <3>1. row' \in [Migrations -> RowType] /\ at' \in [Runs -> Labels]
            /\ status' \in [Runs -> Statuses \cup {"unknown"}] /\ broken' \subseteq Runs
        BY <1>v, <2>6, CommitEffect DEF Complete, Labels
      <3> QED
        BY <1>t, <1>u, <2>6, <3>1 DEF Complete
    <2>7. CASE Raise(r)
      BY <1>t, <1>u, <2>7 DEF Raise, goto, Labels
    <2>8. CASE Except(r)
      <3> DEFINE w == written(of[r], status[r], "failed", 0, NoRun)
      <3>1. w \in RowType
        BY <1>v, WrittenRow
      <3>2. row' \in {row, [row EXCEPT ![of[r]] = w]}
        BY <2>8 DEF Except
      <3> HIDE DEF w
      <3>3. row' \in [Migrations -> RowType]
        BY <1>t, <3>1, <3>2
      <3> QED
        BY <1>t, <1>u, <2>8, <3>3 DEF Except, goto, Labels
    <2>9. CASE Crash(r)
      BY <1>t, <1>u, <2>9 DEF Crash, goto, Labels
    <2> QED
      BY <1>1, <2>1, <2>2, <2>3, <2>4, <2>5, <2>6, <2>7, <2>8, <2>9 DEF RunStep
  <1>2. ASSUME NEW m \in Migrations, NEW p \in {0, 100}, Create(m) \/ Report(m, p) PROVE Typed'
    <2>0. "queued" \in Statuses /\ p \in Progress /\ row[m] \in RowType
      BY <1>t DEF Statuses, Progress
    <2>1. /\ [row[m] EXCEPT !.status = "queued"] \in RowType
          /\ [row[m] EXCEPT !.progress = p] \in RowType
      BY <2>0 DEF RowType
    <2>2. \/ row' = [row EXCEPT ![m] = [row[m] EXCEPT !.status = "queued"]]
          \/ row' = [row EXCEPT ![m] = [row[m] EXCEPT !.progress = p]]
      BY <1>t, <1>2 DEF Create, Report
    <2>3. row' \in [Migrations -> RowType]
      BY <1>t, <2>1, <2>2
    <2> QED
      BY <1>t, <1>u, <1>2, <2>3 DEF Create, Report, runVars
  <1>3. CASE Hour
    BY <1>t, <1>u, <1>3, StaleAssumption DEF Hour, runVars
  <1>4. CASE CleanupSelect
    BY <1>t, <1>u, <1>4 DEF CleanupSelect, stale, runVars
  <1>5. CASE CleanupCommit
    <2>1. \A m \in Migrations : [row[m] EXCEPT !.status = "failed", !.progress = 0] \in RowType
      BY <1>t, <1>v DEF RowType
    <2>2. row' \in [Migrations -> RowType]
      BY <1>t, <1>5, <2>1 DEF CleanupCommit
    <2> QED
      BY <1>t, <1>u, <1>5, <2>2 DEF CleanupCommit, runVars
  <1>6. CASE UNCHANGED migrationVars
    BY <1>6 DEF migrationVars, runVars, MigrationTypeOK
  <1> QED
    BY <1>1, <1>2, <1>3, <1>4, <1>5, <1>6 DEF MigrationNext

\* Every step of the system keeps the invariant.
LEMMA NextIInv == ASSUME IInv, [MigrationNext]_migrationVars PROVE IInv'
  <1>0. Typed' /\ Typed
    BY TypedKept DEF IInv
  <1>1. ASSUME NEW r \in Runs, RunStep(r) PROVE Kept'
    <2>s. "in_progress" \in Statuses /\ "completed" \in Statuses
          /\ {10, 30, 50, 70, 100} \subseteq Progress
      BY DEF Statuses, Progress
    <2>1. CASE Start(r)
      <3>1. Committed(r, "in_progress", NoRun, "find")
        BY <1>0, <2>s, <2>1, CommitEffect DEF Start, Labels
      <3> QED
        BY <2>1, <3>1, ProgressKeeps DEF Start
    <2>2. CASE Find(r) /\ UNCHANGED <<age, of, images, servers, sweep, swept>>
      <3>1. Committed(r, "in_progress", NoRun, "export")
        BY <1>0, <2>s, <2>2, CommitEffect DEF Find, Labels
      <3> QED
        BY <2>2, <3>1, ProgressKeeps DEF Find
    <2>3. CASE Export(r) /\ UNCHANGED <<age, of, images, servers, sweep, swept>>
      <3>1. Committed(r, "in_progress", NoRun, "upload")
        BY <1>0, <2>s, <2>3, CommitEffect DEF Export, Labels
      <3> QED
        BY <2>3, <3>1, ProgressKeeps DEF Export
    <2>4. CASE Upload(r)
      <3>1. Committed(r, "in_progress", NoRun, "boot")
        BY <1>0, <2>s, <2>4, CommitEffect DEF Upload, Labels
      <3> QED
        BY <2>4, <3>1, ProgressKeeps DEF Upload
    <2>5. CASE Complete(r)
      <3>1. Committed(r, "completed", r, "ended")
        BY <1>0, <2>s, <2>5, CommitEffect DEF Complete, Labels
      <3> QED
        BY <2>5, <3>1, CompleteKeeps DEF Complete
    <2> QED
      BY <1>1, <2>1, <2>2, <2>3, <2>4, <2>5, ExecuteKeeps, BootKeeps, RaiseKeeps,
         ExceptKeeps, CrashKeeps DEF RunStep
  <1>2. ASSUME NEW m \in Migrations, Create(m) PROVE Kept'
    BY <1>2, CreateKeeps
  <1>3. ASSUME NEW m \in Migrations, NEW p \in {0, 100}, Report(m, p) PROVE Kept'
    BY <1>0, <1>3, OthersKeep DEF Report, Typed, MigrationTypeOK
  <1>4. ASSUME Hour \/ CleanupSelect PROVE Kept'
    BY <1>4, OthersKeep DEF Hour, CleanupSelect
  <1>5. ASSUME CleanupCommit PROVE Kept'
    BY <1>5, CleanupKeeps
  <1>6. ASSUME UNCHANGED migrationVars PROVE Kept'
    BY <1>6, OthersKeep DEF migrationVars
  <1>7. Kept'
    BY <1>1, <1>2, <1>3, <1>4, <1>5, <1>6 DEF MigrationNext
  <1> QED
    BY <1>0, <1>7 DEF IInv, Kept

\* The invariant holds in every reachable state.
LEMMA Invariance == MigrationSpec => []IInv
  BY InitIInv, NextIInv, PTL DEF MigrationSpec

\* A migration that reads completed has its server: its destination is one that a run
\* of it booted from an image it uploaded, whatever the cleanup, repeated runs, failed
\* commits and the progress endpoint do to the row (execute_vmware_migration).
THEOREM CompletedIsThere == MigrationSpec => []CompletedHasServer
  <1>1. IInv => CompletedHasServer
    BY DEF IInv, DestinationOK, CompletedHasServer
  <1> QED
    BY <1>1, Invariance, PTL

\* A migration reads failed with its server created, or in progress with nobody at
\* work on it, only after the cleanup marked it, a run of it crashed or lost a commit
\* or an answer, or a second run of it began.
THEOREM VerdictsExplained == MigrationSpec => []VerdictExplained
  <1>1. IInv => FailedVerdictExplained
    <2> SUFFICES ASSUME IInv, NEW m \in Migrations, row[m].status = "failed",
                        NEW r \in RunsOf(m) \cap servers, ~Live(r), Undisturbed(m)
                 PROVE  FALSE
      BY DEF FailedVerdictExplained, Undisturbed
    <2>1. RowFollowsRun(m)
      BY DEF IInv
    <2> QED
      BY <2>1 DEF RowFollowsRun, Working, Live
  <1>2. IInv => StuckExplained
    BY DEF IInv, Attended, StuckExplained
  <1> QED
    BY <1>1, <1>2, Invariance, PTL DEF VerdictExplained
=============================================================================
