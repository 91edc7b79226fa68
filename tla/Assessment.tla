------------------------------ MODULE Assessment ------------------------------
(***************************************************************************)
(* The requests that assess vCenter VMs (api/v1/endpoints/vmware/assessment *)
(* and services/vmware/parallel_assessment).                                *)
(*                                                                          *)
(* Every request has services of its own: an inventory with a list cache, a *)
(* mapping engine with its lists, a dictionary of progress records.  What   *)
(* requests share is vCenter, OpenStack, the queue-depth gauge and the      *)
(* event loop.  An evaluation never awaits, so the loops of /assess and     *)
(* /plan hold the event loop, and the timer of asyncio.wait_for around one  *)
(* cannot fire: it is looked at only after the evaluation is over.  But a   *)
(* TimeoutError that a vCenter call raises, which since Python 3.11 is      *)
(* asyncio.TimeoutError, is taken for that timer.                           *)
(*                                                                          *)
(* A step is the code from one await to the next; in the loops, which take  *)
(* long enough for vCenter to change meanwhile, it is one VM, and while a   *)
(* list is made, one call to vCenter.                                       *)
(***************************************************************************)
EXTENDS PlanService, OperationTask, FiniteSets

CONSTANTS
    Scenarios,   \* what a behaviour starts from: inventories vCenter may show, in
                 \* turn, OpenStack's flavors and networks, the requests
    MaxExpiries  \* bound: how often a list cache of a request times out

ASSUME ScenariosAssumption ==
    \A w \in Scenarios : \A r \in Requests :
        LET ids == w.requests[r].vm_ids IN ids \in Seq(ToSet(ids))

VARIABLES
    world,       \* the scenario
    shown,       \* which of its inventories vCenter shows: VM id -> VM
    phase, reply,
    left,        \* the ids a loop has still to assess
    reading,     \* the list of VMs list_vms is making
    cache,       \* the inventory service's list cache
    lists,       \* the OpenStack lists the mapping engine has
    results,     \* the verdicts collected so far
    job,         \* parallel: the state of the coroutine of each entry of vm_ids
    finished,    \* parallel: results as_completed has not yet handed over
    raised,      \* parallel: what the evaluations of each entry raised, in turn
    progress,    \* parallel: the progress record
    plan,
    gauge,       \* vmw_assessment_queue_depth
    expiries

serviceVars == <<reading, cache, lists, expiries>>
workVars == <<left, results, job, finished, raised, progress, plan>>
assessmentVars == <<world, shown, phase, reply, serviceVars, workVars, gauge, taskVars>>

req(r) == world.requests[r]
size(r) == Len(req(r).vm_ids)
inventory == world.inventories[shown]

\* A list of VMs: which of vCenter's states was listed, 0 for no list, and the VMs
\* read so far, each with the state it was read in.
NoList == [listed |-> 0, items |-> <<>>]
NoVerdict == [status |-> "none"]

AssessmentInit ==
    /\ world \in Scenarios
    /\ shown = 1
    /\ phase = [r \in Requests |-> "idle"]
    /\ reply = [r \in Requests |-> "none"]
    /\ left = [r \in Requests |-> req(r).vm_ids]
    /\ reading = [r \in Requests |-> NoList]
    /\ cache = [r \in Requests |-> NoList]
    /\ lists = [r \in Requests |-> {}]
    /\ results = [r \in Requests |-> <<>>]
    /\ job = [r \in Requests |-> [i \in 1..size(r) |-> "new"]]
    /\ finished = [r \in Requests |-> <<>>]
    /\ raised = [r \in Requests |-> [i \in 1..size(r) |-> <<>>]]
    /\ progress = [r \in Requests |-> [completed |-> 0, failed |-> 0, status |-> "none"]]
    /\ plan = [r \in Requests |-> <<>>]
    /\ gauge = 0
    /\ expiries = 0
    /\ TaskInit

Reading(r) == reading[r].listed # 0

\* Only one coroutine runs; neither a loop over VMs nor list_vms lets go.  The
\* endpoints of kind "single" run in threads.
LoopFree(r) ==
    \A q \in Requests \ {r} :
        phase[q] # "loop" /\ (Reading(q) => req(q).kind = "single")

GotoPhase(r, step) == phase' = [phase EXCEPT ![r] = step] /\ UNCHANGED reply

End(r, answer) ==
    /\ phase' = [phase EXCEPT ![r] = "done"]
    /\ reply' = [reply EXCEPT ![r] = answer]

-----------------------------------------------------------------------------
(* list_vms: a list, and then calls for each VM of it. *)

held(r) == {i \in DOMAIN job[r] : job[r][i] \in {"try", "retry"}}

\* Faulty variant: use_cache=False.
cachedNever(r) == FALSE

\* list_vms(use_cache=True) has a list: one is kept once it was made, even if empty.
cached(r) == cache[r].listed # 0

\* The next thing that happens in the request is an evaluation.
Evaluating(r) ==
    \/ phase[r] = "loop"
    \/ phase[r] = "gather" /\ held(r) # {} /\ LoopFree(r)
    \/ phase[r] = "idle" /\ req(r).kind = "single"

unread(r) == DOMAIN world.inventories[reading[r].listed] \ DOMAIN reading[r].items

\* factory.list_vms: the objects of a container view.
ListVMs(r) ==
    /\ Evaluating(r) /\ ~cached(r) /\ ~Reading(r)
    /\ reading' = [reading EXCEPT ![r].listed = shown]
    /\ UNCHANGED <<world, shown, phase, reply, cache, lists, expiries, workVars, gauge, taskVars>>

\* _build_vm_summary asks vCenter for one of them, which must still be there.
ReadVM(r) ==
    /\ Reading(r)
    /\ \E id \in unread(r) \cap DOMAIN inventory :
          reading' = [reading EXCEPT ![r].items =
                        [x \in DOMAIN @ \cup {id} |->
                            IF x # id THEN @[x]
                            ELSE [at |-> shown, vm |-> _build_vm_summary(inventory[id])]]]
    /\ UNCHANGED <<world, shown, phase, reply, cache, lists, expiries, workVars, gauge, taskVars>>

\* list_vms returns a list, and the one it made is kept.
ListReady(r) == cached(r) \/ (Reading(r) /\ unread(r) = {})
list_vms(r) == IF cached(r) THEN cache[r] ELSE reading[r]

KeepList(r) ==
    /\ ListReady(r)
    /\ cache' = [cache EXCEPT ![r] = list_vms(r)]
    /\ reading' = [reading EXCEPT ![r] = NoList]

-----------------------------------------------------------------------------
(* Evaluating one VM. *)

\* The lists map_vm asks OpenStack for.
needed(r, vm) ==
    IF ~req(r).include_mapping THEN {}
    ELSE {"flavors"} \cup (IF vm.hardware.nics = <<>> THEN {} ELSE {"networks"})

\* The verdict on an id, from a list: get_vm, evaluate and map_vm.
verdict(r, id, list) ==
    IF id \notin DOMAIN list.items THEN [vm_id |-> id, status |-> "failed", listed |-> list.listed]
    ELSE LET vm == list.items[id].vm
         IN  [vm_id |-> id, status |-> "completed", listed |-> list.listed,
              at |-> list.items[id].at, vm |-> vm,
              compatibility |-> evaluate(vm),
              mapping |-> IF req(r).include_mapping
                          THEN map_vm(world.flavors, world.networks, vm) ELSE NoVerdict]

\* An evaluation returns the verdict v.
Evaluated(r, v) ==
    /\ KeepList(r)
    /\ lists' = [lists EXCEPT ![r] = @ \cup (IF v.status = "failed" THEN {} ELSE needed(r, v.vm))]

\* An evaluation raises an exception of a kind: vCenter cannot be listed or a VM of
\* the list cannot be read, perhaps for a TimeoutError of the socket; or a list of
\* OpenStack's is missing and cannot be had, where the SDK and call() have
\* exceptions of their own.  What was fetched before is kept.
EvaluationRaises(r, id, kind) ==
    \/ /\ kind \in {"error", "timeout"}
       /\ ~cached(r) /\ ~ListReady(r)
       /\ reading' = [reading EXCEPT ![r] = NoList]
       /\ UNCHANGED <<cache, lists>>
    \/ /\ kind = "error"
       /\ KeepList(r)
       /\ \E list \in {list_vms(r)} :
             /\ id \in DOMAIN list.items
             /\ \E missing \in needed(r, list.items[id].vm) \ lists[r] :
                   lists' = [lists EXCEPT ![r] = @ \cup (IF missing = "networks" THEN {"flavors"} ELSE {})]

-----------------------------------------------------------------------------
(* The beginning, common to /assess, /plan and /assess/parallel. *)

\* /assess and /plan build their payload, which must name a VM; assess_parallel
\* opens its progress record and sets the gauge.
BeginAssessment(r) ==
    /\ phase[r] = "idle" /\ LoopFree(r)
    /\ \/ /\ req(r).kind \in {"assess", "plan"}
          /\ IF size(r) = 0 THEN End(r, "error") ELSE GotoPhase(r, "create")
          /\ UNCHANGED <<progress, gauge>>
       \/ /\ req(r).kind = "parallel"
          /\ progress' = [progress EXCEPT ![r].status = "running"]
          /\ gauge' = size(r)
          /\ GotoPhase(r, "create")
    /\ UNCHANGED <<world, shown, serviceVars, taskVars,
                   left, results, job, finished, raised, plan>>

CreateAssessTask(r) ==
    /\ phase[r] = "create" /\ LoopFree(r)
    /\ \/ Write(r, "queued") /\ GotoPhase(r, "mark")
       \/ WriteRaises(r, "queued") /\ End(r, "error")
    /\ UNCHANGED <<world, shown, serviceVars, workVars, gauge>>

final_status(p) == IF p.failed = 0 THEN "completed" ELSE "completed_with_errors"

\* as_completed of no coroutines ends at once.
MarkAssessRunning(r) ==
    /\ phase[r] = "mark" /\ LoopFree(r)
    /\ \/ /\ Write(r, "running")
          /\ IF req(r).kind # "parallel" THEN GotoPhase(r, "loop") /\ UNCHANGED progress
             ELSE IF size(r) > 0 THEN GotoPhase(r, "gather") /\ UNCHANGED progress
             ELSE /\ GotoPhase(r, "record")
                  /\ progress' = [progress EXCEPT ![r].status = "completed"]
       \/ WriteRaises(r, "running") /\ End(r, "error") /\ UNCHANGED progress
    /\ UNCHANGED <<world, shown, serviceVars, gauge,
                   left, results, job, finished, raised, plan>>

-----------------------------------------------------------------------------
(* /assess and /plan. *)

\* One VM of the loop; ids that are not found are skipped.
AssessNext(r) ==
    LET id == Head(left[r])
        keep(v) == results' = [results EXCEPT ![r] = IF v.status = "failed" THEN @ ELSE Append(@, v)]
    IN  /\ phase[r] = "loop"
        /\ \/ /\ \E v \in {verdict(r, id, list_vms(r))} : Evaluated(r, v) /\ keep(v)
              /\ left' = [left EXCEPT ![r] = Tail(@)]
              /\ IF Len(left[r]) = 1 THEN GotoPhase(r, "record") ELSE GotoPhase(r, "loop")
           \/ /\ \E kind \in {"error", "timeout"} : EvaluationRaises(r, id, kind)
              /\ GotoPhase(r, "fail")
              /\ UNCHANGED <<results, left>>
        /\ UNCHANGED <<world, shown, expiries, job, finished, raised, progress, plan, gauge, taskVars>>

\* The summary or the plan (its priorities are never overridden), and
\* update_task(succeeded), still in the try.
Conclude(r) ==
    /\ phase[r] = "record" /\ req(r).kind \in {"assess", "plan"} /\ LoopFree(r)
    /\ plan' = [plan EXCEPT ![r] = IF req(r).kind = "plan"
                                   THEN generate_plan(results[r], <<>>).vms ELSE @]
    /\ \/ Write(r, "succeeded") /\ End(r, "ok")
       \/ WriteRaises(r, "succeeded") /\ GotoPhase(r, "fail")
    /\ UNCHANGED <<world, shown, serviceVars, gauge,
                   left, results, job, finished, raised, progress>>

\* The except clause.
MarkFailed(r) ==
    /\ phase[r] = "fail" /\ LoopFree(r)
    /\ Write(r, "failed") \/ WriteRaises(r, "failed")
    /\ End(r, "error")
    /\ UNCHANGED <<world, shown, serviceVars, workVars, gauge>>

-----------------------------------------------------------------------------
(* /assess/parallel. *)

\* _evaluate_one enters the semaphore and waits for its first evaluation.
AcquireSlot(r, i) ==
    /\ phase[r] = "gather" /\ LoopFree(r) /\ ~Reading(r)
    /\ job[r][i] = "new" /\ Cardinality(held(r)) < req(r).max_concurrency
    /\ job' = [job EXCEPT ![r][i] = "try"]
    /\ UNCHANGED <<world, shown, phase, reply, serviceVars, gauge, taskVars,
                   left, results, finished, raised, progress, plan>>

failure(r, i, kind) ==
    [vm_id |-> req(r).vm_ids[i], status |-> IF kind = "timeout" THEN "timeout" ELSE "failed",
     listed |-> 0]

\* Faulty variant: an evaluation that raised is not repeated.
HandOverAtOnce(r, i, kind) ==
    /\ job' = [job EXCEPT ![r][i] = "done"]
    /\ finished' = [finished EXCEPT ![r] = Append(@, failure(r, i, kind))]

\* Faulty variant: a failure is handed over before the retry, and again after it.
HandOverTwice(r, i, kind) ==
    /\ job' = [job EXCEPT ![r][i] = IF kind = "error" /\ job[r][i] = "try" THEN "retry" ELSE "done"]
    /\ finished' = [finished EXCEPT ![r] = Append(@, failure(r, i, kind))]

\* A TimeoutError gives the result "timeout" at once; after another exception the
\* evaluation is repeated, once, and then the result is "failed".
HandOver(r, i, kind) ==
    \/ /\ kind = "error" /\ job[r][i] = "try"
       /\ job' = [job EXCEPT ![r][i] = "retry"]
       /\ UNCHANGED finished
    \/ /\ kind = "timeout" \/ job[r][i] = "retry"
       /\ job' = [job EXCEPT ![r][i] = "done"]
       /\ finished' = [finished EXCEPT ![r] = Append(@, failure(r, i, kind))]

\* _evaluate_single, and what _evaluate_one makes of it.
EvaluateOne(r, i) ==
    LET id == req(r).vm_ids[i]
        hand(v) == finished' = [finished EXCEPT ![r] = Append(@, v)]
    IN  /\ phase[r] = "gather" /\ LoopFree(r) /\ i \in held(r)
        /\ \/ /\ \E v \in {verdict(r, id, list_vms(r))} : Evaluated(r, v) /\ hand(v)
              /\ job' = [job EXCEPT ![r][i] = "done"]
              /\ UNCHANGED raised
           \/ \E kind \in {"error", "timeout"} :
                 /\ EvaluationRaises(r, id, kind)
                 /\ raised' = [raised EXCEPT ![r][i] = Append(@, kind)]
                 /\ HandOver(r, i, kind)
        /\ UNCHANGED <<world, shown, phase, reply, expiries, gauge, taskVars,
                       left, results, progress, plan>>

counted(p, v) ==
    IF v.status = "completed" THEN [p EXCEPT !.completed = @ + 1]
    ELSE [p EXCEPT !.failed = @ + 1]

\* Faulty variant: only completed evaluations are taken off the gauge.
remainingOpen(r, p) == size(r) - p.completed

remaining(r, p) == size(r) - p.completed - p.failed

\* The loop over as_completed takes a result; after the last one the record gets
\* its final status.
Collect(r) ==
    /\ phase[r] = "gather" /\ LoopFree(r) /\ ~Reading(r) /\ finished[r] # <<>>
    /\ LET v == Head(finished[r])
           p == counted(progress[r], v)
       IN  /\ results' = [results EXCEPT ![r] = Append(@, v)]
           /\ finished' = [finished EXCEPT ![r] = Tail(@)]
           /\ gauge' = remaining(r, p)
           /\ IF Len(results[r]) + 1 = size(r)
              THEN /\ progress' = [progress EXCEPT ![r] = [p EXCEPT !.status = final_status(p)]]
                   /\ GotoPhase(r, "record")
              ELSE progress' = [progress EXCEPT ![r] = p] /\ UNCHANGED <<phase, reply>>
    /\ UNCHANGED <<world, shown, serviceVars, taskVars, left, job, raised, plan>>

\* update_task with the outcome, then the finally clause.  There is no except.
ConcludeParallel(r) ==
    LET state == IF progress[r].status = "completed" THEN "succeeded" ELSE "failed"
    IN  /\ phase[r] = "record" /\ req(r).kind = "parallel" /\ LoopFree(r)
        /\ \/ Write(r, state) /\ End(r, "ok")
           \/ WriteRaises(r, state) /\ End(r, "error")
        /\ gauge' = 0
        /\ UNCHANGED <<world, shown, serviceVars, workVars>>

-----------------------------------------------------------------------------
(* The endpoints in threads, and the lookup of progress. *)

\* /assess/{vm_id}/compatibility and /mapping, on services of their own.
AssessSingle(r) ==
    LET id == req(r).vm_ids[1]
        answer(v) == IF v.status = "failed" THEN End(r, "not found") /\ UNCHANGED results
                     ELSE End(r, "ok") /\ results' = [results EXCEPT ![r] = <<v>>]
    IN  /\ phase[r] = "idle" /\ req(r).kind = "single"
        /\ \/ \E v \in {verdict(r, id, list_vms(r))} : Evaluated(r, v) /\ answer(v)
           \/ /\ \E kind \in {"error", "timeout"} : EvaluationRaises(r, id, kind)
              /\ End(r, "error") /\ UNCHANGED results
        /\ UNCHANGED <<world, shown, expiries, gauge, taskVars,
                       left, job, finished, raised, progress, plan>>

\* GET /assess/parallel/{task_id} looks in the dictionary of its own service.
get_progress(r) ==
    /\ phase[r] = "idle" /\ req(r).kind = "progress" /\ LoopFree(r)
    /\ End(r, IF progress[r].status = "none" THEN "not found" ELSE "ok")
    /\ UNCHANGED <<world, shown, serviceVars, workVars, gauge, taskVars>>

-----------------------------------------------------------------------------
(* The surroundings. *)

\* vCenter changes.
Drift ==
    /\ shown < Len(world.inventories)
    /\ shown' = shown + 1
    /\ UNCHANGED <<world, phase, reply, serviceVars, workVars, gauge, taskVars>>

\* The list of a request is 300 seconds old.
Expire(r) ==
    /\ phase[r] \in {"loop", "gather"} /\ cache[r].listed # 0 /\ expiries < MaxExpiries
    /\ cache' = [cache EXCEPT ![r] = NoList]
    /\ expiries' = expiries + 1
    /\ UNCHANGED <<world, shown, phase, reply, reading, lists, workVars, gauge, taskVars>>

AssessmentNext ==
    \/ \E r \in Requests :
          \/ ListVMs(r) \/ ReadVM(r)
          \/ BeginAssessment(r) \/ CreateAssessTask(r) \/ MarkAssessRunning(r)
          \/ AssessNext(r) \/ Conclude(r) \/ MarkFailed(r)
          \/ \E i \in DOMAIN job[r] : AcquireSlot(r, i) \/ EvaluateOne(r, i)
          \/ Collect(r) \/ ConcludeParallel(r)
          \/ AssessSingle(r) \/ get_progress(r)
          \/ Expire(r)
    \/ Drift

AssessmentSpec == AssessmentInit /\ [][AssessmentNext]_assessmentVars
-----------------------------------------------------------------------------
(* Properties. *)

\* How often an id is in a sequence of records.
times(seq, id) == Cardinality({k \in DOMAIN seq : seq[k].vm_id = id})

\* Each entry of vm_ids gets one result: while assess_parallel runs, every entry
\* is at work, handed over or counted, and never two of these, the record's
\* numbers are those of the results taken, and when it is over the record is
\* complete and its status, and the task row if it could be written, tell
\* whether all were assessed.  Repeated ids count repeatedly.
EveryEntryOnce ==
    \A r \in Requests : req(r).kind = "parallel" =>
        LET over == {i \in DOMAIN job[r] : job[r][i] = "done"}
            all  == results[r] \o finished[r]
        IN  /\ \A id \in ToSet(req(r).vm_ids) :
                  times(all, id) = Cardinality({i \in over : req(r).vm_ids[i] = id})
            /\ progress[r].completed + progress[r].failed = Len(results[r])
            /\ phase[r] = "done" /\ task[r] \in {"succeeded", "failed"} =>
                  /\ Len(results[r]) = size(r)
                  /\ (task[r] = "succeeded") <=> (\A i \in DOMAIN results[r] :
                                                     results[r][i].status = "completed")

\* What the retry of _evaluate_one is for: a VM that vCenter shows all the time is
\* reported as failed only if both evaluations of its entry raised, and as timed out
\* only if one of them raised a TimeoutError, after which there is no other.
FailedOnlyAfterRetry ==
    \A r \in Requests : \A k \in DOMAIN results[r] :
        LET v == results[r][k]
        IN  /\ v.status # "completed"
            /\ \A s \in 1..shown : v.vm_id \in DOMAIN world.inventories[s]
            => \E i \in DOMAIN req(r).vm_ids :
                  /\ req(r).vm_ids[i] = v.vm_id /\ job[r][i] = "done"
                  /\ raised[r][i] \in IF v.status = "failed" THEN {<<"error", "error">>}
                                      ELSE {<<"timeout">>, <<"error", "timeout">>}

\* The list cache of the request's inventory service.  A list may mix states of
\* vCenter, since its VMs are read one after the other; but as long as it does not
\* time out, all verdicts of a request, and so the VMs of a plan, come from one
\* list: an id has one verdict however often it is asked for, every VM is described
\* as it was when the list was made or later, and an id is not found only if
\* vCenter did not show it then.
OneListing ==
    expiries = 0 => \A r \in Requests :
        LET made == {k \in DOMAIN results[r] : results[r][k].listed # 0}
        IN  \A j, k \in made :
                LET v == results[r][j]
                    w == results[r][k]
                IN  /\ v.listed = w.listed
                    /\ v.vm_id = w.vm_id => v = w
                    /\ IF v.status = "completed" THEN v.at \in v.listed..shown
                       ELSE v.vm_id \notin DOMAIN world.inventories[v.listed]

\* What makes a vCenter VM fit, said of vCenter's own description: running or
\* off, of no unsupported system, with processors and memory, and with at most
\* two of four doubts (no name of the system, no disk layout, secure boot, an IDE
\* controller).
Fit(vm) ==
    LET name   == IF vm.guest.present THEN vm.guest.name ELSE vm.summaryName
        doubts == {d \in {"name", "disk", "boot", "ide"} :
                      \/ d = "name" /\ name = NoName
                      \/ d = "disk" /\ vm.layout = <<>>
                      \/ d = "boot" /\ vm.bootOptions = "secure"
                      \/ d = "ide" /\ \E i \in DOMAIN vm.device :
                                          vm.device[i].class = "VirtualIDEController"}
    IN  /\ vm.powerState # "suspended" /\ vm.numCPU > 0 /\ vm.memoryMB > 0
        /\ name = NoName \/ "unsupported" \notin name
        /\ Cardinality(doubts) <= 2

\* The whole way from vCenter through get_vm_detail, the checks and their score:
\* a VM is called compatible if and only if it is fit, and a plan holds the fit
\* ones among the VMs it was asked for and no others, each as often as asked for
\* unless the list timed out meanwhile.
VerdictsAreRight ==
    \A r \in Requests :
        LET fit(v) == Fit(world.inventories[v.at][v.vm_id])
            ids    == req(r).vm_ids
        IN  /\ \A k \in DOMAIN results[r] :
                  results[r][k].status = "completed" =>
                      results[r][k].compatibility.compatible = fit(results[r][k])
            /\ req(r).kind = "plan" /\ reply[r] = "ok" =>
                  /\ \A k \in DOMAIN plan[r] : plan[r][k].vm_id \in ToSet(ids)
                  /\ \A id \in ToSet(ids) :
                        LET fits == times(SelectSeq(results[r], fit), id)
                        IN  /\ times(plan[r], id) = fits
                            /\ expiries = 0 =>
                                  fits \in {0, Cardinality({i \in DOMAIN ids : ids[i] = id})}

\* What VMwarePlanService says of its order: VMs that are powered on come first.
PoweredOnFirst ==
    \A r \in Requests :
        LET on(p) == \E v \in ToSet(results[r]) :
                        v.vm_id = p.vm_id /\ v.vm.power_state = "poweredOn"
        IN  \A i, j \in DOMAIN plan[r] : i < j /\ on(plan[r][j]) => on(plan[r][i])

\* What is asked of the match `best` among the flavors for a target t: there is one
\* if there are flavors; if it is large enough, no other flavor that is large enough
\* is smaller; and an exact match is always found.
minimalMatch(flavors, t, best) ==
    LET fits == {k \in DOMAIN flavors : ~under(flavors[k], t)}
    IN  /\ best = NoFlavor <=> flavors = <<>>
        /\ best # NoFlavor /\ best.overprovisioned =>
              ~\E k \in fits : LET f == flavors[k] IN
                  /\ f.vcpus <= best.vcpus /\ f.ram <= best.ram /\ f.disk <= best.disk
                  /\ f.vcpus < best.vcpus \/ f.ram < best.ram \/ f.disk < best.disk
        /\ \A k \in fits : LET f == flavors[k] IN
              f.vcpus = t.vcpus /\ f.ram = t.ram /\ f.disk = t.disk
                  => best.vcpus = f.vcpus /\ best.ram = f.ram /\ best.disk = f.disk

\* _match_flavor's distance serves its purpose for every VM that is mapped.
FlavorIsMinimal ==
    \A r \in Requests : \A i \in DOMAIN results[r] :
        results[r][i].status = "completed" /\ req(r).include_mapping =>
            minimalMatch(world.flavors, target(results[r][i].vm),
                         results[r][i].mapping.flavor_match)

\* Said of all verdicts with a mapping: P(KB of the VM's disks, GB of the volumes they
\* are mapped to, number of disks), for VMs with a layout none of whose disks share
\* a label.
ofCapacities(P(_, _, _)) ==
    \A r \in Requests : \A i \in DOMAIN results[r] :
        results[r][i].status = "completed" /\ req(r).include_mapping =>
            LET raw   == world.inventories[results[r][i].at][results[r][i].vm_id]
                disks == devices(raw, "VirtualDisk")
                real  == FoldLeft(LAMBDA sum, d : sum + d.capacityInKB, 0, disks)
                made  == FoldLeft(LAMBDA sum, m : sum + m.openstack_size_gb, 0,
                                  results[r][i].mapping.disk_mappings)
            IN  raw.layout # <<>> /\ IsInjective([k \in DOMAIN disks |-> disks[k].label])
                    => P(real, made, Len(disks))

\* The volumes of a mapping together are as large as the VM's disks, up to the
\* rounding, whichever way, of each disk: layout files and devices are both listed,
\* but the files count for nothing.
CapacityIsKept ==
    ofCapacities(LAMBDA real, made, n :
        IF n = 0 THEN made = 0
        ELSE real < (made + n) * KBPerGB /\ made * KBPerGB < real + n * KBPerGB)

\* What VMwareMappingEngine says of disks: sizes are rounded up, so that the volumes
\* hold what the disks hold.
VolumesHoldDisks == ofCapacities(LAMBDA real, made, n : made * KBPerGB >= real)

\* The two promises as one claim: every plan keeps at least one of them.  A state
\* that refutes it holds a plan in which a VM that is off comes before one that
\* runs, and volumes too small for their disks.
PlanKeepsPromise == PoweredOnFirst \/ VolumesHoldDisks

\* What the mapping engine promises of flavors and of volumes.
MappingIsRight == FlavorIsMinimal /\ CapacityIsKept

\* vmw_assessment_queue_depth: requests overwrite each other's value, yet what it
\* shows, if not 0, is what some request has still to do; only a request that
\* could not open its task, which is outside the try that resets the gauge,
\* leaves its number behind.
GaugeExplained ==
    gauge # 0 => \E r \in Requests :
        /\ req(r).kind = "parallel" /\ gauge = size(r) - Len(results[r])
        /\ phase[r] \notin {"idle", "done"} \/ (r \in taskLost /\ progress[r].status = "running")
=============================================================================
