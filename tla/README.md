# Verification of the vMachine backend

vMachine is a FastAPI control plane over OpenStack, vCenter and Kubernetes. It
runs as several gunicorn worker processes; each has one event loop, a thread
pool for the plain (non-`async`) endpoints and executor threads for blocking
calls. The processes share a database, a Redis server (optional) and the clouds.

This directory holds TLA+ models of the parts of `src/app` where that
concurrency and its failures matter, the TLC configurations that check them and
proofs that TLAPS checks. `PROJECT.json` maps every definition to the lines it
models and lists the runs, hazards, findings and theorems.

## 1. Inventory

| Component | State it keeps | Operations | Interacts with | What is hard | What makes it correct |
|---|---|---|---|---|---|
| Audit pipeline (`audit_service`, `middleware/audit`) | asyncio queue, worker's local batch, table | enqueue, flush when full / on timer / at the end, sentinel, drain | lifespan, database | timer against taken item, failing flush, shutdown order | each entry once, in order, eventually; bounded loss on shutdown |
| Metric pipeline (`monitoring_service`) | the same | `record_metric`, worker | lifespan, database | the same, without a drain | the same |
| Lifespan (`main.py`) | phase of start-up and shutdown | start workers, stop, drain, cancel, await | both pipelines | a cancellation that gets swallowed | shutdown ends |
| vCenter pool (`clients/vmware/pool`) | list of sessions with use counts, statistics | acquire, use, eject, health check, `disconnect_all` | request threads, vCenter | connecting outside the lock, sharing sessions, two health checks at once | bounded pool, no closed or expired session handed out, no leak |
| VM engine (`vm_provisioning_engine`) | none but a gauge and counters; Nova holds the servers | create, start, stop, reboot, delete, polling, cleanup | Nova through `call_with_timeout`, audit queue | abandoned calls that land late, check-then-act, cleanup that fails | truthful reports, no orphan without cause, no wrong delete, termination |
| List cache (`cache`, `openstack_cache`, `redis_cache`) | one entry per resource type and store, with TTL | get, set, invalidate, choice of backend at start-up | list and mutating methods of the OpenStack services, Redis | fetch overtaken by an invalidation, threads deleting the same entry, Redis errors | bounded staleness, changes become visible |
| Operation tasks (`operation_task_service`) and all mutating endpoints | `operation_tasks` rows, the clouds' resources, orchestration tables | create task, run, call the service, record, reply | every service, several processes | crashes, failing writes, lost answers, find-then-create, several calls in one operation | row, reply and cloud agree; names stay unique |
| Connection factory and singletons (`clients/openstack/connection`, `api/deps/services`) | one factory, one connection, one pool per process, made on first use | create, patch, call | all OpenStack and vCenter requests | two threads find None; a connection is published before its HTTP session is patched | once the start is over, everyone uses one configured connection |
| Cache counters and their export (`cache`, `redis_cache`, `main.py`) | counters, last exported values | increment, periodic export | list cache, Prometheus | lost increments, an expired entry deleted twice, totals added again | what is exported is what was counted |
| Inventory sync (`vmware/inventory_service`) | `resource_snapshots` rows, upsert tasks | list, read details, hand over, upsert | vCenter, database, operation tasks | upserts nobody awaits, two workers on one row, resources that vanish | a succeeded sync ends up in the table; rows do not go back |
| Assessments (`compatibility`, `mapping_engine`, `plan_service`, `parallel_assessment`) | list cache and progress of one request, a gauge | assess one, many, in parallel; plan; progress | vCenter, Nova, Neutron | retry, shared gauge, vCenter changing meanwhile, rounding | right verdicts, minimal flavors, every entry once |
| Monitoring and alerts (`monitoring_service`) | `metric_records`, `alert_records` | record, query, usage reports, alerts, dashboard | metric pipeline, Nova | batches committed between the queries of one report, two resolvers | figures are the subject's own and not too old; resolved stays resolved |
| Migrations (`migration_service`, archived `MigrationManager`, `worker.py`) | `migration_tasks` rows | create, progress, execute, cleanup | vCenter, Glance, Nova, database | cleanup against a live run, lost answers, a migration run twice | a completed row has its server; other rows can be explained |
| Assessment persistence | two tables nothing writes | save, list, delete | database | - | not modelled: no caller of the save methods |
| Authentication, schemas, models, routing, settings, logging, telemetry, domain managers, scripts | none of their own | - | - | - | not modelled |

## 2. Modules

| Module | Models | Notes |
|---|---|---|
| `FlushPipeline` | audit and metric pipeline, lifespan shutdown | `MCFlushPipeline` instantiates it; `FlushPipeline_proofs` |
| `FlushClock` | the flush timer in ticks | extended by `Monitoring`, and proved about there |
| `Monitoring` | metric rows, reports, alerts, dashboard, over `FlushClock` | `MCMonitoring`; `Monitoring_proofs` |
| `VMwarePool` | the vCenter connection pool | `MCThreads`; `VMware_proofs` |
| `ColdStart` | singletons and cached connections of a starting process | `MCThreads`; `ColdStart_proofs` |
| `VMEngine` | the VM engine and, as its environment, Nova | `VMEngine_proofs` |
| `ListCache` | what cached lists say, with the cache's callers | `MCThreads`; `Caches_proofs` |
| `CacheMetrics` | the cache's `get` statement by statement, its counters, their export | `MCThreads`; proved about in `Caches_proofs` |
| `OperationTask` | the row of an operation and writes that may fail | extended by the next three users of it |
| `Endpoints` | the mutating endpoints and service methods as a table | pure operators |
| `TrackedOperation` | a tracked request, the task row, processes and crashes | composes `Endpoints` and `OperationTask`; `TrackedOperation_proofs` |
| `OperationLifecycle` | what rows and effects of operations promise | abstract; `TrackedOperation` implements it |
| `InventorySync` | `POST /vmware/sync` on several workers | composes `OperationTask`; `MCInventorySync`; proved about in `VMware_proofs` |
| `VCenterInventory` | conversion of a vCenter VM into the program's own | pure operators |
| `Compatibility`, `MappingEngine`, `PlanService` | checks and scores; flavors, networks, volumes; plans | pure operators, each extending the one before |
| `Assessment` | all assessing requests | composes the four above and `OperationTask`; scenarios in `MCAssessment`, run by `MCVMware`; proved about in `VMware_proofs` |
| `Migration` | migration rows, the executor, the cleanup job | `MCVMware`; `Migration_proofs` |

Definitions named "Faulty variant" in their comment are plausible mistakes; no
specification uses them. Each stands for one mutation against which a property
is tested.

### FlushPipeline

An action is the code between two awaits that suspend. `queue`, `batch` and
`remaining` are the code's lists, `wpc` is where a worker is suspended, `got` is
the item that `asyncio.wait_for`'s inner task holds. `wait_for` is external, and
differs: up to Python 3.11 it runs `queue.get()` in a task of its own
(`detached`), from 3.12 on in the calling task. The container image has 3.11,
`pyproject.toml` admits both, so the variable is chosen at the start. `Handle`,
`HandleTimeout`, `FlushOk`, `FlushFail`, `FlushTimesOut` are the worker's loop
with its `try`; `Drain` is `drain_audit_queue` together with the synchronous
code around it in the lifespan (putting the metric sentinel, cancelling both
tasks). The audit sentinel is put, taken and skipped within `Drain`; no other sentinel
is in that queue by then, which the proof shows (`Sentinel`). A cancelled
transaction may or may not have committed.

### FlushClock

The same worker reduced to batch size, timer and age of the oldest entry, to
state how long an entry can wait in the batch, from the moment it is taken until its
transaction begins. What it spends in the queue before that, for instance behind a
transaction under way, and the transaction itself come on top, so the delays found are
lower bounds for the real ones, and the bound proved is the worker's own share.

### Monitoring

Extends `FlushClock`: `record_metric` is `Arrive`, the timeout flush is `Timeout`,
and with each goes what happens to the batch and the table. All rows of a batch
carry the time of their transaction, so an ORDER BY leaves their order open and
every query answers with any sequence the order admits. A row's value is its
number, so a figure names the row it came from. `get_hypervisor_usage` is four
steps, one for each statement; the figures other than the CPU's come from
dictionaries that each further row overwrites, so the oldest row of the window
stays (`lastOf`). `get_project_usage` asks for the names LIKE `'project_%'`, which is
more than the four it has figures for (the underscore stands for any character):
`ProjectLike` is a constant that contains the four, and a row of another matching
metric takes a place in the window. `resolve_alert` is three steps: get and clock, commit, refresh.
Requests are numbered as they come, which removes a symmetry. Nothing in `app/`
calls `create_alert`, and only `collect_hypervisor_metrics`, itself without a
caller, calls `record_metric`; both are treated as open to the environment.

### VMwarePool

Threads step through `acquire`: the due check, the stamp and the health check
(three steps: the first two are outside the lock), `_find_healthy` under the
lock, connecting outside it, publishing under it. Sessions are shared: `_find_healthy`
hands out a session other threads hold. `opened` and `closed` are what this
process did at vCenter, `dead` what vCenter did, `overflow` the sessions made
while the pool was full. An increment of a counter counts as one step, as it is
under CPython's lock.

### ColdStart

Threads of one process run the providers of `api/deps/services` and the factories'
`create`/`connect`, none of which takes a lock. A step is a statement that reads or
assigns a shared name; every statement reads the name again, so a thread can
construct an object, publish it over another's, and go on with the other. Objects
are numbered as they are made. `warm` remembers what was in place when a thread
began, which is what `WarmReuse` compares with.

### VMEngine

A request is a coroutine; `pc` names the await it is at. `call_with_timeout` may
raise before Nova acts, after Nova acted (answer lost), or while the thread goes
on: `late` remembers that call and `LateCall` lets it land, or not. Nova accepts
or refuses calls and finishes tasks in the background, with either result.
`Drift` is everything outside the engine.

### ListCache

The cloud's list is a version number. A request is in a thread; mutating
requests hold their process's event loop (`LoopFree`). `StoreOf` is where a
process caches: Redis if it answered at start-up, else a dictionary of its own,
for the life of the process. Entries carry their remaining life and the age of
the list, so that staleness can be stated. `announced` and `settled` are ghosts:
the changes whose invalidation was done, and those among them whose invalidation
was carried out while no older list was under way. Redis stores lists as JSON and
returns dictionaries; that conversion is left out, no property depends on it.

### CacheMetrics

`TTLCache.get` is split where another thread can come in between: the check of
`is_expired`, the `del`, the read and the write of the counter. The entry
is there or not. `RedisCache` has the same counters, and failing commands: a failed GET is a
miss and an error, a failed SETEX or DEL an error. `Sync` is one round of
`_sync_cache_metrics` with `_sync_redis_metrics`; it is in the event loop and reads
a snapshot. One resource stands for the four, which share nothing.

### Endpoints, OperationTask, TrackedOperation, OperationLifecycle

A service is a function from method names to records that say what a method
looks up, changes, needs and returns; an endpoint says which method it calls,
with what, and which field of the result it reads. `Tracked` compares the two:
whether an endpoint can work at all is computed, not declared. `TrackedOperation`
runs any two such operations on one resource: task row created, marked running
(both outside the `try`), service, marked succeeded, or marked failed. A write to
the row (`OperationTask`) can fail before or after its commit. A service call can
be refused, raise without effect, raise after its effect, or take effect later. A
process can die at any point. An SDK method holds its event loop from the lookup
to the last call (`Blocks`), a database method does not. The lookups of
`create_server` concern other resources and appear only as a call that raises.
POST is not among the retried methods (`_build_http_session`), so no call is
repeated.

`OperationLifecycle` is the abstract specification a reader of `operation_tasks`
would write: opened, running, decided; effects only once it runs, and no more than
the goal; succeeded only with all of them, the tolerant `batch_deploy` excepted;
a failure may follow a success (the write of `succeeded` was committed and raised),
nothing else reopens a decision. `ImplementsLifecycle` maps rows and effects of
`TrackedOperation` to it.

### InventorySync

A sync blocks its process from the first listing to the last hand-over; its
upserts are tasks of the event loop (`upserts`) that run when the process is free,
and other workers run all the time. A resource's content is a version number of
vCenter. An upsert is a select and then an update or insert; an insert beside an
existing row raises in a task whose exception nobody reads. `newest`, `base`,
`synced`, `overlapped` and `lost` are ghosts that say what was committed, seen,
handed over, worked on twice, and lost.

### VCenterInventory, Compatibility, MappingEngine, PlanService, Assessment

A VM is modelled as vCenter describes it (device list with classes and subtypes,
layout, guest information that may be missing); `get_vm_detail` and
`_build_vm_summary` convert it with their defaults and unreachable branches.
Names are sets of features or letters with a case flag, never strings. Scores are
integers (hundredths), gigabytes are `KBPerGB` kilobytes, thresholds are constants
in the proportions of the code. `Assessment` runs the requests: an evaluation
never awaits, so the loops of `/assess` and `/plan` hold the event loop; in the
parallel one the tasks hand over one at a time, and the gauge and progress are updated
after each. An evaluation that raises is tried again once; one that raises
`TimeoutError`, as a socket may since Python 3.11 made it the same class as asyncio's,
is not, and its entry ends as `timeout`. The calls of OpenStack raise exceptions of the
SDK or of `call()`, so a timeout comes only from vCenter; the timeout of `wait_for`
itself cannot fire around code that never awaits. `list_vms` is a listing (`ListVMs`)
and then calls for each VM of it (`ReadVM`), between which vCenter may change: a list
can mix states, and the reading of a VM that is gone raises. The attributes of one VM are
read in one step; that is the abstraction made here. The steps of a reading exclude the
other coroutines of the process, and not the endpoints that run in threads. A scenario fixes what vCenter shows,
the flavors and the requests; vCenter changes and calls fail at any step.

### Migration

`execute_vmware_migration` step by step: each commit may raise before or after it
took effect, each call may raise before or after, and a session that failed holds
a status nobody knows. The cleanup is a select and a commit of its own process,
on rows that were created long ago. Clients report progress through the API, which
passes no status and so changes the number only.

## 3. Runs

| Run | Instance (distinct states) | Shows |
|---|---|---|
| `flush_pipeline` | both pipes, batch 2, failing transactions, both kinds of `wait_for` (43 thousand, with liveness) | `LogIsFaithful`: in order and complete while serving, never twice, complete when a worker ends by itself; `AuditLossBounded`: a shutdown loses at most what one worker held; `EventuallyPersisted`; `CancelledShutdownEnds`: with 3.12's `wait_for` every shutdown ends |
| `flush_loss` (violated) | no failures | an orderly shutdown loses the entries in the worker's batch |
| `flush_delay` (violated) | `FlushClock`, batch 3, interval 2 | an entry that another joins just before the timer fires waits longer than the interval |
| `threads` | four parts in turn (4.5 million). Pool: 2 threads, 3 connections, 3 acquires, pool of 1. Lists: 3 requests in 2 processes, TTL 1, fetch 1, 2 changes; all memory, mixed, all Redis. Counters: 2 threads, 2 lookups, 1 invalidation, 3 exports, both backends. Start: 3 threads, 2 calls each | Pool: pool bound, no closed session in it, leaks only by overflow, counters, freshness. Lists: staleness below TTL plus a fetch, settled changes seen. Counters: Prometheus never behind the last export; exact, and each event exported once, where no increment was lost. Start: once no thread is inside a provider or a factory, the connection a factory holds is patched (a call made during the race may leave unpatched); a thread that finds the process warm uses only what it found |
| `expiry_race` (violated) | 2 threads, 3 lookups | two threads find one expired entry, and the second `del` raises `KeyError` |
| `export_recount` (violated) | 2 threads, 5 lookups, 3 exports | in one behaviour both exports count events twice: the Redis counters get the running totals every time, and a counter that an overtaken increment set back, and another put up again, is exported again |
| `vm_engine` | 2 requests of any kind, 2 servers, 1 outside change (258 thousand, with liveness) | one truthful audit entry, orphans explained, no wrong delete, success means what it says, every request ends |
| `tracked_operation` | 2 requests, in 1 or 2 processes, every kind of resource, batch of 2 (401 thousand, with liveness and refinement) | task row, reply and cloud agree up to named faults; names unique in one process and through unique columns; batch counts; the rows implement `OperationLifecycle`; termination |
| `vmware` | two parts in turn (1.9 million). Assessments: one VM of 1920 descriptions; 80 sizes against 4 flavor lists; 5 pairs of requests over a vCenter that suspends one VM and removes another at once, 3 requests alone over one that does so in two steps, a plan with a VM that is off. Migrations: 2 migrations, 2 runs, 2 faults, cleanup after 1 hour | Assessments: verdicts equal `Fit`, a reference on vCenter's own description, and a plan holds the fit VMs as often as asked for; the flavor is minimal and volumes keep the capacity up to the rounding of each disk; each entry once, failed only after a retry and timed out only by a `TimeoutError`; one list for a request, with every VM as it was when the list was made or later; the gauge explained. Migrations: a completed row names a server its own run made from its own image; a failed verdict over a living server, and a row left in progress, have a named cause |
| `plan_promises` (violated) | the assessments of `vmware` | one plan puts a VM that is off, with the earlier name, before one that runs, and gives its disk of one and a half gigabytes a volume of one |
| `inventory_sync` | 2 syncs on 2 workers, a VM and a datastore, 1 change, 1 fault (906 thousand, with liveness) | a row goes back only where two syncs overlapped; what a sync counted is stored, under way or lost to a named fault; every upsert ends |
| `monitoring` | 5 calls, of which 2 requests; batch 3, interval 1, windows of 2 (8.4 million) | `DelayBounded`; each figure is its subject's own and less than a window behind, however batches and queries interleave; an alert answered as resolved is in no later list of active ones |

`threads` and `vmware` put parts side by side that share no state: a behaviour of such a
run is a behaviour of one part (`part`, in the MC module), the others stay in one of their initial
states, so each part is checked as if it had a run of its own.

The claims of `plan_promises` and `export_recount` are disjunctions of two promises, so that
one behaviour must break both: a run in which only one of them fails would not refute the claim.

**Bounds.** Two actors give every race of two steps; the third request of the
lists lets a second thread and a second process interfere at once, the third
thread of the start arrives at whatever the race of two has left. Three acquires fill the pool,
use what is in it and overflow it; the theorems about the pool have no such bound. A batch of two
distinguishes empty, part-filled and full; in `monitoring` it is three, so that an
entry can restart the timer of a batch that is not full. A window of two rows keeps an
older row or pushes a subject out with three rows, and five calls are those three, a
CPU row and the report, or an alert, two resolutions and what reads them. In `export_recount`
three increments, an old one that sets the counter back to one and a newer one that puts it to
four are the shortest way to export six of five lookups. One outside
change and two changes of the cloud suffice for "before", "between" and "after". The
bounds in guards (`MaxEntries`, `MaxVersion`, `MaxFetch`, `MaxDrift`, `MaxAcquires`,
`MaxCalls`, `MaxRequests`, `MaxFaults`, `MaxChanges`, `MaxExpiries`, `MaxLookups`,
`MaxSyncs`, `MaxInvalidations`) are constants named as such. No run uses
symmetry. The runs switch the deadlock check off where a system may rest:
requests are finite, and an exited process does nothing.

**Fairness.** `FlushPipeline`: each worker and the lifespan are weakly fair
(the event loop resumes what is ready, and timers fire), producers are not.
`VMEngine`: a begun request is weakly fair, because each await has a timeout and
each polling loop a deadline; Nova, late calls and outside changes are not.
`TrackedOperation`: a begun request is weakly fair while its process lives. OpenStack's
HTTP session has a timeout; for the database driver it is an assumption; the Kubernetes
client has none, and a call of it that never returns is ended by Gunicorn, which kills
a worker that does not answer (`gunicorn.conf.py:48`), as a crash in the model;
crashes and late calls are not fair. `InventorySync`: begun requests and upserts are
weakly fair, since the event loop runs what is ready and a crash ends both; requests,
vCenter and crashes are not. The other modules state no liveness.

## 4. Proofs

The theorems hold for all values of the constants: any number of requests, threads,
processes, servers, entries and alerts, any batch size, interval, TTL and pool size,
under the modules' named assumptions. The assumptions say that sizes and intervals
are at least one, that every request has a process, that "no server", "no connection"
and "no run" are none of the servers, connections and runs, in `ColdStart`, that
the threads of a process are finitely many, in `InventorySync`, that there are three
finite kinds of resources (`ResourcesAssumption`), in `Monitoring`, that the pattern of the
project metrics matches the four that have figures (`LikeAssumption`), and, in `Assessment`,
that a request's `vm_ids` are a sequence (`ScenariosAssumption`). TLC evaluates them on every run. The
bounds in the guards are constants too, so a theorem covers every bound.

`Caches_proofs` extends `ListCache` and `CacheMetrics`, `VMware_proofs` extends
`VMwarePool`, `InventorySync` and `Assessment`, and the MC modules put others side by side;
that is why the names of these modules (`ListSpec`, `MetricsSpec`, `ColdSpec`, `SyncSpec`,
`AssessmentSpec`, `MigrationSpec`) do not meet. The modules are proved about side by
side, not composed.

Each module proves `Init => IInv`, `IInv /\ [Next]_vars => IInv'` with one step for
each action, and that `IInv` implies what is claimed; TLC checked each `IInv` on an
instance first. What the invariants add, and why:

* `Monitoring_proofs`. `DelayBounded` is not inductive; `AgeExplained`, which relates
  age, batch size and the running timer, is. The service's actions are put
  together from those of the clock, which carries the bound to the service. `AlertsExplained` needs that a
  `resolve_alert` past its commit holds a resolved alert (so `answered` stays among the
  resolved ones: there is no way back to active), that what a request knew as answered
  was answered, and, for the times, that an alert nobody overlapped on has
  at most one resolver, whose time is newer than the newest stored. The dashboard's
  count is an argument about cardinalities: active and answered alerts are disjoint
  parts of the table. `FiguresExplained` rests on what a query with ORDER BY and LIMIT
  returns (`Window`): distinct rows, newest first, that leave a row out only when the limit
  is reached and none of them is older. A window stays one while the table grows, so the
  answers to a report's earlier queries remain true when batches are committed between
  them (`FInv`). Falling order and the first match in a window need induction; it is done by
  least counterexamples (`WFMin` with `NatLessThanWellFounded`, which take a set, not an
  operator).
* `FlushPipeline_proofs`: `LogIsFaithful`, `AuditLossBounded`, `TypeOK`. The
  invariant says for each pipe where the sentinel can be (`Sentinel`), that an entry is in
  one place only (`Once`), that nothing is missing while the worker lives
  (`Whole`), that table, batch, item in hand and queue follow one another (`Ordered`),
  and what each phase of the shutdown has left of the audit pipe (`LifespanOK`). The loss is bounded by counting: what is missing at the end is a
  subset of what the cancelled worker held (`LossOK`).
* `VMware_proofs`, the pool: `TypeOK`, `PoolBounded`, `PooledAreOpen`,
  `LeakOnlyByOverflow`, `StatsBalance` and the action property `ReuseIsFresh`. The
  inductive invariant adds that the pool is finite, that a session about to be published
  is open, unpooled and held by one thread, and that a session being disconnected has
  left the pool: that is what makes closing outside the lock safe. For `StatsBalance`
  the calls that are under way are a finite set, and each step moves the counters and
  that set together.
* `VMware_proofs`, the inventory sync: `RegressionExplained`, `SucceededMeansStored`.
  Versions of a resource are ordered by what vCenter has shown: nothing stored, read or
  handed over is newer than that, and nothing handed over is older than what there was
  when the request came (`VersionsOK`). For a resource no two syncs overlapped on, at
  most one detail or upsert is under way, it is not older than any row before, and an
  insert meets no row (`Sole`); so the row is always the newest there was.
* `VMware_proofs`, the assessments: `EveryEntryOnce`, `FailedOnlyAfterRetry`,
  `OneListing`, `GaugeExplained`. The invariant says where a parallel request is
  and what its record and its task row say there (`Phase`), that the record counts the results
  taken (`Tally`), that for each id there are as many results, taken or waiting, as
  entries of it are over, a count that repeated ids make necessary (`Placed`), that a list,
  kept or still being read, was made from a state that vCenter has shown, with each VM as it was
  then or later (`Made`, `Lists`), that a verdict without success is excused by a state without
  the VM or by the exceptions of one of its entries, and that a verdict made from a list is what
  the list the request still has says (`Sound`). Nothing of the verdicts' content is used.
* `VMware_proofs`, the flavor: `MatchIsMinimal`, for every list of flavors and every
  target, with sizes of any magnitude. It is stated with `minimalMatch`, which `FlavorIsMinimal` asks
  of each mapped VM. The normalisers are positive, squares grow with the distance from the target on
  either side, so a flavor between target and match would be nearer, and of finitely many distances
  one is least; `under`'s factor only moves flavors that are too small.
* `ColdStart_proofs`: `SettledIsPatched`, `WarmReuse`, `ColdTypeOK`. The invariant
  says that a name once bound is never None again where a thread looks into it (`Bound`),
  that a factory with an unpatched connection has a thread about to patch what it holds
  (`PatchComes`), and that once the providers' names are set and no thread
  is about to assign them they never change (`OpenStackOver`, `VMwareOver`, `Warm`,
  `Fresh`). That no more objects are made than the calls allow is a counting argument:
  one token for each object a thread may have constructed (`Counted`).
* `VMEngine_proofs`: `ReportsAgree`, `OrphanExplained`, `DeletesOnlyWhatItMay`,
  `SuccessHolds`. The invariant ties the place in the code where a request is to what
  it has reported and owns, says that calls still on their way in abandoned threads are
  ones that the request really made (`LateOK`), and follows the status of a
  server for as long as a request is alone with it (`Follows`).
* `Caches_proofs`, the lists: `StalenessBounded` and `SettledIsSeen`. The invariant says
  that no store, and no list on its way to one, is older than the store's settled
  change; that floors lie below it; and that an entry's age plus its remaining
  life never exceeds a TTL and a fetch.
* `Caches_proofs`, the counters: `ExportExplained`. A counter none of whose increments was
  overtaken is exact, and its last export is not beyond it (`Exact`); what Prometheus shows is
  never behind the last export, since an export adds positive differences only, and the two
  agree where no increment was overtaken (`Followed`).
* `TrackedOperation_proofs`: `ReplyMatchesTask`, `OutcomeExplained`, `NamesUnique`,
  `BatchCountHonest`, and the refinement `ImplementsLifecycle`. The invariant relates
  the row to the place of the request and its effects to the calls it has made (`RowOK`,
  `CallsOK`); `NamesUnique` needs that between finding a name free and using it the
  request holds its process's event loop, or the table refuses the second row
  (`LookupHolds`). What is used of the endpoints is only that (`OperationOK`), proved
  row by row of the table in `Endpoints`. The refinement maps every step to one of
  `OperationLifecycle` or to a stutter.
* `Migration_proofs`: `CompletedHasServer`, `VerdictExplained`. The invariant
  says what each run has made by the place where it is (`RunOK`), that a row's
  destination was made by a run of it (`DestinationOK`), that a row in progress has a
  run or a named cause (`Attended`), and that a row nothing disturbed follows its run
  (`RowFollowsRun`).

Only model-checked:

* All liveness: `EventuallyPersisted`, `CancelledShutdownEnds`, and that requests,
  operations and upserts end. Liveness under fairness and `ENABLED` are beyond the prover.
* `VerdictsAreRight` and `MappingIsRight` of `Assessment`: they say what operators built
  from `SelectSeq`, `SortSeq` and folds compute from a VM's description. tlapm neither
  expands nor axiomatises `SelectSeq`, and the folds take an operator, so TLC checks them
  against their references over enumerated VMs, flavors and sizes. The flavor part of
  `MappingIsRight` is proved as `MatchIsMinimal` for any target of integers; what stays with TLC
  is that `total_disk`, a fold over the selected disks, is one.

## 5. Disagreements between code and documents

With a run that TLC must find violated, and a finding in `PROJECT.json` that quotes the text:

* `flush_loss`: an orderly shutdown loses the audit entries in the worker's batch.
* `flush_delay`: `audit_service.py:121` restarts its timer with every entry, while its
  docstring and `docs/security_hardening_report.md:63` say "20 entries or 2 seconds,
  whichever comes first" and `:77` "Up to 2s delay"; the proved bound is 19 intervals.
* `expiry_race`: `cache.py:97` raises `KeyError` in the second of two threads that find the
  same expired entry, where the protocol of the backends has `get` return a list or None. The
  class disclaims threads, its callers use them. (The second `del` can also take a
  fresh entry, which costs a fetch and nothing else.)
* `export_recount`: `main.py:150` adds running totals to the Redis counters at every export,
  while `docs/performance_report.md:755` says one per call and
  `docs/archive/architecture.md:174` "Delta tracking prevents duplicate accumulation". The
  deltas do not prevent it either: `cache.py:27` can lose an increment and set a counter
  back, after which `main.py:82` exports events twice.
* `plan_promises`: the docstring of `plan_service.py:20` puts running VMs first, the sort knows
  only priorities, which nobody sets, and names; the docstring of `mapping_engine.py:24` says
  sizes are rounded up, the code takes the size that `connection.py:148` rounded down.

The others were met while modelling; each is in a model or in a mapped definition.

Shutdown, pool, engine, cache and tasks:

* `main.py:130`: with Python 3.11 a worker can swallow its cancellation after the drain
  took its sentinel, and the lifespan waits for ever (`audit_service.py:139` "shut down
  gracefully"). `CancelledShutdownEnds` holds for 3.12 and later only.
* `pool.py:174`: sessions beyond `max_pool_size` are opened and left open
  (`docs/known_vmware_limitations.md:163`); `pool.py:75` promises a healthy
  connection, `_find_healthy` looks at age only.
* `vm_provisioning_engine.py:122`: a create whose answer is lost leaves its server
  (`docs/openstack_vm_lifecycle.md:138`); `:167`: a delete whose count refresh fails is
  counted as success and as failure (`docs/performance_report.md:913`); `:105`: the
  active gauge can stay wrong (`docs/observability_review.md:57`).
* `compute_service.py:31`: a list fetched before a change is stored after its
  invalidation (`README.md:77`, `docs/performance_report.md:719`).
* Creates of networks, routers and security groups are carried out and reported as
  failed (`networks.py:56` reads a field the result lacks). `create_image`,
  `create_flavor` and `create_keypair` read payload fields their schemas lack; the
  router interface endpoints call methods the service does not have; the rule endpoint
  passes two arguments to a method that takes one: all always fail before any effect.
* `compute.py:297` builds the answer of a snapshot inside the `try`, after the row says
  succeeded. It holds if `create_server_image` returns a string, as its annotation says and the
  model takes it; with an Image object of the SDK the row would go from succeeded to failed.
* A crash leaves a task `running` for ever. `batch_deploy` ends in `succeeded` whatever
  number of servers it created.

Inventory and assessments:

* A sync is reported as succeeded before any row is stored; two syncs race, and the
  guard of `docs/migration_assessment_api.md:51` and `:574` (`vmware_sync_in_progress`)
  does not exist. A resource that vanished stays `active`.
* `GET /assess/parallel/{task_id}` always answers 404, since the service that holds the
  progress is rebuilt for each request (`docs/api_reference.md:174`,
  `docs/performance_report.md:509`). The timeout of one VM cannot fire around code that
  never awaits. The gauge keeps its number if opening the task raises.
* The fallback for the guest's name and the branch for paravirtual SCSI cannot be
  reached; layout files are listed as further disks of 0 GB, so that a boot volume can
  be one of them. The code reads `vm.id` and `moId`, while pyVmomi has `_moId`; the model
  takes ids as given.
* The docstring of the mapping engine has matching by VLAN or CIDR, which is not there;
  `overprovisioned` is true of an exact match; `priority_overrides` has no way in.
* `parallel_assessment.py:103`: a `TimeoutError` of the socket counts as the timeout of the
  evaluation, which is then not repeated.

Monitoring and migrations:

* Usage reports show the oldest row of their window for memory, disk, VMs and projects,
  not the newest; `/metrics/latest` groups by metric alone, so a source that the
  newest batch does not mention is left out; `get_service_health` lists the database
  twice. Resolving an alert again moves its `resolved_at`.
* `worker.py:15` speaks of migrations stuck for more than an hour, but counts from
  their creation; the cleanup can mark a migration failed that is still run or has
  just completed, and nothing enqueues it. The executor is archived, its test
  imports a module that is gone, `export_vm_disk` writes no file, and nothing keeps a
  migration from being executed twice.
* `assessment_persistence` is never written to, and its details read relations lazily
  in an async session.

## 6. Not modelled

Listed with reasons under `components` in `PROJECT.json`: assessment persistence (its
writers have no caller), authentication by outside services, pure reads, formatting,
configuration, pyVmomi itself, metrics beyond the counters above, domain managers,
scripts and benchmarks (tools around the program, a third of the repository's Python).

## 7. Plan

Abstract specifications: a lossy log that `FlushPipeline` implements while serving, an
abstract pool for `VMwarePool`. A definition of the selected disks without `SelectSeq`
would bring `CapacityIsKept` into the prover's reach.
