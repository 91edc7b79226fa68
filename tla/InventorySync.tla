---------------------------- MODULE InventorySync ----------------------------
(***************************************************************************)
(* POST /vmware/sync: sync_inventory of endpoints/vmware/inventory and of  *)
(* VMwareInventoryService.  The endpoint tracks an operation task; the     *)
(* service lists the VMs, the datastores and the networks of vCenter, reads *)
(* the detail of each and hands it to _upsert_snapshot, which starts a task *)
(* of the event loop that nobody awaits.  The service is synchronous, so   *)
(* nothing else runs in its process between the first listing and the last *)
(* hand-over; other Gunicorn workers do run, and vCenter changes under it. *)
(* The content of a resource is its version number.                        *)
(***************************************************************************)
EXTENDS OperationTask, Integers, Sequences, FiniteSets, SequencesExt

CONSTANTS Processes,    \* the Gunicorn workers
          Resources,    \* <<VMs, datastores, networks>>: three sets of ids
          Present,      \* the resources that vCenter has at first
          NoProcess,
          MaxChanges,   \* bound: changes of vCenter in a behaviour
          MaxFaults     \* bound: calls that fail and workers that end, together

ASSUME ResourcesAssumption ==
    /\ Len(Resources) = 3 /\ DOMAIN Resources = 1..3
    /\ \A k \in 1..3 : IsFiniteSet(Resources[k])

Ids == UNION {Resources[k] : k \in DOMAIN Resources}

VARIABLES
    vcenter,    \* version of each resource in vCenter, 0 when it is not there
    changes,    \* how often vCenter has changed: the newest version number
    handler,    \* where the request's handler is
    host,       \* the process that serves the request
    listed,     \* how many of the three listings the sync has made
    todo,       \* resources listed and not yet handed over
    detail,     \* version that the last detail call returned, 0 before it
    upserts,    \* tasks of the event loop started by _upsert_snapshot
    rows,       \* resource_snapshots: version stored per external_id, 0 = no row
    faults,     \* failures so far
    newest,     \* history: newest version ever committed, per resource
    base,       \* history: vcenter when the request began
    synced,     \* history: resources the request has handed over
    overlapped, \* history: resources two requests were working on at one time
    lost        \* history: upserts ended by the database or with their process

syncVars == <<handler, host, listed, todo, detail>>
history == <<newest, base, synced, overlapped, lost>>
inventoryVars == <<taskVars, vcenter, changes, syncVars, upserts, rows, faults, history>>

SyncTypeOK ==
    /\ vcenter \in [Ids -> 0..MaxChanges + 1] /\ rows \in [Ids -> 0..MaxChanges + 1]
    /\ handler \in [Requests -> {"idle", "create", "start", "list", "read", "spawn",
                                 "close", "fail", "ok", "error"}]
    /\ host \in [Requests -> Processes \cup {NoProcess}]
    /\ \A r \in Requests : todo[r] \in Seq(Ids)
    /\ upserts \subseteq [req : Requests, id : Ids, data : 1..MaxChanges + 1,
                          existing : {"unread", "row", "none"}]

SyncInit ==
    /\ TaskInit
    /\ vcenter = [x \in Ids |-> IF x \in Present THEN 1 ELSE 0] /\ changes = 1
    /\ handler = [r \in Requests |-> "idle"]
    /\ host = [r \in Requests |-> NoProcess]
    /\ listed = [r \in Requests |-> 0]
    /\ todo = [r \in Requests |-> <<>>]
    /\ detail = [r \in Requests |-> 0]
    /\ upserts = {} /\ rows = [x \in Ids |-> 0] /\ faults = 0
    /\ newest = rows /\ base = [r \in Requests |-> vcenter]
    /\ synced = [r \in Requests |-> {}] /\ overlapped = {} /\ lost = {}

-----------------------------------------------------------------------------
(* sync_inventory blocks its process from the first listing to the last    *)
(* hand-over.                                                              *)

blocking(r) == handler[r] \in {"list", "read", "spawn"}
free(p) == \A r \in Requests : host[r] = p => ~blocking(r)
goto(r, label) == handler' = [handler EXCEPT ![r] = label]

Fault == faults < MaxFaults /\ faults' = faults + 1
NoFault == UNCHANGED faults

BeginSync(r, p) ==
    /\ handler[r] = "idle" /\ free(p)
    /\ host' = [host EXCEPT ![r] = p]
    /\ base' = [base EXCEPT ![r] = vcenter]
    /\ goto(r, "create")
    /\ UNCHANGED <<taskVars, vcenter, changes, listed, todo, detail, upserts, rows,
                   faults, newest, synced, overlapped, lost>>

\* create_task and update_task("running") stand outside the try block.
Track(r, from, state, to) ==
    /\ handler[r] = from /\ free(host[r])
    /\ \/ NoFault /\ Write(r, state) /\ goto(r, to)
       \/ Fault /\ WriteRaises(r, state) /\ goto(r, "error")
    /\ UNCHANGED <<vcenter, changes, host, listed, todo, detail, upserts, rows,
                   history>>

CreateSyncTask(r) == Track(r, "create", "queued", "start")
MarkSyncRunning(r) == Track(r, "start", "running", "list")

\* list_vms, list_datastores, list_networks of the factory: what vCenter has now, past
\* the list caches of the service.
onVCenter(k) == {x \in Resources[k] : vcenter[x] # 0}

\* The three listings, before any detail is read; each may raise.
List(r) ==
    /\ handler[r] = "list"
    /\ \/ \E found \in SetToSeqs(onVCenter(listed[r] + 1)) :
             /\ todo' = [todo EXCEPT ![r] = @ \o found]
             /\ listed' = [listed EXCEPT ![r] = @ + 1]
             /\ NoFault
             /\ goto(r, IF listed'[r] = Len(Resources) THEN "read" ELSE "list")
       \/ Fault /\ goto(r, "fail") /\ UNCHANGED <<todo, listed>>
    /\ UNCHANGED <<taskVars, vcenter, changes, host, detail, upserts, rows, history>>

\* Requests that hold a detail of x, or whose upsert of x is under way.
working(x) ==
    {r \in Requests : handler[r] = "spawn" /\ Head(todo[r]) = x}
        \cup {u.req : u \in {v \in upserts : v.id = x}}

\* Faulty variant: the details are those of the moment the request came in.
seenAtFirst(r, x) == base[r][x]
seen(r, x) == vcenter[x]

\* get_vm_detail, get_datastore_detail or get_network_detail; a resource that is
\* gone, or a call that fails, raises and ends the sync where it is.
Read(r) ==
    /\ handler[r] = "read" /\ todo[r] # <<>>
    /\ \/ LET x == Head(todo[r]) IN
            /\ vcenter[x] # 0
            /\ detail' = [detail EXCEPT ![r] = seen(r, x)]
            /\ overlapped' = IF working(x) = {} THEN overlapped ELSE overlapped \cup {x}
            /\ goto(r, "spawn") /\ NoFault
       \/ /\ Fault \/ (vcenter[Head(todo[r])] = 0 /\ NoFault)
          /\ goto(r, "fail") /\ UNCHANGED <<detail, overlapped>>
    /\ UNCHANGED <<taskVars, vcenter, changes, host, listed, todo, upserts, rows,
                   newest, base, synced, lost>>

\* _upsert_snapshot: asyncio.create_task(_do_upsert()), and the next resource.
_upsert_snapshot(r) ==
    /\ handler[r] = "spawn"
    /\ upserts' = upserts \cup {[req |-> r, id |-> Head(todo[r]), data |-> detail[r],
                                 existing |-> "unread"]}
    /\ todo' = [todo EXCEPT ![r] = Tail(@)]
    /\ synced' = [synced EXCEPT ![r] = @ \cup {Head(todo[r])}]
    /\ goto(r, "read")
    /\ UNCHANGED <<taskVars, vcenter, changes, host, listed, detail, rows, faults,
                   newest, base, overlapped, lost>>

\* The caches of the instance are emptied and the counts returned.  The instance
\* was built for this request, so no reader shares those caches.
Return(r) ==
    /\ handler[r] = "read" /\ todo[r] = <<>>
    /\ goto(r, "close")
    /\ UNCHANGED <<taskVars, vcenter, changes, host, listed, todo, detail, upserts,
                   rows, faults, history>>

\* update_task("succeeded") is inside the try block: if it raises, the handler
\* goes on to update_task("failed").
Succeed(r) ==
    /\ handler[r] = "close" /\ free(host[r])
    /\ \/ NoFault /\ Write(r, "succeeded") /\ goto(r, "ok")
       \/ Fault /\ WriteRaises(r, "succeeded") /\ goto(r, "fail")
    /\ UNCHANGED <<vcenter, changes, host, listed, todo, detail, upserts, rows,
                   history>>

Fail(r) ==
    /\ handler[r] = "fail" /\ free(host[r])
    /\ (NoFault /\ Write(r, "failed")) \/ (Fault /\ WriteRaises(r, "failed"))
    /\ goto(r, "error")
    /\ UNCHANGED <<vcenter, changes, host, listed, todo, detail, upserts, rows,
                   history>>

-----------------------------------------------------------------------------
(* _do_upsert: a select, then an update or an insert with the commit; each *)
(* await lets the process, and the other processes, run.                   *)

Select(u) ==
    /\ u \in upserts /\ u.existing = "unread" /\ free(host[u.req])
    /\ upserts' = (upserts \ {u}) \cup
                    {[u EXCEPT !.existing = IF rows[u.id] = 0 THEN "none" ELSE "row"]}
    /\ UNCHANGED <<taskVars, vcenter, changes, syncVars, rows, faults, history>>

\* external_id is unique: an insert beside a row raises IntegrityError, which ends
\* the task; nobody retrieves the exception.
conflicts(u) == u.existing = "none" /\ rows[u.id] # 0

\* Faulty variants: a conflict ends all upserts of the sync, or is tried again.
endsSync(u) == IF conflicts(u) THEN {v \in upserts : v.req = u.req} ELSE {u}
endsNever(u) == IF conflicts(u) THEN {} ELSE {u}
ends(u) == {u}

Commit(u) ==
    /\ u \in upserts /\ u.existing # "unread" /\ free(host[u.req])
    /\ upserts' = upserts \ ends(u)
    /\ rows' = IF conflicts(u) THEN rows ELSE [rows EXCEPT ![u.id] = u.data]
    /\ newest' = IF rows'[u.id] > newest[u.id]
                 THEN [newest EXCEPT ![u.id] = rows'[u.id]] ELSE newest
    /\ UNCHANGED <<taskVars, vcenter, changes, syncVars, faults, base, synced,
                   overlapped, lost>>

\* The select or the commit fails.
UpsertRaises(u) ==
    /\ u \in upserts /\ free(host[u.req]) /\ Fault
    /\ upserts' = upserts \ {u} /\ lost' = lost \cup {<<u.req, u.id>>}
    /\ UNCHANGED <<taskVars, vcenter, changes, syncVars, rows, newest, base, synced,
                   overlapped>>

-----------------------------------------------------------------------------
(* A worker ends (max_requests, timeout, deployment): its requests and its *)
(* tasks end where they are.  And vCenter changes: a resource is created,  *)
(* edited or removed.                                                      *)

Crash(p) ==
    /\ Fault
    /\ LET mine == {u \in upserts : host[u.req] = p} IN
         /\ upserts' = upserts \ mine
         /\ lost' = lost \cup {<<u.req, u.id>> : u \in mine}
    /\ handler' = [r \in Requests |->
                 IF host[r] = p /\ handler[r] \notin {"ok", "error"} THEN "error" ELSE handler[r]]
    /\ UNCHANGED <<taskVars, vcenter, changes, host, listed, todo, detail, rows, newest,
                   base, synced, overlapped>>

Change(x) ==
    /\ changes <= MaxChanges
    /\ changes' = changes + 1
    /\ \E v \in {changes + 1} \cup (IF vcenter[x] = 0 THEN {} ELSE {0}) :
          vcenter' = [vcenter EXCEPT ![x] = v]
    /\ UNCHANGED <<taskVars, syncVars, upserts, rows, faults, history>>

Handler(r) ==
    \/ \E p \in Processes : BeginSync(r, p)
    \/ CreateSyncTask(r) \/ MarkSyncRunning(r) \/ List(r) \/ Read(r) \/ _upsert_snapshot(r)
    \/ Return(r) \/ Succeed(r) \/ Fail(r)

Upsert(u) == Select(u) \/ Commit(u) \/ UpsertRaises(u)

SyncNext ==
    \/ \E r \in Requests : Handler(r)
    \/ \E u \in upserts : Upsert(u)
    \/ \E p \in Processes : Crash(p)
    \/ \E x \in Ids : Change(x)

\* The event loop runs every handler and every task that is ready.  Clients need
\* not send a request: no fairness on Begin.
Fairness ==
    /\ \A r \in Requests : WF_inventoryVars(handler[r] # "idle" /\ Handler(r))
    /\ \A r \in Requests : WF_inventoryVars(\E u \in upserts : u.req = r /\ Upsert(u))

SyncSpec == SyncInit /\ [][SyncNext]_inventoryVars /\ Fairness
-----------------------------------------------------------------------------
(* What the upserts keep of one another.                                   *)

\* A row never goes back to older content unless two syncs were at work on the
\* resource at one time: sync_inventory reads before it hands over, and
\* _do_upsert writes what it was given whatever the row has become since.
RegressionExplained ==
    \A x \in Ids : rows[x] < newest[x] => x \in overlapped

\* What a succeeded sync_inventory counted is in resource_snapshots at least as
\* new as when the request came in; otherwise its upsert is still under way, was
\* lost to the database or with the worker, or raced that of another sync.
SucceededMeansStored ==
    \A r \in Requests : \A x \in synced[r] :
        \/ rows[x] # 0 /\ (rows[x] >= base[r][x] \/ x \in overlapped)
        \/ \E u \in upserts : u.req = r /\ u.id = x
        \/ <<r, x>> \in lost

\* Every upsert that _upsert_snapshot starts ends, and every request that came in
\* is answered, also when inserts collide and workers are restarted.
UpsertsEnd ==
    <>[](upserts = {} /\ \A r \in Requests : handler[r] \in {"idle", "ok", "error"})
=============================================================================
