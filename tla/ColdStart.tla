------------------------------- MODULE ColdStart -------------------------------
(***************************************************************************)
(* The lazily made singletons of a worker process (api/deps/services) and  *)
(* the connection that OpenStackConnectionFactory caches.  FastAPI runs    *)
(* the dependencies and the plain endpoints in a thread pool, none of this *)
(* code takes a lock, and every statement reads the shared name again: a   *)
(* thread may find None, be overtaken, and publish its own object over the *)
(* one that others already use.  Objects are numbered in the order made;   *)
(* 0 is None.  Nothing in the program calls invalidate().                  *)
(***************************************************************************)
EXTENDS Integers, FiniteSets

CONSTANTS Callers,     \* threads, each serving one request
          MaxCalls     \* bound: SDK calls of one request

ASSUME CallersAssumption == IsFiniteSet(Callers)
ASSUME MaxCallsAssumption == MaxCalls \in Nat \ {0}

VARIABLES
    made,         \* how many objects have been constructed
    openstack,    \* _openstack_factory
    vmware,       \* _vmware_factory
    vmwarePool,   \* _vmware_pool
    connection,   \* factory._connection of every OpenStack factory
    poolOf,       \* factory._pool of every vCenter factory
    patched,      \* connections that carry the pooled HTTP session
    at,           \* where each thread is
    factory,      \* the factory that the thread's service was given
    value,        \* the connection or pool that the last expression returned
    calls,        \* calls the thread has made
    used,         \* history: connections and pools the thread has called with
    warm          \* history: the one in place when the thread began, 0 if the
                  \* start of this chain was not over

globals == <<openstack, vmware, vmwarePool, connection, poolOf>>
locals == <<factory, value, calls>>
coldVars == <<made, globals, patched, at, locals, used, warm>>

\* No thread makes more than a pool and a factory, or a factory and a connection
\* for every call.
Objects == 0 .. (Cardinality(Callers) * (2 + MaxCalls))

OpenStackSteps == {"factory", "newFactory", "getFactory", "create", "construct",
                   "patch", "getConnection"}
VMwareSteps == {"client", "pool", "newPool", "getPool", "newClient", "getClient"}

ColdTypeOK ==
    /\ made \in Objects /\ {openstack, vmware, vmwarePool} \subseteq Objects
    /\ connection \in [Objects -> Objects] /\ poolOf \in [Objects -> Objects]
    /\ patched \subseteq Objects
    /\ at \in [Callers -> OpenStackSteps \cup VMwareSteps
                              \cup {"idle", "call", "connect", "done"}]
    /\ factory \in [Callers -> Objects] /\ value \in [Callers -> Objects]
    /\ calls \in [Callers -> 0..MaxCalls]

ColdInit ==
    /\ made = 0 /\ openstack = 0 /\ vmware = 0 /\ vmwarePool = 0
    /\ connection = [x \in Objects |-> 0] /\ poolOf = [x \in Objects |-> 0]
    /\ patched = {}
    /\ at = [r \in Callers |-> "idle"]
    /\ factory = [r \in Callers |-> 0] /\ value = [r \in Callers |-> 0]
    /\ calls = [r \in Callers |-> 0]
    /\ used = [r \in Callers |-> {}]
    /\ warm = [r \in Callers |-> 0]

moveTo(r, label) == at' = [at EXCEPT ![r] = label]
quiet(steps) == \A q \in Callers : at[q] \notin steps
-----------------------------------------------------------------------------
(* OpenStack: get_openstack_factory, create and call.                      *)

BeginOpenStack(r) ==
    /\ at[r] = "idle" /\ moveTo(r, "factory")
    /\ warm' = [warm EXCEPT ![r] = IF quiet(OpenStackSteps) THEN connection[openstack] ELSE 0]
    /\ UNCHANGED <<made, globals, patched, locals, used>>

\* `if _openstack_factory is None`
FindFactory(r) ==
    /\ at[r] = "factory"
    /\ moveTo(r, IF openstack = 0 THEN "newFactory" ELSE "getFactory")
    /\ UNCHANGED <<made, globals, patched, locals, used, warm>>

NewFactory(r) ==
    /\ at[r] = "newFactory" /\ moveTo(r, "getFactory")
    /\ made' = made + 1 /\ openstack' = made'
    /\ UNCHANGED <<vmware, vmwarePool, connection, poolOf, patched, locals, used, warm>>

\* `return _openstack_factory`: whatever is there by now.
GetFactory(r) ==
    /\ at[r] = "getFactory" /\ moveTo(r, "create")
    /\ factory' = [factory EXCEPT ![r] = openstack]
    /\ UNCHANGED <<made, globals, patched, value, calls, used, warm>>

\* Faulty variant: create() authenticates for every call.
cachedNever(f) == 0
cached(f) == connection[f]

\* create(): `if self._connection is not None`, and the 503 when the settings are
\* not complete.
FindConnection(r) ==
    /\ at[r] = "create"
    /\ \/ moveTo(r, IF cached(factory[r]) = 0 THEN "construct" ELSE "getConnection")
       \/ cached(factory[r]) = 0 /\ moveTo(r, "done")
    /\ UNCHANGED <<made, globals, patched, locals, used, warm>>

\* The SDK connection is published as soon as it is constructed, with the session
\* it made for itself; or the constructor raises.
Construct(r) ==
    /\ at[r] = "construct"
    /\ \/ /\ moveTo(r, "patch")
          /\ made' = made + 1
          /\ connection' = [connection EXCEPT ![factory[r]] = made']
       \/ moveTo(r, "done") /\ UNCHANGED <<made, connection>>
    /\ UNCHANGED <<openstack, vmware, vmwarePool, poolOf, patched, locals, used, warm>>

\* Faulty variant: a factory is patched once.
patchOnce(f) == IF patched = {} THEN {connection[f]} ELSE {}
patch(f) == {connection[f]}

\* The session of self._connection, which may be another thread's by now.
Patch(r) ==
    /\ at[r] = "patch" /\ moveTo(r, "getConnection")
    /\ patched' = patched \cup patch(factory[r])
    /\ UNCHANGED <<made, globals, locals, used, warm>>

\* `return self._connection`
GetConnection(r) ==
    /\ at[r] = "getConnection" /\ moveTo(r, "call")
    /\ value' = [value EXCEPT ![r] = connection[factory[r]]]
    /\ UNCHANGED <<made, globals, patched, factory, calls, used, warm>>

\* call(): the SDK method runs on the connection or raises; each call of a service
\* goes through create() again.
Call(r) ==
    /\ at[r] = "call"
    /\ used' = [used EXCEPT ![r] = @ \cup {value[r]}]
    /\ calls' = [calls EXCEPT ![r] = @ + 1]
    /\ \/ calls'[r] < MaxCalls /\ moveTo(r, "create")
       \/ moveTo(r, "done")
    /\ UNCHANGED <<made, globals, patched, factory, value, warm>>
-----------------------------------------------------------------------------
(* vCenter: get_vmware_factory, the get_vmware_pool it calls, and connect. *)

BeginVMware(r) ==
    /\ at[r] = "idle" /\ moveTo(r, "client")
    /\ warm' = [warm EXCEPT ![r] = IF quiet(VMwareSteps) THEN poolOf[vmware] ELSE 0]
    /\ UNCHANGED <<made, globals, patched, locals, used>>

FindClient(r) ==
    /\ at[r] = "client"
    /\ moveTo(r, IF vmware = 0 THEN "pool" ELSE "getClient")
    /\ UNCHANGED <<made, globals, patched, locals, used, warm>>

FindPool(r) ==
    /\ at[r] = "pool"
    /\ moveTo(r, IF vmwarePool = 0 THEN "newPool" ELSE "getPool")
    /\ UNCHANGED <<made, globals, patched, locals, used, warm>>

NewPool(r) ==
    /\ at[r] = "newPool" /\ moveTo(r, "getPool")
    /\ made' = made + 1 /\ vmwarePool' = made'
    /\ UNCHANGED <<openstack, vmware, connection, poolOf, patched, locals, used, warm>>

GetPool(r) ==
    /\ at[r] = "getPool" /\ moveTo(r, "newClient")
    /\ value' = [value EXCEPT ![r] = vmwarePool]
    /\ UNCHANGED <<made, globals, patched, factory, calls, used, warm>>

NewClient(r) ==
    /\ at[r] = "newClient" /\ moveTo(r, "getClient")
    /\ made' = made + 1 /\ vmware' = made'
    /\ poolOf' = [poolOf EXCEPT ![made'] = value[r]]
    /\ UNCHANGED <<openstack, vmwarePool, connection, patched, locals, used, warm>>

GetClient(r) ==
    /\ at[r] = "getClient" /\ moveTo(r, "connect")
    /\ factory' = [factory EXCEPT ![r] = vmware]
    /\ UNCHANGED <<made, globals, patched, value, calls, used, warm>>

\* connect(): acquire() of the factory's pool; or it raises.
ConnectVMware(r) ==
    /\ at[r] = "connect"
    /\ used' = [used EXCEPT ![r] = @ \cup {poolOf[factory[r]]}]
    /\ calls' = [calls EXCEPT ![r] = @ + 1]
    /\ moveTo(r, "done") \/ (calls'[r] < MaxCalls /\ moveTo(r, "connect"))
    /\ UNCHANGED <<made, globals, patched, factory, value, warm>>

OpenStackThread(r) ==
    \/ BeginOpenStack(r) \/ FindFactory(r) \/ NewFactory(r) \/ GetFactory(r)
    \/ FindConnection(r) \/ Construct(r) \/ Patch(r) \/ GetConnection(r) \/ Call(r)

VMwareThread(r) ==
    \/ BeginVMware(r) \/ FindClient(r) \/ FindPool(r) \/ NewPool(r) \/ GetPool(r)
    \/ NewClient(r) \/ GetClient(r) \/ ConnectVMware(r)

ColdNext == \E r \in Callers : OpenStackThread(r) \/ VMwareThread(r)

ColdSpec == ColdInit /\ [][ColdNext]_coldVars
-----------------------------------------------------------------------------
\* When no thread is inside get_openstack_factory or create(), every connection
\* that a factory holds carries the session with the pool, the retries and the
\* timeout, however many threads constructed one: the last to publish patches what
\* it published, and a thread that was overtaken patches the winner's.
SettledIsPatched ==
    quiet(OpenStackSteps) =>
        \A f \in Objects : connection[f] # 0 => connection[f] \in patched

\* A request that begins after the start is over calls with the connection, or the
\* pool, then in place and with no other, whatever threads come beside it:
\* "every request reuses the same factory and the same connection".
WarmReuse == \A r \in Callers : warm[r] # 0 => used[r] \subseteq {warm[r]}
=============================================================================
