------------------------------- MODULE ListCache -------------------------------
(***************************************************************************)
(* The read-through cache in front of the OpenStack list calls             *)
(* (common/utils/openstack_cache.py with its two backends, and the list_*  *)
(* and mutating methods of the OpenStack services).  One resource type is  *)
(* modelled: the types share nothing.  The list endpoints are plain        *)
(* functions and run in the threads of their process; the mutating ones    *)
(* are coroutines whose SDK call and invalidation block its event loop.    *)
(* There are several processes.  Each one chooses its backend when it      *)
(* starts: Redis, one store for all, or, when Redis does not answer then   *)
(* or is not configured, a TTLCache of its own.                            *)
(*                                                                         *)
(* The cloud's answer to a list call is a version number that every change *)
(* of the cloud increments.  Time is counted in ticks.                     *)
(***************************************************************************)
EXTENDS Integers

CONSTANTS
    Requests,      \* request threads, over all processes
    Workers,       \* server processes
    Home,          \* the process of each request
    Backends,      \* the sets of processes that may have found Redis at start-up
    TTL,           \* DEFAULT_TTLS of the resource
    MaxFetch,      \* bound: ticks from reading the cloud to storing the list
    MaxVersion,    \* bound: changes of the cloud in one behaviour
    CacheMayFail   \* whether a Redis command may raise RedisError

ASSUME HomeAssumption    == Home \in [Requests -> Workers]
ASSUME BackendsAssumption == Backends \subseteq SUBSET Workers
ASSUME FailAssumption    == CacheMayFail \in BOOLEAN
ASSUME TTLAssumption     == TTL \in Nat \ {0}
ASSUME BoundsAssumption  == MaxFetch \in Nat /\ MaxVersion \in Nat

Stores == Workers \cup {"redis"}

NoEntry == [v |-> -1, left |-> 0, age |-> 0]

VARIABLES
    onRedis,       \* the processes whose backend is RedisCache
    truth,         \* the version of the cloud
    store,         \* per store, the cached list: version, ticks to live, ticks
                   \* since it was read from the cloud
    doing,         \* where each request is
    val,           \* the version a request fetched or found, or its change made
    age,           \* ticks since that version was read from the cloud
    floor,         \* what `settled` was when the list began
    settled        \* per store, the newest change whose invalidation succeeded
                   \* while no older list was on its way to the store

ghostVars == <<floor, settled>>
listVars == <<onRedis, truth, store, doing, val, age, ghostVars>>

Redis(r) == Home[r] \in onRedis
StoreOf(r) == IF Redis(r) THEN "redis" ELSE Home[r]

ListInit ==
    /\ onRedis \in Backends
    /\ truth = 0
    /\ store = [s \in Stores |-> NoEntry]
    /\ doing = [r \in Requests |-> "idle"]
    /\ val = [r \in Requests |-> 0]
    /\ age = [r \in Requests |-> 0]
    /\ floor = [r \in Requests |-> 0]
    /\ settled = [s \in Stores |-> 0]

Larger(a, b) == IF a >= b THEN a ELSE b

\* The event loop of r's process is not inside a mutating endpoint: only then
\* can it dispatch a request.
LoopFree(r) == \A q \in Requests : Home[q] = Home[r] => doing[q] # "invalidate"

goesTo(r, step) == doing' = [doing EXCEPT ![r] = step]

\* The locals of a request that ended are forgotten.
Forget(r) ==
    /\ val' = [val EXCEPT ![r] = 0]
    /\ age' = [age EXCEPT ![r] = 0]
    /\ floor' = [floor EXCEPT ![r] = 0]

Return(r) ==
    /\ doing[r] = "reply"
    /\ Forget(r)
    /\ goesTo(r, "idle")
    /\ UNCHANGED <<truth, store, settled>>

-----------------------------------------------------------------------------
(* A list request. *)

BeginList(r) ==
    /\ doing[r] = "idle" /\ LoopFree(r)
    /\ floor' = [floor EXCEPT ![r] = settled[StoreOf(r)]]
    /\ goesTo(r, "get")
    /\ UNCHANGED <<truth, store, val, age, settled>>

\* Faulty variant: an entry lives one tick too long.
IsExpiredLate(e) == e.left < 0

IsExpired(e) == e.left = 0

\* cache_get finds a live entry.
GetHit(r) ==
    LET e == store[StoreOf(r)]
    IN  /\ doing[r] = "get" /\ e # NoEntry /\ ~IsExpired(e)
        /\ val' = [val EXCEPT ![r] = e.v]
        /\ age' = [age EXCEPT ![r] = e.age]
        /\ goesTo(r, "reply")
        /\ UNCHANGED <<truth, store, ghostVars>>

\* cache_get finds nothing; or Redis, which drops expired keys itself, raises
\* or has only an expired one.  TTLCache.get goes on to delete an expired entry.
GetMiss(r) ==
    LET e == store[StoreOf(r)]
    IN  /\ doing[r] = "get"
        /\ e = NoEntry \/ IsExpired(e) \/ (Redis(r) /\ CacheMayFail)
        /\ goesTo(r, IF e # NoEntry /\ ~Redis(r) THEN "evict" ELSE "fetch")
        /\ UNCHANGED <<truth, store, val, age, ghostVars>>

\* del self._store[key]: another thread may have replaced the entry since the
\* lookup, or deleted it, and then KeyError leaves the service.
Evict(r) ==
    /\ doing[r] = "evict"
    /\ goesTo(r, IF store[StoreOf(r)] = NoEntry THEN "error" ELSE "fetch")
    /\ store' = [store EXCEPT ![StoreOf(r)] = NoEntry]
    /\ UNCHANGED <<truth, val, age, ghostVars>>

Raise(r) ==
    /\ doing[r] = "error"
    /\ Forget(r)
    /\ goesTo(r, "idle")
    /\ UNCHANGED <<truth, store, settled>>

Fetch(r) ==
    /\ doing[r] = "fetch"
    /\ val' = [val EXCEPT ![r] = truth]
    /\ age' = [age EXCEPT ![r] = 0]
    /\ goesTo(r, "set")
    /\ UNCHANGED <<truth, store, ghostVars>>

FetchFail(r) ==
    /\ doing[r] = "fetch"
    /\ Forget(r)
    /\ goesTo(r, "idle")
    /\ UNCHANGED <<truth, store, settled>>

\* cache_set (a Redis error is swallowed), then the fetched list is returned.
Set(r) ==
    /\ doing[r] = "set"
    /\ \/ store' = [store EXCEPT ![StoreOf(r)] = [v |-> val[r], left |-> TTL, age |-> age[r]]]
       \/ Redis(r) /\ CacheMayFail /\ UNCHANGED store
    /\ goesTo(r, "reply")
    /\ UNCHANGED <<truth, val, age, ghostVars>>

-----------------------------------------------------------------------------
(* Changes of the cloud. *)

\* A create, delete, attach or detach: the SDK call, then cache_invalidate.
Mutate(r) ==
    /\ doing[r] = "idle" /\ LoopFree(r) /\ truth < MaxVersion
    /\ truth' = truth + 1
    /\ val' = [val EXCEPT ![r] = truth + 1]
    /\ goesTo(r, "invalidate")
    /\ UNCHANGED <<store, age, ghostVars>>

OlderListUnderway(s, v) ==
    \E q \in Requests : StoreOf(q) = s /\ doing[q] = "set" /\ val[q] < v

\* Faulty variant: cache_invalidate names the wrong resource.
InvalidateOther(r) ==
    LET s == StoreOf(r)
    IN  /\ doing[r] = "invalidate"
        /\ goesTo(r, "idle")
        /\ Forget(r)
        /\ settled' = IF OlderListUnderway(s, val[r])
                      THEN settled
                      ELSE [settled EXCEPT ![s] = Larger(@, val[r])]
        /\ UNCHANGED <<truth, store>>

Invalidate(r) ==
    LET s == StoreOf(r)
    IN  /\ doing[r] = "invalidate"
        /\ goesTo(r, "idle")
        /\ Forget(r)
        /\ \/ /\ store' = [store EXCEPT ![s] = NoEntry]
              /\ settled' = IF OlderListUnderway(s, val[r])
                            THEN settled
                            ELSE [settled EXCEPT ![s] = Larger(@, val[r])]
           \/ Redis(r) /\ CacheMayFail /\ UNCHANGED <<store, settled>>
        /\ UNCHANGED truth

\* A change nobody announces: perform_action and the resize calls, the VM
\* engine, a mutation whose SDK call raised after it took effect, another
\* client of the cloud, or Nova finishing what it was asked to do.
SilentChange ==
    /\ truth < MaxVersion
    /\ truth' = truth + 1
    /\ UNCHANGED <<store, doing, val, age, ghostVars>>

-----------------------------------------------------------------------------
(* Time. *)

Older(e) == IF e.left = 0 THEN e ELSE [v |-> e.v, left |-> e.left - 1, age |-> e.age + 1]

Tick ==
    /\ \A r \in Requests : doing[r] = "set" => age[r] < MaxFetch
    /\ store' = [s \in Stores |-> Older(store[s])]
    /\ age' = [r \in Requests |-> IF doing[r] = "set" THEN age[r] + 1 ELSE age[r]]
    /\ UNCHANGED <<truth, doing, val, ghostVars>>

RequestStep(r) ==
    \/ BeginList(r) \/ GetHit(r) \/ GetMiss(r) \/ Evict(r) \/ Raise(r)
    \/ Fetch(r) \/ FetchFail(r) \/ Set(r) \/ Return(r)
    \/ Mutate(r) \/ Invalidate(r)

ListNext ==
    /\ \/ \E r \in Requests : RequestStep(r)
       \/ SilentChange
       \/ Tick
    /\ UNCHANGED onRedis

ListSpec == ListInit /\ [][ListNext]_listVars
-----------------------------------------------------------------------------
(* Properties. *)

\* What a store may hold.
Entry == [v : Int, left : 0..TTL, age : Nat]

\* The stores hold entries, and the requests' locals keep their types.
ListTypeOK ==
    /\ onRedis \subseteq Workers
    /\ truth \in Nat
    /\ store \in [Stores -> Entry]
    /\ doing \in [Requests -> {"idle", "get", "evict", "error", "fetch", "set", "reply",
                          "invalidate"}]
    /\ val \in [Requests -> Int]
    /\ age \in [Requests -> Nat]
    /\ floor \in [Requests -> Nat]
    /\ settled \in [Stores -> Nat]

\* TTLCache and RedisCache: every list a caller gets was read from the cloud
\* less than the TTL plus one fetch ago, however the fetches, expiries and
\* invalidations of the threads interleave.
StalenessBounded ==
    \A r \in Requests : doing[r] = "reply" => age[r] < TTL + MaxFetch

\* cache_invalidate: once an invalidation was carried out with no older list on
\* its way to the store, no list request that begins later on that store is
\* answered with a list from before the change.
SettledIsSeen ==
    \A r \in Requests : doing[r] = "reply" => val[r] >= floor[r]
=============================================================================
