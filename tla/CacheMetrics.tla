----------------------------- MODULE CacheMetrics -----------------------------
(***************************************************************************)
(* TTLCache.get and RedisCache.get at the grain of their statements, the   *)
(* counters they keep (common/utils/cache, redis_cache), and the task of   *)
(* the lifespan that exports the counters to Prometheus every 15 seconds   *)
(* (main._sync_cache_metrics and _sync_redis_metrics).  One process and    *)
(* one resource, such as the servers: the list endpoints run in threads,   *)
(* the invalidations and the export in the event loop.  ListCache models   *)
(* what the cached lists say; here an entry is there or not.               *)
(***************************************************************************)
EXTENDS Integers, FiniteSets

CONSTANTS Readers,      \* threads that serve list requests
          MaxLookups,   \* bound: lookups in a behaviour
          MaxSyncs,     \* bound: exports
          MaxInvalidations

Counters == {"hits", "misses", "invalidations", "errors"}

VARIABLES
    redis,      \* is_redis(): the backend that was chosen at the start
    entry,      \* whether there is an entry under the key
    overdue,    \* whether the entry has outlived its TTL
    count,      \* the in-process counters
    step, refused, counter, old,  \* a thread: its step, the command that Redis
                                  \* refused it ("no" when none), the counter it
                                  \* increments and the value it read
    last,       \* _last_cache
    exported,   \* the counters cache_hits, cache_misses, cache_invalidations
    exportedRedis,  \* the counters redis_cache_*
    syncs, lookups, invalidations,   \* how many there have been
    events,     \* history: what the counters are meant to count
    raced,      \* history: counters of which an increment was overtaken
    keyErrors   \* history: threads of which a get has raised KeyError

lookupVars == <<step, refused, counter, old>>
exportVars == <<last, exported, exportedRedis, syncs>>
metricsVars == <<redis, entry, overdue, count, lookupVars, exportVars, lookups,
                 invalidations, events, raced, keyErrors>>

Zero == [c \in Counters |-> 0]

MetricsInit ==
    /\ redis \in BOOLEAN
    /\ entry = FALSE /\ overdue = FALSE /\ count = Zero
    /\ step = [t \in Readers |-> "idle"]
    /\ refused = [t \in Readers |-> "no"]
    /\ counter = [t \in Readers |-> "misses"]
    /\ old = [t \in Readers |-> 0]
    /\ last = Zero /\ exported = Zero /\ exportedRedis = Zero
    /\ syncs = 0 /\ lookups = 0 /\ invalidations = 0
    /\ events = Zero /\ raced = {} /\ keyErrors = {}

goto(t, label) == step' = [step EXCEPT ![t] = label]
refuse(t, command) == refused' = [refused EXCEPT ![t] = command]

\* _incr, or `+=`: the counter is chosen here, read and written in later steps.
toCount(t, c) == counter' = [counter EXCEPT ![t] = c] /\ goto(t, "add")
-----------------------------------------------------------------------------
(* get of the two backends.                                                *)

\* TTLCache.get up to is_expired.  A thread that finds the entry expired goes on
\* to delete whatever is stored under the key by then.
Lookup(t) ==
    /\ ~redis /\ step[t] = "idle" /\ lookups < MaxLookups
    /\ lookups' = lookups + 1
    /\ \/ ~entry /\ toCount(t, "misses")
       \/ entry /\ ~overdue /\ toCount(t, "hits")
       \/ entry /\ overdue /\ goto(t, "del") /\ UNCHANGED counter
    /\ UNCHANGED <<redis, entry, overdue, count, refused, old, exportVars,
                   invalidations, events, raced, keyErrors>>

\* del self._store[key]: KeyError when the entry has gone, which ends the request;
\* an entry that another thread has stored since then is deleted all the same.
Delete(t) ==
    /\ step[t] = "del"
    /\ \/ entry /\ toCount(t, "misses") /\ UNCHANGED keyErrors
       \/ ~entry /\ goto(t, "idle") /\ keyErrors' = keyErrors \cup {t} /\ UNCHANGED counter
    /\ entry' = FALSE /\ overdue' = FALSE
    /\ UNCHANGED <<redis, count, refused, old, exportVars, lookups, invalidations,
                   events, raced>>

\* RedisCache.get: Redis deletes what has expired; a command that fails counts as
\* a miss and as an error.
LookupRedis(t) ==
    /\ redis /\ step[t] = "idle" /\ lookups < MaxLookups
    /\ lookups' = lookups + 1
    /\ \/ (~entry \/ overdue) /\ toCount(t, "misses") /\ refuse(t, "no")
       \/ entry /\ ~overdue /\ toCount(t, "hits") /\ refuse(t, "no")
       \/ toCount(t, "misses") /\ refuse(t, "GET")
    /\ UNCHANGED <<redis, entry, overdue, count, old, exportVars, invalidations,
                   events, raced, keyErrors>>

\* counter[name] = counter.get(name, 0) + 1, by a thread that may stop in between.
ReadCounter(t) ==
    /\ step[t] = "add" /\ goto(t, "write")
    /\ old' = [old EXCEPT ![t] = count[counter[t]]]
    /\ UNCHANGED <<redis, entry, overdue, count, refused, counter, exportVars,
                   lookups, invalidations, events, raced, keyErrors>>

WriteCounter(t) ==
    /\ step[t] = "write"
    /\ LET c == counter[t] IN
         /\ count' = [count EXCEPT ![c] = old[t] + 1]
         /\ raced' = IF count[c] = old[t] THEN raced ELSE raced \cup {c}
         /\ events' = [events EXCEPT ![c] = @ + 1]
         /\ IF refused[t] = "GET" /\ c = "misses" THEN toCount(t, "errors")
            ELSE /\ goto(t, IF c = "hits" \/ refused[t] = "SETEX" THEN "idle" ELSE "fetch")
                 /\ UNCHANGED counter
    /\ UNCHANGED <<redis, entry, overdue, refused, old, exportVars, lookups,
                   invalidations, keyErrors>>

\* The list is fetched and stored, or the call fails; a SETEX that Redis refuses is
\* counted as an error and forgotten.
Store(t) ==
    /\ step[t] = "fetch"
    /\ \/ /\ entry' = TRUE /\ overdue' = FALSE
          /\ refuse(t, "no") /\ goto(t, "idle") /\ UNCHANGED counter
       \/ refuse(t, "no") /\ goto(t, "idle") /\ UNCHANGED <<entry, overdue, counter>>
       \/ redis /\ refuse(t, "SETEX") /\ toCount(t, "errors") /\ UNCHANGED <<entry, overdue>>
    /\ UNCHANGED <<redis, count, old, exportVars, lookups, invalidations, events, raced,
                   keyErrors>>

Expire ==
    /\ entry /\ ~overdue /\ overdue' = TRUE
    /\ UNCHANGED <<redis, entry, count, lookupVars, exportVars, lookups,
                   invalidations, events, raced, keyErrors>>
-----------------------------------------------------------------------------
(* The event loop: invalidate_all, and the exporting task.                 *)

\* A DEL that Redis refuses leaves the entry and counts as an invalidation all the
\* same.
InvalidateEntry ==
    /\ invalidations < MaxInvalidations /\ invalidations' = invalidations + 1
    /\ \/ /\ entry' = FALSE /\ overdue' = FALSE
          /\ count' = [count EXCEPT !["invalidations"] = @ + 1]
          /\ events' = [events EXCEPT !["invalidations"] = @ + 1]
       \/ /\ redis
          /\ count' = [count EXCEPT !["invalidations"] = @ + 1, !["errors"] = @ + 1]
          /\ events' = [events EXCEPT !["invalidations"] = @ + 1, !["errors"] = @ + 1]
          /\ UNCHANGED <<entry, overdue>>
    /\ UNCHANGED <<redis, lookupVars, exportVars, lookups, raced, keyErrors>>

\* The snapshot of the counters: those of all TTLCaches, or those of the RedisCache,
\* which also counts the errors of Redis.
collect_cache_metrics == [count EXCEPT !["errors"] = 0]
collect_redis_metrics == count
collect_metrics == IF redis THEN collect_redis_metrics ELSE collect_cache_metrics

\* Faulty variant: _last_cache keeps the first value it was given.
rememberedFirst == [c \in Counters |-> IF last[c] = 0 THEN count[c] ELSE last[c]]
remembered == collect_metrics

\* What _sync_redis_metrics adds to a counter: the total, not what it grew by.
added(c) == collect_metrics[c]

\* Only positive deltas are exported; the Redis counters get the running totals.
Sync ==
    /\ syncs < MaxSyncs /\ syncs' = syncs + 1
    /\ exported' = [c \in Counters |->
                       IF c # "errors" /\ collect_metrics[c] > last[c]
                       THEN exported[c] + collect_metrics[c] - last[c] ELSE exported[c]]
    /\ last' = remembered
    /\ exportedRedis' = [c \in Counters |->
                            IF redis THEN exportedRedis[c] + added(c) ELSE 0]
    /\ UNCHANGED <<redis, entry, overdue, count, lookupVars, lookups,
                   invalidations, events, raced, keyErrors>>

Thread(t) ==
    \/ Lookup(t) \/ Delete(t) \/ LookupRedis(t) \/ ReadCounter(t) \/ WriteCounter(t)
    \/ Store(t)

MetricsNext == (\E t \in Readers : Thread(t)) \/ Expire \/ InvalidateEntry \/ Sync

MetricsSpec == MetricsInit /\ [][MetricsNext]_metricsVars
-----------------------------------------------------------------------------
\* The deltas of _sync_cache_metrics neither lose nor invent what the counters show:
\* Prometheus never falls behind the last export, and where _incr lost no update to
\* another thread it shows exactly that, and no more than has happened.
ExportExplained ==
    \A c \in Counters \ {"errors"} :
        /\ last[c] <= exported[c]
        /\ c \notin raced => exported[c] = last[c] /\ exported[c] <= events[c]

\* The comment of _last_cache, "avoid duplicate accumulation": cache_hits, cache_misses
\* and cache_invalidations never show more than has happened.  Unlike ExportExplained
\* this makes no exception for lost updates.
DeltasCountOnce == \A c \in Counters \ {"errors"} : exported[c] <= events[c]

\* The same of the counters redis_cache_*, which are said to increment by 1 per call.
RedisCountsOnce == \A c \in Counters : exportedRedis[c] <= events[c]

\* "Delta tracking prevents duplicate accumulation" in at least one of the two
\* exports.  A state that refutes it shows both of them counting an event twice.
NoDuplicateAccumulation == DeltasCountOnce \/ RedisCountsOnce

\* CacheBackend.get answers a list or None, whichever backend is active: get of the
\* memory backend never ends in the KeyError of its del.
GetNeverRaises == keyErrors = {}
=============================================================================
