---------------------------- MODULE Caches_proofs ----------------------------
(***************************************************************************)
(* The caches: the two guarantees of the read-through cache, for any set of *)
(* requests and processes, either backend, any TTL and any fetch time; and *)
(* what the statements of a lookup and the export of the counters keep, for *)
(* any number of threads.                                                  *)
(***************************************************************************)
EXTENDS ListCache, CacheMetrics, TLAPS

Listing == {"get", "evict", "fetch", "set", "reply"}

\* No change in the ghosts is newer than the cloud.
VersionsBelowTruth ==
    /\ \A s \in Stores : settled[s] <= truth
    /\ \A r \in Requests : doing[r] = "invalidate" => val[r] <= truth

\* Nothing in a store, or on its way to one, is older than the settled change.
NoOldListInStore ==
    /\ \A s \in Stores : store[s] = NoEntry \/ store[s].v >= settled[s]
    /\ \A r \in Requests : doing[r] = "set" => val[r] >= settled[StoreOf(r)]

\* The floor a list began with is below what has been settled since, and below
\* the list it found or fetched.
FloorsHold ==
    \A r \in Requests :
        /\ doing[r] \in Listing => floor[r] <= settled[StoreOf(r)]
        /\ doing[r] \in {"set", "reply"} => val[r] >= floor[r]

\* An entry's age and its remaining life add up to at most a TTL and a fetch.
AgesHold ==
    /\ \A s \in Stores : store[s].age + store[s].left <= TTL + MaxFetch
    /\ \A r \in Requests : doing[r] = "set" => age[r] <= MaxFetch
    /\ StalenessBounded

IInv == ListTypeOK /\ VersionsBelowTruth /\ NoOldListInStore /\ FloorsHold /\ AgesHold

\* Every request has its store.
LEMMA StoreOfType == \A r \in Requests : StoreOf(r) \in Stores
  BY HomeAssumption DEF StoreOf, Redis, Stores

\* No step changes the backend of a process, so none changes a request's store.
LEMMA SameStore ==
    [ListNext]_listVars => /\ onRedis' = onRedis
                   /\ \A r \in Requests : StoreOf(r)' = StoreOf(r)
  <1> SUFFICES ASSUME [ListNext]_listVars PROVE onRedis' = onRedis /\ \A r \in Requests : StoreOf(r)' = StoreOf(r)
    OBVIOUS
  <1>1. onRedis' = onRedis
    BY DEF ListNext, listVars
  <1> QED
    BY <1>1 DEF StoreOf, Redis

\* A tick keeps an entry an entry and moves at most one unit from its remaining
\* life to its age.
LEMMA OlderEntry ==
    ASSUME NEW e \in Entry
    PROVE  /\ Older(e) \in Entry
           /\ Older(e).v = e.v
           /\ Older(e).age + Older(e).left = e.age + e.left
  <1>1. e.v \in Int /\ e.left \in 0..TTL /\ e.age \in Nat /\ TTL \in Nat
    BY TTLAssumption DEF Entry
  <1>2. CASE e.left = 0
    BY <1>2 DEF Older
  <1>3. CASE e.left # 0
    <2>1. e.left - 1 \in 0..TTL /\ e.age + 1 \in Nat
      BY <1>1, <1>3
    <2>2. Older(e) = [v |-> e.v, left |-> e.left - 1, age |-> e.age + 1]
      BY <1>3 DEF Older
    <2>3. Older(e) \in Entry
      BY <1>1, <2>1, <2>2 DEF Entry
    <2>4. (e.age + 1) + (e.left - 1) = e.age + e.left
      BY <1>1
    <2> QED
      BY <2>2, <2>3, <2>4
  <1> QED
    BY <1>2, <1>3

\* A live entry is younger than a TTL and a fetch.
LEMMA LiveEntry ==
    ASSUME NEW e \in Entry, e.left # 0, e.age + e.left <= TTL + MaxFetch
    PROVE  e.age < TTL + MaxFetch
  <1>1. e.left \in 0..TTL /\ e.age \in Nat /\ TTL \in Nat /\ MaxFetch \in Nat
    BY TTLAssumption, BoundsAssumption DEF Entry
  <1> QED
    BY <1>1

\* The cache starts empty, so the invariant holds at the start.
LEMMA InitIInv == ListInit => IInv
  <1> SUFFICES ASSUME ListInit PROVE IInv
    OBVIOUS
  <1>1. ListTypeOK
    BY TTLAssumption, BackendsAssumption DEF ListInit, ListTypeOK, Entry, NoEntry
  <1>2. VersionsBelowTruth /\ NoOldListInStore /\ FloorsHold
    BY StoreOfType DEF ListInit, VersionsBelowTruth, NoOldListInStore, FloorsHold, Listing
  <1>3. AgesHold
    BY TTLAssumption, BoundsAssumption DEF ListInit, AgesHold, StalenessBounded, NoEntry
  <1> QED
    BY <1>1, <1>2, <1>3 DEF IInv

-----------------------------------------------------------------------------
(* One lemma per conjunct. *)

\* Type correctness.
LEMMA NextTypeOK == IInv /\ [ListNext]_listVars => ListTypeOK'
  <1> SUFFICES ASSUME ListTypeOK, [ListNext]_listVars PROVE ListTypeOK'
    BY DEF IInv
  <1>0. onRedis' = onRedis /\ \A r \in Requests : StoreOf(r)' = StoreOf(r)
    BY SameStore
  <1> USE StoreOfType, <1>0, TTLAssumption DEF ListTypeOK, Entry, goesTo, Forget, ghostVars
  <1>1. ASSUME NEW r \in Requests, BeginList(r) PROVE ListTypeOK'
    BY <1>1 DEF BeginList
  <1>2. ASSUME NEW r \in Requests, GetHit(r) PROVE ListTypeOK'
    BY <1>2 DEF GetHit
  <1>3. ASSUME NEW r \in Requests, GetMiss(r) PROVE ListTypeOK'
    BY <1>3 DEF GetMiss
  <1>4. ASSUME NEW r \in Requests, Evict(r) PROVE ListTypeOK'
    BY <1>4 DEF Evict, NoEntry
  <1>5. ASSUME NEW r \in Requests, Raise(r) \/ FetchFail(r) \/ Return(r) PROVE ListTypeOK'
    <2>1. Forget(r) /\ goesTo(r, "idle") /\ UNCHANGED <<truth, store, settled>>
      BY <1>5 DEF Raise, FetchFail, Return
    <2> QED
      BY <2>1
  <1>6. ASSUME NEW r \in Requests, Fetch(r) PROVE ListTypeOK'
    BY <1>6 DEF Fetch
  <1>7. ASSUME NEW r \in Requests, Set(r) PROVE ListTypeOK'
    BY <1>7 DEF Set
  <1>8. ASSUME NEW r \in Requests, Mutate(r) PROVE ListTypeOK'
    BY <1>8 DEF Mutate
  <1>9. ASSUME NEW r \in Requests, Invalidate(r) PROVE ListTypeOK'
    <2> DEFINE s == StoreOf(r)
    <2>0. Larger(settled[s], val[r]) \in Nat
      BY DEF Larger
    <2>1. settled' \in [Stores -> Nat]
      BY <1>9, <2>0 DEF Invalidate
    <2>2. store' \in [Stores -> Entry]
      BY <1>9 DEF Invalidate, NoEntry
    <2> QED
      BY <1>9, <2>1, <2>2 DEF Invalidate
  <1>10. CASE SilentChange
    BY <1>10 DEF SilentChange
  <1>11. CASE Tick
    <2>1. store' \in [Stores -> Entry]
      BY <1>11, OlderEntry DEF Tick
    <2> QED
      BY <1>11, <2>1 DEF Tick
  <1>12. CASE UNCHANGED listVars
    BY <1>12 DEF listVars
  <1> QED
    BY <1>1, <1>2, <1>3, <1>4, <1>5, <1>6, <1>7, <1>8, <1>9, <1>10, <1>11, <1>12
       DEF ListNext, RequestStep

\* The cloud's version only grows, and a change is settled only after it was made.
LEMMA NextVersions == IInv /\ [ListNext]_listVars => VersionsBelowTruth'
  <1> SUFFICES ASSUME ListTypeOK, VersionsBelowTruth, [ListNext]_listVars PROVE VersionsBelowTruth'
    BY DEF IInv
  <1>0. onRedis' = onRedis /\ \A r \in Requests : StoreOf(r)' = StoreOf(r)
    BY SameStore
  <1> USE StoreOfType, <1>0 DEF ListTypeOK, VersionsBelowTruth, goesTo, Forget, ghostVars
  <1>1. ASSUME NEW r \in Requests,
               \/ BeginList(r) \/ GetHit(r) \/ GetMiss(r) \/ Evict(r) \/ Fetch(r) \/ Set(r)
        PROVE  VersionsBelowTruth'
    BY <1>1 DEF BeginList, GetHit, GetMiss, Evict, Fetch, Set
  <1>2. ASSUME NEW r \in Requests, Raise(r) \/ FetchFail(r) \/ Return(r)
        PROVE  VersionsBelowTruth'
    BY <1>2 DEF Raise, FetchFail, Return
  <1>3. ASSUME NEW r \in Requests, Mutate(r) PROVE VersionsBelowTruth'
    BY <1>3 DEF Mutate
  <1>4. ASSUME NEW r \in Requests, Invalidate(r) PROVE VersionsBelowTruth'
    BY <1>4 DEF Invalidate, Larger
  <1>5. CASE SilentChange
    BY <1>5 DEF SilentChange
  <1>6. CASE Tick \/ UNCHANGED listVars
    BY <1>6 DEF Tick, listVars
  <1> QED
    BY <1>1, <1>2, <1>3, <1>4, <1>5, <1>6 DEF ListNext, RequestStep

\* A settled change is one that nothing older can overwrite: the invalidation
\* emptied the store while no older list was on its way to it, and every list
\* fetched since then has the change.
LEMMA NextNoOldList == IInv /\ [ListNext]_listVars => NoOldListInStore'
  <1> SUFFICES ASSUME ListTypeOK, VersionsBelowTruth, NoOldListInStore, [ListNext]_listVars
               PROVE  NoOldListInStore'
    BY DEF IInv
  <1>0. onRedis' = onRedis /\ \A r \in Requests : StoreOf(r)' = StoreOf(r)
    BY SameStore
  <1> USE StoreOfType, <1>0 DEF ListTypeOK, NoOldListInStore, goesTo, Forget, ghostVars
  <1>1. ASSUME NEW r \in Requests, BeginList(r) \/ GetHit(r) \/ GetMiss(r) \/ Evict(r)
        PROVE  NoOldListInStore'
    BY <1>1 DEF BeginList, GetHit, GetMiss, Evict
  <1>2. ASSUME NEW r \in Requests, Raise(r) \/ FetchFail(r) \/ Return(r)
        PROVE  NoOldListInStore'
    BY <1>2 DEF Raise, FetchFail, Return
  <1>3. ASSUME NEW r \in Requests, Fetch(r) PROVE NoOldListInStore'
    BY <1>3 DEF Fetch, VersionsBelowTruth
  <1>4. ASSUME NEW r \in Requests, Set(r) PROVE NoOldListInStore'
    BY <1>4 DEF Set
  <1>5. ASSUME NEW r \in Requests, Mutate(r) PROVE NoOldListInStore'
    BY <1>5 DEF Mutate
  <1>6. ASSUME NEW r \in Requests, Invalidate(r) PROVE NoOldListInStore'
    <2>1. ASSUME NEW q \in Requests, doing'[q] = "set"
          PROVE  q # r /\ doing[q] = "set" /\ val'[q] = val[q]
      BY <1>6, <2>1 DEF Invalidate
    <2>2. CASE store' = [store EXCEPT ![StoreOf(r)] = NoEntry]
               /\ settled' = [settled EXCEPT ![StoreOf(r)] = Larger(@, val[r])]
               /\ ~OlderListUnderway(StoreOf(r), val[r])
      BY <2>1, <2>2 DEF Larger, OlderListUnderway
    <2>3. CASE store' = [store EXCEPT ![StoreOf(r)] = NoEntry] /\ settled' = settled
      BY <2>1, <2>3
    <2>4. CASE UNCHANGED <<store, settled>>
      BY <2>1, <2>4
    <2> QED
      BY <1>6, <2>2, <2>3, <2>4 DEF Invalidate
  <1>7. CASE SilentChange \/ UNCHANGED listVars
    BY <1>7 DEF SilentChange, listVars
  <1>8. CASE Tick
    <2>1. Older(NoEntry) = NoEntry
      BY DEF Older, NoEntry
    <2> QED
      BY <1>8, <2>1, OlderEntry DEF Tick
  <1> QED
    BY <1>1, <1>2, <1>3, <1>4, <1>5, <1>6, <1>7, <1>8 DEF ListNext, RequestStep

\* settled only grows, so a floor taken from it stays below it.
LEMMA NextFloors == IInv /\ [ListNext]_listVars => FloorsHold'
  <1> SUFFICES ASSUME ListTypeOK, VersionsBelowTruth, NoOldListInStore, FloorsHold, [ListNext]_listVars
               PROVE  FloorsHold'
    BY DEF IInv
  <1>0. onRedis' = onRedis /\ \A r \in Requests : StoreOf(r)' = StoreOf(r)
    BY SameStore
  <1> USE StoreOfType, <1>0 DEF ListTypeOK, FloorsHold, Listing, goesTo, Forget, ghostVars
  <1>1. ASSUME NEW r \in Requests, BeginList(r) PROVE FloorsHold'
    BY <1>1 DEF BeginList
  <1>2. ASSUME NEW r \in Requests, GetHit(r) PROVE FloorsHold'
    <2>1. store[StoreOf(r)].v >= floor[r]
      BY <1>2 DEF GetHit, NoOldListInStore, Entry
    <2> QED
      BY <1>2, <2>1 DEF GetHit
  <1>3. ASSUME NEW r \in Requests, GetMiss(r) \/ Evict(r) PROVE FloorsHold'
    BY <1>3 DEF GetMiss, Evict
  <1>4. ASSUME NEW r \in Requests, Raise(r) \/ FetchFail(r) \/ Return(r) PROVE FloorsHold'
    BY <1>4 DEF Raise, FetchFail, Return
  <1>5. ASSUME NEW r \in Requests, Fetch(r) PROVE FloorsHold'
    BY <1>5 DEF Fetch, VersionsBelowTruth
  <1>6. ASSUME NEW r \in Requests, Set(r) PROVE FloorsHold'
    BY <1>6 DEF Set
  <1>7. ASSUME NEW r \in Requests, Mutate(r) PROVE FloorsHold'
    BY <1>7 DEF Mutate
  <1>8. ASSUME NEW r \in Requests, Invalidate(r) PROVE FloorsHold'
    <2>1. \A s \in Stores : settled'[s] >= settled[s]
      BY <1>8 DEF Invalidate, Larger
    <2>2. \A s \in Stores : settled'[s] \in Nat
      BY <1>8 DEF Invalidate, Larger
    <2>3. ASSUME NEW q \in Requests, doing'[q] \in Listing
          PROVE  doing'[q] = doing[q] /\ floor'[q] = floor[q] /\ val'[q] = val[q]
      BY <1>8, <2>3 DEF Invalidate
    <2> QED
      BY <2>1, <2>2, <2>3
  <1>9. CASE SilentChange \/ Tick \/ UNCHANGED listVars
    BY <1>9 DEF SilentChange, Tick, listVars
  <1> QED
    BY <1>1, <1>2, <1>3, <1>4, <1>5, <1>6, <1>7, <1>8, <1>9 DEF ListNext, RequestStep

\* A tick moves one unit from an entry's remaining life to its age.
LEMMA NextAges == IInv /\ [ListNext]_listVars => AgesHold'
  <1> SUFFICES ASSUME ListTypeOK, AgesHold, [ListNext]_listVars PROVE AgesHold'
    BY DEF IInv
  <1>0. onRedis' = onRedis /\ \A r \in Requests : StoreOf(r)' = StoreOf(r)
    BY SameStore
  <1> USE StoreOfType, <1>0, TTLAssumption, BoundsAssumption
      DEF ListTypeOK, AgesHold, StalenessBounded, goesTo, Forget, ghostVars
  <1>1. ASSUME NEW r \in Requests, BeginList(r) \/ GetMiss(r) \/ Mutate(r) PROVE AgesHold'
    BY <1>1 DEF BeginList, GetMiss, Mutate
  <1>2. ASSUME NEW r \in Requests, GetHit(r) PROVE AgesHold'
    <2> DEFINE e == store[StoreOf(r)]
    <2>1. e \in Entry /\ e.left # 0 /\ e.age + e.left <= TTL + MaxFetch
      BY <1>2 DEF GetHit, IsExpired
    <2>2. e.age < TTL + MaxFetch
      BY <2>1, LiveEntry
    <2>3. UNCHANGED store /\ age' = [age EXCEPT ![r] = e.age] /\ doing' = [doing EXCEPT ![r] = "reply"]
      BY <1>2 DEF GetHit
    <2> QED
      BY <2>2, <2>3
  <1>3. ASSUME NEW r \in Requests, Evict(r) PROVE AgesHold'
    BY <1>3 DEF Evict, NoEntry, Entry
  <1>4. ASSUME NEW r \in Requests, Raise(r) \/ FetchFail(r) \/ Return(r) PROVE AgesHold'
    BY <1>4 DEF Raise, FetchFail, Return
  <1>5. ASSUME NEW r \in Requests, Fetch(r) PROVE AgesHold'
    BY <1>5 DEF Fetch
  <1>6. ASSUME NEW r \in Requests, Set(r) PROVE AgesHold'
    BY <1>6 DEF Set, Entry
  <1>7. ASSUME NEW r \in Requests, Invalidate(r) PROVE AgesHold'
    BY <1>7 DEF Invalidate, NoEntry, Entry
  <1>8. CASE SilentChange \/ UNCHANGED listVars
    BY <1>8 DEF SilentChange, listVars
  <1>9. CASE Tick
    BY <1>9, OlderEntry DEF Tick
  <1> QED
    BY <1>1, <1>2, <1>3, <1>4, <1>5, <1>6, <1>7, <1>8, <1>9 DEF ListNext, RequestStep

-----------------------------------------------------------------------------
(* The theorems. *)

\* Every reachable state of the cache satisfies the inductive invariant.
THEOREM Invariance == ListSpec => []IInv
  <1>1. IInv /\ [ListNext]_listVars => IInv'
    BY NextTypeOK, NextVersions, NextNoOldList, NextFloors, NextAges DEF IInv
  <1> QED
    BY <1>1, InitIInv, PTL DEF ListSpec

\* TTLCache.get, RedisCache.get, cache_set: a list older than the TTL and one
\* fetch is never served, whichever backend and however requests interleave.
THEOREM Freshness == ListSpec => []StalenessBounded
  <1>1. IInv => StalenessBounded
    BY DEF IInv, AgesHold
  <1> QED
    BY <1>1, Invariance, PTL

\* cache_invalidate: a change whose invalidation met no older list under way is
\* seen by every list request that begins later on the same store.
THEOREM SettledChangesSeen == ListSpec => []SettledIsSeen
  <1>1. IInv => SettledIsSeen
    BY StoreOfType DEF IInv, FloorsHold, SettledIsSeen
  <1> QED
    BY <1>1, Invariance, PTL

-----------------------------------------------------------------------------
(* The counters of the caches and their export: the module CacheMetrics. *)

Counts == [Counters -> Nat]

CountersTyped ==
    /\ redis \in BOOLEAN
    /\ count \in Counts /\ events \in Counts /\ last \in Counts /\ exported \in Counts
    /\ counter \in [Readers -> Counters] /\ old \in [Readers -> Nat]

\* A counter without an overtaken increment is exact, and its last export is not
\* beyond it.
Exact(c) == c \notin raced => count[c] = events[c] /\ last[c] <= events[c]

\* What Prometheus shows is never behind the last export; where no increment was
\* overtaken the two agree.
Followed(c) == last[c] <= exported[c] /\ (c \notin raced => exported[c] = last[c])

ExportInv ==
    /\ CountersTyped
    /\ \A c \in Counters : Exact(c)
    /\ \A c \in Counters \ {"errors"} : Followed(c)

\* A step that counts: a counter that is not overtaken grows with its events, and the
\* exports stay.
LEMMA Counted ==
    ASSUME ExportInv, UNCHANGED <<redis, exportVars>>,
           count' \in Counts, events' \in Counts, raced \subseteq raced',
           counter' \in [Readers -> Counters], old' \in [Readers -> Nat],
           \A c \in Counters :
              /\ events[c] <= events'[c]
              /\ c \notin raced' => count'[c] - count[c] = events'[c] - events[c]
    PROVE  ExportInv'
  <1>0. redis' = redis /\ last' = last /\ exported' = exported
    BY DEF exportVars
  <1>1. CountersTyped'
    BY <1>0 DEF ExportInv, CountersTyped
  <1>2. ASSUME NEW c \in Counters PROVE Exact(c)'
    <2>1. /\ events[c] \in Nat /\ events'[c] \in Nat /\ count[c] \in Nat /\ count'[c] \in Nat
          /\ last[c] \in Nat /\ Exact(c)
      BY DEF ExportInv, CountersTyped, Counts
    <2> QED
      BY <1>0, <2>1 DEF Exact
  <1>3. ASSUME NEW c \in Counters \ {"errors"} PROVE Followed(c)'
    BY <1>0, <1>3 DEF ExportInv, Followed
  <1> QED
    BY <1>1, <1>2, <1>3 DEF ExportInv

\* A step that leaves the counters alone.
LEMMA NothingCounted ==
    ASSUME ExportInv, UNCHANGED <<redis, count, exportVars, events, raced>>,
           counter' \in [Readers -> Counters], old' \in [Readers -> Nat]
    PROVE  ExportInv'
  <1>1. \A c \in Counters : count[c] \in Nat /\ events[c] \in Nat
    BY DEF ExportInv, CountersTyped, Counts
  <1>2. count' \in Counts /\ events' \in Counts
    BY DEF ExportInv, CountersTyped
  <1>3. \A c \in Counters : /\ events[c] <= events'[c]
                                    /\ count'[c] - count[c] = events'[c] - events[c]
    BY <1>1
  <1> QED
    BY <1>2, <1>3, Counted

\* What Prometheus gets: after an export the counters are where the cache's are.
LEMMA SyncExports ==
    ASSUME ExportInv, Sync
    PROVE  ExportInv'
  <1> DEFINE m == collect_metrics
  <1>0. /\ last' = m
        /\ exported' = [c \in Counters |-> IF c # "errors" /\ m[c] > last[c]
                                           THEN exported[c] + m[c] - last[c] ELSE exported[c]]
        /\ UNCHANGED <<redis, count, counter, old, events, raced>>
    BY DEF Sync, remembered, lookupVars
  <1>1. /\ redis \in BOOLEAN /\ count \in Counts /\ events \in Counts
        /\ last \in Counts /\ exported \in Counts
    BY DEF ExportInv, CountersTyped
  <1>2. m \in Counts
    BY <1>1 DEF collect_metrics, collect_redis_metrics,
       collect_cache_metrics, Counts, Counters
  <1>3. ASSUME NEW c \in Counters
        PROVE  m[c] <= count[c] /\ (c # "errors" => m[c] = count[c])
    <2>1. CASE redis
      BY <1>1, <2>1 DEF collect_metrics, collect_redis_metrics, Counts
    <2>2. CASE ~redis
      BY <1>1, <2>2 DEF collect_metrics, collect_cache_metrics, Counts,
         Counters
    <2> QED
      BY <2>1, <2>2
  <1> HIDE DEF m
  <1>4. ASSUME NEW c \in Counters
        PROVE  /\ m[c] \in Nat /\ count[c] \in Nat /\ events[c] \in Nat /\ last[c] \in Nat
               /\ exported[c] \in Nat /\ Exact(c) /\ (c # "errors" => Followed(c))
    BY <1>1, <1>2 DEF Counts, ExportInv
  <1>5. exported' \in Counts
    BY <1>0, <1>4 DEF Counts, Followed
  <1>6. CountersTyped'
    BY <1>0, <1>1, <1>2, <1>5 DEF ExportInv, CountersTyped
  <1>7. ASSUME NEW c \in Counters PROVE Exact(c)'
    BY <1>0, <1>3, <1>4 DEF Exact
  <1>8. ASSUME NEW c \in Counters \ {"errors"} PROVE Followed(c)'
    <2>1. Followed(c) /\ Exact(c) /\ m[c] = count[c] /\ last'[c] = m[c] /\ raced' = raced
      BY <1>0, <1>3, <1>4, <1>8
    <2>2. exported'[c] = (IF m[c] > last[c] THEN exported[c] + m[c] - last[c] ELSE exported[c])
      BY <1>0, <1>8
    <2>3. last'[c] <= exported'[c]
      BY <1>4, <2>1, <2>2 DEF Followed
    <2>4. ASSUME c \notin raced PROVE exported'[c] = last'[c]
      BY <1>4, <2>1, <2>2, <2>4 DEF Followed, Exact
    <2> QED
      BY <2>1, <2>3, <2>4 DEF Followed
  <1> QED
    BY <1>6, <1>7, <1>8 DEF ExportInv

\* Every step of the cache and of the exporting task keeps the invariant.
LEMMA ExportStep == ExportInv /\ [MetricsNext]_metricsVars => ExportInv'
  <1> SUFFICES ASSUME ExportInv, [MetricsNext]_metricsVars PROVE ExportInv'
    OBVIOUS
  <1>0. /\ counter \in [Readers -> Counters] /\ old \in [Readers -> Nat]
        /\ count \in Counts /\ events \in Counts
        /\ {"hits", "misses", "errors"} \subseteq Counters
    BY DEF ExportInv, CountersTyped, Counters
  <1>1. ASSUME NEW t \in Readers, Lookup(t) \/ Delete(t) \/ LookupRedis(t) \/ Store(t)
        PROVE  ExportInv'
    <2>1. counter' = counter \/ \E c \in Counters : counter' = [counter EXCEPT ![t] = c]
      BY <1>0, <1>1 DEF Lookup, Delete, LookupRedis, Store,
         toCount
    <2>2. counter' \in [Readers -> Counters] /\ old' \in [Readers -> Nat]
      BY <1>0, <1>1, <2>1 DEF Lookup, Delete, LookupRedis, Store
    <2>3. UNCHANGED <<redis, count, exportVars, events, raced>>
      BY <1>1 DEF Lookup, Delete, LookupRedis, Store
    <2> QED
      BY <2>2, <2>3, NothingCounted
  <1>2. ASSUME NEW t \in Readers, ReadCounter(t) PROVE ExportInv'
    <2>1. counter' \in [Readers -> Counters] /\ old' \in [Readers -> Nat]
      BY <1>0, <1>2 DEF ReadCounter, Counts
    <2>2. UNCHANGED <<redis, count, exportVars, events, raced>>
      BY <1>2 DEF ReadCounter
    <2> QED
      BY <2>1, <2>2, NothingCounted
  <1>3. ASSUME NEW t \in Readers, WriteCounter(t) PROVE ExportInv'
    <2> DEFINE c == counter[t]
    <2>0. /\ count' = [count EXCEPT ![c] = old[t] + 1]
          /\ raced' = IF count[c] = old[t] THEN raced ELSE raced \cup {c}
          /\ events' = [events EXCEPT ![c] = @ + 1]
          /\ counter' = counter \/ counter' = [counter EXCEPT ![t] = "errors"]
          /\ UNCHANGED <<redis, old, exportVars>>
      BY <1>3 DEF WriteCounter, toCount
    <2>1. c \in Counters /\ old[t] \in Nat
      BY <1>0
    <2> HIDE DEF c
    <2>2. counter' \in [Readers -> Counters]
      BY <1>0, <2>0
    <2>3. count' \in Counts /\ events' \in Counts /\ raced \subseteq raced'
      BY <1>0, <2>0, <2>1 DEF Counts
    <2>4. ASSUME NEW d \in Counters
          PROVE  /\ events[d] <= events'[d]
                 /\ d \notin raced' => count'[d] - count[d] = events'[d] - events[d]
      <3>0. count[d] \in Nat /\ events[d] \in Nat
        BY <1>0 DEF Counts
      <3>1. CASE d = c
        <4>1. count'[d] = old[t] + 1 /\ events'[d] = events[d] + 1
          BY <1>0, <2>0, <2>1, <3>1 DEF Counts
        <4>2. d \notin raced' => count[d] = old[t]
          BY <2>0, <3>1
        <4> QED
          BY <2>1, <3>0, <4>1, <4>2
      <3>2. CASE d # c
        <4>1. count'[d] = count[d] /\ events'[d] = events[d]
          BY <1>0, <2>0, <3>2 DEF Counts
        <4> QED
          BY <3>0, <4>1
      <3> QED
        BY <3>1, <3>2
    <2> QED
      BY <1>0, <2>0, <2>2, <2>3, <2>4, Counted
  <1>4. CASE InvalidateEntry
    <2>0. /\ \E S \in {{"invalidations"}, {"invalidations", "errors"}} :
               /\ count' = [c \in Counters |-> IF c \in S THEN count[c] + 1 ELSE count[c]]
               /\ events' = [c \in Counters |-> IF c \in S THEN events[c] + 1 ELSE events[c]]
          /\ UNCHANGED <<redis, exportVars, raced, counter, old>>
      BY <1>0, <1>4 DEF InvalidateEntry, Counts, Counters, lookupVars
    <2>1. PICK S \in {{"invalidations"}, {"invalidations", "errors"}} :
               /\ count' = [c \in Counters |-> IF c \in S THEN count[c] + 1 ELSE count[c]]
               /\ events' = [c \in Counters |-> IF c \in S THEN events[c] + 1 ELSE events[c]]
      BY <2>0
    <2>2. \A c \in Counters : count[c] \in Nat /\ events[c] \in Nat
      BY <1>0 DEF Counts
    <2>3. count' \in Counts /\ events' \in Counts
      BY <2>1, <2>2 DEF Counts
    <2>4. \A c \in Counters : /\ events[c] <= events'[c]
                                      /\ count'[c] - count[c] = events'[c] - events[c]
      BY <2>1, <2>2
    <2> QED
      BY <1>0, <2>0, <2>3, <2>4, Counted
  <1>5. CASE Sync
    BY <1>5, SyncExports
  <1>6. CASE Expire \/ UNCHANGED metricsVars
    <2>1. UNCHANGED <<redis, count, exportVars, events, raced, counter, old>>
      BY <1>6 DEF Expire, metricsVars, lookupVars
    <2> QED
      BY <1>0, <2>1, NothingCounted
  <1> QED
    BY <1>1, <1>2, <1>3, <1>4, <1>5, <1>6 DEF MetricsNext, Thread

\* _sync_cache_metrics, for any number of threads, lookups and exports: Prometheus is
\* never behind the last export, and a counter of which no increment was lost is
\* exported once and exactly.
THEOREM ExportsExplained == MetricsSpec => []ExportExplained
  <1>1. MetricsInit => ExportInv
    <2> SUFFICES ASSUME MetricsInit PROVE ExportInv
      OBVIOUS
    <2>1. Zero \in Counts /\ "misses" \in Counters /\ \A c \in Counters : Zero[c] = 0
      BY DEF Zero, Counts, Counters
    <2>2. CountersTyped
      BY <2>1 DEF MetricsInit, CountersTyped
    <2>3. \A c \in Counters : Exact(c) /\ Followed(c)
      BY <2>1 DEF MetricsInit, Exact, Followed
    <2> QED
      BY <2>2, <2>3 DEF ExportInv
  <1>2. ExportInv => ExportExplained
    BY DEF ExportInv, Exact, Followed, ExportExplained
  <1> QED
    BY <1>1, <1>2, ExportStep, PTL DEF MetricsSpec
=============================================================================
