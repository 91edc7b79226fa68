---------------------------- MODULE VMware_proofs ----------------------------
(***************************************************************************)
(* The VMware side: the safety of the vCenter connection pool, for any set *)
(* of threads and connections and any max_pool_size; what the inventory    *)
(* sync stores, for any set of requests, workers and resources; what an    *)
(* assessment reports, for any requests and inventories; and which flavor  *)
(* the mapping engine takes, for any list of flavors.                      *)
(***************************************************************************)
EXTENDS VMwarePool, InventorySync, Assessment, FiniteSetTheorems, WellFoundedInduction, TLAPS

\* What a thread outside the lock may rely on.  A connection being published
\* belongs to its thread alone; a connection being disconnected has left the
\* pool; every connection in a thread's hands was opened, as was every
\* connection that has been closed.
Held ==
    /\ closed \subseteq opened
    /\ \A t \in Threads : conn[t] \in opened \cup {NoConn}
    /\ \A t \in Threads : pc[t] \in {"publish", "using", "eject", "disconnect"}
                             => conn[t] \in opened
    /\ \A t \in Threads : pc[t] = "publish"
          => /\ conn[t] \notin pool \cup closed
             /\ \A u \in Threads \ {t} : conn[u] # conn[t]
    /\ \A t \in Threads : pc[t] = "disconnect" => conn[t] \notin pool

PoolOK == IsFiniteSet(pool) /\ PoolBounded

IInv == TypeOK /\ PoolOK /\ PooledAreOpen /\ Held /\ LeakOnlyByOverflow

\* The empty pool satisfies the invariant.
LEMMA InitIInv == Init => IInv
  <1> SUFFICES ASSUME Init PROVE IInv
    OBVIOUS
  <1>1. TypeOK
    BY DEF Init, TypeOK, Steps
  <1>2. PoolOK
    BY FS_EmptySet, MaxPoolAssumption DEF Init, PoolOK, PoolBounded
  <1>3. PooledAreOpen /\ Held /\ LeakOnlyByOverflow
    BY DEF Init, PooledAreOpen, Held, LeakOnlyByOverflow
  <1> QED
    BY <1>1, <1>2, <1>3 DEF IInv

-----------------------------------------------------------------------------
(* Type correctness. *)

\* Type correctness of every step of acquire, use, _eject and disconnect_all.
LEMMA NextTypeOK == IInv /\ [Next]_vars => TypeOK'
  <1> SUFFICES ASSUME TypeOK, IsFiniteSet(pool), Held, [Next]_vars PROVE TypeOK'
    BY DEF IInv, PoolOK
  <1> USE DEF TypeOK, Steps, Goto, poolVars, sessionVars, threadVars
  <1>1. ASSUME NEW t \in Threads, Acquire(t) PROVE TypeOK'
    BY <1>1 DEF Acquire
  <1>2. ASSUME NEW t \in Threads, CheckDue(t) PROVE TypeOK'
    BY <1>2 DEF CheckDue
  <1>3. ASSUME NEW t \in Threads, Stamp(t) PROVE TypeOK'
    BY <1>3 DEF Stamp
  <1>4. ASSUME NEW t \in Threads, HealthCheck(t) PROVE TypeOK'
    <2>1. PICK bad \in SUBSET pool :
             /\ pool' = pool \ bad
             /\ closed' = closed \cup bad
             /\ stats' = [stats EXCEPT !.reconnected = @ + Cardinality(bad)]
      BY <1>4 DEF HealthCheck
    <2>2. Cardinality(bad) \in Nat
      BY FS_Subset, FS_CardinalityType
    <2>3. stats' \in [created : Nat, reused : Nat, reconnected : Nat, failed : Nat]
      BY <2>1, <2>2
    <2> QED
      BY <1>4, <2>1, <2>3 DEF HealthCheck
  <1>5. ASSUME NEW t \in Threads, FindHealthy(t) PROVE TypeOK'
    <2>1. pool' \subseteq Conns /\ closed' \subseteq Conns
      BY <1>5 DEF FindHealthy
    <2>2. CASE pool \ expired = {} /\ pc' = [pc EXCEPT ![t] = "connect"]
               /\ UNCHANGED <<conn, useCount, stats>>
      BY <1>5, <2>1, <2>2 DEF FindHealthy
    <2>3. ASSUME NEW c \in LeastUsed(pool \ expired),
                 conn' = [conn EXCEPT ![t] = c],
                 useCount' = [useCount EXCEPT ![c] = @ + 1],
                 stats' = [stats EXCEPT !.reused = @ + 1],
                 pc' = [pc EXCEPT ![t] = "using"]
          PROVE  TypeOK'
      <3>1. c \in Conns
        BY <2>3 DEF LeastUsed
      <3> QED
        BY <1>5, <2>1, <2>3, <3>1 DEF FindHealthy
    <2> QED
      BY <1>5, <2>2, <2>3 DEF FindHealthy
  <1>6. ASSUME NEW t \in Threads, Connect(t) PROVE TypeOK'
    BY <1>6 DEF Connect
  <1>7. ASSUME NEW t \in Threads, ConnectFail(t) PROVE TypeOK'
    BY <1>7 DEF ConnectFail
  <1>8. ASSUME NEW t \in Threads, Publish(t) PROVE TypeOK'
    <2>1. conn[t] \in Conns
      BY <1>8 DEF Publish, Held
    <2> QED
      BY <1>8, <2>1 DEF Publish
  <1>9. ASSUME NEW t \in Threads, UseOk(t) PROVE TypeOK'
    BY <1>9 DEF UseOk
  <1>10. ASSUME NEW t \in Threads, UseFail(t) PROVE TypeOK'
    BY <1>10 DEF UseFail
  <1>11. ASSUME NEW t \in Threads, Eject(t) PROVE TypeOK'
    BY <1>11 DEF Eject
  <1>12. ASSUME NEW t \in Threads, DisconnectOne(t) PROVE TypeOK'
    <2>1. conn[t] \in Conns
      BY <1>12 DEF DisconnectOne, Held
    <2> QED
      BY <1>12, <2>1 DEF DisconnectOne
  <1>13. ASSUME NEW t \in Threads, DisconnectAll(t) PROVE TypeOK'
    BY <1>13 DEF DisconnectAll
  <1>14. CASE Environment
    BY <1>14 DEF Environment, HealthCheckFallsDue, OutliveTTL, SessionDies
  <1>15. CASE UNCHANGED vars
    BY <1>15 DEF vars
  <1> QED
    BY <1>1, <1>2, <1>3, <1>4, <1>5, <1>6, <1>7, <1>8, <1>9, <1>10, <1>11, <1>12,
       <1>13, <1>14, <1>15 DEF Next, ThreadStep

-----------------------------------------------------------------------------
(* The pool: bounded, and without a session this process closed. *)

\* Removing connections keeps the pool within its bound.
LEMMA ShrinkPool ==
    ASSUME PoolOK, NEW P, P \subseteq pool
    PROVE  IsFiniteSet(P) /\ Cardinality(P) <= MaxPool
  <1>1. IsFiniteSet(P) /\ Cardinality(P) <= Cardinality(pool)
    BY FS_Subset DEF PoolOK
  <1>2. Cardinality(P) \in Nat /\ Cardinality(pool) \in Nat
    BY <1>1, FS_CardinalityType DEF PoolOK
  <1> QED
    BY <1>1, <1>2, MaxPoolAssumption DEF PoolOK, PoolBounded

\* The pool stays finite and within max_pool_size: only _create_new adds to it.
LEMMA NextPoolOK == IInv /\ [Next]_vars => PoolOK'
  <1> SUFFICES ASSUME IInv, [Next]_vars PROVE PoolOK'
    OBVIOUS
  <1>1. CASE pool' \subseteq pool
    BY <1>1, ShrinkPool DEF IInv, PoolOK, PoolBounded
  <1>2. ASSUME NEW t \in Threads, Publish(t) PROVE PoolOK'
    <2>1. CASE Cardinality(pool) < MaxPool
      <3>1. pool' = pool \cup {conn[t]}
        BY <1>2, <2>1 DEF Publish
      <3>2. IsFiniteSet(pool') /\ Cardinality(pool') <= Cardinality(pool) + 1
        <4>1. /\ IsFiniteSet(pool \cup {conn[t]})
              /\ Cardinality(pool \cup {conn[t]}) =
                   IF conn[t] \in pool THEN Cardinality(pool) ELSE Cardinality(pool) + 1
          BY FS_AddElement DEF IInv, PoolOK
        <4>2. Cardinality(pool) \in Nat
          BY FS_CardinalityType DEF IInv, PoolOK
        <4> QED
          BY <3>1, <4>1, <4>2
      <3>3. Cardinality(pool) \in Nat /\ Cardinality(pool') \in Nat
        BY <3>2, FS_CardinalityType DEF IInv, PoolOK
      <3> QED
        BY <2>1, <3>2, <3>3, MaxPoolAssumption DEF PoolOK, PoolBounded
    <2>2. CASE ~(Cardinality(pool) < MaxPool)
      <3>1. pool' = pool
        BY <1>2, <2>2 DEF Publish
      <3> QED
        BY <3>1, <1>1
    <2> QED
      BY <2>1, <2>2
  <1>3. pool' \subseteq pool \/ \E t \in Threads : Publish(t)
    BY DEF Next, ThreadStep, Environment, vars, poolVars, sessionVars, threadVars, Acquire,
           CheckDue, Stamp, HealthCheck, FindHealthy, Connect, ConnectFail, UseOk,
           UseFail, Eject, DisconnectOne, DisconnectAll, HealthCheckFallsDue,
           OutliveTTL, SessionDies
  <1> QED
    BY <1>1, <1>2, <1>3

\* Whatever disconnects a session takes it out of the pool in the same step or
\* before it.
LEMMA NextPooledAreOpen == IInv /\ [Next]_vars => PooledAreOpen'
  <1> SUFFICES ASSUME IInv, [Next]_vars PROVE PooledAreOpen'
    OBVIOUS
  <1> USE DEF IInv, PooledAreOpen, poolVars, sessionVars, threadVars
  <1>1. ASSUME NEW t \in Threads, HealthCheck(t) PROVE PooledAreOpen'
    BY <1>1 DEF HealthCheck
  <1>2. ASSUME NEW t \in Threads, FindHealthy(t) PROVE PooledAreOpen'
    BY <1>2 DEF FindHealthy
  <1>3. ASSUME NEW t \in Threads, Publish(t) PROVE PooledAreOpen'
    <2>1. conn[t] \in opened \ closed
      BY <1>3 DEF Publish, Held
    <2> QED
      BY <1>3, <2>1 DEF Publish
  <1>4. ASSUME NEW t \in Threads, DisconnectOne(t) PROVE PooledAreOpen'
    BY <1>4 DEF DisconnectOne, Held
  <1>5. ASSUME NEW t \in Threads, DisconnectAll(t) PROVE PooledAreOpen'
    BY <1>5 DEF DisconnectAll
  <1>6. ASSUME NEW t \in Threads,
               Acquire(t) \/ CheckDue(t) \/ Stamp(t) \/ Connect(t) \/ ConnectFail(t)
                 \/ UseOk(t) \/ UseFail(t) \/ Eject(t)
        PROVE  PooledAreOpen'
    BY <1>6 DEF Acquire, CheckDue, Stamp, Connect, ConnectFail, UseOk, UseFail, Eject
  <1>7. CASE Environment
    BY <1>7 DEF Environment, HealthCheckFallsDue, OutliveTTL, SessionDies
  <1>8. CASE UNCHANGED vars
    BY <1>8 DEF vars
  <1> QED
    BY <1>1, <1>2, <1>3, <1>4, <1>5, <1>6, <1>7, <1>8 DEF Next, ThreadStep

-----------------------------------------------------------------------------
(* What threads hold. *)

\* A connection being published is its thread's alone; one being disconnected has
\* left the pool.
LEMMA NextHeld == IInv /\ [Next]_vars => Held'
  <1> SUFFICES ASSUME TypeOK, PooledAreOpen, Held, [Next]_vars PROVE Held'
    BY DEF IInv
  <1> USE NoConnAssumption DEF TypeOK, PooledAreOpen, Held, Goto, poolVars, sessionVars, threadVars
  <1>1. ASSUME NEW t \in Threads, Acquire(t) PROVE Held'
    BY <1>1 DEF Acquire
  <1>2. ASSUME NEW t \in Threads, CheckDue(t) PROVE Held'
    BY <1>2 DEF CheckDue
  <1>3. ASSUME NEW t \in Threads, Stamp(t) PROVE Held'
    BY <1>3 DEF Stamp
  <1>4. ASSUME NEW t \in Threads, HealthCheck(t) PROVE Held'
    BY <1>4 DEF HealthCheck
  <1>5. ASSUME NEW t \in Threads, FindHealthy(t) PROVE Held'
    <2>1. CASE pc' = [pc EXCEPT ![t] = "connect"] /\ UNCHANGED conn
      BY <1>5, <2>1 DEF FindHealthy
    <2>2. ASSUME NEW c \in LeastUsed(pool \ expired),
                 conn' = [conn EXCEPT ![t] = c],
                 pc' = [pc EXCEPT ![t] = "using"]
          PROVE  Held'
      <3>1. c \in pool
        BY <2>2 DEF LeastUsed
      <3> QED
        BY <1>5, <2>2, <3>1 DEF FindHealthy
    <2> QED
      BY <1>5, <2>1, <2>2 DEF FindHealthy
  <1>6. ASSUME NEW t \in Threads, Connect(t) PROVE Held'
    <2>1. PICK c \in Conns \ opened :
             opened' = opened \cup {c} /\ conn' = [conn EXCEPT ![t] = c]
      BY <1>6 DEF Connect
    <2>2. c # NoConn /\ c \notin pool \cup closed
      BY <2>1
    <2> QED
      BY <1>6, <2>1, <2>2 DEF Connect
  <1>7. ASSUME NEW t \in Threads, ConnectFail(t) PROVE Held'
    BY <1>7 DEF ConnectFail
  <1>8. ASSUME NEW t \in Threads, Publish(t) PROVE Held'
    BY <1>8 DEF Publish
  <1>9. ASSUME NEW t \in Threads, UseOk(t) PROVE Held'
    BY <1>9 DEF UseOk
  <1>10. ASSUME NEW t \in Threads, UseFail(t) PROVE Held'
    BY <1>10 DEF UseFail
  <1>11. ASSUME NEW t \in Threads, Eject(t) PROVE Held'
    BY <1>11 DEF Eject
  <1>12. ASSUME NEW t \in Threads, DisconnectOne(t) PROVE Held'
    BY <1>12 DEF DisconnectOne
  <1>13. ASSUME NEW t \in Threads, DisconnectAll(t) PROVE Held'
    BY <1>13 DEF DisconnectAll
  <1>14. CASE Environment
    BY <1>14 DEF Environment, HealthCheckFallsDue, OutliveTTL, SessionDies
  <1>15. CASE UNCHANGED vars
    BY <1>15 DEF vars
  <1> QED
    BY <1>1, <1>2, <1>3, <1>4, <1>5, <1>6, <1>7, <1>8, <1>9, <1>10, <1>11, <1>12,
       <1>13, <1>14, <1>15 DEF Next, ThreadStep

-----------------------------------------------------------------------------
(* Leaks. *)

\* No step loses track of an open session, except the one that creates it
\* while the pool is full.
LEMMA NextLeak == IInv /\ [Next]_vars => LeakOnlyByOverflow'
  <1> SUFFICES ASSUME TypeOK, LeakOnlyByOverflow, [Next]_vars,
                      NEW c \in opened' \ closed'
               PROVE  \/ c \in pool' \cup overflow'
                      \/ \E t \in Threads : conn'[t] = c /\ pc'[t] \in {"publish", "disconnect"}
    BY DEF IInv, LeakOnlyByOverflow
  <1> DEFINE Tracked ==
        \/ c \in pool' \cup overflow'
        \/ \E t \in Threads : conn'[t] = c /\ pc'[t] \in {"publish", "disconnect"}
  <1> USE DEF TypeOK, Goto, poolVars, sessionVars, threadVars
  <1>1. ASSUME NEW t \in Threads, Connect(t) PROVE Tracked
    BY <1>1 DEF Connect, LeakOnlyByOverflow
  <1>2. c \in opened \ closed \/ \E t \in Threads : Connect(t)
    BY DEF Next, ThreadStep, Environment, vars, Acquire, CheckDue, Stamp, HealthCheck,
           FindHealthy, ConnectFail, Publish, UseOk, UseFail, Eject, DisconnectOne,
           DisconnectAll, HealthCheckFallsDue, OutliveTTL, SessionDies
  <1>3. CASE c \in opened \ closed
    <2>0. \/ c \in pool \cup overflow
          \/ \E t \in Threads : conn[t] = c /\ pc[t] \in {"publish", "disconnect"}
      BY <1>3 DEF LeakOnlyByOverflow
    <2>1. ASSUME NEW t \in Threads, HealthCheck(t) PROVE Tracked
      BY <2>0, <2>1 DEF HealthCheck
    <2>2. ASSUME NEW t \in Threads, FindHealthy(t) PROVE Tracked
      <3>1. c \in pool => c \in pool'
        BY <2>2 DEF FindHealthy
      <3>2. ASSUME NEW u \in Threads, pc[u] \in {"publish", "disconnect"}, conn[u] = c
            PROVE  conn'[u] = c /\ pc'[u] = pc[u]
        BY <2>2, <3>2 DEF FindHealthy
      <3>3. overflow' = overflow
        BY <2>2 DEF FindHealthy
      <3> QED
        BY <2>0, <3>1, <3>2, <3>3
    <2>3. ASSUME NEW t \in Threads, Publish(t) PROVE Tracked
      BY <2>0, <2>3 DEF Publish
    <2>4. ASSUME NEW t \in Threads, Eject(t) PROVE Tracked
      BY <2>0, <2>4 DEF Eject
    <2>5. ASSUME NEW t \in Threads, DisconnectOne(t) PROVE Tracked
      BY <2>0, <2>5 DEF DisconnectOne
    <2>6. ASSUME NEW t \in Threads, DisconnectAll(t) PROVE Tracked
      BY <2>0, <2>6 DEF DisconnectAll
    <2>7. ASSUME NEW t \in Threads,
                 Acquire(t) \/ CheckDue(t) \/ Stamp(t) \/ ConnectFail(t)
                   \/ UseOk(t) \/ UseFail(t)
          PROVE  Tracked
      BY <2>0, <2>7 DEF Acquire, CheckDue, Stamp, ConnectFail, UseOk, UseFail
    <2>8. CASE Environment
      BY <2>0, <2>8 DEF Environment, HealthCheckFallsDue, OutliveTTL, SessionDies
    <2>9. CASE UNCHANGED vars
      BY <2>0, <2>9 DEF vars
    <2> QED
      BY <1>1, <2>1, <2>2, <2>3, <2>4, <2>5, <2>6, <2>7, <2>8, <2>9 DEF Next, ThreadStep
  <1> QED
    BY <1>1, <1>2, <1>3

-----------------------------------------------------------------------------
(* The theorems. *)

\* The conjuncts together.
LEMMA NextIInv == IInv /\ [Next]_vars => IInv'
  BY NextTypeOK, NextPoolOK, NextPooledAreOpen, NextHeld, NextLeak DEF IInv

\* Every reachable state of the pool satisfies the inductive invariant.
THEOREM Invariance == Spec => []IInv
  BY InitIInv, NextIInv, PTL DEF Spec

\* The pool's variables keep their types for any threads and connections.
THEOREM TypeCorrect == Spec => []TypeOK
  <1>1. IInv => TypeOK
    BY DEF IInv
  <1> QED
    BY <1>1, Invariance, PTL

\* _create_new: any number of threads that connect at once outside the lock
\* leave at most max_pool_size connections in the pool.
THEOREM PoolNeverOverfull == Spec => []PoolBounded
  <1>1. IInv => PoolBounded
    BY DEF IInv, PoolOK
  <1> QED
    BY <1>1, Invariance, PTL

\* _find_healthy, _health_check_if_needed, _eject, disconnect_all: a session
\* this process disconnected is never in the pool.
THEOREM NoClosedSessionPooled == Spec => []PooledAreOpen
  <1>1. IInv => PooledAreOpen
    BY DEF IInv
  <1> QED
    BY <1>1, Invariance, PTL

\* _create_new is the only place where a session is lost: however the threads
\* interleave, an open session is pooled, on its way into the pool or out of
\* it, or was created while the pool was full.
THEOREM LeaksExplained == Spec => []LeakOnlyByOverflow
  <1>1. IInv => LeakOnlyByOverflow
    BY DEF IInv
  <1> QED
    BY <1>1, Invariance, PTL

\* acquire: what is taken from the pool is neither closed nor past its TTL.
THEOREM ReuseFreshness == Spec => ReuseIsFresh
  <1> DEFINE Fresh(t) == pc[t] = "find" /\ pc'[t] = "using"
                           => conn'[t] \in opened \ (closed' \cup expired)
  <1>1. IInv /\ [Next]_vars => [\A t \in Threads : Fresh(t)]_vars
    <2> SUFFICES ASSUME IInv, Next, NEW t \in Threads, pc[t] = "find", pc'[t] = "using"
                 PROVE  conn'[t] \in opened \ (closed' \cup expired)
      OBVIOUS
    <2>1. FindHealthy(t)
      BY DEF IInv, TypeOK, Goto, poolVars, sessionVars, threadVars, Next, ThreadStep,
             Environment, Acquire, CheckDue, Stamp, HealthCheck, FindHealthy, Connect,
             ConnectFail, Publish, UseOk, UseFail, Eject, DisconnectOne, DisconnectAll,
             HealthCheckFallsDue, OutliveTTL, SessionDies
    <2>2. PICK c \in LeastUsed(pool \ expired) : conn' = [conn EXCEPT ![t] = c]
      BY <2>1 DEF FindHealthy, Goto, IInv, TypeOK
    <2>3. c \in pool \ expired
      BY <2>2 DEF LeastUsed
    <2>4. closed' = closed \cup (pool \cap expired)
      BY <2>1 DEF FindHealthy
    <2> QED
      BY <2>2, <2>3, <2>4 DEF IInv, TypeOK, PooledAreOpen
  <1> QED
    BY <1>1, Invariance, PTL DEF Spec, ReuseIsFresh

-----------------------------------------------------------------------------
(* The counters of get_stats. *)

Acquiring == {"check", "stamp", "health", "find", "connect", "publish"}
Pending == {t \in Threads : pc[t] \in Acquiring}

Balanced == IsFiniteSet(Pending) /\ StatsBalance

\* Calls that have ended, as the counters have them.
Counted == stats.created + stats.reused + stats.failed

\* A call that ends leaves the pending ones, and one counter tells; one that begins
\* joins them.
LEMMA PendingSteps ==
    ASSUME TypeOK, Balanced, Counted' \in Int,
           \/ Pending' = Pending /\ acquires' = acquires /\ Counted' = Counted
           \/ \E t \in Threads : /\ t \notin Pending /\ Pending' = Pending \cup {t}
                                 /\ acquires' = acquires + 1 /\ Counted' = Counted
           \/ \E t \in Threads : /\ t \in Pending /\ Pending' = Pending \ {t}
                                 /\ acquires' = acquires
                                 /\ Ready => Counted' = Counted + 1
    PROVE  Balanced'
  <1>1. acquires \in Nat /\ Counted \in Int /\ Cardinality(Pending) \in Nat
        /\ IsFiniteSet(Pending) /\ (Ready => Counted = acquires - Cardinality(Pending))
    BY FS_CardinalityType
       DEF TypeOK, Counted, Balanced, StatsBalance, Pending, Acquiring
  <1>2. ASSUME NEW P, IsFiniteSet(P), Pending' = P,
               Ready => Counted' = acquires' - Cardinality(P)
        PROVE  Balanced'
    BY <1>2 DEF Counted, Balanced, StatsBalance, Pending, Acquiring
  <1>3. CASE Pending' = Pending /\ acquires' = acquires /\ Counted' = Counted
    BY <1>1, <1>2, <1>3
  <1>4. ASSUME NEW t \in Threads, t \notin Pending, Pending' = Pending \cup {t},
               acquires' = acquires + 1, Counted' = Counted
        PROVE  Balanced'
    <2>1. IsFiniteSet(Pending \cup {t}) /\ Cardinality(Pending \cup {t}) = Cardinality(Pending) + 1
      BY <1>1, <1>4, FS_AddElement
    <2> QED
      BY <1>1, <1>2, <1>4, <2>1
  <1>5. ASSUME NEW t \in Threads, t \in Pending, Pending' = Pending \ {t},
               acquires' = acquires, Ready => Counted' = Counted + 1
        PROVE  Balanced'
    <2>1. IsFiniteSet(Pending \ {t}) /\ Cardinality(Pending \ {t}) = Cardinality(Pending) - 1
      BY <1>1, <1>5, FS_RemoveElement
    <2> QED
      BY <1>1, <1>2, <1>5, <2>1
  <1> QED
    BY <1>3, <1>4, <1>5

\* Every step of a thread is one of the three.
LEMMA NextBalanced == ASSUME TypeOK, TypeOK', Balanced, [Next]_vars PROVE Balanced'
  <1>0. Counted' \in Int
    BY DEF TypeOK, Counted
  <1> USE DEF Goto, poolVars, sessionVars, threadVars
  <1>1. ASSUME NEW t \in Threads, Acquire(t) PROVE Balanced'
    <2>1. t \notin Pending /\ Pending' = Pending \cup {t}
      BY <1>1 DEF Acquire, Pending, Acquiring, TypeOK
    <2>2. acquires' = acquires + 1 /\ Counted' = Counted
      BY <1>1 DEF Acquire, Counted
    <2> QED
      BY <1>0, <2>1, <2>2, PendingSteps
  <1>2. ASSUME NEW t \in Threads, CheckDue(t) \/ Stamp(t) \/ Connect(t)
        PROVE  Balanced'
    <2>1. Pending' = Pending
      BY <1>2 DEF CheckDue, Stamp, Connect, Pending, Acquiring, TypeOK
    <2>2. acquires' = acquires /\ Counted' = Counted
      BY <1>2 DEF CheckDue, Stamp, Connect, Counted
    <2> QED
      BY <1>0, <2>1, <2>2, PendingSteps
  <1>3. ASSUME NEW t \in Threads, HealthCheck(t) PROVE Balanced'
    <2>1. Pending' = Pending
      BY <1>3 DEF HealthCheck, Pending, Acquiring, TypeOK
    <2>2. acquires' = acquires /\ Counted' = Counted
      BY <1>3 DEF HealthCheck, Counted, TypeOK
    <2> QED
      BY <1>0, <2>1, <2>2, PendingSteps
  <1>4. ASSUME NEW t \in Threads, FindHealthy(t) PROVE Balanced'
    <2>0. acquires' = acquires /\ pc[t] = "find"
      BY <1>4 DEF FindHealthy
    <2>1. CASE pc' = [pc EXCEPT ![t] = "connect"] /\ stats' = stats
      <3>1. Pending' = Pending
        BY <2>0, <2>1 DEF Pending, Acquiring, TypeOK
      <3> QED
        BY <1>0, <2>0, <2>1, <3>1, PendingSteps DEF Counted
    <2>2. CASE pc' = [pc EXCEPT ![t] = "using"] /\ stats' = [stats EXCEPT !.reused = @ + 1]
      <3>1. t \in Pending /\ Pending' = Pending \ {t}
        BY <2>0, <2>2 DEF Pending, Acquiring, TypeOK
      <3>2. Counted' = Counted + 1
        BY <2>2 DEF Counted, TypeOK
      <3> QED
        BY <1>0, <2>0, <3>1, <3>2, PendingSteps
    <2> QED
      BY <1>4, <2>1, <2>2 DEF FindHealthy
  <1>5. ASSUME NEW t \in Threads, ConnectFail(t) PROVE Balanced'
    <2>1. t \in Pending /\ Pending' = Pending \ {t}
      BY <1>5 DEF ConnectFail, Pending, Acquiring, TypeOK
    <2>2. acquires' = acquires /\ (Ready => Counted' = Counted + 1)
      BY <1>5 DEF ConnectFail, Counted, TypeOK
    <2> QED
      BY <1>0, <2>1, <2>2, PendingSteps
  <1>6. ASSUME NEW t \in Threads, Publish(t) PROVE Balanced'
    <2>1. t \in Pending /\ Pending' = Pending \ {t}
      BY <1>6 DEF Publish, Pending, Acquiring, TypeOK
    <2>2. acquires' = acquires /\ Counted' = Counted + 1
      BY <1>6 DEF Publish, Counted, TypeOK
    <2> QED
      BY <1>0, <2>1, <2>2, PendingSteps
  <1>7. ASSUME NEW t \in Threads,
               UseOk(t) \/ UseFail(t) \/ Eject(t) \/ DisconnectOne(t) \/ DisconnectAll(t)
        PROVE  Balanced'
    <2>1. Pending' = Pending
      BY <1>7 DEF UseOk, UseFail, Eject, DisconnectOne, DisconnectAll, Pending, Acquiring, TypeOK
    <2>2. acquires' = acquires /\ Counted' = Counted
      BY <1>7 DEF UseOk, UseFail, Eject, DisconnectOne, DisconnectAll, Counted
    <2> QED
      BY <1>0, <2>1, <2>2, PendingSteps
  <1>8. CASE Environment \/ UNCHANGED vars
    <2>1. Pending' = Pending
      BY <1>8 DEF Environment, HealthCheckFallsDue, OutliveTTL, SessionDies, Pending, vars
    <2>2. acquires' = acquires /\ Counted' = Counted
      BY <1>8 DEF Environment, HealthCheckFallsDue, OutliveTTL, SessionDies, Counted, vars
    <2> QED
      BY <1>0, <2>1, <2>2, PendingSteps
  <1> QED
    BY <1>1, <1>2, <1>3, <1>4, <1>5, <1>6, <1>7, <1>8 DEF Next, ThreadStep

\* get_stats: with credentials set, the counters account for every call of acquire() that
\* has ended, for any number of threads: none is lost or counted twice, although created
\* and failed are counted after SmartConnect ran outside the lock.
THEOREM StatsDoBalance == Spec => []StatsBalance
  <1>1. Init => Balanced
    <2> SUFFICES ASSUME Init PROVE Balanced
      OBVIOUS
    <2>1. Pending = {}
      BY DEF Init, Pending, Acquiring
    <2> QED
      BY <2>1, FS_EmptySet DEF Init, Balanced, StatsBalance, Pending, Acquiring
  <1>2. TypeOK /\ TypeOK' /\ Balanced /\ [Next]_vars => Balanced'
    BY NextBalanced
  <1>3. Balanced => StatsBalance
    BY DEF Balanced
  <1> QED
    BY <1>1, <1>2, <1>3, TypeCorrect, PTL DEF Spec

-----------------------------------------------------------------------------
(* POST /vmware/sync: the module InventorySync. *)

\* Before the third listing is made.
Listing == {"idle", "create", "start", "list"}

UpsertTask == [req : Requests, id : Ids, data : Nat \ {0}, existing : {"unread", "row", "none"}]

SyncTyped ==
    /\ changes \in Nat /\ vcenter \in [Ids -> Nat]
    /\ rows \in [Ids -> Nat] /\ newest \in [Ids -> Nat]
    /\ DOMAIN handler = Requests /\ listed \in [Requests -> Nat]
    /\ todo \in [Requests -> Seq(Ids)] /\ detail \in [Requests -> Nat]
    /\ base \in [Requests -> [Ids -> Nat]] /\ synced \in [Requests -> SUBSET Ids]
    /\ upserts \subseteq UpsertTask
    /\ \A r \in Requests : /\ handler[r] \in Listing => listed[r] < 3
                           /\ handler[r] = "spawn" => todo[r] # <<>> /\ detail[r] # 0

\* A request that holds the detail of x.
Spawning(r, x) == handler[r] = "spawn" /\ Head(todo[r]) = x

\* Version v of x is one that vCenter has shown: what it shows now, if anything, is
\* not older.
Shown(x, v) == v <= changes /\ (vcenter[x] = 0 \/ v <= vcenter[x])

\* All that is stored, handed over, read or remembered of x has been shown, and what a
\* request hands over is not older than what there was when it came in.
VersionsOK ==
    /\ \A x \in Ids : Shown(x, vcenter[x]) /\ Shown(x, newest[x]) /\ rows[x] <= newest[x]
    /\ \A r \in Requests : \A x \in Ids :
          /\ Shown(x, base[r][x])
          /\ Spawning(r, x) => Shown(x, detail[r]) /\ base[r][x] <= detail[r]
    /\ \A u \in upserts : Shown(u.id, u.data) /\ base[u.req][u.id] <= u.data

\* Nothing has happened for a request that has not come.
IdleOK ==
    \A r \in Requests : handler[r] = "idle" => synced[r] = {} /\ \A u \in upserts : u.req # r

\* A resource that one sync at a time works on: at most one holds its detail or an upsert
\* of it, which is not older than any row before, and an insert meets no row.
Sole(x) ==
    x \notin overlapped =>
        /\ rows[x] = newest[x]
        /\ \A u, v \in upserts : u.id = x /\ v.id = x => u = v
        /\ \A r, q \in Requests : Spawning(r, x) /\ Spawning(q, x) => r = q
        /\ \A r \in Requests : \A u \in upserts : u.id = x => ~Spawning(r, x)
        /\ \A r \in Requests : Spawning(r, x) => newest[x] <= detail[r]
        /\ \A u \in upserts : u.id = x =>
              newest[x] <= u.data /\ (u.existing = "none" => rows[x] = 0)

SyncInv ==
    /\ SyncTyped /\ VersionsOK /\ IdleOK
    /\ \A x \in Ids : Sole(x)
    /\ SucceededMeansStored

\* Nothing has been listed, read or stored.
LEMMA SyncStart == SyncInit => SyncInv
  <1> SUFFICES ASSUME SyncInit PROVE SyncInv
    OBVIOUS
  <1>1. /\ changes = 1 /\ vcenter \in [Ids -> {0, 1}] /\ rows = [x \in Ids |-> 0]
        /\ newest = rows
        /\ handler = [r \in Requests |-> "idle"] /\ upserts = {}
        /\ base = [r \in Requests |-> vcenter]
        /\ synced = [r \in Requests |-> {}]
    BY DEF SyncInit
  <1>2. SyncTyped
    BY <1>1 DEF SyncInit, SyncTyped
  <1>3. VersionsOK
    BY <1>1 DEF VersionsOK, Shown, Spawning
  <1>4. IdleOK /\ SucceededMeansStored
    BY <1>1 DEF IdleOK, SucceededMeansStored
  <1>5. \A x \in Ids : Sole(x)
    BY <1>1 DEF Sole, Spawning
  <1> QED
    BY <1>2, <1>3, <1>4, <1>5 DEF SyncInv

\* What a listing finds is a sequence of ids.
LEMMA ListingFinds ==
    ASSUME NEW k \in 1..3, NEW found \in SetToSeqs(onVCenter(k))
    PROVE  found \in Seq(Ids)
  <1>1. onVCenter(k) \subseteq Resources[k] /\ Resources[k] \subseteq Ids
    BY ResourcesAssumption DEF onVCenter, Ids
  <1>2. IsFiniteSet(onVCenter(k))
    BY <1>1, FS_Subset, ResourcesAssumption
  <1>3. Cardinality(onVCenter(k)) \in Nat
    BY <1>2, FS_CardinalityType
  <1>4. found \in [1..Cardinality(onVCenter(k)) -> onVCenter(k)]
    BY DEF SetToSeqs
  <1> HIDE DEF onVCenter
  <1> QED
    BY <1>1, <1>3, <1>4

\* Steps that start no work: details are dropped or kept, upserts end in `lost`.
LEMMA WorkEnds ==
    ASSUME SyncInv, SyncTyped',
           UNCHANGED <<vcenter, changes, rows, newest, base, synced, overlapped>>,
           upserts' \subseteq upserts, lost \subseteq lost',
           \A u \in upserts : u \in upserts' \/ <<u.req, u.id>> \in lost',
           \A r \in Requests :
              /\ handler'[r] = "idle" => handler[r] = "idle"
              /\ handler'[r] = "spawn" =>
                    handler[r] = "spawn" /\ todo'[r] = todo[r] /\ detail'[r] = detail[r]
    PROVE  SyncInv'
  <1>1. ASSUME NEW r \in Requests, NEW x, Spawning(r, x)'
        PROVE  Spawning(r, x) /\ detail'[r] = detail[r]
    BY <1>1 DEF Spawning
  <1>2. VersionsOK'
    BY <1>1 DEF SyncInv, VersionsOK, Shown
  <1>3. IdleOK'
    BY DEF SyncInv, IdleOK
  <1>4. ASSUME NEW x \in Ids PROVE Sole(x)'
    <2>1. Sole(x)
      BY DEF SyncInv
    <2> QED
      BY <1>1, <2>1 DEF Sole
  <1>5. SucceededMeansStored'
    BY DEF SyncInv, SucceededMeansStored
  <1> QED
    BY <1>2, <1>3, <1>4, <1>5 DEF SyncInv

\* A request comes in: it remembers what vCenter has now.
LEMMA SyncBegins ==
    ASSUME SyncInv, NEW r \in Requests, NEW p, BeginSync(r, p)
    PROVE  SyncInv'
  <1>0. /\ handler[r] = "idle" /\ handler' = [handler EXCEPT ![r] = "create"]
        /\ base' = [base EXCEPT ![r] = vcenter]
        /\ UNCHANGED <<vcenter, changes, listed, todo, detail, upserts, rows, newest, synced,
                       overlapped, lost>>
    BY DEF BeginSync, goto
  <1>1. SyncTyped'
    <2>1. SyncTyped
      BY DEF SyncInv
    <2>2. base' \in [Requests -> [Ids -> Nat]]
      BY ONLY <1>0, <2>1, r \in Requests DEF SyncTyped
    <2>3. /\ DOMAIN handler' = Requests
          /\ \A q \in Requests : handler'[q] = handler[q] \/ handler'[q] = "create"
      BY <1>0, <2>1 DEF SyncTyped
    <2>4. \A q \in Requests : /\ handler'[q] \in Listing => listed'[q] < 3
                              /\ handler'[q] = "spawn" => todo'[q] # <<>> /\ detail'[q] # 0
      BY <1>0, <2>1, <2>3 DEF SyncTyped, Listing
    <2> QED
      BY <1>0, <2>1, <2>2, <2>3, <2>4 DEF SyncTyped
  <1>2. ASSUME NEW q \in Requests, NEW x, Spawning(q, x)'
        PROVE  Spawning(q, x) /\ q # r
    BY <1>0, <1>2 DEF Spawning, SyncInv, SyncTyped
  <1>3. /\ synced[r] = {} /\ \A u \in upserts : u.req # r
        /\ \A q \in Requests : q # r => base'[q] = base[q]
        /\ base'[r] = vcenter
    BY <1>0 DEF SyncInv, IdleOK, SyncTyped
  <1>4. \A u \in upserts : u.req \in Requests
    BY DEF SyncInv, SyncTyped, UpsertTask
  <1>5. VersionsOK'
    BY <1>0, <1>2, <1>3, <1>4 DEF SyncInv, VersionsOK, Shown
  <1>6. IdleOK'
    BY <1>0 DEF SyncInv, IdleOK, SyncTyped
  <1>7. ASSUME NEW x \in Ids PROVE Sole(x)'
    <2>1. Sole(x)
      BY DEF SyncInv
    <2> QED
      BY <1>0, <1>2, <2>1 DEF Sole
  <1>8. SucceededMeansStored'
    BY <1>0, <1>3 DEF SyncInv, SucceededMeansStored
  <1> QED
    BY <1>1, <1>5, <1>6, <1>7, <1>8 DEF SyncInv

\* vCenter changes: the new version is newer than all that was shown.
LEMMA ChangeSync ==
    ASSUME SyncInv, NEW x \in Ids, Change(x)
    PROVE  SyncInv'
  <1>0. /\ changes' = changes + 1
        /\ UNCHANGED <<handler, listed, todo, detail, upserts, rows, newest, base, synced,
                       overlapped, lost>>
        /\ vcenter' = [vcenter EXCEPT ![x] = changes + 1] \/ vcenter' = [vcenter EXCEPT ![x] = 0]
    BY DEF Change, syncVars, history
  <1>1. changes \in Nat /\ vcenter \in [Ids -> Nat]
    BY DEF SyncInv, SyncTyped
  <1>2. SyncTyped'
    <2>1. vcenter' \in [Ids -> Nat] /\ changes' \in Nat
      BY ONLY <1>0, <1>1
    <2> QED
      BY <1>0, <2>1 DEF SyncInv, SyncTyped
  <1>3. ASSUME NEW y \in Ids, NEW v \in Nat, Shown(y, v) PROVE Shown(y, v)'
    BY <1>0, <1>1, <1>3 DEF Shown
  <1>4. ASSUME NEW y \in Ids PROVE Shown(y, vcenter[y])'
    BY <1>0, <1>1 DEF SyncInv, VersionsOK, Shown
  <1>5. \A r \in Requests : \A y : Spawning(r, y)' <=> Spawning(r, y)
    BY <1>0 DEF Spawning
  <1>6. VersionsOK'
    <2>1. \A y \in Ids : newest[y] \in Nat
      BY DEF SyncInv, SyncTyped
    <2>2. \A r \in Requests : detail[r] \in Nat /\ \A y \in Ids : base[r][y] \in Nat
      BY DEF SyncInv, SyncTyped
    <2>3. \A u \in upserts : u.id \in Ids /\ u.data \in Nat
      BY DEF SyncInv, SyncTyped, UpsertTask
    <2> QED
      BY <1>0, <1>3, <1>4, <1>5, <2>1, <2>2, <2>3 DEF SyncInv, VersionsOK
  <1>7. IdleOK' /\ SucceededMeansStored'
    BY <1>0 DEF SyncInv, IdleOK, SucceededMeansStored
  <1>8. \A y \in Ids : Sole(y)'
    BY <1>0, <1>5 DEF SyncInv, Sole
  <1> QED
    BY <1>2, <1>6, <1>7, <1>8 DEF SyncInv

\* A detail is read: what vCenter shows now is not older than anything before.
LEMMA ReadSync ==
    ASSUME SyncInv, NEW r \in Requests, handler[r] = "read", todo[r] # <<>>,
           NEW x, x = Head(todo[r]), vcenter[x] # 0,
           detail' = [detail EXCEPT ![r] = vcenter[x]],
           overlapped' = IF working(x) = {} THEN overlapped ELSE overlapped \cup {x},
           handler' = [handler EXCEPT ![r] = "spawn"],
           UNCHANGED <<vcenter, changes, listed, todo, upserts, rows, newest, base, synced, lost>>
    PROVE  SyncInv'
  <1>0. SyncTyped
    BY DEF SyncInv
  <1>1. x \in Ids /\ vcenter[x] \in Nat
    BY <1>0 DEF SyncTyped
  <1>2. DOMAIN handler' = Requests /\ handler'[r] = "spawn" /\ detail'[r] = vcenter[x]
    BY <1>0 DEF SyncTyped
  <1>3. \A q \in Requests : q # r => handler'[q] = handler[q] /\ detail'[q] = detail[q]
    BY <1>0 DEF SyncTyped
  <1>4. SyncTyped'
    <2>1. detail' \in [Requests -> Nat]
      BY ONLY <1>0, <1>1, detail' = [detail EXCEPT ![r] = vcenter[x]] DEF SyncTyped
    <2>2. \A q \in Requests : /\ handler'[q] \in Listing => listed'[q] < 3
                              /\ handler'[q] = "spawn" => todo'[q] # <<>> /\ detail'[q] # 0
      BY <1>0, <1>2, <1>3 DEF SyncTyped, Listing
    <2> QED
      BY <1>0, <1>2, <2>1, <2>2 DEF SyncTyped
  <1>5. \A q \in Requests : \A y : Spawning(q, y)' <=> (IF q = r THEN y = x ELSE Spawning(q, y))
    BY <1>2, <1>3 DEF Spawning
  <1>6. VersionsOK'
    <2>1. VersionsOK
      BY DEF SyncInv
    <2>2. /\ base[r][x] \in Nat /\ Shown(x, base[r][x]) /\ Shown(x, vcenter[x])
          /\ base[r][x] <= vcenter[x]
      BY <1>0, <1>1, <2>1 DEF SyncTyped, VersionsOK, Shown
    <2> QED
      BY <1>1, <1>2, <1>3, <1>5, <2>1, <2>2 DEF VersionsOK, Shown
  <1>7. IdleOK'
    BY <1>2, <1>3 DEF SyncInv, IdleOK
  <1>8. SucceededMeansStored'
    BY DEF SyncInv, SucceededMeansStored
  <1>9. ASSUME NEW y \in Ids PROVE Sole(y)'
    <2>1. Sole(y)
      BY DEF SyncInv
    <2>2. CASE y # x
      BY <1>3, <1>5, <2>1, <2>2 DEF Sole
    <2>3. CASE y = x /\ working(x) # {}
      BY <2>3 DEF Sole
    <2>4. CASE y = x /\ working(x) = {}
      <3>1. ASSUME NEW q \in Requests PROVE ~Spawning(q, x)
        BY <2>4 DEF working, Spawning
      <3>2. ASSUME NEW u \in upserts PROVE u.id # x
        BY <2>4 DEF working
      <3>3. newest[x] <= vcenter[x] /\ overlapped' = overlapped
        BY <1>1, <2>4 DEF SyncInv, VersionsOK, Shown
      <3> QED
        BY <1>2, <1>5, <2>1, <2>4, <3>1, <3>2, <3>3 DEF Sole
    <2> QED
      BY <2>2, <2>3, <2>4
  <1> QED
    BY <1>4, <1>6, <1>7, <1>8, <1>9 DEF SyncInv

\* The detail becomes the content of an upsert.
LEMMA UpsertSync ==
    ASSUME SyncInv, NEW r \in Requests, _upsert_snapshot(r), NEW x, x = Head(todo[r])
    PROVE  SyncInv'
  <1> DEFINE n == [req |-> r, id |-> x, data |-> detail[r], existing |-> "unread"]
  <1>0. SyncTyped
    BY DEF SyncInv
  <1>1. /\ handler[r] = "spawn" /\ handler' = [handler EXCEPT ![r] = "read"]
        /\ upserts' = upserts \cup {n}
        /\ todo' = [todo EXCEPT ![r] = Tail(@)]
        /\ synced' = [synced EXCEPT ![r] = @ \cup {x}]
        /\ UNCHANGED <<vcenter, changes, listed, detail, rows, newest, base, overlapped, lost>>
    BY DEF _upsert_snapshot, goto
  <1>2. todo[r] \in Seq(Ids) /\ todo[r] # <<>> /\ detail[r] \in Nat \ {0}
    BY <1>0, <1>1 DEF SyncTyped
  <1>3. x \in Ids /\ Tail(todo[r]) \in Seq(Ids) /\ Spawning(r, x)
    BY <1>1, <1>2 DEF Spawning
  <1>4. n \in UpsertTask /\ n.id = x /\ n.req = r /\ n.data = detail[r] /\ n.existing = "unread"
    BY <1>2, <1>3 DEF UpsertTask
  <1> HIDE DEF n
  <1>5. DOMAIN handler' = Requests /\ handler'[r] = "read" /\ synced'[r] = synced[r] \cup {x}
    BY <1>0, <1>1 DEF SyncTyped
  <1>6. \A q \in Requests :
           q # r => handler'[q] = handler[q] /\ todo'[q] = todo[q] /\ synced'[q] = synced[q]
    BY <1>0, <1>1 DEF SyncTyped
  <1>7. SyncTyped'
    <2>1. todo' \in [Requests -> Seq(Ids)]
      BY ONLY <1>0, <1>1, <1>3 DEF SyncTyped
    <2>2. synced' \in [Requests -> SUBSET Ids]
      BY ONLY <1>0, <1>1, <1>3 DEF SyncTyped
    <2>3. \A q \in Requests : /\ handler'[q] \in Listing => listed'[q] < 3
                              /\ handler'[q] = "spawn" => todo'[q] # <<>> /\ detail'[q] # 0
      BY <1>0, <1>1, <1>5, <1>6 DEF SyncTyped, Listing
    <2> QED
      BY <1>0, <1>1, <1>4, <1>5, <2>1, <2>2, <2>3 DEF SyncTyped, Listing
  <1>8. \A q \in Requests : \A y : Spawning(q, y)' <=> q # r /\ Spawning(q, y)
    BY <1>5, <1>6 DEF Spawning
  <1>9. VersionsOK'
    BY <1>1, <1>3, <1>4, <1>8 DEF SyncInv, VersionsOK, Shown
  <1>10. IdleOK'
    BY <1>1, <1>4, <1>5, <1>6 DEF SyncInv, IdleOK
  <1>11. SucceededMeansStored'
    <2>1. SucceededMeansStored
      BY DEF SyncInv
    <2>2. ASSUME NEW q \in Requests, NEW y \in synced'[q]
          PROVE  (q = r /\ y = x) \/ y \in synced[q]
      BY <1>5, <1>6
    <2>3. \E u \in upserts' : u.req = r /\ u.id = x
      BY <1>1, <1>4
    <2>4. upserts \subseteq upserts' /\ UNCHANGED <<rows, base, overlapped, lost>>
      BY <1>1
    <2> QED
      BY ONLY <2>1, <2>2, <2>3, <2>4 DEF SucceededMeansStored
  <1>12. ASSUME NEW y \in Ids PROVE Sole(y)'
    <2>1. Sole(y)
      BY DEF SyncInv
    <2>2. CASE y # x
      <3>1. \A u \in upserts' : u.id = y => u \in upserts
        BY <1>1, <1>4, <2>2
      <3>2. UNCHANGED <<rows, newest, overlapped, detail>>
        BY <1>1
      <3> QED
        BY ONLY <1>8, <2>1, <3>1, <3>2 DEF Sole
    <2>3. CASE y = x
      <3> SUFFICES ASSUME x \notin overlapped PROVE Sole(x)'
        BY <1>1, <2>3 DEF Sole
      <3>1. /\ rows[x] = newest[x] /\ newest[x] <= detail[r]
            /\ \A u \in upserts : u.id # x
            /\ \A q \in Requests : Spawning(q, x) => q = r
        BY <1>3, <2>1, <2>3 DEF Sole
      <3>2. \A u \in upserts' : u.id = x => u = n
        BY <1>1, <3>1
      <3>3. \A q \in Requests : ~Spawning(q, x)'
        BY <1>8, <3>1
      <3>4. UNCHANGED <<rows, newest>>
        BY <1>1
      <3> QED
        BY ONLY <1>4, <3>1, <3>2, <3>3, <3>4 DEF Sole
    <2> QED
      BY <2>2, <2>3
  <1> QED
    BY <1>7, <1>9, <1>10, <1>11, <1>12 DEF SyncInv

\* An upsert looks for its row.
LEMMA SelectSync ==
    ASSUME SyncInv, NEW u, Select(u)
    PROVE  SyncInv'
  <1> DEFINE n == [u EXCEPT !.existing = IF rows[u.id] = 0 THEN "none" ELSE "row"]
  <1>0. SyncTyped
    BY DEF SyncInv
  <1>1. /\ u \in upserts /\ upserts' = (upserts \ {u}) \cup {n}
        /\ UNCHANGED <<handler, listed, todo, detail, vcenter, changes, rows, newest, base, synced,
                       overlapped, lost>>
    BY DEF Select, syncVars, history
  <1>2. u \in UpsertTask
    BY <1>0, <1>1 DEF SyncTyped
  <1>3. /\ n \in UpsertTask /\ n.id = u.id /\ n.req = u.req /\ n.data = u.data
        /\ n.existing = "none" => rows[u.id] = 0
    BY <1>2 DEF UpsertTask
  <1> HIDE DEF n
  <1>4. SyncTyped'
    BY <1>0, <1>1, <1>3 DEF SyncTyped
  <1>5. \A q, y : Spawning(q, y)' <=> Spawning(q, y)
    BY <1>1 DEF Spawning
  <1>6. VersionsOK'
    BY <1>1, <1>3, <1>5 DEF SyncInv, VersionsOK, Shown
  <1>7. IdleOK' /\ SucceededMeansStored'
    BY <1>1, <1>3 DEF SyncInv, IdleOK, SucceededMeansStored
  <1>8. ASSUME NEW y \in Ids PROVE Sole(y)'
    <2>1. Sole(y)
      BY DEF SyncInv
    <2> QED
      BY <1>1, <1>3, <1>5, <2>1 DEF Sole
  <1> QED
    BY <1>4, <1>6, <1>7, <1>8 DEF SyncInv

\* An upsert writes its row, or meets one it did not see.
LEMMA CommitSync ==
    ASSUME SyncInv, NEW u, Commit(u)
    PROVE  SyncInv'
  <1> DEFINE x == u.id
  <1>0. SyncTyped
    BY DEF SyncInv
  <1>1. /\ u \in upserts /\ upserts' = upserts \ {u}
        /\ rows' = IF conflicts(u) THEN rows ELSE [rows EXCEPT ![x] = u.data]
        /\ newest' = IF rows'[x] > newest[x] THEN [newest EXCEPT ![x] = rows'[x]] ELSE newest
        /\ UNCHANGED <<handler, listed, todo, detail, vcenter, changes, base, synced, overlapped,
                       lost>>
    BY DEF Commit, syncVars, ends
  <1>2. u \in UpsertTask
    BY <1>0, <1>1 DEF SyncTyped
  <1>3. x \in Ids /\ u.req \in Requests /\ u.data \in Nat \ {0}
    BY <1>2 DEF UpsertTask
  <1> HIDE DEF x
  <1>4. rows \in [Ids -> Nat] /\ newest \in [Ids -> Nat]
    BY <1>0 DEF SyncTyped
  <1>5. /\ rows' \in [Ids -> Nat]
        /\ \A y \in Ids : y # x => rows'[y] = rows[y]
        /\ IF conflicts(u) THEN rows'[x] = rows[x] /\ rows[x] # 0 ELSE rows'[x] = u.data
    BY <1>1, <1>3, <1>4 DEF conflicts, x
  <1>6. /\ newest' \in [Ids -> Nat]
        /\ \A y \in Ids : y # x => newest'[y] = newest[y]
        /\ newest[x] <= newest'[x] /\ rows'[x] <= newest'[x]
        /\ newest'[x] = newest[x] \/ newest'[x] = rows'[x]
    BY ONLY <1>1, <1>3, <1>4, <1>5
  <1>7. SyncTyped'
    BY <1>0, <1>1, <1>5, <1>6 DEF SyncTyped
  <1>8. \A q, y : Spawning(q, y)' <=> Spawning(q, y)
    BY <1>1 DEF Spawning
  <1>9. VersionsOK
    BY DEF SyncInv
  <1>10. /\ Shown(x, newest[x]) /\ Shown(x, u.data) /\ rows[x] <= newest[x]
         /\ base[u.req][x] <= u.data
    BY <1>1, <1>3, <1>9 DEF VersionsOK, x
  <1>11. Shown(x, newest'[x])
    <2>1. newest'[x] = newest[x] \/ newest'[x] = u.data
      BY <1>3, <1>4, <1>5, <1>6, <1>10
    <2> QED
      BY ONLY <1>10, <2>1
  <1>12. VersionsOK'
    BY <1>1, <1>5, <1>6, <1>8, <1>9, <1>11 DEF VersionsOK, Shown
  <1>13. IdleOK'
    BY <1>1 DEF SyncInv, IdleOK
  <1>14. x \notin overlapped => /\ ~conflicts(u) /\ rows'[x] = u.data /\ newest[x] <= u.data
                                /\ rows[x] = newest[x]
                                /\ \A v \in upserts : v.id = x => v = u
                                /\ \A q \in Requests : ~Spawning(q, x)
    BY <1>1, <1>3, <1>5 DEF SyncInv, Sole, conflicts, x
  <1>15. ASSUME NEW y \in Ids PROVE Sole(y)'
    <2>1. Sole(y)
      BY DEF SyncInv
    <2>2. CASE y # x
      BY <1>1, <1>5, <1>6, <1>8, <2>1, <2>2 DEF Sole
    <2>3. CASE y = x
      <3>1. x \notin overlapped => rows'[x] = newest'[x]
        BY <1>3, <1>4, <1>5, <1>6, <1>14
      <3> QED
        BY <1>1, <1>8, <1>14, <2>3, <3>1 DEF Sole
    <2> QED
      BY <2>2, <2>3
  <1>16. SucceededMeansStored'
    <2> SUFFICES ASSUME NEW q \in Requests, NEW y \in synced[q]
                 PROVE  \/ rows'[y] # 0 /\ (rows'[y] >= base[q][y] \/ y \in overlapped)
                        \/ \E v \in upserts' : v.req = q /\ v.id = y
                        \/ <<q, y>> \in lost
      BY <1>1 DEF SucceededMeansStored
    <2>1. y \in Ids /\ base[q][y] \in Nat
      BY <1>0 DEF SyncTyped
    <2>2. \/ rows[y] # 0 /\ (rows[y] >= base[q][y] \/ y \in overlapped)
          \/ \E v \in upserts : v.req = q /\ v.id = y
          \/ <<q, y>> \in lost
      BY DEF SyncInv, SucceededMeansStored
    <2>3. CASE y # x
      BY <1>1, <1>5, <2>1, <2>2, <2>3 DEF x
    <2>4. CASE y = x
      <3>1. rows'[x] # 0
        BY <1>3, <1>5
      <3>2. CASE x \in overlapped
        BY <2>4, <3>1, <3>2
      <3>3. CASE x \notin overlapped
        <4>1. CASE rows[x] >= base[q][x]
          BY <1>3, <1>4, <1>14, <2>1, <2>4, <3>1, <3>3, <4>1
        <4>2. ASSUME NEW v \in upserts, v.req = q, v.id = x
              PROVE  u.req = q
          BY <1>14, <3>3, <4>2
        <4>3. CASE u.req = q
          BY <1>10, <1>14, <2>4, <3>1, <3>3, <4>3, <1>3, <2>1
        <4> QED
          BY <2>2, <2>4, <3>3, <4>1, <4>2, <4>3
      <3> QED
        BY <3>2, <3>3
    <2> QED
      BY <2>3, <2>4
  <1> QED
    BY <1>7, <1>12, <1>13, <1>15, <1>16 DEF SyncInv

\* A move of a handler keeps the types, unless it is one to hold a detail.
LEMMA TypedOn ==
    ASSUME SyncTyped, NEW r \in Requests, NEW to, to # "spawn",
           to \in Listing => handler[r] \in Listing,
           handler' = [handler EXCEPT ![r] = to],
           UNCHANGED <<changes, vcenter, rows, newest, listed, todo, detail, base, synced, upserts>>
    PROVE  SyncTyped'
  <1>1. /\ DOMAIN handler' = Requests
        /\ \A q \in Requests : handler'[q] = handler[q] \/ (q = r /\ handler'[q] = to)
    BY DEF SyncTyped
  <1>2. \A q \in Requests : /\ handler'[q] \in Listing => listed'[q] < 3
                            /\ handler'[q] = "spawn" => todo'[q] # <<>> /\ detail'[q] # 0
    BY <1>1 DEF SyncTyped
  <1> QED
    BY <1>1, <1>2 DEF SyncTyped

\* The handler goes on to a place where it neither lists nor holds a detail.
LEMMA MovesOn ==
    ASSUME SyncInv, NEW r \in Requests, NEW to, to \notin {"idle", "spawn"},
           to \in Listing => handler[r] \in Listing,
           handler' = [handler EXCEPT ![r] = to],
           UNCHANGED <<vcenter, changes, listed, todo, detail, upserts, rows, history>>
    PROVE  SyncInv'
  <1>0. UNCHANGED <<newest, base, synced, overlapped, lost>>
    BY DEF history
  <1>1. SyncTyped
    BY DEF SyncInv
  <1>2. SyncTyped'
    BY <1>0, <1>1, TypedOn
  <1>3. \A q \in Requests : handler'[q] = handler[q] \/ handler'[q] = to
    BY <1>1 DEF SyncTyped
  <1> QED
    BY <1>0, <1>2, <1>3, WorkEnds

\* A listing is made, or the sync goes to make its first.
LEMMA ListSync ==
    ASSUME SyncInv, NEW r \in Requests, List(r)
    PROVE  SyncInv'
  <1>0. SyncTyped /\ handler[r] = "list"
    BY DEF SyncInv, List
  <1>1. /\ UNCHANGED <<vcenter, changes, detail, upserts, rows, newest, base, synced, overlapped,
                       lost>>
        /\ UNCHANGED history
    BY DEF List, history
  <1>2. CASE handler' = [handler EXCEPT ![r] = "fail"] /\ UNCHANGED <<todo, listed>>
    BY <1>1, <1>2, MovesOn DEF Listing
  <1>3. CASE \E found \in SetToSeqs(onVCenter(listed[r] + 1)) :
                /\ todo' = [todo EXCEPT ![r] = @ \o found]
                /\ listed' = [listed EXCEPT ![r] = @ + 1]
                /\ goto(r, IF listed'[r] = Len(Resources) THEN "read" ELSE "list")
    <2>0. listed[r] \in Nat /\ listed[r] < 3
      BY <1>0 DEF SyncTyped, Listing
    <2>1. PICK k \in 1..3 : k = listed[r] + 1
      BY <2>0
    <2>2. PICK found \in SetToSeqs(onVCenter(k)) :
                /\ todo' = [todo EXCEPT ![r] = @ \o found]
                /\ listed' = [listed EXCEPT ![r] = k]
                /\ goto(r, IF listed'[r] = Len(Resources) THEN "read" ELSE "list")
      BY <1>3, <2>1
    <2>3. found \in Seq(Ids)
      BY ListingFinds
    <2>4. todo[r] \in Seq(Ids) /\ todo[r] \o found \in Seq(Ids)
      BY <1>0, <2>3 DEF SyncTyped
    <2>5. /\ listed'[r] = k /\ listed' \in [Requests -> Nat]
          /\ \A q \in Requests : q # r => listed'[q] = listed[q]
      BY <1>0, <2>2 DEF SyncTyped
    <2>6. todo' \in [Requests -> Seq(Ids)] /\ \A q \in Requests : q # r => todo'[q] = todo[q]
      BY <1>0, <2>2, <2>4 DEF SyncTyped
    <2>7. /\ DOMAIN handler' = Requests /\ \A q \in Requests : q # r => handler'[q] = handler[q]
          /\ handler'[r] = "read" \/ (handler'[r] = "list" /\ k < 3)
      BY <1>0, <2>2, <2>5, ResourcesAssumption DEF SyncTyped, goto
    <2>8. \A q \in Requests : /\ handler'[q] \in Listing => listed'[q] < 3
                              /\ handler'[q] = "spawn" => todo'[q] # <<>> /\ detail'[q] # 0
      BY <1>0, <1>1, <2>5, <2>6, <2>7 DEF SyncTyped, Listing
    <2>9. SyncTyped'
      BY <1>0, <1>1, <2>5, <2>6, <2>7, <2>8 DEF SyncTyped, Listing
    <2>10. \A q \in Requests :
              /\ handler'[q] = "idle" => handler[q] = "idle"
              /\ handler'[q] = "spawn" =>
                    handler[q] = "spawn" /\ todo'[q] = todo[q] /\ detail'[q] = detail[q]
      BY <1>1, <2>6, <2>7
    <2> QED
      BY <1>1, <2>9, <2>10, WorkEnds
  <1> QED
    BY <1>2, <1>3 DEF List, goto

\* The worker of a request ends, or one upsert does.
LEMMA LossSync ==
    ASSUME SyncInv,
           (\E p \in Processes : Crash(p)) \/ (\E u \in upserts : UpsertRaises(u))
    PROVE  SyncInv'
  <1>0. SyncTyped
    BY DEF SyncInv
  <1>1. ASSUME NEW p \in Processes, Crash(p) PROVE SyncInv'
    <2>1. /\ upserts' \subseteq upserts /\ lost \subseteq lost'
          /\ \A u \in upserts : u \in upserts' \/ <<u.req, u.id>> \in lost'
      BY <1>1 DEF Crash
    <2>2. UNCHANGED <<vcenter, changes, listed, todo, detail, rows, newest, base, synced,
                      overlapped>>
      BY <1>1 DEF Crash
    <2>3. /\ DOMAIN handler' = Requests
          /\ \A q \in Requests : handler'[q] = handler[q] \/ handler'[q] = "error"
      BY <1>1 DEF Crash
    <2>4. \A q \in Requests : /\ handler'[q] \in Listing => listed'[q] < 3
                              /\ handler'[q] = "spawn" => todo'[q] # <<>> /\ detail'[q] # 0
      BY <1>0, <2>2, <2>3 DEF SyncTyped, Listing
    <2>5. SyncTyped'
      BY <1>0, <2>1, <2>2, <2>3, <2>4 DEF SyncTyped, Listing
    <2> QED
      BY <2>1, <2>2, <2>3, <2>5, WorkEnds
  <1>2. ASSUME NEW u \in upserts, UpsertRaises(u) PROVE SyncInv'
    <2>1. /\ upserts' \subseteq upserts /\ lost \subseteq lost'
          /\ \A v \in upserts : v \in upserts' \/ <<v.req, v.id>> \in lost'
      BY <1>2 DEF UpsertRaises
    <2>2. UNCHANGED <<vcenter, changes, handler, listed, todo, detail, rows, newest, base, synced,
                      overlapped>>
      BY <1>2 DEF UpsertRaises, syncVars
    <2>3. SyncTyped'
      BY <1>0, <2>1, <2>2 DEF SyncTyped
    <2> QED
      BY <2>1, <2>2, <2>3, WorkEnds
  <1> QED
    BY <1>1, <1>2

\* The steps of a request's handler.
LEMMA HandlerSync ==
    ASSUME SyncInv, NEW r \in Requests, Handler(r)
    PROVE  SyncInv'
  <1>1. ASSUME NEW p \in Processes, BeginSync(r, p) PROVE SyncInv'
    BY <1>1, SyncBegins
  <1>2. CASE CreateSyncTask(r)
    BY <1>2, MovesOn DEF Listing, CreateSyncTask, Track, goto
  <1>3. CASE MarkSyncRunning(r)
    BY <1>3, MovesOn DEF Listing, MarkSyncRunning, Track, goto
  <1>4. CASE List(r)
    BY <1>4, ListSync
  <1>5. CASE Read(r)
    <2>1. /\ handler[r] = "read" /\ todo[r] # <<>>
          /\ UNCHANGED <<vcenter, changes, listed, todo, upserts, rows, newest, base, synced, lost>>
      BY <1>5 DEF Read
    <2>2. CASE goto(r, "fail") /\ UNCHANGED <<detail, overlapped>>
      BY <2>1, <2>2, MovesOn DEF Listing, goto, history
    <2>3. ASSUME NEW x, x = Head(todo[r]), vcenter[x] # 0, goto(r, "spawn"),
                 detail' = [detail EXCEPT ![r] = seen(r, x)],
                 overlapped' = IF working(x) = {} THEN overlapped ELSE overlapped \cup {x}
          PROVE  SyncInv'
      BY <2>1, <2>3, ReadSync DEF goto, seen
    <2> QED
      BY <1>5, <2>2, <2>3 DEF Read
  <1>6. CASE _upsert_snapshot(r)
    BY <1>6, UpsertSync
  <1>7. CASE Return(r)
    BY <1>7, MovesOn DEF Listing, Return, goto
  <1>8. CASE Succeed(r)
    BY <1>8, MovesOn DEF Listing, Succeed, goto
  <1>9. CASE Fail(r)
    BY <1>9, MovesOn DEF Listing, Fail, goto
  <1> QED
    BY <1>1, <1>2, <1>3, <1>4, <1>5, <1>6, <1>7, <1>8, <1>9 DEF Handler

\* Every step of the syncs, of their upserts, of the workers and of vCenter.
LEMMA SyncStep == SyncInv /\ [SyncNext]_inventoryVars => SyncInv'
  <1> SUFFICES ASSUME SyncInv, [SyncNext]_inventoryVars PROVE SyncInv'
    OBVIOUS
  <1>1. ASSUME NEW r \in Requests, Handler(r) PROVE SyncInv'
    BY <1>1, HandlerSync
  <1>2. ASSUME NEW u \in upserts, Upsert(u) PROVE SyncInv'
    BY <1>2, SelectSync, CommitSync, LossSync DEF Upsert
  <1>3. ASSUME NEW p \in Processes, Crash(p) PROVE SyncInv'
    BY <1>3, LossSync
  <1>4. ASSUME NEW x \in Ids, Change(x) PROVE SyncInv'
    BY <1>4, ChangeSync
  <1>5. CASE UNCHANGED inventoryVars
    BY <1>5 DEF inventoryVars, syncVars, history, SyncInv, SyncTyped, VersionsOK, Shown,
       Spawning, IdleOK, Sole,
                SucceededMeansStored
  <1> QED
    BY <1>1, <1>2, <1>3, <1>4, <1>5 DEF SyncNext

\* A row of resource_snapshots goes back to older content only where two syncs overlapped.
THEOREM RegressionsExplained == SyncSpec => []RegressionExplained
  <1>1. SyncInv => RegressionExplained
    BY DEF SyncInv, SyncTyped, Sole, RegressionExplained
  <1> QED
    BY <1>1, SyncStart, SyncStep, PTL DEF SyncSpec

\* What a sync handed over is stored as new as when the request came in, or is under
\* way, was lost or raced.
THEOREM SucceededStored == SyncSpec => []SucceededMeansStored
  <1>1. SyncInv => SucceededMeansStored
    BY DEF SyncInv
  <1> QED
    BY <1>1, SyncStart, SyncStep, PTL DEF SyncSpec

-----------------------------------------------------------------------------
(* /assess, /plan and /assess/parallel: the module Assessment. *)

\* A sequence, of whatever.
Collected(s) == \E S : s \in Seq(S)

\* Adding a last element.
LEMMA Adds ==
    ASSUME NEW s, Collected(s), NEW v
    PROVE  /\ Collected(Append(s, v)) /\ Len(s) \in Nat
           /\ Len(Append(s, v)) = Len(s) + 1
           /\ DOMAIN s = 1..Len(s) /\ DOMAIN Append(s, v) = 1..Len(s) + 1
           /\ Append(s, v)[Len(s) + 1] = v
           /\ \A k \in 1..Len(s) : Append(s, v)[k] = s[k]
  <1>1. PICK S : s \in Seq(S)
    BY DEF Collected
  <1>2. s \in Seq(S \cup {v}) /\ Append(s, v) \in Seq(S \cup {v})
    BY <1>1
  <1>3. Collected(Append(s, v))
    BY <1>2 DEF Collected
  <1> QED
    BY <1>2, <1>3

\* Taking the first element.
LEMMA Takes ==
    ASSUME NEW s, Collected(s), s # <<>>
    PROVE  /\ Collected(Tail(s)) /\ Len(s) \in Nat \ {0} /\ DOMAIN s = 1..Len(s)
           /\ Len(Tail(s)) = Len(s) - 1 /\ DOMAIN Tail(s) = 1..Len(s) - 1
           /\ Head(s) = s[1] /\ \A k \in 1..Len(s) - 1 : Tail(s)[k] = s[k + 1]
  <1>1. PICK S : s \in Seq(S)
    BY DEF Collected
  <1>2. Tail(s) \in Seq(S)
    BY <1>1
  <1>3. Collected(Tail(s))
    BY <1>2 DEF Collected
  <1> QED
    BY <1>1, <1>2, <1>3

\* One sequence after another.
LEMMA Joins ==
    ASSUME NEW s, NEW t, Collected(s), Collected(t)
    PROVE  /\ Collected(s \o t) /\ Len(s) \in Nat /\ Len(t) \in Nat
           /\ Len(s \o t) = Len(s) + Len(t) /\ DOMAIN (s \o t) = 1..Len(s) + Len(t)
           /\ \A k \in 1..Len(s) + Len(t) :
                 (s \o t)[k] = IF k <= Len(s) THEN s[k] ELSE t[k - Len(s)]
  <1>1. PICK S : s \in Seq(S)
    BY DEF Collected
  <1>2. PICK T : t \in Seq(T)
    BY DEF Collected
  <1>3. s \in Seq(S \cup T) /\ t \in Seq(S \cup T)
    BY <1>1, <1>2
  <1>4. s \o t \in Seq(S \cup T)
    BY <1>3
  <1>5. Collected(s \o t)
    BY <1>4 DEF Collected
  <1> QED
    BY <1>3, <1>4, <1>5

\* Where the elements of a sequence with the vm_id id are.
Places(s, id) == {k \in DOMAIN s : s[k].vm_id = id}

\* They are finitely many.
LEMMA PlacesFinite ==
    ASSUME NEW s, Collected(s), NEW id
    PROVE  IsFiniteSet(Places(s, id)) /\ Cardinality(Places(s, id)) \in Nat
  <1>1. PICK S : s \in Seq(S)
    BY DEF Collected
  <1>2. DOMAIN s = 1..Len(s) /\ Len(s) \in Int /\ 1 \in Int
    BY <1>1
  <1>3. IsFiniteSet(1..Len(s))
    BY ONLY <1>2, FS_Interval
  <1>4. Places(s, id) \subseteq 1..Len(s)
    BY <1>2 DEF Places
  <1>5. IsFiniteSet(Places(s, id))
    BY <1>3, <1>4, FS_Subset
  <1> QED
    BY <1>5, FS_CardinalityType

\* A last element adds its place to those of its vm_id.
LEMMA PlaceAdded ==
    ASSUME NEW s, Collected(s), NEW v, NEW id
    PROVE  Cardinality(Places(Append(s, v), id)) =
               IF v.vm_id = id THEN Cardinality(Places(s, id)) + 1 ELSE Cardinality(Places(s, id))
  <1> DEFINE n == Len(s) + 1
             t == Append(s, v)
  <1>1. /\ Len(s) \in Nat /\ DOMAIN s = 1..Len(s) /\ DOMAIN t = 1..n /\ t[n] = v
        /\ \A k \in 1..Len(s) : t[k] = s[k]
    BY Adds
  <1>2. DOMAIN t = DOMAIN s \cup {n} /\ n \notin DOMAIN s /\ \A k \in DOMAIN s : t[k] = s[k]
    BY <1>1
  <1> HIDE DEF n, t
  <1>3. v.vm_id # id => Places(t, id) = Places(s, id)
    BY <1>1, <1>2 DEF Places
  <1>4. v.vm_id = id => Places(t, id) = Places(s, id) \cup {n} /\ n \notin Places(s, id)
    BY <1>1, <1>2 DEF Places
  <1>5. IsFiniteSet(Places(s, id))
    BY PlacesFinite
  <1>6. v.vm_id = id => Cardinality(Places(t, id)) = Cardinality(Places(s, id)) + 1
    BY <1>4, <1>5, FS_AddElement
  <1> QED
    BY <1>3, <1>6 DEF t

\* The first of what waits becomes the last of what was taken: together they stay.
LEMMA MovedOver ==
    ASSUME NEW s, NEW t, Collected(s), Collected(t), t # <<>>
    PROVE  Append(s, Head(t)) \o Tail(t) = s \o t
  <1>1. PICK S : s \in Seq(S)
    BY DEF Collected
  <1>2. PICK T : t \in Seq(T)
    BY DEF Collected
  <1>3. s \in Seq(S \cup T) /\ t \in Seq(S \cup T)
    BY <1>1, <1>2
  <1>4. Append(s, Head(t)) \o Tail(t) \in Seq(S \cup T) /\ s \o t \in Seq(S \cup T)
    BY <1>3
  <1> DEFINE a == Append(s, Head(t)) \o Tail(t)
             b == s \o t
  <1>5. Len(a) = Len(b)
    BY <1>3
  <1>6. \A k \in 1..Len(b) : a[k] = b[k]
    BY <1>3, <1>5
  <1> HIDE DEF a, b
  <1>7. a = b
    BY <1>4, <1>5, <1>6 DEF a, b
  <1> QED
    BY <1>7 DEF a, b

\* What comes last waits last.
LEMMA AddedLast ==
    ASSUME NEW s, NEW t, Collected(s), Collected(t), NEW v
    PROVE  s \o Append(t, v) = Append(s \o t, v)
  <1>1. PICK S : s \in Seq(S)
    BY DEF Collected
  <1>2. PICK T : t \in Seq(T)
    BY DEF Collected
  <1> DEFINE U == S \cup T \cup {v}
  <1>3. s \in Seq(U) /\ t \in Seq(U) /\ v \in U
    BY <1>1, <1>2
  <1> HIDE DEF U
  <1>4. s \o Append(t, v) \in Seq(U) /\ Append(s \o t, v) \in Seq(U)
    BY <1>3
  <1> DEFINE a == s \o Append(t, v)
             b == Append(s \o t, v)
  <1>5. Len(a) = Len(b)
    BY <1>3
  <1>6. \A k \in 1..Len(b) : a[k] = b[k]
    BY <1>3, <1>5
  <1> HIDE DEF a, b
  <1>7. a = b
    BY <1>4, <1>5, <1>6 DEF a, b
  <1> QED
    BY <1>7 DEF a, b

Parallel(r) == req(r).kind = "parallel"

\* What the variables are functions of, and which of their values are sequences.
Shapes ==
    /\ DOMAIN phase = Requests /\ DOMAIN results = Requests /\ DOMAIN finished = Requests
    /\ DOMAIN cache = Requests /\ DOMAIN job = Requests /\ DOMAIN raised = Requests
    /\ DOMAIN task = Requests /\ DOMAIN reading = Requests
    /\ DOMAIN progress = Requests
    /\ \A r \in Requests : /\ DOMAIN progress[r] = {"completed", "failed", "status"}
                           /\ progress[r].completed \in Nat /\ progress[r].failed \in Nat
    /\ shown \in Nat \ {0} /\ expiries \in Nat
    /\ \A r \in Requests : /\ Collected(results[r]) /\ Collected(finished[r])
                           /\ Collected(req(r).vm_ids)
                           /\ DOMAIN reading[r] = {"listed", "items"}
                           /\ DOMAIN job[r] = 1..size(r)
                           /\ DOMAIN raised[r] = 1..size(r)

\* Where assess_parallel is, and what its record and its task row say there.
Phase(r) ==
    /\ phase[r] = "gather" => Parallel(r)
    /\ Parallel(r) =>
          /\ phase[r] \in {"idle", "create", "mark", "gather", "record", "done"}
          /\ phase[r] \in {"idle", "create", "mark"} => results[r] = <<>>
          /\ phase[r] \in {"create", "mark"} => progress[r].status = "running"
          /\ phase[r] # "done" => task[r] \notin {"succeeded", "failed"}
          /\ phase[r] = "record" => /\ Len(results[r]) = size(r)
                                    /\ (progress[r].status = "completed") <=> (progress[r].failed = 0)
          /\ task[r] \in {"succeeded", "failed"} =>
                /\ Len(results[r]) = size(r)
                /\ (task[r] = "succeeded") <=> (progress[r].failed = 0)

\* The record counts the results taken.
Tally(r) ==
    Parallel(r) =>
        /\ progress[r].completed + progress[r].failed = Len(results[r])
        /\ (progress[r].failed = 0) <=>
              (\A k \in DOMAIN results[r] : results[r][k].status = "completed")

\* The entries of vm_ids with this id that are over.
Over(r, id) == {i \in DOMAIN job[r] : job[r][i] = "done" /\ req(r).vm_ids[i] = id}

\* As many results are there for an id, taken or waiting, as entries of it are over.
Placed(r) ==
    Parallel(r) => \A id \in ToSet(req(r).vm_ids) :
        Cardinality(Places(results[r] \o finished[r], id)) = Cardinality(Over(r, id))

\* The exceptions that make an entry end with a status other than completed.
exceptions(status) ==
    IF status = "failed" THEN {<<"error", "error">>} ELSE {<<"timeout">>, <<"error", "timeout">>}

\* A verdict on an id that vCenter did not always show, or of which an entry is over
\* whose evaluations raised.
Excused(r, v) ==
    \/ \E s \in 1..shown : v.vm_id \notin DOMAIN world.inventories[s]
    \/ \E i \in DOMAIN job[r] : /\ req(r).vm_ids[i] = v.vm_id /\ job[r][i] = "done"
                                /\ raised[r][i] \in exceptions(v.status)

\* A verdict that is not completed is excused, and until a list times out one made from
\* a list is what the list the request still has says.
Sound(r, v) ==
    /\ v.status # "completed" => Parallel(r) /\ Excused(r, v)
    /\ expiries = 0 /\ v.listed # 0 => v = verdict(r, v.vm_id, cache[r])

\* A list, complete or not, is one of a state that vCenter has shown, and its VMs were
\* read then or later.
Made(list) ==
    list.listed # 0 =>
        /\ list.listed \in 1..shown
        /\ DOMAIN list.items \subseteq DOMAIN world.inventories[list.listed]
        /\ \A id \in DOMAIN list.items : list.items[id].at \in list.listed..shown

\* The lists of a request: the one that is kept is complete, and where none is being
\* made nothing has been read.
Lists(r) ==
    /\ Made(cache[r]) /\ Made(reading[r])
    /\ cache[r].listed # 0 => DOMAIN cache[r].items = DOMAIN world.inventories[cache[r].listed]
    /\ reading[r].listed = 0 => DOMAIN reading[r].items = {}

\* The lists of a request are in order, its verdicts are sound, and an entry is
\* evaluated a second time after an exception that is no TimeoutError.
Judged(r) ==
    /\ Lists(r)
    /\ \A k \in DOMAIN results[r] : Sound(r, results[r][k])
    /\ \A k \in DOMAIN finished[r] : Sound(r, finished[r][k])
    /\ Parallel(r) => \A i \in DOMAIN job[r] :
          /\ job[r][i] \in {"new", "try"} => raised[r][i] = <<>>
          /\ job[r][i] = "retry" => raised[r][i] = <<"error">>

AssessInv ==
    /\ Shapes
    /\ \A r \in Requests : Phase(r) /\ Tally(r) /\ Placed(r) /\ Judged(r)
    /\ GaugeExplained

\* Nothing has been evaluated.
LEMMA AssessStart == AssessmentInit => AssessInv
  <1> SUFFICES ASSUME AssessmentInit PROVE AssessInv
    OBVIOUS
  <1>0. /\ world \in Scenarios /\ shown = 1 /\ expiries = 0 /\ gauge = 0
        /\ phase = [r \in Requests |-> "idle"] /\ cache = [r \in Requests |-> NoList]
        /\ reading = [r \in Requests |-> NoList]
        /\ results = [r \in Requests |-> <<>>] /\ finished = [r \in Requests |-> <<>>]
        /\ job = [r \in Requests |-> [i \in 1..size(r) |-> "new"]]
        /\ raised = [r \in Requests |-> [i \in 1..size(r) |-> <<>>]]
        /\ progress = [r \in Requests |-> [completed |-> 0, failed |-> 0, status |-> "none"]]
        /\ task = [r \in Requests |-> "none"]
    BY DEF AssessmentInit, TaskInit
  <1>1. ASSUME NEW r \in Requests
        PROVE  /\ Collected(results[r]) /\ Collected(finished[r]) /\ Collected(req(r).vm_ids)
               /\ DOMAIN job[r] = 1..size(r) /\ DOMAIN raised[r] = 1..size(r)
               /\ DOMAIN reading[r] = {"listed", "items"}
    <2>1. Collected(req(r).vm_ids)
      BY <1>0, ScenariosAssumption DEF Collected, req
    <2>2. <<>> \in Seq({})
      OBVIOUS
    <2> QED
      BY <1>0, <2>1, <2>2 DEF Collected, NoList
  <1>2. Shapes
    <2>1. /\ DOMAIN progress = Requests
          /\ \A q \in Requests : /\ DOMAIN progress[q] = {"completed", "failed", "status"}
                                 /\ progress[q].completed \in Nat /\ progress[q].failed \in Nat
      BY <1>0
    <2>2. /\ DOMAIN phase = Requests /\ DOMAIN results = Requests /\ DOMAIN finished = Requests
          /\ DOMAIN cache = Requests /\ DOMAIN reading = Requests /\ DOMAIN task = Requests
      BY <1>0
    <2>3. DOMAIN job = Requests /\ DOMAIN raised = Requests
      BY <1>0
    <2> QED
      BY <1>0, <1>1, <2>1, <2>2, <2>3 DEF Shapes
  <1>3. ASSUME NEW r \in Requests PROVE Phase(r) /\ Tally(r) /\ Judged(r)
    <2>1. /\ results[r] = <<>> /\ finished[r] = <<>> /\ phase[r] = "idle"
          /\ task[r] = "none"
          /\ cache[r].listed = 0 /\ reading[r].listed = 0 /\ reading[r].items = <<>>
      BY <1>0 DEF NoList
    <2>2. /\ progress[r].completed = 0 /\ progress[r].failed = 0 /\ DOMAIN results[r] = {}
          /\ DOMAIN finished[r] = {}
          /\ Len(results[r]) = 0
      BY <1>0, <2>1
    <2>3. Phase(r) /\ Tally(r)
      BY <2>1, <2>2 DEF Phase, Tally
    <2>4. Judged(r)
      BY <1>0, <2>1, <2>2 DEF Judged, Lists, Made
    <2> QED
      BY <2>3, <2>4
  <1>4. ASSUME NEW r \in Requests PROVE Placed(r)
    <2>1. \A id : Places(results[r] \o finished[r], id) = {}
      <3>1. results[r] \o finished[r] = <<>>
        BY <1>0
      <3> QED
        BY <3>1 DEF Places
    <2>2. \A id : Over(r, id) = {}
      BY <1>0 DEF Over
    <2> QED
      BY <2>1, <2>2 DEF Placed
  <1>5. GaugeExplained
    BY <1>0 DEF GaugeExplained
  <1> QED
    BY <1>2, <1>3, <1>4, <1>5 DEF AssessInv

\* A request whose position, results and task row stay.
LEMMA KeepsPhase ==
    ASSUME NEW q \in Requests, Phase(q), UNCHANGED world, phase'[q] = phase[q],
           results'[q] = results[q],
           progress'[q] = progress[q], task'[q] = task[q]
    PROVE  Phase(q)'
  BY DEF Phase, Parallel, req, size

\* A request whose results stay, and the numbers of its record.
LEMMA KeepsTally ==
    ASSUME NEW q \in Requests, Tally(q), UNCHANGED world, results'[q] = results[q],
           progress'[q].completed = progress[q].completed, progress'[q].failed = progress[q].failed
    PROVE  Tally(q)'
  BY DEF Tally, Parallel, req

\* A request whose entries are over or not as before, and whose results stay.
LEMMA KeepsPlaced ==
    ASSUME NEW q \in Requests, Placed(q), UNCHANGED world,
           results'[q] \o finished'[q] = results[q] \o finished[q],
           DOMAIN job'[q] = DOMAIN job[q],
           \A i \in DOMAIN job[q] : job'[q][i] = "done" <=> job[q][i] = "done"
    PROVE  Placed(q)'
  <1>1. \A id : Over(q, id)' = Over(q, id)
    BY DEF Over, req
  <1>2. \A id : Places(results[q] \o finished[q], id)' = Places(results[q] \o finished[q], id)
    BY DEF Places
  <1> QED
    BY <1>1, <1>2 DEF Placed, Parallel, req

\* What a verdict says of its id.
LEMMA VerdictSays ==
    ASSUME NEW r, NEW id, NEW list, NEW v, v = verdict(r, id, list)
    PROVE  /\ v.vm_id = id /\ v.listed = list.listed
           /\ v.status = IF id \in DOMAIN list.items THEN "completed" ELSE "failed"
           /\ v.status = "completed" => v.at = list.items[id].at
  BY DEF verdict

\* A verdict stays sound when a list is made for the first time, an entry that is not
\* over goes on, a list times out or vCenter changes.
LEMMA KeepsSound ==
    ASSUME NEW q \in Requests, NEW v, Sound(q, v), Shapes, UNCHANGED world, shown' \in Nat,
           shown <= shown',
           \/ expiries' = expiries /\ (cache'[q] = cache[q] \/ cache[q].listed = 0)
           \/ expiries' = expiries + 1,
           DOMAIN job'[q] = DOMAIN job[q],
           Parallel(q) => \A i \in DOMAIN job[q] : job[q][i] = "done" =>
                              job'[q][i] = "done" /\ raised'[q][i] = raised[q][i]
    PROVE  Sound(q, v)'
  <1>1. Parallel(q)' <=> Parallel(q)
    BY DEF Parallel, req
  <1>2. ASSUME Parallel(q), Excused(q, v) PROVE Excused(q, v)'
    <2>1. shown \in Nat /\ \A s \in 1..shown : s \in 1..shown'
      BY DEF Shapes
    <2>2. CASE \E s \in 1..shown : v.vm_id \notin DOMAIN world.inventories[s]
      BY <2>1, <2>2 DEF Excused
    <2>3. CASE \E i \in DOMAIN job[q] : /\ req(q).vm_ids[i] = v.vm_id /\ job[q][i] = "done"
                                        /\ raised[q][i] \in exceptions(v.status)
      <3>1. PICK i \in DOMAIN job[q] : /\ req(q).vm_ids[i] = v.vm_id /\ job[q][i] = "done"
                                       /\ raised[q][i] \in exceptions(v.status)
        BY <2>3
      <3>2. /\ i \in DOMAIN job'[q] /\ req(q)' = req(q) /\ raised'[q][i] = raised[q][i]
            /\ job'[q][i] = "done"
        BY <1>2, <3>1 DEF req
      <3> QED
        BY <3>1, <3>2 DEF Excused
    <2> QED
      BY <1>2, <2>2, <2>3 DEF Excused
  <1>3. ASSUME expiries' = 0, v.listed # 0 PROVE v = verdict(q, v.vm_id, cache[q])'
    <2>1. expiries = 0 /\ (cache'[q] = cache[q] \/ cache[q].listed = 0)
      BY <1>3 DEF Shapes
    <2>2. v = verdict(q, v.vm_id, cache[q])
      BY <1>3, <2>1 DEF Sound
    <2>3. cache'[q] = cache[q]
      BY <1>3, <2>1, <2>2, VerdictSays
    <2> QED
      BY <2>2, <2>3 DEF verdict, req
  <1> QED
    BY <1>1, <1>2, <1>3 DEF Sound

\* A list stays in order while vCenter goes on.
LEMMA KeepsMade ==
    ASSUME NEW list, Made(list), Shapes, UNCHANGED world, shown' \in Nat, shown <= shown'
    PROVE  Made(list)'
  BY DEF Made, Shapes

\* A request whose evaluations stay.
LEMMA KeepsJudged ==
    ASSUME NEW q \in Requests, Judged(q), Shapes, UNCHANGED <<world, expiries>>, shown' \in Nat,
           shown <= shown',
           cache'[q] = cache[q], reading'[q] = reading[q],
           results'[q] = results[q], finished'[q] = finished[q],
           job'[q] = job[q], raised'[q] = raised[q]
    PROVE  Judged(q)'
  <1>1. \A v : Sound(q, v) => Sound(q, v)'
    BY KeepsSound
  <1>2. Lists(q)'
    <2>1. \A list : Made(list) => Made(list)'
      BY KeepsMade
    <2> QED
      BY <2>1 DEF Judged, Lists, Made
  <1> QED
    BY <1>1, <1>2 DEF Judged, Parallel, req, Shapes

\* A request is open to the gauge: at work, or stopped before its try block.
Open(q) == phase[q] \notin {"idle", "done"} \/ (q \in taskLost /\ progress[q].status = "running")

\* The gauge is explained as before while what it counts stays open.
LEMMA KeepsGauge ==
    ASSUME GaugeExplained, UNCHANGED <<world, gauge>>,
           \A q \in Requests :
              Parallel(q) /\ Open(q) => Open(q)' /\ Len(results'[q]) = Len(results[q])
    PROVE  GaugeExplained'
  BY DEF GaugeExplained, Open, Parallel, req, size

\* A step of one request, of which the others see nothing.
LEMMA Locally ==
    ASSUME AssessInv, NEW r \in Requests, UNCHANGED <<world, shown, expiries>>, Shapes',
           GaugeExplained',
           Phase(r)', Tally(r)', Placed(r)', Judged(r)',
           \A q \in Requests : q # r =>
              /\ phase'[q] = phase[q] /\ results'[q] = results[q] /\ finished'[q] = finished[q]
              /\ cache'[q] = cache[q] /\ reading'[q] = reading[q]
              /\ job'[q] = job[q] /\ raised'[q] = raised[q]
              /\ progress'[q] = progress[q] /\ task'[q] = task[q]
    PROVE  AssessInv'
  <1>1. ASSUME NEW q \in Requests, q # r PROVE Phase(q)' /\ Tally(q)' /\ Placed(q)' /\ Judged(q)'
    <2>0. Phase(q) /\ Tally(q) /\ Placed(q) /\ Judged(q) /\ Shapes
      BY DEF AssessInv
    <2>1. shown' \in Nat /\ shown <= shown'
      BY <2>0 DEF Shapes
    <2>2. Phase(q)' /\ Tally(q)'
      BY <1>1, <2>0, KeepsPhase, KeepsTally
    <2>3. Placed(q)'
      BY <1>1, <2>0, KeepsPlaced
    <2>4. Judged(q)'
      BY <1>1, <2>0, <2>1, KeepsJudged
    <2> QED
      BY <2>2, <2>3, <2>4
  <1> QED
    BY <1>1 DEF AssessInv

\* A step of a request that evaluates nothing and counts nothing.
LEMMA Turns ==
    ASSUME AssessInv, NEW r \in Requests,
           UNCHANGED <<world, shown, expiries, reading, cache, results, finished, job, raised>>,
           DOMAIN phase' = Requests, DOMAIN task' = Requests,
           \A q \in Requests : q # r => phase'[q] = phase[q] /\ task'[q] = task[q],
           \/ UNCHANGED progress
           \/ \E s \in {"running", "completed"} : progress' = [progress EXCEPT ![r].status = s],
           GaugeExplained', Phase(r)'
    PROVE  AssessInv'
  <1>0. Shapes /\ Tally(r) /\ Placed(r) /\ Judged(r)
    BY DEF AssessInv
  <1>1. /\ DOMAIN progress' = Requests
        /\ \A q \in Requests : /\ DOMAIN progress'[q] = {"completed", "failed", "status"}
                               /\ progress'[q].completed \in Nat /\ progress'[q].failed \in Nat
        /\ \A q \in Requests : q # r => progress'[q] = progress[q]
        /\ progress'[r].completed = progress[r].completed
        /\ progress'[r].failed = progress[r].failed
    <2>1. /\ DOMAIN progress = Requests
          /\ \A q \in Requests : /\ DOMAIN progress[q] = {"completed", "failed", "status"}
                                 /\ progress[q].completed \in Nat /\ progress[q].failed \in Nat
      BY <1>0 DEF Shapes
    <2> QED
      BY ONLY <2>1, r \in Requests,
              UNCHANGED progress \/ \E s \in {"running", "completed"} : progress' = [progress EXCEPT ![r].status = s]
  <1>2. Shapes'
    BY <1>0, <1>1 DEF Shapes, req, size
  <1>3. Tally(r)'
    BY <1>0, <1>1, KeepsTally
  <1>4. Placed(r)'
    BY <1>0, KeepsPlaced
  <1>5. Judged(r)'
    <2>1. shown' \in Nat /\ shown <= shown'
      BY <1>0 DEF Shapes
    <2> QED
      BY <1>0, <2>1, KeepsJudged
  <1> QED
    BY <1>1, <1>2, <1>3, <1>4, <1>5, Locally

\* The row of a request is written, or it may be.
LEMMA RowWritten ==
    ASSUME DOMAIN task = Requests, NEW r \in Requests, NEW state,
           Write(r, state) \/ WriteRaises(r, state)
    PROVE  /\ DOMAIN task' = Requests /\ \A q \in Requests : q # r => task'[q] = task[q]
           /\ task'[r] = task[r] \/ task'[r] = state
           /\ taskLost \subseteq taskLost'
           /\ Write(r, state) => task'[r] = state
           /\ WriteRaises(r, state) => r \in taskLost'
  BY DEF Write, WriteRaises

\* A request goes somewhere, or ends.
LEMMA Moved ==
    ASSUME DOMAIN phase = Requests, NEW r \in Requests, NEW to,
           GotoPhase(r, to) \/ (to = "done" /\ \E answer : End(r, answer))
    PROVE  DOMAIN phase' = Requests /\ phase'[r] = to /\ \A q \in Requests : q # r => phase'[q] = phase[q]
  BY DEF GotoPhase, End

\* A request comes in.
LEMMA BeginAssess ==
    ASSUME AssessInv, NEW r \in Requests, BeginAssessment(r)
    PROVE  AssessInv'
  <1>0. /\ Shapes /\ Phase(r) /\ Tally(r) /\ GaugeExplained /\ phase[r] = "idle"
        /\ UNCHANGED <<world, shown, expiries, reading, cache, results, finished, job, raised,
                       task, taskLost>>
    BY DEF AssessInv, BeginAssessment, serviceVars, taskVars
  <1>1. CASE /\ req(r).kind \in {"assess", "plan"} /\ UNCHANGED <<progress, gauge>>
             /\ End(r, "error") \/ GotoPhase(r, "create")
    <2>1. /\ DOMAIN phase' = Requests /\ phase'[r] \in {"done", "create"}
          /\ \A q \in Requests : q # r => phase'[q] = phase[q]
      BY <1>0, <1>1, Moved DEF Shapes
    <2>2. ~Parallel(r)
      BY <1>1 DEF Parallel
    <2>3. Phase(r)'
      BY <1>0, <2>1, <2>2 DEF Phase, Parallel, req
    <2>4. GaugeExplained'
      BY <1>0, <1>1, <2>1, <2>2, KeepsGauge DEF Open
    <2> QED
      BY <1>0, <1>1, <2>1, <2>3, <2>4, Turns DEF Shapes
  <1>2. CASE /\ req(r).kind = "parallel" /\ progress' = [progress EXCEPT ![r].status = "running"]
             /\ gauge' = size(r) /\ GotoPhase(r, "create")
    <2>1. /\ DOMAIN phase' = Requests /\ phase'[r] = "create"
          /\ \A q \in Requests : q # r => phase'[q] = phase[q]
      BY <1>0, <1>2, Moved DEF Shapes
    <2>2. results[r] = <<>> /\ Len(results[r]) = 0 /\ size(r) \in Nat
      BY <1>0, <1>2 DEF Phase, Parallel, Shapes, Collected, size
    <2>3. progress'[r].status = "running" /\ progress'[r].failed = progress[r].failed
      BY <1>0, <1>2 DEF Shapes
    <2>4. Phase(r)'
      BY <1>0, <1>2, <2>1, <2>2, <2>3 DEF Phase, Parallel, req, size
    <2>5. GaugeExplained'
      <3>1. /\ req(r)' = req(r) /\ size(r)' = size(r)
            /\ Len(results'[r]) = 0
        BY <1>0, <2>2 DEF req, size
      <3>2. gauge' = size(r)' - Len(results'[r])
        BY <1>2, <2>2, <3>1
      <3> QED
        BY <1>2, <2>1, <3>1, <3>2 DEF GaugeExplained
    <2> QED
      BY <1>0, <1>2, <2>1, <2>4, <2>5, Turns DEF Shapes
  <1> QED
    BY <1>1, <1>2 DEF BeginAssessment

\* The task row is created; if that raises, the request ends outside any try block.
LEMMA CreateAssess ==
    ASSUME AssessInv, NEW r \in Requests, CreateAssessTask(r)
    PROVE  AssessInv'
  <1>0. /\ Shapes /\ Phase(r) /\ GaugeExplained /\ phase[r] = "create"
        /\ UNCHANGED <<world, shown, expiries, reading, cache, results, finished, job, raised,
                       progress, gauge>>
        /\ Write(r, "queued") \/ WriteRaises(r, "queued")
    BY DEF AssessInv, CreateAssessTask, serviceVars, workVars
  <1>1. /\ DOMAIN task' = Requests /\ \A q \in Requests : q # r => task'[q] = task[q]
        /\ task'[r] = task[r] \/ task'[r] = "queued"
        /\ taskLost \subseteq taskLost'
    BY <1>0, RowWritten DEF Shapes
  <1>2. /\ DOMAIN phase' = Requests /\ \A q \in Requests : q # r => phase'[q] = phase[q]
        /\ phase'[r] = "mark" \/ (phase'[r] = "done" /\ r \in taskLost')
    BY <1>0, Moved, RowWritten DEF Shapes, CreateAssessTask
  <1>3. Phase(r)'
    BY <1>0, <1>1, <1>2 DEF Phase, Parallel, req, size
  <1>4. GaugeExplained'
    <2>1. ASSUME NEW q \in Requests, Parallel(q), Open(q) PROVE Open(q)'
      BY <1>0, <1>1, <1>2, <2>1 DEF Open, Phase
    <2> QED
      BY <1>0, <2>1, KeepsGauge
  <1> QED
    BY <1>0, <1>1, <1>2, <1>3, <1>4, Turns

\* The row is marked running; without VMs the record is complete at once.
LEMMA MarkAssess ==
    ASSUME AssessInv, NEW r \in Requests, MarkAssessRunning(r)
    PROVE  AssessInv'
  <1>0. /\ Shapes /\ Phase(r) /\ Tally(r) /\ GaugeExplained /\ phase[r] = "mark"
        /\ UNCHANGED <<world, shown, expiries, reading, cache, results, finished, job, raised, gauge>>
        /\ Write(r, "running") \/ WriteRaises(r, "running")
    BY DEF AssessInv, MarkAssessRunning, serviceVars
  <1>1. /\ DOMAIN task' = Requests /\ \A q \in Requests : q # r => task'[q] = task[q]
        /\ task'[r] = task[r] \/ task'[r] = "running"
        /\ taskLost \subseteq taskLost'
    BY <1>0, RowWritten DEF Shapes
  <1>2. CASE WriteRaises(r, "running") /\ End(r, "error") /\ UNCHANGED progress
    <2>1. /\ DOMAIN phase' = Requests /\ \A q \in Requests : q # r => phase'[q] = phase[q]
          /\ phase'[r] = "done" /\ r \in taskLost'
      BY <1>0, <1>2, Moved, RowWritten DEF Shapes
    <2>2. Phase(r)'
      BY <1>0, <1>1, <1>2, <2>1 DEF Phase, Parallel, req, size
    <2>3. ASSUME NEW q \in Requests, Parallel(q), Open(q) PROVE Open(q)'
      BY <1>0, <1>1, <1>2, <2>1, <2>3 DEF Open, Phase
    <2>4. GaugeExplained'
      BY <1>0, <2>3, KeepsGauge
    <2> QED
      BY <1>0, <1>1, <1>2, <2>1, <2>2, <2>4, Turns
  <1>3. CASE /\ ~Parallel(r) /\ GotoPhase(r, "loop") /\ UNCHANGED progress
    <2>1. /\ DOMAIN phase' = Requests /\ phase'[r] = "loop"
          /\ \A q \in Requests : q # r => phase'[q] = phase[q]
      BY <1>0, <1>3, Moved DEF Shapes
    <2>2. Phase(r)'
      BY <1>0, <1>3, <2>1 DEF Phase, Parallel, req
    <2>3. ASSUME NEW q \in Requests, Parallel(q), Open(q) PROVE Open(q)'
      BY <1>0, <1>1, <1>3, <2>1, <2>3 DEF Open
    <2>4. GaugeExplained'
      BY <1>0, <2>3, KeepsGauge
    <2> QED
      BY <1>0, <1>1, <1>3, <2>1, <2>2, <2>4, Turns
  <1>4. CASE /\ Parallel(r) /\ GotoPhase(r, "gather") /\ UNCHANGED progress
    <2>1. /\ DOMAIN phase' = Requests /\ phase'[r] = "gather"
          /\ \A q \in Requests : q # r => phase'[q] = phase[q]
      BY <1>0, <1>4, Moved DEF Shapes
    <2>2. Phase(r)'
      BY <1>0, <1>1, <1>4, <2>1 DEF Phase, Parallel, req
    <2>3. ASSUME NEW q \in Requests, Parallel(q), Open(q) PROVE Open(q)'
      BY <1>0, <1>1, <1>4, <2>1, <2>3 DEF Open
    <2>4. GaugeExplained'
      BY <1>0, <2>3, KeepsGauge
    <2> QED
      BY <1>0, <1>1, <1>4, <2>1, <2>2, <2>4, Turns
  <1>5. CASE /\ Parallel(r) /\ ~(size(r) > 0) /\ GotoPhase(r, "record")
             /\ progress' = [progress EXCEPT ![r].status = "completed"]
    <2>1. /\ DOMAIN phase' = Requests /\ phase'[r] = "record"
          /\ \A q \in Requests : q # r => phase'[q] = phase[q]
      BY <1>0, <1>5, Moved DEF Shapes
    <2>2. results[r] = <<>> /\ Len(results[r]) = 0 /\ size(r) = 0
      <3>1. size(r) \in Nat
        BY <1>0 DEF Shapes, Collected, size
      <3> QED
        BY <1>0, <1>5, <3>1 DEF Phase
    <2>3. progress'[r].status = "completed" /\ progress'[r].failed = progress[r].failed
          /\ progress[r].failed = 0
      <3>1. progress[r].completed \in Nat /\ progress[r].failed \in Nat
        BY <1>0 DEF Shapes
      <3> QED
        BY <1>0, <1>5, <2>2, <3>1 DEF Shapes, Tally
    <2>4. Phase(r)'
      BY <1>0, <1>1, <1>5, <2>1, <2>2, <2>3 DEF Phase, Parallel, req, size
    <2>5. ASSUME NEW q \in Requests, Parallel(q), Open(q) PROVE Open(q)'
      <3>1. q # r => progress'[q] = progress[q]
        BY <1>0, <1>5 DEF Shapes
      <3> QED
        BY <1>1, <2>1, <2>5, <3>1 DEF Open
    <2>6. GaugeExplained'
      BY <1>0, <2>5, KeepsGauge
    <2> QED
      BY <1>0, <1>1, <1>5, <2>1, <2>4, <2>6, Turns
  <1> QED
    BY <1>2, <1>3, <1>4, <1>5 DEF MarkAssessRunning, Parallel

\* /assess and /plan conclude or fail; GET of a record that is not there.
LEMMA EndAssess ==
    ASSUME AssessInv, NEW r \in Requests,
           Conclude(r) \/ MarkFailed(r) \/ get_progress(r)
    PROVE  AssessInv'
  <1>0. /\ Shapes /\ Phase(r) /\ GaugeExplained
        /\ UNCHANGED <<world, shown, expiries, reading, cache, results, finished, job, raised,
                       progress, gauge>>
    BY DEF AssessInv, Conclude, MarkFailed, get_progress, serviceVars,
       workVars
  <1>1. ~Parallel(r)
    BY <1>0 DEF Conclude, MarkFailed, get_progress, Phase, Parallel
  <1>2. /\ DOMAIN task' = Requests /\ \A q \in Requests : q # r => task'[q] = task[q]
        /\ taskLost \subseteq taskLost'
    <2>1. CASE UNCHANGED taskVars
      BY <1>0, <2>1 DEF taskVars, Shapes
    <2>2. CASE \E s \in {"succeeded", "failed"} : Write(r, s) \/ WriteRaises(r, s)
      BY <1>0, <2>2, RowWritten DEF Shapes
    <2> QED
      BY <2>1, <2>2 DEF Conclude, MarkFailed, get_progress
  <1>3. /\ DOMAIN phase' = Requests /\ phase'[r] \in {"done", "fail"}
        /\ \A q \in Requests : q # r => phase'[q] = phase[q]
    <2>1. GotoPhase(r, "fail") \/ \E answer : End(r, answer)
      BY DEF Conclude, MarkFailed, get_progress
    <2> QED
      BY <1>0, <2>1, Moved DEF Shapes
  <1>4. Phase(r)'
    BY <1>0, <1>1, <1>3 DEF Phase, Parallel, req
  <1>5. ASSUME NEW q \in Requests, Parallel(q), Open(q) PROVE Open(q)'
    BY <1>0, <1>1, <1>2, <1>3, <1>5 DEF Open
  <1>6. GaugeExplained'
    BY <1>0, <1>5, KeepsGauge
  <1> QED
    BY <1>0, <1>2, <1>3, <1>4, <1>6, Turns

\* assess_parallel writes the outcome and resets the gauge.
LEMMA ConcludeAssess ==
    ASSUME AssessInv, NEW r \in Requests, ConcludeParallel(r)
    PROVE  AssessInv'
  <1> DEFINE state == IF progress[r].status = "completed" THEN "succeeded" ELSE "failed"
  <1>0. /\ Shapes /\ Phase(r) /\ phase[r] = "record" /\ Parallel(r) /\ gauge' = 0
        /\ UNCHANGED <<world, shown, expiries, reading, cache, results, finished, job, raised,
                       progress>>
        /\ Write(r, state) \/ WriteRaises(r, state)
        /\ \E answer : End(r, answer)
    BY DEF AssessInv, ConcludeParallel, serviceVars, workVars, Parallel
  <1>1. /\ DOMAIN task' = Requests /\ \A q \in Requests : q # r => task'[q] = task[q]
        /\ task'[r] = task[r] \/ task'[r] = state
    BY <1>0, RowWritten DEF Shapes
  <1>2. /\ DOMAIN phase' = Requests /\ phase'[r] = "done"
        /\ \A q \in Requests : q # r => phase'[q] = phase[q]
    BY <1>0, Moved DEF Shapes
  <1>3. Phase(r)'
    BY <1>0, <1>1, <1>2 DEF Phase, Parallel, req, size
  <1>4. GaugeExplained'
    BY <1>0 DEF GaugeExplained
  <1> QED
    BY <1>0, <1>1, <1>2, <1>3, <1>4, Turns

\* The list an evaluation is made from: the one the request has, or the one it made.
LEMMA Listed ==
    ASSUME NEW r \in Requests, Judged(r), ListReady(r), NEW list, list = list_vms(r)
    PROVE  /\ Made(list) /\ list.listed # 0
           /\ DOMAIN list.items = DOMAIN world.inventories[list.listed]
           /\ list = cache[r] \/ cache[r].listed = 0
  BY DEF Judged, Lists, Made, list_vms, ListReady, cached, Reading, unread

\* A verdict made from the list the request has from now on is sound.
LEMMA NewSound ==
    ASSUME NEW r \in Requests, Shapes, Judged(r), UNCHANGED <<world, shown, expiries>>,
           ListReady(r), NEW id, NEW list, list = list_vms(r),
           NEW v, v = verdict(r, id, list),
           cache'[r] = list, Parallel(r) \/ v.status # "failed"
    PROVE  Sound(r, v)'
  <1>1. list.listed \in 1..shown /\ DOMAIN list.items = DOMAIN world.inventories[list.listed]
    BY Listed DEF Made
  <1>2. /\ v.vm_id = id /\ v.listed = list.listed
        /\ v.status = IF id \in DOMAIN list.items THEN "completed" ELSE "failed"
    BY VerdictSays
  <1>3. Parallel(r)' <=> Parallel(r)
    BY DEF Parallel, req
  <1>4. v.status # "completed" => Excused(r, v)'
    BY <1>1, <1>2 DEF Excused
  <1>5. v = verdict(r, v.vm_id, cache[r])'
    BY <1>2 DEF verdict, req
  <1> QED
    BY <1>2, <1>3, <1>4, <1>5 DEF Sound

\* The list that was being made is dropped.
Dropped(r) == UNCHANGED cache /\ reading' = [reading EXCEPT ![r] = NoList]

\* What an evaluation does to the lists, whether it returns or raises.
LEMMA ListKept ==
    ASSUME NEW r \in Requests, Shapes, Judged(r), UNCHANGED <<world, shown>>,
           KeepList(r) \/ Dropped(r)
    PROVE  /\ DOMAIN cache' = Requests /\ DOMAIN reading' = Requests
           /\ DOMAIN reading'[r] = {"listed", "items"}
           /\ \A q \in Requests : q # r => cache'[q] = cache[q] /\ reading'[q] = reading[q]
           /\ cache'[r] = cache[r] \/ cache[r].listed = 0
           /\ Lists(r)'
  <1>1. /\ DOMAIN reading' = Requests /\ reading'[r] = NoList
        /\ \A q \in Requests : q # r => reading'[q] = reading[q]
    BY DEF KeepList, Dropped, Shapes
  <1>2. DOMAIN NoList = {"listed", "items"} /\ NoList.listed = 0 /\ DOMAIN NoList.items = {}
    BY DEF NoList
  <1>3. /\ DOMAIN cache' = Requests /\ \A q \in Requests : q # r => cache'[q] = cache[q]
        /\ cache'[r] = cache[r] \/ cache[r].listed = 0
        /\ Made(cache'[r])
        /\ cache'[r].listed # 0 =>
              DOMAIN cache'[r].items = DOMAIN world.inventories[cache'[r].listed]
    <2>1. CASE Dropped(r)
      BY <2>1 DEF Dropped, Shapes, Judged, Lists
    <2>2. CASE KeepList(r)
      <3>1. PICK list : list = list_vms(r)
        OBVIOUS
      <3>2. /\ cache'[r] = list /\ DOMAIN cache' = Requests
            /\ \A q \in Requests : q # r => cache'[q] = cache[q]
        BY <2>2, <3>1 DEF KeepList, Shapes
      <3>3. /\ Made(list) /\ DOMAIN list.items = DOMAIN world.inventories[list.listed]
            /\ list = cache[r] \/ cache[r].listed = 0
        BY <2>2, <3>1, Listed DEF KeepList
      <3> QED
        BY <3>2, <3>3
    <2> QED
      BY <2>1, <2>2
  <1>4. Lists(r)'
    BY <1>1, <1>2, <1>3 DEF Lists, Made
  <1> QED
    BY <1>1, <1>2, <1>3, <1>4

\* vCenter is listed, or a VM of the list is read.
LEMMA ReadStep ==
    ASSUME AssessInv, NEW r \in Requests, ListVMs(r) \/ ReadVM(r)
    PROVE  AssessInv'
  <1>0. /\ Shapes /\ Phase(r) /\ Judged(r) /\ Placed(r) /\ Tally(r) /\ GaugeExplained
        /\ UNCHANGED <<world, shown, phase, cache, expiries, gauge, task, taskLost, results,
                       finished, job, raised, progress>>
    BY DEF AssessInv, ListVMs, ReadVM, workVars, taskVars
  <1>1. /\ DOMAIN reading' = Requests /\ DOMAIN reading'[r] = {"listed", "items"}
        /\ \A q \in Requests : q # r => reading'[q] = reading[q]
    BY <1>0 DEF ListVMs, ReadVM, Shapes
  <1>2. Made(reading'[r]) /\ reading'[r].listed # 0
    <2>0. /\ DOMAIN reading = Requests /\ DOMAIN reading[r] = {"listed", "items"}
          /\ shown \in Nat \ {0}
      BY <1>0 DEF Shapes
    <2>1. CASE ListVMs(r)
      <3>1. DOMAIN reading[r].items = {}
        BY <1>0, <2>1 DEF ListVMs, Reading, Judged, Lists
      <3>2. reading'[r].listed = shown /\ reading'[r].items = reading[r].items
        BY <2>0, <2>1 DEF ListVMs
      <3> QED
        BY <2>0, <3>1, <3>2 DEF Made
    <2>2. CASE ReadVM(r)
      <3>1. PICK id \in unread(r) \cap DOMAIN inventory :
               reading' = [reading EXCEPT ![r].items =
                             [x \in DOMAIN @ \cup {id} |->
                                 IF x # id THEN @[x]
                                 ELSE [at |-> shown, vm |-> _build_vm_summary(inventory[id])]]]
        BY <2>2 DEF ReadVM
      <3>2. PICK one : one = [at |-> shown, vm |-> _build_vm_summary(inventory[id])]
        OBVIOUS
      <3>3. /\ reading'[r].listed = reading[r].listed
            /\ reading'[r].items = [x \in DOMAIN reading[r].items \cup {id} |->
                                      IF x # id THEN reading[r].items[x] ELSE one]
        BY <2>0, <3>1, <3>2
      <3>4. /\ DOMAIN reading'[r].items = DOMAIN reading[r].items \cup {id}
            /\ \A x \in DOMAIN reading[r].items : x # id => reading'[r].items[x] = reading[r].items[x]
            /\ reading'[r].items[id] = one
        BY <3>3
      <3>5. /\ reading[r].listed # 0 /\ Made(reading[r])
            /\ id \in DOMAIN world.inventories[reading[r].listed] /\ id \notin DOMAIN reading[r].items
        BY <1>0, <2>2, <3>1 DEF ReadVM, Reading, unread, Judged, Lists
      <3>6. one.at = shown
        BY <3>2
      <3> QED
        BY <2>0, <3>3, <3>4, <3>5, <3>6 DEF Made
    <2> QED
      BY <2>1, <2>2
  <1>3. Shapes'
    BY <1>0, <1>1 DEF Shapes, req, size
  <1>4. Lists(r)'
    BY <1>0, <1>2 DEF Judged, Lists, Made
  <1>5. \A v : Sound(r, v) => Sound(r, v)'
    <2>1. shown' \in Nat /\ shown <= shown'
      BY <1>0 DEF Shapes
    <2> QED
      BY <1>0, <2>1, KeepsSound
  <1>6. Judged(r)'
    BY <1>0, <1>4, <1>5 DEF Judged, Parallel, req
  <1>7. Phase(r)' /\ Tally(r)' /\ Placed(r)'
    BY <1>0, KeepsPhase, KeepsTally, KeepsPlaced
  <1>8. GaugeExplained'
    BY <1>0, KeepsGauge DEF Open
  <1> QED
    BY <1>0, <1>1, <1>3, <1>6, <1>7, <1>8, Locally

\* One VM of the loops of /assess and /plan.
LEMMA AssessNextStep ==
    ASSUME AssessInv, NEW r \in Requests, AssessNext(r)
    PROVE  AssessInv'
  <1>0. /\ Shapes /\ Phase(r) /\ Judged(r) /\ GaugeExplained /\ phase[r] = "loop"
        /\ UNCHANGED <<world, shown, expiries, job, finished, raised, progress, gauge, task,
                       taskLost>>
    BY DEF AssessInv, AssessNext, taskVars
  <1>1. ~Parallel(r)
    BY <1>0 DEF Phase
  <1>2. \/ /\ \E v : /\ v = verdict(r, Head(left[r]), list_vms(r))
                     /\ KeepList(r)
                     /\ results' = [results EXCEPT ![r] = IF v.status = "failed" THEN @ ELSE Append(@, v)]
           /\ GotoPhase(r, "record") \/ GotoPhase(r, "loop")
        \/ /\ \E kind \in {"error", "timeout"} : EvaluationRaises(r, Head(left[r]), kind)
           /\ UNCHANGED results
           /\ GotoPhase(r, "fail")
    BY DEF AssessNext, Evaluated
  <1>3. KeepList(r) \/ Dropped(r)
    BY <1>2 DEF EvaluationRaises, Dropped
  <1>4. /\ DOMAIN phase' = Requests /\ phase'[r] \in {"record", "loop", "fail"}
        /\ \A q \in Requests : q # r => phase'[q] = phase[q]
    BY <1>0, <1>2, Moved DEF Shapes
  <1>5. /\ DOMAIN cache' = Requests /\ DOMAIN reading' = Requests
        /\ DOMAIN reading'[r] = {"listed", "items"}
        /\ \A q \in Requests : q # r => cache'[q] = cache[q] /\ reading'[q] = reading[q]
        /\ cache'[r] = cache[r] \/ cache[r].listed = 0
        /\ Lists(r)'
    BY <1>0, <1>3, ListKept
  <1>6. ~Parallel(r)'
    BY <1>0, <1>1 DEF Parallel, req
  <1>8. \A v : Sound(r, v) => Sound(r, v)'
    <2>1. shown' \in Nat /\ shown <= shown'
      BY <1>0 DEF Shapes
    <2> QED
      BY <1>0, <1>1, <1>5, <2>1, KeepsSound
  <1>9. /\ DOMAIN results' = Requests /\ Collected(results'[r])
        /\ \A q \in Requests : q # r => results'[q] = results[q]
        /\ \A k \in DOMAIN results'[r] : Sound(r, results[r][k])'
    <2>0. /\ Collected(results[r]) /\ DOMAIN results = Requests
          /\ \A k \in DOMAIN results[r] : Sound(r, results[r][k])
      BY <1>0 DEF Shapes, Judged
    <2>1. CASE results' = results
      BY <1>8, <2>0, <2>1
    <2>2. ASSUME NEW v, v = verdict(r, Head(left[r]), list_vms(r)),
                 v.status # "failed", KeepList(r),
                 results' = [results EXCEPT ![r] = Append(@, v)]
          PROVE  <1>9!:
      <3>1. results'[r] = Append(results[r], v) /\ DOMAIN results' = Requests
            /\ \A q \in Requests : q # r => results'[q] = results[q]
        BY <2>0, <2>2
      <3>2. Sound(r, v)'
        <4>1. cache'[r] = list_vms(r) /\ ListReady(r)
          BY <1>0, <2>2 DEF Shapes, KeepList
        <4> QED
          BY <1>0, <2>2, <4>1, NewSound
      <3>3. /\ Collected(results'[r]) /\ Len(results[r]) \in Nat
            /\ DOMAIN results[r] = 1..Len(results[r]) /\ DOMAIN results'[r] = 1..Len(results[r]) + 1
            /\ results'[r][Len(results[r]) + 1] = v
            /\ \A k \in 1..Len(results[r]) : results'[r][k] = results[r][k]
        BY <2>0, <3>1, Adds
      <3>4. ASSUME NEW k \in DOMAIN results'[r] PROVE Sound(r, results[r][k])'
        <4>1. k \in DOMAIN results[r] \/ results'[r][k] = v
          BY <3>3
        <4> QED
          BY <1>8, <2>0, <3>2, <3>3, <4>1
      <3> QED
        BY <3>1, <3>3, <3>4
    <2>3. CASE results' = [results EXCEPT ![r] = @]
      BY <1>8, <2>0, <2>3
    <2> QED
      BY <1>2, <2>1, <2>2, <2>3
  <1>10. Shapes'
    BY <1>0, <1>4, <1>5, <1>9 DEF Shapes, req, size
  <1>11. Judged(r)'
    BY <1>0, <1>5, <1>6, <1>8, <1>9 DEF Judged
  <1>12. Phase(r)' /\ Tally(r)' /\ Placed(r)'
    BY <1>4, <1>6 DEF Phase, Tally, Placed
  <1>13. GaugeExplained'
    <2>1. ASSUME NEW q \in Requests, Parallel(q), Open(q) PROVE Open(q)' /\ results'[q] = results[q]
      BY <1>0, <1>1, <1>4, <1>9, <2>1 DEF Open
    <2> QED
      BY <1>0, <2>1, KeepsGauge
  <1> QED
    BY <1>0, <1>4, <1>5, <1>9, <1>10, <1>11, <1>12, <1>13, Locally

\* A sequence of sound verdicts stays one when a sound verdict is added.
LEMMA SoundAdded ==
    ASSUME NEW r \in Requests, NEW s, Collected(s), NEW v, NEW t, t = Append(s, v),
           \A k \in DOMAIN s : Sound(r, s[k]), \A w : Sound(r, w) => Sound(r, w)', Sound(r, v)'
    PROVE  \A k \in DOMAIN t : Sound(r, t[k])'
  <1>1. /\ Len(s) \in Nat /\ DOMAIN s = 1..Len(s) /\ DOMAIN t = 1..Len(s) + 1
        /\ t[Len(s) + 1] = v /\ \A k \in 1..Len(s) : t[k] = s[k]
    BY Adds
  <1>2. ASSUME NEW k \in DOMAIN t PROVE Sound(r, t[k])'
    <2>1. (k \in DOMAIN s /\ t[k] = s[k]) \/ t[k] = v
      BY <1>1
    <2>2. CASE t[k] = v
      BY <2>2
    <2>3. CASE k \in DOMAIN s /\ t[k] = s[k]
      BY <2>3
    <2> QED
      BY <2>1, <2>2, <2>3
  <1> QED
    BY <1>2

\* An entry is over, and its result waits: one more of both for its id.
LEMMA HandedOver ==
    ASSUME NEW r \in Requests, Shapes, Placed(r), Parallel(r), UNCHANGED world,
           NEW i \in DOMAIN job[r], job[r][i] # "done", NEW v, v.vm_id = req(r).vm_ids[i],
           results'[r] = results[r], finished'[r] = Append(finished[r], v),
           job'[r] = [job[r] EXCEPT ![i] = "done"]
    PROVE  Placed(r)'
  <1>0. /\ Collected(results[r]) /\ Collected(finished[r]) /\ DOMAIN job[r] = 1..size(r)
        /\ size(r) \in Nat
    BY DEF Shapes, Collected, size
  <1> DEFINE all == results[r] \o finished[r]
  <1>1. results'[r] \o finished'[r] = Append(all, v) /\ Collected(all)
    <2>1. \A s, t : Collected(s) /\ Collected(t) => s \o Append(t, v) = Append(s \o t, v)
      BY AddedLast
    <2>2. Collected(results[r] \o finished[r])
      BY ONLY <1>0, Joins
    <2>3. PICK s, t : s = results[r] /\ t = finished[r]
      OBVIOUS
    <2>4. s \o Append(t, v) = Append(s \o t, v)
      BY ONLY <1>0, <2>1, <2>3
    <2> QED
      BY <2>2, <2>3, <2>4
  <1> HIDE DEF all
  <1>2. ASSUME NEW id PROVE IsFiniteSet(Over(r, id))
    <2>1. size(r) \in Int /\ 1 \in Int
      BY <1>0
    <2>2. IsFiniteSet(1..size(r))
      BY ONLY <2>1, FS_Interval
    <2>3. Over(r, id) \subseteq 1..size(r)
      BY <1>0 DEF Over
    <2> QED
      BY <2>2, <2>3, FS_Subset
  <1>3. ASSUME NEW id, id # v.vm_id PROVE Over(r, id)' = Over(r, id)
    BY <1>3 DEF Over, req
  <1>4. ASSUME NEW id, id = v.vm_id
        PROVE  Over(r, id)' = Over(r, id) \cup {i} /\ i \notin Over(r, id)
    BY <1>4 DEF Over, req
  <1>5. ASSUME NEW id PROVE Cardinality(Over(r, id)') =
                  IF v.vm_id = id THEN Cardinality(Over(r, id)) + 1 ELSE Cardinality(Over(r, id))
    <2>1. CASE id # v.vm_id
      BY <1>3, <2>1
    <2>2. CASE id = v.vm_id
      BY <1>2, <1>4, <2>2, FS_AddElement
    <2> QED
      BY <2>1, <2>2
  <1>6. ASSUME NEW id PROVE Cardinality(Places(results'[r] \o finished'[r], id)) =
                  IF v.vm_id = id THEN Cardinality(Places(all, id)) + 1 ELSE Cardinality(Places(all, id))
    BY <1>1, PlaceAdded
  <1>7. ASSUME NEW id \in ToSet(req(r).vm_ids)
        PROVE  Cardinality(Places(results'[r] \o finished'[r], id)) = Cardinality(Over(r, id)')
    <2>1. Cardinality(Places(all, id)) = Cardinality(Over(r, id))
      BY DEF Placed, all
    <2> QED
      BY ONLY <1>5, <1>6, <2>1
  <1>8. req(r)' = req(r)
    BY DEF req
  <1> QED
    BY <1>7, <1>8 DEF Placed, Places

\* What is appended to sequences of none and of one.
LEMMA Appended ==
    /\ \A x : Append(<<>>, x) = <<x>>
    /\ \A x, y : Append(<<x>>, y) = <<x, y>>
  <1>1. ASSUME NEW x PROVE Append(<<>>, x) = <<x>>
    OBVIOUS
  <1>2. ASSUME NEW x, NEW y PROVE Append(<<x>>, y) = <<x, y>>
    <2>1. <<x>> \in Seq({x, y}) /\ Len(<<x>>) = 1 /\ <<x>>[1] = x /\ <<x, y>> \in Seq({x, y})
          /\ Len(<<x, y>>) = 2 /\ <<x, y>>[1] = x /\ <<x, y>>[2] = y
      OBVIOUS
    <2>2. PICK s, t : s = Append(<<x>>, y) /\ t = <<x, y>>
      OBVIOUS
    <2>3. s \in Seq({x, y}) /\ Len(s) = 2 /\ s[1] = x /\ s[2] = y
      BY <2>1, <2>2
    <2>4. t \in Seq({x, y}) /\ Len(t) = 2 /\ t[1] = x /\ t[2] = y
      BY <2>1, <2>2
    <2>5. \A i \in 1..2 : s[i] = t[i]
      <3>1. \A i \in 1..2 : i = 1 \/ i = 2
        OBVIOUS
      <3> QED
        BY <2>3, <2>4, <3>1
    <2>6. s = t
      BY <2>3, <2>4, <2>5
    <2> QED
      BY <2>2, <2>6
  <1> QED
    BY <1>1, <1>2

\* A coroutine of assess_parallel evaluates its VM, or fails to and tries again or gives up.
LEMMA EvaluateStep ==
    ASSUME AssessInv, NEW r \in Requests, NEW i \in DOMAIN job[r], EvaluateOne(r, i)
    PROVE  AssessInv'
  <1>0. /\ Shapes /\ Phase(r) /\ Judged(r) /\ Placed(r) /\ Tally(r) /\ GaugeExplained
        /\ phase[r] = "gather" /\ job[r][i] \in {"try", "retry"}
        /\ UNCHANGED <<world, shown, phase, expiries, gauge, task, taskLost, results, progress>>
    BY DEF AssessInv, EvaluateOne, held, taskVars
  <1>1. Parallel(r) /\ Parallel(r)'
    BY <1>0 DEF Phase, Parallel, req
  <1>2. \/ /\ \E v : /\ v = verdict(r, req(r).vm_ids[i], list_vms(r))
                     /\ KeepList(r)
                     /\ finished' = [finished EXCEPT ![r] = Append(@, v)]
           /\ job' = [job EXCEPT ![r][i] = "done"]
           /\ UNCHANGED raised
        \/ \E kind \in {"error", "timeout"} :
              /\ EvaluationRaises(r, req(r).vm_ids[i], kind)
              /\ raised' = [raised EXCEPT ![r][i] = Append(@, kind)]
              /\ HandOver(r, i, kind)
    BY DEF EvaluateOne, Evaluated
  <1>3. KeepList(r) \/ Dropped(r)
    BY <1>2 DEF EvaluationRaises, Dropped
  <1>4. /\ DOMAIN cache' = Requests /\ DOMAIN reading' = Requests
        /\ DOMAIN reading'[r] = {"listed", "items"}
        /\ \A q \in Requests : q # r => cache'[q] = cache[q] /\ reading'[q] = reading[q]
        /\ cache'[r] = cache[r] \/ cache[r].listed = 0
        /\ Lists(r)'
    BY <1>0, <1>3, ListKept
  <1>5. \E s \in {"retry", "done"} : job' = [job EXCEPT ![r][i] = s]
    BY <1>2 DEF HandOver
  <1>6. /\ DOMAIN job' = Requests /\ DOMAIN job'[r] = DOMAIN job[r]
        /\ \A q \in Requests : q # r => job'[q] = job[q]
        /\ \A j \in DOMAIN job[r] : j # i => job'[r][j] = job[r][j]
    BY <1>0, <1>5 DEF Shapes
  <1>7. /\ DOMAIN raised' = Requests /\ DOMAIN raised'[r] = DOMAIN raised[r]
        /\ \A q \in Requests : q # r => raised'[q] = raised[q]
        /\ \A j \in DOMAIN job[r] : j # i => raised'[r][j] = raised[r][j]
    BY <1>0, <1>2 DEF Shapes
  <1>8. \A v : Sound(r, v) => Sound(r, v)'
    <2>1. shown' \in Nat /\ shown <= shown'
      BY <1>0 DEF Shapes
    <2>2. \A j \in DOMAIN job[r] :
             job[r][j] = "done" => job'[r][j] = "done" /\ raised'[r][j] = raised[r][j]
      BY <1>0, <1>6, <1>7
    <2> QED
      BY <1>0, <1>4, <1>6, <2>1, <2>2, KeepsSound
  <1>9. raised[r][i] = IF job[r][i] = "try" THEN <<>> ELSE <<"error">>
    BY <1>0, <1>1 DEF Judged
  <1>10. \/ /\ finished' = finished /\ job' = [job EXCEPT ![r][i] = "retry"]
            /\ raised'[r][i] = <<"error">>
         \/ \E v : /\ v.vm_id = req(r).vm_ids[i] /\ Sound(r, v)'
                   /\ finished' = [finished EXCEPT ![r] = Append(@, v)]
                   /\ job' = [job EXCEPT ![r][i] = "done"]
    <2>1. ASSUME NEW v, v = verdict(r, req(r).vm_ids[i], list_vms(r)), KeepList(r)
          PROVE  v.vm_id = req(r).vm_ids[i] /\ Sound(r, v)'
      <3>1. cache'[r] = list_vms(r) /\ ListReady(r)
        BY <1>0, <2>1 DEF Shapes, KeepList
      <3> QED
        BY <1>0, <1>1, <2>1, <3>1, NewSound, VerdictSays
    <2>2. ASSUME raised' = [raised EXCEPT ![r][i] = Append(@, "error")], HandOver(r, i, "error"),
                 job[r][i] = "try"
          PROVE  /\ finished' = finished /\ job' = [job EXCEPT ![r][i] = "retry"]
                 /\ raised'[r][i] = <<"error">>
      <3>1. raised'[r][i] = Append(<<>>, "error")
        BY <1>0, <1>9, <2>2 DEF Shapes
      <3>2. Append(<<>>, "error") = <<"error">>
        OBVIOUS
      <3> QED
        BY <2>2, <3>1, <3>2 DEF HandOver
    <2>3. ASSUME NEW kind \in {"error", "timeout"}, kind = "timeout" \/ job[r][i] = "retry",
                 raised' = [raised EXCEPT ![r][i] = Append(@, kind)], HandOver(r, i, kind)
          PROVE  \E v : /\ v.vm_id = req(r).vm_ids[i] /\ Sound(r, v)'
                        /\ finished' = [finished EXCEPT ![r] = Append(@, v)]
                        /\ job' = [job EXCEPT ![r][i] = "done"]
      <3>1. raised'[r][i] = Append(raised[r][i], kind)
        BY <1>0, <2>3 DEF Shapes
      <3>2. /\ Append(<<>>, "timeout") = <<"timeout">>
            /\ \A x, y : Append(<<x>>, y) = <<x, y>>
        BY Appended
      <3>3. /\ job' = [job EXCEPT ![r][i] = "done"]
            /\ finished' = [finished EXCEPT ![r] = Append(@, failure(r, i, kind))]
        BY <1>0, <2>3 DEF HandOver
      <3>4. PICK v : v = failure(r, i, kind)
        OBVIOUS
      <3>5. /\ v.vm_id = req(r).vm_ids[i] /\ v.listed = 0
            /\ v.status = IF kind = "timeout" THEN "timeout" ELSE "failed"
        BY <3>4 DEF failure
      <3>6. raised'[r][i] \in exceptions(v.status)
        <4>1. CASE kind = "timeout" /\ job[r][i] = "try"
          <5>1. raised'[r][i] = <<"timeout">> /\ v.status = "timeout"
            BY <1>9, <3>1, <3>2, <3>5, <4>1
          <5> QED
            BY <5>1 DEF exceptions
        <4>2. CASE kind = "timeout" /\ job[r][i] = "retry"
          <5>1. raised'[r][i] = <<"error", "timeout">> /\ v.status = "timeout"
            BY <1>9, <3>1, <3>2, <3>5, <4>2
          <5> QED
            BY <5>1 DEF exceptions
        <4>3. CASE kind = "error" /\ job[r][i] = "retry"
          <5>1. raised'[r][i] = <<"error", "error">> /\ v.status = "failed"
            BY <1>9, <3>1, <3>2, <3>5, <4>3
          <5> QED
            BY <5>1 DEF exceptions
        <4> QED
          BY <1>0, <2>3, <4>1, <4>2, <4>3
      <3>7. job'[r][i] = "done" /\ i \in DOMAIN job'[r] /\ req(r)' = req(r)
        BY <1>0, <1>6, <3>3 DEF Shapes, req
      <3>8. Excused(r, v)'
        BY <3>5, <3>6, <3>7 DEF Excused
      <3>9. Sound(r, v)'
        BY <1>1, <3>5, <3>8 DEF Sound
      <3> QED
        BY <3>3, <3>4, <3>5, <3>9
    <2>4. CASE \E kind \in {"error", "timeout"} :
                  raised' = [raised EXCEPT ![r][i] = Append(@, kind)] /\ HandOver(r, i, kind)
      <3>1. PICK kind \in {"error", "timeout"} :
               raised' = [raised EXCEPT ![r][i] = Append(@, kind)] /\ HandOver(r, i, kind)
        BY <2>4
      <3> QED
        BY <1>0, <2>2, <2>3, <3>1
    <2> QED
      BY <1>2, <2>1, <2>4
  <1>11. CASE /\ finished' = finished /\ job' = [job EXCEPT ![r][i] = "retry"]
              /\ raised'[r][i] = <<"error">>
    <2>1. job'[r][i] = "retry"
      BY <1>0, <1>11 DEF Shapes
    <2>2. Shapes'
      BY <1>0, <1>4, <1>6, <1>7, <1>11 DEF Shapes, req, size
    <2>3. Judged(r)'
      BY <1>0, <1>1, <1>4, <1>6, <1>7, <1>8, <1>11, <2>1 DEF Judged
    <2>4. Placed(r)'
      BY <1>0, <1>6, <1>11, <2>1, KeepsPlaced
    <2>5. Phase(r)' /\ Tally(r)'
      BY <1>0, KeepsPhase, KeepsTally
    <2>6. GaugeExplained'
      BY <1>0, KeepsGauge DEF Open
    <2> QED
      BY <1>0, <1>4, <1>6, <1>7, <1>11, <2>2, <2>3, <2>4, <2>5, <2>6, Locally
  <1>12. ASSUME NEW v, v.vm_id = req(r).vm_ids[i], Sound(r, v)',
                finished' = [finished EXCEPT ![r] = Append(@, v)],
                job' = [job EXCEPT ![r][i] = "done"]
         PROVE  AssessInv'
    <2>1. job'[r] = [job[r] EXCEPT ![i] = "done"] /\ job'[r][i] = "done"
      BY <1>0, <1>12 DEF Shapes
    <2>2. /\ DOMAIN finished' = Requests /\ finished'[r] = Append(finished[r], v)
          /\ \A q \in Requests : q # r => finished'[q] = finished[q]
      BY <1>0, <1>12 DEF Shapes
    <2>3. Collected(finished'[r])
      BY <1>0, <2>2, Adds DEF Shapes
    <2>4. Shapes'
      BY <1>0, <1>4, <1>6, <1>7, <2>2, <2>3 DEF Shapes, req, size
    <2>5. ASSUME NEW k \in DOMAIN finished'[r] PROVE Sound(r, finished[r][k])'
      <3>1. Collected(finished[r]) /\ \A l \in DOMAIN finished[r] : Sound(r, finished[r][l])
        BY <1>0 DEF Shapes, Judged
      <3>2. PICK t : t = Append(finished[r], v)
        OBVIOUS
      <3>3. \A l \in DOMAIN t : Sound(r, t[l])'
        BY <1>8, <1>12, <3>1, <3>2, SoundAdded
      <3> QED
        BY <2>2, <3>2, <3>3
    <2>6. Judged(r)'
      BY <1>0, <1>1, <1>4, <1>6, <1>7, <1>8, <2>1, <2>5 DEF Judged
    <2>7. Placed(r)'
      BY <1>0, <1>1, <1>12, <2>1, <2>2, HandedOver
    <2>8. Phase(r)' /\ Tally(r)'
      BY <1>0, KeepsPhase, KeepsTally
    <2>9. GaugeExplained'
      BY <1>0, KeepsGauge DEF Open
    <2> QED
      BY <1>0, <1>4, <1>6, <1>7, <2>2, <2>4, <2>6, <2>7, <2>8, <2>9, Locally
  <1> QED
    BY <1>10, <1>11, <1>12

\* The loop over as_completed takes a result and counts it.
LEMMA CollectStep ==
    ASSUME AssessInv, NEW r \in Requests, Collect(r)
    PROVE  AssessInv'
  <1>0. /\ Shapes /\ Phase(r) /\ Judged(r) /\ Placed(r) /\ Tally(r)
        /\ phase[r] = "gather" /\ finished[r] # <<>>
        /\ UNCHANGED <<world, shown, expiries, reading, cache, job, raised, task>>
    BY DEF AssessInv, Collect, serviceVars, taskVars
  <1>1. /\ Parallel(r) /\ Parallel(r)' /\ req(r)' = req(r)
        /\ size(r)' = size(r)
    BY <1>0 DEF Phase, Parallel, req, size
  <1>2. PICK v : v = Head(finished[r])
    OBVIOUS
  <1>3. PICK p : p = counted(progress[r], v)
    OBVIOUS
  <1>4. /\ results' = [results EXCEPT ![r] = Append(@, v)]
        /\ finished' = [finished EXCEPT ![r] = Tail(@)]
        /\ gauge' = remaining(r, p)
        /\ \/ /\ Len(results[r]) + 1 = size(r)
              /\ progress' = [progress EXCEPT ![r] = [p EXCEPT !.status = final_status(p)]]
              /\ GotoPhase(r, "record")
           \/ progress' = [progress EXCEPT ![r] = p] /\ UNCHANGED phase
    BY <1>2, <1>3 DEF Collect
  <1>5. /\ Collected(results[r]) /\ Collected(finished[r]) /\ size(r) \in Nat
        /\ DOMAIN progress[r] = {"completed", "failed", "status"}
        /\ progress[r].completed \in Nat /\ progress[r].failed \in Nat
    BY <1>0 DEF Shapes, Collected, size
  <1>6. /\ DOMAIN results' = Requests /\ results'[r] = Append(results[r], v)
        /\ DOMAIN finished' = Requests /\ finished'[r] = Tail(finished[r])
        /\ \A q \in Requests : q # r => results'[q] = results[q] /\ finished'[q] = finished[q]
    BY <1>0, <1>4 DEF Shapes
  <1>7. /\ Collected(results'[r]) /\ Len(results[r]) \in Nat
        /\ Len(results'[r]) = Len(results[r]) + 1
        /\ DOMAIN results[r] = 1..Len(results[r]) /\ DOMAIN results'[r] = 1..Len(results[r]) + 1
        /\ results'[r][Len(results[r]) + 1] = v
        /\ \A k \in 1..Len(results[r]) : results'[r][k] = results[r][k]
    BY <1>5, <1>6, Adds
  <1>8. /\ Collected(finished'[r]) /\ 1 \in DOMAIN finished[r] /\ v = finished[r][1]
        /\ \A k \in DOMAIN finished'[r] : k + 1 \in DOMAIN finished[r] /\ finished'[r][k] = finished[r][k + 1]
    <2>1. /\ Collected(Tail(finished[r])) /\ Len(finished[r]) \in Nat \ {0}
          /\ DOMAIN finished[r] = 1..Len(finished[r])
          /\ Len(Tail(finished[r])) = Len(finished[r]) - 1
          /\ DOMAIN Tail(finished[r]) = 1..Len(finished[r]) - 1
          /\ Head(finished[r]) = finished[r][1]
          /\ \A k \in 1..Len(finished[r]) - 1 : Tail(finished[r])[k] = finished[r][k + 1]
      BY <1>0, <1>5, Takes
    <2> QED
      BY <1>2, <1>6, <2>1
  <1>9. /\ DOMAIN p = {"completed", "failed", "status"} /\ p.completed \in Nat /\ p.failed \in Nat
        /\ p.status = progress[r].status
        /\ p.completed + p.failed = progress[r].completed + progress[r].failed + 1
        /\ p.failed = IF v.status = "completed" THEN progress[r].failed ELSE progress[r].failed + 1
    BY <1>3, <1>5 DEF counted
  <1>10. /\ DOMAIN progress' = Requests /\ \A q \in Requests : q # r => progress'[q] = progress[q]
         /\ DOMAIN progress'[r] = {"completed", "failed", "status"}
         /\ progress'[r].completed = p.completed /\ progress'[r].failed = p.failed
         /\ progress'[r].status = p.status \/ progress'[r].status = final_status(p)
    BY <1>0, <1>4, <1>9 DEF Shapes
  <1>11. /\ DOMAIN phase' = Requests /\ \A q \in Requests : q # r => phase'[q] = phase[q]
         /\ \/ phase'[r] = "gather"
            \/ /\ phase'[r] = "record" /\ Len(results[r]) + 1 = size(r)
               /\ progress'[r].status = final_status(p)
    <2>1. CASE UNCHANGED phase
      BY <1>0, <2>1 DEF Shapes
    <2>2. CASE /\ Len(results[r]) + 1 = size(r) /\ GotoPhase(r, "record")
               /\ progress' = [progress EXCEPT ![r] = [p EXCEPT !.status = final_status(p)]]
      <3>1. /\ DOMAIN phase' = Requests /\ phase'[r] = "record"
            /\ \A q \in Requests : q # r => phase'[q] = phase[q]
        BY <1>0, <2>2, Moved DEF Shapes
      <3>2. progress'[r].status = final_status(p)
        BY <1>0, <1>9, <2>2 DEF Shapes
      <3> QED
        BY <2>2, <3>1, <3>2
    <2> QED
      BY <1>4, <2>1, <2>2
  <1>12. Shapes'
    BY <1>0, <1>6, <1>7, <1>8, <1>9, <1>10, <1>11 DEF Shapes, req, size
  <1>13. Tally(r)'
    <2>1. p.completed + p.failed = Len(results'[r])
      BY <1>0, <1>1, <1>7, <1>9 DEF Tally
    <2>2. (progress[r].failed = 0) <=> (\A k \in DOMAIN results[r] : results[r][k].status = "completed")
      BY <1>0, <1>1 DEF Tally
    <2>3. (\A k \in DOMAIN results'[r] : results'[r][k].status = "completed") <=>
             ((\A k \in DOMAIN results[r] : results[r][k].status = "completed") /\ v.status = "completed")
      BY <1>7
    <2>4. p.failed = 0 <=> progress[r].failed = 0 /\ v.status = "completed"
      BY <1>5, <1>9
    <2> QED
      BY <1>10, <2>1, <2>2, <2>3, <2>4 DEF Tally
  <1>14. Phase(r)'
    <2>1. phase'[r] = "record" => (progress'[r].status = "completed") <=> (progress'[r].failed = 0)
      BY <1>10, <1>11 DEF final_status
    <2>2. task[r] \notin {"succeeded", "failed"}
      BY <1>0, <1>1 DEF Phase
    <2> QED
      BY <1>0, <1>1, <1>7, <1>11, <2>1, <2>2 DEF Phase
  <1>15. Placed(r)'
    <2>1. Append(results[r], Head(finished[r])) \o Tail(finished[r]) = results[r] \o finished[r]
      BY ONLY <1>0, <1>5, MovedOver
    <2>2. results'[r] \o finished'[r] = results[r] \o finished[r]
      BY <1>2, <1>6, <2>1
    <2> QED
      BY <1>0, <2>2, KeepsPlaced
  <1>16. Judged(r)'
    <2>0. /\ \A k \in DOMAIN results[r] : Sound(r, results[r][k])
          /\ \A k \in DOMAIN finished[r] : Sound(r, finished[r][k])
      BY <1>0 DEF Judged
    <2>1. \A w : Sound(r, w) => Sound(r, w)'
      <3>1. shown' \in Nat /\ shown <= shown'
        BY <1>0 DEF Shapes
      <3> QED
        BY <1>0, <3>1, KeepsSound
    <2>2. ASSUME NEW k \in DOMAIN results'[r] PROVE Sound(r, results[r][k])'
      <3>1. Sound(r, v)
        BY <1>8, <2>0
      <3>2. PICK t : t = Append(results[r], v)
        OBVIOUS
      <3>3. \A l \in DOMAIN t : Sound(r, t[l])'
        BY <1>5, <2>0, <2>1, <3>1, <3>2, SoundAdded
      <3> QED
        BY <1>6, <3>2, <3>3
    <2>3. ASSUME NEW k \in DOMAIN finished'[r] PROVE Sound(r, finished[r][k])'
      BY <1>8, <2>0, <2>1
    <2>4. Lists(r)'
      BY <1>0 DEF Judged, Lists, Made
    <2> QED
      BY <1>0, <1>1, <2>2, <2>3, <2>4 DEF Judged
  <1>17. GaugeExplained'
    <2>1. gauge' = size(r)' - Len(results'[r])
      BY <1>0, <1>1, <1>4, <1>5, <1>7, <1>9 DEF remaining, Tally
    <2> QED
      BY <1>1, <1>11, <2>1 DEF GaugeExplained, Parallel
  <1> QED
    BY <1>0, <1>6, <1>10, <1>11, <1>12, <1>13, <1>14, <1>15, <1>16, <1>17, Locally

\* A coroutine enters the semaphore.
LEMMA AcquireStep ==
    ASSUME AssessInv, NEW r \in Requests, NEW i \in DOMAIN job[r], AcquireSlot(r, i)
    PROVE  AssessInv'
  <1>0. /\ Shapes /\ Phase(r) /\ Judged(r) /\ Placed(r) /\ Tally(r) /\ GaugeExplained
        /\ job[r][i] = "new"
        /\ job' = [job EXCEPT ![r][i] = "try"]
        /\ UNCHANGED <<world, shown, phase, reading, cache, expiries, gauge, task, taskLost, results,
                       finished, raised, progress>>
    BY DEF AssessInv, AcquireSlot, serviceVars, taskVars
  <1>1. /\ DOMAIN job' = Requests /\ DOMAIN job'[r] = DOMAIN job[r] /\ job'[r][i] = "try"
        /\ \A q \in Requests : q # r => job'[q] = job[q]
        /\ \A j \in DOMAIN job[r] : j # i => job'[r][j] = job[r][j]
    BY <1>0 DEF Shapes
  <1>2. Shapes'
    BY <1>0, <1>1 DEF Shapes, req, size
  <1>3. \A v : Sound(r, v) => Sound(r, v)'
    <2>1. shown' \in Nat /\ shown <= shown'
      BY <1>0 DEF Shapes
    <2>2. \A j \in DOMAIN job[r] :
             job[r][j] = "done" => job'[r][j] = "done" /\ raised'[r][j] = raised[r][j]
      BY <1>0, <1>1
    <2> QED
      BY <1>0, <1>1, <2>1, <2>2, KeepsSound
  <1>4. Judged(r)'
    <2>1. Lists(r)'
      BY <1>0 DEF Judged, Lists, Made
    <2> QED
      BY <1>0, <1>1, <1>3, <2>1 DEF Judged, Parallel, req
  <1>5. Placed(r)'
    BY <1>0, <1>1, KeepsPlaced
  <1>6. Phase(r)' /\ Tally(r)'
    BY <1>0, KeepsPhase, KeepsTally
  <1>7. GaugeExplained'
    BY <1>0, KeepsGauge DEF Open
  <1> QED
    BY <1>0, <1>1, <1>2, <1>4, <1>5, <1>6, <1>7, Locally

\* One VM on services of its own.
LEMMA SingleStep ==
    ASSUME AssessInv, NEW r \in Requests, AssessSingle(r)
    PROVE  AssessInv'
  <1>0. /\ Shapes /\ Phase(r) /\ Judged(r) /\ GaugeExplained
        /\ UNCHANGED <<world, shown, expiries, job, finished, raised, progress, gauge, task,
                       taskLost>>
    BY DEF AssessInv, AssessSingle, taskVars
  <1>1. ~Parallel(r) /\ ~Parallel(r)'
    BY <1>0 DEF AssessSingle, Parallel, req
  <1>2. \/ \E v : /\ v = verdict(r, req(r).vm_ids[1], list_vms(r))
                  /\ KeepList(r)
                  /\ IF v.status = "failed" THEN End(r, "not found") /\ UNCHANGED results
                     ELSE End(r, "ok") /\ results' = [results EXCEPT ![r] = <<v>>]
        \/ /\ \E kind \in {"error", "timeout"} : EvaluationRaises(r, req(r).vm_ids[1], kind)
           /\ End(r, "error") /\ UNCHANGED results
    BY DEF AssessSingle, Evaluated
  <1>3. KeepList(r) \/ Dropped(r)
    BY <1>2 DEF EvaluationRaises, Dropped
  <1>4. /\ DOMAIN phase' = Requests /\ phase'[r] = "done"
        /\ \A q \in Requests : q # r => phase'[q] = phase[q]
    <2>1. \E answer : End(r, answer)
      BY <1>2
    <2> QED
      BY <1>0, <2>1, Moved DEF Shapes
  <1>5. /\ DOMAIN cache' = Requests /\ DOMAIN reading' = Requests
        /\ DOMAIN reading'[r] = {"listed", "items"}
        /\ \A q \in Requests : q # r => cache'[q] = cache[q] /\ reading'[q] = reading[q]
        /\ cache'[r] = cache[r] \/ cache[r].listed = 0
        /\ Lists(r)'
    BY <1>0, <1>3, ListKept
  <1>6. \A v : Sound(r, v) => Sound(r, v)'
    <2>1. shown' \in Nat /\ shown <= shown'
      BY <1>0 DEF Shapes
    <2> QED
      BY <1>0, <1>1, <1>5, <2>1, KeepsSound
  <1>7. /\ DOMAIN results' = Requests /\ Collected(results'[r])
        /\ \A q \in Requests : q # r => results'[q] = results[q]
        /\ \A k \in DOMAIN results'[r] : Sound(r, results[r][k])'
    <2>0. /\ Collected(results[r]) /\ DOMAIN results = Requests
          /\ \A k \in DOMAIN results[r] : Sound(r, results[r][k])
      BY <1>0 DEF Shapes, Judged
    <2>1. CASE results' = results
      BY <1>6, <2>0, <2>1
    <2>2. ASSUME NEW v, v = verdict(r, req(r).vm_ids[1], list_vms(r)),
                 v.status # "failed", KeepList(r), results' = [results EXCEPT ![r] = <<v>>]
          PROVE  <1>7!:
      <3>1. Sound(r, v)'
        <4>1. cache'[r] = list_vms(r) /\ ListReady(r)
          BY <1>0, <2>2 DEF Shapes, KeepList
        <4> QED
          BY <1>0, <2>2, <4>1, NewSound
      <3>2. /\ DOMAIN results' = Requests /\ results'[r] = <<v>>
            /\ \A q \in Requests : q # r => results'[q] = results[q]
        BY <2>0, <2>2
      <3>3. <<v>> \in Seq({v}) /\ DOMAIN <<v>> = {1} /\ <<v>>[1] = v
        OBVIOUS
      <3>4. Collected(results'[r])
        BY <3>2, <3>3 DEF Collected
      <3>5. \A k \in DOMAIN results'[r] : results'[r][k] = v
        BY <3>2, <3>3
      <3> QED
        BY <3>1, <3>2, <3>4, <3>5
    <2> QED
      BY <1>2, <2>1, <2>2
  <1>8. Shapes'
    BY <1>0, <1>4, <1>5, <1>7 DEF Shapes, req, size
  <1>9. Judged(r)'
    BY <1>0, <1>1, <1>5, <1>6, <1>7 DEF Judged
  <1>10. Phase(r)' /\ Tally(r)' /\ Placed(r)'
    BY <1>1, <1>4 DEF Phase, Tally, Placed
  <1>11. GaugeExplained'
    <2>1. ASSUME NEW q \in Requests, Parallel(q), Open(q) PROVE Open(q)' /\ results'[q] = results[q]
      BY <1>0, <1>1, <1>4, <1>7, <2>1 DEF Open
    <2> QED
      BY <1>0, <2>1, KeepsGauge
  <1> QED
    BY <1>0, <1>4, <1>5, <1>7, <1>8, <1>9, <1>10, <1>11, Locally

\* A list times out, vCenter changes, or nothing happens: no request notices at once.
LEMMA OutsideStep ==
    ASSUME AssessInv, Drift \/ UNCHANGED assessmentVars \/ \E r \in Requests : Expire(r)
    PROVE  AssessInv'
  <1>0. Shapes /\ GaugeExplained
        /\ UNCHANGED <<world, phase, job, finished, raised, results, progress, gauge, task,
                       taskLost>>
    BY DEF AssessInv, Drift, Expire, workVars, taskVars, assessmentVars
  <1>1. /\ shown' \in Nat \ {0} /\ shown <= shown' /\ DOMAIN cache' = Requests
        /\ UNCHANGED reading
        /\ \A q \in Requests : cache'[q] = cache[q] \/ cache'[q].listed = 0
        /\ (UNCHANGED <<expiries, cache>>) \/ expiries' = expiries + 1
    BY <1>0 DEF Drift, Expire, serviceVars, assessmentVars, Shapes, NoList
  <1>2. Shapes'
    BY <1>0, <1>1 DEF Shapes, req, size
  <1>3. ASSUME NEW q \in Requests PROVE Phase(q)' /\ Tally(q)' /\ Placed(q)' /\ Judged(q)'
    <2>0. Phase(q) /\ Tally(q) /\ Placed(q) /\ Judged(q)
      BY DEF AssessInv
    <2>1. Phase(q)' /\ Tally(q)'
      BY <1>0, <2>0, KeepsPhase, KeepsTally
    <2>2. Placed(q)'
      BY <1>0, <2>0, KeepsPlaced
    <2>3. \A v : Sound(q, v) => Sound(q, v)'
      BY <1>0, <1>1, KeepsSound
    <2>4. Lists(q)'
      <3>1. \A list : Made(list) => Made(list)'
        BY <1>0, <1>1, KeepsMade
      <3> QED
        BY <1>0, <1>1, <2>0, <3>1 DEF Judged, Lists, Made
    <2>5. Judged(q)'
      BY <1>0, <2>0, <2>3, <2>4 DEF Judged, Parallel, req
    <2> QED
      BY <2>1, <2>2, <2>5
  <1>4. GaugeExplained'
    BY <1>0, KeepsGauge DEF Open
  <1> QED
    BY <1>2, <1>3, <1>4 DEF AssessInv

\* Every step of the requests and around them.
LEMMA AssessStep == AssessInv /\ [AssessmentNext]_assessmentVars => AssessInv'
  <1> SUFFICES ASSUME AssessInv, [AssessmentNext]_assessmentVars PROVE AssessInv'
    OBVIOUS
  <1>1. ASSUME NEW r \in Requests, BeginAssessment(r) \/ CreateAssessTask(r) \/ MarkAssessRunning(r)
        PROVE  AssessInv'
    BY <1>1, BeginAssess, CreateAssess, MarkAssess
  <1>2. ASSUME NEW r \in Requests,
               AssessNext(r) \/ Conclude(r) \/ MarkFailed(r) \/ get_progress(r)
        PROVE  AssessInv'
    BY <1>2, AssessNextStep, EndAssess
  <1>3. ASSUME NEW r \in Requests, NEW i \in DOMAIN job[r],
               AcquireSlot(r, i) \/ EvaluateOne(r, i)
        PROVE  AssessInv'
    BY <1>3, AcquireStep, EvaluateStep
  <1>4. ASSUME NEW r \in Requests,
               Collect(r) \/ ConcludeParallel(r) \/ AssessSingle(r) \/ ListVMs(r) \/ ReadVM(r)
        PROVE  AssessInv'
    BY <1>4, CollectStep, ConcludeAssess, SingleStep, ReadStep
  <1>5. ASSUME NEW r \in Requests, Expire(r) PROVE AssessInv'
    BY <1>5, OutsideStep
  <1>6. CASE Drift
    BY <1>6, OutsideStep
  <1>7. CASE UNCHANGED assessmentVars
    BY <1>7, OutsideStep
  <1> QED
    BY <1>1, <1>2, <1>3, <1>4, <1>5, <1>6, <1>7 DEF AssessmentNext

\* Each entry of vm_ids has one result.
THEOREM EntriesOnce == AssessmentSpec => []EveryEntryOnce
  <1>1. AssessInv => EveryEntryOnce
    <2> SUFFICES ASSUME AssessInv, NEW r \in Requests, Parallel(r)
                 PROVE  /\ \A id \in ToSet(req(r).vm_ids) :
                              Cardinality({k \in DOMAIN (results[r] \o finished[r]) :
                                             (results[r] \o finished[r])[k].vm_id = id})
                               = Cardinality({i \in {j \in DOMAIN job[r] : job[r][j] = "done"} :
                                                req(r).vm_ids[i] = id})
                        /\ progress[r].completed + progress[r].failed = Len(results[r])
                        /\ task[r] \in {"succeeded", "failed"} =>
                              /\ Len(results[r]) = size(r)
                              /\ (task[r] = "succeeded") <=> (\A i \in DOMAIN results[r] :
                                                                 results[r][i].status = "completed")
      BY DEF EveryEntryOnce, Parallel, times
    <2>1. Phase(r) /\ Tally(r) /\ Placed(r)
      BY DEF AssessInv
    <2>2. \A id :
             Over(r, id) = {i \in {j \in DOMAIN job[r] : job[r][j] = "done"} : req(r).vm_ids[i] = id}
      BY DEF Over
    <2>3. \A id : Places(results[r] \o finished[r], id)
                    = {k \in DOMAIN (results[r] \o finished[r]) :
                         (results[r] \o finished[r])[k].vm_id = id}
      BY DEF Places
    <2>4. \A id \in ToSet(req(r).vm_ids) :
             Cardinality(Places(results[r] \o finished[r], id)) = Cardinality(Over(r, id))
      BY <2>1 DEF Placed
    <2> QED
      BY <2>1, <2>2, <2>3, <2>4 DEF Phase, Tally
  <1> QED
    BY <1>1, AssessStart, AssessStep, PTL DEF AssessmentSpec

\* A VM that vCenter always showed is failed only after two evaluations that raised, and
\* timed out only after one that raised a TimeoutError.
THEOREM FailedAfterRetry == AssessmentSpec => []FailedOnlyAfterRetry
  <1>1. AssessInv => FailedOnlyAfterRetry
    <2> SUFFICES ASSUME AssessInv, NEW r \in Requests, NEW k \in DOMAIN results[r],
                        results[r][k].status # "completed",
                        \A s \in 1..shown : results[r][k].vm_id \in DOMAIN world.inventories[s]
                 PROVE  \E i \in DOMAIN req(r).vm_ids :
                            /\ req(r).vm_ids[i] = results[r][k].vm_id /\ job[r][i] = "done"
                            /\ raised[r][i] \in exceptions(results[r][k].status)
      BY DEF FailedOnlyAfterRetry, exceptions
    <2>1. Excused(r, results[r][k])
      BY DEF AssessInv, Judged, Sound
    <2>2. DOMAIN job[r] = DOMAIN req(r).vm_ids
      BY DEF AssessInv, Shapes, Collected, size
    <2> QED
      BY <2>1, <2>2 DEF Excused
  <1> QED
    BY <1>1, AssessStart, AssessStep, PTL DEF AssessmentSpec

\* The verdicts of a request come from one list until a list times out.
THEOREM ListingsHold == AssessmentSpec => []OneListing
  <1>1. AssessInv => OneListing
    <2> SUFFICES ASSUME AssessInv, expiries = 0, NEW r \in Requests,
                        NEW j \in DOMAIN results[r], NEW k \in DOMAIN results[r],
                        results[r][j].listed # 0, results[r][k].listed # 0
                 PROVE  /\ results[r][j].listed = results[r][k].listed
                        /\ results[r][j].vm_id = results[r][k].vm_id => results[r][j] = results[r][k]
                        /\ IF results[r][j].status = "completed"
                           THEN results[r][j].at \in results[r][j].listed..shown
                           ELSE results[r][j].vm_id \notin DOMAIN world.inventories[results[r][j].listed]
      BY DEF OneListing
    <2>1. PICK v, w : v = results[r][j] /\ w = results[r][k]
      OBVIOUS
    <2>2. v = verdict(r, v.vm_id, cache[r]) /\ w = verdict(r, w.vm_id, cache[r])
      BY <2>1 DEF AssessInv, Judged, Sound
    <2>3. /\ v.listed = cache[r].listed /\ w.listed = cache[r].listed
          /\ v.status = IF v.vm_id \in DOMAIN cache[r].items THEN "completed" ELSE "failed"
          /\ v.status = "completed" => v.at = cache[r].items[v.vm_id].at
      BY <2>2, VerdictSays
    <2>4. /\ Made(cache[r]) /\ cache[r].listed # 0
          /\ DOMAIN cache[r].items = DOMAIN world.inventories[cache[r].listed]
      BY <2>1, <2>3 DEF AssessInv, Judged, Lists
    <2>5. v.vm_id = w.vm_id => v = w
      BY <2>2
    <2> QED
      BY <2>1, <2>3, <2>4, <2>5 DEF Made
  <1> QED
    BY <1>1, AssessStart, AssessStep, PTL DEF AssessmentSpec

\* The gauge shows what some request has still to do.
THEOREM GaugesExplained == AssessmentSpec => []GaugeExplained
  <1>1. AssessInv => GaugeExplained
    BY DEF AssessInv
  <1> QED
    BY <1>1, AssessStart, AssessStep, PTL DEF AssessmentSpec

-----------------------------------------------------------------------------
(* The mapping engine: the flavor that a VM is given. *)

\* A set of natural numbers that has a member has a least one.
LEMMA Least ==
    ASSUME NEW T, T \subseteq Nat, T # {}
    PROVE  \E x \in T : \A y \in T : x <= y
  <1>1. \E x \in T : \A y \in T : ~ (<<y, x>> \in OpToRel(<, Nat))
    BY NatLessThanWellFounded, WFMin
  <1>2. PICK x \in T : \A y \in T : ~ (<<y, x>> \in OpToRel(<, Nat))
    BY <1>1
  <1>3. ASSUME NEW y \in T PROVE x <= y
    <2>1. x \in Nat /\ y \in Nat
      OBVIOUS
    <2>2. ~(y < x)
      <3>1. y < x => <<y, x>> \in OpToRel(<, Nat)
        BY <2>1 DEF OpToRel
      <3> QED
        BY <1>2, <3>1
    <2> QED
      BY <2>1, <2>2
  <1> QED
    BY <1>3

\* Finitely many numbers have a bound.
LEMMA Bounded ==
    ASSUME NEW n \in Nat, NEW a \in [1..n -> Nat]
    PROVE  \E b \in Nat : \A i \in 1..n : a[i] <= b
  <1> DEFINE T == {k \in 0..n : ~\E b \in Nat : \A i \in 1..k : a[i] <= b}
  <1>0. SUFFICES ASSUME ~\E b \in Nat : \A i \in 1..n : a[i] <= b PROVE FALSE
    OBVIOUS
  <1>1. T \subseteq Nat /\ n \in T
    BY <1>0
  <1> HIDE DEF T
  <1>2. PICK k \in T : \A l \in T : k <= l
    BY <1>1, Least
  <1>3. k \in 0..n /\ k # 0
    <2>1. \A i \in 1..0 : a[i] <= 0
      OBVIOUS
    <2> QED
      BY <2>1 DEF T
  <1>4. PICK h \in 0..n : h = k - 1
    BY <1>3
  <1>5. h \notin T
    <2>1. ~(k <= h)
      BY <1>3, <1>4
    <2> QED
      BY <1>2, <2>1
  <1>6. PICK b \in Nat : \A i \in 1..h : a[i] <= b
    BY <1>5 DEF T
  <1>7. k \in 1..n /\ a[k] \in Nat
    BY <1>3
  <1>8. PICK c \in Nat : c = b + a[k]
    BY <1>7
  <1>9. ASSUME NEW i \in 1..k PROVE a[i] <= c
    <2>1. i \in 1..h \/ i = k
      BY <1>3, <1>4
    <2>2. i \in 1..n
      BY <1>3, <1>9
    <2>3. a[i] \in Nat
      BY <2>2
    <2>4. CASE i = k
      BY <1>7, <1>8, <2>4
    <2>5. CASE i \in 1..h
      <3>1. a[i] <= b
        BY <1>6, <2>5
      <3> QED
        BY <1>6, <1>7, <1>8, <2>3, <3>1
    <2> QED
      BY <2>1, <2>4, <2>5
  <1> QED
    BY <1>2, <1>9 DEF T

\* The largest of finitely many numbers is one of them.
LEMMA Highest ==
    ASSUME NEW n \in Nat, n # 0, NEW a \in [1..n -> Nat]
    PROVE  Max({a[i] : i \in 1..n}) \in Nat
  <1> DEFINE S == {a[i] : i \in 1..n}
  <1>1. PICK b \in Nat : \A i \in 1..n : a[i] <= b
    BY Bounded
  <1> DEFINE T == {b - a[i] : i \in 1..n}
  <1>2. T \subseteq Nat /\ T # {}
    <2>1. b - a[1] \in T
      OBVIOUS
    <2>2. \A i \in 1..n : b - a[i] \in Nat
      BY <1>1
    <2> QED
      BY <2>1, <2>2
  <1> HIDE DEF T
  <1>3. PICK x \in T : \A y \in T : x <= y
    BY <1>2, Least
  <1>4. PICK k \in 1..n : x = b - a[k]
    BY DEF T
  <1>5. ASSUME NEW i \in 1..n PROVE a[k] >= a[i]
    <2>1. b - a[i] \in T
      BY DEF T
    <2>2. b - a[k] <= b - a[i]
      BY <1>3, <1>4, <2>1
    <2> QED
      BY <2>2
  <1>6. a[k] \in S /\ \A y \in S : a[k] >= y
    BY <1>5
  <1>7. S \subseteq Nat
    OBVIOUS
  <1> HIDE DEF S
  <1>8. (CHOOSE z \in S : \A y \in S : z >= y) \in S
    BY <1>6
  <1>9. Max(S) \in Nat
    BY <1>7, <1>8 DEF Max
  <1> QED
    BY <1>9 DEF S

\* A flavor has its figures.
Sized(f) == f.vcpus \in Nat /\ f.ram \in Nat /\ f.disk \in Nat

\* A list of flavors.
FlavorList(flavors) ==
    /\ Len(flavors) \in Nat /\ DOMAIN flavors = 1..Len(flavors)
    /\ \A i \in 1..Len(flavors) : Sized(flavors[i])

\* What a flavor is compared with.
Target(t) == t.vcpus \in Int /\ t.ram \in Int /\ t.disk \in Int

Largest(flavors) ==
    /\ largest(flavors, LAMBDA f : f.vcpus) \in Nat \ {0}
    /\ largest(flavors, LAMBDA f : f.ram) \in Nat \ {0}
    /\ largest(flavors, LAMBDA f : f.disk) \in Nat \ {0}

\* The figures that distances are normalised by are positive.
LEMMA Normalised ==
    ASSUME NEW flavors, FlavorList(flavors), Len(flavors) # 0
    PROVE  Largest(flavors)
  <1> DEFINE n == Len(flavors)
  <1>1. n \in Nat /\ DOMAIN flavors = 1..n
    BY DEF FlavorList
  <1>2. largest(flavors, LAMBDA f : f.vcpus) \in Nat \ {0}
    <2> DEFINE a == [i \in 1..n |-> flavors[i].vcpus]
               S == {flavors[i].vcpus : i \in DOMAIN flavors}
    <2>1. a \in [1..n -> Nat] /\ S = {a[i] : i \in 1..n}
      BY <1>1 DEF FlavorList, Sized
    <2>2. Max(S) \in Nat
      BY <1>1, <2>1, Highest
    <2> QED
      BY <2>2 DEF largest
  <1>3. largest(flavors, LAMBDA f : f.ram) \in Nat \ {0}
    <2> DEFINE a == [i \in 1..n |-> flavors[i].ram]
               S == {flavors[i].ram : i \in DOMAIN flavors}
    <2>1. a \in [1..n -> Nat] /\ S = {a[i] : i \in 1..n}
      BY <1>1 DEF FlavorList, Sized
    <2>2. Max(S) \in Nat
      BY <1>1, <2>1, Highest
    <2> QED
      BY <2>2 DEF largest
  <1>4. largest(flavors, LAMBDA f : f.disk) \in Nat \ {0}
    <2> DEFINE a == [i \in 1..n |-> flavors[i].disk]
               S == {flavors[i].disk : i \in DOMAIN flavors}
    <2>1. a \in [1..n -> Nat] /\ S = {a[i] : i \in 1..n}
      BY <1>1 DEF FlavorList, Sized
    <2>2. Max(S) \in Nat
      BY <1>1, <2>1, Highest
    <2> QED
      BY <2>2 DEF largest
  <1> QED
    BY <1>2, <1>3, <1>4 DEF Largest

\* Squares of scaled differences: none is negative, they vanish with the difference
\* only, and they shrink with it.
LEMMA Squares ==
    ASSUME NEW c \in Nat \ {0}, NEW d \in Nat \ {0}, NEW x \in Int, NEW y \in Int
    PROVE  /\ square(x * c * d) \in Nat
           /\ square(x * c * d) = 0 <=> x = 0
           /\ y <= x /\ x <= 0 => square(x * c * d) <= square(y * c * d)
           /\ y < x /\ x <= 0 => square(x * c * d) < square(y * c * d)
  <1>1. PICK e \in Nat \ {0} : e = c * d
    <2>1. c * d \in Nat /\ c * d # 0
      BY SMT
    <2> QED
      BY <2>1
  <1>2. x * c * d = x * e /\ y * c * d = y * e
    BY <1>1, SMT
  <1>3. x * e \in Int /\ y * e \in Int /\ (x * e = 0 <=> x = 0)
    BY <1>1, SMT
  <1>4. \A z \in Int : z * z \in Nat /\ (z * z = 0 <=> z = 0)
    BY SMT
  <1>5. ASSUME y <= x, x <= 0 PROVE y * e <= x * e /\ x * e <= 0
    BY <1>1, <1>5, SMT
  <1>6. ASSUME y < x PROVE y * e < x * e
    BY <1>1, <1>6, SMT
  <1>7. \A u, v \in Int : u <= v /\ v <= 0 => v * v <= u * u
    BY SMT
  <1>8. \A u, v \in Int : u < v /\ v <= 0 => v * v < u * u
    BY SMT
  <1>9. square(x * c * d) = (x * e) * (x * e) /\ square(y * c * d) = (y * e) * (y * e)
    BY <1>2 DEF square
  <1>10. square(x * c * d) \in Nat /\ (square(x * c * d) = 0 <=> x = 0)
    BY <1>3, <1>4, <1>9
  <1>11. y <= x /\ x <= 0 => square(x * c * d) <= square(y * c * d)
    BY <1>3, <1>5, <1>7, <1>9
  <1>12. y < x /\ x <= 0 => square(x * c * d) < square(y * c * d)
    BY <1>3, <1>5, <1>6, <1>8, <1>9
  <1> QED
    BY <1>10, <1>11, <1>12

\* A term of a distance: the square of the difference of a and b, scaled by m and n.
scaled(a, b, m, n) == square((a - b) * m * n)

LEMMA Scaled ==
    ASSUME NEW a \in Int, NEW b \in Nat, NEW c \in Nat, NEW m \in Nat \ {0}, NEW n \in Nat \ {0}
    PROVE  /\ scaled(a, b, m, n) \in Nat
           /\ scaled(a, b, m, n) = 0 <=> b = a
           /\ a <= b /\ b <= c => /\ scaled(a, b, m, n) <= scaled(a, c, m, n)
                                  /\ b < c => scaled(a, b, m, n) < scaled(a, c, m, n)
  <1>1. PICK u \in Int : u = a - b
    OBVIOUS
  <1>2. PICK v \in Int : v = a - c
    OBVIOUS
  <1>3. /\ scaled(a, b, m, n) = square(u * m * n)
        /\ scaled(a, c, m, n) = square(v * m * n)
    BY <1>1, <1>2 DEF scaled
  <1>4. PICK p : p = square(u * m * n)
    OBVIOUS
  <1>5. PICK q : q = square(v * m * n)
    OBVIOUS
  <1>6. /\ p \in Nat /\ (p = 0 <=> u = 0)
        /\ v <= u /\ u <= 0 => p <= q
        /\ v < u /\ u <= 0 => p < q
    BY <1>4, <1>5, Squares
  <1>7. /\ p \in Nat /\ (p = 0 <=> b = a)
        /\ a <= b /\ b <= c => p <= q /\ (b < c => p < q)
    BY <1>1, <1>2, <1>6
  <1> QED
    BY <1>3, <1>4, <1>5, <1>7

\* A distance is a number, 0 for an exact match only, and smaller for a flavor that is
\* large enough and nowhere larger than another one that is large enough.
LEMMA Distances ==
    ASSUME NEW flavors, FlavorList(flavors), NEW t, Target(t),
           NEW i \in 1..Len(flavors), NEW j \in 1..Len(flavors),
           NEW f, f = flavors[i], NEW g, g = flavors[j],
           NEW p, p = Distance(flavors, f, t), NEW q, q = Distance(flavors, g, t)
    PROVE  /\ p \in Nat
           /\ p = 0 <=> f.vcpus = t.vcpus /\ f.ram = t.ram /\ f.disk = t.disk
           /\ /\ ~under(f, t) /\ ~under(g, t)
              /\ f.vcpus <= g.vcpus /\ f.ram <= g.ram /\ f.disk <= g.disk
              /\ f.vcpus < g.vcpus \/ f.ram < g.ram \/ f.disk < g.disk
              => p < q
  <1>1. /\ t.vcpus \in Int /\ t.ram \in Int /\ t.disk \in Int
        /\ f.vcpus \in Nat /\ f.ram \in Nat /\ f.disk \in Nat
        /\ g.vcpus \in Nat /\ g.ram \in Nat /\ g.disk \in Nat
    BY DEF FlavorList, Sized, Target
  <1>2. PICK cpus, rams, gbs \in Nat \ {0} :
           /\ cpus = largest(flavors, LAMBDA h : h.vcpus)
           /\ rams = largest(flavors, LAMBDA h : h.ram)
           /\ gbs = largest(flavors, LAMBDA h : h.disk)
    <2>1. Len(flavors) # 0
      BY DEF FlavorList
    <2> QED
      BY <2>1, Normalised DEF Largest
  <1> DEFINE x1 == scaled(t.vcpus, f.vcpus, rams, gbs)
             x2 == scaled(t.ram, f.ram, cpus, gbs)
             x3 == scaled(t.disk, f.disk, cpus, rams)
             y1 == scaled(t.vcpus, g.vcpus, rams, gbs)
             y2 == scaled(t.ram, g.ram, cpus, gbs)
             y3 == scaled(t.disk, g.disk, cpus, rams)
  <1>3. /\ p = (IF under(f, t) THEN 9 ELSE 4) * (2 * x1 + 2 * x2 + x3)
        /\ q = (IF under(g, t) THEN 9 ELSE 4) * (2 * y1 + 2 * y2 + y3)
    BY <1>2 DEF Distance, scaled
  <1>4. /\ x1 \in Nat /\ (x1 = 0 <=> f.vcpus = t.vcpus)
        /\ t.vcpus <= f.vcpus /\ f.vcpus <= g.vcpus =>
              x1 <= y1 /\ (f.vcpus < g.vcpus => x1 < y1)
    <2>1. PICK a \in Int, b \in Nat, c \in Nat : a = t.vcpus /\ b = f.vcpus /\ c = g.vcpus
      BY <1>1
    <2>2. x1 = scaled(a, b, rams, gbs) /\ y1 = scaled(a, c, rams, gbs)
      BY <2>1
    <2> HIDE DEF x1, y1
    <2>3. /\ x1 \in Nat /\ (x1 = 0 <=> b = a)
          /\ a <= b /\ b <= c => x1 <= y1 /\ (b < c => x1 < y1)
      <3>1. /\ scaled(a, b, rams, gbs) \in Nat
            /\ scaled(a, b, rams, gbs) = 0 <=> b = a
            /\ a <= b /\ b <= c => /\ scaled(a, b, rams, gbs) <= scaled(a, c, rams, gbs)
                                   /\ b < c => scaled(a, b, rams, gbs) < scaled(a, c, rams, gbs)
        BY Scaled, Zenon
      <3> QED
        BY <2>2, <3>1
    <2> QED
      BY <2>1, <2>3
  <1>5. /\ x2 \in Nat /\ (x2 = 0 <=> f.ram = t.ram)
        /\ t.ram <= f.ram /\ f.ram <= g.ram =>
              x2 <= y2 /\ (f.ram < g.ram => x2 < y2)
    <2>1. PICK a \in Int, b \in Nat, c \in Nat : a = t.ram /\ b = f.ram /\ c = g.ram
      BY <1>1
    <2>2. x2 = scaled(a, b, cpus, gbs) /\ y2 = scaled(a, c, cpus, gbs)
      BY <2>1
    <2> HIDE DEF x2, y2
    <2>3. /\ x2 \in Nat /\ (x2 = 0 <=> b = a)
          /\ a <= b /\ b <= c => x2 <= y2 /\ (b < c => x2 < y2)
      <3>1. /\ scaled(a, b, cpus, gbs) \in Nat
            /\ scaled(a, b, cpus, gbs) = 0 <=> b = a
            /\ a <= b /\ b <= c => /\ scaled(a, b, cpus, gbs) <= scaled(a, c, cpus, gbs)
                                   /\ b < c => scaled(a, b, cpus, gbs) < scaled(a, c, cpus, gbs)
        BY Scaled, Zenon
      <3> QED
        BY <2>2, <3>1
    <2> QED
      BY <2>1, <2>3
  <1>6. /\ x3 \in Nat /\ (x3 = 0 <=> f.disk = t.disk)
        /\ t.disk <= f.disk /\ f.disk <= g.disk =>
              x3 <= y3 /\ (f.disk < g.disk => x3 < y3)
    <2>1. PICK a \in Int, b \in Nat, c \in Nat : a = t.disk /\ b = f.disk /\ c = g.disk
      BY <1>1
    <2>2. x3 = scaled(a, b, cpus, rams) /\ y3 = scaled(a, c, cpus, rams)
      BY <2>1
    <2> HIDE DEF x3, y3
    <2>3. /\ x3 \in Nat /\ (x3 = 0 <=> b = a)
          /\ a <= b /\ b <= c => x3 <= y3 /\ (b < c => x3 < y3)
      <3>1. /\ scaled(a, b, cpus, rams) \in Nat
            /\ scaled(a, b, cpus, rams) = 0 <=> b = a
            /\ a <= b /\ b <= c => /\ scaled(a, b, cpus, rams) <= scaled(a, c, cpus, rams)
                                   /\ b < c => scaled(a, b, cpus, rams) < scaled(a, c, cpus, rams)
        BY Scaled, Zenon
      <3> QED
        BY <2>2, <3>1
    <2> QED
      BY <2>1, <2>3
  <1>7. y1 \in Nat /\ y2 \in Nat /\ y3 \in Nat
    BY <1>1, <1>2, Scaled
  <1> HIDE DEF x1, x2, x3, y1, y2, y3
  <1>8. p \in Nat /\ (p = 0 <=> x1 = 0 /\ x2 = 0 /\ x3 = 0)
    <2>1. x1 \in Nat /\ x2 \in Nat /\ x3 \in Nat
      BY <1>4, <1>5, <1>6
    <2> QED
      BY <1>3, <2>1
  <1>9. ASSUME ~under(f, t), ~under(g, t),
               f.vcpus <= g.vcpus, f.ram <= g.ram, f.disk <= g.disk,
               f.vcpus < g.vcpus \/ f.ram < g.ram \/ f.disk < g.disk
        PROVE  p < q
    <2>1. t.vcpus <= f.vcpus /\ t.ram <= f.ram /\ t.disk <= f.disk
      BY <1>1, <1>9 DEF under
    <2>2. x1 <= y1 /\ x2 <= y2 /\ x3 <= y3
      BY <1>4, <1>5, <1>6, <1>9, <2>1
    <2>3. x1 < y1 \/ x2 < y2 \/ x3 < y3
      BY <1>4, <1>5, <1>6, <1>9, <2>1
    <2>4. p = 4 * (2 * x1 + 2 * x2 + x3) /\ q = 4 * (2 * y1 + 2 * y2 + y3)
      BY <1>3, <1>9
    <2>5. x1 \in Nat /\ x2 \in Nat /\ x3 \in Nat
      BY <1>4, <1>5, <1>6
    <2> QED
      BY <1>7, <2>2, <2>3, <2>4, <2>5
  <1> QED
    BY <1>4, <1>5, <1>6, <1>8, <1>9

\* One flavor is nearer than all others, the first of those with the least distance.
LEMMA Nearest ==
    ASSUME NEW flavors, FlavorList(flavors), Len(flavors) # 0, NEW t, Target(t)
    PROVE  \E i \in 1..Len(flavors) : \A j \in 1..Len(flavors) : nearer(flavors, i, j, t)
  <1> DEFINE n == Len(flavors)
             D == [i \in 1..n |-> Distance(flavors, flavors[i], t)]
             T == {D[i] : i \in 1..n}
  <1>1. n \in Nat /\ D \in [1..n -> Nat]
    BY Distances DEF FlavorList
  <1>2. \A i \in 1..n : D[i] = Distance(flavors, flavors[i], t)
    OBVIOUS
  <1> HIDE DEF D
  <1>3. T \subseteq Nat /\ T # {}
    <2>1. D[1] \in T
      BY <1>1
    <2> QED
      BY <1>1, <2>1
  <1> HIDE DEF T
  <1>4. PICK x \in T : \A y \in T : x <= y
    BY <1>3, Least
  <1> DEFINE I == {i \in 1..n : D[i] = x}
  <1>5. I \subseteq Nat /\ I # {}
    BY DEF T
  <1> HIDE DEF I
  <1>6. PICK i \in I : \A j \in I : i <= j
    BY <1>5, Least
  <1>7. i \in 1..n /\ D[i] = x
    BY DEF I
  <1>8. ASSUME NEW j \in 1..n PROVE nearer(flavors, i, j, t)
    <2>1. D[j] \in T /\ D[j] \in Nat /\ D[i] \in Nat
      BY <1>1, <1>7 DEF T
    <2>2. D[i] <= D[j]
      BY <1>4, <1>7, <2>1
    <2>3. D[i] = D[j] => i <= j
      BY <1>6, <1>7 DEF I
    <2>4. D[i] < D[j] \/ (D[i] = D[j] /\ i <= j)
      BY <2>1, <2>2, <2>3
    <2> QED
      BY <1>2, <1>7, <2>4 DEF nearer
  <1> QED
    BY <1>7, <1>8

\* _match_flavor: for every list of flavors and every VM, a flavor is found if there is
\* one, an exact match is preferred, and a match that is large enough is not larger
\* than another flavor that is large enough.
THEOREM MatchIsMinimal ==
    ASSUME NEW F, \A f \in F : Sized(f), NEW flavors \in Seq(F),
           NEW vm, Target(target(vm))
    PROVE  minimalMatch(flavors, target(vm), _match_flavor(flavors, vm))
  <1>0. FlavorList(flavors) /\ (flavors = <<>> <=> Len(flavors) = 0)
    BY DEF FlavorList
  <1>1. PICK t : t = target(vm)
    OBVIOUS
  <1>2. PICK best : best = _match_flavor(flavors, vm)
    OBVIOUS
  <1>3. CASE flavors = <<>>
    <2>1. best = NoFlavor /\ DOMAIN flavors = {}
      BY <1>0, <1>2, <1>3 DEF _match_flavor, FlavorList
    <2> QED
      BY <1>1, <1>2, <1>3, <2>1 DEF minimalMatch
  <1>4. CASE flavors # <<>>
    <2> DEFINE P(i) == \A j \in DOMAIN flavors : nearer(flavors, i, j, t)
    <2>1. DOMAIN flavors = 1..Len(flavors) /\ Len(flavors) # 0
      BY <1>0, <1>4 DEF FlavorList
    <2>2. \E i \in DOMAIN flavors : P(i)
      BY <1>0, <1>1, <2>1, Nearest
    <2> HIDE DEF P
    <2>3. PICK k : k = CHOOSE i \in DOMAIN flavors : P(i)
      OBVIOUS
    <2>4. k \in DOMAIN flavors /\ P(k)
      BY <2>2, <2>3
    <2>5. PICK g : g = flavors[k]
      OBVIOUS
    <2>6. best = [flavor_id |-> g.id, vcpus |-> g.vcpus, ram |-> g.ram, disk |-> g.disk,
                  overprovisioned |-> g.vcpus >= t.vcpus /\ g.ram >= t.ram /\ g.disk >= t.disk,
                  underprovisioned |-> under(g, t)]
      BY <1>1, <1>2, <1>4, <2>3, <2>5 DEF _match_flavor, P
    <2>7. best # NoFlavor
      <3>1. DOMAIN best # DOMAIN NoFlavor
        BY <2>6 DEF NoFlavor
      <3> QED
        BY <3>1
    <2>8. ASSUME NEW j \in DOMAIN flavors, ~under(flavors[j], t) PROVE
             /\ best.overprovisioned =>
                   ~(/\ flavors[j].vcpus <= best.vcpus /\ flavors[j].ram <= best.ram
                     /\ flavors[j].disk <= best.disk
                     /\ \/ flavors[j].vcpus < best.vcpus \/ flavors[j].ram < best.ram
                        \/ flavors[j].disk < best.disk)
             /\ flavors[j].vcpus = t.vcpus /\ flavors[j].ram = t.ram /\ flavors[j].disk = t.disk
                   => /\ best.vcpus = flavors[j].vcpus /\ best.ram = flavors[j].ram
                      /\ best.disk = flavors[j].disk
      <3>1. PICK f : f = flavors[j]
        OBVIOUS
      <3>2. PICK p : p = Distance(flavors, f, t)
        OBVIOUS
      <3>3. PICK q : q = Distance(flavors, g, t)
        OBVIOUS
      <3>4. /\ p \in Nat /\ q \in Nat
            /\ p = 0 <=> f.vcpus = t.vcpus /\ f.ram = t.ram /\ f.disk = t.disk
            /\ q = 0 <=> g.vcpus = t.vcpus /\ g.ram = t.ram /\ g.disk = t.disk
            /\ /\ ~under(f, t) /\ ~under(g, t)
               /\ f.vcpus <= g.vcpus /\ f.ram <= g.ram /\ f.disk <= g.disk
               /\ f.vcpus < g.vcpus \/ f.ram < g.ram \/ f.disk < g.disk
               => p < q
        BY <1>0, <1>1, <2>1, <2>4, <2>5, <3>1, <3>2, <3>3, Distances
      <3>5. q <= p
        BY <2>4, <2>5, <3>1, <3>2, <3>3, <3>4 DEF P, nearer
      <3>6. best.vcpus = g.vcpus /\ best.ram = g.ram /\ best.disk = g.disk
        BY <2>6
      <3>7. best.overprovisioned => ~under(g, t)
        <4>1. /\ g.vcpus \in Nat /\ g.ram \in Nat /\ g.disk \in Nat
              /\ t.vcpus \in Int /\ t.ram \in Int /\ t.disk \in Int
          BY <1>0, <1>1, <2>1, <2>4, <2>5 DEF FlavorList, Sized, Target
        <4>2. ASSUME best.overprovisioned
              PROVE  g.vcpus >= t.vcpus /\ g.ram >= t.ram /\ g.disk >= t.disk
          BY <2>6, <4>2
        <4> QED
          BY <4>1, <4>2 DEF under
      <3>8. ASSUME f.vcpus = t.vcpus, f.ram = t.ram, f.disk = t.disk
            PROVE  g.vcpus = t.vcpus /\ g.ram = t.ram /\ g.disk = t.disk
        <4>1. p = 0 /\ q = 0
          BY <3>4, <3>5, <3>8
        <4> QED
          BY <3>4, <4>1
      <3>9. ~(p < q)
        BY <3>4, <3>5
      <3> QED
        BY <2>8, <3>1, <3>4, <3>6, <3>7, <3>8, <3>9
    <2>9. minimalMatch(flavors, t, best)
      BY <1>4, <2>7, <2>8 DEF minimalMatch
    <2> QED
      BY <1>1, <1>2, <2>9
  <1> QED
    BY <1>3, <1>4
=============================================================================
