------------------------------ MODULE VMwarePool ------------------------------
(***************************************************************************)
(* The vCenter connection pool (clients/vmware/pool.py) under the threads  *)
(* that share it.  A with-statement on the pool's lock is one action: every *)
(* access to the list is inside one.  What runs between two of them (the   *)
(* SmartConnect of a new session, the use of a session, the Disconnect of  *)
(* an ejected one) is an action of its own, so the threads interleave      *)
(* there.  The list is a set: its order only breaks ties between equally   *)
(* used connections.  Time is abstracted to its two effects, a connection  *)
(* outliving its TTL and the health check falling due.                     *)
(***************************************************************************)
EXTENDS Integers, FiniteSets

CONSTANTS
    Threads,       \* worker threads of the process
    Conns,         \* connections SmartConnect can return (a bound for TLC)
    MaxPool,       \* max_pool_size
    MaxAcquires,   \* bound: calls of acquire() in one behaviour
    NoConn,        \* a thread that holds no connection
    Ready          \* settings.vmware_ready: the vCenter credentials are set

ASSUME MaxPoolAssumption     == MaxPool \in Nat
ASSUME MaxAcquiresAssumption == MaxAcquires \in Nat
ASSUME NoConnAssumption      == NoConn \notin Conns
ASSUME ReadyAssumption       == Ready \in BOOLEAN

VARIABLES
    pool,          \* _pool
    useCount,      \* PooledConnection.use_count
    due,           \* whether the health-check interval has elapsed
    stats,         \* conn_created, conn_reused, conn_reconnected, conn_failed
    pc,            \* where each thread is
    conn,          \* the connection each thread holds
    managed,       \* the thread came through `with pool.connection()`
    acquires,      \* calls of acquire() so far
    opened,        \* sessions SmartConnect opened at vCenter
    closed,        \* sessions Disconnect was called on
    dead,          \* sessions vCenter no longer answers on
    expired,       \* connections older than session_ttl
    overflow       \* connections created while the pool was full

poolVars    == <<pool, useCount, stats>>
sessionVars == <<opened, closed, dead, expired>>
threadVars  == <<pc, conn, managed>>
vars == <<poolVars, due, threadVars, acquires, sessionVars, overflow>>

Steps == {"idle", "check", "stamp", "health", "find", "connect", "publish",
          "using", "eject", "disconnect"}

Init ==
    /\ pool = {} /\ useCount = [c \in Conns |-> 0]
    /\ due = TRUE            \* _last_health_check = 0.0
    /\ stats = [created |-> 0, reused |-> 0, reconnected |-> 0, failed |-> 0]
    /\ pc = [t \in Threads |-> "idle"]
    /\ conn = [t \in Threads |-> NoConn]
    /\ managed = [t \in Threads |-> FALSE]
    /\ acquires = 0
    /\ opened = {} /\ closed = {} /\ dead = {} /\ expired = {}
    /\ overflow = {}

Goto(t, step) == pc' = [pc EXCEPT ![t] = step]

-----------------------------------------------------------------------------
(* acquire *)

\* A request enters acquire(), from VMwareClientFactory.connect (raw) or from
\* the context manager (managed).
Acquire(t) ==
    /\ pc[t] = "idle" /\ acquires < MaxAcquires
    /\ acquires' = acquires + 1
    /\ \E m \in BOOLEAN : managed' = [managed EXCEPT ![t] = m]
    /\ Goto(t, "check")
    /\ UNCHANGED <<poolVars, due, conn, sessionVars, overflow>>

\* _health_check_if_needed: the interval is tested and the time stamped
\* without the lock, so two threads may both find the check due.
CheckDue(t) ==
    /\ pc[t] = "check"
    /\ Goto(t, IF due THEN "stamp" ELSE "find")
    /\ UNCHANGED <<poolVars, due, conn, managed, acquires, sessionVars, overflow>>

Stamp(t) ==
    /\ pc[t] = "stamp"
    /\ due' = FALSE
    /\ Goto(t, "health")
    /\ UNCHANGED <<poolVars, conn, managed, acquires, sessionVars, overflow>>

\* Faulty variant: unanswering connections are disconnected but stay pooled.
HealthCheckKeeps(t) ==
    /\ pc[t] = "health"
    /\ \E bad \in SUBSET pool :
          /\ pool \cap dead \subseteq bad
          /\ closed' = closed \cup bad
          /\ stats' = [stats EXCEPT !.reconnected = @ + Cardinality(bad)]
    /\ Goto(t, "find")
    /\ UNCHANGED <<pool, useCount, due, conn, managed, acquires, opened, dead, expired,
                   overflow>>

\* Under the lock, every connection that does not answer is removed and
\* disconnected; a transient error makes a live one look dead.
HealthCheck(t) ==
    /\ pc[t] = "health"
    /\ \E bad \in SUBSET pool :
          /\ pool \cap dead \subseteq bad
          /\ pool' = pool \ bad
          /\ closed' = closed \cup bad
          /\ stats' = [stats EXCEPT !.reconnected = @ + Cardinality(bad)]
    /\ Goto(t, "find")
    /\ UNCHANGED <<useCount, due, conn, managed, acquires, opened, dead, expired, overflow>>

LeastUsed(S) == {c \in S : \A d \in S : useCount[c] <= useCount[d]}

\* Faulty variant: the TTL is not looked at.
FindAny(t) ==
    /\ pc[t] = "find"
    /\ \/ /\ pool = {}
          /\ Goto(t, "connect")
          /\ UNCHANGED <<conn, useCount, stats>>
       \/ \E c \in LeastUsed(pool) :
             /\ conn' = [conn EXCEPT ![t] = c]
             /\ useCount' = [useCount EXCEPT ![c] = @ + 1]
             /\ stats' = [stats EXCEPT !.reused = @ + 1]
             /\ Goto(t, "using")
    /\ UNCHANGED <<pool, due, managed, acquires, sessionVars, overflow>>

\* Under the lock: _find_healthy drops and disconnects what outlived its TTL;
\* the least used survivor, if there is one, is handed out but stays pooled.
FindHealthy(t) ==
    LET survivors == pool \ expired
    IN  /\ pc[t] = "find"
        /\ pool' = survivors
        /\ closed' = closed \cup (pool \cap expired)
        /\ \/ /\ survivors = {}
              /\ Goto(t, "connect")
              /\ UNCHANGED <<conn, useCount, stats>>
           \/ \E c \in LeastUsed(survivors) :
                 /\ conn' = [conn EXCEPT ![t] = c]
                 /\ useCount' = [useCount EXCEPT ![c] = @ + 1]
                 /\ stats' = [stats EXCEPT !.reused = @ + 1]
                 /\ Goto(t, "using")
        /\ UNCHANGED <<due, managed, acquires, opened, dead, expired, overflow>>

\* _create_new: SmartConnect runs outside the lock.
Connect(t) ==
    /\ pc[t] = "connect" /\ Ready
    /\ \E c \in Conns \ opened :
          /\ opened' = opened \cup {c}
          /\ conn' = [conn EXCEPT ![t] = c]
          /\ useCount' = [useCount EXCEPT ![c] = 1]
    /\ Goto(t, "publish")
    /\ UNCHANGED <<pool, stats, due, managed, acquires, closed, dead, expired, overflow>>

\* Without credentials it raises before it tries, and counts nothing.
ConnectFail(t) ==
    /\ pc[t] = "connect"
    /\ stats' = IF Ready THEN [stats EXCEPT !.failed = @ + 1] ELSE stats
    /\ Goto(t, "idle")
    /\ UNCHANGED <<pool, useCount, due, conn, managed, acquires, sessionVars, overflow>>

\* Faulty variants: the room in the pool is not tested again after connecting;
\* only a pooled connection is counted.
PublishUnchecked(t) ==
    /\ pc[t] = "publish"
    /\ pool' = pool \cup {conn[t]}
    /\ stats' = [stats EXCEPT !.created = @ + 1]
    /\ Goto(t, "using")
    /\ UNCHANGED <<useCount, due, conn, managed, acquires, sessionVars, overflow>>

PublishCountsPooled(t) ==
    /\ pc[t] = "publish"
    /\ IF Cardinality(pool) < MaxPool
       THEN /\ pool' = pool \cup {conn[t]} /\ UNCHANGED overflow
            /\ stats' = [stats EXCEPT !.created = @ + 1]
       ELSE overflow' = overflow \cup {conn[t]} /\ UNCHANGED <<pool, stats>>
    /\ Goto(t, "using")
    /\ UNCHANGED <<useCount, due, conn, managed, acquires, sessionVars>>

\* Back under the lock: pooled only if the pool still has room.
Publish(t) ==
    /\ pc[t] = "publish"
    /\ IF Cardinality(pool) < MaxPool
       THEN pool' = pool \cup {conn[t]} /\ UNCHANGED overflow
       ELSE overflow' = overflow \cup {conn[t]} /\ UNCHANGED pool
    /\ stats' = [stats EXCEPT !.created = @ + 1]
    /\ Goto(t, "using")
    /\ UNCHANGED <<useCount, due, conn, managed, acquires, sessionVars>>

-----------------------------------------------------------------------------
(* Using and giving up a connection.  There is no release: a pooled          *)
(* connection is shared, and an unpooled one is simply dropped.              *)

UseOk(t) ==
    /\ pc[t] = "using" /\ conn[t] \notin dead \cup closed
    /\ conn' = [conn EXCEPT ![t] = NoConn]
    /\ Goto(t, "idle")
    /\ UNCHANGED <<poolVars, due, managed, acquires, sessionVars, overflow>>

\* The body raises: the context manager ejects the connection, a raw user of
\* acquire().si leaves it in the pool.
UseFail(t) ==
    /\ pc[t] = "using"
    /\ IF managed[t]
       THEN Goto(t, "eject") /\ UNCHANGED conn
       ELSE Goto(t, "idle") /\ conn' = [conn EXCEPT ![t] = NoConn]
    /\ UNCHANGED <<poolVars, due, managed, acquires, sessionVars, overflow>>

\* Faulty variant: _eject forgets to disconnect.
EjectOnly(t) ==
    /\ pc[t] = "eject"
    /\ pool' = pool \ {conn[t]}
    /\ Goto(t, "idle")
    /\ UNCHANGED <<useCount, stats, due, conn, managed, acquires, sessionVars, overflow>>

\* _eject: removal under the lock, Disconnect after it.
Eject(t) ==
    /\ pc[t] = "eject"
    /\ pool' = pool \ {conn[t]}
    /\ Goto(t, "disconnect")
    /\ UNCHANGED <<useCount, stats, due, conn, managed, acquires, sessionVars, overflow>>

DisconnectOne(t) ==
    /\ pc[t] = "disconnect"
    /\ closed' = closed \cup {conn[t]}
    /\ conn' = [conn EXCEPT ![t] = NoConn]
    /\ Goto(t, "idle")
    /\ UNCHANGED <<poolVars, due, managed, acquires, opened, dead, expired, overflow>>

\* disconnect_all (VMwareClientFactory.disconnect), whoever uses the sessions.
DisconnectAll(t) ==
    /\ pc[t] = "idle" /\ pool # {}
    /\ closed' = closed \cup pool
    /\ pool' = {}
    /\ UNCHANGED <<useCount, stats, due, threadVars, acquires, opened, dead, expired, overflow>>

-----------------------------------------------------------------------------
(* Time and vCenter. *)

HealthCheckFallsDue ==
    /\ ~due /\ due' = TRUE
    /\ UNCHANGED <<poolVars, threadVars, acquires, sessionVars, overflow>>

OutliveTTL(c) ==
    /\ c \in opened \ expired
    /\ expired' = expired \cup {c}
    /\ UNCHANGED <<poolVars, due, threadVars, acquires, opened, closed, dead, overflow>>

SessionDies(c) ==
    /\ c \in opened \ dead
    /\ dead' = dead \cup {c}
    /\ UNCHANGED <<poolVars, due, threadVars, acquires, opened, closed, expired, overflow>>

ThreadStep(t) ==
    \/ Acquire(t) \/ CheckDue(t) \/ Stamp(t) \/ HealthCheck(t) \/ FindHealthy(t)
    \/ Connect(t) \/ ConnectFail(t) \/ Publish(t)
    \/ UseOk(t) \/ UseFail(t) \/ Eject(t) \/ DisconnectOne(t)
    \/ DisconnectAll(t)

Environment ==
    \/ HealthCheckFallsDue
    \/ \E c \in Conns : OutliveTTL(c) \/ SessionDies(c)

Next == (\E t \in Threads : ThreadStep(t)) \/ Environment

Spec == Init /\ [][Next]_vars
-----------------------------------------------------------------------------
(* Properties. *)

\* The pool's list, counters and sessions and the threads' locals keep their
\* types; every step a thread can be at is one of acquire, use or _eject.
TypeOK ==
    /\ pool \subseteq Conns
    /\ useCount \in [Conns -> Nat]
    /\ due \in BOOLEAN
    /\ stats \in [created : Nat, reused : Nat, reconnected : Nat, failed : Nat]
    /\ pc \in [Threads -> Steps]
    /\ conn \in [Threads -> Conns \cup {NoConn}]
    /\ managed \in [Threads -> BOOLEAN]
    /\ acquires \in Nat
    /\ opened \subseteq Conns /\ closed \subseteq Conns
    /\ dead \subseteq Conns /\ expired \subseteq Conns /\ overflow \subseteq Conns

\* _create_new: however many threads connect at once outside the lock, the
\* pool never holds more than max_pool_size connections.
PoolBounded == Cardinality(pool) <= MaxPool

\* Every path that disconnects a session (expiry, health check, eject,
\* disconnect_all) has taken it out of the pool: acquire never finds a session
\* in the pool that this process closed.
PooledAreOpen == pool \subseteq opened \ closed

\* The only sessions nobody will ever disconnect are those created while the
\* pool was full: any other open session is pooled, about to be published, or
\* about to be disconnected by the thread that ejected it.
LeakOnlyByOverflow ==
    \A c \in opened \ closed :
        \/ c \in pool \cup overflow
        \/ \E t \in Threads : conn[t] = c /\ pc[t] \in {"publish", "disconnect"}

\* acquire: a connection taken from the pool is neither closed by this process
\* nor past its TTL when it is handed out, whatever the other threads did
\* since it was pooled.
ReuseIsFresh ==
    [][\A t \in Threads : pc[t] = "find" /\ pc'[t] = "using"
          => conn'[t] \in opened \ (closed' \cup expired)]_vars

\* get_stats: with credentials set, the counters account for every call of
\* acquire() that has ended; the threads interleaving in _create_new lose none.
StatsBalance ==
    Ready => stats.created + stats.reused + stats.failed
        = acquires - Cardinality({t \in Threads :
                pc[t] \in {"check", "stamp", "health", "find", "connect", "publish"}})
=============================================================================
