------------------------------ MODULE MCThreads ------------------------------
(* What the threads of the API processes share, in one run: the vCenter pool,   *)
(* the caches of lists, their counters and the singletons of a starting         *)
(* process.  The four share no variable; a behaviour is one of any of them, in  *)
(* which the others stay as they begin.  The lists are read by three threads in *)
(* two processes.                                                               *)
EXTENDS VMwarePool, ListCache, CacheMetrics, ColdStart, TLC

CONSTANTS r1, r2, r3, w1, w2

VARIABLE part     \* whose behaviour it is

TwoProcesses == (r1 :> w1) @@ (r2 :> w1) @@ (r3 :> w2)

ThreadsInit ==
    /\ part \in {"pool", "lists", "counters", "start"}
    /\ Init
    /\ ListInit /\ (part # "lists" => onRedis = {})
    /\ MetricsInit /\ (part # "counters" => ~redis)
    /\ ColdInit

ThreadsNext ==
    /\ UNCHANGED part
    /\ \/ part = "pool" /\ Next /\ UNCHANGED <<listVars, metricsVars, coldVars>>
       \/ part = "lists" /\ ListNext /\ UNCHANGED <<vars, metricsVars, coldVars>>
       \/ part = "counters" /\ MetricsNext /\ UNCHANGED <<vars, listVars, coldVars>>
       \/ part = "start" /\ ColdNext /\ UNCHANGED <<vars, listVars, metricsVars>>

ThreadsSpec == ThreadsInit /\ [][ThreadsNext]_<<part, vars, listVars, metricsVars, coldVars>>
=============================================================================
