------------------------------ MODULE FlushClock ------------------------------
(***************************************************************************)
(* The timing of a flush worker (audit_flush_worker): wait_for starts a    *)
(* new timer for every get(), so an entry that arrives restarts the        *)
(* interval.  Time is counted in ticks and only while the worker waits for *)
(* an entry: what an entry spends in the queue before it is taken, and the *)
(* duration of the transaction that ends a batch, come on top.             *)
(***************************************************************************)
EXTENDS Integers

CONSTANTS BatchSize, Interval      \* _BATCH_SIZE, _FLUSH_INTERVAL

ASSUME BatchSizeAssumption == BatchSize \in Nat \ {0}
ASSUME IntervalAssumption  == Interval \in Nat \ {0}

VARIABLES
    size,      \* len(batch)
    timer,     \* ticks since the pending wait_for began
    age        \* ticks since the oldest entry of the batch was taken

vars == <<size, timer, age>>

Init == size = 0 /\ timer = 0 /\ age = 0

\* wait_for returns an entry: append, flush a full batch, wait again.
Arrive ==
    /\ timer' = 0
    /\ IF size + 1 >= BatchSize
       THEN size' = 0 /\ age' = 0
       ELSE size' = size + 1 /\ UNCHANGED age

\* Faulty variant: the timeout is ignored.
TimeoutIgnored ==
    /\ timer = Interval
    /\ timer' = 0
    /\ UNCHANGED <<size, age>>

\* TimeoutError: flush what there is, wait again.
Timeout ==
    /\ timer = Interval
    /\ timer' = 0
    /\ size' = 0 /\ age' = 0

\* The timer fires when it is due, so no tick passes it.
Tick ==
    /\ timer < Interval
    /\ timer' = timer + 1
    /\ age' = IF size = 0 THEN 0 ELSE age + 1
    /\ UNCHANGED size

Next == Arrive \/ Timeout \/ Tick

Spec == Init /\ [][Next]_vars
-----------------------------------------------------------------------------
\* The batch stays below the size at which it is flushed, and the timer within
\* its interval.
TypeOK ==
    /\ size \in 0..(BatchSize - 1)
    /\ timer \in 0..Interval
    /\ age \in Nat

\* audit_flush_worker: each entry of the batch restarted the timer at most once,
\* and each time before it fired.
AgeExplained ==
    IF size = 0 THEN age = 0 ELSE age <= (size - 1) * Interval + timer

\* audit_flush_worker: an entry that was taken from the queue waits for its
\* transaction no longer than one interval for each entry that can join its batch
\* before the batch is full.
DelayBounded == age <= (BatchSize - 1) * Interval

\* The docstring of audit_flush_worker and security_hardening_report.md, "20 entries
\* or 2 seconds, whichever comes first": no entry of a batch waits longer than one
\* interval for its transaction.
FlushedWithinInterval == age <= Interval
=============================================================================
