---------------------------- MODULE FlushPipeline ----------------------------
(***************************************************************************)
(* The two batch writers of one server process and the lifespan that stops *)
(* them: audit entries (services/core/audit_service.py) and metric records *)
(* (services/monitoring/monitoring_service.py) are put on an unbounded     *)
(* asyncio queue; a background task per queue takes them, collects them in *)
(* a local batch and writes the batch in one transaction.  On shutdown the *)
(* lifespan (main.py) puts a None sentinel, drains the audit queue itself, *)
(* puts the metric sentinel, cancels both tasks and awaits them.           *)
(*                                                                         *)
(* Everything runs on one event loop, so the code between two awaits that  *)
(* suspend is one action.  An entry carries a fresh uuid; here it is its   *)
(* position in the order in which its queue accepted it (1, 2, ...).       *)
(***************************************************************************)
EXTENDS Integers, Sequences, FiniteSets

CONSTANTS
    BatchSize,     \* _BATCH_SIZE and _METRIC_BATCH_SIZE, per pipe
    MaxEntries,    \* bound: entries a pipe accepts in one behaviour
    Interpreters,  \* what `detached` may be
    FlushMayFail   \* whether a transaction may raise

Pipes == {"audit", "metric"}

ASSUME BatchSizeAssumption  == BatchSize \in [Pipes -> Nat \ {0}]
ASSUME MaxEntriesAssumption == MaxEntries \in [Pipes -> Nat]
ASSUME BooleanAssumption    == Interpreters \subseteq BOOLEAN /\ FlushMayFail \in BOOLEAN

None == 0          \* the sentinel of enqueue_shutdown_signal

VARIABLES
    detached,      \* TRUE: asyncio.wait_for runs queue.get() in a task of its
                   \* own (Python 3.11, the Dockerfile's); FALSE: it awaits it
                   \* in the calling task (3.12 and later)
    accepted,      \* how many entries the pipe's queue has accepted
    queue,         \* _AUDIT_QUEUE, _METRIC_QUEUE
    got,           \* <<>> or the item the inner get() task holds for wait_for
    batch,         \* the worker's local list
    wpc,           \* where the worker task is suspended, or how it ended
    remaining,     \* the local list of drain_audit_queue while it is flushed
    db,            \* rows committed, in commit order
    phase          \* where the lifespan is

vars == <<accepted, queue, got, batch, wpc, remaining, db, phase>>
allVars == <<detached, vars>>

\* "flushing" is the flush inside the try, "timeoutFlush" the one in the except
\* clause, "finalFlush" the one after the loop.
Flushes == {"flushing", "timeoutFlush", "finalFlush"}
WorkerStates == Flushes \cup {"waiting", "expiring", "done", "cancelled", "dead"}
Phases == {"serving", "stopping", "draining", "awaitAudit", "awaitMetric",
           "exited", "failed"}

Stopped(p) == wpc[p] \in {"done", "cancelled", "dead"}

Entries(s) == {s[i] : i \in 1..Len(s)}

Init ==
    /\ detached \in Interpreters
    /\ accepted  = [p \in Pipes |-> 0]
    /\ queue     = [p \in Pipes |-> <<>>]
    /\ got       = [p \in Pipes |-> <<>>]
    /\ batch     = [p \in Pipes |-> <<>>]
    /\ wpc       = [p \in Pipes |-> "waiting"]
    /\ remaining = <<>>
    /\ db        = [p \in Pipes |-> <<>>]
    /\ phase     = "serving"

-----------------------------------------------------------------------------
(* Producers. *)

Put(p) ==
    /\ accepted[p] < MaxEntries[p]
    /\ accepted' = [accepted EXCEPT ![p] = @ + 1]
    /\ queue' = [queue EXCEPT ![p] = Append(@, accepted[p] + 1)]
    /\ UNCHANGED <<got, batch, wpc, remaining, db, phase>>

\* The middleware enqueues one entry in the finally clause of every HTTP
\* request; the ASGI server runs the shutdown half of the lifespan only after
\* the last request has ended.
AuditRequest == phase = "serving" /\ Put("audit")

RecordMetric == phase = "serving" /\ Put("metric")

-----------------------------------------------------------------------------
(* A flush worker. *)

\* What the worker does with an item wait_for returned, up to its next await.
Handle(p, item) ==
    IF item = None
    THEN /\ wpc' = [wpc EXCEPT ![p] = IF batch[p] = <<>> THEN "done" ELSE "finalFlush"]
         /\ UNCHANGED batch
    ELSE /\ batch' = [batch EXCEPT ![p] = Append(@, item)]
         /\ wpc' = [wpc EXCEPT ![p] =
                      IF Len(batch[p]) + 1 >= BatchSize[p] THEN "flushing" ELSE "waiting"]

\* The task wait_for made for queue.get() completes; the worker itself is
\* resumed only in a later iteration of the event loop.
InnerGet(p) ==
    /\ detached
    /\ wpc[p] = "waiting" /\ got[p] = <<>> /\ queue[p] # <<>>
    /\ got' = [got EXCEPT ![p] = <<Head(queue[p])>>]
    /\ queue' = [queue EXCEPT ![p] = Tail(@)]
    /\ UNCHANGED <<accepted, batch, wpc, remaining, db, phase>>

Resume(p) ==
    /\ wpc[p] = "waiting" /\ got[p] # <<>>
    /\ got' = [got EXCEPT ![p] = <<>>]
    /\ Handle(p, Head(got[p]))
    /\ UNCHANGED <<accepted, queue, remaining, db, phase>>

DirectGet(p) ==
    /\ ~detached
    /\ wpc[p] = "waiting" /\ queue[p] # <<>>
    /\ queue' = [queue EXCEPT ![p] = Tail(@)]
    /\ Handle(p, Head(queue[p]))
    /\ UNCHANGED <<accepted, got, remaining, db, phase>>

\* Faulty variant: the timer wins over an item already taken, which is lost.
TimerDropsItem(p) ==
    /\ wpc[p] = "waiting"
    /\ got' = [got EXCEPT ![p] = <<>>]
    /\ wpc' = [wpc EXCEPT ![p] = "expiring"]
    /\ UNCHANGED <<accepted, queue, batch, remaining, db, phase>>

\* wait_for's timer releases it with no item: it cancels the pending get(),
\* which leaves the queue alone, and then raises TimeoutError.
TimerFires(p) ==
    /\ wpc[p] = "waiting" /\ got[p] = <<>>
    /\ wpc' = [wpc EXCEPT ![p] = "expiring"]
    /\ UNCHANGED <<accepted, queue, got, batch, remaining, db, phase>>

\* Faulty variant: the timeout is ignored.
IgnoreTimeout(p) ==
    /\ wpc[p] = "expiring"
    /\ wpc' = [wpc EXCEPT ![p] = "waiting"]
    /\ UNCHANGED <<accepted, queue, got, batch, remaining, db, phase>>

HandleTimeout(p) ==
    /\ wpc[p] = "expiring"
    /\ wpc' = [wpc EXCEPT ![p] = IF batch[p] = <<>> THEN "waiting" ELSE "timeoutFlush"]
    /\ UNCHANGED <<accepted, queue, got, batch, remaining, db, phase>>

\* _flush_batch returns: the batch is cleared and the loop goes on, or, after
\* the sentinel, the worker returns.
FlushOk(p) ==
    /\ wpc[p] \in Flushes
    /\ db' = [db EXCEPT ![p] = @ \o batch[p]]
    /\ batch' = [batch EXCEPT ![p] = <<>>]
    /\ wpc' = [wpc EXCEPT ![p] = IF wpc[p] = "finalFlush" THEN "done" ELSE "waiting"]
    /\ UNCHANGED <<accepted, queue, got, remaining, phase>>

\* Opening the database connection times out inside the try: the except clause,
\* written for wait_for, catches this TimeoutError too and flushes again.
FlushTimesOut(p) ==
    /\ FlushMayFail
    /\ wpc[p] = "flushing"
    /\ wpc' = [wpc EXCEPT ![p] = "timeoutFlush"]
    /\ UNCHANGED <<accepted, queue, got, batch, remaining, db, phase>>

\* _flush_batch raises anything else, or raises outside the try: the task ends
\* and its batch goes with it; the transaction is rolled back, or was committed
\* before the connection failed.
FlushFail(p) ==
    /\ FlushMayFail
    /\ wpc[p] \in Flushes
    /\ db' \in {db, [db EXCEPT ![p] = @ \o batch[p]]}
    /\ batch' = [batch EXCEPT ![p] = <<>>]
    /\ wpc' = [wpc EXCEPT ![p] = "dead"]
    /\ UNCHANGED <<accepted, queue, got, remaining, phase>>

WorkerStep(p) ==
    \/ InnerGet(p)
    \/ Resume(p)
    \/ DirectGet(p)
    \/ TimerFires(p)
    \/ HandleTimeout(p)
    \/ FlushOk(p)
    \/ FlushTimesOut(p)
    \/ FlushFail(p)

AuditFlushWorker  == WorkerStep("audit")
MetricFlushWorker == WorkerStep("metric")

-----------------------------------------------------------------------------
(* The shutdown half of the lifespan. *)

\* The server stops: the cache sync task is cancelled and on_shutdown disposes
\* the engine's connections (the session maker opens new ones on demand).
BeginShutdown ==
    /\ phase = "serving"
    /\ phase' = "stopping"
    /\ UNCHANGED <<accepted, queue, got, batch, wpc, remaining, db>>

\* The state of a worker after task.cancel().  A wait_for whose inner get()
\* has an item, or is scheduled to take one, returns the item and swallows the
\* cancellation (Python 3.11); anywhere else CancelledError ends the worker.
Swallows(p, q) ==
    /\ detached
    /\ wpc[p] = "waiting"
    /\ got[p] # <<>> \/ q # <<>>

\* Faulty variant: only the metric worker is cancelled.
CancelMetricOnly(auditQ) ==
    LET q == [audit |-> auditQ, metric |-> Append(queue["metric"], None)]
        fetches == {p \in {"metric"} : Swallows(p, q[p]) /\ got[p] = <<>>}
        ends    == {p \in {"metric"} : ~Stopped(p) /\ ~Swallows(p, q[p])}
    IN  /\ got' = [p \in Pipes |-> IF p \in fetches THEN <<Head(q[p])>> ELSE got[p]]
        /\ queue' = [p \in Pipes |-> IF p \in fetches THEN Tail(q[p]) ELSE q[p]]
        /\ wpc' = [p \in Pipes |-> IF p \in ends THEN "cancelled" ELSE wpc[p]]
        /\ batch' = [p \in Pipes |-> IF p \in ends THEN <<>> ELSE batch[p]]
        /\ phase' = "awaitAudit"

\* enqueue_metric_shutdown, audit_flush.cancel(), metric_flush.cancel(): no
\* await between them suspends.  auditQ is the audit queue at that moment.
CancelWorkers(auditQ) ==
    LET q == [audit |-> auditQ, metric |-> Append(queue["metric"], None)]
        fetches == {p \in Pipes : Swallows(p, q[p]) /\ got[p] = <<>>}
        ends    == {p \in Pipes : ~Stopped(p) /\ ~Swallows(p, q[p])}
    IN  /\ got' = [p \in Pipes |-> IF p \in fetches THEN <<Head(q[p])>> ELSE got[p]]
        /\ queue' = [p \in Pipes |-> IF p \in fetches THEN Tail(q[p]) ELSE q[p]]
        /\ wpc' = [p \in Pipes |-> IF p \in ends THEN "cancelled" ELSE wpc[p]]
        /\ batch' = [p \in Pipes |-> IF p \in ends THEN <<>> ELSE batch[p]]
        /\ phase' = "awaitAudit"

\* A transaction interrupted by CancelledError was committed or it was not.
Interrupted == {p \in Pipes : wpc[p] \in Flushes}

CommittedAfterCancel(rows) ==
    {[p \in Pipes |-> IF p \in committed THEN rows[p] \o batch[p] ELSE rows[p]] :
        committed \in SUBSET Interrupted}

\* Faulty variant: the queue is emptied but never flushed.
DrainDropsQueue ==
    /\ phase = "stopping"
    /\ CancelWorkers(<<>>)
    /\ db' \in CommittedAfterCancel(db)
    /\ UNCHANGED <<accepted, remaining>>

\* enqueue_shutdown_signal and the loop of drain_audit_queue: the sentinel is
\* put behind the entries and taken again, and skipped, before any other task
\* runs; no other None is ever in this queue.  With nothing to flush the
\* lifespan goes straight on to cancel the workers.
Drain ==
    /\ phase = "stopping"
    /\ LET drained == queue["audit"]
       IN  IF drained = <<>>
           THEN /\ CancelWorkers(<<>>)
                /\ db' \in CommittedAfterCancel(db)
                /\ UNCHANGED remaining
           ELSE /\ remaining' = drained
                /\ queue' = [queue EXCEPT !["audit"] = <<>>]
                /\ phase' = "draining"
                /\ UNCHANGED <<got, batch, wpc, db>>
    /\ UNCHANGED accepted

DrainFlushOk ==
    /\ phase = "draining"
    /\ remaining' = <<>>
    /\ CancelWorkers(queue["audit"])
    /\ db' \in CommittedAfterCancel([db EXCEPT !["audit"] = @ \o remaining])
    /\ UNCHANGED accepted

\* The exception leaves the lifespan: no worker is cancelled or awaited.
DrainFlushFail ==
    /\ FlushMayFail
    /\ phase = "draining"
    /\ remaining' = <<>>
    /\ db' \in {db, [db EXCEPT !["audit"] = @ \o remaining]}
    /\ phase' = "failed"
    /\ UNCHANGED <<accepted, queue, got, batch, wpc>>

\* await audit_flush, await metric_flush: only CancelledError is caught, so
\* the exception of a worker that died leaves the lifespan.
AwaitAudit ==
    /\ phase = "awaitAudit" /\ Stopped("audit")
    /\ phase' = IF wpc["audit"] = "dead" THEN "failed" ELSE "awaitMetric"
    /\ UNCHANGED <<accepted, queue, got, batch, wpc, remaining, db>>

AwaitMetric ==
    /\ phase = "awaitMetric" /\ Stopped("metric")
    /\ phase' = IF wpc["metric"] = "dead" THEN "failed" ELSE "exited"
    /\ UNCHANGED <<accepted, queue, got, batch, wpc, remaining, db>>

Lifespan ==
    \/ BeginShutdown
    \/ Drain
    \/ DrainFlushOk
    \/ DrainFlushFail
    \/ AwaitAudit
    \/ AwaitMetric

Next ==
    /\ \/ AuditRequest
       \/ RecordMetric
       \/ AuditFlushWorker
       \/ MetricFlushWorker
       \/ Lifespan
    /\ UNCHANGED detached

\* A runnable task of the event loop is eventually run, the timer fires and
\* the database eventually answers.  A get() with an item at hand runs within
\* an iteration of the loop while the timer takes seconds, so the timer cannot
\* pre-empt it for ever (strong fairness).  Nothing obliges a request to come
\* or the server to stop.
Fairness ==
    /\ \A p \in Pipes :
          /\ SF_vars(InnerGet(p)) /\ SF_vars(DirectGet(p))
          /\ WF_vars(Resume(p)) /\ WF_vars(TimerFires(p)) /\ WF_vars(HandleTimeout(p))
          /\ WF_vars(FlushOk(p) \/ FlushFail(p))
    /\ WF_vars(Drain) /\ WF_vars(DrainFlushOk \/ DrainFlushFail)
    /\ WF_vars(AwaitAudit) /\ WF_vars(AwaitMetric)

Spec == Init /\ [][Next]_allVars /\ Fairness
-----------------------------------------------------------------------------
(* Properties. *)

\* Every variable keeps the shape the code gives it; in particular a batch
\* never outgrows the size at which the worker flushes it.
TypeOK ==
    /\ detached \in BOOLEAN
    /\ \A p \in Pipes :
          /\ accepted[p] \in 0..MaxEntries[p]
          /\ \A s \in {queue[p], got[p]} : Entries(s) \subseteq 0..accepted[p]
          /\ \A s \in {batch[p], db[p]} : Entries(s) \subseteq 1..accepted[p]
          /\ Len(got[p]) <= 1
          /\ Len(batch[p]) <= BatchSize[p]
          /\ wpc[p] \in WorkerStates
    /\ Entries(remaining) \subseteq 1..accepted["audit"]
    /\ phase \in Phases

\* The items of a pipe that are still in memory, oldest first.
InMemory(p) == batch[p] \o got[p] \o queue[p]

\* audit_flush_worker, metric_flush_worker: while the server runs and the
\* worker lives, the committed rows followed by the items in memory are every
\* accepted entry, once each and in the order of acceptance: nothing is lost,
\* doubled or reordered by the hand-over from queue to get() task to batch to
\* transaction, whatever the timer does.
FifoWhileServing ==
    \A p \in Pipes :
        phase \in {"serving", "stopping"} /\ wpc[p] # "dead"
            => db[p] \o InMemory(p) = [i \in 1..accepted[p] |-> i]

\* _flush_batch and drain_audit_queue, from start to exit: no entry is written
\* twice, although the worker and the drain write concurrently and a failed or
\* interrupted transaction may have been committed.
AtMostOnce ==
    \A p \in Pipes : \A i, j \in 1..Len(db[p]) : db[p][i] = db[p][j] => i = j

\* A worker that ends by itself has seen the sentinel behind every entry:
\* nothing its queue accepted is missing from the table.
DoneMeansPersisted ==
    \A p \in Pipes : wpc[p] = "done" => Entries(db[p]) = 1..accepted[p]

\* What the two pipelines promise of what is written: in order and complete while
\* the server runs, never twice, and complete when a worker ends by itself.
LogIsFaithful == FifoWhileServing /\ AtMostOnce /\ DoneMeansPersisted

\* A shutdown that reached its last awaits has lost at most one batch of audit
\* entries: those in the worker's local list when it was cancelled or died.
AuditLossBounded ==
    phase \in {"awaitMetric", "exited"} =>
        Cardinality((1..accepted["audit"]) \ Entries(db["audit"])) <= BatchSize["audit"]

\* "Drain remaining entries on shutdown" (audit_flush_worker) and "Force-flush
\* all pending entries" (drain_audit_queue): after an orderly shutdown every
\* accepted audit entry is in the table.
GracefulShutdownKeepsAudit ==
    phase = "exited" => Entries(db["audit"]) = 1..accepted["audit"]

\* While the server keeps running and the worker lives, an accepted entry is
\* eventually committed: the timer flushes a batch that never fills up.
EventuallyPersisted ==
    \A p \in Pipes : \A e \in 1..MaxEntries[p] :
        accepted[p] >= e ~> e \in Entries(db[p]) \/ phase # "serving" \/ wpc[p] = "dead"

\* The lifespan under Python 3.12 and later: a shutdown that began ends, since
\* every worker that is cancelled stops or has its sentinel still to read.
CancelledShutdownEnds ==
    phase = "stopping" /\ ~detached ~> phase \in {"exited", "failed"}
=============================================================================
