--------------------------- MODULE TrackedOperation ---------------------------
(***************************************************************************)
(* A mutating request, from the operation task it opens to the reply       *)
(* (api/v1/endpoints, services/core/operation_task_service): create the    *)
(* task, mark it running, call the service, mark it succeeded; on an       *)
(* exception mark it failed and raise.  Several processes serve the        *)
(* requests.  A service that uses an SDK holds the event loop of its       *)
(* process from its lookup to its last call; one that uses the database    *)
(* awaits between them.                                                    *)
(*                                                                         *)
(* All requests of a behaviour are on one kind of resource and name the    *)
(* same resource, the only way in which they can meet.                     *)
(***************************************************************************)
EXTENDS Endpoints, OperationTask, FiniteSets

CONSTANT Workers      \* server processes

VARIABLES
    home, op,     \* the process of each request, and its operation
    objects,      \* how many resources have the name
    pc,           \* where each request is
    reply,        \* what the client got
    done,         \* how many of its calls took effect
    made,         \* how many of them returned (created, in batch_deploy)
    late,         \* requests that gave up on a call that may still take effect
    lost          \* requests one of whose calls raised or was cut off

callVars == <<objects, done, made, late, lost>>
vars == <<home, op, pc, reply, taskVars, callVars>>

Init ==
    /\ home \in [Requests -> Workers]
    /\ \E family \in Families : op \in [Requests -> family]
    /\ objects \in {0, 1}
    /\ pc = [r \in Requests |-> "idle"]
    /\ TaskInit
    /\ reply = [r \in Requests |-> "none"]
    /\ done = [r \in Requests |-> 0]
    /\ made = [r \in Requests |-> 0]
    /\ late = {} /\ lost = {}

\* Faulty variant: the SDK calls are awaited.
BlocksNever(r) == FALSE

\* r is inside a call that does not let its event loop go: an SDK method, or
\* batch_deploy once it creates servers.
Blocks(r) == pc[r] = "call" /\ (op[r].blocks \/ done[r] > 0)

\* The event loop of r's process can resume r.
Resumed(r) == \A q \in Requests \ {r} : home[q] = home[r] => ~Blocks(q)

Goto(r, step) == pc' = [pc EXCEPT ![r] = step] /\ UNCHANGED reply

End(r, answer) ==
    /\ pc' = [pc EXCEPT ![r] = "done"]
    /\ reply' = [reply EXCEPT ![r] = answer]

-----------------------------------------------------------------------------
(* The task row. *)

\* create_task and update_task(running) are outside the try.
CreateTask(r) ==
    /\ pc[r] = "idle" /\ Resumed(r)
    /\ \/ Write(r, "queued") /\ Goto(r, "queued")
       \/ WriteRaises(r, "queued") /\ End(r, "error")
    /\ UNCHANGED <<home, op, callVars>>

MarkRunning(r) ==
    /\ pc[r] = "queued" /\ Resumed(r)
    /\ \/ Write(r, "running") /\ Goto(r, "serve")
       \/ WriteRaises(r, "running") /\ End(r, "error")
    /\ UNCHANGED <<home, op, callVars>>

\* Faulty variant: a failing update_task(succeeded) is ignored.
MarkSucceededAnyway(r) ==
    /\ pc[r] = "record" /\ Resumed(r)
    /\ \/ /\ op[r].raises = "after" /\ Goto(r, "fail")
          /\ UNCHANGED taskVars
       \/ /\ op[r].raises # "after"
          /\ Write(r, "succeeded") \/ WriteRaises(r, "succeeded")
          /\ End(r, "ok")
    /\ UNCHANGED <<home, op, callVars>>

\* The endpoint reads the result, then update_task(succeeded), still in the try.
MarkSucceeded(r) ==
    /\ pc[r] = "record" /\ Resumed(r)
    /\ \/ /\ op[r].raises = "after" /\ Goto(r, "fail")
          /\ UNCHANGED taskVars
       \/ /\ op[r].raises # "after"
          /\ \/ Write(r, "succeeded") /\ End(r, "ok")
             \/ WriteRaises(r, "succeeded") /\ Goto(r, "fail")
    /\ UNCHANGED <<home, op, callVars>>

\* Faulty variant: the except clause only raises.
RaiseOnly(r) ==
    /\ pc[r] = "fail" /\ Resumed(r)
    /\ End(r, "error")
    /\ UNCHANGED <<home, op, callVars, taskVars>>

\* The except clause: update_task(failed), raise.
MarkFailed(r) ==
    /\ pc[r] = "fail" /\ Resumed(r)
    /\ Write(r, "failed") \/ WriteRaises(r, "failed")
    /\ End(r, "error")
    /\ UNCHANGED <<home, op, callVars>>

-----------------------------------------------------------------------------
(* The service. *)

\* Faulty variant: the lookup polls until the resource is as demanded.
EnterPolls(r) ==
    /\ pc[r] = "serve" /\ Resumed(r)
    /\ op[r].lookup = "absent" => objects = 0
    /\ op[r].lookup = "present" => objects > 0
    /\ IF op[r].raises = "before" THEN Goto(r, "fail") ELSE Goto(r, "call")
    /\ UNCHANGED <<home, op, taskVars, callVars>>

\* Entering the method, and its lookup, which may raise.
Enter(r) ==
    /\ pc[r] = "serve" /\ Resumed(r)
    /\ \/ /\ op[r].raises # "before"
          /\ op[r].lookup = "absent" => objects = 0
          /\ op[r].lookup = "present" => objects > 0
          /\ Goto(r, "call")
       \/ /\ op[r].raises = "before" \/ op[r].lookup # "none"
          /\ Goto(r, "fail")
    /\ UNCHANGED <<home, op, taskVars, callVars>>

\* The store accepts r's next call.  Only the first call of a create makes the
\* resource; a store that is not strict lets a delete find nothing.
Effect(r) ==
    LET first == done[r] = 0
    IN  /\ first /\ op[r].effect = "create" /\ op[r].strict => objects = 0
        /\ first /\ op[r].effect = "delete" /\ op[r].strict => objects > 0
        /\ objects' = CASE first /\ op[r].effect = "create"                 -> objects + 1
                        [] first /\ op[r].effect = "delete" /\ objects > 0  -> objects - 1
                        [] OTHER                                            -> objects
        /\ done' = [done EXCEPT ![r] = @ + 1]

\* Where the method goes on when no call is left.
Return(r) == Goto(r, "record")

Call(r) ==
    /\ pc[r] = "call" /\ Resumed(r)
    /\ Effect(r)
    /\ made' = [made EXCEPT ![r] = @ + 1]
    /\ IF done[r] + 1 = op[r].calls THEN Return(r) ELSE Goto(r, "call")
    /\ UNCHANGED <<home, op, taskVars, late, lost>>

\* The store refuses: the name is taken, or nothing is there to delete.
Refused(r) ==
    /\ pc[r] = "call" /\ Resumed(r) /\ done[r] = 0
    /\ \/ op[r].effect = "create" /\ op[r].strict /\ objects > 0
       \/ op[r].effect = "delete" /\ objects = 0
    /\ Goto(r, "fail")
    /\ UNCHANGED <<home, op, taskVars, callVars>>

\* Faulty variant: batch_deploy counts a server before it is created.
CallRaisesCounted(r) ==
    /\ pc[r] = "call" /\ Resumed(r)
    /\ lost' = lost \cup {r}
    /\ \/ UNCHANGED <<objects, done, late>>
       \/ Effect(r) /\ UNCHANGED late
       \/ late' = late \cup {r} /\ UNCHANGED <<objects, done>>
    /\ made' = [made EXCEPT ![r] = @ + 1]
    /\ IF op[r].tolerant THEN Return(r) ELSE Goto(r, "fail")
    /\ UNCHANGED <<home, op, taskVars>>

\* Faulty variant: every method swallows the exception, as batch_deploy does.
CallRaisesSwallowed(r) ==
    /\ pc[r] = "call" /\ Resumed(r)
    /\ lost' = lost \cup {r}
    /\ \/ UNCHANGED <<objects, done, late>>
       \/ Effect(r) /\ UNCHANGED late
       \/ late' = late \cup {r} /\ UNCHANGED <<objects, done>>
    /\ Return(r)
    /\ UNCHANGED <<home, op, taskVars, made>>

\* A call raises: it had no effect, or its answer was lost, or it takes effect
\* later.  batch_deploy breaks out of its loop, any other method raises.
CallRaises(r) ==
    /\ pc[r] = "call" /\ Resumed(r)
    /\ lost' = lost \cup {r}
    /\ \/ UNCHANGED <<objects, done, late>>
       \/ Effect(r) /\ UNCHANGED late
       \/ late' = late \cup {r} /\ UNCHANGED <<objects, done>>
    /\ IF op[r].tolerant THEN Return(r) ELSE Goto(r, "fail")
    /\ UNCHANGED <<home, op, taskVars, made>>

-----------------------------------------------------------------------------
(* The surroundings. *)

\* A call that was given up reaches the store after all.
LateEffect(r) ==
    /\ r \in late
    /\ Effect(r)
    /\ late' = late \ {r}
    /\ UNCHANGED <<home, op, pc, reply, taskVars, made, lost>>

\* A process dies with all its requests; a call under way may still take effect.
Crash(w) ==
    LET hit == {r \in Requests : home[r] = w /\ pc[r] \notin {"idle", "done", "crashed"}}
        cut == {r \in hit : pc[r] = "call"}
    IN  /\ hit # {}
        /\ pc' = [r \in Requests |-> IF r \in hit THEN "crashed" ELSE pc[r]]
        /\ \E some \in SUBSET cut : late' = late \cup some
        /\ lost' = lost \cup cut
        /\ UNCHANGED <<home, op, reply, taskVars, objects, done, made>>

RequestStep(r) ==
    \/ MarkRunning(r) \/ Enter(r) \/ Call(r) \/ CallRaises(r) \/ Refused(r)
    \/ MarkSucceeded(r) \/ MarkFailed(r)

Next ==
    \/ \E r \in Requests : CreateTask(r) \/ RequestStep(r) \/ LateEffect(r)
    \/ \E w \in Workers : Crash(w)

\* Every await of a request ends (the drivers and SDKs have timeouts), so a
\* request that began goes on while its process lives.
Spec == Init /\ [][Next]_vars /\ \A r \in Requests : WF_vars(RequestStep(r))
-----------------------------------------------------------------------------
(* Properties. *)

PCs == {"idle", "queued", "serve", "call", "record", "fail", "done", "crashed"}

\* The task rows, counters and locals keep their types: no request makes a call
\* it has already made, and none is counted that it did not make.
TypeOK ==
    /\ objects \in Nat
    /\ pc \in [Requests -> PCs]
    /\ task \in [Requests -> {"none", "queued", "running", "succeeded", "failed"}]
    /\ reply \in [Requests -> {"none", "ok", "error"}]
    /\ \A r \in Requests : done[r] \in 0..op[r].calls /\ made[r] \in 0..op[r].calls
    /\ late \subseteq lost /\ lost \subseteq Requests /\ taskLost \subseteq Requests

Lifecycle ==
    INSTANCE OperationLifecycle
        WITH Operations <- Requests, row <- task, effects <- done,
             goal <- [r \in Requests |-> op[r].calls],
             partial <- {r \in Requests : op[r].tolerant}

\* Every request, whatever the others and its process do, implements the
\* lifecycle its row in operation_tasks promises: in particular no lost or late
\* call passes for done, no call takes effect before the row says running or
\* twice, and no decided row is opened again.
ImplementsLifecycle == Lifecycle!Spec

\* The reply and the task row agree: success is only reported with a succeeded
\* task, and an error leaves a succeeded task only when writing it raised.
ReplyMatchesTask ==
    \A r \in Requests :
        /\ reply[r] = "ok" => task[r] = "succeeded"
        /\ reply[r] = "error" /\ task[r] = "succeeded" => r \in taskLost

\* A task that is reported as failed although its operation changed something is
\* explained: a call or a write to the task row raised, or the endpoint reads a
\* field its result does not have.
FailureExplained ==
    \A r \in Requests :
        task[r] = "failed" /\ done[r] > 0
            => r \in lost \cup taskLost \/ op[r].raises = "after"

\* No task is left queued or running by a request that is over, unless its
\* process crashed or a write to the row raised: nothing else cleans up.
UnfinishedExplained ==
    \A r \in Requests :
        reply[r] # "none" /\ task[r] \in {"none", "queued", "running"} => r \in taskLost

\* A row that does not say what happened says so for a reason.
OutcomeExplained == FailureExplained /\ UnfinishedExplained

\* find-then-create (networks, routers, keypairs, clusters): requests in one
\* process never make the name twice, because the event loop is held between
\* the lookup and the create; through the database's unique names, requests in
\* different processes do not either.
NamesUnique ==
    LET creators == {r \in Requests : op[r].effect = "create" /\ done[r] > 0}
    IN  \/ \A r \in creators : op[r].strict
        \/ /\ \A r \in creators : op[r].lookup = "absent" /\ r \notin lost
           /\ \A q, r \in creators : home[q] = home[r]
        => objects <= 1

\* batch_deploy: the number of servers it reports is the number it created,
\* but for one whose call raised.
BatchCountHonest ==
    \A r \in Requests : op[r].tolerant =>
        /\ made[r] <= done[r] /\ done[r] <= made[r] + 1
        /\ done[r] > made[r] => r \in lost

\* A request that began is answered, unless its process crashed.
RequestsEnd == \A r \in Requests : pc[r] # "idle" ~> pc[r] \in {"done", "crashed"}
=============================================================================
