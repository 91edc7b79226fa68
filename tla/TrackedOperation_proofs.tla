----------------------- MODULE TrackedOperation_proofs -----------------------
(***************************************************************************)
(* The safety of the tracked operations and their refinement of the        *)
(* lifecycle, for any requests, processes and instance_count.              *)
(***************************************************************************)
EXTENDS TrackedOperation, TLAPS

\* What the proofs need of a method and of an endpoint's operation: it makes at least one call,
\* and a method that looks for a free name first holds the event loop until it
\* has used it, or the table refuses a second row.
OperationOK(o) ==
    /\ o.calls \in Nat \ {0}
    /\ o.lookup = "absent" => o.blocks \/ o.strict

-----------------------------------------------------------------------------
(* The endpoints. *)

\* The fields that matter of a SessionLocal method.
LEMMA DbMethodFields ==
    ASSUME NEW l, NEW e
    PROVE  /\ DbMethod(l, e).calls = 1 /\ DbMethod(l, e).lookup = l
           /\ e = "create" => DbMethod(l, e).strict
           /\ "calls" \in DOMAIN DbMethod(l, e)
  BY DEF DbMethod, SdkMethod

\* The same of a Kubernetes method.
LEMMA K8sMethodFields ==
    ASSUME NEW e
    PROVE  K8sMethod(e).calls = 1 /\ K8sMethod(e).lookup = "none"
  BY DEF K8sMethod, SdkMethod

\* The methods that the services over the database are made of.
LEMMA DbMethodOK ==
    /\ \A e : OperationOK(DbMethod("none", e)) /\ OperationOK(DbMethod("present", e))
    /\ OperationOK(DbMethod("absent", "create"))
  BY DbMethodFields DEF OperationOK

\* Kubernetes methods look nothing up.
LEMMA K8sMethodOK == \A e : OperationOK(K8sMethod(e))
  BY K8sMethodFields DEF OperationOK

\* A service whose methods all are.
Sound(service) == \A m \in DOMAIN service : OperationOK(service[m])

\* Every method of every service is one the proofs can rely on.
LEMMA ServicesSound ==
    /\ Sound(compute_service) /\ Sound(compute_volumes) /\ Sound(network_service)
    /\ Sound(router_service) /\ Sound(security_group_service) /\ Sound(volume_service)
    /\ Sound(image_service) /\ Sound(flavor_service) /\ Sound(keypair_service)
    /\ Sound(storage_service) /\ Sound(cluster_service) /\ Sound(migration_service)
    /\ Sound(operations_service) /\ Sound(kubernetes_pods) /\ Sound(kubernetes_deployments)
    /\ Sound(kubernetes_services) /\ Sound(tenant_service)
  <1> USE DEF Sound
  <1>1. Sound(compute_service)
    BY DEF compute_service, SdkMethod, OperationOK
  <1>2. Sound(compute_volumes)
    BY DEF compute_volumes, SdkMethod, OperationOK
  <1>3. Sound(network_service)
    BY DEF network_service, SdkMethod, OperationOK
  <1>4. Sound(router_service)
    BY DEF router_service, SdkMethod, OperationOK
  <1>5. Sound(security_group_service)
    BY DEF security_group_service, SdkMethod, OperationOK
  <1>6. Sound(volume_service)
    BY DEF volume_service, SdkMethod, OperationOK
  <1>7. Sound(image_service)
    BY DEF image_service, SdkMethod, OperationOK
  <1>8. Sound(flavor_service)
    BY DEF flavor_service, SdkMethod, OperationOK
  <1>9. Sound(keypair_service)
    <2>1. OperationOK([SdkMethod("absent", "create") EXCEPT !.needs = {"type"}, !.result = "name"])
      BY DEF SdkMethod, OperationOK
    <2>2. OperationOK(SdkMethod("none", "delete"))
      BY DEF SdkMethod, OperationOK
    <2> QED
      BY <2>1, <2>2 DEF keypair_service
  <1>10. Sound(tenant_service)
    BY DEF tenant_service, SdkMethod, OperationOK
  <1>11. Sound(storage_service) /\ Sound(operations_service)
    BY DbMethodOK DEF storage_service, operations_service
  <1>12. Sound(cluster_service)
    <2>1. OperationOK([DbMethod("present", "change") EXCEPT
                        !.calls = InstanceCount, !.tolerant = TRUE, !.args = 2])
      BY DbMethodFields, InstanceCountAssumption DEF OperationOK
    <2> QED
      BY <2>1, DbMethodOK DEF cluster_service
  <1>13. Sound(migration_service)
    <2> DEFINE m == [DbMethod("none", "create") EXCEPT !.strict = FALSE]
    <2>1. OperationOK(m)
      BY DbMethodFields DEF OperationOK
    <2>2. migration_service = [create_migration |-> m]
      BY DEF migration_service
    <2> HIDE DEF m
    <2> QED
      BY <2>1, <2>2
  <1>14. Sound(kubernetes_pods) /\ Sound(kubernetes_services)
    BY K8sMethodOK DEF kubernetes_pods, kubernetes_services
  <1>15. Sound(kubernetes_deployments)
    <2>1. OperationOK([K8sMethod("change") EXCEPT !.args = 2])
      BY K8sMethodFields DEF OperationOK
    <2> QED
      BY <2>1, K8sMethodOK DEF kubernetes_deployments
  <1> QED
    BY <1>1, <1>2, <1>3, <1>4, <1>5, <1>6, <1>7, <1>8, <1>9, <1>10, <1>11, <1>12, <1>13, <1>14, <1>15

\* An endpoint inherits it from its method, or calls nothing.
LEMMA TrackedOK ==
    ASSUME NEW service, Sound(service),
           NEW method, NEW args, NEW payload, NEW reads
    PROVE  OperationOK(Tracked(service, method, args, payload, reads))
  <1>1. OperationOK([SdkMethod("none", "change") EXCEPT !.args = 0])
    BY DEF OperationOK, SdkMethod
  <1> DEFINE m == IF method \in DOMAIN service THEN service[method]
                  ELSE [SdkMethod("none", "change") EXCEPT !.args = 0]
  <1>2. OperationOK(m)
    BY <1>1 DEF Sound
  <1> QED
    BY <1>2 DEF OperationOK, Tracked


\* Every operation of every endpoint file makes a call and uses a name safely.
LEMMA FamiliesOK == \A family \in Families : \A o \in family : OperationOK(o)
  <1> USE ServicesSound, TrackedOK DEF TrackedById
  <1>1. \A o \in servers \cup attachments \cup resizes : OperationOK(o)
    BY DEF servers, attachments, resizes
  <1>2. \A o \in networks \cup routers \cup security_groups \cup volumes : OperationOK(o)
    BY DEF networks, routers, security_groups, volumes
  <1>3. \A o \in images \cup flavors \cup keypairs \cup storage : OperationOK(o)
    BY DEF images, flavors, keypairs, storage
  <1>4. \A o \in clusters \cup migrations \cup scaling_policies \cup scheduled_tasks : OperationOK(o)
    BY DEF clusters, migrations, scaling_policies, scheduled_tasks
  <1>5. \A o \in pods \cup deployments \cup services \cup tenants : OperationOK(o)
    BY DEF pods, deployments, services, tenants
  <1> QED
    BY <1>1, <1>2, <1>3, <1>4, <1>5 DEF Families

-----------------------------------------------------------------------------
(* The inductive invariant. *)

\* The operations and the locals of the requests.
Typed ==
    /\ TypeOK
    /\ done \in [Requests -> Nat] /\ made \in [Requests -> Nat]
    /\ \A r \in Requests : OperationOK(op[r])

\* A request in its service has not met a failure yet, and has a call to make;
\* one that is past it had all its effects or swallowed the exception; one whose
\* call is still under way may have one more.
CallsOK(r) ==
    /\ pc[r] \in {"idle", "queued", "serve"} =>
          done[r] = 0 /\ made[r] = 0 /\ r \notin lost
    /\ pc[r] = "call" =>
          done[r] < op[r].calls /\ made[r] = done[r] /\ r \notin lost
    /\ pc[r] = "record" => op[r].tolerant \/ done[r] = op[r].calls
    /\ r \in late => done[r] = made[r] /\ done[r] < op[r].calls
    /\ made[r] <= done[r] /\ done[r] <= made[r] + 1
    /\ done[r] > made[r] => r \in lost

\* What the row says at each step of the handler.
RowOK(r) ==
    /\ pc[r] = "idle" => task[r] = "none"
    /\ pc[r] = "queued" => task[r] = "queued"
    /\ pc[r] \in {"serve", "call", "record"} => task[r] = "running"
    /\ pc[r] = "fail" => \/ task[r] = "running"
                         \/ task[r] = "succeeded" /\ r \in taskLost
    /\ pc[r] = "fail" /\ done[r] > 0 => r \in lost \cup taskLost \/ op[r].raises = "after"
    /\ task[r] = "failed" => pc[r] = "done"
    /\ reply[r] # "none" <=> pc[r] = "done"
    /\ r \in late \/ done[r] > 0 => task[r] \notin {"none", "queued"}

Creators == {r \in Requests : op[r].effect = "create" /\ done[r] > 0}

\* A lookup that found no resource of the name and holds its event loop is still
\* right, unless a request of another process, one whose call went astray or one
\* that did not look has made the resource since.
LookupHolds ==
    \A r \in Requests :
        /\ pc[r] = "call" /\ done[r] = 0
        /\ op[r].lookup = "absent" /\ op[r].blocks /\ objects > 0
        => \E q \in Creators :
              home[q] # home[r] \/ q \in lost \/ op[q].lookup # "absent"

IInv ==
    /\ Typed
    /\ \A r \in Requests : CallsOK(r) /\ RowOK(r)
    /\ ReplyMatchesTask /\ OutcomeExplained
    /\ LookupHolds /\ NamesUnique

\* No request has begun: nothing is done, nothing lost.
LEMMA InitIInv == Init => IInv
  <1> SUFFICES ASSUME Init PROVE IInv
    OBVIOUS
  <1>1. PICK family \in Families : op \in [Requests -> family]
    BY DEF Init
  <1>2. \A r \in Requests : OperationOK(op[r])
    BY <1>1, FamiliesOK
  <1>3. Typed
    BY <1>2 DEF Init, TaskInit, Typed, TypeOK, PCs, OperationOK
  <1>4. \A r \in Requests : CallsOK(r) /\ RowOK(r)
    BY DEF Init, TaskInit, CallsOK, RowOK
  <1>5. ReplyMatchesTask /\ OutcomeExplained
    BY DEF Init, TaskInit, ReplyMatchesTask, OutcomeExplained, FailureExplained,
           UnfinishedExplained
  <1>6. LookupHolds /\ NamesUnique
    BY DEF Init, LookupHolds, NamesUnique
  <1> QED
    BY <1>3, <1>4, <1>5, <1>6 DEF IInv

\* The names are safe through a step that makes no call.
LEMMA NamesKept ==
    ASSUME IInv, UNCHANGED <<home, op, objects, done>>, lost \subseteq lost',
           \A r \in Requests : pc'[r] = "call" => pc[r] = "call"
    PROVE  LookupHolds' /\ NamesUnique'
  <1>1. Creators' = Creators
    BY DEF Creators
  <1>2. LookupHolds'
    BY <1>1 DEF IInv, LookupHolds
  <1>3. NamesUnique'
    BY DEF IInv, NamesUnique
  <1> QED
    BY <1>2, <1>3

\* The names are safe through a call that takes effect: either its event loop is
\* not held by another request, or its caller is known to have lost it.
LEMMA NamesAfterEffect ==
    ASSUME IInv, NEW r \in Requests, Effect(r), UNCHANGED <<home, op>>, lost \subseteq lost',
           \A q \in Requests : pc'[q] = "call" => pc[q] = "call",
           (pc[r] = "call" /\ Resumed(r)) \/ r \in lost'
    PROVE  LookupHolds' /\ NamesUnique'
  <1>1. /\ Creators \subseteq Creators'
        /\ done[r] = 0 /\ op[r].effect = "create" => r \in Creators'
        /\ \A q \in Requests : done'[q] = 0 => done[q] = 0
    BY DEF Effect, Creators, IInv, Typed
  <1>2. objects \in Nat /\ objects' \in Nat
    BY DEF IInv, Typed, TypeOK, Effect
  <1>3. CASE done[r] = 0 /\ op[r].effect = "create"
    <2>1. objects' = objects + 1 /\ (op[r].strict => objects = 0)
      BY <1>3 DEF Effect
    <2>2. LookupHolds'
      <3> SUFFICES ASSUME NEW q \in Requests, pc'[q] = "call", done'[q] = 0,
                          op[q].lookup = "absent", op[q].blocks
                   PROVE  \E c \in Creators' : home[c] # home[q] \/ c \in lost'
                                                 \/ op[c].lookup # "absent"
        BY DEF LookupHolds
      <3>1. q # r
        BY <1>3 DEF Effect, IInv, Typed
      <3>2. home[r] # home[q] \/ r \in lost'
        BY <3>1 DEF Resumed, Blocks
      <3> QED
        BY <1>1, <1>3, <3>2
    <2>3. NamesUnique'
      <3> SUFFICES ASSUME \/ \A c \in Creators' : op[c].strict
                          \/ /\ \A c \in Creators' : op[c].lookup = "absent" /\ c \notin lost'
                             /\ \A q, c \in Creators' : home[q] = home[c]
                   PROVE  objects = 0
        BY <1>2, <2>1 DEF NamesUnique, Creators
      <3>1. r \in Creators'
        BY <1>1, <1>3
      <3>2. CASE op[r].strict
        BY <2>1, <3>2
      <3>3. CASE ~op[r].strict
        <4>1. op[r].lookup = "absent" /\ r \notin lost'
          BY <3>1, <3>3
        <4>2. op[r].blocks /\ pc[r] = "call"
          BY <3>3, <4>1 DEF IInv, Typed, OperationOK
        <4> SUFFICES ASSUME objects > 0 PROVE FALSE
          BY <1>2
        <4>3. PICK q \in Creators : home[q] # home[r] \/ q \in lost \/ op[q].lookup # "absent"
          BY <1>3, <4>1, <4>2 DEF IInv, LookupHolds
        <4> QED
          BY <1>1, <3>1, <3>3, <4>3
      <3> QED
        BY <3>2, <3>3
    <2> QED
      BY <2>2, <2>3
  <1>4. CASE ~(done[r] = 0 /\ op[r].effect = "create")
    <2>1. objects' <= objects
      BY <1>2, <1>4 DEF Effect
    <2>2. LookupHolds'
      BY <1>1, <1>2, <2>1 DEF IInv, LookupHolds
    <2>3. NamesUnique'
      BY <1>1, <1>2, <2>1 DEF IInv, NamesUnique, Creators
    <2> QED
      BY <2>2, <2>3
  <1> QED
    BY <1>3, <1>4

-----------------------------------------------------------------------------
(* One step. *)

\* A call that is not the last leaves one to make.
LEMMA NotTheLast == \A i, n \in Nat : i < n /\ i + 1 # n => i + 1 < n
  OBVIOUS

\* The parts of the invariant that concern one request.
LEMMA NextRequests ==
    ASSUME IInv, [Next]_vars
    PROVE  /\ Typed' /\ \A q \in Requests : CallsOK(q)' /\ RowOK(q)'
           /\ ReplyMatchesTask' /\ OutcomeExplained'
  <1> USE DEF IInv, Typed, TypeOK, PCs, OperationOK, CallsOK, RowOK, ReplyMatchesTask,
              OutcomeExplained, FailureExplained, UnfinishedExplained,
              Goto, End, Write, WriteRaises, callVars, taskVars
  <1> DEFINE Goal == /\ Typed' /\ \A q \in Requests : CallsOK(q)' /\ RowOK(q)'
                     /\ ReplyMatchesTask' /\ OutcomeExplained'
  <1>1. ASSUME NEW r \in Requests, CreateTask(r) PROVE Goal
    BY <1>1 DEF CreateTask
  <1>2. ASSUME NEW r \in Requests, MarkRunning(r) PROVE Goal
    BY <1>2 DEF MarkRunning
  <1>3. ASSUME NEW r \in Requests, Enter(r) PROVE Goal
    BY <1>3 DEF Enter
  <1>4. ASSUME NEW r \in Requests, Call(r) PROVE Goal
    <2>1. done' = [done EXCEPT ![r] = done[r] + 1] /\ objects' \in Nat
      BY <1>4 DEF Call, Effect
    <2>2. CASE done[r] + 1 = op[r].calls
      BY <1>4, <2>1, <2>2 DEF Call, Return
    <2>3. CASE done[r] + 1 # op[r].calls
      <3>1. done[r] \in Nat /\ op[r].calls \in Nat /\ done[r] < op[r].calls
        BY <1>4 DEF Call
      <3>2. done[r] + 1 < op[r].calls
        BY <2>3, <3>1, NotTheLast
      <3>3. pc' = [pc EXCEPT ![r] = "call"] /\ pc[r] = "call"
        BY <1>4, <2>3 DEF Call
      <3>4. pc' = pc
        BY <3>3
      <3>5. /\ UNCHANGED <<reply, task, taskLost, late, lost, op, home>>
            /\ made' = [made EXCEPT ![r] = made[r] + 1]
        BY <1>4, <2>3 DEF Call
      <3> QED
        BY <2>1, <3>2, <3>3, <3>4, <3>5
    <2> QED
      BY <2>2, <2>3
  <1>5. ASSUME NEW r \in Requests, CallRaises(r) PROVE Goal
    BY <1>5 DEF CallRaises, Effect, Return
  <1>6. ASSUME NEW r \in Requests, Refused(r) PROVE Goal
    BY <1>6 DEF Refused
  <1>7. ASSUME NEW r \in Requests, MarkSucceeded(r) PROVE Goal
    BY <1>7 DEF MarkSucceeded
  <1>8. ASSUME NEW r \in Requests, MarkFailed(r) PROVE Goal
    BY <1>8 DEF MarkFailed
  <1>9. ASSUME NEW r \in Requests, LateEffect(r) PROVE Goal
    BY <1>9 DEF LateEffect, Effect
  <1>10. ASSUME NEW w \in Workers, Crash(w) PROVE Goal
    BY <1>10 DEF Crash
  <1>11. CASE UNCHANGED vars
    BY <1>11 DEF vars
  <1> QED
    BY <1>1, <1>2, <1>3, <1>4, <1>5, <1>6, <1>7, <1>8, <1>9, <1>10, <1>11 DEF Next, RequestStep

\* find-then-create stays safe through every step.
LEMMA NextNames ==
    ASSUME IInv, [Next]_vars
    PROVE  LookupHolds' /\ NamesUnique'
  <1> USE DEF Goto, End, callVars
  <1> DEFINE Goal == LookupHolds' /\ NamesUnique'
  <1>0. pc \in [Requests -> PCs]
    BY DEF IInv, Typed, TypeOK
  <1>1. ASSUME NEW r \in Requests,
               CreateTask(r) \/ MarkRunning(r) \/ Refused(r) \/ MarkSucceeded(r) \/ MarkFailed(r)
        PROVE  Goal
    <2>1. UNCHANGED <<home, op, objects, done, lost>>
      BY <1>1 DEF CreateTask, MarkRunning, Refused, MarkSucceeded, MarkFailed
    <2>2. \A q \in Requests : pc'[q] = "call" => pc[q] = "call"
      BY <1>0, <1>1 DEF CreateTask, MarkRunning, Refused, MarkSucceeded, MarkFailed
    <2> QED
      BY <2>1, <2>2, NamesKept
  <1>2. ASSUME NEW r \in Requests, Enter(r) PROVE Goal
    <2>1. UNCHANGED <<home, op, objects, done, lost>>
      BY <1>2 DEF Enter
    <2>2. Creators' = Creators
      BY <2>1 DEF Creators
    <2>3. \A q \in Requests : pc'[q] = "call" =>
             pc[q] = "call" \/ (op[q].lookup = "absent" => objects = 0)
      BY <1>0, <1>2 DEF Enter
    <2>4. LookupHolds'
      BY <2>1, <2>2, <2>3 DEF IInv, LookupHolds
    <2>5. NamesUnique'
      BY <2>1 DEF IInv, NamesUnique
    <2> QED
      BY <2>4, <2>5
  <1>3. ASSUME NEW r \in Requests, Call(r) PROVE Goal
    <2>1. \A q \in Requests : pc'[q] = "call" => pc[q] = "call"
      BY <1>0, <1>3 DEF Call, Return
    <2>2. Effect(r) /\ Resumed(r) /\ pc[r] = "call" /\ UNCHANGED <<home, op, lost>>
      BY <1>3 DEF Call
    <2> QED
      BY <2>1, <2>2, NamesAfterEffect
  <1>4. ASSUME NEW r \in Requests, CallRaises(r) PROVE Goal
    <2>1. \A q \in Requests : pc'[q] = "call" => pc[q] = "call"
      BY <1>0, <1>4 DEF CallRaises, Return
    <2>2. UNCHANGED <<home, op>> /\ lost \subseteq lost' /\ r \in lost'
      BY <1>4 DEF CallRaises
    <2>3. CASE UNCHANGED <<objects, done>>
      BY <2>1, <2>2, <2>3, NamesKept
    <2>4. CASE Effect(r)
      BY <2>1, <2>2, <2>4, NamesAfterEffect
    <2> QED
      BY <1>4, <2>3, <2>4 DEF CallRaises
  <1>5. ASSUME NEW r \in Requests, LateEffect(r) PROVE Goal
    <2>1. UNCHANGED <<home, op, lost, pc>> /\ Effect(r) /\ r \in lost
      BY <1>5 DEF LateEffect, IInv, Typed, TypeOK
    <2> QED
      BY <2>1, NamesAfterEffect
  <1>6. ASSUME NEW w \in Workers, Crash(w) PROVE Goal
    <2>1. UNCHANGED <<home, op, objects, done>> /\ lost \subseteq lost'
      BY <1>6 DEF Crash
    <2>2. \A q \in Requests : pc'[q] = "call" => pc[q] = "call"
      BY <1>6 DEF Crash
    <2> QED
      BY <2>1, <2>2, NamesKept
  <1>7. CASE UNCHANGED vars
    <2>1. UNCHANGED <<home, op, objects, done, lost, pc>>
      BY <1>7 DEF vars
    <2> QED
      BY <2>1, NamesKept
  <1> QED
    BY <1>1, <1>2, <1>3, <1>4, <1>5, <1>6, <1>7 DEF Next, RequestStep

\* The invariant holds in every state of every behaviour.
LEMMA Invariance == Spec => []IInv
  <1>1. IInv /\ [Next]_vars => IInv'
    BY NextRequests, NextNames DEF IInv
  <1> QED
    BY InitIInv, <1>1, PTL DEF Spec

-----------------------------------------------------------------------------
(* Results. *)

\* operation_task_service and the endpoints: the reply and the row agree, for any
\* number of requests and processes and through lost answers, late calls and crashes.
THEOREM RepliesMatch == Spec => []ReplyMatchesTask
  <1>1. IInv => ReplyMatchesTask
    BY DEF IInv
  <1> QED
    BY Invariance, <1>1, PTL

\* A row that says failed although something was done, or that is left queued or
\* running, was written by a request that met an exception or whose process died.
THEOREM OutcomesExplained == Spec => []OutcomeExplained
  <1>1. IInv => OutcomeExplained
    BY DEF IInv
  <1> QED
    BY Invariance, <1>1, PTL

\* find-then-create makes a name twice only across processes, without a unique
\* column, or when a call was lost.
THEOREM UniqueNames == Spec => []NamesUnique
  <1>1. IInv => NamesUnique
    BY DEF IInv
  <1> QED
    BY Invariance, <1>1, PTL

\* batch_deploy reports the servers it created, but for one whose call raised, for
\* every instance_count.
THEOREM HonestCount == Spec => []BatchCountHonest
  <1>1. IInv => BatchCountHonest
    BY DEF IInv, CallsOK, BatchCountHonest
  <1> QED
    BY Invariance, <1>1, PTL

-----------------------------------------------------------------------------
(* The refinement of OperationLifecycle. *)

\* A step of a request moves its row or counts its effect as the lifecycle allows,
\* or changes neither.
LEMMA StepRefines ==
    ASSUME IInv, [Next]_vars
    PROVE  [Lifecycle!Next]_<<task, done, [r \in Requests |-> op[r].calls],
                              {r \in Requests : op[r].tolerant}>>
  <1> DEFINE Goal == [Lifecycle!Next]_<<task, done, [r \in Requests |-> op[r].calls],
                                        {r \in Requests : op[r].tolerant}>>
  <1>0. task \in [Requests -> {"none", "queued", "running", "succeeded", "failed"}]
        /\ done \in [Requests -> Nat]
    BY DEF IInv, Typed, TypeOK
  <1>1. ASSUME UNCHANGED <<task, done, op>> PROVE Goal
    BY <1>1
  <1>2. ASSUME NEW r \in Requests, UNCHANGED <<done, op>>,
               \/ task[r] = "none" /\ task' = [task EXCEPT ![r] = "queued"]
               \/ task[r] = "queued" /\ task' = [task EXCEPT ![r] = "running"]
               \/ /\ task[r] \in {"running", "succeeded"}
                  /\ task' = [task EXCEPT ![r] = "failed"]
               \/ /\ task[r] = "running" /\ (done[r] = op[r].calls \/ op[r].tolerant)
                  /\ task' = [task EXCEPT ![r] = "succeeded"]
        PROVE  Goal
    <2>1. Lifecycle!Open(r) \/ Lifecycle!Start(r) \/ Lifecycle!Fail(r) \/ Lifecycle!Succeed(r)
      BY <1>2 DEF Lifecycle!Open, Lifecycle!Start, Lifecycle!Fail, Lifecycle!Succeed,
                  Lifecycle!Move
    <2>2. UNCHANGED <<[q \in Requests |-> op[q].calls], {q \in Requests : op[q].tolerant}>>
      BY <1>2
    <2> QED
      BY <2>1, <2>2 DEF Lifecycle!Next
  <1>3. ASSUME NEW r \in Requests, Effect(r), UNCHANGED <<task, op>>, done[r] < op[r].calls,
               task[r] \notin {"none", "queued"}
        PROVE  Goal
    <2>1. Lifecycle!HaveEffect(r)
      BY <1>3 DEF Effect, Lifecycle!HaveEffect
    <2>2. UNCHANGED <<[q \in Requests |-> op[q].calls], {q \in Requests : op[q].tolerant}>>
      BY <1>3
    <2> QED
      BY <2>1, <2>2 DEF Lifecycle!Next
  <1> HIDE DEF Goal
  <1>4. ASSUME NEW r \in Requests, CreateTask(r) PROVE Goal
    <2>1. task[r] = "none" /\ UNCHANGED <<done, op>>
      BY <1>4 DEF CreateTask, callVars, IInv, RowOK
    <2>2. UNCHANGED task \/ task' = [task EXCEPT ![r] = "queued"]
      BY <1>0, <1>4 DEF CreateTask, Write, WriteRaises
    <2> QED
      BY <1>1, <1>2, <2>1, <2>2
  <1>5. ASSUME NEW r \in Requests, MarkRunning(r) PROVE Goal
    <2>1. task[r] = "queued" /\ UNCHANGED <<done, op>>
      BY <1>5 DEF MarkRunning, callVars, IInv, RowOK
    <2>2. UNCHANGED task \/ task' = [task EXCEPT ![r] = "running"]
      BY <1>0, <1>5 DEF MarkRunning, Write, WriteRaises
    <2> QED
      BY <1>1, <1>2, <2>1, <2>2
  <1>6. ASSUME NEW r \in Requests, Call(r) PROVE Goal
    <2>1. task[r] = "running" /\ done[r] < op[r].calls
      BY <1>6 DEF Call, IInv, RowOK, CallsOK
    <2>2. Effect(r) /\ UNCHANGED <<task, op>>
      BY <1>6 DEF Call, taskVars
    <2> QED
      BY <1>3, <2>1, <2>2
  <1>7. ASSUME NEW r \in Requests, CallRaises(r) PROVE Goal
    <2>1. task[r] = "running" /\ done[r] < op[r].calls
      BY <1>7 DEF CallRaises, IInv, RowOK, CallsOK
    <2>2. UNCHANGED <<task, op>> /\ (Effect(r) \/ UNCHANGED done)
      BY <1>7 DEF CallRaises, taskVars
    <2> QED
      BY <1>1, <1>3, <2>1, <2>2
  <1>8. ASSUME NEW r \in Requests, LateEffect(r) PROVE Goal
    <2>1. task[r] \notin {"none", "queued"} /\ done[r] < op[r].calls
      BY <1>8 DEF LateEffect, IInv, RowOK, CallsOK
    <2>2. Effect(r) /\ UNCHANGED <<task, op>>
      BY <1>8 DEF LateEffect, taskVars
    <2> QED
      BY <1>3, <2>1, <2>2
  <1>9. ASSUME NEW r \in Requests, MarkSucceeded(r) PROVE Goal
    <2>1. task[r] = "running" /\ (done[r] = op[r].calls \/ op[r].tolerant)
      BY <1>9 DEF MarkSucceeded, IInv, RowOK, CallsOK
    <2>2. UNCHANGED <<done, op>>
      BY <1>9 DEF MarkSucceeded, callVars
    <2>3. UNCHANGED task \/ task' = [task EXCEPT ![r] = "succeeded"]
      BY <1>0, <1>9 DEF MarkSucceeded, Write, WriteRaises, taskVars
    <2> QED
      BY <1>1, <1>2, <2>1, <2>2, <2>3
  <1>10. ASSUME NEW r \in Requests, MarkFailed(r) PROVE Goal
    <2>1. task[r] \in {"running", "succeeded"} /\ UNCHANGED <<done, op>>
      BY <1>10 DEF MarkFailed, callVars, IInv, RowOK
    <2>2. UNCHANGED task \/ task' = [task EXCEPT ![r] = "failed"]
      BY <1>0, <1>10 DEF MarkFailed, Write, WriteRaises
    <2> QED
      BY <1>1, <1>2, <2>1, <2>2
  <1>11. ASSUME NEW r \in Requests, Enter(r) \/ Refused(r) PROVE Goal
    BY <1>1, <1>11 DEF Enter, Refused, callVars, taskVars
  <1>12. ASSUME NEW w \in Workers, Crash(w) PROVE Goal
    BY <1>1, <1>12 DEF Crash, taskVars
  <1>13. CASE UNCHANGED vars
    BY <1>1, <1>13 DEF vars, taskVars, callVars
  <1> QED
    BY <1>4, <1>5, <1>6, <1>7, <1>8, <1>9, <1>10, <1>11, <1>12, <1>13
       DEF Next, RequestStep, Goal

\* Every request implements the lifecycle its row in operation_tasks promises, for
\* any number of requests and processes: the row is opened, run and decided in this
\* order, succeeded only with all effects, and no effect happens before it runs or
\* twice.
THEOREM Refinement == Spec => ImplementsLifecycle
  <1>1. Init => Lifecycle!Init
    BY DEF Init, TaskInit, Lifecycle!Init
  <1>2. IInv /\ [Next]_vars
          => [Lifecycle!Next]_<<task, done, [r \in Requests |-> op[r].calls],
                                {r \in Requests : op[r].tolerant}>>
    BY StepRefines
  <1> QED
    BY Invariance, <1>1, <1>2, PTL DEF Spec, ImplementsLifecycle, Lifecycle!Spec
=============================================================================
