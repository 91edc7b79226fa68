---------------------------- MODULE VMEngine_proofs ----------------------------
(***************************************************************************)
(* What the provisioning engine's answers, audit entries and delete calls  *)
(* may be believed to say, for any requests, servers and drift.            *)
(***************************************************************************)
EXTENDS VMEngine, TLAPS

Reports == {"success", "failed"}

Typed ==
    /\ status \in [Servers -> Statuses] /\ task \in [Servers -> Tasks]
    /\ used \subseteq Servers /\ deleteAsked \subseteq used
    /\ op \in [Requests -> Operations] /\ pc \in [Requests -> PCs]
    /\ server \in [Requests -> used \cup {NoServer}]
    /\ created \in [Requests -> used \cup {NoServer}]
    /\ late \in [Requests -> Calls]
    /\ outcome \in [Requests -> Reports \cup {"none"}]
    /\ audit \in [Requests -> Seq(Reports)] /\ opsMetric \in [Requests -> Seq(Reports)]
    /\ lostCall \in [Requests -> BOOLEAN]

\* Where a request can be, by its operation, and from when it knows its server.
PlaceOK(r) ==
    /\ pc[r] \in {"create", "cleanup"} => op[r] = "create"
    /\ pc[r] \in {"get", "call"} => op[r] # "create"
    /\ pc[r] = "waitActive" => op[r] \in {"create", "start", "reboot"}
    /\ pc[r] = "waitStopped" => op[r] = "stop"
    /\ pc[r] = "waitDeleted" => op[r] = "delete"
    /\ pc[r] = "count" => op[r] \in {"stop", "delete"}
    /\ pc[r] \in {"idle", "create"} => server[r] = NoServer /\ created[r] = NoServer
    /\ pc[r] \notin {"idle", "create", "done"} => server[r] # NoServer
    /\ pc[r] # "idle" /\ op[r] # "create" => server[r] # NoServer
    /\ outcome[r] = "success" => server[r] # NoServer

\* Nothing is reported before the end, and at the end everything once.
ReportedOK(r) ==
    /\ pc[r] # "done" => audit[r] = <<>> /\ outcome[r] = "none"
    /\ pc[r] = "done" => audit[r] = <<outcome[r]>> /\ outcome[r] # "none"
    /\ op[r] \in {"start", "stop", "reboot"} =>
          opsMetric[r] = IF pc[r] = "done" THEN <<outcome[r]>> ELSE <<>>

\* The server that a create made is the one its coroutine knows, or the call that
\* made it is a lost one.
OwnedOK(r) ==
    /\ created[r] # NoServer => op[r] = "create"
    /\ pc[r] \in {"waitActive", "cleanup"} /\ op[r] = "create" => created[r] = server[r]
    /\ op[r] = "create" /\ created[r] # server[r] => lostCall[r]
    /\ op[r] = "create" /\ outcome[r] = "failed" =>
          lostCall[r] \/ (created[r] = server[r] /\ server[r] \in deleteAsked)

\* An abandoned call belongs to a request that has failed.
LateOK(r) ==
    late[r] # "none" =>
        /\ pc[r] = "done" /\ outcome[r] = "failed"
        /\ late[r] = "create" => /\ op[r] = "create" /\ lostCall[r]
                                 /\ server[r] = NoServer /\ created[r] = NoServer
        /\ late[r] # "create" => server[r] # NoServer
        /\ late[r] = "delete" => op[r] = "delete" \/ (op[r] = "create" /\ created[r] = server[r])

\* Nova works on a server because it builds it or because a request called.
TaskOK(s) ==
    /\ task[s] = "building" => status[s] = "BUILD"
    /\ task[s] \notin {"none", "building"} =>
          \E r \in Requests : server[r] = s /\ pc[r] \notin {"idle", "create", "get", "call"}

\* Nobody but request r touched its server.
Alone(r) ==
    /\ server[r] \notin drifted
    /\ \A q \in Requests \ {r} : server[q] # server[r]

\* Then the server's state follows the request.
Follows(r) ==
    LET s == server[r] IN
    /\ pc[r] = "call" /\ op[r] # "delete" =>
          task[s] = "none" /\ status[s] \in VALID_STATE_TRANSITIONS[op[r]]
    /\ pc[r] = "waitActive" =>
          \/ task[s] = "none" /\ status[s] \in {"ACTIVE", "ERROR"}
          \/ task[s] \in {"building", "starting", "rebooting"} /\ status[s] # "ACTIVE"
    /\ pc[r] = "waitStopped" =>
          \/ task[s] = "none" /\ status[s] \in {"SHUTOFF", "ERROR"}
          \/ task[s] = "stopping" /\ status[s] \notin {"SHUTOFF", "STOPPED"}
    /\ pc[r] = "count" /\ op[r] = "stop" => task[s] = "none" /\ status[s] = "SHUTOFF"
    /\ outcome[r] = "success" /\ op[r] # "delete" =>
          /\ task[s] = "none"
          /\ status[s] = IF op[r] = "stop" THEN "SHUTOFF" ELSE "ACTIVE"

RequestOK(r) == PlaceOK(r) /\ ReportedOK(r) /\ OwnedOK(r) /\ LateOK(r)

IInv ==
    /\ Typed
    /\ \A r \in Requests : RequestOK(r)
    /\ \A s \in Servers : TaskOK(s)
    /\ DeletesOnlyWhatItMay
    /\ \A r \in Requests : Alone(r) => Follows(r)

\* No request has begun and Nova works on nothing.
LEMMA InitIInv == Init => IInv
  <1> SUFFICES ASSUME Init PROVE IInv
    OBVIOUS
  <1>1. Typed
    <2>1. status \in [Servers -> Statuses] /\ used \subseteq Servers
      BY InitialStatusAssumption DEF Init
    <2>2. audit \in [Requests -> Seq(Reports)] /\ opsMetric \in [Requests -> Seq(Reports)]
      BY DEF Init
    <2> QED
      BY <2>1, <2>2 DEF Init, Typed, Tasks, PCs, Calls
  <1>2. \A r \in Requests : RequestOK(r) /\ Follows(r)
    BY DEF Init, RequestOK, PlaceOK, ReportedOK, OwnedOK, LateOK, Follows
  <1>3. \A s \in Servers : TaskOK(s)
    BY DEF Init, TaskOK
  <1>4. DeletesOnlyWhatItMay
    BY DEF Init, DeletesOnlyWhatItMay
  <1> QED
    BY <1>1, <1>2, <1>3, <1>4 DEF IInv

-----------------------------------------------------------------------------
(* What Nova's answers and the ends of a request change. *)

\* A new server: it was not handed out before, and no other changes.
LEMMA CreatesEffect ==
    ASSUME Typed, NEW r \in Requests, NovaCreates(r)
    PROVE  \E s \in Servers :
              /\ s \notin used /\ s # NoServer /\ used' = used \cup {s}
              /\ created' = [created EXCEPT ![r] = s]
              /\ status' \in [Servers -> Statuses] /\ task' \in [Servers -> Tasks]
              /\ status'[s] = "BUILD" /\ task'[s] = "building"
              /\ \A x \in Servers : x # s => status'[x] = status[x] /\ task'[x] = task[x]
  <1>1. PICK s \in Servers \ used :
           /\ used' = used \cup {s}
           /\ status' = [status EXCEPT ![s] = "BUILD"]
           /\ task' = [task EXCEPT ![s] = "building"]
           /\ created' = [created EXCEPT ![r] = s]
    BY DEF NovaCreates
  <1>2. "BUILD" \in Statuses /\ "building" \in Tasks /\ s # NoServer
    BY NoServerAssumption DEF Statuses, Tasks
  <1> QED
    BY <1>1, <1>2 DEF Typed

\* A call on a server: only that server changes, and only a delete is noted.
LEMMA AcceptsEffect ==
    ASSUME Typed, NEW call \in {"start", "stop", "reboot", "delete"}, NEW s \in used,
           NovaAccepts(call, s)
    PROVE  /\ deleteAsked' = IF call = "delete" THEN deleteAsked \cup {s} ELSE deleteAsked
           /\ status' \in [Servers -> Statuses] /\ task' \in [Servers -> Tasks]
           /\ \A x \in Servers : x # s => status'[x] = status[x] /\ task'[x] = task[x]
           /\ task'[s] = TaskOf[call] \/ (task'[s] = task[s] /\ status'[s] = status[s])
           /\ call # "delete" =>
                 /\ task[s] = "none" /\ task'[s] = TaskOf[call]
                 /\ status'[s] = IF call = "reboot" THEN "REBOOT" ELSE status[s]
  <1>1. TaskOf[call] \in Tasks /\ "REBOOT" \in Statuses
    BY DEF TaskOf, Tasks, Statuses
  <1>2. s \in Servers /\ status \in [Servers -> Statuses] /\ task \in [Servers -> Tasks]
    BY DEF Typed
  <1> QED
    BY <1>1, <1>2 DEF NovaAccepts

\* The end of a request with report x.
Ended(r, x) ==
    /\ pc' = [pc EXCEPT ![r] = "done"]
    /\ outcome' = [outcome EXCEPT ![r] = x]
    /\ audit' = [audit EXCEPT ![r] = Append(@, x)]

\* The except clauses: a create that knows its server goes on to clean up, every
\* other request has failed.
Failed(r) ==
    \/ /\ op[r] = "create" /\ server[r] # NoServer
       /\ pc' = [pc EXCEPT ![r] = "cleanup"] /\ UNCHANGED resultVars
    \/ /\ op[r] = "create" /\ server[r] = NoServer
       /\ Ended(r, "failed") /\ UNCHANGED opsMetric
    \/ /\ op[r] # "create" /\ Ended(r, "failed")
       /\ opsMetric' = [opsMetric EXCEPT ![r] = Append(@, "failed")]

\* Fail, whichever except clause it is.
LEMMA FailEffect == ASSUME NEW r \in Requests, Fail(r) PROVE Failed(r)
  BY DEF Fail, FailCreate, FailLifecycle, Finish, Metric, Failed, Ended, resultVars

\* A report appended to an empty list is the list's one member.
LEMMA FirstReport ==
    ASSUME NEW f \in [Requests -> Seq(Reports)], NEW r \in Requests, NEW x \in Reports
    PROVE  LET g == [f EXCEPT ![r] = Append(@, x)]
           IN  g \in [Requests -> Seq(Reports)] /\ (f[r] = <<>> => g[r] = <<x>>)
  <1>1. Append(f[r], x) \in Seq(Reports) /\ Append(<<>>, x) = <<x>>
    OBVIOUS
  <1> QED
    BY <1>1

\* What the end of a request leaves in its own reports.
LEMMA EndedEffect ==
    ASSUME Typed, NEW r \in Requests, NEW x \in Reports, Ended(r, x)
    PROVE  /\ pc' \in [Requests -> PCs] /\ pc'[r] = "done"
           /\ outcome' \in [Requests -> Reports \cup {"none"}] /\ outcome'[r] = x
           /\ audit' \in [Requests -> Seq(Reports)]
           /\ audit[r] = <<>> => audit'[r] = <<x>>
  BY FirstReport DEF Typed, Ended, PCs

\* The counter of operations, likewise.
LEMMA MetricEffect ==
    ASSUME Typed, NEW r \in Requests, NEW x \in Reports,
           opsMetric' = [opsMetric EXCEPT ![r] = Append(@, x)]
    PROVE  /\ opsMetric' \in [Requests -> Seq(Reports)]
           /\ opsMetric[r] = <<>> => opsMetric'[r] = <<x>>
  BY FirstReport DEF Typed

\* A server that is being built allows no operation, one that is active no start, and
\* only a server that has not stopped allows a stop.
LEMMA ValidStates ==
    /\ \A o \in {"start", "stop", "reboot", "delete"} : "BUILD" \notin VALID_STATE_TRANSITIONS[o]
    /\ "ACTIVE" \notin VALID_STATE_TRANSITIONS["start"]
    /\ "SHUTOFF" \notin VALID_STATE_TRANSITIONS["stop"]
    /\ "STOPPED" \notin VALID_STATE_TRANSITIONS["stop"]
  BY DEF VALID_STATE_TRANSITIONS

-----------------------------------------------------------------------------
(* A step of request r leaves the others alone, and servers that are not r's. *)

Local(r) ==
    /\ UNCHANGED <<op, drifted>> /\ used \subseteq used' /\ deleteAsked \subseteq deleteAsked'
    /\ \A s \in used : s # server[r] => status'[s] = status[s] /\ task'[s] = task[s]
    /\ \A q \in Requests \ {r} :
          /\ pc'[q] = pc[q] /\ server'[q] = server[q] /\ created'[q] = created[q]
          /\ late'[q] = late[q] /\ outcome'[q] = outcome[q] /\ audit'[q] = audit[q]
          /\ opsMetric'[q] = opsMetric[q] /\ lostCall'[q] = lostCall[q]
    /\ server[r] = NoServer \/ server'[r] = server[r]

\* The others keep what held of them.
LEMMA OthersOK ==
    ASSUME IInv, NEW r \in Requests, Local(r), NEW q \in Requests \ {r}
    PROVE  RequestOK(q)' /\ (Alone(q)' => Follows(q)')
  <1>1. /\ op' = op /\ drifted' = drifted /\ deleteAsked \subseteq deleteAsked'
        /\ pc'[q] = pc[q] /\ server'[q] = server[q] /\ created'[q] = created[q]
        /\ late'[q] = late[q] /\ outcome'[q] = outcome[q] /\ audit'[q] = audit[q]
        /\ opsMetric'[q] = opsMetric[q] /\ lostCall'[q] = lostCall[q]
    BY DEF Local
  <1>2. RequestOK(q) /\ (Alone(q) => Follows(q)) /\ server[q] \in used \cup {NoServer}
    BY DEF IInv, Typed
  <1>3. RequestOK(q)'
    BY <1>1, <1>2 DEF RequestOK, PlaceOK, ReportedOK, OwnedOK, LateOK
  <1>4. ASSUME Alone(q)' PROVE Follows(q)'
    <2>1. CASE server[q] = NoServer
      <3>1. pc[q] \in {"idle", "create", "done"} /\ outcome[q] # "success"
        BY <1>2, <2>1 DEF RequestOK, PlaceOK
      <3> QED
        BY <1>1, <3>1 DEF Follows
    <2>2. CASE server[q] # NoServer
      <3>1. server[q] # server[r]
        <4>1. server'[r] # server'[q]
          BY <1>4 DEF Alone
        <4> QED
          BY <1>1, <2>2, <4>1 DEF Local
      <3>2. Alone(q)
        BY <1>1, <1>4, <3>1 DEF Alone, Local
      <3>3. status'[server[q]] = status[server[q]] /\ task'[server[q]] = task[server[q]]
        BY <1>2, <2>2, <3>1 DEF Local
      <3> QED
        BY <1>1, <1>2, <3>2, <3>3 DEF Follows
    <2> QED
      BY <2>1, <2>2
  <1> QED
    BY <1>3, <1>4

Early == {"idle", "create", "get", "call"}

\* What a step of request r may do to the servers and to what it owns.
Lawful(r) ==
    /\ pc[r] \notin Early => pc'[r] \notin Early
    /\ \A s \in Servers :
          \/ status'[s] = status[s] /\ task'[s] = task[s]
          \/ status'[s] = "BUILD" /\ task'[s] = "building"
          \/ s = server'[r] /\ pc'[r] \notin Early /\ task'[s] # "building"
    /\ created[r] # NoServer => created'[r] = created[r]
    /\ outcome[r] # "none" => outcome'[r] = outcome[r]
    /\ \A s \in deleteAsked' : s \in deleteAsked \/
          /\ s = server'[r]
          /\ op[r] = "delete" \/ (created'[r] = s /\ outcome'[r] = "failed")

\* Then the tasks and the deletes stay accounted for.
LEMMA NovaOK ==
    ASSUME IInv, NEW r \in Requests, Local(r), Lawful(r)
    PROVE  (\A s \in Servers : TaskOK(s)') /\ DeletesOnlyWhatItMay'
  <1>1. ASSUME NEW s \in Servers PROVE TaskOK(s)'
    <2>1. CASE status'[s] = status[s] /\ task'[s] = task[s]
      <3>1. CASE task[s] \in {"none", "building"}
        BY <2>1, <3>1 DEF IInv, TaskOK
      <3>2. CASE task[s] \notin {"none", "building"}
        <4>1. PICK q \in Requests : server[q] = s /\ pc[q] \notin Early
          BY <3>2 DEF IInv, TaskOK, Early
        <4>2. server'[q] = s /\ pc'[q] \notin Early
          BY <4>1, NoServerAssumption DEF Local, Lawful
        <4> QED
          BY <2>1, <3>2, <4>2 DEF TaskOK, Early
      <3> QED
        BY <3>1, <3>2
    <2>2. CASE status'[s] = "BUILD" /\ task'[s] = "building"
      BY <2>2 DEF TaskOK
    <2>3. CASE s = server'[r] /\ pc'[r] \notin Early /\ task'[s] # "building"
      BY <2>3 DEF TaskOK, Early
    <2> QED
      BY <2>1, <2>2, <2>3 DEF Lawful
  <1>2. DeletesOnlyWhatItMay'
    <2> SUFFICES ASSUME NEW s \in deleteAsked'
                 PROVE  \E q \in Requests :
                           /\ server'[q] = s
                           /\ op'[q] = "delete" \/ (created'[q] = s /\ outcome'[q] = "failed")
      BY DEF DeletesOnlyWhatItMay
    <2>1. CASE s \in deleteAsked
      <3>1. PICK q \in Requests :
               server[q] = s /\ (op[q] = "delete" \/ (created[q] = s /\ outcome[q] = "failed"))
        BY <2>1 DEF IInv, DeletesOnlyWhatItMay
      <3>2. s # NoServer
        BY <2>1, NoServerAssumption DEF IInv, Typed
      <3> QED
        BY <3>1, <3>2 DEF Local, Lawful
    <2>2. CASE s \notin deleteAsked
      BY <2>2 DEF Local, Lawful
    <2> QED
      BY <2>1, <2>2
  <1> QED
    BY <1>1, <1>2

Good(r) ==
    /\ Typed' /\ Local(r) /\ Lawful(r)
    /\ RequestOK(r)' /\ (Alone(r)' => Follows(r)')

\* A step of r that is good keeps the invariant.
LEMMA GoodKeeps == ASSUME IInv, NEW r \in Requests, Good(r) PROVE IInv'
  BY NovaOK, OthersOK DEF Good, IInv

-----------------------------------------------------------------------------
(* The steps of a request. *)

\* A request is accepted: create_vm calls Nova, the others look the server up.
LEMMA BeginGood == ASSUME IInv, NEW r \in Requests, Begin(r) PROVE Good(r)
  <1>1. /\ pc[r] = "idle" /\ UNCHANGED <<novaVars, op, created, late, lostCall, resultVars>>
        /\ \/ /\ op[r] = "create" /\ server' = server
              /\ pc' = [pc EXCEPT ![r] = "create"]
           \/ /\ op[r] # "create" /\ pc' = [pc EXCEPT ![r] = "get"]
              /\ \E s \in used : server' = [server EXCEPT ![r] = s]
    BY DEF Begin, Suspend
  <1>2. Typed /\ RequestOK(r)
    BY DEF IInv
  <1> USE <1>1, <1>2 DEF novaVars, resultVars
  <1>3. Typed'
    BY DEF Typed, PCs
  <1>4. Local(r)
    BY DEF Typed, Local, RequestOK, PlaceOK
  <1>5. Lawful(r)
    BY DEF Typed, Lawful, Early
  <1>6. RequestOK(r)'
    BY NoServerAssumption
       DEF Typed, RequestOK, PlaceOK, ReportedOK, OwnedOK, LateOK
  <1>7. Follows(r)'
    BY DEF Typed, Follows, RequestOK, ReportedOK
  <1> QED
    BY <1>3, <1>4, <1>5, <1>6, <1>7 DEF Good

\* An operation's head, wait or count fails: nothing is asked of Nova yet.
LEMMA FailGood ==
    ASSUME IInv, NEW r \in Requests, Failed(r),
           pc[r] \in {"get", "waitActive", "waitStopped", "count"},
           UNCHANGED <<novaVars, op, server, created, late, lostCall>>
    PROVE  Good(r)
  <1>1. Typed /\ RequestOK(r) /\ server[r] # NoServer
    BY DEF IInv, RequestOK, PlaceOK
  <1>2. \/ /\ op[r] = "create" /\ pc' = [pc EXCEPT ![r] = "cleanup"]
           /\ UNCHANGED <<outcome, audit, opsMetric>>
        \/ /\ op[r] # "create" /\ Ended(r, "failed")
           /\ opsMetric' = [opsMetric EXCEPT ![r] = Append(@, "failed")]
    BY <1>1 DEF Failed, resultVars
  <1>a. "failed" \in Reports
    BY DEF Reports
  <1>b. op[r] # "create" =>
           /\ pc' \in [Requests -> PCs] /\ pc'[r] = "done"
           /\ outcome' \in [Requests -> Reports \cup {"none"}] /\ outcome'[r] = "failed"
           /\ audit' \in [Requests -> Seq(Reports)]
           /\ audit[r] = <<>> => audit'[r] = <<"failed">>
    BY <1>1, <1>2, <1>a, EndedEffect
  <1>c. op[r] # "create" =>
           /\ opsMetric' \in [Requests -> Seq(Reports)]
           /\ opsMetric[r] = <<>> => opsMetric'[r] = <<"failed">>
    BY <1>1, <1>2, <1>a, MetricEffect
  <1> USE <1>1, <1>2 DEF novaVars
  <1>3. Typed'
    BY <1>b, <1>c DEF Typed, PCs
  <1> USE DEF Ended
  <1>4. Local(r)
    BY DEF Typed, Local
  <1>5. Lawful(r)
    BY DEF Typed, Lawful, Early, RequestOK, ReportedOK
  <1>6. PlaceOK(r)' /\ OwnedOK(r)' /\ LateOK(r)'
    BY DEF Typed, RequestOK, PlaceOK, ReportedOK, OwnedOK, LateOK
  <1>7. ReportedOK(r)'
    <2>1. CASE op[r] = "create"
      BY <2>1 DEF Typed, RequestOK, PlaceOK, ReportedOK
    <2>2. CASE op[r] # "create"
      BY <1>b, <1>c, <2>2 DEF RequestOK, ReportedOK
    <2> QED
      BY <2>1, <2>2
  <1>8. Follows(r)'
    BY DEF Typed, Follows, RequestOK, ReportedOK
  <1> QED
    BY <1>3, <1>4, <1>5, <1>6, <1>7, <1>8 DEF Good, RequestOK

\* A wait or a count ends with success.
LEMMA SuccessGood ==
    ASSUME IInv, NEW r \in Requests, pc[r] \in {"waitActive", "count"}, Ended(r, "success"),
           UNCHANGED <<novaVars, op, server, created, late, lostCall>>,
           opsMetric' \in {opsMetric, [opsMetric EXCEPT ![r] = Append(@, "success")]},
           op[r] \in {"start", "stop", "reboot"} =>
               opsMetric' = [opsMetric EXCEPT ![r] = Append(@, "success")],
           Alone(r) /\ op[r] # "delete" =>
               /\ task[server[r]] = "none"
               /\ status[server[r]] = IF op[r] = "stop" THEN "SHUTOFF" ELSE "ACTIVE"
    PROVE  Good(r)
  <1>1. Typed /\ RequestOK(r) /\ server[r] # NoServer
    BY DEF IInv, RequestOK, PlaceOK
  <1>a. "success" \in Reports
    BY DEF Reports
  <1>b. /\ pc' \in [Requests -> PCs] /\ pc'[r] = "done"
        /\ outcome' \in [Requests -> Reports \cup {"none"}] /\ outcome'[r] = "success"
        /\ audit' \in [Requests -> Seq(Reports)]
        /\ audit[r] = <<>> => audit'[r] = <<"success">>
    BY <1>1, <1>a, EndedEffect
  <1>c. /\ opsMetric' \in [Requests -> Seq(Reports)]
        /\ opsMetric[r] = <<>> /\ op[r] \in {"start", "stop", "reboot"} =>
              opsMetric'[r] = <<"success">>
    <2>1. CASE opsMetric' = [opsMetric EXCEPT ![r] = Append(@, "success")]
      BY <1>1, <1>a, <2>1, MetricEffect
    <2>2. CASE opsMetric' = opsMetric /\ op[r] \notin {"start", "stop", "reboot"}
      BY <1>1, <2>2 DEF Typed
    <2> QED
      BY <2>1, <2>2
  <1> USE <1>1 DEF novaVars
  <1>3. Typed'
    BY <1>b, <1>c DEF Typed
  <1> USE DEF Ended
  <1>4. Local(r)
    BY DEF Typed, Local
  <1>5. Lawful(r)
    BY DEF Typed, Lawful, Early, RequestOK, ReportedOK
  <1>6. PlaceOK(r)' /\ OwnedOK(r)' /\ LateOK(r)'
    BY DEF Typed, RequestOK, PlaceOK, ReportedOK, OwnedOK, LateOK
  <1>7. ReportedOK(r)'
    BY <1>b, <1>c DEF RequestOK, ReportedOK
  <1>8. Alone(r)' => Follows(r)'
    BY DEF Typed, Alone, Follows
  <1> QED
    BY <1>3, <1>4, <1>5, <1>6, <1>7, <1>8 DEF Good, RequestOK

\* The state of the server allows the call, or the server is seen to have stopped.
LEMMA MoveGood ==
    ASSUME IInv, NEW r \in Requests, NEW step \in {"call", "count"},
           pc[r] = IF step = "call" THEN "get" ELSE "waitStopped",
           pc' = [pc EXCEPT ![r] = step], UNCHANGED resultVars,
           UNCHANGED <<novaVars, op, server, created, late, lostCall>>,
           status[server[r]] \in IF step = "call" THEN VALID_STATE_TRANSITIONS[op[r]]
                                 ELSE {"SHUTOFF", "STOPPED"}
    PROVE  Good(r)
  <1>1. Typed /\ RequestOK(r) /\ server[r] # NoServer
    BY DEF IInv, RequestOK, PlaceOK
  <1> USE <1>1 DEF novaVars, resultVars
  <1>3. Typed'
    BY DEF Typed, PCs
  <1>4. Local(r)
    BY DEF Typed, Local
  <1>5. Lawful(r)
    BY DEF Typed, Lawful, Early
  <1>6. PlaceOK(r)' /\ OwnedOK(r)' /\ LateOK(r)'
    BY DEF Typed, RequestOK, PlaceOK, ReportedOK, OwnedOK, LateOK
  <1>7. ReportedOK(r)'
    BY DEF Typed, RequestOK, PlaceOK, ReportedOK
  <1>8. ASSUME Alone(r)' PROVE Follows(r)'
    <2>1. Alone(r) /\ outcome'[r] # "success" /\ pc'[r] = step
      BY <1>8 DEF Typed, Alone, RequestOK, ReportedOK
    <2>2. CASE step = "count"
      <3>1. task[server[r]] = "none" /\ status[server[r]] = "SHUTOFF"
        BY <2>1, <2>2 DEF IInv, Follows
      <3> QED
        BY <2>1, <2>2, <3>1 DEF Follows
    <2>3. CASE step = "call" /\ op[r] # "delete"
      <3>1. server[r] \in Servers /\ status[server[r]] # "BUILD"
        BY <2>3, ValidStates DEF Typed, Operations, RequestOK, PlaceOK
      <3>2. task[server[r]] \in {"none", "building"}
        <4> SUFFICES ASSUME task[server[r]] \notin {"none", "building"} PROVE FALSE
          OBVIOUS
        <4>1. PICK q \in Requests : server[q] = server[r] /\ pc[q] \notin Early
          BY <3>1 DEF IInv, TaskOK, Early
        <4> QED
          BY <2>1, <2>3, <4>1 DEF Alone, Early
      <3>3. task[server[r]] = "none"
        BY <3>1, <3>2 DEF IInv, TaskOK
      <3> QED
        BY <2>1, <2>3, <3>3 DEF Follows
    <2>4. CASE step = "call" /\ op[r] = "delete"
      BY <2>1, <2>4 DEF Follows
    <2> QED
      BY <2>2, <2>3, <2>4
  <1> QED
    BY <1>3, <1>4, <1>5, <1>6, <1>7, <1>8 DEF Good, RequestOK

\* delete_vm has waited.
LEMMA EndWaitDeletedGood == ASSUME IInv, NEW r \in Requests, EndWaitDeleted(r) PROVE Good(r)
  <1>1. Typed /\ RequestOK(r) /\ server[r] # NoServer /\ op[r] = "delete"
    BY DEF IInv, RequestOK, PlaceOK, EndWaitDeleted
  <1> USE <1>1 DEF novaVars, EndWaitDeleted, Metric
  <1>3. Typed'
    BY DEF Typed, PCs, Reports
  <1>4. Local(r)
    BY DEF Typed, Local
  <1>5. Lawful(r)
    BY DEF Typed, Lawful, Early
  <1>6. PlaceOK(r)' /\ OwnedOK(r)' /\ LateOK(r)'
    BY DEF Typed, RequestOK, PlaceOK, ReportedOK, OwnedOK, LateOK
  <1>7. ReportedOK(r)'
    BY DEF Typed, RequestOK, PlaceOK, ReportedOK
  <1>8. Follows(r)'
    BY DEF Typed, Follows
  <1> QED
    BY <1>3, <1>4, <1>5, <1>6, <1>7, <1>8 DEF Good, RequestOK

-----------------------------------------------------------------------------
(* Steps with a call of Nova. *)

\* create_server returns.
LEMMA CreateReturnsGood == ASSUME IInv, NEW r \in Requests, CreateReturns(r) PROVE Good(r)
  <1>1. /\ Typed /\ RequestOK(r) /\ pc[r] = "create" /\ op[r] = "create"
        /\ server[r] = NoServer /\ created[r] = NoServer
        /\ outcome[r] = "none" /\ audit[r] = <<>> /\ late[r] = "none"
    BY DEF IInv, RequestOK, PlaceOK, ReportedOK, LateOK, CreateReturns
  <1>2. PICK s \in Servers :
           /\ s \notin used /\ s # NoServer /\ used' = used \cup {s}
           /\ created' = [created EXCEPT ![r] = s]
           /\ status' \in [Servers -> Statuses] /\ task' \in [Servers -> Tasks]
           /\ status'[s] = "BUILD" /\ task'[s] = "building"
           /\ \A x \in Servers : x # s => status'[x] = status[x] /\ task'[x] = task[x]
    BY <1>1, CreatesEffect DEF CreateReturns
  <1>3. /\ server' = [server EXCEPT ![r] = s] /\ pc' = [pc EXCEPT ![r] = "waitActive"]
        /\ UNCHANGED <<outcome, audit, opsMetric, deleteAsked, drifted, op, late, lostCall>>
    BY <1>1, <1>2 DEF CreateReturns, Suspend, resultVars, Typed
  <1> USE <1>1, <1>2, <1>3
  <1>4. Typed'
    BY DEF Typed, PCs
  <1>5. Local(r)
    BY DEF Typed, Local
  <1>6. Lawful(r)
    BY DEF Typed, Lawful, Early
  <1>7. RequestOK(r)'
    BY DEF Typed, RequestOK, PlaceOK, ReportedOK, OwnedOK, LateOK
  <1>8. Follows(r)'
    BY DEF Typed, Follows
  <1> QED
    BY <1>4, <1>5, <1>6, <1>7, <1>8 DEF Good

\* create_server raises: refused, its answer lost, or abandoned.
LEMMA CreateRaisesGood == ASSUME IInv, NEW r \in Requests, CreateRaises(r) PROVE Good(r)
  <1>1. /\ Typed /\ RequestOK(r) /\ pc[r] = "create" /\ op[r] = "create"
        /\ server[r] = NoServer /\ created[r] = NoServer
        /\ outcome[r] = "none" /\ audit[r] = <<>> /\ late[r] = "none"
    BY DEF IInv, RequestOK, PlaceOK, ReportedOK, LateOK, CreateRaises
  <1>2. Ended(r, "failed") /\ UNCHANGED opsMetric
    BY <1>1, FailEffect DEF CreateRaises, Failed
  <1>3. /\ pc' \in [Requests -> PCs] /\ pc'[r] = "done"
        /\ outcome' \in [Requests -> Reports \cup {"none"}] /\ outcome'[r] = "failed"
        /\ audit' \in [Requests -> Seq(Reports)] /\ audit'[r] = <<"failed">>
    BY <1>1, <1>2, EndedEffect DEF Reports
  <1>4. /\ lostCall' = [lostCall EXCEPT ![r] = TRUE]
        /\ UNCHANGED <<deleteAsked, drifted, op, server>>
    BY DEF CreateRaises
  <1>5. CASE UNCHANGED <<status, task, used, created>>
             /\ late' \in {late, [late EXCEPT ![r] = "create"]}
    <2> USE <1>1, <1>3, <1>4, <1>5
    <2>1. Typed'
      BY <1>2 DEF Typed, Calls
    <2>2. Local(r)
      BY <1>2 DEF Typed, Local, Ended
    <2>3. Lawful(r)
      BY DEF Typed, Lawful, Early
    <2>4. RequestOK(r)' /\ Follows(r)'
      BY DEF Typed, RequestOK, PlaceOK, ReportedOK, OwnedOK, LateOK, Follows
    <2> QED
      BY <2>1, <2>2, <2>3, <2>4 DEF Good
  <1>6. CASE NovaCreates(r) /\ UNCHANGED late
    <2>1. PICK s \in Servers :
             /\ s \notin used /\ s # NoServer /\ used' = used \cup {s}
             /\ created' = [created EXCEPT ![r] = s]
             /\ status' \in [Servers -> Statuses] /\ task' \in [Servers -> Tasks]
             /\ status'[s] = "BUILD" /\ task'[s] = "building"
             /\ \A x \in Servers : x # s => status'[x] = status[x] /\ task'[x] = task[x]
      BY <1>1, <1>6, CreatesEffect
    <2> USE <1>1, <1>3, <1>4, <1>6, <2>1
    <2>2. Typed'
      BY <1>2 DEF Typed
    <2>3. Local(r)
      BY <1>2 DEF Typed, Local, Ended
    <2>4. Lawful(r)
      BY DEF Typed, Lawful, Early
    <2>5. RequestOK(r)' /\ Follows(r)'
      BY DEF Typed, RequestOK, PlaceOK, ReportedOK, OwnedOK, LateOK, Follows
    <2> QED
      BY <2>2, <2>3, <2>4, <2>5 DEF Good
  <1> QED
    BY <1>5, <1>6 DEF CreateRaises

\* An operation's own call returns.
LEMMA CallReturnsGood == ASSUME IInv, NEW r \in Requests, CallReturns(r) PROVE Good(r)
  <1>1. /\ Typed /\ RequestOK(r) /\ pc[r] = "call" /\ op[r] # "create"
        /\ server[r] \in used /\ outcome[r] = "none" /\ late[r] = "none"
    BY DEF IInv, Typed, RequestOK, PlaceOK, ReportedOK, LateOK, CallReturns
  <1>2. op[r] \in {"start", "stop", "reboot", "delete"} /\ server[r] # NoServer
    BY <1>1, NoServerAssumption DEF Typed, Operations
  <1> DEFINE s == server[r]
             next == CASE op[r] \in {"start", "reboot"} -> "waitActive"
                       [] op[r] = "stop"               -> "waitStopped"
                       [] op[r] = "delete"             -> "waitDeleted"
  <1>3. /\ deleteAsked' = IF op[r] = "delete" THEN deleteAsked \cup {s} ELSE deleteAsked
        /\ status' \in [Servers -> Statuses] /\ task' \in [Servers -> Tasks]
        /\ \A x \in Servers : x # s => status'[x] = status[x] /\ task'[x] = task[x]
        /\ task'[s] = TaskOf[op[r]] \/ (task'[s] = task[s] /\ status'[s] = status[s])
        /\ op[r] # "delete" =>
              /\ task[s] = "none" /\ task'[s] = TaskOf[op[r]]
              /\ status'[s] = IF op[r] = "reboot" THEN "REBOOT" ELSE status[s]
    BY <1>1, <1>2, AcceptsEffect DEF CallReturns
  <1>4. pc' = [pc EXCEPT ![r] = next]
    BY DEF CallReturns, Suspend
  <1>5. UNCHANGED <<outcome, audit, opsMetric, used, drifted, op, server, created, late, lostCall>>
    BY DEF CallReturns, Suspend, resultVars
  <1>6. /\ next \in {"waitActive", "waitStopped", "waitDeleted"}
        /\ next = "waitActive" <=> op[r] \in {"start", "reboot"}
        /\ next = "waitStopped" <=> op[r] = "stop"
        /\ next = "waitDeleted" <=> op[r] = "delete"
    BY <1>2
  <1>7. TaskOf[op[r]] \in {"starting", "stopping", "rebooting", "deleting"}
        /\ (op[r] = "start" => TaskOf[op[r]] = "starting")
        /\ (op[r] = "reboot" => TaskOf[op[r]] = "rebooting")
        /\ (op[r] = "stop" => TaskOf[op[r]] = "stopping")
    BY <1>2 DEF TaskOf
  <1> HIDE DEF next
  <1> USE <1>1, <1>2, <1>3, <1>4, <1>5, <1>6
  <1>8. Typed'
    BY DEF Typed, PCs
  <1>9. Local(r)
    BY DEF Typed, Local
  <1>10. Lawful(r)
    BY <1>7 DEF Typed, Lawful, Early
  <1>11. RequestOK(r)'
    BY DEF Typed, RequestOK, PlaceOK, ReportedOK, OwnedOK, LateOK
  <1>12. ASSUME Alone(r)' PROVE Follows(r)'
    <2>1. Alone(r) /\ pc'[r] = next /\ outcome'[r] = "none" /\ op' = op /\ server' = server
      BY <1>12 DEF Typed, Alone
    <2>2. op[r] # "delete" => status[s] \in VALID_STATE_TRANSITIONS[op[r]]
      BY <2>1 DEF IInv, Follows
    <2>3. CASE op[r] = "start"
      BY <1>7, <2>1, <2>2, <2>3, ValidStates DEF Follows
    <2>4. CASE op[r] = "reboot"
      BY <1>7, <2>1, <2>4 DEF Follows
    <2>5. CASE op[r] = "stop"
      BY <1>7, <2>1, <2>2, <2>5, ValidStates DEF Follows
    <2>6. CASE op[r] = "delete"
      BY <2>1, <2>6 DEF Follows
    <2> QED
      BY <2>3, <2>4, <2>5, <2>6
  <1> QED
    BY <1>8, <1>9, <1>10, <1>11, <1>12 DEF Good

\* Nova's part of a call that failed, was accepted unheard, or was abandoned.
Heard(r, call) ==
    /\ status' \in [Servers -> Statuses] /\ task' \in [Servers -> Tasks]
    /\ \A x \in Servers : x # server[r] => status'[x] = status[x] /\ task'[x] = task[x]
    /\ \/ task'[server[r]] = task[server[r]] /\ status'[server[r]] = status[server[r]]
       \/ task'[server[r]] # "building"
    /\ deleteAsked \subseteq deleteAsked' /\ deleteAsked' \subseteq deleteAsked \cup {server[r]}
    /\ call # "delete" => deleteAsked' = deleteAsked

\* A call that Nova accepts, and one that it does not hear of, are both of that kind.
LEMMA HeardEffect ==
    ASSUME Typed, NEW r \in Requests, server[r] \in used,
           NEW call \in {"start", "stop", "reboot", "delete"},
           NovaAccepts(call, server[r]) \/ UNCHANGED <<status, task, deleteAsked>>
    PROVE  Heard(r, call)
  <1>1. CASE UNCHANGED <<status, task, deleteAsked>>
    BY <1>1 DEF Heard, Typed
  <1>2. CASE NovaAccepts(call, server[r])
    <2>1. TaskOf[call] # "building"
      BY DEF TaskOf
    <2> QED
      BY <1>2, <2>1, AcceptsEffect DEF Heard
  <1> QED
    BY <1>1, <1>2

\* An operation's own call raises.
LEMMA CallRaisesGood == ASSUME IInv, NEW r \in Requests, CallRaises(r) PROVE Good(r)
  <1>1. /\ Typed /\ RequestOK(r) /\ pc[r] = "call" /\ op[r] # "create"
        /\ server[r] \in used /\ late[r] = "none"
        /\ outcome[r] = "none" /\ audit[r] = <<>>
    BY DEF IInv, Typed, RequestOK, PlaceOK, ReportedOK, LateOK, CallRaises
  <1>2. op[r] \in {"start", "stop", "reboot", "delete"} /\ server[r] # NoServer
    BY <1>1, NoServerAssumption DEF Typed, Operations
  <1>3. Heard(r, op[r])
    BY <1>1, <1>2, HeardEffect DEF CallRaises
  <1>4. /\ late' \in {late, [late EXCEPT ![r] = op[r]]}
        /\ UNCHANGED <<used, drifted, op, server, created, lostCall>>
    BY DEF CallRaises
  <1>5. /\ Ended(r, "failed")
        /\ opsMetric' = [opsMetric EXCEPT ![r] = Append(@, "failed")]
    BY <1>1, FailEffect DEF CallRaises, Failed
  <1>6. /\ pc' \in [Requests -> PCs] /\ pc'[r] = "done"
        /\ outcome' \in [Requests -> Reports \cup {"none"}] /\ outcome'[r] = "failed"
        /\ audit' \in [Requests -> Seq(Reports)] /\ audit'[r] = <<"failed">>
    BY <1>1, <1>5, EndedEffect DEF Reports
  <1>7. /\ opsMetric' \in [Requests -> Seq(Reports)]
        /\ opsMetric[r] = <<>> => opsMetric'[r] = <<"failed">>
    BY <1>1, <1>5, MetricEffect DEF Reports
  <1> USE <1>1, <1>2, <1>3, <1>4, <1>6
  <1>8. Typed'
    BY <1>7 DEF Typed, Heard, Calls
  <1>9. Local(r)
    BY <1>5 DEF Typed, Heard, Local, Ended
  <1>10. Lawful(r)
    BY DEF Typed, Heard, Lawful, Early
  <1>11. PlaceOK(r)' /\ OwnedOK(r)' /\ LateOK(r)'
    BY DEF Typed, Heard, RequestOK, PlaceOK, OwnedOK, LateOK
  <1>12. ReportedOK(r)' /\ Follows(r)'
    BY <1>7 DEF RequestOK, ReportedOK, Follows
  <1> QED
    BY <1>8, <1>9, <1>10, <1>11, <1>12 DEF Good, RequestOK

\* _cleanup_failed_server, and the failure that create_vm then reports.
LEMMA CleanupGood == ASSUME IInv, NEW r \in Requests, Cleanup(r) PROVE Good(r)
  <1>1. /\ Typed /\ RequestOK(r) /\ pc[r] = "cleanup" /\ op[r] = "create"
        /\ server[r] \in used /\ created[r] = server[r] /\ late[r] = "none"
        /\ outcome[r] = "none" /\ audit[r] = <<>>
    <2>1. Typed /\ RequestOK(r) /\ pc[r] = "cleanup"
      BY DEF IInv, Cleanup
    <2>2. op[r] = "create" /\ server[r] \in used
      BY <2>1 DEF Typed, RequestOK, PlaceOK
    <2>3. created[r] = server[r] /\ late[r] = "none"
      BY <2>1, <2>2 DEF RequestOK, OwnedOK, LateOK
    <2> QED
      BY <2>1, <2>2, <2>3 DEF RequestOK, ReportedOK
  <1>2. server[r] # NoServer
    BY <1>1, NoServerAssumption DEF Typed
  <1>3. /\ Heard(r, "delete")
        /\ \/ server[r] \in deleteAsked' /\ UNCHANGED <<late, lostCall>>
           \/ /\ lostCall' = [lostCall EXCEPT ![r] = TRUE]
              /\ late' \in {late, [late EXCEPT ![r] = "delete"]}
    <2>1. Heard(r, "delete")
      BY <1>1, HeardEffect DEF Cleanup
    <2>2. NovaAccepts("delete", server[r]) => server[r] \in deleteAsked'
      BY DEF NovaAccepts
    <2> QED
      BY <2>1, <2>2 DEF Cleanup
  <1>4. Ended(r, "failed") /\ UNCHANGED <<used, drifted, op, server, created, opsMetric>>
    BY DEF Cleanup, Finish, Ended
  <1>5. /\ pc' \in [Requests -> PCs] /\ pc'[r] = "done"
        /\ outcome' \in [Requests -> Reports \cup {"none"}] /\ outcome'[r] = "failed"
        /\ audit' \in [Requests -> Seq(Reports)] /\ audit'[r] = <<"failed">>
    BY <1>1, <1>4, EndedEffect DEF Reports
  <1> USE <1>1, <1>2, <1>3, <1>5
  <1>6. Typed'
    BY <1>4 DEF Typed, Heard, Calls
  <1>7. Local(r)
    BY <1>4 DEF Typed, Heard, Local, Ended
  <1>8. Lawful(r)
    BY <1>4 DEF Typed, Heard, Lawful, Early
  <1>9. PlaceOK(r)' /\ OwnedOK(r)' /\ LateOK(r)'
    BY <1>4 DEF Typed, RequestOK, PlaceOK, OwnedOK, LateOK
  <1>10. ReportedOK(r)' /\ Follows(r)'
    BY <1>4 DEF ReportedOK, Follows
  <1> QED
    BY <1>6, <1>7, <1>8, <1>9, <1>10 DEF Good, RequestOK

\* The call of an abandoned thread reaches Nova, or never does.
LEMMA LateCallGood == ASSUME IInv, NEW r \in Requests, LateCall(r) PROVE Good(r)
  <1>1. /\ Typed /\ RequestOK(r) /\ late[r] # "none" /\ pc[r] = "done"
        /\ outcome[r] = "failed"
    BY DEF IInv, RequestOK, LateOK, LateCall
  <1>2. /\ late' = [late EXCEPT ![r] = "none"]
        /\ UNCHANGED <<drifted, op, pc, server, outcome, audit, opsMetric, lostCall>>
    BY DEF LateCall, resultVars
  <1>3. CASE late[r] = "create" /\ NovaCreates(r) /\ UNCHANGED deleteAsked
    <2>1. PICK s \in Servers :
             /\ s \notin used /\ s # NoServer /\ used' = used \cup {s}
             /\ created' = [created EXCEPT ![r] = s]
             /\ status' \in [Servers -> Statuses] /\ task' \in [Servers -> Tasks]
             /\ status'[s] = "BUILD" /\ task'[s] = "building"
             /\ \A x \in Servers : x # s => status'[x] = status[x] /\ task'[x] = task[x]
      BY <1>1, <1>3, CreatesEffect
    <2>2. /\ op[r] = "create" /\ lostCall[r] /\ server[r] = NoServer /\ created[r] = NoServer
      BY <1>1, <1>3 DEF RequestOK, LateOK
    <2> USE <1>1, <1>2, <1>3, <2>1, <2>2
    <2>3. Typed'
      BY DEF Typed, Calls
    <2>4. Local(r)
      BY DEF Typed, Local
    <2>5. Lawful(r)
      BY DEF Typed, Lawful, Early
    <2>6. PlaceOK(r)' /\ OwnedOK(r)' /\ LateOK(r)' /\ ReportedOK(r)' /\ Follows(r)'
      BY DEF Typed, RequestOK, PlaceOK, OwnedOK, LateOK, ReportedOK, Follows
    <2> QED
      BY <2>3, <2>4, <2>5, <2>6 DEF Good, RequestOK
  <1>4. CASE UNCHANGED <<used, created>>
             /\ \/ late[r] # "create" /\ NovaAccepts(late[r], server[r])
                \/ UNCHANGED <<status, task, deleteAsked>>
    <2>1. \/ UNCHANGED <<status, task, deleteAsked>>
          \/ /\ server[r] \in used /\ late[r] \in {"start", "stop", "reboot", "delete"}
             /\ Heard(r, late[r])
      <3>1. CASE late[r] # "create" /\ NovaAccepts(late[r], server[r])
        <4>1. server[r] \in used /\ late[r] \in {"start", "stop", "reboot", "delete"}
          BY <1>1, <3>1 DEF Typed, Calls, RequestOK, LateOK
        <4> QED
          BY <1>1, <3>1, <4>1, HeardEffect
      <3> QED
        BY <1>4, <3>1
    <2> USE <1>1, <1>2, <1>4, <2>1
    <2>3. Typed'
      BY DEF Typed, Calls, Heard
    <2>4. Local(r)
      BY DEF Typed, Local, Heard
    <2>5. Lawful(r)
      BY DEF Typed, Lawful, Early, Heard, RequestOK, LateOK
    <2>6. PlaceOK(r)' /\ OwnedOK(r)' /\ LateOK(r)' /\ ReportedOK(r)' /\ Follows(r)'
      BY DEF Typed, Heard, RequestOK, PlaceOK, OwnedOK, LateOK, ReportedOK, Follows
    <2> QED
      BY <2>3, <2>4, <2>5, <2>6 DEF Good, RequestOK
  <1> QED
    BY <1>3, <1>4 DEF LateCall

-----------------------------------------------------------------------------
(* Nova at work and its other users. *)

\* Nova finishes what it works on.
LEMMA NovaWorksKeeps == ASSUME IInv, NEW s \in Servers, NovaWorks(s) PROVE IInv'
  <1>1. PICK result \in Results(task[s]) :
           status' = [status EXCEPT ![s] = result] /\ task' = [task EXCEPT ![s] = "none"]
    BY DEF NovaWorks
  <1>2. UNCHANGED <<used, deleteAsked, drifted, op, pc, server, created, late, outcome, audit,
                    opsMetric, lostCall>>
    BY DEF NovaWorks, resultVars
  <1>3. /\ task[s] # "none" /\ result \in Statuses
        /\ task[s] \in {"building", "starting", "rebooting"} => result \in {"ACTIVE", "ERROR"}
        /\ task[s] = "stopping" => result \in {"SHUTOFF", "ERROR"}
    BY <1>1 DEF Results, Statuses, Absent
  <1>4. Typed
    BY DEF IInv
  <1> USE <1>1, <1>2
  <1>5. Typed'
    BY <1>3, <1>4 DEF Typed, Tasks
  <1>6. \A r \in Requests : RequestOK(r)'
    BY DEF IInv, RequestOK, PlaceOK, OwnedOK, LateOK, ReportedOK
  <1>7. \A x \in Servers : TaskOK(x)'
    BY <1>4 DEF IInv, TaskOK, Typed
  <1>8. DeletesOnlyWhatItMay'
    BY DEF IInv, DeletesOnlyWhatItMay
  <1>9. ASSUME NEW r \in Requests, Alone(r)' PROVE Follows(r)'
    <2>1. Follows(r)
      BY <1>9 DEF Alone, IInv
    <2>2. CASE server[r] = s
      BY <1>3, <1>4, <2>1, <2>2 DEF Follows, Typed
    <2>3. CASE server[r] # s /\ server[r] \in Servers
      BY <1>4, <2>1, <2>3 DEF Follows, Typed
    <2>4. CASE server[r] = NoServer
      <3>1. pc[r] \in {"idle", "create", "done"} /\ outcome[r] # "success"
        BY <2>4 DEF IInv, RequestOK, PlaceOK
      <3> QED
        BY <3>1 DEF Follows
    <2> QED
      BY <1>4, <2>2, <2>3, <2>4 DEF Typed
  <1> QED
    BY <1>5, <1>6, <1>7, <1>8, <1>9 DEF IInv

\* Someone else changes a server.
LEMMA DriftKeeps == ASSUME IInv, NEW s \in Servers, Drift(s) PROVE IInv'
  <1>1. PICK new \in DriftStatuses : status' = [status EXCEPT ![s] = new]
    BY DEF Drift
  <1>2. /\ UNCHANGED <<task, used, deleteAsked, op, pc, server, created, late, outcome, audit,
                       opsMetric, lostCall>>
        /\ drifted' = drifted \cup {s} /\ task[s] = "none"
    BY DEF Drift, resultVars
  <1>3. new \in Statuses
    BY DriftStatusAssumption
  <1>4. Typed
    BY DEF IInv
  <1> USE <1>1, <1>2
  <1>5. Typed'
    BY <1>3, <1>4 DEF Typed
  <1>6. \A r \in Requests : RequestOK(r)'
    BY DEF IInv, RequestOK, PlaceOK, OwnedOK, LateOK, ReportedOK
  <1>7. \A x \in Servers : TaskOK(x)'
    BY <1>4 DEF IInv, TaskOK, Typed
  <1>8. DeletesOnlyWhatItMay'
    BY DEF IInv, DeletesOnlyWhatItMay
  <1>9. ASSUME NEW r \in Requests, Alone(r)' PROVE Follows(r)'
    <2>1. Follows(r) /\ server[r] # s
      BY <1>9 DEF Alone, IInv
    <2>3. CASE server[r] \in Servers
      BY <1>4, <2>1, <2>3 DEF Follows, Typed
    <2>4. CASE server[r] = NoServer
      <3>1. pc[r] \in {"idle", "create", "done"} /\ outcome[r] # "success"
        BY <2>4 DEF IInv, RequestOK, PlaceOK
      <3> QED
        BY <3>1 DEF Follows
    <2> QED
      BY <1>4, <2>3, <2>4 DEF Typed
  <1> QED
    BY <1>5, <1>6, <1>7, <1>8, <1>9 DEF IInv

-----------------------------------------------------------------------------
(* The invariant. *)

\* Every step of a request is good.
LEMMA RequestGood == ASSUME IInv, NEW r \in Requests, RequestStep(r) PROVE Good(r)
  <1>0. RequestOK(r) /\ Typed
    BY DEF IInv
  <1>1. CASE GetAndValidate(r)
    <2>1. CASE Fail(r)
      BY <1>1, <2>1, FailEffect, FailGood DEF GetAndValidate
    <2>2. CASE Suspend(r, "call") /\ status[server[r]] \in VALID_STATE_TRANSITIONS[op[r]]
      BY <1>1, <2>2, MoveGood DEF GetAndValidate, Suspend
    <2> QED
      BY <1>1, <2>1, <2>2 DEF GetAndValidate
  <1>2. CASE PollActive(r)
    <2>1. CASE Fail(r)
      BY <1>2, <2>1, FailEffect, FailGood DEF PollActive
    <2>2. CASE /\ status[server[r]] = "ACTIVE" /\ Finish(r, "success")
               /\ opsMetric' = IF op[r] = "create" THEN opsMetric ELSE Metric(r, "success")
      <3>1. Ended(r, "success") /\ pc[r] = "waitActive"
            /\ UNCHANGED <<novaVars, op, server, created, late, lostCall>>
        BY <1>2, <2>2 DEF PollActive, Finish, Ended
      <3>2. op[r] \in {"create", "start", "reboot"}
        BY <1>0, <3>1 DEF RequestOK, PlaceOK
      <3>3. Alone(r) => task[server[r]] = "none"
        BY <2>2, <3>1 DEF IInv, Follows
      <3> QED
        BY <2>2, <3>1, <3>2, <3>3, SuccessGood DEF Metric
    <2> QED
      BY <1>2, <2>1, <2>2 DEF PollActive
  <1>3. CASE PollStopped(r)
    <2>1. CASE Fail(r)
      BY <1>3, <2>1, FailEffect, FailGood DEF PollStopped
    <2>2. CASE status[server[r]] \in {"SHUTOFF", "STOPPED"} /\ Suspend(r, "count")
      BY <1>3, <2>2, MoveGood DEF PollStopped, Suspend
    <2> QED
      BY <1>3, <2>1, <2>2 DEF PollStopped
  <1>4. CASE GiveUp(r) \/ CountRaises(r)
    BY <1>4, FailEffect, FailGood DEF GiveUp, CountRaises
  <1>5. CASE CountReturns(r)
    <2>1. Ended(r, "success") /\ pc[r] = "count"
          /\ UNCHANGED <<novaVars, op, server, created, late, lostCall>>
      BY <1>5 DEF CountReturns, Finish, Ended
    <2>2. op[r] \in {"stop", "delete"}
      BY <1>0, <2>1 DEF RequestOK, PlaceOK
    <2>3. opsMetric' = IF op[r] = "delete" THEN opsMetric
                       ELSE [opsMetric EXCEPT ![r] = Append(@, "success")]
      BY <1>5 DEF CountReturns, Metric
    <2>4. Alone(r) /\ op[r] # "delete" =>
             task[server[r]] = "none" /\ status[server[r]] = "SHUTOFF"
      BY <2>1, <2>2 DEF IInv, Follows
    <2> QED
      BY <2>1, <2>2, <2>3, <2>4, SuccessGood
  <1> QED
    BY <1>1, <1>2, <1>3, <1>4, <1>5, CreateReturnsGood, CreateRaisesGood, CallReturnsGood,
       CallRaisesGood, EndWaitDeletedGood, CleanupGood DEF RequestStep

\* Every step of the system keeps the invariant.
LEMMA NextIInv == ASSUME IInv, [Next]_vars PROVE IInv'
  <1>1. ASSUME NEW r \in Requests, Begin(r) \/ RequestStep(r) \/ LateCall(r) PROVE IInv'
    BY <1>1, BeginGood, RequestGood, LateCallGood, GoodKeeps
  <1>2. ASSUME NEW s \in Servers, NovaWorks(s) \/ Drift(s) PROVE IInv'
    BY <1>2, NovaWorksKeeps, DriftKeeps
  <1>3. CASE UNCHANGED vars
    <2> USE <1>3 DEF vars, novaVars, resultVars
    <2>1. Typed'
      BY DEF IInv, Typed
    <2>2. \A r \in Requests : RequestOK(r)'
      BY DEF IInv, RequestOK, PlaceOK, OwnedOK, LateOK, ReportedOK
    <2>3. (\A s \in Servers : TaskOK(s)') /\ DeletesOnlyWhatItMay'
      BY DEF IInv, TaskOK, DeletesOnlyWhatItMay
    <2>4. \A r \in Requests : Alone(r)' => Follows(r)'
      BY DEF IInv, Alone, Follows
    <2> QED
      BY <2>1, <2>2, <2>3, <2>4 DEF IInv
  <1> QED
    BY <1>1, <1>2, <1>3 DEF Next

\* The invariant holds in every reachable state.
LEMMA Invariance == Spec => []IInv
  BY InitIInv, NextIInv, PTL DEF Spec

\* A request leaves exactly one audit entry, which says what the caller was told, and so
\* does the counter of start, stop and reboot, through every early raise and nested
\* except clause of create_vm, _lifecycle_operation and delete_vm.
THEOREM ReportsDoAgree == Spec => []ReportsAgree
  <1>1. IInv => ReportsAgree
    BY DEF IInv, RequestOK, ReportedOK, ReportsAgree
  <1> QED
    BY <1>1, Invariance, PTL

\* A create that failed has asked Nova to delete the server it made, unless the create or
\* the cleanup call was itself lost: create_vm's except clause.
THEOREM OrphansExplained == Spec => []OrphanExplained
  <1>1. IInv => OrphanExplained
    BY DEF IInv, RequestOK, OwnedOK, OrphanExplained
  <1> QED
    BY <1>1, Invariance, PTL

\* The engine deletes a server only for a delete request on it or because the create
\* that made it failed, calls of abandoned threads included.
THEOREM DeletesJustified == Spec => []DeletesOnlyWhatItMay
  <1>1. IInv => DeletesOnlyWhatItMay
    BY DEF IInv
  <1> QED
    BY <1>1, Invariance, PTL

\* A success of create, start, reboot or stop is what Nova reports as long as nobody else
\* touches the server: _wait_for_active and _wait_for_stopped poll until then.
THEOREM SuccessIsReal == Spec => []SuccessHolds
  <1>1. IInv => SuccessHolds
    BY DEF IInv, Alone, Follows, SuccessHolds
  <1> QED
    BY <1>1, Invariance, PTL
=============================================================================
