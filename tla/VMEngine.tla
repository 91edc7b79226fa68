------------------------------- MODULE VMEngine -------------------------------
(***************************************************************************)
(* The VM provisioning engine (services/openstack/vm_provisioning_engine)  *)
(* serving concurrent requests against Nova.  Each request is a coroutine: *)
(* what it does between two awaits is one action.  Every Nova call runs in *)
(* an executor thread under call_with_timeout; when the timeout wins, the  *)
(* coroutine goes on and the thread's call may still reach Nova later.     *)
(* Nova itself is external: a call is accepted or refused, and an accepted *)
(* one is carried out in the background.                                   *)
(***************************************************************************)
EXTENDS Integers, Sequences, FiniteSets

CONSTANTS
    Requests,        \* concurrent API requests
    Servers,         \* server ids Nova can hand out (a bound for TLC)
    NoServer,        \* no server
    InitialStatuses, \* what a server may be before the first request
    DriftStatuses,   \* what an actor outside the engine may turn a server into
    MaxDrift         \* bound: such changes in one behaviour

ASSUME NoServerAssumption == NoServer \notin Servers
ASSUME MaxDriftAssumption == MaxDrift \in Nat

Absent == "absent"     \* get_server raises: not created yet, or gone
Statuses == {"BUILD", "ACTIVE", "REBOOT", "SHUTOFF", "STOPPED", "PAUSED",
             "SUSPENDED", "ERROR", "UNKNOWN", Absent}
Tasks == {"none", "building", "starting", "stopping", "rebooting", "deleting"}
Operations == {"create", "start", "stop", "reboot", "delete"}
PCs == {"idle", "create", "get", "call", "waitActive", "waitStopped",
        "waitDeleted", "count", "cleanup", "done"}

ASSUME InitialStatusAssumption == InitialStatuses \subseteq Statuses
ASSUME DriftStatusAssumption   == DriftStatuses \subseteq Statuses \ {Absent}

VALID_STATE_TRANSITIONS ==
    [start  |-> {"SHUTOFF", "STOPPED", "SUSPENDED", "ERROR"},
     stop   |-> {"ACTIVE", "PAUSED"},
     reboot |-> {"ACTIVE"},
     delete |-> {"ACTIVE", "SHUTOFF", "STOPPED", "ERROR", "SUSPENDED"}]

VARIABLES
    status, task,    \* Nova: the status it reports and what it is working on
    used,            \* Nova: ids handed out so far
    deleteAsked,     \* Nova: servers on which it accepted a delete call
    drifted,         \* servers changed by an actor outside the engine
    op, pc,          \* each request's operation and where it is suspended
    server,          \* the server the coroutine knows of
    created,         \* the server Nova made for the request's create call
    late,            \* requests whose abandoned thread may still call Nova, and how
    outcome,         \* what the caller got
    audit,           \* audit statuses enqueued by each request
    opsMetric,       \* vmw_vm_lifecycle_operations increments of each request
    lostCall,        \* a create or cleanup call of the request timed out or failed
    gauge            \* vmw_vm_active_count

novaVars   == <<status, task, used, deleteAsked, drifted>>
resultVars == <<outcome, audit, opsMetric>>
vars == <<novaVars, op, pc, server, created, late, resultVars, lostCall, gauge>>

Calls == {"none", "create", "start", "stop", "reboot", "delete"}

Init ==
    /\ status \in [Servers -> InitialStatuses]
    /\ task = [s \in Servers |-> "none"]
    /\ used = {s \in Servers : status[s] # Absent}
    /\ deleteAsked = {} /\ drifted = {}
    /\ op \in [Requests -> Operations]
    /\ pc = [r \in Requests |-> "idle"]
    /\ server = [r \in Requests |-> NoServer]
    /\ created = [r \in Requests |-> NoServer]
    /\ late = [r \in Requests |-> "none"]
    /\ outcome = [r \in Requests |-> "none"]
    /\ audit = [r \in Requests |-> <<>>]
    /\ opsMetric = [r \in Requests |-> <<>>]
    /\ lostCall = [r \in Requests |-> FALSE]
    /\ gauge = 0

ActiveServers == {s \in Servers : status[s] = "ACTIVE"}

-----------------------------------------------------------------------------
(* Nova (external). *)

TaskOf == [start |-> "starting", stop |-> "stopping", reboot |-> "rebooting",
           delete |-> "deleting"]

\* Nova accepts a call on a server it has: it notes the task, and a reboot
\* shows at once.  A delete overrides any other task; ignore_missing makes
\* deleting an absent server succeed.
NovaAccepts(call, s) ==
    /\ deleteAsked' = IF call = "delete" THEN deleteAsked \cup {s} ELSE deleteAsked
    /\ \/ /\ status[s] # Absent /\ task[s] # "deleting"
          /\ task[s] = "none" \/ call = "delete"
          /\ task' = [task EXCEPT ![s] = TaskOf[call]]
          /\ status' = [status EXCEPT ![s] = IF call = "reboot" THEN "REBOOT" ELSE @]
       \/ /\ call = "delete" /\ (status[s] = Absent \/ task[s] = "deleting")
          /\ UNCHANGED <<task, status>>

\* Nova accepts a create call of request r and returns a new server.
NovaCreates(r) ==
    \E s \in Servers \ used :
        /\ used' = used \cup {s}
        /\ status' = [status EXCEPT ![s] = "BUILD"]
        /\ task' = [task EXCEPT ![s] = "building"]
        /\ created' = [created EXCEPT ![r] = s]

Results(t) ==
    CASE t = "building"  -> {"ACTIVE", "ERROR"}
      [] t = "starting"  -> {"ACTIVE", "ERROR"}
      [] t = "stopping"  -> {"SHUTOFF", "ERROR"}
      [] t = "rebooting" -> {"ACTIVE", "ERROR"}
      [] t = "deleting"  -> {Absent, "ERROR"}
      [] OTHER           -> {}

NovaWorks(s) ==
    /\ \E result \in Results(task[s]) : status' = [status EXCEPT ![s] = result]
    /\ task' = [task EXCEPT ![s] = "none"]
    /\ UNCHANGED <<used, deleteAsked, drifted, op, pc, server, created, late, resultVars,
                   lostCall, gauge>>

\* Another client, an operator or a host failure changes a server.
Drift(s) ==
    /\ Cardinality(drifted) < MaxDrift /\ s \notin drifted
    /\ status[s] # Absent /\ task[s] = "none"
    /\ \E new \in DriftStatuses \ {status[s]} : status' = [status EXCEPT ![s] = new]
    /\ drifted' = drifted \cup {s}
    /\ UNCHANGED <<task, used, deleteAsked, op, pc, server, created, late, resultVars,
                   lostCall, gauge>>

\* The abandoned thread's call reaches Nova after all, or it never does.
LateCall(r) ==
    /\ late[r] # "none"
    /\ late' = [late EXCEPT ![r] = "none"]
    /\ \/ late[r] = "create" /\ NovaCreates(r) /\ UNCHANGED deleteAsked
       \/ late[r] # "create" /\ NovaAccepts(late[r], server[r]) /\ UNCHANGED <<used, created>>
       \/ UNCHANGED <<status, task, used, deleteAsked, created>>
    /\ UNCHANGED <<drifted, op, pc, server, resultVars, lostCall, gauge>>

-----------------------------------------------------------------------------
(* Ending a request: the last metric, the one audit entry, return or raise. *)

Metric(r, s) == [opsMetric EXCEPT ![r] = Append(@, s)]

Finish(r, s) ==
    /\ pc' = [pc EXCEPT ![r] = "done"]
    /\ outcome' = [outcome EXCEPT ![r] = s]
    /\ audit' = [audit EXCEPT ![r] = Append(@, s)]

\* Faulty variant: no cleanup.
FailWithoutCleanup(r) == Finish(r, "failed") /\ UNCHANGED opsMetric

\* The except clause of create_vm: clean up if the server is known.
FailCreate(r) ==
    /\ IF server[r] = NoServer
       THEN Finish(r, "failed")
       ELSE pc' = [pc EXCEPT ![r] = "cleanup"] /\ UNCHANGED <<outcome, audit>>
    /\ UNCHANGED opsMetric

\* The except clauses of _lifecycle_operation and delete_vm.
FailLifecycle(r) == Finish(r, "failed") /\ opsMetric' = Metric(r, "failed")

\* Faulty variant: one except clause for all operations, cleaning up after each.
FailAlwaysCleans(r) == FailCreate(r)

Fail(r) == IF op[r] = "create" THEN FailCreate(r) ELSE FailLifecycle(r)

Suspend(r, step) ==
    /\ pc' = [pc EXCEPT ![r] = step]
    /\ UNCHANGED resultVars

-----------------------------------------------------------------------------
(* Requests. *)

Begin(r) ==
    /\ pc[r] = "idle"
    /\ IF op[r] = "create"
       THEN Suspend(r, "create") /\ UNCHANGED server
       ELSE /\ \E s \in used : server' = [server EXCEPT ![r] = s]
            /\ Suspend(r, "get")
    /\ UNCHANGED <<novaVars, op, created, late, lostCall, gauge>>

CreateReturns(r) ==
    /\ pc[r] = "create"
    /\ NovaCreates(r)
    /\ server' = [server EXCEPT ![r] = created'[r]]
    /\ Suspend(r, "waitActive")
    /\ UNCHANGED <<deleteAsked, drifted, op, late, lostCall, gauge>>

\* create_server raises: Nova refused, or its answer was lost, or the timeout
\* came first and the thread goes on.  `server` is still None.
CreateRaises(r) ==
    /\ pc[r] = "create"
    /\ lostCall' = [lostCall EXCEPT ![r] = TRUE]
    /\ \/ UNCHANGED <<status, task, used, created, late>>
       \/ NovaCreates(r) /\ UNCHANGED late
       \/ late' = [late EXCEPT ![r] = "create"] /\ UNCHANGED <<status, task, used, created>>
    /\ Fail(r)
    /\ UNCHANGED <<deleteAsked, drifted, op, server, gauge>>

\* Faulty variant: the state is validated outside the try.
ValidateUnaudited(r) ==
    /\ pc[r] = "get"
    /\ IF status[server[r]] \in VALID_STATE_TRANSITIONS[op[r]]
       THEN Suspend(r, "call")
       ELSE /\ pc' = [pc EXCEPT ![r] = "done"]
            /\ outcome' = [outcome EXCEPT ![r] = "failed"]
            /\ UNCHANGED <<audit, opsMetric>>
    /\ UNCHANGED <<novaVars, op, server, created, late, lostCall, gauge>>

\* get_vm and _validate_state at the head of an operation.
GetAndValidate(r) ==
    /\ pc[r] = "get"
    /\ IF status[server[r]] \in VALID_STATE_TRANSITIONS[op[r]]
       THEN Suspend(r, "call")
       ELSE Fail(r)
    /\ UNCHANGED <<novaVars, op, server, created, late, lostCall, gauge>>

\* The operation's own SDK call returns.
CallReturns(r) ==
    /\ pc[r] = "call"
    /\ NovaAccepts(op[r], server[r])
    /\ Suspend(r, CASE op[r] \in {"start", "reboot"} -> "waitActive"
                    [] op[r] = "stop"               -> "waitStopped"
                    [] op[r] = "delete"             -> "waitDeleted")
    /\ UNCHANGED <<used, drifted, op, server, created, late, lostCall, gauge>>

CallRaises(r) ==
    /\ pc[r] = "call"
    /\ \/ UNCHANGED <<status, task, deleteAsked, late>>
       \/ NovaAccepts(op[r], server[r]) /\ UNCHANGED late
       \/ late' = [late EXCEPT ![r] = op[r]] /\ UNCHANGED <<status, task, deleteAsked>>
    /\ Fail(r)
    /\ UNCHANGED <<used, drifted, op, server, created, lostCall, gauge>>

\* One poll of _wait_for_active that decides; create and start count the VM.
PollActive(r) ==
    /\ pc[r] = "waitActive"
    /\ \/ /\ status[server[r]] = "ACTIVE"
          /\ gauge' = IF op[r] \in {"create", "start"} THEN gauge + 1 ELSE gauge
          /\ opsMetric' = IF op[r] = "create" THEN opsMetric ELSE Metric(r, "success")
          /\ Finish(r, "success")
       \/ /\ status[server[r]] \in {"ERROR", "UNKNOWN", Absent}
          /\ Fail(r)
          /\ UNCHANGED gauge
    /\ UNCHANGED <<novaVars, op, server, created, late, lostCall>>

\* Faulty variant: any status but ERROR passes for stopped.
PollNotError(r) ==
    /\ pc[r] = "waitStopped"
    /\ \/ status[server[r]] # "ERROR" /\ Suspend(r, "count")
       \/ status[server[r]] \in {"ERROR", "UNKNOWN", Absent} /\ Fail(r)
    /\ UNCHANGED <<novaVars, op, server, created, late, lostCall, gauge>>

PollStopped(r) ==
    /\ pc[r] = "waitStopped"
    /\ \/ status[server[r]] \in {"SHUTOFF", "STOPPED"} /\ Suspend(r, "count")
       \/ status[server[r]] \in {"ERROR", "UNKNOWN", Absent} /\ Fail(r)
    /\ UNCHANGED <<novaVars, op, server, created, late, lostCall, gauge>>

\* Faulty variant: _wait_for_stopped has no deadline.
GiveUpNotStopping(r) ==
    /\ pc[r] \in {"get", "waitActive"}
    /\ Fail(r)
    /\ UNCHANGED <<novaVars, op, server, created, late, lostCall, gauge>>

\* The deadline passes, or a get_vm raises: at the head of an operation and in
\* the two loops above that fails the request.
GiveUp(r) ==
    /\ pc[r] \in {"get", "waitActive", "waitStopped"}
    /\ Fail(r)
    /\ UNCHANGED <<novaVars, op, server, created, late, lostCall, gauge>>

\* _wait_for_deleted ends: the server is gone, the deadline passed with a
\* warning, or a get_vm raised and delete_vm swallowed it.  In every case the
\* operation counts as a success before the active count is refreshed.
EndWaitDeleted(r) ==
    /\ pc[r] = "waitDeleted"
    /\ pc' = [pc EXCEPT ![r] = "count"]
    /\ opsMetric' = Metric(r, "success")
    /\ UNCHANGED <<novaVars, op, server, created, late, outcome, audit, lostCall, gauge>>

\* get_active_count: the SDK's lazy listing is read and the gauge set without
\* suspending; then the operation reports success.
CountReturns(r) ==
    /\ pc[r] = "count"
    /\ gauge' = Cardinality(ActiveServers)
    /\ opsMetric' = IF op[r] = "delete" THEN opsMetric ELSE Metric(r, "success")
    /\ Finish(r, "success")
    /\ UNCHANGED <<novaVars, op, server, created, late, lostCall>>

CountRaises(r) ==
    /\ pc[r] = "count"
    /\ Fail(r)
    /\ UNCHANGED <<novaVars, op, server, created, late, lostCall, gauge>>

\* _cleanup_failed_server: whatever the delete call does, create_vm then
\* audits the failure and raises.
Cleanup(r) ==
    /\ pc[r] = "cleanup"
    /\ \/ NovaAccepts("delete", server[r]) /\ UNCHANGED <<late, lostCall>>
       \/ /\ lostCall' = [lostCall EXCEPT ![r] = TRUE]
          /\ \/ UNCHANGED late
             \/ late' = [late EXCEPT ![r] = "delete"]
          /\ UNCHANGED <<status, task, deleteAsked>>
    /\ Finish(r, "failed")
    /\ UNCHANGED <<used, drifted, op, server, created, opsMetric, gauge>>

RequestStep(r) ==
    \/ CreateReturns(r) \/ CreateRaises(r)
    \/ GetAndValidate(r) \/ CallReturns(r) \/ CallRaises(r)
    \/ PollActive(r) \/ PollStopped(r) \/ GiveUp(r) \/ EndWaitDeleted(r)
    \/ CountReturns(r) \/ CountRaises(r)
    \/ Cleanup(r)

Next ==
    \/ \E r \in Requests : Begin(r) \/ RequestStep(r) \/ LateCall(r)
    \/ \E s \in Servers : NovaWorks(s) \/ Drift(s)

\* Every await of a request has a timeout, so a request that began goes on;
\* Nova is not obliged to do anything.
Spec == Init /\ [][Next]_vars /\ \A r \in Requests : WF_vars(RequestStep(r))
-----------------------------------------------------------------------------
(* Properties. *)

\* Nova's servers, the requests' locals and the metrics keep their types; the
\* gauge never goes below zero.
TypeOK ==
    /\ status \in [Servers -> Statuses] /\ task \in [Servers -> Tasks]
    /\ used \subseteq Servers /\ deleteAsked \subseteq used /\ drifted \subseteq used
    /\ op \in [Requests -> Operations] /\ pc \in [Requests -> PCs]
    /\ server \in [Requests -> used \cup {NoServer}]
    /\ created \in [Requests -> used \cup {NoServer}]
    /\ late \in [Requests -> Calls]
    /\ outcome \in [Requests -> {"none", "success", "failed"}]
    /\ \A r \in Requests :
          \A s \in {audit[r], opsMetric[r]} :
             \A i \in 1..Len(s) : s[i] \in {"success", "failed"}
    /\ lostCall \in [Requests -> BOOLEAN]
    /\ gauge \in Nat

\* create_vm, _lifecycle_operation, delete_vm: through every early raise, retry
\* loop and nested except clause, a request leaves exactly one audit entry and
\* it says what the caller was told; so does the counter of start, stop and
\* reboot.
ReportsAgree ==
    \A r \in Requests : pc[r] = "done" =>
        /\ audit[r] = <<outcome[r]>>
        /\ op[r] \in {"start", "stop", "reboot"} => opsMetric[r] = <<outcome[r]>>

\* create_vm: a create that failed has asked Nova to delete what it made, unless
\* the create or the cleanup call itself timed out or failed.
OrphanExplained ==
    \A r \in Requests :
        op[r] = "create" /\ outcome[r] = "failed" /\ created[r] # NoServer
            => created[r] \in deleteAsked \/ lostCall[r]

\* The engine deletes a server only for a delete request on it or because the
\* create that made it failed, even when abandoned calls land late.
DeletesOnlyWhatItMay ==
    \A s \in deleteAsked : \E r \in Requests :
        server[r] = s /\ (op[r] = "delete" \/ (created[r] = s /\ outcome[r] = "failed"))

\* _wait_for_active, _wait_for_stopped: when nobody else touched the server, a
\* reported success of create, start, reboot or stop is what Nova reports.
SuccessHolds ==
    \A r \in Requests :
        /\ outcome[r] = "success" /\ op[r] # "delete" /\ server[r] \notin drifted
        /\ \A q \in Requests \ {r} : server[q] # server[r]
        => status[server[r]] = IF op[r] = "stop" THEN "SHUTOFF" ELSE "ACTIVE"

\* Every wait has a deadline: a request that began ends, whatever Nova does.
RequestsEnd == \A r \in Requests : pc[r] # "idle" ~> pc[r] = "done"
=============================================================================
