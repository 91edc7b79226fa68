---------------------------- MODULE OperationTask ----------------------------
(***************************************************************************)
(* OperationTaskService (services/core/operation_task_service): the row of *)
(* a request in the table operation_tasks, and the two ways in which       *)
(* writing it can end.                                                     *)
(***************************************************************************)
CONSTANT Requests

VARIABLES
    task,        \* the state of each request's row, "none" before create_task
    taskLost     \* requests that met an exception in the service

taskVars == <<task, taskLost>>

TaskInit == task = [r \in Requests |-> "none"] /\ taskLost = {}

Write(r, state) ==
    /\ task' = [task EXCEPT ![r] = state]
    /\ UNCHANGED taskLost

\* The write fails, or it commits and what follows it (the refresh) fails.
WriteRaises(r, state) ==
    /\ \E t \in {task[r], state} : task' = [task EXCEPT ![r] = t]
    /\ taskLost' = taskLost \cup {r}
=============================================================================
