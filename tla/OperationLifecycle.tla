-------------------------- MODULE OperationLifecycle --------------------------
(***************************************************************************)
(* What operations and their rows in operation_tasks promise together to   *)
(* the reader of the rows: an operation is opened, then runs, then is      *)
(* decided; it has its effects while it runs, or afterwards when a call    *)
(* that was given up arrives late; it is decided as succeeded only when it *)
(* had all of them; nothing reopens it, and only a failure can follow a    *)
(* success.  One operation moves at a time.                                *)
(***************************************************************************)
EXTENDS Naturals

CONSTANT Operations

VARIABLES
    row,         \* the state of each operation's row
    effects,     \* how many of its effects it has had
    goal,        \* how many it is to have
    partial      \* the operations that may succeed with fewer

Init ==
    /\ row = [o \in Operations |-> "none"]
    /\ effects = [o \in Operations |-> 0]

Move(o, from, to) ==
    /\ row[o] \in from
    /\ row' = [row EXCEPT ![o] = to]
    /\ UNCHANGED effects

Open(o)  == Move(o, {"none"}, "queued")
Start(o) == Move(o, {"queued"}, "running")
Fail(o)  == Move(o, {"running", "succeeded"}, "failed")

Succeed(o) ==
    /\ effects[o] = goal[o] \/ o \in partial
    /\ Move(o, {"running"}, "succeeded")

\* Not before the operation runs, and never more often than the goal says.
HaveEffect(o) ==
    /\ row[o] \notin {"none", "queued"}
    /\ effects[o] < goal[o]
    /\ effects' = [effects EXCEPT ![o] = @ + 1]
    /\ UNCHANGED row

Next ==
    /\ \E o \in Operations : Open(o) \/ Start(o) \/ HaveEffect(o) \/ Succeed(o) \/ Fail(o)
    /\ UNCHANGED <<goal, partial>>

Spec == Init /\ [][Next]_<<row, effects, goal, partial>>
=============================================================================
