--------------------------- MODULE TaskLifecycle ---------------------------
(***************************************************************************)
(* What the task API promises of a task, whatever the workers, the broker  *)
(* and the recovery sweep do: the statuses it may go through and the       *)
(* attempts it may spend (application/tasks.py).  KnowledgeTasks is        *)
(* checked and proved to implement it; FineTuning is proved to follow it   *)
(* but for one step.                                                       *)
(***************************************************************************)
EXTENDS Naturals

CONSTANTS Task, MaxAttempts

VARIABLES status, attempts

vars == <<status, attempts>>

Init ==
    /\ status = [t \in Task |-> "ABSENT"]
    /\ attempts = [t \in Task |-> 0]

(* Task t goes from one of the statuses in From to one of those in To and  *)
(* spends cost attempts.                                                   *)
Moves(t, From, To, cost) ==
    /\ status[t] \in From
    /\ status'[t] \in To
    /\ attempts'[t] = attempts[t] + cost

Submit(t) == Moves(t, {"ABSENT"}, {"PENDING"}, 0)

(* Starting a task costs an attempt, and the attempts are limited.         *)
Start(t) ==
    /\ attempts[t] < MaxAttempts
    /\ Moves(t, {"PENDING", "RUNNING"}, {"RUNNING"}, 1)

(* Only a running task succeeds; one that never ran may still fail.        *)
Settle(t) ==
    \/ Moves(t, {"RUNNING"}, {"SUCCEEDED", "FAILED"}, 0)
    \/ Moves(t, {"PENDING"}, {"FAILED"}, 0)

(* A running task is cancelled only through a recorded request.            *)
Cancel(t) ==
    \/ Moves(t, {"PENDING"}, {"CANCELLED"}, 0)
    \/ Moves(t, {"RUNNING"}, {"CANCEL_REQUESTED"}, 0)
    \/ Moves(t, {"CANCEL_REQUESTED"}, {"CANCELLED"}, 0)

(* Back to the queue, while there are attempts left.                       *)
Requeue(t) ==
    /\ attempts[t] < MaxAttempts
    /\ Moves(t, {"RUNNING", "FAILED"}, {"PENDING"}, 0)

Stays(t) == status'[t] = status[t] /\ attempts'[t] = attempts[t]

Step(t) ==
    \/ Submit(t) \/ Start(t) \/ Settle(t) \/ Cancel(t) \/ Requeue(t)
    \/ Stays(t)

(* A transaction over several rows moves each of them on its own.          *)
Next == \A t \in Task : Step(t)

Spec == Init /\ [][Next]_vars
=============================================================================
