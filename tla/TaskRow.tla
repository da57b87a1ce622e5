------------------------------ MODULE TaskRow ------------------------------
(***************************************************************************)
(* One row of async_tasks, and the row-level effect of every transaction   *)
(* of the task repositories (application/tasks.py, repositories/tasks.py,  *)
(* repositories/lifecycle.py).  No variables: the state machines that keep *)
(* task rows build their actions from these operators.                     *)
(*                                                                         *)
(* The clock is abstracted.  locked_until is kept as what every reader of  *)
(* it asks: "none" (NULL), "live" (in the future) or "expired" (reached).  *)
(* progress, error_code, error_message and result are reporting data that  *)
(* no transition reads, and are left out.                                  *)
(***************************************************************************)
EXTENDS Naturals

CONSTANT NoOne                      \* locked_by IS NULL

TaskStatus == {"PENDING", "RUNNING", "CANCEL_REQUESTED",
               "SUCCEEDED", "FAILED", "CANCELLED"}

TaskStage == {"QUEUED", "LOADING", "CLEANING", "SPLITTING",
              "PERSISTING", "INDEXING", "VERIFYING", "DELETING"}

TerminalStatuses == {"SUCCEEDED", "FAILED", "CANCELLED"}

NonInterruptibleStages == {"PERSISTING", "INDEXING", "VERIFYING", "DELETING"}

LeaseState == {"none", "live", "expired"}

(* Statuses under which the row carries a lease. *)
LeasedStatuses == {"RUNNING", "CANCEL_REQUESTED"}

(* A row that has not been inserted yet. *)
AbsentRow == [status |-> "ABSENT", stage |-> "QUEUED", attempts |-> 0,
              owner |-> NoOne, lease |-> "none"]

(* The row the column defaults insert. *)
NewRow == [AbsentRow EXCEPT !.status = "PENDING"]

Rows(Name, MaxAttempts) ==
    [status : TaskStatus \cup {"ABSENT"}, stage : TaskStage,
     attempts : 0..MaxAttempts, owner : Name \cup {NoOne}, lease : LeaseState]

-----------------------------------------------------------------------------
(* Guards.                                                                 *)

(* Variant: the attempt budget is forgotten.                               *)
CanClaimUnbounded(row, MaxAttempts) ==
    row.status \in {"PENDING", "RUNNING"} /\ row.lease # "live"

CanClaim(row, MaxAttempts) ==
    /\ row.status \in {"PENDING", "RUNNING"}
    /\ row.attempts < MaxAttempts
    /\ row.lease # "live"

(* Variant: a retry does not look at the attempts already spent.           *)
CanRetryUnbounded(row, MaxAttempts) == row.status = "FAILED"

CanRetry(row, MaxAttempts) ==
    /\ row.status = "FAILED"
    /\ row.attempts < MaxAttempts

(* cancellation_target(status, stage) is not None *)
CanCancel(row) ==
    \/ row.status = "PENDING"
    \/ row.status = "RUNNING" /\ row.stage \notin NonInterruptibleStages

(* Variant: locked_by is not compared.                                     *)
HoldsAnyLease(row, name) == row.lease = "live"

(* locked_by = name and the lease is still in the future *)
HoldsLease(row, name) ==
    /\ row.owner = name
    /\ row.lease = "live"

(* Variant: a task asked to cancel still counts as running.                *)
OwnedLeased(row, name) == row.status \in LeasedStatuses /\ HoldsLease(row, name)

OwnedRunning(row, name) ==
    /\ row.status = "RUNNING"
    /\ HoldsLease(row, name)

CancellationRequested(row, name) ==
    /\ row.status = "CANCEL_REQUESTED"
    /\ HoldsLease(row, name)

-----------------------------------------------------------------------------
(* Effects.                                                                *)

Released(row) == [row EXCEPT !.owner = NoOne, !.lease = "none"]

(* Variant: the attempt is not counted.                                    *)
ClaimedFree(row, name) ==
    [row EXCEPT !.status = "RUNNING", !.owner = name, !.lease = "live"]

(* claim() takes a lease and spends an attempt; the stage stays what it was. *)
Claimed(row, name) ==
    [row EXCEPT !.status = "RUNNING", !.attempts = @ + 1,
                !.owner = name, !.lease = "live"]

Heartbeat(row, stage) == [row EXCEPT !.stage = stage, !.lease = "live"]

Finished(row, status) == [Released(row) EXCEPT !.status = status]

(* Back to the queue: retry, prepare_retry and the recovery sweep. *)
Requeued(row) == [Released(row) EXCEPT !.status = "PENDING", !.stage = "QUEUED"]

(* Variant: a running task is cancelled under its worker.                  *)
CancelledAtOnce(row) == Finished(row, "CANCELLED")

(* A PENDING row ends at once; a RUNNING one keeps its lease and waits for  *)
(* its worker to acknowledge.                                               *)
CancelTarget(row) ==
    IF row.status = "PENDING" THEN Finished(row, "CANCELLED")
    ELSE [row EXCEPT !.status = "CANCEL_REQUESTED"]
=============================================================================
