----------------------- MODULE KnowledgeTasks_proofs -----------------------
(***************************************************************************)
(* Proofs about KnowledgeTasks, for every set of tasks, workers,           *)
(* publishers and slots and every bound.  First what one transaction does  *)
(* to one row, then the inductive invariant, action by action, then the    *)
(* properties that follow from it.                                         *)
(***************************************************************************)
EXTENDS KnowledgeTasks, TLAPS

Row == Rows(Name, MaxAttempts)

(* The invariants of KnowledgeTasks that speak of one row.                 *)
RowOK(r) ==
    /\ r \in Row
    /\ r.status \in LeasedStatuses <=> r.lease # "none"
    /\ r.status \in LeasedStatuses <=> r.owner # NoOne
    /\ r.status = "PENDING" => r.attempts < MaxAttempts
    /\ r.status \in {"PENDING", "CANCEL_REQUESTED", "CANCELLED"}
          => r.stage \notin NonInterruptibleStages
    /\ r.status = "ABSENT" => r.attempts = 0

(* No new claim: the row keeps its attempts, and if it keeps its owner it  *)
(* keeps a standing cancellation request.                                  *)
Keeps(r, n) ==
    /\ n.attempts = r.attempts
    /\ \/ n.owner = NoOne
       \/ n.owner = r.owner /\ (r.status = "CANCEL_REQUESTED" => n.status = r.status)

(* One step of TaskLifecycle, from row r to row n.                         *)
Advances(r, n) ==
    \/ n.status = r.status /\ n.attempts = r.attempts
    \/ /\ r.status \in {"PENDING", "RUNNING"} /\ r.attempts < MaxAttempts
       /\ n.status = "RUNNING" /\ n.attempts = r.attempts + 1
    \/ /\ n.attempts = r.attempts
       /\ \/ r.status = "ABSENT" /\ n.status = "PENDING"
          \/ r.status = "RUNNING" /\ n.status \in {"SUCCEEDED", "FAILED", "CANCEL_REQUESTED"}
          \/ r.status = "PENDING" /\ n.status \in {"FAILED", "CANCELLED"}
          \/ r.status = "CANCEL_REQUESTED" /\ n.status = "CANCELLED"
          \/ /\ r.status \in {"RUNNING", "FAILED"} /\ n.status = "PENDING"
             /\ r.attempts < MaxAttempts

RowStep(r, n) == RowOK(n) /\ Advances(r, n)

USE DEF Row

-----------------------------------------------------------------------------
(* What each effect of TaskRow does to a row.                              *)

(* The row CreateWithOutbox inserts is well formed.                        *)
LEMMA InsertStep ==
    ASSUME NEW r \in Row, r.status = "ABSENT", RowOK(r)
    PROVE  RowStep(r, NewRow) /\ Keeps(r, NewRow)
  BY TasksAssumption DEF NewRow, AbsentRow, RowStep, RowOK, Advances, Keeps, Rows,
     TaskStatus, TaskStage, LeaseState, LeasedStatuses, NonInterruptibleStages

(* A claim is a step of the life cycle and leaves a well-formed row.       *)
LEMMA ClaimStep ==
    ASSUME NEW r \in Row, NEW name \in Name, RowOK(r), CanClaim(r, MaxAttempts)
    PROVE  RowStep(r, Claimed(r, name))
<1>1. /\ r.attempts \in Nat
      /\ r.attempts + 1 \in 0..MaxAttempts
      /\ name # NoOne
  BY TasksAssumption DEF CanClaim, Rows
<1>2. /\ Claimed(r, name) \in Row
      /\ Claimed(r, name).status = "RUNNING"
      /\ Claimed(r, name).attempts = r.attempts + 1
      /\ Claimed(r, name).owner = name
      /\ Claimed(r, name).lease = "live"
  BY <1>1 DEF Claimed, Rows, TaskStatus, LeaseState
<1> QED
  BY <1>1, <1>2 DEF CanClaim, RowStep, RowOK, Advances, LeasedStatuses

(* Ending a task releases its row.                                         *)
LEMMA FinishStep ==
    ASSUME NEW r \in Row, RowOK(r), NEW s \in TerminalStatuses,
           \/ r.status = "RUNNING" /\ s \in {"SUCCEEDED", "FAILED"}
           \/ r.status = "PENDING" /\ s \in {"FAILED", "CANCELLED"}
           \/ r.status = "CANCEL_REQUESTED" /\ s = "CANCELLED"
    PROVE  RowStep(r, Finished(r, s)) /\ Keeps(r, Finished(r, s))
  BY TasksAssumption DEF Finished, Released, RowStep, RowOK, Advances, Keeps, Rows,
     TerminalStatuses, TaskStatus, TaskStage, LeaseState, LeasedStatuses,
     NonInterruptibleStages

(* Requeueing a task with attempts left releases its row.                  *)
LEMMA RequeueStep ==
    ASSUME NEW r \in Row, RowOK(r), r.status \in {"PENDING", "RUNNING", "FAILED"},
           r.attempts < MaxAttempts
    PROVE  RowStep(r, Requeued(r)) /\ Keeps(r, Requeued(r))
  BY TasksAssumption DEF Requeued, Released, RowStep, RowOK, Advances, Keeps, Rows,
     TaskStatus, TaskStage, LeaseState, LeasedStatuses, NonInterruptibleStages

(* An accepted cancellation is recorded or ends the task.                  *)
LEMMA CancelStep ==
    ASSUME NEW r \in Row, RowOK(r), CanCancel(r)
    PROVE  RowStep(r, CancelTarget(r)) /\ Keeps(r, CancelTarget(r))
  BY TasksAssumption DEF CanCancel, CancelTarget, Finished, Released, RowStep, RowOK,
     Advances, Keeps, Rows, TaskStatus, TaskStage, LeaseState, LeasedStatuses,
     NonInterruptibleStages

(* A progress report by the owner changes the stage and renews the lease.  *)
LEMMA HeartbeatStep ==
    ASSUME NEW r \in Row, RowOK(r), NEW stage \in TaskStage, r.status = "RUNNING"
    PROVE  RowStep(r, Heartbeat(r, stage)) /\ Keeps(r, Heartbeat(r, stage))
  BY TasksAssumption DEF Heartbeat, RowStep, RowOK, Advances, Keeps, Rows,
     TaskStatus, TaskStage, LeaseState, LeasedStatuses, NonInterruptibleStages

(* A live lease that runs out changes nothing else.                        *)
LEMMA ExpiryStep ==
    ASSUME NEW r \in Row, RowOK(r), r.lease = "live"
    PROVE  LET n == [r EXCEPT !.lease = "expired"] IN RowStep(r, n) /\ Keeps(r, n)
  BY TasksAssumption DEF RowStep, RowOK, Advances, Keeps, Rows,
     TaskStatus, TaskStage, LeaseState, LeasedStatuses, NonInterruptibleStages

(* An untouched row.                                                       *)
LEMMA NoStep ==
    ASSUME NEW r \in Row, RowOK(r)
    PROVE  RowStep(r, r) /\ Keeps(r, r)
  BY DEF RowStep, Advances, Keeps

(* The plans name stages, and their lengths fit the step counter.          *)
LEMMA PlanFacts ==
    \A op \in Operations :
        /\ PlanLength[op] \in 1..6
        /\ \A step \in 1..PlanLength[op] : Plan[op][step] \in TaskStage
  <1>1. ASSUME NEW step \in 1..6 PROVE Plan["INGEST"][step] \in TaskStage
  BY <1>1 DEF Plan, TaskStage
<1>2. ASSUME NEW step \in 1..3 PROVE Plan["REBUILD"][step] \in TaskStage
  BY <1>2 DEF Plan, TaskStage
<1>3. ASSUME NEW step \in 1..1 PROVE Plan["DELETE"][step] \in TaskStage
  BY <1>3 DEF Plan, TaskStage
<1>4. /\ PlanLength["INGEST"] = 6
      /\ PlanLength["REBUILD"] = 3
      /\ PlanLength["DELETE"] = 1
  BY DEF PlanLength
<1> QED BY <1>1, <1>2, <1>3, <1>4 DEF Operations

-----------------------------------------------------------------------------
(* What each action does to the rows.                                      *)

RowsOK == task \in [Task -> Row] /\ \A t \in Task : RowOK(task[t])

(* Every row takes a step of the life cycle, and none is claimed.          *)
RowsKeep ==
    /\ task' \in [Task -> Row]
    /\ \A t \in Task : RowStep(task[t], task'[t]) /\ Keeps(task[t], task'[t])

(* The row part of the inductive invariant, row by row.                    *)
LEMMA RowsOKIsIInv ==
    /\ IInv => RowsOK
    /\ RowsOK => /\ LeaseMatchesStatus /\ PendingIsClaimable
                 /\ CancellationIsInterruptible /\ AbsentIsNew
  BY DEF IInv, TypeOK, LeaseMatchesStatus, PendingIsClaimable,
     CancellationIsInterruptible, AbsentIsNew, RowsOK, RowOK, CanClaim, Rows, LeasedStatuses

(* A transaction over one row.                                             *)
LEMMA OneRow ==
    ASSUME RowsOK, NEW t \in Task, NEW n,
           RowStep(task[t], n), Keeps(task[t], n),
           task' = [task EXCEPT ![t] = n]
    PROVE  RowsKeep
  BY NoStep DEF RowsOK, RowsKeep, RowStep, RowOK

(* A transaction over no row.                                              *)
LEMMA NoRow == ASSUME RowsOK, UNCHANGED task PROVE RowsKeep
  BY NoStep DEF RowsOK, RowsKeep

(* The actions of the API, of time and of the sweep.                       *)
LEMMA ApiRows ==
    ASSUME IInv, NEW t \in Task,
           \/ CreateWithOutbox(t) \/ RequestCancel(t)
           \/ RetryWithOutbox(t) \/ LeaseExpires(t)
    PROVE  RowsKeep
<1>1. RowsOK /\ task[t] \in Row /\ RowOK(task[t])
  BY RowsOKIsIInv DEF RowsOK
<1>2. CASE CreateWithOutbox(t)
  BY <1>1, <1>2, OneRow, InsertStep DEF CreateWithOutbox
<1>3. CASE RequestCancel(t)
  BY <1>1, <1>3, OneRow, CancelStep DEF RequestCancel
<1>4. CASE RetryWithOutbox(t)
  BY <1>1, <1>4, OneRow, RequeueStep DEF RetryWithOutbox, CanRetry
<1>5. CASE LeaseExpires(t)
  <2>1. task' = [task EXCEPT ![t] = [task[t] EXCEPT !.lease = "expired"]]
    BY <1>5 DEF LeaseExpires
  <2> QED BY <1>1, <1>5, <2>1, OneRow, ExpiryStep DEF LeaseExpires
<1> QED BY <1>2, <1>3, <1>4, <1>5

(* The sweep fails the rows of its set without attempts left and requeues  *)
(* the others.                                                             *)
LEMMA SweepRows ==
    ASSUME IInv, NEW rows \in SUBSET {r \in Task : Recoverable(r)}, RecoverStale(rows)
    PROVE  RowsKeep
<1>1. RowsOK
  BY RowsOKIsIInv
<1>2. ASSUME NEW t \in Task
      PROVE  RowStep(task[t], task'[t]) /\ Keeps(task[t], task'[t])
  <2>1. task[t] \in Row /\ RowOK(task[t])
    BY <1>1 DEF RowsOK
  <2>2. CASE t \notin rows
    BY <2>1, <2>2, NoStep DEF RecoverStale
  <2>3. CASE t \in rows /\ Spent(t)
    <3>1. task'[t] = Finished(task[t], "FAILED")
      BY <2>3 DEF RecoverStale
    <3>2. task[t].status \in {"RUNNING", "PENDING"}
      BY <2>3 DEF Recoverable, Stale
    <3> QED BY <2>1, <3>1, <3>2, FinishStep DEF TerminalStatuses
  <2>4. CASE t \in rows /\ ~Spent(t)
    <3>1. task'[t] = Requeued(task[t])
      BY <2>4 DEF RecoverStale
    <3>2. task[t].status \in {"RUNNING", "PENDING"}
      BY <2>4 DEF Recoverable, Stale
    <3>3. task[t].attempts < MaxAttempts
      BY <2>1, <2>4, TasksAssumption DEF Spent, Rows
    <3> QED BY <2>1, <3>1, <3>2, <3>3, RequeueStep
  <2> QED BY <2>2, <2>3, <2>4
<1>3. task' \in [Task -> Row]
  <2>1. task' = [t \in Task |-> task'[t]]
    BY DEF RecoverStale
  <2> QED BY <1>2, <2>1 DEF RowStep, RowOK
<1> QED BY <1>2, <1>3 DEF RowsKeep

(* The actions of a worker, other than a claim, and of celery's retry.     *)
LEMMA WorkerRows ==
    ASSUME IInv, NEW w \in Worker,
           \/ ClaimUnresolved(w) \/ UpdateProgress(w) \/ CompleteTask(w)
           \/ FailTask(w) \/ CancelTask(w) \/ \E t \in Task : PrepareRetry(w, t)
    PROVE  RowsKeep
<1> DEFINE t == worker[w].task
<1>1. RowsOK /\ WorkersAreBusy /\ SeenCancellationStands
  BY RowsOKIsIInv DEF IInv
<1>2. ASSUME worker[w].pc # "idle" PROVE t \in Task /\ task[t] \in Row /\ RowOK(task[t])
  BY <1>1, <1>2 DEF WorkersAreBusy, RowsOK
<1>3. CASE ClaimUnresolved(w)
  <2>1. task' = [task EXCEPT ![t] = Finished(task[t], "FAILED")]
    BY <1>3 DEF ClaimUnresolved
  <2>2. t \in Task /\ task[t] \in Row /\ RowOK(task[t])
    BY <1>2, <1>3 DEF ClaimUnresolved
  <2>3. task[t].status \in {"PENDING", "RUNNING"}
    BY <1>3 DEF ClaimUnresolved, CanClaim
  <2> QED BY <1>1, <2>1, <2>2, <2>3, OneRow, FinishStep DEF TerminalStatuses
<1>4. CASE UpdateProgress(w)
  <2>1. t \in Task /\ task[t] \in Row /\ RowOK(task[t])
    BY <1>2, <1>4 DEF UpdateProgress
  <2>2. CASE OwnedRunning(task[t], NameOf[w])
    <3> DEFINE stage == Plan[Operation[t]][worker[w].step]
    <3>1. task' = [task EXCEPT ![t] = Heartbeat(task[t], stage)]
      BY <1>4, <2>2 DEF UpdateProgress
    <3>2. stage \in TaskStage
      <4>1. Operation[t] \in Operations
        BY <2>1, TasksAssumption
      <4>2. worker[w].step \in 1..6
        BY DEF IInv, TypeOK
      <4>3. worker[w].step <= PlanLength[Operation[t]]
        BY <1>1, <1>4 DEF WorkersAreBusy, UpdateProgress
      <4> QED BY <4>1, <4>2, <4>3, PlanFacts
    <3> QED BY <1>1, <2>1, <2>2, <3>1, <3>2, OneRow, HeartbeatStep DEF OwnedRunning
  <2>3. CASE ~OwnedRunning(task[t], NameOf[w])
    BY <1>1, <1>4, <2>1, <2>3, NoRow DEF UpdateProgress, RowsOK
  <2> QED BY <2>2, <2>3
<1>5. CASE CompleteTask(w) \/ FailTask(w)
  <2>1. t \in Task /\ task[t] \in Row /\ RowOK(task[t])
    BY <1>2, <1>5 DEF CompleteTask, FailTask
  <2>2. CASE OwnedRunning(task[t], NameOf[w])
    <3>1. PICK s \in {"SUCCEEDED", "FAILED"} : task' = [task EXCEPT ![t] = Finished(task[t], s)]
      BY <1>5, <2>2 DEF CompleteTask, FailTask
    <3> QED BY <1>1, <2>1, <2>2, <3>1, OneRow, FinishStep DEF OwnedRunning, TerminalStatuses
  <2>3. CASE ~OwnedRunning(task[t], NameOf[w])
    BY <1>1, <1>5, <2>1, <2>3, NoRow DEF CompleteTask, FailTask, RowsOK
  <2> QED BY <2>2, <2>3
<1>6. CASE CancelTask(w)
  <2>1. t \in Task /\ task[t] \in Row /\ RowOK(task[t])
    BY <1>2, <1>6 DEF CancelTask
  <2> DEFINE holds == task[t].status \in LeasedStatuses /\ HoldsLease(task[t], NameOf[w])
  <2>2. CASE holds
    <3>1. task' = [task EXCEPT ![t] = Finished(task[t], "CANCELLED")]
      BY <1>6, <2>2 DEF CancelTask
    <3>2. task[t].status = "CANCEL_REQUESTED"
      BY <1>1, <1>6, <2>2 DEF SeenCancellationStands, CancelTask, HoldsLease
    <3> QED BY <1>1, <2>1, <3>1, <3>2, OneRow, FinishStep DEF TerminalStatuses
  <2>3. CASE ~holds
    BY <1>1, <1>6, <2>1, <2>3, NoRow DEF CancelTask, RowsOK
  <2> QED BY <2>2, <2>3
<1>7. CASE \E u \in Task : PrepareRetry(w, u)
  <2>1. PICK u \in Task : PrepareRetry(w, u)
    BY <1>7
  <2>2. task' = [task EXCEPT ![u] = Requeued(task[u])] /\ CanRetry(task[u], MaxAttempts)
    BY <2>1 DEF PrepareRetry
  <2> QED BY <1>1, <2>2, OneRow, RequeueStep DEF CanRetry, RowsOK
<1> QED BY <1>3, <1>4, <1>5, <1>6, <1>7

(* The remaining actions touch no row.                                     *)
RowlessStep ==
    \/ \E t \in Task : LoseMessage(t)
    \/ \E e \in Events : EventLeaseExpires(e)
    \/ \E p \in Publisher : ClaimBatch(p) \/ PublisherCrash(p)
    \/ \E p \in Publisher, e \in Events :
          SendTask(p, e) \/ SendFails(p, e) \/ MarkPublished(p, e)
    \/ \E w \in Worker : \/ SkipClaim(w) \/ CheckCancellation(w) \/ DispatchRetry(w)
                         \/ HandlerRaises(w) \/ WorkerCrash(w) \/ Redeliver(w)
                         \/ TransactionFails(w)
    \/ \E w \in Worker, t \in Task : Deliver(w, t)
    \/ UNCHANGED vars

(* They keep the rows.                                                    *)
LEMMA RowlessRows == ASSUME IInv, RowlessStep PROVE RowsKeep
<1>1. UNCHANGED task
  BY DEF RowlessStep, LoseMessage, EventLeaseExpires, ClaimBatch, PublisherCrash, SendTask,
     SendFails, MarkPublished, SkipClaim, CheckCancellation, DispatchRetry, HandlerRaises,
     WorkerCrash, Redeliver, TransactionFails, Deliver, vars
<1> QED BY <1>1, NoRow, RowsOKIsIInv

(* Every step but a claim keeps the rows ...                               *)
LEMMA NextRows ==
    ASSUME IInv, [Next]_vars, \A w \in Worker : ~Claim(w)
    PROVE  RowsKeep
<1>1. \/ \E t \in Task : \/ CreateWithOutbox(t) \/ RequestCancel(t)
                         \/ RetryWithOutbox(t) \/ LeaseExpires(t)
      \/ \E rows \in SUBSET {r \in Task : Recoverable(r)} : RecoverStale(rows)
      \/ \E w \in Worker :
            \/ ClaimUnresolved(w) \/ UpdateProgress(w) \/ CompleteTask(w)
            \/ FailTask(w) \/ CancelTask(w) \/ \E t \in Task : PrepareRetry(w, t)
      \/ RowlessStep
  BY DEF Next, Api, WorkerStep, RecoverWith, RowlessStep
<1> QED BY <1>1, ApiRows, SweepRows, WorkerRows, RowlessRows

(* ... and a claim gives one row to its worker.                            *)
LEMMA ClaimRows ==
    ASSUME IInv, NEW w \in Worker, Claim(w)
    PROVE  LET t == worker[w].task IN
           /\ task' \in [Task -> Row]
           /\ \A u \in Task : RowStep(task[u], task'[u])
           /\ t \in Task
           /\ task[t].attempts + 1 \in 0..MaxAttempts
           /\ task'[t] = Claimed(task[t], NameOf[w])
           /\ task'[t].owner = NameOf[w]
           /\ task'[t].status = "RUNNING"
           /\ task'[t].attempts = task[t].attempts + 1
           /\ \A u \in Task \ {t} : task'[u] = task[u]
<1> DEFINE t == worker[w].task
<1>1. RowsOK /\ t \in Task
  BY RowsOKIsIInv DEF IInv, WorkersAreBusy, Claim
<1>2. task[t] \in Row /\ RowOK(task[t]) /\ CanClaim(task[t], MaxAttempts) /\ NameOf[w] \in Name
  BY <1>1, TasksAssumption DEF RowsOK, Claim
<1>3. RowStep(task[t], Claimed(task[t], NameOf[w]))
  BY <1>2, ClaimStep
<1>4. task' = [task EXCEPT ![t] = Claimed(task[t], NameOf[w])]
  BY DEF Claim
<1>5. task' \in [Task -> Row] /\ \A u \in Task : RowStep(task[u], task'[u])
  BY <1>1, <1>3, <1>4, NoStep DEF RowsOK, RowStep, RowOK
<1>6. task[t].attempts + 1 \in 0..MaxAttempts
  BY <1>2, TasksAssumption DEF CanClaim, Rows
<1>7. /\ task'[t] = Claimed(task[t], NameOf[w])
      /\ \A u \in Task \ {t} : task'[u] = task[u]
  BY <1>1, <1>4 DEF RowsOK
<1>8. /\ Claimed(task[t], NameOf[w]).owner = NameOf[w]
      /\ Claimed(task[t], NameOf[w]).status = "RUNNING"
      /\ Claimed(task[t], NameOf[w]).attempts = task[t].attempts + 1
  BY <1>2 DEF Claimed, Rows
<1> QED BY <1>1, <1>5, <1>6, <1>7, <1>8

-----------------------------------------------------------------------------
(* The workers.                                                            *)

WorkerState == [pc : Pcs, task : Task \cup {NoTask}, step : 1..6, attempt : 0..MaxAttempts]

(* State x of worker v agrees with the rows (the worker part of IInv).     *)
Fits(x, v, rows) ==
    /\ x \in WorkerState
    /\ x.pc # "idle" => x.task \in Task
    /\ x.pc \in {"check", "update"} => x.step <= PlanLength[Operation[x.task]]
    /\ x.pc \in InHandler /\ rows[x.task].owner = NameOf[v]
          => x.attempt = rows[x.task].attempts
    /\ x.pc = "cancel" /\ rows[x.task].owner = NameOf[v]
          => rows[x.task].status = "CANCEL_REQUESTED"

WorkersOK ==
    /\ worker \in [Worker -> WorkerState]
    /\ \A v \in Worker : Fits(worker[v], v, task)

(* The worker part of the inductive invariant, worker by worker.           *)
LEMMA WorkersOKIsIInv ==
    /\ IInv => WorkersOK
    /\ WorkersOK => WorkersAreBusy /\ OwnersHaveTheLatestClaim /\ SeenCancellationStands
  BY DEF IInv, TypeOK, WorkersAreBusy, OwnersHaveTheLatestClaim, SeenCancellationStands,
     WorkersOK, Fits, WorkerState

(* What agrees with the rows before a step that keeps them does so after.  *)
LEMMA FitsStays ==
    ASSUME RowsKeep, NEW v \in Worker, NEW x, Fits(x, v, task)
    PROVE  Fits(x, v, task')
<1>1. NameOf[v] # NoOne
  BY TasksAssumption
<1>2. CASE x.task \in Task
  <2>1. Keeps(task[x.task], task'[x.task])
    BY <1>2 DEF RowsKeep
  <2> QED BY <1>1, <2>1 DEF Fits, Keeps
<1>3. CASE x.task \notin Task
  BY <1>3 DEF Fits, InHandler
<1> QED BY <1>2, <1>3

(* One worker moves on and agrees with the rows as they were.              *)
LEMMA OneWorker ==
    ASSUME IInv, RowsKeep, NEW w \in Worker, NEW x, Fits(x, w, task),
           worker' = [worker EXCEPT ![w] = x]
    PROVE  WorkersOK'
<1>1. WorkersOK /\ x \in WorkerState
  BY WorkersOKIsIInv DEF Fits
<1>2. worker' \in [Worker -> WorkerState]
  BY <1>1 DEF WorkersOK
<1>3. ASSUME NEW v \in Worker PROVE Fits(worker'[v], v, task)
  BY <1>1 DEF WorkersOK
<1> QED BY <1>2, <1>3, FitsStays DEF WorkersOK

(* A worker outside the handler agrees with any rows.                      *)
LEMMA OutsideFits ==
    ASSUME NEW v \in Worker, NEW x \in WorkerState, x.pc \in {"idle", "claim", "dispatch"},
           x.pc = "idle" \/ x.task \in Task
    PROVE  Fits(x, v, task)
  BY DEF Fits, InHandler

(* A worker that goes on in its handler, with a step of its plan to report.*)
LEMMA CarriesOn ==
    ASSUME IInv, NEW w \in Worker, worker[w].pc \in InHandler, NEW x \in WorkerState,
           x.pc \in InHandler \ {"cancel"}, x.task = worker[w].task,
           x.attempt = worker[w].attempt,
           x.pc \in {"check", "update"} => x.step <= PlanLength[Operation[x.task]]
    PROVE  Fits(x, w, task)
<1>1. Fits(worker[w], w, task)
  BY WorkersOKIsIInv DEF WorkersOK
<1> QED BY <1>1 DEF Fits, InHandler

(* A worker ends, is given or gives back a task.                           *)
LEMMA RestingWorkers ==
    ASSUME IInv, RowsKeep, NEW w \in Worker,
           \/ SkipClaim(w) \/ ClaimUnresolved(w) \/ CompleteTask(w) \/ FailTask(w)
           \/ CancelTask(w) \/ DispatchRetry(w) \/ WorkerCrash(w) \/ TransactionFails(w)
           \/ \E t \in Task : Deliver(w, t) \/ PrepareRetry(w, t)
    PROVE  WorkersOK'
<1>1. Idle \in WorkerState
  BY TasksAssumption DEF Idle, WorkerState, Pcs
<1>2. CASE worker' = [worker EXCEPT ![w] = Idle]
  <2>1. Fits(Idle, w, task)
    BY <1>1, OutsideFits DEF Idle
  <2> QED BY <1>2, <2>1, OneWorker
<1>3. CASE \E t \in Task : Deliver(w, t) \/ PrepareRetry(w, t)
  <2>1. PICK t \in Task, pc \in {"claim", "dispatch"} :
           worker' = [worker EXCEPT ![w] = [Idle EXCEPT !.pc = pc, !.task = t]]
    BY <1>3 DEF Deliver, PrepareRetry
  <2> DEFINE x == [Idle EXCEPT !.pc = pc, !.task = t]
  <2>2. x \in WorkerState /\ x.pc = pc /\ x.task = t
    BY <1>1 DEF Idle, WorkerState, Pcs
  <2>3. Fits(x, w, task)
    BY <2>2, OutsideFits
  <2> QED BY <2>1, <2>3, OneWorker
<1> QED BY <1>2, <1>3 DEF SkipClaim, ClaimUnresolved, CompleteTask, FailTask, CancelTask,
           DispatchRetry, WorkerCrash, TransactionFails

(* A worker goes on: it looks for a cancellation, reports or raises.       *)
LEMMA HandlerWorkers ==
    ASSUME IInv, RowsKeep, NEW w \in Worker,
           CheckCancellation(w) \/ UpdateProgress(w) \/ HandlerRaises(w)
    PROVE  WorkersOK'
<1> DEFINE t == worker[w].task
<1>1. worker[w] \in WorkerState /\ Fits(worker[w], w, task) /\ worker[w].pc \in InHandler
  BY WorkersOKIsIInv DEF WorkersOK, CheckCancellation, UpdateProgress, HandlerRaises, InHandler
<1>2. CASE HandlerRaises(w)
  <2> DEFINE x == [worker[w] EXCEPT !.pc = "fail"]
  <2>1. worker' = [worker EXCEPT ![w] = x]
    BY <1>2 DEF HandlerRaises
  <2>2. /\ x \in WorkerState /\ x.pc = "fail" /\ x.task = t
        /\ x.attempt = worker[w].attempt
    BY <1>1 DEF WorkerState, Pcs
  <2>3. Fits(x, w, task)
    BY <1>1, <2>2, CarriesOn DEF InHandler
  <2> QED BY <2>1, <2>3, OneWorker
<1>3. CASE CheckCancellation(w) /\ CancellationRequested(task[t], NameOf[w])
  <2> DEFINE x == [worker[w] EXCEPT !.pc = "cancel"]
  <2>1. worker' = [worker EXCEPT ![w] = x]
    BY <1>3 DEF CheckCancellation
  <2>2. /\ x \in WorkerState /\ x.pc = "cancel" /\ x.task = t
        /\ x.attempt = worker[w].attempt
    BY <1>1 DEF WorkerState, Pcs
  <2>3. Fits(x, w, task)
    BY <1>1, <1>3, <2>2 DEF Fits, CheckCancellation, CancellationRequested, InHandler
  <2> QED BY <2>1, <2>3, OneWorker
<1>4. CASE CheckCancellation(w) /\ ~CancellationRequested(task[t], NameOf[w])
  <2> DEFINE x == [worker[w] EXCEPT !.pc = "update"]
  <2>1. worker' = [worker EXCEPT ![w] = x]
    BY <1>4 DEF CheckCancellation
  <2>2. /\ x \in WorkerState /\ x.pc = "update" /\ x.task = t
        /\ x.attempt = worker[w].attempt /\ x.step = worker[w].step
    BY <1>1 DEF WorkerState, Pcs
  <2>3. x.step <= PlanLength[Operation[x.task]]
    BY <1>1, <1>4, <2>2 DEF Fits, CheckCancellation
  <2>4. Fits(x, w, task)
    BY <1>1, <2>2, <2>3, CarriesOn DEF InHandler
  <2> QED BY <2>1, <2>4, OneWorker
<1>5. CASE UpdateProgress(w) /\ worker[w].step = PlanLength[Operation[t]]
  <2> DEFINE x == [worker[w] EXCEPT !.pc = "complete"]
  <2>1. worker' = [worker EXCEPT ![w] = x]
    BY <1>5 DEF UpdateProgress
  <2>2. /\ x \in WorkerState /\ x.pc = "complete" /\ x.task = t
        /\ x.attempt = worker[w].attempt
    BY <1>1 DEF WorkerState, Pcs
  <2>3. Fits(x, w, task)
    BY <1>1, <2>2, CarriesOn DEF InHandler
  <2> QED BY <2>1, <2>3, OneWorker
<1>6. CASE UpdateProgress(w) /\ worker[w].step # PlanLength[Operation[t]]
  <2> DEFINE next == worker[w].step + 1
             pc == StepPc(Operation[t], next)
             x == [worker[w] EXCEPT !.pc = pc, !.step = next]
  <2>1. worker' = [worker EXCEPT ![w] = x]
    BY <1>6 DEF UpdateProgress
  <2>2. next \in 1..6 /\ next <= PlanLength[Operation[t]]
    <3>1. t \in Task /\ Operation[t] \in Operations
      BY <1>1, <1>6, TasksAssumption DEF Fits, UpdateProgress
    <3>2. PlanLength[Operation[t]] \in 1..6 /\ worker[w].step \in 1..6
      BY <1>1, <3>1, PlanFacts DEF WorkerState
    <3>3. worker[w].step <= PlanLength[Operation[t]]
      BY <1>1, <1>6 DEF Fits, UpdateProgress
    <3> QED BY <1>6, <3>2, <3>3
  <2>3. pc \in {"check", "update"}
    BY DEF StepPc
  <2>4. /\ x \in WorkerState /\ x.pc = pc /\ x.task = t
        /\ x.attempt = worker[w].attempt /\ x.step = next
    BY <1>1, <2>2, <2>3 DEF WorkerState, Pcs
  <2>5. Fits(x, w, task)
    BY <1>1, <2>2, <2>3, <2>4, CarriesOn DEF InHandler
  <2> QED BY <2>1, <2>5, OneWorker
<1> QED BY <1>2, <1>3, <1>4, <1>5, <1>6

(* The worker that claims knows the attempt it was given; another worker   *)
(* of the same task is no longer its owner.                                *)
LEMMA ClaimWorkers == ASSUME IInv, NEW w \in Worker, Claim(w) PROVE WorkersOK'
<1> DEFINE t == worker[w].task
           x == [pc |-> StepPc(Operation[t], 1), task |-> t, step |-> 1,
                 attempt |-> task[t].attempts + 1]
<1>1. WorkersOK /\ worker' = [worker EXCEPT ![w] = x]
  BY WorkersOKIsIInv DEF Claim
<1>2. /\ t \in Task
      /\ task[t].attempts + 1 \in 0..MaxAttempts
      /\ task'[t].owner = NameOf[w]
      /\ task'[t].attempts = task[t].attempts + 1
      /\ \A u \in Task \ {t} : task'[u] = task[u]
  BY ClaimRows
<1>3. Fits(x, w, task')
  <2>1. StepPc(Operation[t], 1) \in {"check", "update"}
    BY DEF StepPc
  <2>2. 1 <= PlanLength[Operation[t]]
    BY <1>2, PlanFacts, TasksAssumption
  <2> QED BY <1>2, <2>1, <2>2 DEF Fits, WorkerState, Pcs
<1>4. ASSUME NEW v \in Worker \ {w} PROVE Fits(worker[v], v, task')
  <2>1. Fits(worker[v], v, task)
    BY <1>1 DEF WorkersOK
  <2>2. NameOf[v] # NameOf[w]
    BY <1>4, NamesAssumption
  <2>3. worker[v].pc # "idle" => worker[v].task \in Task
    BY <2>1 DEF Fits
  <2> QED BY <1>2, <2>1, <2>2, <2>3 DEF Fits, InHandler
<1>5. worker' \in [Worker -> WorkerState]
  BY <1>1, <1>3 DEF WorkersOK, Fits
<1>6. \A v \in Worker : Fits(worker'[v], v, task')
  BY <1>1, <1>3, <1>4 DEF WorkersOK
<1> QED BY <1>5, <1>6 DEF WorkersOK

(* Every step keeps the workers in agreement with the rows.                *)
LEMMA NextWorkers == ASSUME IInv, [Next]_vars PROVE WorkersOK'
<1>1. CASE \E w \in Worker : Claim(w)
  BY <1>1, ClaimWorkers
<1>2. CASE \A w \in Worker : ~Claim(w)
  <2>1. RowsKeep
    BY <1>2, NextRows
  <2>2. CASE UNCHANGED worker
    BY <2>1, <2>2, WorkersOKIsIInv, FitsStays DEF WorkersOK
  <2>3. CASE \E w \in Worker :
               \/ SkipClaim(w) \/ ClaimUnresolved(w) \/ CompleteTask(w) \/ FailTask(w)
               \/ CancelTask(w) \/ DispatchRetry(w) \/ WorkerCrash(w) \/ TransactionFails(w)
               \/ \E t \in Task : Deliver(w, t) \/ PrepareRetry(w, t)
    BY <2>1, <2>3, RestingWorkers
  <2>4. CASE \E w \in Worker : CheckCancellation(w) \/ UpdateProgress(w) \/ HandlerRaises(w)
    BY <2>1, <2>4, HandlerWorkers
  <2> QED
    BY <1>2, <2>2, <2>3, <2>4
       DEF Next, Api, WorkerStep, RecoverWith, RecoverStale, CreateWithOutbox, RequestCancel,
           RetryWithOutbox, LeaseExpires, EventLeaseExpires, LoseMessage, ClaimBatch,
           PublisherCrash, SendTask, SendFails, MarkPublished, Redeliver, vars
<1> QED BY <1>1, <1>2

-----------------------------------------------------------------------------
(* The outbox, the broker and the publishers.                              *)

BatchState == [batch : SUBSET Events, sent : SUBSET Events]

DispatchOK ==
    /\ outbox \in [Events -> EventState]
    /\ queue \in [Task -> 0..MaxQueued]
    /\ pub \in [Publisher -> BatchState]
    /\ lost \subseteq Task
    /\ faults \in 0..MaxFaults

(* An event that is in the table and that no publisher has sent.           *)
Waits(e) == outbox[e] # "free" /\ \A p \in Publisher : e \notin pub[p].sent

(* The dispatch part of the inductive invariant.                           *)
LEMMA DispatchOKIsIInv == IInv => DispatchOK /\ PendingIsCarried
  BY DEF IInv, TypeOK, DispatchOK, BatchState

(* Enqueue leaves a message of the task in the broker and takes none away. *)
LEMMA EnqueueQueues ==
    ASSUME queue \in [Task -> 0..MaxQueued], NEW t \in Task, Enqueue(t)
    PROVE  /\ queue' \in [Task -> 0..MaxQueued]
           /\ queue'[t] > 0
           /\ \A u \in Task : queue[u] > 0 => queue'[u] > 0
<1>1. queue'[t] \in 1..MaxQueued /\ \A u \in Task \ {t} : queue'[u] = queue[u]
  BY TasksAssumption DEF Enqueue
<1>2. queue' \in [Task -> 0..MaxQueued]
  BY TasksAssumption DEF Enqueue
<1> QED BY <1>1, <1>2

(* A fault is counted within its bound.                                    *)
LEMMA FaultCounts == ASSUME faults \in 0..MaxFaults, Fault PROVE faults' \in 0..MaxFaults
  BY TasksAssumption DEF Fault

(* Appending events gives each task of S one that waits and changes no     *)
(* event of another task.                                                  *)
LEMMA AppendWaits ==
    ASSUME DispatchOK, NEW S \in SUBSET Task, AppendEvents(S), UNCHANGED pub
    PROVE  /\ outbox' \in [Events -> EventState]
           /\ \A t \in S : \E s \in Slot : Waits(<<t, s>>)'
           /\ \A t \in Task \ S, s \in Slot : outbox'[<<t, s>>] = outbox[<<t, s>>]
           /\ lost' = lost \ S
<1>1. ASSUME NEW t \in S
      PROVE  \E s \in Slot : NextSlot(t) = <<t, s>> /\ FreeSlot(<<t, s>>)
  <2>1. \E s \in Slot : FreeSlot(<<t, s>>)
    BY DEF AppendEvents, HasFreeSlot
  <2> DEFINE s == CHOOSE c \in Slot : FreeSlot(<<t, c>>)
  <2>2. s \in Slot /\ FreeSlot(<<t, s>>)
    BY <2>1
  <2>3. NextSlot(t) = <<t, s>>
    BY DEF NextSlot
  <2> QED BY <2>2, <2>3
<1>2. outbox' \in [Events -> EventState]
  BY DEF AppendEvents, DispatchOK, EventState
<1>3. ASSUME NEW t \in S PROVE \E s \in Slot : Waits(<<t, s>>)'
  <2>1. PICK s \in Slot : NextSlot(t) = <<t, s>> /\ FreeSlot(<<t, s>>)
    BY <1>1
  <2>2. <<t, s>> \in Events
    BY DEF Events
  <2>3. outbox'[<<t, s>>] = "new"
    BY <2>1, <2>2 DEF AppendEvents
  <2>4. \A p \in Publisher : <<t, s>> \notin pub[p].sent
    BY <2>1 DEF FreeSlot, Held
  <2> QED BY <2>3, <2>4 DEF Waits
<1>4. ASSUME NEW t \in Task \ S, NEW s \in Slot PROVE outbox'[<<t, s>>] = outbox[<<t, s>>]
  <2>1. <<t, s>> \in Events
    BY DEF Events
  <2>2. \A u \in S : <<t, s>> # NextSlot(u)
    BY DEF NextSlot
  <2> QED BY <2>1, <2>2 DEF AppendEvents
<1> QED BY <1>2, <1>3, <1>4 DEF AppendEvents

(* Transactions that append events: the API's and the sweep.               *)
LEMMA AppendCarries ==
    ASSUME IInv, NEW S \in SUBSET Task, AppendEvents(S),
           UNCHANGED <<queue, worker, pub, faults>>,
           \A u \in Task \ S : task'[u].status = "PENDING" => task[u].status = "PENDING"
    PROVE  DispatchOK' /\ PendingIsCarried'
<1>1. DispatchOK /\ PendingIsCarried
  BY DispatchOKIsIInv
<1>2. /\ outbox' \in [Events -> EventState]
      /\ \A t \in S : \E s \in Slot : Waits(<<t, s>>)'
      /\ \A t \in Task \ S, s \in Slot : outbox'[<<t, s>>] = outbox[<<t, s>>]
      /\ lost' = lost \ S
  BY <1>1, AppendWaits
<1>3. DispatchOK'
  BY <1>1, <1>2 DEF DispatchOK
<1>4. ASSUME NEW u \in Task, task'[u].status = "PENDING" PROVE Carried(u)'
  <2>1. CASE u \in S
    BY <1>2, <2>1 DEF Carried, Waits
  <2>2. CASE u \notin S
    BY <1>1, <1>2, <1>4, <2>2 DEF PendingIsCarried, Carried
  <2> QED BY <2>1, <2>2
<1> QED BY <1>3, <1>4 DEF PendingIsCarried

(* The API's two transactions and the sweep do append.                     *)
LEMMA AppendSteps ==
    ASSUME IInv,
           \/ \E t \in Task : CreateWithOutbox(t) \/ RetryWithOutbox(t)
           \/ \E rows \in SUBSET {r \in Task : Recoverable(r)} : RecoverStale(rows)
    PROVE  DispatchOK' /\ PendingIsCarried'
<1>1. task \in [Task -> Row]
  BY RowsOKIsIInv DEF RowsOK
<1>2. CASE \E t \in Task : CreateWithOutbox(t) \/ RetryWithOutbox(t)
  <2>1. PICK t \in Task : CreateWithOutbox(t) \/ RetryWithOutbox(t)
    BY <1>2
  <2>2. AppendEvents({t}) /\ UNCHANGED <<queue, worker, pub, faults>>
    BY <2>1 DEF CreateWithOutbox, RetryWithOutbox
  <2>3. \A u \in Task \ {t} : task'[u] = task[u]
    BY <1>1, <2>1 DEF CreateWithOutbox, RetryWithOutbox
  <2> QED BY <2>2, <2>3, AppendCarries
<1>3. CASE \E rows \in SUBSET {r \in Task : Recoverable(r)} : RecoverStale(rows)
  <2>1. PICK rows \in SUBSET {r \in Task : Recoverable(r)} : RecoverStale(rows)
    BY <1>3
  <2> DEFINE spent == {t \in rows : Spent(t)}
  <2>2. AppendEvents(rows \ spent) /\ UNCHANGED <<queue, worker, pub, faults>>
    BY <2>1 DEF RecoverStale
  <2>3. ASSUME NEW u \in Task \ (rows \ spent), task'[u].status = "PENDING"
        PROVE  task[u].status = "PENDING"
    <3>1. CASE u \in spent
      <4>1. task'[u] = Finished(task[u], "FAILED")
        BY <2>1, <3>1 DEF RecoverStale
      <4>2. Finished(task[u], "FAILED").status = "FAILED"
        BY <1>1 DEF Finished, Released, Rows
      <4> QED BY <2>3, <4>1, <4>2
    <3>2. CASE u \notin rows
      BY <2>1, <2>3, <3>2 DEF RecoverStale
    <3> QED BY <3>1, <3>2
  <2> QED BY <2>2, <2>3, AppendCarries
<1> QED BY <1>2, <1>3

(* A step that leaves the outbox, the broker and the publishers alone, and *)
(* takes no PENDING task from a worker about to claim or dispatch it.      *)
LEMMA QuietCarries ==
    ASSUME IInv, UNCHANGED <<outbox, queue, pub, lost, faults>>,
           \A u \in Task : task'[u].status = "PENDING" =>
              /\ task[u].status = "PENDING"
              /\ \A w \in Worker :
                    worker[w].task = u /\ worker[w].pc \in {"claim", "dispatch"}
                       => worker'[w] = worker[w]
    PROVE  DispatchOK' /\ PendingIsCarried'
<1>1. DispatchOK'
  BY DispatchOKIsIInv DEF DispatchOK
<1>2. ASSUME NEW u \in Task, task'[u].status = "PENDING" PROVE Carried(u)'
  <2>1. Carried(u)
    BY <1>2, DispatchOKIsIInv DEF PendingIsCarried
  <2> QED BY <1>2, <2>1 DEF Carried
<1> QED BY <1>1, <1>2 DEF PendingIsCarried

(* No step but an appending one and celery's retry makes a task PENDING.   *)
LEMMA RowsNotPending ==
    /\ \A r \in Row, name \in Name : Claimed(r, name).status = "RUNNING"
    /\ \A r \in Row, s \in TerminalStatuses : Finished(r, s).status = s
    /\ \A r \in Row, stage \in TaskStage : Heartbeat(r, stage).status = r.status
    /\ \A r \in Row : CanCancel(r) => CancelTarget(r).status \in {"CANCELLED", "CANCEL_REQUESTED"}
    /\ \A r \in Row : [r EXCEPT !.lease = "expired"].status = r.status
  BY DEF Claimed, Finished, Released, Heartbeat, CancelTarget, Rows, TerminalStatuses

(* The steps of QuietCarries: cancelling, and what workers do with a task. *)
LEMMA QuietSteps ==
    ASSUME IInv,
           \/ \E t \in Task : RequestCancel(t) \/ LeaseExpires(t)
           \/ \E w \in Worker :
                 \/ Claim(w) \/ SkipClaim(w) \/ ClaimUnresolved(w) \/ CheckCancellation(w)
                 \/ UpdateProgress(w) \/ HandlerRaises(w) \/ CompleteTask(w)
                 \/ FailTask(w) \/ CancelTask(w)
           \/ UNCHANGED vars
    PROVE  DispatchOK' /\ PendingIsCarried'
<1>1. task \in [Task -> Row] /\ WorkersOK /\ PendingIsClaimable
  BY RowsOKIsIInv, WorkersOKIsIInv DEF RowsOK, IInv
<1>2. CASE \E t \in Task : RequestCancel(t) \/ LeaseExpires(t)
  <2>1. PICK t \in Task : RequestCancel(t) \/ LeaseExpires(t)
    BY <1>2
  <2>2. /\ UNCHANGED <<outbox, queue, worker, pub, lost, faults>>
        /\ \A u \in Task \ {t} : task'[u] = task[u]
    BY <1>1, <2>1 DEF RequestCancel, LeaseExpires
  <2>3. task'[t].status = "PENDING" => task[t].status = "PENDING"
    BY ZenonT(60), <1>1, <2>1, RowsNotPending DEF RequestCancel, LeaseExpires
  <2> QED BY <2>2, <2>3, QuietCarries
<1>3. ASSUME NEW w \in Worker,
             \/ CheckCancellation(w) \/ UpdateProgress(w) \/ HandlerRaises(w)
             \/ CompleteTask(w) \/ FailTask(w) \/ CancelTask(w)
      PROVE  DispatchOK' /\ PendingIsCarried'
  <2>1. /\ UNCHANGED <<outbox, queue, pub, lost, faults>>
        /\ worker[w].pc \in InHandler
        /\ \A v \in Worker \ {w} : worker'[v] = worker[v]
    BY <1>1, <1>3 DEF CheckCancellation, UpdateProgress, HandlerRaises, CompleteTask, FailTask,
       CancelTask, InHandler, WorkersOK
  <2>2. \A u \in Task : task'[u].status = "PENDING" => task[u].status = "PENDING"
    <3>1. RowsKeep
      BY <1>3, WorkerRows, NoRow, RowsOKIsIInv DEF CheckCancellation, HandlerRaises
    <3>2. worker[w].task \in Task
      BY <1>1, <2>1 DEF WorkersOK, Fits, InHandler
    <3>3. CASE task' = task
      BY <3>3
    <3>4. CASE UpdateProgress(w) /\ OwnedRunning(task[worker[w].task], NameOf[w])
      <4>1. \A u \in Task \ {worker[w].task} : task'[u] = task[u]
        BY <1>1, <3>4 DEF UpdateProgress
      <4>2. task'[worker[w].task].status = "RUNNING"
        BY <1>1, <3>2, <3>4 DEF UpdateProgress, Heartbeat, OwnedRunning, Rows
      <4> QED BY <4>1, <4>2
    <3>5. CASE CompleteTask(w) \/ FailTask(w) \/ CancelTask(w)
      <4>1. \A u \in Task \ {worker[w].task} : task'[u] = task[u]
        BY <1>1, <3>5 DEF CompleteTask, FailTask, CancelTask
      <4>2. \/ task'[worker[w].task] = task[worker[w].task]
            \/ \E s \in TerminalStatuses : task'[worker[w].task] = Finished(task[worker[w].task], s)
        BY <1>1, <3>2, <3>5 DEF CompleteTask, FailTask, CancelTask, TerminalStatuses
      <4>3. task'[worker[w].task].status = "PENDING" => task[worker[w].task].status = "PENDING"
        BY <1>1, <3>2, <4>2, RowsNotPending DEF TerminalStatuses
      <4> QED BY <4>1, <4>3
    <3>6. UpdateProgress(w) /\ ~OwnedRunning(task[worker[w].task], NameOf[w]) => task' = task
      BY <1>1, <3>2 DEF UpdateProgress
    <3>7. CheckCancellation(w) \/ HandlerRaises(w) => task' = task
      BY DEF CheckCancellation, HandlerRaises
    <3> QED BY <1>3, <3>3, <3>4, <3>5, <3>6, <3>7
  <2> QED BY <2>1, <2>2, QuietCarries DEF InHandler
<1>4. ASSUME NEW w \in Worker, Claim(w) \/ SkipClaim(w) \/ ClaimUnresolved(w)
      PROVE  DispatchOK' /\ PendingIsCarried'
  <2> DEFINE t == worker[w].task
  <2>1. /\ UNCHANGED <<outbox, queue, pub, lost, faults>>
        /\ t \in Task
        /\ \A v \in Worker \ {w} : worker'[v] = worker[v]
        /\ \A u \in Task \ {t} : task'[u] = task[u]
    BY <1>1, <1>4 DEF Claim, SkipClaim, ClaimUnresolved, WorkersOK, Fits
  <2>2. task'[t].status # "PENDING"
    <3>1. CASE Claim(w)
      BY <3>1, ClaimRows
    <3>2. CASE SkipClaim(w)
      BY <2>1, <3>2, <1>1 DEF SkipClaim, PendingIsClaimable
    <3>3. CASE ClaimUnresolved(w)
      <4>1. task'[t] = Finished(task[t], "FAILED")
        BY <1>1, <2>1, <3>3 DEF ClaimUnresolved
      <4> QED BY <1>1, <2>1, <4>1, RowsNotPending DEF TerminalStatuses
    <3> QED BY <1>4, <3>1, <3>2, <3>3
  <2> QED BY <2>1, <2>2, QuietCarries
<1>5. CASE UNCHANGED vars
  BY <1>5, QuietCarries DEF vars
<1> QED BY <1>2, <1>3, <1>4, <1>5

(* The publisher: an event that waited still does unless it was sent, and  *)
(* then its message is in the broker; only a sent event is marked.         *)
LEMMA PublisherSteps ==
    ASSUME IInv,
           \/ \E e \in Events : EventLeaseExpires(e)
           \/ \E p \in Publisher : ClaimBatch(p) \/ PublisherCrash(p)
           \/ \E p \in Publisher, e \in Events :
                 SendTask(p, e) \/ SendFails(p, e) \/ MarkPublished(p, e)
    PROVE  DispatchOK' /\ PendingIsCarried'
<1>1. DispatchOK /\ PendingIsCarried
  BY DispatchOKIsIInv
<1>2. UNCHANGED <<task, worker, lost>>
  BY DEF EventLeaseExpires, ClaimBatch, PublisherCrash, SendTask, SendFails, MarkPublished
<1>3. ASSUME DispatchOK', \A t \in Task : queue[t] > 0 => queue'[t] > 0,
             \A e \in Events : Waits(e) => Waits(e)' \/ queue'[e[1]] > 0
      PROVE  DispatchOK' /\ PendingIsCarried'
  <2>1. ASSUME NEW u \in Task, task'[u].status = "PENDING" PROVE Carried(u)'
    <3>1. Carried(u)
      BY <1>1, <1>2, <2>1 DEF PendingIsCarried
    <3>2. CASE \E s \in Slot : Waits(<<u, s>>)
      <4>1. PICK s \in Slot : Waits(<<u, s>>)
        BY <3>2
      <4>2. <<u, s>> \in Events /\ <<u, s>>[1] = u
        BY DEF Events
      <4>3. Waits(<<u, s>>)' \/ queue'[u] > 0
        BY <1>3, <4>1, <4>2
      <4> QED BY <4>3 DEF Carried, Waits
    <3>3. CASE ~\E s \in Slot : Waits(<<u, s>>)
      BY <1>2, <1>3, <3>1, <3>3 DEF Carried, Waits
    <3> QED BY <3>2, <3>3
  <2> QED BY <1>3, <2>1 DEF PendingIsCarried
<1>4. ASSUME NEW e \in Events, EventLeaseExpires(e) PROVE DispatchOK' /\ PendingIsCarried'
  <2>1. DispatchOK'
    BY <1>1, <1>4 DEF EventLeaseExpires, DispatchOK, EventState
  <2>2. \A f \in Events : Waits(f) => Waits(f)'
    BY <1>1, <1>4 DEF EventLeaseExpires, DispatchOK, Waits
  <2> QED BY <1>3, <1>4, <2>1, <2>2 DEF EventLeaseExpires
<1>5. ASSUME NEW p \in Publisher, ClaimBatch(p) PROVE DispatchOK' /\ PendingIsCarried'
  <2>1. DispatchOK'
    BY <1>1, <1>5 DEF ClaimBatch, DispatchOK, EventState, BatchState
  <2>2. \A f \in Events : outbox[f] # "free" => outbox'[f] # "free"
    BY <1>5 DEF ClaimBatch
  <2>3. \A q \in Publisher : pub'[q].sent = pub[q].sent
    BY <1>1, <1>5 DEF ClaimBatch, DispatchOK, BatchState
  <2> QED BY <1>3, <1>5, <2>1, <2>2, <2>3 DEF ClaimBatch, Waits
<1>6. ASSUME NEW p \in Publisher, PublisherCrash(p) PROVE DispatchOK' /\ PendingIsCarried'
  <2>1. faults' \in 0..MaxFaults
    BY <1>1, <1>6, FaultCounts DEF DispatchOK, PublisherCrash
  <2>2. pub' \in [Publisher -> BatchState] /\ \A q \in Publisher : pub'[q].sent \subseteq pub[q].sent
    BY <1>1, <1>6 DEF PublisherCrash, DispatchOK, BatchState, Resting
  <2>3. DispatchOK'
    BY <1>1, <1>6, <2>1, <2>2 DEF PublisherCrash, DispatchOK
  <2>4. \A f \in Events : Waits(f) => Waits(f)'
    BY <1>6, <2>2 DEF PublisherCrash, Waits
  <2> QED BY <1>3, <1>6, <2>3, <2>4 DEF PublisherCrash
<1>7. ASSUME NEW p \in Publisher, NEW e \in Events, SendTask(p, e)
      PROVE  DispatchOK' /\ PendingIsCarried'
  <2>1. e[1] \in Task
    BY DEF Events
  <2>2. /\ queue' \in [Task -> 0..MaxQueued]
        /\ queue'[e[1]] > 0
        /\ \A u \in Task : queue[u] > 0 => queue'[u] > 0
    BY <1>1, <1>7, <2>1, EnqueueQueues DEF SendTask, DispatchOK
  <2>3. /\ pub' \in [Publisher -> BatchState]
        /\ \A q \in Publisher : pub'[q].sent \subseteq pub[q].sent \cup {e}
    BY <1>1, <1>7 DEF SendTask, DispatchOK, BatchState
  <2>4. DispatchOK'
    BY <1>1, <1>7, <2>2, <2>3 DEF SendTask, DispatchOK
  <2>5. \A f \in Events \ {e} : Waits(f) => Waits(f)'
    BY <1>7, <2>3 DEF SendTask, Waits
  <2> QED BY <1>3, <2>2, <2>4, <2>5
<1>8. ASSUME NEW p \in Publisher, NEW e \in Events, SendFails(p, e)
      PROVE  DispatchOK' /\ PendingIsCarried'
  <2>1. faults' \in 0..MaxFaults
    BY <1>1, <1>8, FaultCounts DEF DispatchOK, SendFails
  <2>2. /\ pub' \in [Publisher -> BatchState]
        /\ \A q \in Publisher : pub'[q].sent = pub[q].sent
    BY <1>1, <1>8 DEF SendFails, DispatchOK, BatchState
  <2>3. /\ outbox' \in [Events -> EventState]
        /\ \A f \in Events : outbox[f] # "free" => outbox'[f] # "free"
    BY <1>1, <1>8 DEF SendFails, DispatchOK, EventState
  <2>4. DispatchOK'
    BY <1>1, <1>8, <2>1, <2>2, <2>3 DEF SendFails, DispatchOK
  <2> QED BY <1>3, <1>8, <2>2, <2>3, <2>4 DEF SendFails, Waits
<1>9. ASSUME NEW p \in Publisher, NEW e \in Events, MarkPublished(p, e)
      PROVE  DispatchOK' /\ PendingIsCarried'
  <2>1. /\ pub' \in [Publisher -> BatchState]
        /\ \A q \in Publisher : pub'[q].sent \subseteq pub[q].sent
    BY <1>1, <1>9 DEF MarkPublished, DispatchOK, BatchState
  <2>2. /\ outbox' \in [Events -> EventState]
        /\ \A f \in Events \ {e} : outbox'[f] = outbox[f]
    BY <1>1, <1>9 DEF MarkPublished, DispatchOK, EventState
  <2>3. DispatchOK'
    BY <1>1, <1>9, <2>1, <2>2 DEF MarkPublished, DispatchOK
  <2>4. ~Waits(e)
    BY <1>9 DEF MarkPublished, Waits
  <2>5. \A f \in Events : Waits(f) => Waits(f)'
    BY <2>1, <2>2, <2>4 DEF Waits
  <2> QED BY <1>3, <1>9, <2>3, <2>5 DEF MarkPublished
<1> QED BY <1>4, <1>5, <1>6, <1>7, <1>8, <1>9

(* The broker and celery's retry: a message that goes is with a worker,    *)
(* queued again or counted as lost.                                        *)
LEMMA BrokerSteps ==
    ASSUME IInv,
           \/ \E t \in Task : LoseMessage(t)
           \/ \E w \in Worker : \/ DispatchRetry(w) \/ WorkerCrash(w) \/ Redeliver(w)
                                \/ TransactionFails(w)
           \/ \E w \in Worker, t \in Task : Deliver(w, t) \/ PrepareRetry(w, t)
    PROVE  DispatchOK' /\ PendingIsCarried'
<1>1. DispatchOK /\ PendingIsCarried /\ WorkersOK /\ task \in [Task -> Row]
  BY DispatchOKIsIInv, WorkersOKIsIInv, RowsOKIsIInv DEF RowsOK
<1>2. UNCHANGED <<outbox, pub>>
  BY DEF LoseMessage, DispatchRetry, WorkerCrash, Redeliver, TransactionFails, Deliver, PrepareRetry
<1> DEFINE Sure(u) == \/ queue'[u] > 0
                      \/ u \in lost'
                      \/ \E w \in Worker : /\ worker'[w].task = u
                                           /\ worker'[w].pc \in {"claim", "dispatch"}
           Same(w) == worker'[w] = worker[w]
(* Whatever happens to one task's message and its worker w leaves the      *)
(* others where they are.                                                  *)
<1>3. ASSUME NEW t \in Task, NEW w \in Worker,
             Sure(t) \/ worker[w].pc \in InHandler \/ worker[w].pc = "idle",
             queue[t] > 0 /\ queue'[t] = 0 => Sure(t),
             t \in lost /\ t \notin lost' => Sure(t),
             worker[w].pc # "idle" => worker[w].task = t,
             \A u \in Task \ {t} : /\ queue'[u] = queue[u]
                                   /\ u \in lost => u \in lost'
                                   /\ task'[u] = task[u],
             \A v \in Worker \ {w} : Same(v),
             task'[t].status = "PENDING" => task[t].status = "PENDING" \/ Sure(t),
             queue' \in [Task -> 0..MaxQueued], lost' \subseteq Task, faults' \in 0..MaxFaults
      PROVE  DispatchOK' /\ PendingIsCarried'
  <2>1. DispatchOK'
    BY <1>1, <1>2, <1>3 DEF DispatchOK
  <2>2. queue'[t] = 0 \/ queue'[t] > 0
    BY <1>3
  <2>3. ASSUME NEW u \in Task, task'[u].status = "PENDING" PROVE Carried(u)'
    <3>1. CASE Sure(u)
      BY <3>1 DEF Carried
    <3>2. CASE ~Sure(u) /\ u = t
      <4>1. Carried(t) /\ (worker[w].pc \in InHandler \/ worker[w].pc = "idle")
        BY <1>1, <1>3, <2>3, <3>2 DEF PendingIsCarried
      <4>2. queue[t] > 0 => queue'[t] > 0
        BY <1>3, <2>2, <3>2
      <4>3. ASSUME NEW v \in Worker, worker[v].task = t, worker[v].pc \in {"claim", "dispatch"}
            PROVE  v # w
        BY <4>1, <4>3 DEF InHandler
      <4> QED BY <1>2, <1>3, <3>2, <4>1, <4>2, <4>3 DEF Carried
    <3>3. CASE ~Sure(u) /\ u # t
      <4>1. Carried(u)
        BY <1>1, <1>3, <2>3, <3>3 DEF PendingIsCarried
      <4>2. ASSUME NEW v \in Worker, worker[v].task = u, worker[v].pc \in {"claim", "dispatch"}
            PROVE  v # w
        BY <1>3, <3>3, <4>2
      <4> QED BY <1>2, <1>3, <3>3, <4>1, <4>2 DEF Carried
    <3> QED BY <3>1, <3>2, <3>3
  <2> QED BY <2>1, <2>3 DEF PendingIsCarried
<1>4. ASSUME NEW t \in Task, LoseMessage(t) PROVE DispatchOK' /\ PendingIsCarried'
  <2>1. /\ queue' \in [Task -> 0..MaxQueued] /\ lost' = lost \cup {t}
        /\ faults' \in 0..MaxFaults /\ UNCHANGED <<task, worker>>
        /\ \A u \in Task \ {t} : queue'[u] = queue[u]
    BY <1>1, <1>4, FaultCounts, TasksAssumption DEF LoseMessage, DispatchOK
  <2>2. ASSUME NEW u \in Task, task'[u].status = "PENDING" PROVE Carried(u)'
    BY <1>1, <1>2, <2>1, <2>2 DEF PendingIsCarried, Carried
  <2> QED BY <1>1, <1>2, <2>1, <2>2 DEF DispatchOK, PendingIsCarried
<1>5. ASSUME NEW w \in Worker, DispatchRetry(w) \/ WorkerCrash(w)
      PROVE  DispatchOK' /\ PendingIsCarried'
  <2> DEFINE t == worker[w].task
  <2>1. /\ t \in Task
        /\ \A v \in Worker \ {w} : Same(v)
        /\ UNCHANGED task
        /\ faults' \in 0..MaxFaults
    BY <1>1, <1>5, FaultCounts DEF DispatchRetry, WorkerCrash, WorkersOK, Fits, DispatchOK
  <2>2. CASE Enqueue(t) /\ UNCHANGED lost
    <3>1. /\ queue' \in [Task -> 0..MaxQueued]
          /\ queue'[t] > 0
          /\ \A u \in Task \ {t} : queue'[u] = queue[u]
      BY <1>1, <2>1, <2>2, EnqueueQueues DEF DispatchOK, Enqueue
    <3> QED BY <1>1, <1>3, <2>1, <2>2, <3>1 DEF DispatchOK
  <2>3. CASE lost' = lost \cup {t} /\ UNCHANGED queue
    BY <1>1, <1>3, <2>1, <2>3 DEF DispatchOK
  <2> QED BY <1>5, <2>2, <2>3 DEF DispatchRetry, WorkerCrash
<1>6. ASSUME NEW w \in Worker, Redeliver(w) PROVE DispatchOK' /\ PendingIsCarried'
  <2> DEFINE t == worker[w].task
  <2>1. t \in Task /\ UNCHANGED <<task, worker, lost>> /\ faults' \in 0..MaxFaults
    BY <1>1, <1>6, FaultCounts DEF Redeliver, WorkersOK, Fits, DispatchOK, InHandler
  <2>2. /\ queue' \in [Task -> 0..MaxQueued]
        /\ queue'[t] > 0
        /\ \A u \in Task \ {t} : queue'[u] = queue[u]
    BY <1>1, <1>6, <2>1, EnqueueQueues DEF DispatchOK, Enqueue, Redeliver
  <2> QED BY <1>1, <1>3, <2>1, <2>2 DEF DispatchOK
<1>7. ASSUME NEW w \in Worker, TransactionFails(w) PROVE DispatchOK' /\ PendingIsCarried'
  <2> DEFINE t == worker[w].task
  <2>1. /\ t \in Task
        /\ \A v \in Worker \ {w} : Same(v)
        /\ UNCHANGED <<task, queue>>
        /\ faults' \in 0..MaxFaults
        /\ lost' = IF worker[w].pc = "claim" THEN lost \cup {t} ELSE lost
        /\ worker[w].pc = "claim" \/ worker[w].pc \in InHandler
    BY <1>1, <1>7, FaultCounts
       DEF TransactionFails, WorkersOK, Fits, DispatchOK, InHandler
  <2> QED BY <1>1, <1>3, <2>1 DEF DispatchOK
<1>8. ASSUME NEW w \in Worker, NEW t \in Task, Deliver(w, t) \/ PrepareRetry(w, t)
      PROVE  DispatchOK' /\ PendingIsCarried'
  <2>1. /\ worker[w].pc = "idle"
        /\ \A v \in Worker \ {w} : Same(v)
        /\ \A u \in Task \ {t} : queue'[u] = queue[u] /\ task'[u] = task[u]
        /\ lost' \in {lost, lost \ {t}}
        /\ UNCHANGED faults
    BY <1>1, <1>8 DEF Deliver, PrepareRetry, WorkersOK, DispatchOK
  <2>2. Sure(t)
    <3>1. PICK pc \in {"claim", "dispatch"} :
             worker' = [worker EXCEPT ![w] = [Idle EXCEPT !.pc = pc, !.task = t]]
      BY <1>8 DEF Deliver, PrepareRetry
    <3>2. worker'[w].pc = pc /\ worker'[w].task = t
      BY <1>1, <3>1 DEF Idle, WorkersOK
    <3> QED BY <3>2
  <2>3. queue' \in [Task -> 0..MaxQueued]
    <3>1. CASE Deliver(w, t)
      <4>1. queue[t] \in 0..MaxQueued /\ queue[t] > 0 /\ queue' = [queue EXCEPT ![t] = queue[t] - 1]
        BY <1>1, <3>1 DEF Deliver, DispatchOK
      <4>2. queue[t] - 1 \in 0..MaxQueued
        BY <4>1, TasksAssumption
      <4> QED BY <1>1, <4>1, <4>2 DEF DispatchOK
    <3>2. CASE PrepareRetry(w, t)
      BY <1>1, <3>2 DEF PrepareRetry, DispatchOK
    <3> QED BY <1>8, <3>1, <3>2
  <2> QED BY <1>1, <1>3, <2>1, <2>2, <2>3 DEF DispatchOK
<1> QED BY <1>4, <1>5, <1>6, <1>7, <1>8

(* Every step keeps waiting tasks carried.                                 *)
LEMMA NextCarries == ASSUME IInv, [Next]_vars PROVE DispatchOK' /\ PendingIsCarried'
  BY AppendSteps, QuietSteps, PublisherSteps, BrokerSteps DEF Next, Api, WorkerStep, RecoverWith

-----------------------------------------------------------------------------
(* The theorems.                                                           *)

(* It holds in the initial state ...                                       *)
LEMMA InitIInv == Init => IInv
<1> SUFFICES ASSUME Init PROVE IInv
  OBVIOUS
<1>1. \A t \in Task : task[t] = AbsentRow
  BY DEF Init
<1>2. AbsentRow \in Row /\ RowOK(AbsentRow)
  BY TasksAssumption DEF AbsentRow, RowOK, Rows, TaskStatus, TaskStage, LeaseState, LeasedStatuses
<1>3. RowsOK
  BY <1>1, <1>2 DEF Init, RowsOK
<1>4. WorkersOK
  <2>1. Idle \in WorkerState
    BY TasksAssumption DEF Idle, WorkerState, Pcs
  <2>2. \A v \in Worker : worker[v] = Idle
    BY DEF Init
  <2>3. ASSUME NEW v \in Worker PROVE Fits(worker[v], v, task)
    BY <2>1, <2>2, OutsideFits DEF Idle
  <2> QED BY <2>1, <2>3 DEF Init, WorkersOK
<1>5. DispatchOK
  BY TasksAssumption DEF Init, DispatchOK, EventState, BatchState, Resting
<1>6. PendingIsCarried
  BY <1>1 DEF PendingIsCarried, AbsentRow
<1>7. TypeOK
  BY <1>3, <1>4, <1>5 DEF TypeOK, RowsOK, WorkersOK, WorkerState, DispatchOK, BatchState
<1> QED BY <1>3, <1>4, <1>6, <1>7, RowsOKIsIInv, WorkersOKIsIInv DEF IInv

(* ... and every step preserves it.                                        *)
LEMMA NextIInv == IInv /\ [Next]_vars => IInv'
<1> SUFFICES ASSUME IInv, [Next]_vars PROVE IInv'
  OBVIOUS
<1>1. RowsOK'
  <2>1. CASE \E w \in Worker : Claim(w)
    BY <2>1, ClaimRows DEF RowsOK, RowStep
  <2>2. CASE \A w \in Worker : ~Claim(w)
    BY <2>2, NextRows DEF RowsOK, RowsKeep, RowStep
  <2> QED BY <2>1, <2>2
<1>2. WorkersOK'
  BY NextWorkers
<1>3. DispatchOK' /\ PendingIsCarried'
  BY NextCarries
<1>4. /\ (LeaseMatchesStatus /\ PendingIsClaimable /\ CancellationIsInterruptible)'
      /\ AbsentIsNew'
  BY <1>1, RowsOKIsIInv, PTL
<1>5. (WorkersAreBusy /\ OwnersHaveTheLatestClaim /\ SeenCancellationStands)'
  BY <1>2, WorkersOKIsIInv, PTL
<1>6. TypeOK'
  BY <1>1, <1>2, <1>3 DEF TypeOK, RowsOK, WorkersOK, WorkerState, DispatchOK, BatchState
<1> QED BY <1>3, <1>4, <1>5, <1>6 DEF IInv

(* The inductive invariant holds throughout: rows, workers and dispatch    *)
(* stay in agreement whatever interleaving, crash or loss there is.        *)
THEOREM Invariance == Spec => []IInv
  BY InitIInv, NextIInv, PTL DEF Spec

(* Every variable keeps its type: no attempt beyond max_attempts.          *)
THEOREM TypeCorrect == Spec => []TypeOK
<1>1. IInv => TypeOK
  BY DEF IInv
<1> QED BY <1>1, Invariance, PTL

(* Exactly the running tasks are leased: no path that ends or requeues a   *)
(* task forgets to release it.                                             *)
THEOREM LeasesMatch == Spec => []LeaseMatchesStatus
<1>1. IInv => LeaseMatchesStatus
  BY DEF IInv
<1> QED BY <1>1, Invariance, PTL

(* No retry and no sweep leaves a PENDING task that claim() refuses.       *)
THEOREM WaitingCanStart == Spec => []PendingIsClaimable
<1>1. IInv => PendingIsClaimable
  BY DEF IInv
<1> QED BY <1>1, Invariance, PTL

(* A row that waits, is asked to cancel or was cancelled shows a stage     *)
(* that may be interrupted.                                                *)
THEOREM CancellationStopsProgress == Spec => []CancellationIsInterruptible
<1>1. IInv => CancellationIsInterruptible
  BY DEF IInv
<1> QED BY <1>1, Invariance, PTL

(* The transactional outbox never strands a PENDING task by itself.        *)
THEOREM OutboxDelivers == Spec => []PendingIsDispatched
<1>1. IInv => PendingIsDispatched
  <2> SUFFICES ASSUME IInv, NEW t \in Task, task[t].status = "PENDING"
               PROVE  Dispatched(t) \/ t \in lost
    BY DEF PendingIsDispatched
  <2>1. Carried(t)
    BY DEF IInv, PendingIsCarried
  <2> QED BY <2>1 DEF Carried, Dispatched, Unpublished
<1> QED BY <1>1, Invariance, PTL

(* Leases fence: a worker that lost its claim changes nothing of the row.  *)
THEOREM StaleWorkersAreFenced == Spec => OnlyLatestClaimReports
<1>1. IInv /\ [Next]_vars => [ReportsForLatestClaim]_vars
  <2> SUFFICES ASSUME IInv, Next, NEW w \in Worker, worker[w].pc \in InHandler,
                      worker'[w] # worker[w], task' # task
               PROVE  worker[w].attempt = task[worker[w].task].attempts
    BY DEF ReportsForLatestClaim
  <2>1. WorkersOK /\ RowsOK
    BY WorkersOKIsIInv, RowsOKIsIInv
  <2>2. UpdateProgress(w) \/ CompleteTask(w) \/ FailTask(w) \/ CancelTask(w)
    <3>1. \E v \in Worker :
             \/ Claim(v) \/ ClaimUnresolved(v) \/ \E t \in Task : PrepareRetry(v, t)
             \/ UpdateProgress(v) \/ CompleteTask(v) \/ FailTask(v) \/ CancelTask(v)
      BY DEF Next, Api, WorkerStep, RecoverWith, RecoverStale, CreateWithOutbox, RequestCancel,
         RetryWithOutbox, LeaseExpires, EventLeaseExpires, LoseMessage, ClaimBatch,
         PublisherCrash, SendTask, SendFails, MarkPublished, Redeliver, SkipClaim,
         CheckCancellation, HandlerRaises, DispatchRetry, WorkerCrash, TransactionFails, Deliver
    <3>2. PICK v \in Worker :
             \/ Claim(v) \/ ClaimUnresolved(v) \/ \E t \in Task : PrepareRetry(v, t)
             \/ UpdateProgress(v) \/ CompleteTask(v) \/ FailTask(v) \/ CancelTask(v)
      BY <3>1
    <3>3. \A u \in Worker \ {v} : worker'[u] = worker[u]
      BY <2>1, <3>2 DEF Claim, ClaimUnresolved, PrepareRetry, UpdateProgress, CompleteTask,
         FailTask, CancelTask, WorkersOK
    <3>4. v = w
      BY <3>3
    <3> QED BY <3>2, <3>4 DEF Claim, ClaimUnresolved, PrepareRetry, InHandler
  <2>3. worker[w].task \in Task
    BY <2>1 DEF WorkersOK, Fits, InHandler
  <2>4. task[worker[w].task].owner = NameOf[w]
    BY <2>1, <2>2, <2>3 DEF UpdateProgress, CompleteTask, FailTask, CancelTask, OwnedRunning,
       HoldsLease, RowsOK
  <2> QED BY <2>4 DEF IInv, OwnersHaveTheLatestClaim
<1> QED BY <1>1, Invariance, PTL DEF Spec, OnlyLatestClaimReports

(* Workers, broker, outbox and sweep together implement the life cycle.    *)
THEOREM Implements == Spec => ImplementsLifecycle
<1>1. Init => Lifecycle!Init
  BY DEF Init, Lifecycle!Init, AbsentRow
<1>2. IInv /\ [Next]_vars => [Lifecycle!Next]_(Lifecycle!vars)
  <2> SUFFICES ASSUME IInv, [Next]_vars, NEW t \in Task
               PROVE  \/ Lifecycle!Submit(t) \/ Lifecycle!Start(t) \/ Lifecycle!Settle(t)
                      \/ Lifecycle!Cancel(t) \/ Lifecycle!Requeue(t) \/ Lifecycle!Stays(t)
    BY DEF Lifecycle!Next, Lifecycle!Step
  <2>1. RowStep(task[t], task'[t])
    <3>1. CASE \E w \in Worker : Claim(w)
      BY <3>1, ClaimRows
    <3>2. CASE \A w \in Worker : ~Claim(w)
      BY <3>2, NextRows DEF RowsKeep
    <3> QED BY <3>1, <3>2
  <2>2. task[t] \in Row
    BY RowsOKIsIInv DEF RowsOK
  <2>3. task[t].attempts \in Nat
    BY <2>2, TasksAssumption DEF Rows
  <2> QED BY <2>1, <2>3 DEF RowStep, Advances, Lifecycle!Submit, Lifecycle!Start, Lifecycle!Settle,
             Lifecycle!Cancel, Lifecycle!Requeue, Lifecycle!Stays, Lifecycle!Moves
<1> QED BY <1>1, <1>2, Invariance, PTL DEF Spec, ImplementsLifecycle, Lifecycle!Spec
=============================================================================
