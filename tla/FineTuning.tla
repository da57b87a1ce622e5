----------------------------- MODULE FineTuning -----------------------------
(***************************************************************************)
(* Fine-tuning jobs and the operational tasks that train and evaluate them *)
(* (repositories/operations.py, operations/task_runtime.py).  A job and    *)
(* its training task are two rows: the API writes them together, the       *)
(* worker in transactions of their own, and the API can cancel the task    *)
(* without the job (api/tasks.py).                                         *)
(*                                                                         *)
(* A job is named by its specification, of which the table allows one      *)
(* (uq_fine_tuning_job_spec), and names its training task.  Both kinds of  *)
(* task have max_attempts = 1, so no retry is ever accepted.  How a task   *)
(* reaches a worker is KnowledgeTasks' subject.                            *)
(***************************************************************************)
EXTENDS TaskRow

CONSTANTS
    Job,         \* specifications, each with its training task
    Evaluation,  \* evaluation tasks
    Worker,      \* worker processes
    NoTask,
    MaxFaults    \* bound: crashes and failed transactions

Task == Job \cup Evaluation

(* Every process claims under this name (_run_operational_task).           *)
OperationalWorker == "celery-operational-worker"

MaxAttempts == 1

ASSUME FineTuningAssumption ==
    /\ Job \cap Evaluation = {}
    /\ NoTask \notin Task
    /\ NoOne # OperationalWorker
    /\ MaxFaults \in Nat

VARIABLES
    job,        \* fine_tuning_jobs: status, artifact_uri, evaluation_json
    task,       \* async_tasks
    evaluates,  \* resource_id of each evaluation task
    process,    \* the subprocess of each task
    worker,     \* what each worker process is doing
    faults

vars == <<job, task, evaluates, process, worker, faults>>

JobStatus == {"ABSENT", "PENDING", "RUNNING", "SUCCEEDED", "FAILED", "CANCELLED"}
Verdict == {"none", "passed", "failed"}

TrainPcs == {"start", "load", "clean", "poll", "beat", "acknowledge", "verify",
             "complete", "succeed", "fail job", "fail"}
EvaluatePcs == {"get job", "load", "poll", "beat", "acknowledge", "verify",
                "complete", "succeed", "fail"}

IdleWorker == [pc |-> "idle", task |-> NoTask]
AbsentJob == [status |-> "ABSENT", artifact |-> FALSE, evaluation |-> "none"]

TypeOK ==
    /\ job \in [Job -> [status : JobStatus, artifact : BOOLEAN, evaluation : Verdict]]
    /\ task \in [Task -> Rows({OperationalWorker}, MaxAttempts)]
    /\ evaluates \in [Evaluation -> Job \cup {NoTask}]
    /\ process \in [Task -> {"none", "running", "ok", "failed", "killed"}]
    /\ worker \in [Worker -> [pc : {"idle"} \cup TrainPcs \cup EvaluatePcs,
                              task : Task \cup {NoTask}]]
    /\ faults \in 0..MaxFaults

Init ==
    /\ job = [j \in Job |-> AbsentJob]
    /\ task = [t \in Task |-> AbsentRow]
    /\ evaluates = [e \in Evaluation |-> NoTask]
    /\ process = [t \in Task |-> "none"]
    /\ worker = [w \in Worker |-> IdleWorker]
    /\ faults = 0

Fault == faults < MaxFaults /\ faults' = faults + 1

-----------------------------------------------------------------------------
(* The API.                                                                *)

CreateFineTuningJob(j) ==
    /\ job[j].status = "ABSENT"
    /\ job' = [job EXCEPT ![j].status = "PENDING"]
    /\ task' = [task EXCEPT ![j] = NewRow]
    /\ UNCHANGED <<evaluates, process, worker, faults>>

(* Variant: a job that has ended is cancelled too.                         *)
CancelAnyJob(j) ==
    /\ job[j].status # "ABSENT"
    /\ job' = [job EXCEPT ![j].status = "CANCELLED"]
    /\ task' = [task EXCEPT ![j].status =
                  IF @ = "PENDING" THEN "CANCELLED" ELSE "CANCEL_REQUESTED"]
    /\ UNCHANGED <<evaluates, process, worker, faults>>

(* The task gets CANCEL_REQUESTED unless it waits, whatever it is.         *)
CancelFineTuningJob(j) ==
    /\ job[j].status \in {"PENDING", "RUNNING"}
    /\ job' = [job EXCEPT ![j].status = "CANCELLED"]
    /\ task' = [task EXCEPT ![j].status =
                  IF @ = "PENDING" THEN "CANCELLED" ELSE "CANCEL_REQUESTED"]
    /\ UNCHANGED <<evaluates, process, worker, faults>>

(* POST /tasks/{id}/cancel: the job does not hear of it.                   *)
RequestCancel(t) ==
    /\ CanCancel(task[t])
    /\ task' = [task EXCEPT ![t] = CancelTarget(@)]
    /\ UNCHANGED <<job, evaluates, process, worker, faults>>

EvaluateFineTuningJob(j, e) ==
    /\ job[j].status = "SUCCEEDED" /\ job[j].artifact
    /\ task[e].status = "ABSENT"
    /\ task' = [task EXCEPT ![e] = NewRow]
    /\ evaluates' = [evaluates EXCEPT ![e] = j]
    /\ UNCHANGED <<job, process, worker, faults>>

-----------------------------------------------------------------------------
(* OperationalTaskRuntime.                                                 *)

Training(w) == worker[w].task \in Job
Row(w) == task[worker[w].task]

Goto(w, pc) == worker' = [worker EXCEPT ![w].pc = pc]
Rests(w) == worker' = [worker EXCEPT ![w] = IdleWorker]

LeaseExpires(t) ==
    /\ task[t].lease = "live"
    /\ task' = [task EXCEPT ![t].lease = "expired"]
    /\ UNCHANGED <<job, evaluates, process, worker, faults>>

Claim(w, t) ==
    /\ worker[w].pc = "idle"
    /\ CanClaim(task[t], MaxAttempts)
    /\ task' = [task EXCEPT ![t] = Claimed(@, OperationalWorker)]
    /\ worker' = [worker EXCEPT
                    ![w] = [pc |-> IF t \in Job THEN "start" ELSE "get job", task |-> t]]
    /\ UNCHANGED <<job, evaluates, process, faults>>

(* Variant: a cancelled job is started all the same.                       *)
StartAnyJob(w) ==
    /\ worker[w].pc = "start"
    /\ job' = [job EXCEPT ![worker[w].task].status = "RUNNING"]
    /\ Goto(w, "load")
    /\ UNCHANGED <<task, evaluates, process, faults>>

StartFineTuningJob(w) ==
    /\ worker[w].pc = "start"
    /\ IF job[worker[w].task].status = "CANCELLED"
       THEN Goto(w, "fail job") /\ UNCHANGED job
       ELSE /\ job' = [job EXCEPT ![worker[w].task].status = "RUNNING"]
            /\ Goto(w, "load")
    /\ UNCHANGED <<task, evaluates, process, faults>>

GetFineTuningJob(w) ==
    /\ worker[w].pc = "get job"
    /\ LET j == evaluates[worker[w].task]
       IN Goto(w, IF job[j].status = "SUCCEEDED" /\ job[j].artifact THEN "load" ELSE "fail")
    /\ UNCHANGED <<job, task, evaluates, process, faults>>

(* heartbeat(stage): refused when the task is not ours any more, and the   *)
(* handler goes on.                                                        *)
HeartbeatRow(w, stage) ==
    task' = [task EXCEPT ![worker[w].task] =
               IF OwnedRunning(@, OperationalWorker) THEN Heartbeat(@, stage) ELSE @]

(* LOADING; training then writes the dataset's files, evaluation spawns.   *)
ReportLoading(w) ==
    /\ worker[w].pc = "load"
    /\ HeartbeatRow(w, "LOADING")
    /\ IF Training(w)
       THEN Goto(w, "clean") /\ UNCHANGED process
       ELSE /\ Goto(w, "poll")
            /\ process' = [process EXCEPT ![worker[w].task] = "running"]
    /\ UNCHANGED <<job, evaluates, faults>>

(* CLEANING, and the training command is spawned.                          *)
ReportCleaning(w) ==
    /\ worker[w].pc = "clean"
    /\ HeartbeatRow(w, "CLEANING")
    /\ process' = [process EXCEPT ![worker[w].task] = "running"]
    /\ Goto(w, "poll")
    /\ UNCHANGED <<job, evaluates, faults>>

ProcessExits(t) ==
    /\ process[t] = "running"
    /\ \E result \in {"ok", "failed"} : process' = [process EXCEPT ![t] = result]
    /\ UNCHANGED <<job, task, evaluates, worker, faults>>

Failing(w) == IF Training(w) THEN "fail job" ELSE "fail"

(* Variant: the command is waited for, cancelled or not.                   *)
RunToTheEnd(w) ==
    /\ worker[w].pc = "poll"
    /\ CASE process[worker[w].task] = "ok" -> Goto(w, "verify")
         [] process[worker[w].task] = "failed" -> Goto(w, Failing(w))
         [] OTHER -> Goto(w, "beat")
    /\ UNCHANGED <<job, task, evaluates, process, faults>>

(* Variant: a command that failed is taken for one that ended.             *)
IgnoreExitCode(w) ==
    /\ worker[w].pc = "poll"
    /\ LET t == worker[w].task
           stop == process[t] = "running" /\ CancellationRequested(Row(w), OperationalWorker)
       IN /\ CASE process[t] \in {"ok", "failed"} -> Goto(w, "verify")
               [] stop -> Goto(w, "acknowledge")
               [] OTHER -> Goto(w, "beat")
          /\ process' = IF stop THEN [process EXCEPT ![t] = "killed"] ELSE process
    /\ UNCHANGED <<job, task, evaluates, faults>>

(* One turn of _run_command: the command has ended, or a cancellation is   *)
(* observed and the command terminated, or the loop sleeps.                *)
RunCommand(w) ==
    /\ worker[w].pc = "poll"
    /\ LET t == worker[w].task
           stop == process[t] = "running" /\ CancellationRequested(Row(w), OperationalWorker)
       IN /\ CASE process[t] = "ok" -> Goto(w, "verify")
               [] process[t] = "failed" -> Goto(w, Failing(w))
               [] stop -> Goto(w, "acknowledge")
               [] OTHER -> Goto(w, "beat")
          /\ process' = IF stop THEN [process EXCEPT ![t] = "killed"] ELSE process
    /\ UNCHANGED <<job, task, evaluates, faults>>

HeartbeatCommand(w) ==
    /\ worker[w].pc = "beat"
    /\ HeartbeatRow(w, "CLEANING")
    /\ Goto(w, "poll")
    /\ UNCHANGED <<job, evaluates, process, faults>>

AcknowledgeCancellation(w) ==
    /\ worker[w].pc = "acknowledge"
    /\ task' = [task EXCEPT ![worker[w].task] =
                  IF CancellationRequested(@, OperationalWorker)
                  THEN Finished(@, "CANCELLED") ELSE @]
    /\ Rests(w)
    /\ UNCHANGED <<job, evaluates, process, faults>>

ReportVerifying(w) ==
    /\ worker[w].pc = "verify"
    /\ HeartbeatRow(w, "VERIFYING")
    /\ Goto(w, "complete")
    /\ UNCHANGED <<job, evaluates, process, faults>>

(* Variant: the task is reported before the job.                           *)
CompleteLater(w) ==
    /\ worker[w].pc = "complete"
    /\ task' = [task EXCEPT ![worker[w].task] =
                  IF OwnedRunning(@, OperationalWorker) THEN Finished(@, "SUCCEEDED") ELSE @]
    /\ Goto(w, "succeed")
    /\ UNCHANGED <<job, evaluates, process, faults>>

(* _complete_fine_tuning_job, _complete_evaluation: no look at the status. *)
CompleteJob(w) ==
    /\ worker[w].pc = "complete"
    /\ IF Training(w)
       THEN job' = [job EXCEPT ![worker[w].task].status = "SUCCEEDED",
                               ![worker[w].task].artifact = TRUE]
       ELSE \E verdict \in {"passed", "failed"} :
              job' = [job EXCEPT ![evaluates[worker[w].task]].evaluation = verdict]
    /\ Goto(w, "succeed")
    /\ UNCHANGED <<task, evaluates, process, faults>>

Succeed(w) ==
    /\ worker[w].pc = "succeed"
    /\ task' = [task EXCEPT ![worker[w].task] =
                  IF OwnedRunning(@, OperationalWorker) THEN Finished(@, "SUCCEEDED") ELSE @]
    /\ Rests(w)
    /\ UNCHANGED <<job, evaluates, process, faults>>

(* Variant: the job keeps its status when the handler raises.              *)
KeepJob(w) ==
    /\ worker[w].pc = "fail job"
    /\ Goto(w, "fail")
    /\ UNCHANGED <<job, task, evaluates, process, faults>>

FailFineTuningJob(w) ==
    /\ worker[w].pc = "fail job"
    /\ job' = [job EXCEPT ![worker[w].task].status =
                 IF @ = "CANCELLED" THEN @ ELSE "FAILED"]
    /\ Goto(w, "fail")
    /\ UNCHANGED <<task, evaluates, process, faults>>

Fail(w) ==
    /\ worker[w].pc = "fail"
    /\ task' = [task EXCEPT ![worker[w].task] =
                  IF OwnedRunning(@, OperationalWorker) THEN Finished(@, "FAILED") ELSE @]
    /\ Rests(w)
    /\ UNCHANGED <<job, evaluates, process, faults>>

(* A split without items, an artifact or a report that cannot be read.     *)
HandlerRaises(w) ==
    /\ \/ worker[w].pc = "clean"
       \/ worker[w].pc = "complete"
    /\ Goto(w, Failing(w))
    /\ UNCHANGED <<job, task, evaluates, process, faults>>

(* The database refuses a transaction; in the polling loop the command is  *)
(* left running.                                                           *)
TransactionFails(w) ==
    /\ worker[w].pc \in {"start", "get job", "load", "poll", "beat", "acknowledge",
                         "verify", "succeed"}
    /\ Fault
    /\ Goto(w, Failing(w))
    /\ UNCHANGED <<job, task, evaluates, process>>

(* The process is killed, or the database refuses one of the transactions  *)
(* that report a failure.                                                  *)
WorkerStops(w) ==
    /\ worker[w].pc # "idle"
    /\ Fault
    /\ Rests(w)
    /\ UNCHANGED <<job, task, evaluates, process>>

-----------------------------------------------------------------------------

WorkerStep(w) ==
    \/ StartFineTuningJob(w) \/ GetFineTuningJob(w) \/ ReportLoading(w) \/ ReportCleaning(w)
    \/ RunCommand(w) \/ HeartbeatCommand(w) \/ AcknowledgeCancellation(w)
    \/ ReportVerifying(w) \/ CompleteJob(w) \/ Succeed(w) \/ FailFineTuningJob(w) \/ Fail(w)

Next ==
    \/ \E j \in Job :
          \/ CreateFineTuningJob(j) \/ CancelFineTuningJob(j)
          \/ \E e \in Evaluation : EvaluateFineTuningJob(j, e)
    \/ \E t \in Task : RequestCancel(t) \/ LeaseExpires(t) \/ ProcessExits(t)
    \/ \E w \in Worker, t \in Task : Claim(w, t)
    \/ \E w \in Worker :
          WorkerStep(w) \/ HandlerRaises(w) \/ TransactionFails(w) \/ WorkerStops(w)

Spec == Init /\ [][Next]_vars

(* Workers that are up go on and take what waits (KnowledgeTasks shows     *)
(* that the outbox delivers).  A command may run for ever.                 *)
FairSpec ==
    /\ Spec
    /\ \A w \in Worker : WF_vars(WorkerStep(w))
    /\ \A t \in Task : SF_vars(\E w \in Worker : Claim(w, t))

-----------------------------------------------------------------------------
(* Properties.                                                             *)

Handles(w, t) == worker[w].pc # "idle" /\ worker[w].task = t

(* One specification is trained once, whatever is redelivered and whoever  *)
(* shares the worker's name: two handlers would write one artifact         *)
(* directory (claim with max_attempts = 1).                                *)
OneHandler ==
    \A v, w \in Worker : \A t \in Task : Handles(v, t) /\ Handles(w, t) => v = w

(* What the task list says of a training task is true of its job, whatever *)
(* was cancelled, failed or overtaken by its lease between the job's       *)
(* transaction and the task's (run_fine_tuning).                           *)
TaskTellsTheJob ==
    \A j \in Job :
        /\ task[j].status = "SUCCEEDED" => job[j].status = "SUCCEEDED" /\ job[j].artifact
        /\ task[j].status = "FAILED" => job[j].status = "FAILED"

(* A job cancelled before its worker started it stays cancelled and is     *)
(* never trained, also when its task was claimed before the cancellation   *)
(* (_start_fine_tuning_job).                                               *)
CancelledUntrained(j) ==
    /\ job[j].status = "CANCELLED"
    /\ process[j] = "none"
    /\ \A w \in Worker : Handles(w, j) => worker[w].pc \in {"start", "fail job", "fail"}

CancelledEarlyIsFinal ==
    [][\A j \in Job : CancelledUntrained(j) => CancelledUntrained(j)']_vars

(* A job that succeeded, and an artifact that was judged, came from a      *)
(* training command that ended well, whichever handler died, failed or was *)
(* overtaken: the gate that registers models relies on it (run_evaluation, *)
(* register_fine_tuned_model).                                             *)
SuccessIsTrained ==
    \A j \in Job :
        /\ job[j].status = "SUCCEEDED" \/ job[j].evaluation # "none" => job[j].artifact
        /\ job[j].artifact => process[j] = "ok"

(* A cancellation that the worker can still see stops a command that would *)
(* run for ever (_run_command).                                            *)
StopIsDue(t) ==
    /\ process[t] = "running"
    /\ CancellationRequested(task[t], OperationalWorker)
    /\ \E w \in Worker : Handles(w, t)

CancellationStops == \A t \in Task : StopIsDue(t) ~> ~StopIsDue(t)

(* A job does not stay PENDING or RUNNING, unless its command runs, its    *)
(* task was asked to cancel, or its only attempt lost its worker           *)
(* (run_fine_tuning).                                                      *)
Abandoned(j) == task[j].status = "RUNNING" /\ ~\E w \in Worker : Handles(w, j)

JobSettles ==
    \A j \in Job :
        job[j].status \in {"PENDING", "RUNNING"} ~>
            \/ job[j].status \notin {"PENDING", "RUNNING"}
            \/ process[j] = "running"
            \/ task[j].status \in {"CANCEL_REQUESTED", "CANCELLED"}
            \/ Abandoned(j)

(* The tasks of both kinds go through the life cycle of knowledge tasks,   *)
(* but for one step: cancelling a job whose task was already CANCELLED     *)
(* asks to cancel the task again (cancel_fine_tuning_job).                 *)
Lifecycle == INSTANCE TaskLifecycle
    WITH status <- [t \in Task |-> task[t].status],
         attempts <- [t \in Task |-> task[t].attempts]

CancelledAgain(t) == Lifecycle!Moves(t, {"CANCELLED"}, {"CANCEL_REQUESTED"}, 0)

FollowsLifecycle == [][\A t \in Task : Lifecycle!Step(t) \/ CancelledAgain(t)]_vars

(* What TERMINAL_TASK_STATUSES (application/tasks.py:27) says of CANCELLED:*)
(* the tasks would implement the life cycle without the exception.         *)
ImplementsLifecycle == Lifecycle!Spec

(* Why the safety properties hold: an attempt is counted before its        *)
(* command runs, and the one handler knows what its command came to.       *)
RowsKnowTheirCommands ==
    \A t \in Task :
        /\ task[t].status = "ABSENT" => task[t].attempts = 0
        /\ task[t].attempts = 0 => process[t] = "none"

JobsKnowTheirTasks ==
    /\ \A j \in Job :
          /\ job[j].status = "ABSENT" => task[j].status = "ABSENT"
          /\ job[j].status = "CANCELLED" => task[j].status \in {"CANCEL_REQUESTED", "CANCELLED"}
    /\ \A e \in Evaluation :
          task[e].status # "ABSENT" => evaluates[e] \in Job /\ job[evaluates[e]].artifact

HandlersKnowTheirTasks ==
    \A w \in Worker : \A t \in Task : Handles(w, t) =>
        /\ task[t].attempts = 1 /\ task[t].status \notin {"ABSENT", "SUCCEEDED", "FAILED"}
        /\ worker[w].pc \in IF t \in Job THEN TrainPcs ELSE EvaluatePcs
        /\ worker[w].pc \in {"start", "get job", "load", "clean"} => process[t] = "none"
        /\ worker[w].pc \in {"verify", "complete", "succeed"} => process[t] = "ok"
        /\ t \in Job =>
              /\ worker[w].pc = "succeed" => job[t].status = "SUCCEEDED"
              /\ worker[w].pc = "fail" => job[t].status \in {"FAILED", "CANCELLED"}

HandlersHaveTasks == \A w \in Worker : worker[w].pc # "idle" => worker[w].task \in Task

IInv ==
    /\ TypeOK
    /\ RowsKnowTheirCommands /\ JobsKnowTheirTasks
    /\ HandlersHaveTasks /\ HandlersKnowTheirTasks /\ OneHandler
    /\ SuccessIsTrained /\ TaskTellsTheJob
=============================================================================
