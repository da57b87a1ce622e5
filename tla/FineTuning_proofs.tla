------------------------- MODULE FineTuning_proofs -------------------------
(***************************************************************************)
(* Proofs about FineTuning, for any jobs, evaluations and workers and any  *)
(* number of faults.  Every step concerns one task: Local says what it     *)
(* must establish there, Turn what a worker's step must.                   *)
(***************************************************************************)
EXTENDS FineTuning, TLAPS

JobState == [status : JobStatus, artifact : BOOLEAN, evaluation : Verdict]
RowState == Rows({OperationalWorker}, MaxAttempts)
CommandState == {"none", "running", "ok", "failed", "killed"}
WorkerState == [pc : {"idle"} \cup TrainPcs \cup EvaluatePcs, task : Task \cup {NoTask}]

Typed ==
    /\ job \in [Job -> JobState] /\ task \in [Task -> RowState]
    /\ evaluates \in [Evaluation -> Job \cup {NoTask}]
    /\ process \in [Task -> CommandState] /\ worker \in [Worker -> WorkerState]
    /\ faults \in 0..MaxFaults

LEMMA TypedIsTypeOK == TypeOK <=> Typed
  BY DEF TypeOK, Typed, JobState, RowState, CommandState, WorkerState

LEMMA TypedIsTypeOKNext == TypeOK' <=> Typed'
  BY DEF TypeOK, Typed, JobState, RowState, CommandState, WorkerState

LEMMA Apart ==
    /\ \A t \in Task : (t \in Job <=> t \notin Evaluation) /\ t # NoTask
    /\ \A j \in Job : j \in Task
    /\ \A e \in Evaluation : e \in Task
  BY FineTuningAssumption DEF Task

LEMMA IdleWorkerState == IdleWorker \in WorkerState /\ IdleWorker.pc = "idle"
  BY DEF IdleWorker, WorkerState

(* What the invariant says of one task, one job, one evaluation, one       *)
(* handler.                                                                *)
RowOK(t) ==
    /\ task[t].status = "ABSENT" => task[t].attempts = 0
    /\ task[t].attempts = 0 => process[t] = "none"
JobOK(j) ==
    /\ job[j].status = "ABSENT" => task[j].status = "ABSENT"
    /\ job[j].status = "CANCELLED" => task[j].status \in {"CANCEL_REQUESTED", "CANCELLED"}
    /\ job[j].status = "SUCCEEDED" \/ job[j].evaluation # "none" => job[j].artifact
    /\ job[j].artifact => process[j] = "ok"
    /\ task[j].status = "SUCCEEDED" => job[j].status = "SUCCEEDED" /\ job[j].artifact
    /\ task[j].status = "FAILED" => job[j].status = "FAILED"
EvaluationOK(e) == task[e].status # "ABSENT" => evaluates[e] \in Job /\ job[evaluates[e]].artifact
HandlerAt(pc, t) ==
    /\ task[t].attempts = 1 /\ task[t].status \notin {"ABSENT", "SUCCEEDED", "FAILED"}
    /\ pc \in IF t \in Job THEN TrainPcs ELSE EvaluatePcs
    /\ pc \in {"start", "get job", "load", "clean"} => process[t] = "none"
    /\ pc \in {"verify", "complete", "succeed"} => process[t] = "ok"
    /\ t \in Job =>
          /\ pc = "succeed" => job[t].status = "SUCCEEDED"
          /\ pc = "fail" => job[t].status \in {"FAILED", "CANCELLED"}
HandlerOK(w, t) == HandlerAt(worker[w].pc, t)

Safe ==
    /\ \A t \in Task : RowOK(t)
    /\ \A j \in Job : JobOK(j)
    /\ \A e \in Evaluation : EvaluationOK(e)
    /\ HandlersHaveTasks
    /\ \A w \in Worker : \A t \in Task : Handles(w, t) => HandlerOK(w, t)
    /\ OneHandler

LEMMA Split == IInv <=> Typed /\ Safe
  BY TypedIsTypeOK DEF IInv, Safe, RowsKnowTheirCommands, RowOK, JobsKnowTheirTasks, JobOK,
     EvaluationOK, HandlersKnowTheirTasks, HandlerOK, HandlerAt, SuccessIsTrained, TaskTellsTheJob

LEMMA SplitNext == IInv' <=> Typed' /\ Safe'
  BY TypedIsTypeOKNext DEF IInv, Safe, RowsKnowTheirCommands, RowOK, JobsKnowTheirTasks, JobOK,
     EvaluationOK, HandlersKnowTheirTasks, HandlerOK, HandlerAt, SuccessIsTrained, TaskTellsTheJob

-----------------------------------------------------------------------------
(* A step that concerns task t.  Of other jobs it may only add a verdict   *)
(* on an artifact.                                                         *)
LEMMA Local ==
    ASSUME IInv, Typed', NEW t \in Task,
           \A s \in Task : s # t => task'[s] = task[s] /\ process'[s] = process[s],
           \A j \in Job : j # t => /\ job'[j].status = job[j].status
                                   /\ job'[j].artifact = job[j].artifact
                                   /\ job'[j].evaluation = job[j].evaluation \/ job[j].artifact,
           \A e \in Evaluation : e # t => evaluates'[e] = evaluates[e],
           t \in Job /\ job[t].artifact => job'[t].artifact,
           \A v \in Worker : \A s \in Task : s # t /\ Handles(v, s)' => worker'[v] = worker[v],
           HandlersHaveTasks', RowOK(t)', t \in Job => JobOK(t)', t \in Evaluation => EvaluationOK(t)',
           \A v \in Worker : Handles(v, t)' => HandlerOK(v, t)',
           \A u, v \in Worker : Handles(u, t)' /\ Handles(v, t)' => u = v
    PROVE  IInv'
<1>1. Typed /\ Safe
  BY Split
<1>2. \A s \in Task : RowOK(s)'
  BY <1>1 DEF Safe, RowOK
<1>3. \A j \in Job : JobOK(j)'
  BY <1>1, Apart DEF Safe, JobOK
<1>4. ASSUME NEW e \in Evaluation PROVE EvaluationOK(e)'
  <2>1. CASE e = t
    BY <2>1
  <2>2. CASE e # t
    <3>1. EvaluationOK(e) /\ task'[e] = task[e] /\ evaluates'[e] = evaluates[e]
      BY <1>1, <2>2, Apart DEF Safe
    <3>2. \A j \in Job : job[j].artifact => job'[j].artifact
      OBVIOUS
    <3> QED BY <3>1, <3>2 DEF EvaluationOK
  <2> QED BY <2>1, <2>2
<1>5. \A v \in Worker : \A s \in Task : Handles(v, s)' => HandlerOK(v, s)'
  <2> SUFFICES ASSUME NEW v \in Worker, NEW s \in Task, Handles(v, s)', s # t PROVE HandlerOK(v, s)'
    OBVIOUS
  <2>1. worker'[v] = worker[v] /\ HandlerOK(v, s)
    BY <1>1 DEF Safe, Handles
  <2>2. task'[s] = task[s] /\ process'[s] = process[s] /\ (s \in Job => job'[s].status = job[s].status)
    OBVIOUS
  <2> QED BY <2>1, <2>2 DEF HandlerOK, HandlerAt
<1>6. OneHandler'
  <2> SUFFICES ASSUME NEW u \in Worker, NEW v \in Worker, NEW s \in Task, Handles(u, s)', Handles(v, s)'
               PROVE  u = v
    BY DEF OneHandler
  <2>1. CASE s = t
    BY <2>1
  <2>2. CASE s # t
    BY <1>1, <2>2 DEF Safe, OneHandler, Handles
  <2> QED BY <2>1, <2>2
<1> QED BY <1>2, <1>3, <1>4, <1>5, <1>6, SplitNext DEF Safe

(* Worker w goes on with its task, or rests.                               *)
LEMMA Turn ==
    ASSUME IInv, NEW w \in Worker, NEW t, t = worker[w].task, worker[w].pc # "idle",
           NEW new \in WorkerState, worker' = [worker EXCEPT ![w] = new],
           new.pc # "idle" => new.task = t,
           task' \in [Task -> RowState], process' \in [Task -> CommandState], job' \in [Job -> JobState],
           UNCHANGED evaluates, faults' \in 0..MaxFaults,
           \A s \in Task : s # t => task'[s] = task[s] /\ process'[s] = process[s],
           \A j \in Job : j # t => /\ job'[j].status = job[j].status
                                   /\ job'[j].artifact = job[j].artifact
                                   /\ job'[j].evaluation = job[j].evaluation \/ job[j].artifact,
           t \in Job /\ job[t].artifact => job'[t].artifact,
           RowOK(t)', t \in Job => JobOK(t)', task'[t].status # "ABSENT",
           new.pc # "idle" => HandlerOK(w, t)'
    PROVE  IInv'
<1>1. Typed /\ Safe /\ t \in Task
  BY Split DEF Safe, HandlersHaveTasks
<1>2. worker' \in [Worker -> WorkerState] /\ worker'[w] = new /\ \A v \in Worker : v # w => worker'[v] = worker[v]
  BY <1>1 DEF Typed
<1>3. Typed'
  BY <1>1, <1>2 DEF Typed
<1>4. \A v \in Worker : \A s \in Task : s # t /\ Handles(v, s)' => worker'[v] = worker[v]
  BY <1>2 DEF Handles
<1>5. \A v \in Worker : Handles(v, t)' => v = w
  BY <1>1, <1>2 DEF Safe, OneHandler, Handles
<1>6. HandlersHaveTasks'
  BY <1>1, <1>2 DEF Safe, HandlersHaveTasks
<1>7. \A v \in Worker : Handles(v, t)' => HandlerOK(v, t)'
  BY <1>2, <1>5 DEF Handles
<1>8. t \in Evaluation => EvaluationOK(t)'
  <2>1. t \in Evaluation => evaluates[t] \in Job /\ job[evaluates[t]].artifact
    BY <1>1 DEF Safe, EvaluationOK, Handles, HandlerOK, HandlerAt
  <2>2. \A j \in Job : job[j].artifact => job'[j].artifact
    OBVIOUS
  <2> QED BY <2>1, <2>2 DEF EvaluationOK
<1>9. t \in Task
  BY <1>1
<1> QED BY <1>3, <1>4, <1>5, <1>6, <1>7, <1>8, <1>9, Local

LEMMA Mine ==
    ASSUME IInv, NEW w \in Worker, NEW t, t = worker[w].task, worker[w].pc # "idle"
    PROVE  /\ Typed /\ t \in Task /\ HandlerAt(worker[w].pc, t) /\ RowOK(t)
           /\ t \in Job => JobOK(t)
           /\ t \in Evaluation => evaluates[t] \in Job /\ job[evaluates[t]].artifact
           /\ task[t] \in RowState
  BY Split DEF Safe, HandlersHaveTasks, Handles, HandlerOK, HandlerAt, EvaluationOK, Typed

(* It goes on at pc ...                                                    *)
LEMMA GoesOn ==
    ASSUME IInv, NEW w \in Worker, NEW t, t = worker[w].task, worker[w].pc # "idle",
           NEW pc \in TrainPcs \cup EvaluatePcs, Goto(w, pc),
           task' \in [Task -> RowState], process' \in [Task -> CommandState], job' \in [Job -> JobState],
           UNCHANGED evaluates, faults' \in 0..MaxFaults,
           \A s \in Task : s # t => task'[s] = task[s] /\ process'[s] = process[s],
           \A j \in Job : j # t => /\ job'[j].status = job[j].status
                                   /\ job'[j].artifact = job[j].artifact
                                   /\ job'[j].evaluation = job[j].evaluation \/ job[j].artifact,
           t \in Job /\ job[t].artifact => job'[t].artifact,
           RowOK(t)', t \in Job => JobOK(t)', HandlerAt(pc, t)'
    PROVE  IInv'
<1> DEFINE new == [worker[w] EXCEPT !.pc = pc]
<1>1. /\ new \in WorkerState /\ new.pc = pc /\ new.task = t
      /\ worker' = [worker EXCEPT ![w] = new] /\ worker'[w] = new
  BY Mine DEF Goto, Typed, WorkerState
<1> HIDE DEF new
<1>2. HandlerOK(w, t)' /\ task'[t].status # "ABSENT"
  BY <1>1 DEF HandlerOK, HandlerAt
<1> QED BY <1>1, <1>2, Turn

(* ... or rests.                                                           *)
LEMMA GoesHome ==
    ASSUME IInv, NEW w \in Worker, NEW t, t = worker[w].task, worker[w].pc # "idle", Rests(w),
           task' \in [Task -> RowState], UNCHANGED <<job, evaluates, process>>, faults' \in 0..MaxFaults,
           \A s \in Task : s # t => task'[s] = task[s],
           RowOK(t)', t \in Job => JobOK(t)', task'[t].status # "ABSENT"
    PROVE  IInv'
<1>1. Typed /\ worker' = [worker EXCEPT ![w] = IdleWorker]
  BY Mine DEF Rests
<1> QED BY <1>1, IdleWorkerState, Turn DEF Typed

LEMMA JobMoves ==
    ASSUME Typed, NEW j \in Job, NEW new \in JobState, job' = [job EXCEPT ![j] = new]
    PROVE  job' \in [Job -> JobState] /\ job'[j] = new /\ \A i \in Job : i # j => job'[i] = job[i]
  BY DEF Typed

LEMMA TaskMoves ==
    ASSUME Typed, NEW t \in Task, NEW new \in RowState, task' = [task EXCEPT ![t] = new]
    PROVE  task' \in [Task -> RowState] /\ task'[t] = new /\ \A s \in Task : s # t => task'[s] = task[s]
  BY DEF Typed

LEMMA ProcessMoves ==
    ASSUME Typed, NEW t \in Task, NEW new \in CommandState, process' = [process EXCEPT ![t] = new]
    PROVE  /\ process' \in [Task -> CommandState] /\ process'[t] = new
           /\ \A s \in Task : s # t => process'[s] = process[s]
  BY DEF Typed

(* Only the place in the handler changes.                                  *)
LEMMA PcMoves ==
    ASSUME IInv, NEW w \in Worker, worker[w].pc # "idle", NEW pc \in TrainPcs \cup EvaluatePcs, Goto(w, pc),
           UNCHANGED <<job, task, evaluates, process>>, faults' \in 0..MaxFaults,
           HandlerAt(pc, worker[w].task)
    PROVE  IInv'
<1> DEFINE t == worker[w].task
<1>1. Typed /\ t \in Task /\ RowOK(t) /\ (t \in Job => JobOK(t)) /\ HandlerAt(pc, t)
  BY Mine
<1>2. RowOK(t) /\ UNCHANGED <<task, process>> => \A s : s = t => RowOK(s)'
  BY DEF RowOK
<1> HIDE DEF t
<1>3. PICK s \in Task : s = t
  BY <1>1
<1>4. RowOK(s)' /\ (s \in Job => JobOK(s)') /\ HandlerAt(pc, s)'
  BY <1>1, <1>3 DEF RowOK, JobOK, HandlerAt
<1> QED BY <1>1, <1>3, <1>4, GoesOn DEF Typed, t

-----------------------------------------------------------------------------
(* The worker's steps.                                                     *)

USE DEF TrainPcs, EvaluatePcs

LEMMA StartKeeps == ASSUME IInv, NEW w \in Worker, StartFineTuningJob(w) PROVE IInv'
<1>1. PICK t \in Task : t = worker[w].task
  BY Mine DEF StartFineTuningJob
<1>2. Typed /\ worker[w].pc = "start" /\ HandlerAt("start", t) /\ RowOK(t) /\ t \in Job /\ JobOK(t)
      /\ UNCHANGED <<task, evaluates, process, faults>>
  <2>1. /\ Typed /\ worker[w].pc = "start" /\ HandlerAt("start", t) /\ RowOK(t) /\ (t \in Job => JobOK(t))
        /\ UNCHANGED <<task, evaluates, process, faults>>
    BY <1>1, Mine DEF StartFineTuningJob
  <2>2. t \in Job
    BY <2>1 DEF HandlerAt
  <2> QED BY <2>1, <2>2
<1>3. CASE job[t].status = "CANCELLED"
  <2>1. HandlerAt("fail job", t)
    BY <1>2 DEF HandlerAt
  <2> QED BY <1>1, <1>2, <1>3, <2>1, PcMoves DEF StartFineTuningJob, Typed
<1>4. CASE job[t].status # "CANCELLED"
  <2> DEFINE new == [job[t] EXCEPT !.status = "RUNNING"]
  <2>1. /\ new \in JobState /\ new.status = "RUNNING" /\ new.artifact = job[t].artifact
        /\ new.evaluation = job[t].evaluation
        /\ job' = [job EXCEPT ![t] = new] /\ Goto(w, "load")
    BY <1>1, <1>2, <1>4 DEF StartFineTuningJob, Typed, JobState, JobStatus
  <2> HIDE DEF new
  <2>2. job' \in [Job -> JobState] /\ job'[t] = new /\ \A i \in Job : i # t => job'[i] = job[i]
    BY <1>2, <2>1, JobMoves
  <2>3. RowOK(t)' /\ JobOK(t)' /\ HandlerAt("load", t)'
    BY <1>2, <2>1, <2>2 DEF RowOK, JobOK, HandlerAt
  <2> QED BY <1>1, <1>2, <2>1, <2>2, <2>3, GoesOn DEF Typed
<1> QED BY <1>3, <1>4

LEMMA GetKeeps == ASSUME IInv, NEW w \in Worker, GetFineTuningJob(w) PROVE IInv'
<1>1. worker[w].pc = "get job" /\ Typed /\ HandlerAt("get job", worker[w].task)
      /\ UNCHANGED <<job, task, evaluates, process, faults>>
      /\ (Goto(w, "load") \/ Goto(w, "fail"))
  BY Mine DEF GetFineTuningJob
<1>2. HandlerAt("load", worker[w].task) /\ HandlerAt("fail", worker[w].task)
  BY <1>1 DEF HandlerAt
<1> QED BY <1>1, <1>2, PcMoves DEF Typed

(* A heartbeat changes the stage and the lease at most.                    *)
LEMMA HeartbeatIs ==
    ASSUME IInv, NEW w \in Worker, NEW t \in Task, t = worker[w].task, worker[w].pc # "idle",
           NEW stage \in TaskStage, HeartbeatRow(w, stage)
    PROVE  /\ task' \in [Task -> RowState] /\ \A s \in Task : s # t => task'[s] = task[s]
           /\ task'[t].status = task[t].status /\ task'[t].attempts = task[t].attempts
<1> DEFINE new == IF OwnedRunning(task[t], OperationalWorker) THEN Heartbeat(task[t], stage) ELSE task[t]
<1>1. Typed /\ task[t] \in RowState
  BY Mine
<1>2. /\ new \in RowState /\ new.status = task[t].status /\ new.attempts = task[t].attempts
  BY <1>1 DEF Heartbeat, RowState, Rows, LeaseState
<1>3. task' = [task EXCEPT ![t] = new]
  BY <1>1 DEF HeartbeatRow, Typed
<1> HIDE DEF new
<1> QED BY <1>1, <1>2, <1>3, TaskMoves

LEMMA Once == ASSUME NEW r \in RowState, r.attempts = 1 PROVE r.attempts # 0
  BY DEF RowState, Rows, MaxAttempts

(* With it, the handler goes on, and its command may be spawned.           *)
LEMMA ReportKeeps ==
    ASSUME IInv, NEW w \in Worker, worker[w].pc # "idle", NEW stage \in TaskStage, HeartbeatRow(w, stage),
           NEW pc \in TrainPcs \cup EvaluatePcs, Goto(w, pc), UNCHANGED <<job, evaluates, faults>>,
           UNCHANGED process \/ process' = [process EXCEPT ![worker[w].task] = "running"],
           UNCHANGED process => HandlerAt(pc, worker[w].task),
           ~UNCHANGED process => pc = "poll" /\ process[worker[w].task] = "none"
    PROVE  IInv'
<1>1. PICK t \in Task : t = worker[w].task
  BY Mine
<1>2. Typed /\ HandlerAt(worker[w].pc, t) /\ RowOK(t) /\ (t \in Job => JobOK(t))
  BY <1>1, Mine
<1>3. /\ task' \in [Task -> RowState] /\ \A s \in Task : s # t => task'[s] = task[s]
      /\ task'[t].status = task[t].status /\ task'[t].attempts = task[t].attempts
  BY <1>1, HeartbeatIs
<1>4. CASE UNCHANGED process
  <2>1. RowOK(t)' /\ (t \in Job => JobOK(t)') /\ HandlerAt(pc, t)'
    BY <1>1, <1>2, <1>3, <1>4 DEF RowOK, JobOK, HandlerAt
  <2> QED BY <1>1, <1>2, <1>3, <1>4, <2>1, GoesOn DEF Typed
<1>5. CASE process' = [process EXCEPT ![t] = "running"] /\ ~UNCHANGED process
  <2>1. /\ process' \in [Task -> CommandState] /\ process'[t] = "running"
        /\ \A s \in Task : s # t => process'[s] = process[s]
    BY <1>2, <1>5, ProcessMoves DEF CommandState
  <2>2. pc = "poll" /\ process[t] = "none"
    BY <1>1, <1>5
  <2>3. RowOK(t)' /\ HandlerAt(pc, t)'
    <3>1. /\ task'[t].attempts = 1
          /\ task'[t].status \notin {"ABSENT", "SUCCEEDED", "FAILED"}
      BY <1>2, <1>3 DEF HandlerAt
    <3>4. task'[t].attempts # 0
      BY <1>3, <3>1, Once
    <3>2. RowOK(t)'
      BY <3>1, <3>4 DEF RowOK
    <3>3. HandlerAt("poll", t)'
      BY <3>1 DEF HandlerAt
    <3> QED BY <2>2, <3>2, <3>3
  <2>4. t \in Job => JobOK(t)'
    BY <1>2, <1>3, <2>2 DEF JobOK
  <2> QED BY <1>1, <1>2, <1>3, <2>1, <2>3, <2>4, GoesOn DEF Typed
<1> QED BY <1>1, <1>4, <1>5

LEMMA ReportsKeep ==
    ASSUME IInv, NEW w \in Worker,
           ReportLoading(w) \/ ReportCleaning(w) \/ HeartbeatCommand(w) \/ ReportVerifying(w)
    PROVE  IInv'
<1> DEFINE t == worker[w].task
<1>1. worker[w].pc \in {"load", "clean", "beat", "verify"} /\ HandlerAt(worker[w].pc, t)
  BY Mine DEF ReportLoading, ReportCleaning, HeartbeatCommand, ReportVerifying
<1>2. CASE ReportLoading(w)
  <2>1. process[t] = "none" /\ (Training(w) => HandlerAt("clean", t))
    BY <1>1, <1>2 DEF HandlerAt, ReportLoading, Training
  <2>2. \/ Goto(w, "clean") /\ UNCHANGED process /\ HandlerAt("clean", t)
        \/ Goto(w, "poll") /\ process' = [process EXCEPT ![t] = "running"] /\ ~UNCHANGED process
    BY <1>2, <2>1, Mine DEF ReportLoading, Typed
  <2> QED BY <1>1, <1>2, <2>1, <2>2, ReportKeeps DEF ReportLoading, TaskStage
<1>3. CASE ReportCleaning(w)
  <2>1. process[t] = "none" /\ process' = [process EXCEPT ![t] = "running"] /\ process' # process
    BY ZenonT(60), <1>1, <1>3, Mine DEF HandlerAt, ReportCleaning, Typed
  <2> QED BY <1>1, <1>3, <2>1, ReportKeeps DEF ReportCleaning, TaskStage
<1>4. CASE HeartbeatCommand(w)
  <2>1. HandlerAt("poll", t)
    BY <1>1, <1>4 DEF HandlerAt, HeartbeatCommand
  <2> QED BY <1>1, <1>4, <2>1, ReportKeeps DEF HeartbeatCommand, TaskStage
<1>5. CASE ReportVerifying(w)
  <2>1. HandlerAt("complete", t)
    BY <1>1, <1>5 DEF HandlerAt, ReportVerifying
  <2> QED BY <1>1, <1>5, <2>1, ReportKeeps DEF ReportVerifying, TaskStage
<1> QED BY <1>2, <1>3, <1>4, <1>5

(* A task that ends keeps its attempts.                                    *)
LEMMA EndsAs ==
    ASSUME Typed, NEW t \in Task, NEW status \in TaskStatus
    PROVE  /\ Finished(task[t], status) \in RowState
           /\ Finished(task[t], status).status = status
           /\ Finished(task[t], status).attempts = task[t].attempts
  BY DEF Typed, RowState, Rows, Finished, Released, LeaseState

LEMMA CommandKeeps == ASSUME IInv, NEW w \in Worker, RunCommand(w) PROVE IInv'
<1>1. PICK t \in Task : t = worker[w].task
  BY Mine DEF RunCommand
<1>2. /\ Typed /\ worker[w].pc = "poll" /\ HandlerAt("poll", t) /\ RowOK(t) /\ (t \in Job => JobOK(t))
      /\ UNCHANGED <<job, task, evaluates, faults>>
  BY <1>1, Mine DEF RunCommand
<1>3. CASE process[t] = "ok"
  <2>1. Goto(w, "verify") /\ UNCHANGED process
    BY <1>1, <1>2, <1>3 DEF RunCommand
  <2>2. HandlerAt("verify", t)
    BY <1>2, <1>3 DEF HandlerAt
  <2> QED BY <1>1, <1>2, <2>1, <2>2, PcMoves DEF Typed
<1>4. CASE process[t] = "failed"
  <2>1. Goto(w, Failing(w)) /\ UNCHANGED process
    BY <1>1, <1>2, <1>4 DEF RunCommand
  <2>2. HandlerAt(Failing(w), t) /\ Failing(w) \in TrainPcs \cup EvaluatePcs
    BY <1>1, <1>2 DEF HandlerAt, Failing, Training
  <2> QED BY <1>1, <1>2, <2>1, <2>2, PcMoves DEF Typed
<1>5. CASE process[t] = "running" /\ CancellationRequested(Row(w), OperationalWorker)
  <2>1. Goto(w, "acknowledge") /\ process' = [process EXCEPT ![t] = "killed"]
    BY <1>1, <1>2, <1>5 DEF RunCommand
  <2>2. /\ process' \in [Task -> CommandState] /\ process'[t] = "killed"
        /\ \A s \in Task : s # t => process'[s] = process[s]
    BY <1>2, <2>1, ProcessMoves DEF CommandState
  <2>3. RowOK(t)' /\ HandlerAt("acknowledge", t)'
    BY <1>2 DEF RowOK, HandlerAt
  <2>4. t \in Job => JobOK(t)'
    BY <1>2, <1>5 DEF JobOK
  <2> QED BY <1>1, <1>2, <2>1, <2>2, <2>3, <2>4, GoesOn DEF Typed
<1>6. CASE process[t] \notin {"ok", "failed"} /\ ~(process[t] = "running" /\ CancellationRequested(Row(w), OperationalWorker))
  <2>1. Goto(w, "beat") /\ UNCHANGED process
    BY <1>1, <1>2, <1>6 DEF RunCommand
  <2>2. HandlerAt("beat", t)
    BY <1>2 DEF HandlerAt
  <2> QED BY <1>1, <1>2, <2>1, <2>2, PcMoves DEF Typed
<1> QED BY <1>3, <1>4, <1>5, <1>6

(* What the worker reports when it rests is what became of the job.        *)
LEMMA EndKeeps ==
    ASSUME IInv, NEW w \in Worker, AcknowledgeCancellation(w) \/ Succeed(w) \/ Fail(w)
    PROVE  IInv'
<1>1. PICK t \in Task : t = worker[w].task
  BY Mine DEF AcknowledgeCancellation, Succeed, Fail
<1>2. /\ Typed /\ HandlerAt(worker[w].pc, t) /\ RowOK(t) /\ (t \in Job => JobOK(t))
      /\ worker[w].pc # "idle" /\ Rests(w) /\ UNCHANGED <<job, evaluates, process, faults>>
  BY <1>1, Mine DEF AcknowledgeCancellation, Succeed, Fail
<1>3. PICK status \in {"CANCELLED", "SUCCEEDED", "FAILED"} :
          /\ \/ task' = [task EXCEPT ![t] = Finished(task[t], status)]
             \/ task' = [task EXCEPT ![t] = task[t]]
          /\ task' # task => \/ status = "CANCELLED" /\ task[t].status = "CANCEL_REQUESTED"
                             \/ status = "SUCCEEDED" /\ worker[w].pc = "succeed" /\ task[t].status = "RUNNING"
                             \/ status = "FAILED" /\ worker[w].pc = "fail" /\ task[t].status = "RUNNING"
  <2>1. CASE AcknowledgeCancellation(w)
    BY <1>1, <1>2, <2>1 DEF AcknowledgeCancellation, CancellationRequested, Typed
  <2>2. CASE Succeed(w)
    BY <1>1, <1>2, <2>2 DEF Succeed, OwnedRunning, Typed
  <2>3. CASE Fail(w)
    BY <1>1, <1>2, <2>3 DEF Fail, OwnedRunning, Typed
  <2> QED BY <2>1, <2>2, <2>3
<1>4. CASE task' = task
  <2>1. RowOK(t)' /\ (t \in Job => JobOK(t)') /\ task'[t].status # "ABSENT"
    BY <1>2, <1>4 DEF RowOK, JobOK, HandlerAt
  <2> QED BY <1>1, <1>2, <1>4, <2>1, GoesHome DEF Typed
<1>5. CASE task' # task
  <2>1. task' = [task EXCEPT ![t] = Finished(task[t], status)]
    BY <1>2, <1>3, <1>5 DEF Typed
  <2>2. /\ task' \in [Task -> RowState] /\ \A s \in Task : s # t => task'[s] = task[s]
        /\ task'[t].status = status /\ task'[t].attempts = task[t].attempts
    <3>1. /\ Finished(task[t], status) \in RowState /\ Finished(task[t], status).status = status
          /\ Finished(task[t], status).attempts = task[t].attempts
      BY <1>2, EndsAs DEF TaskStatus
    <3> QED BY <1>2, <2>1, <3>1, TaskMoves
  <2>3. RowOK(t)' /\ task'[t].status # "ABSENT"
    BY <1>2, <1>3, <2>2 DEF RowOK
  <2>4. t \in Job => JobOK(t)'
    BY <1>2, <1>3, <1>5, <2>2 DEF JobOK, HandlerAt
  <2> QED BY <1>1, <1>2, <2>2, <2>3, <2>4, GoesHome DEF Typed
<1> QED BY <1>4, <1>5

LEMMA CompleteKeeps == ASSUME IInv, NEW w \in Worker, CompleteJob(w) PROVE IInv'
<1>1. PICK t \in Task : t = worker[w].task
  BY Mine DEF CompleteJob
<1>2. /\ Typed /\ worker[w].pc = "complete" /\ HandlerAt("complete", t) /\ RowOK(t)
      /\ (t \in Job => JobOK(t)) /\ (t \in Evaluation => evaluates[t] \in Job /\ job[evaluates[t]].artifact)
      /\ Goto(w, "succeed") /\ UNCHANGED <<task, evaluates, process, faults>>
  BY <1>1, Mine DEF CompleteJob
<1>3. CASE t \in Job
  <2> DEFINE new == [job[t] EXCEPT !.status = "SUCCEEDED", !.artifact = TRUE]
  <2>1. /\ new \in JobState /\ new.status = "SUCCEEDED" /\ new.artifact = TRUE
        /\ job' = [job EXCEPT ![t] = new]
    <3>1. job[t] \in JobState
      BY <1>2, <1>3 DEF Typed
    <3>2. new \in JobState /\ new.status = "SUCCEEDED" /\ new.artifact = TRUE
      BY <3>1 DEF JobState, JobStatus
    <3>3. job' = [job EXCEPT ![t] = new]
      BY <1>1, <1>2, <1>3, <3>1 DEF CompleteJob, Training, Typed, JobState
    <3> QED BY <3>2, <3>3
  <2> HIDE DEF new
  <2>2. job' \in [Job -> JobState] /\ job'[t] = new /\ \A i \in Job : i # t => job'[i] = job[i]
    BY <1>2, <1>3, <2>1, JobMoves
  <2>3. RowOK(t)' /\ HandlerAt("succeed", t)'
    BY <1>2, <2>1, <2>2 DEF RowOK, HandlerAt
  <2>4. JobOK(t)'
    BY <1>2, <2>1, <2>2 DEF JobOK, HandlerAt
  <2> QED BY <1>1, <1>2, <2>1, <2>2, <2>3, <2>4, GoesOn DEF Typed
<1>4. CASE t \in Evaluation
  <2>1. PICK j \in Job : j = evaluates[t] /\ job[j].artifact
    BY <1>2, <1>4
  <2>2. PICK verdict \in {"passed", "failed"} : job' = [job EXCEPT ![j].evaluation = verdict]
    BY <1>1, <1>4, <2>1, Apart DEF CompleteJob, Training
  <2> DEFINE new == [job[j] EXCEPT !.evaluation = verdict]
  <2>3. /\ new \in JobState /\ new.status = job[j].status /\ new.artifact = job[j].artifact
        /\ job' = [job EXCEPT ![j] = new]
    BY <1>2, <2>1, <2>2 DEF Typed, JobState, Verdict
  <2> HIDE DEF new
  <2>4. job' \in [Job -> JobState] /\ job'[j] = new /\ \A i \in Job : i # j => job'[i] = job[i]
    BY <1>2, <2>3, JobMoves
  <2>5. RowOK(t)' /\ HandlerAt("succeed", t)' /\ t \notin Job
    BY <1>2, <1>4, Apart DEF RowOK, HandlerAt
  <2>6. \A i \in Job : /\ job'[i].status = job[i].status /\ job'[i].artifact = job[i].artifact
                       /\ job'[i].evaluation = job[i].evaluation \/ job[i].artifact
    BY <2>1, <2>3, <2>4
  <2> QED BY <1>1, <1>2, <2>4, <2>5, <2>6, GoesOn DEF Typed
<1> QED BY <1>3, <1>4, Apart

LEMMA FailJobKeeps == ASSUME IInv, NEW w \in Worker, FailFineTuningJob(w) PROVE IInv'
<1>1. PICK t \in Task : t = worker[w].task
  BY Mine DEF FailFineTuningJob
<1>2. /\ Typed /\ worker[w].pc = "fail job" /\ HandlerAt("fail job", t) /\ RowOK(t)
      /\ (t \in Job => JobOK(t)) /\ Goto(w, "fail") /\ UNCHANGED <<task, evaluates, process, faults>>
  BY <1>1, Mine DEF FailFineTuningJob
<1>3. t \in Job
  BY <1>2 DEF HandlerAt
<1> DEFINE status == IF job[t].status = "CANCELLED" THEN "CANCELLED" ELSE "FAILED"
           new == [job[t] EXCEPT !.status = status]
<1>4. /\ new \in JobState /\ new.status \in {"CANCELLED", "FAILED"}
      /\ new.status = "CANCELLED" => job[t].status = "CANCELLED"
      /\ new.artifact = job[t].artifact /\ new.evaluation = job[t].evaluation
      /\ job' = [job EXCEPT ![t] = new]
  BY <1>1, <1>2, <1>3 DEF FailFineTuningJob, Typed, JobState, JobStatus
<1> HIDE DEF new
<1>5. job' \in [Job -> JobState] /\ job'[t] = new /\ \A i \in Job : i # t => job'[i] = job[i]
  BY <1>2, <1>3, <1>4, JobMoves
<1>6. RowOK(t)' /\ HandlerAt("fail", t)'
  BY <1>2, <1>4, <1>5 DEF RowOK, HandlerAt
<1>7. JobOK(t)'
  BY <1>2, <1>3, <1>4, <1>5 DEF JobOK, HandlerAt
<1> QED BY <1>1, <1>2, <1>5, <1>4, <1>6, <1>7, GoesOn DEF Typed

LEMMA FaultCounts == ASSUME Typed, Fault PROVE faults' \in 0..MaxFaults
  BY FineTuningAssumption DEF Typed, Fault

LEMMA RaiseKeeps == ASSUME IInv, NEW w \in Worker, HandlerRaises(w) \/ TransactionFails(w) PROVE IInv'
<1>1. PICK t \in Task : t = worker[w].task
  BY Mine DEF HandlerRaises, TransactionFails
<1>2. /\ Typed /\ HandlerAt(worker[w].pc, t) /\ worker[w].pc # "idle" /\ Goto(w, Failing(w))
      /\ UNCHANGED <<job, task, evaluates, process>>
  BY <1>1, Mine DEF HandlerRaises, TransactionFails
<1>3. faults' \in 0..MaxFaults
  BY <1>2, FaultCounts DEF HandlerRaises, TransactionFails, Typed
<1>4. HandlerAt(Failing(w), t) /\ Failing(w) \in TrainPcs \cup EvaluatePcs
  BY <1>1, <1>2 DEF HandlerAt, Failing, Training
<1> QED BY <1>1, <1>2, <1>3, <1>4, PcMoves

LEMMA StopKeeps == ASSUME IInv, NEW w \in Worker, WorkerStops(w) PROVE IInv'
<1>1. PICK t \in Task : t = worker[w].task
  BY Mine DEF WorkerStops
<1>2. /\ Typed /\ HandlerAt(worker[w].pc, t) /\ worker[w].pc # "idle" /\ Rests(w)
      /\ RowOK(t) /\ (t \in Job => JobOK(t)) /\ UNCHANGED <<job, task, evaluates, process>>
  BY <1>1, Mine DEF WorkerStops
<1>3. faults' \in 0..MaxFaults
  BY <1>2, FaultCounts DEF WorkerStops
<1>4. RowOK(t)' /\ (t \in Job => JobOK(t)') /\ task'[t].status # "ABSENT"
  BY <1>2 DEF RowOK, JobOK, HandlerAt
<1> QED BY <1>1, <1>2, <1>3, <1>4, GoesHome DEF Typed

-----------------------------------------------------------------------------
(* What happens to a task while its handler stands still.                  *)

LEMMA Outside ==
    ASSUME IInv, NEW t \in Task, UNCHANGED <<worker, faults>>,
           task' \in [Task -> RowState], process' \in [Task -> CommandState], job' \in [Job -> JobState],
           evaluates' \in [Evaluation -> Job \cup {NoTask}],
           \A s \in Task : s # t => task'[s] = task[s] /\ process'[s] = process[s],
           \A j \in Job : j # t => job'[j] = job[j],
           \A e \in Evaluation : e # t => evaluates'[e] = evaluates[e],
           t \in Job /\ job[t].artifact => job'[t].artifact,
           RowOK(t)', t \in Job => JobOK(t)', t \in Evaluation => EvaluationOK(t)',
           \A pc \in TrainPcs \cup EvaluatePcs : HandlerAt(pc, t) => HandlerAt(pc, t)'
    PROVE  IInv'
<1>1. Typed /\ Safe
  BY Split
<1>2. \A v \in Worker : \A s \in Task : Handles(v, s)' => Handles(v, s) /\ worker'[v] = worker[v]
  BY DEF Handles
<1>3. \A v \in Worker : Handles(v, t)' => HandlerOK(v, t)'
  <2>1. \A v \in Worker : Handles(v, t) => HandlerAt(worker[v].pc, t) /\ worker[v].pc \in TrainPcs \cup EvaluatePcs
    BY <1>1 DEF Safe, HandlerOK, Handles, Typed, WorkerState
  <2> QED BY <1>2, <2>1 DEF HandlerOK
<1>4. Typed' /\ HandlersHaveTasks'
  BY <1>1 DEF Typed, Safe, HandlersHaveTasks
<1>5. \A u, v \in Worker : Handles(u, t)' /\ Handles(v, t)' => u = v
  BY <1>1, <1>2 DEF Safe, OneHandler
<1> QED BY <1>2, <1>3, <1>4, <1>5, Local

LEMMA NewRowIs == NewRow \in RowState /\ NewRow.status = "PENDING" /\ NewRow.attempts = 0
  BY DEF NewRow, AbsentRow, RowState, Rows, TaskStatus, TaskStage, LeaseState, MaxAttempts

LEMMA CreateKeeps == ASSUME IInv, NEW j \in Job, CreateFineTuningJob(j) PROVE IInv'
<1>1. Typed /\ j \in Task /\ RowOK(j) /\ JobOK(j) /\ task[j].status = "ABSENT" /\ task[j].attempts = 0
  BY Split, Apart DEF Safe, CreateFineTuningJob, JobOK, RowOK
<1> DEFINE new == [job[j] EXCEPT !.status = "PENDING"]
<1>2. /\ new \in JobState /\ new.status = "PENDING" /\ new.artifact = job[j].artifact
      /\ new.evaluation = job[j].evaluation /\ job' = [job EXCEPT ![j] = new]
  BY <1>1 DEF CreateFineTuningJob, Typed, JobState, JobStatus
<1> HIDE DEF new
<1>3. job' \in [Job -> JobState] /\ job'[j] = new /\ \A i \in Job : i # j => job'[i] = job[i]
  BY <1>1, <1>2, JobMoves
<1>4. task' \in [Task -> RowState] /\ task'[j] = NewRow /\ \A s \in Task : s # j => task'[s] = task[s]
  BY <1>1, NewRowIs, TaskMoves DEF CreateFineTuningJob
<1>5. UNCHANGED <<evaluates, process, worker, faults>>
  BY DEF CreateFineTuningJob
<1>6. RowOK(j)' /\ j \notin Evaluation /\ \A pc \in TrainPcs \cup EvaluatePcs : ~HandlerAt(pc, j)
  BY <1>1, <1>4, <1>5, NewRowIs, Apart DEF RowOK, HandlerAt
<1>7. JobOK(j)'
  BY <1>1, <1>2, <1>3, <1>4, <1>5, NewRowIs DEF JobOK
<1> QED BY <1>1, <1>2, <1>3, <1>4, <1>5, <1>6, <1>7, Outside DEF Typed

LEMMA CancelKeeps == ASSUME IInv, NEW j \in Job, CancelFineTuningJob(j) PROVE IInv'
<1>1. Typed /\ j \in Task /\ j \notin Evaluation /\ RowOK(j) /\ JobOK(j) /\ task[j] \in RowState
      /\ job[j].status \in {"PENDING", "RUNNING"} /\ UNCHANGED <<evaluates, process, worker, faults>>
  BY Split, Apart DEF Safe, CancelFineTuningJob, Typed
<1> DEFINE new == [job[j] EXCEPT !.status = "CANCELLED"]
           status == IF task[j].status = "PENDING" THEN "CANCELLED" ELSE "CANCEL_REQUESTED"
           row == [task[j] EXCEPT !.status = status]
<1>2. /\ new \in JobState /\ new.status = "CANCELLED" /\ new.artifact = job[j].artifact
      /\ new.evaluation = job[j].evaluation /\ job' = [job EXCEPT ![j] = new]
  BY <1>1 DEF CancelFineTuningJob, Typed, JobState, JobStatus
<1>3. /\ row \in RowState /\ row.status \in {"CANCELLED", "CANCEL_REQUESTED"}
      /\ row.attempts = task[j].attempts
  BY <1>1 DEF RowState, Rows, TaskStatus
<1>4. task' = [task EXCEPT ![j] = row]
  BY <1>1 DEF CancelFineTuningJob, Typed, RowState, Rows
<1> HIDE DEF new, row
<1>5. job' \in [Job -> JobState] /\ job'[j] = new /\ \A i \in Job : i # j => job'[i] = job[i]
  BY <1>1, <1>2, JobMoves
<1>6. task' \in [Task -> RowState] /\ task'[j] = row /\ \A s \in Task : s # j => task'[s] = task[s]
  BY <1>1, <1>3, <1>4, TaskMoves
<1>7. RowOK(j)'
  BY <1>1, <1>3, <1>6 DEF RowOK
<1>8. JobOK(j)'
  BY <1>1, <1>2, <1>3, <1>5, <1>6 DEF JobOK
<1>9. \A pc \in TrainPcs \cup EvaluatePcs : HandlerAt(pc, j) => HandlerAt(pc, j)'
  BY <1>1, <1>2, <1>3, <1>5, <1>6 DEF HandlerAt
<1> QED BY <1>1, <1>2, <1>5, <1>6, <1>7, <1>8, <1>9, Outside DEF Typed

(* A row keeps its attempts; its status stays or becomes a cancellation.   *)
LEMMA RowKeeps ==
    ASSUME IInv, NEW t \in Task, NEW new \in RowState, task' = [task EXCEPT ![t] = new],
           new.attempts = task[t].attempts,
           \/ new.status = task[t].status
           \/ /\ new.status \in {"CANCELLED", "CANCEL_REQUESTED"}
              /\ task[t].status \in {"PENDING", "RUNNING"},
           UNCHANGED <<job, evaluates, process, worker, faults>>
    PROVE  IInv'
<1>1. Typed /\ RowOK(t) /\ (t \in Job => JobOK(t)) /\ (t \in Evaluation => EvaluationOK(t))
  BY Split DEF Safe
<1>2. task' \in [Task -> RowState] /\ task'[t] = new /\ \A s \in Task : s # t => task'[s] = task[s]
  BY <1>1, TaskMoves
<1>3. RowOK(t)'
  BY <1>1, <1>2 DEF RowOK
<1>4. t \in Job => JobOK(t)'
  BY <1>1, <1>2 DEF JobOK
<1>5. t \in Evaluation => EvaluationOK(t)'
  BY <1>1, <1>2 DEF EvaluationOK
<1>6. \A pc \in TrainPcs \cup EvaluatePcs : HandlerAt(pc, t) => HandlerAt(pc, t)'
  BY <1>2 DEF HandlerAt
<1> QED BY <1>1, <1>2, <1>3, <1>4, <1>5, <1>6, Outside DEF Typed

LEMMA RequestKeeps == ASSUME IInv, NEW t \in Task, RequestCancel(t) PROVE IInv'
<1> DEFINE new == CancelTarget(task[t])
<1>1. task[t] \in RowState /\ task[t].status \in {"PENDING", "RUNNING"}
      /\ task' = [task EXCEPT ![t] = new] /\ UNCHANGED <<job, evaluates, process, worker, faults>>
  BY Split DEF Typed, RequestCancel, CanCancel
<1>2. new \in RowState /\ new.attempts = task[t].attempts /\ new.status \in {"CANCELLED", "CANCEL_REQUESTED"}
  BY <1>1 DEF CancelTarget, Finished, Released, RowState, Rows, TaskStatus, LeaseState
<1> HIDE DEF new
<1> QED BY <1>1, <1>2, RowKeeps

LEMMA ExpiryKeeps == ASSUME IInv, NEW t \in Task, LeaseExpires(t) PROVE IInv'
<1> DEFINE new == [task[t] EXCEPT !.lease = "expired"]
<1>1. task[t] \in RowState /\ UNCHANGED <<job, evaluates, process, worker, faults>>
  BY Split DEF Typed, LeaseExpires
<1>2. new \in RowState /\ new.attempts = task[t].attempts /\ new.status = task[t].status
  BY <1>1 DEF RowState, Rows, LeaseState
<1>3. task' = [task EXCEPT ![t] = new]
  BY DEF LeaseExpires
<1> HIDE DEF new
<1> QED BY <1>1, <1>2, <1>3, RowKeeps

LEMMA EvaluateKeeps ==
    ASSUME IInv, NEW j \in Job, NEW e \in Evaluation, EvaluateFineTuningJob(j, e) PROVE IInv'
<1>1. Typed /\ e \in Task /\ e \notin Job /\ RowOK(e) /\ task[e].status = "ABSENT" /\ task[e].attempts = 0
      /\ job[j].artifact /\ UNCHANGED <<job, process, worker, faults>>
  BY Split, Apart DEF Safe, EvaluateFineTuningJob, RowOK
<1>2. task' \in [Task -> RowState] /\ task'[e] = NewRow /\ \A s \in Task : s # e => task'[s] = task[s]
  BY <1>1, NewRowIs, TaskMoves DEF EvaluateFineTuningJob
<1>3. /\ evaluates' \in [Evaluation -> Job \cup {NoTask}] /\ evaluates'[e] = j
      /\ \A d \in Evaluation : d # e => evaluates'[d] = evaluates[d]
  BY <1>1 DEF EvaluateFineTuningJob, Typed
<1>4. RowOK(e)' /\ EvaluationOK(e)' /\ \A pc \in TrainPcs \cup EvaluatePcs : ~HandlerAt(pc, e)
  BY <1>1, <1>2, <1>3, NewRowIs DEF RowOK, EvaluationOK, HandlerAt
<1> QED BY <1>1, <1>2, <1>3, <1>4, Outside DEF Typed

LEMMA ExitKeeps == ASSUME IInv, NEW t \in Task, ProcessExits(t) PROVE IInv'
<1>1. Typed /\ RowOK(t) /\ (t \in Job => JobOK(t)) /\ (t \in Evaluation => EvaluationOK(t))
      /\ process[t] = "running" /\ UNCHANGED <<job, task, evaluates, worker, faults>>
  BY Split DEF Safe, ProcessExits
<1>2. PICK result \in {"ok", "failed"} : process' = [process EXCEPT ![t] = result]
  BY DEF ProcessExits
<1>3. /\ process' \in [Task -> CommandState] /\ process'[t] = result
      /\ \A s \in Task : s # t => process'[s] = process[s]
  BY <1>1, <1>2, ProcessMoves DEF CommandState
<1>4. RowOK(t)' /\ (t \in Evaluation => EvaluationOK(t)')
  BY <1>1 DEF RowOK, EvaluationOK
<1>5. t \in Job => JobOK(t)'
  BY <1>1 DEF JobOK
<1>6. \A pc \in TrainPcs \cup EvaluatePcs : HandlerAt(pc, t) => HandlerAt(pc, t)'
  BY <1>1 DEF HandlerAt
<1> QED BY <1>1, <1>3, <1>4, <1>5, <1>6, Outside DEF Typed

(* A claim spends the only attempt: nobody else handles the task.          *)
LEMMA ClaimKeeps == ASSUME IInv, NEW w \in Worker, NEW t \in Task, Claim(w, t) PROVE IInv'
<1> DEFINE new == [pc |-> IF t \in Job THEN "start" ELSE "get job", task |-> t]
           row == Claimed(task[t], OperationalWorker)
<1>1. Typed /\ Safe /\ task[t] \in RowState /\ RowOK(t) /\ (t \in Job => JobOK(t))
      /\ (t \in Evaluation => EvaluationOK(t)) /\ worker[w].pc = "idle"
      /\ UNCHANGED <<job, evaluates, process, faults>>
  BY Split DEF Safe, Claim, Typed
<1>2. task[t].status \in {"PENDING", "RUNNING"} /\ task[t].attempts = 0
  <2>1. task[t].attempts \in 0..1
    BY <1>1 DEF RowState, Rows, MaxAttempts
  <2>2. task[t].status \in {"PENDING", "RUNNING"} /\ task[t].attempts < 1
    BY DEF Claim, CanClaim, MaxAttempts
  <2> QED BY <2>1, <2>2
<1>3. row \in RowState /\ row.status = "RUNNING" /\ row.attempts = 1 /\ row.attempts # 0
  <2>1. row.status = "RUNNING" /\ row.attempts = 0 + 1
    BY <1>1, <1>2 DEF Claimed, RowState, Rows
  <2>2. task[t].attempts + 1 \in 0..MaxAttempts
    BY <1>2 DEF MaxAttempts
  <2>3. row \in RowState
    BY <1>1, <2>2 DEF Claimed, RowState, Rows, TaskStatus, LeaseState
  <2> QED BY <2>1, <2>3
<1>4. new \in WorkerState /\ worker' = [worker EXCEPT ![w] = new]
      /\ task' = [task EXCEPT ![t] = row] /\ new.task = t
      /\ new.pc \in {"start", "get job"} /\ (new.pc = "start" <=> t \in Job)
  BY <1>1 DEF Claim, WorkerState, Typed
<1> HIDE DEF new, row
<1>5. task' \in [Task -> RowState] /\ task'[t] = row /\ \A s \in Task : s # t => task'[s] = task[s]
  BY <1>1, <1>3, <1>4, TaskMoves
<1>6. worker' \in [Worker -> WorkerState] /\ worker'[w] = new /\ \A v \in Worker : v # w => worker'[v] = worker[v]
  BY <1>1, <1>4 DEF Typed
<1>7. \A v \in Worker : ~Handles(v, t)
  <2>1. \A v \in Worker : Handles(v, t) => task[t].attempts = 1
    BY <1>1 DEF Safe, HandlerOK, HandlerAt
  <2> QED BY <1>1, <1>2, <2>1, Once
<1>8. \A v \in Worker : Handles(v, t)' => v = w
  BY <1>6, <1>7 DEF Handles
<1>9. \A v \in Worker : \A s \in Task : s # t /\ Handles(v, s)' => worker'[v] = worker[v]
  BY <1>4, <1>6 DEF Handles
<1>10. HandlerOK(w, t)'
  BY <1>1, <1>2, <1>3, <1>4, <1>5, <1>6 DEF HandlerOK, HandlerAt, RowOK
<1>11. RowOK(t)' /\ (t \in Evaluation => EvaluationOK(t)')
  BY <1>1, <1>2, <1>3, <1>5 DEF RowOK, EvaluationOK
<1>12. t \in Job => JobOK(t)'
  BY <1>1, <1>2, <1>3, <1>5 DEF JobOK
<1>13. HandlersHaveTasks' /\ Typed'
  BY <1>1, <1>4, <1>5, <1>6 DEF Safe, HandlersHaveTasks, Typed
<1>14. \A v \in Worker : Handles(v, t)' => HandlerOK(v, t)'
  BY <1>8, <1>10
<1> QED BY <1>1, <1>5, <1>8, <1>9, <1>11, <1>12, <1>13, <1>14, Local

-----------------------------------------------------------------------------

LEMMA InitIInv == Init => IInv
<1> SUFFICES ASSUME Init PROVE IInv
  OBVIOUS
<1>1. AbsentRow \in RowState /\ AbsentRow.status = "ABSENT" /\ AbsentRow.attempts = 0
      /\ AbsentJob \in JobState /\ AbsentJob.status = "ABSENT" /\ AbsentJob.artifact = FALSE
      /\ AbsentJob.evaluation = "none"
  BY DEF AbsentRow, RowState, Rows, TaskStage, LeaseState, MaxAttempts, AbsentJob, JobState, JobStatus,
     Verdict
<1>2. Typed
  BY <1>1, IdleWorkerState, FineTuningAssumption DEF Init, Typed, CommandState
<1>3. (\A t \in Task : RowOK(t)) /\ (\A j \in Job : JobOK(j)) /\ (\A e \in Evaluation : EvaluationOK(e))
  BY <1>1, Apart DEF Init, RowOK, JobOK, EvaluationOK
<1>4. (\A w \in Worker : worker[w].pc = "idle")
  BY IdleWorkerState DEF Init
<1>5. Safe
  BY <1>3, <1>4 DEF Safe, HandlersHaveTasks, Handles, OneHandler
<1> QED BY <1>2, <1>5, Split

LEMMA NextIInv == IInv /\ [Next]_vars => IInv'
<1> SUFFICES ASSUME IInv, [Next]_vars PROVE IInv'
  OBVIOUS
<1>1. ASSUME NEW j \in Job, CreateFineTuningJob(j) \/ CancelFineTuningJob(j) PROVE IInv'
  BY <1>1, CreateKeeps, CancelKeeps
<1>2. ASSUME NEW j \in Job, NEW e \in Evaluation, EvaluateFineTuningJob(j, e) PROVE IInv'
  BY <1>2, EvaluateKeeps
<1>3. ASSUME NEW t \in Task, RequestCancel(t) \/ LeaseExpires(t) \/ ProcessExits(t) PROVE IInv'
  BY <1>3, RequestKeeps, ExpiryKeeps, ExitKeeps
<1>4. ASSUME NEW w \in Worker, NEW t \in Task, Claim(w, t) PROVE IInv'
  BY <1>4, ClaimKeeps
<1>5. ASSUME NEW w \in Worker, WorkerStep(w) PROVE IInv'
  BY <1>5, StartKeeps, GetKeeps, ReportsKeep, CommandKeeps, EndKeeps, CompleteKeeps, FailJobKeeps
     DEF WorkerStep
<1>6. ASSUME NEW w \in Worker, HandlerRaises(w) \/ TransactionFails(w) \/ WorkerStops(w) PROVE IInv'
  BY <1>6, RaiseKeeps, StopKeeps
<1>7. CASE UNCHANGED vars
  <2>1. Typed /\ Safe /\ UNCHANGED <<job, task, evaluates, process, worker, faults>>
    BY <1>7, Split DEF vars
  <2>2. (\A t \in Task : RowOK(t)') /\ (\A j \in Job : JobOK(j)')
    BY <2>1 DEF Safe, RowOK, JobOK
  <2>3. \A e \in Evaluation : EvaluationOK(e)'
    BY <2>1 DEF Safe, EvaluationOK
  <2>4. HandlersHaveTasks' /\ OneHandler'
    BY <2>1 DEF Safe, HandlersHaveTasks, OneHandler, Handles
  <2>5. \A w \in Worker : \A t \in Task : Handles(w, t)' => HandlerOK(w, t)'
    BY <2>1 DEF Safe, HandlerOK, HandlerAt, Handles
  <2> QED BY <2>1, <2>2, <2>3, <2>4, <2>5, SplitNext DEF Typed, Safe
<1> QED BY <1>1, <1>2, <1>3, <1>4, <1>5, <1>6, <1>7 DEF Next

(* One handler at most works on a task, it knows what its command came to, *)
(* and the job knows what its task was told.                               *)
THEOREM FineTuningInvariance == Spec => []IInv
  BY InitIInv, NextIInv, PTL DEF Spec

(* A job that succeeded, or was judged, has been trained.                  *)
THEOREM SuccessesAreTrained == Spec => []SuccessIsTrained
<1>1. IInv => SuccessIsTrained
  BY DEF IInv
<1> QED BY <1>1, FineTuningInvariance, PTL

(* The task list tells the truth about the jobs.                           *)
THEOREM TasksTellTheirJobs == Spec => []TaskTellsTheJob
<1>1. IInv => TaskTellsTheJob
  BY DEF IInv
<1> QED BY <1>1, FineTuningInvariance, PTL

-----------------------------------------------------------------------------
(* A job cancelled before it was trained.                                  *)

(* It stays so while nobody who handles it moves.                          *)
LEMMA StaysUntrained ==
    ASSUME NEW j \in Job, CancelledUntrained(j), job'[j].status = job[j].status, process'[j] = process[j],
           \A v \in Worker : Handles(v, j)' => Handles(v, j) /\ worker'[v].pc = worker[v].pc
    PROVE  CancelledUntrained(j)'
  BY DEF CancelledUntrained

LEMMA UntrainedOutside ==
    ASSUME IInv, NEW j \in Job, CancelledUntrained(j), UNCHANGED worker,
           \/ \E i \in Job : \/ CreateFineTuningJob(i) \/ CancelFineTuningJob(i)
                             \/ \E e \in Evaluation : EvaluateFineTuningJob(i, e)
           \/ \E t \in Task : RequestCancel(t) \/ LeaseExpires(t) \/ ProcessExits(t)
    PROVE  CancelledUntrained(j)'
<1>1. Typed /\ job[j].status = "CANCELLED" /\ process[j] = "none"
  BY Split DEF CancelledUntrained
<1>2. job'[j].status = job[j].status
  <2>1. ASSUME NEW i \in Job, CreateFineTuningJob(i) \/ CancelFineTuningJob(i) PROVE job'[j] = job[j]
    BY <1>1, <2>1 DEF CreateFineTuningJob, CancelFineTuningJob, Typed
  <2> QED BY <2>1 DEF EvaluateFineTuningJob, RequestCancel, LeaseExpires, ProcessExits
<1>3. process'[j] = process[j]
  <2>1. ASSUME NEW t \in Task, ProcessExits(t) PROVE process'[j] = process[j]
    BY <1>1, <2>1 DEF ProcessExits, Typed
  <2> QED BY <2>1 DEF CreateFineTuningJob, CancelFineTuningJob, EvaluateFineTuningJob, RequestCancel, LeaseExpires
<1> QED BY <1>2, <1>3, StaysUntrained DEF Handles

LEMMA UntrainedClaim ==
    ASSUME IInv, NEW j \in Job, CancelledUntrained(j), NEW w \in Worker, NEW t \in Task, Claim(w, t)
    PROVE  CancelledUntrained(j)'
<1>1. Typed /\ task[j].status \in {"CANCEL_REQUESTED", "CANCELLED"} /\ UNCHANGED <<job, process>>
  BY Split DEF Safe, JobOK, CancelledUntrained, Claim
<1>2. t # j
  BY <1>1 DEF Claim, CanClaim
<1>3. \A v \in Worker : Handles(v, j)' => worker'[v] = worker[v]
  BY <1>1, <1>2 DEF Claim, Handles, Typed
<1> QED BY <1>1, <1>3, StaysUntrained DEF Handles

(* Every step of a handler moves one process, its own.                     *)
HandlerStep(w) == WorkerStep(w) \/ HandlerRaises(w) \/ TransactionFails(w) \/ WorkerStops(w)

LEMMA OwnMoves ==
    ASSUME IInv, NEW w \in Worker, HandlerStep(w)
    PROVE  /\ worker[w].pc # "idle" /\ \A v \in Worker : v # w => worker'[v] = worker[v]
           /\ worker'[w].pc # "idle" => worker'[w].task = worker[w].task
<1>1. worker[w].pc # "idle"
  BY DEF HandlerStep, WorkerStep, StartFineTuningJob, GetFineTuningJob, ReportLoading, ReportCleaning,
     RunCommand, HeartbeatCommand, AcknowledgeCancellation, ReportVerifying, CompleteJob, Succeed,
     FailFineTuningJob, Fail, HandlerRaises, TransactionFails, WorkerStops
<1>2. Rests(w) \/ \E pc : Goto(w, pc)
  BY DEF HandlerStep, WorkerStep, StartFineTuningJob, GetFineTuningJob, ReportLoading, ReportCleaning,
     RunCommand, HeartbeatCommand, AcknowledgeCancellation, ReportVerifying, CompleteJob, Succeed,
     FailFineTuningJob, Fail, HandlerRaises, TransactionFails, WorkerStops
<1>3. Typed
  BY Split
<1> QED BY ZenonT(60), <1>1, <1>2, <1>3, IdleWorkerState DEF Rests, Goto, Typed, WorkerState

(* It writes its own job, or a verdict on another.                         *)
LEMMA JobChanges ==
    ASSUME NEW w \in Worker, HandlerStep(w)
    PROVE  \/ UNCHANGED job \/ \E s : job' = [job EXCEPT ![worker[w].task].status = s]
           \/ job' = [job EXCEPT ![worker[w].task].status = "SUCCEEDED", ![worker[w].task].artifact = TRUE]
           \/ \E i, v : job' = [job EXCEPT ![i].evaluation = v]
  BY DEF HandlerStep, WorkerStep, StartFineTuningJob, GetFineTuningJob, ReportLoading, ReportCleaning,
     RunCommand, HeartbeatCommand, AcknowledgeCancellation, ReportVerifying, CompleteJob, Succeed,
     FailFineTuningJob, Fail, HandlerRaises, TransactionFails, WorkerStops

LEMMA UntrainedElsewhere ==
    ASSUME IInv, NEW j \in Job, CancelledUntrained(j), NEW w \in Worker, HandlerStep(w), worker[w].task # j
    PROVE  CancelledUntrained(j)'
<1> DEFINE t == worker[w].task
<1>1. Typed /\ t \in Task /\ worker[w].pc # "idle"
  BY Mine, OwnMoves
<1>2. \A v \in Worker : Handles(v, j)' => Handles(v, j) /\ worker'[v].pc = worker[v].pc
  BY OwnMoves DEF Handles
<1>3. process'[j] = process[j]
  <2>1. UNCHANGED process \/ \E c : process' = [process EXCEPT ![t] = c]
    BY DEF HandlerStep, WorkerStep, StartFineTuningJob, GetFineTuningJob, ReportLoading, ReportCleaning,
       RunCommand, HeartbeatCommand, AcknowledgeCancellation, ReportVerifying, CompleteJob, Succeed,
       FailFineTuningJob, Fail, HandlerRaises, TransactionFails, WorkerStops
  <2> QED BY <1>1, <2>1, Apart DEF Typed
<1>4. job'[j].status = job[j].status
  <2>1. \/ UNCHANGED job \/ \E s : job' = [job EXCEPT ![t].status = s]
        \/ job' = [job EXCEPT ![t].status = "SUCCEEDED", ![t].artifact = TRUE]
        \/ \E i, v : job' = [job EXCEPT ![i].evaluation = v]
    BY JobChanges
  <2>2. job[j] \in JobState
    BY <1>1 DEF Typed
  <2> QED BY ZenonT(60), <1>1, <2>1, <2>2 DEF Typed, JobState
<1> QED BY <1>2, <1>3, <1>4, StaysUntrained

LEMMA UntrainedHere ==
    ASSUME IInv, NEW j \in Job, CancelledUntrained(j), NEW w \in Worker, HandlerStep(w), worker[w].task = j
    PROVE  CancelledUntrained(j)'
<1>1. Typed /\ Handles(w, j) /\ worker[w].pc \in {"start", "fail job", "fail"} /\ job[j].status = "CANCELLED"
      /\ process[j] = "none"
  BY Split, OwnMoves DEF Handles, CancelledUntrained
<1>2. \/ StartFineTuningJob(w) \/ FailFineTuningJob(w) \/ Fail(w)
      \/ /\ worker[w].pc = "start"
         /\ TransactionFails(w)
      \/ WorkerStops(w)
  BY <1>1 DEF HandlerStep, WorkerStep, GetFineTuningJob, ReportLoading, ReportCleaning,
     RunCommand, HeartbeatCommand, AcknowledgeCancellation, ReportVerifying, CompleteJob, Succeed,
     HandlerRaises, TransactionFails
<1>3. UNCHANGED process /\ job'[j].status = "CANCELLED"
      /\ (Rests(w) \/ Goto(w, "fail job") \/ Goto(w, "fail"))
  <2>1. CASE FailFineTuningJob(w)
    BY <1>1, <2>1 DEF FailFineTuningJob, Typed, JobState
  <2>2. CASE StartFineTuningJob(w)
    BY <1>1, <2>2 DEF StartFineTuningJob
  <2>3. CASE Fail(w) \/ WorkerStops(w)
    BY <1>1, <2>3 DEF Fail, WorkerStops
  <2>4. CASE TransactionFails(w)
    BY <1>1, <2>4 DEF TransactionFails, Failing, Training
  <2> QED BY <1>2, <2>1, <2>2, <2>3, <2>4
<1>4. \A v \in Worker : Handles(v, j)' => worker'[v].pc \in {"start", "fail job", "fail"}
  <2>1. worker'[w].pc \in {"idle", "fail job", "fail"}
    BY <1>1, <1>3, IdleWorkerState DEF Rests, Goto, Typed, WorkerState
  <2> QED BY <2>1, OwnMoves DEF Handles, CancelledUntrained
<1> QED BY <1>1, <1>3, <1>4 DEF CancelledUntrained

(* A job that is cancelled before its worker starts it is never trained.   *)
THEOREM EarlyCancellationsHold == Spec => CancelledEarlyIsFinal
<1> DEFINE Final == \A j \in Job : CancelledUntrained(j) => CancelledUntrained(j)'
<1>1. IInv /\ [Next]_vars => Final
  <2> SUFFICES ASSUME IInv, [Next]_vars, NEW j \in Job, CancelledUntrained(j) PROVE CancelledUntrained(j)'
    OBVIOUS
  <2>1. ASSUME NEW w \in Worker, HandlerStep(w) PROVE CancelledUntrained(j)'
    BY <2>1, UntrainedElsewhere, UntrainedHere
  <2>2. ASSUME NEW w \in Worker, NEW t \in Task, Claim(w, t) PROVE CancelledUntrained(j)'
    BY <2>2, UntrainedClaim
  <2>3. CASE UNCHANGED vars
    BY <2>3 DEF vars, CancelledUntrained, Handles
  <2>4. ASSUME \/ \E i \in Job : \/ CreateFineTuningJob(i) \/ CancelFineTuningJob(i)
                                \/ \E e \in Evaluation : EvaluateFineTuningJob(i, e)
               \/ \E t \in Task : RequestCancel(t) \/ LeaseExpires(t) \/ ProcessExits(t)
        PROVE  CancelledUntrained(j)'
    <3>1. UNCHANGED worker
      BY <2>4 DEF CreateFineTuningJob, CancelFineTuningJob, EvaluateFineTuningJob, RequestCancel,
         LeaseExpires, ProcessExits
    <3> QED BY <2>4, <3>1, UntrainedOutside
  <2> QED BY <2>1, <2>2, <2>3, <2>4 DEF Next, HandlerStep
<1> QED BY <1>1, FineTuningInvariance, PTL DEF Spec, CancelledEarlyIsFinal

-----------------------------------------------------------------------------
(* The tasks follow their life cycle.                                      *)

(* One step of a task, from row r to row n.  TaskLifecycle does not have   *)
(* the step of a cancelled task that is asked to cancel.                   *)
RowMoves(r, n) ==
    \/ /\ n.attempts = r.attempts
       /\ \/ r.status = "ABSENT" /\ n.status = "PENDING"
          \/ r.status = "RUNNING" /\ n.status \in {"SUCCEEDED", "FAILED", "CANCEL_REQUESTED"}
          \/ r.status \in {"PENDING", "CANCEL_REQUESTED"} /\ n.status = "CANCELLED"
          \/ r.status = "CANCELLED" /\ n.status = "CANCEL_REQUESTED"
          \/ n.status = r.status
    \/ /\ r.status \in {"PENDING", "RUNNING"} /\ n.status = "RUNNING"
       /\ r.attempts < MaxAttempts /\ n.attempts = r.attempts + 1

(* Such a step is one of the life cycle, or the exception.                 *)
LEMMA RowMovesFollow ==
    ASSUME Typed, Typed', NEW t \in Task, RowMoves(task[t], task'[t])
    PROVE  Lifecycle!Step(t) \/ CancelledAgain(t)
<1> DEFINE r == task[t]  n == task'[t]
<1>1. r \in RowState /\ n \in RowState
  BY DEF Typed
<1>2. r.attempts + 0 = r.attempts
  BY <1>1 DEF RowState, Rows, MaxAttempts
<1>3. /\ [s \in Task |-> task[s].status][t] = r.status
      /\ [s \in Task |-> task[s].attempts][t] = r.attempts
      /\ [s \in Task |-> task'[s].status][t] = n.status
      /\ [s \in Task |-> task'[s].attempts][t] = n.attempts
  OBVIOUS
<1> HIDE DEF r, n
<1>4. RowMoves(r, n)
  BY DEF r, n
<1> QED BY <1>2, <1>3, <1>4 DEF RowMoves, Lifecycle!Step, CancelledAgain, Lifecycle!Submit, Lifecycle!Start,
           Lifecycle!Settle, Lifecycle!Cancel, Lifecycle!Stays, Lifecycle!Moves

(* A step that leaves every task but t alone.                              *)
LEMMA OneRowMoves ==
    ASSUME Typed, NEW t \in Task, NEW new \in RowState, task' = [task EXCEPT ![t] = new],
           RowMoves(task[t], new)
    PROVE  \A s \in Task : RowMoves(task[s], task'[s])
  BY TaskMoves DEF RowMoves

LEMMA NoRowMoves == UNCHANGED task => \A s \in Task : RowMoves(task[s], task'[s])
  BY DEF RowMoves

(* A task is there when its job is: the two are written together, and a    *)
(* row that is there stays.                                                *)
TasksExist == \A j \in Job : task[j].status = "ABSENT" => job[j].status = "ABSENT"

LEMMA ApiMoves ==
    ASSUME IInv, TasksExist, NEW j \in Job,
           \/ CreateFineTuningJob(j) \/ CancelFineTuningJob(j)
           \/ \E e \in Evaluation : EvaluateFineTuningJob(j, e)
    PROVE  \A s \in Task : RowMoves(task[s], task'[s])
<1>1. Typed /\ j \in Task /\ RowOK(j) /\ JobOK(j) /\ task[j] \in RowState
  BY Split, Apart DEF Safe, Typed
<1>2. CASE CreateFineTuningJob(j)
  <2>1. RowMoves(task[j], NewRow)
    BY <1>1, <1>2, NewRowIs DEF CreateFineTuningJob, JobOK, RowOK, RowMoves
  <2> QED BY <1>1, <1>2, <2>1, NewRowIs, OneRowMoves DEF CreateFineTuningJob
<1>3. CASE CancelFineTuningJob(j)
  <2> DEFINE status == IF task[j].status = "PENDING" THEN "CANCELLED" ELSE "CANCEL_REQUESTED"
             row == [task[j] EXCEPT !.status = status]
  <2>1. row \in RowState /\ row.status = status /\ row.attempts = task[j].attempts
    BY <1>1 DEF RowState, Rows, TaskStatus
  <2>2. task' = [task EXCEPT ![j] = row]
    BY <1>1, <1>3 DEF CancelFineTuningJob, Typed, RowState, Rows
  <2>3. task[j].status \in {"PENDING", "RUNNING", "CANCEL_REQUESTED", "CANCELLED"}
    <3>1. task[j].status \in TaskStatus \cup {"ABSENT"}
      BY <1>1 DEF RowState, Rows
    <3> QED BY <1>1, <1>3, <3>1 DEF CancelFineTuningJob, TasksExist, JobOK, TaskStatus
  <2> HIDE DEF row
  <2>4. RowMoves(task[j], row)
    BY <2>1, <2>3 DEF RowMoves
  <2> QED BY <1>1, <2>1, <2>2, <2>4, OneRowMoves
<1>4. ASSUME NEW e \in Evaluation, EvaluateFineTuningJob(j, e) PROVE \A s \in Task : RowMoves(task[s], task'[s])
  <2>1. e \in Task /\ RowOK(e)
    BY Split, Apart DEF Safe
  <2>2. RowMoves(task[e], NewRow)
    BY <1>4, <2>1, NewRowIs DEF EvaluateFineTuningJob, RowOK, RowMoves
  <2> QED BY <1>1, <1>4, <2>1, <2>2, NewRowIs, OneRowMoves DEF EvaluateFineTuningJob
<1> QED BY <1>2, <1>3, <1>4

LEMMA RequestMoves ==
    ASSUME IInv, NEW t \in Task, RequestCancel(t) \/ LeaseExpires(t) \/ ProcessExits(t)
    PROVE  \A s \in Task : RowMoves(task[s], task'[s])
<1>1. Typed /\ task[t] \in RowState
  BY Split DEF Typed
<1>2. CASE RequestCancel(t)
  <2> DEFINE new == CancelTarget(task[t])
  <2>1. task[t].status \in {"PENDING", "RUNNING"} /\ task' = [task EXCEPT ![t] = new]
    BY <1>1, <1>2 DEF RequestCancel, CanCancel, Typed
  <2>2. /\ new \in RowState /\ new.attempts = task[t].attempts
        /\ new.status = IF task[t].status = "PENDING" THEN "CANCELLED" ELSE "CANCEL_REQUESTED"
    BY <1>1, <2>1 DEF CancelTarget, Finished, Released, RowState, Rows, TaskStatus, LeaseState
  <2> HIDE DEF new
  <2>3. RowMoves(task[t], new)
    BY <2>1, <2>2 DEF RowMoves
  <2> QED BY <1>1, <2>1, <2>2, <2>3, OneRowMoves
<1>3. CASE LeaseExpires(t)
  <2> DEFINE new == [task[t] EXCEPT !.lease = "expired"]
  <2>1. new \in RowState /\ new.status = task[t].status /\ new.attempts = task[t].attempts
    BY <1>1 DEF RowState, Rows, LeaseState
  <2>2. task' = [task EXCEPT ![t] = new]
    BY <1>3 DEF LeaseExpires
  <2> HIDE DEF new
  <2>3. RowMoves(task[t], new)
    BY <2>1 DEF RowMoves
  <2> QED BY <1>1, <2>1, <2>2, <2>3, OneRowMoves
<1>4. CASE ProcessExits(t)
  BY <1>4, NoRowMoves DEF ProcessExits
<1> QED BY <1>2, <1>3, <1>4

LEMMA ClaimMoves ==
    ASSUME IInv, NEW w \in Worker, NEW t \in Task, Claim(w, t)
    PROVE  \A s \in Task : RowMoves(task[s], task'[s])
<1> DEFINE row == Claimed(task[t], OperationalWorker)
<1>1. Typed /\ task[t] \in RowState /\ task' = [task EXCEPT ![t] = row]
  BY Split DEF Typed, Claim
<1>2. task[t].status \in {"PENDING", "RUNNING"} /\ task[t].attempts < MaxAttempts
  BY DEF Claim, CanClaim
<1>3. task[t].attempts + 1 \in 0..MaxAttempts
  BY <1>1, <1>2 DEF RowState, Rows, MaxAttempts
<1>4. row \in RowState /\ row.status = "RUNNING" /\ row.attempts = task[t].attempts + 1
  BY <1>1, <1>3 DEF Claimed, RowState, Rows, TaskStatus, LeaseState
<1> HIDE DEF row
<1>5. RowMoves(task[t], row)
  BY <1>2, <1>4 DEF RowMoves
<1> QED BY <1>1, <1>4, <1>5, OneRowMoves

LEMMA HandlerMoves ==
    ASSUME IInv, NEW w \in Worker, HandlerStep(w)
    PROVE  \A s \in Task : RowMoves(task[s], task'[s])
<1>1. worker[w].pc # "idle"
  BY OwnMoves
<1>2. PICK t \in Task : t = worker[w].task
  BY <1>1, Mine
<1>3. Typed
  BY Split
<1>4. CASE UNCHANGED task
  BY <1>4, NoRowMoves
<1>5. ASSUME NEW stage \in TaskStage, HeartbeatRow(w, stage) PROVE \A s \in Task : RowMoves(task[s], task'[s])
  <2>1. /\ \A s \in Task : s # t => task'[s] = task[s]
        /\ task'[t].status = task[t].status /\ task'[t].attempts = task[t].attempts
    BY <1>1, <1>2, <1>5, HeartbeatIs
  <2> QED BY <2>1 DEF RowMoves
<1>6. ASSUME NEW status \in {"CANCELLED", "SUCCEEDED", "FAILED"},
             task' = [task EXCEPT ![t] = Finished(task[t], status)],
             task[t].status = IF status = "CANCELLED" THEN "CANCEL_REQUESTED" ELSE "RUNNING"
      PROVE  \A s \in Task : RowMoves(task[s], task'[s])
  <2>1. /\ Finished(task[t], status) \in RowState /\ Finished(task[t], status).status = status
        /\ Finished(task[t], status).attempts = task[t].attempts
    BY <1>3, EndsAs DEF TaskStatus
  <2>2. RowMoves(task[t], Finished(task[t], status))
    BY <1>6, <2>1 DEF RowMoves
  <2> QED BY <1>3, <1>6, <2>1, <2>2, OneRowMoves
<1>7. CASE AcknowledgeCancellation(w)
  <2>1. UNCHANGED task \/ /\ task' = [task EXCEPT ![t] = Finished(task[t], "CANCELLED")]
                          /\ task[t].status = "CANCEL_REQUESTED"
    BY <1>2, <1>3, <1>7 DEF AcknowledgeCancellation, CancellationRequested, Typed
  <2> QED BY <1>4, <1>6, <2>1
<1>8. CASE Succeed(w)
  <2>1. UNCHANGED task \/ /\ task' = [task EXCEPT ![t] = Finished(task[t], "SUCCEEDED")]
                          /\ task[t].status = "RUNNING"
    BY <1>2, <1>3, <1>8 DEF Succeed, OwnedRunning, Typed
  <2> QED BY <1>4, <1>6, <2>1
<1>9. CASE Fail(w)
  <2>1. UNCHANGED task \/ /\ task' = [task EXCEPT ![t] = Finished(task[t], "FAILED")]
                          /\ task[t].status = "RUNNING"
    BY <1>2, <1>3, <1>9 DEF Fail, OwnedRunning, Typed
  <2> QED BY <1>4, <1>6, <2>1
<1>10. CASE ReportLoading(w) \/ ReportCleaning(w) \/ HeartbeatCommand(w) \/ ReportVerifying(w)
  BY <1>5, <1>10 DEF ReportLoading, ReportCleaning, HeartbeatCommand, ReportVerifying, TaskStage
<1>11. CASE ~(\/ AcknowledgeCancellation(w) \/ Succeed(w) \/ Fail(w) \/ ReportLoading(w)
              \/ ReportCleaning(w) \/ HeartbeatCommand(w) \/ ReportVerifying(w))
  BY <1>4, <1>11 DEF HandlerStep, WorkerStep, StartFineTuningJob, GetFineTuningJob, RunCommand, CompleteJob,
     FailFineTuningJob, HandlerRaises, TransactionFails, WorkerStops
<1> QED BY <1>7, <1>8, <1>9, <1>10, <1>11

LEMMA RowsMove == ASSUME IInv, TasksExist, [Next]_vars PROVE \A s \in Task : RowMoves(task[s], task'[s])
<1>1. ASSUME NEW w \in Worker, HandlerStep(w) PROVE \A s \in Task : RowMoves(task[s], task'[s])
  BY <1>1, HandlerMoves
<1>2. CASE UNCHANGED vars
  BY <1>2, NoRowMoves DEF vars
<1> QED BY <1>1, <1>2, ApiMoves, RequestMoves, ClaimMoves DEF Next, HandlerStep

LEMMA TasksExistKeeps == ASSUME IInv, TasksExist, [Next]_vars PROVE TasksExist'
<1> SUFFICES ASSUME NEW j \in Job, task'[j].status = "ABSENT" PROVE job'[j].status = "ABSENT"
  BY DEF TasksExist
<1>1. Typed /\ Safe /\ j \in Task
  BY Split, Apart
<1>2. task[j].status = "ABSENT" /\ job[j].status = "ABSENT"
  BY <1>1, RowsMove DEF RowMoves, TasksExist
<1>3. \A w \in Worker : ~Handles(w, j)
  BY <1>1, <1>2 DEF Safe, HandlerOK, HandlerAt
<1>4. ASSUME NEW i \in Job, CreateFineTuningJob(i) PROVE job'[j] = job[j]
  <2>1. i # j
    BY <1>1, <1>4, NewRowIs DEF CreateFineTuningJob, Typed
  <2> QED BY <1>1, <1>4, <2>1 DEF CreateFineTuningJob, Typed
<1>5. ASSUME NEW i \in Job, CancelFineTuningJob(i) PROVE job'[j] = job[j]
  BY <1>1, <1>2, <1>5 DEF CancelFineTuningJob, Typed
<1>6. ASSUME NEW w \in Worker, HandlerStep(w) PROVE job'[j].status = job[j].status
  <2> DEFINE t == worker[w].task
  <2>1. t # j
    BY <1>3, <1>6, OwnMoves DEF Handles
  <2>2. \/ UNCHANGED job \/ \E s : job' = [job EXCEPT ![t].status = s]
        \/ job' = [job EXCEPT ![t].status = "SUCCEEDED", ![t].artifact = TRUE]
        \/ \E i, v : job' = [job EXCEPT ![i].evaluation = v]
    BY <1>6, JobChanges
  <2>3. job[j] \in JobState
    BY <1>1 DEF Typed
  <2> QED BY ZenonT(60), <1>1, <2>1, <2>2, <2>3 DEF Typed, JobState
<1>7. UNCHANGED job => job'[j].status = job[j].status
  OBVIOUS
<1> QED BY <1>2, <1>4, <1>5, <1>6, <1>7 DEF Next, HandlerStep, vars, EvaluateFineTuningJob, RequestCancel,
        LeaseExpires, ProcessExits, Claim

(* Every task of a job or an evaluation follows the life cycle of tasks,   *)
(* but for the cancellation of what was already cancelled.                 *)
THEOREM TasksFollowTheLifecycle == Spec => FollowsLifecycle
<1> DEFINE Follows == \A t \in Task : Lifecycle!Step(t) \/ CancelledAgain(t)
<1>1. Init => TasksExist
  BY Apart DEF Init, TasksExist, AbsentJob
<1>2. IInv /\ TasksExist /\ [Next]_vars => TasksExist'
  BY TasksExistKeeps
<1>3. IInv /\ IInv' /\ TasksExist /\ [Next]_vars => Follows
  <2> SUFFICES ASSUME IInv, IInv', TasksExist, [Next]_vars, NEW t \in Task
               PROVE  Lifecycle!Step(t) \/ CancelledAgain(t)
    OBVIOUS
  <2>1. Typed /\ Typed'
    BY Split, SplitNext
  <2> QED BY <2>1, RowsMove, RowMovesFollow
<1> QED BY <1>1, <1>2, <1>3, FineTuningInvariance, PTL DEF Spec, FollowsLifecycle
=============================================================================
