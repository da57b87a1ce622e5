----------------------- MODULE DocumentIndex_proofs ------------------------
(***************************************************************************)
(* Proofs about DocumentIndex, for any workers, requests, versions, tasks  *)
(* and faults.  No step takes chunk rows away or forgets a task (Keeps);   *)
(* what remains is what each step does to one handler, and what it does    *)
(* to the document.                                                        *)
(***************************************************************************)
EXTENDS DocumentIndex, TLAPS

RowState == Rows(Worker, MaxAttempts)
JobState == [op : {"INGEST", "REBUILD", "DELETE"}, target : 0..MaxVersion]
DocState == [status : DocStatus, deleted : BOOLEAN, current : 0..MaxVersion]
WorkerState == [pc : {"idle"} \cup HandlerPcs \cup EndingPcs,
                task : 0..MaxTasks, version : 0..MaxVersion, held : Copy]
ClientState == [pc : {"idle", "version", "ingest", "rebuild"},
                parser : VersionKey, version : 0..MaxVersion]

TypedData ==
    /\ doc \in DocState /\ version \in [Version -> VersionKey]
    /\ rows \in [Version -> RowStatus] /\ index \in [Version -> [Chunk -> Copy]]
TypedWork ==
    /\ task \in [Task -> RowState] /\ job \in [Task -> JobState]
    /\ worker \in [Worker -> WorkerState] /\ client \in [Client -> ClientState]
    /\ faults \in 0..MaxFaults

LEMMA TypedIsTypeOK == TypeOK <=> TypedData /\ TypedWork
  BY DEF TypeOK, TypedData, TypedWork, RowState, JobState, DocState, WorkerState, ClientState

LEMMA TypedIsTypeOKNext == TypeOK' <=> TypedData' /\ TypedWork'
  BY DEF TypeOK, TypedData, TypedWork, RowState, JobState, DocState, WorkerState, ClientState

(* What HandlersHaveRows says of one worker.                               *)
NeedsRows(w) ==
    \/ worker[w].pc \in {"upsert", "count", "mark indexed", "mark ready"}
    \/ worker[w].pc = "purge" /\ Op(w) # "DELETE"
HandlerOK(w) ==
    worker[w].pc # "idle" =>
        /\ worker[w].task \in Task /\ worker[w].version \in Version
        /\ task[worker[w].task].status # "ABSENT"
        /\ NeedsRows(w) => rows[worker[w].version] # "none"

LEMMA HandlersOK == HandlersHaveRows <=> \A w \in Worker : HandlerOK(w)
  BY DEF HandlersHaveRows, HandlerOK, NeedsRows

LEMMA HandlersOKNext == HandlersHaveRows' <=> \A w \in Worker : HandlerOK(w)'
  BY DEF HandlersHaveRows, HandlerOK, NeedsRows

Good ==
    /\ TypedData /\ TypedWork
    /\ \A w \in Worker : HandlerOK(w)
    /\ ReadyHasVersion /\ ReadyHasRows /\ OneVersionPerParser

LEMMA Split == IInv <=> Good
  BY TypedIsTypeOK, HandlersOK DEF IInv, Good

LEMMA SplitNext == IInv' <=> Good'
  BY TypedIsTypeOKNext, HandlersOKNext DEF IInv, Good

-----------------------------------------------------------------------------
(* Rows of async_tasks: what the transactions make of a row is a row.      *)
LEMMA RowEffects ==
    ASSUME NEW r \in RowState
    PROVE  /\ \A s \in TaskStage : Heartbeat(r, s) \in RowState /\ Heartbeat(r, s).status = r.status
           /\ \A s \in TaskStatus : Finished(r, s) \in RowState /\ Finished(r, s).status = s
           /\ Requeued(r) \in RowState /\ Requeued(r).status = "PENDING"
           /\ CancelTarget(r) \in RowState /\ CancelTarget(r).status # "ABSENT"
           /\ \A w \in Worker : CanClaim(r, MaxAttempts) =>
                 Claimed(r, w) \in RowState /\ Claimed(r, w).status = "RUNNING"
<1> USE DEF RowState, Rows, TaskStatus, TaskStage, LeaseState
<1>1. \A s \in TaskStage : Heartbeat(r, s) \in RowState /\ Heartbeat(r, s).status = r.status
  BY DEF Heartbeat
<1>2. \A s \in TaskStatus : Finished(r, s) \in RowState /\ Finished(r, s).status = s
  BY DEF Finished, Released
<1>3. Requeued(r) \in RowState /\ Requeued(r).status = "PENDING"
  BY DEF Requeued, Released
<1>4. CancelTarget(r) \in RowState /\ CancelTarget(r).status # "ABSENT"
  BY DEF CancelTarget, Finished, Released
<1>5. ASSUME NEW w \in Worker, CanClaim(r, MaxAttempts)
      PROVE  Claimed(r, w) \in RowState /\ Claimed(r, w).status = "RUNNING"
  <2>1. r.attempts + 1 \in 0..MaxAttempts
    BY <1>5, IndexAssumption DEF CanClaim
  <2> QED BY <2>1 DEF Claimed
<1> QED BY <1>1, <1>2, <1>3, <1>4, <1>5

LEMMA NewRowIs == NewRow \in RowState /\ NewRow.status = "PENDING"
  BY IndexAssumption DEF NewRow, AbsentRow, RowState, Rows, TaskStatus, TaskStage, LeaseState

LEMMA IdleStates ==
    /\ IdleWorker \in WorkerState /\ IdleWorker.pc = "idle"
    /\ IdleClient \in ClientState
  BY IndexAssumption DEF IdleWorker, IdleClient, WorkerState, ClientState, Copy,
                         VersionKey

-----------------------------------------------------------------------------
(* Tasks and chunk rows stay; the document turns READY with rows.          *)
TasksStay ==
    \A t \in Task : task[t].status # "ABSENT" => task'[t].status # "ABSENT" /\ job'[t] = job[t]
RowsStay == \A v \in Version : rows[v] # "none" => rows'[v] # "none"
ReadyStays ==
    \/ doc' = doc
    \/ doc'.status # "READY"
    \/ doc'.current \in Version /\ rows[doc'.current] # "none"
VersionsStay == version' = version

LEMMA ReadyKeeps ==
    ASSUME Good, RowsStay, ReadyStays
    PROVE  ReadyHasVersion' /\ ReadyHasRows'
<1>1. TypedData
  BY DEF Good
<1>2. doc.status = "READY" => doc.current \in Version /\ rows[doc.current] # "none"
  BY <1>1, IndexAssumption DEF Good, ReadyHasVersion, ReadyHasRows, TypedData, DocState, Version
<1>3. doc'.status = "READY" => doc'.current \in Version /\ rows[doc'.current] # "none"
  BY <1>2 DEF ReadyStays
<1>4. doc'.status = "READY" => doc'.current # 0
  BY <1>3, IndexAssumption DEF Version
<1> QED BY <1>3, <1>4 DEF RowsStay, ReadyHasVersion, ReadyHasRows

LEMMA HandlerStays ==
    ASSUME Good, TasksStay, RowsStay, NEW w \in Worker,
           worker'[w].pc = worker[w].pc, worker'[w].task = worker[w].task,
           worker'[w].version = worker[w].version
    PROVE  HandlerOK(w)'
<1>1. HandlerOK(w)
  BY DEF Good
<1> QED BY <1>1 DEF HandlerOK, NeedsRows, Op, TasksStay, RowsStay

(* A step of the API or of the sweep.                                      *)
LEMMA ApiKeeps ==
    ASSUME Good, TypedData', TypedWork', TasksStay, RowsStay, ReadyStays, OneVersionPerParser',
           UNCHANGED worker
    PROVE  IInv'
  BY HandlerStays, ReadyKeeps, SplitNext DEF Good

(* A step of worker w, in which the others may lose what they hold.        *)
LEMMA WorkerKeeps ==
    ASSUME Good, TypedData', TypedWork', TasksStay, RowsStay, ReadyStays, VersionsStay,
           NEW w \in Worker, HandlerOK(w)',
           \A u \in Worker : u # w => /\ worker'[u].pc = worker[u].pc
                                     /\ worker'[u].task = worker[u].task
                                     /\ worker'[u].version = worker[u].version
    PROVE  IInv'
<1>1. \A u \in Worker : HandlerOK(u)'
  BY HandlerStays
<1>2. OneVersionPerParser'
  BY DEF Good, OneVersionPerParser, VersionsStay
<1> QED BY <1>1, <1>2, ReadyKeeps, SplitNext DEF Good

(* One row is replaced, or a new one is inserted.                          *)
LEMMA RowReplaced ==
    ASSUME TypedWork, NEW t \in Task, NEW r \in RowState,
           task[t].status # "ABSENT" => r.status # "ABSENT",
           task' = [task EXCEPT ![t] = r], UNCHANGED job
    PROVE  task' \in [Task -> RowState] /\ TasksStay
  BY DEF TypedWork, TasksStay

LEMMA RowAppended ==
    ASSUME TypedWork, NEW op \in {"INGEST", "REBUILD", "DELETE"}, NEW v \in 0..MaxVersion,
           AppendTask(op, v)
    PROVE  task' \in [Task -> RowState] /\ job' \in [Task -> JobState] /\ TasksStay
<1>1. PICK t \in Task : /\ task[t].status = "ABSENT" /\ task' = [task EXCEPT ![t] = NewRow]
                        /\ job' = [job EXCEPT ![t] = [op |-> op, target |-> v]]
  BY DEF AppendTask
<1> QED BY <1>1, NewRowIs DEF TypedWork, TasksStay, JobState

-----------------------------------------------------------------------------
(* The API.                                                                *)

LEMMA CreateDocumentKeeps ==
    ASSUME Good, NEW c \in Client, NEW parser \in Parser \cup {"forced"}, CreateDocument(c, parser)
    PROVE  IInv'
<1>1. TypedData /\ TypedWork
  BY DEF Good
<1>2. doc' \in DocState /\ ReadyStays
  BY <1>1 DEF CreateDocument, TypedData, DocState, DocStatus, ReadyStays
<1>3. client' \in [Client -> ClientState]
  <2>1. [IdleClient EXCEPT !.pc = "version", !.parser = parser] \in ClientState
    BY IdleStates DEF ClientState, VersionKey
  <2> QED BY <1>1, <2>1 DEF CreateDocument, TypedWork
<1>4. TypedData' /\ TypedWork' /\ TasksStay /\ RowsStay /\ OneVersionPerParser' /\ UNCHANGED worker
  BY <1>1, <1>2, <1>3 DEF CreateDocument, TypedData, TypedWork, TasksStay, RowsStay, Good, OneVersionPerParser
<1> QED BY <1>2, <1>4, ApiKeeps

(* What MarkCurrent and a request that goes on leave.                      *)
LEMMA CurrentKeeps ==
    ASSUME Good, NEW v \in Version, MarkCurrent(v),
           version' \in [Version -> VersionKey], OneVersionPerParser',
           client' \in [Client -> ClientState],
           UNCHANGED <<rows, index, task, job, worker, faults>>
    PROVE  IInv'
<1>1. TypedData /\ TypedWork
  BY DEF Good
<1>2. doc' \in DocState /\ ReadyStays
  <2>1. v \in 0..MaxVersion
    BY IndexAssumption DEF Version
  <2> QED BY <1>1, <2>1 DEF MarkCurrent, TypedData, DocState, DocStatus, ReadyStays
<1>3. TypedData' /\ TypedWork' /\ TasksStay /\ RowsStay
  BY <1>1, <1>2 DEF TypedData, TypedWork, TasksStay, RowsStay
<1> QED BY <1>2, <1>3, ApiKeeps

LEMMA UseVersionKeeps ==
    ASSUME Good, NEW c \in Client, NEW v \in Version, UseVersion(c, v),
           version' \in [Version -> VersionKey], OneVersionPerParser'
    PROVE  IInv'
<1>1. [IdleClient EXCEPT !.pc = "ingest", !.version = v] \in ClientState
  <2>1. v \in 0..MaxVersion
    BY IndexAssumption DEF Version
  <2> QED BY <2>1, IdleStates DEF ClientState
<1>2. client' \in [Client -> ClientState]
  BY <1>1 DEF UseVersion, Good, TypedWork
<1> QED BY <1>2, CurrentKeeps DEF UseVersion

LEMMA ReuseVersionKeeps == ASSUME Good, NEW c \in Client, ReuseVersion(c) PROVE IInv'
<1>1. PICK v \in Version : UseVersion(c, v)
  BY DEF ReuseVersion, Existing
<1>2. version' \in [Version -> VersionKey] /\ OneVersionPerParser'
  BY DEF ReuseVersion, Good, TypedData, OneVersionPerParser
<1> QED BY <1>1, <1>2, UseVersionKeeps

(* A new version's parser is one that no other version has, or "forced".   *)
LEMMA NewVersionKeeps == ASSUME Good, NEW c \in Client, NewVersion(c) PROVE IInv'
<1> DEFINE v == doc.current + 1
           key == client[c].parser
<1>1. /\ v \in Version /\ Existing(c) = {} /\ UseVersion(c, v)
      /\ version' = [version EXCEPT ![v] = key]
  BY DEF NewVersion
<1>2. version \in [Version -> VersionKey] /\ OneVersionPerParser
  BY DEF Good, TypedData
<1>3. key # "forced" => \A u \in Version : version[u] # key
  BY <1>1 DEF Existing
<1>4. key \in VersionKey
  BY DEF Good, TypedWork, ClientState
<1> HIDE DEF v, key
<1>5. version' \in [Version -> VersionKey]
  BY <1>1, <1>2, <1>4
<1>6. OneVersionPerParser'
  BY <1>1, <1>2, <1>3, IndexAssumption DEF OneVersionPerParser
<1> QED BY <1>1, <1>5, <1>6, UseVersionKeeps

(* A request only goes on or ends.                                         *)
LEMMA RequestKeeps ==
    ASSUME Good, client' \in [Client -> ClientState], faults' \in 0..MaxFaults,
           UNCHANGED <<doc, version, rows, index, task, job, worker>>
    PROVE  IInv'
<1>1. TypedData /\ TypedWork /\ OneVersionPerParser
  BY DEF Good
<1>2. TypedData' /\ TypedWork' /\ TasksStay /\ RowsStay /\ ReadyStays /\ OneVersionPerParser'
  BY <1>1 DEF TypedData, TypedWork, TasksStay, RowsStay, ReadyStays, OneVersionPerParser
<1> QED BY <1>2, ApiKeeps

LEMMA VersionRefusedKeeps == ASSUME Good, NEW c \in Client, VersionRefused(c) PROVE IInv'
<1>1. client' \in [Client -> ClientState] /\ faults' \in 0..MaxFaults
  BY IdleStates DEF VersionRefused, Good, TypedWork
<1> QED BY <1>1, RequestKeeps DEF VersionRefused

LEMMA RequestAbortsKeeps == ASSUME Good, NEW c \in Client, RequestAborts(c) PROVE IInv'
<1>1. client' \in [Client -> ClientState]
  BY IdleStates DEF RequestAborts, Good, TypedWork
<1>2. faults' \in 0..MaxFaults
  BY IndexAssumption DEF RequestAborts, Fault, Good, TypedWork
<1> QED BY <1>1, <1>2, RequestKeeps DEF RequestAborts

LEMMA ReindexKeeps == ASSUME Good, NEW c \in Client, Reindex(c) PROVE IInv'
<1>1. client' \in [Client -> ClientState] /\ faults' \in 0..MaxFaults
  BY DEF Reindex, Good, TypedWork, ClientState
<1> QED BY <1>1, RequestKeeps DEF Reindex

LEMMA RollbackKeeps ==
    ASSUME Good, NEW c \in Client, NEW v \in Version, Rollback(c, v) PROVE IInv'
<1>1. client' \in [Client -> ClientState]
  BY DEF Rollback, Good, TypedWork, ClientState
<1>2. version' \in [Version -> VersionKey] /\ OneVersionPerParser'
  BY DEF Rollback, Good, TypedData, OneVersionPerParser
<1> QED BY <1>1, <1>2, CurrentKeeps DEF Rollback

(* A task is created, and the document may be hidden.                      *)
LEMMA AppendKeeps ==
    ASSUME Good, NEW op \in {"INGEST", "REBUILD", "DELETE"}, NEW v \in 0..MaxVersion,
           AppendTask(op, v), doc' \in DocState, ReadyStays, client' \in [Client -> ClientState],
           UNCHANGED <<version, rows, index, worker, faults>>
    PROVE  IInv'
<1>1. TypedData /\ TypedWork /\ OneVersionPerParser
  BY DEF Good
<1>2. task' \in [Task -> RowState] /\ job' \in [Task -> JobState] /\ TasksStay
  BY <1>1, RowAppended
<1>3. TypedData' /\ TypedWork' /\ RowsStay /\ OneVersionPerParser'
  BY <1>1, <1>2 DEF TypedData, TypedWork, RowsStay, OneVersionPerParser
<1> QED BY <1>2, <1>3, ApiKeeps

LEMMA CreateTaskKeeps ==
    ASSUME Good, NEW c \in Client, CreateIngest(c) \/ CreateRebuild(c)
    PROVE  IInv'
<1>1. doc' \in DocState /\ ReadyStays /\ UNCHANGED <<version, rows, index, worker, faults>>
  BY DEF CreateIngest, CreateRebuild, Good, TypedData, ReadyStays
<1>2. client' \in [Client -> ClientState]
  BY IdleStates DEF CreateIngest, CreateRebuild, Good, TypedWork
<1>3. client[c].version \in 0..MaxVersion /\ 0 \in 0..MaxVersion
  BY IndexAssumption DEF Good, TypedWork, ClientState
<1>4. \E op \in {"INGEST", "REBUILD", "DELETE"}, v \in 0..MaxVersion : AppendTask(op, v)
  BY <1>3 DEF CreateIngest, CreateRebuild
<1> QED BY <1>1, <1>2, <1>4, AppendKeeps

LEMMA DeleteKeeps == ASSUME Good, DeleteWithOutbox PROVE IInv'
<1>1. doc' \in DocState /\ ReadyStays
  BY DEF DeleteWithOutbox, Good, TypedData, DocState, DocStatus, ReadyStays
<1>2. client' \in [Client -> ClientState] /\ 0 \in 0..MaxVersion
  BY IndexAssumption DEF DeleteWithOutbox, Good, TypedWork
<1> QED BY <1>1, <1>2, AppendKeeps DEF DeleteWithOutbox

(* A row changes: cancellation, retry, the lease, the sweep, a claim that  *)
(* finds nothing to work on.                                               *)
LEMMA RowKeeps ==
    ASSUME Good, NEW t \in Task, NEW r \in RowState,
           task[t].status # "ABSENT" => r.status # "ABSENT",
           task' = [task EXCEPT ![t] = r],
           UNCHANGED <<doc, version, rows, index, job, worker, client, faults>>
    PROVE  IInv'
<1>1. TypedData /\ TypedWork /\ OneVersionPerParser
  BY DEF Good
<1>2. task' \in [Task -> RowState] /\ TasksStay
  BY <1>1, RowReplaced
<1>3. TypedData' /\ TypedWork' /\ RowsStay /\ ReadyStays /\ OneVersionPerParser'
  BY <1>1, <1>2 DEF TypedData, TypedWork, RowsStay, ReadyStays, OneVersionPerParser
<1> QED BY <1>2, <1>3, ApiKeeps

LEMMA RowStepKeeps ==
    ASSUME Good, NEW t \in Task,
           \/ RequestCancel(t) \/ Retry(t) \/ LeaseExpires(t) \/ RecoverStale(t)
           \/ \E w \in Worker : ClaimUnresolved(w, t)
    PROVE  IInv'
<1>1. task[t] \in RowState /\ task \in [Task -> RowState]
  BY DEF Good, TypedWork
<1>2. CASE RequestCancel(t)
  BY <1>1, <1>2, RowEffects, RowKeeps DEF RequestCancel
<1>3. CASE Retry(t)
  <2>1. Requeued(task[t]).status # "ABSENT"
    BY <1>1, RowEffects
  <2> QED BY <1>1, <1>3, <2>1, RowEffects, RowKeeps DEF Retry
<1>4. CASE LeaseExpires(t)
  <2> DEFINE r == [task[t] EXCEPT !.lease = "expired"]
  <2>1. r \in RowState /\ task' = [task EXCEPT ![t] = r]
    BY <1>1, <1>4 DEF LeaseExpires, RowState, Rows, LeaseState
  <2>2. task[t].status # "ABSENT" => r.status # "ABSENT"
    BY <1>1 DEF RowState, Rows
  <2> QED BY <1>1, <1>4, <2>1, <2>2, RowKeeps DEF LeaseExpires
<1>5. CASE RecoverStale(t) \/ \E w \in Worker : ClaimUnresolved(w, t)
  <2>1. \/ task' = [task EXCEPT ![t] = Finished(task[t], "FAILED")]
        \/ task' = [task EXCEPT ![t] = Requeued(task[t])]
    BY <1>1, <1>5 DEF RecoverStale, ClaimUnresolved
  <2>2. UNCHANGED <<doc, version, rows, index, job, worker, client, faults>>
    BY <1>5 DEF RecoverStale, ClaimUnresolved
  <2>3. \A r \in {Finished(task[t], "FAILED"), Requeued(task[t])} :
           r \in RowState /\ r.status # "ABSENT"
    BY <1>1, RowEffects DEF TaskStatus
  <2> QED BY <2>1, <2>2, <2>3, RowKeeps
<1> QED BY <1>2, <1>3, <1>4, <1>5

-----------------------------------------------------------------------------
(* The workers.                                                            *)

LEMMA ClaimKeeps == ASSUME Good, NEW w \in Worker, NEW t \in Task, Claim(w, t) PROVE IInv'
<1> DEFINE v == Resolved(t)
           new == [pc |-> FirstPc[job[t].op], task |-> t, version |-> v, held |-> "absent"]
           row == Claimed(task[t], w)
<1>1. TypedData /\ TypedWork /\ task[t] \in RowState /\ job[t] \in JobState
  BY DEF Good, TypedWork
<1>2. v \in Version /\ v \in 0..MaxVersion
  <2>1. v \in 0..MaxVersion
    BY <1>1 DEF Resolved, JobState, TypedData, DocState
  <2>2. v # 0
    BY DEF Claim, Unresolvable
  <2> HIDE DEF v
  <2> QED BY <2>1, <2>2, IndexAssumption DEF Version
<1>3. FirstPc[job[t].op] \in {"load", "check", "update"}
  BY <1>1 DEF FirstPc, JobState
<1>4. t \in 0..MaxTasks
  BY IndexAssumption DEF Task
<1>5. row \in RowState /\ row.status = "RUNNING" /\ task' = [task EXCEPT ![t] = row]
  BY <1>1, RowEffects DEF Claim, TypedWork
<1> HIDE DEF v, row
<1>6. new \in WorkerState /\ worker' = [worker EXCEPT ![w] = new]
  BY <1>2, <1>3, <1>4 DEF Claim, WorkerState, HandlerPcs, Copy, v
<1>7. new.pc \in {"load", "check", "update"} /\ new.task = t /\ new.version = v
  BY <1>3
<1> HIDE DEF new
<1>8. task' \in [Task -> RowState] /\ TasksStay /\ task'[t].status # "ABSENT"
  BY <1>1, <1>5, RowReplaced DEF Claim, TypedWork
<1>9. worker' \in [Worker -> WorkerState] /\ worker'[w] = new
      /\ \A u \in Worker : u # w => worker'[u] = worker[u]
  BY <1>1, <1>6 DEF TypedWork
<1>10. HandlerOK(w)'
  BY <1>2, <1>7, <1>8, <1>9 DEF HandlerOK, NeedsRows
<1>11. TypedData' /\ TypedWork' /\ RowsStay /\ ReadyStays /\ VersionsStay
  BY <1>1, <1>8, <1>9 DEF Claim, TypedData, TypedWork, RowsStay, ReadyStays, VersionsStay
<1> QED BY <1>8, <1>9, <1>10, <1>11, WorkerKeeps

(* Worker w goes on with its task, or rests.                               *)
LEMMA GoesOn ==
    ASSUME Good, NEW w \in Worker, worker[w].pc # "idle",
           NEW pc \in HandlerPcs \cup EndingPcs, Goto(w, pc),
           TypedData', task' \in [Task -> RowState], TasksStay, RowsStay, ReadyStays,
           UNCHANGED <<version, job, client, faults>>,
           \/ pc \in {"upsert", "count", "mark indexed", "mark ready"}
           \/ pc = "purge" /\ Op(w) # "DELETE"
           => rows[worker[w].version] # "none"
    PROVE  IInv'
<1>1. TypedWork /\ HandlerOK(w)
  BY DEF Good
<1> DEFINE new == [worker[w] EXCEPT !.pc = pc, !.held = IF pc = "upsert" THEN @ ELSE "absent"]
<1>2. new \in WorkerState
  BY <1>1 DEF TypedWork, WorkerState, Copy
<1>3. worker' = [worker EXCEPT ![w] = new]
  BY <1>1 DEF Goto, TypedWork, WorkerState
<1>4. new.pc = pc /\ new.task = worker[w].task /\ new.version = worker[w].version
  BY <1>1 DEF TypedWork, WorkerState
<1> HIDE DEF new
<1>5. /\ worker' \in [Worker -> WorkerState] /\ worker'[w] = new
      /\ \A u \in Worker : u # w => worker'[u] = worker[u]
  BY <1>1, <1>2, <1>3 DEF TypedWork
<1>6. /\ worker[w].task \in Task /\ worker[w].version \in Version
      /\ task'[worker[w].task].status # "ABSENT"
  BY <1>1 DEF HandlerOK, TasksStay
<1>7. NeedsRows(w)' => rows'[worker[w].version] # "none"
  BY <1>4, <1>5, <1>6 DEF NeedsRows, Op, RowsStay
<1>8. HandlerOK(w)'
  BY <1>4, <1>5, <1>6, <1>7 DEF HandlerOK
<1>9. TypedWork' /\ VersionsStay
  BY <1>1, <1>5 DEF TypedWork, VersionsStay
<1> QED BY <1>5, <1>8, <1>9, WorkerKeeps

LEMMA RestsKeeps ==
    ASSUME Good, NEW w \in Worker, Rests(w), TypedData', task' \in [Task -> RowState],
           TasksStay, RowsStay, ReadyStays,
           UNCHANGED <<version, job, client>>, faults' \in 0..MaxFaults
    PROVE  IInv'
<1>1. /\ worker' \in [Worker -> WorkerState] /\ worker'[w].pc = "idle"
      /\ \A u \in Worker : u # w => worker'[u] = worker[u]
  BY IdleStates DEF Rests, Good, TypedWork
<1>2. HandlerOK(w)'
  BY <1>1 DEF HandlerOK
<1>3. TypedWork' /\ VersionsStay
  BY <1>1 DEF Good, TypedWork, VersionsStay
<1> QED BY <1>1, <1>2, <1>3, WorkerKeeps

LEMMA AtWork ==
    ASSUME Good, NEW w \in Worker, worker[w].pc # "idle"
    PROVE  /\ TypedData /\ TypedWork
           /\ worker[w].task \in Task /\ worker[w].version \in Version
           /\ task[worker[w].task] \in RowState /\ task[worker[w].task].status # "ABSENT"
           /\ Op(w) \in {"INGEST", "REBUILD", "DELETE"}
           /\ NeedsRows(w) => rows[worker[w].version] # "none"
  BY DEF Good, HandlerOK, TypedWork, JobState, Op

LEMMA DataStays ==
    ASSUME Good, UNCHANGED <<doc, version, rows, index>>
    PROVE  TypedData' /\ RowsStay /\ ReadyStays
  BY DEF Good, TypedData, RowsStay, ReadyStays

LEMMA TaskStays ==
    ASSUME Good, UNCHANGED <<task, job>>
    PROVE  task' \in [Task -> RowState] /\ TasksStay
  BY DEF Good, TypedWork, TasksStay

(* What a handler does to its own row.                                     *)
LEMMA OwnRow ==
    ASSUME Good, NEW w \in Worker, worker[w].pc # "idle", UNCHANGED job, NEW t, t = worker[w].task,
           \/ UNCHANGED task
           \/ \E s \in TaskStage : task' = [task EXCEPT ![t] = Heartbeat(task[t], s)]
           \/ \E s \in TaskStatus : task' = [task EXCEPT ![t] = Finished(task[t], s)]
    PROVE  task' \in [Task -> RowState] /\ TasksStay
<1>1. TypedWork /\ t \in Task /\ task[t] \in RowState /\ task[t].status # "ABSENT"
  BY AtWork
<1>2. CASE UNCHANGED task
  BY <1>2, TaskStays
<1>3. ASSUME NEW s \in TaskStage, task' = [task EXCEPT ![t] = Heartbeat(task[t], s)]
      PROVE  task' \in [Task -> RowState] /\ TasksStay
  <2>1. Heartbeat(task[t], s) \in RowState /\ Heartbeat(task[t], s).status # "ABSENT"
    BY <1>1, RowEffects
  <2> QED BY <1>1, <1>3, <2>1, RowReplaced
<1>4. ASSUME NEW s \in TaskStatus, task' = [task EXCEPT ![t] = Finished(task[t], s)]
      PROVE  task' \in [Task -> RowState] /\ TasksStay
  <2>1. Finished(task[t], s) \in RowState /\ Finished(task[t], s).status # "ABSENT"
    BY <1>1, RowEffects DEF TaskStatus
  <2> QED BY <1>1, <1>4, <2>1, RowReplaced
<1> QED BY <1>2, <1>3, <1>4

(* Reports: the row is touched, the handler goes on.                       *)
LEMMA ReportKeeps ==
    ASSUME Good, NEW w \in Worker, ReportLoading(w) \/ UpdateProgress(w)
    PROVE  IInv'
<1>1. worker[w].pc # "idle" /\ UNCHANGED <<doc, version, rows, index, job, client, faults>>
  BY DEF ReportLoading, UpdateProgress
<1>2. TypedData' /\ RowsStay /\ ReadyStays
  BY <1>1, DataStays
<1>3. \/ UNCHANGED task
      \/ \E s \in TaskStage :
             task' = [task EXCEPT ![worker[w].task] = Heartbeat(task[worker[w].task], s)]
  BY <1>1, AtWork DEF ReportLoading, UpdateProgress, TaskStage, TypedWork
<1>4. task' \in [Task -> RowState] /\ TasksStay
  BY <1>1, <1>3, OwnRow
<1>5. CASE ReportLoading(w)
  BY <1>1, <1>2, <1>4, <1>5, GoesOn DEF ReportLoading, HandlerPcs
<1>6. CASE UpdateProgress(w)
  <2>1. \E pc \in {"replace", "read", "purge"} :
           Goto(w, pc) /\ (pc = "purge" => Op(w) = "DELETE")
    BY <1>1, <1>6, AtWork DEF UpdateProgress
  <2> QED BY <1>1, <1>2, <1>4, <2>1, GoesOn DEF HandlerPcs
<1> QED BY <1>5, <1>6

(* The handler looks, raises, or fails to write: nothing but its pc        *)
(* changes, or the projection.                                             *)
LEMMA LookKeeps ==
    ASSUME Good, NEW w \in Worker,
           \/ CheckCancellation(w) \/ CountProjection(w) \/ HandlerRaises(w)
           \/ UpsertFails(w) \/ Upsert(w) \/ Purge(w)
    PROVE  IInv'
<1>1. worker[w].pc # "idle" /\ UNCHANGED <<doc, version, rows, task, job, client, faults>>
  BY DEF CheckCancellation, CountProjection, HandlerRaises, UpsertFails, Upsert, Purge, HandlerPcs
<1>2. TypedData /\ worker[w].version \in Version /\ worker[w].held \in Copy
      /\ (NeedsRows(w) => rows[worker[w].version] # "none")
  BY <1>1, AtWork DEF TypedWork, WorkerState
<1>3. index' \in [Version -> [Chunk -> Copy]]
  <2>1. CASE index' = index
    BY <1>2, <2>1 DEF TypedData
  <2>2. CASE Purge(w)
    BY <1>2, <2>2 DEF Purge, TypedData, Copy
  <2>3. ASSUME NEW S \in SUBSET Chunk, Written(w, S) PROVE index' \in [Version -> [Chunk -> Copy]]
    BY <1>2, <2>3 DEF Written, TypedData
  <2> QED BY <2>1, <2>2, <2>3 DEF CheckCancellation, CountProjection, HandlerRaises, UpsertFails, Upsert
<1>4. TypedData' /\ RowsStay /\ ReadyStays /\ task' \in [Task -> RowState] /\ TasksStay
  BY <1>1, <1>2, <1>3, TaskStays DEF TypedData, RowsStay, ReadyStays
<1>5. \/ \E pc \in {"cancel", "update", "fail", "mark deleted"} : Goto(w, pc)
      \/ NeedsRows(w) /\ \E pc \in {"upsert", "count", "mark indexed"} : Goto(w, pc)
  BY DEF CheckCancellation, CountProjection, HandlerRaises, UpsertFails, Upsert, Purge, NeedsRows
<1>6. ASSUME NEW pc \in {"cancel", "update", "fail", "mark deleted"}, Goto(w, pc) PROVE IInv'
  BY <1>1, <1>4, <1>6, GoesOn DEF HandlerPcs, EndingPcs
<1>7. ASSUME NEW pc \in {"upsert", "count", "mark indexed"}, Goto(w, pc), NeedsRows(w) PROVE IInv'
  BY <1>1, <1>2, <1>4, <1>7, GoesOn DEF HandlerPcs, EndingPcs
<1> QED BY <1>5, <1>6, <1>7

(* New chunk rows are there before the handler reads them.                 *)
LEMMA ReplaceKeeps == ASSUME Good, NEW w \in Worker, ReplaceChunks(w) PROVE IInv'
<1> DEFINE v == worker[w].version
           Aged(copy) == IF copy = "fresh" THEN "stale" ELSE copy
           Next1(u) == [worker[u] EXCEPT !.pc = IF u = w THEN "read" ELSE @,
                                         !.held = IF worker[u].version = v THEN Aged(@) ELSE @]
<1>1. worker[w].pc # "idle" /\ UNCHANGED <<doc, version, task, job, client, faults>>
  BY DEF ReplaceChunks
<1>2. TypedData /\ TypedWork /\ v \in Version /\ HandlerOK(w)
  BY <1>1, AtWork DEF Good
<1>3. /\ rows' = [rows EXCEPT ![v] = "PENDING"]
      /\ index' = [index EXCEPT ![v] = [n \in Chunk |-> Aged(index[v][n])]]
      /\ worker' = [u \in Worker |-> Next1(u)]
  BY <1>2 DEF ReplaceChunks, TypedData
<1>4. \A copy \in Copy : Aged(copy) \in Copy
  BY DEF Copy
<1>5. index' \in [Version -> [Chunk -> Copy]]
  <2>1. [n \in Chunk |-> Aged(index[v][n])] \in [Chunk -> Copy]
    BY <1>2, <1>4 DEF TypedData
  <2> HIDE DEF Aged
  <2> QED BY <1>2, <1>3, <2>1 DEF TypedData
<1>6. ASSUME NEW u \in Worker
      PROVE  /\ Next1(u) \in WorkerState
             /\ Next1(u).pc = IF u = w THEN "read" ELSE worker[u].pc
             /\ Next1(u).task = worker[u].task /\ Next1(u).version = worker[u].version
  <2>1. worker[u] \in WorkerState
    BY <1>2 DEF TypedWork
  <2>2. Aged(worker[u].held) \in Copy
    BY <1>4, <2>1 DEF WorkerState
  <2> HIDE DEF Aged, v
  <2> QED BY <2>1, <2>2 DEF WorkerState, HandlerPcs
<1> HIDE DEF Next1, Aged
<1>7. /\ worker' \in [Worker -> WorkerState] /\ worker'[w].pc = "read"
      /\ worker'[w].task = worker[w].task /\ worker'[w].version = worker[w].version
      /\ \A u \in Worker : u # w => /\ worker'[u].pc = worker[u].pc
                                   /\ worker'[u].task = worker[u].task
                                   /\ worker'[u].version = worker[u].version
  BY <1>3, <1>6
<1>8. HandlerOK(w)'
  BY <1>1, <1>2, <1>7 DEF HandlerOK, NeedsRows
<1> HIDE DEF v
<1>9. rows' \in [Version -> RowStatus] /\ RowsStay
  BY <1>2, <1>3 DEF TypedData, RowStatus, RowsStay
<1>10. TypedData' /\ TypedWork' /\ TasksStay /\ ReadyStays /\ VersionsStay
  BY <1>1, <1>2, <1>5, <1>7, <1>9
     DEF TypedData, TypedWork, TasksStay, ReadyStays, VersionsStay
<1> QED BY <1>7, <1>8, <1>9, <1>10, WorkerKeeps

(* A handler goes on to the projection only with rows it has read.         *)
LEMMA ReadKeeps == ASSUME Good, NEW w \in Worker, ReadChunks(w) PROVE IInv'
<1>1. worker[w].pc # "idle" /\ UNCHANGED <<doc, version, rows, index, task, job, client, faults>>
  BY DEF ReadChunks
<1>2. /\ TypedData' /\ RowsStay /\ ReadyStays /\ VersionsStay
      /\ task' \in [Task -> RowState] /\ TasksStay
  BY <1>1, DataStays, TaskStays DEF VersionsStay
<1>3. CASE Goto(w, "fail")
  BY <1>1, <1>2, <1>3, GoesOn DEF EndingPcs
<1>4. CASE rows[worker[w].version] \notin {"none", "DELETED"}
  <2> DEFINE pc == IF Op(w) = "INGEST" THEN "upsert" ELSE "purge"
             new == [worker[w] EXCEPT !.held = "fresh", !.pc = pc]
  <2>1. TypedWork /\ HandlerOK(w) /\ worker[w] \in WorkerState
    BY <1>1, AtWork DEF Good, TypedWork
  <2>2. pc \in HandlerPcs
    BY DEF HandlerPcs
  <2> HIDE DEF pc
  <2>3. /\ new \in WorkerState
        /\ new.task = worker[w].task /\ new.version = worker[w].version
    BY <2>1, <2>2 DEF WorkerState, Copy
  <2>4. worker' = [worker EXCEPT ![w] = new]
    BY <1>4, <2>1 DEF ReadChunks, TypedWork, pc
  <2> HIDE DEF new
  <2>5. /\ worker' \in [Worker -> WorkerState] /\ worker'[w] = new
        /\ \A u \in Worker : u # w => worker'[u] = worker[u]
    BY <2>1, <2>3, <2>4 DEF TypedWork
  <2>6. HandlerOK(w)'
    BY <1>1, <1>4, <2>1, <2>3, <2>5 DEF HandlerOK
  <2>7. TypedWork'
    BY <1>1, <2>1, <2>5 DEF TypedWork
  <2> QED BY <1>2, <2>5, <2>6, <2>7, WorkerKeeps
<1> QED BY <1>3, <1>4 DEF ReadChunks

(* What the handlers write to MySQL besides their task's row.              *)
LEMMA MarkChunksKeeps ==
    ASSUME Good, NEW w \in Worker, MarkChunksIndexed(w) \/ MarkChunksDeleted(w)
    PROVE  IInv'
<1>1. /\ worker[w].pc \in {"mark indexed", "mark deleted"}
      /\ UNCHANGED <<doc, version, index, task, job, client, faults>>
  BY DEF MarkChunksIndexed, MarkChunksDeleted
<1>2. TypedData /\ worker[w].version \in Version
      /\ (NeedsRows(w) => rows[worker[w].version] # "none")
  BY <1>1, AtWork
<1>3. PICK r \in RowStatus : /\ rows' = [rows EXCEPT ![worker[w].version] = r]
                             /\ rows[worker[w].version] # "none" => r # "none"
  BY <1>2 DEF MarkChunksIndexed, MarkChunksDeleted, RowStatus, TypedData
<1>4. TypedData' /\ RowsStay /\ ReadyStays /\ task' \in [Task -> RowState] /\ TasksStay
  BY <1>1, <1>2, <1>3, TaskStays DEF TypedData, RowsStay, ReadyStays
<1>5. \/ MarkChunksIndexed(w) /\ Goto(w, "mark ready") /\ NeedsRows(w)
      \/ Goto(w, "complete")
  BY DEF MarkChunksIndexed, MarkChunksDeleted, NeedsRows
<1> QED BY <1>1, <1>2, <1>4, <1>5, GoesOn DEF HandlerPcs, EndingPcs

LEMMA MarkDocumentKeeps ==
    ASSUME Good, NEW w \in Worker, MarkDocumentReady(w) \/ MarkDocumentFailed(w)
    PROVE  IInv'
<1>1. /\ worker[w].pc \in {"mark ready", "mark failed"}
      /\ UNCHANGED <<version, rows, index, task, job, client, faults>>
  BY DEF MarkDocumentReady, MarkDocumentFailed
<1>2. TypedData /\ TypedWork /\ worker[w].version \in Version
      /\ (NeedsRows(w) => rows[worker[w].version] # "none")
  BY <1>1, AtWork
<1>3. doc' \in DocState
  BY <1>2 DEF MarkDocumentReady, MarkDocumentFailed, TypedData, DocState, DocStatus
<1>4. ReadyStays
  <2>1. CASE MarkDocumentReady(w) /\ doc.current = worker[w].version
    <3>1. doc'.current = worker[w].version
      BY <1>2, <2>1 DEF MarkDocumentReady, TypedData, DocState
    <3> QED BY <1>2, <2>1, <3>1 DEF MarkDocumentReady, NeedsRows, ReadyStays
  <2>2. CASE MarkDocumentFailed(w) \/ doc.current # worker[w].version
    BY <1>2, <2>2 DEF MarkDocumentReady, MarkDocumentFailed, TypedData, DocState, ReadyStays
  <2> QED BY <2>1, <2>2
<1>5. TypedData' /\ RowsStay /\ task' \in [Task -> RowState] /\ TasksStay
  BY <1>1, <1>2, <1>3, TaskStays DEF TypedData, RowsStay
<1>6. CASE MarkDocumentReady(w)
  BY <1>1, <1>4, <1>5, <1>6, GoesOn DEF MarkDocumentReady, EndingPcs
<1>7. CASE MarkDocumentFailed(w)
  BY <1>1, <1>2, <1>4, <1>5, <1>7, RestsKeeps DEF MarkDocumentFailed, TypedWork
<1> QED BY <1>6, <1>7

(* The ends of _execute, and a worker that dies.                           *)
LEMMA EndKeeps ==
    ASSUME Good, NEW w \in Worker,
           CompleteTask(w) \/ CancelTask(w) \/ FailTask(w) \/ WorkerStops(w)
    PROVE  IInv'
<1>1. worker[w].pc # "idle" /\ UNCHANGED <<doc, version, rows, index, job, client>>
  BY DEF CompleteTask, CancelTask, FailTask, WorkerStops
<1>2. TypedData' /\ RowsStay /\ ReadyStays
  BY <1>1, DataStays
<1>3. \/ UNCHANGED task
      \/ \E s \in TaskStatus :
             task' = [task EXCEPT ![worker[w].task] = Finished(task[worker[w].task], s)]
  BY <1>1, AtWork DEF CompleteTask, CancelTask, FailTask, WorkerStops, TaskStatus, TypedWork
<1>4. task' \in [Task -> RowState] /\ TasksStay
  BY <1>1, <1>3, OwnRow
<1>5. faults' \in 0..MaxFaults
  <2>1. faults \in 0..MaxFaults /\ MaxFaults \in Nat
    BY IndexAssumption DEF Good, TypedWork
  <2>2. faults' = faults \/ (faults < MaxFaults /\ faults' = faults + 1)
    BY DEF CompleteTask, CancelTask, FailTask, WorkerStops, Fault
  <2> QED BY <2>1, <2>2
<1>6. CASE Rests(w)
  BY <1>1, <1>2, <1>4, <1>5, <1>6, RestsKeeps
<1>7. CASE FailTask(w) /\ Goto(w, "mark failed")
  BY <1>1, <1>2, <1>4, <1>7, GoesOn DEF FailTask, EndingPcs
<1> QED BY <1>6, <1>7 DEF CompleteTask, CancelTask, FailTask, WorkerStops

-----------------------------------------------------------------------------

LEMMA StartsGood == Init => IInv
<1> SUFFICES ASSUME Init PROVE Good
  BY Split
<1>1. AbsentRow \in RowState
  BY IndexAssumption DEF AbsentRow, RowState, Rows, TaskStatus, TaskStage, LeaseState
<1>2. TypedWork
  BY <1>1, IdleStates, IndexAssumption DEF Init, TypedWork, JobState
<1>3. TypedData
  BY IndexAssumption DEF Init, TypedData, DocState, DocStatus, RowStatus, Copy, VersionKey
<1>4. \A w \in Worker : HandlerOK(w)
  BY IdleStates DEF Init, HandlerOK
<1>5. ReadyHasVersion /\ ReadyHasRows /\ OneVersionPerParser
  BY IndexAssumption DEF Init, ReadyHasVersion, ReadyHasRows, OneVersionPerParser
<1> QED BY <1>2, <1>3, <1>4, <1>5 DEF Good

LEMMA ApiStepKeeps ==
    ASSUME Good, NEW c \in Client,
           \/ \E parser \in Parser \cup {"forced"} : CreateDocument(c, parser)
           \/ \E v \in Version : Rollback(c, v)
           \/ Reindex(c) \/ ClientStep(c) \/ RequestAborts(c)
    PROVE  IInv'
  BY CreateDocumentKeeps, RollbackKeeps, ReindexKeeps, ReuseVersionKeeps, NewVersionKeeps,
     VersionRefusedKeeps, CreateTaskKeeps, RequestAbortsKeeps DEF ClientStep

LEMMA WorkerStepKeeps ==
    ASSUME Good, NEW w \in Worker,
           WorkerStep(w) \/ UpsertFails(w) \/ HandlerRaises(w) \/ WorkerStops(w)
    PROVE  IInv'
  BY ReportKeeps, LookKeeps, ReplaceKeeps, ReadKeeps, MarkChunksKeeps, MarkDocumentKeeps, EndKeeps
     DEF WorkerStep

LEMMA StutterKeeps == ASSUME Good, UNCHANGED vars PROVE IInv'
<1>1. client' \in [Client -> ClientState] /\ faults' \in 0..MaxFaults
  BY DEF vars, Good, TypedWork
<1> QED BY <1>1, RequestKeeps DEF vars

LEMMA StepKeeps == IInv /\ [Next]_vars => IInv'
<1> SUFFICES ASSUME IInv, [Next]_vars PROVE IInv'
  OBVIOUS
<1>1. Good
  BY Split
<1>2. CASE DeleteWithOutbox
  BY <1>1, <1>2, DeleteKeeps
<1>3. CASE \E c \in Client : \/ \E parser \in Parser \cup {"forced"} : CreateDocument(c, parser)
                             \/ \E v \in Version : Rollback(c, v)
                             \/ Reindex(c) \/ ClientStep(c) \/ RequestAborts(c)
  BY <1>1, <1>3, ApiStepKeeps
<1>4. CASE \E t \in Task : RequestCancel(t) \/ Retry(t) \/ LeaseExpires(t) \/ RecoverStale(t)
  BY <1>1, <1>4, RowStepKeeps
<1>5. CASE \E w \in Worker, t \in Task : ClaimStep(w, t)
  BY <1>1, <1>5, ClaimKeeps, RowStepKeeps DEF ClaimStep
<1>6. CASE \E w \in Worker : WorkerStep(w) \/ UpsertFails(w) \/ HandlerRaises(w) \/ WorkerStops(w)
  BY <1>1, <1>6, WorkerStepKeeps
<1>7. CASE UNCHANGED vars
  BY <1>1, <1>7, StutterKeeps
<1> QED BY <1>2, <1>3, <1>4, <1>5, <1>6, <1>7 DEF Next

(* Whatever requests, workers and crashes do to a document, its rows have  *)
(* their types and its handlers have the chunk rows they count on.         *)
THEOREM DocumentInvariance == Spec => []IInv
<1>1. Init => IInv
  BY StartsGood
<1>2. IInv /\ [Next]_vars => IInv'
  BY StepKeeps
<1> QED BY <1>1, <1>2, PTL DEF Spec

(* A READY document has chunk rows for its current version, however many   *)
(* workers race on it or die (mark_document_ready, _mark_current_version). *)
THEOREM ReadyDocumentsHaveRows == Spec => []ReadyHasRows
<1>1. IInv => ReadyHasRows
  BY DEF IInv
<1> QED BY <1>1, DocumentInvariance, PTL

(* The same content is one version for each parser, whoever uploads it and *)
(* whenever, unless a new one is forced                                    *)
(* (create_document_version_idempotent).                                   *)
THEOREM SameUploadIsOneVersion == Spec => []OneVersionPerParser
<1>1. IInv => OneVersionPerParser
  BY DEF IInv
<1> QED BY <1>1, DocumentInvariance, PTL

-----------------------------------------------------------------------------
(* With one worker process nobody replaces or purges what its handler has  *)
(* read, written or counted.                                               *)

OneWorker == \A u, v \in Worker : u = v

IndexedAt(w) ==
    LET v == worker[w].version
    IN /\ worker[w].pc = "upsert" => worker[w].held = "fresh"
       /\ worker[w].pc = "purge" /\ Op(w) # "DELETE" => worker[w].held = "fresh"
       /\ worker[w].pc \in {"count", "mark indexed", "mark ready"} =>
             \A n \in Chunk : index[v][n] = "fresh"
       /\ worker[w].pc = "mark ready" => rows[v] = "INDEXED"

HandlersIndex == \A w \in Worker : IndexedAt(w)

LEMMA OthersLeaveTheIndex ==
    ASSUME Good, HandlersIndex, UNCHANGED <<rows, index, worker>>,
           job' = job \/ (\E op \in {"INGEST", "REBUILD", "DELETE"}, v \in 0..MaxVersion : AppendTask(op, v))
    PROVE  HandlersIndex'
<1> SUFFICES ASSUME NEW w \in Worker, worker[w].pc = "purge" PROVE Op(w)' = Op(w)
  BY DEF HandlersIndex, IndexedAt
<1>1. worker[w].task \in Task /\ task[worker[w].task].status # "ABSENT"
  BY AtWork
<1>2. job' = job \/ TasksStay
  BY RowAppended DEF Good
<1> QED BY <1>1, <1>2 DEF TasksStay, Op

(* Where a handler needs nothing of the index.                             *)
Elsewhere == {"idle", "load", "check", "update", "replace", "read", "mark deleted",
              "complete", "cancel", "fail", "mark failed"}

LEMMA WorkerIsElsewhere ==
    ASSUME OneWorker, NEW w \in Worker,
           worker'[w].pc \in Elsewhere \/ (worker'[w].pc = "purge" /\ Op(w)' = "DELETE")
    PROVE  HandlersIndex'
  BY DEF OneWorker, HandlersIndex, IndexedAt, Elsewhere

LEMMA WorkerIndexes ==
    ASSUME Good, OneWorker, HandlersIndex, NEW w \in Worker,
           \/ ReadChunks(w) \/ Upsert(w) \/ CountProjection(w) \/ Purge(w)
           \/ MarkChunksIndexed(w)
    PROVE  HandlersIndex'
<1> SUFFICES IndexedAt(w)'
  BY DEF OneWorker, HandlersIndex
<1>1. /\ worker[w].pc # "idle" /\ IndexedAt(w) /\ TypedData /\ worker[w] \in WorkerState
      /\ worker \in [Worker -> WorkerState] /\ worker[w].version \in Version
  BY AtWork DEF HandlersIndex, ReadChunks, Upsert, CountProjection, Purge, MarkChunksIndexed, TypedWork
<1>2. CASE ReadChunks(w)
  <2>1. worker'[w].pc = "fail" \/ (worker'[w].pc \in {"upsert", "purge"} /\ worker'[w].held = "fresh")
    BY <1>1, <1>2 DEF ReadChunks, Goto, WorkerState
  <2> QED BY <2>1 DEF IndexedAt
<1>3. CASE Upsert(w)
  <2>1. \A n \in Chunk : index'[worker[w].version][n] = "fresh"
    BY <1>1, <1>3 DEF Upsert, Written, IndexedAt, TypedData
  <2>2. worker'[w].pc = "count" /\ worker'[w].version = worker[w].version
    BY <1>1, <1>3 DEF Upsert, Goto, WorkerState
  <2> QED BY <2>1, <2>2 DEF IndexedAt
<1>4. CASE CountProjection(w)
  <2>1. worker'[w].pc \in {"mark indexed", "fail"} /\ worker'[w].version = worker[w].version
    BY <1>1, <1>4 DEF CountProjection, Goto, WorkerState
  <2> QED BY <1>1, <1>4, <2>1 DEF CountProjection, IndexedAt
<1>5. CASE MarkChunksIndexed(w)
  <2>1. worker'[w].pc = "mark ready" /\ worker'[w].version = worker[w].version
    BY <1>1, <1>5 DEF MarkChunksIndexed, Goto, WorkerState
  <2>2. rows'[worker[w].version] = "INDEXED"
    BY <1>1, <1>5 DEF MarkChunksIndexed, TypedData
  <2> QED BY <1>1, <1>5, <2>1, <2>2 DEF MarkChunksIndexed, IndexedAt
<1>6. CASE Purge(w)
  <2>1. worker'[w].pc = "mark deleted" \/ (Op(w) # "DELETE" /\ Goto(w, "upsert"))
    BY <1>1, <1>6 DEF Purge, Goto, WorkerState
  <2>2. Goto(w, "upsert") => worker'[w].pc = "upsert" /\ worker'[w].held = worker[w].held
    BY <1>1 DEF Goto, WorkerState
  <2> QED BY <1>1, <1>6, <2>1, <2>2 DEF Purge, IndexedAt
<1> QED BY <1>2, <1>3, <1>4, <1>5, <1>6

(* All other steps of the worker take it to places where it needs nothing. *)
LEMMA WorkerMoves ==
    ASSUME Good, NEW w \in Worker,
           \/ ReportLoading(w) \/ CheckCancellation(w) \/ UpdateProgress(w) \/ ReplaceChunks(w)
           \/ UpsertFails(w) \/ HandlerRaises(w) \/ WorkerStops(w)
           \/ MarkDocumentReady(w) \/ MarkChunksDeleted(w) \/ MarkDocumentFailed(w)
           \/ CompleteTask(w) \/ CancelTask(w) \/ FailTask(w)
           \/ \E t \in Task : Claim(w, t)
    PROVE  worker'[w].pc \in Elsewhere \/ (worker'[w].pc = "purge" /\ Op(w)' = "DELETE")
<1>1. TypedWork /\ worker \in [Worker -> WorkerState] /\ worker[w] \in WorkerState
  BY DEF Good, TypedWork
<1>2. \A pc : Goto(w, pc) => worker'[w].pc = pc /\ worker'[w].task = worker[w].task
  BY <1>1 DEF Goto, WorkerState
<1>3. Rests(w) => worker'[w].pc = "idle"
  BY <1>1, IdleStates DEF Rests
<1>4. CASE UpdateProgress(w)
  <2>1. worker[w].pc # "idle" /\ job' = job
    BY <1>4 DEF UpdateProgress
  <2>2. \/ Goto(w, "replace") \/ Goto(w, "read") \/ (Goto(w, "purge") /\ Op(w) = "DELETE")
    BY <1>4, <2>1, AtWork DEF UpdateProgress
  <2> QED BY <1>2, <2>1, <2>2 DEF Elsewhere, Op
<1>5. CASE ReplaceChunks(w)
  <2>1. worker'[w].pc = "read"
    BY <1>1, <1>5 DEF ReplaceChunks, WorkerState
  <2> QED BY <2>1 DEF Elsewhere
<1>6. ASSUME NEW t \in Task, Claim(w, t) PROVE worker'[w].pc \in Elsewhere
  <2>1. job[t] \in JobState
    BY <1>1 DEF TypedWork
  <2>2. worker'[w].pc = FirstPc[job[t].op]
    BY <1>1, <1>6 DEF Claim
  <2>3. FirstPc[job[t].op] \in {"load", "check", "update"}
    BY <2>1 DEF JobState, FirstPc
  <2> QED BY <2>2, <2>3 DEF Elsewhere
<1>7. CASE \/ ReportLoading(w) \/ CheckCancellation(w) \/ UpsertFails(w) \/ HandlerRaises(w)
           \/ MarkDocumentReady(w) \/ MarkChunksDeleted(w)
  <2>1. \E pc \in Elsewhere : Goto(w, pc)
    BY <1>7 DEF ReportLoading, CheckCancellation, UpsertFails, HandlerRaises, MarkDocumentReady,
       MarkChunksDeleted, Elsewhere
  <2> QED BY <1>2, <2>1
<1>8. CASE \/ WorkerStops(w) \/ MarkDocumentFailed(w) \/ CompleteTask(w) \/ CancelTask(w) \/ FailTask(w)
  <2>1. Rests(w) \/ Goto(w, "mark failed")
    BY <1>8 DEF WorkerStops, MarkDocumentFailed, CompleteTask, CancelTask, FailTask
  <2> QED BY <1>2, <1>3, <2>1 DEF Elsewhere
<1> QED BY <1>4, <1>5, <1>6, <1>7, <1>8

LEMMA ApiIndexes ==
    ASSUME Good, HandlersIndex, NEW c \in Client,
           \/ \E parser \in Parser \cup {"forced"} : CreateDocument(c, parser)
           \/ \E v \in Version : Rollback(c, v)
           \/ Reindex(c) \/ ClientStep(c) \/ RequestAborts(c)
    PROVE  HandlersIndex'
<1>1. UNCHANGED <<rows, index, worker>>
  BY DEF CreateDocument, Rollback, Reindex, ClientStep, ReuseVersion, NewVersion, UseVersion,
     VersionRefused, CreateIngest, CreateRebuild, RequestAborts
<1>2. client[c].version \in 0..MaxVersion /\ 0 \in 0..MaxVersion
  BY IndexAssumption DEF Good, TypedWork, ClientState
<1>3. \/ job' = job
      \/ \E op \in {"INGEST", "REBUILD", "DELETE"}, v \in 0..MaxVersion : AppendTask(op, v)
  BY <1>2 DEF CreateDocument, Rollback, Reindex, ClientStep, ReuseVersion, NewVersion, UseVersion,
     VersionRefused, CreateIngest, CreateRebuild, RequestAborts
<1> QED BY <1>1, <1>3, OthersLeaveTheIndex

LEMMA RowIndexes ==
    ASSUME Good, HandlersIndex,
           \/ DeleteWithOutbox \/ UNCHANGED vars
           \/ \E t \in Task : \/ RequestCancel(t) \/ Retry(t) \/ LeaseExpires(t) \/ RecoverStale(t)
                             \/ \E w \in Worker : ClaimUnresolved(w, t)
    PROVE  HandlersIndex'
<1>1. UNCHANGED <<rows, index, worker>>
  BY DEF DeleteWithOutbox, RequestCancel, Retry, LeaseExpires, RecoverStale, ClaimUnresolved, vars
<1>2. 0 \in 0..MaxVersion
  BY IndexAssumption
<1>3. \/ job' = job
      \/ \E op \in {"INGEST", "REBUILD", "DELETE"}, v \in 0..MaxVersion : AppendTask(op, v)
  BY <1>2 DEF DeleteWithOutbox, RequestCancel, Retry, LeaseExpires, RecoverStale, ClaimUnresolved, vars
<1> QED BY <1>1, <1>3, OthersLeaveTheIndex

LEMMA NextIndexes ==
    ASSUME Good, OneWorker, HandlersIndex, [Next]_vars
    PROVE  HandlersIndex'
<1>1. ASSUME NEW w \in Worker,
             \/ WorkerStep(w) \/ UpsertFails(w) \/ HandlerRaises(w) \/ WorkerStops(w)
             \/ \E t \in Task : Claim(w, t)
      PROVE  HandlersIndex'
  BY <1>1, WorkerIndexes, WorkerMoves, WorkerIsElsewhere DEF WorkerStep
<1>2. CASE DeleteWithOutbox
  BY <1>2, RowIndexes
<1>3. CASE \E c \in Client : \/ \E parser \in Parser \cup {"forced"} : CreateDocument(c, parser)
                             \/ \E v \in Version : Rollback(c, v)
                             \/ Reindex(c) \/ ClientStep(c) \/ RequestAborts(c)
  BY <1>3, ApiIndexes
<1>4. CASE \E t \in Task : RequestCancel(t) \/ Retry(t) \/ LeaseExpires(t) \/ RecoverStale(t)
  BY <1>4, RowIndexes
<1>5. CASE UNCHANGED vars
  BY <1>5, RowIndexes
<1>6. ASSUME NEW w \in Worker, NEW t \in Task, ClaimStep(w, t) PROVE HandlersIndex'
  <2>1. CASE Claim(w, t)
    BY <1>1, <2>1
  <2>2. CASE ClaimUnresolved(w, t)
    BY <2>2, RowIndexes
  <2> QED BY <1>6, <2>1, <2>2 DEF ClaimStep
<1>7. CASE \E w \in Worker, t \in Task : ClaimStep(w, t)
  BY <1>6, <1>7
<1>8. CASE \E w \in Worker : WorkerStep(w) \/ UpsertFails(w) \/ HandlerRaises(w) \/ WorkerStops(w)
  BY <1>1, <1>8
<1> QED BY <1>2, <1>3, <1>4, <1>5, <1>7, <1>8 DEF Next

(* Only MarkDocumentReady makes a document READY.                          *)
LEMMA OnlyHandlersMakeReady ==
    ASSUME Good, [Next]_vars, doc'.status = "READY", doc.status # "READY"
    PROVE  \E w \in Worker : worker[w].pc = "mark ready" /\ doc'.current = worker[w].version
<1>1. doc \in DocState
  BY DEF Good, TypedData
<1>2. PICK w \in Worker : MarkDocumentReady(w)
  BY <1>1 DEF Next, ClientStep, WorkerStep, ClaimStep, DeleteWithOutbox, CreateDocument, Rollback, Reindex,
     ReuseVersion, NewVersion, UseVersion, MarkCurrent, VersionRefused, CreateIngest, CreateRebuild,
     RequestAborts, RequestCancel, Retry, LeaseExpires, RecoverStale, Claim, ClaimUnresolved, ReportLoading,
     CheckCancellation, UpdateProgress, ReplaceChunks, ReadChunks, Purge, Upsert, UpsertFails,
     CountProjection, MarkChunksIndexed, MarkChunksDeleted, HandlerRaises, CompleteTask, CancelTask,
     FailTask, MarkDocumentFailed, WorkerStops, vars, DocState
<1> QED BY <1>1, <1>2 DEF MarkDocumentReady, DocState

(* With one worker process a document turns READY only when every chunk of *)
(* its current version is in the index and cites the rows there are, also  *)
(* when that worker dies and attempts are repeated (_index_and_finalize).  *)
THEOREM OneWorkerVerifies == ASSUME OneWorker PROVE Spec => ReadyIsVerified
<1> DEFINE Inv == IInv /\ HandlersIndex
<1>1. Init => Inv
  <2>1. Init => \A w \in Worker : worker[w].pc = "idle"
    BY IdleStates DEF Init
  <2>2. Init => HandlersIndex
    BY <2>1 DEF HandlersIndex, IndexedAt
  <2> QED BY <2>2, StartsGood
<1>2. Inv /\ [Next]_vars => Inv'
  BY StepKeeps, NextIndexes, Split
<1>3. Inv /\ [Next]_vars => [TurnsReadyVerified]_vars
  <2> SUFFICES ASSUME Inv, [Next]_vars, doc'.status = "READY", doc.status # "READY"
               PROVE  FullyIndexed(doc'.current)
    BY DEF TurnsReadyVerified
  <2>1. PICK w \in Worker : worker[w].pc = "mark ready" /\ doc'.current = worker[w].version
    BY Split, OnlyHandlersMakeReady
  <2> QED BY <2>1 DEF HandlersIndex, IndexedAt, FullyIndexed
<1> HIDE DEF Inv
<1> QED BY <1>1, <1>2, <1>3, PTL DEF Spec, ReadyIsVerified

-----------------------------------------------------------------------------
(* At rest.  A handler that may have taken something out of the index ends *)
(* by marking the document READY or FAILED, so a READY document is indexed *)
(* or about to be marked.  Three things would break this, and the theorem  *)
(* excludes them: a second worker, a worker that is killed on the way, and *)
(* a DELETE that is late for a document that was uploaded again.           *)

NoWorkerStops == \A w \in Worker : ~WorkerStops(w)
NothingIsRevived == "revive" \notin Calls

(* Where a handler can no longer be cancelled and has not marked yet.      *)
Mending == {"replace", "read", "purge", "upsert", "count", "mark indexed", "mark ready",
            "fail", "mark failed"}
IsMended(v) == \E w \in Worker : worker[w].version = v /\ worker[w].pc \in Mending

ReadyIsMended ==
    doc.status = "READY" /\ ~doc.deleted => FullyIndexed(doc.current) \/ IsMended(doc.current)

DeletesHide ==
    /\ \A t \in Task : job[t].op = "DELETE" => doc.deleted
    /\ \A w \in Worker : worker[w].pc = "mark deleted" => doc.deleted

DocStays == doc' = doc \/ doc'.status # "READY" \/ doc'.deleted

LEMMA DeletedStays ==
    ASSUME Good, NothingIsRevived, [Next]_vars, doc.deleted
    PROVE  doc'.deleted
<1>1. doc \in DocState
  BY DEF Good, TypedData
<1> QED
  BY <1>1 DEF NothingIsRevived, Next, ClientStep, WorkerStep, ClaimStep, DeleteWithOutbox, CreateDocument,
     Rollback, Reindex, ReuseVersion, NewVersion, UseVersion, MarkCurrent, VersionRefused, CreateIngest,
     CreateRebuild, RequestAborts, RequestCancel, Retry, LeaseExpires, RecoverStale, Claim,
     ClaimUnresolved, ReportLoading, CheckCancellation, UpdateProgress, ReplaceChunks, ReadChunks, Purge,
     Upsert, UpsertFails, CountProjection, MarkChunksIndexed, MarkDocumentReady, MarkChunksDeleted,
     HandlerRaises, CompleteTask, CancelTask, FailTask, MarkDocumentFailed, WorkerStops, vars, DocState

LEMMA JobsStay ==
    ASSUME [Next]_vars
    PROVE  \/ job' = job \/ doc'.deleted \/ DeleteWithOutbox
           \/ \E c \in Client : \/ AppendTask("INGEST", client[c].version)
                                \/ AppendTask("REBUILD", 0)
  BY DEF Next, ClientStep, WorkerStep, ClaimStep, CreateDocument,
     Rollback, Reindex, ReuseVersion, NewVersion, UseVersion, VersionRefused, CreateIngest,
     CreateRebuild, RequestAborts, RequestCancel, Retry, LeaseExpires, RecoverStale, Claim,
     ClaimUnresolved, ReportLoading, CheckCancellation, UpdateProgress, ReplaceChunks, ReadChunks, Purge,
     Upsert, UpsertFails, CountProjection, MarkChunksIndexed, MarkDocumentReady, MarkChunksDeleted,
     HandlerRaises, CompleteTask, CancelTask, FailTask, MarkDocumentFailed, WorkerStops, vars

LEMMA HandlersStart == \A op \in {"INGEST", "REBUILD", "DELETE"} : FirstPc[op] \in {"load", "check", "update"}
  BY DEF FirstPc

(* Only a DELETE comes to mark chunks deleted.                             *)
LEMMA OnlyDeletesMark ==
    ASSUME Good, [Next]_vars, NEW w \in Worker, worker'[w].pc = "mark deleted"
    PROVE  worker[w].pc = "mark deleted" \/ (worker[w].pc # "idle" /\ Op(w) = "DELETE")
<1>1. worker \in [Worker -> WorkerState]
  BY DEF Good, TypedWork
<1> SUFFICES ASSUME worker'[w].pc # worker[w].pc PROVE worker[w].pc # "idle" /\ Op(w) = "DELETE"
  OBVIOUS
<1> DEFINE Others == {"check", "cancel", "update", "replace", "read", "purge", "upsert", "count", "fail",
                      "mark indexed", "mark ready", "complete", "mark failed"}
<1>2. ASSUME NEW u \in Worker
      PROVE  /\ \A pc \in Others : ~Goto(u, pc)
             /\ Goto(u, "mark deleted") => u = w
  BY <1>1 DEF Goto, WorkerState
<1>3. ASSUME NEW u \in Worker PROVE ~Rests(u)
  BY <1>1, IdleStates DEF Rests
<1>4. ASSUME NEW u \in Worker, NEW t \in Task, Claim(u, t) PROVE FALSE
  <2>1. job[t] \in JobState
    BY DEF Good, TypedWork
  <2>2. FirstPc[job[t].op] \in {"load", "check", "update"}
    BY <2>1, HandlersStart DEF JobState
  <2>3. worker' = [worker EXCEPT ![u] = [pc |-> FirstPc[job[t].op], task |-> t,
                                         version |-> Resolved(t), held |-> "absent"]]
    BY <1>4 DEF Claim
  <2>4. worker'[w].pc = worker[w].pc \/ worker'[w].pc = FirstPc[job[t].op]
    BY <1>1, <2>3
  <2> QED BY <2>2, <2>4
<1>5. ASSUME NEW u \in Worker, ReplaceChunks(u) \/ ReadChunks(u) PROVE FALSE
  <2>1. CASE ReplaceChunks(u)
    BY <1>1, <2>1 DEF ReplaceChunks, WorkerState
  <2>2. CASE ReadChunks(u)
    <3>1. ~Goto(u, "fail")
      BY <1>2
    <3>2. PICK pc \in {"upsert", "purge"} :
               worker' = [worker EXCEPT ![u].held = "fresh", ![u].pc = pc]
      BY <2>2, <3>1 DEF ReadChunks
    <3> QED BY <1>1, <3>2 DEF WorkerState
  <2> QED BY <1>5, <2>1, <2>2
<1>6. ASSUME NEW u \in Worker, UpdateProgress(u) PROVE FALSE
  <2>1. Op(u) \in {"INGEST", "REBUILD", "DELETE"}
    BY <1>6, AtWork DEF UpdateProgress
  <2>2. Goto(u, "replace") \/ Goto(u, "read") \/ Goto(u, "purge")
    BY <1>6, <2>1 DEF UpdateProgress
  <2> QED BY <1>2, <2>2
<1>7. ASSUME NEW u \in Worker,
             \/ ReportLoading(u) \/ CheckCancellation(u) \/ Upsert(u) \/ UpsertFails(u) \/ CountProjection(u)
             \/ MarkChunksIndexed(u) \/ MarkDocumentReady(u) \/ MarkChunksDeleted(u) \/ HandlerRaises(u)
      PROVE  FALSE
  <2>1. \E pc \in Others : Goto(u, pc)
    BY <1>7 DEF ReportLoading, CheckCancellation, Upsert, UpsertFails, CountProjection,
       MarkChunksIndexed, MarkDocumentReady, MarkChunksDeleted, HandlerRaises
  <2> QED BY <1>2, <2>1
<1>8. ASSUME NEW u \in Worker,
             \/ CompleteTask(u) \/ CancelTask(u) \/ FailTask(u) \/ MarkDocumentFailed(u) \/ WorkerStops(u)
      PROVE  FALSE
  <2>1. Rests(u) \/ Goto(u, "mark failed")
    BY <1>8 DEF CompleteTask, CancelTask, FailTask, MarkDocumentFailed, WorkerStops
  <2> QED BY <1>2, <1>3, <2>1
<1>9. worker' # worker
  OBVIOUS
<1>10. ~DeleteWithOutbox /\ ~UNCHANGED vars
  BY <1>9 DEF DeleteWithOutbox, vars
<1>11. ASSUME NEW c \in Client,
              \/ \E parser \in Parser \cup {"forced"} : CreateDocument(c, parser)
              \/ \E v \in Version : Rollback(c, v)
              \/ Reindex(c) \/ ClientStep(c) \/ RequestAborts(c)
       PROVE  FALSE
  BY <1>9, <1>11 DEF CreateDocument, Rollback, Reindex, ClientStep, ReuseVersion, NewVersion, UseVersion,
     VersionRefused, CreateIngest, CreateRebuild, RequestAborts
<1>12. ASSUME NEW t \in Task,
              \/ RequestCancel(t) \/ Retry(t) \/ LeaseExpires(t) \/ RecoverStale(t)
              \/ \E u \in Worker : ClaimUnresolved(u, t)
       PROVE  FALSE
  BY <1>9, <1>12 DEF RequestCancel, Retry, LeaseExpires, RecoverStale, ClaimUnresolved
<1>13. PICK u \in Worker : Purge(u)
  BY <1>4, <1>5, <1>6, <1>7, <1>8, <1>10, <1>11, <1>12 DEF Next, WorkerStep, ClaimStep
<1>14. u = w /\ Op(u) = "DELETE"
  BY <1>2, <1>13 DEF Purge
<1> QED BY <1>13, <1>14 DEF Purge

LEMMA DeletesStayHidden ==
    ASSUME Good, NothingIsRevived, [Next]_vars, DeletesHide
    PROVE  DeletesHide'
<1>1. doc \in DocState /\ job \in [Task -> JobState]
  BY DEF Good, TypedData, TypedWork
<1>2. ASSUME NEW w \in Worker, worker'[w].pc = "mark deleted" PROVE doc'.deleted
  BY <1>2, OnlyDeletesMark, AtWork, DeletedStays DEF DeletesHide, Op
<1> SUFFICES ASSUME ~doc'.deleted, NEW u \in Task, job'[u].op = "DELETE" PROVE FALSE
  BY <1>2 DEF DeletesHide
<1>3. job[u].op # "DELETE"
  BY DeletedStays DEF DeletesHide
<1>4. ~DeleteWithOutbox
  BY <1>1 DEF DeleteWithOutbox, DocState
<1>5. ASSUME NEW op \in {"INGEST", "REBUILD"}, NEW v, AppendTask(op, v) PROVE FALSE
  <2>1. PICK t \in Task : job' = [job EXCEPT ![t] = [op |-> op, target |-> v]]
    BY <1>5 DEF AppendTask
  <2> QED BY <1>1, <1>3, <2>1
<1> QED BY <1>3, <1>4, <1>5, JobsStay

(* A step that leaves the index and the workers as they are.               *)
LEMMA OthersMend ==
    ASSUME ReadyIsMended, DocStays, UNCHANGED <<rows, index, worker>>
    PROVE  ReadyIsMended'
  BY DEF ReadyIsMended, DocStays, FullyIndexed, IsMended

(* The worker goes on to a place from which it will mark the document.     *)
LEMMA MendingGoesOn ==
    ASSUME Good, OneWorker, ReadyIsMended, NEW w \in Worker, doc' = doc,
           worker'[w].pc \in Mending, worker'[w].version = worker[w].version,
           \A v \in Version : v # worker[w].version => rows'[v] = rows[v] /\ index'[v] = index[v]
    PROVE  ReadyIsMended'
<1> SUFFICES ASSUME doc.status = "READY", ~doc.deleted, worker[w].version # doc.current
             PROVE  FullyIndexed(doc.current)'
  BY DEF ReadyIsMended, IsMended
<1>1. doc.current \in Version
  BY IndexAssumption DEF Good, ReadyHasVersion, TypedData, DocState, Version
<1>2. FullyIndexed(doc.current)
  BY DEF ReadyIsMended, IsMended, OneWorker
<1> QED BY <1>1, <1>2 DEF FullyIndexed

(* A worker that works on nothing, or on another version, moves.           *)
LEMMA NothingToMend ==
    ASSUME OneWorker, ReadyIsMended, NEW w \in Worker, DocStays,
           worker[w].pc \notin Mending \/ worker[w].version # doc.current,
           UNCHANGED <<rows, index>>
    PROVE  ReadyIsMended'
<1> SUFFICES ASSUME doc.status = "READY", ~doc.deleted, doc' = doc
             PROVE  FullyIndexed(doc.current)'
  BY DEF ReadyIsMended, DocStays
<1>1. FullyIndexed(doc.current)
  BY DEF ReadyIsMended, IsMended, OneWorker
<1> QED BY <1>1 DEF FullyIndexed

(* A DELETE is for a document that is hidden.                              *)
LEMMA DeletesMendNothing ==
    ASSUME Good, DeletesHide, NEW w \in Worker, worker[w].pc # "idle", Op(w) = "DELETE", doc' = doc
    PROVE  ReadyIsMended'
  BY AtWork DEF DeletesHide, ReadyIsMended, Op

LEMMA WorkerMends ==
    ASSUME Good, OneWorker, ReadyIsMended, DeletesHide, NEW w \in Worker,
           \/ UpdateProgress(w) \/ ReplaceChunks(w) \/ ReadChunks(w) \/ Purge(w) \/ Upsert(w)
           \/ UpsertFails(w) \/ CountProjection(w) \/ MarkChunksIndexed(w) \/ HandlerRaises(w)
           \/ FailTask(w)
    PROVE  ReadyIsMended'
<1>1. worker[w].pc # "idle" /\ doc' = doc
  BY DEF UpdateProgress, ReplaceChunks, ReadChunks, Purge, Upsert, UpsertFails, CountProjection,
     MarkChunksIndexed, HandlerRaises, FailTask, HandlerPcs
<1>2. TypedData /\ TypedWork /\ worker[w].version \in Version /\ Op(w) \in {"INGEST", "REBUILD", "DELETE"}
  BY <1>1, AtWork
<1>3. CASE Op(w) = "DELETE"
  BY <1>1, <1>3, DeletesMendNothing
<1>4. CASE Op(w) # "DELETE"
  <2>1. worker \in [Worker -> WorkerState] /\ worker[w] \in WorkerState
    BY <1>2 DEF TypedWork
  <2>2. \A pc \in Mending :
           Goto(w, pc) => worker'[w].pc \in Mending /\ worker'[w].version = worker[w].version
    BY <2>1 DEF Goto, WorkerState
  <2>3. \A v \in Version : v # worker[w].version => rows'[v] = rows[v] /\ index'[v] = index[v]
    BY <1>2 DEF TypedData, UpdateProgress, ReplaceChunks, ReadChunks, Purge, Upsert, UpsertFails, Written,
       CountProjection, MarkChunksIndexed, HandlerRaises, FailTask
  <2>4. CASE ReplaceChunks(w)
    <3>1. worker'[w].pc = "read" /\ worker'[w].version = worker[w].version
      BY <2>1, <2>4 DEF ReplaceChunks, WorkerState
    <3> QED BY <1>1, <2>3, <3>1, MendingGoesOn DEF Mending
  <2>5. CASE ReadChunks(w)
    <3>1. \/ Goto(w, "fail")
          \/ \E pc \in {"upsert", "purge"} :
                worker' = [worker EXCEPT ![w].held = "fresh", ![w].pc = pc]
      BY <2>5 DEF ReadChunks
    <3>2. worker'[w].pc \in Mending /\ worker'[w].version = worker[w].version
      <4>1. CASE Goto(w, "fail")
        BY <2>2, <4>1 DEF Mending
      <4>2. ASSUME NEW pc \in {"upsert", "purge"},
                   worker' = [worker EXCEPT ![w].held = "fresh", ![w].pc = pc]
            PROVE  worker'[w].pc \in Mending /\ worker'[w].version = worker[w].version
        <5>1. worker'[w].pc = pc /\ worker'[w].version = worker[w].version
          BY <2>1, <4>2 DEF WorkerState
        <5> QED BY <5>1 DEF Mending
      <4> QED BY <3>1, <4>1, <4>2
    <3> QED BY <1>1, <2>3, <3>2, MendingGoesOn
  <2>6. CASE \/ UpdateProgress(w) \/ Purge(w) \/ Upsert(w) \/ UpsertFails(w) \/ CountProjection(w)
             \/ MarkChunksIndexed(w) \/ HandlerRaises(w) \/ FailTask(w)
    <3>1. \E pc \in Mending : Goto(w, pc)
      BY <1>2, <1>4, <2>6 DEF UpdateProgress, Purge, Upsert, UpsertFails, CountProjection,
         MarkChunksIndexed, HandlerRaises, FailTask, Mending
    <3>2. worker'[w].pc \in Mending /\ worker'[w].version = worker[w].version
      BY <2>2, <3>1
    <3> QED BY <1>1, <2>3, <3>2, MendingGoesOn
  <2> QED BY <2>4, <2>5, <2>6
<1> QED BY <1>3, <1>4

(* The document is marked: READY with an index that is complete, or FAILED. *)
LEMMA MarksMend ==
    ASSUME Good, OneWorker, HandlersIndex, ReadyIsMended, NEW w \in Worker,
           MarkDocumentReady(w) \/ MarkDocumentFailed(w)
    PROVE  ReadyIsMended'
<1>1. doc \in DocState
  BY DEF Good, TypedData
<1>2. CASE doc.current # worker[w].version
  BY <1>2, NothingToMend DEF MarkDocumentReady, MarkDocumentFailed, DocStays
<1>3. CASE doc.current = worker[w].version /\ MarkDocumentReady(w)
  <2>1. FullyIndexed(doc.current)
    BY <1>3 DEF MarkDocumentReady, HandlersIndex, IndexedAt, FullyIndexed
  <2> QED BY <1>1, <1>3, <2>1 DEF MarkDocumentReady, ReadyIsMended, FullyIndexed, DocState
<1>4. CASE doc.current = worker[w].version /\ MarkDocumentFailed(w)
  BY <1>1, <1>4 DEF MarkDocumentFailed, ReadyIsMended, DocState
<1> QED BY <1>2, <1>3, <1>4

LEMMA NextMends ==
    ASSUME Good, OneWorker, NoWorkerStops, HandlersIndex, DeletesHide, ReadyIsMended, [Next]_vars
    PROVE  ReadyIsMended'
<1>1. doc \in DocState
  BY DEF Good, TypedData
<1>2. ASSUME NEW w \in Worker,
             \/ ReportLoading(w) \/ CheckCancellation(w) \/ CompleteTask(w) \/ CancelTask(w)
             \/ \E t \in Task : Claim(w, t)
      PROVE  ReadyIsMended'
  <2>1. UNCHANGED <<rows, index>> /\ worker[w].pc \notin Mending /\ doc' = doc
    BY <1>2 DEF ReportLoading, CheckCancellation, CompleteTask, CancelTask, Claim, Mending
  <2> QED BY <2>1, NothingToMend DEF DocStays
<1>3. ASSUME NEW w \in Worker, MarkChunksDeleted(w) PROVE ReadyIsMended'
  BY <1>3 DEF MarkChunksDeleted, DeletesHide, ReadyIsMended
<1>4. ASSUME NEW w \in Worker, WorkerStep(w) \/ UpsertFails(w) \/ HandlerRaises(w) \/ WorkerStops(w)
      PROVE  ReadyIsMended'
  BY <1>2, <1>3, <1>4, WorkerMends, MarksMend DEF WorkerStep, NoWorkerStops
<1>5. CASE \E c \in Client : \/ \E parser \in Parser \cup {"forced"} : CreateDocument(c, parser)
                             \/ \E v \in Version : Rollback(c, v)
                             \/ Reindex(c) \/ ClientStep(c) \/ RequestAborts(c)
  <2>1. DocStays /\ UNCHANGED <<rows, index, worker>>
    BY <1>1, <1>5 DEF CreateDocument, Rollback, Reindex, ClientStep, ReuseVersion, NewVersion, UseVersion,
       MarkCurrent, VersionRefused, CreateIngest, CreateRebuild, RequestAborts, DocStays, DocState
  <2> QED BY <2>1, OthersMend
<1>6. CASE \/ DeleteWithOutbox \/ UNCHANGED vars
           \/ \E t \in Task : \/ RequestCancel(t) \/ Retry(t) \/ LeaseExpires(t) \/ RecoverStale(t)
                              \/ \E w \in Worker : ClaimUnresolved(w, t)
  <2>1. DocStays /\ UNCHANGED <<rows, index, worker>>
    BY <1>1, <1>6 DEF DeleteWithOutbox, RequestCancel, Retry, LeaseExpires, RecoverStale, ClaimUnresolved,
       vars, DocStays, DocState
  <2> QED BY <2>1, OthersMend
<1> QED BY <1>2, <1>4, <1>5, <1>6 DEF Next, ClaimStep

(* With one worker process that is not killed, and as long as no deleted   *)
(* document is uploaded again, a READY document is in the index completely *)
(* once all is done, whatever tasks fail, are cancelled, retried or        *)
(* repeated and whatever requests break off (_execute, _index_and_finalize). *)
THEOREM ReadyAtRestIsIndexed ==
    ASSUME OneWorker, NothingIsRevived
    PROVE  Spec /\ [][NoWorkerStops]_vars => []AtRestReadyIsIndexed
<1> DEFINE Inv == IInv /\ HandlersIndex /\ DeletesHide /\ ReadyIsMended
<1>1. Init => Inv
  <2>1. Init => \A w \in Worker : worker[w].pc = "idle"
    BY IdleStates DEF Init
  <2>2. Init => HandlersIndex
    BY <2>1 DEF HandlersIndex, IndexedAt
  <2>3. Init => DeletesHide
    <3>1. Init => \A t \in Task : job[t].op = "INGEST"
      BY DEF Init
    <3>2. Init => \A w \in Worker : worker[w].pc # "mark deleted"
      BY <2>1
    <3> QED BY <3>1, <3>2 DEF DeletesHide
  <2>4. Init => ReadyIsMended
    BY DEF Init, ReadyIsMended
  <2> QED BY <2>2, <2>3, <2>4, StartsGood
<1>2. Inv /\ [Next]_vars /\ [NoWorkerStops]_vars => Inv'
  <2> SUFFICES ASSUME Inv, [Next]_vars, [NoWorkerStops]_vars PROVE Inv'
    OBVIOUS
  <2>1. Good /\ IInv' /\ HandlersIndex' /\ DeletesHide'
    BY Split, StepKeeps, NextIndexes, DeletesStayHidden
  <2>2. CASE NoWorkerStops
    BY <2>1, <2>2, NextMends
  <2>3. CASE UNCHANGED vars
    <3>1. DocStays /\ UNCHANGED <<rows, index, worker>>
      BY <2>3 DEF vars, DocStays
    <3> QED BY <2>1, <3>1, OthersMend
  <2> QED BY <2>1, <2>2, <2>3
<1>3. Inv => AtRestReadyIsIndexed
  BY DEF AtRestReadyIsIndexed, ReadyIsMended, IsMended, Mending, Quiet
<1> HIDE DEF Inv
<1> QED BY <1>1, <1>2, <1>3, PTL DEF Spec
=============================================================================
