--------------------------- MODULE KnowledgeTasks ---------------------------
(***************************************************************************)
(* How a knowledge task (INGEST, REBUILD, DELETE) gets from the API to a   *)
(* worker and to its end: the async_tasks rows, the transactional outbox,  *)
(* the outbox publisher, the Celery broker, the workers that run           *)
(* WorkerLifecycleService._execute, and the sweep that recovers stale      *)
(* tasks.  What a handler does to documents, chunks and the search index   *)
(* is DocumentIndex's subject; here a handler is the sequence of its       *)
(* checkpoints and progress reports, and it may raise anywhere.            *)
(*                                                                         *)
(* Every database transaction is one action (the code takes the row lock   *)
(* first); between two transactions of a worker or of a publisher anything *)
(* may happen.                                                             *)
(***************************************************************************)
EXTENDS TaskRow, FiniteSets

CONSTANTS
    Task,          \* task ids
    Worker,        \* worker processes, one handler at a time each
    Name,          \* values of locked_by
    NameOf,        \* the worker_id of each process (gethostname())
    Operation,     \* task_type of each task
    Publisher,     \* concurrent runs of system.publish_outbox
    Slot,          \* bound: unpublished outbox events of one task
    MaxAttempts,   \* max_attempts
    MaxQueued,     \* bound: copies of one task's message in the broker
    MaxFaults,     \* bound: crashes, losses, redeliveries, failed sends
    NoTask

Operations == {"INGEST", "REBUILD", "DELETE"}

ASSUME TasksAssumption ==
    /\ NoTask \notin Task
    /\ NoOne \notin Name
    /\ NameOf \in [Worker -> Name]
    /\ Operation \in [Task -> Operations]
    /\ MaxAttempts \in Nat \ {0}
    /\ MaxQueued \in Nat \ {0}
    /\ MaxFaults \in Nat
    /\ Slot # {}

(* One process per container, and worker_id is the container's hostname.   *)
ASSUME NamesAssumption ==
    \A v, w \in Worker : NameOf[v] = NameOf[w] => v = w

VARIABLES
    task,     \* async_tasks: [Task -> Rows]
    outbox,   \* outbox_events by task and slot; "free" is no unpublished row
    queue,    \* messages naming each task, ready in the broker
    worker,   \* [Worker -> what the process is doing]
    pub,      \* [Publisher -> its claimed batch and the event just sent]
    lost,     \* tasks whose last dispatch the broker or a crash dropped
    faults    \* faults so far

vars == <<task, outbox, queue, worker, pub, lost, faults>>

EventState == {"free", "new", "leased", "expired"}
Events == Task \X Slot

(* The progress reports of each handler, in order.                         *)
Plan == [INGEST  |-> <<"LOADING", "CLEANING", "SPLITTING", "PERSISTING",
                       "INDEXING", "VERIFYING">>,
         REBUILD |-> <<"PERSISTING", "INDEXING", "VERIFYING">>,
         DELETE  |-> <<"DELETING">>]

PlanLength == [INGEST |-> 6, REBUILD |-> 3, DELETE |-> 1]

(* Reports made through _checkpoint, which looks for a cancellation first. *)
Checkpoint(op, step) ==
    \/ op = "INGEST" /\ step <= 4
    \/ op = "REBUILD" /\ step = 1

StepPc(op, step) == IF Checkpoint(op, step) THEN "check" ELSE "update"

Pcs == {"idle", "claim", "check", "update", "complete", "cancel", "fail",
        "dispatch"}
InHandler == {"check", "update", "complete", "cancel", "fail"}

Idle == [pc |-> "idle", task |-> NoTask, step |-> 1, attempt |-> 0]
Resting == [batch |-> {}, sent |-> {}]

TypeOK ==
    /\ task \in [Task -> Rows(Name, MaxAttempts)]
    /\ outbox \in [Events -> EventState]
    /\ queue \in [Task -> 0..MaxQueued]
    /\ worker \in [Worker -> [pc : Pcs, task : Task \cup {NoTask},
                              step : 1..6, attempt : 0..MaxAttempts]]
    /\ pub \in [Publisher -> [batch : SUBSET Events, sent : SUBSET Events]]
    /\ lost \subseteq Task
    /\ faults \in 0..MaxFaults

Init ==
    /\ task = [t \in Task |-> AbsentRow]
    /\ outbox = [e \in Events |-> "free"]
    /\ queue = [t \in Task |-> 0]
    /\ worker = [w \in Worker |-> Idle]
    /\ pub = [p \in Publisher |-> Resting]
    /\ lost = {}
    /\ faults = 0

-----------------------------------------------------------------------------
(* The outbox table.                                                       *)

Held(e) == \E p \in Publisher : e \in pub[p].batch \cup pub[p].sent

(* A slot no unpublished event uses and no publisher still remembers.      *)
FreeSlot(e) == outbox[e] = "free" /\ ~Held(e)
HasFreeSlot(t) == \E s \in Slot : FreeSlot(<<t, s>>)
NextSlot(t) == <<t, CHOOSE s \in Slot : FreeSlot(<<t, s>>)>>
Unpublished(t) == \E s \in Slot : outbox[<<t, s>>] # "free"

(* The tasks of S get a new event each, in the caller's transaction.       *)
AppendEvents(S) ==
    /\ \A t \in S : HasFreeSlot(t)
    /\ outbox' = [e \in Events |->
                    IF \E t \in S : e = NextSlot(t) THEN "new" ELSE outbox[e]]
    /\ lost' = lost \ S

(* The broker gains a message for t.  Messages naming a task are all alike *)
(* and MaxQueued copies are kept at most.                                  *)
Enqueue(t) ==
    queue' = [queue EXCEPT ![t] = IF @ < MaxQueued THEN @ + 1 ELSE @]

Fault == faults < MaxFaults /\ faults' = faults + 1

-----------------------------------------------------------------------------
(* The API.                                                                *)

CreateWithOutbox(t) ==
    /\ task[t].status = "ABSENT"
    /\ task' = [task EXCEPT ![t] = NewRow]
    /\ AppendEvents({t})
    /\ UNCHANGED <<queue, worker, pub, faults>>

RequestCancel(t) ==
    /\ CanCancel(task[t])
    /\ task' = [task EXCEPT ![t] = CancelTarget(@)]
    /\ UNCHANGED <<outbox, queue, worker, pub, lost, faults>>

RetryWithOutbox(t) ==
    /\ CanRetry(task[t], MaxAttempts)
    /\ task' = [task EXCEPT ![t] = Requeued(@)]
    /\ AppendEvents({t})
    /\ UNCHANGED <<queue, worker, pub, faults>>

-----------------------------------------------------------------------------
(* Time: a lease that nobody renews runs out.                              *)

LeaseExpires(t) ==
    /\ task[t].lease = "live"
    /\ task' = [task EXCEPT ![t].lease = "expired"]
    /\ UNCHANGED <<outbox, queue, worker, pub, lost, faults>>

EventLeaseExpires(e) ==
    /\ outbox[e] = "leased"
    /\ outbox' = [outbox EXCEPT ![e] = "expired"]
    /\ UNCHANGED <<task, queue, worker, pub, lost, faults>>

-----------------------------------------------------------------------------
(* system.recover_stale_knowledge_tasks, one transaction over the rows it  *)
(* locks.  A PENDING row may have been left alone for 90 seconds at any    *)
(* time, and SKIP LOCKED may leave out any of the rows.                    *)

(* Variant: only deliveries are recovered, not leases.                     *)
StaleDelivery(row) == row.status = "PENDING"

Stale(row) ==
    \/ row.status = "RUNNING" /\ row.lease = "expired"
    \/ row.status = "PENDING"

Spent(t) == task[t].attempts >= MaxAttempts

(* A row with attempts left is passed over while it has an event to publish. *)
Recoverable(t) ==
    /\ Stale(task[t])
    /\ Spent(t) \/ (~Unpublished(t) /\ HasFreeSlot(t))

RecoverStale(rows) ==
    LET spent == {t \in rows : Spent(t)}
    IN /\ task' = [t \in Task |->
                     IF t \in spent THEN Finished(task[t], "FAILED")
                     ELSE IF t \in rows THEN Requeued(task[t])
                     ELSE task[t]]
       /\ AppendEvents(rows \ spent)
       /\ UNCHANGED <<queue, worker, pub, faults>>

RecoverWith(t) ==
    \E rows \in SUBSET {r \in Task : Recoverable(r)} : t \in rows /\ RecoverStale(rows)

-----------------------------------------------------------------------------
(* system.publish_outbox: claim a batch, then for each event send it and   *)
(* mark it.  Every run uses the same publisher_id, so owning an event is   *)
(* only having its lease unexpired.                                        *)

ClaimBatch(p) ==
    LET claimable == {e \in Events : outbox[e] \in {"new", "expired"}}
    IN /\ pub[p] = Resting
       /\ claimable # {}
       /\ outbox' = [e \in Events |->
                       IF e \in claimable THEN "leased" ELSE outbox[e]]
       /\ pub' = [pub EXCEPT ![p].batch = claimable]
       /\ UNCHANGED <<task, queue, worker, lost, faults>>

SendTask(p, e) ==
    /\ e \in pub[p].batch
    /\ pub[p].sent = {}
    /\ Enqueue(e[1])
    /\ pub' = [pub EXCEPT ![p] = [batch |-> @.batch \ {e}, sent |-> {e}]]
    /\ UNCHANGED <<task, outbox, worker, lost, faults>>

(* Variant: the event of a failed send is given up.                        *)
SendFailsForGood(p, e) ==
    /\ e \in pub[p].batch
    /\ pub[p].sent = {}
    /\ Fault
    /\ outbox' = [outbox EXCEPT ![e] = IF @ = "leased" THEN "free" ELSE @]
    /\ pub' = [pub EXCEPT ![p].batch = @ \ {e}]
    /\ UNCHANGED <<task, queue, worker, lost>>

(* send_task raised: mark_failed gives the event back if it is still owned. *)
SendFails(p, e) ==
    /\ e \in pub[p].batch
    /\ pub[p].sent = {}
    /\ Fault
    /\ outbox' = [outbox EXCEPT ![e] = IF @ = "leased" THEN "new" ELSE @]
    /\ pub' = [pub EXCEPT ![p].batch = @ \ {e}]
    /\ UNCHANGED <<task, queue, worker, lost>>

(* mark_published succeeds only while the event is owned and unpublished.  *)
MarkPublished(p, e) ==
    /\ e \in pub[p].sent
    /\ outbox' = [outbox EXCEPT ![e] = IF @ = "leased" THEN "free" ELSE @]
    /\ pub' = [pub EXCEPT ![p].sent = {}]
    /\ UNCHANGED <<task, queue, worker, lost, faults>>

PublisherCrash(p) ==
    /\ pub[p] # Resting
    /\ Fault
    /\ pub' = [pub EXCEPT ![p] = Resting]
    /\ UNCHANGED <<task, outbox, queue, worker, lost>>

-----------------------------------------------------------------------------
(* A worker process: Celery delivers a message (acknowledged late), and    *)
(* _execute claims the task, runs the handler and records how it ended.    *)

Deliver(w, t) ==
    /\ worker[w].pc = "idle"
    /\ queue[t] > 0
    /\ queue' = [queue EXCEPT ![t] = @ - 1]
    /\ worker' = [worker EXCEPT ![w] = [Idle EXCEPT !.pc = "claim", !.task = t]]
    /\ UNCHANGED <<task, outbox, pub, lost, faults>>

Claim(w) ==
    LET t == worker[w].task
    IN /\ worker[w].pc = "claim"
       /\ CanClaim(task[t], MaxAttempts)
       /\ task' = [task EXCEPT ![t] = Claimed(@, NameOf[w])]
       /\ worker' = [worker EXCEPT ![w] =
                       [pc |-> StepPc(Operation[t], 1), task |-> t, step |-> 1,
                        attempt |-> task[t].attempts + 1]]
       /\ UNCHANGED <<outbox, queue, pub, lost, faults>>

(* Not claimable: the message is acknowledged and forgotten.               *)
SkipClaim(w) ==
    /\ worker[w].pc = "claim"
    /\ ~CanClaim(task[worker[w].task], MaxAttempts)
    /\ worker' = [worker EXCEPT ![w] = Idle]
    /\ UNCHANGED <<task, outbox, queue, pub, lost, faults>>

(* The document has no version to work on: the task fails unclaimed.       *)
ClaimUnresolved(w) ==
    LET t == worker[w].task
    IN /\ worker[w].pc = "claim"
       /\ CanClaim(task[t], MaxAttempts)
       /\ task' = [task EXCEPT ![t] = Finished(@, "FAILED")]
       /\ worker' = [worker EXCEPT ![w] = Idle]
       /\ UNCHANGED <<outbox, queue, pub, lost, faults>>

(* First half of _checkpoint: look for a cancellation request.             *)
CheckCancellation(w) ==
    /\ worker[w].pc = "check"
    /\ worker' = [worker EXCEPT ![w].pc =
                    IF CancellationRequested(task[worker[w].task], NameOf[w])
                    THEN "cancel" ELSE "update"]
    /\ UNCHANGED <<task, outbox, queue, pub, lost, faults>>

(* update_progress: renews the lease of an owned task, else does nothing;  *)
(* the handler goes on either way.                                         *)
UpdateProgress(w) ==
    LET t == worker[w].task
        op == Operation[t]
        step == worker[w].step
    IN /\ worker[w].pc = "update"
       /\ task' = [task EXCEPT ![t] = IF OwnedRunning(@, NameOf[w])
                                      THEN Heartbeat(@, Plan[op][step]) ELSE @]
       /\ worker' = IF step = PlanLength[op]
                    THEN [worker EXCEPT ![w].pc = "complete"]
                    ELSE [worker EXCEPT ![w].pc = StepPc(op, step + 1),
                                        ![w].step = step + 1]
       /\ UNCHANGED <<outbox, queue, pub, lost, faults>>

HandlerRaises(w) ==
    /\ worker[w].pc \in {"check", "update", "complete"}
    /\ worker' = [worker EXCEPT ![w].pc = "fail"]
    /\ UNCHANGED <<task, outbox, queue, pub, lost, faults>>

(* The last transaction of _execute; each leaves a task it does not own    *)
(* alone, and the message is acknowledged.                                 *)
CompleteTask(w) ==
    /\ worker[w].pc = "complete"
    /\ task' = [task EXCEPT ![worker[w].task] =
                  IF OwnedRunning(@, NameOf[w]) THEN Finished(@, "SUCCEEDED") ELSE @]
    /\ worker' = [worker EXCEPT ![w] = Idle]
    /\ UNCHANGED <<outbox, queue, pub, lost, faults>>

FailTask(w) ==
    /\ worker[w].pc = "fail"
    /\ task' = [task EXCEPT ![worker[w].task] =
                  IF OwnedRunning(@, NameOf[w]) THEN Finished(@, "FAILED") ELSE @]
    /\ worker' = [worker EXCEPT ![w] = Idle]
    /\ UNCHANGED <<outbox, queue, pub, lost, faults>>

CancelTask(w) ==
    /\ worker[w].pc = "cancel"
    /\ task' = [task EXCEPT ![worker[w].task] =
                  IF @.status \in LeasedStatuses /\ HoldsLease(@, NameOf[w])
                  THEN Finished(@, "CANCELLED") ELSE @]
    /\ worker' = [worker EXCEPT ![w] = Idle]
    /\ UNCHANGED <<outbox, queue, pub, lost, faults>>

(* knowledge.retry: prepare_retry commits, then the operation is sent      *)
(* straight to the broker, with no outbox event.                           *)
PrepareRetry(w, t) ==
    /\ worker[w].pc = "idle"
    /\ CanRetry(task[t], MaxAttempts)
    /\ task' = [task EXCEPT ![t] = Requeued(@)]
    /\ worker' = [worker EXCEPT ![w] = [Idle EXCEPT !.pc = "dispatch", !.task = t]]
    /\ lost' = lost \ {t}
    /\ UNCHANGED <<outbox, queue, pub, faults>>

DispatchRetry(w) ==
    LET t == worker[w].task
    IN /\ worker[w].pc = "dispatch"
       /\ Enqueue(t)
       /\ worker' = [worker EXCEPT ![w] = Idle]
       /\ UNCHANGED <<task, outbox, pub, lost, faults>>

-----------------------------------------------------------------------------
(* Faults.                                                                 *)

(* task_reject_on_worker_lost: the message of a killed worker is queued    *)
(* again.  A retry that was not dispatched yet is gone.                    *)
WorkerCrash(w) ==
    LET t == worker[w].task
    IN /\ worker[w].pc # "idle"
       /\ Fault
       /\ worker' = [worker EXCEPT ![w] = Idle]
       /\ IF worker[w].pc = "dispatch"
          THEN lost' = lost \cup {t} /\ UNCHANGED queue
          ELSE Enqueue(t) /\ UNCHANGED lost
       /\ UNCHANGED <<task, outbox, pub>>

(* visibility_timeout: the broker delivers an unacknowledged message again *)
(* while its worker is still at it.                                        *)
Redeliver(w) ==
    LET t == worker[w].task
    IN /\ worker[w].pc \in InHandler
       /\ Fault
       /\ Enqueue(t)
       /\ UNCHANGED <<task, outbox, worker, pub, lost>>

(* The database refuses a transaction of the worker: the exception leaves  *)
(* _execute and the message is acknowledged with nothing recorded.         *)
TransactionFails(w) ==
    /\ worker[w].pc \in {"claim", "complete", "cancel", "fail"}
    /\ Fault
    /\ worker' = [worker EXCEPT ![w] = Idle]
    /\ lost' = IF worker[w].pc = "claim" THEN lost \cup {worker[w].task} ELSE lost
    /\ UNCHANGED <<task, outbox, queue, pub>>

LoseMessage(t) ==
    /\ queue[t] > 0
    /\ Fault
    /\ queue' = [queue EXCEPT ![t] = @ - 1]
    /\ lost' = lost \cup {t}
    /\ UNCHANGED <<task, outbox, worker, pub>>

-----------------------------------------------------------------------------

Api(t) == CreateWithOutbox(t) \/ RequestCancel(t) \/ RetryWithOutbox(t)

WorkerStep(w) ==
    \/ Claim(w) \/ SkipClaim(w) \/ CheckCancellation(w) \/ UpdateProgress(w)
    \/ CompleteTask(w) \/ FailTask(w) \/ CancelTask(w) \/ DispatchRetry(w)

Next ==
    \/ \E t \in Task : Api(t) \/ LeaseExpires(t) \/ RecoverWith(t) \/ LoseMessage(t)
    \/ \E e \in Events : EventLeaseExpires(e)
    \/ \E p \in Publisher : ClaimBatch(p) \/ PublisherCrash(p)
    \/ \E p \in Publisher, e \in Events :
          SendTask(p, e) \/ SendFails(p, e) \/ MarkPublished(p, e)
    \/ \E w \in Worker : \/ WorkerStep(w) \/ ClaimUnresolved(w)
                         \/ HandlerRaises(w) \/ WorkerCrash(w) \/ Redeliver(w)
                         \/ TransactionFails(w)
    \/ \E w \in Worker, t \in Task : Deliver(w, t) \/ PrepareRetry(w, t)

Spec == Init /\ [][Next]_vars

(* Fairness.  Processes that are up keep running and leases run out by     *)
(* themselves; celery beat starts the publisher every 5 s and the sweep    *)
(* every 30 s.  The broker's list is first in, first out: other messages    *)
(* cannot overtake one for ever.  A user action, an exception and a fault  *)
(* need never happen.                                                      *)
FairSpec ==
    /\ Spec
    /\ \A t \in Task : WF_vars(LeaseExpires(t)) /\ WF_vars(RecoverWith(t))
    /\ \A e \in Events : WF_vars(EventLeaseExpires(e))
    /\ \A p \in Publisher :
          /\ WF_vars(ClaimBatch(p))
          /\ \A e \in Events : WF_vars(SendTask(p, e)) /\ WF_vars(MarkPublished(p, e))
    /\ \A w \in Worker : WF_vars(WorkerStep(w))
    /\ \A t \in Task : SF_vars(\E w \in Worker : Deliver(w, t))

-----------------------------------------------------------------------------
(* Properties.                                                             *)

(* A row carries an owner and a lease exactly while a worker may act on    *)
(* it: every path that ends or requeues a task releases it, and no path    *)
(* runs one without taking a lease (_release_task, claim).                 *)
LeaseMatchesStatus ==
    \A t \in Task :
        /\ task[t].status \in LeasedStatuses <=> task[t].lease # "none"
        /\ task[t].status \in LeasedStatuses <=> task[t].owner # NoOne

(* A task that waits can be claimed: neither a retry nor the sweep leaves  *)
(* a PENDING task that claim() would refuse for ever.                      *)
PendingIsClaimable ==
    \A t \in Task :
        task[t].status = "PENDING" => CanClaim(task[t], MaxAttempts)

(* What the row tells its readers: a task that waits, is asked to cancel   *)
(* or was cancelled never shows a stage that may not be interrupted.  A    *)
(* requeued task starts over (recover_stale_knowledge_tasks,               *)
(* prepare_retry); a report does not move a row on that was asked to       *)
(* cancel (update_progress); and cancel_task, which accepts RUNNING rows   *)
(* as well, never ends one that a handler has moved on meanwhile.  It      *)
(* speaks of the row only: a handler that looked for a cancellation before *)
(* it was asked for goes on, its reports change nothing, and the row stays *)
(* CANCEL_REQUESTED.                                                       *)
CancellationIsInterruptible ==
    \A t \in Task : task[t].status \in {"PENDING", "CANCEL_REQUESTED", "CANCELLED"}
                        => task[t].stage \notin NonInterruptibleStages

(* The transactional outbox loses nothing by itself: a PENDING task has an *)
(* unpublished event, a message in the broker, or a worker about to claim  *)
(* or dispatch it, unless the broker or a crash dropped its message.       *)
Dispatched(t) ==
    \/ Unpublished(t)
    \/ queue[t] > 0
    \/ \E w \in Worker : worker[w].task = t /\ worker[w].pc \in {"claim", "dispatch"}

PendingIsDispatched ==
    \A t \in Task : task[t].status = "PENDING" => Dispatched(t) \/ t \in lost

(* What the others rest on: a row that was never inserted spent nothing.   *)
AbsentIsNew == \A t \in Task : task[t].status = "ABSENT" => task[t].attempts = 0

(* A process that is not idle has a task, and a step of its plan to report *)
(* (the job that claim returned) ...                                       *)
WorkersAreBusy ==
    \A w \in Worker :
        /\ worker[w].pc # "idle" => worker[w].task \in Task
        /\ worker[w].pc \in {"check", "update"}
              => worker[w].step <= PlanLength[Operation[worker[w].task]]

(* ... while the row names it as owner, its claim is the row's last one    *)
(* (claim, _owned_running_task) ...                                        *)
OwnersHaveTheLatestClaim ==
    \A w \in Worker :
        worker[w].pc \in InHandler /\ task[worker[w].task].owner = NameOf[w]
            => worker[w].attempt = task[worker[w].task].attempts

(* ... and if it has seen a cancellation, the request still stands.        *)
SeenCancellationStands ==
    \A w \in Worker :
        worker[w].pc = "cancel" /\ task[worker[w].task].owner = NameOf[w]
            => task[worker[w].task].status = "CANCEL_REQUESTED"

(* A PENDING task is not left to an event that was sent already: marking   *)
(* that one published may not strand the task (mark_published).            *)
Carried(t) ==
    \/ queue[t] > 0
    \/ t \in lost
    \/ \E w \in Worker : worker[w].task = t /\ worker[w].pc \in {"claim", "dispatch"}
    \/ \E s \in Slot : /\ outbox[<<t, s>>] # "free"
                      /\ \A p \in Publisher : <<t, s>> \notin pub[p].sent

PendingIsCarried == \A t \in Task : task[t].status = "PENDING" => Carried(t)

(* The inductive invariant.                                                *)
IInv ==
    /\ TypeOK
    /\ LeaseMatchesStatus
    /\ PendingIsClaimable
    /\ CancellationIsInterruptible
    /\ AbsentIsNew
    /\ WorkersAreBusy
    /\ OwnersHaveTheLatestClaim
    /\ SeenCancellationStands
    /\ PendingIsCarried

(* Fencing: a worker whose lease was lost and whose task was claimed again *)
(* changes nothing of the row, so whatever a handler reports to the row,   *)
(* it reports for the latest claim (locked_by and locked_until).           *)
ReportsForLatestClaim ==
    \A w \in Worker :
        worker[w].pc \in InHandler /\ worker'[w] # worker[w] /\ task' # task
            => worker[w].attempt = task[worker[w].task].attempts

OnlyLatestClaimReports == [][ReportsForLatestClaim]_vars

(* The whole machinery implements the task life cycle the API shows.       *)
Lifecycle == INSTANCE TaskLifecycle
    WITH status <- [t \in Task |-> task[t].status],
         attempts <- [t \in Task |-> task[t].attempts]

ImplementsLifecycle == Lifecycle!Spec

(* Whatever is lost or crashes, a task that waits or runs comes to an end  *)
(* or is asked to cancel (publisher, broker, leases, recovery sweep).      *)
EveryTaskSettles ==
    \A t \in Task : task[t].status \in {"PENDING", "RUNNING"}
                        ~> task[t].status \in TerminalStatuses \cup {"CANCEL_REQUESTED"}

(* An accepted cancellation is observed: the task comes to an end.         *)
CancellationIsHonoured ==
    \A t \in Task : task[t].status = "CANCEL_REQUESTED"
                        ~> task[t].status \in TerminalStatuses
=============================================================================
