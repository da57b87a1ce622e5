----------------------------- MODULE ChatSession -----------------------------
(***************************************************************************)
(* WebSocket chat sessions of one API process (api/websocket_chat.py): the *)
(* receive loop of each socket, the task that serves its request, and the  *)
(* run of the chat runtime that the task starts.  All sockets share one    *)
(* runtime and its _generator, which a task that streams replaces by a     *)
(* proxy that feeds the task's token queue.                                *)
(*                                                                         *)
(* The process is one event loop: a step here is what happens between two  *)
(* awaits.  A served request, its task, its run and its queue are one      *)
(* number; a proxy is named by the request whose queue it feeds, and 0 is  *)
(* the generator the process started with.  Of a queue only the end        *)
(* markers are kept: they decide how a task goes on.                       *)
(***************************************************************************)
EXTENDS Naturals

CONSTANTS
    Socket,
    Request,    \* request ids
    NoOne,
    MaxServed   \* bound: requests that are served

ASSUME ChatSessionAssumption == NoOne \notin Socket \cup Request /\ MaxServed \in Nat

Served == 1..MaxServed

VARIABLES
    socket,      \* receive loop: is it open, its active task, its replays
    task,        \* _serve_request
    run,         \* runtime.run
    queue,       \* has the token_queue of a streaming task an end marker
    generator    \* runtime._generator

vars == <<socket, task, run, queue, generator>>

TaskPcs == {"none", "created", "scope", "stream", "await", "plain", "finish", "completing",
            "cancelling", "error", "done"}
RunPcs == {"none", "start", "generate", "persist", "done", "failed"}

NoTask == [pc |-> "none", socket |-> NoOne, request |-> NoOne, original |-> 0]
NoRun == [pc |-> "none", generator |-> 0, stored |-> FALSE, cancelled |-> FALSE]

TypeOK ==
    /\ socket \in [Socket -> [open : BOOLEAN, active : 0..MaxServed, completed : SUBSET Request]]
    /\ task \in [Served -> [pc : TaskPcs, socket : Socket \cup {NoOne},
                            request : Request \cup {NoOne}, original : 0..MaxServed]]
    /\ run \in [Served -> [pc : RunPcs, generator : 0..MaxServed, stored : BOOLEAN,
                         cancelled : BOOLEAN]]
    /\ queue \in [Served -> BOOLEAN]
    /\ generator \in 0..MaxServed

Init ==
    /\ socket = [s \in Socket |-> [open |-> TRUE, active |-> 0, completed |-> {}]]
    /\ task = [k \in Served |-> NoTask]
    /\ run = [k \in Served |-> NoRun]
    /\ queue = [k \in Served |-> FALSE]
    /\ generator = 0

Ended(k) == task[k].pc \in {"none", "done"}
Busy(s) == socket[s].active # 0 /\ ~Ended(socket[s].active)

Goto(k, pc) == task' = [task EXCEPT ![k].pc = pc]

-----------------------------------------------------------------------------
(* The receive loop.                                                       *)

(* A request that is served already is acknowledged, one that is completed *)
(* is replayed, and any other is refused while a task is active.           *)
ChatRequest(s, q) ==
    /\ socket[s].open /\ ~Busy(s)
    /\ q \notin socket[s].completed
    /\ \E k \in Served :
          /\ task[k].pc = "none" /\ \A m \in Served : m < k => task[m].pc # "none"
          /\ task' = [task EXCEPT ![k] = [NoTask EXCEPT !.pc = "created", !.socket = s,
                                                        !.request = q]]
          /\ socket' = [socket EXCEPT ![s].active = k]
    /\ UNCHANGED <<run, queue, generator>>

(* A run that is awaited is cancelled with its task, though a generation   *)
(* in its thread goes on; a run whose task streams goes on by itself.      *)
Awaited(k) == task[k].pc \in {"await", "plain"} /\ run[k].pc \notin {"done", "failed"}

(* Variant: the generator is not put back.                                 *)
CancelKeepsProxy(k) ==
    /\ Goto(k, IF task[k].pc \in {"created", "cancelling", "error"} THEN "done" ELSE "cancelling")
    /\ run' = IF Awaited(k) THEN [run EXCEPT ![k].cancelled = TRUE] ELSE run
    /\ queue' = [queue EXCEPT ![k] = FALSE]
    /\ UNCHANGED generator

(* task.cancel(): a task that has not begun never does; the answer to a    *)
(* cancellation, or to an error, is itself cut off.                        *)
CancelTask(k) ==
    /\ Goto(k, IF task[k].pc \in {"created", "cancelling", "error"} THEN "done" ELSE "cancelling")
    /\ run' = IF Awaited(k) THEN [run EXCEPT ![k].cancelled = TRUE] ELSE run
    /\ generator' = IF task[k].pc \in {"stream", "await"} THEN task[k].original ELSE generator
    /\ queue' = [queue EXCEPT ![k] = FALSE]

ChatCancel(s, q) ==
    /\ socket[s].open /\ Busy(s)
    /\ task[socket[s].active].request = q
    /\ CancelTask(socket[s].active)
    /\ UNCHANGED socket

(* Variant: the task is left alone.                                        *)
LeaveTask(s) ==
    /\ socket[s].open
    /\ socket' = [socket EXCEPT ![s].open = FALSE]
    /\ UNCHANGED <<task, run, generator, queue>>

(* The client goes away, or misses its heartbeats.                         *)
Disconnect(s) ==
    /\ socket[s].open
    /\ socket' = [socket EXCEPT ![s].open = FALSE]
    /\ IF Busy(s) THEN CancelTask(socket[s].active) ELSE UNCHANGED <<task, run, queue, generator>>

-----------------------------------------------------------------------------
(* _serve_request                                                          *)

Begin(k) ==
    /\ task[k].pc = "created"
    /\ Goto(k, "scope")
    /\ UNCHANGED <<socket, run, queue, generator>>

(* Variant: whatever the runtime's generator is, it is replaced.           *)
CanAlwaysStream == TRUE

(* isinstance(generator, SimpleRAGGenerator)                               *)
CanStream == generator = 0

(* With the retrieval scope at hand the run is started: one that streams   *)
(* as a task of its own, behind a proxy.                                   *)
ScopeKnown(k) ==
    /\ task[k].pc = "scope"
    /\ IF CanStream
       THEN /\ task' = [task EXCEPT ![k].pc = "stream", ![k].original = generator]
            /\ generator' = k
       ELSE Goto(k, "plain") /\ UNCHANGED generator
    /\ run' = [run EXCEPT ![k].pc = "start"]
    /\ UNCHANGED <<socket, queue>>

ScopeFails(k) ==
    /\ task[k].pc = "scope"
    /\ Goto(k, "error")
    /\ UNCHANGED <<socket, run, queue, generator>>

(* The stream ends with the first end marker.                              *)
StreamEnds(k) ==
    /\ task[k].pc = "stream" /\ queue[k]
    /\ Goto(k, "await")
    /\ queue' = [queue EXCEPT ![k] = FALSE]
    /\ UNCHANGED <<socket, run, generator>>

(* The run's result: the generator is put back first, whatever it is.      *)
RunReturns(k) ==
    /\ task[k].pc \in {"await", "plain"}
    /\ \/ run[k].pc = "done" /\ Goto(k, "finish")
       \/ run[k].pc = "failed" /\ Goto(k, "error")
    /\ generator' = IF task[k].pc = "await" THEN task[k].original ELSE generator
    /\ UNCHANGED <<socket, run, queue>>

SendCompleted(k) ==
    /\ task[k].pc = "finish"
    /\ Goto(k, "completing")
    /\ UNCHANGED <<socket, run, queue, generator>>

(* Variant: what was sent is remembered for every end.                     *)
RememberAnyEnd(k) ==
    /\ task[k].pc \in {"completing", "cancelling"}
    /\ socket' = [socket EXCEPT ![task[k].socket].completed = @ \cup {task[k].request}]
    /\ Goto(k, "done")
    /\ UNCHANGED <<run, queue, generator>>

(* completed[request_id] = emitted                                         *)
RememberEvents(k) ==
    /\ task[k].pc = "completing"
    /\ socket' = [socket EXCEPT ![task[k].socket].completed = @ \cup {task[k].request}]
    /\ Goto(k, "done")
    /\ UNCHANGED <<run, queue, generator>>

SendCancelled(k) ==
    /\ task[k].pc = "cancelling"
    /\ Goto(k, "done")
    /\ UNCHANGED <<socket, run, queue, generator>>

SendError(k) ==
    /\ task[k].pc = "error"
    /\ Goto(k, "done")
    /\ UNCHANGED <<socket, run, queue, generator>>

-----------------------------------------------------------------------------
(* ChatAgentRuntime.run.  Conversations models what it stores.             *)

(* The answer is generated by the generator of the moment; or it is a      *)
(* question back, a tool's result or a refusal, and none is.               *)
ChooseAnswer(k) ==
    /\ run[k].pc = "start"
    /\ ~run[k].cancelled
    /\ run' \in {[run EXCEPT ![k].pc = "generate", ![k].generator = generator],
                 [run EXCEPT ![k].pc = "persist"]}
    /\ UNCHANGED <<socket, task, queue, generator>>

(* The proxy's end marker; whose queue it is was decided when the run      *)
(* chose its generator.                                                    *)
EndGeneration(k) ==
    /\ run[k].pc = "generate"
    /\ run' = [run EXCEPT ![k].pc = "persist", ![k].generator = 0]
    /\ queue' = [q \in Served |-> queue[q] \/ (run[k].generator = q /\ task[q].pc = "stream")]
    /\ UNCHANGED <<socket, task, generator>>

PersistAnswer(k) ==
    /\ run[k].pc = "persist" /\ ~run[k].cancelled
    /\ run' = [run EXCEPT ![k].pc = "done", ![k].stored = TRUE]
    /\ UNCHANGED <<socket, task, queue, generator>>

RunFails(k) ==
    /\ run[k].pc \in {"start", "generate", "persist"}
    /\ run' = [run EXCEPT ![k].pc = "failed", ![k].generator = 0]
    /\ UNCHANGED <<socket, task, queue, generator>>

-----------------------------------------------------------------------------

TaskStep(k) ==
    \/ Begin(k) \/ ScopeKnown(k) \/ ScopeFails(k) \/ StreamEnds(k) \/ RunReturns(k)
    \/ SendCompleted(k) \/ RememberEvents(k) \/ SendCancelled(k) \/ SendError(k)

RunStep(k) ==
    ChooseAnswer(k) \/ EndGeneration(k) \/ PersistAnswer(k) \/ RunFails(k)

Next ==
    \/ \E s \in Socket : Disconnect(s) \/ \E q \in Request : ChatRequest(s, q) \/ ChatCancel(s, q)
    \/ \E k \in Served : TaskStep(k) \/ RunStep(k)

Spec == Init /\ [][Next]_vars

(* The event loop runs what is ready, and models, threads and the database *)
(* answer or time out.                                                     *)
FairSpec ==
    /\ Spec
    /\ \A k \in Served : WF_vars(TaskStep(k)) /\ WF_vars(RunStep(k))

-----------------------------------------------------------------------------
(* Properties.                                                             *)

(* However requests of several sockets begin, end and are cancelled, a     *)
(* proxy is in place only while its own task streams: the generator that   *)
(* was replaced always comes back (_serve_request).                        *)
GeneratorComesBack ==
    generator # 0 => task[generator].pc \in {"stream", "await"} /\ task[generator].original = 0

(* What is replayed for a repeated request id was completed: its answer is *)
(* stored, and no cancelled or failed request is ever taken for one.       *)
ReplayIsStored ==
    \A s \in Socket : \A q \in socket[s].completed :
        \E k \in Served : task[k].request = q /\ task[k].socket = s /\ run[k].stored

(* Even a request whose stream never ends does not outlive its socket      *)
(* (the finally block of websocket_chat).                                  *)
DisconnectEndsTasks ==
    \A s \in Socket : ~socket[s].open ~> ~Busy(s)

(* "chat.completed ... chat.error: after it the request is over": a served *)
(* request that nobody cancels is answered.                                *)
RequestIsAnswered ==
    \A k \in Served : task[k].pc = "created" ~> task[k].pc = "done"

(* Why GeneratorComesBack and ReplayIsStored hold.                         *)
ProxyIsOwned ==
    \A k \in Served : task[k].pc \in {"stream", "await"} =>
        generator = k /\ task[k].original = 0

DoneIsStored ==
    \A k \in Served :
        /\ task[k].pc = "none" => ~run[k].stored
        /\ task[k].pc # "none" => task[k].socket \in Socket /\ task[k].request \in Request
        /\ run[k].pc # "none" => task[k].pc # "none"
        /\ run[k].pc = "done" \/ task[k].pc \in {"finish", "completing"} => run[k].stored

IInv == TypeOK /\ ProxyIsOwned /\ GeneratorComesBack /\ DoneIsStored /\ ReplayIsStored
=============================================================================
