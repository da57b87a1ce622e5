------------------------- MODULE ChatSession_proofs -------------------------
(***************************************************************************)
(* Proofs about ChatSession, for any sockets, any request ids and any      *)
(* number of requests: first what an action does to one task or one run,   *)
(* then that it keeps the invariant.                                       *)
(***************************************************************************)
EXTENDS ChatSession, TLAPS

SocketState == [open : BOOLEAN, active : 0..MaxServed, completed : SUBSET Request]
TaskState == [pc : TaskPcs, socket : Socket \cup {NoOne}, request : Request \cup {NoOne},
              original : 0..MaxServed]
RunState == [pc : RunPcs, generator : 0..MaxServed, stored : BOOLEAN, cancelled : BOOLEAN]

Typed ==
    /\ socket \in [Socket -> SocketState] /\ task \in [Served -> TaskState]
    /\ run \in [Served -> RunState] /\ queue \in [Served -> BOOLEAN]
    /\ generator \in 0..MaxServed

LEMMA TypedIsTypeOK == TypeOK <=> Typed
  BY DEF TypeOK, Typed, SocketState, TaskState, RunState

LEMMA TypedIsTypeOKNext == TypeOK' <=> Typed'
  BY DEF TypeOK, Typed, SocketState, TaskState, RunState

LEMMA Numbers ==
    /\ 0 \in 0..MaxServed /\ 0 \notin Served
    /\ \A n : n \in Served <=> n \in 0..MaxServed /\ n # 0
  BY ChatSessionAssumption DEF Served

-----------------------------------------------------------------------------
(* Steps of one task and of one run.                                       *)

(* The task goes on to pc, and nothing else of any task changes.           *)
Moves(k, pc) ==
    /\ task' \in [Served -> TaskState]
    /\ task'[k].pc = pc
    /\ task'[k].socket = task[k].socket /\ task'[k].request = task[k].request
    /\ task'[k].original = task[k].original
    /\ \A j \in Served : j # k => task'[j] = task[j]

LEMMA GotoMoves ==
    ASSUME Typed, NEW k \in Served, NEW pc \in TaskPcs, Goto(k, pc)
    PROVE  Moves(k, pc)
  BY DEF Typed, Goto, Moves, TaskState

(* The run goes on to pc; what it stored stays stored.                     *)
Runs(k, pc) ==
    /\ run' \in [Served -> RunState]
    /\ run'[k].pc = pc
    /\ run[k].stored => run'[k].stored
    /\ run'[k].stored => run[k].stored \/ pc = "done"
    /\ pc = "done" => run'[k].stored \/ run[k].pc = "done"
    /\ \A j \in Served : j # k => run'[j] = run[j]

(* Replays stay good while requests keep their names and runs what they    *)
(* stored.                                                                 *)
LEMMA ReplaysStay ==
    ASSUME DoneIsStored, ReplayIsStored,
           \A s \in Socket : socket'[s].completed = socket[s].completed,
           \A j \in Served : run[j].stored => run'[j].stored,
           \A j \in Served : task[j].pc # "none" =>
               task'[j].request = task[j].request /\ task'[j].socket = task[j].socket
    PROVE  ReplayIsStored'
  BY DEF DoneIsStored, ReplayIsStored

-----------------------------------------------------------------------------

LEMMA GeneratorIsServed == IInv /\ generator # 0 => generator \in Served
  BY Numbers, TypedIsTypeOK DEF IInv, Typed

LEMMA InitIInv == Init => IInv
<1> SUFFICES ASSUME Init PROVE IInv
  OBVIOUS
<1>1. Typed
  BY Numbers DEF Init, Typed, SocketState, TaskState, RunState, NoTask, NoRun, TaskPcs, RunPcs
<1>2. ProxyIsOwned /\ GeneratorComesBack
  BY DEF Init, ProxyIsOwned, GeneratorComesBack, NoTask
<1>3. DoneIsStored /\ ReplayIsStored
  BY DEF Init, DoneIsStored, ReplayIsStored, NoTask, NoRun
<1> QED BY <1>1, <1>2, <1>3, TypedIsTypeOK DEF IInv

(* A step of a task that neither takes nor gives back the generator, nor   *)
(* takes a result.                                                         *)
LEMMA PlainMoves ==
    ASSUME IInv, NEW k \in Served, NEW pc \in TaskPcs, Moves(k, pc),
           pc # "none", task[k].pc # "none",
           pc \in {"stream", "await"} <=> task[k].pc \in {"stream", "await"},
           pc \in {"finish", "completing"} => run[k].stored,
           UNCHANGED <<run, generator>>, queue' \in [Served -> BOOLEAN],
           socket' \in [Socket -> SocketState],
           \A s \in Socket : socket'[s].completed = socket[s].completed
    PROVE  IInv'
<1>1. Typed'
  BY TypedIsTypeOK DEF IInv, Typed, Moves
<1>2. ProxyIsOwned'
  BY DEF IInv, Moves, ProxyIsOwned
<1>5. GeneratorComesBack'
  BY GeneratorIsServed DEF IInv, Moves, GeneratorComesBack
<1>3. DoneIsStored'
  BY DEF IInv, Moves, DoneIsStored
<1>4. ReplayIsStored'
  BY ReplaysStay DEF IInv, Moves
<1> QED BY <1>1, <1>2, <1>3, <1>4, <1>5, TypedIsTypeOKNext DEF IInv

(* Cancelling a task; its socket may close in the same step.               *)
LEMMA CancelKeeps ==
    ASSUME IInv, NEW k \in Served, ~Ended(k), CancelTask(k),
           socket' \in [Socket -> SocketState],
           \A s \in Socket : socket'[s].completed = socket[s].completed
    PROVE  IInv'
<1>1. PICK pc \in {"done", "cancelling"} : Goto(k, pc)
  BY DEF CancelTask
<1>2. Moves(k, pc)
  BY <1>1, GotoMoves, TypedIsTypeOK DEF IInv, TaskPcs
<1>3. /\ run' \in [Served -> RunState]
      /\ \A j \in Served : run'[j].pc = run[j].pc /\ run'[j].stored = run[j].stored
  BY TypedIsTypeOK DEF CancelTask, IInv, Typed, RunState
<1>4. queue' \in [Served -> BOOLEAN] /\ generator' \in 0..MaxServed
  BY TypedIsTypeOK DEF CancelTask, IInv, Typed, TaskState
<1>5. ProxyIsOwned' /\ GeneratorComesBack'
  <2>1. CASE task[k].pc \in {"stream", "await"}
    <3>1. generator = k /\ generator' = 0
      BY <2>1 DEF CancelTask, IInv, ProxyIsOwned
    <3> QED BY <1>2, <3>1 DEF IInv, Moves, ProxyIsOwned, GeneratorComesBack
  <2>2. CASE task[k].pc \notin {"stream", "await"}
    <3>1. generator' = generator
      BY <2>2 DEF CancelTask
    <3> QED BY <1>2, <2>2, <3>1, GeneratorIsServed DEF IInv, Moves, ProxyIsOwned, GeneratorComesBack
  <2> QED BY <2>1, <2>2
<1>6. DoneIsStored'
  BY <1>2, <1>3 DEF IInv, Moves, DoneIsStored, Ended
<1>7. ReplayIsStored'
  BY <1>2, <1>3, ReplaysStay DEF IInv, Moves
<1> QED BY <1>2, <1>3, <1>4, <1>5, <1>6, <1>7, TypedIsTypeOKNext DEF IInv, Typed, Moves

(* The receive loop.                                                       *)
LEMMA SocketKeeps ==
    ASSUME IInv, NEW s \in Socket,
           Disconnect(s) \/ \E q \in Request : ChatRequest(s, q) \/ ChatCancel(s, q)
    PROVE  IInv'
<1>1. Typed
  BY TypedIsTypeOK DEF IInv
<1>2. ASSUME Busy(s) PROVE socket[s].active \in Served /\ ~Ended(socket[s].active)
  BY <1>1, <1>2, Numbers DEF Typed, SocketState, Busy
<1>3. CASE Disconnect(s)
  <2>1. /\ socket' \in [Socket -> SocketState]
        /\ \A r \in Socket : socket'[r].completed = socket[r].completed
    BY <1>1, <1>3 DEF Disconnect, Typed, SocketState
  <2>2. CASE Busy(s)
    BY <1>2, <1>3, <2>1, <2>2, CancelKeeps DEF Disconnect
  <2>3. CASE ~Busy(s)
    <3>1. UNCHANGED <<task, run, queue, generator>>
      BY <1>3, <2>3 DEF Disconnect
    <3>2. Typed'
      BY <1>1, <2>1, <3>1 DEF Typed
    <3>3. ReplayIsStored'
      BY <2>1, <3>1, ReplaysStay DEF IInv
    <3> QED BY <3>1, <3>2, <3>3, TypedIsTypeOKNext DEF IInv, ProxyIsOwned, GeneratorComesBack, DoneIsStored
  <2> QED BY <2>2, <2>3
<1>4. ASSUME NEW q \in Request, ChatCancel(s, q) PROVE IInv'
  BY <1>1, <1>2, <1>4, CancelKeeps DEF ChatCancel, Typed
<1>5. ASSUME NEW q \in Request, ChatRequest(s, q) PROVE IInv'
  <2>1. PICK k \in Served :
           /\ task[k].pc = "none"
           /\ task' = [task EXCEPT ![k] = [NoTask EXCEPT !.pc = "created", !.socket = s, !.request = q]]
           /\ socket' = [socket EXCEPT ![s].active = k]
    BY <1>5 DEF ChatRequest
  <2>2. UNCHANGED <<run, queue, generator>>
    BY <1>5 DEF ChatRequest
  <2>3. /\ task' \in [Served -> TaskState] /\ task'[k].pc = "created"
        /\ \A j \in Served : j # k => task'[j] = task[j]
    BY <1>1, <2>1, Numbers DEF Typed, TaskState, NoTask, TaskPcs
  <2>4. /\ socket' \in [Socket -> SocketState]
        /\ \A r \in Socket : socket'[r].completed = socket[r].completed
    BY <1>1, <2>1, Numbers DEF Typed, SocketState
  <2>5. ProxyIsOwned' /\ GeneratorComesBack'
    BY <2>1, <2>2, <2>3, GeneratorIsServed DEF IInv, ProxyIsOwned, GeneratorComesBack
  <2>6. DoneIsStored'
    BY <2>1, <2>2, <2>3 DEF IInv, DoneIsStored
  <2>7. ReplayIsStored'
    BY <2>1, <2>2, <2>3, <2>4, ReplaysStay DEF IInv
  <2> QED BY <1>1, <2>2, <2>3, <2>4, <2>5, <2>6, <2>7, TypedIsTypeOKNext DEF IInv, Typed
<1> QED BY <1>3, <1>4, <1>5

(* A task that takes the generator or starts its run without it.           *)
LEMMA ScopeKeeps == ASSUME IInv, NEW k \in Served, ScopeKnown(k) PROVE IInv'
<1>1. Typed
  BY TypedIsTypeOK DEF IInv
<1>2. /\ run' \in [Served -> RunState] /\ run'[k].pc = "start"
      /\ \A j \in Served : run'[j].stored = run[j].stored
      /\ \A j \in Served : j # k => run'[j] = run[j]
  BY <1>1 DEF ScopeKnown, Typed, RunState, RunPcs
<1>3. \E pc \in {"stream", "plain"} :
        /\ task' \in [Served -> TaskState] /\ task'[k].pc = pc
        /\ task'[k].socket = task[k].socket /\ task'[k].request = task[k].request
        /\ \A j \in Served : j # k => task'[j] = task[j]
        /\ pc = "stream" => generator = 0 /\ generator' = k /\ task'[k].original = 0
        /\ pc = "plain" => generator' = generator
  <2>1. CASE CanStream
    BY <1>1, <2>1 DEF ScopeKnown, CanStream, Typed, TaskState, TaskPcs
  <2>2. CASE ~CanStream
    BY <1>1, <2>2 DEF ScopeKnown, Goto, Typed, TaskState, TaskPcs
  <2> QED BY <2>1, <2>2
<1>4. task[k].pc = "scope" /\ UNCHANGED <<socket, queue>>
  BY DEF ScopeKnown
<1>5. Typed'
  BY <1>1, <1>2, <1>3, <1>4, Numbers DEF Typed
<1>6. ProxyIsOwned' /\ GeneratorComesBack'
  BY <1>3, <1>4, Numbers, GeneratorIsServed DEF IInv, ProxyIsOwned, GeneratorComesBack
<1>7. DoneIsStored'
  BY <1>2, <1>3, <1>4 DEF IInv, DoneIsStored
<1>8. ReplayIsStored'
  BY <1>2, <1>3, <1>4, ReplaysStay DEF IInv
<1> QED BY <1>5, <1>6, <1>7, <1>8, TypedIsTypeOKNext DEF IInv

(* A task that gets its run's result gives the generator back.             *)
LEMMA ReturnKeeps == ASSUME IInv, NEW k \in Served, RunReturns(k) PROVE IInv'
<1>1. Typed
  BY TypedIsTypeOK DEF IInv
<1>2. PICK pc \in {"finish", "error"} : Goto(k, pc) /\ (pc = "finish" => run[k].pc = "done")
  BY DEF RunReturns
<1>3. Moves(k, pc)
  BY <1>1, <1>2, GotoMoves DEF TaskPcs
<1>4. UNCHANGED <<socket, run, queue>> /\ task[k].pc \in {"await", "plain"}
  BY DEF RunReturns
<1>5. ProxyIsOwned' /\ GeneratorComesBack'
  <2>1. CASE task[k].pc = "await"
    <3>1. generator = k /\ generator' = 0
      BY <2>1 DEF RunReturns, IInv, ProxyIsOwned
    <3> QED BY <1>3, <3>1 DEF IInv, Moves, ProxyIsOwned, GeneratorComesBack
  <2>2. CASE task[k].pc = "plain"
    <3>1. generator' = generator
      BY <2>2 DEF RunReturns
    <3> QED BY <1>3, <2>2, <3>1, GeneratorIsServed DEF IInv, Moves, ProxyIsOwned, GeneratorComesBack
  <2> QED BY <1>4, <2>1, <2>2
<1>6. generator' \in 0..MaxServed
  BY <1>1, Numbers DEF RunReturns, Typed, TaskState
<1>7. DoneIsStored'
  BY <1>2, <1>3, <1>4 DEF IInv, Moves, DoneIsStored
<1>8. ReplayIsStored'
  BY <1>3, <1>4, ReplaysStay DEF IInv, Moves
<1> QED BY <1>1, <1>3, <1>4, <1>5, <1>6, <1>7, <1>8, TypedIsTypeOKNext DEF IInv, Typed, Moves

(* A completed request is remembered, and its answer is stored.            *)
LEMMA RememberKeeps == ASSUME IInv, NEW k \in Served, RememberEvents(k) PROVE IInv'
<1>1. Typed
  BY TypedIsTypeOK DEF IInv
<1>2. Moves(k, "done") /\ task[k].pc = "completing" /\ UNCHANGED <<run, queue, generator>>
  BY <1>1, GotoMoves DEF RememberEvents, TaskPcs
<1>3. run[k].stored
  BY <1>2 DEF IInv, DoneIsStored
<1>4. /\ socket' \in [Socket -> SocketState]
      /\ \A s \in Socket : \A q \in socket'[s].completed :
            q \in socket[s].completed \/ (s = task[k].socket /\ q = task[k].request)
  <2>1. task[k].socket \in Socket /\ task[k].request \in Request
    BY <1>2 DEF IInv, DoneIsStored
  <2> QED BY <1>1, <2>1 DEF RememberEvents, Typed, SocketState, TaskState
<1>5. ReplayIsStored'
  BY <1>2, <1>3, <1>4 DEF IInv, Moves, DoneIsStored, ReplayIsStored
<1>6. ProxyIsOwned' /\ GeneratorComesBack'
  BY <1>2, GeneratorIsServed DEF IInv, Moves, ProxyIsOwned, GeneratorComesBack
<1>7. DoneIsStored'
  BY <1>2, <1>3 DEF IInv, Moves, DoneIsStored
<1> QED BY <1>1, <1>2, <1>4, <1>5, <1>6, <1>7, TypedIsTypeOKNext DEF IInv, Typed, Moves

LEMMA TaskKeeps == ASSUME IInv, NEW k \in Served, TaskStep(k) PROVE IInv'
<1>1. Typed
  BY TypedIsTypeOK DEF IInv
<1>2. ASSUME NEW pc \in TaskPcs, Goto(k, pc), pc # "none", task[k].pc # "none",
             pc \in {"stream", "await"} <=> task[k].pc \in {"stream", "await"},
             pc \in {"finish", "completing"} => task[k].pc = "finish",
             UNCHANGED <<socket, run, generator>>, queue' \in [Served -> BOOLEAN]
      PROVE  IInv'
  <2>1. Moves(k, pc)
    BY <1>1, <1>2, GotoMoves
  <2>2. pc \in {"finish", "completing"} => run[k].stored
    BY <1>2 DEF IInv, DoneIsStored
  <2>3. socket' \in [Socket -> SocketState]
    BY <1>1, <1>2 DEF Typed
  <2> QED BY <1>2, <2>1, <2>2, <2>3, PlainMoves
<1>3. CASE Begin(k) \/ ScopeFails(k) \/ SendCompleted(k) \/ SendCancelled(k) \/ SendError(k)
  BY <1>1, <1>2, <1>3 DEF Typed, Begin, ScopeFails, SendCompleted, SendCancelled, SendError, TaskPcs
<1>4. CASE StreamEnds(k)
  BY <1>1, <1>2, <1>4 DEF Typed, StreamEnds, TaskPcs
<1> QED BY <1>3, <1>4, ScopeKeeps, ReturnKeeps, RememberKeeps DEF TaskStep

LEMMA RunKeeps == ASSUME IInv, NEW k \in Served, RunStep(k) PROVE IInv'
<1>1. Typed /\ UNCHANGED <<socket, task, generator>>
  BY TypedIsTypeOK DEF IInv, RunStep, ChooseAnswer, EndGeneration, PersistAnswer, RunFails
<1>2. queue' \in [Served -> BOOLEAN]
  BY <1>1 DEF RunStep, ChooseAnswer, EndGeneration, PersistAnswer, RunFails, Typed
<1>3. run[k].pc \notin {"none", "done", "failed"}
  BY DEF RunStep, ChooseAnswer, EndGeneration, PersistAnswer, RunFails
<1>4. \E pc \in RunPcs \ {"none"} : Runs(k, pc)
  <2>1. CASE ChooseAnswer(k)
    BY SMTT(30), <1>1, <2>1, Numbers DEF ChooseAnswer, Typed, Runs, RunState, RunPcs
  <2>2. CASE EndGeneration(k)
    <3>1. Runs(k, "persist")
      BY ZenonT(60), <1>1, <1>3, <2>2, Numbers DEF EndGeneration, Typed, Runs, RunState, RunPcs
    <3> QED BY <3>1 DEF RunPcs
  <2>3. CASE PersistAnswer(k)
    <3>1. Runs(k, "done")
      BY ZenonT(60), <1>1, <1>3, <2>3, Numbers DEF PersistAnswer, Typed, Runs, RunState, RunPcs
    <3> QED BY <3>1 DEF RunPcs
  <2>4. CASE RunFails(k)
    <3>1. Runs(k, "failed")
      BY ZenonT(60), <1>1, <1>3, <2>4, Numbers DEF RunFails, Typed, Runs, RunState, RunPcs
    <3> QED BY <3>1 DEF RunPcs
  <2> QED BY <2>1, <2>2, <2>3, <2>4 DEF RunStep
<1>5. Typed'
  BY <1>1, <1>2, <1>4 DEF Typed, Runs
<1>6. ProxyIsOwned' /\ GeneratorComesBack'
  BY <1>1 DEF IInv, ProxyIsOwned, GeneratorComesBack
<1>7. DoneIsStored'
  BY <1>1, <1>3, <1>4 DEF IInv, DoneIsStored, Runs
<1>8. ReplayIsStored'
  BY <1>1, <1>4, ReplaysStay DEF IInv, Runs
<1> QED BY <1>5, <1>6, <1>7, <1>8, TypedIsTypeOKNext DEF IInv

LEMMA NextIInv == IInv /\ [Next]_vars => IInv'
<1> SUFFICES ASSUME IInv, [Next]_vars PROVE IInv'
  OBVIOUS
<1>1. CASE Next
  BY <1>1, SocketKeeps, TaskKeeps, RunKeeps DEF Next
<1>2. CASE UNCHANGED vars
  BY <1>2 DEF vars, IInv, TypeOK, ProxyIsOwned, GeneratorComesBack, DoneIsStored, ReplayIsStored, Served
<1> QED BY <1>1, <1>2

-----------------------------------------------------------------------------

(* The inductive invariant holds of every reachable state.                 *)
THEOREM ChatInvariance == Spec => []IInv
BY InitIInv, NextIInv, PTL DEF Spec

(* A proxy is in place only while its own task streams.                    *)
THEOREM TheGeneratorComesBack == Spec => []GeneratorComesBack
<1>1. IInv => GeneratorComesBack
  BY DEF IInv
<1> QED BY <1>1, ChatInvariance, PTL

(* Only requests whose answer is stored are replayed.                      *)
THEOREM ReplaysAreStored == Spec => []ReplayIsStored
<1>1. IInv => ReplayIsStored
  BY DEF IInv
<1> QED BY <1>1, ChatInvariance, PTL
=============================================================================
