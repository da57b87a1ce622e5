--------------------------- MODULE DocumentIndex ---------------------------
(***************************************************************************)
(* What the knowledge tasks do to one document: its row, its versions, the *)
(* chunk rows in MySQL and their projection in OpenSearch, written by the  *)
(* API's transactions and by the handlers of WorkerLifecycleService.       *)
(*                                                                         *)
(* How a task reaches a worker is KnowledgeTasks' subject.  Here a task    *)
(* that claim() accepts may be delivered to any idle worker at any time,   *)
(* which allows every duplicate and every reordering of the broker.        *)
(*                                                                         *)
(* A version's source file and splitter settings never change, so all its  *)
(* chunk sets have the same chunk numbers; replace_chunks inserts them     *)
(* under new ids.  Chunk data is "fresh" when it cites the ids of the rows *)
(* that are there now, "stale" when it cites ids that were replaced.       *)
(***************************************************************************)
EXTENDS TaskRow, FiniteSets

CONSTANTS
    Worker,        \* worker processes, named by their worker_id
    Client,        \* concurrent API requests
    Parser,        \* parser_name and parser_version of uploads that are not forced
    Chunk,         \* chunk numbers of a version
    Calls,         \* which API calls the clients make
    MaxVersion,    \* bound: versions of the document
    MaxTasks,      \* bound: tasks created
    MaxAttempts,   \* max_attempts
    MaxFaults      \* bound: crashes and failed transactions

AllCalls == {"upload", "force", "revive", "rollback", "reindex", "delete",
             "cancel", "retry"}

ASSUME IndexAssumption ==
    /\ NoOne \notin Worker
    /\ {"none", "forced"} \cap Parser = {}
    /\ Chunk # {}
    /\ Calls \subseteq AllCalls
    /\ MaxVersion \in Nat /\ MaxTasks \in Nat /\ MaxFaults \in Nat
    /\ MaxAttempts \in Nat \ {0}

Version == 1..MaxVersion
Task == 1..MaxTasks

VARIABLES
    doc,       \* the documents row
    version,   \* document_versions: the parser of each version, or "none"
    rows,      \* index_status of each version's chunk rows, or "none"
    index,     \* the projection: [Version -> [Chunk -> Copy]]
    task,      \* async_tasks
    job,       \* task_type and target_version_no of each task
    worker,    \* what each worker process is doing
    client,    \* what each request has still to do
    faults

vars == <<doc, version, rows, index, task, job, worker, client, faults>>

Copy == {"absent", "stale", "fresh"}
DocStatus == {"NONE", "UPLOADED", "INDEXING", "READY", "FAILED", "DELETED"}
RowStatus == {"none", "PENDING", "INDEXED", "DELETED"}

HandlerPcs == {"load", "check", "update", "replace", "read", "purge", "upsert",
               "count", "mark indexed", "mark ready", "mark deleted"}
EndingPcs == {"complete", "cancel", "fail", "mark failed"}

IdleWorker == [pc |-> "idle", task |-> 0, version |-> 0, held |-> "absent"]
(* A forced upload gets a parser_version that no other version has.        *)
VersionKey == Parser \cup {"none", "forced"}

IdleClient == [pc |-> "idle", parser |-> "none", version |-> 0]

TypeOK ==
    /\ doc \in [status : DocStatus, deleted : BOOLEAN, current : 0..MaxVersion]
    /\ version \in [Version -> VersionKey]
    /\ rows \in [Version -> RowStatus]
    /\ index \in [Version -> [Chunk -> Copy]]
    /\ task \in [Task -> Rows(Worker, MaxAttempts)]
    /\ job \in [Task -> [op : {"INGEST", "REBUILD", "DELETE"}, target : 0..MaxVersion]]
    /\ worker \in [Worker -> [pc : {"idle"} \cup HandlerPcs \cup EndingPcs,
                              task : 0..MaxTasks, version : 0..MaxVersion, held : Copy]]
    /\ client \in [Client -> [pc : {"idle", "version", "ingest", "rebuild"},
                              parser : VersionKey, version : 0..MaxVersion]]
    /\ faults \in 0..MaxFaults

Init ==
    /\ doc = [status |-> "NONE", deleted |-> FALSE, current |-> 0]
    /\ version = [v \in Version |-> "none"]
    /\ rows = [v \in Version |-> "none"]
    /\ index = [v \in Version |-> [n \in Chunk |-> "absent"]]
    /\ task = [t \in Task |-> AbsentRow]
    /\ job = [t \in Task |-> [op |-> "INGEST", target |-> 0]]
    /\ worker = [w \in Worker |-> IdleWorker]
    /\ client = [c \in Client |-> IdleClient]
    /\ faults = 0

Fault == faults < MaxFaults /\ faults' = faults + 1

Complete(v) == \A n \in Chunk : index[v][n] # "absent"

-----------------------------------------------------------------------------
(* The API.  An upload is three transactions, a rollback and a reindex two. *)

Active == doc.status # "NONE" /\ ~doc.deleted

(* Bound: every request under way can still create its task.               *)
Room == Cardinality({c \in Client : client[c].pc # "idle"})
            < Cardinality({t \in Task : task[t].status = "ABSENT"})

(* Tasks are numbered in the order they are created.                       *)
AppendTask(op, target) ==
    \E t \in Task :
        /\ task[t].status = "ABSENT"
        /\ \A u \in Task : u < t => task[u].status # "ABSENT"
        /\ task' = [task EXCEPT ![t] = NewRow]
        /\ job' = [job EXCEPT ![t] = [op |-> op, target |-> target]]

(* Insert the document, or find it and revive it if it was deleted.  The   *)
(* parser follows from the file's suffix and the import_mode.              *)
CreateDocument(c, parser) ==
    /\ client[c].pc = "idle" /\ Room
    /\ "upload" \in Calls /\ (parser = "forced" => "force" \in Calls)
    /\ doc.deleted => "revive" \in Calls
    /\ doc' = IF doc.status = "NONE" \/ doc.deleted
              THEN [doc EXCEPT !.status = "UPLOADED", !.deleted = FALSE] ELSE doc
    /\ client' = [client EXCEPT ![c] = [IdleClient EXCEPT !.pc = "version", !.parser = parser]]
    /\ UNCHANGED <<version, rows, index, task, job, worker, faults>>

(* Variant: the status the document had is kept.                           *)
MarkCurrentQuietly(v) == doc' = [doc EXCEPT !.current = v]

(* _mark_current_version; is_current is kept by current_version_no.        *)
MarkCurrent(v) == doc' = [doc EXCEPT !.current = v, !.status = "INDEXING"]

(* Variant: an upload is never compared with the versions there are.       *)
NothingExists(c) == {}

(* Versions with the same parser_name and parser_version as the upload;    *)
(* the digest is the document's.                                           *)
Existing(c) == {v \in Version : client[c].parser # "forced" /\ version[v] = client[c].parser}

UseVersion(c, v) ==
    /\ MarkCurrent(v)
    /\ client' = [client EXCEPT ![c] = [IdleClient EXCEPT !.pc = "ingest", !.version = v]]
    /\ UNCHANGED <<rows, index, task, job, worker, faults>>

ReuseVersion(c) ==
    /\ client[c].pc = "version" /\ Active
    /\ \E v \in Existing(c) : UseVersion(c, v)
    /\ UNCHANGED version

NewVersion(c) ==
    LET v == doc.current + 1
    IN /\ client[c].pc = "version" /\ Active
       /\ Existing(c) = {}
       /\ v \in Version
       /\ version[v] = "none"
       /\ version' = [version EXCEPT ![v] = client[c].parser]
       /\ UseVersion(c, v)

(* The document was deleted meanwhile, or uq_doc_version refuses the number. *)
VersionRefused(c) ==
    LET v == doc.current + 1
    IN /\ client[c].pc = "version"
       /\ \/ ~Active
          \/ /\ Existing(c) = {}
             /\ v \in Version => version[v] # "none"
       /\ client' = [client EXCEPT ![c] = IdleClient]
       /\ UNCHANGED <<doc, version, rows, index, task, job, worker, faults>>

CreateIngest(c) ==
    /\ client[c].pc = "ingest"
    /\ AppendTask("INGEST", client[c].version)
    /\ client' = [client EXCEPT ![c] = IdleClient]
    /\ UNCHANGED <<doc, version, rows, index, worker, faults>>

Rollback(c, v) ==
    /\ client[c].pc = "idle" /\ Room /\ "rollback" \in Calls
    /\ Active
    /\ version[v] # "none"
    /\ MarkCurrent(v)
    /\ client' = [client EXCEPT ![c].pc = "rebuild"]
    /\ UNCHANGED <<version, rows, index, task, job, worker, faults>>

(* The request only reads the document before it creates the task.         *)
Reindex(c) ==
    /\ client[c].pc = "idle" /\ Room /\ "reindex" \in Calls
    /\ Active
    /\ client' = [client EXCEPT ![c].pc = "rebuild"]
    /\ UNCHANGED <<doc, version, rows, index, task, job, worker, faults>>

CreateRebuild(c) ==
    /\ client[c].pc = "rebuild"
    /\ AppendTask("REBUILD", 0)
    /\ client' = [client EXCEPT ![c] = IdleClient]
    /\ UNCHANGED <<doc, version, rows, index, worker, faults>>

(* Hide the document and create its DELETE task, in one transaction.       *)
DeleteWithOutbox ==
    /\ "delete" \in Calls /\ Room
    /\ Active
    /\ doc' = [doc EXCEPT !.status = "DELETED", !.deleted = TRUE]
    /\ AppendTask("DELETE", 0)
    /\ UNCHANGED <<version, rows, index, worker, client, faults>>

RequestCancel(t) ==
    /\ "cancel" \in Calls
    /\ CanCancel(task[t])
    /\ task' = [task EXCEPT ![t] = CancelTarget(@)]
    /\ UNCHANGED <<doc, version, rows, index, job, worker, client, faults>>

Retry(t) ==
    /\ "retry" \in Calls
    /\ CanRetry(task[t], MaxAttempts)
    /\ task' = [task EXCEPT ![t] = Requeued(@)]
    /\ UNCHANGED <<doc, version, rows, index, job, worker, client, faults>>

(* The API process dies, or the database refuses, between transactions.    *)
RequestAborts(c) ==
    /\ client[c].pc # "idle"
    /\ Fault
    /\ client' = [client EXCEPT ![c] = IdleClient]
    /\ UNCHANGED <<doc, version, rows, index, task, job, worker>>

-----------------------------------------------------------------------------
(* Leases and the recovery sweep, by row.                                  *)

LeaseExpires(t) ==
    /\ task[t].lease = "live"
    /\ task' = [task EXCEPT ![t].lease = "expired"]
    /\ UNCHANGED <<doc, version, rows, index, job, worker, client, faults>>

RecoverStale(t) ==
    /\ task[t].status = "RUNNING" /\ task[t].lease = "expired"
    /\ task' = [task EXCEPT ![t] = IF @.attempts >= MaxAttempts
                                   THEN Finished(@, "FAILED") ELSE Requeued(@)]
    /\ UNCHANGED <<doc, version, rows, index, job, worker, client, faults>>

-----------------------------------------------------------------------------
(* The worker.  INDEXING and VERIFYING are reported while the stage is not *)
(* interruptible already, so those reports change nothing kept here.       *)

(* The version a claim resolves: the task's target, or the current one.    *)
Resolved(t) == IF job[t].target # 0 THEN job[t].target ELSE doc.current

Unresolvable(t) == doc.status = "NONE" \/ Resolved(t) = 0

(* Where each handler starts.                                              *)
FirstPc == [INGEST |-> "load", REBUILD |-> "check", DELETE |-> "update"]

Claim(w, t) ==
    /\ worker[w].pc = "idle"
    /\ CanClaim(task[t], MaxAttempts)
    /\ ~Unresolvable(t)
    /\ task' = [task EXCEPT ![t] = Claimed(@, w)]
    /\ worker' = [worker EXCEPT ![w] =
                    [pc |-> FirstPc[job[t].op], task |-> t,
                     version |-> Resolved(t), held |-> "absent"]]
    /\ UNCHANGED <<doc, version, rows, index, job, client, faults>>

ClaimUnresolved(w, t) ==
    /\ worker[w].pc = "idle"
    /\ CanClaim(task[t], MaxAttempts)
    /\ Unresolvable(t)
    /\ task' = [task EXCEPT ![t] = Finished(@, "FAILED")]
    /\ UNCHANGED <<doc, version, rows, index, job, worker, client, faults>>

Op(w) == job[worker[w].task].op
(* The chunks a handler read are of use only until it has upserted them.   *)
Goto(w, pc) ==
    worker' = [worker EXCEPT ![w].pc = pc,
                             ![w].held = IF pc = "upsert" THEN @ ELSE "absent"]
Rests(w) == worker' = [worker EXCEPT ![w] = IdleWorker]

(* LOADING, CLEANING and SPLITTING are reported: the task may be cancelled *)
(* again, also if an attempt before had reached a later stage.             *)
ReportLoading(w) ==
    /\ worker[w].pc = "load"
    /\ task' = [task EXCEPT ![worker[w].task] =
                  IF OwnedRunning(@, w) THEN Heartbeat(@, "LOADING") ELSE @]
    /\ Goto(w, "check")
    /\ UNCHANGED <<doc, version, rows, index, job, client, faults>>

(* The first half of every checkpoint up to PERSISTING's: a cancellation   *)
(* seen at any of them ends the handler before it touched chunks or index. *)
CheckCancellation(w) ==
    /\ worker[w].pc = "check"
    /\ Goto(w, IF CancellationRequested(task[worker[w].task], w)
               THEN "cancel" ELSE "update")
    /\ UNCHANGED <<doc, version, rows, index, task, job, client, faults>>

(* PERSISTING (or DELETING) is reported, if the task is still owned.       *)
UpdateProgress(w) ==
    LET t == worker[w].task
    IN /\ worker[w].pc = "update"
       /\ task' = [task EXCEPT ![t] = IF OwnedRunning(@, w)
                     THEN Heartbeat(@, IF Op(w) = "DELETE" THEN "DELETING" ELSE "PERSISTING")
                     ELSE @]
       /\ Goto(w, CASE Op(w) = "INGEST"  -> "replace"
                    [] Op(w) = "REBUILD" -> "read"
                    [] Op(w) = "DELETE"  -> "purge")
       /\ UNCHANGED <<doc, version, rows, index, job, client, faults>>

(* New chunk rows: whatever cites the old ones is stale from now on.       *)
ReplaceChunks(w) ==
    LET v == worker[w].version
        Aged(copy) == IF copy = "fresh" THEN "stale" ELSE copy
    IN /\ worker[w].pc = "replace"
       /\ rows' = [rows EXCEPT ![v] = "PENDING"]
       /\ index' = [index EXCEPT ![v] = [n \in Chunk |-> Aged(@[n])]]
       /\ worker' = [u \in Worker |->
                       [worker[u] EXCEPT !.pc = IF u = w THEN "read" ELSE @,
                                         !.held = IF worker[u].version = v
                                                  THEN Aged(@) ELSE @]]
       /\ UNCHANGED <<doc, version, task, job, client, faults>>

(* chunks_for_version leaves deleted rows out; none left is an error.      *)
ReadChunks(w) ==
    /\ worker[w].pc = "read"
    /\ IF rows[worker[w].version] \in {"none", "DELETED"}
       THEN Goto(w, "fail")
       ELSE worker' = [worker EXCEPT
                         ![w].held = "fresh",
                         ![w].pc = IF Op(w) = "INGEST" THEN "upsert" ELSE "purge"]
    /\ UNCHANGED <<doc, version, rows, index, task, job, client, faults>>

(* Variant: a cancellation is still observed after the purge.              *)
PurgeInterruptibly(w) ==
    /\ worker[w].pc = "purge"
    /\ index' = [index EXCEPT ![worker[w].version] = [n \in Chunk |-> "absent"]]
    /\ Goto(w, CASE Op(w) = "DELETE" -> "mark deleted"
                 [] CancellationRequested(task[worker[w].task], w) -> "cancel"
                 [] OTHER -> "upsert")
    /\ UNCHANGED <<doc, version, rows, task, job, client, faults>>

Purge(w) ==
    /\ worker[w].pc = "purge"
    /\ index' = [index EXCEPT ![worker[w].version] = [n \in Chunk |-> "absent"]]
    /\ Goto(w, IF Op(w) = "DELETE" THEN "mark deleted" ELSE "upsert")
    /\ UNCHANGED <<doc, version, rows, task, job, client, faults>>

(* Bulk writes by deterministic ids: existing documents are overwritten.   *)
Written(w, numbers) ==
    index' = [index EXCEPT ![worker[w].version] =
                [n \in Chunk |-> IF n \in numbers THEN worker[w].held ELSE @[n]]]

Upsert(w) ==
    /\ worker[w].pc = "upsert"
    /\ Written(w, Chunk)
    /\ Goto(w, "count")
    /\ UNCHANGED <<doc, version, rows, task, job, client, faults>>

(* bulk() raises; what earlier batches wrote stays.                        *)
UpsertFails(w) ==
    /\ worker[w].pc = "upsert"
    /\ \E numbers \in SUBSET Chunk : numbers # Chunk /\ Written(w, numbers)
    /\ Goto(w, "fail")
    /\ UNCHANGED <<doc, version, rows, task, job, client, faults>>

CountProjection(w) ==
    /\ worker[w].pc = "count"
    /\ Goto(w, IF Complete(worker[w].version) THEN "mark indexed" ELSE "fail")
    /\ UNCHANGED <<doc, version, rows, index, task, job, client, faults>>

MarkChunksIndexed(w) ==
    /\ worker[w].pc = "mark indexed"
    /\ rows' = [rows EXCEPT ![worker[w].version] = "INDEXED"]
    /\ Goto(w, "mark ready")
    /\ UNCHANGED <<doc, version, index, task, job, client, faults>>

(* Variant: any version's handler makes the document READY.                *)
MarkAnyReady(w) ==
    /\ worker[w].pc = "mark ready"
    /\ doc' = [doc EXCEPT !.status = "READY"]
    /\ Goto(w, "complete")
    /\ UNCHANGED <<version, rows, index, task, job, client, faults>>

(* Only the current version's; deleted_at is neither read nor cleared.     *)
MarkDocumentReady(w) ==
    /\ worker[w].pc = "mark ready"
    /\ doc' = IF doc.current = worker[w].version
              THEN [doc EXCEPT !.status = "READY"] ELSE doc
    /\ Goto(w, "complete")
    /\ UNCHANGED <<version, rows, index, task, job, client, faults>>

MarkChunksDeleted(w) ==
    /\ worker[w].pc = "mark deleted"
    /\ rows' = [rows EXCEPT ![worker[w].version] = IF @ = "none" THEN @ ELSE "DELETED"]
    /\ Goto(w, "complete")
    /\ UNCHANGED <<doc, version, index, task, job, client, faults>>

HandlerRaises(w) ==
    /\ worker[w].pc \in HandlerPcs
    /\ Goto(w, "fail")
    /\ UNCHANGED <<doc, version, rows, index, task, job, client, faults>>

(* The ends of _execute.                                                   *)
CompleteTask(w) ==
    /\ worker[w].pc = "complete"
    /\ task' = [task EXCEPT ![worker[w].task] =
                  IF OwnedRunning(@, w) THEN Finished(@, "SUCCEEDED") ELSE @]
    /\ Rests(w)
    /\ UNCHANGED <<doc, version, rows, index, job, client, faults>>

CancelTask(w) ==
    /\ worker[w].pc = "cancel"
    /\ task' = [task EXCEPT ![worker[w].task] =
                  IF @.status \in LeasedStatuses /\ HoldsLease(@, w)
                  THEN Finished(@, "CANCELLED") ELSE @]
    /\ Rests(w)
    /\ UNCHANGED <<doc, version, rows, index, job, client, faults>>

FailTask(w) ==
    /\ worker[w].pc = "fail"
    /\ task' = [task EXCEPT ![worker[w].task] =
                  IF OwnedRunning(@, w) THEN Finished(@, "FAILED") ELSE @]
    /\ IF Op(w) = "DELETE" THEN Rests(w) ELSE Goto(w, "mark failed")
    /\ UNCHANGED <<doc, version, rows, index, job, client, faults>>

(* Variant: the document keeps the status it had.                          *)
KeepDocumentStatus(w) ==
    /\ worker[w].pc = "mark failed"
    /\ Rests(w)
    /\ UNCHANGED <<doc, version, rows, index, task, job, client, faults>>

MarkDocumentFailed(w) ==
    /\ worker[w].pc = "mark failed"
    /\ doc' = IF doc.current = worker[w].version
              THEN [doc EXCEPT !.status = "FAILED"] ELSE doc
    /\ Rests(w)
    /\ UNCHANGED <<version, rows, index, task, job, client, faults>>

(* The process is killed, or a transaction of _execute's end is refused.   *)
WorkerStops(w) ==
    /\ worker[w].pc # "idle"
    /\ Fault
    /\ Rests(w)
    /\ UNCHANGED <<doc, version, rows, index, task, job, client>>

-----------------------------------------------------------------------------

ClientStep(c) ==
    ReuseVersion(c) \/ NewVersion(c) \/ VersionRefused(c)
        \/ CreateIngest(c) \/ CreateRebuild(c)

WorkerStep(w) ==
    \/ ReportLoading(w) \/ CheckCancellation(w) \/ UpdateProgress(w)
    \/ ReplaceChunks(w) \/ ReadChunks(w) \/ Purge(w) \/ Upsert(w) \/ CountProjection(w) \/ MarkChunksIndexed(w)
    \/ MarkDocumentReady(w) \/ MarkChunksDeleted(w)
    \/ CompleteTask(w) \/ CancelTask(w) \/ FailTask(w) \/ MarkDocumentFailed(w)

ClaimStep(w, t) == Claim(w, t) \/ ClaimUnresolved(w, t)

Next ==
    \/ DeleteWithOutbox
    \/ \E c \in Client :
          \/ \E parser \in Parser \cup {"forced"} : CreateDocument(c, parser)
          \/ \E v \in Version : Rollback(c, v)
          \/ Reindex(c) \/ ClientStep(c) \/ RequestAborts(c)
    \/ \E t \in Task : RequestCancel(t) \/ Retry(t) \/ LeaseExpires(t) \/ RecoverStale(t)
    \/ \E w \in Worker, t \in Task : ClaimStep(w, t)
    \/ \E w \in Worker : WorkerStep(w) \/ UpsertFails(w) \/ HandlerRaises(w) \/ WorkerStops(w)

Spec == Init /\ [][Next]_vars

(* Requests and workers that are up go on, and KnowledgeTasks shows that a *)
(* task which waits is claimed: EveryTaskSettles.                          *)
FairSpec ==
    /\ Spec
    /\ \A c \in Client : WF_vars(ClientStep(c))
    /\ \A w \in Worker : WF_vars(WorkerStep(w))
    /\ \A t \in Task : /\ SF_vars(\E w \in Worker : ClaimStep(w, t))
                       /\ WF_vars(LeaseExpires(t)) /\ WF_vars(RecoverStale(t))

-----------------------------------------------------------------------------
(* Properties.                                                             *)

Settled(t) == task[t].status \notin {"PENDING", "RUNNING"}

(* Nothing is under way: no request, no handler, no task to come.  One     *)
(* that is asked to cancel and has no handler any more stays as it is.     *)
Quiet ==
    /\ \A w \in Worker : worker[w].pc = "idle"
    /\ \A c \in Client : client[c].pc = "idle"
    /\ \A t \in Task : Settled(t)

FullyIndexed(v) ==
    /\ rows[v] = "INDEXED"
    /\ \A n \in Chunk : index[v][n] = "fresh"

(* Eventual consistency of MySQL and OpenSearch: once all tasks are done,  *)
(* the current version of a READY document is in the index completely and  *)
(* cites the chunk rows that exist, whichever tasks failed or were         *)
(* cancelled on the way, or asked to cancel and carried out all the same   *)
(* (_checkpoint, _execute, _index_and_finalize).                           *)
AtRestReadyIsIndexed ==
    Quiet /\ doc.status = "READY" /\ ~doc.deleted => FullyIndexed(doc.current)

(* A document turns READY only when the version that is current has all    *)
(* its chunks written and counted: not because of a handler that worked on *)
(* another one (mark_document_ready).                                      *)
TurnsReadyVerified ==
    doc'.status = "READY" /\ doc.status # "READY" => FullyIndexed(doc'.current)

ReadyIsVerified == [][TurnsReadyVerified]_vars

(* Whatever workers race or die, a READY document has chunk rows for its   *)
(* current version (mark_document_ready, _mark_current_version).           *)
ReadyHasRows == doc.status = "READY" => rows[doc.current] # "none"

(* The same content uploaded again for the same parser, by whoever and     *)
(* whenever, is the same version, unless its uploader forces a new one     *)
(* (create_document_version_idempotent).                                   *)
OneVersionPerParser ==
    \A u, v \in Version : version[u] \in Parser /\ version[u] = version[v] => u = v

(* "The server judges duplicates by the file's SHA-256 and its knowledge   *)
(* base, unless force_new_version is set" (docs/project, API, line 150):   *)
(* of the uploads of one content that are not forced there is one version. *)
OneUnforcedVersion ==
    \A u, v \in Version : version[u] \in Parser /\ version[v] \in Parser => u = v

(* Why a READY document has rows: a handler that will upsert and count has *)
(* read some, and chunk rows are never taken away.                         *)
HandlersHaveRows ==
    \A w \in Worker : worker[w].pc # "idle" =>
        /\ worker[w].task \in Task /\ worker[w].version \in Version
        /\ task[worker[w].task].status # "ABSENT"
        /\ \/ worker[w].pc \in {"upsert", "count", "mark indexed", "mark ready"}
           \/ worker[w].pc = "purge" /\ Op(w) # "DELETE"
           => rows[worker[w].version] # "none"

ReadyHasVersion == doc.status = "READY" => doc.current # 0

IInv == TypeOK /\ HandlersHaveRows /\ ReadyHasVersion /\ ReadyHasRows
            /\ OneVersionPerParser

(* A document does not stay INDEXING when no process dies: each request    *)
(* that made it INDEXING is followed by a task that works on the version   *)
(* which is current then (upload, rollback, claim).  Only a cancelled task *)
(* leaves it there.                                                        *)
SomeCancelled == \E t \in Task : task[t].status \in {"CANCEL_REQUESTED", "CANCELLED"}

IndexingSettles == doc.status = "INDEXING" ~> doc.status # "INDEXING" \/ SomeCancelled
=============================================================================
