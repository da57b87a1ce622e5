# LocalLife-Copilot: formal models of the backend

TLA+ models of the parts of the backend (`backend/app`) whose correctness depends on
interleavings, failures and ordering. TLC checks them on small instances; TLAPS proves every safety
property that a passing run checks, for every value of the constants, four of them under hypotheses
that section 5 states. Liveness is model-checked only. Paths below are relative to `backend/app`, and `repositories/` is
`infrastructure/db/repositories/`.

## 1. Inventory of the system

| Part | State it keeps | Operations | Talks to |
| --- | --- | --- | --- |
| Task rows (`application/tasks.py`, `repositories/tasks.py`, `repositories/lifecycle.py`) | `async_tasks`: status, stage, attempts, lease | create, claim, heartbeat, cancel, retry, finish, sweep | everything asynchronous |
| Outbox (`repositories/tasks.py`, `worker.py`) | `outbox_events`: published, lease | append in the caller's transaction, claim a batch, send, mark | Celery's Redis broker |
| Workers (`worker.py`, `etl/lifecycle.py`) | the handler under way, the claims it holds | `_execute` of INGEST, REBUILD, DELETE; `knowledge.retry` | task rows, documents, OpenSearch |
| Documents (`repositories/knowledge.py`, `api/knowledge.py`) | document, versions, chunk rows | upload, forced version, revive, rollback, reindex, delete | tasks, index |
| Search projection (`etl/adapters.py`, `infrastructure/search`) | OpenSearch documents by version and chunk number | upsert, delete by query, count, search | workers write, chat reads |
| Operational tasks (`operations/task_runtime.py`, `repositories/operations.py`) | fine-tuning job, its task, artifacts | create, train, cancel, evaluate | task rows, a subprocess |
| Governance (`repositories/governance.py`, `application/model_routing.py`) | prompt and model versions, deployments | publish, canary, full, roll back, route | audit log |
| Conversations (`repositories/conversations.py`, `infrastructure/cache/conversations.py`, `agents/memory.py`) | messages in a tree, the current branch, a summary and constraints in the settings, the Redis window | append, truncate, delete, load, invalidate, summarise | MySQL, Redis |
| Chat session (`api/websocket_chat.py`) | receive loop, request tasks, the runtime's generator | send, cancel, disconnect | agent runtime |
| Accounts (`repositories/identity_management.py`, `repositories/auth.py`, `application/auth.py`) | users, their roles, refresh tokens | create, disable, delete, reset, replace roles, log in, refresh, log out | row locks of MySQL |
| Login limiter (`application/login_rate_limit.py`, Redis variant) | failures per subject: user name and client IP | status, record, reset | auth API |
| Feedback and datasets (`application/feedback.py`, `application/dataset_service.py`, `repositories/feedback.py`, `repositories/dataset.py`) | a row per user and message, its audit trail, datasets and their items | submit, decide, generate | MySQL |
| Reviews, analyses, replies (`repositories/operations.py`, `repositories/merchant_import.py`, `run_merchant_analysis`) | a merchant's reviews, their analyses, replies | submit, moderate, import, analyse, reply | the sentiment model, task rows |
| Everything else | see `PROJECT.json`, "components" | | |

What is hard about it: workers and publishers race under leases that may run out while their
owner is still busy; the broker delivers late, twice or never; a handler is a chain of separate
transactions on MySQL and OpenSearch and may raise or be killed between any two; the API itself
spreads an upload over three transactions; a cancellation races with progress; what a task works
on is resolved when it is claimed, not when it is created. What makes each part correct:

* tasks: a waiting task is on its way to a worker or will be found by the sweep; attempts are
  bounded; a worker that lost its lease changes nothing; a task that was asked to cancel does no harm;
  every task comes to an end;
* documents: READY means indexed completely; the same content is one version for a parser; a document does
  not stay INDEXING; a deleted document is not found;
* fine-tuning: one specification is trained once, job and task tell the same story, an early
  cancellation is final, a job ends;
* governance: one prompt version is in use and history is kept; the traffic of a route adds up,
  what goes live was approved, a rollback takes all of the traffic;
* conversations: answers are under their questions, once; a summary and what a model is given are
  of one branch, whatever the cache holds; truncation leaves nothing of the branch it leaves;
* chat: the shared generator comes back, every request ends, replays are true;
* accounts: an inactive account has no session, a session has one token and does not come back once
  ended, one administrator stays, failed logins of a user from one address are bounded;
* feedback: no update is lost, the audit trail is complete and in order, and what a dataset holds
  can be found in it and was approved;
* reviews: a user's words are one review, only what is published is analysed, a decision is final,
  a reply stays with the review it answers.

The hazards at their lines are in `PROJECT.json`, "hazards".

## 2. Modules

| Module | What it is |
| --- | --- |
| `TaskRow` | one row of `async_tasks`: guards (`CanClaim`, `CanRetry`, `CanCancel`, `OwnedRunning`, ...) and effects (`Claimed`, `Heartbeat`, `Finished`, `Requeued`, ...). No variables |
| `KnowledgeTasks` | task rows, outbox, publisher, broker, workers, sweep |
| `TaskLifecycle` | abstract specification: the statuses and attempts a task may go through |
| `KnowledgeTasks_proofs` | theorems about `KnowledgeTasks` |
| `DocumentIndex` | one document: its row, versions, chunk rows and projection, under the API and the handlers |
| `FineTuning` | jobs, their training and evaluation tasks (`TaskRow`), the command and two kinds of handler |
| `Governance` | prompt versions, model versions and deployments under concurrent administrators |
| `Conversations` | one conversation's tree, settings and cache under turns, readers and clients |
| `ChatSession` | sockets, request tasks, runs and the runtime's generator |
| `Accounts` | users, refresh tokens, row locks and the failure counter |
| `SessionLifecycle` | abstract specification: how sessions begin and end with the users who may log in |
| `Feedback` | feedback rows, their audit trail and the datasets built from them |
| `Reviews` | one merchant's reviews, analyses and replies under users, moderators, imports, jobs and clerks |
| `DocumentIndex_proofs`, `FineTuning_proofs`, `Governance_proofs`, `Conversations_proofs`, `ChatSession_proofs`, `Accounts_proofs` | theorems about these |
| `Moderation_proofs` | theorems about `Reviews` and `Feedback` |
| `MC...` | instances for TLC |

`FineTuning` and `KnowledgeTasks` share `TaskRow`: both repositories write the same table. What
`KnowledgeTasks` shows of dispatch (a waiting task reaches a worker) is what `DocumentIndex` and
`FineTuning` assume as strong fairness of a claim. `ChatSession` and `Conversations` are the two
sides of a chat turn: the first has the tasks and the generator and leaves to the second what a
run reads and stores.

Definitions named "Variant" are plausible bugs of the definition below them. No specification
uses them; they are there to be put in its place, to see that a property notices.

### TaskRow and KnowledgeTasks

`task` is the table, one record per task. The clock is abstracted: `locked_until` is `"none"`,
`"live"` or `"expired"`, and `LeaseExpires` may happen whenever a lease is live, so a handler may
always turn out slower than its lease. `outbox[<<t, s>>]` are the unpublished events of task `t`
(`"new"`, `"leased"`, `"expired"`; a published row is `"free"` again). `queue[t]` counts messages
in the broker; messages for one task are alike. `worker[w]` is the process's place in `_execute`
and `pub[p]` a publisher's batch and the event it has sent and not marked. `lost` is a history
variable: tasks whose last dispatch the broker or a crash dropped.

One action is one database transaction. `_checkpoint` is two (`CheckCancellation`,
`UpdateProgress`), because a cancellation may come between; `fail_task` and
`complete_task` are one each and are no-ops unless the worker owns the task. So a handler that has
looked before the cancellation came reports in vain and goes on to its end, past PERSISTING;
`CancellationIsInterruptible` is about what the row shows meanwhile, and what becomes of the document
is `DocumentIndex`'s `AtRestReadyIsIndexed`. `Plan` lists the progress reports of each handler. A handler may raise at any report (`HandlerRaises`); what it
does to documents is left to `DocumentIndex`. `OwnedRunning` compares `locked_by`, which is the
host name: `NamesAssumption` states that two processes have different ones (one process per
container, `compose.yaml` runs `--concurrency=1`).

Faults, `MaxFaults` in number: a publisher or a worker crashes (`task_reject_on_worker_lost`
queues its message again), the broker redelivers while the worker is busy (`visibility_timeout`)
or loses a message, a send or a database transaction fails.

### TaskLifecycle

What the API shows of a task: ABSENT, PENDING, RUNNING, CANCEL_REQUESTED and the terminal
statuses, attempts spent only by starting and never beyond the limit, success only out of
RUNNING, and a running task cancelled only through a recorded request. `KnowledgeTasks`
implements it with `status` and `attempts` of the rows as the refinement mapping
(`ImplementsLifecycle`), checked and proved. The operational tasks of `FineTuning` are rows of the
same table and take only its steps and one more, a CANCELLED task that is asked to cancel
(`FollowsLifecycle`, checked and proved; finding 9).

### DocumentIndex

One document (the uploads of one content: `source_key` is the digest, so a document's versions are
uploads of the same bytes). An upload finds the version it repeats by the key of the code, digest,
`parser_name` (the suffix of the file) and `parser_version` (which tells the two import modes apart);
`Parser` has the pairs of the last two, and the version of a forced upload, whose `parser_version` has
a fresh UUID in it, is `"forced"`. So the same bytes under another suffix or in another import mode
are a second version of the document (`OneVersionPerParser`; finding 10). `doc` has status, `deleted` and
`current`; `deleted` is separate because a handler may write a status over a deleted document.
`is_current` is always that of `current_version_no` (`_mark_current_version` writes both in one
transaction), so one of them is kept. `rows[v]` is the index status of a version's chunk rows and
`index[v]` what is projected of each chunk: absent, or written from chunk rows that are still there
(`"fresh"`) or were replaced since (`"stale"`).

API requests are processes: an upload is three transactions (`CreateDocument`,
`ReuseVersion`/`NewVersion`/`VersionRefused`, `CreateIngest`), a rollback and a reindex two. A
worker's handler is the chain of its transactions and index calls, and any may raise. The
delivery of tasks is abstracted to "any claimable task, at any time", which includes every
duplicate and reordering that `KnowledgeTasks` allows. INDEXING and VERIFYING reports change
nothing but a stage that is already not interruptible and a lease that is already live, and are
left out. The three checkpoints of an ingest before PERSISTING are one report (`ReportLoading`)
and their looks for a cancellation one with the last (`CheckCancellation`): the document's chunks and
its index are not touched between them. (In the import mode for merchants' reviews, reviews are
committed between two of them, `etl/lifecycle.py:372`; that is `ImportRecord` of `Reviews`.) `Calls` selects what clients may do in a run.

### FineTuning

`job` is the row of `fine_tuning_jobs` (status, whether it has an artifact, what an evaluation
said), `task` the two kinds of task, `process` the training or evaluation command of each task.
`job` and `task` are written in separate transactions, in the order of the code. Two differences
from `KnowledgeTasks` make the protocol weaker and are modelled as they are: every process claims
under the one name `celery-operational-worker`, so a lease does not tell two workers apart, and
`cancel_fine_tuning_job` sets the task CANCEL_REQUESTED whatever its status was. What saves the
protocol is `max_attempts = 1`: a task is claimed once. `_run_command` is a loop of polls and
heartbeats; a step of it that raises leaves the command running (`TransactionFails`). The job row
has an optimistic version, so of two transactions that overlap one fails whole; each is one action.

### Governance

A publication or release takes its lock anchor (the prompt definition's row, the route's row) and
reads, then writes and commits: two actions, between which others may run. Prompt versions are
numbered; `content` is the number of the version a content was first stored under. A prompt
rollback reads before it locks, so its number comes from an older snapshot (`RollbackPrompt`,
`RollbackLocks`, `CommitRollback`) and the unique key may refuse it. Deployments are in the order
of their creation, which `Resolve` uses as `ModelRouter` does. Requests that the code refuses are
actions that are not enabled.

### Conversations

A message is its `sequence_no`; a fact is represented by the messages it was taken from, so
"a summary of messages 1 to 4" is the set `{1, 2, 3, 4}` and "leaks" is an element that does not
belong. A turn goes through the steps of `ChatAgentRuntime.run` that touch the repository or the
cache; every model, guard or tool in between is a choice of the next step. A turn may be aborted
anywhere, as a cancelled or failing one is. The cache is read-through and its invalidation may be
refused; an entry may expire at any time. `HotLimit` is `2 * context_turns`, `Window` the cache's
window and `Context` the number of messages a model is given. Sequences of requests with the same
id are turns with the same `Request`.

### ChatSession

One API process is one event loop, and an action is what runs between two awaits. `generator` is
`runtime._generator`: 0 is the one it was created with and `k` the proxy of served request `k`.
Generation happens in a thread, so a cancelled run may still put an end marker. Of the token queue
only end markers are kept.

### Accounts

Managing requests lock the user's row first; `_protect_last_platform_admin` locks the role's row
and counts. InnoDB's REPEATABLE READ matters: a locking read sees what is committed, a plain read
the snapshot fixed by the transaction's first plain read. `seen` is that snapshot where it is
older than the count (`ReplaceUserAccess`). Tokens are numbered as issued; a login and its
refreshes are one `session`. An expired refresh token is treated as the code treats it, like a
revoked one (`Logout` may "expire" any token). LOCKED is treated as DISABLED, as the code does.
Failures are counted per `Subject`, a user and the address of the client, as
`login_rate_limit_subject` makes the key; `Subject` bounds who logs in from where. `WindowEnds` is the
expiry of the Redis counter.

### SessionLifecycle

What all of that promises of a session: it begins under a number of its own, for a user who may log
in at that moment; it belongs to him until it ends; it ends at the latest in the step that bars him;
it does not come back (`NeverRevived`). `Accounts` implements it (`ImplementsSessions`): who may log
in is what `CanAuthenticate` says of the users' rows, a session is open while one of its tokens
works, and a number is used once its token was issued. A rotation replaces the token and leaves the
session as it is, so what takes several transactions and locks in `Accounts` is one step here, or
none.

### Feedback

A `Key` is a user and a message, `Content` what one submission says. A submission is two
transactions, the look for the row (`SubmitFeedback`) and its creation or update; a decision reads
its row without a lock and `version_id_col` looks for the version read when it is written. The
model has SQLAlchemy's reading of that column: an assignment of what is stored already is no
change, so the row is not updated and its version not counted, while the audit row is written
(`Resubmitted`). A dataset is queried, saved with the hash of its lines and given its items in
three steps. Redaction, quality rules and the split may drop any authorized row and put the lines
in any order (`Files`); two datasets with the same lines have one hash, whoever wrote the lines.
`approved` is a history variable: what each row said when it was approved.

### Reviews

A review is its place in the order of `created_at`. Reviews and analyses draw their ids from one
space, as replies take either: the analysis of an approval has the id of its review, those of jobs
and imports have fresh ones, which are handed out in blocks of `MaxReviews` (`FreshId`). `of`, the
review that an analysis was made of or that a clerk was looking at, is history: the code has the
text only. Texts are compared by the database, whose collation is blind to case and accents
(`infrastructure/db/models/identity.py:29`), so a `Text` stands for all the spellings that it takes
for one, and "the words" of a review are its words up to those. A date is `"before"` or `"since"` the start of an incremental job. The tables are those
of one merchant; a file has one row per import, and imports of one merchant exclude each other by
the version of the merchant's row, which each of them writes (`Overtaken`). A job is what
`run_merchant_analysis` loads and, after an inference of any length, saves; its task row is that of
`TaskRow` and is left out. The safety service's verdict and the failure of the sentiment model are
choices.

## 3. Runs

| Run | Checks | Instance |
| --- | --- | --- |
| `task_safety` | `PendingIsClaimable`, `CancellationIsInterruptible`, `PendingIsDispatched`, `OnlyLatestClaimReports`, `ImplementsLifecycle`, `EveryTaskSettles` | one REBUILD task, two workers, one outbox slot, two attempts, two queued copies, one fault |
| `task_cancel` | `CancellationIsHonoured`, violated | finding 1 |
| `idx_rest` | `AtRestReadyIsIndexed`, `ReadyIsVerified`, `IndexingSettles` | one worker, one client, one parser, two versions, two tasks with two attempts, cancellations and retries, handlers that raise, no crash |
| `idx_race` | `ReadyHasRows`, `OneVersionPerParser` | two workers, two requests, two parsers and forced uploads, two versions, one chunk, deletion and revival, rollback, one crash |
| `fine_tuning` | `TaskTellsTheJob`, `SuccessIsTrained`, `CancelledEarlyIsFinal`, `CancellationStops`, `JobSettles`, `FollowsLifecycle` | a job and an evaluation, two workers, one fault |
| `governance` | `OnePublished`, `TrafficFits`, `ActiveTakesAll`, `HistoryIsKept`, `ReleasedIsApproved` | two administrators, two models, one route, shares 50 and 100, three prompt versions, three deployments |
| `conversations` | `VisibleIsThePath`, `AnswersItsQuestion`, `SummaryIsOfItsBranch`, `ModelSeesOneBranch` | two turns with one or two request ids, a reader, a client, four messages of which one may be there at the start |
| `chat` | `GeneratorComesBack`, `ReplayIsStored`, `DisconnectEndsTasks` | two sockets, two request ids, two served requests |
| `accounts` | `SessionsAreOfActiveUsers`, `OneTokenPerSession`, `FailuresAreBounded`, `DisablingKeepsAnAdmin`, `ImplementsSessions` | two users, one of whom logs in from two addresses, two managing requests, two clients, three tokens |
| `last_admin` | `AnAdminStays`, violated | finding 2 |
| `feedback` | `AuditInOrder`, `SamplesAreTraceable`, `VersionsCount` | one row, two contents, two submissions, two decisions and two datasets at a time, three versions |
| `reviews` | `AnalysedIsPublished`, `RepliesFit`, `DecisionsStand` | a user and an imported source, two texts, one date, a poster, a moderator, an import, a job, a clerk, one reply |

The type and inductive invariants (`IInv`, `FeedbackInv`) hold of every instance by the theorems of
section 5, as does `LeaseMatchesStatus`, and are in no run. The largest runs are `idx_rest` (0.6
million states, three minutes, most of them for the liveness), `idx_race` (1.3 million states, two
minutes), `accounts` (0.5 million states, two minutes) and `reviews` (2.7 million states, three
minutes). With a second client `idx_rest` has 1.1 million states and passes as well, but takes the
liveness several times as long; its two safety properties are proved for any number of clients.

Bounds. `MaxAttempts` is 3 in the code; 2 already tells a first, a last and a spent attempt apart.
One task suffices for the row protocol, since tasks meet only in batches and sweeps, whose rows are
treated one by one; the proofs hold for any number. REBUILD has checkpoints and plain reports,
interruptible and not, in the fewest steps. `MaxQueued` saturates: a third copy of a message that a
claim refuses adds nothing. `Slot` bounds unpublished events of one task: a retry and the sweep add
one only once the earlier is claimed or published. Two versions are needed for a superseded one.
Faults are single because each failure is repaired, or not, on its own. In `FineTuning` an
evaluation is of the one job, and two workers are the least that can share a name. In `Governance`
three deployments are one canary, another and what replaces them; buckets 0 and 99 are the two sides
of a share of 50. In `Conversations` four messages are a branch point with a branch on each side;
`HotLimit` equals `Window`, as in the code, where both are 20, so that the boundary between a whole
and a cut history is reached. `MaxAttempts = 1` of the login limiter makes every failure one at the
limit. In `Feedback` the rows are independent, so one suffices; three versions are a submission, a
change and a decision, or two changes. In `Reviews` two reviews are the least that can share their
words, and `MaxId` leaves two blocks of fresh ids beside the reviews' own, enough for a job to
replace what another job or an import made. Deadlock is not checked: tasks, attempts, versions,
messages, tokens and faults are finite and a system whose work is settled rightly stops. Symmetry is
used in safety runs only, on processes, clients, addresses, parsers, models, routes, users, texts and
chunk numbers, which are interchangeable. One chunk is enough for `idx_race`, whose properties do not
speak of the index but through the count of `CountProjection`, which finds it complete or not. A history longer than a page of `_load_visible_messages` is not in the
instance: with `PageSize = 1` pages of two branches are mixed and `SummaryIsOfItsBranch` fails
(section 5).

Fairness. In `KnowledgeTasks`, celery beat starts the publisher every 5 s and the sweep every
30 s, so both are weakly fair; a process that is up goes on (`WorkerStep`, weakly fair); leases
run out (weakly fair). The broker's list is first in, first out, so a message cannot be
overtaken for ever: `Deliver` is strongly fair per task. No user action, exception or fault is
ever forced. In `DocumentIndex` and `FineTuning` a claim is strongly fair, which is what
`EveryTaskSettles` gives, and what is under way goes on; that a training command ends is not
assumed. In `ChatSession` the event loop runs whatever is ready, and a model, a thread or the
database returns or fails in the end, for which the clients have timeouts; `StreamEnds` is a part
of that fairness only when there is a marker to read. The other modules state safety only.

## 4. Findings

Two of them are runs that expect a violation:

1. **A cancellation may never be honoured** (`task_cancel`). Once a RUNNING task is
   CANCEL_REQUESTED, only the worker holding its live lease can end it, at its next look. If the
   lease runs out (a step longer than 60 s, or a dead worker), claim, retry and sweep all refuse the
   task, for ever. So they do without a lost lease: when the handler raises, `fail_task` wants a
   RUNNING task; and when the request comes between the last look and its report, the handler goes on
   and makes the document READY, and `complete_task` wants a RUNNING task as well.
2. **The last administrator can be removed** (`last_admin`). `replace_user_access` reads before
   it locks the role, and counts administrators on that older snapshot. In the trace one request
   disables one of the last two, which is counted properly, and another takes the role from the
   other, on a snapshot from before the first committed; two requests that take the role do the same.

The others have a configuration of their own, which is not among the runs; each is shown by
`tlc -config <configuration>.cfg <module>`, which ends with a violation of the property named:

3. **Facts of an abandoned branch come back** (`MCTruncate`, `MCConversations`:
   `NoAbandonedFacts`). Truncation drops the stored constraints so that they "cannot leak into
   later turns"; a turn under way writes them back.
4. **A streamed request may never be answered** (`MCChatAnswer`, `MCChatSession`:
   `RequestIsAnswered`). The stream waits for an end marker that only a generation that returns
   puts: a question back, a refused input, a tool's result or an exception leaves the request open
   until the client cancels or goes away.
5. **A version number is used twice in the audit trail** (`MCResubmit`, `MCFeedback`:
   `AuditVersionsDiffer`). Feedback that is submitted again as it is leaves the row's version and
   gets an audit row with the next number, each time the same; the documents and a test on an
   in-memory repository expect the version to count.
6. **An approval outlives what was approved** (`MCAuthorised`, `MCFeedback`:
   `SamplesAreAuthorised`). A later submission changes the content and leaves APPROVED, and the
   dataset takes what nobody looked at.
7. **One review is stored twice** (`MCReviewTwice`, `MCReviews`: `OneReviewPerText`). The look for
   the same user, merchant and content is a plain read and no unique key stands behind it.
8. **A reply is kept under another review** (`MCReplyLost`, `MCReviews`:
   `RepliesAreUnderTheirReviews`). An analysis made by a job is traced back to the earliest review
   with the same words, of any author and status; an id that a job has replaced since is not traced
   at all.
9. **A cancelled task is asked to cancel again** (`MCTaskRevived`, `MCFineTuning`:
   `ImplementsLifecycle`). CANCELLED is among `TERMINAL_TASK_STATUSES` (`application/tasks.py:27`).
   When the training task of a job is cancelled by itself, the job stays PENDING; cancelling the
   job then writes CANCEL_REQUESTED over the task's CANCELLED (`repositories/operations.py:668`).
   No worker holds the task's lease, so nothing ends it a second time.

10. **One content, two versions that nobody forced** (`MCIndexParsers`, `MCDocumentIndex`:
    `OneUnforcedVersion`). The API document judges duplicates by SHA-256 and knowledge base "unless
    `force_new_version=true`" (`docs/project/...-03-API...md:150`); the code compares the parser's name
    and version too (`repositories/knowledge.py:498-501`), so the same CSV under another suffix, or as
    knowledge and then as merchants' reviews, becomes a second version, which is current from then on.

Three more are visible in `DocumentIndex` when its `Calls` include deletions or rollbacks and no
property of the runs excludes them, since the code does not prevent them. A deleted document stays
searchable: an ingest accepted before the deletion may run after it, a DELETE purges only the
version current when it is claimed, and `mandatory_search_filter` has no filter for it, although
the database rules promise one. A late or retried DELETE wipes the index of a document uploaded
again, which stays READY (`repositories/lifecycle.py:67`). A forced upload after a rollback asks
for a version number that exists and is refused (`repositories/knowledge.py:511`): the unique key
raises, the transaction is rolled back and the document stays as it was, which in the model is the
shape of `VersionRefused` and so no property; the user cannot upload until he rolls forward.

Seen on the way and not claimed by any document: a worker killed in the middle of a rebuild's last
attempt, or an API process killed between making a version current and creating its task, leaves a
document READY without an index, or INDEXING for good; nothing reconciles them. With two worker
processes `ReadyIsVerified` fails too: one purges a version between the other's count and its mark.
An operational task whose worker dies stays RUNNING, for the sweep covers document tasks only
(`Abandoned`). A chat request that is cancelled while it streams
still stores its answer, because its run is a task of its own; a request that begins while another
socket streams uses that one's proxy and feeds its stream. A canary without an active deployment
gets all of the traffic, though it asked for a share. Logging out moves
`access_tokens_valid_after` to its own time even when a later revocation has set it further on. A
dataset whose process ends before its items are saved is READY without any, and its hash keeps it
from being built again. A job's save deletes the analysis of a review that was approved or imported
after it had loaded, until the next job.

## 5. Proofs

Each model with proofs has one invariant, `IInv` (`FeedbackInv` in `Feedback`), shown to hold
initially, to be preserved by every action (one lemma per action or group of actions) and to imply
the properties; some have a second one on top of it, for what needs more. Each was checked by TLC on the instance of its run
before it was proved. The only assumptions are the named ASSUMEs of the modules and, where a
theorem says so, its own.

**KnowledgeTasks_proofs** assumes `TasksAssumption` and `NamesAssumption`: any sets of tasks,
workers, publishers and slots, any bounds. The properties are not inductive by themselves; `IInv`
adds what they rest on:

* `AbsentIsNew`: a row not yet inserted has spent nothing, so that creating it makes it claimable
  and the abstract `Submit` starts from zero;
* `WorkersAreBusy`: a worker in a handler has a task and a report left to make;
* `OwnersHaveTheLatestClaim`: while the row names a worker as owner, the worker's claim is the
  row's last one. This is fencing, and it needs `NamesAssumption`;
* `SeenCancellationStands`: a worker that saw a cancellation and still owns the row finds the
  request there, so `cancel_task`, which also accepts RUNNING, never cancels a task unasked, nor one
  whose row shows PERSISTING or a later stage;
* `PendingIsCarried`: a waiting task has a message, or a worker about to claim it, or an event that
  no publisher has sent already. `PendingIsDispatched` alone is not preserved when an event that
  was sent is marked published: the argument is that a sent event is never the only thing that
  carries the task, because sending it put a message into the queue.

`LeasesMatch`, `WaitingCanStart`, `CancellationStopsProgress`, `OutboxDelivers` and `TypeCorrect`
follow. `StaleWorkersAreFenced` (action property) and `Implements` (refinement) are proved from the
same invariant.

**DocumentIndex_proofs.** A handler that is going to project or to count the chunks of a version
has read rows of it (`HandlersHaveRows`), and rows, versions and tasks are never taken away, so a
READY document has a version and that version has rows: `ReadyDocumentsHaveRows`, with any number
of workers, crashes and attempts. `SameUploadIsOneVersion` needs the document's lock only: the
first version of a parser is found by whoever looks for it later. READY means verified
(`OneWorkerVerifies`) is proved from the further assumption `OneWorker`, as deployed: what the
handler read, wrote and counted stays as it is until it marks the document, since the API touches
neither rows nor index and nobody else does. The race of two workers shows that the assumption
cannot be dropped.

That a READY document is in the index when all is done (`ReadyAtRestIsIndexed`; a task that was asked
to cancel and that nobody works on counts as done, finding 1) takes a second invariant. A handler that has come as far as the chunk rows can no longer be cancelled, and it ends
by marking the document READY or FAILED, so at any time a READY document is indexed completely or
a handler of its current version has yet to mark it (`ReadyIsMended`). A DELETE purges without
marking, but then the document is hidden (`DeletesHide`). The theorem has three hypotheses, and each
is where the code really gives way (section 4): `OneWorker`; `NothingIsRevived`, that no deleted
document is uploaded again, for a late DELETE would purge it; and, as a condition on the behaviour,
`NoWorkerStops`, that the worker is not killed, for after its last attempt nobody marks the
document. Handlers that raise, requests that break off, rollbacks, deletions, forced uploads,
cancellations and retries, in any number and on any number of versions, are covered.

**FineTuning_proofs.** The workers share a name, so ownership of the row proves nothing; the
argument is that an attempt is counted before anything else happens and there is one
(`RowsKnowTheirCommands`, `HandlersKnowTheirTasks`), hence at most one handler per task
(`OneHandler`), which alone writes the command's state and the job's success. `JobsKnowTheirTasks`
ties a cancelled job to its task. `SuccessesAreTrained`, `TasksTellTheirJobs` and the action
property `EarlyCancellationsHold` follow.

`TasksFollowTheLifecycle` compares each row before and after each step (`RowMoves`). A cancellation
of a job writes over whatever status its task has, so it needs `TasksExist`, a second fact that is
inductive on top of `IInv`: a job that is there has its task; and that the task of an unfinished
job has not succeeded or failed, which `TaskTellsTheJob` gives. What is left is a step of the life
cycle but for the one from CANCELLED, which the code does take.

**Governance_proofs.** Whoever publishes holds the definition and what it read as published is
still what is published (`PublishersHoldTheDefinition`), so archiving that and publishing one
leaves one (`OneVersionInUse`); whoever releases holds its route and an approved model
(`ReleasesHoldTheirRoute`), whence `ReleasesAreApproved`. `HistoryStays` needs that a publication's
target is still a draft and that a rollback's number is looked at again when it is written.

The capacity of a route is a second invariant (`CapacityInv`): what is live on it fits, and what
was released in full is alone (`FullIsAlone`); a canary under way holds the route's lock, and what
it has counted there leaves room for it (`ReleasesFit`). The sum of the shares is a recursive
function over deployments (`Total`); what is used of it is that no shares are 0, and that changing
one share changes the sum by as much (`TotalChanges`), each shown by looking at the first number
at which it would fail, since induction needs an operator. `TrafficAlwaysFits` and
`FullReleaseTakesAll` follow: `Resolve` gives every bucket to a deployment that is alone.

**Conversations_proofs.** Messages are only appended, each under an earlier one, a turn knows its
question and one that will answer has one that was not refused (`HasQuestion`,
`AnswersHaveParents`); `AnswersAreUnderTheirQuestions` follows from that and from the look for an
answer with the same request id. `VisibleIsTheBranch` says that what the repository lists is the
path from the current head to a first message. The branch is a recursive function over the
messages; that the function exists, and so equals its definition, is shown from the
well-foundedness of `<` on the naturals.

What the memory holds is a second invariant (`MemoryInv`): the stored summary, every cached window
and whatever a reader or a turn has loaded is of one branch as it was when it was read
(`RemembersOneBranch`, `IsOfBranch`), and a branch once there stays a branch, since messages are
only appended under earlier ones. So a cache that is stale, expired or refused to be invalidated
gives an older branch and never a mixture: `SummariesAreOfTheirBranch`, `ModelsSeeOneBranch`. Both
need `OnePage`: a history that fits a page is read in one statement, while a longer one is read in
several, each on the branch that is current then (`agents/memory.py:169`), and a truncation between
two of them does mix branches.

**ChatSession_proofs.** A task that streams or awaits its run is the owner of the proxy and
remembers 0 as the original (`ProxyIsOwned`): `CanStream` lets only one in at a time. With
`DoneIsStored` this gives `TheGeneratorComesBack` and `ReplaysAreStored`.

**Accounts_proofs.** `AdminsHoldTheirRows` and `RotationsHoldTheirRows` say what a transaction may
rely on while it holds the user's row, and that one which takes an active administrator away holds
the role's row and, unless it takes the role, knows another one. `TokensAreInOrder` says that
sessions have the number of their first token. `TokensOfActiveUsers`, `TokensOfOneLogin` and
`AdminsAreKept` follow. The limiter checks and counts in two calls; the proof of
`FailuresStayBounded` adds to the failures of a subject, one user from one address, the clients that
have passed its check and not come to their end yet (`RoomForAll`): a client passes only below the
limit, and there are only so many. Over several addresses the code bounds nothing, nor does this.

`SessionsAreImplemented` shows step by step that `Accounts` implements `SessionLifecycle`. A commit
of a managing request is `Admit` or `EndAll`, since one that keeps the sessions leaves its user able
to log in (a conjunct of `AdminsHoldTheirRows`). A login is `Begin` because its transaction looks at
the user again. A rotation is `Refresh`: the token it replaces works still and is of the session it
was read with (`RotationsHoldTheirRows`), so the session is open before and after. A logout is `End`
because the session has no other token (`OneTokenPerSession`). `SessionsAreNotRevived` is then read
off the abstract specification.

**Moderation_proofs**, `Reviews`. Two facts hold of every step and carry the rest: reviews keep their author, what
was decided of them and a user's words (`ReviewsKeep`), and an analysis that is new has the id of its
review or one that nobody had (`AnalysesFresh`). So an id that a clerk holds stands for the text
that was read, or for nothing, for as long as the clerk writes (`ClerksKnowTheText`, lemma
`OldIds`), whence `RepliesFitTheirReviews`; and what a job has loaded stays published and reads as
it did (`JobsHavePublishedReviews`), whence `OnlyPublishedIsAnalysed`. `DecisionsAreFinal` is the
action property. All three need `ReviewsAssumption`: users and imported sources are told apart and
fresh ids are none of a review's.

**Moderation_proofs**, `Feedback`. A row and its audit trail are judged together (`RowOK`): the trail
is in order, at most one ahead of the row, and ends with what the row says. Of every step it is
shown that trails only grow and versions never go back (`TrailsGrow`, `VersionsGrow`); so a request
that found a row finds it again, and what a builder has read as approved stays in the trail however
often the row is submitted again before the dataset and its items are saved
(`BuildersHaveAuditedSamples`). `AuditsAreInOrder` and `DatasetsAreTraceable` follow, and
`NoUpdateIsLost` as the action property: whoever changes a row counts its version up, by which the
other, who read it before, is refused. `FeedbackAssumption` says that an absent key or content is
told from the others and that the bounds are numbers.

Only model-checked: liveness (`EveryTaskSettles`, `IndexingSettles`, `CancellationStops`,
`JobSettles`, `DisconnectEndsTasks`), which rests on fairness and so on ENABLED, out of the prover's
reach; and the findings of section 4, which are counterexamples.

## 6. Not modelled

* Text, vectors, scores, prompts and wording: the ETL algorithms, retrieval and ranking, the
  routing and extraction nodes of the agent graph. They compute data from data and keep no state.
* Logs, queries and CRUD in one transaction each: content safety, audit, analytics, merchants,
  permissions of roles; PATCH of a document's status or a conversation's settings by hand.
* Several rows of one file for one review, merchants' rows and grants of an import, and the
  progress reports of a merchant analysis.
* The clock: expiry of tokens, leases, windows and cache entries may happen at any time; the
  comparison of an access token's issue time with `access_tokens_valid_after` is left out.
* The one-time WebSocket token, and the order of events other than a request's end.
* Conversations with the MYSQL backend, which do not use the cache.
* The OpenAI-compatible gateway, storage recovery and the command line tools, which forward
  requests or run by hand.
* The copy of the backend under `docs/`, which is the same code.

What would come next: the index at rest when deleted documents are uploaded again (which needs a
change of the code first), and the rows that a sweep or a batch treats together as an abstract
specification of their own.
