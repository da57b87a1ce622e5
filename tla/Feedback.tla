------------------------------ MODULE Feedback ------------------------------
(***************************************************************************)
(* Feedback on answers, its moderation, its audit trail and the datasets   *)
(* that are built from it (application/feedback.py,                        *)
(* infrastructure/db/repositories/feedback.py, decide_moderation_case of   *)
(* repositories/operations.py, application/dataset_service.py).            *)
(*                                                                         *)
(* A Key is a user and a message, under which one row may exist.  What a   *)
(* submission says (rating, correction, reason codes) is one Content.  A   *)
(* submission is two transactions, a look for the row and the write; a     *)
(* decision reads its row without a lock and writes it at its commit; a    *)
(* dataset is queried, saved, and given its items in three.                *)
(***************************************************************************)
EXTENDS Naturals, Sequences, FiniteSets

CONSTANTS
    Key,          \* pairs of a user and a message
    Content,      \* what a submission may say
    Client,       \* requests that submit feedback
    Moderator,    \* requests that decide a case
    Builder,      \* requests that generate a dataset
    Nothing,      \* no key, no content
    MaxVersion,   \* bound on a row's version
    MaxAudits,    \* bound on a row's audit trail
    MaxDatasets   \* bound on the datasets saved

ASSUME FeedbackAssumption ==
    /\ Nothing \notin Key \cup Content
    /\ MaxVersion \in Nat /\ MaxAudits \in Nat /\ MaxDatasets \in Nat

VARIABLES
    feedback,   \* feedback[k]: the row of k; version 0 while there is none
    audit,      \* audit[k]: the rows of feedback_audits for k
    datasets,   \* the datasets saved
    client,     \* client[c]: the submission under way
    moderator,  \* moderator[m]: the decision under way
    builder,    \* builder[b]: the dataset under way
    approved    \* history: what each row said when it was approved

feedbackVars == <<feedback, audit, datasets, client, moderator, builder, approved>>
-----------------------------------------------------------------------------
(* Types.                                                                  *)

ReviewStatus == {"PENDING_REVIEW", "APPROVED", "REJECTED"}
Decision == {"APPROVE", "REJECT", "ESCALATE"}

Rows == [version : Nat, content : Content \cup {Nothing}, status : ReviewStatus]
AbsentRow == [version |-> 0, content |-> Nothing, status |-> "PENDING_REVIEW"]

AuditRows == [version : Nat, content : Content]

\* What a builder accepted: the content of the rows of a query's answer.
Selections == {S \in SUBSET Key : IsFiniteSet(S)}
Samples == UNION {[S -> Content] : S \in Selections}

IdleClient == [pc |-> "idle", key |-> Nothing, content |-> Nothing]
IdleModerator == [pc |-> "idle", key |-> Nothing, decision |-> "ESCALATE", version |-> 0]
NoSamples == [k \in {} |-> Nothing]
IdleBuilder == [pc |-> "idle", samples |-> NoSamples, dataset |-> 0]

FeedbackTypeOK ==
    /\ feedback \in [Key -> Rows]
    /\ audit \in [Key -> Seq(AuditRows)]
    /\ datasets \in Seq([samples : Samples, file : Seq(Content), items : Samples])
    /\ client \in [Client -> [pc : {"idle", "create", "update"},
                              key : Key \cup {Nothing}, content : Content \cup {Nothing}]]
    /\ moderator \in [Moderator -> [pc : {"idle", "decide"}, key : Key \cup {Nothing},
                                    decision : Decision, version : Nat]]
    /\ builder \in [Builder -> [pc : {"idle", "save", "items"}, samples : Samples, dataset : Nat]]
    /\ approved \in [Key -> SUBSET Content]

FeedbackInit ==
    /\ feedback = [k \in Key |-> AbsentRow]
    /\ audit = [k \in Key |-> <<>>]
    /\ datasets = <<>>
    /\ client = [c \in Client |-> IdleClient]
    /\ moderator = [m \in Moderator |-> IdleModerator]
    /\ builder = [b \in Builder |-> IdleBuilder]
    /\ approved = [k \in Key |-> {}]
-----------------------------------------------------------------------------
(* Submission.                                                             *)

\* The look for the row, in a transaction of its own.
SubmitFeedback(c, k, x) ==
    /\ client[c].pc = "idle"
    /\ client' = [client EXCEPT ![c] =
           [pc |-> IF feedback[k].version = 0 THEN "create" ELSE "update",
            key |-> k, content |-> x]]
    /\ UNCHANGED <<feedback, audit, datasets, moderator, builder, approved>>

Ends(c) == client' = [client EXCEPT ![c] = IdleClient]
Unanswered == UNCHANGED <<datasets, moderator, builder, approved>>

\* Variant: no look at what the unique key has.
CreateOver(c) ==
    LET k == client[c].key
        x == client[c].content IN
    /\ client[c].pc = "create"
    /\ feedback' = [feedback EXCEPT ![k] =
           [version |-> 1, content |-> x, status |-> "PENDING_REVIEW"]]
    /\ audit' = [audit EXCEPT ![k] = Append(@, [version |-> 1, content |-> x])]
    /\ Ends(c)
    /\ Unanswered

CreateFeedback(c) ==
    LET k == client[c].key
        x == client[c].content IN
    /\ client[c].pc = "create"
    /\ feedback[k].version = 0
    /\ feedback' = [feedback EXCEPT ![k] =
           [version |-> 1, content |-> x, status |-> "PENDING_REVIEW"]]
    /\ audit' = [audit EXCEPT ![k] = Append(@, [version |-> 1, content |-> x])]
    /\ Ends(c)
    /\ Unanswered

\* UNIQUE (user_id, message_id): another request has created the row.
CreateRefused(c) ==
    /\ client[c].pc = "create"
    /\ feedback[client[c].key].version > 0
    /\ Ends(c)
    /\ UNCHANGED <<feedback, audit, datasets, moderator, builder, approved>>

\* The row is locked.  What is assigned again unchanged is no change for
\* SQLAlchemy: without one there is no UPDATE and no new version, but the
\* audit row is written.  The status is left as it is.
Resubmitted(row, x) ==
    IF x = row.content THEN row
    ELSE [row EXCEPT !.version = @ + 1, !.content = x]

\* Variant: the audit row keeps what the row said before.
AuditTheOld(c) ==
    LET k == client[c].key
        x == client[c].content IN
    /\ client[c].pc = "update"
    /\ feedback[k].version < MaxVersion /\ Len(audit[k]) < MaxAudits
    /\ feedback' = [feedback EXCEPT ![k] = Resubmitted(@, x)]
    /\ audit' = [audit EXCEPT ![k] =
           Append(@, [version |-> feedback[k].version + 1, content |-> feedback[k].content])]
    /\ Ends(c)
    /\ Unanswered

UpdateFeedback(c) ==
    LET k == client[c].key
        x == client[c].content IN
    /\ client[c].pc = "update"
    /\ feedback[k].version < MaxVersion /\ Len(audit[k]) < MaxAudits
    /\ feedback' = [feedback EXCEPT ![k] = Resubmitted(@, x)]
    /\ audit' = [audit EXCEPT ![k] =
           Append(@, [version |-> feedback[k].version + 1, content |-> x])]
    /\ Ends(c)
    /\ Unanswered
-----------------------------------------------------------------------------
(* Moderation.  The row is read without a lock; version_id_col makes the   *)
(* UPDATE look for the version that was read.                              *)

ReadCase(m, k, d) ==
    /\ moderator[m].pc = "idle"
    /\ feedback[k].version \in 1..(MaxVersion - 1)
    /\ moderator' = [moderator EXCEPT ![m] =
           [pc |-> "decide", key |-> k, decision |-> d, version |-> feedback[k].version]]
    /\ UNCHANGED <<feedback, audit, datasets, client, builder, approved>>

Verdict(d) == CASE d = "APPROVE" -> "APPROVED"
                [] d = "REJECT" -> "REJECTED"
                [] d = "ESCALATE" -> "PENDING_REVIEW"

\* What a committed decision does to the row and to the history of approvals.
Decided(m) ==
    LET k == moderator[m].key IN
    /\ feedback' = [feedback EXCEPT ![k].status = Verdict(moderator[m].decision),
                                    ![k].version = moderator[m].version + 1]
    /\ approved' = IF moderator[m].decision = "APPROVE"
                   THEN [approved EXCEPT ![k] = @ \cup {feedback[k].content}] ELSE approved
    /\ moderator' = [moderator EXCEPT ![m] = IdleModerator]
    /\ UNCHANGED <<audit, datasets, client, builder>>

\* Variant: no version_id_col.
NeverStale(m) == FALSE

IsStale(m) == feedback[moderator[m].key].version # moderator[m].version

DecideModerationCase(m) ==
    /\ moderator[m].pc = "decide"
    /\ ~IsStale(m)
    /\ Decided(m)

StaleDecision(m) ==
    /\ moderator[m].pc = "decide"
    /\ IsStale(m)
    /\ moderator' = [moderator EXCEPT ![m] = IdleModerator]
    /\ UNCHANGED <<feedback, audit, datasets, client, builder, approved>>
-----------------------------------------------------------------------------
(* Datasets.                                                               *)

IsAuthorized(k) == feedback[k].version > 0 /\ feedback[k].status = "APPROVED"

\* The filter must find a row; the quality rules may drop any of the
\* authorized ones, even all.
GenerateDataset(b, S) ==
    /\ builder[b].pc = "idle"
    /\ \E k \in Key : feedback[k].version > 0
    /\ \A k \in S : IsAuthorized(k)
    /\ builder' = [builder EXCEPT ![b] =
           [pc |-> "save", samples |-> [k \in S |-> feedback[k].content], dataset |-> 0]]
    /\ UNCHANGED <<feedback, audit, datasets, client, moderator, approved>>

\* The hash is of the lines in their order, which is the splitter's; a line
\* says the content and not whose it is.
Files(s) == {f \in [1..Cardinality(DOMAIN s) -> Content] :
               \A x \in Content : Cardinality({n \in DOMAIN f : f[n] = x})
                                 = Cardinality({k \in DOMAIN s : s[k] = x})}

SaveDataset(b) ==
    LET s == builder[b].samples IN
    /\ builder[b].pc = "save"
    /\ Len(datasets) < MaxDatasets
    /\ \E f \in Files(s) :
           /\ \A d \in DOMAIN datasets : datasets[d].file # f
           /\ datasets' = Append(datasets, [samples |-> s, file |-> f, items |-> NoSamples])
    /\ builder' = [builder EXCEPT ![b].pc = "items", ![b].dataset = Len(datasets) + 1]
    /\ UNCHANGED <<feedback, audit, client, moderator, approved>>

SaveDatasetItems(b) ==
    /\ builder[b].pc = "items"
    /\ datasets' = [datasets EXCEPT ![builder[b].dataset].items = builder[b].samples]
    /\ builder' = [builder EXCEPT ![b] = IdleBuilder]
    /\ UNCHANGED <<feedback, audit, client, moderator, approved>>

\* UNIQUE (dataset_hash), a refused transaction, or the end of the process.
BuilderFails(b) ==
    /\ builder[b].pc # "idle"
    /\ builder' = [builder EXCEPT ![b] = IdleBuilder]
    /\ UNCHANGED <<feedback, audit, datasets, client, moderator, approved>>
-----------------------------------------------------------------------------
ClientStep(c) ==
    \/ \E k \in Key, x \in Content : SubmitFeedback(c, k, x)
    \/ CreateFeedback(c) \/ CreateRefused(c) \/ UpdateFeedback(c)

ModeratorStep(m) ==
    \/ \E k \in Key, d \in Decision : ReadCase(m, k, d)
    \/ DecideModerationCase(m) \/ StaleDecision(m)

BuilderStep(b) ==
    \/ \E S \in Selections : GenerateDataset(b, S)
    \/ SaveDataset(b) \/ SaveDatasetItems(b) \/ BuilderFails(b)

FeedbackNext ==
    \/ \E c \in Client : ClientStep(c)
    \/ \E m \in Moderator : ModeratorStep(m)
    \/ \E b \in Builder : BuilderStep(b)

FeedbackSpec == FeedbackInit /\ [][FeedbackNext]_feedbackVars
-----------------------------------------------------------------------------
(* Correctness.                                                            *)

\* The audit trail ends with what the row says.
AuditIsCurrent ==
    \A k \in Key :
        /\ (feedback[k].version = 0) = (audit[k] = <<>>)
        /\ audit[k] # <<>> => audit[k][Len(audit[k])].content = feedback[k].content

(* The audit trail is in the order of its version numbers and no number    *)
(* runs ahead of the version that the row may get next: the submissions    *)
(* and the decisions that share the counter of repositories/feedback.py    *)
(* and decide_moderation_case never take it back.                          *)
AuditInOrder ==
    \A k \in Key :
        /\ \A i, j \in DOMAIN audit[k] : i < j => audit[k][i].version <= audit[k][j].version
        /\ \A i \in DOMAIN audit[k] : audit[k][i].version \in 1..(feedback[k].version + 1)

\* A request that found the row, or read it, finds it again: rows stay.
RequestsKnowTheirRows ==
    /\ \A c \in Client : client[c].pc # "idle" =>
           client[c].key \in Key /\ client[c].content \in Content
    /\ \A c \in Client : client[c].pc = "update" => feedback[client[c].key].version > 0
    /\ \A m \in Moderator : moderator[m].pc = "decide" =>
           moderator[m].key \in Key /\ moderator[m].version > 0

\* x was submitted for k at some time.
Audited(k, x) == \E i \in DOMAIN audit[k] : audit[k][i].content = x

BuildersHaveAuditedSamples ==
    \A b \in Builder : \A k \in DOMAIN builder[b].samples : Audited(k, builder[b].samples[k])

(* What a dataset holds can be traced (feedback_audits: "used to trace     *)
(* changes when training sets are generated"): each sample is a version    *)
(* that its row once had, whatever was submitted or decided while the      *)
(* dataset was built.                                                      *)
SamplesAreTraceable ==
    \A d \in DOMAIN datasets : \A k \in DOMAIN datasets[d].samples :
        Audited(k, datasets[d].samples[k])

BuildersKnowTheirDatasets ==
    \A b \in Builder : builder[b].pc = "items" =>
        /\ builder[b].dataset \in DOMAIN datasets
        /\ datasets[builder[b].dataset].samples = builder[b].samples

(* A dataset has all of its items or none yet, however many builders save  *)
(* at the same time: the items are those of the hash.                      *)
ItemsAreTheSamples ==
    \A d \in DOMAIN datasets : datasets[d].items \in {NoSamples, datasets[d].samples}

(* Everything together: types, the audit trail, and what the requests      *)
(* under way (application/feedback.py, dataset_service.py) know of rows.   *)
FeedbackInv ==
    /\ FeedbackTypeOK
    /\ AuditIsCurrent
    /\ AuditInOrder
    /\ RequestsKnowTheirRows
    /\ BuildersHaveAuditedSamples
    /\ SamplesAreTraceable
    /\ BuildersKnowTheirDatasets
    /\ ItemsAreTheSamples

(* No update is lost: whatever changes a row counts its version up by one, *)
(* also a decision that was read before another one or a submission        *)
(* committed (version_id_col of infrastructure/db/models).                 *)
VersionsCount ==
    [][\A k \in Key : feedback'[k] # feedback[k]
          => feedback'[k].version = feedback[k].version + 1]_feedbackVars

(* "repeated submissions increment version and append to feedback_audits"  *)
(* (application/feedback.py:13): each submission has a version number of   *)
(* its own.                                                                *)
AuditVersionsDiffer ==
    \A k \in Key : \A i, j \in DOMAIN audit[k] :
        audit[k][i].version = audit[k][j].version => i = j

(* Criterion 4 of application/feedback_quality.py, "no unauthorized sample *)
(* enters a dataset": what a dataset holds was approved as it is.          *)
SamplesAreAuthorised ==
    \A d \in DOMAIN datasets : \A k \in DOMAIN datasets[d].samples :
        datasets[d].samples[k] \in approved[k]
=============================================================================
