------------------------------- MODULE Reviews -------------------------------
(***************************************************************************)
(* The reviews of one merchant, the analyses of their sentiment and the    *)
(* merchant's replies (infrastructure/db/repositories/operations.py,       *)
(* infrastructure/db/repositories/merchant_import.py, api/operations.py,   *)
(* api/analytics.py, run_merchant_analysis of operations/task_runtime.py). *)
(*                                                                         *)
(* A review is its place in the order of creation.  An analysis may have   *)
(* the id of its review or a fresh one, and says which text it is of and   *)
(* not whose: "of" is a history variable, which no step reads.             *)
(***************************************************************************)
EXTENDS Naturals, Sequences, FiniteSets

CONSTANTS
    User,        \* who writes reviews
    ImportKey,   \* reviews of imported files, by their source
    Text,        \* what a review may say
    Date,        \* on which sides of a job's "since" reviews are
    Poster,      \* requests that submit a review
    Approver,    \* requests that moderate one
    Importer,    \* imports under way
    Worker,      \* analysis jobs under way
    Clerk,       \* requests that reply
    MaxReviews,  \* bound on the reviews, and the ids they have
    MaxId,       \* bound on the ids of analyses
    MaxReplies   \* bound on the replies

ASSUME ReviewsAssumption ==
    /\ User \cap ImportKey = {}
    /\ Date \subseteq {"before", "since"}
    /\ MaxReviews \in Nat /\ MaxId \in Nat /\ MaxReviews <= MaxId

VARIABLES
    reviews,   \* reviews, in the order of created_at
    analyses,  \* review_analyses
    lastId,    \* the last fresh id
    replies,   \* merchant_replies, in the order of creation
    poster,    \* poster[p]: the review about to be inserted
    approver,  \* approver[a]: the approved review to be analysed, 0 for none
    importer,  \* importer[i]: the row being imported
    worker,    \* worker[w]: what a job has loaded
    clerk      \* clerk[c]: what is being replied to

vars == <<reviews, analyses, lastId, replies, poster, approver, importer, worker, clerk>>
-----------------------------------------------------------------------------
(* Types.                                                                  *)

ReviewId == 1..MaxReviews
Id == 1..MaxId

Status == {"PENDING", "PUBLISHED", "REJECTED"}

ReviewRows == [by : User \cup ImportKey, text : Text, date : Date, status : Status]
AnalysisRows == [id : Id, of : ReviewId, text : Text, date : Date]
\* A reply, and what was replied to.
ReplyRows == [review : Id, of : ReviewId, text : Text, status : Status]
\* What a job knows of a review.
Loaded == [of : ReviewId, text : Text, date : Date]

Idle == [pc |-> "idle"]

TypeOK ==
    /\ reviews \in Seq(ReviewRows) /\ Len(reviews) <= MaxReviews
    /\ analyses \in SUBSET AnalysisRows
    /\ lastId \in MaxReviews..MaxId
    /\ replies \in Seq(ReplyRows)
    /\ poster \in [Poster -> {Idle} \cup [pc : {"insert"}, row : ReviewRows]]
    /\ approver \in [Approver -> 0..MaxReviews]
    /\ importer \in [Importer -> {Idle} \cup
           [pc : {"commit"}, found : 0..MaxReviews, row : ReviewRows, known : BOOLEAN,
            fresh : BOOLEAN]]
    /\ worker \in [Worker -> {Idle} \cup
           [pc : {"save"}, full : BOOLEAN, batch : SUBSET Loaded]]
    /\ clerk \in [Clerk -> {Idle} \cup [pc : {"reply"}, id : Id, of : ReviewId, text : Text]]

Init ==
    /\ reviews = <<>>
    /\ analyses = {}
    /\ lastId = MaxReviews
    /\ replies = <<>>
    /\ poster = [p \in Poster |-> Idle]
    /\ approver = [a \in Approver |-> 0]
    /\ importer = [i \in Importer |-> Idle]
    /\ worker = [w \in Worker |-> Idle]
    /\ clerk = [c \in Clerk |-> Idle]
-----------------------------------------------------------------------------
(* Submission and moderation.                                              *)

Posted(u, x) == \E r \in DOMAIN reviews : reviews[r].by = u /\ reviews[r].text = x

\* The look for an equal review; the safety service has chosen the status.
SubmitUserReview(p, u, x, d, s) ==
    /\ poster[p].pc = "idle"
    /\ ~Posted(u, x)
    /\ poster' = [poster EXCEPT ![p] =
           [pc |-> "insert", row |-> [by |-> u, text |-> x, date |-> d, status |-> s]]]
    /\ UNCHANGED <<reviews, analyses, lastId, replies, approver, importer, worker, clerk>>

\* The insert of the same transaction: the look was a plain read, and no
\* unique key covers user, merchant and content_hash.
InsertReview(p) ==
    /\ poster[p].pc = "insert"
    /\ Len(reviews) < MaxReviews
    /\ reviews' = Append(reviews, poster[p].row)
    /\ poster' = [poster EXCEPT ![p] = Idle]
    /\ UNCHANGED <<analyses, lastId, replies, approver, importer, worker, clerk>>

\* Variant: a decision may be taken again.
ModerateAgain(a, r, approve) ==
    /\ approver[a] = 0
    /\ reviews' = [reviews EXCEPT ![r].status = IF approve THEN "PUBLISHED" ELSE "REJECTED"]
    /\ approver' = [approver EXCEPT ![a] = IF approve THEN r ELSE 0]
    /\ UNCHANGED <<analyses, lastId, replies, poster, importer, worker, clerk>>

\* The row is locked.
ModerateUserReview(a, r, approve) ==
    /\ approver[a] = 0
    /\ reviews[r].status = "PENDING"
    /\ reviews' = [reviews EXCEPT ![r].status = IF approve THEN "PUBLISHED" ELSE "REJECTED"]
    /\ approver' = [approver EXCEPT ![a] = IF approve THEN r ELSE 0]
    /\ UNCHANGED <<analyses, lastId, replies, poster, importer, worker, clerk>>

Ids == {x.id : x \in analyses}
AnalysisOf(r, id) == [id |-> id, of |-> r, text |-> reviews[r].text, date |-> reviews[r].date]

\* The analysis takes the id of the review, which is the primary key.
CreateReviewAnalysis(a) ==
    /\ approver[a] # 0
    /\ approver[a] \notin Ids
    /\ analyses' = analyses \cup {AnalysisOf(approver[a], approver[a])}
    /\ approver' = [approver EXCEPT ![a] = 0]
    /\ UNCHANGED <<reviews, lastId, replies, poster, importer, worker, clerk>>

\* The analysis is an attempt: the gateway or the insert may fail.
AnalysisFails(a) ==
    /\ approver[a] # 0
    /\ approver' = [approver EXCEPT ![a] = 0]
    /\ UNCHANGED <<reviews, analyses, lastId, replies, poster, importer, worker, clerk>>
-----------------------------------------------------------------------------
(* Import of a row of a file, by the key of its source.                    *)

\* The next fresh ids are those of one insertion, by the reviews they are of.
FreshId(r) == lastId + r
IdsLeft == lastId + MaxReviews <= MaxId

RowOf(k) == {r \in DOMAIN reviews : reviews[r].by = k}

\* What the transaction reads of its snapshot, before the sentiment model runs.
StartImport(i, k, x, d) ==
    /\ importer[i].pc = "idle"
    /\ \E found \in IF RowOf(k) = {} THEN {0} ELSE RowOf(k) :
           importer' = [importer EXCEPT ![i] =
               [pc |-> "commit", found |-> found,
                row |-> [by |-> k, text |-> x, date |-> d, status |-> "PUBLISHED"],
                known |-> \E y \in analyses : y.text = x, fresh |-> TRUE]]
    /\ UNCHANGED <<reviews, analyses, lastId, replies, poster, approver, worker, clerk>>

\* The row of the review, a new one for a key that had none.
UpsertReview(found, row) ==
    IF found = 0
    THEN Len(reviews) < MaxReviews /\ reviews' = Append(reviews, row)
    ELSE reviews' = [reviews EXCEPT ![found] = row]

\* An import writes the merchant's row too, whose version must be the one it
\* read: of imports that overlap one commits.
Overtaken(m) == IF m.pc = "commit" THEN [m EXCEPT !.fresh = FALSE] ELSE m

\* A text that has an analysis gets no other; when the model is not there the
\* analysis is left to a job.
ImportRecord(i, inline) ==
    LET row == importer[i].row
        r == IF importer[i].found = 0 THEN Len(reviews) + 1 ELSE importer[i].found IN
    /\ importer[i].pc = "commit"
    /\ importer[i].fresh
    /\ UpsertReview(importer[i].found, row)
    /\ IF inline /\ ~importer[i].known
       THEN /\ IdsLeft
            /\ analyses' = analyses \cup
                   {[id |-> FreshId(r), of |-> r, text |-> row.text, date |-> row.date]}
            /\ lastId' = lastId + MaxReviews
       ELSE UNCHANGED <<analyses, lastId>>
    /\ importer' = [j \in Importer |-> IF j = i THEN Idle ELSE Overtaken(importer[j])]
    /\ UNCHANGED <<replies, poster, approver, worker, clerk>>

ImportFails(i) ==
    /\ importer[i].pc = "commit"
    /\ importer' = [importer EXCEPT ![i] = Idle]
    /\ UNCHANGED <<reviews, analyses, lastId, replies, poster, approver, worker, clerk>>
-----------------------------------------------------------------------------
(* The analysis job.                                                       *)

InScope(full, date) == full \/ date = "since"

\* Variant: whatever its status.
LoadEveryReview(w, full) ==
    /\ worker[w].pc = "idle"
    /\ worker' = [worker EXCEPT ![w] =
           [pc |-> "save", full |-> full,
            batch |-> {[of |-> r, text |-> reviews[r].text, date |-> reviews[r].date] :
                       r \in {q \in DOMAIN reviews : InScope(full, reviews[q].date)}}]]
    /\ UNCHANGED <<reviews, analyses, lastId, replies, poster, approver, importer, clerk>>

LoadReviews(w, full) ==
    /\ worker[w].pc = "idle"
    /\ worker' = [worker EXCEPT ![w] =
           [pc |-> "save", full |-> full,
            batch |-> {[of |-> r, text |-> reviews[r].text, date |-> reviews[r].date] :
                       r \in {q \in DOMAIN reviews :
                                 /\ reviews[q].status = "PUBLISHED"
                                 /\ InScope(full, reviews[q].date)}}]]
    /\ UNCHANGED <<reviews, analyses, lastId, replies, poster, approver, importer, clerk>>

SaveReviewAnalyses(w) ==
    /\ worker[w].pc = "save"
    /\ IdsLeft
    /\ analyses' = {y \in analyses : ~InScope(worker[w].full, y.date)} \cup
           {[id |-> FreshId(y.of), of |-> y.of, text |-> y.text, date |-> y.date] :
               y \in worker[w].batch}
    /\ lastId' = lastId + MaxReviews
    /\ worker' = [worker EXCEPT ![w] = Idle]
    /\ UNCHANGED <<reviews, replies, poster, approver, importer, clerk>>

\* Cancelled, failed or dead.
StopAnalysis(w) ==
    /\ worker[w].pc = "save"
    /\ worker' = [worker EXCEPT ![w] = Idle]
    /\ UNCHANGED <<reviews, analyses, lastId, replies, poster, approver, importer, clerk>>
-----------------------------------------------------------------------------
(* Replies.  The request looks the review up and writes in two             *)
(* transactions.                                                           *)

\* A review, whatever its status, or else an analysis.
OpenReview(c, id) ==
    /\ clerk[c].pc = "idle"
    /\ \E y \in {AnalysisOf(r, r) : r \in DOMAIN reviews} \cup
                {y \in analyses : y.id \notin DOMAIN reviews} :
           /\ y.id = id
           /\ clerk' = [clerk EXCEPT ![c] =
                  [pc |-> "reply", id |-> id, of |-> y.of, text |-> y.text]]
    /\ UNCHANGED <<reviews, analyses, lastId, replies, poster, approver, importer, worker>>

\* Variant: without a look at the text.
MatchesMerchant(id) == {r \in DOMAIN reviews : \E y \in analyses : y.id = id}
\* The reviews with the text of the analysis, of which the earliest is taken.
\* Texts are equal as the columns' collation has it, blind to case and accents:
\* a Text stands for all the spellings that it takes for one.
Matches(id) == {r \in DOMAIN reviews : \E y \in analyses : y.id = id /\ y.text = reviews[r].text}
IsCanonical(id, r) ==
    IF id \in DOMAIN reviews \/ Matches(id) = {} THEN r = id
    ELSE r \in Matches(id) /\ \A q \in Matches(id) : r <= q

CreateReply(c, s) ==
    /\ clerk[c].pc = "reply"
    /\ Len(replies) < MaxReplies
    /\ \E r \in Id :
           /\ IsCanonical(clerk[c].id, r)
           /\ replies' = Append(replies, [review |-> r, of |-> clerk[c].of,
                                          text |-> clerk[c].text, status |-> s])
    /\ clerk' = [clerk EXCEPT ![c] = Idle]
    /\ UNCHANGED <<reviews, analyses, lastId, poster, approver, importer, worker>>

\* The row is locked.
ModerateMerchantReply(n, approve) ==
    /\ replies[n].status = "PENDING"
    /\ replies' = [replies EXCEPT ![n].status = IF approve THEN "PUBLISHED" ELSE "REJECTED"]
    /\ UNCHANGED <<reviews, analyses, lastId, poster, approver, importer, worker, clerk>>
-----------------------------------------------------------------------------
PosterStep(p) ==
    \/ \E u \in User, x \in Text, d \in Date, s \in {"PENDING", "REJECTED"} :
           SubmitUserReview(p, u, x, d, s)
    \/ InsertReview(p)

ApproverStep(a) ==
    \/ \E r \in DOMAIN reviews, approve \in BOOLEAN : ModerateUserReview(a, r, approve)
    \/ CreateReviewAnalysis(a) \/ AnalysisFails(a)

ImporterStep(i) ==
    \/ \E k \in ImportKey, x \in Text, d \in Date : StartImport(i, k, x, d)
    \/ \E inline \in BOOLEAN : ImportRecord(i, inline)
    \/ ImportFails(i)

WorkerStep(w) ==
    \/ \E full \in BOOLEAN : LoadReviews(w, full)
    \/ SaveReviewAnalyses(w) \/ StopAnalysis(w)

ReplyStep ==
    \/ \E c \in Clerk, id \in Id : OpenReview(c, id)
    \/ \E c \in Clerk, s \in {"PENDING", "REJECTED"} : CreateReply(c, s)
    \/ \E n \in DOMAIN replies, approve \in BOOLEAN : ModerateMerchantReply(n, approve)

Next ==
    \/ \E p \in Poster : PosterStep(p)
    \/ \E a \in Approver : ApproverStep(a)
    \/ \E i \in Importer : ImporterStep(i)
    \/ \E w \in Worker : WorkerStep(w)
    \/ ReplyStep

Spec == Init /\ [][Next]_vars
-----------------------------------------------------------------------------
(* Correctness.                                                            *)

ByUser(r) == reviews[r].by \in User

\* y says what review y.of says.  Only an import changes a review.
IsOfItsReview(y) ==
    /\ y.of \in DOMAIN reviews
    /\ ByUser(y.of) => y.text = reviews[y.of].text

\* An imported review is published from the start.
ImportsArePublished == \A r \in DOMAIN reviews : ByUser(r) \/ reviews[r].status = "PUBLISHED"

\* An id is a review's or was handed out once; an analysis with the id of a
\* review is of that review.
IdsAreOwned ==
    /\ \A y \in analyses : y.id \in DOMAIN reviews \/ y.id \in (MaxReviews + 1)..lastId
    /\ \A y \in analyses : y.id \in DOMAIN reviews => y.of = y.id
    /\ \A y, z \in analyses : y.id = z.id => y = z

RequestsKnowTheirReviews ==
    /\ \A p \in Poster : poster[p].pc = "insert" =>
           /\ poster[p].row.by \in User
           /\ poster[p].row.status \in {"PENDING", "REJECTED"}
    /\ \A a \in Approver : approver[a] # 0 =>
           /\ approver[a] \in DOMAIN reviews
           /\ reviews[approver[a]].status = "PUBLISHED"
    /\ \A i \in Importer : importer[i].pc = "commit" =>
           LET row == importer[i].row IN
           /\ row.by \in ImportKey /\ row.status = "PUBLISHED"
           /\ importer[i].found # 0 =>
                  /\ importer[i].found \in DOMAIN reviews
                  /\ reviews[importer[i].found].by = row.by

\* What a job is about to save is published, and there once.
JobsHavePublishedReviews ==
    \A w \in Worker : worker[w].pc = "save" =>
        /\ \A y \in worker[w].batch : IsOfItsReview(y) /\ reviews[y.of].status = "PUBLISHED"
        /\ \A y, z \in worker[w].batch : y.of = z.of => y = z

(* Only what is published is analysed: no path from a submission to the    *)
(* sentiment of a merchant goes past its moderation, neither the one of    *)
(* the approval nor that of a job or an import (_load_reviews,             *)
(* _analyze_approved_review).                                              *)
AnalysedIsPublished ==
    \A y \in analyses : IsOfItsReview(y) /\ reviews[y.of].status = "PUBLISHED"

\* While a clerk writes, the id still stands for the text that was read, or
\* for nothing.
ClerksKnowTheText ==
    \A c \in Clerk : clerk[c].pc = "reply" =>
        LET id == clerk[c].id IN
        /\ id \in DOMAIN reviews \/ id \in (MaxReviews + 1)..lastId
        /\ id \in DOMAIN reviews /\ ByUser(id) => clerk[c].text = reviews[id].text
        /\ \A y \in analyses : y.id = id /\ id \notin DOMAIN reviews => y.text = clerk[c].text

(* A reply under a user's review was written to the words of that review,  *)
(* up to case and accents, however jobs and imports replace the analyses   *)
(* between get_review and create_reply (_canonical_review_id).             *)
RepliesFit ==
    \A n \in DOMAIN replies :
        LET r == replies[n].review IN
        /\ r \in DOMAIN reviews \/ r \in (MaxReviews + 1)..lastId
        /\ r \in DOMAIN reviews /\ ByUser(r) => replies[n].text = reviews[r].text

(* The inductive invariant of the proofs: types, the ids that reviews and  *)
(* analyses share (create_review_analysis), and what the requests under    *)
(* way know.                                                               *)
IInv ==
    /\ TypeOK
    /\ ImportsArePublished
    /\ IdsAreOwned
    /\ RequestsKnowTheirReviews
    /\ JobsHavePublishedReviews
    /\ AnalysedIsPublished
    /\ ClerksKnowTheText
    /\ RepliesFit

(* A decision is final: what was published or rejected, a review or a      *)
(* reply, stays so, and its author does not change (moderate_user_review,  *)
(* moderate_merchant_reply, _upsert_review).                               *)
DecisionsStand ==
    [][/\ \A r \in DOMAIN reviews :
              /\ r \in DOMAIN reviews' /\ reviews'[r].by = reviews[r].by
              /\ reviews[r].status # "PENDING" => reviews'[r].status = reviews[r].status
       /\ \A n \in DOMAIN replies :
              /\ n \in DOMAIN replies'
              /\ replies[n].status # "PENDING" => replies'[n] = replies[n]]_vars

(* "Idempotency: same user + same merchant + same content hash"            *)
(* (repositories/operations.py, create_user_review): a user's words are    *)
(* one review.                                                             *)
OneReviewPerText ==
    \A q, r \in DOMAIN reviews :
        ByUser(r) /\ reviews[q].by = reviews[r].by /\ reviews[q].text = reviews[r].text => q = r

(* "replies must be keyed on the reviews.id so both the user side and the  *)
(* merchant workbench resolve them consistently" (repositories/            *)
(* operations.py, _canonical_review_id): a reply to a user's review is     *)
(* kept under that review.                                                 *)
RepliesAreUnderTheirReviews ==
    \A n \in DOMAIN replies : ByUser(replies[n].of) => replies[n].review = replies[n].of
=============================================================================
