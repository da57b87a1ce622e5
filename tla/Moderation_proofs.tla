------------------------- MODULE Moderation_proofs -------------------------
(***************************************************************************)
(* Proofs about what users write and moderators decide: Reviews, and       *)
(* Feedback with its datasets in the second half, each for any users,      *)
(* keys, contents, requests and bounds.                                    *)
(*                                                                         *)
(* Of every step of Reviews two things hold: reviews keep their author,    *)
(* what was decided of them and a user's words (ReviewsKeep), and an       *)
(* analysis that is new has the id of its review or one that nobody had    *)
(* (AnalysesFresh).  What the requests under way know follows from these.  *)
(***************************************************************************)
EXTENDS Reviews, Feedback, FiniteSetTheorems, TLAPS

PosterState == {Idle} \cup [pc : {"insert"}, row : ReviewRows]
ImporterState == {Idle} \cup
    [pc : {"commit"}, found : 0..MaxReviews, row : ReviewRows, known : BOOLEAN,
     fresh : BOOLEAN]
WorkerState == {Idle} \cup [pc : {"save"}, full : BOOLEAN, batch : SUBSET Loaded]
ClerkState == {Idle} \cup [pc : {"reply"}, id : Id, of : ReviewId, text : Text]

TypedReviews == reviews \in Seq(ReviewRows) /\ Len(reviews) <= MaxReviews
TypedAnalyses == analyses \in SUBSET AnalysisRows /\ lastId \in MaxReviews..MaxId
TypedReplies == replies \in Seq(ReplyRows)
TypedRequests ==
    /\ poster \in [Poster -> PosterState]
    /\ approver \in [Approver -> 0..MaxReviews]
    /\ importer \in [Importer -> ImporterState]
    /\ worker \in [Worker -> WorkerState]
    /\ clerk \in [Clerk -> ClerkState]

(* What the invariant says of one request.                                 *)
PosterOK(p) ==
    poster[p].pc = "insert" =>
        poster[p].row.by \in User /\ poster[p].row.status \in {"PENDING", "REJECTED"}
ApproverOK(a) ==
    approver[a] # 0 =>
        approver[a] \in DOMAIN reviews /\ reviews[approver[a]].status = "PUBLISHED"
ImporterOK(i) ==
    importer[i].pc = "commit" =>
        /\ importer[i].row.by \in ImportKey /\ importer[i].row.status = "PUBLISHED"
        /\ importer[i].found # 0 =>
               /\ importer[i].found \in DOMAIN reviews
               /\ reviews[importer[i].found].by = importer[i].row.by
WorkerOK(w) ==
    worker[w].pc = "save" =>
        /\ \A y \in worker[w].batch : IsOfItsReview(y) /\ reviews[y.of].status = "PUBLISHED"
        /\ \A y, z \in worker[w].batch : y.of = z.of => y = z
ClerkOK(c) ==
    clerk[c].pc = "reply" =>
        LET id == clerk[c].id IN
        /\ id \in DOMAIN reviews \/ id \in (MaxReviews + 1)..lastId
        /\ id \in DOMAIN reviews /\ ByUser(id) => clerk[c].text = reviews[id].text
        /\ \A y \in analyses : y.id = id /\ id \notin DOMAIN reviews => y.text = clerk[c].text

ReviewsOK == TypedReviews /\ ImportsArePublished
AnalysesOK == TypedAnalyses /\ IdsAreOwned /\ AnalysedIsPublished
RepliesOK == TypedReplies /\ RepliesFit
RequestsOK ==
    /\ TypedRequests
    /\ \A p \in Poster : PosterOK(p)
    /\ \A a \in Approver : ApproverOK(a)
    /\ \A i \in Importer : ImporterOK(i)
    /\ \A w \in Worker : WorkerOK(w)
    /\ \A c \in Clerk : ClerkOK(c)
Good == ReviewsOK /\ AnalysesOK /\ RepliesOK /\ RequestsOK

LEMMA Split == IInv <=> Good
<1>1. TypeOK <=> TypedReviews /\ TypedAnalyses /\ TypedReplies /\ TypedRequests
  BY DEF TypeOK, TypedReviews, TypedAnalyses, TypedReplies, TypedRequests,
         PosterState, ImporterState, WorkerState, ClerkState
<1>2. RequestsKnowTheirReviews <=>
          /\ \A p \in Poster : PosterOK(p)
          /\ \A a \in Approver : ApproverOK(a)
          /\ \A i \in Importer : ImporterOK(i)
  BY DEF RequestsKnowTheirReviews, PosterOK, ApproverOK, ImporterOK
<1>3. JobsHavePublishedReviews <=> \A w \in Worker : WorkerOK(w)
  BY DEF JobsHavePublishedReviews, WorkerOK
<1>4. ClerksKnowTheText <=> \A c \in Clerk : ClerkOK(c)
  BY DEF ClerksKnowTheText, ClerkOK
<1> QED BY <1>1, <1>2, <1>3, <1>4 DEF IInv, Good, ReviewsOK, AnalysesOK, RepliesOK, RequestsOK

LEMMA SplitNext == IInv' <=> Good'
  BY Split, PTL

-----------------------------------------------------------------------------
(* What no step undoes.                                                    *)

ReviewsKeep ==
    \A r \in DOMAIN reviews :
        /\ r \in DOMAIN reviews' /\ reviews'[r].by = reviews[r].by
        /\ ByUser(r) => reviews'[r].text = reviews[r].text
        /\ reviews[r].status # "PENDING" => reviews'[r].status = reviews[r].status

RepliesKeep ==
    \A n \in DOMAIN replies :
        /\ n \in DOMAIN replies'
        /\ replies[n].status # "PENDING" => replies'[n] = replies[n]

AnalysesFresh ==
    /\ lastId <= lastId'
    /\ \A y \in analyses' : y \in analyses \/ y.id \in DOMAIN reviews' \/ y.id > lastId

LEMMA Limits ==
    MaxReviews \in Nat /\ MaxId \in Nat /\ MaxReviews <= MaxId /\ User \cap ImportKey = {}
  BY ReviewsAssumption

LEMMA ReviewIds ==
    ASSUME TypedReviews
    PROVE  /\ DOMAIN reviews = 1..Len(reviews) /\ Len(reviews) \in Nat
           /\ Len(reviews) <= MaxReviews /\ DOMAIN reviews \subseteq ReviewId
           /\ \A r \in DOMAIN reviews : reviews[r] \in ReviewRows
  BY Limits DEF TypedReviews, ReviewId

LEMMA ReviewIdsNext ==
    ASSUME TypedReviews'
    PROVE  /\ DOMAIN reviews' = 1..Len(reviews') /\ Len(reviews') \in Nat
           /\ Len(reviews') <= MaxReviews /\ DOMAIN reviews' \subseteq ReviewId
  BY Limits DEF TypedReviews, ReviewId

(* A number that is a review's now was so before, unless no analysis,      *)
(* reply or request has it.                                                *)
LEMMA OldIds ==
    ASSUME Good, TypedReviews', NEW id,
           id \in DOMAIN reviews \/ id \in (MaxReviews + 1)..lastId, id \in DOMAIN reviews'
    PROVE  id \in DOMAIN reviews
<1>1. id \in 1..Len(reviews') /\ Len(reviews') \in Nat /\ Len(reviews') <= MaxReviews
  BY ReviewIdsNext
<1>2. lastId \in Nat /\ MaxReviews \in Nat
  BY Limits DEF Good, AnalysesOK, TypedAnalyses
<1> QED BY <1>1, <1>2

-----------------------------------------------------------------------------
(* Whatever a step does to reviews and analyses, the others keep what they *)
(* know.                                                                   *)

LEMMA RepliesStay ==
    ASSUME Good, TypedReviews', TypedAnalyses', ReviewsKeep, AnalysesFresh, replies' = replies
    PROVE  RepliesOK' /\ RepliesKeep
<1>1. TypedReplies' /\ RepliesKeep
  BY DEF Good, RepliesOK, TypedReplies, RepliesKeep
<1>2. ASSUME NEW n \in DOMAIN replies
      PROVE  LET r == replies[n].review IN
             /\ r \in DOMAIN reviews' \/ r \in (MaxReviews + 1)..lastId'
             /\ r \in DOMAIN reviews' /\ ByUser(r)' => replies[n].text = reviews'[r].text
  <2> DEFINE r == replies[n].review
  <2>1. /\ r \in DOMAIN reviews \/ r \in (MaxReviews + 1)..lastId
        /\ r \in DOMAIN reviews /\ ByUser(r) => replies[n].text = reviews[r].text
    BY DEF Good, RepliesOK, RepliesFit
  <2>0. r' = r
    OBVIOUS
  <2> HIDE DEF r
  <2>2. r \in DOMAIN reviews' \/ r \in (MaxReviews + 1)..lastId'
    BY <2>1, Limits DEF ReviewsKeep, AnalysesFresh, Good, AnalysesOK, TypedAnalyses
  <2>3. ASSUME r \in DOMAIN reviews', ByUser(r)' PROVE replies[n].text = reviews'[r].text
    <3>1. r \in DOMAIN reviews
      BY <2>1, <2>3, OldIds
    <3> QED BY <2>0, <2>1, <2>3, <3>1 DEF ReviewsKeep, ByUser
  <2> QED BY <2>2, <2>3 DEF r
<1>3. RepliesFit'
  BY <1>2 DEF RepliesFit
<1> QED BY <1>1, <1>3 DEF RepliesOK

LEMMA RequestsStay ==
    ASSUME Good, TypedReviews', TypedAnalyses', ReviewsKeep, AnalysesFresh
    PROVE  /\ \A p \in Poster : poster'[p] = poster[p] => PosterOK(p)'
           /\ \A a \in Approver : approver'[a] = approver[a] => ApproverOK(a)'
           /\ \A i \in Importer : importer'[i] = importer[i] => ImporterOK(i)'
           /\ \A w \in Worker : worker'[w] = worker[w] => WorkerOK(w)'
           /\ \A c \in Clerk : clerk'[c] = clerk[c] => ClerkOK(c)'
<1>1. ASSUME NEW p \in Poster, poster'[p] = poster[p] PROVE PosterOK(p)'
  BY <1>1 DEF Good, RequestsOK, PosterOK
<1>2. ASSUME NEW a \in Approver, approver'[a] = approver[a] PROVE ApproverOK(a)'
  BY <1>2 DEF Good, RequestsOK, ApproverOK, ReviewsKeep
<1>3. ASSUME NEW i \in Importer, importer'[i] = importer[i] PROVE ImporterOK(i)'
  BY <1>3 DEF Good, RequestsOK, ImporterOK, ReviewsKeep
<1>4. ASSUME NEW w \in Worker, worker'[w] = worker[w] PROVE WorkerOK(w)'
  <2> SUFFICES ASSUME worker[w].pc = "save" PROVE WorkerOK(w)'
    BY <1>4 DEF WorkerOK
  <2>1. WorkerOK(w)
    BY DEF Good, RequestsOK
  <2>2. ASSUME NEW y \in worker[w].batch
        PROVE  IsOfItsReview(y)' /\ reviews'[y.of].status = "PUBLISHED"
    BY <2>1 DEF WorkerOK, ReviewsKeep, IsOfItsReview, ByUser
  <2> QED BY <1>4, <2>1, <2>2 DEF WorkerOK
<1>5. ASSUME NEW c \in Clerk, clerk'[c] = clerk[c] PROVE ClerkOK(c)'
  <2> SUFFICES ASSUME clerk[c].pc = "reply" PROVE ClerkOK(c)'
    BY <1>5 DEF ClerkOK
  <2> DEFINE id == clerk[c].id
  <2>1. /\ id \in DOMAIN reviews \/ id \in (MaxReviews + 1)..lastId
        /\ id \in DOMAIN reviews /\ ByUser(id) => clerk[c].text = reviews[id].text
        /\ \A y \in analyses : y.id = id /\ id \notin DOMAIN reviews => y.text = clerk[c].text
    BY DEF Good, RequestsOK, ClerkOK
  <2>0. id' = id
    BY <1>5
  <2> HIDE DEF id
  <2>2. id \in DOMAIN reviews' \/ id \in (MaxReviews + 1)..lastId'
    BY <2>1, Limits DEF ReviewsKeep, AnalysesFresh, Good, AnalysesOK, TypedAnalyses
  <2>3. ASSUME id \in DOMAIN reviews', ByUser(id)' PROVE clerk[c].text = reviews'[id].text
    <3>1. id \in DOMAIN reviews
      BY <2>1, <2>3, OldIds
    <3> QED BY <2>0, <2>1, <2>3, <3>1 DEF ReviewsKeep, ByUser
  <2>4. ASSUME NEW y \in analyses', y.id = id, id \notin DOMAIN reviews'
        PROVE  y.text = clerk[c].text
    <3>1. id \notin DOMAIN reviews /\ id \in (MaxReviews + 1)..lastId
      BY <2>1, <2>4 DEF ReviewsKeep
    <3>2. y \in analyses
      BY <2>4, <3>1, Limits DEF AnalysesFresh, Good, AnalysesOK, TypedAnalyses
    <3> QED BY <2>1, <2>4, <3>1, <3>2
  <2> QED BY <1>5, <2>2, <2>3, <2>4 DEF ClerkOK, id
<1> QED BY <1>1, <1>2, <1>3, <1>4, <1>5

LEMMA AnalysesStay ==
    ASSUME Good, TypedReviews', ReviewsKeep, UNCHANGED <<analyses, lastId>>
    PROVE  AnalysesOK' /\ AnalysesFresh
<1>1. TypedAnalyses' /\ AnalysesFresh
  BY Limits DEF Good, AnalysesOK, TypedAnalyses, AnalysesFresh
<1>2. ASSUME NEW y \in analyses
      PROVE  /\ y.id \in DOMAIN reviews' \/ y.id \in (MaxReviews + 1)..lastId
             /\ y.id \in DOMAIN reviews' => y.of = y.id
             /\ IsOfItsReview(y)' /\ reviews'[y.of].status = "PUBLISHED"
  <2>1. y.id \in DOMAIN reviews \/ y.id \in (MaxReviews + 1)..lastId
    BY DEF Good, AnalysesOK, IdsAreOwned
  <2>2. y.id \in DOMAIN reviews' => y.id \in DOMAIN reviews
    BY <2>1, OldIds
  <2>3. y.id \in DOMAIN reviews => y.of = y.id
    BY DEF Good, AnalysesOK, IdsAreOwned
  <2>4. IsOfItsReview(y) /\ reviews[y.of].status = "PUBLISHED"
    BY DEF Good, AnalysesOK, AnalysedIsPublished
  <2>5. IsOfItsReview(y)' /\ reviews'[y.of].status = "PUBLISHED"
    BY <2>4 DEF ReviewsKeep, IsOfItsReview, ByUser
  <2> QED BY <2>1, <2>2, <2>3, <2>5 DEF ReviewsKeep
<1>3. IdsAreOwned' /\ AnalysedIsPublished'
  BY <1>2 DEF Good, AnalysesOK, IdsAreOwned, AnalysedIsPublished
<1> QED BY <1>1, <1>3 DEF AnalysesOK

LEMMA ReviewsStay ==
    ASSUME Good, reviews' = reviews
    PROVE  ReviewsOK' /\ ReviewsKeep
  BY DEF Good, ReviewsOK, TypedReviews, ImportsArePublished, ByUser, ReviewsKeep

(* What is left to show of a step that writes no reply.                    *)
Step == Good' /\ ReviewsKeep /\ RepliesKeep

LEMMA Together ==
    ASSUME Good, ReviewsOK', ReviewsKeep, AnalysesOK', AnalysesFresh, replies' = replies,
           TypedRequests',
           \A p \in Poster : poster'[p] = poster[p] \/ PosterOK(p)',
           \A a \in Approver : approver'[a] = approver[a] \/ ApproverOK(a)',
           \A i \in Importer : importer'[i] = importer[i] \/ ImporterOK(i)',
           \A w \in Worker : worker'[w] = worker[w] \/ WorkerOK(w)',
           \A c \in Clerk : clerk'[c] = clerk[c] \/ ClerkOK(c)'
    PROVE  Step
<1>1. TypedReviews' /\ TypedAnalyses'
  BY DEF ReviewsOK, AnalysesOK
<1>2. RepliesOK' /\ RepliesKeep
  BY <1>1, RepliesStay
<1>3. RequestsOK'
  BY <1>1, RequestsStay DEF RequestsOK
<1> QED BY <1>2, <1>3 DEF Step, Good

(* A step that moves requests on and writes nothing else.                  *)
LEMMA NothingWritten ==
    ASSUME Good, UNCHANGED <<reviews, analyses, lastId, replies>>
    PROVE  ReviewsOK' /\ ReviewsKeep /\ AnalysesOK' /\ AnalysesFresh /\ replies' = replies
  BY ReviewsStay, AnalysesStay DEF ReviewsOK

LEMMA IdleState ==
    /\ Idle.pc = "idle" /\ Idle \in PosterState /\ Idle \in ImporterState
    /\ Idle \in WorkerState /\ Idle \in ClerkState
  BY DEF Idle, PosterState, ImporterState, WorkerState, ClerkState

LEMMA Typed == ASSUME Good PROVE TypedReviews /\ TypedAnalyses /\ TypedReplies /\ TypedRequests
  BY DEF Good, ReviewsOK, AnalysesOK, RepliesOK, RequestsOK

-----------------------------------------------------------------------------
(* Submission and moderation.                                              *)

LEMMA PosterSteps == ASSUME Good, NEW p \in Poster, PosterStep(p) PROVE Step
<1>1. ASSUME NEW u \in User, NEW x \in Text, NEW d \in Date, NEW s \in {"PENDING", "REJECTED"},
             SubmitUserReview(p, u, x, d, s)
      PROVE  Step
  <2> DEFINE row == [by |-> u, text |-> x, date |-> d, status |-> s]
             new == [pc |-> "insert", row |-> row]
  <2>1. row \in ReviewRows /\ row.by \in User /\ row.status = s
    BY DEF ReviewRows, Status
  <2> HIDE DEF row
  <2>2. new \in PosterState /\ new.row = row
    BY <2>1 DEF PosterState
  <2>3. poster' = [poster EXCEPT ![p] = new] /\ UNCHANGED <<approver, importer, worker, clerk>>
    BY <1>1 DEF SubmitUserReview, row
  <2> HIDE DEF new
  <2>4. TypedRequests'
    BY <2>2, <2>3, Typed DEF TypedRequests
  <2>5. \A q \in Poster : poster'[q] = poster[q] \/ PosterOK(q)'
    BY <2>1, <2>2, <2>3, Typed DEF TypedRequests, PosterOK
  <2>6. UNCHANGED <<reviews, analyses, lastId, replies>>
    BY <1>1 DEF SubmitUserReview
  <2> QED BY <2>3, <2>4, <2>5, <2>6, NothingWritten, Together
<1>2. CASE InsertReview(p)
  <2> DEFINE new == Len(reviews) + 1
             row == poster[p].row
  <2>1. poster[p].pc = "insert" /\ reviews' = Append(reviews, row) /\ Len(reviews) < MaxReviews
    BY <1>2 DEF InsertReview
  <2>2. row \in ReviewRows /\ row.by \in User
    BY <2>1, Typed, IdleState DEF TypedRequests, PosterState, Good, RequestsOK, PosterOK
  <2> HIDE DEF row
  <2>3. /\ reviews' \in Seq(ReviewRows) /\ Len(reviews') = new /\ DOMAIN reviews' = 1..new
        /\ reviews'[new] = row /\ \A r \in 1..Len(reviews) : reviews'[r] = reviews[r]
    BY <2>1, <2>2, Typed DEF TypedReviews
  <2>4. ReviewsOK' /\ ReviewsKeep
    BY <2>1, <2>2, <2>3, ReviewIds, Typed, Limits
       DEF Good, ReviewsOK, TypedReviews, ImportsArePublished, ByUser, ReviewsKeep
  <2>5. AnalysesOK' /\ AnalysesFresh
    BY <1>2, <2>4, AnalysesStay DEF InsertReview, ReviewsOK
  <2>6. poster' = [poster EXCEPT ![p] = Idle] /\ UNCHANGED <<approver, importer, worker, clerk, replies>>
    BY <1>2 DEF InsertReview
  <2>7. TypedRequests'
    BY <2>6, Typed, IdleState DEF TypedRequests
  <2>8. \A q \in Poster : poster'[q] = poster[q] \/ PosterOK(q)'
    BY <2>6, Typed, IdleState DEF TypedRequests, PosterOK
  <2> QED BY <2>4, <2>5, <2>6, <2>7, <2>8, Together
<1> QED BY <1>1, <1>2 DEF PosterStep

LEMMA ApproverSteps == ASSUME Good, NEW a \in Approver, ApproverStep(a) PROVE Step
<1>1. ASSUME NEW r \in DOMAIN reviews, NEW approve \in BOOLEAN, ModerateUserReview(a, r, approve)
      PROVE  Step
  <2> DEFINE verdict == IF approve THEN "PUBLISHED" ELSE "REJECTED"
             next == IF approve THEN r ELSE 0
  <2>1. /\ reviews' = [reviews EXCEPT ![r].status = verdict] /\ reviews[r].status = "PENDING"
        /\ approver' = [approver EXCEPT ![a] = next]
        /\ UNCHANGED <<analyses, lastId, replies, poster, importer, worker, clerk>>
    BY <1>1 DEF ModerateUserReview
  <2>2. verdict \in Status /\ (next # 0 => verdict = "PUBLISHED" /\ next = r) /\ next \in 0..MaxReviews
    BY ReviewIds, Typed, Limits DEF Status
  <2> HIDE DEF verdict, next
  <2>3. /\ reviews[r] \in ReviewRows /\ DOMAIN reviews = 1..Len(reviews) /\ r \in 1..Len(reviews)
    BY ReviewIds, Typed
  <2>4. [reviews[r] EXCEPT !.status = verdict] \in ReviewRows
    BY <2>2, <2>3 DEF ReviewRows
  <2>5. /\ reviews' \in Seq(ReviewRows) /\ Len(reviews') = Len(reviews)
        /\ DOMAIN reviews' = DOMAIN reviews
        /\ reviews'[r] = [reviews[r] EXCEPT !.status = verdict]
        /\ \A q \in DOMAIN reviews : q # r => reviews'[q] = reviews[q]
    BY <2>1, <2>3, <2>4, Typed DEF TypedReviews
  <2>6. /\ reviews'[r].by = reviews[r].by /\ reviews'[r].text = reviews[r].text
        /\ reviews'[r].status = verdict
    BY <2>3, <2>5 DEF ReviewRows
  <2>7. ReviewsOK'
    <3>1. ByUser(r)
      BY <2>1 DEF Good, ReviewsOK, ImportsArePublished
    <3>2. ImportsArePublished'
      BY <2>5, <2>6, <3>1 DEF Good, ReviewsOK, ImportsArePublished, ByUser
    <3> QED BY <2>5, <3>2, Typed DEF ReviewsOK, TypedReviews
  <2>8. ReviewsKeep
    BY <2>1, <2>5, <2>6 DEF ReviewsKeep
  <2>9. AnalysesOK' /\ AnalysesFresh
    BY <2>1, <2>7, <2>8, AnalysesStay DEF ReviewsOK
  <2>10. TypedRequests'
    BY <2>1, <2>2, Typed DEF TypedRequests
  <2>11. \A q \in Approver : approver'[q] = approver[q] \/ ApproverOK(q)'
    BY <2>1, <2>2, <2>5, <2>6, Typed DEF TypedRequests, ApproverOK
  <2> QED BY <2>1, <2>7, <2>8, <2>9, <2>10, <2>11, Together
<1>2. CASE CreateReviewAnalysis(a)
  <2> DEFINE r == approver[a]
             new == AnalysisOf(r, r)
  <2>1. /\ r # 0 /\ r \notin Ids /\ analyses' = analyses \cup {new}
        /\ approver' = [approver EXCEPT ![a] = 0]
        /\ UNCHANGED <<reviews, lastId, replies, poster, importer, worker, clerk>>
    BY <1>2 DEF CreateReviewAnalysis
  <2>2. r \in DOMAIN reviews /\ reviews[r].status = "PUBLISHED"
    BY <2>1 DEF Good, RequestsOK, ApproverOK
  <2>3. /\ new.id = r /\ new.of = r /\ new.text = reviews[r].text /\ new \in AnalysisRows
    <3>1. r \in ReviewId /\ reviews[r] \in ReviewRows
      BY <2>2, ReviewIds, Typed
    <3>2. r \in Id
      BY <3>1, Limits, Typed DEF TypedAnalyses, ReviewId, Id
    <3> QED BY <3>1, <3>2 DEF AnalysisOf, AnalysisRows, ReviewRows
  <2> HIDE DEF r, new
  <2>4. AnalysesOK' /\ AnalysesFresh
    <3>1. TypedAnalyses' /\ AnalysesFresh
      BY <2>1, <2>2, <2>3, Typed, Limits DEF TypedAnalyses, AnalysesFresh
    <3>2. IdsAreOwned'
      BY <2>1, <2>2, <2>3 DEF Good, AnalysesOK, IdsAreOwned, Ids
    <3>3. AnalysedIsPublished'
      BY <2>1, <2>2, <2>3 DEF Good, AnalysesOK, AnalysedIsPublished, IsOfItsReview, ByUser
    <3> QED BY <3>1, <3>2, <3>3 DEF AnalysesOK
  <2>5. TypedRequests'
    BY <2>1, Typed, Limits DEF TypedRequests
  <2>6. \A q \in Approver : approver'[q] = approver[q] \/ ApproverOK(q)'
    BY <2>1, Typed DEF TypedRequests, ApproverOK
  <2> QED BY <2>1, <2>4, <2>5, <2>6, ReviewsStay, Together
<1>3. CASE AnalysisFails(a)
  <2>1. /\ approver' = [approver EXCEPT ![a] = 0]
        /\ UNCHANGED <<reviews, analyses, lastId, replies, poster, importer, worker, clerk>>
    BY <1>3 DEF AnalysisFails
  <2>2. TypedRequests'
    BY <2>1, Typed, Limits DEF TypedRequests
  <2>3. \A q \in Approver : approver'[q] = approver[q] \/ ApproverOK(q)'
    BY <2>1, Typed DEF TypedRequests, ApproverOK
  <2> QED BY <2>1, <2>2, <2>3, NothingWritten, Together
<1> QED BY <1>1, <1>2, <1>3 DEF ApproverStep

-----------------------------------------------------------------------------
(* Import and analysis.                                                    *)

LEMMA FreshIdIsFresh ==
    ASSUME TypedAnalyses, IdsLeft, NEW r \in ReviewId
    PROVE  /\ FreshId(r) \in Id /\ FreshId(r) > lastId /\ FreshId(r) > MaxReviews
           /\ FreshId(r) <= lastId + MaxReviews
           /\ lastId + MaxReviews \in MaxReviews..MaxId /\ lastId \in Nat
  BY Limits DEF TypedAnalyses, IdsLeft, FreshId, ReviewId, Id

LEMMA UpsertKeeps ==
    ASSUME Good, NEW i \in Importer, importer[i].pc = "commit",
           UpsertReview(importer[i].found, importer[i].row),
           NEW r, r = IF importer[i].found = 0 THEN Len(reviews) + 1 ELSE importer[i].found
    PROVE  /\ ReviewsOK' /\ ReviewsKeep
           /\ r \in DOMAIN reviews' /\ reviews'[r].by \in ImportKey
<1> DEFINE row == importer[i].row
           found == importer[i].found
<1>1. /\ row \in ReviewRows /\ row.by \in ImportKey /\ row.status = "PUBLISHED"
      /\ found # 0 => found \in DOMAIN reviews /\ reviews[found].by = row.by
  BY Typed, IdleState DEF TypedRequests, ImporterState, Good, RequestsOK, ImporterOK
<1>2. \/ found = 0 /\ Len(reviews) < MaxReviews /\ reviews' = Append(reviews, row)
      \/ found # 0 /\ reviews' = [reviews EXCEPT ![found] = row]
  BY DEF UpsertReview
<1> HIDE DEF row
<1>3. CASE /\ found = 0 /\ Len(reviews) < MaxReviews /\ reviews' = Append(reviews, row)
  <2> DEFINE new == Len(reviews) + 1
  <2>1. /\ reviews' \in Seq(ReviewRows) /\ Len(reviews') = new /\ DOMAIN reviews' = 1..new
        /\ reviews'[new] = row /\ \A q \in 1..Len(reviews) : reviews'[q] = reviews[q]
    BY <1>1, <1>3, Typed DEF TypedReviews
  <2>2. ReviewsOK' /\ ReviewsKeep
    BY <1>1, <1>3, <2>1, ReviewIds, Typed, Limits
       DEF Good, ReviewsOK, TypedReviews, ImportsArePublished, ByUser, ReviewsKeep
  <2> QED BY <1>1, <1>3, <2>1, <2>2, ReviewIds, Typed
<1>4. CASE found # 0 /\ reviews' = [reviews EXCEPT ![found] = row]
  <2> HIDE DEF found
  <2>1. found \in 1..Len(reviews) /\ DOMAIN reviews = 1..Len(reviews)
    BY <1>1, <1>4, ReviewIds, Typed
  <2>2. /\ reviews' \in Seq(ReviewRows) /\ Len(reviews') = Len(reviews)
        /\ DOMAIN reviews' = DOMAIN reviews /\ reviews'[found] = row
        /\ \A q \in DOMAIN reviews : q # found => reviews'[q] = reviews[q]
    BY <1>1, <1>4, <2>1, Typed DEF TypedReviews
  <2>3. ~ByUser(found) /\ reviews[found].status = "PUBLISHED"
    BY <1>1, <1>4, Limits DEF Good, ReviewsOK, ImportsArePublished, ByUser
  <2>4. ReviewsOK'
    BY <1>1, <2>2, Typed DEF Good, ReviewsOK, TypedReviews, ImportsArePublished, ByUser
  <2>5. ReviewsKeep
    BY <1>1, <1>4, <2>2, <2>3 DEF ReviewsKeep
  <2> QED BY <1>1, <1>4, <2>2, <2>4, <2>5 DEF found
<1> QED BY <1>2, <1>3, <1>4

LEMMA ImportRecords ==
    ASSUME Good, NEW i \in Importer, NEW inline \in BOOLEAN, ImportRecord(i, inline)
    PROVE  Step
<1> DEFINE row == importer[i].row
           r == IF importer[i].found = 0 THEN Len(reviews) + 1 ELSE importer[i].found
           new == [id |-> FreshId(r), of |-> r, text |-> row.text, date |-> row.date]
<1>1. /\ importer[i].pc = "commit" /\ UpsertReview(importer[i].found, row)
      /\ \/ IdsLeft /\ analyses' = analyses \cup {new} /\ lastId' = lastId + MaxReviews
         \/ UNCHANGED <<analyses, lastId>>
      /\ importer' = [j \in Importer |-> IF j = i THEN Idle ELSE Overtaken(importer[j])]
      /\ UNCHANGED <<replies, poster, approver, worker, clerk>>
  BY DEF ImportRecord
<1>2. row \in ReviewRows
  BY <1>1, Typed, IdleState DEF TypedRequests, ImporterState
<1>3. new.id = FreshId(r) /\ new.of = r /\ new.text = row.text /\ new.date = row.date
  OBVIOUS
<1>4. /\ ReviewsOK' /\ ReviewsKeep
      /\ r \in DOMAIN reviews' /\ reviews'[r].by \in ImportKey
  BY <1>1, UpsertKeeps
<1>5. r \in ReviewId
  BY <1>4, ReviewIdsNext DEF ReviewsOK
<1>6. ASSUME IdsLeft, analyses' = analyses \cup {new}, lastId' = lastId + MaxReviews
      PROVE  AnalysesOK' /\ AnalysesFresh
  <2>1. /\ FreshId(r) \in Id /\ FreshId(r) > lastId /\ FreshId(r) > MaxReviews
        /\ FreshId(r) <= lastId' /\ lastId' \in MaxReviews..MaxId /\ lastId \in Nat
    BY <1>5, <1>6, FreshIdIsFresh, Typed
  <2>2. new \in AnalysisRows
    BY <1>2, <1>5, <2>1 DEF AnalysisRows, ReviewRows
  <2> HIDE DEF new, r, row
  <2>3. \A y \in analyses :
            /\ y.id \in DOMAIN reviews' => y.id \in DOMAIN reviews
            /\ y.id \in DOMAIN reviews \/ y.id \in (MaxReviews + 1)..lastId
    BY <1>4, OldIds DEF Good, AnalysesOK, IdsAreOwned, ReviewsOK
  <2>4. DOMAIN reviews \subseteq ReviewId /\ DOMAIN reviews' \subseteq ReviewId
    BY <1>4, ReviewIds, ReviewIdsNext, Typed DEF ReviewsOK
  <2>5. new.id \notin DOMAIN reviews' /\ \A y \in analyses : y.id # new.id
    BY <1>3, <2>1, <2>3, <2>4, Limits DEF ReviewId
  <2>6. TypedAnalyses'
    BY <1>6, <2>1, <2>2, Typed DEF TypedAnalyses
  <2>7. AnalysesFresh
    BY <1>3, <1>6, <2>1, Limits DEF AnalysesFresh
  <2>8. IdsAreOwned'
    <3>1. \A y \in analyses' : y.id \in DOMAIN reviews' \/ y.id \in (MaxReviews + 1)..lastId'
      <4>1. new.id \in (MaxReviews + 1)..lastId'
        BY <1>3, <2>1, Limits DEF Id
      <4>2. ASSUME NEW y \in analyses
            PROVE  y.id \in DOMAIN reviews' \/ y.id \in (MaxReviews + 1)..lastId'
        BY <1>4, <1>6, <2>1, <2>3, Limits DEF ReviewsKeep
      <4> QED BY <1>6, <4>1, <4>2
    <3>2. \A y \in analyses' : y.id \in DOMAIN reviews' => y.of = y.id
      BY <1>6, <2>3, <2>5 DEF Good, AnalysesOK, IdsAreOwned
    <3>3. \A y, z \in analyses' : y.id = z.id => y = z
      BY <1>6, <2>5 DEF Good, AnalysesOK, IdsAreOwned
    <3> QED BY <3>1, <3>2, <3>3 DEF IdsAreOwned
  <2>9. AnalysedIsPublished'
    <3>1. ASSUME NEW y \in analyses
          PROVE  IsOfItsReview(y)' /\ reviews'[y.of].status = "PUBLISHED"
      BY <1>4 DEF Good, AnalysesOK, AnalysedIsPublished, ReviewsKeep, IsOfItsReview, ByUser
    <3>2. reviews'[r].status = "PUBLISHED" /\ reviews'[r].by \notin User
      BY <1>4, Limits DEF ReviewsOK, ImportsArePublished, ByUser
    <3>3. ASSUME NEW y, y = new
          PROVE  IsOfItsReview(y)' /\ reviews'[y.of].status = "PUBLISHED"
      BY <1>3, <1>4, <3>2, <3>3 DEF IsOfItsReview, ByUser
    <3> QED BY <1>6, <3>1, <3>3 DEF AnalysedIsPublished
  <2> QED BY <2>6, <2>7, <2>8, <2>9 DEF AnalysesOK
<1>7. ASSUME UNCHANGED <<analyses, lastId>>
      PROVE  AnalysesOK' /\ AnalysesFresh
  BY <1>4, <1>7, AnalysesStay DEF ReviewsOK
<1>8. AnalysesOK' /\ AnalysesFresh
  BY <1>1, <1>6, <1>7
<1> HIDE DEF r, row, new
<1>9. ASSUME NEW j \in Importer
      PROVE  /\ importer'[j] \in ImporterState /\ importer'[j].pc \in {"idle", importer[j].pc}
             /\ importer'[j].pc = "commit" =>
                    importer'[j].found = importer[j].found /\ importer'[j].row = importer[j].row
  <2>1. importer[j] \in ImporterState
    BY Typed DEF TypedRequests
  <2>2. CASE j = i
    BY <1>1, <2>2, IdleState
  <2>3. CASE j # i /\ importer[j].pc = "commit"
    <3>1. importer'[j] = [importer[j] EXCEPT !.fresh = FALSE]
      BY <1>1, <2>3 DEF Overtaken
    <3> QED BY <2>1, <2>3, <3>1, IdleState DEF ImporterState
  <2>4. CASE j # i /\ importer[j].pc # "commit"
    BY <1>1, <2>1, <2>4 DEF Overtaken
  <2> QED BY <2>2, <2>3, <2>4
<1>10. TypedRequests'
  BY <1>1, <1>9, Typed DEF TypedRequests
<1>11. \A j \in Importer : ImporterOK(j)'
  BY <1>4, <1>9 DEF Good, RequestsOK, ImporterOK, ReviewsKeep
<1> QED BY <1>1, <1>4, <1>8, <1>10, <1>11, Together

LEMMA ImporterSteps == ASSUME Good, NEW i \in Importer, ImporterStep(i) PROVE Step
<1>1. ASSUME NEW k \in ImportKey, NEW x \in Text, NEW d \in Date, StartImport(i, k, x, d)
      PROVE  Step
  <2> DEFINE row == [by |-> k, text |-> x, date |-> d, status |-> "PUBLISHED"]
             known == \E y \in analyses : y.text = x
  <2>1. PICK found \in IF RowOf(k) = {} THEN {0} ELSE RowOf(k) :
            importer' = [importer EXCEPT ![i] =
                [pc |-> "commit", found |-> found, row |-> row, known |-> known, fresh |-> TRUE]]
    BY <1>1 DEF StartImport
  <2>2. row \in ReviewRows /\ row.by = k /\ row.status = "PUBLISHED" /\ known \in BOOLEAN
    BY DEF ReviewRows, Status
  <2> HIDE DEF row, known
  <2>3. found \in 0..MaxReviews /\ (found # 0 => found \in DOMAIN reviews /\ reviews[found].by = k)
    BY ReviewIds, Typed, Limits DEF RowOf, ReviewId
  <2> DEFINE new ==
                 [pc |-> "commit", found |-> found, row |-> row, known |-> known, fresh |-> TRUE]
  <2>4. importer' = [importer EXCEPT ![i] = new]
    BY <2>1
  <2>5. new \in ImporterState /\ new.found = found /\ new.row = row
    BY <2>2, <2>3 DEF ImporterState
  <2> HIDE DEF new
  <2>6. UNCHANGED <<reviews, analyses, lastId, replies, poster, approver, worker, clerk>>
    BY <1>1 DEF StartImport
  <2>7. TypedRequests'
    BY <2>4, <2>5, <2>6, Typed DEF TypedRequests
  <2>8. \A q \in Importer : importer'[q] = importer[q] \/ ImporterOK(q)'
    BY <2>2, <2>3, <2>4, <2>5, <2>6, Typed DEF TypedRequests, ImporterOK
  <2> QED BY <2>6, <2>7, <2>8, NothingWritten, Together
<1>2. CASE ImportFails(i)
  <2>1. /\ importer' = [importer EXCEPT ![i] = Idle]
        /\ UNCHANGED <<reviews, analyses, lastId, replies, poster, approver, worker, clerk>>
    BY <1>2 DEF ImportFails
  <2>2. TypedRequests'
    BY <2>1, Typed, IdleState DEF TypedRequests
  <2>3. \A q \in Importer : importer'[q] = importer[q] \/ ImporterOK(q)'
    BY <2>1, Typed, IdleState DEF TypedRequests, ImporterOK
  <2> QED BY <2>1, <2>2, <2>3, NothingWritten, Together
<1> QED BY <1>1, <1>2, ImportRecords DEF ImporterStep

LEMMA Saves == ASSUME Good, NEW w \in Worker, SaveReviewAnalyses(w) PROVE Step
<1> DEFINE batch == worker[w].batch
           Fresh(y) == [id |-> FreshId(y.of), of |-> y.of, text |-> y.text, date |-> y.date]
           Old == {y \in analyses : ~InScope(worker[w].full, y.date)}
           New == {Fresh(y) : y \in batch}
<1>1. /\ worker[w].pc = "save" /\ IdsLeft
      /\ analyses' = Old \cup New /\ lastId' = lastId + MaxReviews
      /\ worker' = [worker EXCEPT ![w] = Idle]
      /\ UNCHANGED <<reviews, replies, poster, approver, importer, clerk>>
  BY DEF SaveReviewAnalyses
<1>2. /\ batch \in SUBSET Loaded
      /\ \A y \in batch : IsOfItsReview(y) /\ reviews[y.of].status = "PUBLISHED"
      /\ \A y, z \in batch : y.of = z.of => y = z
  <2>1. worker[w] \in [pc : {"save"}, full : BOOLEAN, batch : SUBSET Loaded]
    BY <1>1, Typed, IdleState DEF TypedRequests, WorkerState
  <2>2. WorkerOK(w)
    BY DEF Good, RequestsOK
  <2> QED BY <1>1, <2>1, <2>2 DEF WorkerOK
<1> HIDE DEF batch
<1>3. ASSUME NEW y \in batch
      PROVE  LET f == Fresh(y) IN
             /\ f \in AnalysisRows /\ f.of = y.of /\ f.text = y.text /\ f.date = y.date
             /\ f.id = lastId + y.of /\ f.id > lastId /\ f.id \in (MaxReviews + 1)..lastId'
             /\ f.id \notin DOMAIN reviews
             /\ IsOfItsReview(f) /\ reviews[f.of].status = "PUBLISHED"
  <2> DEFINE f == Fresh(y)
  <2>1. y.of \in ReviewId /\ y.text \in Text /\ y.date \in Date
    BY <1>2 DEF Loaded
  <2>2. /\ f.id = FreshId(y.of) /\ f.of = y.of /\ f.text = y.text /\ f.date = y.date
    OBVIOUS
  <2>3. /\ FreshId(y.of) \in Id /\ FreshId(y.of) > lastId /\ FreshId(y.of) > MaxReviews
        /\ FreshId(y.of) <= lastId'
    BY <1>1, <2>1, FreshIdIsFresh, Typed
  <2>4. f \in AnalysisRows
    BY <2>1, <2>3 DEF AnalysisRows
  <2> HIDE DEF f
  <2>5. /\ f.id = lastId + y.of /\ f.id > lastId /\ f.id \in (MaxReviews + 1)..lastId'
    BY <2>2, <2>3, Limits DEF FreshId, Id
  <2>6. f.id \notin DOMAIN reviews
    BY <2>5, ReviewIds, Typed, Limits
  <2>7. IsOfItsReview(f) /\ reviews[f.of].status = "PUBLISHED"
    BY <1>2, <2>2 DEF IsOfItsReview
  <2> QED BY <2>2, <2>4, <2>5, <2>6, <2>7 DEF f
<1>5. lastId' \in MaxReviews..MaxId /\ lastId <= lastId' /\ lastId \in Nat
  BY <1>1, Limits, Typed DEF TypedAnalyses, IdsLeft
<1> HIDE DEF Fresh
<1>6. \A y \in analyses' : y \in analyses \/ \E z \in batch : y = Fresh(z)
  BY <1>1
<1>7. TypedAnalyses'
  BY <1>3, <1>5, <1>6, Typed DEF TypedAnalyses
<1>8. AnalysesFresh
  BY <1>3, <1>5, <1>6 DEF AnalysesFresh
<1>9. IdsAreOwned'
  <2>1. \A y \in analyses : /\ y.id \in DOMAIN reviews \/ y.id \in (MaxReviews + 1)..lastId
                            /\ y.id \in DOMAIN reviews => y.of = y.id
    BY DEF Good, AnalysesOK, IdsAreOwned
  <2>2. \A y \in analyses : ~(y.id > lastId)
    BY <1>5, <2>1, ReviewIds, Typed, Limits DEF TypedAnalyses
  <2>3. \A y \in analyses' : y.id \in DOMAIN reviews \/ y.id \in (MaxReviews + 1)..lastId'
    BY <1>3, <1>5, <1>6, <2>1, Limits
  <2>4. \A y \in analyses' : y.id \in DOMAIN reviews => y.of = y.id
    BY <1>3, <1>6, <2>1
  <2>5. ASSUME NEW y \in analyses', NEW z \in analyses', y.id = z.id PROVE y = z
    <3>1. CASE y \in analyses /\ z \in analyses
      BY <2>5, <3>1 DEF Good, AnalysesOK, IdsAreOwned
    <3>2. CASE \E a \in batch, b \in batch : y = Fresh(a) /\ z = Fresh(b)
      <4>1. PICK a \in batch, b \in batch : y = Fresh(a) /\ z = Fresh(b)
        BY <3>2
      <4>2. lastId + a.of = lastId + b.of /\ a.of \in Nat /\ b.of \in Nat
        BY <1>2, <1>3, <2>5, <4>1 DEF Loaded, ReviewId
      <4>3. a.of = b.of
        BY <1>5, <4>2
      <4> QED BY <1>2, <4>1, <4>3
    <3>3. y \in analyses => ~(y.id > lastId)
      BY <2>2
    <3>4. z \in analyses => ~(z.id > lastId)
      BY <2>2
    <3>5. y \notin analyses => y.id > lastId
      BY <1>3, <1>6
    <3>6. z \notin analyses => z.id > lastId
      BY <1>3, <1>6
    <3> QED BY <1>6, <2>5, <3>1, <3>2, <3>3, <3>4, <3>5, <3>6
  <2> QED BY <1>1, <2>3, <2>4, <2>5 DEF IdsAreOwned
<1>10. AnalysedIsPublished'
  <2>1. \A y \in analyses' : IsOfItsReview(y) /\ reviews[y.of].status = "PUBLISHED"
    BY <1>3, <1>6 DEF Good, AnalysesOK, AnalysedIsPublished
  <2> QED BY <1>1, <2>1 DEF AnalysedIsPublished, IsOfItsReview, ByUser
<1>11. TypedRequests'
  BY <1>1, Typed, IdleState DEF TypedRequests
<1>12. \A q \in Worker : worker'[q] = worker[q] \/ WorkerOK(q)'
  BY <1>1, Typed, IdleState DEF TypedRequests, WorkerOK
<1> QED BY <1>1, <1>7, <1>8, <1>9, <1>10, <1>11, <1>12, ReviewsStay, Together DEF AnalysesOK

LEMMA WorkerSteps == ASSUME Good, NEW w \in Worker, WorkerStep(w) PROVE Step
<1>1. ASSUME NEW full \in BOOLEAN, LoadReviews(w, full) PROVE Step
  <2> DEFINE load(r) == [of |-> r, text |-> reviews[r].text, date |-> reviews[r].date]
             ripe == {q \in DOMAIN reviews : /\ reviews[q].status = "PUBLISHED"
                                             /\ InScope(full, reviews[q].date)}
             batch == {load(r) : r \in ripe}
             new == [pc |-> "save", full |-> full, batch |-> batch]
  <2>1. /\ worker' = [worker EXCEPT ![w] = new]
        /\ UNCHANGED <<reviews, analyses, lastId, replies, poster, approver, importer, clerk>>
    BY <1>1 DEF LoadReviews
  <2>2. \A r \in ripe : r \in DOMAIN reviews /\ reviews[r].status = "PUBLISHED"
    OBVIOUS
  <2> HIDE DEF ripe
  <2>3. \A r \in ripe : /\ load(r) \in Loaded /\ load(r).of = r /\ load(r).text = reviews[r].text
    BY <2>2, ReviewIds, Typed DEF Loaded, ReviewRows
  <2> HIDE DEF load
  <2>4. batch \in SUBSET Loaded
    BY <2>3
  <2>5. \A y \in batch : /\ y.of \in DOMAIN reviews /\ reviews[y.of].status = "PUBLISHED"
                         /\ y.text = reviews[y.of].text
    BY <2>2, <2>3
  <2>6. \A y, z \in batch : y.of = z.of => y = z
    BY <2>3
  <2> HIDE DEF batch
  <2>7. new \in WorkerState /\ new.batch = batch
    BY <2>4 DEF WorkerState
  <2> HIDE DEF new
  <2>8. TypedRequests'
    BY <2>1, <2>7, Typed DEF TypedRequests
  <2>9. \A q \in Worker : worker'[q] = worker[q] \/ WorkerOK(q)'
    <3> SUFFICES WorkerOK(w)'
      BY <2>1, Typed DEF TypedRequests
    <3>1. worker'[w].batch = batch
      BY <2>1, <2>7, Typed DEF TypedRequests
    <3> QED BY <2>1, <2>5, <2>6, <3>1 DEF WorkerOK, IsOfItsReview, ByUser
  <2> QED BY <2>1, <2>8, <2>9, NothingWritten, Together
<1>2. CASE StopAnalysis(w)
  <2>1. /\ worker' = [worker EXCEPT ![w] = Idle]
        /\ UNCHANGED <<reviews, analyses, lastId, replies, poster, approver, importer, clerk>>
    BY <1>2 DEF StopAnalysis
  <2>2. TypedRequests'
    BY <2>1, Typed, IdleState DEF TypedRequests
  <2>3. \A q \in Worker : worker'[q] = worker[q] \/ WorkerOK(q)'
    BY <2>1, Typed, IdleState DEF TypedRequests, WorkerOK
  <2> QED BY <2>1, <2>2, <2>3, NothingWritten, Together
<1> QED BY <1>1, <1>2, Saves DEF WorkerStep

-----------------------------------------------------------------------------
(* Replies.                                                                *)

LEMMA Opens == ASSUME Good, NEW c \in Clerk, NEW id \in Id, OpenReview(c, id) PROVE Step
<1>1. PICK y \in {AnalysisOf(r, r) : r \in DOMAIN reviews} \cup
                 {z \in analyses : z.id \notin DOMAIN reviews} :
          /\ y.id = id
          /\ clerk' = [clerk EXCEPT ![c] =
                 [pc |-> "reply", id |-> id, of |-> y.of, text |-> y.text]]
  BY DEF OpenReview
<1>2. UNCHANGED <<reviews, analyses, lastId, replies, poster, approver, importer, worker>>
  BY DEF OpenReview
<1> DEFINE new == [pc |-> "reply", id |-> id, of |-> y.of, text |-> y.text]
<1>3. /\ y.of \in ReviewId /\ y.text \in Text
      /\ id \in DOMAIN reviews \/ id \in (MaxReviews + 1)..lastId
      /\ id \in DOMAIN reviews => y.text = reviews[id].text
      /\ \A z \in analyses : z.id = id /\ id \notin DOMAIN reviews => z.text = y.text
  <2>1. CASE \E r \in DOMAIN reviews : y = AnalysisOf(r, r)
    <3>1. PICK r \in DOMAIN reviews : y = AnalysisOf(r, r)
      BY <2>1
    <3>2. y.id = r /\ y.of = r /\ y.text = reviews[r].text
      BY <3>1 DEF AnalysisOf
    <3> QED BY <1>1, <3>2, ReviewIds, Typed DEF ReviewRows
  <2>2. CASE y \in analyses /\ y.id \notin DOMAIN reviews
    BY <1>1, <2>2, Typed DEF TypedAnalyses, AnalysisRows, Good, AnalysesOK, IdsAreOwned
  <2> QED BY <2>1, <2>2
<1>4. new \in ClerkState /\ new.id = id /\ new.text = y.text
  BY <1>3 DEF ClerkState
<1>5. clerk' = [clerk EXCEPT ![c] = new]
  BY <1>1
<1> HIDE DEF new
<1>6. TypedRequests'
  BY <1>2, <1>4, <1>5, Typed DEF TypedRequests
<1>7. \A q \in Clerk : clerk'[q] = clerk[q] \/ ClerkOK(q)'
  <2>1. clerk'[c] = new /\ \A q \in Clerk : q # c => clerk'[q] = clerk[q]
    BY <1>5, Typed DEF TypedRequests
  <2>2. ClerkOK(c)'
    BY <1>2, <1>3, <1>4, <2>1 DEF ClerkOK, ByUser
  <2> QED BY <2>1, <2>2
<1> QED BY <1>2, <1>6, <1>7, NothingWritten, Together

(* A step that writes replies only.                                        *)
LEMMA RepliesWritten ==
    ASSUME Good, UNCHANGED <<reviews, analyses, lastId, poster, approver, importer, worker>>,
           TypedRequests', RepliesOK', RepliesKeep,
           \A c \in Clerk : clerk'[c] = clerk[c] \/ ClerkOK(c)'
    PROVE  Step
<1>1. ReviewsOK' /\ ReviewsKeep /\ AnalysesOK' /\ AnalysesFresh
  BY ReviewsStay, AnalysesStay DEF ReviewsOK
<1>2. RequestsOK'
  BY <1>1, RequestsStay DEF RequestsOK, ReviewsOK, AnalysesOK
<1> QED BY <1>1, <1>2 DEF Step, Good

LEMMA Replies ==
    ASSUME Good, NEW c \in Clerk, NEW s \in {"PENDING", "REJECTED"}, CreateReply(c, s)
    PROVE  Step
<1>1. PICK r \in Id : /\ IsCanonical(clerk[c].id, r)
                      /\ replies' = Append(replies, [review |-> r, of |-> clerk[c].of,
                                                     text |-> clerk[c].text, status |-> s])
  BY DEF CreateReply
<1> DEFINE row == [review |-> r, of |-> clerk[c].of, text |-> clerk[c].text, status |-> s]
           new == Len(replies) + 1
<1>2. /\ clerk[c].pc = "reply" /\ clerk' = [clerk EXCEPT ![c] = Idle]
      /\ UNCHANGED <<reviews, analyses, lastId, poster, approver, importer, worker>>
  BY DEF CreateReply
<1>3. clerk[c] \in [pc : {"reply"}, id : Id, of : ReviewId, text : Text]
  BY <1>2, Typed, IdleState DEF TypedRequests, ClerkState
<1>4. row \in ReplyRows /\ row.review = r /\ row.text = clerk[c].text
  BY <1>3 DEF ReplyRows, Status
<1>5. replies' = Append(replies, row)
  BY <1>1
<1> HIDE DEF row
<1>6. /\ replies' \in Seq(ReplyRows) /\ DOMAIN replies' = 1..new
      /\ DOMAIN replies = 1..Len(replies) /\ Len(replies) \in Nat
      /\ replies'[new] = row /\ \A n \in 1..Len(replies) : replies'[n] = replies[n]
  BY <1>4, <1>5, Typed DEF TypedReplies
<1>7. /\ r \in DOMAIN reviews \/ r \in (MaxReviews + 1)..lastId
      /\ r \in DOMAIN reviews /\ ByUser(r) => row.text = reviews[r].text
  <2> DEFINE id == clerk[c].id
  <2>1. /\ id \in DOMAIN reviews \/ id \in (MaxReviews + 1)..lastId
        /\ id \in DOMAIN reviews /\ ByUser(id) => clerk[c].text = reviews[id].text
        /\ \A y \in analyses : y.id = id /\ id \notin DOMAIN reviews => y.text = clerk[c].text
    BY <1>2 DEF Good, RequestsOK, ClerkOK
  <2>2. CASE id \in DOMAIN reviews \/ Matches(id) = {}
    <3>1. r = id
      BY <1>1, <2>2 DEF IsCanonical
    <3> QED BY <1>4, <2>1, <3>1
  <2>3. CASE id \notin DOMAIN reviews /\ Matches(id) # {}
    <3>1. r \in Matches(id)
      BY <1>1, <2>3 DEF IsCanonical
    <3>2. r \in DOMAIN reviews /\ \E y \in analyses : y.id = id /\ y.text = reviews[r].text
      BY <3>1 DEF Matches
    <3> QED BY <1>4, <2>1, <2>3, <3>2
  <2> QED BY <2>2, <2>3
<1>8. RepliesFit'
  <2>1. ASSUME NEW n \in DOMAIN replies'
        PROVE  LET q == replies'[n].review IN
               /\ q \in DOMAIN reviews \/ q \in (MaxReviews + 1)..lastId
               /\ q \in DOMAIN reviews /\ ByUser(q) => replies'[n].text = reviews[q].text
    <3>1. CASE n = new
      BY <1>4, <1>6, <1>7, <3>1 DEF ByUser
    <3>2. CASE n # new
      <4>1. n \in DOMAIN replies /\ replies'[n] = replies[n]
        BY <1>6, <3>2
      <4> QED BY <4>1 DEF Good, RepliesOK, RepliesFit, ByUser
    <3> QED BY <3>1, <3>2
  <2> QED BY <1>2, <2>1 DEF RepliesFit, ByUser
<1>9. RepliesOK' /\ RepliesKeep
  BY <1>6, <1>8 DEF RepliesOK, TypedReplies, RepliesKeep
<1>10. TypedRequests'
  BY <1>2, Typed, IdleState DEF TypedRequests
<1>11. \A q \in Clerk : clerk'[q] = clerk[q] \/ ClerkOK(q)'
  BY <1>2, Typed, IdleState DEF TypedRequests, ClerkOK
<1> QED BY <1>2, <1>9, <1>10, <1>11, RepliesWritten

LEMMA ReplyDecisions ==
    ASSUME Good, NEW n \in DOMAIN replies, NEW approve \in BOOLEAN,
           ModerateMerchantReply(n, approve)
    PROVE  Step
<1> DEFINE verdict == IF approve THEN "PUBLISHED" ELSE "REJECTED"
<1>1. /\ replies[n].status = "PENDING" /\ replies' = [replies EXCEPT ![n].status = verdict]
      /\ UNCHANGED <<reviews, analyses, lastId, poster, approver, importer, worker, clerk>>
  BY DEF ModerateMerchantReply
<1>2. verdict \in Status
  BY DEF Status
<1> HIDE DEF verdict
<1>3. DOMAIN replies = 1..Len(replies) /\ Len(replies) \in Nat /\ replies[n] \in ReplyRows
  BY Typed DEF TypedReplies
<1>4. [replies[n] EXCEPT !.status = verdict] \in ReplyRows
  BY <1>2, <1>3 DEF ReplyRows
<1>5. /\ replies' \in Seq(ReplyRows) /\ DOMAIN replies' = DOMAIN replies
      /\ replies'[n] = [replies[n] EXCEPT !.status = verdict]
      /\ \A q \in DOMAIN replies : q # n => replies'[q] = replies[q]
  BY <1>1, <1>3, <1>4, Typed DEF TypedReplies
<1>6. replies'[n].review = replies[n].review /\ replies'[n].text = replies[n].text
  BY <1>3, <1>5 DEF ReplyRows
<1>7. RepliesFit'
  BY <1>1, <1>5, <1>6 DEF Good, RepliesOK, RepliesFit, ByUser
<1>8. RepliesOK' /\ RepliesKeep
  BY <1>1, <1>5, <1>7 DEF RepliesOK, TypedReplies, RepliesKeep
<1>9. TypedRequests'
  BY <1>1, Typed DEF TypedRequests
<1> QED BY <1>1, <1>8, <1>9, RepliesWritten

-----------------------------------------------------------------------------
(* The invariant.                                                          *)

LEMMA InitGood == Init => Good
<1> SUFFICES ASSUME Init PROVE Good
  OBVIOUS
<1>1. /\ reviews = <<>> /\ analyses = {} /\ lastId = MaxReviews /\ replies = <<>>
      /\ poster = [p \in Poster |-> Idle] /\ approver = [a \in Approver |-> 0]
      /\ importer = [i \in Importer |-> Idle] /\ worker = [w \in Worker |-> Idle]
      /\ clerk = [c \in Clerk |-> Idle]
  BY DEF Init
<1>2. ReviewsOK
  BY <1>1, Limits DEF ReviewsOK, TypedReviews, ImportsArePublished
<1>3. AnalysesOK
  BY <1>1, Limits DEF AnalysesOK, TypedAnalyses, IdsAreOwned, AnalysedIsPublished
<1>4. RepliesOK
  BY <1>1 DEF RepliesOK, TypedReplies, RepliesFit
<1>5. RequestsOK
  BY <1>1, IdleState, Limits DEF RequestsOK, TypedRequests, PosterOK, ApproverOK, ImporterOK,
                                 WorkerOK, ClerkOK
<1> QED BY <1>2, <1>3, <1>4, <1>5 DEF Good

LEMMA NextSteps == Good /\ [Next]_vars => Step
<1> SUFFICES ASSUME Good, [Next]_vars PROVE Step
  OBVIOUS
<1>1. ASSUME Next PROVE Step
  <2>1. CASE \E p \in Poster : PosterStep(p)
    BY <2>1, PosterSteps
  <2>2. CASE \E a \in Approver : ApproverStep(a)
    BY <2>2, ApproverSteps
  <2>3. CASE \E i \in Importer : ImporterStep(i)
    BY <2>3, ImporterSteps
  <2>4. CASE \E w \in Worker : WorkerStep(w)
    BY <2>4, WorkerSteps
  <2>5. CASE ReplyStep
    BY <2>5, Opens, Replies, ReplyDecisions DEF ReplyStep
  <2> QED BY <1>1, <2>1, <2>2, <2>3, <2>4, <2>5 DEF Next
<1>2. CASE UNCHANGED vars
  BY <1>2, NothingWritten, Together, Typed DEF vars, TypedRequests
<1> QED BY <1>1, <1>2

(* The inductive invariant holds of every reachable state                  *)
(* (repositories/operations.py, merchant_import.py, task_runtime.py).      *)
THEOREM ReviewsInvariance == Spec => []IInv
<1>1. Init => IInv
  BY InitGood, Split
<1>2. IInv /\ [Next]_vars => IInv'
  BY NextSteps, Split, SplitNext DEF Step
<1> QED BY <1>1, <1>2, PTL DEF Spec

(* What is analysed was published: no path leads from a submission to the  *)
(* sentiment of a merchant past its moderation (_load_reviews,             *)
(* _analyze_approved_review).                                              *)
THEOREM OnlyPublishedIsAnalysed == Spec => []AnalysedIsPublished
<1>1. IInv => AnalysedIsPublished
  BY DEF IInv
<1> QED BY <1>1, ReviewsInvariance, PTL

(* A reply under a user's review was written to its words, whatever        *)
(* replaces the analyses meanwhile (create_reply).                         *)
THEOREM RepliesFitTheirReviews == Spec => []RepliesFit
<1>1. IInv => RepliesFit
  BY DEF IInv
<1> QED BY <1>1, ReviewsInvariance, PTL

(* What a moderator decided of a review or a reply stands                  *)
(* (moderate_user_review, moderate_merchant_reply, _upsert_review).        *)
THEOREM DecisionsAreFinal == Spec => DecisionsStand
<1>1. IInv /\ [Next]_vars =>
        [/\ \A r \in DOMAIN reviews :
               /\ r \in DOMAIN reviews' /\ reviews'[r].by = reviews[r].by
               /\ reviews[r].status # "PENDING" => reviews'[r].status = reviews[r].status
         /\ \A n \in DOMAIN replies :
               /\ n \in DOMAIN replies'
               /\ replies[n].status # "PENDING" => replies'[n] = replies[n]]_vars
  BY NextSteps, Split DEF Step, ReviewsKeep, RepliesKeep
<1> QED BY <1>1, ReviewsInvariance, PTL DEF Spec, DecisionsStand
-----------------------------------------------------------------------------
(***************************************************************************)
(* Feedback and datasets.  One row and its audit trail are judged together *)
(* (RowOK); two things hold of every step: audit trails only grow, and no  *)
(* version is taken back (TrailsGrow, VersionsGrow).  What the requests    *)
(* under way know, and what the datasets hold, follows from these.         *)
(***************************************************************************)

RowOK(row, trail) ==
    /\ row \in Rows /\ trail \in Seq(AuditRows)
    /\ (row.version = 0) = (trail = <<>>)
    /\ trail # <<>> => trail[Len(trail)].content = row.content
    /\ \A i, j \in DOMAIN trail : i < j => trail[i].version <= trail[j].version
    /\ \A i \in DOMAIN trail : trail[i].version \in 1..(row.version + 1)

Submission == [pc : {"idle", "create", "update"},
               key : Key \cup {Nothing}, content : Content \cup {Nothing}]
Ruling == [pc : {"idle", "decide"}, key : Key \cup {Nothing}, decision : Decision, version : Nat]
Build == [pc : {"idle", "save", "items"}, samples : Samples, dataset : Nat]
Dataset == [samples : Samples, file : Seq(Content), items : Samples]

SubmissionOK(c) ==
    /\ client[c].pc # "idle" => client[c].key \in Key /\ client[c].content \in Content
    /\ client[c].pc = "update" => feedback[client[c].key].version > 0

RulingOK(m) == moderator[m].pc = "decide" => moderator[m].key \in Key /\ moderator[m].version > 0

Traceable(s) == \A k \in DOMAIN s : Audited(k, s[k])

BuildOK(b) ==
    /\ Traceable(builder[b].samples)
    /\ builder[b].pc = "items" =>
           /\ builder[b].dataset \in DOMAIN datasets
           /\ datasets[builder[b].dataset].samples = builder[b].samples

DatasetOK(d) ==
    /\ Traceable(datasets[d].samples)
    /\ datasets[d].items \in {NoSamples, datasets[d].samples}

RowsOK ==
    /\ feedback \in [Key -> Rows] /\ audit \in [Key -> Seq(AuditRows)]
    /\ \A k \in Key : RowOK(feedback[k], audit[k])
SubmissionsOK == client \in [Client -> Submission] /\ \A c \in Client : SubmissionOK(c)
RulingsOK == moderator \in [Moderator -> Ruling] /\ \A m \in Moderator : RulingOK(m)
BuildsOK == builder \in [Builder -> Build] /\ \A b \in Builder : BuildOK(b)
DatasetsOK == datasets \in Seq(Dataset) /\ \A d \in DOMAIN datasets : DatasetOK(d)
ApprovedOK == approved \in [Key -> SUBSET Content]

FeedbackGood == RowsOK /\ SubmissionsOK /\ RulingsOK /\ BuildsOK /\ DatasetsOK /\ ApprovedOK

LEMMA FeedbackSplit == FeedbackInv <=> FeedbackGood
<1>1. FeedbackTypeOK <=>
          /\ feedback \in [Key -> Rows] /\ audit \in [Key -> Seq(AuditRows)]
          /\ client \in [Client -> Submission] /\ moderator \in [Moderator -> Ruling]
          /\ builder \in [Builder -> Build] /\ datasets \in Seq(Dataset) /\ ApprovedOK
    BY DEF FeedbackTypeOK, Submission, Ruling, Build, Dataset, ApprovedOK
<1>2. ASSUME feedback \in [Key -> Rows], audit \in [Key -> Seq(AuditRows)]
      PROVE  (AuditIsCurrent /\ AuditInOrder) <=> \A k \in Key : RowOK(feedback[k], audit[k])
    <2>1. \A k \in Key : feedback[k] \in Rows /\ audit[k] \in Seq(AuditRows)
        BY <1>2
    <2> QED BY <2>1, Zenon DEF AuditIsCurrent, AuditInOrder, RowOK
<1>3. RequestsKnowTheirRows <=>
          (\A c \in Client : SubmissionOK(c)) /\ (\A m \in Moderator : RulingOK(m))
    BY Zenon DEF RequestsKnowTheirRows, SubmissionOK, RulingOK
<1>4. (BuildersHaveAuditedSamples /\ BuildersKnowTheirDatasets) <=> \A b \in Builder : BuildOK(b)
    BY Zenon DEF BuildersHaveAuditedSamples, BuildersKnowTheirDatasets, BuildOK, Traceable
<1>5. (SamplesAreTraceable /\ ItemsAreTheSamples) <=> \A d \in DOMAIN datasets : DatasetOK(d)
    BY Zenon DEF SamplesAreTraceable, ItemsAreTheSamples, DatasetOK, Traceable
<1> QED
    BY <1>1, <1>2, <1>3, <1>4, <1>5, Zenon
    DEF FeedbackInv, FeedbackGood, RowsOK, SubmissionsOK, RulingsOK, BuildsOK, DatasetsOK

LEMMA FeedbackSplitNext == FeedbackInv' <=> FeedbackGood'
  BY FeedbackSplit, PTL

-----------------------------------------------------------------------------
(* A row and its audit trail.                                              *)

\* A trail with one entry more keeps the earlier ones.
LEMMA TrailAppended ==
  ASSUME NEW trail \in Seq(AuditRows), NEW entry \in AuditRows
  PROVE  /\ Append(trail, entry) \in Seq(AuditRows)
         /\ Append(trail, entry) # <<>>
         /\ Len(Append(trail, entry)) = Len(trail) + 1
         /\ DOMAIN Append(trail, entry) = 1..(Len(trail) + 1)
         /\ DOMAIN trail = 1..Len(trail) /\ Len(trail) \in Nat
         /\ \A i \in 1..Len(trail) : Append(trail, entry)[i] = trail[i]
         /\ Append(trail, entry)[Len(trail) + 1] = entry
  OBVIOUS

\* A submission: the entry says what the row says, under the number that the
\* row would get; the row may keep its own.
LEMMA RowSubmitted ==
  ASSUME NEW row, NEW trail, RowOK(row, trail), NEW next \in Rows, next.version > 0,
         next.content \in Content, next.version \in {row.version, row.version + 1}
  PROVE  RowOK(next, Append(trail, [version |-> row.version + 1, content |-> next.content]))
<1> DEFINE entry == [version |-> row.version + 1, content |-> next.content]
           longer == Append(trail, entry)
<1>1. row.version \in Nat /\ next.version \in Nat
  BY DEF RowOK, Rows
<1>2. entry \in AuditRows /\ entry.version = row.version + 1 /\ entry.content = next.content
  BY <1>1 DEF AuditRows
<1>3. trail \in Seq(AuditRows)
  BY DEF RowOK
<1> HIDE DEF entry
<1>4. /\ longer \in Seq(AuditRows) /\ longer # <<>> /\ Len(longer) = Len(trail) + 1
      /\ DOMAIN longer = 1..(Len(trail) + 1) /\ DOMAIN trail = 1..Len(trail) /\ Len(trail) \in Nat
      /\ \A i \in 1..Len(trail) : longer[i] = trail[i]
      /\ longer[Len(trail) + 1] = entry
  BY <1>2, <1>3, TrailAppended
<1>5. \A i \in DOMAIN trail : trail[i].version \in 1..(row.version + 1)
  BY DEF RowOK
<1>6. \A i, j \in DOMAIN trail : i < j => trail[i].version <= trail[j].version
  BY DEF RowOK
<1> HIDE DEF longer
<1>7. \A i \in DOMAIN longer : longer[i].version \in 1..(next.version + 1)
  <2> SUFFICES ASSUME NEW i \in DOMAIN longer PROVE longer[i].version \in 1..(next.version + 1)
    OBVIOUS
  <2>1. CASE i \in 1..Len(trail)
    BY <2>1, <1>1, <1>4, <1>5
  <2>2. CASE i = Len(trail) + 1
    BY <2>2, <1>1, <1>2, <1>4
  <2> QED BY <2>1, <2>2, <1>4
<1>8. \A i, j \in DOMAIN longer : i < j => longer[i].version <= longer[j].version
  <2> SUFFICES ASSUME NEW i \in DOMAIN longer, NEW j \in DOMAIN longer, i < j
               PROVE  longer[i].version <= longer[j].version
    OBVIOUS
  <2>1. i \in 1..Len(trail) /\ longer[i].version = trail[i].version
    BY <1>4
  <2>2. CASE j \in 1..Len(trail)
    BY <2>1, <2>2, <1>4, <1>6
  <2>3. CASE j = Len(trail) + 1
    BY <2>1, <2>3, <1>1, <1>2, <1>4, <1>5
  <2> QED BY <2>2, <2>3, <1>4
<1>9. (next.version = 0) = (longer = <<>>)
  BY <1>1, <1>4
<1>10. longer[Len(longer)].content = next.content
  BY <1>2, <1>4
<1> QED BY <1>4, <1>7, <1>8, <1>9, <1>10 DEF RowOK, longer, entry

\* A decision counts the version and writes no entry.
LEMMA RowDecided ==
  ASSUME NEW row, NEW trail, RowOK(row, trail), row.version > 0, NEW next \in Rows,
         next.version = row.version + 1, next.content = row.content
  PROVE  RowOK(next, trail)
<1>1. row.version \in Nat
  BY DEF RowOK, Rows
<1>2. \A i \in DOMAIN trail : trail[i].version \in 1..(next.version + 1)
  <2> SUFFICES ASSUME NEW i \in DOMAIN trail PROVE trail[i].version \in 1..(next.version + 1)
    OBVIOUS
  <2>1. trail[i].version \in 1..(row.version + 1)
    BY DEF RowOK
  <2> QED BY <1>1, <2>1
<1>3. (next.version = 0) = (trail = <<>>)
  BY <1>1 DEF RowOK
<1> QED BY <1>2, <1>3 DEF RowOK

\* A row that says something has it in its trail.
LEMMA RowAudited ==
  ASSUME NEW row, NEW trail, RowOK(row, trail), row.version > 0
  PROVE  /\ row.content \in Content
         /\ \E i \in DOMAIN trail : trail[i].content = row.content
<1>1. trail \in Seq(AuditRows) /\ trail # <<>> /\ row.version \in Nat
  BY DEF RowOK, Rows
<1>2. Len(trail) \in DOMAIN trail /\ trail[Len(trail)] \in AuditRows
  BY <1>1
<1>3. trail[Len(trail)].content = row.content
  BY <1>1 DEF RowOK
<1> QED BY <1>2, <1>3 DEF AuditRows

-----------------------------------------------------------------------------
(* What no step of a request undoes.                                       *)

TrailsGrow == \A k \in Key : \A i \in DOMAIN audit[k] :
                  i \in DOMAIN audit'[k] /\ audit'[k][i] = audit[k][i]
VersionsGrow == \A k \in Key : feedback'[k].version \in Nat
                                  /\ feedback'[k].version >= feedback[k].version
Counted == \A k \in Key : feedback'[k] # feedback[k]
               => feedback'[k].version = feedback[k].version + 1
SetsStay == \A d \in DOMAIN datasets :
                d \in DOMAIN datasets' /\ datasets'[d].samples = datasets[d].samples
FeedbackStep == FeedbackGood' /\ Counted

LEMMA RowsCounted ==
  ASSUME RowsOK, RowsOK', Counted
  PROVE  VersionsGrow
<1> SUFFICES ASSUME NEW k \in Key
             PROVE  feedback'[k].version \in Nat /\ feedback'[k].version >= feedback[k].version
  BY DEF VersionsGrow
<1>1. feedback[k] \in Rows /\ feedback'[k] \in Rows
  BY DEF RowsOK
<1>2. feedback[k].version \in Nat /\ feedback'[k].version \in Nat
  BY <1>1 DEF Rows
<1>3. feedback'[k] = feedback[k] \/ feedback'[k].version = feedback[k].version + 1
  BY DEF Counted
<1> QED BY <1>2, <1>3

LEMMA AuditedStays ==
  ASSUME TrailsGrow, NEW k \in Key, NEW x, Audited(k, x)
  PROVE  Audited(k, x)'
  BY DEF Audited, TrailsGrow

LEMMA SamplesAreOfKeys ==
  ASSUME NEW s \in Samples
  PROVE  DOMAIN s \in Selections /\ s \in [DOMAIN s -> Content]
  BY DEF Samples

\* Samples taken before a step, judged by the trails after it.
StillTraceable(s) == \A k \in DOMAIN s : \E i \in DOMAIN audit'[k] : audit'[k][i].content = s[k]

LEMMA TraceableStays ==
  ASSUME TrailsGrow, NEW s \in Samples, Traceable(s)
  PROVE  StillTraceable(s)
<1>1. \A k \in DOMAIN s : k \in Key
  BY SamplesAreOfKeys DEF Selections
<1> QED BY <1>1, Zenon DEF Traceable, StillTraceable, Audited, TrailsGrow

LEMMA SubmissionStays ==
  ASSUME RowsOK, VersionsGrow, NEW c \in Client, SubmissionOK(c), client'[c] = client[c]
  PROVE  SubmissionOK(c)'
<1>1. ASSUME NEW k \in Key PROVE feedback[k].version > 0 => feedback'[k].version > 0
  BY DEF RowsOK, Rows, VersionsGrow
<1> QED BY <1>1 DEF SubmissionOK

LEMMA SubmissionsStay ==
  ASSUME RowsOK, VersionsGrow, SubmissionsOK, UNCHANGED client
  PROVE  SubmissionsOK'
  BY SubmissionStays DEF SubmissionsOK

LEMMA RulingsStay ==
  ASSUME RulingsOK, UNCHANGED moderator
  PROVE  RulingsOK'
  BY DEF RulingsOK, RulingOK

LEMMA BuildStays ==
  ASSUME TrailsGrow, SetsStay, NEW b \in Builder, BuildOK(b), builder[b] \in Build,
         builder'[b] = builder[b]
  PROVE  BuildOK(b)'
<1>1. builder[b].samples \in Samples
  BY DEF Build
<1>2. StillTraceable(builder[b].samples)
  BY <1>1, TraceableStays DEF BuildOK
<1>3. Traceable(builder[b].samples)'
  BY <1>2 DEF Traceable, StillTraceable, Audited
<1> QED BY <1>3 DEF BuildOK, SetsStay

LEMMA BuildsStay ==
  ASSUME TrailsGrow, SetsStay, BuildsOK, UNCHANGED builder
  PROVE  BuildsOK'
  BY BuildStays DEF BuildsOK

LEMMA DatasetsStay ==
  ASSUME TrailsGrow, DatasetsOK, UNCHANGED datasets
  PROVE  DatasetsOK' /\ SetsStay
<1>1. ASSUME NEW d \in DOMAIN datasets
      PROVE  DatasetOK(d)'
  <2>1. datasets[d] \in Dataset /\ DatasetOK(d)
    BY <1>1 DEF DatasetsOK
  <2>2. datasets[d].samples \in Samples
    BY <2>1 DEF Dataset
  <2>3. StillTraceable(datasets[d].samples)
    BY <2>1, <2>2, TraceableStays DEF DatasetOK
  <2> QED BY <2>1, <2>3 DEF DatasetOK, Traceable, StillTraceable, Audited
<1> QED BY <1>1 DEF DatasetsOK, SetsStay

\* A step that writes rows: what it has to show is about these rows and the
\* one request that ends.
LEMMA RowsWritten ==
  ASSUME FeedbackGood, RowsOK', Counted, TrailsGrow, UNCHANGED <<datasets, builder>>
  PROVE  BuildsOK' /\ DatasetsOK' /\ VersionsGrow
  BY RowsCounted, BuildsStay, DatasetsStay DEF FeedbackGood

LEMMA RowsKept ==
  ASSUME FeedbackGood, UNCHANGED <<feedback, audit>>
  PROVE  RowsOK' /\ Counted /\ TrailsGrow /\ VersionsGrow
<1>1. RowsOK' /\ Counted /\ TrailsGrow
  BY DEF FeedbackGood, RowsOK, Counted, TrailsGrow
<1> QED BY <1>1, RowsCounted DEF FeedbackGood

-----------------------------------------------------------------------------
(* One lemma for each kind of request.                                     *)

LEMMA IdleRequests ==
  /\ IdleClient \in Submission /\ IdleClient.pc = "idle"
  /\ IdleModerator \in Ruling /\ IdleModerator.pc = "idle"
  BY DEF IdleClient, IdleModerator, Submission, Ruling, Decision

LEMMA IdleBuild ==
  IdleBuilder \in Build /\ IdleBuilder.pc = "idle" /\ IdleBuilder.samples = NoSamples
<1>1. {} \in Selections
  BY FS_EmptySet DEF Selections
<1>2. NoSamples \in [{} -> Content]
  BY DEF NoSamples
<1>3. NoSamples \in Samples
  BY <1>1, <1>2 DEF Samples
<1> QED BY <1>3 DEF IdleBuilder, Build

LEMMA NothingTraced == Traceable(NoSamples) /\ Traceable(NoSamples)'
  BY DEF Traceable, NoSamples

\* A client's request ends, whatever became of the rows.
LEMMA SubmissionEnds ==
  ASSUME FeedbackGood, VersionsGrow, NEW c \in Client, Ends(c)
  PROVE  SubmissionsOK'
<1>1. client' \in [Client -> Submission]
  BY IdleRequests DEF FeedbackGood, SubmissionsOK, Ends
<1>2. ASSUME NEW e \in Client PROVE SubmissionOK(e)'
  <2>1. CASE e = c
    <3>1. client'[c].pc = "idle"
      BY IdleRequests DEF FeedbackGood, SubmissionsOK, Ends
    <3> QED BY <2>1, <3>1 DEF SubmissionOK
  <2>2. CASE e # c
    <3>1. client'[e] = client[e]
      BY <2>2 DEF FeedbackGood, SubmissionsOK, Ends
    <3> QED BY <3>1, SubmissionStays DEF FeedbackGood, SubmissionsOK
  <2> QED BY <2>1, <2>2
<1> QED BY <1>1, <1>2 DEF SubmissionsOK

\* The rows after a write at k, of a row that goes with its trail.
LEMMA RowWritten ==
  ASSUME RowsOK, NEW k \in Key, NEW row \in Rows, NEW trail \in Seq(AuditRows),
         RowOK(row, trail), row.version = feedback[k].version + 1 \/ row = feedback[k],
         \A i \in DOMAIN audit[k] : i \in DOMAIN trail /\ trail[i] = audit[k][i],
         feedback' = [feedback EXCEPT ![k] = row], audit' = [audit EXCEPT ![k] = trail]
  PROVE  RowsOK' /\ Counted /\ TrailsGrow
<1>1. feedback' \in [Key -> Rows] /\ audit' \in [Key -> Seq(AuditRows)]
  BY DEF RowsOK
<1>2. \A e \in Key : /\ feedback'[e] = IF e = k THEN row ELSE feedback[e]
                     /\ audit'[e] = IF e = k THEN trail ELSE audit[e]
  BY DEF RowsOK
<1>3. \A e \in Key : RowOK(feedback'[e], audit'[e])
  BY <1>2 DEF RowsOK
<1> QED BY <1>1, <1>2, <1>3 DEF RowsOK, Counted, TrailsGrow

LEMMA Submits ==
  ASSUME FeedbackGood, NEW c \in Client, NEW k \in Key, NEW x \in Content,
         SubmitFeedback(c, k, x)
  PROVE  FeedbackStep
<1> DEFINE pc == IF feedback[k].version = 0 THEN "create" ELSE "update"
           request == [pc |-> pc, key |-> k, content |-> x]
<1>1. /\ client' = [client EXCEPT ![c] = request]
      /\ UNCHANGED <<feedback, audit, datasets, moderator, builder, approved>>
  BY DEF SubmitFeedback
<1>2. RowsOK' /\ Counted /\ TrailsGrow /\ VersionsGrow
  BY <1>1, RowsKept
<1>3. request \in Submission
  BY DEF Submission
<1>4. client' \in [Client -> Submission]
  BY <1>1, <1>3 DEF FeedbackGood, SubmissionsOK
<1>5. ASSUME NEW e \in Client PROVE SubmissionOK(e)'
  <2>1. CASE e = c
    <3>1. client'[e] = request
      BY <2>1, <1>1 DEF FeedbackGood, SubmissionsOK
    <3>2. pc = "update" => feedback'[k].version > 0
      BY <1>1 DEF FeedbackGood, RowsOK, Rows
    <3> QED BY <3>1, <3>2 DEF SubmissionOK
  <2>2. CASE e # c
    <3>1. client'[e] = client[e]
      BY <2>2, <1>1 DEF FeedbackGood, SubmissionsOK
    <3> QED BY <3>1, <1>2, SubmissionStays DEF FeedbackGood, SubmissionsOK
  <2> QED BY <2>1, <2>2
<1>6. SubmissionsOK'
  BY <1>4, <1>5 DEF SubmissionsOK
<1>7. RulingsOK' /\ BuildsOK' /\ DatasetsOK'
  BY <1>1, <1>2, RulingsStay, RowsWritten DEF FeedbackGood
<1>8. ApprovedOK'
  BY <1>1 DEF FeedbackGood, ApprovedOK
<1> QED BY <1>2, <1>6, <1>7, <1>8 DEF FeedbackStep, FeedbackGood

\* What remains of a submission's second transaction once its row is written.
LEMMA SubmissionWritten ==
  ASSUME FeedbackGood, RowsOK', Counted, TrailsGrow, NEW c \in Client, Ends(c), Unanswered
  PROVE  FeedbackStep
<1>1. BuildsOK' /\ DatasetsOK' /\ VersionsGrow
  BY RowsWritten DEF Unanswered
<1>2. SubmissionsOK'
  BY <1>1, SubmissionEnds
<1>3. RulingsOK' /\ ApprovedOK'
  BY RulingsStay DEF FeedbackGood, Unanswered, ApprovedOK
<1> QED BY <1>1, <1>2, <1>3 DEF FeedbackStep, FeedbackGood

LEMMA Creates ==
  ASSUME FeedbackGood, NEW c \in Client, CreateFeedback(c)
  PROVE  FeedbackStep
<1> DEFINE k == client[c].key
           x == client[c].content
           row == [version |-> 1, content |-> x, status |-> "PENDING_REVIEW"]
           entry == [version |-> 1, content |-> x]
<1>1. k \in Key /\ x \in Content
  BY DEF CreateFeedback, FeedbackGood, SubmissionsOK, SubmissionOK
<1>2. /\ feedback[k].version = 0
      /\ feedback' = [feedback EXCEPT ![k] = row]
      /\ audit' = [audit EXCEPT ![k] = Append(audit[k], entry)]
      /\ Ends(c) /\ Unanswered
  BY DEF CreateFeedback
<1>3. row \in Rows /\ row.version = 1 /\ row.content = x
  BY <1>1 DEF Rows, ReviewStatus
<1>4. entry \in AuditRows
  BY <1>1 DEF AuditRows
<1>5. RowOK(feedback[k], audit[k]) /\ audit[k] \in Seq(AuditRows)
  BY <1>1 DEF FeedbackGood, RowsOK
<1> HIDE DEF k, x
<1>6. RowOK(row, Append(audit[k], entry))
  BY <1>1, <1>2, <1>3, <1>5, RowSubmitted
<1>7. /\ Append(audit[k], entry) \in Seq(AuditRows)
      /\ \A i \in DOMAIN audit[k] : /\ i \in DOMAIN Append(audit[k], entry)
                                    /\ Append(audit[k], entry)[i] = audit[k][i]
  BY <1>4, <1>5
<1> HIDE DEF row, entry
<1>8. RowsOK' /\ Counted /\ TrailsGrow
  <2>1. row.version = feedback[k].version + 1
    BY <1>2, <1>3
  <2>2. row \in Rows /\ RowsOK
    BY <1>3 DEF FeedbackGood
  <2> HIDE DEF FeedbackGood
  <2> QED BY <1>1, <1>2, <1>6, <1>7, <2>1, <2>2, RowWritten, Zenon
<1> QED BY <1>2, <1>8, SubmissionWritten

LEMMA RowResubmitted ==
  ASSUME NEW old \in Rows, NEW x \in Content
  PROVE  /\ Resubmitted(old, x) \in Rows /\ Resubmitted(old, x).content = x
         /\ \/ Resubmitted(old, x) = old
            \/ Resubmitted(old, x).version = old.version + 1
<1> DEFINE new == [old EXCEPT !.version = @ + 1, !.content = x]
<1>1. CASE x = old.content
  BY <1>1 DEF Resubmitted
<1>2. CASE x # old.content
  <2>1. old.version + 1 \in Nat
    BY DEF Rows
  <2>2. [old EXCEPT !.version = @ + 1] \in Rows
    BY <2>1 DEF Rows
  <2>3. new \in Rows
    BY <2>2 DEF Rows
  <2>4. new.content = x /\ new.version = old.version + 1
    BY DEF Rows
  <2> QED BY <1>2, <2>3, <2>4 DEF Resubmitted
<1> QED BY <1>1, <1>2

LEMMA Updates ==
  ASSUME FeedbackGood, NEW c \in Client, UpdateFeedback(c)
  PROVE  FeedbackStep
<1> DEFINE k == client[c].key
           x == client[c].content
           row == Resubmitted(feedback[k], x)
           entry == [version |-> feedback[k].version + 1, content |-> x]
<1>1. k \in Key /\ x \in Content /\ feedback[k].version > 0
  BY DEF UpdateFeedback, FeedbackGood, SubmissionsOK, SubmissionOK
<1>2. /\ feedback' = [feedback EXCEPT ![k] = Resubmitted(@, x)]
      /\ audit' = [audit EXCEPT ![k] = Append(@, entry)]
      /\ Ends(c) /\ Unanswered
  BY DEF UpdateFeedback
<1>3. /\ feedback \in [Key -> Rows] /\ audit \in [Key -> Seq(AuditRows)]
      /\ RowOK(feedback[k], audit[k])
  BY <1>1 DEF FeedbackGood, RowsOK
<1> HIDE DEF k, x
<1>4. feedback' = [feedback EXCEPT ![k] = row] /\ audit' = [audit EXCEPT ![k] = Append(audit[k], entry)]
  BY <1>1, <1>2, <1>3
<1>5. /\ row \in Rows /\ row.content = x
      /\ row = feedback[k] \/ row.version = feedback[k].version + 1
  BY <1>1, <1>3, RowResubmitted
<1>6. entry \in AuditRows
  BY <1>1, <1>3 DEF AuditRows, Rows
<1>7. row.version > 0 /\ row.version \in {feedback[k].version, feedback[k].version + 1}
  BY <1>1, <1>3, <1>5 DEF Rows
<1> HIDE DEF row
<1>8. RowOK(row, Append(audit[k], entry))
  BY <1>1, <1>3, <1>5, <1>7, RowSubmitted
<1>9. /\ Append(audit[k], entry) \in Seq(AuditRows)
      /\ \A i \in DOMAIN audit[k] : /\ i \in DOMAIN Append(audit[k], entry)
                                    /\ Append(audit[k], entry)[i] = audit[k][i]
  BY <1>1, <1>3, <1>6
<1> HIDE DEF entry
<1>10. RowsOK' /\ Counted /\ TrailsGrow
  BY <1>1, <1>4, <1>5, <1>8, <1>9, RowWritten DEF FeedbackGood
<1> QED BY <1>2, <1>10, SubmissionWritten

LEMMA ClientSteps ==
  ASSUME FeedbackGood, NEW c \in Client, ClientStep(c)
  PROVE  FeedbackStep
<1>1. CASE \E k \in Key, x \in Content : SubmitFeedback(c, k, x)
  BY <1>1, Submits
<1>2. CASE CreateFeedback(c)
  BY <1>2, Creates
<1>3. CASE CreateRefused(c)
  <2>1. RowsOK' /\ Counted /\ TrailsGrow
    BY <1>3, RowsKept DEF CreateRefused
  <2> QED BY <1>3, <2>1, SubmissionWritten DEF CreateRefused, Unanswered
<1>4. CASE UpdateFeedback(c)
  BY <1>4, Updates
<1> QED BY <1>1, <1>2, <1>3, <1>4 DEF ClientStep

\* A moderator's request ends, whatever became of the rows.
LEMMA RulingEnds ==
  ASSUME RulingsOK, NEW m \in Moderator, moderator' = [moderator EXCEPT ![m] = IdleModerator]
  PROVE  RulingsOK'
<1>1. moderator' \in [Moderator -> Ruling]
  BY IdleRequests DEF RulingsOK
<1>2. ASSUME NEW e \in Moderator PROVE RulingOK(e)'
  <2>1. moderator'[e] = IF e = m THEN IdleModerator ELSE moderator[e]
    BY DEF RulingsOK
  <2> QED BY <2>1, IdleRequests DEF RulingsOK, RulingOK
<1> QED BY <1>1, <1>2 DEF RulingsOK

\* A request of a moderator that writes no row.
LEMMA RowsLeftByModerator ==
  ASSUME FeedbackGood, RulingsOK', UNCHANGED <<feedback, audit, datasets, client, builder, approved>>
  PROVE  FeedbackStep
<1>1. RowsOK' /\ Counted /\ TrailsGrow /\ VersionsGrow
  BY RowsKept
<1>2. BuildsOK' /\ DatasetsOK'
  BY <1>1, RowsWritten
<1>3. SubmissionsOK' /\ ApprovedOK'
  BY <1>1, SubmissionsStay DEF FeedbackGood, ApprovedOK
<1> QED BY <1>1, <1>2, <1>3 DEF FeedbackStep, FeedbackGood

LEMMA Reads ==
  ASSUME FeedbackGood, NEW m \in Moderator, NEW k \in Key, NEW d \in Decision, ReadCase(m, k, d)
  PROVE  FeedbackStep
<1> DEFINE request == [pc |-> "decide", key |-> k, decision |-> d, version |-> feedback[k].version]
<1>1. /\ moderator' = [moderator EXCEPT ![m] = request]
      /\ feedback[k].version \in 1..(MaxVersion - 1)
      /\ UNCHANGED <<feedback, audit, datasets, client, builder, approved>>
  BY DEF ReadCase
<1>2. feedback[k].version \in Nat /\ feedback[k].version > 0
  BY <1>1, FeedbackAssumption
<1>3. request \in Ruling
  BY <1>2 DEF Ruling
<1>4. moderator' \in [Moderator -> Ruling]
  BY <1>1, <1>3 DEF FeedbackGood, RulingsOK
<1>5. ASSUME NEW e \in Moderator PROVE RulingOK(e)'
  <2>1. moderator'[e] = IF e = m THEN request ELSE moderator[e]
    BY <1>1 DEF FeedbackGood, RulingsOK
  <2> QED BY <1>2, <2>1 DEF FeedbackGood, RulingsOK, RulingOK
<1>6. RulingsOK'
  BY <1>4, <1>5 DEF RulingsOK
<1> QED BY <1>1, <1>6, RowsLeftByModerator

LEMMA VerdictIsStatus == \A d \in Decision : Verdict(d) \in ReviewStatus
  BY DEF Decision, Verdict, ReviewStatus

LEMMA Decides ==
  ASSUME FeedbackGood, NEW m \in Moderator, DecideModerationCase(m)
  PROVE  FeedbackStep
<1> DEFINE k == moderator[m].key
           v == moderator[m].version
           d == moderator[m].decision
           row == [feedback[k] EXCEPT !.status = Verdict(d), !.version = v + 1]
<1>1. k \in Key /\ v > 0 /\ v \in Nat /\ d \in Decision
  BY DEF DecideModerationCase, FeedbackGood, RulingsOK, RulingOK, Ruling
<1>2. /\ feedback[k].version = v
      /\ feedback' = [feedback EXCEPT ![k].status = Verdict(d), ![k].version = v + 1]
      /\ approved' = IF d = "APPROVE" THEN [approved EXCEPT ![k] = @ \cup {feedback[k].content}]
                     ELSE approved
      /\ moderator' = [moderator EXCEPT ![m] = IdleModerator]
      /\ UNCHANGED <<audit, datasets, client, builder>>
  BY DEF DecideModerationCase, IsStale, Decided
<1>3. feedback \in [Key -> Rows] /\ audit \in [Key -> Seq(AuditRows)] /\ RowOK(feedback[k], audit[k])
  BY <1>1 DEF FeedbackGood, RowsOK
<1> HIDE DEF k, v, d
<1>4. feedback' = [feedback EXCEPT ![k] = row]
  BY <1>1, <1>2, <1>3
<1>5. row \in Rows /\ row.version = v + 1 /\ row.content = feedback[k].content
  <2>1. feedback[k] \in Rows /\ Verdict(d) \in ReviewStatus /\ v + 1 \in Nat
    BY <1>1, <1>3, VerdictIsStatus
  <2>2. [feedback[k] EXCEPT !.status = Verdict(d)] \in Rows
    BY <2>1 DEF Rows
  <2>3. row \in Rows
    BY <2>1, <2>2 DEF Rows
  <2> QED BY <2>1, <2>3 DEF Rows
<1> HIDE DEF row
<1>6. RowOK(row, audit[k])
  BY <1>1, <1>2, <1>3, <1>5, RowDecided
<1>7. audit' = [audit EXCEPT ![k] = audit[k]]
  BY <1>2, <1>3
<1>8. RowsOK' /\ Counted /\ TrailsGrow
  <2>1. RowsOK /\ audit[k] \in Seq(AuditRows) /\ row.version = feedback[k].version + 1
    BY <1>1, <1>2, <1>3, <1>5 DEF FeedbackGood
  <2> QED BY <1>1, <1>4, <1>5, <1>6, <1>7, <2>1, RowWritten, Zenon
<1>9. BuildsOK' /\ DatasetsOK' /\ VersionsGrow
  BY <1>2, <1>8, RowsWritten
<1>10. SubmissionsOK' /\ RulingsOK'
  BY <1>2, <1>9, SubmissionsStay, RulingEnds DEF FeedbackGood
<1>11. feedback[k].content \in Content
  BY <1>1, <1>2, <1>3, RowAudited
<1>12. ApprovedOK'
  BY <1>2, <1>11 DEF FeedbackGood, ApprovedOK
<1> QED BY <1>8, <1>9, <1>10, <1>12 DEF FeedbackStep, FeedbackGood

LEMMA ModeratorSteps ==
  ASSUME FeedbackGood, NEW m \in Moderator, ModeratorStep(m)
  PROVE  FeedbackStep
<1>1. CASE \E k \in Key, d \in Decision : ReadCase(m, k, d)
  BY <1>1, Reads
<1>2. CASE DecideModerationCase(m)
  BY <1>2, Decides
<1>3. CASE StaleDecision(m)
  <2>1. RulingsOK'
    BY <1>3, RulingEnds DEF StaleDecision, FeedbackGood
  <2> QED BY <1>3, <2>1, RowsLeftByModerator DEF StaleDecision
<1> QED BY <1>1, <1>2, <1>3 DEF ModeratorStep

\* A step of a builder: rows, trails and the other requests stay.
LEMMA RowsLeftByBuilder ==
  ASSUME FeedbackGood, BuildsOK', DatasetsOK',
         UNCHANGED <<feedback, audit, client, moderator, approved>>
  PROVE  FeedbackStep
<1>1. RowsOK' /\ Counted /\ VersionsGrow
  BY RowsKept
<1>2. SubmissionsOK' /\ RulingsOK' /\ ApprovedOK'
  BY <1>1, SubmissionsStay, RulingsStay DEF FeedbackGood, ApprovedOK
<1> QED BY <1>1, <1>2 DEF FeedbackStep, FeedbackGood

\* One build changes and the others stay: what they know stays true.
LEMMA BuildWritten ==
  ASSUME BuildsOK, SetsStay, TrailsGrow, NEW b \in Builder, NEW job \in Build,
         builder' = [builder EXCEPT ![b] = job], StillTraceable(job.samples),
         job.pc = "items" => /\ job.dataset \in DOMAIN datasets'
                             /\ datasets'[job.dataset].samples = job.samples
  PROVE  BuildsOK'
<1>1. builder' \in [Builder -> Build]
  BY DEF BuildsOK
<1>2. ASSUME NEW e \in Builder PROVE BuildOK(e)'
  <2>1. CASE e = b
    <3>1. builder'[e] = job
      BY <2>1 DEF BuildsOK
    <3> QED BY <3>1 DEF BuildOK, Traceable, StillTraceable, Audited
  <2>2. CASE e # b
    <3>1. builder'[e] = builder[e] /\ BuildOK(e) /\ builder[e] \in Build
      BY <2>2 DEF BuildsOK
    <3> QED BY <3>1, BuildStays
  <2> QED BY <2>1, <2>2
<1> QED BY <1>1, <1>2 DEF BuildsOK

LEMMA Generates ==
  ASSUME FeedbackGood, NEW b \in Builder, NEW S \in Selections, GenerateDataset(b, S)
  PROVE  FeedbackStep
<1> DEFINE samples == [k \in S |-> feedback[k].content]
           job == [pc |-> "save", samples |-> samples, dataset |-> 0]
<1>1. /\ builder' = [builder EXCEPT ![b] = job]
      /\ \A k \in S : feedback[k].version > 0
      /\ UNCHANGED <<feedback, audit, datasets, client, moderator, approved>>
  BY DEF GenerateDataset, IsAuthorized
<1>2. ASSUME NEW k \in S
      PROVE  feedback[k].content \in Content /\ Audited(k, feedback[k].content)
  <2>1. k \in Key /\ RowOK(feedback[k], audit[k])
    BY DEF Selections, FeedbackGood, RowsOK
  <2> QED BY <1>1, <2>1, RowAudited DEF Audited
<1>3. samples \in [S -> Content] /\ Traceable(samples)
  BY <1>2 DEF Traceable
<1>4. samples \in Samples
  BY <1>3 DEF Samples
<1>5. TrailsGrow /\ DatasetsOK' /\ SetsStay
  BY <1>1, RowsKept, DatasetsStay DEF FeedbackGood
<1>6. StillTraceable(samples)
  BY <1>3, <1>4, <1>5, TraceableStays
<1> HIDE DEF samples
<1>7. job \in Build /\ job.pc = "save" /\ job.samples = samples
  BY <1>4 DEF Build
<1> HIDE DEF job
<1>8. StillTraceable(job.samples)
  BY <1>6, <1>7
<1>9. BuildsOK'
  BY <1>1, <1>5, <1>7, <1>8, BuildWritten DEF FeedbackGood
<1> QED BY <1>1, <1>5, <1>9, RowsLeftByBuilder

LEMMA BuildEnds ==
  ASSUME BuildsOK, SetsStay, TrailsGrow, NEW b \in Builder,
         builder' = [builder EXCEPT ![b] = IdleBuilder]
  PROVE  BuildsOK'
<1>1. StillTraceable(IdleBuilder.samples)
  BY IdleBuild DEF StillTraceable, NoSamples
<1> QED BY <1>1, IdleBuild, BuildWritten

\* The file of a dataset has a line for each sample.
LEMMA FilesAreSequences ==
  ASSUME NEW s \in Samples
  PROVE  Files(s) \subseteq Seq(Content)
<1>1. Cardinality(DOMAIN s) \in Nat
  BY SamplesAreOfKeys, FS_CardinalityType DEF Selections
<1> QED BY <1>1 DEF Files

LEMMA DatasetAppended ==
  ASSUME DatasetsOK, NEW set \in Dataset, Traceable(set.samples), set.items = NoSamples,
         UNCHANGED audit, datasets' = Append(datasets, set)
  PROVE  /\ DatasetsOK' /\ SetsStay
         /\ Len(datasets) + 1 \in DOMAIN datasets' /\ datasets'[Len(datasets) + 1] = set
         /\ Len(datasets) \in Nat
<1>1. datasets \in Seq(Dataset)
  BY DEF DatasetsOK
<1> HIDE DEF Dataset
<1>2. /\ datasets' \in Seq(Dataset) /\ Len(datasets) \in Nat
      /\ DOMAIN datasets' = 1..(Len(datasets) + 1) /\ DOMAIN datasets = 1..Len(datasets)
      /\ \A d \in 1..Len(datasets) : datasets'[d] = datasets[d]
      /\ datasets'[Len(datasets) + 1] = set
  BY <1>1
<1>3. ASSUME NEW d \in DOMAIN datasets' PROVE DatasetOK(d)'
  <2>1. CASE d \in 1..Len(datasets)
    <3>1. DatasetOK(d) /\ datasets'[d] = datasets[d]
      BY <2>1, <1>2 DEF DatasetsOK
    <3> QED BY <3>1 DEF DatasetOK, Traceable, Audited
  <2>2. CASE d = Len(datasets) + 1
    <3>1. datasets'[d] = set
      BY <2>2, <1>2
    <3> QED BY <3>1 DEF DatasetOK, Traceable, Audited
  <2> QED BY <2>1, <2>2, <1>2
<1>4. SetsStay
  BY <1>2 DEF SetsStay
<1> QED BY <1>2, <1>3, <1>4 DEF DatasetsOK

LEMMA Saved ==
  ASSUME FeedbackGood, NEW b \in Builder, SaveDataset(b)
  PROVE  FeedbackStep
<1> DEFINE s == builder[b].samples
           n == Len(datasets) + 1
           job == [builder[b] EXCEPT !.pc = "items", !.dataset = n]
<1>1. builder[b] \in Build /\ s \in Samples /\ Traceable(s)
  BY DEF FeedbackGood, BuildsOK, BuildOK, Build
<1>2. PICK f \in Files(s) :
          datasets' = Append(datasets, [samples |-> s, file |-> f, items |-> NoSamples])
  BY DEF SaveDataset
<1>3. /\ builder' = [builder EXCEPT ![b].pc = "items", ![b].dataset = n]
      /\ UNCHANGED <<feedback, audit, client, moderator, approved>>
  BY DEF SaveDataset
<1> DEFINE set == [samples |-> s, file |-> f, items |-> NoSamples]
<1>4. NoSamples \in Samples
  BY IdleBuild DEF Build
<1>5. f \in Seq(Content)
  BY <1>1, FilesAreSequences
<1>6. set \in Dataset /\ set.samples = s /\ set.items = NoSamples
  BY <1>1, <1>4, <1>5 DEF Dataset
<1>7. datasets' = Append(datasets, set) /\ Traceable(set.samples)
  BY <1>1, <1>2, <1>6
<1> HIDE DEF set, s
<1>8. /\ DatasetsOK' /\ SetsStay /\ n \in DOMAIN datasets' /\ datasets'[n] = set /\ n \in Nat
  BY <1>3, <1>6, <1>7, DatasetAppended DEF FeedbackGood
<1> HIDE DEF n
<1>9. job \in Build /\ job.samples = s /\ job.dataset = n
  <2>1. [builder[b] EXCEPT !.pc = "items"] \in Build
    BY <1>1 DEF Build
  <2>2. job \in Build
    BY <1>8, <2>1 DEF Build
  <2> QED BY <1>1, <2>2 DEF Build, s
<1>10. builder' = [builder EXCEPT ![b] = job]
  BY <1>3 DEF FeedbackGood, BuildsOK
<1> HIDE DEF job
<1>11. TrailsGrow
  BY <1>3, RowsKept
<1>12. StillTraceable(job.samples)
  BY <1>1, <1>9, <1>11, TraceableStays
<1>13. BuildsOK'
  BY <1>6, <1>8, <1>9, <1>10, <1>11, <1>12, BuildWritten DEF FeedbackGood
<1> QED BY <1>3, <1>8, <1>13, RowsLeftByBuilder

LEMMA ItemsSaved ==
  ASSUME FeedbackGood, NEW b \in Builder, SaveDatasetItems(b)
  PROVE  FeedbackStep
<1> DEFINE s == builder[b].samples
           n == builder[b].dataset
           set == [datasets[n] EXCEPT !.items = s]
<1>1. /\ datasets' = [datasets EXCEPT ![n].items = s]
      /\ builder' = [builder EXCEPT ![b] = IdleBuilder]
      /\ UNCHANGED <<feedback, audit, client, moderator, approved>>
  BY DEF SaveDatasetItems
<1>2. n \in DOMAIN datasets /\ datasets[n].samples = s /\ s \in Samples
  BY DEF SaveDatasetItems, FeedbackGood, BuildsOK, BuildOK, Build
<1>3. datasets \in Seq(Dataset) /\ datasets[n] \in Dataset /\ DatasetOK(n)
  BY <1>2 DEF FeedbackGood, DatasetsOK
<1> HIDE DEF s, n
<1>4. set \in Dataset /\ set.samples = s /\ set.items = s
  BY <1>2, <1>3 DEF Dataset
<1>5. datasets' = [datasets EXCEPT ![n] = set]
  BY <1>1, <1>2, <1>3
<1> HIDE DEF set
<1>6. /\ datasets' \in Seq(Dataset) /\ DOMAIN datasets' = DOMAIN datasets
      /\ \A d \in DOMAIN datasets : datasets'[d] = IF d = n THEN set ELSE datasets[d]
  BY <1>2, <1>3, <1>4, <1>5
<1>7. ASSUME NEW d \in DOMAIN datasets' PROVE DatasetOK(d)'
  <2>1. CASE d = n
    <3>1. datasets'[d] = set /\ Traceable(s)
      BY <2>1, <1>2, <1>3, <1>6 DEF DatasetOK
    <3> QED BY <3>1, <1>1, <1>4 DEF DatasetOK, Traceable, Audited
  <2>2. CASE d # n
    <3>1. datasets'[d] = datasets[d] /\ DatasetOK(d)
      BY <2>2, <1>6 DEF FeedbackGood, DatasetsOK
    <3> QED BY <3>1, <1>1 DEF DatasetOK, Traceable, Audited
  <2> QED BY <2>1, <2>2
<1>8. DatasetsOK' /\ SetsStay
  BY <1>2, <1>4, <1>6, <1>7 DEF DatasetsOK, SetsStay
<1>9. BuildsOK'
  BY <1>1, <1>8, RowsKept, BuildEnds DEF FeedbackGood
<1> QED BY <1>1, <1>8, <1>9, RowsLeftByBuilder

LEMMA BuilderSteps ==
  ASSUME FeedbackGood, NEW b \in Builder, BuilderStep(b)
  PROVE  FeedbackStep
<1>1. CASE \E S \in Selections : GenerateDataset(b, S)
  BY <1>1, Generates
<1>2. CASE SaveDataset(b)
  BY <1>2, Saved
<1>3. CASE SaveDatasetItems(b)
  BY <1>3, ItemsSaved
<1>4. CASE BuilderFails(b)
  <2>1. TrailsGrow /\ DatasetsOK' /\ SetsStay
    BY <1>4, RowsKept, DatasetsStay DEF BuilderFails, FeedbackGood
  <2>2. BuildsOK'
    BY <1>4, <2>1, BuildEnds DEF BuilderFails, FeedbackGood
  <2> QED BY <1>4, <2>1, <2>2, RowsLeftByBuilder DEF BuilderFails
<1> QED BY <1>1, <1>2, <1>3, <1>4 DEF BuilderStep

-----------------------------------------------------------------------------
(* Theorems.                                                               *)

LEMMA FeedbackInitGood == FeedbackInit => FeedbackGood
<1> SUFFICES ASSUME FeedbackInit PROVE FeedbackGood
  OBVIOUS
<1> USE DEF FeedbackInit
<1>1. ASSUME NEW k \in Key PROVE RowOK(AbsentRow, <<>>)
  <2>1. AbsentRow \in Rows
    BY DEF AbsentRow, Rows, ReviewStatus
  <2>2. AbsentRow.version = 0 /\ <<>> \in Seq(AuditRows) /\ DOMAIN <<>> = {}
    BY DEF AbsentRow
  <2> QED BY <2>1, <2>2 DEF RowOK
<1>2. RowsOK
  <2>1. feedback \in [Key -> Rows]
    BY DEF AbsentRow, Rows, ReviewStatus
  <2>2. audit \in [Key -> Seq(AuditRows)]
    OBVIOUS
  <2> QED BY <1>1, <2>1, <2>2 DEF RowsOK
<1>3. SubmissionsOK /\ RulingsOK
  BY IdleRequests DEF SubmissionsOK, SubmissionOK, RulingsOK, RulingOK
<1>4. BuildsOK
  BY IdleBuild, NothingTraced DEF BuildsOK, BuildOK
<1>5. DatasetsOK /\ ApprovedOK
  BY DEF DatasetsOK, ApprovedOK
<1> QED BY <1>2, <1>3, <1>4, <1>5 DEF FeedbackGood

LEMMA FeedbackNextSteps == FeedbackGood /\ [FeedbackNext]_feedbackVars => FeedbackStep
<1> SUFFICES ASSUME FeedbackGood, [FeedbackNext]_feedbackVars PROVE FeedbackStep
  OBVIOUS
<1>1. CASE \E c \in Client : ClientStep(c)
  BY <1>1, ClientSteps
<1>2. CASE \E m \in Moderator : ModeratorStep(m)
  BY <1>2, ModeratorSteps
<1>3. CASE \E b \in Builder : BuilderStep(b)
  BY <1>3, BuilderSteps
<1>4. CASE UNCHANGED feedbackVars
  <2>1. UNCHANGED <<feedback, audit, datasets, client, moderator, builder, approved>>
    BY <1>4 DEF feedbackVars
  <2>2. RulingsOK'
    BY <2>1, RulingsStay DEF FeedbackGood
  <2> QED BY <2>1, <2>2, RowsLeftByModerator
<1> QED BY <1>1, <1>2, <1>3, <1>4 DEF FeedbackNext

(* The inductive invariant of feedback, its trail and the datasets: what   *)
(* application/feedback.py, decide_moderation_case and dataset_service.py  *)
(* rely on between their transactions.                                     *)
THEOREM FeedbackInvariance == FeedbackSpec => []FeedbackInv
<1>1. FeedbackInit => FeedbackGood
  BY FeedbackInitGood
<1>2. FeedbackGood /\ [FeedbackNext]_feedbackVars => FeedbackGood'
  BY FeedbackNextSteps DEF FeedbackStep
<1>3. FeedbackGood <=> FeedbackInv
  BY FeedbackSplit
<1> QED BY <1>1, <1>2, <1>3, PTL DEF FeedbackSpec

(* A row's audit trail is in the order of its version numbers, and none    *)
(* runs ahead of the version that comes next (repositories/feedback.py).   *)
THEOREM AuditsAreInOrder == FeedbackSpec => []AuditInOrder
<1>1. FeedbackInv => AuditInOrder
  BY DEF FeedbackInv
<1> QED BY <1>1, FeedbackInvariance, PTL

(* Each sample of a dataset is a version that its row once had, whatever   *)
(* is submitted or decided while the dataset is built                      *)
(* (dataset_service.py).                                                   *)
THEOREM DatasetsAreTraceable == FeedbackSpec => []SamplesAreTraceable
<1>1. FeedbackInv => SamplesAreTraceable
  BY DEF FeedbackInv
<1> QED BY <1>1, FeedbackInvariance, PTL

(* No update of a row is lost: each counts its version up by one           *)
(* (version_id_col of infrastructure/db/models).                           *)
THEOREM NoUpdateIsLost == FeedbackSpec => VersionsCount
<1>1. FeedbackGood /\ [FeedbackNext]_feedbackVars
        => [\A k \in Key : feedback'[k] # feedback[k]
              => feedback'[k].version = feedback[k].version + 1]_feedbackVars
  BY FeedbackNextSteps DEF FeedbackStep, Counted
<1>2. FeedbackGood <=> FeedbackInv
  BY FeedbackSplit
<1> QED BY <1>1, <1>2, FeedbackInvariance, PTL DEF FeedbackSpec, VersionsCount
=============================================================================
