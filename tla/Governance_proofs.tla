------------------------- MODULE Governance_proofs -------------------------
(***************************************************************************)
(* Proofs about Governance, for any administrators, models and routes and  *)
(* any number of versions and deployments: what a transaction read under   *)
(* its lock is still so when it commits.                                   *)
(***************************************************************************)
EXTENDS Governance, FiniteSetTheorems, TLAPS

PromptState == [status : {"ABSENT", "DRAFT", "PUBLISHED", "ARCHIVED"}, content : 0..MaxPrompts]
DeploymentState ==
    [status : LiveStatuses \cup {"ABSENT", "SUPERSEDED", "ROLLED_BACK"},
     route : Route \cup {NoOne}, model : Model \cup {NoOne}, percent : 0..100]
AdminState ==
    [pc : {"idle", "rollback", "publish", "republish", "deploy", "restore"},
     target : 0..MaxPrompts, next : 0..MaxPrompts,
     seen : SUBSET (PromptNo \cup Deployment),
     route : Route \cup {NoOne}, model : Model \cup {NoOne}, percent : 0..100]
Anchor == {Definition} \cup Route

Typed ==
    /\ prompt \in [PromptNo -> PromptState]
    /\ model \in [Model -> ModelStatus \cup {"ABSENT"}]
    /\ deployment \in [Deployment -> DeploymentState]
    /\ admin \in [Admin -> AdminState]
    /\ anchor \in [Anchor -> Admin \cup {NoOne}]

LEMMA TypedIsTypeOK == TypeOK <=> Typed
  BY DEF TypeOK, Typed, PromptState, DeploymentState, AdminState, Anchor

LEMMA TypedIsTypeOKNext == TypeOK' <=> Typed'
  BY DEF TypeOK, Typed, PromptState, DeploymentState, AdminState, Anchor

LEMMA Apart ==
    /\ NoOne \notin Admin /\ NoOne \notin Model /\ NoOne \notin Route
    /\ Definition \notin Route /\ Definition \in Anchor /\ Route \subseteq Anchor
  BY GovernanceAssumption DEF Anchor

LEMMA Numbers ==
    /\ MaxPrompts \in Nat /\ 0 \in 0..MaxPrompts /\ 0 \in 0..100 /\ 100 \in 0..100
    /\ \A v \in PromptNo : v \in 0..MaxPrompts
    /\ Percent \subseteq 0..100
  BY GovernanceAssumption DEF PromptNo

(* What the invariant says of one administrator.                           *)
PublisherOK(a) ==
    /\ Publishing(a) => anchor[Definition] = a /\ admin[a].seen = Published
    /\ admin[a].pc = "publish" =>
          admin[a].target \in PromptNo /\ prompt[admin[a].target].status = "DRAFT"
    /\ admin[a].pc \in {"rollback", "republish"} =>
          admin[a].target \in PromptNo /\ admin[a].next \in PromptNo
ReleaseOK(a) ==
    Releasing(a) =>
        /\ admin[a].route \in Route /\ anchor[admin[a].route] = a
        /\ admin[a].seen = Live(admin[a].route)
        /\ admin[a].model \in Model /\ model[admin[a].model] = "APPROVED"

Safe == \A a \in Admin : PublisherOK(a) /\ ReleaseOK(a)

LEMMA Split == IInv <=> Typed /\ Safe /\ OnePublished
  BY TypedIsTypeOK DEF IInv, Safe, PublishersHoldTheDefinition, PublisherOK, ReleasesHoldTheirRoute,
     ReleaseOK

LEMMA SplitNext == IInv' <=> Typed' /\ Safe' /\ OnePublished'
  BY TypedIsTypeOKNext DEF IInv, Safe, PublishersHoldTheDefinition, PublisherOK,
     ReleasesHoldTheirRoute, ReleaseOK

LEMMA IdleAdminState == IdleAdmin \in AdminState /\ IdleAdmin.pc = "idle" /\ IdleAdmin.model = NoOne
  BY Numbers DEF IdleAdmin, AdminState

-----------------------------------------------------------------------------
(* What a step leaves alone.                                               *)

LEMMA OtherPublisher ==
    ASSUME NEW b \in Admin, PublisherOK(b), admin'[b] = admin[b],
           Publishing(b) => anchor'[Definition] = anchor[Definition] /\ UNCHANGED prompt
    PROVE  PublisherOK(b)'
  BY DEF PublisherOK, Publishing, Published

LEMMA OtherRelease ==
    ASSUME NEW b \in Admin, ReleaseOK(b), admin'[b] = admin[b],
           Releasing(b) => /\ anchor'[admin[b].route] = anchor[admin[b].route]
                           /\ \A r \in Route : r = admin[b].route => Live(r)' = Live(r)
                           /\ model'[admin[b].model] = model[admin[b].model]
    PROVE  ReleaseOK(b)'
  BY DEF ReleaseOK, Releasing, Live

LEMMA LiveStays ==
    ASSUME UNCHANGED deployment PROVE \A r : Live(r)' = Live(r)
  BY DEF Live

LEMMA PublishedStays ==
    ASSUME OnePublished, UNCHANGED prompt PROVE OnePublished'
  BY DEF OnePublished, Published

LEMMA AdminMoves ==
    ASSUME Typed, NEW a \in Admin, NEW new \in AdminState, admin' = [admin EXCEPT ![a] = new]
    PROVE  admin' \in [Admin -> AdminState] /\ admin'[a] = new
           /\ \A b \in Admin : b # a => admin'[b] = admin[b]
  BY DEF Typed

LEMMA AnchorMoves ==
    ASSUME Typed, NEW x \in Anchor, NEW holder \in Admin \cup {NoOne},
           anchor' = [anchor EXCEPT ![x] = holder]
    PROVE  anchor' \in [Anchor -> Admin \cup {NoOne}] /\ anchor'[x] = holder
           /\ \A y \in Anchor : y # x => anchor'[y] = anchor[y]
  BY DEF Typed

-----------------------------------------------------------------------------
(* Prompts.                                                                *)

LEMMA InitIInv == Init => IInv
<1> SUFFICES ASSUME Init PROVE IInv
  OBVIOUS
<1>1. Typed
  BY Numbers, IdleAdminState DEF Init, Typed, AbsentPrompt, PromptState, AbsentDeployment,
     DeploymentState, Anchor
<1>2. Safe
  BY IdleAdminState DEF Init, Safe, PublisherOK, ReleaseOK, Publishing, Releasing
<1>3. OnePublished
  BY DEF Init, OnePublished, Published, AbsentPrompt
<1> QED BY <1>1, <1>2, <1>3, Split

(* A new draft, while nobody publishes.                                    *)
LEMMA CreateKeeps == ASSUME IInv, CreatePromptVersion PROVE IInv'
<1>1. Typed /\ Safe /\ OnePublished /\ Free(Definition) /\ UNCHANGED <<model, deployment, admin, anchor>>
  BY Split DEF CreatePromptVersion
<1>2. PICK v \in PromptNo : NextNo(v) /\ prompt' = [prompt EXCEPT ![v] = [status |-> "DRAFT", content |-> v]]
  BY DEF CreatePromptVersion
<1>3. /\ prompt' \in [PromptNo -> PromptState] /\ prompt'[v].status = "DRAFT"
      /\ \A w \in PromptNo : w # v => prompt'[w] = prompt[w]
  BY <1>1, <1>2, Numbers DEF Typed, PromptState
<1>4. Published' = Published
  BY <1>2, <1>3 DEF Published, NextNo
<1>5. ASSUME NEW b \in Admin PROVE PublisherOK(b)' /\ ReleaseOK(b)'
  <2>1. PublisherOK(b) /\ ReleaseOK(b) /\ ~Publishing(b)
    BY <1>1, Apart DEF Safe, PublisherOK, Free
  <2> QED BY <1>1, <2>1, OtherPublisher, OtherRelease, LiveStays
<1> QED BY <1>1, <1>3, <1>4, <1>5, SplitNext DEF Typed, Safe, OnePublished

(* A publication or a rollback takes the lock and reads.                   *)
LEMMA LockKeeps ==
    ASSUME IInv, NEW a \in Admin, NEW new \in AdminState, Free(Definition), ~Releasing(a),
           admin' = [admin EXCEPT ![a] = new], anchor' = [anchor EXCEPT ![Definition] = a],
           UNCHANGED <<prompt, model, deployment>>,
           new.seen = Published,
           \/ new.pc = "publish" /\ new.target \in PromptNo /\ prompt[new.target].status = "DRAFT"
           \/ new.pc = "republish" /\ new.target \in PromptNo /\ new.next \in PromptNo
    PROVE  IInv'
<1>1. Typed /\ Safe /\ OnePublished
  BY Split
<1>2. /\ admin' \in [Admin -> AdminState] /\ admin'[a] = new
      /\ \A b \in Admin : b # a => admin'[b] = admin[b]
  BY <1>1, AdminMoves
<1>3. /\ anchor' \in [Anchor -> Admin \cup {NoOne}] /\ anchor'[Definition] = a
      /\ \A y \in Anchor : y # Definition => anchor'[y] = anchor[y]
  BY <1>1, Apart, AnchorMoves
<1>4. PublisherOK(a)' /\ ReleaseOK(a)'
  BY <1>2, <1>3 DEF PublisherOK, ReleaseOK, Publishing, Releasing, Published
<1>5. ASSUME NEW b \in Admin, b # a PROVE PublisherOK(b)' /\ ReleaseOK(b)'
  <2>1. PublisherOK(b) /\ ReleaseOK(b) /\ ~Publishing(b)
    BY <1>1, Apart DEF Safe, PublisherOK, Free
  <2>2. Releasing(b) => anchor'[admin[b].route] = anchor[admin[b].route]
    BY <1>3, <2>1, Apart DEF ReleaseOK
  <2> QED BY <1>2, <1>5, <2>1, <2>2, OtherPublisher, OtherRelease, LiveStays
<1> QED BY <1>1, <1>2, <1>3, <1>4, <1>5, SplitNext, PublishedStays DEF Typed, Safe

(* It writes: only one who read all that is published can.                 *)
LEMMA CommitKeeps ==
    ASSUME IInv, NEW a \in Admin, Publishing(a),
           prompt' \in [PromptNo -> PromptState],
           anchor' = [anchor EXCEPT ![Definition] = NoOne], Ends(a),
           UNCHANGED <<model, deployment>>, OnePublished'
    PROVE  IInv'
<1>1. Typed /\ Safe /\ anchor[Definition] = a
  BY Split DEF Safe, PublisherOK
<1>2. /\ admin' \in [Admin -> AdminState] /\ admin'[a] = IdleAdmin
      /\ \A b \in Admin : b # a => admin'[b] = admin[b]
  BY <1>1, IdleAdminState, AdminMoves DEF Ends
<1>3. /\ anchor' \in [Anchor -> Admin \cup {NoOne}]
      /\ \A y \in Anchor : y # Definition => anchor'[y] = anchor[y]
  BY <1>1, Apart, AnchorMoves
<1>4. PublisherOK(a)' /\ ReleaseOK(a)'
  BY <1>2, IdleAdminState DEF PublisherOK, ReleaseOK, Publishing, Releasing
<1>5. ASSUME NEW b \in Admin, b # a PROVE PublisherOK(b)' /\ ReleaseOK(b)'
  <2>1. PublisherOK(b) /\ ReleaseOK(b) /\ ~Publishing(b)
    BY <1>1, <1>5 DEF Safe, PublisherOK
  <2>2. Releasing(b) => anchor'[admin[b].route] = anchor[admin[b].route]
    BY <1>3, <2>1, Apart DEF ReleaseOK
  <2> QED BY <1>2, <1>5, <2>1, <2>2, OtherPublisher, OtherRelease, LiveStays
<1> QED BY <1>1, <1>2, <1>3, <1>4, <1>5, SplitNext DEF Typed, Safe

LEMMA ArchivedState ==
    ASSUME Typed, NEW seen
    PROVE  /\ Archived(seen) \in [PromptNo -> PromptState]
           /\ \A v \in PromptNo : v \notin seen => Archived(seen)[v] = prompt[v]
           /\ \A v \in PromptNo : v \in seen => Archived(seen)[v].status = "ARCHIVED"
                                            /\ Archived(seen)[v].content = prompt[v].content
  BY DEF Typed, PromptState, Archived

(* What publishing version v writes: every other published one is archived. *)
Writes(v, new) ==
    /\ prompt' \in [PromptNo -> PromptState] /\ prompt'[v] = new
    /\ \A w \in PromptNo : w # v => prompt'[w] = Archived(Published)[w]

LEMMA OneIsPublished ==
    ASSUME Typed, NEW v \in PromptNo, NEW new \in PromptState, Writes(v, new)
    PROVE  /\ prompt' \in [PromptNo -> PromptState] /\ prompt'[v] = new /\ OnePublished'
           /\ \A w \in PromptNo : w # v /\ w \notin Published => prompt'[w] = prompt[w]
           /\ \A w \in PromptNo : w # v => prompt'[w].content = prompt[w].content
<1>1. \A w \in PromptNo : w # v => prompt'[w].status # "PUBLISHED"
  <2>1. \A w \in PromptNo : w \notin Published => prompt[w].status # "PUBLISHED"
    BY DEF Published
  <2> QED BY <2>1, ArchivedState DEF Writes
<1>2. OnePublished'
  BY <1>1 DEF OnePublished, Published
<1> QED BY <1>2, ArchivedState DEF Writes

LEMMA CommitPublishWrites ==
    ASSUME IInv, NEW a \in Admin, CommitPublish(a)
    PROVE  /\ Publishing(a) /\ prompt' \in [PromptNo -> PromptState] /\ OnePublished'
           /\ \A v \in PromptNo : prompt[v].status # "ABSENT" =>
                 /\ prompt'[v].content = prompt[v].content
                 /\ prompt[v].status = "ARCHIVED" => prompt'[v] = prompt[v]
<1> DEFINE v == admin[a].target
           new == [prompt[v] EXCEPT !.status = "PUBLISHED"]
<1>1. Typed /\ PublisherOK(a) /\ Publishing(a)
  BY Split DEF CommitPublish, Safe, Publishing
<1>2. v \in PromptNo /\ prompt[v].status = "DRAFT" /\ admin[a].seen = Published /\ v \notin Published
  BY <1>1 DEF CommitPublish, PublisherOK, Published
<1>3. new \in PromptState /\ new.content = prompt[v].content
  BY <1>1, <1>2 DEF Typed, PromptState
<1>4. Writes(v, new)
  <2>1. prompt' = [Archived(Published) EXCEPT ![v] = new]
    BY <1>1, <1>2, ArchivedState DEF CommitPublish
  <2> QED BY <1>1, <1>2, <1>3, <2>1, ArchivedState DEF Writes
<1> HIDE DEF v, new
<1>5. \A w \in PromptNo : prompt[w].status = "ARCHIVED" => w # v /\ w \notin Published
  BY <1>2 DEF Published
<1>6. /\ prompt' \in [PromptNo -> PromptState] /\ prompt'[v] = new /\ OnePublished'
      /\ \A w \in PromptNo : w # v /\ w \notin Published => prompt'[w] = prompt[w]
      /\ \A w \in PromptNo : w # v => prompt'[w].content = prompt[w].content
  BY <1>1, <1>2, <1>3, <1>4, OneIsPublished
<1> QED BY <1>1, <1>3, <1>5, <1>6

LEMMA CommitRollbackWrites ==
    ASSUME IInv, NEW a \in Admin, CommitRollback(a)
    PROVE  /\ Publishing(a) /\ prompt' \in [PromptNo -> PromptState] /\ OnePublished'
           /\ \A v \in PromptNo : prompt[v].status # "ABSENT" =>
                 /\ prompt'[v].content = prompt[v].content
                 /\ prompt[v].status = "ARCHIVED" => prompt'[v] = prompt[v]
<1> DEFINE v == admin[a].next
           new == [status |-> "PUBLISHED", content |-> prompt[admin[a].target].content]
<1>1. Typed /\ OnePublished /\ PublisherOK(a) /\ Publishing(a)
  BY Split DEF CommitRollback, Safe, Publishing
<1>2. v \in PromptNo /\ admin[a].target \in PromptNo /\ admin[a].seen = Published
  BY <1>1 DEF CommitRollback, PublisherOK
<1>3. new \in PromptState
  BY <1>1, <1>2 DEF Typed, PromptState
<1>4. CASE prompt[v].status = "ABSENT"
  <2>1. Writes(v, new)
    <3>1. prompt' = [Archived(Published) EXCEPT ![v] = new]
      BY <1>2, <1>4 DEF CommitRollback
    <3> QED BY <1>1, <1>2, <1>3, <3>1, ArchivedState DEF Writes
  <2>2. \A w \in PromptNo : prompt[w].status = "ARCHIVED" => w \notin Published
    BY DEF Published
  <2> HIDE DEF v, new
  <2>3. /\ prompt' \in [PromptNo -> PromptState] /\ prompt'[v] = new /\ OnePublished'
        /\ \A w \in PromptNo : w # v /\ w \notin Published => prompt'[w] = prompt[w]
        /\ \A w \in PromptNo : w # v => prompt'[w].content = prompt[w].content
    BY <1>1, <1>2, <1>3, <2>1, OneIsPublished
  <2> QED BY <1>1, <1>4, <2>2, <2>3
<1>5. CASE prompt[v].status # "ABSENT"
  <2>1. prompt' = prompt
    BY <1>5 DEF CommitRollback
  <2> QED BY <1>1, <2>1, PublishedStays DEF Typed
<1> QED BY <1>4, <1>5

LEMMA PublishKeeps ==
    ASSUME IInv, NEW a \in Admin, NEW v \in PromptNo, PublishPrompt(a, v)
    PROVE  IInv'
<1> DEFINE new == [admin[a] EXCEPT !.pc = "publish", !.target = v, !.seen = Published]
<1>1. Typed /\ Published \subseteq PromptNo /\ v \in 0..MaxPrompts
  BY Split, Numbers DEF Published
<1>2. new \in AdminState /\ new.seen = Published /\ new.pc = "publish" /\ new.target = v
  <2>1. admin[a] \in AdminState
    BY <1>1 DEF Typed
  <2>2. Published \in SUBSET (PromptNo \cup Deployment)
    BY <1>1
  <2> HIDE DEF Published
  <2> QED BY <1>1, <2>1, <2>2 DEF AdminState
<1>3. admin' = [admin EXCEPT ![a] = new]
  BY <1>1 DEF PublishPrompt, Typed
<1> HIDE DEF new
<1> QED BY <1>2, <1>3, LockKeeps DEF PublishPrompt, Releasing

LEMMA RollbackLocksKeeps ==
    ASSUME IInv, NEW a \in Admin, RollbackLocks(a)
    PROVE  IInv'
<1> DEFINE new == [admin[a] EXCEPT !.pc = "republish", !.seen = Published]
<1>1. Typed /\ Published \subseteq PromptNo /\ PublisherOK(a)
  BY Split DEF Published, Safe
<1>2. /\ new \in AdminState /\ new.seen = Published /\ new.pc = "republish"
      /\ new.target = admin[a].target /\ new.next = admin[a].next
      /\ admin' = [admin EXCEPT ![a] = new]
  BY ZenonT(60), <1>1 DEF RollbackLocks, Typed, AdminState
<1>3. new.target \in PromptNo /\ new.next \in PromptNo
  BY <1>1, <1>2 DEF RollbackLocks, PublisherOK
<1> HIDE DEF new
<1> QED BY <1>2, <1>3, LockKeeps DEF RollbackLocks, Releasing

LEMMA RollbackKeeps ==
    ASSUME IInv, NEW a \in Admin, NEW v \in PromptNo, RollbackPrompt(a, v)
    PROVE  IInv'
<1>1. Typed /\ Safe /\ OnePublished
  BY Split
<1>2. PICK next \in PromptNo :
          admin' = [admin EXCEPT ![a].pc = "rollback", ![a].target = v, ![a].next = next]
  BY DEF RollbackPrompt
<1>3. /\ admin' \in [Admin -> AdminState] /\ admin'[a].pc = "rollback"
      /\ admin'[a].target = v /\ admin'[a].next = next
      /\ \A b \in Admin : b # a => admin'[b] = admin[b]
  <2> DEFINE new == [admin[a] EXCEPT !.pc = "rollback", !.target = v, !.next = next]
  <2>1. v \in 0..MaxPrompts /\ next \in 0..MaxPrompts /\ admin[a] \in AdminState
    BY <1>1, Numbers DEF Typed
  <2>2. /\ new \in AdminState /\ new.pc = "rollback" /\ new.target = v /\ new.next = next
        /\ admin' = [admin EXCEPT ![a] = new]
    BY <1>1, <1>2, <2>1 DEF Typed, AdminState
  <2> HIDE DEF new
  <2> QED BY <1>1, <2>2, AdminMoves
<1>4. PublisherOK(a)' /\ ReleaseOK(a)'
  BY <1>3 DEF PublisherOK, ReleaseOK, Publishing, Releasing
<1>5. ASSUME NEW b \in Admin, b # a PROVE PublisherOK(b)' /\ ReleaseOK(b)'
  BY <1>1, <1>3, <1>5, OtherPublisher, OtherRelease, LiveStays DEF RollbackPrompt, Safe
<1> QED BY <1>1, <1>3, <1>4, <1>5, SplitNext, PublishedStays DEF RollbackPrompt, Typed, Safe

LEMMA CommitPublishKeeps ==
    ASSUME IInv, NEW a \in Admin, CommitPublish(a) \/ CommitRollback(a)
    PROVE  IInv'
<1>1. CASE CommitPublish(a)
  BY <1>1, CommitPublishWrites, CommitKeeps DEF CommitPublish
<1>2. CASE CommitRollback(a)
  BY <1>2, CommitRollbackWrites, CommitKeeps DEF CommitRollback
<1> QED BY <1>1, <1>2

-----------------------------------------------------------------------------
(* Models and deployments.                                                 *)

(* A model that a release holds stays as it is.                            *)
LEMMA ModelKeeps ==
    ASSUME IInv, NEW m \in Model, NEW status \in ModelStatus,
           \A a \in Admin : Releasing(a) => admin[a].model # m,
           model' = [model EXCEPT ![m] = status], UNCHANGED <<prompt, deployment, admin, anchor>>
    PROVE  IInv'
<1>1. Typed /\ Safe /\ OnePublished
  BY Split
<1>2. model' \in [Model -> ModelStatus \cup {"ABSENT"}] /\ \A n \in Model : n # m => model'[n] = model[n]
  BY <1>1 DEF Typed
<1>3. ASSUME NEW b \in Admin PROVE PublisherOK(b)' /\ ReleaseOK(b)'
  <2>1. Releasing(b) => admin[b].model \in Model /\ admin[b].model # m
    BY <1>1 DEF Safe, ReleaseOK
  <2> QED BY <1>1, <1>2, <2>1, OtherPublisher, OtherRelease, LiveStays DEF Safe
<1> QED BY <1>1, <1>2, <1>3, SplitNext, PublishedStays DEF Typed, Safe

LEMMA RegisterKeeps == ASSUME IInv, NEW m \in Model, RegisterModel(m) PROVE IInv'
<1>1. \A a \in Admin : Releasing(a) => admin[a].model # m
  BY Split DEF RegisterModel, Safe, ReleaseOK
<1> QED BY <1>1, ModelKeeps DEF RegisterModel, ModelStatus

LEMMA TransitionKeeps ==
    ASSUME IInv, NEW m \in Model, NEW status \in ModelStatus, TransitionModel(m, status)
    PROVE  IInv'
  BY ModelKeeps DEF TransitionModel

LEMMA LockRouteKeeps ==
    ASSUME IInv, NEW a \in Admin, NEW pc \in {"deploy", "restore"}, NEW r \in Route, NEW m \in Model,
           NEW percent \in 0..100, LockRoute(a, pc, r, m, percent)
    PROVE  IInv'
<1>1. Typed /\ Safe /\ OnePublished
  BY Split
<1>2. Live(r) \subseteq Deployment /\ admin[a].pc = "idle" /\ anchor[r] = NoOne /\ model[m] = "APPROVED"
      /\ r \in Anchor /\ r # Definition /\ UNCHANGED <<prompt, model, deployment>>
  BY Apart DEF Live, LockRoute, Free
<1>3. /\ admin' \in [Admin -> AdminState] /\ admin'[a].pc = pc /\ admin'[a].seen = Live(r)
      /\ admin'[a].route = r /\ admin'[a].model = m
      /\ \A b \in Admin : b # a => admin'[b] = admin[b]
  BY <1>1, <1>2 DEF LockRoute, Typed, AdminState
<1>4. /\ anchor' \in [Anchor -> Admin \cup {NoOne}] /\ anchor'[r] = a
      /\ \A y \in Anchor : y # r => anchor'[y] = anchor[y]
  BY <1>1, <1>2, AnchorMoves DEF LockRoute
<1>5. PublisherOK(a)' /\ ReleaseOK(a)'
  BY <1>2, <1>3, <1>4, LiveStays DEF PublisherOK, ReleaseOK, Publishing, Releasing
<1>6. ASSUME NEW b \in Admin, b # a PROVE PublisherOK(b)' /\ ReleaseOK(b)'
  <2>1. PublisherOK(b) /\ ReleaseOK(b)
    BY <1>1 DEF Safe
  <2>2. Releasing(b) => admin[b].route \in Route /\ admin[b].route # r
    BY <1>2, <2>1, Apart DEF ReleaseOK
  <2>3. (Releasing(b) => anchor'[admin[b].route] = anchor[admin[b].route])
        /\ anchor'[Definition] = anchor[Definition]
    BY <1>2, <1>4, <2>2, Apart
  <2> QED BY <1>2, <1>3, <1>6, <2>1, <2>3, OtherPublisher, OtherRelease, LiveStays
<1> QED BY <1>1, <1>2, <1>3, <1>4, <1>5, <1>6, SplitNext, PublishedStays DEF Typed, Safe

(* What a release writes concerns its route.                               *)
LEMMA ReleaseWrites ==
    ASSUME IInv, NEW a \in Admin, NEW status \in LiveStatuses, NEW replaced \in SUBSET admin[a].seen,
           NEW newStatus \in {"SUPERSEDED", "ROLLED_BACK"}, Releasing(a),
           Released(a, status, replaced, newStatus)
    PROVE  /\ deployment' \in [Deployment -> DeploymentState]
           /\ \A r \in Route : r # admin[a].route => Live(r)' = Live(r)
           /\ \A d \in Deployment : deployment[d].status = "ABSENT" /\ deployment'[d].status # "ABSENT"
                 => deployment'[d].model = admin[a].model
<1>1. Typed /\ ReleaseOK(a) /\ admin[a] \in AdminState
  BY Split DEF Safe, Typed
<1>2. /\ admin[a].route \in Route /\ admin[a].model \in Model /\ admin[a].percent \in 0..100
      /\ \A e \in replaced : e \in Live(admin[a].route)
  BY <1>1 DEF ReleaseOK, AdminState
<1> DEFINE new == [status |-> status, route |-> admin[a].route, model |-> admin[a].model,
                   percent |-> admin[a].percent]
<1>3. PICK d \in Deployment :
          /\ deployment[d].status = "ABSENT"
          /\ deployment' = [e \in Deployment |->
                CASE e = d -> new
                  [] e \in replaced -> [deployment[e] EXCEPT !.status = newStatus]
                  [] OTHER -> deployment[e]]
  BY DEF Released
<1>4. \A e \in replaced : /\ e \in Deployment /\ deployment[e].route = admin[a].route
                          /\ deployment[e].status # "ABSENT" /\ e # d
  BY <1>2, <1>3 DEF Live, LiveStatuses
<1>5. new \in DeploymentState
  BY <1>2 DEF DeploymentState
<1> HIDE DEF new
<1>6. ASSUME NEW e \in Deployment
      PROVE  /\ e = d => deployment'[e] = new
             /\ e \in replaced => deployment'[e] = [deployment[e] EXCEPT !.status = newStatus]
             /\ e # d /\ e \notin replaced => deployment'[e] = deployment[e]
  BY <1>3, <1>4
<1>7. ASSUME NEW e \in Deployment
      PROVE  /\ deployment'[e] \in DeploymentState
             /\ e \in replaced => deployment'[e].route = admin[a].route
             /\ deployment[e].status = "ABSENT" => e \notin replaced
  <2>1. deployment[e] \in DeploymentState /\ (deployment[e].status = "ABSENT" => e \notin replaced)
    BY <1>1, <1>4 DEF Typed
  <2>2. CASE e \in replaced
    <3>1. /\ [deployment[e] EXCEPT !.status = newStatus] \in DeploymentState
          /\ [deployment[e] EXCEPT !.status = newStatus].route = deployment[e].route
      BY <2>1 DEF DeploymentState
    <3> QED BY <1>4, <1>6, <2>1, <2>2, <3>1
  <2>3. CASE e \notin replaced
    BY <1>5, <1>6, <2>1, <2>3
  <2> QED BY <2>2, <2>3
<1>8. ASSUME NEW r \in Route, r # admin[a].route PROVE Live(r)' = Live(r)
  <2>1. new.route = admin[a].route
    BY DEF new
  <2>2. \A e \in Deployment : e \in replaced \/ e = d => e \notin Live(r) /\ e \notin Live(r)'
    BY <1>3, <1>4, <1>6, <1>7, <1>8, <2>1 DEF Live, LiveStatuses
  <2>3. \A e \in Deployment : e \notin replaced /\ e # d => (e \in Live(r) <=> e \in Live(r)')
    BY <1>6 DEF Live
  <2> QED BY <2>2, <2>3 DEF Live
<1>9. \A e \in Deployment : deployment[e].status = "ABSENT" /\ deployment'[e].status # "ABSENT"
          => deployment'[e].model = admin[a].model
  <2>1. new.model = admin[a].model
    BY DEF new
  <2> QED BY <1>6, <1>7, <2>1
<1>10. deployment' \in [Deployment -> DeploymentState]
  BY <1>3, <1>7
<1> QED BY <1>8, <1>9, <1>10

LEMMA ReleaseKeeps ==
    ASSUME IInv, NEW a \in Admin, NEW status \in LiveStatuses, NEW replaced \in SUBSET admin[a].seen,
           NEW newStatus \in {"SUPERSEDED", "ROLLED_BACK"}, Releasing(a),
           Released(a, status, replaced, newStatus)
    PROVE  IInv'
<1>1. Typed /\ Safe /\ OnePublished /\ ReleaseOK(a)
  BY Split DEF Safe
<1>2. admin[a].route \in Route /\ admin[a].route \in Anchor /\ admin[a].route # Definition
      /\ anchor[admin[a].route] = a
  BY <1>1, Apart DEF ReleaseOK
<1>3. Ends(a) /\ UNCHANGED <<prompt, model>> /\ anchor' = [anchor EXCEPT ![admin[a].route] = NoOne]
  BY DEF Released
<1>4. /\ admin' \in [Admin -> AdminState] /\ admin'[a] = IdleAdmin
      /\ \A b \in Admin : b # a => admin'[b] = admin[b]
  BY <1>1, <1>3, IdleAdminState, AdminMoves DEF Ends
<1>5. /\ anchor' \in [Anchor -> Admin \cup {NoOne}]
      /\ \A y \in Anchor : y # admin[a].route => anchor'[y] = anchor[y]
  BY <1>1, <1>2, <1>3, AnchorMoves
<1>6. PublisherOK(a)' /\ ReleaseOK(a)'
  BY <1>4, IdleAdminState DEF PublisherOK, ReleaseOK, Publishing, Releasing
<1>7. ASSUME NEW b \in Admin, b # a PROVE PublisherOK(b)' /\ ReleaseOK(b)'
  <2>1. PublisherOK(b) /\ ReleaseOK(b)
    BY <1>1 DEF Safe
  <2>2. Releasing(b) => /\ admin[b].route \in Route /\ admin[b].route \in Anchor
                        /\ admin[b].route # admin[a].route
    BY <1>2, <1>7, <2>1, Apart DEF ReleaseOK
  <2>3. /\ Releasing(b) => anchor'[admin[b].route] = anchor[admin[b].route]
        /\ Releasing(b) => \A r \in Route : r = admin[b].route => Live(r)' = Live(r)
        /\ anchor'[Definition] = anchor[Definition]
    <3>1. \A r \in Route : r # admin[a].route => Live(r)' = Live(r)
      BY ReleaseWrites
    <3> QED BY <1>2, <1>5, <2>2, <3>1, Apart
  <2> QED BY <1>3, <1>4, <1>7, <2>1, <2>3, OtherPublisher, OtherRelease
<1> QED BY <1>1, <1>3, <1>4, <1>5, <1>6, <1>7, ReleaseWrites, SplitNext, PublishedStays DEF Typed, Safe

LEMMA CommitDeployKeeps ==
    ASSUME IInv, NEW a \in Admin, CommitDeploy(a) \/ CommitRestore(a)
    PROVE  IInv'
<1>1. Releasing(a)
  BY DEF CommitDeploy, CommitRestore, Releasing
<1>2. \/ Released(a, "ACTIVE", admin[a].seen, "SUPERSEDED")
      \/ Released(a, "CANARY", {}, "SUPERSEDED")
      \/ Released(a, "ACTIVE", admin[a].seen, "ROLLED_BACK")
  BY DEF CommitDeploy, CommitRestore
<1> QED BY <1>1, <1>2, ReleaseKeeps DEF LiveStatuses

-----------------------------------------------------------------------------

LEMMA NextIInv == IInv /\ [Next]_vars => IInv'
<1> SUFFICES ASSUME IInv, [Next]_vars PROVE IInv'
  OBVIOUS
<1>1. CASE CreatePromptVersion
  BY <1>1, CreateKeeps
<1>2. ASSUME NEW a \in Admin, NEW v \in PromptNo, PublishPrompt(a, v) \/ RollbackPrompt(a, v)
      PROVE  IInv'
  BY <1>2, PublishKeeps, RollbackKeeps
<1>3. ASSUME NEW a \in Admin, CommitPublish(a) \/ RollbackLocks(a) \/ CommitRollback(a)
      PROVE  IInv'
  BY <1>3, CommitPublishKeeps, RollbackLocksKeeps
<1>4. ASSUME NEW a \in Admin, NEW r \in Route, NEW m \in Model, RollbackModel(a, r, m)
      PROVE  IInv'
  BY <1>4, LockRouteKeeps, Numbers DEF RollbackModel
<1>5. ASSUME NEW a \in Admin, NEW r \in Route, NEW m \in Model, NEW percent \in Percent,
             DeployModel(a, r, m, percent)
      PROVE  IInv'
  BY <1>5, LockRouteKeeps, Numbers DEF DeployModel
<1>6. ASSUME NEW a \in Admin, CommitDeploy(a) \/ CommitRestore(a) PROVE IInv'
  BY <1>6, CommitDeployKeeps
<1>7. ASSUME NEW m \in Model, RegisterModel(m) \/ \E status \in ModelStatus : TransitionModel(m, status)
      PROVE  IInv'
  BY <1>7, RegisterKeeps, TransitionKeeps
<1>8. CASE UNCHANGED vars
  <2>1. Typed /\ Safe /\ OnePublished /\ UNCHANGED <<prompt, model, deployment, admin, anchor>>
    BY <1>8, Split DEF vars
  <2>2. Safe'
    BY <2>1, OtherPublisher, OtherRelease, LiveStays DEF Safe
  <2> QED BY <2>1, <2>2, PublishedStays, SplitNext DEF Typed
<1> QED BY <1>1, <1>2, <1>3, <1>4, <1>5, <1>6, <1>7, <1>8 DEF Next

(* Publishers hold the definition, releases hold their route and their     *)
(* model, and what they read there is still so.                            *)
THEOREM GovernanceInvariance == Spec => []IInv
  BY InitIInv, NextIInv, PTL DEF Spec

(* Which steps write versions, and which write deployments.                *)
LEMMA WhoWrites ==
    ASSUME [Next]_vars
    PROVE  /\ CreatePromptVersion \/ UNCHANGED prompt
              \/ \E a \in Admin : CommitPublish(a) \/ CommitRollback(a)
           /\ UNCHANGED deployment \/ \E a \in Admin : CommitDeploy(a) \/ CommitRestore(a)
<1>1. ASSUME CreatePromptVersion PROVE UNCHANGED deployment
  BY <1>1 DEF CreatePromptVersion
<1>2. ASSUME NEW a \in Admin, NEW v \in PromptNo, PublishPrompt(a, v) \/ RollbackPrompt(a, v)
      PROVE  UNCHANGED <<prompt, deployment>>
  BY <1>2 DEF PublishPrompt, RollbackPrompt
<1>3. ASSUME NEW a \in Admin, RollbackLocks(a) PROVE UNCHANGED <<prompt, deployment>>
  BY <1>3 DEF RollbackLocks
<1>4. ASSUME NEW a \in Admin, CommitPublish(a) \/ CommitRollback(a) PROVE UNCHANGED deployment
  BY <1>4 DEF CommitPublish, CommitRollback
<1>5. ASSUME NEW a \in Admin, NEW r \in Route, NEW m \in Model,
             RollbackModel(a, r, m) \/ \E percent \in Percent : DeployModel(a, r, m, percent)
      PROVE  UNCHANGED <<prompt, deployment>>
  BY <1>5 DEF RollbackModel, DeployModel, LockRoute
<1>6. ASSUME NEW a \in Admin, CommitDeploy(a) \/ CommitRestore(a) PROVE UNCHANGED prompt
  BY <1>6 DEF CommitDeploy, CommitRestore, Released
<1>7. ASSUME NEW m \in Model, RegisterModel(m) \/ \E status \in ModelStatus : TransitionModel(m, status)
      PROVE  UNCHANGED <<prompt, deployment>>
  BY <1>7 DEF RegisterModel, TransitionModel
<1>8. CASE UNCHANGED vars
  BY <1>8 DEF vars
<1> QED BY <1>1, <1>2, <1>3, <1>4, <1>5, <1>6, <1>7, <1>8 DEF Next

(* At most one version of a prompt is in use.                              *)
THEOREM OneVersionInUse == Spec => []OnePublished
<1>1. IInv => OnePublished
  BY DEF IInv
<1> QED BY <1>1, GovernanceInvariance, PTL

(* A version that exists keeps its content, an archived one stays so.      *)
THEOREM HistoryStays == Spec => HistoryIsKept
<1> DEFINE Kept == \A v \in PromptNo : prompt[v].status # "ABSENT" =>
                     /\ prompt'[v].content = prompt[v].content
                     /\ prompt[v].status = "ARCHIVED" => prompt'[v] = prompt[v]
<1>1. UNCHANGED prompt => Kept
  OBVIOUS
<1>2. IInv /\ CreatePromptVersion => Kept
  <2> SUFFICES ASSUME IInv, CreatePromptVersion PROVE Kept
    OBVIOUS
  <2>1. PICK v \in PromptNo : /\ prompt[v].status = "ABSENT"
                             /\ prompt' = [prompt EXCEPT ![v] = [status |-> "DRAFT", content |-> v]]
    BY DEF CreatePromptVersion, NextNo
  <2> QED BY <2>1, Split DEF Typed
<1>3. ASSUME IInv, NEW a \in Admin, CommitPublish(a) \/ CommitRollback(a) PROVE Kept
  BY <1>3, CommitPublishWrites, CommitRollbackWrites
<1>4. IInv /\ [Next]_vars => Kept
  <2> HIDE DEF Kept
  <2> QED BY <1>1, <1>2, <1>3, WhoWrites
<1> QED BY <1>4, GovernanceInvariance, PTL DEF Spec, HistoryIsKept

(* What goes live is approved when it does.                                *)
THEOREM ReleasesAreApproved == Spec => ReleasedIsApproved
<1> DEFINE Approved == \A d \in Deployment :
                         deployment[d].status = "ABSENT" /\ deployment'[d].status # "ABSENT"
                         => model[deployment'[d].model] = "APPROVED"
<1>1. UNCHANGED deployment => Approved
  OBVIOUS
<1>2. ASSUME IInv, NEW a \in Admin, CommitDeploy(a) \/ CommitRestore(a) PROVE Approved
  <2>1. \/ Released(a, "ACTIVE", admin[a].seen, "SUPERSEDED")
        \/ Released(a, "CANARY", {}, "SUPERSEDED")
        \/ Released(a, "ACTIVE", admin[a].seen, "ROLLED_BACK")
    BY <1>2 DEF CommitDeploy, CommitRestore
  <2>2. Releasing(a) /\ model[admin[a].model] = "APPROVED"
    BY <1>2, Split DEF Safe, ReleaseOK, Releasing, CommitDeploy, CommitRestore
  <2> QED BY <1>2, <2>1, <2>2, ReleaseWrites DEF LiveStatuses
<1>3. IInv /\ [Next]_vars => Approved
  <2> HIDE DEF Approved
  <2> QED BY <1>1, <1>2, WhoWrites
<1> QED BY <1>3, GovernanceInvariance, PTL DEF Spec, ReleasedIsApproved
-----------------------------------------------------------------------------
(* Traffic.  Total is defined by recursion on the number of deployments;   *)
(* what is needed of it follows from a least number where it would fail.   *)

LEMMA LeastNumber ==
    ASSUME NEW Bad \in SUBSET Nat, Bad # {}
    PROVE  \E n \in Bad : \A m \in Nat : m < n => m \notin Bad
<1> DEFINE Less == OpToRel(<, Nat)
<1>1. \A m, n \in Nat : m < n => <<m, n>> \in Less
  BY DEF OpToRel
<1>2. IsWellFoundedOn(Less, Nat)
  BY NatLessThanWellFounded
<1> HIDE DEF Less
<1>3. PICK n \in Bad : \A m \in Bad : <<m, n>> \notin Less
  BY <1>2, WFMin
<1> QED BY <1>1, <1>3

Share == [Deployment -> Nat]
Adds(f, share, n) == f = [d \in 0..n |-> IF d = 0 THEN 0 ELSE f[d - 1] + share[d]]

LEMMA Bound == MaxDeployments \in Nat /\ Deployment = 1..MaxDeployments
  BY GovernanceAssumption DEF Deployment

LEMMA AddsOne ==
    ASSUME NEW share, NEW n \in Nat \ {0}, NEW g, Adds(g, share, n - 1)
    PROVE  \E f : Adds(f, share, n)
<1> DEFINE f == [d \in 0..n |-> IF d = n THEN g[n - 1] + share[n] ELSE g[d]]
<1>1. ASSUME NEW d \in 0..n PROVE f[d] = IF d = 0 THEN 0 ELSE f[d - 1] + share[d]
  <2>1. d # 0 => d - 1 \in 0..n /\ d - 1 # n /\ f[d - 1] = g[d - 1]
    OBVIOUS
  <2>2. d # n => d \in 0..(n - 1) /\ f[d] = g[d]
    OBVIOUS
  <2>3. d # n => g[d] = IF d = 0 THEN 0 ELSE g[d - 1] + share[d]
    BY <2>2 DEF Adds
  <2>4. d = n => f[d] = g[d - 1] + share[d]
    OBVIOUS
  <2> QED BY <2>1, <2>2, <2>3, <2>4
<1>2. f = [d \in 0..n |-> f[d]]
  OBVIOUS
<1> HIDE DEF f
<1>3. [d \in 0..n |-> f[d]] = [d \in 0..n |-> IF d = 0 THEN 0 ELSE f[d - 1] + share[d]]
  BY <1>1
<1> QED BY <1>2, <1>3 DEF Adds

LEMMA AddsExists == ASSUME NEW share PROVE \E f : Adds(f, share, MaxDeployments)
<1> DEFINE Bad == {n \in Nat : ~ \E f : Adds(f, share, n)}
<1> SUFFICES ASSUME Bad # {} PROVE FALSE
  BY Bound
<1>1. PICK n \in Bad : \A m \in Nat : m < n => m \notin Bad
  BY LeastNumber
<1>2. CASE n = 0
  <2> DEFINE f == [d \in 0..0 |-> 0]
  <2>1. [d \in 0..0 |-> IF d = 0 THEN 0 ELSE f[d - 1] + share[d]] = f
    OBVIOUS
  <2>2. Adds(f, share, 0)
    BY <2>1 DEF Adds
  <2> QED BY <1>2, <2>2
<1>3. CASE n # 0
  <2>1. n - 1 \in Nat /\ n - 1 < n /\ n \in Nat \ {0}
    BY <1>3
  <2>2. \E g : Adds(g, share, n - 1)
    BY <1>1, <2>1
  <2> QED BY <2>1, <2>2, AddsOne
<1> QED BY <1>2, <1>3

LEMMA TotalAdds ==
    ASSUME NEW share
    PROVE  \E f : Adds(f, share, MaxDeployments) /\ Total(share) = f[MaxDeployments]
<1> DEFINE f == CHOOSE f : Adds(f, share, MaxDeployments)
<1>1. Adds(f, share, MaxDeployments)
  BY AddsExists
<1>2. Total(share) = f[MaxDeployments]
  BY Zenon DEF Total, Adds
<1> QED BY <1>1, <1>2

LEMMA AddsValues ==
    ASSUME NEW share, NEW f, Adds(f, share, MaxDeployments)
    PROVE  f[0] = 0 /\ \A d \in Deployment : f[d] = f[d - 1] + share[d]
<1> DEFINE Value(d) == IF d = 0 THEN 0 ELSE f[d - 1] + share[d]
<1>1. f = [d \in 0..MaxDeployments |-> Value(d)]
  BY DEF Adds
<1>2. \A d \in 0..MaxDeployments : f[d] = Value(d)
  <2> HIDE DEF Value
  <2> QED BY <1>1
<1>3. f[0] = Value(0) /\ \A d \in Deployment : f[d] = Value(d) /\ d # 0
  BY <1>2, Bound
<1> QED BY <1>3

LEMMA AddsNat ==
    ASSUME NEW share \in Share, NEW f, Adds(f, share, MaxDeployments)
    PROVE  \A d \in 0..MaxDeployments : f[d] \in Nat
<1> DEFINE Bad == {d \in 0..MaxDeployments : f[d] \notin Nat}
<1> SUFFICES ASSUME Bad # {} PROVE FALSE
  OBVIOUS
<1>1. Bad \in SUBSET Nat
  BY Bound
<1>2. PICK d \in Bad : \A m \in Nat : m < d => m \notin Bad
  BY <1>1, LeastNumber
<1>3. d \in Deployment /\ d - 1 \in Nat /\ d - 1 < d /\ d - 1 \in 0..MaxDeployments
  BY Bound, AddsValues
<1>4. f[d - 1] \in Nat /\ share[d] \in Nat
  BY <1>2, <1>3 DEF Share
<1> QED BY <1>3, <1>4, AddsValues

LEMMA TotalIsNat == ASSUME NEW share \in Share PROVE Total(share) \in Nat
  BY TotalAdds, AddsNat, Bound

(* Nothing adds up to nothing.                                             *)
LEMMA TotalOfNone ==
    ASSUME NEW share, \A d \in Deployment : share[d] = 0
    PROVE  Total(share) = 0
<1>1. PICK f : Adds(f, share, MaxDeployments) /\ Total(share) = f[MaxDeployments]
  BY TotalAdds
<1> DEFINE Bad == {d \in 0..MaxDeployments : f[d] # 0}
<1> SUFFICES ASSUME Bad # {} PROVE FALSE
  BY <1>1, Bound
<1>2. Bad \in SUBSET Nat
  BY Bound
<1>3. PICK d \in Bad : \A m \in Nat : m < d => m \notin Bad
  BY <1>2, LeastNumber
<1>4. d \in Deployment /\ d - 1 \in Nat /\ d - 1 < d /\ d - 1 \in 0..MaxDeployments
  BY <1>1, Bound, AddsValues
<1>5. f[d - 1] = 0 /\ share[d] = 0
  BY <1>3, <1>4
<1> QED BY <1>1, <1>4, <1>5, AddsValues

(* One share changes: the total changes by as much.                        *)
LEMMA TotalChanges ==
    ASSUME NEW old \in Share, NEW new \in Share, NEW x \in Deployment,
           \A d \in Deployment : d # x => new[d] = old[d]
    PROVE  Total(new) + old[x] = Total(old) + new[x]
<1>1. PICK f : Adds(f, old, MaxDeployments) /\ Total(old) = f[MaxDeployments]
  BY TotalAdds
<1>2. PICK g : Adds(g, new, MaxDeployments) /\ Total(new) = g[MaxDeployments]
  BY TotalAdds
<1>3. \A d \in 0..MaxDeployments : f[d] \in Nat /\ g[d] \in Nat
  BY <1>1, <1>2, AddsNat
<1>4. old[x] \in Nat /\ new[x] \in Nat
  BY DEF Share
<1> DEFINE Agree(d) == IF d < x THEN g[d] = f[d] ELSE g[d] + old[x] = f[d] + new[x]
           Bad == {d \in 0..MaxDeployments : ~Agree(d)}
<1> SUFFICES ASSUME Bad # {} PROVE FALSE
  <2>1. MaxDeployments \in 0..MaxDeployments /\ ~(MaxDeployments < x)
    BY Bound
  <2> QED BY <1>1, <1>2, <2>1
<1>5. Bad \in SUBSET Nat
  BY Bound
<1>6. PICK d \in Bad : \A m \in Nat : m < d => m \notin Bad
  BY <1>5, LeastNumber
<1>7. d # 0
  BY <1>1, <1>2, AddsValues, Bound
<1>8. d \in Deployment /\ d \in Nat /\ d - 1 \in Nat /\ d - 1 < d /\ d - 1 \in 0..MaxDeployments /\ x \in Nat
  BY <1>7, Bound
<1>9. Agree(d - 1)
  BY <1>6, <1>8
<1>10. f[d] = f[d - 1] + old[d] /\ g[d] = g[d - 1] + new[d]
  BY <1>1, <1>2, <1>8, AddsValues
<1>11. f[d - 1] \in Nat /\ g[d - 1] \in Nat /\ old[d] \in Nat /\ new[d] \in Nat
  BY <1>3, <1>8 DEF Share
<1>12. Agree(d)
  BY <1>4, <1>8, <1>9, <1>10, <1>11
<1> QED BY <1>12

(* One share alone.                                                        *)
LEMMA TotalOfOne ==
    ASSUME NEW share \in Share, NEW x \in Deployment,
           \A d \in Deployment : d # x => share[d] = 0
    PROVE  Total(share) = share[x]
<1> DEFINE none == [d \in Deployment |-> 0]
<1>1. none \in Share /\ Total(none) = 0
  BY TotalOfNone DEF Share
<1>2. none[x] = 0 /\ \A d \in Deployment : d # x => share[d] = none[d]
  OBVIOUS
<1> HIDE DEF none
<1>3. Total(share) + none[x] = Total(none) + share[x]
  BY <1>1, <1>2, TotalChanges
<1>4. Total(share) \in Nat /\ share[x] \in Nat
  BY TotalIsNat DEF Share
<1> QED BY <1>1, <1>2, <1>3, <1>4

ShareOf(D) == [d \in Deployment |-> IF d \in D THEN deployment[d].percent ELSE 0]

LEMMA TrafficIs ==
    /\ \A r : Traffic(Live(r)) = Total(ShareOf(Live(r)))
    /\ \A r : Traffic(Live(r))' = Total(ShareOf(Live(r))')
  BY DEF Traffic, ShareOf

LEMMA SharesAre ==
    /\ Typed => \A r : ShareOf(Live(r)) \in Share /\ Traffic(Live(r)) \in Nat
    /\ Typed' => \A r : ShareOf(Live(r))' \in Share
<1>1. Typed => \A d \in Deployment : deployment[d].percent \in Nat
  BY DEF Typed, DeploymentState
<1>2. Typed' => \A d \in Deployment : deployment'[d].percent \in Nat
  BY DEF Typed, DeploymentState
<1> QED BY <1>1, <1>2, TrafficIs, TotalIsNat DEF ShareOf, Share

LEMMA TrafficStays ==
    ASSUME NEW r, Live(r)' = Live(r),
           \A d \in Live(r) : deployment'[d].percent = deployment[d].percent
    PROVE  Traffic(Live(r))' = Traffic(Live(r))
<1>1. ShareOf(Live(r))' = ShareOf(Live(r))
  BY DEF ShareOf
<1> QED BY <1>1, TrafficIs

(* A canary joins the live deployments.                                    *)
LEMMA TrafficGrows ==
    ASSUME Typed, Typed', NEW r, NEW d \in Deployment, d \notin Live(r), Live(r)' = Live(r) \cup {d},
           \A e \in Deployment : e # d => deployment'[e].percent = deployment[e].percent
    PROVE  Traffic(Live(r))' = Traffic(Live(r)) + deployment'[d].percent
<1> DEFINE old == ShareOf(Live(r))
           new == ShareOf(Live(r))'
<1>1. old \in Share /\ new \in Share
  BY SharesAre
<1>2. old[d] = 0 /\ new[d] = deployment'[d].percent
      /\ \A e \in Deployment : e # d => new[e] = old[e]
  BY DEF ShareOf
<1>3. Traffic(Live(r)) = Total(old) /\ Traffic(Live(r))' = Total(new)
  BY TrafficIs
<1> HIDE DEF old, new
<1>4. Total(new) + old[d] = Total(old) + new[d]
  BY <1>1, <1>2, TotalChanges
<1>5. Total(new) \in Nat /\ Total(old) \in Nat
  BY <1>1, TotalIsNat
<1> QED BY <1>2, <1>3, <1>4, <1>5

(* A deployment is alone on its route.                                     *)
LEMMA TrafficOfAlone ==
    ASSUME Typed, NEW r, NEW d \in Deployment, Live(r) = {d}
    PROVE  Traffic(Live(r)) = deployment[d].percent
<1> DEFINE share == ShareOf(Live(r))
<1>1. share \in Share /\ Traffic(Live(r)) = Total(share)
  BY SharesAre, TrafficIs
<1>2. share[d] = deployment[d].percent /\ \A e \in Deployment : e # d => share[e] = 0
  BY DEF ShareOf
<1> HIDE DEF share
<1> QED BY <1>1, <1>2, TotalOfOne

LEMMA TrafficAlone ==
    ASSUME Typed', NEW r, NEW d \in Deployment, Live(r)' = {d}
    PROVE  Traffic(Live(r))' = deployment'[d].percent
<1> DEFINE new == ShareOf(Live(r))'
<1>1. new \in Share /\ Traffic(Live(r))' = Total(new)
  BY SharesAre, TrafficIs
<1>2. new[d] = deployment'[d].percent /\ \A e \in Deployment : e # d => new[e] = 0
  BY DEF ShareOf
<1> HIDE DEF new
<1> QED BY <1>1, <1>2, TotalOfOne

-----------------------------------------------------------------------------
(* Capacity.                                                               *)

ReleaseFits(a) ==
    /\ admin[a].pc = "restore" => admin[a].percent = 100
    /\ admin[a].pc = "deploy" /\ admin[a].percent # 100 =>
          admin[a].percent # 0 /\ Fits(admin[a].seen, admin[a].percent)

LEMMA OtherFits ==
    ASSUME NEW b \in Admin, ReleaseFits(b), ReleaseOK(b), admin'[b] = admin[b],
           \A r \in Route : Releasing(b) /\ r = admin[b].route =>
              Live(r)' = Live(r) /\ \A d \in Live(r) : deployment'[d].percent = deployment[d].percent
    PROVE  ReleaseFits(b)'
<1>1. CASE Releasing(b)
  <2>1. PICK r \in Route : r = admin[b].route
    BY <1>1 DEF ReleaseOK
  <2>2. Live(r)' = Live(r) /\ \A d \in Live(r) : deployment'[d].percent = deployment[d].percent
    BY <1>1, <2>1
  <2>3. admin[b].seen = Live(r) /\ admin'[b].seen = Live(r)'
    BY <1>1, <2>1, <2>2 DEF ReleaseOK
  <2>4. Traffic(admin[b].seen)' = Traffic(admin[b].seen)
    BY <2>2, <2>3, TrafficStays DEF Traffic
  <2> QED BY <2>4 DEF ReleaseFits, Fits
<1>2. CASE ~Releasing(b)
  BY <1>2 DEF ReleaseFits, Releasing
<1> QED BY <1>1, <1>2

LEMMA RoutesStay ==
    ASSUME FullIsAlone, TrafficFits, UNCHANGED deployment
    PROVE  FullIsAlone' /\ TrafficFits'
<1>1. \A r : Live(r)' = Live(r)
  BY DEF Live
<1> QED BY <1>1, TrafficStays DEF FullIsAlone, TrafficFits

(* What a release writes, deployment by deployment.                        *)
LEMMA ReleaseIs ==
    ASSUME IInv, NEW a \in Admin, NEW status \in LiveStatuses, NEW replaced \in SUBSET admin[a].seen,
           NEW newStatus \in {"SUPERSEDED", "ROLLED_BACK"}, Releasing(a),
           Released(a, status, replaced, newStatus)
    PROVE  \E d \in Deployment :
              /\ \A r : d \notin Live(r)
              /\ deployment'[d].status = status /\ deployment'[d].percent = admin[a].percent
              /\ \A e \in Deployment : e # d => deployment'[e].percent = deployment[e].percent
              /\ \A e \in Deployment : e # d /\ e \notin replaced => deployment'[e] = deployment[e]
              /\ \A r \in Route : r = admin[a].route => Live(r)' = (Live(r) \ replaced) \cup {d}
<1>1. Typed /\ ReleaseOK(a) /\ admin[a] \in AdminState
  BY Split DEF Safe, Typed
<1> DEFINE new == [status |-> status, route |-> admin[a].route, model |-> admin[a].model,
                   percent |-> admin[a].percent]
           old(e) == [deployment[e] EXCEPT !.status = newStatus]
<1>2. PICK d \in Deployment :
          /\ deployment[d].status = "ABSENT"
          /\ deployment' = [e \in Deployment |-> CASE e = d -> new
                                                   [] e \in replaced -> old(e)
                                                   [] OTHER -> deployment[e]]
  BY DEF Released
<1>3. \A r : d \notin Live(r)
  BY <1>2 DEF Live, LiveStatuses
<1>4. replaced \subseteq Live(admin[a].route) /\ d \notin replaced
  BY <1>1, <1>3 DEF ReleaseOK
<1>5. ASSUME NEW e \in Deployment
      PROVE  /\ old(e).status = newStatus /\ old(e).percent = deployment[e].percent
             /\ old(e).route = deployment[e].route
  BY <1>1 DEF Typed, DeploymentState
<1>6. ASSUME NEW e \in Deployment
      PROVE  /\ e = d => deployment'[e] = new
             /\ e \in replaced => deployment'[e] = old(e)
             /\ e # d /\ e \notin replaced => deployment'[e] = deployment[e]
  <2> HIDE DEF new, old
  <2> QED BY <1>2, <1>4
<1>7. /\ new.status = status /\ new.percent = admin[a].percent /\ new.route = admin[a].route
  OBVIOUS
<1> HIDE DEF new, old
<1>8. ASSUME NEW r \in Route, r = admin[a].route, NEW e \in Deployment
      PROVE  e \in Live(r)' <=> e \in (Live(r) \ replaced) \cup {d}
  <2>1. CASE e = d
    BY <1>6, <1>7, <1>8, <2>1 DEF Live
  <2>2. CASE e \in replaced
    BY <1>4, <1>5, <1>6, <2>2 DEF Live, LiveStatuses
  <2>3. CASE e # d /\ e \notin replaced
    BY <1>6, <2>3 DEF Live
  <2> QED BY <2>1, <2>2, <2>3
<1>9. \A r : Live(r)' \subseteq Deployment /\ Live(r) \subseteq Deployment
  BY DEF Live
<1>10. \A r \in Route : r = admin[a].route => Live(r)' = (Live(r) \ replaced) \cup {d}
  BY <1>8, <1>9
<1>11. \A e \in Deployment : e # d => deployment'[e].percent = deployment[e].percent
  BY <1>5, <1>6
<1> QED BY <1>3, <1>6, <1>7, <1>10, <1>11
(* A step that writes no deployment and lets one request go on.            *)
LEMMA QuietFits ==
    ASSUME CapacityInv, UNCHANGED deployment, NEW a \in Admin, ReleaseFits(a)',
           \A b \in Admin : b # a => admin'[b] = admin[b]
    PROVE  FullIsAlone' /\ ReleasesFit' /\ TrafficFits'
<1>1. IInv /\ Safe /\ FullIsAlone /\ TrafficFits /\ \A b \in Admin : ReleaseFits(b)
  BY Split DEF CapacityInv, ReleasesFit, ReleaseFits
<1>2. \A r : Live(r)' = Live(r)
  BY DEF Live
<1>3. ASSUME NEW b \in Admin, b # a PROVE ReleaseFits(b)'
  BY <1>1, <1>2, <1>3, OtherFits DEF Safe
<1>4. ReleasesFit'
  BY <1>3 DEF ReleasesFit, ReleaseFits
<1> QED BY <1>1, <1>4, RoutesStay

(* A release has the whole route and replaces what was there, or joins it  *)
(* within its capacity.                                                    *)
LEMMA ReleaseFitsRoute ==
    ASSUME CapacityInv, IInv', NEW a \in Admin, NEW status \in LiveStatuses,
           NEW replaced \in SUBSET admin[a].seen,
           NEW newStatus \in {"SUPERSEDED", "ROLLED_BACK"}, Releasing(a),
           Released(a, status, replaced, newStatus),
           \/ status = "ACTIVE" /\ replaced = admin[a].seen /\ admin[a].percent = 100
           \/ /\ status = "CANARY" /\ replaced = {} /\ admin[a].percent # 0
              /\ Fits(admin[a].seen, admin[a].percent)
    PROVE  FullIsAlone' /\ ReleasesFit' /\ TrafficFits'
<1>1. /\ IInv /\ Typed /\ Typed' /\ Safe /\ FullIsAlone /\ TrafficFits
      /\ \A b \in Admin : ReleaseFits(b) /\ ReleaseOK(b)
  BY Split, SplitNext DEF CapacityInv, Safe, ReleasesFit, ReleaseFits
<1>2. PICK d \in Deployment :
          /\ \A r : d \notin Live(r)
          /\ deployment'[d].status = status /\ deployment'[d].percent = admin[a].percent
          /\ \A e \in Deployment : e # d => deployment'[e].percent = deployment[e].percent
          /\ \A e \in Deployment : e # d /\ e \notin replaced => deployment'[e] = deployment[e]
          /\ \A r \in Route : r = admin[a].route => Live(r)' = (Live(r) \ replaced) \cup {d}
  BY <1>1, ReleaseIs
<1>3. PICK route \in Route : route = admin[a].route
  BY <1>1 DEF ReleaseOK
<1>4. admin[a].seen = Live(route) /\ Live(route)' = (Live(route) \ replaced) \cup {d}
      /\ admin[a].percent \in 0..100 /\ anchor[route] = a
  BY <1>1, <1>2, <1>3 DEF ReleaseOK, Typed, AdminState
<1>5. ASSUME NEW r \in Route, r # route
      PROVE  /\ Live(r)' = Live(r)
             /\ \A e \in Live(r) : deployment'[e].percent = deployment[e].percent
  <2>1. Live(r)' = Live(r)
    BY <1>1, <1>3, <1>5, ReleaseWrites
  <2> QED BY <1>2, <2>1 DEF Live
<1>6. /\ Traffic(Live(route))' <= 100
      /\ \A e \in Live(route)' : deployment'[e].status = "ACTIVE" =>
            Live(route)' = {e} /\ deployment'[e].percent = 100
  <2>1. CASE status = "ACTIVE" /\ replaced = admin[a].seen /\ admin[a].percent = 100
    <3>1. Live(route)' = {d}
      BY <1>4, <2>1
    <3>2. Traffic(Live(route))' = deployment'[d].percent
      BY <1>1, <3>1, TrafficAlone
    <3> QED BY <1>2, <2>1, <3>1, <3>2
  <2>2. CASE /\ status = "CANARY" /\ replaced = {} /\ admin[a].percent # 0
             /\ Fits(admin[a].seen, admin[a].percent)
    <3>1. Live(route)' = Live(route) \cup {d} /\ d \notin Live(route)
      BY <1>2, <1>4, <2>2
    <3>2. Traffic(Live(route))' = Traffic(Live(route)) + admin[a].percent
      BY <1>1, <1>2, <3>1, TrafficGrows
    <3>3. Traffic(Live(route)) + admin[a].percent <= 100
      BY <1>4, <2>2 DEF Fits
    <3>4. ASSUME NEW e \in Live(route) PROVE deployment'[e].status # "ACTIVE"
      <4>1. SUFFICES ASSUME deployment'[e].status = "ACTIVE" PROVE FALSE
        OBVIOUS
      <4>2. e # d /\ e \in Deployment /\ e \in Live(route)'
        BY <3>1 DEF Live
      <4>3. deployment[e].status = "ACTIVE"
        BY <1>2, <2>2, <4>1, <4>2
      <4>4. Live(route) = {e} /\ deployment[e].percent = 100
        BY <1>1, <4>3 DEF FullIsAlone
      <4>5. Traffic(Live(route)) = 100
        BY <1>1, <4>2, <4>4, TrafficOfAlone
      <4> QED BY <1>4, <2>2, <3>3, <4>5
    <3> QED BY <1>2, <2>2, <3>1, <3>2, <3>3, <3>4
  <2> QED BY <2>1, <2>2
<1>7. FullIsAlone' /\ TrafficFits'
  <2>1. \A r \in Route : r # route => Traffic(Live(r))' = Traffic(Live(r))
    BY <1>5, TrafficStays
  <2>2. ASSUME NEW r \in Route
        PROVE  /\ Traffic(Live(r))' <= 100
               /\ \A e \in Live(r)' : deployment'[e].status = "ACTIVE" =>
                     Live(r)' = {e} /\ deployment'[e].percent = 100
    <3>1. CASE r = route
      BY <1>6, <3>1
    <3>2. CASE r # route
      <4>1. Live(r)' = Live(r) /\ \A e \in Live(r) : deployment'[e] = deployment[e]
        <5>1. Live(r)' = Live(r)
          BY <1>5, <3>2
        <5>2. \A e \in Live(r) : e # d /\ e \notin replaced /\ e \in Deployment
          BY <1>2, <1>3, <1>4, <3>2 DEF Live
        <5> QED BY <1>2, <5>1, <5>2
      <4> QED BY <1>1, <2>1, <3>2, <4>1 DEF FullIsAlone, TrafficFits
    <3> QED BY <3>1, <3>2
  <2> QED BY <2>2 DEF FullIsAlone, TrafficFits
<1>8. ReleasesFit'
  <2>1. admin' = [admin EXCEPT ![a] = IdleAdmin]
    BY DEF Released, Ends
  <2>2. admin'[a] = IdleAdmin /\ \A b \in Admin : b # a => admin'[b] = admin[b]
    BY <1>1, <2>1, IdleAdminState, AdminMoves
  <2>3. ReleaseFits(a)'
    BY <2>2, IdleAdminState DEF ReleaseFits
  <2>4. ASSUME NEW b \in Admin, b # a PROVE ReleaseFits(b)'
    <3>1. \A r \in Route : Releasing(b) /\ r = admin[b].route => r # route
      BY <1>1, <1>4, <2>4 DEF ReleaseOK
    <3> QED BY <1>1, <1>5, <2>2, <2>4, <3>1, OtherFits
  <2> QED BY <2>3, <2>4 DEF ReleasesFit, ReleaseFits
<1> QED BY <1>7, <1>8

LEMMA NextCapacity ==
    ASSUME CapacityInv, IInv', [Next]_vars
    PROVE  FullIsAlone' /\ ReleasesFit' /\ TrafficFits'
<1>1. IInv /\ Typed /\ \A b \in Admin : ReleaseFits(b) /\ admin[b] \in AdminState
  BY Split DEF CapacityInv, ReleasesFit, ReleaseFits, Typed
<1>2. ASSUME UNCHANGED <<deployment, admin>> PROVE FullIsAlone' /\ ReleasesFit' /\ TrafficFits'
  <2>1. FullIsAlone' /\ TrafficFits'
    BY <1>2, RoutesStay DEF CapacityInv
  <2>2. ReleasesFit'
    BY <1>2 DEF CapacityInv, ReleasesFit, Fits, Traffic
  <2> QED BY <2>1, <2>2
<1>3. ASSUME NEW a \in Admin, NEW new \in AdminState, admin' = [admin EXCEPT ![a] = new],
             UNCHANGED deployment, new.pc \notin {"deploy", "restore"}
      PROVE  FullIsAlone' /\ ReleasesFit' /\ TrafficFits'
  <2>1. admin'[a] = new /\ \A b \in Admin : b # a => admin'[b] = admin[b]
    BY <1>1, <1>3, AdminMoves
  <2>2. ReleaseFits(a)'
    BY <1>3, <2>1 DEF ReleaseFits
  <2> QED BY <1>3, <2>1, <2>2, QuietFits
<1>4. CASE CreatePromptVersion \/ UNCHANGED vars
  BY <1>2, <1>4 DEF CreatePromptVersion, vars
<1>5. CASE \E m \in Model : RegisterModel(m) \/ \E status \in ModelStatus : TransitionModel(m, status)
  BY <1>2, <1>5 DEF RegisterModel, TransitionModel
<1>6. ASSUME NEW a \in Admin, NEW v \in PromptNo, PublishPrompt(a, v) \/ RollbackPrompt(a, v)
      PROVE  FullIsAlone' /\ ReleasesFit' /\ TrafficFits'
  <2>1. UNCHANGED deployment /\ admin'[a].pc \in {"publish", "rollback"}
        /\ \A b \in Admin : b # a => admin'[b] = admin[b]
    BY <1>1, <1>6 DEF Typed, AdminState, PublishPrompt, RollbackPrompt
  <2>2. ReleaseFits(a)'
    BY <2>1 DEF ReleaseFits
  <2> QED BY <2>1, <2>2, QuietFits
<1>7. ASSUME NEW a \in Admin, RollbackLocks(a)
      PROVE  FullIsAlone' /\ ReleasesFit' /\ TrafficFits'
  <2>1. UNCHANGED deployment /\ admin'[a].pc = "republish"
        /\ \A b \in Admin : b # a => admin'[b] = admin[b]
    BY <1>1, <1>7 DEF Typed, AdminState, RollbackLocks
  <2>2. ReleaseFits(a)'
    BY <2>1 DEF ReleaseFits
  <2> QED BY <2>1, <2>2, QuietFits
<1>8. ASSUME NEW a \in Admin, CommitPublish(a) \/ CommitRollback(a)
      PROVE  FullIsAlone' /\ ReleasesFit' /\ TrafficFits'
  BY <1>3, <1>8, IdleAdminState DEF CommitPublish, CommitRollback, Ends
<1>9. ASSUME NEW a \in Admin, NEW r \in Route, NEW m \in Model,
             RollbackModel(a, r, m) \/ \E percent \in Percent : DeployModel(a, r, m, percent)
      PROVE  FullIsAlone' /\ ReleasesFit' /\ TrafficFits'
  <2>1. /\ UNCHANGED deployment /\ admin'[a].seen = Live(r)
        /\ \A b \in Admin : b # a => admin'[b] = admin[b]
        /\ \/ admin'[a].pc = "restore" /\ admin'[a].percent = 100
           \/ \E percent \in Percent :
                 /\ admin'[a].pc = "deploy" /\ admin'[a].percent = percent
                 /\ percent = 100 \/ Fits(Live(r), percent)
    BY <1>1, <1>9 DEF Typed, AdminState, RollbackModel, DeployModel, LockRoute
  <2>2. \A percent \in Percent : percent # 0
    BY GovernanceAssumption
  <2>3. Traffic(admin[a].seen)' = Traffic(Live(r))
    BY <2>1 DEF Traffic
  <2>4. ReleaseFits(a)'
    BY <2>1, <2>2, <2>3 DEF ReleaseFits, Fits
  <2> QED BY <2>1, <2>4, QuietFits
<1>10. ASSUME NEW a \in Admin, CommitDeploy(a) \/ CommitRestore(a)
      PROVE  FullIsAlone' /\ ReleasesFit' /\ TrafficFits'
  <2>1. Releasing(a) /\ ReleaseFits(a) /\ {} \in SUBSET admin[a].seen
    BY <1>1, <1>10 DEF CommitDeploy, CommitRestore, Releasing
  <2>2. CASE CommitDeploy(a) /\ admin[a].percent = 100
    BY <2>1, <2>2, ReleaseFitsRoute DEF CommitDeploy, LiveStatuses
  <2>3. CASE CommitDeploy(a) /\ admin[a].percent # 100
    <3>1. admin[a].percent # 0 /\ Fits(admin[a].seen, admin[a].percent)
      BY <2>1, <2>3 DEF CommitDeploy, ReleaseFits
    <3> QED BY <2>1, <2>3, <3>1, ReleaseFitsRoute DEF CommitDeploy, LiveStatuses
  <2>4. CASE CommitRestore(a)
    <3>1. admin[a].percent = 100
      BY <2>1, <2>4 DEF CommitRestore, ReleaseFits
    <3> QED BY <2>1, <2>4, <3>1, ReleaseFitsRoute DEF CommitRestore, LiveStatuses
  <2> QED BY <1>10, <2>2, <2>3, <2>4
<1> QED BY <1>4, <1>5, <1>6, <1>7, <1>8, <1>9, <1>10 DEF Next

(* Every route keeps room for what is about to start on it, and a full     *)
(* release is alone on its route.                                          *)
THEOREM CapacityInvariance == Spec => []CapacityInv
<1>1. Init => CapacityInv
  <2> SUFFICES ASSUME Init PROVE CapacityInv
    OBVIOUS
  <2>1. \A r : Live(r) = {}
    BY DEF Init, Live, AbsentDeployment, LiveStatuses
  <2>2. FullIsAlone /\ ReleasesFit
    BY <2>1, IdleAdminState DEF Init, FullIsAlone, ReleasesFit
  <2>3. TrafficFits
    <3>1. \A r : \A d \in Deployment : ShareOf(Live(r))[d] = 0
      BY <2>1 DEF ShareOf
    <3> QED BY <3>1, TotalOfNone, TrafficIs DEF TrafficFits
  <2> QED BY <2>2, <2>3, InitIInv DEF CapacityInv
<1>2. CapacityInv /\ [Next]_vars => CapacityInv'
  BY NextCapacity, NextIInv DEF CapacityInv
<1> QED BY <1>1, <1>2, PTL DEF Spec

(* The shares of a route's live deployments add up to 100 at most, for any *)
(* administrators, routes and shares.                                      *)
THEOREM TrafficAlwaysFits == Spec => []TrafficFits
<1>1. CapacityInv => TrafficFits
  BY DEF CapacityInv
<1> QED BY <1>1, CapacityInvariance, PTL

(* While a full release or a rollback is the last one, every request of    *)
(* its route goes to it.                                                   *)
THEOREM FullReleaseTakesAll == Spec => []ActiveTakesAll
<1>1. CapacityInv => ActiveTakesAll
  <2> SUFFICES ASSUME CapacityInv, NEW r \in Route, NEW d \in Live(r), deployment[d].status = "ACTIVE",
                      NEW b \in Bucket
               PROVE  Resolve(r, b) = d
    BY DEF ActiveTakesAll
  <2>1. Live(r) = {d} /\ d \in Nat
    BY Bound DEF CapacityInv, FullIsAlone, Live
  <2> DEFINE canary == {e \in Live(r) : deployment[e].status = "CANARY"}
             active == {e \in Live(r) : deployment[e].status = "ACTIVE"}
  <2>2. canary = {} /\ active = {d}
    BY <2>1
  <2>3. Max(active) = d
    BY <2>1, <2>2 DEF Max
  <2>4. Resolve(r, b) = Max(active)
    <3> HIDE DEF canary, active
    <3>1. Resolve(r, b) =
            CASE canary # {} /\ active # {} ->
                   IF b < deployment[Max(canary)].percent THEN Max(canary) ELSE Max(active)
              [] canary # {} /\ active = {} -> Max(canary)
              [] canary = {} /\ active # {} -> Max(active)
              [] OTHER -> 0
      BY Zenon DEF Resolve, canary, active
    <3> QED BY <2>2, <3>1
  <2> QED BY <2>3, <2>4
<1> QED BY <1>1, CapacityInvariance, PTL
=============================================================================
