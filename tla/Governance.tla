----------------------------- MODULE Governance -----------------------------
(***************************************************************************)
(* Prompt versions of one definition, model versions, and the deployments  *)
(* that route requests to models (repositories/governance.py,              *)
(* application/governance.py, application/model_routing.py).               *)
(*                                                                         *)
(* A publication or a release is one transaction, in two steps here: it    *)
(* takes its lock anchor (the prompt definition or the route row) and      *)
(* reads, then it writes and commits.  Prompt versions are their version   *)
(* numbers and deployments are numbered by created_at.                     *)
(***************************************************************************)
EXTENDS Naturals, FiniteSetsExt

CONSTANTS
    Admin,           \* concurrent requests of administrators
    Model,           \* model versions
    Route,           \* pairs of scene and environment
    Percent,         \* traffic shares that are asked for
    Bucket,          \* hash buckets of routing keys
    NoOne,
    MaxPrompts,      \* bound: versions of the prompt
    MaxDeployments   \* bound: deployments

Definition == "prompt definition"

ASSUME GovernanceAssumption ==
    /\ NoOne \notin Admin \cup Model \cup Route
    /\ Definition \notin Route
    /\ Percent \subseteq 1..100
    /\ Bucket \subseteq 0..99
    /\ MaxPrompts \in Nat /\ MaxDeployments \in Nat

PromptNo == 1..MaxPrompts
Deployment == 1..MaxDeployments

VARIABLES
    prompt,      \* prompt_versions by version_no
    model,       \* status of each model version
    deployment,  \* model_deployments in the order of their creation
    admin,       \* the transaction each request has open
    anchor       \* who holds the lock on the prompt definition and on each route

vars == <<prompt, model, deployment, admin, anchor>>

ModelStatus == {"REGISTERED", "EVALUATED", "APPROVED", "REJECTED", "ARCHIVED"}
LiveStatuses == {"ACTIVE", "CANARY"}

AbsentPrompt == [status |-> "ABSENT", content |-> 0]
AbsentDeployment == [status |-> "ABSENT", route |-> NoOne, model |-> NoOne, percent |-> 0]
IdleAdmin == [pc |-> "idle", target |-> 0, next |-> 0, seen |-> {},
              route |-> NoOne, model |-> NoOne, percent |-> 0]

TypeOK ==
    /\ prompt \in [PromptNo -> [status : {"ABSENT", "DRAFT", "PUBLISHED", "ARCHIVED"},
                                content : 0..MaxPrompts]]
    /\ model \in [Model -> ModelStatus \cup {"ABSENT"}]
    /\ deployment \in [Deployment ->
           [status : LiveStatuses \cup {"ABSENT", "SUPERSEDED", "ROLLED_BACK"},
            route : Route \cup {NoOne}, model : Model \cup {NoOne}, percent : 0..100]]
    /\ admin \in [Admin ->
           [pc : {"idle", "rollback", "publish", "republish", "deploy", "restore"},
            target : 0..MaxPrompts, next : 0..MaxPrompts,
            seen : SUBSET (PromptNo \cup Deployment),
            route : Route \cup {NoOne}, model : Model \cup {NoOne}, percent : 0..100]]
    /\ anchor \in [{Definition} \cup Route -> Admin \cup {NoOne}]

Init ==
    /\ prompt = [v \in PromptNo |-> AbsentPrompt]
    /\ model = [m \in Model |-> "ABSENT"]
    /\ deployment = [d \in Deployment |-> AbsentDeployment]
    /\ admin = [a \in Admin |-> IdleAdmin]
    /\ anchor = [x \in {Definition} \cup Route |-> NoOne]

(* max(version_no) + 1: versions are never deleted.                        *)
NextNo(v) == prompt[v].status = "ABSENT" /\ \A w \in 1..(v - 1) : prompt[w].status # "ABSENT"
Published == {v \in PromptNo : prompt[v].status = "PUBLISHED"}

Free(x) == anchor[x] = NoOne
Ends(a) == admin' = [admin EXCEPT ![a] = IdleAdmin]

-----------------------------------------------------------------------------
(* Prompts.                                                                *)

(* create_prompt, create_prompt_version: the number is read under the lock *)
(* and the row inserted in the same transaction.                           *)
CreatePromptVersion ==
    /\ Free(Definition)
    /\ \E v \in PromptNo :
          NextNo(v) /\ prompt' = [prompt EXCEPT ![v] = [status |-> "DRAFT", content |-> v]]
    /\ UNCHANGED <<model, deployment, admin, anchor>>

(* Variant: the definition is not locked.                                  *)
PublishUnlocked(a, v) ==
    /\ admin[a].pc = "idle"
    /\ prompt[v].status = "DRAFT"
    /\ admin' = [admin EXCEPT ![a].pc = "publish", ![a].target = v, ![a].seen = Published]
    /\ UNCHANGED <<prompt, model, deployment, anchor>>

(* The target must be a DRAFT; the published versions are read.            *)
PublishPrompt(a, v) ==
    /\ admin[a].pc = "idle"
    /\ Free(Definition)
    /\ prompt[v].status = "DRAFT"
    /\ anchor' = [anchor EXCEPT ![Definition] = a]
    /\ admin' = [admin EXCEPT ![a].pc = "publish", ![a].target = v, ![a].seen = Published]
    /\ UNCHANGED <<prompt, model, deployment>>

Archived(seen) ==
    [v \in PromptNo |-> IF v \in seen THEN [prompt[v] EXCEPT !.status = "ARCHIVED"]
                                      ELSE prompt[v]]

CommitPublish(a) ==
    /\ admin[a].pc = "publish"
    /\ prompt' = [Archived(admin[a].seen) EXCEPT ![admin[a].target].status = "PUBLISHED"]
    /\ anchor' = [anchor EXCEPT ![Definition] = NoOne]
    /\ Ends(a)
    /\ UNCHANGED <<model, deployment>>

(* rollback_prompt reads the target's definition without a lock, and so    *)
(* fixes the snapshot from which it will read max(version_no).             *)
RollbackPrompt(a, v) ==
    /\ admin[a].pc = "idle"
    /\ prompt[v].status # "ABSENT"
    /\ \E next \in PromptNo :
          /\ NextNo(next)
          /\ admin' = [admin EXCEPT ![a].pc = "rollback", ![a].target = v, ![a].next = next]
    /\ UNCHANGED <<prompt, model, deployment, anchor>>

(* The definition is locked, the published versions are read as they are.  *)
RollbackLocks(a) ==
    /\ admin[a].pc = "rollback"
    /\ Free(Definition)
    /\ anchor' = [anchor EXCEPT ![Definition] = a]
    /\ admin' = [admin EXCEPT ![a].pc = "republish", ![a].seen = Published]
    /\ UNCHANGED <<prompt, model, deployment>>

(* Variant: a number that is taken is written over.                        *)
RepublishOver(a) ==
    /\ admin[a].pc = "republish"
    /\ prompt' = [Archived(admin[a].seen) EXCEPT
                    ![admin[a].next] =
                       [status |-> "PUBLISHED", content |-> prompt[admin[a].target].content]]
    /\ anchor' = [anchor EXCEPT ![Definition] = NoOne]
    /\ Ends(a)
    /\ UNCHANGED <<model, deployment>>

(* The content is published under the next number of the snapshot; when    *)
(* that number was taken meanwhile uq_prompt_versions_definition_version   *)
(* refuses the transaction.                                                *)
CommitRollback(a) ==
    /\ admin[a].pc = "republish"
    /\ prompt' = IF prompt[admin[a].next].status = "ABSENT"
                 THEN [Archived(admin[a].seen) EXCEPT
                         ![admin[a].next] =
                            [status |-> "PUBLISHED", content |-> prompt[admin[a].target].content]]
                 ELSE prompt
    /\ anchor' = [anchor EXCEPT ![Definition] = NoOne]
    /\ Ends(a)
    /\ UNCHANGED <<model, deployment>>

-----------------------------------------------------------------------------
(* Models and their deployments.                                           *)

ModelTransitions ==
    {<<"REGISTERED", "EVALUATED">>, <<"REGISTERED", "ARCHIVED">>,
     <<"EVALUATED", "APPROVED">>, <<"EVALUATED", "REJECTED">>, <<"EVALUATED", "ARCHIVED">>,
     <<"APPROVED", "ARCHIVED">>, <<"REJECTED", "ARCHIVED">>}

RegisterModel(m) ==
    /\ model[m] = "ABSENT"
    /\ model' = [model EXCEPT ![m] = "REGISTERED"]
    /\ UNCHANGED <<prompt, deployment, admin, anchor>>

(* Variant: the row is not locked against a release under way.             *)
TransitionAnyTime(m, status) ==
    /\ <<model[m], status>> \in ModelTransitions
    /\ model' = [model EXCEPT ![m] = status]
    /\ UNCHANGED <<prompt, deployment, admin, anchor>>

(* A release holds the version's row lock until it commits.                *)
TransitionModel(m, status) ==
    /\ \A a \in Admin : admin[a].model # m
    /\ <<model[m], status>> \in ModelTransitions
    /\ model' = [model EXCEPT ![m] = status]
    /\ UNCHANGED <<prompt, deployment, admin, anchor>>

Live(r) == {d \in Deployment : deployment[d].route = r /\ deployment[d].status \in LiveStatuses}
Total(share) ==
    LET sum[d \in 0..MaxDeployments] == IF d = 0 THEN 0 ELSE sum[d - 1] + share[d]
    IN sum[MaxDeployments]
Traffic(D) == Total([d \in Deployment |-> IF d \in D THEN deployment[d].percent ELSE 0])

(* The route and the version are locked and read; then the live            *)
(* deployments are.                                                        *)
LockRoute(a, pc, r, m, percent) ==
    /\ admin[a].pc = "idle"
    /\ Free(r)
    /\ \A b \in Admin : admin[b].model # m
    /\ model[m] = "APPROVED"
    /\ anchor' = [anchor EXCEPT ![r] = a]
    /\ admin' = [admin EXCEPT ![a].pc = pc, ![a].seen = Live(r), ![a].route = r,
                              ![a].model = m, ![a].percent = percent]
    /\ UNCHANGED <<prompt, model, deployment>>

(* Variant: the capacity is not asked for.                                 *)
FitsAlways(seen, percent) == TRUE

(* validate_canary_capacity *)
Fits(seen, percent) == Traffic(seen) + percent <= 100

DeployModel(a, r, m, percent) ==
    /\ percent = 100 \/ Fits(Live(r), percent)
    /\ LockRoute(a, "deploy", r, m, percent)

(* The model must have been released on this route before.                 *)
RollbackModel(a, r, m) ==
    /\ \E d \in Deployment : deployment[d].route = r /\ deployment[d].model = m
    /\ LockRoute(a, "restore", r, m, 100)

(* Adds the deployment and gives those it replaces their new status.       *)
Released(a, status, replaced, newStatus) ==
    \E d \in Deployment :
        /\ deployment[d].status = "ABSENT"
        /\ \A e \in Deployment : e < d => deployment[e].status # "ABSENT"
        /\ deployment' = [e \in Deployment |->
             CASE e = d -> [status |-> status, route |-> admin[a].route,
                            model |-> admin[a].model, percent |-> admin[a].percent]
               [] e \in replaced -> [deployment[e] EXCEPT !.status = newStatus]
               [] OTHER -> deployment[e]]
        /\ anchor' = [anchor EXCEPT ![admin[a].route] = NoOne]
        /\ Ends(a)
        /\ UNCHANGED <<prompt, model>>

CommitDeploy(a) ==
    /\ admin[a].pc = "deploy"
    /\ IF admin[a].percent = 100
       THEN Released(a, "ACTIVE", admin[a].seen, "SUPERSEDED")
       ELSE Released(a, "CANARY", {}, "SUPERSEDED")

(* Variant: the canaries keep running.                                     *)
RestoreBesideCanaries(a) ==
    /\ admin[a].pc = "restore"
    /\ Released(a, "ACTIVE", {d \in admin[a].seen : deployment[d].status = "ACTIVE"}, "ROLLED_BACK")

CommitRestore(a) ==
    /\ admin[a].pc = "restore"
    /\ Released(a, "ACTIVE", admin[a].seen, "ROLLED_BACK")

(* ModelRouter.resolve: the newest ACTIVE and the newest CANARY.           *)
Resolve(r, bucket) ==
    LET canary == {d \in Live(r) : deployment[d].status = "CANARY"}
        active == {d \in Live(r) : deployment[d].status = "ACTIVE"}
    IN CASE canary # {} /\ active # {} ->
              IF bucket < deployment[Max(canary)].percent THEN Max(canary) ELSE Max(active)
         [] canary # {} /\ active = {} -> Max(canary)
         [] canary = {} /\ active # {} -> Max(active)
         [] OTHER -> 0

-----------------------------------------------------------------------------

Next ==
    \/ CreatePromptVersion
    \/ \E a \in Admin :
          \/ \E v \in PromptNo : PublishPrompt(a, v) \/ RollbackPrompt(a, v)
          \/ CommitPublish(a) \/ RollbackLocks(a) \/ CommitRollback(a)
          \/ \E r \in Route, m \in Model :
                RollbackModel(a, r, m) \/ \E percent \in Percent : DeployModel(a, r, m, percent)
          \/ CommitDeploy(a) \/ CommitRestore(a)
    \/ \E m \in Model :
          RegisterModel(m) \/ \E status \in ModelStatus : TransitionModel(m, status)

Spec == Init /\ [][Next]_vars

-----------------------------------------------------------------------------
(* Properties.                                                             *)

(* Whoever publishes or rolls back at the same time, at most one version   *)
(* of a prompt is in use (publish_prompt, rollback_prompt).                *)
OnePublished == \A v, w \in Published : v = w

(* "Without mutating history": a version keeps its content, an archived    *)
(* one stays archived, and a new one gets a number of its own              *)
(* (rollback_prompt, _protect_prompt_version).                             *)
HistoryIsKept ==
    [][\A v \in PromptNo : prompt[v].status # "ABSENT" =>
          /\ prompt'[v].content = prompt[v].content
          /\ prompt[v].status = "ARCHIVED" => prompt'[v] = prompt[v]]_vars

(* The traffic that live deployments of a route ask for adds up to 100 at  *)
(* most, also when two administrators release at the same time             *)
(* (deploy_model, rollback_model).                                         *)
TrafficFits == \A r \in Route : Traffic(Live(r)) <= 100

(* A full release or a rollback takes every request of its route until the *)
(* next release: no canary that is left behind gets any (rollback_model,   *)
(* ModelRouter.resolve).                                                   *)
ActiveTakesAll ==
    \A r \in Route : \A d \in Live(r) :
        deployment[d].status = "ACTIVE" => \A b \in Bucket : Resolve(r, b) = d

(* What is released was approved when it went live, whoever archived it in *)
(* the meantime (deploy_model, transition_model).                          *)
ReleasedIsApproved ==
    [][\A d \in Deployment : deployment[d].status = "ABSENT" /\ deployment'[d].status # "ABSENT"
          => model[deployment'[d].model] = "APPROVED"]_vars

(* Why the first two and the last property hold: whoever publishes or      *)
(* releases holds its anchor, and what it read under it is still so when   *)
(* it commits.                                                             *)
Publishing(a) == admin[a].pc \in {"publish", "republish"}
Releasing(a) == admin[a].pc \in {"deploy", "restore"}

PublishersHoldTheDefinition ==
    \A a \in Admin :
        /\ Publishing(a) => anchor[Definition] = a /\ admin[a].seen = Published
        /\ admin[a].pc = "publish" =>
              admin[a].target \in PromptNo /\ prompt[admin[a].target].status = "DRAFT"
        /\ admin[a].pc \in {"rollback", "republish"} =>
              admin[a].target \in PromptNo /\ admin[a].next \in PromptNo

ReleasesHoldTheirRoute ==
    \A a \in Admin : Releasing(a) =>
        /\ admin[a].route \in Route /\ anchor[admin[a].route] = a
        /\ admin[a].seen = Live(admin[a].route)
        /\ admin[a].model \in Model /\ model[admin[a].model] = "APPROVED"

IInv == TypeOK /\ PublishersHoldTheDefinition /\ ReleasesHoldTheirRoute /\ OnePublished

(* Why the traffic fits: a full release is alone on its route and has all  *)
(* of it, and a canary that is about to start found room for its share.    *)
FullIsAlone ==
    \A r \in Route : \A d \in Live(r) : deployment[d].status = "ACTIVE" =>
        Live(r) = {d} /\ deployment[d].percent = 100

ReleasesFit ==
    \A a \in Admin :
        /\ admin[a].pc = "restore" => admin[a].percent = 100
        /\ admin[a].pc = "deploy" /\ admin[a].percent # 100 =>
              admin[a].percent # 0 /\ Fits(admin[a].seen, admin[a].percent)

CapacityInv == IInv /\ FullIsAlone /\ ReleasesFit /\ TrafficFits
=============================================================================
