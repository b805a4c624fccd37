------------------------ MODULE PullRequestController ------------------------
(***************************************************************************)
(* The PullRequest controller of the manager                               *)
(* (internal/controller/pullrequest_controller.go and activity.go) and     *)
(* everything that acts on the review app of one PullRequest around it.    *)
(*                                                                         *)
(* Reconcile reads an informer cache that trails the API server, writes    *)
(* one object per step, and may be interleaved anywhere with the           *)
(* forwarders that renew Leases, the webhook that deploys and closes, the  *)
(* garbage collector, people with kubectl, the reconciliation of another   *)
(* review app whose names collide, and a crash of the manager.             *)
(*                                                                         *)
(* Two PullRequests of the same content stand for the same                 *)
(* resourceVersion: the API server does not write an update that changes   *)
(* nothing, and the generation tells the others apart.                     *)
(***************************************************************************)
EXTENDS Activity, Sequences, FiniteSets

CONSTANTS
    Deployment,   \* the names that deployments of the ReviewAppConfig may have
    Configs,      \* the specs that the ReviewAppConfig may have
    NoApp,        \* there is no ReviewAppConfig
    Image,        \* images that the webhook deploys
    NoImage,      \* the PullRequest sets no image: the one of the template
    Env,          \* values of the environment overrides
    NoEnv,        \* no overrides
    Forwarder,    \* renewals of Leases in flight
    Start,        \* the time at which the model starts
    Budgets       \* bounds: how often each event may happen, in each scenario

(* The events of a scenario that are bounded.  The last two tell what there *)
(* is when the manager starts: a review app that an earlier version of the  *)
(* operator made, or one that this version reconciled; otherwise none.      *)
Event == {"tick", "visit", "lost", "deploy", "create", "close", "edit", "override",
          "scale", "other", "fault", "crash", "upgraded", "reconciled"}

-----------------------------------------------------------------------------
(* Objects.                                                                *)

(* The controller reference of an object: the PullRequest by its UID, or   *)
(* the PullRequest of another review app.  Nobody is the owner of an       *)
(* object that does not exist.                                             *)
Nobody == 0
Other == -1
Owner == Int

DeploymentSpec ==
    [name: Deployment, scaleDownAfter: Nat, startOnDeploy: BOOLEAN,
     replicas: Nat, invalid: BOOLEAN]

AppSpec ==
    [deployments: Seq(DeploymentSpec), scaleDownAfter: Nat,
     startOnDeploy: BOOLEAN, deleteAfter: Nat, template: Nat]

Reason == {"", "Reconciled", "ReviewAppConfigNotFound", "InvalidHostTemplate",
           "NameConflict", "UnknownDeployment", "ReconcileFailed"}

Legacy == [lastActive: Nat, isActive: BOOLEAN]
NoLegacy == [lastActive |-> 0, isActive |-> FALSE]

(* uid 0 is no PullRequest, listed the deployments in .status.deployments, *)
(* legacy the activity that earlier versions recorded there.               *)
PullRequest ==
    [uid: Nat, gen: Nat, owned: BOOLEAN, createdAt: Nat, deployedAt: Nat,
     image: Image \cup {NoImage}, env: [Deployment -> Env \cup {NoEnv}],
     reason: Reason, observed: Nat, listed: SUBSET Deployment,
     legacy: [Deployment -> Legacy]]

NoPr ==
    [uid |-> 0, gen |-> 0, owned |-> FALSE, createdAt |-> 0, deployedAt |-> 0,
     image |-> NoImage, env |-> [d \in Deployment |-> NoEnv],
     reason |-> "", observed |-> 0, listed |-> {},
     legacy |-> [d \in Deployment |-> NoLegacy]]

Lease == [owner: Owner, renewTime: Nat, duration: Nat]
NoLease == [owner |-> Nobody, renewTime |-> 0, duration |-> 0]

(* scaled tells a Deployment that was scaled back by hand from what it was *)
(* before: the informers deliver both changes.                             *)
Workload ==
    [owner: Owner, replicas: Nat, image: Image \cup {NoImage},
     env: Env \cup {NoEnv}, template: Nat, scaled: Nat]
NoWorkload ==
    [owner |-> Nobody, replicas |-> 0, image |-> NoImage, env |-> NoEnv,
     template |-> 0, scaled |-> 0]

Specs(c) == {c.deployments[i] : i \in 1..Len(c.deployments)}
Names(c) == {c.deployments[i].name : i \in 1..Len(c.deployments)}
SpecOf(c, d) == CHOOSE s \in Specs(c) : s.name = d

scaleDownAfter(c, s) ==
    IF s.scaleDownAfter # 0 THEN s.scaleDownAfter ELSE c.scaleDownAfter

startOnDeploy(c, s) == s.startOnDeploy \/ c.startOnDeploy

unknownOverrides(c, p) == \E d \in Deployment \ Names(c) : p.env[d] # NoEnv

ASSUME ControllerAssumption ==
    /\ Configs \subseteq AppSpec
    /\ NoApp \notin Configs
    /\ Start \in Nat \ {0}
    /\ Budgets \subseteq [Event -> Nat]

(* The API server refuses a ReviewAppConfig that has two deployments of a   *)
(* name (the validation of .spec.deployments).                              *)
ASSUME NamesAssumption ==
    \A c \in Configs : \A i, j \in 1..Len(c.deployments) :
        c.deployments[i].name = c.deployments[j].name => i = j

-----------------------------------------------------------------------------
VARIABLES
    clock,        \* the time, the same everywhere

    (* the API server *)
    pr,           \* the PullRequest
    app,          \* the spec of its ReviewAppConfig
    lease,        \* the Lease of each deployment
    dep,          \* the Deployment of each deployment
    svc,          \* the owner of the Service of each deployment

    (* the informer cache of the manager *)
    cPr, cApp, cLease, cDep, cSvc,

    (* the workqueue *)
    queued,       \* the PullRequest is to be reconciled
    timer,        \* when it is to be reconciled again, 0 for never

    (* Reconcile *)
    pc,           \* what it does next
    r,            \* its local variables
    raced,        \* a visit since it last read the Leases from the API server

    (* the others *)
    renewal,      \* the renewals that the forwarders have sent
    deploying,    \* the deploy that the webhook has begun
    born,         \* how many PullRequests there have been
    left          \* how often each event may still happen

server == <<pr, app, lease, dep, svc>>
informer == <<cPr, cApp, cLease, cDep, cSvc>>
workqueue == <<queued, timer>>
local == <<pc, r, raced>>
others == <<renewal, deploying, born, left>>
vars == <<clock, server, informer, workqueue, local, others>>

Reconcile ==
    [pr: PullRequest, app: Configs \cup {NoApp}, sweep: SUBSET Deployment,
     i: Nat, now: Nat, lease: Lease, dep: Workload, done: SUBSET Deployment,
     activity: Nat, wait: Nat, err: Reason, fresh: PullRequest]

NotReconciling ==
    [pr |-> NoPr, app |-> NoApp, sweep |-> {}, i |-> 0, now |-> 0,
     lease |-> NoLease, dep |-> NoWorkload, done |-> {}, activity |-> 0,
     wait |-> 0, err |-> "", fresh |-> NoPr]

NoRenewal == [deployment |-> "", at |-> 0]
NoDeploy == [phase |-> "none", image |-> NoImage, at |-> 0]

TypeOK ==
    /\ clock \in Nat
    /\ pr \in PullRequest /\ cPr \in PullRequest
    /\ app \in Configs \cup {NoApp} /\ cApp \in Configs \cup {NoApp}
    /\ lease \in [Deployment -> Lease] /\ cLease \in [Deployment -> Lease]
    /\ dep \in [Deployment -> Workload] /\ cDep \in [Deployment -> Workload]
    /\ svc \in [Deployment -> Owner] /\ cSvc \in [Deployment -> Owner]
    /\ queued \in BOOLEAN /\ timer \in Nat
    /\ pc \in {"idle", "missing", "own", "list", "sweep", "lease",
               "deployment", "recheck", "patch", "service", "report",
               "inactive", "leases", "delete"}
    /\ r \in Reconcile
    /\ raced \in BOOLEAN
    /\ renewal \in [Forwarder -> [deployment: Deployment, at: Nat] \cup {NoRenewal}]
    /\ deploying \in [phase: {"none", "spec", "status"},
                      image: Image \cup {NoImage}, at: Nat]
    /\ born \in Nat
    /\ left \in [Event -> Nat]

-----------------------------------------------------------------------------
(* Initial states.                                                         *)

(* A review app that an earlier version made: it recorded the activity on  *)
(* the PullRequest and had no Leases.                                      *)
PrOf(c, l) ==
    [NoPr EXCEPT !.uid = 1, !.gen = 1, !.observed = 1, !.reason = "Reconciled",
                 !.owned = TRUE, !.createdAt = Truncate(Start), !.listed = Names(c),
                 !.legacy = l]

Recorded(c) ==
    {l \in [Deployment -> [lastActive: {0, Truncate(Start)}, isActive: BOOLEAN]] :
        /\ \A d \in Deployment : l[d].lastActive = 0 => l[d] = NoLegacy
        /\ \A d \in Deployment \ Names(c) : l[d] = NoLegacy
        /\ \A s \in Specs(c) : startOnDeploy(c, s) => l[s.name].isActive}

InitUpgraded ==
    \E l \in Recorded(app) :
        /\ pr = PrOf(app, l)
        /\ lease = [d \in Deployment |-> NoLease]
        /\ dep = [d \in Deployment |->
                    IF d \in Names(app)
                    THEN [NoWorkload EXCEPT !.owner = 1, !.template = app.template,
                                            !.replicas = IF l[d].isActive THEN 1 ELSE 0]
                    ELSE NoWorkload]

(* A review app that this version reconciled.  One that runs has a single   *)
(* replica, as if scaled by hand: fewer than the ReviewAppConfig starts.    *)
InitReconciled ==
    \E visited \in SUBSET Names(app) :
        LET renewTime(d) == IF d \in visited THEN Start ELSE 0
        IN /\ pr = PrOf(app, [d \in Deployment |-> NoLegacy])
           /\ lease = [d \in Deployment |->
                IF d \in Names(app)
                THEN [owner |-> 1, renewTime |-> renewTime(d),
                      duration |-> leaseDuration(scaleDownAfter(app, SpecOf(app, d)))]
                ELSE NoLease]
           /\ dep = [d \in Deployment |->
                IF d \in Names(app)
                THEN [NoWorkload EXCEPT !.owner = 1, !.template = app.template,
                        !.replicas =
                            IF d \in visited \/ startOnDeploy(app, SpecOf(app, d)) THEN 1 ELSE 0]
                ELSE NoWorkload]

(* No PullRequest yet.                                                     *)
InitNew ==
    /\ pr = NoPr
    /\ lease = [d \in Deployment |-> NoLease]
    /\ dep = [d \in Deployment |-> NoWorkload]

(* The manager starts: it fills its cache and reconciles everything.       *)
Init ==
    /\ clock = Start
    /\ app \in Configs \cup {NoApp}
    /\ left \in Budgets
    /\ \/ app # NoApp /\ left["upgraded"] # 0 /\ InitUpgraded
       \/ app # NoApp /\ left["reconciled"] # 0 /\ InitReconciled
       \/ (app = NoApp \/ left["upgraded"] + left["reconciled"] = 0) /\ InitNew
    /\ svc = [d \in Deployment |-> dep[d].owner]
    /\ born = pr.uid
    /\ cPr = pr /\ cApp = app /\ cLease = lease /\ cDep = dep /\ cSvc = svc
    /\ queued = TRUE /\ timer = 0
    /\ pc = "idle" /\ r = NotReconciling /\ raced = FALSE
    /\ renewal = [f \in Forwarder |-> NoRenewal]
    /\ deploying = NoDeploy

-----------------------------------------------------------------------------
(* Reconcile, one step for each call to the API server.  Done returns      *)
(* from it, after which the workqueue reconciles again in wait ticks, and  *)
(* Fail returns an error, after which it retries.                          *)

(* Mutant: every Reconcile asks for another.                               *)
DoneAndRequeue(wait) ==
    /\ pc' = "idle" /\ r' = NotReconciling /\ raced' = FALSE
    /\ queued' = TRUE
    /\ UNCHANGED timer

Done(wait) ==
    /\ pc' = "idle" /\ r' = NotReconciling /\ raced' = FALSE
    /\ timer' = IF wait = 0 THEN timer ELSE earliest(timer, clock + wait)
    /\ UNCHANGED queued

Fail ==
    /\ pc' = "idle" /\ r' = NotReconciling /\ raced' = FALSE
    /\ queued' = TRUE
    /\ UNCHANGED timer

Goto(label, locals) ==
    /\ pc' = label /\ r' = locals /\ raced' = FALSE
    /\ UNCHANGED workqueue

(* reconcileDeployment returns an error, which ends the loop and is        *)
(* recorded on the PullRequest.                                            *)
LoopError(reason) ==
    Goto("report", [r EXCEPT !.err = reason, !.lease = NoLease, !.dep = NoWorkload])

NextOrReport(locals) ==
    IF locals.i < Len(r.app.deployments)
    THEN Goto("lease", [locals EXCEPT !.i = @ + 1])
    ELSE Goto("report", locals)

deploymentSpec == r.app.deployments[r.i]
current == deploymentSpec.name

running ==
    runs(lastActive(r.lease, r.pr, startOnDeploy(r.app, deploymentSpec)),
         scaleDownAfter(r.app, deploymentSpec), r.now)

(* Mutant: whoever controls them.                                          *)
unlistedOfAnyone == {d \in Deployment \ Names(r.app) : cDep[d].owner # Nobody}

(* What the deployment list of the controller, which is indexed by the     *)
(* name of the controlling PullRequest, has that the spec doesn't.         *)
unlisted == {d \in Deployment \ Names(r.app) : cDep[d].owner \notin {Nobody, Other}}

Begin ==
    /\ pc = "idle" /\ queued
    /\ queued' = FALSE
    /\ IF cPr.uid = 0
       THEN pc' = "idle" /\ r' = r
       ELSE /\ r' = [NotReconciling EXCEPT !.pr = cPr, !.app = cApp]
            /\ pc' = IF cApp = NoApp THEN "missing"
                     ELSE IF cPr.owned THEN "list" ELSE "own"
    /\ UNCHANGED <<clock, server, informer, timer, raced, others>>

ReportMissing ==
    /\ pc = "missing"
    /\ IF pr.uid = 0
       THEN Fail /\ UNCHANGED pr
       ELSE /\ pr' = IF r.pr.reason = "ReviewAppConfigNotFound" /\ r.pr.observed = r.pr.gen
                     THEN pr
                     ELSE [pr EXCEPT !.reason = "ReviewAppConfigNotFound",
                                     !.observed = r.pr.gen]
            /\ Done(0)
    /\ UNCHANGED <<clock, app, lease, dep, svc, informer, others>>

(* Update has the resourceVersion that was read.                           *)
Own ==
    /\ pc = "own"
    /\ IF pr = r.pr
       THEN /\ pr' = [pr EXCEPT !.owned = TRUE]
            /\ Goto("list", [r EXCEPT !.pr = pr'])
       ELSE Fail /\ UNCHANGED pr
    /\ UNCHANGED <<clock, app, lease, dep, svc, informer, others>>

(* Deletes the deployments of the PullRequest that the spec doesn't have,  *)
(* and begins the loop over those that it has.                             *)
BeginLoop(locals) ==
    NextOrReport([locals EXCEPT !.now = clock, !.activity = deployedAt(locals.pr)])

List ==
    /\ pc = "list"
    /\ IF unlisted = {} THEN BeginLoop(r) ELSE Goto("sweep", [r EXCEPT !.sweep = unlisted])
    /\ UNCHANGED <<clock, server, informer, others>>

DeleteUnlisted(d) ==
    /\ pc = "sweep" /\ d \in r.sweep
    /\ IF dep[d].owner = Nobody
       THEN Fail /\ UNCHANGED dep
       ELSE /\ dep' = [dep EXCEPT ![d] = NoWorkload]
            /\ LET rest == [r EXCEPT !.sweep = @ \ {d}]
               IN IF rest.sweep = {} THEN BeginLoop(rest) ELSE Goto("sweep", rest)
    /\ UNCHANGED <<clock, pr, app, lease, svc, informer, others>>

(* The Lease exists, with the duration, and .status.deployments no longer  *)
(* has the activity that it was made from.                                 *)
HaveLease(l) ==
    Goto("deployment", [r EXCEPT !.lease = l, !.done = @ \cup {current}])

ReconcileLease ==
    /\ pc = "lease"
    /\ LET d == current
           after == scaleDownAfter(r.app, deploymentSpec)
           fresh == [owner |-> r.pr.uid, duration |-> leaseDuration(after),
                     renewTime |-> migratedRenewTime(r.pr.legacy[d], after, clock)]
           longer == [lease[d] EXCEPT !.duration = leaseDuration(after)]
       IN \/ /\ deploymentSpec.invalid
             /\ LoopError("InvalidHostTemplate") /\ UNCHANGED lease
          \/ /\ ~deploymentSpec.invalid
             /\ cLease[d].owner \notin {Nobody, r.pr.uid}
             /\ LoopError("NameConflict") /\ UNCHANGED lease
          \/ /\ ~deploymentSpec.invalid
             /\ cLease[d].owner = Nobody
             /\ IF lease[d].owner = Nobody
                THEN lease' = [lease EXCEPT ![d] = fresh] /\ HaveLease(fresh)
                ELSE LoopError("ReconcileFailed") /\ UNCHANGED lease
          \/ /\ ~deploymentSpec.invalid
             /\ cLease[d].owner = r.pr.uid
             /\ cLease[d].duration = leaseDuration(after)
             /\ HaveLease(cLease[d]) /\ UNCHANGED lease
          \/ /\ ~deploymentSpec.invalid
             /\ cLease[d].owner = r.pr.uid
             /\ cLease[d].duration # leaseDuration(after)
             /\ IF lease[d].owner = Nobody
                THEN LoopError("ReconcileFailed") /\ UNCHANGED lease
                ELSE lease' = [lease EXCEPT ![d] = longer] /\ HaveLease(longer)
    /\ UNCHANGED <<clock, pr, app, dep, svc, informer, others>>

imageFor(p, w) == IF p.image # NoImage THEN p.image ELSE w

(* Mutant: whether it is used or not.                                      *)
replicasAlways(w) ==
    IF w.replicas = 0 THEN Longest(deploymentSpec.replicas, 1) ELSE w.replicas

(* The replicas of a deployment that exists.  One that runs keeps the      *)
(* replicas that it was scaled to by hand.                                 *)
replicasOf(w) ==
    IF ~running THEN 0
    ELSE IF w.replicas = 0 THEN Longest(deploymentSpec.replicas, 1) ELSE w.replicas

(* Mutant: changes of the overrides alone are forgotten.                   *)
syncedImage(w, p, d) == imageFor(p, w.image) # w.image

(* Whether the image or the overrides of the PullRequest are new, with     *)
(* which the template of the ReviewAppConfig rolls out.                    *)
synced(w, p, d) == imageFor(p, w.image) # w.image \/ p.env[d] # w.env

changed(w) == synced(w, r.pr, current) \/ replicasOf(w) # w.replicas

ReconcileDeployment ==
    /\ pc = "deployment"
    /\ LET d == current
           created == [owner |-> r.pr.uid, image |-> r.pr.image, env |-> r.pr.env[d],
                       template |-> r.app.template, scaled |-> 0,
                       replicas |-> IF running THEN Longest(deploymentSpec.replicas, 1) ELSE 0]
       IN \/ /\ cDep[d].owner = Nobody
             /\ IF dep[d].owner = Nobody
                THEN dep' = [dep EXCEPT ![d] = created] /\ Goto("service", r)
                ELSE LoopError("ReconcileFailed") /\ UNCHANGED dep
          \/ /\ cDep[d].owner \notin {Nobody, r.pr.uid}
             /\ LoopError("NameConflict") /\ UNCHANGED dep
          \/ /\ cDep[d].owner = r.pr.uid
             /\ Goto(IF cDep[d].replicas > 0 /\ ~running THEN "recheck"
                     ELSE IF changed(cDep[d]) THEN "patch" ELSE "service",
                     [r EXCEPT !.dep = cDep[d]])
             /\ UNCHANGED dep
    /\ UNCHANGED <<clock, pr, app, lease, svc, informer, others>>

(* Mutant: from the cache.                                                 *)
RecheckCache ==
    /\ pc = "recheck"
    /\ Goto("patch", [r EXCEPT !.lease = cLease[current]])
    /\ UNCHANGED <<clock, server, informer, others>>

(* Before scaling down, the Lease is read from the API server, which has   *)
(* the visits that the cache has not.                                      *)
Recheck ==
    /\ pc = "recheck"
    /\ IF lease[current].owner = Nobody
       THEN LoopError("ReconcileFailed")
       ELSE Goto("patch", [r EXCEPT !.lease = lease[current]])
    /\ UNCHANGED <<clock, server, informer, others>>

(* A merge patch of what differs from the Deployment in the cache.         *)
Patched(w) ==
    LET rolled == IF synced(r.dep, r.pr, current)
                  THEN [w EXCEPT !.image = r.pr.image, !.env = r.pr.env[current],
                                 !.template = r.app.template]
                  ELSE w
    IN [rolled EXCEPT !.replicas =
            IF replicasOf(r.dep) # r.dep.replicas THEN replicasOf(r.dep) ELSE @]

PatchDeployment ==
    /\ pc = "patch"
    /\ IF changed(r.dep) /\ dep[current].owner = Nobody
       THEN LoopError("ReconcileFailed") /\ UNCHANGED dep
       ELSE /\ dep' = IF changed(r.dep) THEN [dep EXCEPT ![current] = Patched(@)] ELSE dep
            /\ Goto("service", r)
    /\ UNCHANGED <<clock, pr, app, lease, svc, informer, others>>

ReconcileService ==
    /\ pc = "service"
    /\ LET d == current
           active == lastActive(r.lease, r.pr, startOnDeploy(r.app, deploymentSpec))
           next == [r EXCEPT
                !.activity = Longest(@, r.lease.renewTime),
                !.wait = earliest(@, scaleDownIn(active,
                             scaleDownAfter(r.app, deploymentSpec), r.now)),
                !.lease = NoLease, !.dep = NoWorkload]
       IN \/ /\ cSvc[d] = Nobody
             /\ IF svc[d] = Nobody
                THEN svc' = [svc EXCEPT ![d] = r.pr.uid] /\ NextOrReport(next)
                ELSE LoopError("ReconcileFailed") /\ UNCHANGED svc
          \/ /\ cSvc[d] \notin {Nobody, r.pr.uid}
             /\ LoopError("NameConflict") /\ UNCHANGED svc
          \/ /\ cSvc[d] = r.pr.uid
             /\ NextOrReport(next) /\ UNCHANGED svc
    /\ UNCHANGED <<clock, pr, app, lease, dep, informer, others>>

(* What setReconciledCondition records.                                    *)
conditionReason ==
    IF r.err # "" THEN r.err
    ELSE IF unknownOverrides(r.app, r.pr) THEN "UnknownDeployment" ELSE "Reconciled"

(* A merge patch of the status, of what differs from the PullRequest that  *)
(* Reconcile began with.                                                   *)
Reported ==
    LET anew == r.pr.reason # conditionReason \/ r.pr.observed # r.pr.gen
    IN [pr EXCEPT
         !.reason = IF anew THEN conditionReason ELSE @,
         !.observed = IF anew THEN r.pr.gen ELSE @,
         !.listed = @ \cup (r.done \ r.pr.listed),
         !.legacy = [d \in Deployment |->
             IF d \in r.done /\ r.pr.legacy[d] # NoLegacy THEN NoLegacy ELSE pr.legacy[d]]]

(* Whether the review app seems to be inactive, and otherwise when it will *)
(* be.                                                                     *)
deleteAfter == r.app.deleteAfter
inactive == r.now >= r.activity + deleteAfter
lookAgain == earliest(r.wait, r.activity + deleteAfter - r.now + Second)

nothingToReport ==
    /\ r.pr.reason = conditionReason /\ r.pr.observed = r.pr.gen
    /\ r.done \subseteq r.pr.listed
    /\ \A d \in r.done : r.pr.legacy[d] = NoLegacy

Report ==
    /\ pc = "report"
    /\ IF pr.uid = 0 /\ ~nothingToReport
       THEN Fail /\ UNCHANGED pr
       ELSE /\ pr' = IF nothingToReport THEN pr ELSE Reported
            /\ \/ r.err # "" /\ Fail
               \/ r.err = "" /\ deleteAfter = 0 /\ Done(r.wait)
               \/ r.err = "" /\ deleteAfter # 0 /\ ~inactive /\ Done(lookAgain)
               \/ r.err = "" /\ deleteAfter # 0 /\ inactive /\ Goto("inactive", r)
    /\ UNCHANGED <<clock, app, lease, dep, svc, informer, others>>

(* deleteInactive looks again at the API server when the review app seems  *)
(* to be inactive.                                                         *)
Inactive ==
    /\ pc = "inactive"
    /\ IF pr.uid = 0
       THEN Done(r.wait)
       ELSE Goto(IF r.app.deployments = <<>> THEN "delete" ELSE "leases",
                 [r EXCEPT !.fresh = pr, !.activity = deployedAt(pr), !.i = 1])
    /\ UNCHANGED <<clock, server, informer, others>>

(* Mutant: from the cache.                                                 *)
RereadCachedLease ==
    /\ pc = "leases"
    /\ pc' = IF r.i < Len(r.app.deployments) THEN "leases" ELSE "delete"
    /\ r' = [r EXCEPT !.activity = Longest(@, cLease[current].renewTime),
                      !.i = IF r.i < Len(r.app.deployments) THEN @ + 1 ELSE @]
    /\ UNCHANGED <<clock, server, informer, workqueue, raced, others>>

(* What was read so far stays read, so raced is kept here.                 *)
RereadLease ==
    /\ pc = "leases"
    /\ pc' = IF r.i < Len(r.app.deployments) THEN "leases" ELSE "delete"
    /\ r' = [r EXCEPT !.activity = Longest(@, lease[current].renewTime),
                      !.i = IF r.i < Len(r.app.deployments) THEN @ + 1 ELSE @]
    /\ UNCHANGED <<clock, server, informer, workqueue, raced, others>>

(* Delete has the UID and the resourceVersion that were read.              *)
DeleteInactive ==
    /\ pc = "delete"
    /\ \/ ~inactive /\ Done(lookAgain) /\ UNCHANGED pr
       \/ inactive /\ pr.uid = 0 /\ Done(0) /\ UNCHANGED pr
       \/ inactive /\ pr = r.fresh /\ pr.uid # 0 /\ pr' = NoPr /\ Done(0)
       \/ /\ inactive /\ pr # r.fresh /\ pr.uid # 0
          /\ Done(earliest(r.wait, Second)) /\ UNCHANGED pr
    /\ UNCHANGED <<clock, app, lease, dep, svc, informer, others>>

-----------------------------------------------------------------------------
(* What fails.                                                             *)

Spend(event) ==
    /\ left[event] > 0
    /\ left' = [left EXCEPT ![event] = @ - 1]

(* A call to the API server fails.                                         *)
Fault ==
    /\ Spend("fault")
    /\ \/ pc \in {"missing", "own", "sweep", "report", "inactive", "leases", "delete"} /\ Fail
       \/ pc \in {"lease", "deployment", "recheck", "patch", "service"}
          /\ LoopError("ReconcileFailed")
    /\ UNCHANGED <<clock, server, informer, renewal, deploying, born>>

(* The manager restarts and fills its cache, or another replica takes over  *)
(* the leader lease, whose cache trails the API server as well.             *)
Crash ==
    /\ Spend("crash")
    /\ pc' = "idle" /\ r' = NotReconciling /\ raced' = FALSE
    /\ queued' = TRUE /\ timer' = 0
    /\ \/ cPr' = pr /\ cApp' = app /\ cLease' = lease /\ cDep' = dep /\ cSvc' = svc
       \/ UNCHANGED informer
    /\ UNCHANGED <<clock, server, renewal, deploying, born>>

-----------------------------------------------------------------------------
(* What the manager sees: events of the informers and of the workqueue.    *)
(* Changes that follow each other may arrive as one.                       *)

DeliverPr ==
    /\ cPr # pr
    /\ cPr' = pr /\ queued' = TRUE
    /\ UNCHANGED <<clock, server, cApp, cLease, cDep, cSvc, timer, local, others>>

DeliverApp ==
    /\ cApp # app
    /\ cApp' = app /\ queued' = (queued \/ cPr.uid # 0)
    /\ UNCHANGED <<clock, server, cPr, cLease, cDep, cSvc, timer, local, others>>

(* The event is for the controller of the object, before and after.        *)
Ours(old, new) == old \notin {Nobody, Other} \/ new \notin {Nobody, Other}

DeliverLease(d) ==
    /\ cLease[d] # lease[d]
    /\ cLease' = [cLease EXCEPT ![d] = lease[d]]
    /\ queued' = \/ queued
                 \/ /\ Ours(cLease[d].owner, lease[d].owner)
                    /\ cLease[d].owner = lease[d].owner =>
                           wakeUpPredicate(cLease[d], lease[d], clock)
    /\ UNCHANGED <<clock, server, cPr, cApp, cDep, cSvc, timer, local, others>>

(* Mutant: the controller does not watch its Deployments.                  *)
DeliverDepUnwatched(d) ==
    /\ cDep[d] # dep[d]
    /\ cDep' = [cDep EXCEPT ![d] = dep[d]]
    /\ UNCHANGED <<clock, server, cPr, cApp, cLease, cSvc, workqueue, local, others>>

DeliverDep(d) ==
    /\ cDep[d] # dep[d]
    /\ cDep' = [cDep EXCEPT ![d] = dep[d]]
    /\ queued' = (queued \/ Ours(cDep[d].owner, dep[d].owner))
    /\ UNCHANGED <<clock, server, cPr, cApp, cLease, cSvc, timer, local, others>>

DeliverSvc(d) ==
    /\ cSvc[d] # svc[d]
    /\ cSvc' = [cSvc EXCEPT ![d] = svc[d]]
    /\ queued' = (queued \/ Ours(cSvc[d], svc[d]))
    /\ UNCHANGED <<clock, server, cPr, cApp, cLease, cDep, timer, local, others>>

TimerFires ==
    /\ timer # 0 /\ clock >= timer
    /\ timer' = 0 /\ queued' = TRUE
    /\ UNCHANGED <<clock, server, informer, local, others>>

-----------------------------------------------------------------------------
(* What the others do.                                                     *)

Tick ==
    /\ Spend("tick")
    /\ clock' = clock + 1
    /\ UNCHANGED <<server, informer, workqueue, local, renewal, deploying, born>>

(* A forwarder routes a request by the hostnames in the status and sends a *)
(* merge patch with the renew time, which no later one holds back.         *)
SendRenewal(f, d) ==
    /\ renewal[f] = NoRenewal /\ d \in pr.listed
    /\ Spend("visit")
    /\ renewal' = [renewal EXCEPT ![f] = [deployment |-> d, at |-> clock]]
    /\ UNCHANGED <<clock, server, informer, workqueue, local, deploying, born>>

ApplyRenewal(f) ==
    LET d == renewal[f].deployment
    IN /\ renewal[f] # NoRenewal
       /\ renewal' = [renewal EXCEPT ![f] = NoRenewal]
       /\ lease' = IF lease[d].owner = Nobody THEN lease
                   ELSE [lease EXCEPT ![d].renewTime = renewal[f].at]
       /\ raced' = (raced \/ pc \in {"patch", "leases", "delete"})
       /\ UNCHANGED <<clock, pr, app, dep, svc, informer, workqueue, pc, r,
                      deploying, born, left>>

LoseRenewal(f) ==
    /\ renewal[f] # NoRenewal
    /\ Spend("lost")
    /\ renewal' = [renewal EXCEPT ![f] = NoRenewal]
    /\ UNCHANGED <<clock, server, informer, workqueue, local, deploying, born>>

(* The webhook deploys: it creates the PullRequest or patches its image,   *)
(* and then patches the time at which it began into the status.            *)
StartDeploy(i) ==
    /\ deploying.phase = "none"
    /\ Spend("deploy")
    /\ deploying' = [phase |-> "spec", image |-> i, at |-> Truncate(clock)]
    /\ UNCHANGED <<clock, server, informer, workqueue, local, renewal, born>>

(* The UIDs of PullRequests are never used twice.                          *)
Created(i) ==
    [NoPr EXCEPT !.uid = born + 1, !.gen = 1, !.image = i,
                 !.createdAt = Truncate(clock)]

WriteSpec ==
    /\ deploying.phase = "spec"
    /\ deploying' = [deploying EXCEPT !.phase = "status"]
    /\ \/ /\ pr.uid = 0
          /\ Spend("create")
          /\ pr' = Created(deploying.image) /\ born' = born + 1
       \/ /\ pr.uid # 0
          /\ pr' = IF pr.image = deploying.image THEN pr
                   ELSE [pr EXCEPT !.image = deploying.image, !.gen = @ + 1]
          /\ UNCHANGED <<born, left>>
    /\ UNCHANGED <<clock, app, lease, dep, svc, informer, workqueue, local, renewal>>

WriteStatus ==
    /\ deploying.phase = "status"
    /\ deploying' = NoDeploy
    /\ pr' = IF pr.uid = 0 THEN pr ELSE [pr EXCEPT !.deployedAt = deploying.at]
    /\ UNCHANGED <<clock, app, lease, dep, svc, informer, workqueue, local,
                   renewal, born, left>>

(* The webhook closes the pull request, or somebody deletes it.            *)
Close ==
    /\ pr.uid # 0
    /\ Spend("close")
    /\ pr' = NoPr
    /\ UNCHANGED <<clock, app, lease, dep, svc, informer, workqueue, local,
                   renewal, deploying, born>>

(* The garbage collector deletes what a deleted PullRequest controlled.    *)
Garbage(owner) == owner \notin {Nobody, Other, pr.uid}

Collect(d) ==
    /\ \/ /\ Garbage(lease[d].owner)
          /\ lease' = [lease EXCEPT ![d] = NoLease] /\ UNCHANGED <<dep, svc>>
       \/ /\ Garbage(dep[d].owner)
          /\ dep' = [dep EXCEPT ![d] = NoWorkload] /\ UNCHANGED <<lease, svc>>
       \/ /\ Garbage(svc[d])
          /\ svc' = [svc EXCEPT ![d] = Nobody] /\ UNCHANGED <<lease, dep>>
    /\ UNCHANGED <<clock, pr, app, informer, workqueue, local, others>>

EditConfig(c) ==
    /\ c # app
    /\ Spend("edit")
    /\ app' = c
    /\ UNCHANGED <<clock, pr, lease, dep, svc, informer, workqueue, local,
                   renewal, deploying, born>>

EditOverrides(d, e) ==
    /\ pr.uid # 0 /\ pr.env[d] # e
    /\ Spend("override")
    /\ pr' = [pr EXCEPT !.env[d] = e, !.gen = @ + 1]
    /\ UNCHANGED <<clock, app, lease, dep, svc, informer, workqueue, local,
                   renewal, deploying, born>>

Scale(d, n) ==
    /\ dep[d].owner \notin {Nobody, Other} /\ dep[d].replicas # n
    /\ Spend("scale")
    /\ dep' = [dep EXCEPT ![d].replicas = n, ![d].scaled = @ + 1]
    /\ UNCHANGED <<clock, pr, app, lease, svc, informer, workqueue, local,
                   renewal, deploying, born>>

(* The review app of another PullRequest, whose names collide, is          *)
(* reconciled by the same worker with the same cache, and goes away.       *)
OtherTakes(d) ==
    /\ pc = "idle"
    /\ \A object \in {lease[d].owner, dep[d].owner, svc[d], cLease[d].owner,
                      cDep[d].owner, cSvc[d]} : object = Nobody
    /\ Spend("other")
    /\ lease' = [lease EXCEPT ![d].owner = Other]
    /\ dep' = [dep EXCEPT ![d].owner = Other]
    /\ svc' = [svc EXCEPT ![d] = Other]
    /\ UNCHANGED <<clock, pr, app, informer, workqueue, local, renewal, deploying, born>>

OtherLeaves(d) ==
    /\ lease[d].owner = Other
    /\ lease' = [lease EXCEPT ![d] = NoLease]
    /\ dep' = [dep EXCEPT ![d] = NoWorkload]
    /\ svc' = [svc EXCEPT ![d] = Nobody]
    /\ UNCHANGED <<clock, pr, app, informer, workqueue, local, others>>

-----------------------------------------------------------------------------
ReconcileStep ==
    \/ Begin \/ ReportMissing \/ Own \/ List
    \/ \E d \in Deployment : DeleteUnlisted(d)
    \/ ReconcileLease \/ ReconcileDeployment \/ Recheck
    \/ PatchDeployment \/ ReconcileService \/ Report
    \/ Inactive \/ RereadLease \/ DeleteInactive

Deliver ==
    \/ DeliverPr \/ DeliverApp \/ TimerFires
    \/ \E d \in Deployment : DeliverLease(d) \/ DeliverDep(d) \/ DeliverSvc(d)

Environment ==
    \/ Tick \/ Fault \/ Crash
    \/ \E f \in Forwarder :
          ApplyRenewal(f) \/ LoseRenewal(f) \/ \E d \in Deployment : SendRenewal(f, d)
    \/ \E i \in Image : StartDeploy(i)
    \/ WriteSpec \/ WriteStatus \/ Close
    \/ \E c \in Configs : EditConfig(c)
    \/ \E d \in Deployment :
          \/ Collect(d) \/ OtherTakes(d) \/ OtherLeaves(d)
          \/ \E e \in Env \cup {NoEnv} : EditOverrides(d, e)
          \/ \E n \in 0..2 : Scale(d, n)

(* The next step of Reconcile calls the API server for nothing: it only    *)
(* reads the cache.  Such a step is taken at once.  As the cache may trail *)
(* the API server by any amount, what happens between a read of the cache  *)
(* and the next call could as well have happened before the read, unseen.  *)
ReadsCacheOnly ==
    \/ pc = "list"
    \/ /\ pc = "lease"
       /\ \/ deploymentSpec.invalid
          \/ cLease[current].owner \notin {Nobody, r.pr.uid}
          \/ /\ cLease[current].owner = r.pr.uid
             /\ cLease[current].duration =
                   leaseDuration(scaleDownAfter(r.app, deploymentSpec))
    \/ pc = "deployment" /\ cDep[current].owner # Nobody
    \/ pc = "service" /\ cSvc[current] # Nobody
    \/ pc = "report" /\ nothingToReport

Next ==
    \/ ReconcileStep
    \/ ~ReadsCacheOnly /\ (Deliver \/ Environment)

Spec == Init /\ [][Next]_vars

(* The worker, the informers and the garbage collector keep working, time  *)
(* passes, and calls in flight end.                                        *)
Fairness ==
    /\ WF_vars(ReconcileStep)
    /\ WF_vars(Tick) /\ WF_vars(TimerFires)
    /\ WF_vars(DeliverPr) /\ WF_vars(DeliverApp)
    /\ \A d \in Deployment :
          WF_vars(DeliverLease(d)) /\ WF_vars(DeliverDep(d)) /\ WF_vars(DeliverSvc(d))
          /\ WF_vars(Collect(d))
    /\ \A f \in Forwarder : WF_vars(ApplyRenewal(f))
    /\ WF_vars(WriteSpec \/ WriteStatus)

FairSpec == Spec /\ Fairness

-----------------------------------------------------------------------------
(* Safety.                                                                 *)

(* The controller scales a deployment down.                                *)
ScalesDown(d) ==
    /\ pc = "patch" /\ pc' # "patch"
    /\ dep[d].replicas > 0 /\ dep'[d].replicas = 0

(* A deployment is only scaled down when, at the API server, scaleDownAfter *)
(* has passed since its last visit and since the activity that an earlier   *)
(* version recorded, unless the visit arrived after Reconcile read the      *)
(* Lease (reconcileDeployment reads it again, and migratedRenewTime).       *)
ScaleDownJustified ==
    [][\A d \in Deployment : ScalesDown(d) =>
          \/ raced
          \/ /\ d = current
             /\ ~runs(Longest(lease[d].renewTime,
                              IF pr.legacy[d].isActive THEN pr.legacy[d].lastActive ELSE 0),
                      scaleDownAfter(r.app, deploymentSpec), clock)]_vars

(* deleteInactive only deletes a PullRequest that, as it is deleted, was    *)
(* not deployed for deleteAfter, and whose deployments were not visited for *)
(* deleteAfter, unless the visit arrived after it read the PullRequest.     *)
DeleteJustified ==
    [][pc = "delete" /\ pc' = "idle" /\ pr.uid # 0 /\ pr'.uid = 0 =>
          /\ deployedAt(pr) + deleteAfter <= clock
          /\ \/ raced
             \/ \A d \in Names(r.app) : lease[d].renewTime + deleteAfter <= clock]_vars

(* Reconcile never writes or deletes an object of another review app whose  *)
(* name collides (errNotControlled), although it patches and deletes by     *)
(* name what it saw in the cache.                                           *)
NoTakeover ==
    [][<<pc, r>>' # <<pc, r>> => \A d \in Deployment :
          /\ lease[d].owner = Other => lease'[d] = lease[d]
          /\ dep[d].owner = Other => dep'[d] = dep[d]
          /\ svc[d] = Other => svc'[d] = svc[d]]_vars

(* Upgrading from a version that recorded the activity on the PullRequest   *)
(* starts no deployment that it had scaled down and that nobody has visited *)
(* since (migratedRenewTime).                                               *)
UpgradeStartsNothing ==
    [][\A d \in Deployment :
          /\ pc \in {"deployment", "patch"} /\ dep[d].replicas = 0 /\ dep'[d].replicas > 0
          /\ pr.legacy[d].lastActive # 0 /\ ~pr.legacy[d].isActive
          => lease[d].renewTime > pr.legacy[d].lastActive]_vars

-----------------------------------------------------------------------------
(* Refinement: each deployment is one of OnDemand.                          *)

OfPr(owner) == pr.uid # 0 /\ owner = pr.uid

phaseOf(d) ==
    IF ~OfPr(dep[d].owner) THEN "none"
    ELSE IF dep[d].replicas = 0 THEN "stopped" ELSE "running"

(* In its Lease, or as an earlier version recorded it.                      *)
visitedAt(d) ==
    Longest(IF OfPr(lease[d].owner) THEN lease[d].renewTime ELSE 0,
            IF pr.legacy[d].isActive THEN pr.legacy[d].lastActive ELSE 0)

(* The controller goes by the ReviewAppConfig that it read.                 *)
configured(d) == r.app # NoApp /\ d \in Names(r.app)

Promised == INSTANCE OnDemand WITH
    unseen <- raced,
    phase <- [d \in Deployment |-> phaseOf(d)],
    visited <- [d \in Deployment |-> visitedAt(d)],
    after <- [d \in Deployment |->
                 IF configured(d) THEN scaleDownAfter(r.app, SpecOf(r.app, d)) ELSE 0],
    onDeploy <- [d \in Deployment |->
                    configured(d) /\ startOnDeploy(r.app, SpecOf(r.app, d))],
    byHand <- [d \in Deployment |-> dep[d].scaled]

(* The controller, with everything that interferes with it, does for each   *)
(* deployment what OnDemand promises: it starts none without a reason       *)
(* (reconcileDeployment), stops none that is in use unless somebody scales  *)
(* it by hand, and loses no visit on the way from an upgrade                *)
(* (reconcileLease) to the Lease.                                           *)
KeepsPromise == Promised!Spec

-----------------------------------------------------------------------------
(* What holds when the controller is at rest: it has seen everything and    *)
(* has nothing to do until its timer fires.                                 *)

AtRest ==
    /\ pc = "idle" /\ ~queued /\ (timer = 0 \/ clock < timer)
    /\ cPr = pr /\ cApp = app /\ cLease = lease /\ cDep = dep /\ cSvc = svc
    /\ pr.uid # 0

(* Nothing that was deployed or configured is forgotten: at rest the        *)
(* objects are those of the PullRequest and of the ReviewAppConfig, and the *)
(* status says so for the current generation.                               *)
Converged ==
    AtRest =>
        /\ app = NoApp => pr.reason = "ReviewAppConfigNotFound"
        /\ app # NoApp =>
             /\ pr.reason = IF unknownOverrides(app, pr) THEN "UnknownDeployment"
                            ELSE "Reconciled"
             /\ pr.observed = pr.gen /\ pr.owned
             /\ Names(app) \subseteq pr.listed
             /\ \A d \in Deployment \ Names(app) : dep[d].owner \in {Nobody, Other}
             /\ \A s \in Specs(app) :
                  /\ lease[s.name].owner = pr.uid
                  /\ lease[s.name].duration = leaseDuration(scaleDownAfter(app, s))
                  /\ dep[s.name].owner = pr.uid /\ svc[s.name] = pr.uid
                  /\ pr.image # NoImage => dep[s.name].image = pr.image
                  /\ dep[s.name].env = pr.env[s.name]

(* No visit and no deploy is lost: at rest every active deployment runs.    *)
ActiveRuns ==
    AtRest /\ app # NoApp => \A s \in Specs(app) :
        runs(lastActive(lease[s.name], pr, startOnDeploy(app, s)),
             scaleDownAfter(app, s), clock)
        => dep[s.name].replicas > 0

(* No deployment is left running and no review app is left behind: at rest  *)
(* the controller will look again, no later than when something is due.     *)
LooksAgain ==
    AtRest /\ app # NoApp =>
        /\ app.deleteAfter # 0 => timer # 0
        /\ \A s \in Specs(app) :
             scaleDownAfter(app, s) # 0 /\ dep[s.name].replicas > 0 => timer # 0

-----------------------------------------------------------------------------
(* Liveness.                                                               *)

Visited(d) ==
    /\ pr.uid # 0 /\ app # NoApp /\ d \in Names(app)
    /\ lease[d].owner = pr.uid /\ leaseHeld(lease[d], clock)

(* A deployment that is visited starts, unless its Lease runs out before.   *)
VisitStarts ==
    \A d \in Deployment : Visited(d) ~> (~Visited(d) \/ dep[d].replicas > 0)

(* The controller comes to rest: what it writes does not keep it busy.      *)
Settles == <>[](pc = "idle" /\ ~queued)
=============================================================================
