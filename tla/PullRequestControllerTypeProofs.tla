-------------------- MODULE PullRequestControllerTypeProofs --------------------
(***************************************************************************)
(* Type correctness of PullRequestController, for every set of             *)
(* deployments, every ReviewAppConfig and any number of renewals and       *)
(* events.  It is inductive together with Located: in the loops over the   *)
(* deployments, the index of Reconcile is one of the spec that it began    *)
(* with.                                                                   *)
(***************************************************************************)
EXTENDS PullRequestController, TLAPS

-----------------------------------------------------------------------------
(* The arithmetic of Activity, for every length of a second.               *)

(* Times are written with whole seconds, never later than they are.        *)
LEMMA TruncateType ==
    ASSUME NEW t \in Nat
    PROVE  /\ Truncate(t) \in Nat
           /\ Truncate(t) <= t
  <1>1. t % Second \in 0..(Second - 1) /\ t \div Second \in Int
    BY SecondAssumption
  <1>2. t = Second * (t \div Second) + (t % Second)
    BY SecondAssumption
  <1>. QED
    BY <1>1, <1>2, SecondAssumption DEF Truncate

LEMMA RoundToSecondType ==
    ASSUME NEW t \in Nat
    PROVE  RoundToSecond(t) \in Nat
  <1>1. (2 * t + Second) \div (2 * Second) \in Nat
    BY SecondAssumption
  <1>. QED
    BY <1>1, SecondAssumption DEF RoundToSecond

LEMMA LeaseDurationType ==
    ASSUME NEW t \in Nat
    PROVE  leaseDuration(t) \in Nat
  BY RoundToSecondType, SecondAssumption DEF leaseDuration, Longest

(* Whole seconds are not rounded.                                          *)
LEMMA RoundWholeSeconds ==
    ASSUME NEW k \in Nat
    PROVE  RoundToSecond(k * Second) = k * Second
  <1>1. (2 * (k * Second) + Second) \div (2 * Second) = k
    BY SecondAssumption
  <1>. QED
    BY <1>1 DEF RoundToSecond

(* leaseHeld and runsUntil agree, which wakeUpPredicate relies on: for a    *)
(* scaleDownAfter of whole seconds, a Lease is held exactly as long as the  *)
(* visits recorded in it keep its deployment running.                       *)
THEOREM HeldWhileRunning ==
    ASSUME NEW k \in Nat, NEW renewTime \in Nat, NEW now \in Nat
    PROVE  LET after == k * Second
               l == [renewTime |-> renewTime, duration |-> leaseDuration(after)]
           IN  leaseHeld(l, now) <=> runs(renewTime, after, now)
  <1>1. k * Second \in Nat /\ (k # 0 => k * Second >= Second)
    BY SecondAssumption
  <1>2. leaseDuration(k * Second) = k * Second
    BY <1>1, RoundWholeSeconds, SecondAssumption DEF leaseDuration, Longest
  <1>. QED
    BY <1>1, <1>2 DEF leaseHeld, runs

-----------------------------------------------------------------------------
USE DEF Nobody, Other, Owner

(* The parts of TypeOK that steps change together.                         *)

Label == {"idle", "missing", "own", "list", "sweep", "lease", "deployment",
          "recheck", "patch", "service", "report", "inactive", "leases", "delete"}
Looping == {"lease", "deployment", "recheck", "patch", "service"}

ServerOK ==
    /\ pr \in PullRequest /\ app \in Configs \cup {NoApp}
    /\ lease \in [Deployment -> Lease] /\ dep \in [Deployment -> Workload]
    /\ svc \in [Deployment -> Owner]

InformerOK ==
    /\ cPr \in PullRequest /\ cApp \in Configs \cup {NoApp}
    /\ cLease \in [Deployment -> Lease] /\ cDep \in [Deployment -> Workload]
    /\ cSvc \in [Deployment -> Owner]

WorkerOK ==
    /\ queued \in BOOLEAN /\ timer \in Nat
    /\ pc \in Label /\ r \in Reconcile /\ raced \in BOOLEAN

OthersOK ==
    /\ clock \in Nat
    /\ renewal \in [Forwarder -> [deployment: Deployment, at: Nat] \cup {NoRenewal}]
    /\ deploying \in [phase: {"none", "spec", "status"},
                      image: Image \cup {NoImage}, at: Nat]
    /\ born \in Nat
    /\ left \in [Event -> Nat]

LEMMA TypeOKParts == TypeOK <=> ServerOK /\ InformerOK /\ WorkerOK /\ OthersOK
  BY DEF TypeOK, ServerOK, InformerOK, WorkerOK, OthersOK, Label

(* What Reconcile knows where: it has a PullRequest, a ReviewAppConfig and, *)
(* in its loops, an index of a deployment of it.                            *)
Located ==
    /\ pc # "idle" => r.pr.uid # 0
    /\ pc \notin {"idle", "missing"} => r.app \in Configs
    /\ pc \in {"own", "list", "sweep"} => r.i = 0
    /\ pc \in Looping \cup {"leases"} => r.i \in 1..Len(r.app.deployments)

Typed == TypeOK /\ Located

-----------------------------------------------------------------------------
(* The operators.                                                          *)

LEMMA ConfigType ==
    ASSUME NEW c \in Configs
    PROVE  /\ c \in AppSpec
           /\ Len(c.deployments) \in Nat
           /\ c.deleteAfter \in Nat /\ c.template \in Nat
  BY ControllerAssumption DEF AppSpec

LEMMA DeploymentSpecType ==
    ASSUME NEW c \in Configs, NEW i \in 1..Len(c.deployments)
    PROVE  LET s == c.deployments[i]
           IN  /\ s \in DeploymentSpec
               /\ s.name \in Deployment
               /\ s.replicas \in Nat
               /\ scaleDownAfter(c, s) \in Nat
               /\ startOnDeploy(c, s) \in BOOLEAN
  <1>1. c \in AppSpec /\ c.deployments[i] \in DeploymentSpec
    BY ConfigType DEF AppSpec
  <1>. QED
    BY <1>1 DEF AppSpec, DeploymentSpec, scaleDownAfter, startOnDeploy

LEMMA MaxMinType ==
    ASSUME NEW a \in Nat, NEW b \in Nat
    PROVE  /\ Longest(a, b) \in Nat /\ Longest(a, b) >= a /\ Longest(a, b) >= b
           /\ Shortest(a, b) \in Nat
           /\ earliest(a, b) \in Nat
  BY DEF Longest, Shortest, earliest

LEMMA DeployedAtType ==
    ASSUME NEW p \in PullRequest
    PROVE  deployedAt(p) \in Nat
  BY MaxMinType DEF deployedAt, PullRequest

LEMMA LastActiveType ==
    ASSUME NEW l \in Lease, NEW p \in PullRequest, NEW b \in BOOLEAN
    PROVE  lastActive(l, p, b) \in Nat /\ lastActive(l, p, b) >= l.renewTime
  BY MaxMinType, DeployedAtType DEF lastActive, Lease

LEMMA ScaleDownInType ==
    ASSUME NEW a \in Nat, NEW s \in Nat, NEW now \in Nat
    PROVE  scaleDownIn(a, s, now) \in Nat
  BY SecondAssumption DEF scaleDownIn, runs

LEMMA MigratedType ==
    ASSUME NEW l \in Legacy, NEW s \in Nat, NEW now \in Nat
    PROVE  migratedRenewTime(l, s, now) \in Nat
  <1>1. Longest(now - s, 0) \in Nat
    BY DEF Longest
  <1>. QED
    BY <1>1, MaxMinType DEF migratedRenewTime, Legacy

(* The ways in which a step of Reconcile ends.                             *)

LEMMA NothingType ==
    /\ NoPr \in PullRequest /\ NoLease \in Lease /\ NoWorkload \in Workload
    /\ NotReconciling \in Reconcile
  <1>1. NoPr \in PullRequest
    BY DEF NoPr, PullRequest, NoLegacy, Legacy, Reason
  <1>2. NoLease \in Lease /\ NoWorkload \in Workload
    BY DEF NoLease, Lease, NoWorkload, Workload
  <1>. QED
    BY <1>1, <1>2 DEF NotReconciling, Reconcile, Reason

LEMMA DoneType ==
    ASSUME Typed, NEW wait \in Nat, Done(wait)
    PROVE  WorkerOK' /\ Located'
  <1>1. timer' \in Nat
    BY MaxMinType DEF Typed, TypeOK, Done
  <1>. QED
    BY <1>1, NothingType
    DEF Typed, TypeOK, Done, WorkerOK, Located, Looping, Label

LEMMA FailType ==
    ASSUME Typed, Fail
    PROVE  WorkerOK' /\ Located'
  BY NothingType DEF Typed, TypeOK, Fail, WorkerOK, Located, Looping, Label

LEMMA GotoType ==
    ASSUME Typed, NEW label \in Label, NEW locals \in Reconcile, Goto(label, locals)
    PROVE  WorkerOK'
  BY DEF Typed, TypeOK, Goto, workqueue, WorkerOK

LEMMA LoopErrorType ==
    ASSUME Typed, pc \in Looping, NEW reason \in Reason, LoopError(reason)
    PROVE  WorkerOK' /\ Located'
  <1> DEFINE locals == [r EXCEPT !.err = reason, !.lease = NoLease, !.dep = NoWorkload]
  <1>1. locals \in Reconcile /\ locals.pr = r.pr /\ locals.app = r.app
    BY NothingType DEF Typed, TypeOK, Reconcile
  <1>2. WorkerOK'
    BY <1>1, GotoType DEF LoopError, Label
  <1>3. Located'
    BY <1>1 DEF Typed, Located, LoopError, Goto, Looping
  <1>. QED
    BY <1>2, <1>3

LEMMA NextOrReportType ==
    ASSUME Typed, NEW locals \in Reconcile, NextOrReport(locals),
           r.app \in Configs, locals.app = r.app, locals.pr.uid # 0
    PROVE  WorkerOK' /\ Located'
  <1>1. Len(r.app.deployments) \in Nat
    BY ConfigType
  <1>2. CASE locals.i < Len(r.app.deployments)
    <2> DEFINE next == [locals EXCEPT !.i = @ + 1]
    <2>1. next \in Reconcile /\ next.pr = locals.pr /\ next.app = r.app
      BY DEF Reconcile
    <2>2. next.i \in 1..Len(r.app.deployments)
      BY <1>1, <1>2 DEF Reconcile
    <2>3. Goto("lease", next)
      BY <1>2 DEF NextOrReport
    <2>4. WorkerOK'
      BY <2>1, <2>3, GotoType DEF Label
    <2>. QED
      BY <2>1, <2>2, <2>3, <2>4 DEF Located, Goto, Looping
  <1>3. CASE ~(locals.i < Len(r.app.deployments))
    <2>1. Goto("report", locals)
      BY <1>3 DEF NextOrReport
    <2>2. WorkerOK'
      BY <2>1, GotoType DEF Label
    <2>. QED
      BY <2>1, <2>2 DEF Located, Goto, Looping
  <1>. QED
    BY <1>2, <1>3

LEMMA CurrentType ==
    ASSUME Typed, pc \in Looping \cup {"leases"}
    PROVE  /\ deploymentSpec \in DeploymentSpec
           /\ current \in Deployment
           /\ deploymentSpec.replicas \in Nat
           /\ scaleDownAfter(r.app, deploymentSpec) \in Nat
           /\ startOnDeploy(r.app, deploymentSpec) \in BOOLEAN
           /\ r.app \in Configs /\ r.pr \in PullRequest /\ r.pr.uid # 0
           /\ r.pr.uid \in Nat
  <1>1. r.app \in Configs /\ r.i \in 1..Len(r.app.deployments)
    BY DEF Typed, Located, Looping
  <1>2. r.pr \in PullRequest /\ r.pr.uid \in Nat /\ r.pr.uid # 0
    BY DEF Typed, TypeOK, Reconcile, PullRequest, Located, Looping
  <1>. QED
    BY <1>1, <1>2, DeploymentSpecType DEF deploymentSpec, current

-----------------------------------------------------------------------------
(* Type correctness, one lemma for each action of Reconcile.               *)

LEMMA BeginType ==
    ASSUME Typed, Begin
    PROVE  WorkerOK' /\ Located'
  <1>1. CASE cPr.uid = 0
    BY <1>1 DEF Begin, Typed, TypeOK, WorkerOK, Located, Looping, Label
  <1>2. CASE cPr.uid # 0
    <2>1. r' = [NotReconciling EXCEPT !.pr = cPr, !.app = cApp]
      BY <1>2 DEF Begin
    <2>2. /\ r' \in Reconcile
          /\ r'.pr = cPr /\ r'.app = cApp /\ r'.i = 0
      BY <2>1, NothingType DEF Typed, TypeOK, Reconcile, NotReconciling
    <2>3. pc' \in {"missing", "own", "list"} /\ (pc' # "missing" => cApp # NoApp)
      BY <1>2 DEF Begin
    <2>. QED
      BY <1>2, <2>2, <2>3
      DEF Begin, Typed, TypeOK, WorkerOK, Located, Looping, Label
  <1>. QED
    BY <1>1, <1>2

LEMMA ReportMissingType ==
    ASSUME Typed, ReportMissing
    PROVE  ServerOK' /\ WorkerOK' /\ Located'
  <1>1. r.pr.gen \in Nat
    BY DEF Typed, TypeOK, Reconcile, PullRequest
  <1>2. pr' \in PullRequest
    <2> DEFINE reported == [pr EXCEPT !.reason = "ReviewAppConfigNotFound",
                                      !.observed = r.pr.gen]
    <2>1. pr' = pr \/ pr' = reported
      BY DEF ReportMissing
    <2>2. pr \in PullRequest
      BY DEF Typed, TypeOK
    <2>3. reported \in PullRequest
      BY <1>1, <2>2 DEF PullRequest, Reason
    <2>. QED
      BY <2>1, <2>2, <2>3
  <1>3. ServerOK'
    BY <1>2 DEF ReportMissing, Typed, TypeOK, ServerOK
  <1>4. Fail \/ Done(0)
    BY DEF ReportMissing
  <1>. QED
    BY <1>3, <1>4, FailType, DoneType

LEMMA OwnType ==
    ASSUME Typed, Own
    PROVE  ServerOK' /\ WorkerOK' /\ Located'
  <1>1. CASE pr = r.pr
    <2>1. pr' \in PullRequest /\ pr'.uid = pr.uid
      <3>1. pr \in PullRequest
        BY DEF Typed, TypeOK
      <3>2. pr' = [pr EXCEPT !.owned = TRUE]
        BY <1>1 DEF Own
      <3>. QED
        BY <3>1, <3>2 DEF PullRequest
    <2> DEFINE locals == [r EXCEPT !.pr = pr']
    <2>2. locals \in Reconcile /\ locals.pr = pr' /\ locals.app = r.app /\ locals.i = r.i
      BY <2>1 DEF Typed, TypeOK, Reconcile
    <2>3. Goto("list", locals)
      BY <1>1 DEF Own
    <2>4. WorkerOK'
      BY <2>2, <2>3, GotoType DEF Label
    <2>5. Located'
      BY <1>1, <2>1, <2>2, <2>3 DEF Own, Typed, Located, Goto, Looping
    <2>6. ServerOK'
      BY <2>1 DEF Own, Typed, TypeOK, ServerOK
    <2>. QED
      BY <2>4, <2>5, <2>6
  <1>2. CASE pr # r.pr
    BY <1>2, FailType DEF Own, Typed, TypeOK, ServerOK
  <1>. QED
    BY <1>1, <1>2

LEMMA BeginLoopType ==
    ASSUME Typed, NEW locals \in Reconcile, BeginLoop(locals),
           r.app \in Configs, locals.app = r.app, locals.pr.uid # 0
    PROVE  WorkerOK' /\ Located'
  <1> DEFINE begun == [locals EXCEPT !.now = clock, !.activity = deployedAt(locals.pr)]
  <1>1. deployedAt(locals.pr) \in Nat
    BY DeployedAtType DEF Reconcile
  <1>2. begun \in Reconcile /\ begun.app = locals.app /\ begun.pr = locals.pr
    BY <1>1 DEF Reconcile, Typed, TypeOK
  <1>. QED
    BY <1>2, NextOrReportType DEF BeginLoop

LEMMA ListType ==
    ASSUME Typed, List
    PROVE  WorkerOK' /\ Located'
  <1>1. r \in Reconcile /\ r.app \in Configs /\ r.pr.uid # 0 /\ r.i = 0
    BY DEF List, Typed, TypeOK, Located
  <1>2. CASE unlisted = {}
    BY <1>1, <1>2, BeginLoopType DEF List
  <1>3. CASE unlisted # {}
    <2> DEFINE locals == [r EXCEPT !.sweep = unlisted]
    <2>1. unlisted \subseteq Deployment
      BY DEF unlisted
    <2>2. locals \in Reconcile /\ locals.pr = r.pr /\ locals.app = r.app /\ locals.i = r.i
      BY <1>1, <2>1 DEF Reconcile
    <2>3. Goto("sweep", locals)
      BY <1>3 DEF List
    <2>4. WorkerOK'
      BY <2>2, <2>3, GotoType DEF Label
    <2>. QED
      BY <1>1, <2>2, <2>3, <2>4 DEF Located, Goto, Looping
  <1>. QED
    BY <1>2, <1>3

LEMMA DeleteUnlistedType ==
    ASSUME Typed, NEW d \in Deployment, DeleteUnlisted(d)
    PROVE  ServerOK' /\ WorkerOK' /\ Located'
  <1>1. ServerOK'
    BY NothingType DEF DeleteUnlisted, Typed, TypeOK, ServerOK
  <1>2. CASE dep[d].owner = Nobody
    BY <1>1, <1>2, FailType DEF DeleteUnlisted
  <1>3. CASE dep[d].owner # Nobody
    <2> DEFINE rest == [r EXCEPT !.sweep = @ \ {d}]
    <2>1. r \in Reconcile /\ r.app \in Configs /\ r.pr.uid # 0 /\ r.i = 0
      BY DEF DeleteUnlisted, Typed, TypeOK, Located
    <2>2. rest \in Reconcile /\ rest.pr = r.pr /\ rest.app = r.app /\ rest.i = r.i
      BY <2>1 DEF Reconcile
    <2>3. CASE rest.sweep = {}
      <3>1. BeginLoop(rest)
        BY <1>3, <2>3 DEF DeleteUnlisted
      <3>. QED
        BY <1>1, <2>1, <2>2, <3>1, BeginLoopType
    <2>4. CASE rest.sweep # {}
      <3>1. Goto("sweep", rest)
        BY <1>3, <2>4 DEF DeleteUnlisted
      <3>2. WorkerOK'
        BY <2>2, <3>1, GotoType DEF Label
      <3>. QED
        BY <1>1, <2>1, <2>2, <3>1, <3>2 DEF Located, Goto, Looping
    <2>. QED
      BY <2>3, <2>4
  <1>. QED
    BY <1>2, <1>3

(* A step within the loop that keeps the PullRequest, the ReviewAppConfig   *)
(* and the index.                                                           *)
LEMMA WithinLoop ==
    ASSUME Typed, pc \in Looping, NEW label \in Looping, NEW locals \in Reconcile,
           Goto(label, locals),
           locals.pr = r.pr, locals.app = r.app, locals.i = r.i
    PROVE  WorkerOK' /\ Located'
  <1>1. WorkerOK'
    BY GotoType DEF Looping, Label
  <1>2. Located'
    BY DEF Typed, Located, Goto, Looping
  <1>. QED
    BY <1>1, <1>2

LEMMA HaveLeaseType ==
    ASSUME Typed, pc \in Looping, NEW l \in Lease, HaveLease(l)
    PROVE  WorkerOK' /\ Located'
  <1> DEFINE locals == [r EXCEPT !.lease = l, !.done = @ \cup {current}]
  <1>1. current \in Deployment
    BY CurrentType
  <1>2. locals \in Reconcile /\ locals.pr = r.pr /\ locals.app = r.app /\ locals.i = r.i
    BY <1>1 DEF Typed, TypeOK, Reconcile
  <1>. QED
    BY <1>2, WithinLoop DEF HaveLease, Looping

LEMMA ReconcileLeaseType ==
    ASSUME Typed, ReconcileLease
    PROVE  ServerOK' /\ WorkerOK' /\ Located'
  <1> DEFINE d == current
             after == scaleDownAfter(r.app, deploymentSpec)
             fresh == [owner |-> r.pr.uid, duration |-> leaseDuration(after),
                       renewTime |-> migratedRenewTime(r.pr.legacy[d], after, clock)]
             longer == [lease[d] EXCEPT !.duration = leaseDuration(after)]
  <1>1. pc \in Looping /\ d \in Deployment /\ after \in Nat /\ leaseDuration(after) \in Nat
    BY CurrentType, LeaseDurationType DEF ReconcileLease, Looping
  <1>2. migratedRenewTime(r.pr.legacy[d], after, clock) \in Nat
    <2>1. r.pr.legacy[d] \in Legacy
      BY <1>1, CurrentType DEF PullRequest
    <2>. QED
      BY <1>1, <2>1, MigratedType DEF Typed, TypeOK
  <1>3. fresh \in Lease /\ longer \in Lease /\ cLease[d] \in Lease
    BY <1>1, <1>2, CurrentType DEF Lease, Typed, TypeOK
  <1>4. \/ lease' = lease
        \/ lease' = [lease EXCEPT ![d] = fresh]
        \/ lease' = [lease EXCEPT ![d] = longer]
    BY DEF ReconcileLease
  <1>5. ServerOK'
    <2>1. lease' \in [Deployment -> Lease]
      BY <1>3, <1>4 DEF Typed, TypeOK
    <2>. QED
      BY <2>1 DEF ReconcileLease, Typed, TypeOK, ServerOK
  <1>6. \/ LoopError("InvalidHostTemplate") \/ LoopError("NameConflict")
        \/ LoopError("ReconcileFailed")
        \/ HaveLease(fresh) \/ HaveLease(longer) \/ HaveLease(cLease[d])
    BY DEF ReconcileLease
  <1>. QED
    BY <1>1, <1>3, <1>5, <1>6, HaveLeaseType, LoopErrorType DEF Reason

LEMMA RunningType ==
    ASSUME Typed, pc \in Looping, NEW w \in Workload
    PROVE  replicasOf(w) \in Nat
  BY CurrentType, MaxMinType DEF replicasOf, Workload

LEMMA ReconcileDeploymentType ==
    ASSUME Typed, ReconcileDeployment
    PROVE  ServerOK' /\ WorkerOK' /\ Located'
  <1> DEFINE d == current
             created == [owner |-> r.pr.uid, image |-> r.pr.image, env |-> r.pr.env[d],
                         template |-> r.app.template, scaled |-> 0,
                         replicas |-> IF running
                                      THEN Longest(deploymentSpec.replicas, 1) ELSE 0]
  <1>1. pc \in Looping /\ d \in Deployment
    BY CurrentType DEF ReconcileDeployment, Looping
  <1>2. created \in Workload
    <2>1. created.replicas \in Nat
      BY <1>1, CurrentType, MaxMinType
    <2>2. r.app.template \in Nat
      BY <1>1, CurrentType, ConfigType
    <2>3. r.pr.image \in Image \cup {NoImage} /\ r.pr.env[d] \in Env \cup {NoEnv}
      BY <1>1, CurrentType DEF PullRequest
    <2>. QED
      BY <1>1, <2>1, <2>2, <2>3, CurrentType DEF Workload
  <1>3. dep' = dep \/ dep' = [dep EXCEPT ![d] = created]
    BY DEF ReconcileDeployment
  <1>4. ServerOK'
    <2>1. dep' \in [Deployment -> Workload]
      BY <1>2, <1>3 DEF Typed, TypeOK
    <2>. QED
      BY <2>1 DEF ReconcileDeployment, Typed, TypeOK, ServerOK
  <1>5. r \in Reconcile /\ [r EXCEPT !.dep = cDep[d]] \in Reconcile
    BY <1>1 DEF Typed, TypeOK, Reconcile
  <1>6. \/ LoopError("NameConflict") \/ LoopError("ReconcileFailed")
        \/ Goto("service", r)
        \/ \E label \in Looping : Goto(label, [r EXCEPT !.dep = cDep[d]])
    BY DEF ReconcileDeployment, Looping
  <1>7. /\ [r EXCEPT !.dep = cDep[d]].pr = r.pr /\ [r EXCEPT !.dep = cDep[d]].app = r.app
        /\ [r EXCEPT !.dep = cDep[d]].i = r.i
    BY <1>5 DEF Reconcile
  <1>8. "service" \in Looping /\ "NameConflict" \in Reason /\ "ReconcileFailed" \in Reason
    BY DEF Looping, Reason
  <1>. QED
    BY <1>1, <1>4, <1>5, <1>6, <1>7, <1>8, WithinLoop, LoopErrorType

LEMMA RecheckType ==
    ASSUME Typed, Recheck
    PROVE  WorkerOK' /\ Located'
  <1> DEFINE locals == [r EXCEPT !.lease = lease[current]]
  <1>1. pc \in Looping /\ current \in Deployment
    BY CurrentType DEF Recheck, Looping
  <1>2. locals \in Reconcile /\ locals.pr = r.pr /\ locals.app = r.app /\ locals.i = r.i
    BY <1>1 DEF Typed, TypeOK, Reconcile
  <1>3. LoopError("ReconcileFailed") \/ Goto("patch", locals)
    BY DEF Recheck
  <1>4. "patch" \in Looping /\ "ReconcileFailed" \in Reason
    BY DEF Looping, Reason
  <1>. QED
    BY <1>1, <1>2, <1>3, <1>4, WithinLoop, LoopErrorType

LEMMA PatchedType ==
    ASSUME Typed, pc \in Looping, NEW w \in Workload
    PROVE  Patched(w) \in Workload
  <1> DEFINE rolled == [w EXCEPT !.image = r.pr.image, !.env = r.pr.env[current],
                                 !.template = r.app.template]
  <1>1. r.pr.image \in Image \cup {NoImage} /\ r.pr.env[current] \in Env \cup {NoEnv}
    BY CurrentType DEF PullRequest
  <1>2. r.app.template \in Nat
    BY CurrentType, ConfigType
  <1>3. rolled \in Workload
    BY <1>1, <1>2 DEF Workload
  <1>4. r.dep \in Workload
    BY DEF Typed, TypeOK, Reconcile
  <1>5. replicasOf(r.dep) \in Nat
    BY <1>4, RunningType
  <1>6. \A v \in Workload : [v EXCEPT !.replicas =
             IF replicasOf(r.dep) # r.dep.replicas THEN replicasOf(r.dep) ELSE @] \in Workload
    BY <1>5 DEF Workload
  <1>. QED
    BY <1>3, <1>6 DEF Patched

LEMMA PatchDeploymentType ==
    ASSUME Typed, PatchDeployment
    PROVE  ServerOK' /\ WorkerOK' /\ Located'
  <1>1. pc \in Looping /\ current \in Deployment
    BY CurrentType DEF PatchDeployment, Looping
  <1>2. Patched(dep[current]) \in Workload
    BY <1>1, PatchedType DEF Typed, TypeOK
  <1>3. dep' = dep \/ dep' = [dep EXCEPT ![current] = Patched(dep[current])]
    BY DEF PatchDeployment
  <1>4. dep' \in [Deployment -> Workload]
    BY <1>2, <1>3 DEF Typed, TypeOK
  <1>5. ServerOK'
    BY <1>4 DEF PatchDeployment, Typed, TypeOK, ServerOK
  <1>6. LoopError("ReconcileFailed") \/ Goto("service", r)
    BY DEF PatchDeployment
  <1>7. r \in Reconcile /\ "service" \in Looping /\ "ReconcileFailed" \in Reason
    BY DEF Typed, TypeOK, Looping, Reason
  <1>. QED
    BY <1>1, <1>5, <1>6, <1>7, WithinLoop, LoopErrorType

LEMMA ReconcileServiceType ==
    ASSUME Typed, ReconcileService
    PROVE  ServerOK' /\ WorkerOK' /\ Located'
  <1> DEFINE after == scaleDownAfter(r.app, deploymentSpec)
             active == lastActive(r.lease, r.pr, startOnDeploy(r.app, deploymentSpec))
             next == [r EXCEPT
                 !.activity = Longest(@, r.lease.renewTime),
                 !.wait = earliest(@, scaleDownIn(active, after, r.now)),
                 !.lease = NoLease, !.dep = NoWorkload]
  <1>1. pc \in Looping /\ current \in Deployment /\ after \in Nat
    BY CurrentType DEF ReconcileService, Looping
  <1>2. r \in Reconcile /\ r.lease \in Lease /\ r.pr \in PullRequest
        /\ r.lease.renewTime \in Nat
    BY DEF Typed, TypeOK, Reconcile, Lease
  <1>3. active \in Nat
    BY <1>1, <1>2, CurrentType, LastActiveType
  <1>4. scaleDownIn(active, after, r.now) \in Nat
    BY <1>1, <1>2, <1>3, ScaleDownInType DEF Reconcile
  <1>5. /\ Longest(r.activity, r.lease.renewTime) \in Nat
        /\ earliest(r.wait, scaleDownIn(active, after, r.now)) \in Nat
    BY <1>2, <1>4, MaxMinType DEF Reconcile
  <1>6. next \in Reconcile /\ next.pr = r.pr /\ next.app = r.app
    BY <1>2, <1>5, NothingType DEF Reconcile
  <1>7. ServerOK'
    <2>1. svc' = svc \/ svc' = [svc EXCEPT ![current] = r.pr.uid]
      BY DEF ReconcileService
    <2>2. svc' \in [Deployment -> Owner]
      BY <1>1, <2>1, CurrentType DEF Typed, TypeOK
    <2>. QED
      BY <2>2 DEF ReconcileService, Typed, TypeOK, ServerOK
  <1>8. LoopError("ReconcileFailed") \/ LoopError("NameConflict") \/ NextOrReport(next)
    BY DEF ReconcileService
  <1>9. "ReconcileFailed" \in Reason /\ "NameConflict" \in Reason
    BY DEF Reason
  <1>. QED
    BY <1>1, <1>6, <1>7, <1>8, <1>9, CurrentType, NextOrReportType, LoopErrorType

LEMMA ReportedType ==
    ASSUME Typed
    PROVE  Reported \in PullRequest
  <1>1. r \in Reconcile /\ pr \in PullRequest /\ r.pr \in PullRequest
    BY DEF Typed, TypeOK, Reconcile
  <1>2. conditionReason \in Reason
    BY <1>1 DEF conditionReason, Reconcile, Reason
  <1>3. pr.listed \cup (r.done \ r.pr.listed) \in SUBSET Deployment
    BY <1>1 DEF Reconcile, PullRequest
  <1>4. [d \in Deployment |->
             IF d \in r.done /\ r.pr.legacy[d] # NoLegacy THEN NoLegacy ELSE pr.legacy[d]]
        \in [Deployment -> Legacy]
    BY <1>1 DEF PullRequest, NoLegacy, Legacy
  <1>5. r.pr.gen \in Nat
    BY <1>1 DEF PullRequest
  <1>. QED
    BY <1>1, <1>2, <1>3, <1>4, <1>5 DEF Reported, PullRequest

LEMMA LookAgainType ==
    ASSUME Typed, r.app \in Configs, ~inactive
    PROVE  lookAgain \in Nat
  <1>1. deleteAfter \in Nat
    BY ConfigType DEF deleteAfter
  <1>2. r.activity \in Nat /\ r.now \in Nat /\ r.wait \in Nat
    BY DEF Typed, TypeOK, Reconcile
  <1>3. r.activity + deleteAfter - r.now + Second \in Nat
    BY <1>1, <1>2, SecondAssumption DEF inactive
  <1>. QED
    BY <1>2, <1>3, MaxMinType DEF lookAgain

LEMMA ReportType ==
    ASSUME Typed, Report
    PROVE  ServerOK' /\ WorkerOK' /\ Located'
  <1>1. r \in Reconcile /\ r.wait \in Nat /\ r.app \in Configs /\ r.pr.uid # 0
    BY DEF Report, Typed, TypeOK, Reconcile, Located
  <1>2. ServerOK'
    <2>1. pr' = pr \/ pr' = Reported
      BY DEF Report
    <2>2. pr' \in PullRequest
      BY <2>1, ReportedType DEF Typed, TypeOK
    <2>. QED
      BY <2>2 DEF Report, Typed, TypeOK, ServerOK
  <1>3. Fail \/ Done(r.wait) \/ (~inactive /\ Done(lookAgain)) \/ Goto("inactive", r)
    BY DEF Report
  <1>4. CASE Goto("inactive", r)
    <2>1. WorkerOK'
      BY <1>1, <1>4, GotoType DEF Label
    <2>. QED
      BY <1>1, <1>2, <1>4, <2>1 DEF Located, Goto, Looping
  <1>. QED
    BY <1>1, <1>2, <1>3, <1>4, FailType, DoneType, LookAgainType

LEMMA InactiveType ==
    ASSUME Typed, Inactive
    PROVE  WorkerOK' /\ Located'
  <1> DEFINE locals == [r EXCEPT !.fresh = pr, !.activity = deployedAt(pr), !.i = 1]
             label == IF r.app.deployments = <<>> THEN "delete" ELSE "leases"
  <1>1. r \in Reconcile /\ r.wait \in Nat /\ r.app \in Configs /\ r.pr.uid # 0
    BY DEF Inactive, Typed, TypeOK, Reconcile, Located, Looping
  <1>2. deployedAt(pr) \in Nat
    BY DeployedAtType DEF Typed, TypeOK
  <1>3. locals \in Reconcile /\ locals.pr = r.pr /\ locals.app = r.app /\ locals.i = 1
    BY <1>1, <1>2 DEF Reconcile, Typed, TypeOK
  <1>4. Done(r.wait) \/ Goto(label, locals)
    BY DEF Inactive
  <1>5. CASE Goto(label, locals)
    <2>1. WorkerOK'
      BY <1>3, <1>5, GotoType DEF Label
    <2>2. r.app.deployments # <<>> => 1 \in 1..Len(r.app.deployments)
      BY <1>1, ConfigType DEF AppSpec
    <2>. QED
      BY <1>1, <1>3, <1>5, <2>1, <2>2 DEF Located, Goto, Looping
  <1>. QED
    BY <1>1, <1>4, <1>5, DoneType

LEMMA RereadLeaseType ==
    ASSUME Typed, RereadLease
    PROVE  WorkerOK' /\ Located'
  <1>1. r \in Reconcile /\ r.app \in Configs /\ r.pr.uid # 0 /\ current \in Deployment
        /\ r.i \in 1..Len(r.app.deployments) /\ Len(r.app.deployments) \in Nat
    BY CurrentType, ConfigType DEF RereadLease, Typed, TypeOK, Located, Looping
  <1>2. Longest(r.activity, lease[current].renewTime) \in Nat
    BY <1>1, MaxMinType DEF Typed, TypeOK, Reconcile, Lease
  <1>3. /\ r' \in Reconcile /\ r'.pr = r.pr /\ r'.app = r.app
        /\ r'.i = IF r.i < Len(r.app.deployments) THEN r.i + 1 ELSE r.i
    <2> DEFINE activity == Longest(r.activity, lease[current].renewTime)
               i == IF r.i < Len(r.app.deployments) THEN r.i + 1 ELSE r.i
    <2>1. r' = [r EXCEPT !.activity = activity, !.i = i]
      BY DEF RereadLease
    <2>2. activity \in Nat /\ i \in Nat
      BY <1>1, <1>2
    <2> HIDE DEF activity, i
    <2>3. r' \in Reconcile /\ r'.pr = r.pr /\ r'.app = r.app /\ r'.i = i
      BY <1>1, <2>1, <2>2 DEF Reconcile
    <2>. QED
      BY <2>3 DEF i
  <1>4. WorkerOK'
    BY <1>3 DEF RereadLease, Typed, TypeOK, WorkerOK, workqueue, Label
  <1>5. Located'
    BY <1>1, <1>3 DEF RereadLease, Located, Looping
  <1>. QED
    BY <1>4, <1>5

LEMMA DeleteInactiveType ==
    ASSUME Typed, DeleteInactive
    PROVE  ServerOK' /\ WorkerOK' /\ Located'
  <1>1. r.app \in Configs /\ r.wait \in Nat
    BY DEF DeleteInactive, Typed, TypeOK, Reconcile, Located
  <1>2. ServerOK'
    <2>1. pr' = pr \/ pr' = NoPr
      BY DEF DeleteInactive
    <2>. QED
      BY <2>1, NothingType DEF DeleteInactive, Typed, TypeOK, ServerOK
  <1>3. (~inactive /\ Done(lookAgain)) \/ Done(0) \/ Done(earliest(r.wait, Second))
    BY DEF DeleteInactive
  <1>4. earliest(r.wait, Second) \in Nat
    BY <1>1, MaxMinType, SecondAssumption
  <1>. QED
    BY <1>1, <1>2, <1>3, <1>4, DoneType, LookAgainType

LEMMA SpendType ==
    ASSUME Typed, NEW event \in Event, Spend(event)
    PROVE  left' \in [Event -> Nat]
  BY DEF Typed, TypeOK, Spend

LEMMA FaultType ==
    ASSUME Typed, Fault
    PROVE  WorkerOK' /\ Located' /\ left' \in [Event -> Nat]
  <1>1. Fail \/ (pc \in Looping /\ LoopError("ReconcileFailed"))
    BY DEF Fault, Looping
  <1>2. "ReconcileFailed" \in Reason /\ "fault" \in Event
    BY DEF Reason, Event
  <1>. QED
    BY <1>1, <1>2, FailType, LoopErrorType, SpendType DEF Fault

-----------------------------------------------------------------------------
(* Type correctness, the steps of the others.                              *)

LEMMA DeliverType ==
    ASSUME Typed, Deliver
    PROVE  Typed'
  <1>1. UNCHANGED <<clock, pr, app, lease, dep, svc, pc, r, raced, renewal,
                    deploying, born, left>>
    BY DEF Deliver, DeliverPr, DeliverApp, TimerFires, DeliverLease, DeliverDep,
           DeliverSvc, server, local, others
  <1>2. queued' \in BOOLEAN
    <2>1. CASE DeliverPr \/ DeliverApp \/ TimerFires
      BY <2>1, Zenon DEF DeliverPr, DeliverApp, TimerFires
    <2>2. CASE \E d \in Deployment : DeliverLease(d) \/ DeliverDep(d) \/ DeliverSvc(d)
      BY <2>2, Zenon DEF DeliverLease, DeliverDep, DeliverSvc
    <2>. QED
      BY <2>1, <2>2 DEF Deliver
  <1>3. timer' \in Nat
    <2>1. timer' = timer \/ timer' = 0
      BY DEF Deliver, DeliverPr, DeliverApp, TimerFires, DeliverLease, DeliverDep,
             DeliverSvc
    <2>. QED
      BY <2>1 DEF Typed, TypeOK
  <1>4. InformerOK'
    BY DEF Deliver, DeliverPr, DeliverApp, TimerFires, DeliverLease, DeliverDep,
           DeliverSvc, informer, InformerOK, Typed, TypeOK
  <1>5. WorkerOK'
    BY <1>1, <1>2, <1>3 DEF WorkerOK, Typed, TypeOK, Label
  <1>6. ServerOK' /\ OthersOK'
    BY <1>1 DEF ServerOK, OthersOK, Typed, TypeOK
  <1>7. Located'
    BY <1>1 DEF Typed, Located
  <1>. QED
    BY <1>4, <1>5, <1>6, <1>7 DEF Typed, TypeOK, ServerOK, InformerOK, WorkerOK, OthersOK, Label

LEMMA CrashType ==
    ASSUME Typed, Crash
    PROVE  Typed'
  <1>1. WorkerOK' /\ Located'
    BY NothingType DEF Crash, WorkerOK, Located, Looping, Label
  <1>2. left' \in [Event -> Nat]
    BY SpendType DEF Crash, Event
  <1>3. ServerOK' /\ InformerOK' /\ OthersOK'
    BY <1>2 DEF Crash, server, informer, ServerOK, InformerOK, OthersOK, Typed, TypeOK
  <1>. QED
    BY <1>1, <1>3 DEF Typed, TypeOK, ServerOK, InformerOK, WorkerOK, OthersOK, Label

(* What Reconcile and the informers have no part in.                       *)
LEMMA ElsewhereType ==
    ASSUME Typed, UNCHANGED <<informer, workqueue, pc, r>>,
           raced' \in BOOLEAN, ServerOK', OthersOK'
    PROVE  Typed'
  <1>1. WorkerOK' /\ InformerOK'
    BY DEF informer, workqueue, Typed, TypeOK, WorkerOK, InformerOK, Label
  <1>2. Located'
    BY DEF Typed, Located
  <1>. QED
    BY <1>1, <1>2 DEF Typed, TypeOK, ServerOK, InformerOK, WorkerOK, OthersOK, Label

LEMMA RenewalType ==
    ASSUME Typed, NEW f \in Forwarder,
           \/ ApplyRenewal(f) \/ LoseRenewal(f)
           \/ \E d \in Deployment : SendRenewal(f, d)
    PROVE  Typed'
  <1>1. UNCHANGED <<clock, pr, app, dep, svc, informer, workqueue, pc, r, deploying, born>>
    BY DEF SendRenewal, ApplyRenewal, LoseRenewal, server, local
  <1>2. left' \in [Event -> Nat]
    BY SpendType DEF SendRenewal, ApplyRenewal, LoseRenewal, Event, Typed, TypeOK
  <1>3. raced' \in BOOLEAN
    <2>1. UNCHANGED raced \/ raced' = (raced \/ pc \in {"patch", "leases", "delete"})
      BY DEF SendRenewal, ApplyRenewal, LoseRenewal, local
    <2>. QED
      BY <2>1, Zenon DEF Typed, TypeOK
  <1>4. renewal' \in [Forwarder -> [deployment: Deployment, at: Nat] \cup {NoRenewal}]
    BY DEF SendRenewal, ApplyRenewal, LoseRenewal, Typed, TypeOK
  <1>5. lease' \in [Deployment -> Lease]
    <2>1. CASE ApplyRenewal(f)
      <3> DEFINE on == renewal[f].deployment
      <3>1. renewal[f] \in [deployment: Deployment, at: Nat]
        BY <2>1 DEF ApplyRenewal, Typed, TypeOK
      <3>2. on \in Deployment /\ renewal[f].at \in Nat /\ lease[on] \in Lease
        BY <3>1 DEF Typed, TypeOK
      <3>3. [lease[on] EXCEPT !.renewTime = renewal[f].at] \in Lease
        BY <3>2 DEF Lease
      <3>4. \/ lease' = lease
            \/ lease' = [lease EXCEPT ![on] = [lease[on] EXCEPT !.renewTime = renewal[f].at]]
        BY <2>1 DEF ApplyRenewal
      <3>. QED
        BY <3>2, <3>3, <3>4 DEF Typed, TypeOK
    <2>2. CASE ~ApplyRenewal(f)
      BY <2>2 DEF SendRenewal, LoseRenewal, server, Typed, TypeOK
    <2>. QED
      BY <2>1, <2>2
  <1>6. ServerOK' /\ OthersOK'
    BY <1>1, <1>2, <1>4, <1>5 DEF ServerOK, OthersOK, Typed, TypeOK
  <1>. QED
    BY <1>1, <1>3, <1>6, ElsewhereType

LEMMA CreatedType ==
    ASSUME Typed, NEW i \in Image \cup {NoImage}
    PROVE  Created(i) \in PullRequest
  <1>1. Truncate(clock) \in Nat /\ born + 1 \in Nat
    BY TruncateType DEF Typed, TypeOK
  <1>. QED
    BY <1>1, NothingType DEF Created, PullRequest

LEMMA DeployType ==
    ASSUME Typed, (\E i \in Image : StartDeploy(i)) \/ WriteSpec \/ WriteStatus
    PROVE  Typed'
  <1>1. UNCHANGED <<clock, app, lease, dep, svc, informer, workqueue, pc, r, raced, renewal>>
    BY DEF StartDeploy, WriteSpec, WriteStatus, server, local
  <1>2. left' \in [Event -> Nat] /\ born' \in Nat
    BY SpendType DEF StartDeploy, WriteSpec, WriteStatus, Event, Typed, TypeOK
  <1>3. deploying' \in [phase: {"none", "spec", "status"},
                        image: Image \cup {NoImage}, at: Nat]
    BY TruncateType DEF StartDeploy, WriteSpec, WriteStatus, NoDeploy, Typed, TypeOK
  <1>4. pr' \in PullRequest
    <2>1. pr \in PullRequest /\ deploying.at \in Nat
          /\ deploying.image \in Image \cup {NoImage}
      BY DEF Typed, TypeOK
    <2>2. \/ pr' = pr
          \/ pr' = Created(deploying.image)
          \/ pr' = [pr EXCEPT !.image = deploying.image, !.gen = @ + 1]
          \/ pr' = [pr EXCEPT !.deployedAt = deploying.at]
      BY DEF StartDeploy, WriteSpec, WriteStatus, server
    <2>3. Created(deploying.image) \in PullRequest
      BY <2>1, CreatedType
    <2>4. pr.gen + 1 \in Nat
      BY <2>1 DEF PullRequest
    <2>5. [pr EXCEPT !.image = deploying.image, !.gen = pr.gen + 1] \in PullRequest
      BY <2>1, <2>4 DEF PullRequest
    <2>6. [pr EXCEPT !.deployedAt = deploying.at] \in PullRequest
      BY <2>1 DEF PullRequest
    <2>. QED
      BY <2>1, <2>2, <2>3, <2>5, <2>6
  <1>5. ServerOK' /\ OthersOK'
    BY <1>1, <1>2, <1>3, <1>4 DEF ServerOK, OthersOK, Typed, TypeOK
  <1>6. raced' \in BOOLEAN
    BY <1>1 DEF Typed, TypeOK
  <1>. QED
    BY <1>1, <1>5, <1>6, ElsewhereType

LEMMA EditType ==
    ASSUME Typed,
           \/ Close \/ (\E c \in Configs : EditConfig(c))
           \/ (\E d \in Deployment, e \in Env \cup {NoEnv} : EditOverrides(d, e))
    PROVE  Typed'
  <1>1. UNCHANGED <<clock, lease, dep, svc, informer, workqueue, pc, r, raced, renewal,
                    deploying, born>>
    BY DEF Close, EditConfig, EditOverrides, local
  <1>2. left' \in [Event -> Nat]
    BY SpendType DEF Close, EditConfig, EditOverrides, Event
  <1>3. app' \in Configs \cup {NoApp}
    BY DEF Close, EditConfig, EditOverrides, Typed, TypeOK
  <1>4. pr' \in PullRequest
    <2>1. pr \in PullRequest
      BY DEF Typed, TypeOK
    <2>2. ASSUME NEW d \in Deployment, NEW e \in Env \cup {NoEnv}
          PROVE  [pr EXCEPT !.env[d] = e, !.gen = @ + 1] \in PullRequest
      <3>1. pr.gen + 1 \in Nat /\ [pr.env EXCEPT ![d] = e] \in [Deployment -> Env \cup {NoEnv}]
        BY <2>1 DEF PullRequest
      <3>2. [pr EXCEPT !.env[d] = e, !.gen = @ + 1]
                = [pr EXCEPT !.env = [pr.env EXCEPT ![d] = e], !.gen = pr.gen + 1]
        BY <2>1 DEF PullRequest
      <3>3. [pr EXCEPT !.env = [pr.env EXCEPT ![d] = e], !.gen = pr.gen + 1] \in PullRequest
        BY <2>1, <3>1 DEF PullRequest
      <3>. QED
        BY <3>2, <3>3
    <2>3. \/ pr' = pr \/ pr' = NoPr
          \/ \E d \in Deployment, e \in Env \cup {NoEnv} :
                pr' = [pr EXCEPT !.env[d] = e, !.gen = @ + 1]
      BY DEF Close, EditConfig, EditOverrides
    <2>. QED
      BY <2>1, <2>2, <2>3, NothingType
  <1>5. ServerOK' /\ OthersOK'
    BY <1>1, <1>2, <1>3, <1>4 DEF ServerOK, OthersOK, Typed, TypeOK
  <1>6. raced' \in BOOLEAN
    BY <1>1 DEF Typed, TypeOK
  <1>. QED
    BY <1>1, <1>5, <1>6, ElsewhereType

LEMMA ObjectsType ==
    ASSUME Typed, NEW d \in Deployment,
           \/ Collect(d) \/ OtherTakes(d) \/ OtherLeaves(d)
           \/ (\E n \in 0..2 : Scale(d, n))
    PROVE  Typed'
  <1>1. UNCHANGED <<clock, pr, app, informer, workqueue, pc, r, raced, renewal,
                    deploying, born>>
    BY DEF Collect, OtherTakes, OtherLeaves, Scale, local, others
  <1>2. left' \in [Event -> Nat]
    BY SpendType DEF Collect, OtherTakes, OtherLeaves, Scale, others, Event, Typed, TypeOK
  <1>3. lease' \in [Deployment -> Lease]
    <2>1. \/ lease' = lease
          \/ lease' = [lease EXCEPT ![d] = NoLease]
          \/ lease' = [lease EXCEPT ![d] = [lease[d] EXCEPT !.owner = Other]]
      BY DEF Collect, OtherTakes, OtherLeaves, Scale
    <2>2. [lease[d] EXCEPT !.owner = Other] \in Lease
      BY DEF Typed, TypeOK, Lease
    <2>. QED
      BY <2>1, <2>2, NothingType DEF Typed, TypeOK
  <1>4. dep' \in [Deployment -> Workload]
    <2>1. \/ dep' = dep
          \/ dep' = [dep EXCEPT ![d] = NoWorkload]
          \/ dep' = [dep EXCEPT ![d] = [dep[d] EXCEPT !.owner = Other]]
          \/ \E n \in 0..2 : dep' = [dep EXCEPT ![d] =
                  [dep[d] EXCEPT !.replicas = n, !.scaled = dep[d].scaled + 1]]
      BY DEF Collect, OtherTakes, OtherLeaves, Scale
    <2>2. dep[d] \in Workload
      BY DEF Typed, TypeOK
    <2>3. [dep[d] EXCEPT !.owner = Other] \in Workload
      BY <2>2 DEF Workload
    <2>4. ASSUME NEW n \in 0..2
          PROVE  [dep[d] EXCEPT !.replicas = n, !.scaled = dep[d].scaled + 1] \in Workload
      <3>1. n \in Nat /\ dep[d].scaled + 1 \in Nat
        BY <2>2 DEF Workload
      <3>. QED
        BY <2>2, <3>1 DEF Workload
    <2>. QED
      BY <2>1, <2>3, <2>4, NothingType DEF Typed, TypeOK
  <1>5. svc' \in [Deployment -> Owner]
    <2>1. svc' = svc \/ svc' = [svc EXCEPT ![d] = Nobody] \/ svc' = [svc EXCEPT ![d] = Other]
      BY DEF Collect, OtherTakes, OtherLeaves, Scale
    <2>. QED
      BY <2>1 DEF Typed, TypeOK
  <1>6. ServerOK' /\ OthersOK'
    BY <1>1, <1>2, <1>3, <1>4, <1>5 DEF ServerOK, OthersOK, Typed, TypeOK
  <1>7. raced' \in BOOLEAN
    BY <1>1 DEF Typed, TypeOK
  <1>. QED
    BY <1>1, <1>6, <1>7, ElsewhereType

LEMMA TickType ==
    ASSUME Typed, Tick
    PROVE  Typed'
  <1>1. left' \in [Event -> Nat] /\ clock' \in Nat
    BY SpendType DEF Tick, Event, Typed, TypeOK
  <1>2. UNCHANGED <<pr, app, lease, dep, svc, informer, workqueue, pc, r, raced, renewal,
                    deploying, born>>
    BY DEF Tick, server, local
  <1>3. ServerOK' /\ OthersOK' /\ raced' \in BOOLEAN
    BY <1>1, <1>2 DEF ServerOK, OthersOK, Typed, TypeOK
  <1>. QED
    BY <1>2, <1>3, ElsewhereType

LEMMA ReconcileStepType ==
    ASSUME Typed, ReconcileStep
    PROVE  Typed'
  <1>1. ServerOK'
    <2>1. CASE Begin \/ List \/ Recheck \/ Inactive \/ RereadLease
      BY <2>1 DEF Begin, List, Recheck, Inactive, RereadLease, server,
                  ServerOK, Typed, TypeOK
    <2>2. CASE ReportMissing \/ Own \/ (\E d \in Deployment : DeleteUnlisted(d))
      BY <2>2, ReportMissingType, OwnType, DeleteUnlistedType
    <2>3. CASE ReconcileLease \/ ReconcileDeployment \/ PatchDeployment \/ ReconcileService
      BY <2>3, ReconcileLeaseType, ReconcileDeploymentType, PatchDeploymentType,
         ReconcileServiceType
    <2>4. CASE Report \/ DeleteInactive
      BY <2>4, ReportType, DeleteInactiveType
    <2>. QED
      BY <2>1, <2>2, <2>3, <2>4 DEF ReconcileStep
  <1>2. WorkerOK' /\ Located'
    BY BeginType, ReportMissingType, OwnType, ListType, DeleteUnlistedType,
       ReconcileLeaseType, ReconcileDeploymentType, RecheckType, PatchDeploymentType,
       ReconcileServiceType, ReportType, InactiveType, RereadLeaseType,
       DeleteInactiveType
    DEF ReconcileStep
  <1>3. UNCHANGED <<clock, informer, others>>
    BY DEF ReconcileStep, Begin, ReportMissing, Own, List, DeleteUnlisted,
           ReconcileLease, ReconcileDeployment, Recheck, PatchDeployment,
           ReconcileService, Report, Inactive, RereadLease, DeleteInactive
  <1>4. InformerOK' /\ OthersOK'
    BY <1>3 DEF informer, others, InformerOK, OthersOK, Typed, TypeOK
  <1>. QED
    BY <1>1, <1>2, <1>4 DEF Typed, TypeOK, ServerOK, InformerOK, WorkerOK, OthersOK, Label

LEMMA FaultTyped ==
    ASSUME Typed, Fault
    PROVE  Typed'
  <1>1. UNCHANGED <<clock, server, informer, renewal, deploying, born>>
    BY DEF Fault
  <1>2. ServerOK' /\ InformerOK' /\ OthersOK'
    BY <1>1, FaultType DEF server, informer, ServerOK, InformerOK, OthersOK, Typed, TypeOK
  <1>. QED
    BY <1>2, FaultType DEF Typed, TypeOK, ServerOK, InformerOK, WorkerOK, OthersOK, Label

LEMMA TypedStep ==
    ASSUME Typed, [Next]_vars
    PROVE  Typed'
  <1>1. CASE ReconcileStep
    BY <1>1, ReconcileStepType
  <1>2. CASE Deliver
    BY <1>2, DeliverType
  <1>3. CASE Environment
    <2>1. CASE Tick \/ Fault \/ Crash
      BY <2>1, TickType, FaultTyped, CrashType
    <2>2. CASE \E f \in Forwarder : \/ ApplyRenewal(f) \/ LoseRenewal(f)
                                   \/ \E d \in Deployment : SendRenewal(f, d)
      BY <2>2, RenewalType
    <2>3. CASE (\E i \in Image : StartDeploy(i)) \/ WriteSpec \/ WriteStatus
      BY <2>3, DeployType
    <2>4. CASE Close \/ \E c \in Configs : EditConfig(c)
      BY <2>4, EditType
    <2>5. CASE \E d \in Deployment :
                  \/ Collect(d) \/ OtherTakes(d) \/ OtherLeaves(d)
                  \/ \E n \in 0..2 : Scale(d, n)
      BY <2>5, ObjectsType
    <2>6. CASE \E d \in Deployment : \E e \in Env \cup {NoEnv} : EditOverrides(d, e)
      BY <2>6, EditType
    <2>. QED
      BY <1>3, <2>1, <2>2, <2>3, <2>4, <2>5, <2>6 DEF Environment
  <1>4. CASE UNCHANGED vars
    BY <1>4 DEF vars, server, informer, workqueue, local, others, Typed, TypeOK, Located
  <1>. QED
    BY <1>1, <1>2, <1>3, <1>4 DEF Next

-----------------------------------------------------------------------------
(* Type correctness, the initial states.                                   *)

LEMMA SpecOfType ==
    ASSUME NEW c \in Configs, NEW d \in Names(c)
    PROVE  /\ d \in Deployment
           /\ scaleDownAfter(c, SpecOf(c, d)) \in Nat
  <1>1. PICK i \in 1..Len(c.deployments) : d = c.deployments[i].name
    BY DEF Names
  <1>2. \E s \in Specs(c) : s.name = d
    BY <1>1 DEF Specs
  <1>3. SpecOf(c, d) \in Specs(c)
    BY <1>2 DEF SpecOf
  <1>4. PICK j \in 1..Len(c.deployments) : SpecOf(c, d) = c.deployments[j]
    BY <1>3 DEF Specs
  <1>. QED
    BY <1>1, <1>4, DeploymentSpecType

LEMMA PrOfType ==
    ASSUME NEW c \in Configs, NEW l \in [Deployment -> Legacy]
    PROVE  PrOf(c, l) \in PullRequest
  <1>1. Names(c) \subseteq Deployment
    BY SpecOfType
  <1>2. Truncate(Start) \in Nat
    BY TruncateType, ControllerAssumption
  <1>3. NoPr.env \in [Deployment -> Env \cup {NoEnv}]
    BY NothingType DEF NoPr
  <1>. QED
    BY <1>1, <1>2, <1>3, NothingType DEF PrOf, PullRequest, Reason

LEMMA MadeType ==
    ASSUME NEW t \in Nat, NEW n \in Nat
    PROVE  [NoWorkload EXCEPT !.owner = 1, !.template = t, !.replicas = n] \in Workload
  <1>1. NoWorkload \in Workload
    BY NothingType
  <1>2. [NoWorkload EXCEPT !.owner = 1] \in Workload
    BY <1>1 DEF Workload
  <1>3. \A w \in Workload : [w EXCEPT !.template = t] \in Workload
    BY DEF Workload
  <1>4. \A w \in Workload : [w EXCEPT !.replicas = n] \in Workload
    BY DEF Workload
  <1>. QED
    BY <1>2, <1>3, <1>4

LEMMA InitObjectsType ==
    ASSUME app \in Configs \cup {NoApp},
           \/ app # NoApp /\ (InitUpgraded \/ InitReconciled)
           \/ InitNew
    PROVE  /\ pr \in PullRequest
           /\ lease \in [Deployment -> Lease]
           /\ dep \in [Deployment -> Workload]
  <1>1. NoLegacy \in Legacy
    BY DEF NoLegacy, Legacy
  <1>2. CASE app # NoApp /\ InitUpgraded
    <2>1. PICK l \in Recorded(app) :
              /\ pr = PrOf(app, l)
              /\ lease = [d \in Deployment |-> NoLease]
              /\ dep = [d \in Deployment |->
                          IF d \in Names(app)
                          THEN [NoWorkload EXCEPT !.owner = 1, !.template = app.template,
                                                  !.replicas = IF l[d].isActive THEN 1 ELSE 0]
                          ELSE NoWorkload]
      BY <1>2 DEF InitUpgraded
    <2>2. l \in [Deployment -> Legacy]
      BY TruncateType, ControllerAssumption DEF Recorded, Legacy
    <2>. QED
      BY <1>2, <2>1, <2>2, ConfigType, MadeType, PrOfType, NothingType
  <1>3. CASE app # NoApp /\ InitReconciled
    <2>1. PICK visited \in SUBSET Names(app) :
              /\ pr = PrOf(app, [d \in Deployment |-> NoLegacy])
              /\ lease = [d \in Deployment |->
                   IF d \in Names(app)
                   THEN [owner |-> 1, renewTime |-> IF d \in visited THEN Start ELSE 0,
                         duration |-> leaseDuration(scaleDownAfter(app, SpecOf(app, d)))]
                   ELSE NoLease]
              /\ dep = [d \in Deployment |->
                   IF d \in Names(app)
                   THEN [NoWorkload EXCEPT !.owner = 1, !.template = app.template,
                           !.replicas =
                               IF d \in visited \/ startOnDeploy(app, SpecOf(app, d))
                               THEN 1 ELSE 0]
                   ELSE NoWorkload]
      BY <1>3 DEF InitReconciled
    <2>2. pr \in PullRequest
      BY <1>1, <1>3, <2>1, PrOfType
    <2>3. lease \in [Deployment -> Lease]
      <3>1. ASSUME NEW d \in Names(app), NEW t \in {0, Start}
            PROVE  [owner |-> 1, renewTime |-> t,
                    duration |-> leaseDuration(scaleDownAfter(app, SpecOf(app, d)))] \in Lease
        BY <1>3, SpecOfType, LeaseDurationType, ControllerAssumption DEF Lease
      <3>. QED
        BY <2>1, <3>1, NothingType
    <2>4. dep \in [Deployment -> Workload]
      BY <1>3, <2>1, ConfigType, MadeType, NothingType
    <2>. QED
      BY <2>2, <2>3, <2>4
  <1>4. CASE InitNew
    BY <1>4, NothingType DEF InitNew
  <1>. QED
    BY <1>2, <1>3, <1>4

LEMMA TypedInit ==
    ASSUME Init
    PROVE  Typed
  <1>1. app \in Configs \cup {NoApp}
    BY DEF Init
  <1>2. /\ pr \in PullRequest /\ lease \in [Deployment -> Lease]
        /\ dep \in [Deployment -> Workload]
    BY <1>1, InitObjectsType DEF Init
  <1>3. svc \in [Deployment -> Owner] /\ born \in Nat
    BY <1>2 DEF Init, Workload, PullRequest
  <1>4. ServerOK /\ InformerOK
    BY <1>1, <1>2, <1>3 DEF Init, ServerOK, InformerOK
  <1>5. WorkerOK
    BY NothingType DEF Init, WorkerOK, Label
  <1>6. OthersOK
    BY <1>3, ControllerAssumption DEF Init, OthersOK, NoDeploy
  <1>7. Located
    BY DEF Init, Located, Looping
  <1>. QED
    BY <1>4, <1>5, <1>6, <1>7 DEF Typed, TypeOK, ServerOK, InformerOK, WorkerOK, OthersOK, Label

LEMMA TypedAlways == Spec => []Typed
  <1>. QED
    BY TypedInit, TypedStep, PTL DEF Spec

(* Every variable keeps its type, whatever the ReviewAppConfig and however  *)
(* many events, crashes and failing calls there are: no duration becomes    *)
(* negative, and Reconcile never reads past the deployments of the spec     *)
(* that it began with.                                                      *)
THEOREM TypeCorrect == Spec => []TypeOK
  BY TypedAlways, PTL DEF Typed
=============================================================================
