---------------------------- MODULE OnDemandProofs ----------------------------
(***************************************************************************)
(* PullRequestController implements OnDemand, for every set of             *)
(* deployments, every ReviewAppConfig and any number of events: each       *)
(* deployment is started, stopped and removed as OnDemand promises, and    *)
(* that it was used is not forgotten.                                      *)
(***************************************************************************)
EXTENDS PullRequestControllerProofs

USE DEF Nobody, Other, Owner

-----------------------------------------------------------------------------
(* What each kind of object is changed by.                                 *)

LEMMA LeaseFrame ==
    ASSUME [Next]_vars
    PROVE  \/ lease' = lease \/ ReconcileLease
           \/ \E f \in Forwarder : ApplyRenewal(f)
           \/ \E e \in Deployment : Collect(e) \/ OtherLeaves(e) \/ OtherTakes(e)
  <1>1. CASE ReconcileStep
    BY <1>1 DEF ReconcileStep, server, Begin, ReportMissing, Own, List, DeleteUnlisted,
       ReconcileDeployment, Recheck, PatchDeployment, ReconcileService, Report,
       Inactive, RereadLease, DeleteInactive
  <1>2. CASE ~ReconcileStep
    BY <1>2 DEF Next, vars, server, Deliver, DeliverPr, DeliverApp, TimerFires,
       DeliverLease, DeliverDep, DeliverSvc, Environment, Tick, Fault, Crash,
       LoseRenewal, SendRenewal, StartDeploy, WriteSpec, WriteStatus, Close,
       EditConfig, EditOverrides, Scale
  <1>. QED
    BY <1>1, <1>2

LEMMA DepFrame ==
    ASSUME [Next]_vars
    PROVE  \/ dep' = dep \/ ReconcileDeployment \/ PatchDeployment
           \/ \E e \in Deployment : \/ DeleteUnlisted(e) \/ Collect(e)
                                    \/ OtherLeaves(e) \/ OtherTakes(e)
                                    \/ \E n \in 0..2 : Scale(e, n)
  <1>1. CASE ReconcileStep
    BY <1>1 DEF ReconcileStep, server, Begin, ReportMissing, Own, List, ReconcileLease,
       Recheck, ReconcileService, Report, Inactive, RereadLease, DeleteInactive
  <1>2. CASE ~ReconcileStep
    BY <1>2 DEF Next, vars, server, Deliver, DeliverPr, DeliverApp, TimerFires,
       DeliverLease, DeliverDep, DeliverSvc, Environment, Tick, Fault, Crash, ApplyRenewal,
       LoseRenewal, SendRenewal, StartDeploy, WriteSpec, WriteStatus, Close,
       EditConfig, EditOverrides
  <1>. QED
    BY <1>1, <1>2

LEMMA PrFrame ==
    ASSUME [Next]_vars
    PROVE  \/ pr' = pr /\ born' = born
           \/ ReportMissing \/ Own \/ Report \/ DeleteInactive
           \/ WriteSpec \/ WriteStatus \/ Close
           \/ \E d \in Deployment, e \in Env \cup {NoEnv} : EditOverrides(d, e)
  <1>1. CASE ReconcileStep
    BY <1>1 DEF ReconcileStep, server, others, Begin, List, DeleteUnlisted, ReconcileLease,
       ReconcileDeployment, Recheck, PatchDeployment, ReconcileService, Inactive,
       RereadLease
  <1>2. CASE ~ReconcileStep
    BY <1>2 DEF Next, vars, server, others, Deliver, DeliverPr, DeliverApp, TimerFires,
       DeliverLease, DeliverDep, DeliverSvc, Environment, Tick, Fault, Crash, ApplyRenewal,
       LoseRenewal, SendRenewal, StartDeploy, EditConfig, Collect, OtherTakes,
       OtherLeaves, Scale
  <1>. QED
    BY <1>1, <1>2

LEMMA InformerFrame ==
    ASSUME [Next]_vars
    PROVE  \/ UNCHANGED informer
           \/ DeliverPr \/ DeliverApp \/ Crash
           \/ \E d \in Deployment : DeliverLease(d) \/ DeliverDep(d) \/ DeliverSvc(d)
  <1>1. CASE ReconcileStep
    BY <1>1 DEF ReconcileStep, Begin, ReportMissing, Own, List, DeleteUnlisted,
       ReconcileLease, ReconcileDeployment, Recheck, PatchDeployment, ReconcileService,
       Report, Inactive, RereadLease, DeleteInactive
  <1>2. CASE ~ReconcileStep
    BY <1>2 DEF Next, vars, Deliver, TimerFires, Environment, Tick, Fault, ApplyRenewal,
       LoseRenewal, SendRenewal, StartDeploy, WriteSpec, WriteStatus, Close,
       EditConfig, Collect, OtherTakes, OtherLeaves, EditOverrides, Scale
  <1>. QED
    BY <1>1, <1>2

LEMMA LocalFrame ==
    ASSUME [Next]_vars
    PROVE  UNCHANGED <<pc, r>> \/ ReconcileStep \/ Fault \/ Crash
  BY DEF Next, vars, local, Deliver, DeliverPr, DeliverApp, DeliverLease, DeliverDep,
     DeliverSvc, TimerFires, Environment, Tick, ApplyRenewal, LoseRenewal, SendRenewal,
     StartDeploy, WriteSpec, WriteStatus, Close, EditConfig, Collect, OtherTakes,
     OtherLeaves, EditOverrides, Scale

-----------------------------------------------------------------------------
(* What a step does to the PullRequest: it stays, it goes, or there is a    *)
(* new one.                                                                *)
LEMMA UidStep ==
    ASSUME Typed, [Next]_vars
    PROVE  \/ pr'.uid = pr.uid /\ born' = born
           \/ pr' = NoPr /\ pr'.uid = 0 /\ born' = born
           \/ /\ pr.uid = 0 /\ born' = born + 1 /\ pr'.uid = born + 1 /\ WriteSpec
              /\ pr' = Created(deploying.image)
  <1>0. pr \in PullRequest /\ NoPr.uid = 0
    BY DEF Typed, TypeOK, NoPr
  <1>1. CASE ReportMissing \/ Own \/ Report \/ DeleteInactive
    <2>1. born' = born
      BY <1>1 DEF ReportMissing, Own, Report, DeleteInactive, others
    <2>2. \/ pr' = pr \/ pr' = NoPr \/ pr' = Reported
          \/ \E x, y : pr' = [pr EXCEPT !.reason = x, !.observed = y]
          \/ pr' = [pr EXCEPT !.owned = TRUE]
      BY <1>1 DEF ReportMissing, Own, Report, DeleteInactive
    <2>3. Reported.uid = pr.uid
      BY <1>0 DEF Reported, PullRequest
    <2>. QED
      BY <1>0, <2>1, <2>2, <2>3 DEF PullRequest
  <1>2. CASE WriteSpec
    <2>1. CASE pr.uid = 0
      <3>1. pr' = Created(deploying.image) /\ born' = born + 1
        BY <1>2, <2>1 DEF WriteSpec
      <3>2. Created(deploying.image).uid = born + 1
        BY DEF Created, NoPr
      <3>. QED
        BY <1>2, <2>1, <3>1, <3>2
    <2>2. CASE pr.uid # 0
      <3>1. born' = born /\ (pr' = pr \/ \E x : pr' = [pr EXCEPT !.image = x, !.gen = @ + 1])
        BY <1>2, <2>2 DEF WriteSpec
      <3>. QED
        BY <1>0, <3>1 DEF PullRequest
    <2>. QED
      BY <2>1, <2>2
  <1>3. CASE WriteStatus \/ Close
    <2>1. born' = born /\ (pr' = pr \/ pr' = NoPr \/ \E x : pr' = [pr EXCEPT !.deployedAt = x])
      BY <1>3 DEF WriteStatus, Close
    <2>. QED
      BY <1>0, <2>1 DEF PullRequest
  <1>4. CASE \E d \in Deployment, e \in Env \cup {NoEnv} : EditOverrides(d, e)
    <2>1. born' = born /\ \E x, y : pr' = [pr EXCEPT !.env = x, !.gen = y]
      BY <1>0, <1>4 DEF EditOverrides, PullRequest
    <2>. QED
      BY <1>0, <2>1 DEF PullRequest
  <1>. QED
    BY <1>1, <1>2, <1>3, <1>4, PrFrame

-----------------------------------------------------------------------------
(* What Reconcile keeps of its local variables.                            *)

LEMMA NextOrReportApp ==
    ASSUME NEW locals \in Reconcile, NextOrReport(locals)
    PROVE  r'.app = locals.app /\ r'.done = locals.done /\ r'.pr = locals.pr
  <1>1. r' = locals \/ r' = [locals EXCEPT !.i = locals.i + 1]
    BY DEF NextOrReport, Goto
  <1>. QED
    BY <1>1 DEF Reconcile

LEMMA BeginLoopApp ==
    ASSUME Typed, NEW locals \in Reconcile, BeginLoop(locals)
    PROVE  r'.app = locals.app /\ r'.done = locals.done /\ r'.pr = locals.pr
  <1> DEFINE begun == [locals EXCEPT !.now = clock, !.activity = deployedAt(locals.pr)]
  <1>1. deployedAt(locals.pr) \in Nat
    BY DeployedAtType DEF Reconcile
  <1>2. begun \in Reconcile /\ begun.app = locals.app /\ begun.done = locals.done
        /\ begun.pr = locals.pr
    BY <1>1 DEF Reconcile, Typed, TypeOK
  <1>. QED
    BY <1>2, NextOrReportApp DEF BeginLoop

LEMMA BeginStep ==
    ASSUME Typed, ReconcileStep, pc = "idle", pc' # "idle"
    PROVE  /\ Begin /\ r'.pr = cPr /\ r'.app = cApp /\ r'.done = {} /\ cPr.uid # 0
           /\ r'.wait = 0 /\ r'.err = ""
  <1>1. Begin
    BY DEF ReconcileStep, ReportMissing, Own, List, DeleteUnlisted, ReconcileLease,
       ReconcileDeployment, Recheck, PatchDeployment, ReconcileService, Report, Inactive,
       RereadLease, DeleteInactive
  <1>2. cPr.uid # 0 /\ r' = [NotReconciling EXCEPT !.pr = cPr, !.app = cApp]
    BY <1>1 DEF Begin
  <1>. QED
    BY <1>1, <1>2 DEF NotReconciling

(* The deployments whose Leases it has, the ReviewAppConfig and the        *)
(* PullRequest.                                                            *)
LEMMA KeepsStep ==
    ASSUME Typed, ReconcileStep, pc # "idle", pc' # "idle"
    PROVE  /\ r'.app = r.app
           /\ \/ r'.done = r.done
              \/ ReconcileLease /\ pc' = "deployment" /\ r'.done = r.done \cup {current}
           /\ \/ r'.pr = r.pr
              \/ Own /\ pr = r.pr /\ pr' = [pr EXCEPT !.owned = TRUE] /\ r'.pr = pr'
  <1>0. r \in Reconcile
    BY DEF Typed, TypeOK
  <1>1. CASE Begin \/ ReportMissing \/ DeleteInactive
    BY <1>1 DEF Begin, ReportMissing, DeleteInactive, Done, Fail
  <1>2. CASE Own
    BY <1>0, <1>2 DEF Own, Goto, Fail, Reconcile
  <1>3. CASE List
    <2>1. CASE BeginLoop(r)
      BY <1>0, <2>1, BeginLoopApp
    <2>2. CASE Goto("sweep", [r EXCEPT !.sweep = unlisted])
      BY <1>0, <2>2 DEF Goto, Reconcile
    <2>. QED
      BY <1>3, <2>1, <2>2 DEF List
  <1>4. CASE \E d \in Deployment : DeleteUnlisted(d)
    <2>1. PICK d \in Deployment : DeleteUnlisted(d)
      BY <1>4
    <2> DEFINE rest == [r EXCEPT !.sweep = @ \ {d}]
    <2>2. rest \in Reconcile /\ rest.app = r.app /\ rest.done = r.done /\ rest.pr = r.pr
      BY <1>0 DEF Reconcile
    <2>3. Fail \/ BeginLoop(rest) \/ Goto("sweep", rest)
      BY <2>1 DEF DeleteUnlisted
    <2> HIDE DEF rest
    <2>. QED
      BY <2>2, <2>3, BeginLoopApp DEF Fail, Goto
  <1>5. CASE ReconcileLease
    <2>1. \/ \E l : HaveLease(l)
          \/ \E e : LoopError(e)
      BY <1>5 DEF ReconcileLease
    <2>. QED
      BY <1>0, <1>5, <2>1 DEF HaveLease, LoopError, Goto, Reconcile
  <1>6. CASE ReconcileDeployment \/ Recheck \/ PatchDeployment
    <2>1. \/ \E x : r' = [r EXCEPT !.err = x, !.lease = NoLease, !.dep = NoWorkload]
          \/ \E x : r' = [r EXCEPT !.lease = x]
          \/ \E x : r' = [r EXCEPT !.dep = x]
          \/ r' = r
      BY <1>6 DEF ReconcileDeployment, Recheck, PatchDeployment, LoopError, Goto
    <2>. QED
      BY <1>0, <2>1 DEF Reconcile
  <1>7. CASE ReconcileService
    <2> DEFINE next(x, y) == [r EXCEPT !.activity = x, !.wait = y,
                                       !.lease = NoLease, !.dep = NoWorkload]
               active == lastActive(r.lease, r.pr, startOnDeploy(r.app, deploymentSpec))
               x == Longest(r.activity, r.lease.renewTime)
               y == earliest(r.wait, scaleDownIn(active,
                                 scaleDownAfter(r.app, deploymentSpec), r.now))
    <2>1. x \in Nat /\ y \in Nat
      <3>1. pc \in Looping /\ r.lease \in Lease /\ r.pr \in PullRequest
            /\ r.activity \in Nat /\ r.wait \in Nat /\ r.now \in Nat
        BY <1>0, <1>7 DEF ReconcileService, Looping, Reconcile
      <3>2. active \in Nat /\ scaleDownAfter(r.app, deploymentSpec) \in Nat
        BY <3>1, CurrentType, LastActiveType
      <3>. QED
        BY <3>1, <3>2, ScaleDownInType, MaxMinType DEF Lease
    <2>2. NextOrReport(next(x, y)) \/ \E e : LoopError(e)
      BY <1>7 DEF ReconcileService
    <2>3. /\ next(x, y) \in Reconcile /\ next(x, y).app = r.app
          /\ next(x, y).done = r.done /\ next(x, y).pr = r.pr
      <3> HIDE DEF x, y
      <3>. QED
        BY <1>0, <2>1, NothingType DEF Reconcile
    <2> HIDE DEF next, x, y
    <2>4. CASE NextOrReport(next(x, y))
      BY <2>3, <2>4, NextOrReportApp
    <2>5. CASE \E e : LoopError(e)
      BY <1>0, <2>5 DEF LoopError, Goto, Reconcile
    <2>. QED
      BY <2>2, <2>4, <2>5
  <1>8. CASE Report
    BY <1>8 DEF Report, Goto, Done, Fail
  <1>9. CASE Inactive
    BY <1>0, <1>9 DEF Inactive, Goto, Done, Reconcile
  <1>10. CASE RereadLease
    <2>1. \E x, y : r' = [r EXCEPT !.activity = x, !.i = y]
      BY <1>10 DEF RereadLease
    <2>. QED
      BY <1>0, <2>1 DEF Reconcile
  <1>. QED
    BY <1>1, <1>2, <1>3, <1>4, <1>5, <1>6, <1>7, <1>8, <1>9, <1>10 DEF ReconcileStep

LEMMA OthersKeep ==
    ASSUME Typed, [Next]_vars, ~ReconcileStep, pc' # "idle"
    PROVE  /\ pc # "idle" /\ r'.pr = r.pr /\ r'.app = r.app /\ r'.done = r.done
           /\ UNCHANGED <<pc, r>> \/ pc' = "report"
  <1>1. CASE UNCHANGED <<pc, r>>
    BY <1>1
  <1>2. CASE Fault
    <2>1. /\ pc # "idle" /\ pc' = "report"
          /\ r' = [r EXCEPT !.err = "ReconcileFailed", !.lease = NoLease, !.dep = NoWorkload]
      BY <1>2 DEF Fault, Fail, LoopError, Goto
    <2>2. r \in Reconcile
      BY DEF Typed, TypeOK
    <2>. QED
      BY <2>1, <2>2 DEF Reconcile
  <1>3. CASE Crash
    BY <1>3 DEF Crash
  <1>. QED
    BY <1>1, <1>2, <1>3, LocalFrame

-----------------------------------------------------------------------------
(* The inductive invariants.                                               *)

(* The objects of a deployment are of PullRequests until the nth.          *)
Until(d, n) ==
    /\ lease[d].owner <= n /\ dep[d].owner <= n /\ svc[d] <= n
    /\ cLease[d].owner <= n /\ cDep[d].owner <= n /\ cSvc[d] <= n

(* The cache and Reconcile may know an earlier PullRequest than the API     *)
(* server has, but no object of a later one than they know.                 *)
Uids ==
    /\ pr.uid \in {0, born} /\ cPr.uid <= born
    /\ \A d \in Deployment : Until(d, born)
    /\ cPr.uid # 0 => \A d \in Deployment : Until(d, cPr.uid)
    /\ pc # "idle" =>
          /\ r.pr.uid <= born /\ (cPr.uid # 0 => r.pr.uid <= cPr.uid)
          /\ \A d \in Deployment : Until(d, r.pr.uid)

(* The Lease that the cache has of the PullRequest is still there, and so   *)
(* are the visits of it.                                                    *)
Kept ==
    \A d \in Deployment : OfPr(cLease[d].owner) =>
        /\ OfPr(lease[d].owner)
        /\ cLease[d].renewTime # 0 => lease[d].renewTime # 0

(* Reconcile has found or made the Leases of what it has done, and has the  *)
(* visits of the last of them.                                              *)
Found ==
    pc # "idle" /\ r.pr.uid = pr.uid =>
        /\ \A d \in r.done : OfPr(lease[d].owner)
        /\ pc \in {"deployment", "recheck", "patch", "service"} =>
              /\ OfPr(lease[current].owner)
              /\ r.lease.renewTime # 0 => lease[current].renewTime # 0

(* Only the PullRequest that was there from the start has the activity of   *)
(* an earlier version.                                                      *)
LegacyUid ==
    \A d \in Deployment : pr.legacy[d] # NoLegacy =>
        /\ pr.uid # 0 /\ cPr.uid = pr.uid
        /\ pc # "idle" => r.pr.uid = pr.uid

-----------------------------------------------------------------------------
(* UIDs.                                                                   *)

LEMMA OwnersStep ==
    ASSUME Typed, [Next]_vars, NEW d \in Deployment
    PROVE  LET Known == {Nobody, Other} \cup {n \in {r.pr.uid} : pc # "idle"}
           IN  /\ lease'[d].owner \in {lease[d].owner} \cup Known
               /\ dep'[d].owner \in {dep[d].owner} \cup Known
               /\ svc'[d] \in {svc[d]} \cup Known
               /\ cLease'[d].owner \in {cLease[d].owner, lease[d].owner}
               /\ cDep'[d].owner \in {cDep[d].owner, dep[d].owner}
               /\ cSvc'[d] \in {cSvc[d], svc[d]}
  <1> DEFINE Known == {Nobody, Other} \cup {n \in {r.pr.uid} : pc # "idle"}
  <1>1. /\ cLease'[d].owner \in {cLease[d].owner, lease[d].owner}
        /\ cDep'[d].owner \in {cDep[d].owner, dep[d].owner}
        /\ cSvc'[d] \in {cSvc[d], svc[d]}
    <2>1. CASE UNCHANGED informer
      BY <2>1 DEF informer
    <2>2. CASE DeliverPr \/ DeliverApp \/ Crash
      BY <2>2 DEF DeliverPr, DeliverApp, Crash, informer
    <2>3. CASE \E e \in Deployment : DeliverLease(e) \/ DeliverDep(e) \/ DeliverSvc(e)
      BY <2>3 DEF DeliverLease, DeliverDep, DeliverSvc, Typed, TypeOK
    <2>. QED
      BY <2>1, <2>2, <2>3, InformerFrame
  <1>2. /\ lease'[d].owner \in {lease[d].owner} \cup Known
        /\ dep'[d].owner \in {dep[d].owner} \cup Known
        /\ svc'[d] \in {svc[d]} \cup Known
    <2>1. CASE ReconcileStep /\ pc # "idle"
      BY <2>1, OwnedByReconcile
    <2>2. CASE ReconcileStep /\ pc = "idle"
      BY <2>2 DEF ReconcileStep, Begin, server, ReportMissing, Own, List, DeleteUnlisted,
         ReconcileLease, ReconcileDeployment, Recheck, PatchDeployment, ReconcileService,
         Report, Inactive, RereadLease, DeleteInactive
    <2>3. CASE ~ReconcileStep /\ \E f \in Forwarder : ApplyRenewal(f)
      <3>1. PICK f \in Forwarder : ApplyRenewal(f)
        BY <2>3
      <3> DEFINE on == renewal[f].deployment
      <3>2. on \in Deployment /\ lease[on] \in Lease
        BY <3>1 DEF ApplyRenewal, Typed, TypeOK
      <3>3. \/ lease' = lease
            \/ lease' = [lease EXCEPT ![on] = [lease[on] EXCEPT !.renewTime = renewal[f].at]]
        BY <3>1 DEF ApplyRenewal
      <3>4. UNCHANGED <<dep, svc>>
        BY <3>1 DEF ApplyRenewal
      <3>. QED
        BY <3>2, <3>3, <3>4 DEF Typed, TypeOK, Lease
    <2>4. CASE \E e \in Deployment : Collect(e) \/ OtherLeaves(e) \/ OtherTakes(e)
      <3>1. PICK e \in Deployment : Collect(e) \/ OtherLeaves(e) \/ OtherTakes(e)
        BY <2>4
      <3>2. CASE Collect(e) \/ OtherLeaves(e)
        BY <3>2 DEF Collect, OtherLeaves, Typed, TypeOK, NoLease, NoWorkload
      <3>3. CASE OtherTakes(e)
        BY <3>3 DEF OtherTakes, Typed, TypeOK, Lease, Workload
      <3>. QED
        BY <3>1, <3>2, <3>3
    <2>5. CASE \E e \in Deployment, n \in 0..2 : Scale(e, n)
      <3>1. PICK e \in Deployment, n \in 0..2 : Scale(e, n)
        BY <2>5
      <3>2. dep[e] \in Workload
        BY DEF Typed, TypeOK
      <3>3. dep' = [dep EXCEPT ![e] = [dep[e] EXCEPT !.replicas = n, !.scaled = dep[e].scaled + 1]]
            /\ UNCHANGED <<lease, svc>>
        BY <3>1 DEF Scale
      <3>. QED
        BY <3>2, <3>3 DEF Typed, TypeOK, Workload
    <2>6. CASE \/ UNCHANGED vars \/ Deliver \/ Tick \/ Fault \/ Crash
               \/ (\E f \in Forwarder : LoseRenewal(f) \/ \E e \in Deployment : SendRenewal(f, e))
               \/ (\E i \in Image : StartDeploy(i)) \/ WriteSpec \/ WriteStatus \/ Close
               \/ (\E c \in Configs : EditConfig(c))
               \/ (\E e \in Deployment, v \in Env \cup {NoEnv} : EditOverrides(e, v))
      BY <2>6 DEF vars, server, Deliver, DeliverPr, DeliverApp, TimerFires, DeliverLease,
                  DeliverDep, DeliverSvc, Tick, Fault, Crash, LoseRenewal, SendRenewal,
                  StartDeploy, WriteSpec, WriteStatus, Close, EditConfig, EditOverrides
    <2>. QED
      BY <2>1, <2>2, <2>3, <2>4, <2>5, <2>6 DEF Next, Environment
  <1>. QED
    BY <1>1, <1>2

LEMMA OwnersType ==
    ASSUME Typed, NEW d \in Deployment
    PROVE  /\ lease[d].owner \in Int /\ dep[d].owner \in Int /\ svc[d] \in Int
           /\ cLease[d].owner \in Int /\ cDep[d].owner \in Int /\ cSvc[d] \in Int
  <1>1. lease[d] \in Lease /\ cLease[d] \in Lease
    BY DEF Typed, TypeOK
  <1>2. dep[d] \in Workload /\ cDep[d] \in Workload
    BY DEF Typed, TypeOK
  <1>3. svc[d] \in Int /\ cSvc[d] \in Int
    BY DEF Typed, TypeOK
  <1>. QED
    BY <1>1, <1>2, <1>3 DEF Lease, Workload

LEMMA OwnersTypeNext ==
    ASSUME Typed, [Next]_vars, NEW d \in Deployment
    PROVE  /\ lease'[d].owner \in Int /\ dep'[d].owner \in Int /\ svc'[d] \in Int
           /\ cLease'[d].owner \in Int /\ cDep'[d].owner \in Int /\ cSvc'[d] \in Int
  <1>0. Typed'
    BY TypedStep
  <1>1. lease'[d] \in Lease /\ cLease'[d] \in Lease
    BY <1>0 DEF Typed, TypeOK
  <1>2. dep'[d] \in Workload /\ cDep'[d] \in Workload
    BY <1>0 DEF Typed, TypeOK
  <1>3. svc'[d] \in Int /\ cSvc'[d] \in Int
    BY <1>0 DEF Typed, TypeOK
  <1>. QED
    BY <1>1, <1>2, <1>3 DEF Lease, Workload

LEMMA UntilStep ==
    ASSUME Typed, [Next]_vars, NEW d \in Deployment, NEW n \in Nat, Until(d, n),
           pc # "idle" => r.pr.uid <= n
    PROVE  Until(d, n)'
  BY OwnersType, OwnersStep DEF Until

LEMMA CPrStep ==
    ASSUME Typed, [Next]_vars
    PROVE  /\ cPr' = cPr \/ cPr' = pr
           /\ cPr' = cPr \/ (pr' = pr /\ born' = born)
  <1>1. CASE UNCHANGED informer \/ DeliverApp
             \/ \E d \in Deployment : DeliverLease(d) \/ DeliverDep(d) \/ DeliverSvc(d)
    BY <1>1 DEF informer, DeliverApp, DeliverLease, DeliverDep, DeliverSvc
  <1>2. CASE DeliverPr \/ Crash
    BY <1>2 DEF DeliverPr, Crash, informer, server, others
  <1>. QED
    BY <1>1, <1>2, InformerFrame

(* The UID of the PullRequest that Reconcile is for.                       *)
LEMMA LocalUidStep ==
    ASSUME Typed, [Next]_vars, pc' # "idle"
    PROVE  \/ pc # "idle" /\ r'.pr.uid = r.pr.uid
           \/ /\ pc = "idle" /\ r'.pr = cPr /\ cPr.uid # 0 /\ r'.done = {}
              /\ pc' \in {"missing", "own", "list"}
              /\ cPr' = cPr /\ pr' = pr
  <1>1. CASE ReconcileStep /\ pc = "idle"
    BY <1>1, BeginStep DEF Begin, server, informer
  <1>2. CASE ReconcileStep /\ pc # "idle"
    BY <1>2, KeepsStep DEF Typed, TypeOK, PullRequest
  <1>3. CASE ~ReconcileStep
    BY <1>3, OthersKeep
  <1>. QED
    BY <1>1, <1>2, <1>3

LEMMA UidsStep ==
    ASSUME Typed, Uids, [Next]_vars
    PROVE  Uids'
  <1>0. /\ born \in Nat /\ pr.uid \in Nat /\ cPr.uid \in Nat /\ r.pr.uid \in Nat
        /\ born' \in Nat
    BY TypedStep DEF Typed, TypeOK, PullRequest, Reconcile
  <1>1. pr'.uid \in {0, born'} /\ born <= born'
    BY <1>0, UidStep DEF Uids
  <1>2. cPr'.uid <= born'
    BY <1>0, <1>1, CPrStep DEF Uids
  <1>3. ASSUME NEW n \in Nat, \A d \in Deployment : Until(d, n),
               pc # "idle" => r.pr.uid <= n
        PROVE  \A d \in Deployment : Until(d, n)'
    BY <1>3, UntilStep
  <1>4. ASSUME NEW d \in Deployment
        PROVE  Until(d, born)'
    <2>1. Until(d, born)
      BY DEF Uids
    <2>2. /\ lease'[d].owner <= born /\ dep'[d].owner <= born /\ svc'[d] <= born
          /\ cLease'[d].owner <= born /\ cDep'[d].owner <= born /\ cSvc'[d] <= born
      <3>1. \A e \in Deployment : Until(e, born)
        BY DEF Uids
      <3>2. ASSUME NEW n \in Nat, n = born
            PROVE  Until(d, n)'
        BY <1>0, <1>3, <3>1, <3>2 DEF Uids
      <3>. QED
        BY <1>0, <3>2 DEF Until
    <2>. QED
      BY <1>0, <1>1, <2>2, OwnersTypeNext DEF Until
  <1>5. ASSUME cPr'.uid # 0
        PROVE  /\ (\A d \in Deployment : Until(d, cPr.uid))'
               /\ pc' # "idle" => r'.pr.uid <= cPr'.uid
    <2>1. CASE cPr' = cPr
      <3>1. \A d \in Deployment : Until(d, cPr.uid)
        BY <1>5, <2>1 DEF Uids
      <3>2. pc # "idle" => r.pr.uid <= cPr.uid
        BY <1>5, <2>1 DEF Uids
      <3>3. ASSUME NEW n \in Nat, n = cPr.uid
            PROVE  \A d \in Deployment : Until(d, n)'
        BY <1>3, <3>1, <3>2, <3>3
      <3>4. pc' # "idle" => r'.pr.uid <= cPr'.uid
        BY <1>0, <2>1, <3>2, LocalUidStep
      <3>. QED
        BY <1>0, <2>1, <3>3, <3>4 DEF Until
    <2>2. CASE cPr' # cPr
      <3>1. cPr' = pr /\ pr' = pr /\ born' = born /\ cPr'.uid = born
        BY <1>0, <1>5, <2>2, CPrStep DEF Uids
      <3>2. pc' # "idle" => r'.pr.uid <= cPr'.uid
        BY <1>0, <2>2, <3>1, LocalUidStep DEF Uids
      <3>. QED
        BY <1>4, <3>1, <3>2 DEF Until
    <2>. QED
      BY <2>1, <2>2
  <1>6. ASSUME pc' # "idle"
        PROVE  r'.pr.uid <= born' /\ (\A d \in Deployment : Until(d, r.pr.uid))'
    <2>1. PICK n \in Nat : /\ n = r'.pr.uid /\ n <= born
                           /\ \A d \in Deployment : Until(d, n)
                           /\ pc # "idle" => r.pr.uid = n
      BY <1>0, <1>6, LocalUidStep DEF Uids
    <2>2. \A d \in Deployment : Until(d, n)'
      BY <1>3, <2>1
    <2>. QED
      BY <1>0, <1>1, <2>1, <2>2 DEF Until
  <1>. QED
    BY <1>1, <1>2, <1>4, <1>5, <1>6 DEF Uids

LEMMA UidsInit ==
    ASSUME Init
    PROVE  Uids
  <1>1. Typed
    BY TypedInit
  <1>2. /\ pr.uid \in {0, 1} /\ pr.uid = born /\ cPr = pr /\ pc = "idle"
        /\ \A d \in Deployment : lease[d].owner <= pr.uid /\ dep[d].owner <= pr.uid
    <2>1. pr.uid = born /\ cPr = pr /\ pc = "idle"
      BY DEF Init
    <2>2. /\ \A c, l : PrOf(c, l).uid = 1
          /\ NoPr.uid = 0 /\ NoLease.owner = 0 /\ NoWorkload.owner = 0
      BY DEF PrOf, NoPr, NoLease, NoWorkload
    <2>4. CASE InitUpgraded
      <3>1. PICK l \in Recorded(app) :
                /\ pr = PrOf(app, l)
                /\ lease = [d \in Deployment |-> NoLease]
                /\ dep = [d \in Deployment |->
                    IF d \in Names(app)
                    THEN [NoWorkload EXCEPT !.owner = 1, !.template = app.template,
                                            !.replicas = IF l[d].isActive THEN 1 ELSE 0]
                    ELSE NoWorkload]
        BY <2>4 DEF InitUpgraded
      <3>2. ASSUME NEW d \in Deployment
            PROVE  dep[d].owner \in {0, 1} /\ lease[d].owner \in {0, 1}
        <4>1. CASE d \in Names(app)
          <5>1. dep[d] = [NoWorkload EXCEPT !.owner = 1, !.template = app.template,
                                            !.replicas = IF l[d].isActive THEN 1 ELSE 0]
            BY <3>1, <4>1
          <5>. QED
            BY <2>2, <3>1, <5>1 DEF NoWorkload
        <4>2. CASE d \notin Names(app)
          BY <2>2, <3>1, <4>2
        <4>. QED
          BY <4>1, <4>2
      <3>3. pr.uid = 1
        BY <2>2, <3>1
      <3>. QED
        BY <2>1, <3>2, <3>3
    <2>6. CASE InitReconciled
      <3>1. PICK visited \in SUBSET Names(app) :
                LET renewTime(d) == IF d \in visited THEN Start ELSE 0
                IN /\ pr = PrOf(app, [d \in Deployment |-> NoLegacy])
                   /\ lease = [d \in Deployment |->
                        IF d \in Names(app)
                        THEN [owner |-> 1, renewTime |-> renewTime(d),
                              duration |-> leaseDuration(scaleDownAfter(app, SpecOf(app, d)))]
                        ELSE NoLease]
                   /\ dep = [d \in Deployment |->
                        IF d \in Names(app)
                        THEN [NoWorkload EXCEPT !.owner = 1, !.template = app.template,
                                !.replicas =
                                    IF d \in visited \/ startOnDeploy(app, SpecOf(app, d))
                                    THEN 1 ELSE 0]
                        ELSE NoWorkload]
        BY <2>6 DEF InitReconciled
      <3>2. ASSUME NEW d \in Deployment
            PROVE  dep[d].owner \in {0, 1} /\ lease[d].owner \in {0, 1}
        <4>1. CASE d \in Names(app)
          <5>1. /\ \E x : dep[d] = [NoWorkload EXCEPT !.owner = 1, !.template = app.template,
                                                      !.replicas = x]
                /\ \E x, y : lease[d] = [owner |-> 1, renewTime |-> x, duration |-> y]
            BY <3>1, <4>1
          <5>. QED
            BY <5>1 DEF NoWorkload
        <4>2. CASE d \notin Names(app)
          BY <2>2, <3>1, <4>2
        <4>. QED
          BY <4>1, <4>2
      <3>3. pr.uid = 1
        BY <2>2, <3>1
      <3>. QED
        BY <2>1, <3>2, <3>3
    <2>5. CASE InitNew
      BY <2>1, <2>2, <2>5 DEF InitNew
    <2>. QED
      BY <2>4, <2>5, <2>6 DEF Init
  <1>3. /\ cLease = lease /\ cDep = dep /\ cSvc = svc
        /\ \A d \in Deployment : svc[d] = dep[d].owner
    BY DEF Init
  <1>. QED
    BY <1>2, <1>3 DEF Uids, Until

-----------------------------------------------------------------------------
(* The visits of a deployment.                                             *)

(* Nobody takes the Lease of the PullRequest, or a visit out of it.        *)
LEMMA OwnLeaseStays ==
    ASSUME Typed, Past, [Next]_vars, NEW d \in Deployment,
           OfPr(lease[d].owner), pr'.uid = pr.uid
    PROVE  /\ OfPr(lease[d].owner)'
           /\ lease[d].renewTime # 0 => lease'[d].renewTime # 0
  <1>0. /\ lease[d] \in Lease /\ pr.uid \in Nat /\ lease[d].owner = pr.uid /\ pr.uid # 0
        /\ lease \in [Deployment -> Lease]
    BY DEF Typed, TypeOK, PullRequest, OfPr
  <1>1. CASE lease'[d] = lease[d]
    BY <1>0, <1>1 DEF OfPr
  <1>2. CASE ReconcileLease
    <2>1. \/ lease'[d] = lease[d]
          \/ \E x : lease'[d] = [lease[d] EXCEPT !.duration = x]
      BY <1>0, <1>2 DEF ReconcileLease
    <2>. QED
      BY <1>0, <1>1, <2>1 DEF Lease, OfPr
  <1>3. CASE \E f \in Forwarder : ApplyRenewal(f)
    <2>1. PICK f \in Forwarder : ApplyRenewal(f)
      BY <1>3
    <2>2. \/ lease'[d] = lease[d]
          \/ lease'[d] = [lease[d] EXCEPT !.renewTime = renewal[f].at]
      BY <1>0, <2>1 DEF ApplyRenewal
    <2>3. renewal[f].at # 0
      <3>1. renewal[f] # NoRenewal /\ Start <= renewal[f].at /\ Start \in Nat \ {0}
        BY <2>1, ControllerAssumption DEF ApplyRenewal, Past
      <3>2. renewal[f].at \in Nat
        BY <3>1 DEF Typed, TypeOK
      <3>. QED
        BY <3>1, <3>2
    <2>. QED
      BY <1>0, <1>1, <2>2, <2>3 DEF Lease, OfPr
  <1>4. CASE \E e \in Deployment : Collect(e) \/ OtherLeaves(e) \/ OtherTakes(e)
    <2>1. PICK e \in Deployment : Collect(e) \/ OtherLeaves(e) \/ OtherTakes(e)
      BY <1>4
    <2>2. CASE e = d
      BY <1>0, <1>1, <2>1, <2>2 DEF Collect, OtherLeaves, OtherTakes, Garbage
    <2>3. CASE e # d
      BY <1>0, <1>1, <2>1, <2>3 DEF Collect, OtherLeaves, OtherTakes
    <2>. QED
      BY <2>2, <2>3
  <1>. QED
    BY <1>1, <1>2, <1>3, <1>4, LeaseFrame

LEMMA KeptStep ==
    ASSUME Typed, Past, Uids, Kept, [Next]_vars
    PROVE  Kept'
  <1> SUFFICES ASSUME NEW d \in Deployment, OfPr(cLease[d].owner)'
               PROVE  /\ OfPr(lease[d].owner)'
                      /\ cLease'[d].renewTime # 0 => lease'[d].renewTime # 0
    BY DEF Kept
  <1>0. /\ born \in Nat /\ pr.uid \in Nat /\ cLease[d].owner \in Int /\ lease[d].owner \in Int
        /\ cLease'[d].owner = pr'.uid /\ pr'.uid # 0
    BY OwnersType DEF Typed, TypeOK, PullRequest, OfPr
  <1>1. cLease'[d] = cLease[d] \/ (cLease'[d] = lease[d] /\ UNCHANGED lease)
    <2>1. CASE UNCHANGED informer \/ DeliverApp \/ DeliverPr \/ Crash
      BY <2>1 DEF informer, DeliverApp, DeliverPr, Crash, server
    <2>2. CASE \E e \in Deployment : DeliverLease(e) \/ DeliverDep(e) \/ DeliverSvc(e)
      BY <2>2 DEF DeliverLease, DeliverDep, DeliverSvc, server, Typed, TypeOK
    <2>. QED
      BY <2>1, <2>2, InformerFrame
  <1>2. pr'.uid = pr.uid
    <2>1. cLease'[d].owner <= born
      <3>1. Until(d, born)
        BY DEF Uids
      <3>. QED
        BY <1>1, <3>1 DEF Until
    <2>. QED
      BY <1>0, <2>1, UidStep
  <1>3. CASE cLease'[d] = cLease[d]
    <2>1. OfPr(cLease[d].owner)
      BY <1>0, <1>2, <1>3 DEF OfPr
    <2>2. OfPr(lease[d].owner) /\ (cLease[d].renewTime # 0 => lease[d].renewTime # 0)
      BY <2>1 DEF Kept
    <2>. QED
      BY <1>2, <1>3, <2>2, OwnLeaseStays
  <1>4. CASE cLease'[d] = lease[d] /\ UNCHANGED lease
    BY <1>0, <1>4 DEF OfPr
  <1>. QED
    BY <1>1, <1>3, <1>4

(* The ReviewAppConfig that Reconcile read has one deployment of the name. *)
LEMMA CurrentSpec ==
    ASSUME Typed, pc \in Looping
    PROVE  /\ configured(current)
           /\ SpecOf(r.app, current) = deploymentSpec
  <1>1. r.app \in Configs /\ r.i \in 1..Len(r.app.deployments)
    BY DEF Typed, Located, Looping
  <1>2. deploymentSpec \in Specs(r.app) /\ current \in Names(r.app)
    BY <1>1 DEF deploymentSpec, current, Specs, Names
  <1>3. ASSUME NEW s \in Specs(r.app), s.name = current
        PROVE  s = deploymentSpec
    <2>1. PICK i \in 1..Len(r.app.deployments) : s = r.app.deployments[i]
      BY DEF Specs
    <2>2. i = r.i
      BY <1>1, <1>3, <2>1, NamesAssumption DEF current, deploymentSpec
    <2>. QED
      BY <2>1, <2>2 DEF deploymentSpec
  <1>4. SpecOf(r.app, current) = deploymentSpec
    BY <1>2, <1>3 DEF SpecOf, current
  <1>. QED
    BY <1>1, <1>2, <1>4, ControllerAssumption DEF configured

(* From one step of the loop to another, for the same deployment, with the  *)
(* Lease that was found, or read again.                                    *)
LEMMA LoopStep ==
    ASSUME Typed, ReconcileStep, pc' \in {"deployment", "recheck", "patch", "service"}
    PROVE  /\ current' = current /\ current \in Deployment
           /\ UNCHANGED pr /\ pc \in Looping
           /\ \/ ReconcileLease /\ pc' = "deployment"
              \/ /\ UNCHANGED lease /\ r'.lease = r.lease
                 /\ \/ ReconcileDeployment /\ pc = "deployment"
                    \/ PatchDeployment /\ pc = "patch"
              \/ UNCHANGED lease /\ r'.lease = lease[current] /\ pc = "recheck" /\ Recheck
  <1>0. r \in Reconcile
    BY DEF Typed, TypeOK
  <1>1. \/ ReconcileLease /\ pc' = "deployment"
        \/ ReconcileDeployment /\ pc' \in {"recheck", "patch", "service"}
        \/ Recheck /\ pc' = "patch"
        \/ PatchDeployment /\ pc' = "service"
    BY WhereTo
  <1>2. CASE ReconcileLease /\ pc' = "deployment"
    <2>1. current' = current
      BY <1>2, SameDeployment
    <2>2. pc \in Looping /\ UNCHANGED pr
      BY <1>2 DEF ReconcileLease, Looping
    <2>. QED
      BY <1>2, <2>1, <2>2, CurrentType
  <1>3. CASE ReconcileDeployment /\ pc' \in {"recheck", "patch", "service"}
    <2>1. r' = r \/ \E w : r' = [r EXCEPT !.dep = w]
      BY <1>3 DEF ReconcileDeployment, Goto, LoopError
    <2>2. r'.lease = r.lease /\ r'.app = r.app /\ r'.i = r.i
      BY <1>0, <2>1 DEF Reconcile
    <2>3. pc \in Looping /\ UNCHANGED <<pr, lease>> /\ pc = "deployment"
      BY <1>3 DEF ReconcileDeployment, Looping
    <2>. QED
      BY <1>3, <2>2, <2>3, CurrentType DEF current, deploymentSpec
  <1>4. CASE Recheck /\ pc' = "patch"
    <2>1. r' = [r EXCEPT !.lease = lease[current]]
      BY <1>4 DEF Recheck, Goto, LoopError
    <2>2. r'.lease = lease[current] /\ r'.app = r.app /\ r'.i = r.i
      BY <1>0, <2>1 DEF Reconcile
    <2>3. pc \in Looping /\ UNCHANGED <<pr, lease>> /\ pc = "recheck"
      BY <1>4 DEF Recheck, Looping, server
    <2>. QED
      BY <1>4, <2>2, <2>3, CurrentType DEF current, deploymentSpec
  <1>5. CASE PatchDeployment /\ pc' = "service"
    <2>1. r' = r
      BY <1>5 DEF PatchDeployment, Goto, LoopError
    <2>2. pc \in Looping /\ UNCHANGED <<pr, lease>> /\ pc = "patch"
      BY <1>5 DEF PatchDeployment, Looping
    <2>. QED
      BY <1>5, <2>1, <2>2, CurrentType DEF current, deploymentSpec
  <1>. QED
    BY <1>1, <1>2, <1>3, <1>4, <1>5

LEMMA FoundStep ==
    ASSUME Typed, Past, Uids, Kept, Found, [Next]_vars
    PROVE  Found'
  <1> SUFFICES ASSUME pc' # "idle", r'.pr.uid = pr'.uid
               PROVE  /\ \A d \in r'.done : OfPr(lease[d].owner)'
                      /\ pc' \in {"deployment", "recheck", "patch", "service"} =>
                            /\ OfPr(lease[current].owner)'
                            /\ r'.lease.renewTime # 0 => lease'[current'].renewTime # 0
    BY DEF Found
  <1>1. CASE pc = "idle"
    BY <1>1, LocalUidStep
  <1>2. CASE pc # "idle"
    <2>0. /\ r.pr.uid \in Nat \ {0} /\ born \in Nat /\ pr.uid \in Nat /\ r.done \subseteq Deployment
          /\ r \in Reconcile
      BY <1>2 DEF Typed, TypeOK, Located, Reconcile, PullRequest
    <2>1. r.pr.uid = pr.uid /\ pr'.uid = pr.uid /\ pr.uid # 0
      BY <1>2, <2>0, LocalUidStep, UidStep DEF Uids
    <2>2. /\ \A d \in r.done : OfPr(lease[d].owner)
          /\ pc \in {"deployment", "recheck", "patch", "service"} =>
                            /\ OfPr(lease[current].owner)
                            /\ r.lease.renewTime # 0 => lease[current].renewTime # 0
      BY <1>2, <2>1 DEF Found
    <2>3. ASSUME ReconcileLease, pc' = "deployment"
          PROVE  /\ OfPr(lease[current].owner)'
                 /\ r'.lease.renewTime # 0 => lease'[current'].renewTime # 0
      <3>1. current' = current /\ current \in Deployment
        BY <2>3, LoopStep DEF ReconcileStep
      <3>2. /\ lease[current] \in Lease /\ cLease[current] \in Lease
            /\ lease \in [Deployment -> Lease]
        BY <3>1 DEF Typed, TypeOK
      <3>3. PICK l : HaveLease(l) /\ \/ lease' = [lease EXCEPT ![current] = l] /\ l.owner = r.pr.uid
                                     \/ /\ UNCHANGED lease /\ l = cLease[current]
                                        /\ cLease[current].owner = r.pr.uid
                                     \/ \E x : /\ lease' = [lease EXCEPT ![current] = l]
                                               /\ l = [lease[current] EXCEPT !.duration = x]
                                               /\ cLease[current].owner = r.pr.uid
        <4> DEFINE fresh == [owner |-> r.pr.uid,
                duration |-> leaseDuration(scaleDownAfter(r.app, deploymentSpec)),
                renewTime |-> migratedRenewTime(r.pr.legacy[current],
                                  scaleDownAfter(r.app, deploymentSpec), clock)]
        <4>1. fresh.owner = r.pr.uid
          OBVIOUS
        <4>2. \A e : ~LoopError(e)
          BY <2>3 DEF LoopError, Goto
        <4> HIDE DEF fresh
        <4>3. \/ HaveLease(fresh) /\ lease' = [lease EXCEPT ![current] = fresh]
              \/ /\ HaveLease(cLease[current]) /\ UNCHANGED lease
                 /\ cLease[current].owner = r.pr.uid
              \/ \E x : /\ HaveLease([lease[current] EXCEPT !.duration = x])
                        /\ lease' = [lease EXCEPT ![current] =
                                        [lease[current] EXCEPT !.duration = x]]
                        /\ cLease[current].owner = r.pr.uid
          BY <2>3, <4>2 DEF ReconcileLease, fresh
        <4>. QED
          BY <4>1, <4>3
      <3>4. r'.lease = l
        BY <2>0, <3>3 DEF HaveLease, Goto, Reconcile
      <3>5. CASE lease' = [lease EXCEPT ![current] = l] /\ l.owner = r.pr.uid
        <4>1. lease'[current] = l
          BY <3>1, <3>2, <3>5
        <4>. QED
          BY <2>1, <3>1, <3>4, <3>5, <4>1 DEF OfPr
      <3>6. CASE cLease[current].owner = r.pr.uid
        <4>1. OfPr(cLease[current].owner)
          BY <2>1, <3>6 DEF OfPr
        <4>2. /\ OfPr(lease[current].owner)
              /\ cLease[current].renewTime # 0 => lease[current].renewTime # 0
          BY <3>1, <4>1 DEF Kept
        <4>3. /\ OfPr(lease[current].owner)'
              /\ lease[current].renewTime # 0 => lease'[current].renewTime # 0
          BY <2>1, <3>1, <4>2, OwnLeaseStays
        <4>4. l = cLease[current] \/ lease'[current] = l
          BY <3>1, <3>2, <3>3
        <4>. QED
          BY <3>1, <3>4, <4>2, <4>3, <4>4
      <3>. QED
        BY <3>3, <3>5, <3>6
    <2>4. ASSUME NEW d \in r'.done
          PROVE  OfPr(lease[d].owner)'
      <3>1. CASE d \in r.done
        BY <2>0, <2>1, <2>2, <3>1, OwnLeaseStays
      <3>2. CASE d \notin r.done
        <4>1. ReconcileLease /\ pc' = "deployment" /\ d = current
          BY <1>2, <2>4, <3>2, KeepsStep, OthersKeep
        <4>2. current' = current
          BY <4>1, LoopStep DEF ReconcileStep
        <4>. QED
          BY <2>3, <4>1, <4>2
      <3>. QED
        BY <3>1, <3>2
    <2>5. ASSUME pc' \in {"deployment", "recheck", "patch", "service"}
          PROVE  /\ OfPr(lease[current].owner)'
                 /\ r'.lease.renewTime # 0 => lease'[current'].renewTime # 0
      <3>1. CASE ReconcileStep
        <4>1. CASE ReconcileLease /\ pc' = "deployment"
          BY <2>3, <4>1
        <4>2. CASE ~(ReconcileLease /\ pc' = "deployment")
          <5>1. /\ UNCHANGED <<lease, pr>> /\ current' = current
                /\ \/ r'.lease = r.lease /\ pc \in {"deployment", "patch"}
                   \/ r'.lease = lease[current] /\ pc = "recheck"
            BY <2>5, <3>1, <4>2, LoopStep
          <5>. QED
            BY <2>2, <5>1 DEF OfPr
        <4>. QED
          BY <4>1, <4>2
      <3>2. CASE ~ReconcileStep
        <4>1. UNCHANGED <<pc, r>>
          BY <2>5, <3>2, OthersStay
        <4>2. current' = current /\ current \in Deployment
          BY <2>5, <4>1, CurrentType DEF current, deploymentSpec, Looping
        <4>3. OfPr(lease[current].owner)
              /\ (r.lease.renewTime # 0 => lease[current].renewTime # 0)
          BY <2>2, <2>5, <4>1
        <4>. QED
          BY <2>1, <4>1, <4>2, <4>3, OwnLeaseStays
      <3>. QED
        BY <3>1, <3>2
    <2>. QED
      BY <2>4, <2>5
  <1>. QED
    BY <1>1, <1>2

-----------------------------------------------------------------------------
(* The activity that an earlier version recorded.                          *)

LEMMA LegacyUidStep ==
    ASSUME Typed, Uids, LegacyUid, [Next]_vars
    PROVE  LegacyUid'
  <1> SUFFICES ASSUME NEW d \in Deployment, pr'.legacy[d] # NoLegacy
               PROVE  /\ pr'.uid # 0 /\ cPr'.uid = pr'.uid
                      /\ pc' # "idle" => r'.pr.uid = pr'.uid
    BY DEF LegacyUid
  <1>1. pr.legacy[d] # NoLegacy
    BY LegacyStep
  <1>2. /\ pr.uid # 0 /\ cPr.uid = pr.uid
        /\ pc # "idle" => r.pr.uid = pr.uid
    BY <1>1 DEF LegacyUid
  <1>3. pr'.uid = pr.uid
    <2>1. NoPr.legacy[d] = NoLegacy
      BY DEF NoPr
    <2>. QED
      BY <1>2, <2>1, UidStep
  <1>. QED
    BY <1>2, <1>3, CPrStep, LocalUidStep

(* Only the report of Reconcile removes it, of what is done.               *)
LEMMA LegacyCleared ==
    ASSUME Typed, [Next]_vars, NEW d \in Deployment, pr'.uid = pr.uid, pr.uid # 0
    PROVE  pr'.legacy[d] = pr.legacy[d] \/ (Report /\ d \in r.done)
  <1>0. pr \in PullRequest
    BY DEF Typed, TypeOK
  <1>1. CASE ReportMissing \/ Own
    <2>1. pr' = pr \/ (\E x, y : pr' = [pr EXCEPT !.reason = x, !.observed = y])
          \/ pr' = [pr EXCEPT !.owned = TRUE]
      BY <1>1 DEF ReportMissing, Own
    <2>. QED
      BY <1>0, <2>1 DEF PullRequest
  <1>2. CASE Report
    <2>1. pr' = pr \/ pr' = Reported
      BY <1>2 DEF Report
    <2>2. Reported.legacy = [e \in Deployment |->
             IF e \in r.done /\ r.pr.legacy[e] # NoLegacy THEN NoLegacy ELSE pr.legacy[e]]
      BY <1>0 DEF Reported, PullRequest
    <2>. QED
      BY <1>2, <2>1, <2>2
  <1>3. CASE DeleteInactive \/ Close
    <2>1. pr' = pr \/ pr' = NoPr
      BY <1>3 DEF DeleteInactive, Close
    <2>2. NoPr.uid = 0
      BY DEF NoPr
    <2>. QED
      BY <2>1, <2>2
  <1>4. CASE WriteSpec \/ WriteStatus
    <2>1. pr' = pr \/ (\E x : pr' = [pr EXCEPT !.image = x, !.gen = @ + 1])
          \/ (\E x : pr' = [pr EXCEPT !.deployedAt = x])
      BY <1>4 DEF WriteSpec, WriteStatus
    <2>. QED
      BY <1>0, <2>1 DEF PullRequest
  <1>5. CASE \E e \in Deployment, v \in Env \cup {NoEnv} : EditOverrides(e, v)
    <2>1. \E x, y : pr' = [pr EXCEPT !.env = x, !.gen = y]
      BY <1>0, <1>5 DEF EditOverrides, PullRequest
    <2>. QED
      BY <1>0, <2>1 DEF PullRequest
  <1>. QED
    BY <1>1, <1>2, <1>3, <1>4, <1>5, PrFrame

(* A visit is not forgotten, and neither is one of before an upgrade on its *)
(* way into the Lease.                                                     *)
LEMMA VisitsKept ==
    ASSUME Typed, Past, Migrated, Uids, Found, LegacyUid, [Next]_vars,
           NEW d \in Deployment, pr'.uid = pr.uid, pr.uid # 0, visitedAt(d) # 0
    PROVE  visitedAt(d)' # 0
  <1>0. /\ lease[d].renewTime \in Nat /\ lease'[d].renewTime \in Nat
        /\ Legacies(pr, d) \in Nat /\ Legacies(pr', d) \in Nat
    <2>1. lease[d] \in Lease /\ lease'[d] \in Lease
      BY TypedStep DEF Typed, TypeOK
    <2>. QED
      BY <2>1, LegaciesFall DEF Lease
  <1>1. OfPr(lease[d].owner)' /\ lease'[d].renewTime # 0 => visitedAt(d)' # 0
    BY <1>0 DEF visitedAt, Legacies, Longest, OfPr
  <1>2. Legacies(pr', d) # 0 => visitedAt(d)' # 0
    BY <1>0 DEF visitedAt, Legacies, Longest
  <1>3. CASE OfPr(lease[d].owner) /\ lease[d].renewTime # 0
    BY <1>1, <1>3, OwnLeaseStays
  <1>4. CASE ~(OfPr(lease[d].owner) /\ lease[d].renewTime # 0)
    <2>1. Legacies(pr, d) # 0
      BY <1>4 DEF visitedAt, Legacies, Longest
    <2>2. CASE pr'.legacy[d] = pr.legacy[d]
      BY <1>2, <2>1, <2>2 DEF Legacies
    <2>3. CASE pr'.legacy[d] # pr.legacy[d]
      <3>1. Report /\ d \in r.done /\ pc # "idle"
        BY <2>3, LegacyCleared DEF Report
      <3>2. pr.legacy[d] # NoLegacy
        BY <2>1 DEF Legacies, NoLegacy
      <3>3. r.pr.uid = pr.uid
        BY <3>1, <3>2 DEF LegacyUid
      <3>4. OfPr(lease[d].owner)
        BY <3>1, <3>3 DEF Found
      <3>5. lease[d].owner \notin {Nobody, Other}
        BY <3>4 DEF OfPr, Typed, TypeOK, PullRequest
      <3>6. Legacies(pr, d) <= lease[d].renewTime
        BY <3>5 DEF Migrated, Legacies
      <3>. QED
        BY <1>0, <1>4, <2>1, <3>4, <3>6
    <2>. QED
      BY <2>2, <2>3
  <1>. QED
    BY <1>3, <1>4

-----------------------------------------------------------------------------
(* What Reconcile does to a deployment.                                    *)

(* It is for the PullRequest that has the Deployment.                      *)
LEMMA ForThePr ==
    ASSUME Typed, Uids, pc \in Looping, NEW d \in Deployment,
           OfPr(dep[d].owner) \/ r.pr.uid = pr.uid
    PROVE  r.pr.uid = pr.uid /\ pr.uid # 0
  <1>1. /\ r.pr.uid \in Nat \ {0} /\ born \in Nat /\ dep[d].owner \in Int /\ pr.uid \in Nat
    BY OwnersType DEF Looping, Typed, TypeOK, Located, Reconcile, PullRequest
  <1>2. dep[d].owner <= r.pr.uid /\ r.pr.uid <= born /\ pr.uid \in {0, born}
    BY DEF Uids, Until, Looping
  <1>. QED
    BY <1>1, <1>2 DEF OfPr

(* There is a reason to run it when the Lease that Reconcile found says so. *)
LEMMA RunningWanted ==
    ASSUME Typed, Uids, Found, pc \in {"deployment", "patch"},
           running, r.pr.uid = pr.uid
    PROVE  \/ visitedAt(current) # 0
           \/ configured(current) /\ startOnDeploy(r.app, SpecOf(r.app, current))
  <1>0. pc \in Looping /\ pc # "idle"
    BY DEF Looping
  <1>1. /\ current \in Deployment /\ r.lease \in Lease /\ lease[current] \in Lease
        /\ pr.legacy[current] \in Legacy
    BY <1>0, CurrentType DEF Typed, TypeOK, Reconcile, PullRequest
  <1>2. CASE startOnDeploy(r.app, deploymentSpec)
    BY <1>0, <1>2, CurrentSpec
  <1>3. CASE ~startOnDeploy(r.app, deploymentSpec)
    <2>1. r.lease.renewTime # 0
      BY <1>3 DEF running, runs, lastActive
    <2>2. OfPr(lease[current].owner) /\ lease[current].renewTime # 0
      BY <1>0, <2>1 DEF Found
    <2>. QED
      BY <1>1, <2>2 DEF visitedAt, Longest, Lease, Legacy
  <1>. QED
    BY <1>2, <1>3

LEMMA CreateStep ==
    ASSUME Typed, Uids, Found, ReconcileDeployment, NEW d \in Deployment,
           dep'[d] # dep[d], OfPr(dep[d].owner)'
    PROVE  Promised!Create(d)
  <1>1. pc \in Looping /\ current \in Deployment /\ r.pr.uid # 0 /\ pc = "deployment" /\ pr' = pr
    BY CurrentType DEF ReconcileDeployment, Looping
  <1> DEFINE created == [owner |-> r.pr.uid, image |-> r.pr.image,
                         env |-> r.pr.env[current], template |-> r.app.template,
                         scaled |-> 0,
                         replicas |-> IF running THEN Longest(deploymentSpec.replicas, 1) ELSE 0]
  <1>2. dep' # dep => dep[current].owner = Nobody /\ dep' = [dep EXCEPT ![current] = created]
    BY DEF ReconcileDeployment
  <1>3. created.owner = r.pr.uid /\ (created.replicas # 0 => running)
    OBVIOUS
  <1> HIDE DEF created
  <1>4. d = current /\ dep'[d] = created
    BY <1>1, <1>2 DEF Typed, TypeOK
  <1>5. r.pr.uid = pr.uid
    BY <1>1, <1>3, <1>4 DEF OfPr
  <1>6. phaseOf(d) = "none"
    BY <1>2, <1>4 DEF phaseOf, OfPr
  <1>7. phaseOf(d)' \in {"stopped", "running"}
    BY DEF phaseOf
  <1>8. phaseOf(d)' = "running" => running
    BY <1>3, <1>4 DEF phaseOf
  <1>. QED
    BY <1>1, <1>4, <1>5, <1>6, <1>7, <1>8, RunningWanted
    DEF Promised!Create, Promised!Wanted

LEMMA PatchStep ==
    ASSUME Typed, Past, Uids, Found, Rechecked, PatchDeployment, NEW d \in Deployment,
           dep'[d] # dep[d], OfPr(dep[d].owner)'
    PROVE  Promised!StartUp(d) \/ Promised!Stop(d) \/ Promised!Use(d)
  <1>1. /\ pc \in Looping /\ current \in Deployment /\ r.pr.uid # 0 /\ pc = "patch"
        /\ pr' = pr
    BY CurrentType DEF PatchDeployment, Looping
  <1>2. dep' = dep \/ dep' = [dep EXCEPT ![current] = Patched(dep[current])]
    BY DEF PatchDeployment
  <1>3. d = current /\ dep'[d] = Patched(dep[d]) /\ dep[d] \in Workload
    BY <1>1, <1>2 DEF Typed, TypeOK
  <1>4. Patched(dep[d]).owner = dep[d].owner
    BY <1>3 DEF Patched, Workload
  <1>5. Patched(dep[d]).replicas =
            IF replicasOf(r.dep) # r.dep.replicas THEN replicasOf(r.dep) ELSE dep[d].replicas
    BY <1>3 DEF Patched, Workload
  <1>6. OfPr(dep[d].owner) /\ r.pr.uid = pr.uid
    BY <1>1, <1>3, <1>4, ForThePr DEF OfPr
  <1>7. /\ phaseOf(d) = IF dep[d].replicas = 0 THEN "stopped" ELSE "running"
        /\ phaseOf(d)' = IF dep'[d].replicas = 0 THEN "stopped" ELSE "running"
    BY <1>6 DEF phaseOf
  <1>8. /\ r.dep \in Workload /\ r.dep.replicas \in Nat /\ replicasOf(r.dep) \in Nat
        /\ dep[d].replicas \in Nat
    BY <1>1, <1>3, RunningType DEF Typed, TypeOK, Reconcile, Workload
  <1>9. CASE dep[d].replicas = 0 /\ dep'[d].replicas # 0
    <2>1. replicasOf(r.dep) # 0
      BY <1>3, <1>5, <1>9
    <2>2. running
      BY <2>1 DEF replicasOf
    <2>. QED
      BY <1>1, <1>3, <1>6, <1>7, <1>9, <2>2, RunningWanted
      DEF Promised!StartUp, Promised!Wanted
  <1>10. CASE dep[d].replicas # 0 /\ dep'[d].replicas = 0
    <2>1. replicasOf(r.dep) = 0 /\ r.dep.replicas # 0
      BY <1>3, <1>5, <1>10
    <2>2. ~running /\ r.dep.replicas > 0
      BY <1>8, <2>1 DEF replicasOf
    <2>3. ~raced => /\ lease[d].renewTime <= r.lease.renewTime
                    /\ Legacies(pr, d) <= r.lease.renewTime
      BY <1>1, <1>3, <2>2 DEF Rechecked
    <2> DEFINE after == scaleDownAfter(r.app, deploymentSpec)
               starts == startOnDeploy(r.app, deploymentSpec)
               active == lastActive(r.lease, r.pr, starts)
    <2>4. /\ after \in Nat /\ starts \in BOOLEAN /\ r.lease \in Lease /\ r.pr \in PullRequest
          /\ r.now \in Nat /\ clock \in Nat /\ r.now <= clock
      BY <1>1, CurrentType DEF Typed, TypeOK, Reconcile, Past
    <2>5. active \in Nat /\ r.lease.renewTime <= active /\ r.lease.renewTime \in Nat
      BY <2>4, LastActiveType DEF Lease
    <2>6. ~raced => visitedAt(d) \in Nat /\ visitedAt(d) <= active
      <3>1. lease[d] \in Lease /\ pr.legacy[d] \in Legacy
        BY DEF Typed, TypeOK, PullRequest
      <3>2. lease[d].renewTime \in Nat /\ Legacies(pr, d) \in Nat
        BY <3>1 DEF Lease, Legacies, Legacy
      <3>. QED
        BY <2>3, <2>5, <3>2 DEF visitedAt, Legacies, Longest
    <2>7. ~runs(active, after, r.now)
      BY <2>2 DEF running
    <2>8. raced \/ ~runs(visitedAt(d), after, clock)
      BY <2>4, <2>5, <2>6, <2>7, RunsLess
    <2>9. configured(d) /\ SpecOf(r.app, d) = deploymentSpec
      BY <1>1, <1>3, CurrentSpec
    <2>. QED
      BY <1>7, <1>10, <2>8, <2>9 DEF Promised!Stop, Promised!runs, runs
  <1>11. CASE dep[d].replicas = 0 <=> dep'[d].replicas = 0
    BY <1>7, <1>11 DEF Promised!Use
  <1>. QED
    BY <1>9, <1>10, <1>11

-----------------------------------------------------------------------------
(* Every step is one of OnDemand.                                          *)

LEMMA PhaseStep ==
    ASSUME Typed, Past, Uids, Found, Rechecked, [Next]_vars, NEW d \in Deployment
    PROVE  \/ phaseOf(d)' = "none"
           \/ /\ pr'.uid = pr.uid /\ pr.uid # 0
              /\ Promised!Create(d) \/ Promised!StartUp(d) \/ Promised!Stop(d)
                 \/ Promised!Scale(d) \/ Promised!Use(d)
  <1> SUFFICES ASSUME phaseOf(d)' # "none"
               PROVE  /\ pr'.uid = pr.uid /\ pr.uid # 0
                      /\ Promised!Create(d) \/ Promised!StartUp(d) \/ Promised!Stop(d)
                         \/ Promised!Scale(d) \/ Promised!Use(d)
    OBVIOUS
  <1>1. OfPr(dep[d].owner)'
    BY DEF phaseOf
  <1>2. pr'.uid = pr.uid /\ pr.uid # 0
    <2>1. /\ pr'.uid # 0 /\ dep'[d].owner = pr'.uid /\ born \in Nat /\ pr.uid \in Nat
      BY <1>1 DEF OfPr, Typed, TypeOK, PullRequest
    <2>2. CASE pr'.uid = pr.uid
      BY <2>1, <2>2
    <2>3. CASE pr'.uid # pr.uid
      <3>1. pr'.uid = born + 1 /\ WriteSpec
        BY <2>1, <2>3, UidStep
      <3>2. dep[d].owner = born + 1
        BY <2>1, <3>1 DEF WriteSpec
      <3>3. dep[d].owner <= born
        BY DEF Uids, Until
      <3>. QED
        BY <2>1, <3>2, <3>3
    <2>. QED
      BY <2>2, <2>3
  <1>3. CASE dep'[d] = dep[d]
    <2>1. phaseOf(d)' = phaseOf(d)
      BY <1>2, <1>3 DEF phaseOf, OfPr
    <2>. QED
      BY <1>2, <2>1 DEF Promised!Use
  <1>4. CASE dep'[d] # dep[d]
    <2>1. CASE ReconcileDeployment
      BY <1>1, <1>2, <1>4, <2>1, CreateStep
    <2>2. CASE PatchDeployment
      BY <1>1, <1>2, <1>4, <2>2, PatchStep
    <2>3. CASE \E e \in Deployment : DeleteUnlisted(e) \/ Collect(e) \/ OtherLeaves(e)
      <3>1. PICK e \in Deployment : DeleteUnlisted(e) \/ Collect(e) \/ OtherLeaves(e)
        BY <2>3
      <3>2. dep' = dep \/ dep' = [dep EXCEPT ![e] = NoWorkload]
        BY <3>1 DEF DeleteUnlisted, Collect, OtherLeaves
      <3>3. dep'[d] = NoWorkload
        BY <1>4, <3>2 DEF Typed, TypeOK
      <3>. QED
        BY <1>1, <3>3 DEF OfPr, NoWorkload
    <2>4. CASE \E e \in Deployment : OtherTakes(e)
      <3>1. PICK e \in Deployment : OtherTakes(e)
        BY <2>4
      <3>2. e = d /\ dep[d] \in Workload /\ dep' = [dep EXCEPT ![e].owner = Other]
        BY <1>4, <3>1 DEF OtherTakes, Typed, TypeOK
      <3>3. dep'[d].owner = Other
        BY <3>2 DEF Typed, TypeOK, Workload
      <3>. QED
        BY <1>1, <1>2, <3>3 DEF OfPr, Typed, TypeOK, PullRequest
    <2>5. CASE \E e \in Deployment, n \in 0..2 : Scale(e, n)
      <3>1. PICK e \in Deployment, n \in 0..2 : Scale(e, n)
        BY <2>5
      <3>2. dep' = [dep EXCEPT ![e] = [dep[e] EXCEPT !.replicas = n, !.scaled = dep[e].scaled + 1]]
        BY <3>1 DEF Scale
      <3>3. /\ e = d /\ dep[d] \in Workload
            /\ dep'[d] = [dep[d] EXCEPT !.replicas = n, !.scaled = dep[d].scaled + 1]
        BY <1>4, <3>2 DEF Typed, TypeOK
      <3>4. dep'[d].scaled = dep[d].scaled + 1 /\ dep'[d].owner = dep[d].owner
        BY <3>3 DEF Workload
      <3>5. phaseOf(d) # "none"
        BY <1>1, <1>2, <3>4 DEF phaseOf, OfPr
      <3>. QED
        BY <1>2, <3>4, <3>5 DEF Promised!Scale
    <2>. QED
      BY <1>4, <2>1, <2>2, <2>3, <2>4, <2>5, DepFrame
  <1>. QED
    BY <1>3, <1>4

LEMMA KeepsInit ==
    ASSUME Init
    PROVE  Past /\ Spared /\ Migrated /\ Rechecked /\ Uids /\ Kept /\ Found /\ LegacyUid
  <1>1. r.now = 0 /\ clock = Start /\ Start \in Nat
    BY ControllerAssumption DEF Init, NotReconciling
  <1>2. Past
    BY <1>1 DEF Init, Past
  <1>3. Rechecked /\ Kept /\ Found
    BY DEF Init, Rechecked, Kept, Found
  <1>4. LegacyUid
    <2>1. NoPr.legacy = [d \in Deployment |-> NoLegacy]
      BY DEF NoPr
    <2>2. pr = NoPr \/ \E l : pr = PrOf(app, l)
      BY DEF Init, InitUpgraded, InitReconciled, InitNew
    <2>3. pr = NoPr \/ pr.uid = 1
      BY <2>2 DEF PrOf, NoPr
    <2>. QED
      BY <2>1, <2>3 DEF Init, LegacyUid
  <1>. QED
    BY <1>2, <1>3, <1>4, MigratedInit, SparedInit, UidsInit

(* The controller keeps what OnDemand promises, whatever interferes with   *)
(* it: it starts no deployment without a visit or a deploy to start it for, *)
(* stops none that is in use unless the visit came after it had looked,     *)
(* and never forgets that a deployment was used, not even on the way from   *)
(* an upgrade to the Lease.                                                *)
THEOREM PromiseKept == Spec => KeepsPromise
  <1> DEFINE Phase == [d \in Deployment |-> phaseOf(d)]
             Visit == [d \in Deployment |-> visitedAt(d)]
             IInv == /\ Typed /\ Past /\ Spared /\ Migrated /\ Rechecked
                     /\ Uids /\ Kept /\ Found /\ LegacyUid
  <1>1. Init => Promised!Init
    BY DEF Promised!Init, phaseOf
  <1>2. Init => IInv
    BY TypedInit, KeepsInit
  <1>3. IInv /\ [Next]_vars => IInv'
    BY TypedStep, PastStep, SparedStep, MigratedStep, RecheckedStep, UidsStep, KeptStep,
       FoundStep, LegacyUidStep
  <1>4. IInv /\ [Next]_vars => [Promised!Next]_<<Phase, Visit>>
    <2> SUFFICES ASSUME IInv, [Next]_vars, NEW d \in Deployment
                 PROVE  Promised!Step(d)
      BY DEF Promised!Next
    <2>1. CASE phaseOf(d)' = "none"
      BY <2>1 DEF Promised!Step, Promised!Remove
    <2>2. CASE phaseOf(d)' # "none"
      <3>1. /\ pr'.uid = pr.uid /\ pr.uid # 0
            /\ Promised!Create(d) \/ Promised!StartUp(d) \/ Promised!Stop(d)
               \/ Promised!Scale(d) \/ Promised!Use(d)
        BY <2>2, PhaseStep
      <3>2. visitedAt(d) # 0 => visitedAt(d)' # 0
        BY <3>1, VisitsKept
      <3>. QED
        BY <3>1, <3>2 DEF Promised!Step
    <2>. QED
      BY <2>1, <2>2
  <1>. QED
    BY <1>1, <1>2, <1>3, <1>4, PTL DEF Spec, KeepsPromise, Promised!Spec
=============================================================================
