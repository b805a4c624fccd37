---------------------- MODULE PullRequestControllerProofs ----------------------
(***************************************************************************)
(* Safety of PullRequestController, for every set of deployments, every    *)
(* ReviewAppConfig and any number of renewals, events, crashes and failing *)
(* calls: Reconcile spares the objects of other review apps, and scales    *)
(* down and deletes only for want of activity.                             *)
(***************************************************************************)
EXTENDS PullRequestControllerTypeProofs

USE DEF Nobody, Other, Owner

-----------------------------------------------------------------------------
(* The inductive invariants of the safety properties.                      *)

(* While an object is another review app's, the cache does not tell that it *)
(* is of this one.                                                         *)
Seen(d) ==
    /\ lease[d].owner = Other => cLease[d].owner \in {Nobody, Other}
    /\ dep[d].owner = Other => cDep[d].owner \in {Nobody, Other}
    /\ svc[d] = Other => cSvc[d] \in {Nobody, Other}

(* What Reconcile has found to be its own stays so.                        *)
Spared ==
    /\ \A d \in Deployment : Seen(d)
    /\ pc = "sweep" => \A d \in r.sweep : dep[d].owner # Other
    /\ pc \in {"deployment", "recheck", "patch"} => lease[current].owner # Other
    /\ pc \in {"recheck", "patch"} => dep[current].owner # Other

(* The time of Reconcile is past, and so is every renewal that was sent.    *)
Past ==
    /\ r.now <= clock /\ Start <= clock
    /\ \A f \in Forwarder : renewal[f] # NoRenewal => Start <= renewal[f].at

(* deleteInactive has counted the deploy that it read and, but for the      *)
(* visits since, those of every Lease that it read.                         *)
Counted ==
    pc \in {"leases", "delete"} =>
        /\ deployedAt(r.fresh) <= r.activity
        /\ \/ raced
           \/ \A j \in 1..Len(r.app.deployments) :
                 j < r.i \/ pc = "delete" =>
                     lease[r.app.deployments[j].name].renewTime <= r.activity

(* The activity that an earlier version recorded, and which still counts.   *)
Legacies(p, d) == IF p.legacy[d].isActive THEN p.legacy[d].lastActive ELSE 0

(* It is only ever removed, and once there is a Lease it is in there.       *)
Migrated ==
    /\ \A d \in Deployment :
          /\ pr.legacy[d].lastActive <= Start
          /\ pr.legacy[d] # NoLegacy =>
                /\ cPr.legacy[d] = pr.legacy[d]
                /\ pc # "idle" => r.pr.legacy[d] = pr.legacy[d]
          /\ lease[d].owner \notin {Nobody, Other} =>
                Legacies(pr, d) <= lease[d].renewTime

(* A deployment is about to be scaled down for want of activity that, but   *)
(* for the visits since, is all there is.                                   *)
Rechecked ==
    pc = "patch" /\ r.dep.replicas > 0 /\ ~running =>
        /\ raced \/ lease[current].renewTime <= r.lease.renewTime
        /\ Legacies(pr, current) <= r.lease.renewTime

-----------------------------------------------------------------------------
(* Another review app's objects are spared.                                *)

(* The actions that change objects of the API server by way of Reconcile.  *)
LEMMA SparedByReconcile ==
    ASSUME Typed, Spared, ReconcileStep, NEW d \in Deployment
    PROVE  /\ lease[d].owner = Other => lease'[d] = lease[d]
           /\ dep[d].owner = Other => dep'[d] = dep[d]
           /\ svc[d] = Other => svc'[d] = svc[d]
  <1>1. CASE Begin \/ ReportMissing \/ Own \/ List \/ Recheck \/ Report \/ Inactive
             \/ RereadLease \/ DeleteInactive
    BY <1>1 DEF Begin, ReportMissing, Own, List, Recheck, Report, Inactive,
                RereadLease, DeleteInactive, server
  <1>2. CASE \E e \in Deployment : DeleteUnlisted(e)
    <2>1. PICK e \in Deployment : DeleteUnlisted(e)
      BY <1>2
    <2>2. dep[e].owner # Other
      BY <2>1 DEF DeleteUnlisted, Spared
    <2>3. UNCHANGED <<lease, svc>> /\ (dep' = dep \/ dep' = [dep EXCEPT ![e] = NoWorkload])
      BY <2>1 DEF DeleteUnlisted
    <2>. QED
      BY <2>2, <2>3 DEF Typed, TypeOK
  <1>3. CASE ReconcileLease
    <2>1. current \in Deployment /\ r.pr.uid \in Nat \ {0}
      BY <1>3, CurrentType DEF ReconcileLease, Looping
    <2>2. lease[current].owner = Other => cLease[current].owner \in {Nobody, Other}
      BY <2>1 DEF Spared, Seen
    <2>3. UNCHANGED <<dep, svc>>
      BY <1>3 DEF ReconcileLease
    <2>4. lease[current].owner = Other => lease' = lease
      BY <1>3, <2>1, <2>2 DEF ReconcileLease
    <2>5. \E l : lease' = lease \/ lease' = [lease EXCEPT ![current] = l]
      BY <1>3 DEF ReconcileLease
    <2>. QED
      BY <2>1, <2>3, <2>4, <2>5 DEF Typed, TypeOK
  <1>4. CASE ReconcileDeployment
    <2>1. current \in Deployment
      BY <1>4, CurrentType DEF ReconcileDeployment, Looping
    <2>2. UNCHANGED <<lease, svc>>
      BY <1>4 DEF ReconcileDeployment
    <2>3. dep[current].owner = Other => dep' = dep
      BY <1>4 DEF ReconcileDeployment
    <2>4. \E w : dep' = dep \/ dep' = [dep EXCEPT ![current] = w]
      BY <1>4 DEF ReconcileDeployment
    <2>. QED
      BY <2>1, <2>2, <2>3, <2>4 DEF Typed, TypeOK
  <1>5. CASE PatchDeployment
    <2>1. current \in Deployment /\ dep[current].owner # Other
      BY <1>5, CurrentType DEF PatchDeployment, Looping, Spared
    <2>2. UNCHANGED <<lease, svc>>
      BY <1>5 DEF PatchDeployment
    <2>3. \E w : dep' = dep \/ dep' = [dep EXCEPT ![current] = w]
      BY <1>5 DEF PatchDeployment
    <2>. QED
      BY <2>1, <2>2, <2>3 DEF Typed, TypeOK
  <1>6. CASE ReconcileService
    <2>1. current \in Deployment
      BY <1>6, CurrentType DEF ReconcileService, Looping
    <2>2. UNCHANGED <<lease, dep>>
      BY <1>6 DEF ReconcileService
    <2>3. svc[current] = Other => svc' = svc
      BY <1>6 DEF ReconcileService
    <2>4. \E o : svc' = svc \/ svc' = [svc EXCEPT ![current] = o]
      BY <1>6 DEF ReconcileService
    <2>. QED
      BY <2>1, <2>2, <2>3, <2>4 DEF Typed, TypeOK
  <1>. QED
    BY <1>1, <1>2, <1>3, <1>4, <1>5, <1>6 DEF ReconcileStep

(* What Reconcile writes is the PullRequest's that it reconciles.          *)
LEMMA OwnedByReconcile ==
    ASSUME Typed, ReconcileStep, NEW d \in Deployment
    PROVE  /\ lease'[d].owner \in {lease[d].owner, r.pr.uid}
           /\ dep'[d].owner \in {dep[d].owner, Nobody, r.pr.uid}
           /\ svc'[d] \in {svc[d], r.pr.uid}
  <1>1. CASE Begin \/ ReportMissing \/ Own \/ List \/ Recheck \/ Report \/ Inactive
             \/ RereadLease \/ DeleteInactive
    BY <1>1 DEF Begin, ReportMissing, Own, List, Recheck, Report, Inactive,
                RereadLease, DeleteInactive, server
  <1>2. CASE \E e \in Deployment : DeleteUnlisted(e)
    BY <1>2 DEF DeleteUnlisted, Typed, TypeOK, NoWorkload
  <1>3. CASE ReconcileLease
    <2>1. current \in Deployment /\ lease[current] \in Lease /\ UNCHANGED <<dep, svc>>
      BY <1>3, CurrentType DEF ReconcileLease, Looping, Typed, TypeOK
    <2>2. \/ lease' = lease
          \/ \E x, y : lease' = [lease EXCEPT ![current] =
                                    [owner |-> r.pr.uid, duration |-> x, renewTime |-> y]]
          \/ \E x : lease' = [lease EXCEPT ![current] = [lease[current] EXCEPT !.duration = x]]
      BY <1>3 DEF ReconcileLease
    <2>. QED
      BY <2>1, <2>2 DEF Typed, TypeOK, Lease
  <1>4. CASE ReconcileDeployment
    <2>1. current \in Deployment /\ UNCHANGED <<lease, svc>>
      BY <1>4, CurrentType DEF ReconcileDeployment, Looping
    <2> DEFINE created == [owner |-> r.pr.uid, image |-> r.pr.image,
                           env |-> r.pr.env[current], template |-> r.app.template,
                           scaled |-> 0,
                           replicas |-> IF running
                                        THEN Longest(deploymentSpec.replicas, 1) ELSE 0]
    <2>2. /\ dep' = dep \/ dep' = [dep EXCEPT ![current] = created]
          /\ created.owner = r.pr.uid
      BY <1>4 DEF ReconcileDeployment
    <2> HIDE DEF created
    <2>. QED
      BY <2>1, <2>2 DEF Typed, TypeOK
  <1>5. CASE PatchDeployment
    <2>1. current \in Deployment /\ dep[current] \in Workload /\ UNCHANGED <<lease, svc>>
      BY <1>5, CurrentType DEF PatchDeployment, Looping, Typed, TypeOK
    <2>2. dep' = dep \/ dep' = [dep EXCEPT ![current] = Patched(dep[current])]
      BY <1>5 DEF PatchDeployment
    <2>3. Patched(dep[current]).owner = dep[current].owner
      BY <2>1 DEF Patched, Workload
    <2>. QED
      BY <2>1, <2>2, <2>3 DEF Typed, TypeOK
  <1>6. CASE ReconcileService
    <2>1. current \in Deployment /\ UNCHANGED <<lease, dep>>
      BY <1>6, CurrentType DEF ReconcileService, Looping
    <2>2. svc' = svc \/ svc' = [svc EXCEPT ![current] = r.pr.uid]
      BY <1>6 DEF ReconcileService
    <2>. QED
      BY <2>1, <2>2 DEF Typed, TypeOK
  <1>. QED
    BY <1>1, <1>2, <1>3, <1>4, <1>5, <1>6 DEF ReconcileStep

(* Only the other review app takes a name.                                 *)
LEMMA NoNewOther ==
    ASSUME Typed, [Next]_vars, NEW d \in Deployment, ~OtherTakes(d)
    PROVE  /\ lease'[d].owner = Other => lease[d].owner = Other
           /\ dep'[d].owner = Other => dep[d].owner = Other
           /\ svc'[d] = Other => svc[d] = Other
  <1>1. CASE ReconcileStep
    <2>1. CASE lease' = lease /\ dep' = dep /\ svc' = svc
      BY <2>1
    <2>2. CASE ~(lease' = lease /\ dep' = dep /\ svc' = svc)
      <3>1. r.pr.uid \in Nat
        BY DEF Typed, TypeOK, Reconcile, PullRequest
      <3>. QED
        BY <1>1, <3>1, OwnedByReconcile
    <2>. QED
      BY <2>1, <2>2
  <1>2. CASE \/ UNCHANGED vars \/ Deliver \/ Tick \/ Fault \/ Crash
             \/ (\E f \in Forwarder : LoseRenewal(f) \/ \E e \in Deployment : SendRenewal(f, e))
             \/ (\E i \in Image : StartDeploy(i)) \/ WriteSpec \/ WriteStatus \/ Close
             \/ (\E c \in Configs : EditConfig(c))
             \/ (\E e \in Deployment, v \in Env \cup {NoEnv} : EditOverrides(e, v))
    <2>1. UNCHANGED <<lease, dep, svc>>
      BY <1>2 DEF vars, server, Deliver, DeliverPr, DeliverApp, TimerFires, DeliverLease,
                  DeliverDep, DeliverSvc, Tick, Fault, Crash, LoseRenewal, SendRenewal,
                  StartDeploy, WriteSpec, WriteStatus, Close, EditConfig, EditOverrides
    <2>. QED
      BY <2>1
  <1>3. CASE \E f \in Forwarder : ApplyRenewal(f)
    <2>1. PICK f \in Forwarder : ApplyRenewal(f)
      BY <1>3
    <2> DEFINE on == renewal[f].deployment
    <2>2. on \in Deployment /\ lease[on] \in Lease
      BY <2>1 DEF ApplyRenewal, Typed, TypeOK
    <2>3. \/ lease' = lease
          \/ lease' = [lease EXCEPT ![on] = [lease[on] EXCEPT !.renewTime = renewal[f].at]]
      BY <2>1 DEF ApplyRenewal
    <2>4. UNCHANGED <<dep, svc>>
      BY <2>1 DEF ApplyRenewal
    <2>. QED
      BY <2>2, <2>3, <2>4 DEF Typed, TypeOK, Lease
  <1>4. CASE \E e \in Deployment : Collect(e) \/ OtherLeaves(e) \/ OtherTakes(e)
    <2>1. PICK e \in Deployment : Collect(e) \/ OtherLeaves(e) \/ OtherTakes(e)
      BY <1>4
    <2>2. CASE Collect(e) \/ OtherLeaves(e)
      BY <2>2 DEF Collect, OtherLeaves, Typed, TypeOK, NoLease, NoWorkload
    <2>3. CASE OtherTakes(e)
      <3>1. e # d
        BY <2>3
      <3>. QED
        BY <2>3, <3>1 DEF OtherTakes, Typed, TypeOK
    <2>. QED
      BY <2>1, <2>2, <2>3
  <1>5. CASE \E e \in Deployment, n \in 0..2 : Scale(e, n)
    <2>1. PICK e \in Deployment, n \in 0..2 : Scale(e, n)
      BY <1>5
    <2>2. dep[e] \in Workload
      BY DEF Typed, TypeOK
    <2>3. dep' = [dep EXCEPT ![e] = [dep[e] EXCEPT !.replicas = n, !.scaled = dep[e].scaled + 1]]
          /\ UNCHANGED <<lease, svc>>
      BY <2>1 DEF Scale
    <2>. QED
      BY <2>2, <2>3 DEF Typed, TypeOK, Workload
  <1>. QED
    BY <1>1, <1>2, <1>3, <1>4, <1>5 DEF Next, Environment

LEMMA SeenStep ==
    ASSUME Typed, Spared, [Next]_vars, NEW d \in Deployment
    PROVE  Seen(d)'
  <1>1. CASE OtherTakes(d)
    BY <1>1 DEF OtherTakes, informer, Seen
  <1>2. CASE ~OtherTakes(d) /\ Crash
    <2>1. UNCHANGED <<lease, dep, svc>>
      BY <1>2 DEF Crash, server
    <2>2. \/ cLease' = lease /\ cDep' = dep /\ cSvc' = svc
          \/ UNCHANGED <<cLease, cDep, cSvc>>
      BY <1>2 DEF Crash, informer
    <2>. QED
      BY <2>1, <2>2 DEF Spared, Seen
  <1>3. CASE ~OtherTakes(d) /\ Deliver
    <2>1. UNCHANGED <<lease, dep, svc>>
      BY <1>3 DEF Deliver, DeliverPr, DeliverApp, TimerFires, DeliverLease, DeliverDep,
                  DeliverSvc, server
    <2>2. /\ cLease'[d] \in {cLease[d], lease[d]}
          /\ cDep'[d] \in {cDep[d], dep[d]}
          /\ cSvc'[d] \in {cSvc[d], svc[d]}
      BY <1>3 DEF Deliver, DeliverPr, DeliverApp, TimerFires, DeliverLease, DeliverDep,
                  DeliverSvc, informer, Typed, TypeOK
    <2>. QED
      BY <2>1, <2>2 DEF Spared, Seen
  <1>4. CASE ~OtherTakes(d) /\ ~Crash /\ ~Deliver
    <2>1. UNCHANGED informer
      BY <1>4 DEF Next, ReconcileStep, Environment, vars, Begin, ReportMissing, Own, List,
                  DeleteUnlisted, ReconcileLease, ReconcileDeployment, Recheck,
                  PatchDeployment, ReconcileService, Report, Inactive, RereadLease,
                  DeleteInactive, Fault, Tick, ApplyRenewal, LoseRenewal, SendRenewal,
                  StartDeploy, WriteSpec, WriteStatus, Close, EditConfig, Collect,
                  OtherTakes, OtherLeaves, EditOverrides, Scale
    <2>. QED
      BY <1>4, <2>1, NoNewOther DEF informer, Spared, Seen
  <1>. QED
    BY <1>1, <1>2, <1>3, <1>4

(* Where a step of Reconcile leads, as far as these invariants need it.    *)
LEMMA WhereTo ==
    ASSUME Typed, ReconcileStep, pc' \notin {"idle", "report"}
    PROVE  \/ pc = "idle" /\ pc' \in {"missing", "own", "list"}
           \/ Own /\ pc' = "list"
           \/ List /\ pc' = "sweep" /\ r' = [r EXCEPT !.sweep = unlisted]
           \/ List /\ pc' = "lease"
           \/ (\E d \in r.sweep : DeleteUnlisted(d)) /\ pc' = "lease"
           \/ \E d \in r.sweep : /\ DeleteUnlisted(d) /\ pc' = "sweep"
                                 /\ r' = [r EXCEPT !.sweep = @ \ {d}]
           \/ ReconcileLease /\ pc' = "deployment"
           \/ ReconcileDeployment /\ pc' \in {"recheck", "patch", "service"}
           \/ Recheck /\ pc' = "patch"
           \/ PatchDeployment /\ pc' = "service"
           \/ ReconcileService /\ pc' = "lease"
           \/ Report /\ pc' = "inactive"
           \/ Inactive /\ pc' \in {"leases", "delete"}
           \/ RereadLease /\ pc' \in {"leases", "delete"}
  <1>1. CASE Begin
    BY <1>1 DEF Begin
  <1>2. CASE ReportMissing \/ DeleteInactive
    BY <1>2 DEF ReportMissing, DeleteInactive, Done, Fail
  <1>3. CASE Own
    BY <1>3 DEF Own, Goto, Fail
  <1>4. CASE List
    BY <1>4 DEF List, BeginLoop, NextOrReport, Goto
  <1>5. CASE \E d \in Deployment : DeleteUnlisted(d)
    BY <1>5 DEF DeleteUnlisted, BeginLoop, NextOrReport, Goto, Fail
  <1>6. CASE ReconcileLease
    BY <1>6 DEF ReconcileLease, HaveLease, LoopError, Goto
  <1>7. CASE ReconcileDeployment
    BY <1>7 DEF ReconcileDeployment, LoopError, Goto
  <1>8. CASE Recheck
    BY <1>8 DEF Recheck, LoopError, Goto
  <1>9. CASE PatchDeployment
    BY <1>9 DEF PatchDeployment, LoopError, Goto
  <1>10. CASE ReconcileService
    BY <1>10 DEF ReconcileService, NextOrReport, LoopError, Goto
  <1>11. CASE Report
    BY <1>11 DEF Report, Goto, Done, Fail
  <1>12. CASE Inactive
    BY <1>12 DEF Inactive, Goto, Done
  <1>13. CASE RereadLease
    BY <1>13 DEF RereadLease
  <1>. QED
    BY <1>1, <1>2, <1>3, <1>4, <1>5, <1>6, <1>7, <1>8, <1>9, <1>10, <1>11, <1>12, <1>13
    DEF ReconcileStep

LEMMA OthersStay ==
    ASSUME [Next]_vars, ~ReconcileStep
    PROVE  UNCHANGED <<pc, r>> \/ pc' \in {"idle", "report"}
  <1>1. CASE Fault \/ Crash
    BY <1>1 DEF Fault, Crash, Fail, LoopError, Goto
  <1>2. CASE Deliver \/ UNCHANGED vars
    BY <1>2 DEF Deliver, DeliverPr, DeliverApp, TimerFires, DeliverLease, DeliverDep,
                DeliverSvc, vars, local
  <1>3. CASE Environment /\ ~Fault /\ ~Crash
    BY <1>3 DEF Environment, Tick, ApplyRenewal, LoseRenewal, SendRenewal, StartDeploy,
                WriteSpec, WriteStatus, Close, EditConfig, Collect, OtherTakes,
                OtherLeaves, EditOverrides, Scale, local
  <1>. QED
    BY <1>1, <1>2, <1>3 DEF Next

(* From one step of the loop to another, for the same deployment.          *)
LEMMA SameDeployment ==
    ASSUME Typed,
           \/ ReconcileLease /\ pc' = "deployment"
           \/ ReconcileDeployment /\ pc' \in {"recheck", "patch"}
           \/ Recheck /\ pc' = "patch"
    PROVE  current' = current /\ r'.app = r.app /\ r'.i = r.i /\ r'.pr = r.pr /\ r'.now = r.now
  <1>1. r \in Reconcile
    BY DEF Typed, TypeOK
  <1>2. \/ \E l : r' = [r EXCEPT !.lease = l, !.done = r.done \cup {current}]
        \/ \E w : r' = [r EXCEPT !.dep = w]
        \/ \E l : r' = [r EXCEPT !.lease = l]
    BY DEF ReconcileLease, ReconcileDeployment, Recheck, HaveLease, LoopError, Goto
  <1>3. r'.app = r.app /\ r'.i = r.i /\ r'.pr = r.pr /\ r'.now = r.now
    BY <1>1, <1>2 DEF Reconcile
  <1>. QED
    BY <1>3 DEF current, deploymentSpec

LEMMA SparedStep ==
    ASSUME Typed, Spared, [Next]_vars
    PROVE  Spared'
  <1>1. \A d \in Deployment : Seen(d)'
    BY SeenStep
  <1>2. CASE ~ReconcileStep
    <2>1. CASE UNCHANGED <<pc, r>>
      <3>1. ASSUME pc # "idle", NEW d \in Deployment
            PROVE  /\ lease'[d].owner = Other => lease[d].owner = Other
                   /\ dep'[d].owner = Other => dep[d].owner = Other
        BY <3>1, NoNewOther DEF OtherTakes
      <3>2. pc = "sweep" => r.sweep \subseteq Deployment
        BY DEF Typed, TypeOK, Reconcile
      <3>3. pc \in {"deployment", "recheck", "patch"} => current \in Deployment
        BY CurrentType DEF Looping
      <3>4. current' = current
        BY <2>1 DEF current, deploymentSpec
      <3>. QED
        BY <1>1, <2>1, <3>1, <3>2, <3>3, <3>4 DEF Spared
    <2>2. CASE pc' \in {"idle", "report"}
      BY <1>1, <2>2 DEF Spared
    <2>. QED
      BY <1>2, <2>1, <2>2, OthersStay
  <1>3. CASE ReconcileStep
    <2>1. ASSUME NEW d \in Deployment
          PROVE  /\ lease'[d].owner = Other => lease[d].owner = Other
                 /\ dep'[d].owner = Other => dep[d].owner = Other
      <3>1. r.pr.uid \in Nat
        BY DEF Typed, TypeOK, Reconcile, PullRequest
      <3>. QED
        BY <1>3, <3>1, OwnedByReconcile
    <2>2. pc' = "sweep" => \A d \in r'.sweep : dep'[d].owner # Other
      <3>1. CASE List /\ pc' = "sweep" /\ r' = [r EXCEPT !.sweep = unlisted]
        <4>1. r'.sweep = unlisted
          BY <3>1 DEF Typed, TypeOK, Reconcile
        <4>. QED
          BY <2>1, <4>1 DEF unlisted, Spared, Seen
      <3>2. CASE \E e \in r.sweep : /\ DeleteUnlisted(e) /\ pc' = "sweep"
                                    /\ r' = [r EXCEPT !.sweep = @ \ {e}]
        <4>1. r'.sweep \subseteq r.sweep /\ r.sweep \subseteq Deployment /\ pc = "sweep"
          BY <3>2 DEF DeleteUnlisted, Typed, TypeOK, Reconcile
        <4>. QED
          BY <2>1, <4>1 DEF Spared
      <3>. QED
        BY <1>3, <3>1, <3>2, WhereTo
    <2>3. pc' \in {"deployment", "recheck", "patch"} => lease'[current'].owner # Other
      <3>1. CASE ReconcileLease /\ pc' = "deployment"
        <4>1. current' = current /\ current \in Deployment /\ r.pr.uid \in Nat \ {0}
          BY <3>1, SameDeployment, CurrentType DEF ReconcileLease, Looping
        <4>2. lease[current].owner = Other => cLease[current].owner \in {Nobody, Other}
          BY <4>1 DEF Spared, Seen
        <4>3. lease[current].owner # Other
          BY <3>1, <4>1, <4>2 DEF ReconcileLease, LoopError, Goto
        <4>. QED
          BY <2>1, <4>1, <4>3
      <3>2. CASE \/ ReconcileDeployment /\ pc' \in {"recheck", "patch"}
                 \/ Recheck /\ pc' = "patch"
        <4>1. current' = current /\ current \in Deployment
          BY <3>2, SameDeployment, CurrentType DEF ReconcileDeployment, Recheck, Looping
        <4>2. pc \in {"deployment", "recheck"}
          BY <3>2 DEF ReconcileDeployment, Recheck
        <4>. QED
          BY <2>1, <4>1, <4>2 DEF Spared
      <3>. QED
        BY <1>3, <3>1, <3>2, WhereTo
    <2>4. pc' \in {"recheck", "patch"} => dep'[current'].owner # Other
      <3>1. CASE ReconcileDeployment /\ pc' \in {"recheck", "patch"}
        <4>1. current' = current /\ current \in Deployment /\ r.pr.uid \in Nat \ {0}
          BY <3>1, SameDeployment, CurrentType DEF ReconcileDeployment, Looping
        <4>2. cDep[current].owner = r.pr.uid
          BY <3>1 DEF ReconcileDeployment, LoopError, Goto
        <4>. QED
          BY <2>1, <4>1, <4>2 DEF Spared, Seen
      <3>2. CASE Recheck /\ pc' = "patch"
        <4>1. current' = current /\ current \in Deployment /\ pc = "recheck"
          BY <3>2, SameDeployment, CurrentType DEF Recheck, Looping
        <4>. QED
          BY <2>1, <4>1 DEF Spared
      <3>. QED
        BY <1>3, <3>1, <3>2, WhereTo
    <2>. QED
      BY <1>1, <2>2, <2>3, <2>4 DEF Spared
  <1>. QED
    BY <1>2, <1>3

LEMMA SparedInit ==
    ASSUME Init
    PROVE  Spared
  BY DEF Init, Spared, Seen

(* Reconcile never writes or deletes an object of another review app.      *)
THEOREM NeverTakesOver == Spec => NoTakeover
  <1> DEFINE Spares == <<pc, r>>' # <<pc, r>> => \A d \in Deployment :
          /\ lease[d].owner = Other => lease'[d] = lease[d]
          /\ dep[d].owner = Other => dep'[d] = dep[d]
          /\ svc[d] = Other => svc'[d] = svc[d]
  <1>1. ASSUME Typed, Spared, [Next]_vars
        PROVE  [Spares]_vars
    <2>1. CASE ReconcileStep
      BY <1>1, <2>1, SparedByReconcile
    <2>2. CASE ~ReconcileStep /\ (Fault \/ Crash)
      BY <2>2 DEF Fault, Crash, server
    <2>3. CASE ~ReconcileStep /\ ~Fault /\ ~Crash
      BY <1>1, <2>3 DEF Next, vars, local, Deliver, DeliverPr, DeliverApp, TimerFires,
         DeliverLease, DeliverDep, DeliverSvc, Environment, Tick, ApplyRenewal,
         LoseRenewal, SendRenewal, StartDeploy, WriteSpec, WriteStatus, Close, EditConfig,
         Collect, OtherTakes, OtherLeaves, EditOverrides, Scale
    <2>. QED
      BY <2>1, <2>2, <2>3
  <1>2. Spec => [](Typed /\ Spared)
    BY TypedInit, TypedStep, SparedInit, SparedStep, PTL DEF Spec
  <1>. QED
    BY <1>1, <1>2, PTL DEF Spec, NoTakeover

-----------------------------------------------------------------------------
(* Times.                                                                  *)

LEMMA NextOrReportKeeps ==
    ASSUME NEW locals \in Reconcile, NextOrReport(locals)
    PROVE  /\ r'.now = locals.now /\ r'.pr = locals.pr
           /\ pc' \in {"lease", "report"}
  <1>1. r' = locals \/ r' = [locals EXCEPT !.i = locals.i + 1]
    BY DEF NextOrReport, Goto
  <1>2. pc' \in {"lease", "report"}
    BY DEF NextOrReport, Goto
  <1>. QED
    BY <1>1, <1>2 DEF Reconcile

LEMMA BeginLoopKeeps ==
    ASSUME Typed, NEW locals \in Reconcile, BeginLoop(locals)
    PROVE  r'.now = clock /\ r'.pr = locals.pr /\ pc' \in {"lease", "report"}
  <1> DEFINE begun == [locals EXCEPT !.now = clock, !.activity = deployedAt(locals.pr)]
  <1>1. deployedAt(locals.pr) \in Nat
    BY DeployedAtType DEF Reconcile
  <1>2. begun \in Reconcile /\ begun.now = clock /\ begun.pr = locals.pr
    BY <1>1 DEF Reconcile, Typed, TypeOK
  <1>. QED
    BY <1>2, NextOrReportKeeps DEF BeginLoop

(* What Reconcile takes the time from, and the PullRequest.                 *)
LEMMA LocalsStep ==
    ASSUME Typed, ReconcileStep
    PROVE  /\ r'.now \in {r.now, clock, 0}
           /\ pc' # "idle" => \/ pc # "idle" /\ r'.pr = r.pr
                              \/ r'.pr = cPr
                              \/ r'.pr = pr'
  <1>0. r \in Reconcile /\ NotReconciling.now = 0 /\ NotReconciling.pr = NoPr
    BY DEF Typed, TypeOK, NotReconciling
  <1>1. CASE Begin
    <2>1. r' = r \/ r' = [NotReconciling EXCEPT !.pr = cPr, !.app = cApp]
      BY <1>1 DEF Begin
    <2>2. pc' # "idle" => r'.pr = cPr
      BY <1>1, NothingType DEF Begin, NotReconciling
    <2>. QED
      BY <1>0, <2>1, <2>2 DEF NotReconciling
  <1>2. CASE ReportMissing \/ DeleteInactive
    BY <1>0, <1>2 DEF ReportMissing, DeleteInactive, Done, Fail
  <1>3. CASE Own
    BY <1>0, <1>3 DEF Own, Goto, Fail, Reconcile
  <1>4. CASE List
    <2>1. CASE BeginLoop(r)
      BY <1>0, <1>4, <2>1, BeginLoopKeeps DEF List
    <2>2. CASE Goto("sweep", [r EXCEPT !.sweep = unlisted])
      BY <1>0, <1>4, <2>2 DEF List, Goto, Reconcile
    <2>. QED
      BY <1>4, <2>1, <2>2 DEF List
  <1>5. CASE \E d \in Deployment : DeleteUnlisted(d)
    <2>1. PICK d \in Deployment : DeleteUnlisted(d)
      BY <1>5
    <2> DEFINE rest == [r EXCEPT !.sweep = @ \ {d}]
    <2>2. rest \in Reconcile /\ rest.now = r.now /\ rest.pr = r.pr /\ pc = "sweep"
      BY <1>0, <2>1 DEF Reconcile, DeleteUnlisted
    <2>3. Fail \/ BeginLoop(rest) \/ Goto("sweep", rest)
      BY <2>1 DEF DeleteUnlisted
    <2> HIDE DEF rest
    <2>4. CASE Fail
      BY <1>0, <2>4 DEF Fail
    <2>5. CASE BeginLoop(rest)
      BY <2>2, <2>5, BeginLoopKeeps
    <2>6. CASE Goto("sweep", rest)
      BY <2>2, <2>6 DEF Goto
    <2>. QED
      BY <2>3, <2>4, <2>5, <2>6
  <1>6. CASE ReconcileLease \/ ReconcileDeployment \/ Recheck \/ PatchDeployment
    <2>1. \/ \E x : r' = [r EXCEPT !.err = x, !.lease = NoLease, !.dep = NoWorkload]
          \/ \E x, y : r' = [r EXCEPT !.lease = x, !.done = y]
          \/ \E x : r' = [r EXCEPT !.lease = x]
          \/ \E x : r' = [r EXCEPT !.dep = x]
          \/ r' = r
      BY <1>6 DEF ReconcileLease, ReconcileDeployment, Recheck, PatchDeployment,
                  HaveLease, LoopError, Goto
    <2>2. pc # "idle"
      BY <1>6 DEF ReconcileLease, ReconcileDeployment, Recheck, PatchDeployment
    <2>. QED
      BY <1>0, <2>1, <2>2 DEF Reconcile
  <1>7. CASE ReconcileService
    <2> DEFINE next(x, y) == [r EXCEPT !.activity = x, !.wait = y,
                                       !.lease = NoLease, !.dep = NoWorkload]
               active == lastActive(r.lease, r.pr, startOnDeploy(r.app, deploymentSpec))
               x == Longest(r.activity, r.lease.renewTime)
               y == earliest(r.wait, scaleDownIn(active,
                                 scaleDownAfter(r.app, deploymentSpec), r.now))
    <2>1. x \in Nat /\ y \in Nat
      <3>1. pc \in Looping /\ r.lease \in Lease /\ r.pr \in PullRequest
            /\ r.activity \in Nat /\ r.wait \in Nat /\ r.now \in Nat
        BY <1>0, <1>7 DEF ReconcileService, Looping, Reconcile
      <3>2. active \in Nat /\ scaleDownAfter(r.app, deploymentSpec) \in Nat
        BY <3>1, CurrentType, LastActiveType
      <3>. QED
        BY <3>1, <3>2, ScaleDownInType, MaxMinType DEF Lease
    <2>2. NextOrReport(next(x, y)) \/ \E e : LoopError(e)
      BY <1>7 DEF ReconcileService
    <2>3. next(x, y) \in Reconcile /\ next(x, y).now = r.now /\ next(x, y).pr = r.pr
      <3> HIDE DEF x, y
      <3>. QED
        BY <1>0, <2>1, NothingType DEF Reconcile
    <2> HIDE DEF next, x, y
    <2>4. CASE NextOrReport(next(x, y))
      BY <1>7, <2>3, <2>4, NextOrReportKeeps DEF ReconcileService
    <2>5. CASE \E e : LoopError(e)
      BY <1>0, <1>7, <2>5 DEF ReconcileService, LoopError, Goto, Reconcile
    <2>. QED
      BY <2>2, <2>4, <2>5
  <1>8. CASE Report
    BY <1>0, <1>8 DEF Report, Goto, Done, Fail
  <1>9. CASE Inactive
    BY <1>0, <1>9 DEF Inactive, Goto, Done, Reconcile
  <1>10. CASE RereadLease
    <2>1. \E x, y : r' = [r EXCEPT !.activity = x, !.i = y]
      BY <1>10 DEF RereadLease
    <2>. QED
      BY <1>0, <1>10, <2>1 DEF RereadLease, Reconcile
  <1>. QED
    BY <1>1, <1>2, <1>3, <1>4, <1>5, <1>6, <1>7, <1>8, <1>9, <1>10 DEF ReconcileStep

LEMMA OthersKeepNow ==
    ASSUME Typed, [Next]_vars, ~ReconcileStep
    PROVE  r'.now \in {r.now, 0} /\ (UNCHANGED r \/ pc' \in {"idle", "report"})
  <1>1. CASE UNCHANGED <<pc, r>>
    BY <1>1
  <1>2. CASE ~UNCHANGED <<pc, r>>
    <2>1. Fault \/ Crash
      BY <1>2 DEF Next, vars, local, Deliver, DeliverPr, DeliverApp, TimerFires,
         DeliverLease, DeliverDep, DeliverSvc, Environment, Tick, ApplyRenewal,
         LoseRenewal, SendRenewal, StartDeploy, WriteSpec, WriteStatus, Close, EditConfig,
         Collect, OtherTakes, OtherLeaves, EditOverrides, Scale
    <2>2. \/ r' = NotReconciling
          \/ \E x : r' = [r EXCEPT !.err = x, !.lease = NoLease, !.dep = NoWorkload]
      BY <2>1 DEF Fault, Crash, Fail, LoopError, Goto
    <2>3. r \in Reconcile
      BY DEF Typed, TypeOK
    <2>4. CASE r' = NotReconciling
      BY <1>2, <2>4, OthersStay DEF NotReconciling
    <2>5. CASE \E x : r' = [r EXCEPT !.err = x, !.lease = NoLease, !.dep = NoWorkload]
      <3>1. r'.now = r.now
        BY <2>3, <2>5 DEF Reconcile
      <3>. QED
        BY <1>2, <3>1, OthersStay
    <2>. QED
      BY <2>2, <2>4, <2>5
  <1>. QED
    BY <1>1, <1>2

LEMMA ClockStep ==
    ASSUME Typed, [Next]_vars
    PROVE  clock <= clock'
  <1>1. clock' = clock \/ clock' = clock + 1
    <2>1. CASE ReconcileStep
      BY <2>1 DEF ReconcileStep, Begin, ReportMissing, Own, List, DeleteUnlisted,
         ReconcileLease, ReconcileDeployment, Recheck, PatchDeployment,
         ReconcileService, Report, Inactive, RereadLease, DeleteInactive
    <2>2. CASE ~ReconcileStep
      BY <2>2 DEF Next, vars, Deliver, DeliverPr, DeliverApp, TimerFires,
         DeliverLease, DeliverDep, DeliverSvc, Environment, Tick, Fault, Crash, ApplyRenewal,
         LoseRenewal, SendRenewal, StartDeploy, WriteSpec, WriteStatus, Close, EditConfig,
         Collect, OtherTakes, OtherLeaves, EditOverrides, Scale
    <2>. QED
      BY <2>1, <2>2
  <1>. QED
    BY <1>1 DEF Typed, TypeOK

LEMMA PastStep ==
    ASSUME Typed, Past, [Next]_vars
    PROVE  Past'
  <1>1. clock \in Nat /\ clock' \in Nat /\ clock <= clock' /\ r.now \in Nat
    BY ClockStep, TypedStep DEF Typed, TypeOK, Reconcile
  <1>2. r'.now \in {r.now, clock, 0}
    BY LocalsStep, OthersKeepNow
  <1>3. ASSUME NEW f \in Forwarder
        PROVE  renewal'[f] \in {renewal[f], NoRenewal} \/ renewal'[f].at = clock
    <2>1. CASE UNCHANGED renewal
      BY <2>1
    <2>2. CASE \E g \in Forwarder : ApplyRenewal(g) \/ LoseRenewal(g)
                                    \/ \E d \in Deployment : SendRenewal(g, d)
      BY <2>2 DEF ApplyRenewal, LoseRenewal, SendRenewal, Typed, TypeOK
    <2>3. UNCHANGED renewal \/ \E g \in Forwarder : ApplyRenewal(g) \/ LoseRenewal(g)
                                    \/ \E d \in Deployment : SendRenewal(g, d)
      <3>1. CASE ReconcileStep
        BY <3>1 DEF ReconcileStep, Begin, ReportMissing, Own, List, DeleteUnlisted,
           ReconcileLease, ReconcileDeployment, Recheck, PatchDeployment,
           ReconcileService, Report, Inactive, RereadLease, DeleteInactive, others
      <3>2. CASE ~ReconcileStep
        BY <3>2 DEF Next, vars, others, Deliver, DeliverPr, DeliverApp, TimerFires,
           DeliverLease, DeliverDep, DeliverSvc, Environment, Tick, Fault, Crash,
           StartDeploy, WriteSpec, WriteStatus, Close, EditConfig, Collect, OtherTakes,
           OtherLeaves, EditOverrides, Scale
      <3>. QED
        BY <3>1, <3>2
    <2>. QED
      BY <2>1, <2>2, <2>3
  <1>4. Start \in Nat
    BY ControllerAssumption
  <1>5. ASSUME NEW f \in Forwarder, renewal'[f] # NoRenewal
        PROVE  Start <= renewal'[f].at
    BY <1>3, <1>5 DEF Past
  <1>. QED
    BY <1>1, <1>2, <1>4, <1>5 DEF Past

(* Only a renewal moves the renew time of a Lease forward, other than       *)
(* Reconcile.                                                               *)
LEMMA RenewTimeStep ==
    ASSUME Typed, [Next]_vars, ~ReconcileStep, NEW d \in Deployment
    PROVE  \/ lease'[d].renewTime <= lease[d].renewTime /\ UNCHANGED raced
           \/ raced' /\ pc \in {"patch", "leases", "delete"}
           \/ pc \notin {"patch", "leases", "delete"}
           \/ pc' \in {"idle", "report"}
  <1>1. lease[d] \in Lease /\ lease[d].renewTime \in Nat
    BY DEF Typed, TypeOK, Lease
  <1>2. CASE \/ UNCHANGED vars \/ Deliver \/ Tick
             \/ (\E f \in Forwarder : LoseRenewal(f) \/ \E e \in Deployment : SendRenewal(f, e))
             \/ (\E i \in Image : StartDeploy(i)) \/ WriteSpec \/ WriteStatus \/ Close
             \/ (\E c \in Configs : EditConfig(c))
             \/ (\E e \in Deployment, v \in Env \cup {NoEnv} : EditOverrides(e, v))
             \/ (\E e \in Deployment, n \in 0..2 : Scale(e, n))
    <2>1. UNCHANGED <<lease, raced>>
      BY <1>2 DEF vars, server, local, Deliver, DeliverPr, DeliverApp, TimerFires,
                  DeliverLease, DeliverDep, DeliverSvc, Tick, LoseRenewal, SendRenewal,
                  StartDeploy, WriteSpec, WriteStatus, Close, EditConfig, EditOverrides,
                  Scale
    <2>. QED
      BY <1>1, <2>1
  <1>3. CASE Fault \/ Crash
    BY <1>3 DEF Fault, Crash, Fail, LoopError, Goto
  <1>4. CASE \E f \in Forwarder : ApplyRenewal(f)
    BY <1>4 DEF ApplyRenewal
  <1>5. CASE \E e \in Deployment : OtherTakes(e)
    BY <1>5 DEF OtherTakes
  <1>6. CASE \E e \in Deployment : Collect(e) \/ OtherLeaves(e)
    <2>1. PICK e \in Deployment : Collect(e) \/ OtherLeaves(e)
      BY <1>6
    <2>2. (lease' = lease \/ lease' = [lease EXCEPT ![e] = NoLease]) /\ UNCHANGED raced
      BY <2>1 DEF Collect, OtherLeaves, local
    <2>. QED
      BY <1>1, <2>2 DEF NoLease, Typed, TypeOK
  <1>. QED
    BY <1>2, <1>3, <1>4, <1>5, <1>6 DEF Next, Environment

-----------------------------------------------------------------------------
(* deleteInactive.                                                         *)

LEMMA CountedStep ==
    ASSUME Typed, Counted, [Next]_vars
    PROVE  Counted'
  <1>1. CASE ~ReconcileStep
    <2>1. CASE UNCHANGED <<pc, r>> /\ pc \in {"leases", "delete"}
      <3>1. \A j \in 1..Len(r.app.deployments) : r.app.deployments[j].name \in Deployment
        <4>1. r.app \in Configs
          BY <2>1 DEF Typed, Located
        <4>. QED
          BY <4>1, DeploymentSpecType
      <3>2. \A d \in Deployment : \/ lease'[d].renewTime <= lease[d].renewTime /\ UNCHANGED raced
                                  \/ raced'
        BY <1>1, <2>1, RenewTimeStep
      <3>3. \A d \in Deployment : lease[d].renewTime \in Nat /\ lease'[d].renewTime \in Nat
        BY TypedStep DEF Typed, TypeOK, Lease
      <3>4. r.activity \in Nat
        BY DEF Typed, TypeOK, Reconcile
      <3>5. ASSUME ~raced', NEW j \in 1..Len(r.app.deployments), j < r.i \/ pc = "delete"
            PROVE  lease'[r.app.deployments[j].name].renewTime <= r.activity
        <4> DEFINE d == r.app.deployments[j].name
        <4>1. d \in Deployment
          BY <3>1
        <4>2. lease'[d].renewTime <= lease[d].renewTime /\ ~raced
          BY <3>2, <3>5, <4>1
        <4>3. lease[d].renewTime <= r.activity
          BY <2>1, <3>5, <4>2 DEF Counted
        <4>. QED
          BY <3>3, <3>4, <4>1, <4>2, <4>3
      <3>6. deployedAt(r.fresh) <= r.activity
        BY <2>1 DEF Counted
      <3>. QED
        BY <2>1, <3>5, <3>6 DEF Counted
    <2>2. CASE ~(UNCHANGED <<pc, r>> /\ pc \in {"leases", "delete"})
      BY <1>1, <2>2, OthersStay DEF Counted
    <2>. QED
      BY <2>1, <2>2
  <1>2. CASE ReconcileStep /\ pc' \in {"leases", "delete"}
    <2>1. CASE Inactive
      <3> DEFINE activity == deployedAt(pr)
      <3>1. r \in Reconcile /\ pr \in PullRequest /\ activity \in Nat
        BY DeployedAtType DEF Typed, TypeOK
      <3>2. r' = [r EXCEPT !.fresh = pr, !.activity = activity, !.i = 1]
            /\ (pc' = "delete" => r.app.deployments = <<>>)
        BY <1>2, <2>1 DEF Inactive, Goto, Done
      <3> HIDE DEF activity
      <3>3. r'.fresh = pr /\ r'.activity = activity /\ r'.i = 1 /\ r'.app = r.app
        BY <3>1, <3>2 DEF Reconcile
      <3>4. \A j \in 1..Len(r'.app.deployments) : ~(j < r'.i \/ pc' = "delete")
        BY <3>2, <3>3
      <3>. QED
        BY <3>1, <3>3, <3>4 DEF Counted, activity
    <2>2. CASE RereadLease
      <3> DEFINE renewTime == lease[current].renewTime
                 activity == Longest(r.activity, renewTime)
                 i == IF r.i < Len(r.app.deployments) THEN r.i + 1 ELSE r.i
      <3>1. pc = "leases" /\ r \in Reconcile /\ r.app \in Configs /\ current \in Deployment
            /\ r.i \in 1..Len(r.app.deployments) /\ Len(r.app.deployments) \in Nat
        BY <2>2, CurrentType, ConfigType DEF RereadLease, Typed, TypeOK, Located
      <3>2. r.activity \in Nat /\ renewTime \in Nat
        BY <3>1 DEF Typed, TypeOK, Reconcile, Lease
      <3>3. activity \in Nat /\ activity >= r.activity /\ activity >= renewTime
        BY <3>2, MaxMinType
      <3>4. r' = [r EXCEPT !.activity = activity, !.i = i]
            /\ (pc' = "delete" => r.i = Len(r.app.deployments))
            /\ UNCHANGED <<lease, raced>>
        BY <2>2, <3>1 DEF RereadLease, server
      <3>5. r'.fresh = r.fresh /\ r'.activity = activity /\ r'.i = i /\ r'.app = r.app
        <4> HIDE DEF activity, i
        <4>. QED
          BY <3>1, <3>4 DEF Reconcile
      <3>6. deployedAt(r.fresh) <= r.activity /\ deployedAt(r.fresh) \in Nat
        BY <3>1, DeployedAtType DEF Counted, Reconcile
      <3>7. ASSUME ~raced, NEW j \in 1..Len(r.app.deployments), j < i \/ pc' = "delete"
            PROVE  lease[r.app.deployments[j].name].renewTime <= activity
        <4>1. j < r.i \/ j = r.i
          BY <3>1, <3>4, <3>7
        <4>2. CASE j < r.i
          <5>1. lease[r.app.deployments[j].name].renewTime <= r.activity
            BY <3>1, <3>7, <4>2 DEF Counted
          <5>2. lease[r.app.deployments[j].name].renewTime \in Nat
            BY <3>1, DeploymentSpecType DEF Typed, TypeOK, Lease
          <5>. QED
            BY <3>2, <3>3, <5>1, <5>2
        <4>3. CASE j = r.i
          BY <3>3, <4>3 DEF current, deploymentSpec
        <4>. QED
          BY <4>1, <4>2, <4>3
      <3>8. deployedAt(r.fresh) <= activity
        BY <3>2, <3>3, <3>6
      <3> HIDE DEF activity, i, renewTime
      <3>. QED
        BY <3>4, <3>5, <3>7, <3>8 DEF Counted
    <2>. QED
      BY <1>2, <2>1, <2>2, WhereTo
  <1>3. CASE pc' \notin {"leases", "delete"}
    BY <1>3 DEF Counted
  <1>. QED
    BY <1>1, <1>2, <1>3

(* deleteInactive deletes no review app that was deployed within            *)
(* deleteAfter, nor, but for visits since it looked, one that was visited.  *)
THEOREM DeletesJustified == Spec => DeleteJustified
  <1> DEFINE Justified ==
          pc = "delete" /\ pc' = "idle" /\ pr.uid # 0 /\ pr'.uid = 0 =>
              /\ deployedAt(pr) + deleteAfter <= clock
              /\ \/ raced
                 \/ \A d \in Names(r.app) : lease[d].renewTime + deleteAfter <= clock
  <1>1. ASSUME Typed, Past, Counted, [Next]_vars
        PROVE  [Justified]_vars
    <2> SUFFICES ASSUME pc = "delete", pc' = "idle", pr.uid # 0, pr'.uid = 0
                 PROVE  /\ deployedAt(pr) + deleteAfter <= clock
                        /\ \/ raced
                           \/ \A d \in Names(r.app) : lease[d].renewTime + deleteAfter <= clock
      OBVIOUS
    <2>1. ReconcileStep
      <3>1. CASE ~ReconcileStep
        <4>1. Fault \/ Crash
          BY <1>1, <3>1 DEF Next, vars, local, Deliver, DeliverPr, DeliverApp, TimerFires,
             DeliverLease, DeliverDep, DeliverSvc, Environment, Tick, ApplyRenewal,
             LoseRenewal, SendRenewal, StartDeploy, WriteSpec, WriteStatus, Close, EditConfig,
             Collect, OtherTakes, OtherLeaves, EditOverrides, Scale
        <4>. QED
          BY <4>1 DEF Fault, Crash, server
      <3>. QED
        BY <3>1
    <2>2. DeleteInactive
      BY <2>1 DEF ReconcileStep, Begin, ReportMissing, Own, List, DeleteUnlisted,
         ReconcileLease, ReconcileDeployment, Recheck, PatchDeployment,
         ReconcileService, Report, Inactive, RereadLease
    <2>3. inactive /\ pr = r.fresh
      BY <2>2 DEF DeleteInactive
    <2>4. /\ r.app \in Configs /\ r.activity \in Nat /\ r.now \in Nat /\ clock \in Nat
          /\ deleteAfter \in Nat
      BY <1>1, ConfigType DEF Typed, TypeOK, Located, Reconcile, deleteAfter
    <2>5. r.activity + deleteAfter <= clock
      BY <1>1, <2>3, <2>4 DEF inactive, Past
    <2>6. deployedAt(pr) <= r.activity /\ deployedAt(pr) \in Nat
      BY <1>1, <2>3, DeployedAtType DEF Counted, Typed, TypeOK
    <2>7. ASSUME ~raced, NEW d \in Names(r.app)
          PROVE  lease[d].renewTime + deleteAfter <= clock
      <3>1. PICK j \in 1..Len(r.app.deployments) : d = r.app.deployments[j].name
        BY DEF Names
      <3>2. lease[d].renewTime <= r.activity
        BY <1>1, <2>7, <3>1 DEF Counted
      <3>3. lease[d].renewTime \in Nat
        BY <1>1, <2>4, SpecOfType DEF Typed, TypeOK, Lease
      <3>. QED
        BY <2>4, <2>5, <3>2, <3>3
    <2>. QED
      BY <2>4, <2>5, <2>6, <2>7
  <1>2. ASSUME Init
        PROVE  Past /\ Counted
    <2>1. r.now = 0 /\ clock = Start /\ Start \in Nat
      BY <1>2, ControllerAssumption DEF Init, NotReconciling
    <2>2. Past
      BY <1>2, <2>1 DEF Init, Past
    <2>3. Counted
      BY <1>2 DEF Init, Counted
    <2>. QED
      BY <2>2, <2>3
  <1>3. Spec => [](Typed /\ Past /\ Counted)
    BY <1>2, TypedInit, TypedStep, PastStep, CountedStep, PTL DEF Spec
  <1>. QED
    BY <1>1, <1>3, PTL DEF Spec, DeleteJustified

-----------------------------------------------------------------------------
(* Scaling down.                                                           *)

(* The activity of an earlier version is only ever removed.                *)
LEMMA LegacyStep ==
    ASSUME Typed, [Next]_vars, NEW d \in Deployment
    PROVE  pr'.legacy[d] \in {pr.legacy[d], NoLegacy}
  <1>1. pr \in PullRequest
    BY DEF Typed, TypeOK
  <1>2. NoPr.legacy[d] = NoLegacy
    BY DEF NoPr
  <1>3. CASE pr' = pr
    BY <1>3
  <1>4. CASE pr' = NoPr
    BY <1>2, <1>4
  <1>5. CASE pr' = Reported
    BY <1>1, <1>5 DEF Reported, PullRequest
  <1>6. CASE \/ \E x, y : pr' = [pr EXCEPT !.reason = x, !.observed = y]
             \/ pr' = [pr EXCEPT !.owned = TRUE]
             \/ \E x, y : pr' = [pr EXCEPT !.image = x, !.gen = y]
             \/ \E x : pr' = [pr EXCEPT !.deployedAt = x]
             \/ \E e, x, y : pr' = [pr EXCEPT !.env[e] = x, !.gen = y]
    BY <1>1, <1>6 DEF PullRequest
  <1>7. CASE pr' = Created(deploying.image)
    BY <1>2, <1>7 DEF Created, NoPr
  <1>8. \/ pr' = pr \/ pr' = NoPr \/ pr' = Reported \/ pr' = Created(deploying.image)
        \/ \E x, y : pr' = [pr EXCEPT !.reason = x, !.observed = y]
        \/ pr' = [pr EXCEPT !.owned = TRUE]
        \/ \E x, y : pr' = [pr EXCEPT !.image = x, !.gen = y]
        \/ \E x : pr' = [pr EXCEPT !.deployedAt = x]
        \/ \E e, x, y : pr' = [pr EXCEPT !.env[e] = x, !.gen = y]
    <2>1. CASE ReconcileStep
      <3>1. CASE ReportMissing
        BY <3>1 DEF ReportMissing
      <3>2. CASE Own \/ Report \/ DeleteInactive
        BY <3>2 DEF Own, Report, DeleteInactive
      <3>. QED
        BY <2>1, <3>1, <3>2 DEF ReconcileStep, server, Begin, List, DeleteUnlisted,
           ReconcileLease, ReconcileDeployment, Recheck, PatchDeployment,
           ReconcileService, Inactive, RereadLease
    <2>2. CASE WriteSpec \/ WriteStatus \/ Close
      BY <2>2 DEF WriteSpec, WriteStatus, Close
    <2>3. CASE \E e \in Deployment, x \in Env \cup {NoEnv} : EditOverrides(e, x)
      <3>1. PICK e \in Deployment, x \in Env \cup {NoEnv} : EditOverrides(e, x)
        BY <2>3
      <3>2. pr' = [pr EXCEPT !.env[e] = x, !.gen = pr.gen + 1]
        BY <3>1 DEF EditOverrides
      <3>. QED
        BY <3>2
    <2>4. CASE ~ReconcileStep /\ ~WriteSpec /\ ~WriteStatus /\ ~Close
               /\ ~(\E e \in Deployment, x \in Env \cup {NoEnv} : EditOverrides(e, x))
      BY <2>4 DEF Next, vars, server, Deliver, DeliverPr, DeliverApp, TimerFires,
         DeliverLease, DeliverDep, DeliverSvc, Environment, Tick, Fault, Crash, ApplyRenewal,
         LoseRenewal, SendRenewal, StartDeploy, EditConfig, Collect, OtherTakes,
         OtherLeaves, Scale
    <2>. QED
      BY <2>1, <2>2, <2>3, <2>4
  <1>. QED
    BY <1>3, <1>4, <1>5, <1>6, <1>7, <1>8

LEMMA LegaciesFall ==
    ASSUME Typed, [Next]_vars, NEW d \in Deployment
    PROVE  /\ Legacies(pr, d) \in Nat /\ Legacies(pr', d) \in Nat
           /\ Legacies(pr', d) <= Legacies(pr, d)
  <1>1. pr.legacy[d] \in Legacy /\ pr'.legacy[d] \in Legacy
    BY TypedStep DEF Typed, TypeOK, PullRequest
  <1>. QED
    BY <1>1, LegacyStep DEF Legacies, Legacy, NoLegacy

(* The Leases that are the PullRequest's have the activity of an earlier    *)
(* version, or more.                                                        *)
LEMMA LeaseKeepsLegacy ==
    ASSUME Typed, Past, Migrated, [Next]_vars, NEW d \in Deployment,
           lease'[d].owner \notin {Nobody, Other}
    PROVE  Legacies(pr, d) <= lease'[d].renewTime
  <1>1. /\ lease[d] \in Lease /\ lease[d].renewTime \in Nat /\ Legacies(pr, d) \in Nat
        /\ pr.legacy[d] \in Legacy /\ Legacies(pr, d) <= Start
        /\ Start \in Nat
    BY ControllerAssumption DEF Typed, TypeOK, Lease, PullRequest, Legacies, Legacy, Migrated
  <1>2. CASE lease'[d] = lease[d]
    BY <1>2 DEF Migrated
  <1>3. CASE ReconcileLease /\ lease'[d] # lease[d]
    <2> DEFINE after == scaleDownAfter(r.app, deploymentSpec)
               fresh == [owner |-> r.pr.uid, duration |-> leaseDuration(after),
                         renewTime |-> migratedRenewTime(r.pr.legacy[current], after, clock)]
               longer == [lease[current] EXCEPT !.duration = leaseDuration(after)]
    <2>1. current \in Deployment
      BY <1>3, CurrentType DEF ReconcileLease, Looping
    <2>2. /\ d = current
          /\ \/ lease'[d] = fresh
             \/ lease'[d] = longer /\ lease[d].owner # Nobody
      <3>1. \/ lease' = lease
            \/ lease' = [lease EXCEPT ![current] = fresh]
            \/ lease' = [lease EXCEPT ![current] = longer] /\ lease[current].owner # Nobody
        BY <1>3 DEF ReconcileLease
      <3>. QED
        BY <1>3, <2>1, <3>1 DEF Typed, TypeOK
    <2>3. CASE lease'[d] = longer /\ lease[d].owner # Nobody
      <3>1. longer.renewTime = lease[d].renewTime /\ longer.owner = lease[d].owner
        BY <1>1, <2>2 DEF Lease
      <3>. QED
        BY <2>3, <3>1 DEF Migrated
    <2>4. CASE lease'[d] = fresh
      <3>1. CASE pr.legacy[d] = NoLegacy
        <4>1. Legacies(pr, d) = 0
          BY <3>1 DEF Legacies, NoLegacy
        <4>2. lease'[d].renewTime \in Nat
          BY TypedStep DEF Typed, TypeOK, Lease
        <4>. QED
          BY <4>1, <4>2
      <3>2. CASE pr.legacy[d] # NoLegacy
        <4>1. r.pr.legacy[d] = pr.legacy[d]
          BY <1>3, <3>2 DEF Migrated, ReconcileLease
        <4>2. lease'[d].renewTime = migratedRenewTime(pr.legacy[d], after, clock)
          BY <2>2, <2>4, <4>1
        <4>3. CASE pr.legacy[d].isActive
          BY <1>1, <4>2, <4>3 DEF migratedRenewTime, Legacies, Legacy
        <4>4. CASE ~pr.legacy[d].isActive
          <5>1. Legacies(pr, d) = 0
            BY <4>4 DEF Legacies
          <5>2. lease'[d].renewTime \in Nat
            BY TypedStep DEF Typed, TypeOK, Lease
          <5>. QED
            BY <5>1, <5>2
        <4>. QED
          BY <4>3, <4>4
      <3>. QED
        BY <3>1, <3>2
    <2>. QED
      BY <2>2, <2>3, <2>4
  <1>4. CASE \E f \in Forwarder : ApplyRenewal(f) /\ lease'[d] # lease[d]
    <2>1. PICK f \in Forwarder : ApplyRenewal(f)
      BY <1>4
    <2> DEFINE on == renewal[f].deployment
    <2>2. renewal[f] # NoRenewal /\ renewal[f] \in [deployment: Deployment, at: Nat]
      BY <2>1 DEF ApplyRenewal, Typed, TypeOK
    <2>3. \/ lease' = lease
          \/ lease' = [lease EXCEPT ![on] = [lease[on] EXCEPT !.renewTime = renewal[f].at]]
      BY <2>1 DEF ApplyRenewal
    <2>4. d = on /\ lease'[d] = [lease[d] EXCEPT !.renewTime = renewal[f].at]
      BY <1>4, <2>2, <2>3 DEF Typed, TypeOK
    <2>5. lease'[d].renewTime = renewal[f].at
      BY <1>1, <2>4 DEF Lease
    <2>6. Start <= renewal[f].at
      BY <2>2 DEF Past
    <2>. QED
      BY <1>1, <2>2, <2>5, <2>6
  <1>5. CASE \E e \in Deployment : /\ Collect(e) \/ OtherLeaves(e) \/ OtherTakes(e)
                                   /\ lease'[d] # lease[d]
    <2>1. PICK e \in Deployment : Collect(e) \/ OtherLeaves(e) \/ OtherTakes(e)
      BY <1>5
    <2>2. \/ lease' = lease \/ lease' = [lease EXCEPT ![e] = NoLease]
          \/ lease' = [lease EXCEPT ![e] = [lease[e] EXCEPT !.owner = Other]]
      BY <2>1 DEF Collect, OtherLeaves, OtherTakes
    <2>3. lease'[d] = NoLease \/ lease'[d] = [lease[d] EXCEPT !.owner = Other]
      BY <1>5, <2>2 DEF Typed, TypeOK
    <2>4. lease'[d].owner \in {Nobody, Other}
      BY <1>1, <2>3 DEF NoLease, Lease
    <2>. QED
      BY <2>4
  <1>6. \/ lease' = lease \/ ReconcileLease \/ (\E f \in Forwarder : ApplyRenewal(f))
        \/ \E e \in Deployment : Collect(e) \/ OtherLeaves(e) \/ OtherTakes(e)
    <2>1. CASE ReconcileStep
      BY <2>1 DEF ReconcileStep, server, Begin, ReportMissing, Own, List, DeleteUnlisted,
         ReconcileDeployment, Recheck, PatchDeployment, ReconcileService, Report,
         Inactive, RereadLease, DeleteInactive
    <2>2. CASE ~ReconcileStep
      BY <2>2 DEF Next, vars, server, Deliver, DeliverPr, DeliverApp, TimerFires,
         DeliverLease, DeliverDep, DeliverSvc, Environment, Tick, Fault, Crash,
         LoseRenewal, SendRenewal, StartDeploy, WriteSpec, WriteStatus, Close,
         EditConfig, EditOverrides, Scale
    <2>. QED
      BY <2>1, <2>2
  <1>. QED
    BY <1>2, <1>3, <1>4, <1>5, <1>6

LEMMA MigratedInit ==
    ASSUME Init
    PROVE  Migrated
  <1>1. Start \in Nat /\ Truncate(Start) \in Nat /\ Truncate(Start) <= Start
    BY ControllerAssumption, TruncateType
  <1>2. NoLegacy.lastActive = 0 /\ ~NoLegacy.isActive
    BY DEF NoLegacy
  <1>3. ASSUME NEW d \in Deployment
        PROVE  /\ pr.legacy[d].lastActive <= Start
               /\ lease[d].owner \notin {Nobody, Other} =>
                      Legacies(pr, d) <= lease[d].renewTime
    <2>1. CASE InitUpgraded
      <3>1. PICK l \in Recorded(app) : /\ pr = PrOf(app, l)
                                       /\ lease = [e \in Deployment |-> NoLease]
        BY <2>1 DEF InitUpgraded
      <3>2. pr.legacy = l
        BY <3>1 DEF PrOf, NoPr
      <3>3. l \in [Deployment -> [lastActive: {0, Truncate(Start)}, isActive: BOOLEAN]]
        BY DEF Recorded
      <3>4. pr.legacy[d] = l[d] /\ l[d].lastActive \in {0, Truncate(Start)}
        BY <3>2, <3>3
      <3>5. lease[d].owner = Nobody
        BY <3>1 DEF NoLease
      <3>. QED
        BY <1>1, <3>4, <3>5
    <2>2. CASE InitReconciled \/ InitNew
      <3>1. pr.legacy = [e \in Deployment |-> NoLegacy]
        <4>1. pr = PrOf(app, [e \in Deployment |-> NoLegacy]) \/ pr = NoPr
          BY <2>2 DEF InitReconciled, InitNew
        <4>2. \A c, l : PrOf(c, l).legacy = l
          BY DEF PrOf, NoPr
        <4>3. NoPr.legacy = [e \in Deployment |-> NoLegacy]
          BY DEF NoPr
        <4>4. CASE pr = NoPr
          BY <4>3, <4>4
        <4>5. CASE pr = PrOf(app, [e \in Deployment |-> NoLegacy])
          BY <4>2, <4>5
        <4>. QED
          BY <4>1, <4>4, <4>5
      <3>2. lease[d].renewTime \in Nat
        BY TypedInit DEF Typed, TypeOK, Lease
      <3>. QED
        BY <1>1, <1>2, <3>1, <3>2 DEF Legacies
    <2>. QED
      BY <2>1, <2>2 DEF Init
  <1>. QED
    BY <1>3 DEF Init, Migrated

LEMMA OwnKeepsLegacy ==
    ASSUME Typed, ReconcileStep, pc' # "idle", NEW d \in Deployment
    PROVE  \/ pc # "idle" /\ r'.pr.legacy[d] = r.pr.legacy[d]
           \/ r'.pr.legacy[d] = cPr.legacy[d]
           \/ r'.pr.legacy[d] = pr'.legacy[d]
  BY LocalsStep

LEMMA MigratedStep ==
    ASSUME Typed, Past, Migrated, [Next]_vars
    PROVE  Migrated'
  <1> SUFFICES ASSUME NEW d \in Deployment
               PROVE  /\ pr'.legacy[d].lastActive <= Start
                      /\ pr'.legacy[d] # NoLegacy =>
                            /\ cPr'.legacy[d] = pr'.legacy[d]
                            /\ pc' # "idle" => r'.pr.legacy[d] = pr'.legacy[d]
                      /\ lease'[d].owner \notin {Nobody, Other} =>
                            Legacies(pr', d) <= lease'[d].renewTime
    BY DEF Migrated, Legacies
  <1>1. pr'.legacy[d] \in {pr.legacy[d], NoLegacy}
    BY LegacyStep
  <1>2. pr'.legacy[d].lastActive <= Start
    <2>1. NoLegacy.lastActive = 0 /\ Start \in Nat
      BY ControllerAssumption DEF NoLegacy
    <2>. QED
      BY <1>1, <2>1 DEF Migrated
  <1>3. ASSUME pr'.legacy[d] # NoLegacy
        PROVE  cPr'.legacy[d] = pr'.legacy[d]
    <2>1. cPr' = cPr \/ cPr' = pr
      <3>1. CASE ReconcileStep
        BY <3>1 DEF ReconcileStep, informer, Begin, ReportMissing, Own, List, DeleteUnlisted,
           ReconcileLease, ReconcileDeployment, Recheck, PatchDeployment,
           ReconcileService, Report, Inactive, RereadLease, DeleteInactive
      <3>2. CASE ~ReconcileStep
        BY <3>2 DEF Next, vars, informer, Deliver, DeliverPr, DeliverApp, TimerFires,
           DeliverLease, DeliverDep, DeliverSvc, Environment, Tick, Fault, Crash, ApplyRenewal,
           LoseRenewal, SendRenewal, StartDeploy, WriteSpec, WriteStatus, Close, EditConfig,
           Collect, OtherTakes, OtherLeaves, EditOverrides, Scale
      <3>. QED
        BY <3>1, <3>2
    <2>. QED
      BY <1>1, <1>3, <2>1 DEF Migrated
  <1>4. ASSUME pr'.legacy[d] # NoLegacy, pc' # "idle"
        PROVE  r'.pr.legacy[d] = pr'.legacy[d]
    <2>1. pr'.legacy[d] = pr.legacy[d] /\ cPr.legacy[d] = pr.legacy[d]
      BY <1>1, <1>4 DEF Migrated
    <2>2. CASE ReconcileStep
      BY <1>4, <2>1, <2>2, OwnKeepsLegacy DEF Migrated
    <2>3. CASE ~ReconcileStep
      <3>1. pc # "idle" /\ r'.pr = r.pr
        <4>1. CASE Fault
          <5>1. pc # "idle" /\ (Fail \/ LoopError("ReconcileFailed"))
            BY <4>1 DEF Fault
          <5>2. r' = [r EXCEPT !.err = "ReconcileFailed", !.lease = NoLease, !.dep = NoWorkload]
            BY <1>4, <5>1 DEF Fail, LoopError, Goto
          <5>3. r \in Reconcile
            BY DEF Typed, TypeOK
          <5>. QED
            BY <5>1, <5>2, <5>3 DEF Reconcile
        <4>2. CASE ~Fault
          <5>1. UNCHANGED <<pc, r>>
            BY <1>4, <2>3, <4>2
            DEF Next, vars, local, Deliver, DeliverPr, DeliverApp, TimerFires,
                DeliverLease, DeliverDep, DeliverSvc, Environment, Tick, Crash, ApplyRenewal,
                LoseRenewal, SendRenewal, StartDeploy, WriteSpec, WriteStatus, Close,
                EditConfig, Collect, OtherTakes, OtherLeaves, EditOverrides, Scale
          <5>. QED
            BY <1>4, <5>1
        <4>. QED
          BY <4>1, <4>2
      <3>. QED
        BY <1>4, <2>1, <3>1 DEF Migrated
    <2>. QED
      BY <2>2, <2>3
  <1>5. ASSUME lease'[d].owner \notin {Nobody, Other}
        PROVE  Legacies(pr', d) <= lease'[d].renewTime
    <2>1. Legacies(pr, d) <= lease'[d].renewTime
      BY <1>5, LeaseKeepsLegacy
    <2>2. lease'[d].renewTime \in Nat
      BY TypedStep DEF Typed, TypeOK, Lease
    <2>. QED
      BY <2>1, <2>2, LegaciesFall
  <1>. QED
    BY <1>2, <1>3, <1>4, <1>5

LEMMA RecheckedStep ==
    ASSUME Typed, Spared, Migrated, Rechecked, [Next]_vars
    PROVE  Rechecked'
  <1>1. CASE pc' = "patch" /\ ReconcileStep /\ ReconcileDeployment
    <2>1. /\ pc = "deployment" /\ current \in Deployment /\ r \in Reconcile
          /\ r' = [r EXCEPT !.dep = cDep[current]]
          /\ ~(cDep[current].replicas > 0 /\ ~running)
      BY <1>1, CurrentType DEF ReconcileDeployment, LoopError, Goto, Looping, Typed, TypeOK
    <2>2. /\ r'.dep = cDep[current] /\ r'.lease = r.lease /\ r'.pr = r.pr
          /\ r'.app = r.app /\ r'.i = r.i /\ r'.now = r.now
      BY <2>1 DEF Reconcile
    <2>3. running' = running
      BY <2>2 DEF running, deploymentSpec, startOnDeploy, scaleDownAfter, lastActive,
                  deployedAt, runs
    <2>. QED
      BY <2>1, <2>2, <2>3 DEF Rechecked
  <1>2. CASE pc' = "patch" /\ ReconcileStep /\ Recheck
    <2>1. /\ current' = current /\ current \in Deployment /\ r \in Reconcile
          /\ r' = [r EXCEPT !.lease = lease[current]]
          /\ lease[current].owner # Nobody
          /\ UNCHANGED <<lease, pr>> /\ pc = "recheck"
      BY <1>2, SameDeployment, CurrentType
      DEF Recheck, LoopError, Goto, Looping, Typed, TypeOK, server
    <2>2. r'.lease = lease[current]
      BY <2>1 DEF Reconcile
    <2>3. lease[current].owner # Other
      BY <2>1 DEF Spared
    <2>4. Legacies(pr, current) <= lease[current].renewTime
      BY <2>1, <2>3 DEF Migrated
    <2>5. lease[current].renewTime \in Nat
      BY <2>1 DEF Typed, TypeOK, Lease
    <2>. QED
      BY <2>1, <2>2, <2>4, <2>5 DEF Rechecked, Legacies
  <1>3. CASE pc' = "patch" /\ ~ReconcileStep
    <2>1. UNCHANGED <<pc, r>>
      BY <1>3, OthersStay
    <2>2. current' = current /\ running' = running
      BY <2>1 DEF current, running, deploymentSpec, startOnDeploy, scaleDownAfter,
                  lastActive, deployedAt, runs
    <2>3. current \in Deployment /\ r.lease.renewTime \in Nat
      BY <1>3, <2>1, CurrentType DEF Looping, Typed, TypeOK, Reconcile, Lease
    <2>4. lease[current].renewTime \in Nat /\ lease'[current].renewTime \in Nat
      BY <2>3, TypedStep DEF Typed, TypeOK, Lease
    <2>5. \/ lease'[current].renewTime <= lease[current].renewTime /\ UNCHANGED raced
          \/ raced'
      BY <1>3, <2>1, <2>3, RenewTimeStep
    <2>6. /\ Legacies(pr, current) \in Nat /\ Legacies(pr', current) \in Nat
          /\ Legacies(pr', current) <= Legacies(pr, current)
      BY <2>3, LegaciesFall
    <2>7. Legacies(pr, current)' = Legacies(pr', current)
      BY <2>2 DEF Legacies
    <2>. QED
      BY <1>3, <2>1, <2>2, <2>3, <2>4, <2>5, <2>6, <2>7 DEF Rechecked
  <1>4. pc' = "patch" => ~ReconcileStep \/ ReconcileDeployment \/ Recheck
    BY WhereTo
  <1>. QED
    BY <1>1, <1>2, <1>3, <1>4 DEF Rechecked

LEMMA RunsLess ==
    ASSUME NEW a \in Nat, NEW b \in Nat, NEW s \in Nat, NEW now \in Nat, NEW then \in Nat,
           a <= b, then <= now, ~runs(b, s, then)
    PROVE  ~runs(a, s, now)
  BY DEF runs

(* A deployment is only scaled down for want of activity: of visits, but    *)
(* for those since Reconcile read the Lease again, and of what an earlier   *)
(* version recorded.                                                        *)
THEOREM ScaleDownsJustified == Spec => ScaleDownJustified
  <1> DEFINE Justified ==
          \A d \in Deployment : ScalesDown(d) =>
              \/ raced
              \/ /\ d = current
                 /\ ~runs(Longest(lease[d].renewTime,
                                  IF pr.legacy[d].isActive THEN pr.legacy[d].lastActive ELSE 0),
                          scaleDownAfter(r.app, deploymentSpec), clock)
  <1>1. ASSUME Typed, Past, Spared, Migrated, Rechecked, [Next]_vars
        PROVE  [Justified]_vars
    <2> SUFFICES ASSUME NEW d \in Deployment, ScalesDown(d), ~raced
                 PROVE  /\ d = current
                        /\ ~runs(Longest(lease[d].renewTime, Legacies(pr, d)),
                                 scaleDownAfter(r.app, deploymentSpec), clock)
      BY DEF Legacies
    <2>1. pc = "patch" /\ pc' # "patch" /\ dep[d].replicas > 0 /\ dep'[d].replicas = 0
      BY DEF ScalesDown
    <2>2. PatchDeployment
      <3>1. ReconcileStep
        <4>1. CASE ~ReconcileStep /\ (Fault \/ Crash)
          BY <2>1, <4>1 DEF Fault, Crash, server
        <4>2. CASE ~ReconcileStep /\ ~Fault /\ ~Crash
          BY <1>1, <2>1, <4>2
          DEF Next, vars, local, Deliver, DeliverPr, DeliverApp, TimerFires,
              DeliverLease, DeliverDep, DeliverSvc, Environment, Tick, ApplyRenewal,
              LoseRenewal, SendRenewal, StartDeploy, WriteSpec, WriteStatus, Close,
              EditConfig, Collect, OtherTakes, OtherLeaves, EditOverrides, Scale
        <4>. QED
          BY <4>1, <4>2
      <3>. QED
        BY <2>1, <3>1 DEF ReconcileStep, Begin, ReportMissing, Own, List, DeleteUnlisted,
           ReconcileLease, ReconcileDeployment, Recheck, ReconcileService, Report,
           Inactive, RereadLease, DeleteInactive
    <2>3. current \in Deployment /\ dep[current] \in Workload /\ r \in Reconcile
      BY <1>1, <2>1, CurrentType DEF Looping, Typed, TypeOK
    <2>4. d = current /\ dep'[d] = Patched(dep[d])
      <3>1. dep' = dep \/ dep' = [dep EXCEPT ![current] = Patched(dep[current])]
        BY <2>2 DEF PatchDeployment
      <3>2. dep' # dep
        BY <2>1
      <3>. QED
        BY <1>1, <2>1, <2>3, <3>1, <3>2 DEF Typed, TypeOK
    <2>5. Patched(dep[d]).replicas =
              IF replicasOf(r.dep) # r.dep.replicas THEN replicasOf(r.dep) ELSE dep[d].replicas
      <3>1. dep[d] \in Workload
        BY <2>3, <2>4
      <3>. QED
        BY <3>1 DEF Patched, Workload
    <2>6. replicasOf(r.dep) = 0 /\ r.dep.replicas # 0
      BY <2>1, <2>4, <2>5
    <2>7. r.dep.replicas > 0 /\ ~running
      <3>1. r.dep.replicas \in Nat /\ deploymentSpec.replicas \in Nat
        BY <1>1, <2>1, <2>3, CurrentType DEF Looping, Reconcile, Workload
      <3>2. running => replicasOf(r.dep) = r.dep.replicas
        BY <2>6 DEF replicasOf
      <3>. QED
        BY <2>6, <3>1, <3>2
    <2>8. /\ lease[d].renewTime <= r.lease.renewTime
          /\ Legacies(pr, d) <= r.lease.renewTime
      BY <1>1, <2>1, <2>4, <2>7 DEF Rechecked
    <2> DEFINE after == scaleDownAfter(r.app, deploymentSpec)
               starts == startOnDeploy(r.app, deploymentSpec)
               active == lastActive(r.lease, r.pr, starts)
               visited == Longest(lease[d].renewTime, Legacies(pr, d))
    <2>9. /\ after \in Nat /\ starts \in BOOLEAN /\ r.lease \in Lease /\ r.pr \in PullRequest
          /\ r.now \in Nat /\ clock \in Nat /\ r.now <= clock
      BY <1>1, <2>1, <2>3, CurrentType DEF Looping, Typed, TypeOK, Reconcile, Past
    <2>10. active \in Nat /\ r.lease.renewTime <= active /\ r.lease.renewTime \in Nat
      BY <2>9, LastActiveType DEF Lease
    <2>11. visited \in Nat /\ visited <= active
      <3>1. lease[d].renewTime \in Nat /\ Legacies(pr, d) \in Nat
        BY <1>1, LegaciesFall DEF Typed, TypeOK, Lease
      <3>. QED
        BY <2>8, <2>10, <3>1 DEF Longest
    <2>12. ~runs(active, after, r.now)
      BY <2>7 DEF running
    <2>. QED
      BY <2>4, <2>9, <2>10, <2>11, <2>12, RunsLess
  <1>2. ASSUME Init
        PROVE  Past /\ Spared /\ Migrated /\ Rechecked
    <2>1. r.now = 0 /\ clock = Start /\ Start \in Nat
      BY <1>2, ControllerAssumption DEF Init, NotReconciling
    <2>2. Past
      BY <1>2, <2>1 DEF Init, Past
    <2>3. Rechecked
      BY <1>2 DEF Init, Rechecked
    <2>. QED
      BY <1>2, <2>2, <2>3, MigratedInit, SparedInit
  <1>3. Spec => [](Typed /\ Past /\ Spared /\ Migrated /\ Rechecked)
    BY <1>2, TypedInit, TypedStep, PastStep, SparedStep, MigratedStep, RecheckedStep, PTL
    DEF Spec
  <1>. QED
    BY <1>1, <1>3, PTL DEF Spec, ScaleDownJustified
=============================================================================
