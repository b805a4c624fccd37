-------------------- MODULE PullRequestControllerRestProofs --------------------
(***************************************************************************)
(* What holds when the controller of PullRequestController is at rest, for *)
(* every ReviewAppConfig and any number of events, crashes and failing     *)
(* calls: whatever the API server has that Reconcile has not acted on is   *)
(* either in the cache, and the PullRequest is queued, or still to be      *)
(* delivered by an event that queues it.                                   *)
(***************************************************************************)
EXTENDS OnDemandProofs

USE DEF Nobody, Other, Owner

-----------------------------------------------------------------------------
(* The objects of the cache.                                               *)

(* Another review app has all objects of a name, or none of them.          *)
Together ==
    \A d \in Deployment : /\ lease[d].owner = Other <=> dep[d].owner = Other
                          /\ lease[d].owner = Other <=> svc[d] = Other

(* What the cache has of the PullRequest was there, and is there, unless    *)
(* Reconcile deleted it: changes by hand only add up.                      *)
KeptObjects ==
    \A d \in Deployment :
        /\ OfPr(cSvc[d]) => OfPr(svc[d])
        /\ OfPr(cDep[d].owner) =>
              \/ dep[d].owner = Nobody
              \/ OfPr(dep[d].owner) /\ cDep[d].scaled <= dep[d].scaled

(* Once the PullRequest has its owner or a hostname, it keeps it.          *)
KeptPr ==
    /\ pr.uid # 0 /\ cPr.uid = pr.uid =>
          (cPr.owned => pr.owned) /\ cPr.listed \subseteq pr.listed
    /\ pc # "idle" /\ r.pr.uid = pr.uid =>
          (r.pr.owned => pr.owned) /\ r.pr.listed \subseteq pr.listed

-----------------------------------------------------------------------------
(* How far Reconcile is.                                                   *)

(* Nothing has asked for another Reconcile, and nothing will for the sake   *)
(* of a new PullRequest.                                                   *)
Quiet == ~queued /\ pr.uid # 0 /\ cPr.uid = pr.uid

Afterwards == {"report", "inactive", "leases", "delete"}

Handled(d) ==
    \/ pc = "idle" /\ cApp # NoApp /\ d \in Names(cApp)
    \/ pc \in Afterwards /\ r.err = "" /\ d \in Names(r.app)
    \/ pc \in Looping /\ \E j \in 1..(r.i - 1) : r.app.deployments[j].name = d

HasLease(d) ==
    Handled(d) \/ (pc \in {"deployment", "recheck", "patch", "service"} /\ d = current)

HasDep(d) == Handled(d) \/ (pc = "service" /\ d = current)

due(d) == scaleDownAfter(cApp, SpecOf(cApp, d))
starts(d) == startOnDeploy(cApp, SpecOf(cApp, d))

(* Reconcile goes by what is in the cache, and has only failed when it      *)
(* says so.                                                                *)
Fresh ==
    /\ pc # "idle" /\ r.err # "" => pc = "report"
    /\ pc = "missing" => r.app = NoApp
    /\ pc # "idle" /\ Quiet => r.app = cApp /\ r.pr = [cPr EXCEPT !.owned = r.pr.owned]

(* What it has done is what it has passed.                                 *)
DoneSoFar ==
    \A d \in Deployment :
        \/ pc = "report" /\ r.err = "" /\ d \in Names(r.app)
        \/ pc \in Looping /\ \E j \in 1..(r.i - 1) : r.app.deployments[j].name = d
        \/ pc \in {"deployment", "recheck", "patch", "service"} /\ d = current
        => d \in r.done

-----------------------------------------------------------------------------
(* What is as it should be, or is still to be delivered.                   *)

Leased ==
    Quiet => \A d \in Deployment : HasLease(d) =>
        /\ lease[d].owner = pr.uid
        /\ \/ lease[d].duration = leaseDuration(due(d))
           \/ cLease[d].owner = pr.uid /\ cLease[d].duration = leaseDuration(due(d))

(* The Deployment has a change that queues the PullRequest.                *)
Undelivered(d) == dep[d].owner = pr.uid /\ cDep[d] # dep[d]

Patching ==
    Quiet /\ pc \in {"recheck", "patch"} =>
        /\ r.dep = cDep[current] /\ r.dep.owner = pr.uid
        /\ pc = "recheck" => r.dep.replicas > 0
        /\ pc = "patch" /\ r.dep.replicas = 0 => changed(r.dep)

Synced ==
    Quiet => \A d \in Deployment : HasDep(d) =>
        \/ Undelivered(d)
        \/ cDep[d].owner = pr.uid /\ ~synced(cDep[d], cPr, d)

Serviced == Quiet => \A d \in Deployment : Handled(d) => svc[d] = pr.uid

(* What the ReviewAppConfig doesn't have is gone, or on its way.           *)
Swept ==
    Quiet /\ pc \notin {"missing", "own", "list"} /\ cApp # NoApp =>
        \A d \in Deployment \ Names(cApp) :
            \/ pc = "sweep" /\ d \in r.sweep
            \/ cDep[d].owner \in {Nobody, Other}
            \/ dep[d].owner \in {Nobody, Other}

(* The status, as the PullRequest and the ReviewAppConfig of the cache      *)
(* have it.                                                                *)
dueReason ==
    IF cApp = NoApp THEN "ReviewAppConfigNotFound"
    ELSE IF unknownOverrides(cApp, cPr) THEN "UnknownDeployment" ELSE "Reconciled"

StatusWritten ==
    /\ Quiet /\ pc \notin {"missing", "own"} /\ cApp # NoApp => pr.owned
    /\ Quiet /\ pc \in {"idle", "inactive", "leases", "delete"} =>
        /\ cApp # NoApp => Names(cApp) \subseteq pr.listed
        /\ \/ cPr.reason = dueReason /\ cPr.observed = cPr.gen
           \/ <<pr.reason, pr.observed>> # <<cPr.reason, cPr.observed>>

(* A deployment that runs and may have to scale down is waited for.        *)
Halts(d) ==
    Undelivered(d) \/ (cDep[d].owner = pr.uid /\ cDep[d].replicas = 0)

Timed ==
    Quiet =>
        /\ pc = "service" => running \/ Halts(current)
        /\ \A d \in Deployment : Handled(d) /\ due(d) # 0 =>
              Halts(d) \/ (IF pc = "idle" THEN timer # 0 ELSE r.wait # 0)
        /\ pc = "idle" /\ cApp # NoApp => (cApp.deleteAfter # 0 => timer # 0)

(* As far as the cache has the Lease that it should have, there is no      *)
(* reason to run it.                                                       *)
Idle(d) ==
    cLease[d].owner = pr.uid /\ cLease[d].duration = leaseDuration(due(d)) =>
        ~runs(lastActive(cLease[d], cPr, starts(d)), due(d), clock)

Started ==
    Quiet =>
        /\ pc = "deployment" => running \/ Idle(current)
        /\ \A d \in Deployment : HasDep(d) =>
              \/ Undelivered(d)
              \/ cDep[d].owner = pr.uid /\ (cDep[d].replicas > 0 \/ Idle(d))

-----------------------------------------------------------------------------
(* The objects of the API server.                                          *)

LEMMA SvcFrame ==
    ASSUME [Next]_vars
    PROVE  \/ svc' = svc \/ ReconcileService
           \/ \E e \in Deployment : Collect(e) \/ OtherLeaves(e) \/ OtherTakes(e)
  <1>1. CASE ReconcileStep
    BY <1>1 DEF ReconcileStep, server, Begin, ReportMissing, Own, List, DeleteUnlisted,
       ReconcileLease, ReconcileDeployment, Recheck, PatchDeployment, Report, Inactive,
       RereadLease, DeleteInactive
  <1>2. CASE ~ReconcileStep
    BY <1>2 DEF Next, vars, server, Deliver, DeliverPr, DeliverApp, TimerFires,
       DeliverLease, DeliverDep, DeliverSvc, Environment, Tick, Fault, Crash, ApplyRenewal,
       LoseRenewal, SendRenewal, StartDeploy, WriteSpec, WriteStatus, Close,
       EditConfig, EditOverrides, Scale
  <1>. QED
    BY <1>1, <1>2

(* Only the other review app gives a name up.                              *)
LEMMA OtherStays ==
    ASSUME Typed, Spared, [Next]_vars, NEW d \in Deployment, ~OtherLeaves(d)
    PROVE  /\ lease[d].owner = Other => lease'[d].owner = Other
           /\ dep[d].owner = Other => dep'[d].owner = Other
           /\ svc[d] = Other => svc'[d] = Other
  <1>0. /\ lease \in [Deployment -> Lease] /\ dep \in [Deployment -> Workload]
        /\ lease[d] \in Lease /\ dep[d] \in Workload
    BY DEF Typed, TypeOK
  <1>1. CASE ReconcileStep
    BY <1>1, SparedByReconcile
  <1>2. CASE \E e \in Deployment : Collect(e) \/ OtherLeaves(e) \/ OtherTakes(e)
    <2>1. PICK e \in Deployment : Collect(e) \/ OtherLeaves(e) \/ OtherTakes(e)
      BY <1>2
    <2>2. CASE Collect(e)
      <3>1. svc \in [Deployment -> Owner]
        BY DEF Typed, TypeOK
      <3>2. /\ lease' = lease \/ (Garbage(lease[e].owner) /\ lease' = [lease EXCEPT ![e] = NoLease])
            /\ dep' = dep \/ (Garbage(dep[e].owner) /\ dep' = [dep EXCEPT ![e] = NoWorkload])
            /\ svc' = svc \/ (Garbage(svc[e]) /\ svc' = [svc EXCEPT ![e] = Nobody])
        BY <2>2 DEF Collect
      <3>. QED
        BY <1>0, <3>1, <3>2 DEF Garbage
    <2>3. CASE OtherLeaves(e) /\ e # d
      BY <1>0, <2>3 DEF OtherLeaves
    <2>4. CASE OtherTakes(e)
      BY <1>0, <2>4 DEF OtherTakes, Lease, Workload, Typed, TypeOK
    <2>. QED
      BY <2>1, <2>2, <2>3, <2>4
  <1>3. CASE ~ReconcileStep
    <2>1. lease'[d].owner = lease[d].owner \/ lease[d].owner # Other \/ lease'[d].owner = Other
      <3>1. CASE \E f \in Forwarder : ApplyRenewal(f)
        <4>1. PICK f \in Forwarder : ApplyRenewal(f)
          BY <3>1
        <4>2. \/ lease'[d] = lease[d]
              \/ lease'[d] = [lease[d] EXCEPT !.renewTime = renewal[f].at]
          BY <1>0, <4>1 DEF ApplyRenewal
        <4>. QED
          BY <1>0, <4>2 DEF Lease
      <3>. QED
        BY <1>2, <1>3, <3>1, LeaseFrame DEF ReconcileStep
    <2>2. dep[d].owner = Other => dep'[d].owner = Other
      <3>1. CASE \E e \in Deployment, n \in 0..2 : Scale(e, n)
        <4>1. PICK e \in Deployment, n \in 0..2 : Scale(e, n)
          BY <3>1
        <4>2. \/ dep'[d] = dep[d]
              \/ \E x, y : dep'[d] = [dep[d] EXCEPT !.replicas = x, !.scaled = y]
          BY <1>0, <4>1 DEF Scale
        <4>. QED
          BY <1>0, <4>2 DEF Workload
      <3>. QED
        BY <1>2, <1>3, <3>1, DepFrame DEF ReconcileStep
    <2>3. svc[d] = Other => svc'[d] = Other
      BY <1>2, <1>3, SvcFrame DEF ReconcileStep
    <2>. QED
      BY <2>1, <2>2, <2>3
  <1>. QED
    BY <1>1, <1>3

LEMMA TogetherStep ==
    ASSUME Typed, Spared, Together, [Next]_vars
    PROVE  Together'
  <1> SUFFICES ASSUME NEW d \in Deployment
               PROVE  /\ lease'[d].owner = Other <=> dep'[d].owner = Other
                      /\ lease'[d].owner = Other <=> svc'[d] = Other
    BY DEF Together
  <1>1. CASE OtherLeaves(d)
    BY <1>1 DEF OtherLeaves, Typed, TypeOK, NoLease, NoWorkload
  <1>2. CASE OtherTakes(d)
    <2>1. lease \in [Deployment -> Lease] /\ dep \in [Deployment -> Workload]
      BY DEF Typed, TypeOK
    <2>. QED
      BY <1>2, <2>1 DEF OtherTakes, Typed, TypeOK, Lease, Workload
  <1>3. CASE ~OtherLeaves(d) /\ ~OtherTakes(d)
    BY <1>3, OtherStays, NoNewOther DEF Together
  <1>. QED
    BY <1>1, <1>2, <1>3

(* The Service of the PullRequest stays, and its Deployment is only deleted *)
(* by Reconcile.                                                           *)
LEMMA OwnSvcStays ==
    ASSUME Typed, Together, [Next]_vars, NEW d \in Deployment,
           OfPr(svc[d]), pr'.uid = pr.uid
    PROVE  OfPr(svc[d])'
  <1>0. svc[d] = pr.uid /\ pr.uid \in Nat \ {0}
    BY DEF OfPr, Typed, TypeOK, PullRequest
  <1>1. svc'[d] = svc[d]
    <2>1. CASE ReconcileService
      BY <1>0, <2>1 DEF ReconcileService, Typed, TypeOK
    <2>2. CASE \E e \in Deployment : Collect(e) \/ OtherLeaves(e) \/ OtherTakes(e)
      <3>1. PICK e \in Deployment : Collect(e) \/ OtherLeaves(e) \/ OtherTakes(e)
        BY <2>2
      <3>. QED
        BY <1>0, <3>1 DEF Collect, Garbage, OtherLeaves, OtherTakes, Together, Typed, TypeOK
    <2>. QED
      BY <2>1, <2>2, SvcFrame
  <1>. QED
    BY <1>0, <1>1 DEF OfPr

LEMMA OwnDepStays ==
    ASSUME Typed, Together, [Next]_vars, NEW d \in Deployment,
           OfPr(dep[d].owner), pr'.uid = pr.uid
    PROVE  \/ DeleteUnlisted(d) /\ dep'[d].owner = Nobody
           \/ /\ dep'[d].owner = dep[d].owner /\ OfPr(dep[d].owner)'
              /\ \/ dep'[d] = dep[d]
                 \/ PatchDeployment /\ d = current /\ dep'[d].scaled = dep[d].scaled
                 \/ dep[d].scaled < dep'[d].scaled
  <1>0. /\ dep[d].owner = pr.uid /\ pr.uid \in Nat \ {0} /\ dep \in [Deployment -> Workload]
        /\ dep[d] \in Workload
    BY DEF OfPr, Typed, TypeOK, PullRequest
  <1>1. CASE dep'[d] = dep[d]
    BY <1>0, <1>1 DEF OfPr
  <1>2. CASE ReconcileDeployment
    <2>1. \E w : dep' = dep \/ (dep[current].owner = Nobody /\ dep' = [dep EXCEPT ![current] = w])
      BY <1>2 DEF ReconcileDeployment
    <2>. QED
      BY <1>0, <1>1, <2>1
  <1>3. CASE PatchDeployment
    <2>1. dep' = dep \/ dep' = [dep EXCEPT ![current] = Patched(dep[current])]
      BY <1>3 DEF PatchDeployment
    <2>2. Patched(dep[d]).owner = dep[d].owner /\ Patched(dep[d]).scaled = dep[d].scaled
      BY <1>0 DEF Patched, Workload
    <2>3. dep'[d] = dep[d] \/ (d = current /\ dep'[d] = Patched(dep[d]))
      BY <1>0, <2>1
    <2>. QED
      BY <1>0, <1>1, <1>3, <2>2, <2>3 DEF OfPr
  <1>4. CASE \E e \in Deployment : DeleteUnlisted(e)
    <2>1. PICK e \in Deployment : DeleteUnlisted(e)
      BY <1>4
    <2>2. dep' = dep \/ dep' = [dep EXCEPT ![e] = NoWorkload]
      BY <2>1 DEF DeleteUnlisted
    <2>. QED
      BY <1>0, <1>1, <2>1, <2>2 DEF NoWorkload
  <1>5. CASE \E e \in Deployment : Collect(e) \/ OtherLeaves(e) \/ OtherTakes(e)
    <2>1. PICK e \in Deployment : Collect(e) \/ OtherLeaves(e) \/ OtherTakes(e)
      BY <1>5
    <2>2. dep'[d] = dep[d]
      BY <1>0, <2>1 DEF Collect, Garbage, OtherLeaves, OtherTakes, Together
    <2>. QED
      BY <1>1, <2>2
  <1>6. CASE \E e \in Deployment, n \in 0..2 : Scale(e, n)
    <2>1. PICK e \in Deployment, n \in 0..2 : Scale(e, n)
      BY <1>6
    <2>2. \/ dep'[d] = dep[d]
          \/ dep'[d] = [dep[d] EXCEPT !.replicas = n, !.scaled = dep[d].scaled + 1]
      BY <1>0, <2>1 DEF Scale
    <2>3. dep[d].scaled \in Nat
      BY <1>0 DEF Workload
    <2>4. ASSUME dep'[d] = [dep[d] EXCEPT !.replicas = n, !.scaled = dep[d].scaled + 1]
          PROVE  dep'[d].owner = dep[d].owner /\ dep'[d].scaled = dep[d].scaled + 1
      BY <1>0, <2>4 DEF Workload
    <2>. QED
      BY <1>0, <1>1, <2>2, <2>3, <2>4 DEF OfPr
  <1>. QED
    BY <1>1, <1>2, <1>3, <1>4, <1>5, <1>6, DepFrame

LEMMA NotTaken ==
    ASSUME Typed, [Next]_vars, NEW d \in Deployment,
           dep[d].owner = Nobody, cDep[d].owner # Nobody
    PROVE  dep'[d].owner = Nobody
  <1>0. dep \in [Deployment -> Workload]
    BY DEF Typed, TypeOK
  <1>1. CASE ReconcileDeployment
    <2>1. \E w : dep' = dep \/ (cDep[current].owner = Nobody /\ dep' = [dep EXCEPT ![current] = w])
      BY <1>1 DEF ReconcileDeployment
    <2>. QED
      BY <1>0, <2>1
  <1>2. CASE PatchDeployment
    <2>1. dep' = dep \/ (/\ dep[current].owner # Nobody
                         /\ dep' = [dep EXCEPT ![current] = Patched(dep[current])])
      BY <1>2 DEF PatchDeployment, LoopError
    <2>. QED
      BY <1>0, <2>1
  <1>3. CASE \E e \in Deployment : \/ DeleteUnlisted(e) \/ Collect(e) \/ OtherLeaves(e)
    <2>1. PICK e \in Deployment : \/ DeleteUnlisted(e) \/ Collect(e) \/ OtherLeaves(e)
      BY <1>3
    <2>2. dep' = dep \/ dep' = [dep EXCEPT ![e] = NoWorkload]
      BY <2>1 DEF DeleteUnlisted, Collect, OtherLeaves
    <2>. QED
      BY <1>0, <2>2 DEF NoWorkload
  <1>4. CASE \E e \in Deployment : OtherTakes(e) \/ \E n \in 0..2 : Scale(e, n)
    <2>1. PICK e \in Deployment : OtherTakes(e) \/ \E n \in 0..2 : Scale(e, n)
      BY <1>4
    <2>2. e # d
      BY <2>1 DEF OtherTakes, Scale
    <2>. QED
      BY <1>0, <2>1, <2>2 DEF OtherTakes, Scale
  <1>. QED
    BY <1>1, <1>2, <1>3, <1>4, DepFrame

(* An object of the cache is what it was, or what the API server has.      *)
LEMMA CachedStep ==
    ASSUME Typed, [Next]_vars, NEW d \in Deployment
    PROVE  /\ cLease'[d] = cLease[d] \/ (cLease'[d] = lease[d] /\ UNCHANGED lease)
           /\ cDep'[d] = cDep[d] \/ (cDep'[d] = dep[d] /\ UNCHANGED dep)
           /\ cSvc'[d] = cSvc[d] \/ (cSvc'[d] = svc[d] /\ UNCHANGED svc)
  <1>1. /\ cLease \in [Deployment -> Lease] /\ cDep \in [Deployment -> Workload]
        /\ cSvc \in [Deployment -> Owner]
    BY DEF Typed, TypeOK
  <1>2. CASE \E e \in Deployment : DeliverLease(e) \/ DeliverDep(e) \/ DeliverSvc(e)
    <2>1. PICK e \in Deployment : DeliverLease(e) \/ DeliverDep(e) \/ DeliverSvc(e)
      BY <1>2
    <2>. QED
      BY <1>1, <2>1 DEF DeliverLease, DeliverDep, DeliverSvc, server
  <1>3. CASE DeliverPr \/ DeliverApp \/ Crash \/ UNCHANGED informer
    BY <1>3 DEF DeliverPr, DeliverApp, Crash, informer, server
  <1>. QED
    BY <1>2, <1>3, InformerFrame

(* A PullRequest that has been is never there again.                       *)
LEMMA SamePr ==
    ASSUME Typed, Uids, [Next]_vars, NEW n \in Int, n = pr'.uid, n # 0, n <= born
    PROVE  pr'.uid = pr.uid
  <1>1. born \in Nat
    BY DEF Typed, TypeOK
  <1>. QED
    BY <1>1, UidStep

LEMMA KeptObjectsStep ==
    ASSUME Typed, Uids, Together, KeptObjects, [Next]_vars
    PROVE  KeptObjects'
  <1> SUFFICES ASSUME NEW d \in Deployment
               PROVE  /\ OfPr(cSvc[d])' => OfPr(svc[d])'
                      /\ OfPr(cDep[d].owner)' =>
                            \/ dep'[d].owner = Nobody
                            \/ OfPr(dep[d].owner)' /\ cDep'[d].scaled <= dep'[d].scaled
    BY DEF KeptObjects
  <1>0. /\ cSvc[d] \in Int /\ cDep[d].owner \in Int
        /\ cSvc[d] <= born /\ cDep[d].owner <= born
    BY OwnersType DEF Uids, Until
  <1>1. ASSUME OfPr(cSvc[d])'
        PROVE  OfPr(svc[d])'
    <2>1. CASE cSvc'[d] = cSvc[d]
      <3>1. pr'.uid = pr.uid
        BY <1>0, <1>1, <2>1, SamePr DEF OfPr
      <3>2. OfPr(svc[d])
        BY <1>1, <2>1, <3>1 DEF OfPr, KeptObjects
      <3>. QED
        BY <3>1, <3>2, OwnSvcStays
    <2>2. CASE cSvc'[d] = svc[d] /\ UNCHANGED svc
      BY <1>1, <2>2 DEF OfPr
    <2>. QED
      BY <2>1, <2>2, CachedStep
  <1>2. ASSUME OfPr(cDep[d].owner)'
        PROVE  \/ dep'[d].owner = Nobody
               \/ OfPr(dep[d].owner)' /\ cDep'[d].scaled <= dep'[d].scaled
    <2>0. cDep[d].scaled \in Nat /\ dep[d].scaled \in Nat /\ dep'[d].scaled \in Nat
      BY TypedStep DEF Typed, TypeOK, Workload
    <2>1. CASE cDep'[d] = cDep[d]
      <3>1. pr'.uid = pr.uid /\ OfPr(cDep[d].owner)
        BY <1>0, <1>2, <2>1, SamePr DEF OfPr
      <3>2. CASE dep[d].owner = Nobody
        BY <3>1, <3>2, NotTaken DEF OfPr
      <3>3. CASE OfPr(dep[d].owner) /\ cDep[d].scaled <= dep[d].scaled
        <4>1. \/ dep'[d].owner = Nobody
              \/ OfPr(dep[d].owner)' /\ dep[d].scaled <= dep'[d].scaled
          BY <2>0, <3>1, <3>3, OwnDepStays
        <4>. QED
          BY <2>0, <2>1, <3>3, <4>1
      <3>. QED
        BY <3>1, <3>2, <3>3 DEF KeptObjects
    <2>2. CASE cDep'[d] = dep[d] /\ UNCHANGED dep
      BY <1>2, <2>0, <2>2 DEF OfPr
    <2>. QED
      BY <2>1, <2>2, CachedStep
  <1>. QED
    BY <1>1, <1>2

LEMMA PrGrows ==
    ASSUME Typed, [Next]_vars, pr'.uid = pr.uid, pr.uid # 0
    PROVE  (pr.owned => pr'.owned) /\ pr.listed \subseteq pr'.listed
  <1>0. pr \in PullRequest /\ NoPr.uid = 0
    BY DEF Typed, TypeOK, NoPr
  <1>1. CASE ReportMissing
    <2>1. pr' = pr \/ \E x, y : pr' = [pr EXCEPT !.reason = x, !.observed = y]
      BY <1>1 DEF ReportMissing
    <2>. QED
      BY <1>0, <2>1 DEF PullRequest
  <1>2. CASE Own
    <2>1. pr' = pr \/ pr' = [pr EXCEPT !.owned = TRUE]
      BY <1>2 DEF Own
    <2>. QED
      BY <1>0, <2>1 DEF PullRequest
  <1>3. CASE Report
    <2>1. pr' = pr \/ pr' = Reported
      BY <1>3 DEF Report
    <2>2. Reported.owned = pr.owned /\ pr.listed \subseteq Reported.listed
      BY <1>0 DEF Reported, PullRequest
    <2>. QED
      BY <2>1, <2>2
  <1>4. CASE DeleteInactive \/ Close
    BY <1>0, <1>4 DEF DeleteInactive, Close
  <1>5. CASE WriteSpec
    <2>1. pr' = pr \/ \E x, y : pr' = [pr EXCEPT !.image = x, !.gen = y]
      BY <1>5 DEF WriteSpec
    <2>. QED
      BY <1>0, <2>1 DEF PullRequest
  <1>6. CASE WriteStatus
    <2>1. pr' = pr \/ \E x : pr' = [pr EXCEPT !.deployedAt = x]
      BY <1>6 DEF WriteStatus
    <2>. QED
      BY <1>0, <2>1 DEF PullRequest
  <1>7. CASE \E d \in Deployment, e \in Env \cup {NoEnv} : EditOverrides(d, e)
    <2>1. \E x, y : pr' = [pr EXCEPT !.env = x, !.gen = y]
      BY <1>0, <1>7 DEF EditOverrides, PullRequest
    <2>. QED
      BY <1>0, <2>1 DEF PullRequest
  <1>. QED
    BY <1>1, <1>2, <1>3, <1>4, <1>5, <1>6, <1>7, PrFrame

LEMMA KeptPrStep ==
    ASSUME Typed, Uids, KeptPr, [Next]_vars
    PROVE  KeptPr'
  <1>0. /\ pr'.uid \in Int /\ cPr.uid \in Int /\ cPr.uid <= born
        /\ pc # "idle" => r.pr.uid \in Int /\ r.pr.uid <= born
    BY TypedStep DEF Typed, TypeOK, PullRequest, Reconcile, Uids
  <1>1. ASSUME pr'.uid # 0, cPr'.uid = pr'.uid
        PROVE  (cPr'.owned => pr'.owned) /\ cPr'.listed \subseteq pr'.listed
    <2>1. CASE cPr' = cPr
      <3>1. pr'.uid = pr.uid
        BY <1>0, <1>1, <2>1, SamePr
      <3>. QED
        BY <1>1, <2>1, <3>1, PrGrows DEF KeptPr
    <2>. QED
      BY <2>1, CPrStep
  <1>2. ASSUME pc' # "idle", r'.pr.uid = pr'.uid
        PROVE  (r'.pr.owned => pr'.owned) /\ r'.pr.listed \subseteq pr'.listed
    <2>0. r'.pr.uid # 0
      BY <1>2, TypedStep DEF Typed, Located
    <2>1. CASE pc # "idle" /\ r'.pr.uid = r.pr.uid
      <3>1. pr'.uid = pr.uid
        BY <1>0, <1>2, <2>0, <2>1, SamePr
      <3>2. r'.pr = r.pr \/ r'.pr = pr'
        BY <1>2, <2>1, KeepsStep, OthersKeep
      <3>. QED
        BY <1>2, <2>0, <2>1, <3>1, <3>2, PrGrows DEF KeptPr
    <2>2. CASE pc = "idle" /\ r'.pr = cPr /\ pr' = pr
      BY <1>2, <2>0, <2>2 DEF KeptPr
    <2>. QED
      BY <1>2, <2>1, <2>2, LocalUidStep
  <1>. QED
    BY <1>1, <1>2 DEF KeptPr

-----------------------------------------------------------------------------
(* While nothing asks for another Reconcile.                               *)

(* The PullRequest and the ReviewAppConfig of the cache are what they were. *)
Goes == Quiet /\ Quiet' /\ pr'.uid = pr.uid /\ UNCHANGED <<cPr, cApp>>

LEMMA StaysQueued ==
    ASSUME Typed, [Next]_vars, queued, ~Begin
    PROVE  queued'
  <1>0. ASSUME NEW locals, NextOrReport(locals)
        PROVE  UNCHANGED queued
    BY <1>0 DEF NextOrReport, Goto, workqueue
  <1>1. CASE ReconcileStep
    BY <1>0, <1>1 DEF ReconcileStep, workqueue, ReportMissing, Own, List, DeleteUnlisted,
       BeginLoop, ReconcileLease, HaveLease, LoopError, ReconcileDeployment, Recheck,
       PatchDeployment, ReconcileService, Report, Inactive, RereadLease, DeleteInactive,
       Goto, Done, Fail
  <1>2. CASE ~ReconcileStep
    BY <1>2 DEF Next, vars, workqueue, Deliver, DeliverPr, DeliverApp, TimerFires,
       DeliverLease, DeliverDep, DeliverSvc, Environment, Tick, Fault, Fail, LoopError, Goto,
       Crash, ApplyRenewal, LoseRenewal, SendRenewal, StartDeploy, WriteSpec, WriteStatus,
       Close, EditConfig, EditOverrides, Collect, OtherTakes, OtherLeaves, Scale
  <1>. QED
    BY <1>1, <1>2

(* Whatever would make Reconcile go by an old PullRequest or               *)
(* ReviewAppConfig queues the PullRequest.                                 *)
LEMMA QuietStep ==
    ASSUME Typed, Uids, [Next]_vars, Quiet'
    PROVE  \/ Goes
           \/ /\ Begin /\ pc' \in {"missing", "own", "list"}
              /\ r'.pr = cPr /\ r'.app = cApp /\ r'.done = {} /\ r'.err = "" /\ r'.wait = 0
              /\ pc' = "missing" => cApp = NoApp
              /\ pc' = "list" => cPr.owned
              /\ UNCHANGED <<cPr, cApp, pr>> /\ cPr.uid = pr.uid
  <1>0. /\ cPr.uid \in Nat /\ born \in Nat /\ cPr.uid <= born /\ queued \in BOOLEAN
        /\ ~queued' /\ pr'.uid # 0 /\ cPr'.uid = pr'.uid
    BY DEF Typed, TypeOK, PullRequest, Uids, Quiet
  <1>1. UNCHANGED <<cPr, cApp>>
    <2>1. CASE DeliverPr \/ Crash
      BY <1>0, <2>1 DEF DeliverPr, Crash
    <2>2. CASE DeliverApp
      BY <1>0, <2>2 DEF DeliverApp
    <2>3. CASE \E d \in Deployment : DeliverLease(d) \/ DeliverDep(d) \/ DeliverSvc(d)
      BY <2>3 DEF DeliverLease, DeliverDep, DeliverSvc
    <2>. QED
      BY <2>1, <2>2, <2>3, InformerFrame DEF informer
  <1>2. pr'.uid = pr.uid
    BY <1>0, <1>1, UidStep
  <1>3. CASE Begin
    <2>1. r' = [NotReconciling EXCEPT !.pr = cPr, !.app = cApp]
      BY <1>0, <1>1, <1>3 DEF Begin
    <2>2. r'.pr = cPr /\ r'.app = cApp /\ r'.done = {} /\ r'.err = "" /\ r'.wait = 0
      BY <2>1 DEF NotReconciling
    <2>3. /\ pc' \in {"missing", "own", "list"}
          /\ pc' = "missing" => cApp = NoApp
          /\ pc' = "list" => cPr.owned
          /\ UNCHANGED pr
      BY <1>0, <1>1, <1>3 DEF Begin, server
    <2>. QED
      BY <1>0, <1>1, <1>2, <1>3, <2>2, <2>3
  <1>4. CASE ~Begin
    <2>1. ~queued
      BY <1>0, <1>4, StaysQueued
    <2>. QED
      BY <1>0, <1>1, <1>2, <2>1 DEF Goes, Quiet
  <1>. QED
    BY <1>3, <1>4

LEMMA NextLocals ==
    ASSUME NEW locals \in Reconcile, NextOrReport(locals)
    PROVE  /\ r'.err = locals.err /\ r'.wait = locals.wait /\ r'.sweep = locals.sweep
           /\ \/ /\ pc' = "lease" /\ locals.i < Len(r.app.deployments)
                 /\ r'.i = locals.i + 1
              \/ pc' = "report" /\ ~(locals.i < Len(r.app.deployments)) /\ r' = locals
  <1>1. \/ /\ pc' = "lease" /\ locals.i < Len(r.app.deployments)
           /\ r' = [locals EXCEPT !.i = locals.i + 1]
        \/ pc' = "report" /\ ~(locals.i < Len(r.app.deployments)) /\ r' = locals
    BY DEF NextOrReport, Goto
  <1>. QED
    BY <1>1 DEF Reconcile

LEMMA BeginLoopLocals ==
    ASSUME Typed, NEW locals \in Reconcile, BeginLoop(locals)
    PROVE  /\ r'.err = locals.err /\ r'.wait = locals.wait /\ r'.sweep = locals.sweep
           /\ \/ /\ pc' = "lease" /\ locals.i < Len(r.app.deployments)
                 /\ r'.i = locals.i + 1
              \/ pc' = "report" /\ ~(locals.i < Len(r.app.deployments))
  <1> DEFINE begun == [locals EXCEPT !.now = clock, !.activity = deployedAt(locals.pr)]
  <1>1. deployedAt(locals.pr) \in Nat /\ clock \in Nat
    BY DeployedAtType DEF Reconcile, Typed, TypeOK
  <1>2. /\ begun \in Reconcile /\ begun.err = locals.err /\ begun.wait = locals.wait
        /\ begun.i = locals.i /\ begun.sweep = locals.sweep
    BY <1>1 DEF Reconcile
  <1>3. NextOrReport(begun)
    BY DEF BeginLoop
  <1>. QED
    BY <1>2, <1>3, NextLocals

(* How a step of Reconcile moves through the ReviewAppConfig.              *)
LEMMA Moves ==
    ASSUME Typed, ReconcileStep, pc # "idle", pc' # "idle"
    PROVE  \/ pc \in Looping /\ pc' = "report" /\ r'.err # ""
           \/ /\ r'.err = r.err /\ (r'.wait = r.wait \/ ReconcileService)
              /\ \/ Own /\ pc' = "list"
                 \/ pc \in {"list", "sweep"} /\ pc' = "sweep"
                 \/ pc \in {"list", "sweep"} /\ pc' = "lease" /\ r'.i = 1
                 \/ pc \in {"list", "sweep"} /\ pc' = "report" /\ Len(r.app.deployments) = 0
                 \/ /\ ReconcileLease \/ ReconcileDeployment \/ Recheck \/ PatchDeployment
                    /\ pc' \in {"deployment", "recheck", "patch", "service"} /\ r'.i = r.i
                 \/ ReconcileService /\ pc' = "lease" /\ r'.i = r.i + 1
                 \/ ReconcileService /\ pc' = "report" /\ r.i = Len(r.app.deployments)
                 \/ pc \in Afterwards /\ pc' \in Afterwards \ {"report"} /\ r.err = ""
                 \/ (Inactive \/ RereadLease) /\ pc' \in {"leases", "delete"}
  <1>0. r \in Reconcile /\ r.i \in Nat /\ r.wait \in Nat
    BY DEF Typed, TypeOK, Reconcile
  <1>1. ASSUME NEW reason, reason # "", LoopError(reason)
        PROVE  pc' = "report" /\ r'.err # ""
    BY <1>0, <1>1 DEF LoopError, Goto, Reconcile
  <1>2. CASE Own
    <2>1. pc' = "list" /\ \E x : r' = [r EXCEPT !.pr = x]
      BY <1>2 DEF Own, Goto, Fail
    <2>. QED
      BY <1>0, <1>2, <2>1 DEF Reconcile
  <1>3. CASE List
    <2>1. r.i = 0 /\ pc = "list" /\ Len(r.app.deployments) \in Nat
      BY <1>3, ConfigType DEF List, Typed, Located
    <2>2. BeginLoop(r) \/ (pc' = "sweep" /\ \E x : r' = [r EXCEPT !.sweep = x])
      BY <1>3 DEF List, Goto
    <2>3. CASE BeginLoop(r)
      <3>1. /\ r'.err = r.err /\ r'.wait = r.wait
            /\ \/ pc' = "lease" /\ r'.i = 0 + 1
               \/ pc' = "report" /\ ~(0 < Len(r.app.deployments))
        BY <1>0, <2>1, <2>3, BeginLoopLocals
      <3>2. 0 + 1 = 1 /\ (~(0 < Len(r.app.deployments)) => Len(r.app.deployments) = 0)
        BY <2>1
      <3>3. pc \in {"list", "sweep"}
        BY <2>1
      <3>. QED
        BY <3>1, <3>2, <3>3
    <2>. QED
      BY <1>0, <2>1, <2>2, <2>3 DEF Reconcile
  <1>4. CASE \E d \in Deployment : DeleteUnlisted(d)
    <2>0. PICK d \in Deployment : DeleteUnlisted(d)
      BY <1>4
    <2> DEFINE rest == [r EXCEPT !.sweep = @ \ {d}]
    <2>1. r.i = 0 /\ pc = "sweep" /\ Len(r.app.deployments) \in Nat
      BY <2>0, ConfigType DEF DeleteUnlisted, Typed, Located
    <2>2. BeginLoop(rest) \/ (pc' = "sweep" /\ r' = rest)
      BY <2>0 DEF DeleteUnlisted, Goto, Fail
    <2>3. rest \in Reconcile /\ rest.err = r.err /\ rest.wait = r.wait /\ rest.i = r.i
      BY <1>0 DEF Reconcile
    <2>4. CASE BeginLoop(rest)
      <3>. HIDE DEF rest
      <3>1. /\ r'.err = r.err /\ r'.wait = r.wait
            /\ \/ pc' = "lease" /\ r'.i = 0 + 1
               \/ pc' = "report" /\ ~(0 < Len(r.app.deployments))
        BY <2>1, <2>3, <2>4, BeginLoopLocals
      <3>2. 0 + 1 = 1 /\ (~(0 < Len(r.app.deployments)) => Len(r.app.deployments) = 0)
        BY <2>1
      <3>3. pc \in {"list", "sweep"}
        BY <2>1
      <3>. QED
        BY <3>1, <3>2, <3>3
    <2>. QED
      BY <2>1, <2>2, <2>3, <2>4
  <1>5. CASE ReconcileLease
    <2>1. pc = "lease"
      BY <1>5 DEF ReconcileLease
    <2>2. \/ \E reason : reason # "" /\ LoopError(reason)
          \/ \E l : HaveLease(l)
      BY <1>5 DEF ReconcileLease
    <2>3. CASE \E l : HaveLease(l)
      <3>1. pc' = "deployment" /\ \E x, y : r' = [r EXCEPT !.lease = x, !.done = y]
        BY <2>3 DEF HaveLease, Goto
      <3>. QED
        BY <1>0, <1>5, <3>1 DEF Reconcile
    <2>. QED
      BY <1>1, <2>1, <2>2, <2>3 DEF Looping
  <1>6. CASE ReconcileDeployment
    <2>1. pc = "deployment"
      BY <1>6 DEF ReconcileDeployment
    <2>2. \/ \E reason : reason # "" /\ LoopError(reason)
          \/ /\ pc' \in {"recheck", "patch", "service"}
             /\ r' = r \/ \E x : r' = [r EXCEPT !.dep = x]
      BY <1>6 DEF ReconcileDeployment, Goto
    <2>3. CASE pc' # "report"
      <3>1. r'.err = r.err /\ r'.wait = r.wait /\ r'.i = r.i
        BY <1>0, <1>1, <2>2, <2>3 DEF Reconcile
      <3>. QED
        BY <1>1, <1>6, <2>2, <2>3, <3>1
    <2>. QED
      BY <1>1, <2>1, <2>2, <2>3 DEF Looping
  <1>7. CASE Recheck
    <2>1. pc = "recheck"
      BY <1>7 DEF Recheck
    <2>2. \/ \E reason : reason # "" /\ LoopError(reason)
          \/ pc' = "patch" /\ \E x : r' = [r EXCEPT !.lease = x]
      BY <1>7 DEF Recheck, Goto
    <2>3. CASE pc' # "report"
      <3>1. r'.err = r.err /\ r'.wait = r.wait /\ r'.i = r.i
        BY <1>0, <1>1, <2>2, <2>3 DEF Reconcile
      <3>. QED
        BY <1>1, <1>7, <2>2, <2>3, <3>1
    <2>. QED
      BY <1>1, <2>1, <2>2, <2>3 DEF Looping
  <1>8. CASE PatchDeployment
    <2>1. pc = "patch"
      BY <1>8 DEF PatchDeployment
    <2>2. \/ \E reason : reason # "" /\ LoopError(reason)
          \/ pc' = "service" /\ r' = r
      BY <1>8 DEF PatchDeployment, Goto
    <2>. QED
      BY <1>0, <1>1, <1>8, <2>1, <2>2 DEF Looping
  <1>9. CASE ReconcileService
    <2>1. pc = "service" /\ r.i <= Len(r.app.deployments) /\ Len(r.app.deployments) \in Nat
      BY <1>9, ConfigType DEF ReconcileService, Typed, Located, Looping
    <2>2. \/ \E reason : reason # "" /\ LoopError(reason)
          \/ \E x, y : NextOrReport([r EXCEPT !.activity = x, !.wait = y,
                                              !.lease = NoLease, !.dep = NoWorkload])
      BY <1>9 DEF ReconcileService
    <2>3. CASE \E x, y : NextOrReport([r EXCEPT !.activity = x, !.wait = y,
                                              !.lease = NoLease, !.dep = NoWorkload])
      <3>1. PICK x, y : NextOrReport([r EXCEPT !.activity = x, !.wait = y,
                                              !.lease = NoLease, !.dep = NoWorkload])
        BY <2>3
      <3> DEFINE next == [r EXCEPT !.activity = x, !.wait = y,
                                   !.lease = NoLease, !.dep = NoWorkload]
      <3>2. /\ next.err = r.err /\ next.i = r.i
            /\ [next EXCEPT !.i = next.i + 1].i = r.i + 1
            /\ [next EXCEPT !.i = next.i + 1].err = r.err
        BY <1>0 DEF Reconcile
      <3>3. \/ /\ pc' = "lease" /\ r' = [next EXCEPT !.i = next.i + 1]
            \/ pc' = "report" /\ ~(next.i < Len(r.app.deployments)) /\ r' = next
        BY <3>1 DEF NextOrReport, Goto
      <3>. HIDE DEF next
      <3>4. \/ pc' = "lease" /\ r'.i = r.i + 1 /\ r'.err = r.err
            \/ pc' = "report" /\ ~(r.i < Len(r.app.deployments)) /\ r'.err = r.err
        BY <3>2, <3>3
      <3>5. ~(r.i < Len(r.app.deployments)) => r.i = Len(r.app.deployments)
        BY <1>0, <2>1
      <3>. QED
        BY <1>9, <3>4, <3>5
    <2>. QED
      BY <1>1, <2>1, <2>2, <2>3 DEF Looping
  <1>10. CASE Report
    <2>1. pc = "report" /\ pc' = "inactive" /\ r' = r /\ r.err = ""
      BY <1>10 DEF Report, Goto, Done, Fail
    <2>. QED
      BY <2>1 DEF Afterwards
  <1>11. CASE Inactive
    <2>1. /\ pc' \in {"leases", "delete"}
          /\ \E x, y, z : r' = [r EXCEPT !.fresh = x, !.activity = y, !.i = z]
      BY <1>11 DEF Inactive, Goto, Done
    <2>. QED
      BY <1>0, <1>11, <2>1 DEF Reconcile
  <1>12. CASE RereadLease
    <2>1. /\ pc' \in {"leases", "delete"}
          /\ \E y, z : r' = [r EXCEPT !.activity = y, !.i = z]
      BY <1>12 DEF RereadLease
    <2>. QED
      BY <1>0, <1>12, <2>1 DEF Reconcile
  <1>13. CASE Begin \/ ReportMissing \/ DeleteInactive
    BY <1>13 DEF Begin, ReportMissing, DeleteInactive, Done, Fail
  <1>. QED
    BY <1>2, <1>3, <1>4, <1>5, <1>6, <1>7, <1>8, <1>9, <1>10, <1>11, <1>12, <1>13
    DEF ReconcileStep

LEMMA OnlyBegins ==
    ASSUME Typed, [Next]_vars, ~queued, pc = "idle"
    PROVE  pc' = "idle"
  BY BeginStep, OthersKeep DEF Begin

(* A call that fails, and a restart, ask for another Reconcile at its end.  *)
LEMMA ElseFails ==
    ASSUME Typed, [Next]_vars, ~ReconcileStep, Quiet'
    PROVE  /\ UNCHANGED timer
           /\ UNCHANGED <<pc, r>> \/ (pc \in Looping /\ pc' = "report" /\ r'.err # "")
  <1>1. CASE Fault
    <2>1. UNCHANGED timer /\ (queued' = TRUE \/ (pc \in Looping /\ LoopError("ReconcileFailed")))
      BY <1>1 DEF Fault, Fail, LoopError, Goto, workqueue, Looping
    <2>2. r \in Reconcile
      BY DEF Typed, TypeOK
    <2>3. LoopError("ReconcileFailed") => pc' = "report" /\ r'.err # ""
      BY <2>2 DEF LoopError, Goto, Reconcile
    <2>. QED
      BY <2>1, <2>3 DEF Quiet
  <1>2. CASE Crash \/ TimerFires
    BY <1>2 DEF Crash, TimerFires, Quiet
  <1>3. CASE ~Fault /\ ~Crash /\ ~TimerFires
    BY <1>3 DEF Next, ReconcileStep, vars, workqueue, local, Deliver, DeliverPr, DeliverApp,
       DeliverLease, DeliverDep, DeliverSvc, Environment, Tick,
       ApplyRenewal, LoseRenewal, SendRenewal, StartDeploy, WriteSpec, WriteStatus,
       Close, EditConfig, EditOverrides, Collect, OtherTakes, OtherLeaves, Scale
  <1>. QED
    BY <1>1, <1>2, <1>3

LEMMA FreshStep ==
    ASSUME Typed, Uids, Fresh, [Next]_vars
    PROVE  Fresh'
  <1>0. cPr \in PullRequest /\ r \in Reconcile /\ r.pr \in PullRequest
    BY DEF Typed, TypeOK, Reconcile
  <1>1. ASSUME pc' # "idle", r'.err # ""
        PROVE  pc' = "report"
    <2>1. CASE ~ReconcileStep
      BY <1>1, <2>1, OthersKeep DEF Fresh
    <2>2. CASE ReconcileStep /\ pc = "idle"
      BY <1>1, <2>2, BeginStep
    <2>3. CASE ReconcileStep /\ pc # "idle"
      <3>1. CASE r'.err = r.err
        <4>1. pc = "report"
          BY <1>1, <2>3, <3>1 DEF Fresh
        <4>. QED
          BY <1>1, <2>3, <3>1, <4>1, Moves DEF Own, ReconcileLease, ReconcileDeployment,
             Recheck, PatchDeployment, ReconcileService, Inactive, RereadLease
      <3>. QED
        BY <1>1, <2>3, <3>1, Moves
    <2>. QED
      BY <2>1, <2>2, <2>3
  <1>2. ASSUME pc' = "missing"
        PROVE  r'.app = NoApp
    <2>1. CASE ~ReconcileStep
      BY <1>2, <2>1, OthersStay DEF Fresh
    <2>2. CASE ReconcileStep
      <3>1. pc = "idle"
        BY <1>2, <2>2, WhereTo
      <3>2. Begin /\ r'.app = cApp
        BY <1>2, <2>2, <3>1, BeginStep
      <3>. QED
        BY <1>2, <3>2 DEF Begin
    <2>. QED
      BY <2>1, <2>2
  <1>3. ASSUME pc' # "idle", Quiet'
        PROVE  r'.app = cApp' /\ r'.pr = [cPr' EXCEPT !.owned = r'.pr.owned]
    <2>1. CASE Goes
      <3>1. pc # "idle" /\ Quiet /\ cApp' = cApp /\ cPr' = cPr
        BY <1>3, <2>1, OnlyBegins DEF Goes, Quiet
      <3>2. r'.app = r.app /\ (r'.pr = r.pr \/ r'.pr = [r.pr EXCEPT !.owned = TRUE])
        BY <1>3, <3>1, KeepsStep, OthersKeep
      <3>3. r.app = cApp /\ r.pr = [cPr EXCEPT !.owned = r.pr.owned]
        BY <3>1 DEF Fresh
      <3>4. [r.pr EXCEPT !.owned = TRUE] = [cPr EXCEPT !.owned = TRUE]
        BY <1>0, <3>3 DEF PullRequest
      <3>5. [cPr EXCEPT !.owned = TRUE].owned = TRUE
        BY <1>0 DEF PullRequest
      <3>. QED
        BY <3>1, <3>2, <3>3, <3>4, <3>5
    <2>2. CASE r'.pr = cPr /\ r'.app = cApp /\ UNCHANGED <<cPr, cApp>>
      <3>1. cPr = [cPr EXCEPT !.owned = cPr.owned]
        BY <1>0 DEF PullRequest
      <3>. QED
        BY <2>2, <3>1
    <2>. QED
      BY <1>3, <2>1, <2>2, QuietStep
  <1>. QED
    BY <1>1, <1>2, <1>3 DEF Fresh

-----------------------------------------------------------------------------
(* What Reconcile has passed.                                              *)

LEMMA Labels ==
    /\ Own => pc = "own"
    /\ List => pc = "list"
    /\ ReconcileLease => pc = "lease"
    /\ ReconcileDeployment => pc = "deployment"
    /\ Recheck => pc = "recheck"
    /\ PatchDeployment => pc = "patch"
    /\ ReconcileService => pc = "service"
    /\ Report => pc = "report"
    /\ Inactive => pc = "inactive"
    /\ RereadLease => pc = "leases"
  BY DEF Own, List, ReconcileLease, ReconcileDeployment, Recheck, PatchDeployment,
     ReconcileService, Report, Inactive, RereadLease

LEMMA OthersEnd ==
    ASSUME Typed, [Next]_vars, ~ReconcileStep
    PROVE  UNCHANGED <<pc, r>> \/ pc' = "idle" \/ (pc' = "report" /\ r'.err # "")
  <1>1. r \in Reconcile
    BY DEF Typed, TypeOK
  <1>2. CASE Fault
    <2>1. Fail \/ LoopError("ReconcileFailed")
      BY <1>2 DEF Fault
    <2>. QED
      BY <1>1, <2>1 DEF Fail, LoopError, Goto, Reconcile
  <1>3. CASE Crash
    BY <1>3 DEF Crash
  <1>. QED
    BY <1>2, <1>3, LocalFrame

LEMMA HandledByReconcile ==
    ASSUME Typed, ReconcileStep, pc # "idle", pc' # "idle", NEW d \in Deployment, Handled(d)'
    PROVE  Handled(d) \/ (ReconcileService /\ d = current)
  <1>0. r'.app = r.app /\ r.i \in Nat
    BY KeepsStep DEF Typed, TypeOK, Reconcile
  <1>1. CASE pc' \in Afterwards
    <2>1. r'.err = "" /\ d \in Names(r.app)
      BY <1>0, <1>1 DEF Handled, Afterwards, Looping
    <2>2. CASE pc \in Afterwards
      BY <2>1, <2>2, Moves DEF Handled, Afterwards, Own, Looping, ReconcileLease,
         ReconcileDeployment, Recheck, PatchDeployment, ReconcileService
    <2>3. CASE pc \notin Afterwards
      <3>1. \/ Len(r.app.deployments) = 0
            \/ ReconcileService /\ r.i = Len(r.app.deployments)
        BY <1>1, <2>1, <2>3, Moves DEF Afterwards, Inactive, RereadLease
      <3>2. PICK k \in 1..Len(r.app.deployments) : r.app.deployments[k].name = d
        BY <2>1 DEF Names
      <3>3. ReconcileService /\ r.i = Len(r.app.deployments)
        BY <3>1, <3>2
      <3>4. k = r.i \/ k \in 1..(r.i - 1)
        BY <1>0, <3>2, <3>3
      <3>. QED
        BY <3>2, <3>3, <3>4 DEF Handled, Looping, ReconcileService, current, deploymentSpec
    <2>. QED
      BY <2>2, <2>3
  <1>2. CASE pc' \in Looping
    <2>1. PICK k \in 1..(r'.i - 1) : r.app.deployments[k].name = d
      BY <1>0, <1>2 DEF Handled, Looping, Afterwards
    <2>2. \/ r'.i = 1
          \/ ReconcileService /\ r'.i = r.i + 1
          \/ r'.i = r.i /\ pc \in Looping
      <3>1. pc' # "idle" /\ pc' \notin Afterwards /\ pc' \notin {"list", "sweep", "report"}
        BY <1>2 DEF Looping, Afterwards
      <3>2. \/ r'.i = 1
            \/ ReconcileService /\ r'.i = r.i + 1
            \/ /\ ReconcileLease \/ ReconcileDeployment \/ Recheck \/ PatchDeployment
               /\ r'.i = r.i
        BY <3>1, Moves DEF Afterwards
      <3>. QED
        BY <3>2, Labels DEF Looping
    <2>3. \/ ReconcileService /\ k = r.i
          \/ k \in 1..(r.i - 1) /\ pc \in Looping
      <3>1. CASE r'.i = 1
        BY <2>1, <3>1
      <3>2. CASE ReconcileService /\ r'.i = r.i + 1
        <4>1. k \in 1..((r.i + 1) - 1)
          BY <2>1, <3>2
        <4>2. k = r.i \/ k \in 1..(r.i - 1)
          BY <1>0, <4>1
        <4>. QED
          BY <3>2, <4>2 DEF ReconcileService, Looping
      <3>3. CASE r'.i = r.i /\ pc \in Looping
        BY <2>1, <3>3
      <3>. QED
        BY <2>2, <3>1, <3>2, <3>3
    <2>. QED
      BY <2>1, <2>3 DEF Handled, current, deploymentSpec
  <1>. QED
    BY <1>1, <1>2 DEF Handled

LEMMA DoneSoFarStep ==
    ASSUME Typed, DoneSoFar, [Next]_vars
    PROVE  DoneSoFar'
  <1> SUFFICES ASSUME NEW d \in Deployment,
                      \/ pc' = "report" /\ r'.err = "" /\ d \in Names(r'.app)
                      \/ pc' \in Looping /\ \E j \in 1..(r'.i - 1) : r'.app.deployments[j].name = d
                      \/ pc' \in {"deployment", "recheck", "patch", "service"} /\ d = current'
               PROVE  d \in r'.done
    BY DEF DoneSoFar
  <1>0. pc' # "idle" /\ r \in Reconcile
    BY DEF Looping, Typed, TypeOK
  <1>1. CASE ~ReconcileStep
    <2>1. UNCHANGED <<pc, r>> \/ (pc' = "report" /\ r'.err # "")
      BY <1>0, <1>1, OthersEnd
    <2>2. UNCHANGED <<pc, r>>
      BY <2>1 DEF Looping
    <2>3. current' = current
      BY <2>2 DEF current, deploymentSpec
    <2>. QED
      BY <2>2, <2>3 DEF DoneSoFar
  <1>2. CASE ReconcileStep
    <2>0. pc # "idle"
      BY <1>2, WhereTo, BeginStep DEF Looping, Begin
    <2>1. r.done \subseteq r'.done
      BY <1>0, <1>2, <2>0, KeepsStep
    <2>2. CASE Handled(d)'
      <3>1. Handled(d) \/ (ReconcileService /\ d = current)
        BY <1>0, <1>2, <2>0, <2>2, HandledByReconcile
      <3>2. CASE ReconcileService /\ d = current
        BY <2>1, <3>2 DEF DoneSoFar, ReconcileService
      <3>3. CASE Handled(d)
        <4>1. pc' = "report" \/ pc' \in Looping
          BY DEF Looping
        <4>2. pc \in Looping
          BY <1>0, <1>2, <2>0, <3>3, <4>1, Moves, Labels DEF Looping, Handled, Afterwards
        <4>. QED
          BY <2>1, <3>3, <4>2 DEF Handled, DoneSoFar, Afterwards, Looping
      <3>. QED
        BY <3>1, <3>2, <3>3
    <2>3. CASE pc' \in {"deployment", "recheck", "patch", "service"} /\ d = current'
      <3>1. d = current /\ (\/ ReconcileLease /\ pc' = "deployment"
                            \/ pc \in {"deployment", "recheck", "patch"})
        BY <1>2, <2>3, LoopStep
      <3>2. CASE ReconcileLease /\ pc' = "deployment"
        <4>1. \E l : HaveLease(l)
          BY <3>2 DEF ReconcileLease, LoopError, Goto
        <4>2. \E l : r' = [r EXCEPT !.lease = l, !.done = r.done \cup {current}]
          BY <4>1 DEF HaveLease, Goto
        <4>3. r'.done = r.done \cup {current}
          BY <1>0, <4>2 DEF Reconcile
        <4>. QED
          BY <3>1, <4>3
      <3>. QED
        BY <2>1, <3>1, <3>2 DEF DoneSoFar
    <2>4. Handled(d)' \/ (pc' \in {"deployment", "recheck", "patch", "service"} /\ d = current')
      BY DEF Handled, Afterwards
    <2>. QED
      BY <2>2, <2>3, <2>4
  <1>. QED
    BY <1>1, <1>2

(* How Reconcile ends without another one being queued.                    *)
LEMMA Ends ==
    ASSUME Typed, [Next]_vars, pc # "idle", pc' = "idle", ~queued'
    PROVE  \/ ReportMissing /\ Done(0)
           \/ Report /\ r.err = "" /\ deleteAfter = 0 /\ Done(r.wait)
           \/ Report /\ r.err = "" /\ deleteAfter # 0 /\ ~inactive /\ Done(lookAgain)
           \/ Inactive /\ pr.uid = 0
           \/ DeleteInactive
  <1>1. CASE ~ReconcileStep
    <2>1. Fault \/ Crash
      BY <1>1, LocalFrame
    <2>2. Fault => Fail \/ LoopError("ReconcileFailed")
      BY DEF Fault
    <2>. QED
      BY <2>1, <2>2 DEF Crash, Fail, LoopError, Goto
  <1>2. CASE ReportMissing
    BY <1>2 DEF ReportMissing, Fail
  <1>3. CASE Report
    BY <1>3 DEF Report, Fail, Goto
  <1>4. CASE Inactive
    BY <1>4 DEF Inactive, Goto
  <1>5. CASE List
    <2>1. r \in Reconcile
      BY DEF Typed, TypeOK
    <2>. QED
      BY <1>5, <2>1, BeginLoopLocals DEF List, Goto
  <1>6. CASE \E d \in Deployment : DeleteUnlisted(d)
    <2>0. PICK d \in Deployment : DeleteUnlisted(d)
      BY <1>6
    <2> DEFINE rest == [r EXCEPT !.sweep = @ \ {d}]
    <2>1. rest \in Reconcile
      BY DEF Typed, TypeOK, Reconcile
    <2>2. Fail \/ BeginLoop(rest) \/ Goto("sweep", rest)
      BY <2>0 DEF DeleteUnlisted
    <2>. HIDE DEF rest
    <2>. QED
      BY <2>1, <2>2, BeginLoopLocals DEF Goto, Fail
  <1>7. CASE Own \/ ReconcileLease \/ ReconcileDeployment \/ Recheck \/ PatchDeployment
    BY <1>7 DEF Own, ReconcileLease, HaveLease, LoopError, ReconcileDeployment, Recheck,
       PatchDeployment, Goto, Fail
  <1>8. CASE ReconcileService \/ RereadLease \/ Begin
    BY <1>8 DEF ReconcileService, LoopError, NextOrReport, Goto, RereadLease, Begin
  <1>. QED
    BY <1>1, <1>2, <1>3, <1>4, <1>5, <1>6, <1>7, <1>8 DEF ReconcileStep

LEMMA HandledStep ==
    ASSUME Typed, Fresh, [Next]_vars, Goes, NEW d \in Deployment, Handled(d)'
    PROVE  Handled(d) \/ (ReconcileService /\ d = current)
  <1>0. Quiet /\ ~queued /\ ~queued' /\ cApp' = cApp
    BY DEF Goes, Quiet
  <1>1. CASE pc' = "idle" /\ pc # "idle"
    <2>1. cApp # NoApp /\ d \in Names(cApp) /\ r.app = cApp
      BY <1>0, <1>1 DEF Handled, Afterwards, Looping, Fresh
    <2>2. pc # "missing" /\ (r.err # "" => pc = "report")
      BY <1>0, <1>1, <2>1 DEF Fresh
    <2>3. pc \in Afterwards /\ r.err = ""
      BY <1>0, <1>1, <2>2, Ends, Labels DEF Afterwards, ReportMissing, DeleteInactive
    <2>. QED
      BY <2>1, <2>3 DEF Handled
  <1>2. CASE pc' = "idle" /\ pc = "idle"
    BY <1>0, <1>2 DEF Handled, Afterwards, Looping
  <1>3. CASE pc' # "idle"
    <2>1. pc # "idle"
      BY <1>0, <1>3, OnlyBegins
    <2>2. CASE ReconcileStep
      BY <1>3, <2>1, <2>2, HandledByReconcile
    <2>3. CASE ~ReconcileStep
      <3>1. UNCHANGED <<pc, r>>
        BY <1>3, <2>3, OthersEnd DEF Handled, Afterwards, Looping
      <3>. QED
        BY <1>0, <3>1 DEF Handled
    <2>. QED
      BY <2>2, <2>3
  <1>. QED
    BY <1>1, <1>2, <1>3

LEMMA HasLeaseStep ==
    ASSUME Typed, Fresh, [Next]_vars, Goes, NEW d \in Deployment, HasLease(d)'
    PROVE  HasLease(d) \/ (ReconcileLease /\ pc' = "deployment" /\ d = current)
  <1>1. CASE Handled(d)'
    BY <1>1, HandledStep, Labels DEF HasLease
  <1>2. CASE pc' \in {"deployment", "recheck", "patch", "service"} /\ d = current'
    <2>1. CASE ReconcileStep
      BY <1>2, <2>1, LoopStep, Labels DEF HasLease
    <2>2. CASE ~ReconcileStep
      <3>1. UNCHANGED <<pc, r>>
        BY <1>2, <2>2, OthersEnd
      <3>. QED
        BY <1>2, <3>1 DEF HasLease, current, deploymentSpec
    <2>. QED
      BY <2>1, <2>2
  <1>. QED
    BY <1>1, <1>2 DEF HasLease

LEMMA HasDepStep ==
    ASSUME Typed, Fresh, [Next]_vars, Goes, NEW d \in Deployment, HasDep(d)'
    PROVE  \/ HasDep(d)
           \/ /\ ReconcileDeployment \/ PatchDeployment
              /\ pc' = "service" /\ d = current
  <1>1. CASE Handled(d)'
    BY <1>1, HandledStep, Labels DEF HasDep
  <1>2. CASE pc' = "service" /\ d = current'
    <2>1. CASE ReconcileStep
      <3>1. ReconcileDeployment \/ PatchDeployment
        BY <1>2, <2>1, WhereTo
      <3>2. current' = current
        BY <1>2, <2>1, LoopStep
      <3>. QED
        BY <1>2, <3>1, <3>2
    <2>2. CASE ~ReconcileStep
      <3>1. UNCHANGED <<pc, r>>
        BY <1>2, <2>2, OthersEnd
      <3>. QED
        BY <1>2, <3>1 DEF HasDep, current, deploymentSpec
    <2>. QED
      BY <2>1, <2>2
  <1>. QED
    BY <1>1, <1>2 DEF HasDep

(* What Reconcile has passed it leaves alone.                              *)
LEMMA Elsewhere ==
    ASSUME Typed, Fresh, Quiet, NEW d \in Deployment, HasDep(d)
    PROVE  /\ cApp \in Configs /\ d \in Names(cApp)
           /\ pc # "sweep" /\ ~(pc = "patch" /\ d = current)
  <1>1. pc # "idle" => r.app = cApp
    BY DEF Fresh
  <1>2. CASE pc = "idle"
    BY <1>2 DEF HasDep, Handled, Afterwards, Looping, Typed, TypeOK
  <1>3. CASE pc \in Afterwards
    BY <1>1, <1>3 DEF HasDep, Handled, Afterwards, Looping, Typed, Located
  <1>4. CASE pc \in Looping /\ \E j \in 1..(r.i - 1) : r.app.deployments[j].name = d
    <2>1. r.app \in Configs /\ r.i \in 1..Len(r.app.deployments) /\ Len(r.app.deployments) \in Nat
      BY <1>4, ConfigType DEF Typed, Located, Looping
    <2>2. PICK j \in 1..(r.i - 1) : r.app.deployments[j].name = d
      BY <1>4
    <2>3. j \in 1..Len(r.app.deployments) /\ j # r.i
      BY <2>1, <2>2
    <2>4. d \in Names(r.app) /\ d # current
      BY <2>1, <2>2, <2>3, NamesAssumption DEF Names, current, deploymentSpec
    <2>. QED
      BY <1>1, <1>4, <2>1, <2>4 DEF Looping
  <1>5. CASE pc = "service" /\ d = current
    BY <1>1, <1>5, CurrentSpec, ControllerAssumption DEF Looping, configured, Typed, Located
  <1>. QED
    BY <1>2, <1>3, <1>4, <1>5 DEF HasDep, Handled

(* What Reconcile goes by.                                                 *)
LEMMA ForTheCache ==
    ASSUME Typed, Fresh, Quiet, pc \in Looping, NEW d \in Deployment, d = current
    PROVE  /\ r.pr.uid = pr.uid /\ pr.uid \in Nat \ {0}
           /\ cApp \in Configs /\ d \in Names(cApp)
           /\ due(d) = scaleDownAfter(r.app, deploymentSpec)
           /\ starts(d) = startOnDeploy(r.app, deploymentSpec)
           /\ deployedAt(r.pr) = deployedAt(cPr)
           /\ r.pr.image = cPr.image /\ r.pr.env = cPr.env
  <1>1. /\ cPr \in PullRequest /\ pr.uid \in Nat \ {0} /\ cPr.uid = pr.uid
        /\ r.app \in Configs
    BY CurrentType DEF Typed, TypeOK, PullRequest, Quiet
  <1>2. r.app = cApp /\ r.pr = [cPr EXCEPT !.owned = r.pr.owned]
    BY DEF Fresh, Looping
  <1>3. /\ r.pr.uid = cPr.uid /\ r.pr.deployedAt = cPr.deployedAt
        /\ r.pr.createdAt = cPr.createdAt
        /\ r.pr.image = cPr.image /\ r.pr.env = cPr.env
    BY <1>1, <1>2 DEF PullRequest
  <1>4. d \in Names(cApp) /\ SpecOf(cApp, d) = deploymentSpec
    BY <1>2, CurrentSpec DEF configured
  <1>. QED
    BY <1>1, <1>2, <1>3, <1>4 DEF due, starts, deployedAt

-----------------------------------------------------------------------------
(* Leases.                                                                 *)

LEMMA DueStays ==
    ASSUME NEW d \in Deployment, cApp' = cApp
    PROVE  due(d)' = due(d) /\ starts(d)' = starts(d)
  BY DEF due, starts

(* A Lease is only delivered without queuing the PullRequest when nothing   *)
(* about it would make Reconcile act.                                      *)
LEMMA LeaseGoes ==
    ASSUME Typed, [Next]_vars, Goes, NEW d \in Deployment
    PROVE  \/ cLease'[d] = cLease[d]
           \/ /\ cLease'[d] = lease[d] /\ UNCHANGED <<clock, lease>>
              /\ Ours(cLease[d].owner, lease[d].owner) =>
                    /\ cLease[d].owner = lease[d].owner
                    /\ ~wakeUpPredicate(cLease[d], lease[d], clock)
  <1>0. ~queued' /\ cLease \in [Deployment -> Lease]
    BY DEF Goes, Quiet, Typed, TypeOK
  <1>1. CASE \E e \in Deployment : DeliverLease(e)
    <2>1. PICK e \in Deployment : DeliverLease(e)
      BY <1>1
    <2>2. CASE e = d
      BY <1>0, <2>1, <2>2 DEF DeliverLease, server
    <2>3. CASE e # d
      BY <1>0, <2>1, <2>3 DEF DeliverLease
    <2>. QED
      BY <2>2, <2>3
  <1>2. CASE DeliverPr \/ Crash
    BY <1>0, <1>2 DEF DeliverPr, Crash
  <1>3. CASE DeliverApp \/ \E e \in Deployment : DeliverDep(e) \/ DeliverSvc(e)
    BY <1>3 DEF DeliverApp, DeliverDep, DeliverSvc
  <1>. QED
    BY <1>1, <1>2, <1>3, InformerFrame DEF informer

LEMMA DurationStays ==
    ASSUME Typed, Fresh, [Next]_vars, Goes, NEW d \in Deployment, OfPr(lease[d].owner)
    PROVE  lease'[d].duration \in {lease[d].duration, leaseDuration(due(d))}
  <1>0. /\ lease \in [Deployment -> Lease] /\ lease[d] \in Lease
        /\ lease[d].owner = pr.uid /\ pr.uid \in Nat \ {0}
    BY DEF OfPr, Typed, TypeOK, PullRequest
  <1>1. CASE ReconcileLease
    <2> DEFINE after == scaleDownAfter(r.app, deploymentSpec)
    <2>1. \/ lease' = lease
          \/ \E o, t : lease' = [lease EXCEPT ![current] =
                            [owner |-> o, duration |-> leaseDuration(after), renewTime |-> t]]
          \/ lease' = [lease EXCEPT ![current] =
                            [lease[current] EXCEPT !.duration = leaseDuration(after)]]
      BY <1>1 DEF ReconcileLease
    <2>2. pc \in Looping /\ Quiet
      BY <1>1 DEF ReconcileLease, Looping, Goes
    <2>3. CASE d = current
      <3>1. due(d) = after
        BY <2>2, <2>3, ForTheCache
      <3>2. [lease[d] EXCEPT !.duration = leaseDuration(after)].duration = leaseDuration(after)
        BY <1>0 DEF Lease
      <3>3. \/ lease'[d] = lease[d]
            \/ \E o, t : lease'[d] =
                  [owner |-> o, duration |-> leaseDuration(after), renewTime |-> t]
            \/ lease'[d] = [lease[d] EXCEPT !.duration = leaseDuration(after)]
        BY <1>0, <2>1, <2>3
      <3>4. lease'[d].duration \in {lease[d].duration, leaseDuration(after)}
        <4>1. ASSUME NEW o, NEW t,
                     lease'[d] = [owner |-> o, duration |-> leaseDuration(after), renewTime |-> t]
              PROVE  lease'[d].duration = leaseDuration(after)
          BY <4>1
        <4>. QED
          BY <3>2, <3>3, <4>1
      <3>. QED
        BY <3>1, <3>4
    <2>4. CASE d # current
      BY <1>0, <2>1, <2>4
    <2>. QED
      BY <2>3, <2>4
  <1>2. CASE \E f \in Forwarder : ApplyRenewal(f)
    <2>1. \/ lease' = lease
          \/ \E e, x : lease' = [lease EXCEPT ![e].renewTime = x]
      BY <1>2 DEF ApplyRenewal
    <2>. QED
      BY <1>0, <2>1 DEF Lease
  <1>3. CASE \E e \in Deployment : Collect(e) \/ OtherLeaves(e) \/ OtherTakes(e)
    <2>1. PICK e \in Deployment : Collect(e) \/ OtherLeaves(e) \/ OtherTakes(e)
      BY <1>3
    <2>. QED
      BY <1>0, <2>1 DEF Collect, Garbage, OtherLeaves, OtherTakes
  <1>. QED
    BY <1>1, <1>2, <1>3, LeaseFrame

LEMMA LeasedStep ==
    ASSUME Typed, Past, Uids, Kept, Fresh, Leased, [Next]_vars
    PROVE  Leased'
  <1> SUFFICES ASSUME Quiet', NEW d \in Deployment, HasLease(d)'
               PROVE  /\ lease'[d].owner = pr'.uid
                      /\ \/ lease'[d].duration = leaseDuration(due(d)')
                         \/ /\ cLease'[d].owner = pr'.uid
                            /\ cLease'[d].duration = leaseDuration(due(d)')
    BY DEF Leased
  <1>1. Goes
    <2>1. pc' \notin {"missing", "own", "list"}
      BY DEF HasLease, Handled, Afterwards, Looping
    <2>. QED
      BY <2>1, QuietStep
  <1>2. /\ Quiet /\ pr'.uid = pr.uid /\ pr.uid \in Nat \ {0} /\ due(d)' = due(d)
    BY <1>1, DueStays DEF Goes, Quiet, Typed, TypeOK, PullRequest
  <1>3. CASE HasLease(d)
    <2>1. /\ lease[d].owner = pr.uid
          /\ \/ lease[d].duration = leaseDuration(due(d))
             \/ cLease[d].owner = pr.uid /\ cLease[d].duration = leaseDuration(due(d))
      BY <1>2, <1>3 DEF Leased
    <2>2. OfPr(lease[d].owner)
      BY <1>2, <2>1 DEF OfPr
    <2>3. lease'[d].owner = pr'.uid
      BY <1>2, <2>2, OwnLeaseStays DEF OfPr
    <2>4. lease'[d].duration \in {lease[d].duration, leaseDuration(due(d))}
      BY <1>1, <2>2, DurationStays
    <2>5. CASE lease[d].duration = leaseDuration(due(d))
      BY <1>2, <2>3, <2>4, <2>5
    <2>6. CASE cLease[d].owner = pr.uid /\ cLease[d].duration = leaseDuration(due(d))
      <3>1. CASE cLease'[d] = cLease[d]
        BY <1>2, <2>3, <2>6, <3>1
      <3>2. CASE ~wakeUpPredicate(cLease[d], lease[d], clock)
        <4>1. lease[d].duration = leaseDuration(due(d))
          BY <2>6, <3>2 DEF wakeUpPredicate
        <4>. QED
          BY <2>5, <4>1
      <3>. QED
        BY <1>1, <1>2, <2>6, <3>1, <3>2, LeaseGoes DEF Ours
    <2>. QED
      BY <2>1, <2>5, <2>6
  <1>4. CASE ReconcileLease /\ pc' = "deployment" /\ d = current
    <2> DEFINE after == scaleDownAfter(r.app, deploymentSpec)
    <2>1. pc \in Looping /\ cLease' = cLease
      BY <1>4 DEF ReconcileLease, Looping, informer
    <2>2. r.pr.uid = pr.uid /\ due(d) = after
      BY <1>2, <1>4, <2>1, ForTheCache
    <2>3. lease \in [Deployment -> Lease] /\ lease[d] \in Lease
      BY DEF Typed, TypeOK
    <2>4. cLease[d].owner = pr.uid => lease[d].owner = pr.uid
      BY <1>2 DEF Kept, OfPr
    <2>5. \/ \E t : lease' = [lease EXCEPT ![d] =
                      [owner |-> r.pr.uid, duration |-> leaseDuration(after), renewTime |-> t]]
          \/ /\ cLease[d].owner = r.pr.uid /\ cLease[d].duration = leaseDuration(after)
             /\ lease' = lease
          \/ /\ cLease[d].owner = r.pr.uid
             /\ lease' = [lease EXCEPT ![d] = [lease[d] EXCEPT !.duration = leaseDuration(after)]]
      BY <1>4 DEF ReconcileLease, LoopError, Goto
    <2>6. /\ [lease[d] EXCEPT !.duration = leaseDuration(after)].duration = leaseDuration(after)
          /\ [lease[d] EXCEPT !.duration = leaseDuration(after)].owner = lease[d].owner
      BY <2>3 DEF Lease
    <2>7. \/ \E t : lease'[d] =
                [owner |-> r.pr.uid, duration |-> leaseDuration(after), renewTime |-> t]
          \/ /\ cLease[d].owner = r.pr.uid /\ cLease[d].duration = leaseDuration(after)
             /\ lease'[d] = lease[d]
          \/ /\ cLease[d].owner = r.pr.uid
             /\ lease'[d] = [lease[d] EXCEPT !.duration = leaseDuration(after)]
      BY <2>3, <2>5
    <2>8. \/ lease'[d].owner = r.pr.uid /\ lease'[d].duration = leaseDuration(after)
          \/ /\ cLease[d].owner = r.pr.uid /\ cLease[d].duration = leaseDuration(after)
             /\ lease'[d].owner = r.pr.uid
      <3>1. ASSUME NEW t,
                   lease'[d] = [owner |-> r.pr.uid, duration |-> leaseDuration(after),
                                renewTime |-> t]
            PROVE  lease'[d].owner = r.pr.uid /\ lease'[d].duration = leaseDuration(after)
        BY <3>1
      <3>. QED
        BY <2>2, <2>4, <2>6, <2>7, <3>1
    <2>. QED
      BY <1>2, <2>1, <2>2, <2>8
  <1>. QED
    BY <1>1, <1>3, <1>4, HasLeaseStep

-----------------------------------------------------------------------------
(* Deployments.                                                            *)

(* A Deployment of the PullRequest is not delivered without queuing it.    *)
LEMMA DepGoes ==
    ASSUME Typed, [Next]_vars, Goes, NEW d \in Deployment,
           pr.uid \in {dep[d].owner, cDep[d].owner}
    PROVE  cDep'[d] = cDep[d]
  <1>0. /\ ~queued' /\ cDep \in [Deployment -> Workload] /\ pr.uid \in Nat \ {0}
    BY DEF Goes, Quiet, Typed, TypeOK, PullRequest
  <1>1. CASE \E e \in Deployment : DeliverDep(e)
    <2>1. PICK e \in Deployment : DeliverDep(e)
      BY <1>1
    <2>2. Ours(cDep[d].owner, dep[d].owner)
      BY <1>0 DEF Ours
    <2>3. e # d
      BY <1>0, <2>1, <2>2 DEF DeliverDep
    <2>. QED
      BY <1>0, <2>1, <2>3 DEF DeliverDep
  <1>2. CASE DeliverPr \/ Crash
    BY <1>0, <1>2 DEF DeliverPr, Crash
  <1>3. CASE DeliverApp \/ \E e \in Deployment : DeliverLease(e) \/ DeliverSvc(e)
    BY <1>3 DEF DeliverApp, DeliverLease, DeliverSvc
  <1>. QED
    BY <1>1, <1>2, <1>3, InformerFrame DEF informer

LEMMA OwnDepGoes ==
    ASSUME Typed, [Next]_vars, Goes, NEW d \in Deployment, cDep[d].owner = pr.uid
    PROVE  cDep'[d] = cDep[d]
  BY DepGoes

LEMMA UndeliveredStays ==
    ASSUME Typed, Together, KeptObjects, [Next]_vars, Goes, NEW d \in Deployment,
           Undelivered(d), pc # "sweep", ~(pc = "patch" /\ d = current)
    PROVE  Undelivered(d)'
  <1>0. /\ pr'.uid = pr.uid /\ pr.uid \in Nat \ {0} /\ dep[d].owner = pr.uid
        /\ cDep[d] # dep[d] /\ cDep'[d] = cDep[d]
        /\ dep[d].scaled \in Nat /\ cDep[d].scaled \in Nat /\ dep'[d].scaled \in Nat
    BY DepGoes, TypedStep DEF Goes, Quiet, Undelivered, Typed, TypeOK, PullRequest, Workload
  <1>1. OfPr(dep[d].owner)
    BY <1>0 DEF OfPr
  <1>2. /\ OfPr(dep[d].owner)'
        /\ dep'[d] = dep[d] \/ dep[d].scaled < dep'[d].scaled
    BY <1>0, <1>1, OwnDepStays DEF DeleteUnlisted, PatchDeployment
  <1>3. CASE dep'[d] = dep[d]
    BY <1>0, <1>3 DEF Undelivered
  <1>4. CASE dep[d].scaled < dep'[d].scaled
    <2>1. cDep[d].owner = pr.uid => cDep[d].scaled <= dep[d].scaled
      BY <1>0 DEF KeptObjects, OfPr
    <2>2. dep'[d].owner = pr.uid
      BY <1>0, <1>2 DEF OfPr
    <2>3. cDep[d] # dep'[d]
      BY <1>0, <1>4, <2>1, <2>2
    <2>. QED
      BY <1>0, <2>2, <2>3 DEF Undelivered
  <1>. QED
    BY <1>2, <1>3, <1>4

LEMMA HaltsStay ==
    ASSUME Typed, Together, KeptObjects, [Next]_vars, Goes, NEW d \in Deployment,
           Halts(d), pc # "sweep", ~(pc = "patch" /\ d = current)
    PROVE  Halts(d)'
  BY UndeliveredStays, OwnDepGoes DEF Halts, Goes

(* What Reconcile makes of a Deployment depends on what it has read.       *)
LEMMA SameReplicas ==
    ASSUME UNCHANGED <<current, deploymentSpec>>, r'.app = r.app, r'.pr = r.pr,
           r'.now = r.now, r'.lease = r.lease, NEW w
    PROVE  running' = running /\ changed(w)' = changed(w)
  BY DEF running, changed, synced, replicasOf

LEMMA PatchedDiffers ==
    ASSUME NEW w \in Workload, NEW v \in Workload, r.dep = w, changed(w)
    PROVE  Patched(v) # w
  <1>1. CASE synced(w, r.pr, current)
    <2>1. Patched(v).image = r.pr.image /\ Patched(v).env = r.pr.env[current]
      BY <1>1 DEF Patched, Workload
    <2>2. r.pr.image # w.image \/ r.pr.env[current] # w.env
      BY <1>1 DEF synced, imageFor
    <2>. QED
      BY <2>1, <2>2
  <1>2. CASE replicasOf(w) # w.replicas
    <2>1. Patched(v).replicas = replicasOf(w)
      BY <1>2 DEF Patched, Workload
    <2>. QED
      BY <1>2, <2>1
  <1>. QED
    BY <1>1, <1>2 DEF changed

LEMMA PatchingStep ==
    ASSUME Typed, Uids, Fresh, Patching, [Next]_vars
    PROVE  Patching'
  <1> SUFFICES ASSUME Quiet', pc' \in {"recheck", "patch"}
               PROVE  /\ r'.dep = cDep'[current'] /\ r'.dep.owner = pr'.uid
                      /\ pc' = "recheck" => r'.dep.replicas > 0
                      /\ pc' = "patch" /\ r'.dep.replicas = 0 => changed(r.dep)'
    BY DEF Patching
  <1>1. Goes /\ Quiet /\ pr'.uid = pr.uid
    BY QuietStep DEF Goes
  <1>2. CASE ~ReconcileStep
    <2>1. UNCHANGED <<pc, r>>
      BY <1>2, ElseFails
    <2>2. current' = current /\ changed(r.dep)' = changed(r.dep)
      BY <2>1 DEF current, deploymentSpec, changed, synced, replicasOf, running
    <2>3. PICK d \in Deployment : d = current
      BY <2>1, CurrentType DEF Looping
    <2>4. cDep[d].owner = pr.uid
      BY <1>1, <2>1, <2>3 DEF Patching
    <2>5. cDep'[d] = cDep[d]
      BY <1>1, <2>4, OwnDepGoes
    <2>. QED
      BY <1>1, <2>1, <2>2, <2>3, <2>5 DEF Patching
  <1>3. CASE ReconcileDeployment /\ pc' \in {"recheck", "patch"}
    <2>1. /\ current' = current /\ r'.app = r.app /\ r'.i = r.i /\ r'.pr = r.pr
          /\ r'.now = r.now
      BY <1>3, SameDeployment
    <2>2. pc \in Looping /\ UNCHANGED informer
      BY <1>3 DEF ReconcileDeployment, Looping
    <2>3. PICK d \in Deployment : d = current
      BY <2>2, CurrentType
    <2>4. r.pr.uid = pr.uid
      BY <1>1, <2>2, <2>3, ForTheCache
    <2>5. r \in Reconcile
      BY DEF Typed, TypeOK
    <2>6. /\ cDep[d].owner = r.pr.uid
          /\ r' = [r EXCEPT !.dep = cDep[d]]
          /\ pc' = "recheck" => cDep[d].replicas > 0
          /\ pc' = "patch" => changed(cDep[d])
      BY <1>3, <2>3 DEF ReconcileDeployment, Goto, LoopError
    <2>7. r'.dep = cDep[d] /\ r'.lease = r.lease
      BY <2>5, <2>6 DEF Reconcile
    <2>8. PICK w : w = cDep[d]
      OBVIOUS
    <2>9. changed(w)' = changed(w)
      BY <2>1, <2>7, SameReplicas DEF deploymentSpec
    <2>10. changed(r.dep)' = changed(w)'
      BY <2>7, <2>8 DEF changed, synced, replicasOf
    <2>. QED
      BY <1>1, <2>1, <2>2, <2>3, <2>4, <2>6, <2>7, <2>8, <2>9, <2>10 DEF informer
  <1>4. CASE Recheck /\ pc' = "patch"
    <2>1. r' = [r EXCEPT !.lease = lease[current]] /\ pc = "recheck" /\ UNCHANGED informer
      BY <1>4 DEF Recheck, Goto, LoopError
    <2>2. r'.dep = r.dep
      BY <2>1 DEF Typed, TypeOK, Reconcile
    <2>3. current' = current
      BY <1>4, SameDeployment
    <2>4. r.dep.replicas > 0 => r.dep.replicas # 0
      BY DEF Typed, TypeOK, Reconcile, Workload
    <2>. QED
      BY <1>1, <1>4, <2>1, <2>2, <2>3, <2>4 DEF Patching, informer
  <1>. QED
    BY <1>2, <1>3, <1>4, WhereTo

(* Reconcile leaves a Deployment that is as it should be, or that it has    *)
(* changed.                                                                *)
LEMMA ServiceReached ==
    ASSUME Typed, Uids, Fresh, Together, KeptObjects, Patching, [Next]_vars, Goes,
           ReconcileDeployment \/ PatchDeployment, pc' = "service",
           NEW d \in Deployment, d = current
    PROVE  /\ current' = current /\ running' = running
           /\ \/ Undelivered(current)'
              \/ /\ cDep[d].owner = pr.uid /\ cDep'[d] = cDep[d]
                 /\ ~synced(cDep[d], cPr, d)
                 /\ cDep[d].replicas > 0 <=> running
                 /\ pc = "patch" => running
  <1>0. /\ r \in Reconcile /\ dep \in [Deployment -> Workload] /\ dep[d] \in Workload
        /\ cDep[d] \in Workload /\ cDep[d].replicas \in Nat
    BY DEF Typed, TypeOK, Workload
  <1>1. pc \in Looping /\ UNCHANGED informer /\ Quiet /\ pr'.uid = pr.uid
    BY DEF ReconcileDeployment, PatchDeployment, Looping, Goes
  <1>2. /\ r.pr.uid = pr.uid /\ pr.uid \in Nat \ {0}
        /\ r.pr.image = cPr.image /\ r.pr.env = cPr.env
    BY <1>1, ForTheCache
  <1>3. r' = r \/ \E x : r' = [r EXCEPT !.dep = x]
    BY DEF ReconcileDeployment, PatchDeployment, Goto, LoopError
  <1>4. /\ r'.app = r.app /\ r'.i = r.i /\ r'.pr = r.pr /\ r'.now = r.now
        /\ r'.lease = r.lease
    BY <1>0, <1>3 DEF Reconcile
  <1>5. current' = current /\ running' = running
    BY <1>4 DEF current, deploymentSpec, running
  <1>6. ASSUME NEW w \in Workload, w = cDep[d], ~changed(w)
        PROVE  /\ ~synced(w, cPr, d)
               /\ running => w.replicas > 0
               /\ w.replicas > 0 => running
    <2>1. ~synced(w, r.pr, current) /\ replicasOf(w) = w.replicas
      BY <1>6 DEF changed
    <2>2. ~synced(w, cPr, d)
      BY <1>2, <2>1 DEF synced, imageFor
    <2>3. w.replicas \in Nat /\ Longest(deploymentSpec.replicas, 1) > 0
      BY <1>1, CurrentType, MaxMinType DEF Workload, Longest
    <2>4. running => w.replicas > 0
      BY <2>1, <2>3 DEF replicasOf
    <2>5. w.replicas > 0 => running
      BY <2>1, <2>3 DEF replicasOf
    <2>. QED
      BY <2>2, <2>4, <2>5
  <1>7. CASE ReconcileDeployment
    <2>1. CASE cDep[d].owner = Nobody
      <3>1. \E x, y, z, u, v : dep' = [dep EXCEPT ![d] =
                [owner |-> r.pr.uid, image |-> x, env |-> y, template |-> z,
                 scaled |-> u, replicas |-> v]]
        BY <1>2, <1>7, <2>1 DEF ReconcileDeployment, LoopError, Goto
      <3>2. dep'[d].owner = r.pr.uid
        BY <1>0, <3>1
      <3>. QED
        BY <1>1, <1>2, <1>5, <2>1, <3>2 DEF Undelivered, informer
    <2>2. CASE cDep[d].owner # Nobody
      <3>1. /\ cDep[d].owner = r.pr.uid /\ ~(cDep[d].replicas > 0 /\ ~running)
            /\ ~changed(cDep[d]) /\ pc = "deployment"
        BY <1>7, <2>2 DEF ReconcileDeployment, LoopError, Goto
      <3>. QED
        BY <1>0, <1>1, <1>2, <1>5, <1>6, <3>1 DEF informer
    <2>. QED
      BY <2>1, <2>2
  <1>8. CASE PatchDeployment
    <2>1. /\ r.dep = cDep[d] /\ cDep[d].owner = pr.uid /\ pc = "patch"
          /\ r.dep.replicas = 0 => changed(r.dep)
      BY <1>1, <1>8 DEF Patching, PatchDeployment
    <2>2. CASE changed(r.dep)
      <3>1. dep[d].owner # Nobody /\ dep' = [dep EXCEPT ![d] = Patched(dep[d])]
        BY <1>8, <2>2 DEF PatchDeployment, LoopError, Goto
      <3>2. dep[d].owner = pr.uid
        BY <1>2, <2>1, <3>1 DEF KeptObjects, OfPr
      <3>3. Patched(dep[d]).owner = dep[d].owner
        BY <1>0 DEF Patched, Workload
      <3>4. Patched(dep[d]) # cDep[d]
        BY <1>0, <2>1, <2>2, PatchedDiffers
      <3>. QED
        BY <1>0, <1>1, <1>5, <3>1, <3>2, <3>3, <3>4 DEF Undelivered, informer
    <2>3. CASE ~changed(r.dep)
      <3>1. cDep[d].replicas > 0
        BY <1>0, <2>1, <2>3
      <3>. QED
        BY <1>0, <1>1, <1>5, <1>6, <2>1, <2>3, <3>1 DEF informer
    <2>. QED
      BY <2>2, <2>3
  <1>. QED
    BY <1>7, <1>8

LEMMA SyncedStep ==
    ASSUME Typed, Uids, Fresh, Together, KeptObjects, Patching, Synced, [Next]_vars
    PROVE  Synced'
  <1> SUFFICES ASSUME Quiet', NEW d \in Deployment, HasDep(d)'
               PROVE  \/ Undelivered(d)'
                      \/ cDep'[d].owner = pr'.uid /\ ~synced(cDep'[d], cPr', d)
    BY DEF Synced, synced, imageFor
  <1>1. Goes
    <2>1. pc' \notin {"missing", "own", "list"}
      BY DEF HasDep, Handled, Afterwards, Looping
    <2>. QED
      BY <2>1, QuietStep
  <1>2. Quiet /\ pr'.uid = pr.uid /\ cPr' = cPr
    BY <1>1 DEF Goes
  <1>3. CASE HasDep(d)
    <2>1. pc # "sweep" /\ ~(pc = "patch" /\ d = current)
      BY <1>2, <1>3, Elsewhere
    <2>2. CASE Undelivered(d)
      BY <1>1, <2>1, <2>2, UndeliveredStays
    <2>3. CASE cDep[d].owner = pr.uid /\ ~synced(cDep[d], cPr, d)
      <3>1. cDep'[d] = cDep[d]
        BY <1>1, <2>3, OwnDepGoes
      <3>. QED
        BY <1>2, <2>3, <3>1
    <2>. QED
      BY <1>2, <1>3, <2>2, <2>3 DEF Synced
  <1>4. CASE /\ ReconcileDeployment \/ PatchDeployment
             /\ pc' = "service" /\ d = current
    <2>1. \/ Undelivered(current)'
          \/ cDep[d].owner = pr.uid /\ cDep'[d] = cDep[d] /\ ~synced(cDep[d], cPr, d)
      BY <1>1, <1>4, ServiceReached
    <2>2. current' = current
      BY <1>1, <1>4, ServiceReached
    <2>3. Undelivered(current)' => Undelivered(d)'
      BY <1>4, <2>2 DEF Undelivered
    <2>. QED
      BY <1>2, <2>1, <2>3
  <1>. QED
    BY <1>1, <1>3, <1>4, HasDepStep

-----------------------------------------------------------------------------
(* Services, and what the ReviewAppConfig doesn't have.                    *)

LEMMA ServicedStep ==
    ASSUME Typed, Uids, Fresh, Together, KeptObjects, Serviced, [Next]_vars
    PROVE  Serviced'
  <1> SUFFICES ASSUME Quiet', NEW d \in Deployment, Handled(d)'
               PROVE  svc'[d] = pr'.uid
    BY DEF Serviced
  <1>1. Goes
    <2>1. pc' \notin {"missing", "own", "list"}
      BY DEF Handled, Afterwards, Looping
    <2>. QED
      BY <2>1, QuietStep
  <1>2. Quiet /\ pr'.uid = pr.uid /\ pr.uid \in Nat \ {0} /\ svc \in [Deployment -> Owner]
    BY <1>1 DEF Goes, Quiet, Typed, TypeOK, PullRequest
  <1>3. CASE Handled(d)
    <2>1. OfPr(svc[d])
      BY <1>2, <1>3 DEF Serviced, OfPr
    <2>. QED
      BY <1>2, <2>1, OwnSvcStays DEF OfPr
  <1>4. CASE ReconcileService /\ d = current
    <2>1. r.pr.uid = pr.uid
      BY <1>2, <1>4, ForTheCache DEF ReconcileService, Looping
    <2>2. ASSUME NEW reason, reason # "", LoopError(reason)
          PROVE  FALSE
      BY <2>2, Labels DEF LoopError, Goto, Handled, Afterwards, Looping, Typed, TypeOK, Reconcile
    <2>3. \/ svc' = [svc EXCEPT ![d] = r.pr.uid]
          \/ cSvc[d] = r.pr.uid /\ svc' = svc
      BY <1>4, <2>2 DEF ReconcileService
    <2>4. cSvc[d] = pr.uid => svc[d] = pr.uid
      BY <1>2 DEF KeptObjects, OfPr
    <2>. QED
      BY <1>2, <2>1, <2>3, <2>4
  <1>. QED
    BY <1>1, <1>3, <1>4, HandledStep

LEMMA ForeignDep ==
    ASSUME Typed, [Next]_vars, Goes, NEW d \in Deployment
    PROVE  \/ cDep'[d] = cDep[d]
           \/ cDep'[d] = dep[d] /\ dep[d].owner \in {Nobody, Other}
  <1>0. ~queued' /\ cDep \in [Deployment -> Workload]
    BY DEF Goes, Quiet, Typed, TypeOK
  <1>1. CASE \E e \in Deployment : DeliverDep(e)
    <2>1. PICK e \in Deployment : DeliverDep(e)
      BY <1>1
    <2>2. ~Ours(cDep[e].owner, dep[e].owner)
      BY <1>0, <2>1 DEF DeliverDep
    <2>. QED
      BY <1>0, <2>1, <2>2 DEF DeliverDep, Ours
  <1>2. CASE DeliverPr \/ Crash
    BY <1>0, <1>2 DEF DeliverPr, Crash
  <1>3. CASE DeliverApp \/ \E e \in Deployment : DeliverLease(e) \/ DeliverSvc(e)
    BY <1>3 DEF DeliverApp, DeliverLease, DeliverSvc
  <1>. QED
    BY <1>1, <1>2, <1>3, InformerFrame DEF informer

(* Only Reconcile makes a Deployment of the PullRequest, of what the        *)
(* ReviewAppConfig has.                                                    *)
LEMMA NoNewDep ==
    ASSUME Typed, [Next]_vars, NEW d \in Deployment, ~(ReconcileDeployment /\ d = current)
    PROVE  dep'[d].owner \in {dep[d].owner, Nobody, Other}
  <1>0. dep \in [Deployment -> Workload] /\ dep[d] \in Workload
    BY DEF Typed, TypeOK
  <1>1. CASE ReconcileDeployment
    <2>1. \E w : dep' = dep \/ dep' = [dep EXCEPT ![current] = w]
      BY <1>1 DEF ReconcileDeployment
    <2>. QED
      BY <1>0, <1>1, <2>1
  <1>2. CASE PatchDeployment
    <2>1. dep' = dep \/ dep' = [dep EXCEPT ![current] = Patched(dep[current])]
      BY <1>2 DEF PatchDeployment
    <2>2. Patched(dep[d]).owner = dep[d].owner
      BY <1>0 DEF Patched, Workload
    <2>. QED
      BY <1>0, <2>1, <2>2
  <1>3. CASE \E e \in Deployment : \/ DeleteUnlisted(e) \/ Collect(e) \/ OtherLeaves(e)
    <2>1. PICK e \in Deployment : \/ DeleteUnlisted(e) \/ Collect(e) \/ OtherLeaves(e)
      BY <1>3
    <2>2. dep' = dep \/ dep' = [dep EXCEPT ![e] = NoWorkload]
      BY <2>1 DEF DeleteUnlisted, Collect, OtherLeaves
    <2>. QED
      BY <1>0, <2>2 DEF NoWorkload
  <1>4. CASE \E e \in Deployment : OtherTakes(e) \/ \E n \in 0..2 : Scale(e, n)
    <2>1. PICK e \in Deployment : OtherTakes(e) \/ \E n \in 0..2 : Scale(e, n)
      BY <1>4
    <2>2. CASE OtherTakes(e)
      <3>1. dep'[d] = dep[d] \/ dep'[d] = [dep[d] EXCEPT !.owner = Other]
        BY <1>0, <2>2 DEF OtherTakes
      <3>. QED
        BY <1>0, <3>1 DEF Workload
    <2>3. CASE \E n \in 0..2 : Scale(e, n)
      <3>1. PICK n \in 0..2 : Scale(e, n)
        BY <2>3
      <3>2. \/ dep'[d] = dep[d]
            \/ dep'[d] = [dep[d] EXCEPT !.replicas = n, !.scaled = dep[d].scaled + 1]
        BY <1>0, <3>1 DEF Scale
      <3>. QED
        BY <1>0, <3>2 DEF Workload
    <2>. QED
      BY <2>1, <2>2, <2>3
  <1>. QED
    BY <1>1, <1>2, <1>3, <1>4, DepFrame

LEMMA SweptStep ==
    ASSUME Typed, Uids, Fresh, Swept, [Next]_vars
    PROVE  Swept'
  <1> SUFFICES ASSUME Quiet', pc' \notin {"missing", "own", "list"}, cApp' # NoApp,
                      NEW d \in Deployment, d \notin Names(cApp')
               PROVE  \/ pc' = "sweep" /\ d \in r'.sweep
                      \/ cDep'[d].owner \in {Nobody, Other}
                      \/ dep'[d].owner \in {Nobody, Other}
    BY DEF Swept
  <1>1. Goes
    BY QuietStep
  <1>2. Quiet /\ cApp' = cApp /\ ~queued' /\ r \in Reconcile /\ dep \in [Deployment -> Workload]
    BY <1>1 DEF Goes, Quiet, Typed, TypeOK
  <1>3. pc # "missing" /\ (pc # "idle" => r.app = cApp)
    BY <1>2 DEF Fresh
  <1>4. pc # "own"
    <2>1. pc = "own" => ~(Own /\ pc' = "list") /\ pc' # pc
      OBVIOUS
    <2>2. CASE ReconcileStep
      BY <1>2, <2>2, Ends, Moves, Labels DEF Looping, Afterwards, ReportMissing, DeleteInactive
    <2>3. CASE ~ReconcileStep
      BY <2>3, ElseFails DEF Looping
    <2>. QED
      BY <2>2, <2>3
  <1>5. CASE pc = "list"
    <2>1. List
      BY <1>5, ElseFails DEF Looping, ReconcileStep, Begin, ReportMissing, Own,
         DeleteUnlisted, ReconcileLease, ReconcileDeployment, Recheck, PatchDeployment,
         ReconcileService, Report, Inactive, RereadLease, DeleteInactive
    <2>2. \/ unlisted = {}
          \/ pc' = "sweep" /\ r' = [r EXCEPT !.sweep = unlisted]
      BY <2>1 DEF List, Goto
    <2>3. d \notin unlisted => cDep[d].owner \in {Nobody, Other}
      BY <1>2, <1>3, <1>5 DEF unlisted
    <2>4. cDep' = cDep
      BY <2>1 DEF List, informer
    <2>5. pc' = "sweep" /\ r' = [r EXCEPT !.sweep = unlisted] => r'.sweep = unlisted
      BY <1>2 DEF Reconcile
    <2>. QED
      BY <2>2, <2>3, <2>4, <2>5
  <1>6. CASE pc = "sweep" /\ d \in r.sweep
    <2>1. CASE ~ReconcileStep
      BY <1>6, <2>1, ElseFails DEF Looping
    <2>2. CASE ReconcileStep
      <3>1. PICK e \in Deployment : DeleteUnlisted(e)
        BY <1>6, <2>2 DEF ReconcileStep, Begin, ReportMissing, Own, List,
           ReconcileLease, ReconcileDeployment, Recheck, PatchDeployment,
           ReconcileService, Report, Inactive, RereadLease, DeleteInactive
      <3>2. CASE dep[e].owner = Nobody
        BY <1>2, <3>1, <3>2 DEF DeleteUnlisted, Fail
      <3>3. CASE dep[e].owner # Nobody /\ e = d
        <4>1. dep'[d] = NoWorkload
          BY <1>2, <3>1, <3>3 DEF DeleteUnlisted
        <4>. QED
          BY <4>1 DEF NoWorkload
      <3>4. CASE dep[e].owner # Nobody /\ e # d
        <4>1. [r EXCEPT !.sweep = @ \ {e}].sweep = r.sweep \ {e}
          BY <1>2 DEF Reconcile
        <4>2. pc' = "sweep" /\ r' = [r EXCEPT !.sweep = @ \ {e}]
          BY <1>6, <3>1, <3>4, <4>1 DEF DeleteUnlisted, Goto
        <4>. QED
          BY <1>6, <3>4, <4>1, <4>2
      <3>. QED
        BY <3>2, <3>3, <3>4
    <2>. QED
      BY <2>1, <2>2
  <1>7. CASE cDep[d].owner \in {Nobody, Other}
    BY <1>1, <1>7, ForeignDep
  <1>8. CASE dep[d].owner \in {Nobody, Other}
    <2>1. ~(ReconcileDeployment /\ d = current)
      BY <1>2, <1>3, CurrentSpec DEF ReconcileDeployment, Looping, configured
    <2>. QED
      BY <1>8, <2>1, NoNewDep
  <1>. QED
    BY <1>2, <1>3, <1>4, <1>5, <1>6, <1>7, <1>8 DEF Swept

-----------------------------------------------------------------------------
(* The status.                                                             *)

LEMMA ReasonStays ==
    ASSUME Typed, [Next]_vars, pr'.uid = pr.uid, pr.uid # 0, ~ReportMissing, ~Report
    PROVE  pr'.reason = pr.reason /\ pr'.observed = pr.observed
  <1>0. pr \in PullRequest /\ NoPr.uid = 0
    BY DEF Typed, TypeOK, NoPr
  <1>1. CASE Own
    <2>1. pr' = pr \/ pr' = [pr EXCEPT !.owned = TRUE]
      BY <1>1 DEF Own
    <2>. QED
      BY <1>0, <2>1 DEF PullRequest
  <1>2. CASE DeleteInactive \/ Close
    BY <1>0, <1>2 DEF DeleteInactive, Close
  <1>3. CASE WriteSpec
    <2>1. pr' = pr \/ \E x, y : pr' = [pr EXCEPT !.image = x, !.gen = y]
      BY <1>3 DEF WriteSpec
    <2>. QED
      BY <1>0, <2>1 DEF PullRequest
  <1>4. CASE WriteStatus
    <2>1. pr' = pr \/ \E x : pr' = [pr EXCEPT !.deployedAt = x]
      BY <1>4 DEF WriteStatus
    <2>. QED
      BY <1>0, <2>1 DEF PullRequest
  <1>5. CASE \E d \in Deployment, e \in Env \cup {NoEnv} : EditOverrides(d, e)
    <2>1. \E x, y : pr' = [pr EXCEPT !.env = x, !.gen = y]
      BY <1>0, <1>5 DEF EditOverrides, PullRequest
    <2>. QED
      BY <1>0, <2>1 DEF PullRequest
  <1>. QED
    BY <1>1, <1>2, <1>3, <1>4, <1>5, PrFrame

(* What Reconcile goes by, outside the loop as well.                       *)
LEMMA GoesBy ==
    ASSUME Typed, Fresh, Quiet, pc # "idle"
    PROVE  /\ r.app = cApp /\ r.pr.uid = cPr.uid /\ r.pr.reason = cPr.reason
           /\ r.pr.observed = cPr.observed /\ r.pr.gen = cPr.gen
           /\ r.pr.listed = cPr.listed /\ r.pr.env = cPr.env
  <1>1. cPr \in PullRequest /\ r.app = cApp /\ r.pr = [cPr EXCEPT !.owned = r.pr.owned]
    BY DEF Typed, TypeOK, Fresh
  <1>. QED
    BY <1>1 DEF PullRequest

LEMMA Reports ==
    ASSUME Typed, Fresh, DoneSoFar, KeptPr, Quiet, Report, r.err = ""
    PROVE  /\ cApp # NoApp => Names(cApp) \subseteq pr'.listed
           /\ \/ cPr.reason = dueReason /\ cPr.observed = cPr.gen
              \/ <<pr'.reason, pr'.observed>> # <<cPr.reason, cPr.observed>>
  <1>0. pc = "report" /\ pr \in PullRequest /\ pr.uid # 0 /\ cPr.uid = pr.uid
    BY DEF Report, Typed, TypeOK, Quiet
  <1>1. /\ r.app = cApp /\ r.pr.uid = cPr.uid /\ r.pr.reason = cPr.reason
        /\ r.pr.observed = cPr.observed /\ r.pr.gen = cPr.gen
        /\ r.pr.listed = cPr.listed /\ r.pr.env = cPr.env
    BY <1>0, GoesBy
  <1>2. r.app \in Configs /\ r.app # NoApp
    BY <1>0, ControllerAssumption DEF Typed, Located
  <1>3. conditionReason = dueReason
    BY <1>1, <1>2 DEF conditionReason, dueReason, unknownOverrides
  <1>4. Names(r.app) \subseteq r.done
    <2>1. \A d \in Names(r.app) : d \in Deployment
      BY <1>2, DeploymentSpecType DEF Names
    <2>. QED
      BY <1>0, <2>1 DEF DoneSoFar
  <1>5. r.pr.listed \subseteq pr.listed
    BY <1>0, <1>1 DEF KeptPr
  <1>6. pr' = IF nothingToReport THEN pr ELSE Reported
    BY <1>0 DEF Report
  <1>7. CASE nothingToReport
    BY <1>1, <1>3, <1>4, <1>5, <1>6, <1>7 DEF nothingToReport
  <1>8. CASE ~nothingToReport
    <2> DEFINE anew == r.pr.reason # conditionReason \/ r.pr.observed # r.pr.gen
    <2>1. /\ Reported.listed = pr.listed \cup (r.done \ r.pr.listed)
          /\ anew => Reported.reason = conditionReason /\ Reported.observed = r.pr.gen
      BY <1>0 DEF Reported, PullRequest
    <2>2. Names(cApp) \subseteq pr'.listed
      BY <1>1, <1>4, <1>5, <1>6, <1>8, <2>1
    <2>3. CASE anew
      <3>1. pr'.reason = dueReason /\ pr'.observed = cPr.gen
        BY <1>1, <1>3, <1>6, <1>8, <2>1, <2>3
      <3>. QED
        BY <1>1, <1>3, <2>2, <2>3, <3>1
    <2>4. CASE ~anew
      BY <1>1, <1>3, <2>2, <2>4
    <2>. QED
      BY <2>3, <2>4
  <1>. QED
    BY <1>7, <1>8

LEMMA ReportsMissing ==
    ASSUME Typed, Fresh, Quiet, ReportMissing
    PROVE  /\ cApp = NoApp
           /\ \/ cPr.reason = dueReason /\ cPr.observed = cPr.gen
              \/ <<pr'.reason, pr'.observed>> # <<cPr.reason, cPr.observed>>
  <1>0. pc = "missing" /\ pr \in PullRequest /\ pr.uid # 0 /\ r.app = NoApp
    BY DEF ReportMissing, Typed, TypeOK, Quiet, Fresh
  <1>1. /\ r.app = cApp /\ r.pr.reason = cPr.reason
        /\ r.pr.observed = cPr.observed /\ r.pr.gen = cPr.gen
    BY <1>0, GoesBy
  <1>2. dueReason = "ReviewAppConfigNotFound"
    BY <1>0, <1>1 DEF dueReason
  <1>3. \/ cPr.reason = dueReason /\ cPr.observed = cPr.gen
        \/ pr' = [pr EXCEPT !.reason = dueReason, !.observed = cPr.gen]
    BY <1>0, <1>1, <1>2 DEF ReportMissing
  <1>. QED
    BY <1>0, <1>1, <1>3 DEF PullRequest

LEMMA StatusWrittenStep ==
    ASSUME Typed, Uids, Fresh, DoneSoFar, KeptPr, StatusWritten, [Next]_vars
    PROVE  StatusWritten'
  <1>1. ASSUME Quiet', pc' \notin {"missing", "own"}, cApp' # NoApp
        PROVE  pr'.owned
    <2>1. CASE Goes
      <3>1. /\ Quiet /\ cApp # NoApp /\ pr'.uid = pr.uid /\ pr.uid # 0 /\ ~queued'
            /\ pr \in PullRequest
        BY <1>1, <2>1 DEF Goes, Quiet, Typed, TypeOK
      <3>2. pc # "missing"
        BY <3>1 DEF Fresh
      <3>3. CASE pc = "own"
        <4>1. CASE ReconcileStep
          <5>1. Own
            BY <1>1, <3>1, <3>3, <4>1, Ends, Moves, Labels
            DEF Looping, Afterwards, ReportMissing, DeleteInactive
          <5>2. pr' = [pr EXCEPT !.owned = TRUE]
            BY <3>1, <5>1 DEF Own, Fail
          <5>. QED
            BY <3>1, <5>2 DEF PullRequest
        <4>2. CASE ~ReconcileStep
          BY <1>1, <3>3, <4>2, ElseFails DEF Looping
        <4>. QED
          BY <4>1, <4>2
      <3>4. CASE pc # "own"
        BY <3>1, <3>2, <3>4, PrGrows DEF StatusWritten
      <3>. QED
        BY <3>3, <3>4
    <2>2. CASE /\ pc' = "list" => cPr.owned
               /\ pc' \in {"missing", "own", "list"}
               /\ UNCHANGED <<cPr, pr>> /\ cPr.uid = pr.uid
      BY <1>1, <2>2 DEF KeptPr, Quiet
    <2>. QED
      BY <1>1, <2>1, <2>2, QuietStep
  <1>2. ASSUME Quiet', pc' \in {"idle", "inactive", "leases", "delete"}
        PROVE  /\ cApp' # NoApp => Names(cApp') \subseteq pr'.listed
               /\ \/ cPr'.reason = dueReason' /\ cPr'.observed = cPr'.gen
                  \/ <<pr'.reason, pr'.observed>> # <<cPr'.reason, cPr'.observed>>
    <2>1. Goes
      BY <1>2, QuietStep
    <2>2. /\ Quiet /\ cApp' = cApp /\ cPr' = cPr /\ pr'.uid = pr.uid /\ pr.uid # 0 /\ ~queued'
      BY <2>1 DEF Goes, Quiet
    <2>3. dueReason' = dueReason
      BY <2>2 DEF dueReason, unknownOverrides
    <2>4. CASE pc \in {"idle", "inactive", "leases", "delete"}
      <3>1. ~ReportMissing /\ ~Report
        BY <2>4 DEF ReportMissing, Report
      <3>2. pr'.reason = pr.reason /\ pr'.observed = pr.observed
        BY <2>2, <3>1, ReasonStays
      <3>3. pr.listed \subseteq pr'.listed
        BY <2>2, PrGrows
      <3>. QED
        BY <2>2, <2>3, <2>4, <3>2, <3>3 DEF StatusWritten
    <2>5. CASE pc \notin {"idle", "inactive", "leases", "delete"}
      <3>1. ReconcileStep
        BY <1>2, <2>5, ElseFails
      <3>2. ReportMissing \/ (Report /\ r.err = "")
        <4>1. CASE pc' = "idle"
          BY <2>2, <2>5, <4>1, Ends, Labels DEF DeleteInactive
        <4>2. CASE pc' = "inactive"
          BY <2>5, <3>1, <4>2, WhereTo, Labels DEF Report, Fail
        <4>3. CASE pc' \in {"leases", "delete"}
          BY <2>5, <3>1, <4>3, WhereTo, Labels
        <4>. QED
          BY <1>2, <4>1, <4>2, <4>3
      <3>. QED
        BY <2>2, <2>3, <3>2, Reports, ReportsMissing
    <2>. QED
      BY <2>4, <2>5
  <1>. QED
    BY <1>1, <1>2 DEF StatusWritten

-----------------------------------------------------------------------------
(* The timer.                                                              *)

LEMMA EarliestWaits ==
    ASSUME NEW a \in Nat, NEW b \in Nat, a # 0 \/ b # 0
    PROVE  earliest(a, b) # 0
  BY DEF earliest

LEMMA ScaleDownWaits ==
    ASSUME NEW a \in Nat, NEW s \in Nat, NEW now \in Nat, runs(a, s, now), s # 0
    PROVE  scaleDownIn(a, s, now) # 0
  BY SecondAssumption DEF scaleDownIn, runs

LEMMA DoneWaits ==
    ASSUME Typed, NEW wait \in Nat, wait # 0, Done(wait)
    PROVE  timer' # 0
  <1>1. timer \in Nat /\ clock \in Nat /\ clock + wait \in Nat /\ clock + wait # 0
    BY DEF Typed, TypeOK
  <1>2. timer' = earliest(timer, clock + wait)
    BY DEF Done
  <1>. QED
    BY <1>1, <1>2, EarliestWaits

LEMMA LookAgainWaits ==
    ASSUME Typed, r.app \in Configs, ~inactive
    PROVE  lookAgain \in Nat /\ lookAgain # 0
  <1>1. /\ r.now \in Nat /\ r.activity \in Nat /\ r.wait \in Nat /\ deleteAfter \in Nat
    BY ConfigType DEF Typed, TypeOK, Reconcile, deleteAfter
  <1>2. r.now < r.activity + deleteAfter
    BY <1>1 DEF inactive
  <1>3. /\ r.activity + deleteAfter - r.now + Second \in Nat
        /\ r.activity + deleteAfter - r.now + Second # 0
    BY <1>1, <1>2, SecondAssumption
  <1>4. earliest(r.wait, r.activity + deleteAfter - r.now + Second) # 0
    BY <1>1, <1>3, EarliestWaits
  <1>. QED
    BY <1>4, LookAgainType DEF lookAgain

LEMMA EndsWaits ==
    ASSUME Typed, Fresh, [Next]_vars, Goes, pc # "idle", pc' = "idle", cApp # NoApp
    PROVE  /\ cApp.deleteAfter # 0 => timer' # 0
           /\ r.wait # 0 => timer' # 0
  <1>0. /\ Quiet /\ ~queued' /\ pr.uid # 0 /\ pr'.uid # 0 /\ r.app = cApp /\ r.wait \in Nat
        /\ pc # "missing" /\ r.app \in Configs
    BY DEF Goes, Quiet, Fresh, Typed, TypeOK, Reconcile
  <1>1. CASE Report /\ deleteAfter = 0 /\ Done(r.wait)
    BY <1>0, <1>1, DoneWaits DEF deleteAfter
  <1>2. CASE ~inactive /\ Done(lookAgain)
    BY <1>0, <1>2, LookAgainWaits, DoneWaits
  <1>3. CASE DeleteInactive
    <2>0. NoPr.uid = 0
      BY DEF NoPr
    <2>1. (~inactive /\ Done(lookAgain)) \/ Done(earliest(r.wait, Second))
      BY <1>0, <1>3, <2>0 DEF DeleteInactive
    <2>2. earliest(r.wait, Second) \in Nat /\ earliest(r.wait, Second) # 0
      BY <1>0, SecondAssumption, EarliestWaits, MaxMinType
    <2>. QED
      BY <1>2, <2>1, <2>2, DoneWaits
  <1>. QED
    BY <1>0, <1>1, <1>2, <1>3, Ends DEF ReportMissing

(* With a deployment that runs, Reconcile has to look again.               *)
LEMMA ServiceWaits ==
    ASSUME Typed, ReconcileService, pc' = "report" => r'.err = ""
    PROVE  r'.wait = earliest(r.wait, scaleDownIn(
                         lastActive(r.lease, r.pr, startOnDeploy(r.app, deploymentSpec)),
                         scaleDownAfter(r.app, deploymentSpec), r.now))
  <1> DEFINE active == lastActive(r.lease, r.pr, startOnDeploy(r.app, deploymentSpec))
             wait == earliest(r.wait, scaleDownIn(active,
                         scaleDownAfter(r.app, deploymentSpec), r.now))
             next == [r EXCEPT !.activity = Longest(@, r.lease.renewTime),
                               !.wait = wait, !.lease = NoLease, !.dep = NoWorkload]
  <1>0. r \in Reconcile
    BY DEF Typed, TypeOK
  <1>1. ASSUME NEW reason, reason # "", LoopError(reason)
        PROVE  FALSE
    BY <1>0, <1>1 DEF LoopError, Goto, Reconcile
  <1>2. NextOrReport(next)
    BY <1>1 DEF ReconcileService
  <1>3. next.wait = wait /\ [next EXCEPT !.i = next.i + 1].wait = wait
    BY <1>0 DEF Reconcile
  <1>4. r' = next \/ r' = [next EXCEPT !.i = next.i + 1]
    <2>. HIDE DEF next
    <2>. QED
      BY <1>2 DEF NextOrReport, Goto
  <1>. QED
    BY <1>3, <1>4

LEMMA TimedStep ==
    ASSUME Typed, Uids, Fresh, Together, KeptObjects, Patching, Timed, [Next]_vars
    PROVE  Timed'
  <1>1. ASSUME Quiet', pc' = "service"
        PROVE  running' \/ Halts(current)'
    <2>1. Goes /\ Quiet /\ pr'.uid = pr.uid
      BY <1>1, QuietStep DEF Goes
    <2>2. CASE ~ReconcileStep
      <3>1. UNCHANGED <<pc, r>>
        BY <1>1, <2>2, ElseFails
      <3>2. running' = running /\ current' = current
        BY <3>1 DEF running, current, deploymentSpec
      <3>3. PICK d \in Deployment : d = current
        BY <1>1, <3>1, CurrentType DEF Looping
      <3>4. running \/ Halts(d)
        BY <1>1, <2>1, <3>1, <3>3 DEF Timed
      <3>5. Halts(d) => Halts(d)'
        BY <1>1, <2>1, <3>1, HaltsStay
      <3>6. Halts(d)' => Halts(current)'
        BY <3>2, <3>3 DEF Halts, Undelivered
      <3>. QED
        BY <3>2, <3>4, <3>5, <3>6
    <2>3. CASE ReconcileStep
      <3>1. ReconcileDeployment \/ PatchDeployment
        BY <1>1, <2>3, WhereTo
      <3>2. PICK d \in Deployment : d = current
        BY <3>1, CurrentType, Labels DEF Looping
      <3>3. /\ current' = current /\ running' = running
            /\ \/ Undelivered(current)'
               \/ /\ cDep[d].owner = pr.uid /\ cDep'[d] = cDep[d]
                  /\ cDep[d].replicas > 0 <=> running
        BY <1>1, <2>1, <3>1, <3>2, ServiceReached
      <3>4. cDep[d].replicas \in Nat
        BY DEF Typed, TypeOK, Workload
      <3>5. CASE Undelivered(current)'
        BY <3>5 DEF Halts
      <3>6. CASE ~running /\ cDep[d].owner = pr.uid /\ cDep'[d] = cDep[d] /\ cDep[d].replicas = 0
        BY <2>1, <3>2, <3>3, <3>6 DEF Halts
      <3>. QED
        BY <3>3, <3>4, <3>5, <3>6
    <2>. QED
      BY <2>2, <2>3
  <1>2. pc = "idle" /\ ~queued /\ Quiet' => UNCHANGED timer
    <2>1. pc = "idle" /\ ReconcileStep => Begin
      BY Labels DEF ReconcileStep, ReportMissing, DeleteUnlisted, DeleteInactive
    <2>. QED
      BY <2>1, ElseFails DEF Begin
  <1>3. ASSUME Quiet', NEW d \in Deployment, Handled(d)', due(d)' # 0
        PROVE  Halts(d)' \/ IF pc' = "idle" THEN timer' # 0 ELSE r'.wait # 0
    <2>1. Goes
      <3>1. pc' \notin {"missing", "own", "list"}
        BY <1>3 DEF Handled, Afterwards, Looping
      <3>. QED
        BY <1>3, <3>1, QuietStep
    <2>2. Quiet /\ ~queued /\ cApp' = cApp /\ due(d) # 0
      BY <1>3, <2>1, DueStays DEF Goes, Quiet
    <2>3. pc' = "report" => r'.err = ""
      BY <1>3 DEF Handled, Looping
    <2>4. CASE Handled(d) /\ Halts(d)
      <3>1. pc # "sweep" /\ ~(pc = "patch" /\ d = current)
        BY <2>2, <2>4, Elsewhere DEF HasDep
      <3>. QED
        BY <2>1, <2>4, <3>1, HaltsStay
    <2>5. CASE Handled(d) /\ ~Halts(d) /\ pc = "idle"
      <3>1. timer # 0 /\ pc' = "idle"
        BY <2>2, <2>5, OnlyBegins DEF Timed
      <3>. QED
        BY <1>2, <1>3, <2>2, <2>5, <3>1
    <2>6. CASE Handled(d) /\ ~Halts(d) /\ pc # "idle" /\ pc' = "idle"
      <3>1. r.wait # 0
        BY <2>2, <2>6 DEF Timed
      <3>2. cApp # NoApp
        BY <1>3, <2>2, <2>6 DEF Handled, Afterwards, Looping
      <3>. QED
        BY <2>1, <2>6, <3>1, <3>2, EndsWaits
    <2>7. CASE Handled(d) /\ ~Halts(d) /\ pc # "idle" /\ pc' # "idle"
      <3>1. r.wait # 0 /\ r.wait \in Nat
        BY <2>2, <2>7 DEF Timed, Typed, TypeOK, Reconcile
      <3>2. CASE ReconcileService
        <4>1. /\ r.lease \in Lease /\ r.pr \in PullRequest /\ r.now \in Nat /\ pc \in Looping
          BY <3>2, Labels DEF Typed, TypeOK, Reconcile, Looping
        <4>2. scaleDownIn(lastActive(r.lease, r.pr, startOnDeploy(r.app, deploymentSpec)),
                          scaleDownAfter(r.app, deploymentSpec), r.now) \in Nat
          BY <4>1, CurrentType, LastActiveType, ScaleDownInType
        <4>. QED
          BY <2>3, <2>7, <3>1, <3>2, <4>2, ServiceWaits, EarliestWaits
      <3>3. CASE ReconcileStep /\ ~ReconcileService
        <4>1. r'.wait = r.wait
          BY <2>3, <2>7, <3>3, Moves
        <4>. QED
          BY <2>7, <3>1, <4>1
      <3>4. CASE ~ReconcileStep
        BY <1>3, <2>3, <2>7, <3>1, <3>4, ElseFails
      <3>. QED
        BY <3>2, <3>3, <3>4
    <2>8. CASE ReconcileService /\ d = current
      <3>0. pc = "service" /\ pc' # "idle"
        BY <2>8, Labels DEF ReconcileService, LoopError, NextOrReport, Goto
      <3>1. running \/ Halts(d)
        BY <2>2, <2>8, <3>0 DEF Timed
      <3>2. CASE Halts(d)
        BY <2>1, <3>0, <3>2, HaltsStay
      <3>3. CASE running
        <4> DEFINE active == lastActive(r.lease, r.pr, startOnDeploy(r.app, deploymentSpec))
                   after == scaleDownAfter(r.app, deploymentSpec)
        <4>1. /\ r.lease \in Lease /\ r.pr \in PullRequest /\ r.now \in Nat /\ r.wait \in Nat
              /\ pc \in Looping
          BY <3>0 DEF Typed, TypeOK, Reconcile, Looping
        <4>2. active \in Nat /\ after \in Nat
          BY <4>1, CurrentType, LastActiveType
        <4>3. after # 0 /\ runs(active, after, r.now)
          BY <2>2, <2>8, <3>3, <4>1, ForTheCache DEF running
        <4>4. scaleDownIn(active, after, r.now) \in Nat /\ scaleDownIn(active, after, r.now) # 0
          BY <4>1, <4>2, <4>3, ScaleDownInType, ScaleDownWaits
        <4>5. r'.wait = earliest(r.wait, scaleDownIn(active, after, r.now))
          BY <2>3, <2>8, ServiceWaits
        <4>. HIDE DEF active, after
        <4>. QED
          BY <3>0, <4>1, <4>4, <4>5, EarliestWaits
      <3>. QED
        BY <3>1, <3>2, <3>3
    <2>. QED
      BY <1>3, <2>1, <2>4, <2>5, <2>6, <2>7, <2>8, HandledStep
  <1>4. ASSUME Quiet', pc' = "idle", cApp' # NoApp, cApp'.deleteAfter # 0
        PROVE  timer' # 0
    <2>1. Goes /\ Quiet /\ cApp' = cApp /\ ~queued
      BY <1>4, QuietStep DEF Goes, Quiet
    <2>2. CASE pc = "idle"
      BY <1>2, <1>4, <2>1, <2>2 DEF Timed
    <2>3. CASE pc # "idle"
      BY <1>4, <2>1, <2>3, EndsWaits
    <2>. QED
      BY <2>2, <2>3
  <1>. QED
    BY <1>1, <1>3, <1>4 DEF Timed

-----------------------------------------------------------------------------
(* The durations of the ReviewAppConfigs are whole seconds, so that a Lease *)
(* is held exactly as long as its deployment is to run.                    *)
WholeSeconds ==
    \A c \in Configs : \A s \in Specs(c) :
        \E k \in Nat : scaleDownAfter(c, s) = k * Second

LEMMA NamedSpec ==
    ASSUME NEW c \in Configs, NEW d \in Names(c)
    PROVE  /\ SpecOf(c, d) \in Specs(c) /\ SpecOf(c, d).name = d
           /\ scaleDownAfter(c, SpecOf(c, d)) \in Nat
           /\ startOnDeploy(c, SpecOf(c, d)) \in BOOLEAN
  <1>1. \E s \in Specs(c) : s.name = d
    BY DEF Names, Specs
  <1>2. SpecOf(c, d) \in Specs(c) /\ SpecOf(c, d).name = d
    BY <1>1 DEF SpecOf
  <1>3. PICK i \in 1..Len(c.deployments) : SpecOf(c, d) = c.deployments[i]
    BY <1>2 DEF Specs
  <1>. QED
    BY <1>2, <1>3, DeploymentSpecType

LEMMA WholeDuration ==
    ASSUME WholeSeconds, NEW c \in Configs, NEW s \in Specs(c)
    PROVE  leaseDuration(scaleDownAfter(c, s)) = scaleDownAfter(c, s)
  <1>1. PICK k \in Nat : scaleDownAfter(c, s) = k * Second
    BY DEF WholeSeconds
  <1>2. k * Second \in Nat /\ (k * Second # 0 => k * Second >= Second)
    BY SecondAssumption
  <1>3. leaseDuration(k * Second) = k * Second
    BY <1>2, RoundWholeSeconds, SecondAssumption DEF leaseDuration, Longest
  <1>. QED
    BY <1>1, <1>3

(* A renewal that wakeUpPredicate lets pass starts nothing.                *)
LEMMA StaysIdle ==
    ASSUME NEW old \in Lease, NEW new \in Lease, NEW p \in PullRequest, NEW b \in BOOLEAN,
           NEW after \in Nat, NEW now \in Nat, old.duration = after, new.duration = after,
           ~wakeUpPredicate(old, new, now), ~runs(lastActive(old, p, b), after, now)
    PROVE  ~runs(lastActive(new, p, b), after, now)
  <1>1. old.renewTime \in Nat /\ new.renewTime \in Nat /\ deployedAt(p) \in Nat
    BY DeployedAtType DEF Lease
  <1>. QED
    BY <1>1 DEF wakeUpPredicate, leaseHeld, runs, lastActive, Longest

LEMMA IdleStays ==
    ASSUME WholeSeconds, Typed, [Next]_vars, Goes, NEW d \in Deployment,
           cApp \in Configs, d \in Names(cApp), Idle(d)
    PROVE  Idle(d)'
  <1>0. /\ pr'.uid = pr.uid /\ pr.uid \in Nat \ {0} /\ cPr' = cPr
        /\ due(d)' = due(d) /\ starts(d)' = starts(d)
        /\ clock \in Nat /\ clock' \in Nat /\ clock <= clock'
        /\ cPr \in PullRequest /\ cLease[d] \in Lease /\ lease[d] \in Lease
    BY DueStays, ClockStep, TypedStep DEF Goes, Quiet, Typed, TypeOK, PullRequest
  <1>1. due(d) \in Nat /\ starts(d) \in BOOLEAN /\ leaseDuration(due(d)) = due(d)
    BY NamedSpec, WholeDuration DEF due, starts
  <1> SUFFICES ASSUME cLease'[d].owner = pr.uid, cLease'[d].duration = due(d)
               PROVE  ~runs(lastActive(cLease'[d], cPr, starts(d)), due(d), clock')
    BY <1>0, <1>1 DEF Idle
  <1>2. CASE cLease'[d] = cLease[d]
    <2>1. ~runs(lastActive(cLease[d], cPr, starts(d)), due(d), clock)
      BY <1>1, <1>2 DEF Idle
    <2>2. lastActive(cLease[d], cPr, starts(d)) \in Nat
      BY <1>0, <1>1, LastActiveType
    <2>. QED
      BY <1>0, <1>1, <1>2, <2>1, <2>2, RunsLess
  <1>3. CASE /\ cLease'[d] = lease[d] /\ UNCHANGED <<clock, lease>>
             /\ Ours(cLease[d].owner, lease[d].owner) =>
                   /\ cLease[d].owner = lease[d].owner
                   /\ ~wakeUpPredicate(cLease[d], lease[d], clock)
    <2>1. cLease[d].owner = pr.uid /\ ~wakeUpPredicate(cLease[d], lease[d], clock)
      BY <1>0, <1>3 DEF Ours
    <2>2. lease[d].duration = due(d) /\ cLease[d].duration = due(d)
      BY <1>3, <2>1 DEF wakeUpPredicate
    <2>3. ~runs(lastActive(cLease[d], cPr, starts(d)), due(d), clock)
      BY <1>1, <2>1, <2>2 DEF Idle
    <2>. QED
      BY <1>0, <1>1, <1>3, <2>1, <2>2, <2>3, StaysIdle
  <1>. QED
    BY <1>2, <1>3, LeaseGoes

(* Reconcile finds a deployment idle by the Lease that it finds in the      *)
(* cache.                                                                  *)
LEMMA FoundIdle ==
    ASSUME Typed, Past, Fresh, [Next]_vars, Goes,
           ReconcileLease, pc' = "deployment", NEW d \in Deployment, d = current
    PROVE  running' \/ Idle(d)'
  <1>0. pc \in Looping /\ Quiet /\ pr'.uid = pr.uid
    BY DEF ReconcileLease, Looping, Goes
  <1>1. /\ r.pr.uid = pr.uid /\ pr.uid \in Nat \ {0}
        /\ due(d) = scaleDownAfter(r.app, deploymentSpec)
        /\ starts(d) = startOnDeploy(r.app, deploymentSpec)
        /\ deployedAt(r.pr) = deployedAt(cPr)
    BY <1>0, ForTheCache
  <1>2. /\ cPr' = cPr /\ cLease' = cLease /\ clock' = clock
        /\ due(d)' = due(d) /\ starts(d)' = starts(d)
    BY DueStays DEF Goes, ReconcileLease, informer
  <1>3. /\ r \in Reconcile /\ r.now \in Nat /\ clock \in Nat /\ r.now <= clock
        /\ cLease[d] \in Lease /\ cPr \in PullRequest
        /\ due(d) \in Nat /\ starts(d) \in BOOLEAN
    BY <1>0, <1>1, CurrentType DEF Typed, TypeOK, Reconcile, Past
  <1> SUFFICES ASSUME cLease[d].owner = pr.uid, cLease[d].duration = leaseDuration(due(d)),
                      ~running'
               PROVE  ~runs(lastActive(cLease[d], cPr, starts(d)), due(d), clock)
    BY <1>0, <1>2 DEF Idle
  <1>4. HaveLease(cLease[d])
    BY <1>1 DEF ReconcileLease, LoopError, Goto
  <1>5. /\ r'.lease = cLease[d] /\ r'.app = r.app /\ r'.i = r.i /\ r'.pr = r.pr
        /\ r'.now = r.now
    BY <1>3, <1>4 DEF HaveLease, Goto, Reconcile
  <1>6. running' = runs(lastActive(cLease[d], r.pr, starts(d)), due(d), r.now)
    BY <1>1, <1>5 DEF running, deploymentSpec
  <1>7. lastActive(cLease[d], r.pr, starts(d)) = lastActive(cLease[d], cPr, starts(d))
    BY <1>1 DEF lastActive
  <1>8. lastActive(cLease[d], cPr, starts(d)) \in Nat
    BY <1>3, LastActiveType
  <1>. QED
    BY <1>3, <1>6, <1>7, <1>8, RunsLess

LEMMA StartedStep ==
    ASSUME WholeSeconds, Typed, Past, Uids, Fresh, Together, KeptObjects, Patching,
           Started, [Next]_vars
    PROVE  Started'
  <1>1. ASSUME Quiet', pc' = "deployment"
        PROVE  running' \/ Idle(current)'
    <2>1. Goes
      BY <1>1, QuietStep
    <2>2. Quiet /\ pr'.uid = pr.uid
      BY <2>1 DEF Goes
    <2>3. CASE ReconcileLease
      <3>1. current' = current
        BY <1>1, <2>3, SameDeployment
      <3>2. PICK d \in Deployment : d = current
        BY <2>3, CurrentType DEF ReconcileLease, Looping
      <3>3. running' \/ Idle(d)'
        BY <1>1, <2>1, <2>3, <3>2, FoundIdle
      <3>4. Idle(d)' => Idle(current)'
        BY <3>1, <3>2 DEF Idle, due, starts
      <3>. QED
        BY <3>3, <3>4
    <2>4. CASE ~ReconcileStep
      <3>1. UNCHANGED <<pc, r>>
        BY <1>1, <2>4, ElseFails
      <3>2. running' = running /\ current' = current
        BY <3>1 DEF running, current, deploymentSpec
      <3>3. pc \in Looping
        BY <1>1, <3>1 DEF Looping
      <3>4. PICK d \in Deployment : d = current
        BY <3>3, CurrentType
      <3>5. cApp \in Configs /\ d \in Names(cApp)
        BY <2>2, <3>3, <3>4, ForTheCache
      <3>6. running \/ Idle(d)
        BY <1>1, <2>2, <3>1, <3>4 DEF Started
      <3>7. Idle(d) => Idle(d)'
        BY <2>1, <3>5, IdleStays
      <3>8. Idle(d)' => Idle(current)'
        BY <3>2, <3>4 DEF Idle, due, starts
      <3>. QED
        BY <3>2, <3>6, <3>7, <3>8
    <2>5. ReconcileStep => ReconcileLease
      BY <1>1, WhereTo
    <2>. QED
      BY <2>3, <2>4, <2>5
  <1>2. ASSUME Quiet', NEW d \in Deployment, HasDep(d)'
        PROVE  \/ Undelivered(d)'
               \/ cDep'[d].owner = pr'.uid /\ (cDep'[d].replicas > 0 \/ Idle(d)')
    <2>1. Goes
      <3>1. pc' \notin {"missing", "own", "list"}
        BY <1>2 DEF HasDep, Handled, Afterwards, Looping
      <3>. QED
        BY <1>2, <3>1, QuietStep
    <2>2. Quiet /\ pr'.uid = pr.uid
      BY <2>1 DEF Goes
    <2>3. CASE HasDep(d)
      <3>1. /\ cApp \in Configs /\ d \in Names(cApp)
            /\ pc # "sweep" /\ ~(pc = "patch" /\ d = current)
        BY <2>2, <2>3, Elsewhere
      <3>. QED
        BY <2>1, <2>2, <2>3, <3>1, UndeliveredStays, OwnDepGoes, IdleStays DEF Started
    <2>4. CASE /\ ReconcileDeployment \/ PatchDeployment
               /\ pc' = "service" /\ d = current
      <3>1. pc \in Looping /\ (pc = "patch" \/ pc = "deployment")
        BY <2>4 DEF ReconcileDeployment, PatchDeployment, Looping
      <3>2. cApp \in Configs /\ d \in Names(cApp)
        BY <2>2, <2>4, <3>1, ForTheCache
      <3>3. \/ Undelivered(current)'
            \/ /\ cDep[d].owner = pr.uid /\ cDep'[d] = cDep[d]
               /\ cDep[d].replicas > 0 <=> running
               /\ pc = "patch" => running
        BY <2>1, <2>4, ServiceReached
      <3>4. Undelivered(current)' => Undelivered(d)'
        BY <2>1, <2>4, ServiceReached DEF Undelivered
      <3>5. pc = "deployment" /\ ~running => Idle(d)
        BY <2>2, <2>4 DEF Started
      <3>6. Idle(d) => Idle(d)'
        BY <2>1, <3>2, IdleStays
      <3>. QED
        BY <2>2, <3>1, <3>3, <3>4, <3>5, <3>6
    <2>. QED
      BY <1>2, <2>1, <2>3, <2>4, HasDepStep
  <1>. QED
    BY <1>1, <1>2 DEF Started

-----------------------------------------------------------------------------
(* The controller at rest.                                                 *)

(* A review app of another PullRequest is there with all its objects, and   *)
(* at first there is none.                                                 *)
LEMMA TogetherInit ==
    ASSUME Init
    PROVE  Together
  <1> SUFFICES ASSUME NEW d \in Deployment
               PROVE  lease[d].owner # Other /\ dep[d].owner # Other /\ svc[d] # Other
    BY DEF Together
  <1>1. svc[d] = dep[d].owner
    BY DEF Init
  <1>2. NoLease.owner = 0 /\ NoWorkload.owner = 0
    BY DEF NoLease, NoWorkload
  <1>3. lease[d].owner \in {0, 1} /\ dep[d].owner \in {0, 1}
    <2>1. CASE InitUpgraded
      <3>1. PICK l \in Recorded(app) :
                /\ lease = [e \in Deployment |-> NoLease]
                /\ dep = [e \in Deployment |->
                            IF e \in Names(app)
                            THEN [NoWorkload EXCEPT !.owner = 1, !.template = app.template,
                                                    !.replicas = IF l[e].isActive THEN 1 ELSE 0]
                            ELSE NoWorkload]
        BY <2>1 DEF InitUpgraded
      <3>2. \/ dep[d] = NoWorkload
            \/ \E x, y : dep[d] = [NoWorkload EXCEPT !.owner = 1, !.template = x,
                                                     !.replicas = y]
        BY <3>1
      <3>. QED
        BY <1>2, <3>1, <3>2 DEF NoWorkload
    <2>2. CASE InitReconciled
      <3>1. PICK visited \in SUBSET Names(app) :
                LET renewTime(e) == IF e \in visited THEN Start ELSE 0
                IN /\ lease = [e \in Deployment |->
                        IF e \in Names(app)
                        THEN [owner |-> 1, renewTime |-> renewTime(e),
                              duration |-> leaseDuration(scaleDownAfter(app, SpecOf(app, e)))]
                        ELSE NoLease]
                   /\ dep = [e \in Deployment |->
                        IF e \in Names(app)
                        THEN [NoWorkload EXCEPT !.owner = 1, !.template = app.template,
                                !.replicas =
                                    IF e \in visited \/ startOnDeploy(app, SpecOf(app, e))
                                    THEN 1 ELSE 0]
                        ELSE NoWorkload]
        BY <2>2 DEF InitReconciled
      <3>2. lease[d] = NoLease \/ lease[d].owner = 1
        BY <3>1
      <3>3. \/ dep[d] = NoWorkload
            \/ \E x, y : dep[d] = [NoWorkload EXCEPT !.owner = 1, !.template = x,
                                                     !.replicas = y]
        BY <3>1
      <3>4. lease[d].owner \in {0, 1}
        BY <1>2, <3>2
      <3>5. dep[d].owner \in {0, 1}
        BY <1>2, <3>3 DEF NoWorkload
      <3>. QED
        BY <3>4, <3>5
    <2>3. CASE InitNew
      BY <1>2, <2>3 DEF InitNew
    <2>. QED
      BY <2>1, <2>2, <2>3 DEF Init
  <1>. QED
    BY <1>1, <1>3

(* What a step keeps: whatever Reconcile has not acted on is known to the   *)
(* cache and queued, or still to be delivered.                             *)
Trails ==
    /\ Typed /\ Past /\ Spared /\ Uids /\ Kept
    /\ Together /\ KeptObjects /\ KeptPr /\ Fresh /\ DoneSoFar

Working ==
    /\ Leased /\ Patching /\ Synced /\ Serviced /\ Swept /\ StatusWritten /\ Timed

LEMMA WorkingInit == Init => Trails /\ Working /\ Started
  <1> SUFFICES ASSUME Init
               PROVE  Trails /\ Working /\ Started
    OBVIOUS
  <1>1. Typed /\ Past /\ Spared /\ Uids /\ Kept /\ Together
    BY TypedInit, KeepsInit, TogetherInit
  <1>2. KeptObjects
    <2>1. SUFFICES ASSUME NEW d \in Deployment
                   PROVE  dep[d].scaled <= dep[d].scaled
      BY DEF Init, KeptObjects, OfPr
    <2>2. dep[d].scaled \in Nat
      BY <1>1 DEF Typed, TypeOK, Workload
    <2>. QED
      BY <2>2
  <1>3. KeptPr /\ Fresh
    BY DEF Init, KeptPr, Fresh, Quiet
  <1>4. DoneSoFar
    BY DEF Init, DoneSoFar, Looping
  <1>5. ~Quiet
    BY DEF Init, Quiet
  <1>. QED
    BY <1>1, <1>2, <1>3, <1>4, <1>5 DEF Trails, Working, Leased, Patching, Synced,
       Serviced, Swept, StatusWritten, Timed, Started

LEMMA WorkingStep == Trails /\ Working /\ [Next]_vars => Trails' /\ Working'
  <1> SUFFICES ASSUME Trails, Working, [Next]_vars
               PROVE  Trails' /\ Working'
    OBVIOUS
  <1>1. Typed' /\ Past' /\ Spared' /\ Uids' /\ Kept'
    BY TypedStep, PastStep, SparedStep, UidsStep, KeptStep DEF Trails
  <1>2. Together' /\ KeptObjects' /\ KeptPr' /\ Fresh' /\ DoneSoFar'
    BY TogetherStep, KeptObjectsStep, KeptPrStep, FreshStep, DoneSoFarStep DEF Trails
  <1>3. Leased' /\ Patching' /\ Synced' /\ Serviced'
    BY LeasedStep, PatchingStep, SyncedStep, ServicedStep DEF Trails, Working
  <1>4. Swept' /\ StatusWritten' /\ Timed'
    BY SweptStep, StatusWrittenStep, TimedStep DEF Trails, Working
  <1>. QED
    BY <1>1, <1>2, <1>3, <1>4 DEF Trails, Working

LEMMA WorkingAlways == Spec => [](Trails /\ Working)
  BY WorkingInit, WorkingStep, PTL DEF Spec

(* At rest, everything of the ReviewAppConfig has been handled and          *)
(* delivered.                                                              *)
LEMMA RestHandled ==
    ASSUME Typed, AtRest, app # NoApp
    PROVE  /\ Quiet /\ cApp \in Configs
           /\ \A d \in Deployment : Handled(d) <=> d \in Names(app)
           /\ \A d \in Deployment : ~Undelivered(d) /\ HasLease(d) = Handled(d)
                                    /\ HasDep(d) = Handled(d)
  BY DEF AtRest, Quiet, Handled, HasLease, HasDep, Undelivered, Typed, TypeOK,
     Afterwards, Looping

LEMMA RestSpec ==
    ASSUME Typed, AtRest, app # NoApp, NEW s \in Specs(app)
    PROVE  /\ s.name \in Deployment /\ s.name \in Names(app)
           /\ due(s.name) = scaleDownAfter(app, s)
           /\ starts(s.name) = startOnDeploy(app, s)
  <1>1. app \in Configs /\ cApp = app
    BY DEF AtRest, Typed, TypeOK
  <1>2. PICK i \in 1..Len(app.deployments) : s = app.deployments[i]
    BY DEF Specs
  <1>3. s.name \in Names(app) /\ s.name \in Deployment
    BY <1>1, <1>2, DeploymentSpecType DEF Names
  <1>4. SpecOf(app, s.name) \in Specs(app) /\ SpecOf(app, s.name).name = s.name
    BY <1>1, <1>3, NamedSpec
  <1>5. PICK j \in 1..Len(app.deployments) : SpecOf(app, s.name) = app.deployments[j]
    BY <1>4 DEF Specs
  <1>6. SpecOf(app, s.name) = s
    BY <1>1, <1>2, <1>4, <1>5, NamesAssumption
  <1>. QED
    BY <1>1, <1>3, <1>6 DEF due, starts

LEMMA RestLooks ==
    ASSUME Trails, Working, AtRest, app # NoApp
    PROVE  /\ app.deleteAfter # 0 => timer # 0
           /\ \A s \in Specs(app) :
                scaleDownAfter(app, s) # 0 /\ dep[s.name].replicas > 0 => timer # 0
  <1>1. Typed /\ Timed /\ pc = "idle" /\ cApp = app /\ cDep = dep
    BY DEF Trails, Working, AtRest
  <1>2. Quiet /\ \A d \in Names(app) : d \in Deployment => Handled(d) /\ ~Undelivered(d)
    BY <1>1, RestHandled
  <1>3. app.deleteAfter # 0 => timer # 0
    BY <1>1, <1>2 DEF Timed
  <1>4. ASSUME NEW s \in Specs(app), scaleDownAfter(app, s) # 0, dep[s.name].replicas > 0
        PROVE  timer # 0
    <2>1. /\ s.name \in Deployment /\ s.name \in Names(app)
          /\ due(s.name) # 0
      BY <1>1, <1>4, RestSpec
    <2>2. Handled(s.name) /\ ~Halts(s.name)
      BY <1>1, <1>2, <1>4, <2>1 DEF Halts
    <2>. QED
      BY <1>1, <1>2, <2>1, <2>2 DEF Timed
  <1>. QED
    BY <1>3, <1>4

(* Whatever happened before, when the controller has come to rest its      *)
(* timer is set for a deployment that is to scale down and for a review     *)
(* app that is to be deleted (the RequeueAfter of Reconcile): no crash,     *)
(* failed call or change by hand makes it forget to look again.            *)
THEOREM AlwaysLooksAgain == Spec => []LooksAgain
  <1>1. Trails /\ Working => LooksAgain
    BY RestLooks DEF LooksAgain
  <1>. QED
    BY <1>1, WorkingAlways, PTL

LEMMA RestObjects ==
    ASSUME Trails, Working, AtRest, app # NoApp, NEW s \in Specs(app)
    PROVE  /\ lease[s.name].owner = pr.uid
           /\ lease[s.name].duration = leaseDuration(scaleDownAfter(app, s))
           /\ dep[s.name].owner = pr.uid /\ svc[s.name] = pr.uid
           /\ pr.image # NoImage => dep[s.name].image = pr.image
           /\ dep[s.name].env = pr.env[s.name]
  <1>1. /\ Typed /\ Leased /\ Synced /\ Serviced
        /\ cPr = pr /\ cLease = lease /\ cDep = dep
    BY DEF Trails, Working, AtRest
  <1> DEFINE d == s.name
  <1>2. d \in Deployment /\ d \in Names(app) /\ due(d) = scaleDownAfter(app, s)
    BY <1>1, RestSpec
  <1>3. Quiet /\ Handled(d) /\ HasLease(d) /\ HasDep(d) /\ ~Undelivered(d)
    BY <1>1, <1>2, RestHandled
  <1>4. lease[d].owner = pr.uid /\ lease[d].duration = leaseDuration(due(d))
    BY <1>1, <1>2, <1>3 DEF Leased
  <1>5. dep[d].owner = pr.uid /\ ~synced(dep[d], pr, d)
    BY <1>1, <1>2, <1>3 DEF Synced
  <1>6. svc[d] = pr.uid
    BY <1>1, <1>2, <1>3 DEF Serviced
  <1>. QED
    BY <1>2, <1>4, <1>5, <1>6 DEF synced, imageFor

LEMMA RestConverged ==
    ASSUME Trails, Working, AtRest
    PROVE  Converged
  <1>1. /\ Typed /\ KeptPr /\ Swept /\ StatusWritten /\ pc = "idle" /\ Quiet
        /\ cPr = pr /\ cApp = app /\ cDep = dep
    BY DEF Trails, Working, AtRest, Quiet
  <1>2. pr.reason = dueReason /\ pr.observed = pr.gen
    BY <1>1 DEF StatusWritten
  <1>3. CASE app = NoApp
    BY <1>1, <1>2, <1>3 DEF Converged, dueReason
  <1>4. CASE app # NoApp
    <2>1. pr.reason = IF unknownOverrides(app, pr) THEN "UnknownDeployment" ELSE "Reconciled"
      BY <1>1, <1>2, <1>4 DEF dueReason
    <2>2. pr.owned /\ Names(app) \subseteq pr.listed
      BY <1>1, <1>4 DEF StatusWritten
    <2>3. \A d \in Deployment \ Names(app) : dep[d].owner \in {Nobody, Other}
      BY <1>1, <1>4 DEF Swept
    <2>4. \A s \in Specs(app) :
            /\ lease[s.name].owner = pr.uid
            /\ lease[s.name].duration = leaseDuration(scaleDownAfter(app, s))
            /\ dep[s.name].owner = pr.uid /\ svc[s.name] = pr.uid
            /\ pr.image # NoImage => dep[s.name].image = pr.image
            /\ dep[s.name].env = pr.env[s.name]
      BY <1>4, RestObjects
    <2>. QED
      BY <1>2, <1>4, <2>1, <2>2, <2>3, <2>4 DEF Converged
  <1>. QED
    BY <1>3, <1>4

(* Whatever happened before, when the controller has come to rest the      *)
(* Leases, Deployments and Services are those of the PullRequest and of the *)
(* ReviewAppConfig, what the ReviewAppConfig doesn't have is deleted, and   *)
(* the status says so for the current generation: neither a stale cache, a  *)
(* crash, a failed call, a change by hand nor a colliding review app makes  *)
(* Reconcile leave something undone that nothing brings it back to.        *)
THEOREM AlwaysConverged == Spec => []Converged
  <1>1. Trails /\ Working => Converged
    BY RestConverged DEF Converged
  <1>. QED
    BY <1>1, WorkingAlways, PTL

LEMMA RestRuns ==
    ASSUME Trails, Working, Started, AtRest, app # NoApp, NEW s \in Specs(app),
           runs(lastActive(lease[s.name], pr, startOnDeploy(app, s)),
                scaleDownAfter(app, s), clock)
    PROVE  dep[s.name].replicas > 0
  <1>1. /\ Typed /\ Leased /\ cPr = pr /\ cLease = lease /\ cDep = dep
    BY DEF Trails, Working, AtRest
  <1> DEFINE d == s.name
  <1>2. /\ d \in Deployment /\ d \in Names(app) /\ due(d) = scaleDownAfter(app, s)
        /\ starts(d) = startOnDeploy(app, s)
    BY <1>1, RestSpec
  <1>3. Quiet /\ HasLease(d) /\ HasDep(d) /\ ~Undelivered(d)
    BY <1>1, <1>2, RestHandled
  <1>4. lease[d].owner = pr.uid /\ lease[d].duration = leaseDuration(due(d))
    BY <1>1, <1>2, <1>3 DEF Leased
  <1>5. ~Idle(d)
    BY <1>1, <1>2, <1>4 DEF Idle
  <1>6. cDep[d].replicas > 0
    BY <1>2, <1>3, <1>5 DEF Started
  <1>. QED
    BY <1>1, <1>6

(* When every scaleDownAfter is a whole number of seconds, a deployment     *)
(* that is in use runs when the controller has come to rest: neither a      *)
(* visit nor a deploy is lost, however the renewals of the forwarders,      *)
(* which wakeUpPredicate may hold back, interleave with Reconcile.         *)
THEOREM AlwaysActiveRuns ==
    ASSUME WholeSeconds
    PROVE  Spec => []ActiveRuns
  <1>1. Init => Trails /\ Working /\ Started
    BY WorkingInit
  <1>2. Trails /\ Working /\ Started /\ [Next]_vars => (Trails /\ Working /\ Started)'
    BY WorkingStep, StartedStep DEF Trails, Working
  <1>3. Trails /\ Working /\ Started => ActiveRuns
    BY RestRuns DEF ActiveRuns
  <1>. QED
    BY <1>1, <1>2, <1>3, PTL DEF Spec
=============================================================================
