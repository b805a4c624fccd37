------------------------------- MODULE Activity -------------------------------
(***************************************************************************)
(* The arithmetic of internal/controller/activity.go and of the renewal    *)
(* interval in internal/forwarder/forwarder.go: when a deployment of a     *)
(* review app is active, how long its Lease is held, and which Lease       *)
(* changes wake the controller up.                                         *)
(*                                                                         *)
(* Times and durations are natural numbers of ticks, Second of which make  *)
(* a second.  0 is Go's zero time.Time, a duration that is not set, and a  *)
(* field of a Lease that is nil.                                           *)
(***************************************************************************)
EXTENDS Integers

CONSTANT Second          \* how many ticks make a second

ASSUME SecondAssumption == Second \in Nat \ {0}

Longest(a, b) == IF a >= b THEN a ELSE b
Shortest(a, b) == IF a <= b THEN a ELSE b

(* metav1.Time is written with whole seconds, metav1.MicroTime is not.     *)
Truncate(t) == t - (t % Second)

(* Mutant: not waiting is the shortest wait.                               *)
soonest(a, b) == Shortest(a, b)

(* The shortest of two waits, where 0 is not waiting for anything.         *)
earliest(a, b) == IF a = 0 \/ (b # 0 /\ b < a) THEN b ELSE a

-----------------------------------------------------------------------------
(* When a deployment runs.                                                 *)

(* The PullRequest was deployed, or created when no deploy was recorded.   *)
deployedAt(p) == Longest(p.deployedAt, p.createdAt)

(* The last visit, or the deploy for a deployment that starts on deploy.   *)
lastActive(l, p, startOnDeploy) ==
    IF startOnDeploy THEN Longest(l.renewTime, deployedAt(p)) ELSE l.renewTime

runs(active, scaleDownAfter, now) ==
    /\ active # 0
    /\ scaleDownAfter = 0 \/ now < active + scaleDownAfter

(* Mutant: also for a deployment that does not run.                        *)
scaleDownInAlways(active, scaleDownAfter, now) ==
    IF scaleDownAfter # 0 THEN active + scaleDownAfter - now + Second ELSE 0

(* How long until the controller looks again: a second after the           *)
(* deployment is to scale down, or 0 when it never does.                   *)
scaleDownIn(active, scaleDownAfter, now) ==
    IF runs(active, scaleDownAfter, now) /\ scaleDownAfter # 0
    THEN active + scaleDownAfter - now + Second
    ELSE 0

-----------------------------------------------------------------------------
(* The Lease of a deployment.                                              *)

(* time.Duration.Round(time.Second) rounds halves up.                      *)
RoundToSecond(t) == ((2 * t + Second) \div (2 * Second)) * Second

leaseDuration(scaleDownAfter) ==
    IF scaleDownAfter = 0 THEN 0
    ELSE Longest(RoundToSecond(scaleDownAfter), Second)

leaseHeld(l, now) ==
    /\ l.renewTime # 0
    /\ l.duration = 0 \/ now < l.renewTime + l.duration

(* Mutant: no renewal reconciles.                                          *)
wakeUpOnDuration(old, new, now) == old.duration # new.duration

(* Updates of a Lease that reconcile its PullRequest.                      *)
wakeUpPredicate(old, new, now) ==
    \/ ~leaseHeld(old, now) /\ leaseHeld(new, now)
    \/ old.duration # new.duration

(* Mutant: what earlier versions recorded is dropped.                      *)
noRenewTime(legacy, scaleDownAfter, now) == 0

(* The renew time of a new Lease: the activity that earlier versions of    *)
(* the controller recorded on the PullRequest.                             *)
migratedRenewTime(legacy, scaleDownAfter, now) ==
    IF legacy.lastActive = 0 \/ (~legacy.isActive /\ scaleDownAfter = 0) THEN 0
    ELSE IF legacy.isActive THEN legacy.lastActive
    ELSE Shortest(legacy.lastActive, Longest(now - scaleDownAfter, 0))
=============================================================================
