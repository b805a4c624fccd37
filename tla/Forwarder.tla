------------------------------ MODULE Forwarder ------------------------------
(***************************************************************************)
(* How the forwarders record visits (internal/forwarder/forwarder.go):     *)
(* each process finds the deployment of a request in its cache, lets one   *)
(* request per interval renew the Lease of the deployment, and renews it   *)
(* in the background, while the API server, the network, other forwarders  *)
(* and the closing and reopening of pull requests interfere.               *)
(*                                                                         *)
(* What comes after, waiting for the review app and forwarding to it, does *)
(* not touch this state.                                                   *)
(***************************************************************************)
EXTENDS Activity

CONSTANTS
    Process,            \* the forwarders
    Deployment,         \* the deployments of review apps, by namespace and name
    Request,            \* requests, each of which is made once
    ScaleDownAfter,     \* the values that scaleDownAfter may have
    minRenewInterval,
    maxRenewInterval,
    renewTimeout,       \* how long a renewal may take
    Start,              \* the time at which the model starts
    Horizon,            \* bound: the time at which it ends
    Budgets             \* bounds: how often each event may happen, in each scenario

Event == {"visit", "close", "edit", "restart"}

ASSUME ForwarderAssumption ==
    /\ ScaleDownAfter \subseteq Nat
    /\ minRenewInterval \in Nat \ {0}
    /\ maxRenewInterval \in Nat /\ minRenewInterval <= maxRenewInterval
    /\ renewTimeout \in Nat
    /\ Start \in Nat \ {0} /\ Horizon \in Nat
    /\ Budgets \subseteq [Event -> Nat]

VARIABLES
    clock,      \* the time, the same everywhere
    lease,      \* the Leases at the API server
    after,      \* the scaleDownAfter of each deployment
    routed,     \* the deployments that the cache of a process has hostnames of
    throttle,   \* the renewThrottle of a process
    request,    \* what ServeHTTP does for a request
    renewal,    \* what the goroutine that it started does
    reopened,   \* closed since the process claimed its Lease
    left        \* how often each event may still happen

vars == <<clock, lease, after, routed, throttle, request, renewal, reopened, left>>

NoLease == [exists |-> FALSE, renewTime |-> 0]
newRenewThrottle == [renewed |-> [d \in Deployment |-> 0], lastPrune |-> 0]
NotMade == [phase |-> "new", process |-> "", deployment |-> "", now |-> 0]
NoRenewal == [phase |-> "none", at |-> 0]

(* No time that is recorded anywhere lies in the future: the throttle has   *)
(* when Leases were claimed, and not when they may be claimed again.        *)
TypeOK ==
    /\ clock \in Nat \ {0}
    /\ lease \in [Deployment -> [exists: BOOLEAN, renewTime: 0..clock]]
    /\ after \in [Deployment -> ScaleDownAfter]
    /\ routed \in [Process -> SUBSET Deployment]
    /\ throttle \in [Process -> [renewed: [Deployment -> 0..clock], lastPrune: 0..clock]]
    /\ request \in [Request ->
          [phase: {"claim", "forwarded", "rejected"}, process: Process,
           deployment: Deployment, now: (0..clock) \ {0}] \cup {NotMade}]
    /\ renewal \in [Request ->
          [phase: {"none", "begun", "sent", "orphan", "applied", "done", "failed"},
           at: 0..clock]]
    /\ reopened \in [Process -> SUBSET Deployment]
    /\ left \in [Event -> Nat]

(* All Leases exist and nobody has visited yet.                             *)
Init ==
    /\ clock = Start
    /\ lease = [d \in Deployment |-> [exists |-> TRUE, renewTime |-> 0]]
    /\ after \in [Deployment -> ScaleDownAfter]
    /\ routed = [p \in Process |-> Deployment]
    /\ throttle = [p \in Process |-> newRenewThrottle]
    /\ request = [q \in Request |-> NotMade]
    /\ renewal = [q \in Request |-> NoRenewal]
    /\ reopened = [p \in Process |-> {}]
    /\ left \in Budgets

-----------------------------------------------------------------------------
(* The throttle.                                                            *)

renewInterval(scaleDownAfter) ==
    IF scaleDownAfter = 0 THEN maxRenewInterval
    ELSE Shortest(Longest(scaleDownAfter \div 10, minRenewInterval), maxRenewInterval)

(* Forgets the deployments that are no longer visited.                      *)
pruned(t, now) ==
    IF t.lastPrune = 0 \/ now - t.lastPrune >= maxRenewInterval
    THEN [renewed |-> [d \in Deployment |->
                          IF now - t.renewed[d] >= maxRenewInterval THEN 0 ELSE t.renewed[d]],
          lastPrune |-> now]
    ELSE t

claims(t, d, now, interval) ==
    LET renewed == pruned(t, now).renewed[d]
    IN renewed = 0 \/ now - renewed >= interval

(* Mutant: the throttle has when the Lease may be claimed again.            *)
claimUntil(t, d, now, interval) ==
    IF claims(t, d, now, 0)
    THEN [pruned(t, now) EXCEPT !.renewed[d] = now + interval]
    ELSE pruned(t, now)

claim(t, d, now, interval) ==
    IF claims(t, d, now, interval)
    THEN [pruned(t, now) EXCEPT !.renewed[d] = now]
    ELSE pruned(t, now)

(* Mutant: a renewal that failed is not forgotten.                          *)
keep(t, d) == t

release(t, d) == [t EXCEPT !.renewed[d] = 0]

-----------------------------------------------------------------------------
Spend(event) ==
    /\ left[event] > 0
    /\ left' = [left EXCEPT ![event] = @ - 1]

(* ServeHTTP finds the deployment of the host and looks at the clock, and   *)
(* then waits for the mutex of the throttle.                                *)

Arrive(q, p, d) ==
    /\ request[q] = NotMade
    /\ Spend("visit")
    /\ request' = [request EXCEPT ![q] =
          [phase |-> IF d \in routed[p] THEN "claim" ELSE "rejected",
           process |-> p, deployment |-> d, now |-> clock]]
    /\ UNCHANGED <<clock, lease, after, routed, throttle, renewal, reopened>>

Claim(q) ==
    LET p == request[q].process
        d == request[q].deployment
        now == request[q].now
        interval == renewInterval(after[d])
    IN /\ request[q].phase = "claim"
       /\ request' = [request EXCEPT ![q].phase = "forwarded"]
       /\ throttle' = [throttle EXCEPT ![p] = claim(throttle[p], d, now, interval)]
       /\ IF claims(throttle[p], d, now, interval)
          THEN /\ renewal' = [renewal EXCEPT ![q].phase = "begun"]
               /\ reopened' = [reopened EXCEPT ![p] = @ \ {d}]
          ELSE UNCHANGED <<renewal, reopened>>
       /\ UNCHANGED <<clock, lease, after, routed, left>>

(* The goroutine: renewLease patches the Lease with the time at which it    *)
(* runs, which arrives before its context times out or never.               *)

Send(q) ==
    /\ renewal[q].phase = "begun"
    /\ renewal' = [renewal EXCEPT ![q] = [phase |-> "sent", at |-> clock]]
    /\ UNCHANGED <<clock, lease, after, routed, throttle, request, reopened, left>>

Apply(q) ==
    LET d == request[q].deployment
    IN /\ renewal[q].phase \in {"sent", "orphan"}
       /\ lease[d].exists
       /\ clock <= renewal[q].at + renewTimeout
       /\ lease' = [lease EXCEPT ![d].renewTime = renewal[q].at]
       /\ renewal' = [renewal EXCEPT ![q].phase = IF @ = "sent" THEN "applied" ELSE "done"]
       /\ UNCHANGED <<clock, after, routed, throttle, request, reopened, left>>

Answer(q) ==
    /\ renewal[q].phase = "applied"
    /\ renewal' = [renewal EXCEPT ![q].phase = "done"]
    /\ UNCHANGED <<clock, lease, after, routed, throttle, request, reopened, left>>

(* The Lease is gone, the call fails, its answer is lost, or it times out.  *)
FailRenewal(q) ==
    LET p == request[q].process
    IN /\ renewal[q].phase \in {"sent", "applied"}
       /\ renewal' = [renewal EXCEPT ![q].phase = "failed"]
       /\ throttle' = [throttle EXCEPT ![p] = release(@, request[q].deployment)]
       /\ UNCHANGED <<clock, lease, after, routed, request, reopened, left>>

-----------------------------------------------------------------------------
(* What happens around them.                                                *)

Tick ==
    /\ clock < Horizon
    /\ clock' = clock + 1
    /\ UNCHANGED <<lease, after, routed, throttle, request, renewal, reopened, left>>

(* The pull request is closed, and its Lease collected.                     *)
Close(d) ==
    /\ lease[d].exists
    /\ Spend("close")
    /\ lease' = [lease EXCEPT ![d] = NoLease]
    /\ reopened' = [p \in Process |-> reopened[p] \cup {d}]
    /\ UNCHANGED <<clock, after, routed, throttle, request, renewal>>

(* It is opened again, and the controller creates the Lease of a deployment *)
(* that nobody has visited.                                                 *)
Reopen(d) ==
    /\ ~lease[d].exists
    /\ lease' = [lease EXCEPT ![d].exists = TRUE]
    /\ UNCHANGED <<clock, after, routed, throttle, request, renewal, reopened, left>>

(* The cache of a process catches up.                                       *)
Route(p) ==
    /\ routed[p] # {d \in Deployment : lease[d].exists}
    /\ routed' = [routed EXCEPT ![p] = {d \in Deployment : lease[d].exists}]
    /\ UNCHANGED <<clock, lease, after, throttle, request, renewal, reopened, left>>

Edit(d, s) ==
    /\ after[d] # s
    /\ Spend("edit")
    /\ after' = [after EXCEPT ![d] = s]
    /\ UNCHANGED <<clock, lease, routed, throttle, request, renewal, reopened>>

(* A process restarts: its requests are cut off, its throttle is empty, and *)
(* the renewals that it has sent may arrive or not.                         *)
Restart(p) ==
    /\ Spend("restart")
    /\ throttle' = [throttle EXCEPT ![p] = newRenewThrottle]
    /\ request' = [q \in Request |->
          IF request[q].process = p /\ request[q].phase = "claim"
          THEN [request[q] EXCEPT !.phase = "rejected"] ELSE request[q]]
    /\ renewal' = [q \in Request |->
          IF request[q].process # p THEN renewal[q]
          ELSE IF renewal[q].phase = "sent" THEN [renewal[q] EXCEPT !.phase = "orphan"]
          ELSE IF renewal[q].phase \in {"begun", "applied"}
               THEN [renewal[q] EXCEPT !.phase = "failed"]
          ELSE renewal[q]]
    /\ UNCHANGED <<clock, lease, after, routed, reopened>>

Next ==
    \/ \E q \in Request :
          \/ \E p \in Process, d \in Deployment : Arrive(q, p, d)
          \/ Claim(q) \/ Send(q) \/ Apply(q) \/ Answer(q) \/ FailRenewal(q)
    \/ \E d \in Deployment :
          Close(d) \/ Reopen(d) \/ \E s \in ScaleDownAfter : Edit(d, s)
    \/ \E p \in Process : Route(p) \/ Restart(p)
    \/ Tick

Spec == Init /\ [][Next]_vars

-----------------------------------------------------------------------------
(* A visit that the throttle lets pass without a renewal.                   *)
Throttled(q) ==
    /\ request[q].phase = "claim" /\ request'[q].phase = "forwarded"
    /\ renewal'[q].phase = "none"

Claimed(q) == renewal[q].phase = "none" /\ renewal'[q].phase = "begun"

(* A renewal of the deployment of the request by its process is under way.  *)
UnderWay(p, d) ==
    \E q \in Request :
        /\ request[q].process = p /\ request[q].deployment = d
        /\ renewal[q].phase \in {"begun", "sent"}

(* scaleDownAfter is long enough for renewals that take their time.         *)
LongEnough(s) == s = 0 \/ s >= renewInterval(s) + renewTimeout

(* At the API server, the deployment runs at the time of the request.       *)
KeptRunning(q) ==
    LET d == request[q].deployment
    IN lease[d].exists /\ runs(lease[d].renewTime, after[d], request[q].now)

(* The Lease is held, or its renewal under way, unless the deployment was   *)
(* closed since the process claimed it.                                     *)
Held(q) ==
    LET p == request[q].process
        d == request[q].deployment
    IN LongEnough(after[d]) /\ d \notin reopened[p] => UnderWay(p, d) \/ KeptRunning(q)

(* "So that a deployment that is in use doesn't scale down": a visit that   *)
(* renews nothing (renewThrottle) finds the Lease held or being renewed,    *)
(* although renewals fail, time out, arrive out of order and come from      *)
(* several forwarders that restart.                                         *)
ThrottledIsHeld == [][\A q \in Request : Throttled(q) => Held(q)]_vars

(* A visit renews the Lease of the deployment, "which starts it when it is  *)
(* scaled down, and keeps it running": also when it was opened again.       *)
VisitWakes ==
    [][\A q \in Request : Throttled(q) =>
          LET d == request[q].deployment
          IN LongEnough(after[d]) /\ lease[d].exists
             => UnderWay(request[q].process, d) \/ KeptRunning(q)]_vars

(* "Once per interval": a Lease is not claimed again while the last claim of *)
(* it by the same process is younger than that, and its renewal has not     *)
(* failed.                                                                  *)
OncePerInterval ==
    [][\A q, last \in Request :
          LET p == request[q].process
              d == request[q].deployment
              Claimers == {e \in Request : /\ request[e].process = p
                                           /\ request[e].deployment = d
                                           /\ renewal[e].phase # "none"}
          IN /\ Claimed(q)
             /\ last \in Claimers /\ renewal[last].phase # "failed"
             /\ \A e \in Claimers : request[e].now <= request[last].now
             /\ request[last].now <= request[q].now
             => request[q].now - request[last].now >= renewInterval(after[d])]_vars
=============================================================================
