--------------------------- MODULE ForwarderProofs ---------------------------
(***************************************************************************)
(* A deployment in use doesn't scale down: ThrottledIsHeld, for any number *)
(* of forwarders, deployments and requests, and for all intervals.         *)
(***************************************************************************)
EXTENDS Forwarder, TLAPS

(* Only the goroutine of a request that was let through renews, and a       *)
(* renewal that may still arrive carries the time at which it was sent.     *)
Renewing ==
    \A q \in Request :
        /\ renewal[q].phase # "none" => request[q].phase = "forwarded"
        /\ renewal[q].phase \in {"sent", "orphan"} => renewal[q].at # 0

(* At the API server, a visit is recorded that is at most a renewTimeout    *)
(* older than the claim of the process.                                     *)
Recorded(p, d) ==
    /\ lease[d].exists
    /\ lease[d].renewTime # 0
    /\ throttle[p].renewed[d] <= lease[d].renewTime + renewTimeout

(* What makes the throttle safe: a claim that a process remembers is being  *)
(* carried out, or a renewal as young as it has arrived.                    *)
LeaseFollows ==
    \A p \in Process, d \in Deployment :
        throttle[p].renewed[d] # 0 /\ d \notin reopened[p]
        => UnderWay(p, d) \/ Recorded(p, d)

IInv == TypeOK /\ Renewing /\ LeaseFollows

-----------------------------------------------------------------------------
(* The throttle.                                                            *)

ThrottleAt(now) == [renewed: [Deployment -> 0..now], lastPrune: 0..now]

LEMMA ThrottleGrows ==
    ASSUME NEW c \in Nat, NEW t \in ThrottleAt(c)
    PROVE  t \in ThrottleAt(c + 1)
  BY DEF ThrottleAt

LEMMA EmptyThrottle ==
    ASSUME NEW c \in Nat
    PROVE  newRenewThrottle \in ThrottleAt(c)
  BY DEF ThrottleAt, newRenewThrottle

(* Pruning forgets claims, and changes none.                                *)
LEMMA PrunedForgets ==
    ASSUME NEW c \in Nat, NEW t \in ThrottleAt(c), NEW now \in 0..c
    PROVE  /\ pruned(t, now) \in ThrottleAt(c)
           /\ \A e \in Deployment : pruned(t, now).renewed[e] \in {0, t.renewed[e]}
  BY ForwarderAssumption DEF ThrottleAt, pruned

(* A claim that succeeds is remembered, and the others are not touched.     *)
LEMMA ClaimRemembers ==
    ASSUME NEW c \in Nat, NEW t \in ThrottleAt(c), NEW d \in Deployment,
           NEW now \in 0..c, NEW interval
    PROVE  /\ claim(t, d, now, interval) \in ThrottleAt(c)
           /\ \A e \in Deployment :
                 ~(e = d /\ claims(t, d, now, interval))
                 => claim(t, d, now, interval).renewed[e] \in {0, t.renewed[e]}
  <1>1. pruned(t, now) \in ThrottleAt(c)
    BY PrunedForgets
  <1>2. \A e \in Deployment : pruned(t, now).renewed[e] \in {0, t.renewed[e]}
    BY PrunedForgets
  <1>. DEFINE u == [pruned(t, now) EXCEPT !.renewed[d] = now]
  <1>3. /\ u \in ThrottleAt(c)
        /\ \A e \in Deployment : e # d => u.renewed[e] = pruned(t, now).renewed[e]
    BY <1>1 DEF ThrottleAt
  <1>. QED
    BY <1>1, <1>2, <1>3 DEF claim

LEMMA ReleaseForgets ==
    ASSUME NEW c \in Nat, NEW t \in ThrottleAt(c), NEW d \in Deployment
    PROVE  /\ release(t, d) \in ThrottleAt(c)
           /\ release(t, d).renewed[d] = 0
           /\ \A e \in Deployment \ {d} : release(t, d).renewed[e] = t.renewed[e]
  BY DEF ThrottleAt, release

LeaseAt(now) == [exists: BOOLEAN, renewTime: 0..now]

RequestAt(now) ==
    [phase: {"claim", "forwarded", "rejected"}, process: Process,
     deployment: Deployment, now: (0..now) \ {0}] \cup {NotMade}

RenewalAt(now) ==
    [phase: {"none", "begun", "sent", "orphan", "applied", "done", "failed"}, at: 0..now]

(* TypeOK with its records named, so that each is expanded where it matters. *)
Typed ==
    /\ clock \in Nat \ {0}
    /\ lease \in [Deployment -> LeaseAt(clock)]
    /\ after \in [Deployment -> ScaleDownAfter]
    /\ routed \in [Process -> SUBSET Deployment]
    /\ throttle \in [Process -> ThrottleAt(clock)]
    /\ request \in [Request -> RequestAt(clock)]
    /\ renewal \in [Request -> RenewalAt(clock)]
    /\ reopened \in [Process -> SUBSET Deployment]
    /\ left \in [Event -> Nat]

LEMMA TypeIsTyped == (TypeOK <=> Typed) /\ (TypeOK' <=> Typed')
  BY Zenon DEF TypeOK, Typed, LeaseAt, ThrottleAt, RequestAt, RenewalAt

LEMMA NotMadeIsNew == NotMade.phase = "new"
  BY DEF NotMade

(* The requests whose goroutine renews.                                     *)
LEMMA RenewingIsMade ==
    ASSUME TypeOK, Renewing, NEW q \in Request,
           request[q].phase = "claim" \/ renewal[q].phase # "none"
    PROVE  /\ request[q].process \in Process
           /\ request[q].deployment \in Deployment
           /\ request[q].now \in 1..clock
  <1>1. request[q].phase \in {"claim", "forwarded"}
    BY DEF Renewing
  <1>2. request[q] # NotMade
    BY <1>1, NotMadeIsNew
  <1>. QED
    BY <1>2 DEF TypeOK

-----------------------------------------------------------------------------
(* The types.                                                               *)

LEMMA InitTyped == Init => TypeOK
  BY EmptyThrottle, ForwarderAssumption
     DEF Init, TypeOK, NoRenewal, ThrottleAt

LEMMA SpendType ==
    ASSUME left \in [Event -> Nat], NEW event \in Event, Spend(event)
    PROVE  left' \in [Event -> Nat]
  BY DEF Spend

LEMMA NextTyped ==
    ASSUME TypeOK, Renewing, [Next]_vars
    PROVE  TypeOK'
  <1>. SUFFICES Typed'
    BY TypeIsTyped
  <1>. Typed
    BY TypeIsTyped
  <1>. USE DEF Typed
  <1>1. ASSUME NEW q \in Request, NEW p \in Process, NEW d \in Deployment, Arrive(q, p, d)
        PROVE  Typed'
    <2>1. left' \in [Event -> Nat]
      BY <1>1, SpendType DEF Arrive, Event
    <2>2. [phase |-> IF d \in routed[p] THEN "claim" ELSE "rejected",
           process |-> p, deployment |-> d, now |-> clock] \in RequestAt(clock)
      BY DEF RequestAt
    <2>. QED
      BY <1>1, <2>1, <2>2 DEF Arrive
  <1>2. ASSUME NEW q \in Request, Claim(q)
        PROVE  Typed'
    <2>. DEFINE p == request[q].process
                d == request[q].deployment
                now == request[q].now
                interval == renewInterval(after[d])
    <2>1. p \in Process /\ d \in Deployment /\ now \in 1..clock
      BY <1>2, RenewingIsMade DEF Claim
    <2>2. throttle' \in [Process -> ThrottleAt(clock)]
      <3>1. claim(throttle[p], d, now, interval) \in ThrottleAt(clock)
        BY <2>1, ClaimRemembers
      <3>. QED
        BY <1>2, <2>1, <3>1 DEF Claim
    <2>3. request' \in [Request -> RequestAt(clock)]
      <3>1. request[q] # NotMade
        BY <1>2, NotMadeIsNew DEF Claim
      <3>2. [request[q] EXCEPT !.phase = "forwarded"] \in RequestAt(clock)
        BY <3>1 DEF RequestAt
      <3>. QED
        BY <1>2, <3>2 DEF Claim
    <2>4. \/ /\ renewal' = [renewal EXCEPT ![q].phase = "begun"]
             /\ reopened' = [reopened EXCEPT ![p] = @ \ {d}]
          \/ renewal' = renewal /\ reopened' = reopened
      BY <1>2, Zenon DEF Claim
    <2>5. renewal' \in [Request -> RenewalAt(clock)]
      <3>1. [renewal[q] EXCEPT !.phase = "begun"] \in RenewalAt(clock)
        BY DEF RenewalAt
      <3>. QED
        BY <2>4, <3>1
    <2>6. reopened' \in [Process -> SUBSET Deployment]
      <3>1. reopened[p] \ {d} \in SUBSET Deployment
        BY <2>1
      <3>. QED
        BY <2>4, <3>1
    <2>. QED
      BY <1>2, <2>2, <2>3, <2>5, <2>6 DEF Claim
  <1>3. ASSUME NEW q \in Request, Send(q)
        PROVE  Typed'
    <2>1. [phase |-> "sent", at |-> clock] \in RenewalAt(clock)
      BY DEF RenewalAt
    <2>. QED
      BY <1>3, <2>1 DEF Send
  <1>4. ASSUME NEW q \in Request, Apply(q)
        PROVE  Typed'
    <2>. DEFINE d == request[q].deployment
    <2>1. [lease[d] EXCEPT !.renewTime = renewal[q].at] \in LeaseAt(clock)
      <3>1. d \in Deployment
        BY <1>4, RenewingIsMade DEF Apply
      <3>. QED
        BY <3>1 DEF LeaseAt, RenewalAt
    <2>2. [renewal[q] EXCEPT !.phase = IF @ = "sent" THEN "applied" ELSE "done"]
             \in RenewalAt(clock)
      BY DEF RenewalAt
    <2>. QED
      BY <1>4, <2>1, <2>2 DEF Apply
  <1>5. ASSUME NEW q \in Request, Answer(q)
        PROVE  Typed'
    <2>1. [renewal[q] EXCEPT !.phase = "done"] \in RenewalAt(clock)
      BY DEF RenewalAt
    <2>. QED
      BY <1>5, <2>1 DEF Answer
  <1>6. ASSUME NEW q \in Request, FailRenewal(q)
        PROVE  Typed'
    <2>. DEFINE p == request[q].process
                d == request[q].deployment
    <2>1. release(throttle[p], d) \in ThrottleAt(clock)
      <3>1. p \in Process /\ d \in Deployment
        BY <1>6, RenewingIsMade DEF FailRenewal
      <3>. QED
        BY <3>1, ReleaseForgets
    <2>2. [renewal[q] EXCEPT !.phase = "failed"] \in RenewalAt(clock)
      BY DEF RenewalAt
    <2>. QED
      BY <1>6, <2>1, <2>2 DEF FailRenewal
  <1>7. ASSUME NEW d \in Deployment, Close(d)
        PROVE  Typed'
    <2>1. left' \in [Event -> Nat]
      BY <1>7, SpendType DEF Close, Event
    <2>2. NoLease \in LeaseAt(clock)
      BY DEF NoLease, LeaseAt
    <2>. QED
      BY <1>7, <2>1, <2>2 DEF Close
  <1>8. ASSUME NEW d \in Deployment, Reopen(d)
        PROVE  Typed'
    <2>1. [lease[d] EXCEPT !.exists = TRUE] \in LeaseAt(clock)
      BY DEF LeaseAt
    <2>. QED
      BY <1>8, <2>1 DEF Reopen
  <1>9. ASSUME NEW d \in Deployment, NEW s \in ScaleDownAfter, Edit(d, s)
        PROVE  Typed'
    <2>1. left' \in [Event -> Nat]
      BY <1>9, SpendType DEF Edit, Event
    <2>. QED
      BY <1>9, <2>1 DEF Edit
  <1>10. ASSUME NEW p \in Process, Route(p)
         PROVE  Typed'
    BY <1>10 DEF Route
  <1>11. ASSUME NEW p \in Process, Restart(p)
         PROVE  Typed'
    <2>1. left' \in [Event -> Nat]
      BY <1>11, SpendType DEF Restart, Event
    <2>2. throttle' \in [Process -> ThrottleAt(clock)]
      BY <1>11, EmptyThrottle DEF Restart
    <2>3. request' \in [Request -> RequestAt(clock)]
      <3>1. ASSUME NEW q \in Request, request[q].phase = "claim"
            PROVE  [request[q] EXCEPT !.phase = "rejected"] \in RequestAt(clock)
        <4>1. request[q] # NotMade
          BY <3>1, NotMadeIsNew
        <4>. QED
          BY <4>1 DEF RequestAt
      <3>. QED
        BY <1>11, <3>1 DEF Restart
    <2>4. renewal' \in [Request -> RenewalAt(clock)]
      <3>1. ASSUME NEW q \in Request
            PROVE  /\ [renewal[q] EXCEPT !.phase = "orphan"] \in RenewalAt(clock)
                   /\ [renewal[q] EXCEPT !.phase = "failed"] \in RenewalAt(clock)
        BY DEF RenewalAt
      <3>. QED
        BY <1>11, <3>1 DEF Restart
    <2>. QED
      BY <1>11, <2>1, <2>2, <2>3, <2>4 DEF Restart
  <1>12. CASE Tick
    <2>1. clock' = clock + 1 /\ clock' \in Nat \ {0}
      BY <1>12 DEF Tick
    <2>2. /\ LeaseAt(clock) \subseteq LeaseAt(clock')
          /\ RequestAt(clock) \subseteq RequestAt(clock')
          /\ RenewalAt(clock) \subseteq RenewalAt(clock')
      BY <2>1 DEF LeaseAt, RequestAt, RenewalAt
    <2>3. ThrottleAt(clock) \subseteq ThrottleAt(clock')
      BY <2>1, ThrottleGrows
    <2>. QED
      BY <1>12, <2>1, <2>2, <2>3 DEF Tick
  <1>13. CASE UNCHANGED vars
    BY <1>13 DEF vars
  <1>. QED
    BY <1>1, <1>2, <1>3, <1>4, <1>5, <1>6, <1>7, <1>8, <1>9, <1>10, <1>11, <1>12, <1>13
       DEF Next

-----------------------------------------------------------------------------
(* What the goroutines do.                                                  *)

LEMMA InitRenewing == Init => Renewing
  BY DEF Init, Renewing, NoRenewal

LEMMA NextRenewing ==
    ASSUME TypeOK, Renewing, [Next]_vars
    PROVE  Renewing'
  <1>. SUFFICES ASSUME NEW r \in Request
                PROVE  /\ renewal'[r].phase # "none" => request'[r].phase = "forwarded"
                       /\ renewal'[r].phase \in {"sent", "orphan"} => renewal'[r].at # 0
    BY DEF Renewing
  <1>. USE DEF TypeOK, Renewing
  <1>1. ASSUME NEW q \in Request, NEW p \in Process, NEW d \in Deployment, Arrive(q, p, d)
        PROVE  /\ renewal'[r].phase # "none" => request'[r].phase = "forwarded"
               /\ renewal'[r].phase \in {"sent", "orphan"} => renewal'[r].at # 0
    BY <1>1, NotMadeIsNew DEF Arrive
  <1>2. ASSUME NEW q \in Request, Claim(q)
        PROVE  /\ renewal'[r].phase # "none" => request'[r].phase = "forwarded"
               /\ renewal'[r].phase \in {"sent", "orphan"} => renewal'[r].at # 0
    <2>1. /\ request' = [request EXCEPT ![q].phase = "forwarded"]
          /\ \/ renewal' = [renewal EXCEPT ![q].phase = "begun"]
             \/ renewal' = renewal
      BY <1>2, Zenon DEF Claim
    <2>. QED
      BY <2>1
  <1>3. ASSUME NEW q \in Request,
               Send(q) \/ Apply(q) \/ Answer(q) \/ FailRenewal(q)
        PROVE  /\ renewal'[r].phase # "none" => request'[r].phase = "forwarded"
               /\ renewal'[r].phase \in {"sent", "orphan"} => renewal'[r].at # 0
    <2>1. request' = request
      BY <1>3 DEF Send, Apply, Answer, FailRenewal
    <2>2. CASE r # q
      BY <1>3, <2>1, <2>2 DEF Send, Apply, Answer, FailRenewal
    <2>3. CASE r = q
      <3>1. renewal[q].phase # "none"
        BY <1>3 DEF Send, Apply, Answer, FailRenewal
      <3>2. CASE Send(q)
        BY <2>1, <2>3, <3>1, <3>2 DEF Send
      <3>3. CASE Apply(q) \/ Answer(q) \/ FailRenewal(q)
        <4>1. renewal'[q].phase \in {"applied", "done", "failed"}
          BY <3>3 DEF Apply, Answer, FailRenewal
        <4>. QED
          BY <2>1, <2>3, <3>1, <4>1
      <3>. QED
        BY <1>3, <3>2, <3>3
    <2>. QED
      BY <2>2, <2>3
  <1>4. ASSUME NEW p \in Process, Restart(p)
        PROVE  /\ renewal'[r].phase # "none" => request'[r].phase = "forwarded"
               /\ renewal'[r].phase \in {"sent", "orphan"} => renewal'[r].at # 0
    <2>1. request'[r] = IF request[r].process = p /\ request[r].phase = "claim"
                        THEN [request[r] EXCEPT !.phase = "rejected"] ELSE request[r]
      BY <1>4 DEF Restart
    <2>2. renewal'[r] = IF request[r].process # p THEN renewal[r]
                        ELSE IF renewal[r].phase = "sent"
                             THEN [renewal[r] EXCEPT !.phase = "orphan"]
                        ELSE IF renewal[r].phase \in {"begun", "applied"}
                             THEN [renewal[r] EXCEPT !.phase = "failed"]
                        ELSE renewal[r]
      BY <1>4 DEF Restart
    <2>3. CASE request[r].phase = "claim"
      BY <2>2, <2>3
    <2>4. CASE request[r].phase # "claim"
      BY <2>1, <2>2, <2>4
    <2>. QED
      BY <2>3, <2>4
  <1>5. ASSUME UNCHANGED <<request, renewal>>
        PROVE  /\ renewal'[r].phase # "none" => request'[r].phase = "forwarded"
               /\ renewal'[r].phase \in {"sent", "orphan"} => renewal'[r].at # 0
    BY <1>5
  <1>. QED
    BY <1>1, <1>2, <1>3, <1>4, <1>5
       DEF Next, vars, Close, Reopen, Edit, Route, Tick

-----------------------------------------------------------------------------
(* Every claim that is remembered is followed by the Lease.                 *)

LEMMA InitFollows == Init => LeaseFollows
  BY DEF Init, LeaseFollows, newRenewThrottle

(* A step that leaves Leases, clock and claims alone and keeps renewals     *)
(* under way.                                                               *)
LEMMA FollowsStays ==
    ASSUME TypeOK, LeaseFollows, NEW p \in Process, NEW d \in Deployment,
           throttle'[p].renewed[d] \in {0, throttle[p].renewed[d]},
           d \in reopened[p] => d \in reopened'[p],
           lease[d].exists => lease'[d] = lease[d],
           UnderWay(p, d) => UnderWay(p, d)'
    PROVE  throttle'[p].renewed[d] # 0 /\ d \notin reopened'[p]
           => UnderWay(p, d)' \/ Recorded(p, d)'
  <1>1. CASE throttle'[p].renewed[d] = 0
    BY <1>1
  <1>2. CASE throttle'[p].renewed[d] # 0 /\ d \notin reopened'[p]
    <2>1. throttle'[p].renewed[d] = throttle[p].renewed[d]
      BY <1>2
    <2>2. UnderWay(p, d) \/ Recorded(p, d)
      BY <1>2, <2>1 DEF LeaseFollows
    <2>3. Recorded(p, d) => Recorded(p, d)'
      BY <2>1 DEF Recorded
    <2>. QED
      BY <2>2, <2>3
  <1>. QED
    BY <1>1, <1>2

(* Requests that are not touched keep their renewals under way.             *)
LEMMA UnderWayStays ==
    ASSUME NEW p, NEW d,
           \A r \in Request : renewal[r].phase \in {"begun", "sent"} =>
              /\ request'[r].process = request[r].process
              /\ request'[r].deployment = request[r].deployment
              /\ renewal'[r].phase \in {"begun", "sent"}
    PROVE  UnderWay(p, d) => UnderWay(p, d)'
  BY DEF UnderWay

LEMMA NextFollows ==
    ASSUME TypeOK, Renewing, LeaseFollows, [Next]_vars
    PROVE  LeaseFollows'
  <1>. SUFFICES ASSUME NEW p \in Process, NEW d \in Deployment
                PROVE  throttle'[p].renewed[d] # 0 /\ d \notin reopened'[p]
                       => UnderWay(p, d)' \/ Recorded(p, d)'
    BY DEF LeaseFollows
  <1>. DEFINE Follows == throttle'[p].renewed[d] # 0 /\ d \notin reopened'[p]
                         => UnderWay(p, d)' \/ Recorded(p, d)'
  <1>1. ASSUME NEW q \in Request, NEW o \in Process, NEW e \in Deployment, Arrive(q, o, e)
        PROVE  Follows
    <2>1. renewal[q].phase = "none"
      BY <1>1, NotMadeIsNew DEF Arrive, Renewing
    <2>2. \A r \in Request : renewal[r].phase \in {"begun", "sent"} => request'[r] = request[r]
      BY <1>1, <2>1 DEF Arrive, TypeOK
    <2>3. UnderWay(p, d) => UnderWay(p, d)'
      BY <1>1, <2>2, UnderWayStays DEF Arrive
    <2>. QED
      BY <1>1, <2>3, FollowsStays DEF Arrive
  <1>2. ASSUME NEW q \in Request, Claim(q)
        PROVE  Follows
    <2>. DEFINE o == request[q].process
                e == request[q].deployment
                now == request[q].now
                interval == renewInterval(after[e])
                claimed == claims(throttle[o], e, now, interval)
    <2>1. o \in Process /\ e \in Deployment /\ now \in 0..clock
      BY <1>2, RenewingIsMade DEF Claim, TypeOK
    <2>2. request' = [request EXCEPT ![q].phase = "forwarded"]
      BY <1>2 DEF Claim
    <2>3. request'[q].process = o /\ request'[q].deployment = e
      <3>1. request[q] # NotMade
        BY <1>2, NotMadeIsNew DEF Claim
      <3>. QED
        BY <2>2, <3>1 DEF TypeOK
    <2>4. throttle' = [throttle EXCEPT ![o] = claim(throttle[o], e, now, interval)]
      BY <1>2, Zenon DEF Claim
    <2>5. IF claimed
          THEN /\ renewal' = [renewal EXCEPT ![q].phase = "begun"]
               /\ reopened' = [reopened EXCEPT ![o] = @ \ {e}]
          ELSE UNCHANGED <<renewal, reopened>>
      BY <1>2, Zenon DEF Claim
    <2>6. CASE p = o /\ d = e /\ claimed
      <3>1. renewal'[q].phase = "begun"
        <4>1. renewal' = [renewal EXCEPT ![q].phase = "begun"]
          BY <2>5, <2>6
        <4>. QED
          BY <4>1 DEF TypeOK
      <3>2. UnderWay(p, d)'
        BY <2>3, <2>6, <3>1 DEF UnderWay
      <3>. QED
        BY <3>2
    <2>7. CASE ~(p = o /\ d = e /\ claimed)
      <3>1. throttle'[p].renewed[d] \in {0, throttle[p].renewed[d]}
        <4>1. CASE p = o
          <5>1. throttle[o] \in ThrottleAt(clock)
            BY <2>1 DEF TypeOK, ThrottleAt
          <5>2. claim(throttle[o], e, now, interval).renewed[d] \in {0, throttle[o].renewed[d]}
            BY <2>1, <2>7, <4>1, <5>1, ClaimRemembers DEF TypeOK
          <5>. QED
            BY <2>4, <4>1, <5>2 DEF TypeOK
        <4>2. CASE p # o
          BY <2>4, <4>2 DEF TypeOK
        <4>. QED
          BY <4>1, <4>2
      <3>2. d \in reopened[p] => d \in reopened'[p]
        <4>1. CASE claimed
          <5>1. reopened' = [reopened EXCEPT ![o] = @ \ {e}]
            BY <2>5, <4>1
          <5>2. p # o \/ d # e
            BY <2>7, <4>1
          <5>. QED
            BY <5>1, <5>2 DEF TypeOK
        <4>2. CASE ~claimed
          BY <2>5, <4>2
        <4>. QED
          BY <4>1, <4>2
      <3>3. \A r \in Request : renewal[r].phase \in {"begun", "sent"} =>
               /\ request'[r].process = request[r].process
               /\ request'[r].deployment = request[r].deployment
        BY <2>2, <2>3 DEF TypeOK
      <3>4. \A r \in Request : renewal[r].phase \in {"begun", "sent"}
                               => renewal'[r].phase \in {"begun", "sent"}
        <4>1. renewal' = [renewal EXCEPT ![q].phase = "begun"] \/ renewal' = renewal
          BY <2>5
        <4>. QED
          BY <4>1 DEF TypeOK
      <3>5. UnderWay(p, d) => UnderWay(p, d)'
        BY <3>3, <3>4, UnderWayStays
      <3>6. lease' = lease
        BY <1>2 DEF Claim
      <3>. QED
        BY <3>1, <3>2, <3>5, <3>6, FollowsStays
    <2>. QED
      BY <2>6, <2>7
  <1>3. ASSUME NEW q \in Request, Send(q)
        PROVE  Follows
    <2>1. UnderWay(p, d) => UnderWay(p, d)'
      <3>1. \A r \in Request : renewal[r].phase \in {"begun", "sent"}
                               => renewal'[r].phase \in {"begun", "sent"}
        BY <1>3 DEF Send, TypeOK
      <3>. QED
        BY <1>3, <3>1, UnderWayStays DEF Send
    <2>. QED
      BY <1>3, <2>1, FollowsStays DEF Send
  <1>4. ASSUME NEW q \in Request, Apply(q)
        PROVE  Follows
    <2>. DEFINE e == request[q].deployment
    <2>1. e \in Deployment
      BY <1>4, RenewingIsMade DEF Apply
    <2>2. CASE d = e
      <3>1. lease'[d].exists /\ lease'[d].renewTime = renewal[q].at
        BY <1>4, <2>2 DEF Apply, TypeOK
      <3>2. renewal[q].at \in 1..clock /\ clock <= renewal[q].at + renewTimeout
        BY <1>4 DEF Apply, TypeOK, Renewing
      <3>3. throttle'[p].renewed[d] \in 0..clock
        BY <1>4 DEF Apply, TypeOK
      <3>4. Recorded(p, d)'
        BY <3>1, <3>2, <3>3, ForwarderAssumption DEF Recorded, TypeOK
      <3>. QED
        BY <3>4
    <2>3. CASE d # e
      <3>1. \A r \in Request : renewal[r].phase \in {"begun", "sent"} /\ request[r].deployment = d
                               => renewal'[r].phase = renewal[r].phase
        BY <1>4, <2>3 DEF Apply, TypeOK
      <3>2. UnderWay(p, d) => UnderWay(p, d)'
        BY <1>4, <3>1 DEF UnderWay, Apply
      <3>3. lease'[d] = lease[d]
        BY <1>4, <2>3 DEF Apply, TypeOK
      <3>. QED
        BY <1>4, <3>2, <3>3, FollowsStays DEF Apply
    <2>. QED
      BY <2>2, <2>3
  <1>5. ASSUME NEW q \in Request, Answer(q)
        PROVE  Follows
    <2>1. \A r \in Request : renewal[r].phase \in {"begun", "sent"}
                             => renewal'[r].phase \in {"begun", "sent"}
      BY <1>5 DEF Answer, TypeOK
    <2>2. UnderWay(p, d) => UnderWay(p, d)'
      BY <1>5, <2>1, UnderWayStays DEF Answer
    <2>. QED
      BY <1>5, <2>2, FollowsStays DEF Answer
  <1>6. ASSUME NEW q \in Request, FailRenewal(q)
        PROVE  Follows
    <2>. DEFINE o == request[q].process
                e == request[q].deployment
    <2>1. o \in Process /\ e \in Deployment
      BY <1>6, RenewingIsMade DEF FailRenewal
    <2>2. throttle[o] \in ThrottleAt(clock) /\ clock \in Nat
      BY <2>1 DEF TypeOK, ThrottleAt
    <2>3. /\ release(throttle[o], e).renewed[e] = 0
          /\ \A x \in Deployment \ {e} : release(throttle[o], e).renewed[x] = throttle[o].renewed[x]
      BY <2>1, <2>2, ReleaseForgets
    <2>4. throttle' = [throttle EXCEPT ![o] = release(throttle[o], e)]
      BY <1>6, <2>1 DEF FailRenewal, TypeOK
    <2>5. CASE p = o /\ d = e
      BY <2>3, <2>4, <2>5 DEF TypeOK
    <2>6. CASE ~(p = o /\ d = e)
      <3>1. throttle'[p].renewed[d] = throttle[p].renewed[d]
        BY <2>1, <2>3, <2>4, <2>6 DEF TypeOK
      <3>2. \A r \in Request : r # q => renewal'[r] = renewal[r]
        BY <1>6 DEF FailRenewal, TypeOK
      <3>3. UnderWay(p, d) => UnderWay(p, d)'
        BY <1>6, <2>6, <3>2 DEF UnderWay, FailRenewal
      <3>. QED
        BY <1>6, <3>1, <3>3, FollowsStays DEF FailRenewal
    <2>. QED
      BY <2>5, <2>6
  <1>7. ASSUME NEW e \in Deployment, Close(e)
        PROVE  Follows
    <2>1. CASE d = e
      BY <1>7, <2>1 DEF Close
    <2>2. CASE d # e
      <3>1. lease'[d] = lease[d] /\ (d \in reopened[p] => d \in reopened'[p])
        BY <1>7, <2>2 DEF Close, TypeOK
      <3>2. UnderWay(p, d) => UnderWay(p, d)'
        BY <1>7 DEF Close, UnderWay
      <3>. QED
        BY <1>7, <3>1, <3>2, FollowsStays DEF Close
    <2>. QED
      BY <2>1, <2>2
  <1>8. ASSUME NEW e \in Deployment, Reopen(e)
        PROVE  Follows
    <2>1. lease[d].exists => lease'[d] = lease[d]
      BY <1>8 DEF Reopen, TypeOK
    <2>2. UnderWay(p, d) => UnderWay(p, d)'
      BY <1>8 DEF Reopen, UnderWay
    <2>. QED
      BY <1>8, <2>1, <2>2, FollowsStays DEF Reopen
  <1>9. ASSUME NEW o \in Process, Restart(o)
        PROVE  Follows
    <2>1. CASE p = o
      BY <1>9, <2>1 DEF Restart, TypeOK, newRenewThrottle
    <2>2. CASE p # o
      <3>1. throttle'[p] = throttle[p]
        BY <1>9, <2>2 DEF Restart, TypeOK
      <3>2. \A r \in Request : request[r].process = p
                               => request'[r] = request[r] /\ renewal'[r] = renewal[r]
        BY <1>9, <2>2 DEF Restart
      <3>3. UnderWay(p, d) => UnderWay(p, d)'
        BY <3>2 DEF UnderWay
      <3>. QED
        BY <1>9, <3>1, <3>3, FollowsStays DEF Restart
    <2>. QED
      BY <2>1, <2>2
  <1>10. ASSUME UNCHANGED <<lease, throttle, request, renewal, reopened>>
         PROVE  Follows
    <2>1. UnderWay(p, d) => UnderWay(p, d)'
      BY <1>10 DEF UnderWay
    <2>. QED
      BY <1>10, <2>1, FollowsStays
  <1>. QED
    BY <1>1, <1>2, <1>3, <1>4, <1>5, <1>6, <1>7, <1>8, <1>9, <1>10
       DEF Next, vars, Edit, Route, Tick

-----------------------------------------------------------------------------
(* No time in a throttle, a Lease or a renewal lies in the future, and each *)
(* request and renewal is in one of its phases.                             *)
THEOREM ForwarderTyped == Spec => []TypeOK
  <1>1. Init => TypeOK /\ Renewing
    BY InitTyped, InitRenewing
  <1>2. TypeOK /\ Renewing /\ [Next]_vars => (TypeOK /\ Renewing)'
    BY NextTyped, NextRenewing
  <1>. QED
    BY <1>1, <1>2, PTL DEF Spec

THEOREM Follows == Spec => []IInv
  <1>1. Init => IInv
    BY InitTyped, InitRenewing, InitFollows DEF IInv
  <1>2. IInv /\ [Next]_vars => IInv'
    BY NextTyped, NextRenewing, NextFollows DEF IInv
  <1>. QED
    BY <1>1, <1>2, PTL DEF Spec

LEMMA AfterType ==
    ASSUME TypeOK, NEW d \in Deployment
    PROVE  after[d] \in Nat
  <1>1. after[d] \in ScaleDownAfter
    BY DEF TypeOK
  <1>. QED
    BY <1>1, ForwarderAssumption

LEMMA RenewIntervalType ==
    ASSUME NEW s \in Nat
    PROVE  renewInterval(s) \in Nat
  <1>1. s \div 10 \in Nat
    OBVIOUS
  <1>. QED
    BY <1>1, ForwarderAssumption DEF renewInterval, Longest, Shortest

(* Only Claim lets a visit pass, and a visit that it throttles leaves       *)
(* everything else where it is.                                             *)
LEMMA ThrottledByClaim ==
    ASSUME TypeOK, Renewing, [Next]_vars, NEW q \in Request, Throttled(q)
    PROVE  LET p == request[q].process
               d == request[q].deployment
           IN  /\ p \in Process /\ d \in Deployment
               /\ request[q].now \in 1..clock
               /\ throttle[p].renewed[d] # 0
               /\ request[q].now - throttle[p].renewed[d] < renewInterval(after[d])
  <1>. DEFINE p == request[q].process
              d == request[q].deployment
              now == request[q].now
  <1>1. p \in Process /\ d \in Deployment /\ now \in 1..clock
    BY RenewingIsMade DEF Throttled
  <1>2. request[q].phase = "claim" /\ request'[q].phase = "forwarded"
    BY DEF Throttled
  <1>3. Claim(q)
    <2>1. ASSUME NEW r \in Request, NEW o \in Process, NEW e \in Deployment, Arrive(r, o, e)
          PROVE  FALSE
      BY <1>2, <2>1, NotMadeIsNew DEF Arrive, TypeOK
    <2>2. ASSUME NEW r \in Request, Claim(r)
          PROVE  r = q
      BY <1>2, <2>2 DEF Claim, TypeOK
    <2>3. ASSUME NEW o \in Process, Restart(o)
          PROVE  FALSE
      <3>1. request'[q] \in {[request[q] EXCEPT !.phase = "rejected"], request[q]}
        BY <2>3 DEF Restart
      <3>2. request[q] # NotMade
        BY <1>2, NotMadeIsNew
      <3>. QED
        BY <1>2, <3>1, <3>2 DEF TypeOK
    <2>4. request' # request
      BY <1>2
    <2>. QED
      BY <2>1, <2>2, <2>3, <2>4
         DEF Next, vars, Send, Apply, Answer, FailRenewal, Close, Reopen, Edit, Route, Tick
  <1>4. ~claims(throttle[p], d, now, renewInterval(after[d]))
    <2>1. SUFFICES ASSUME claims(throttle[p], d, now, renewInterval(after[d]))
                   PROVE  FALSE
      OBVIOUS
    <2>2. renewal' = [renewal EXCEPT ![q].phase = "begun"]
      BY <1>3, <2>1, Zenon DEF Claim
    <2>. QED
      BY <2>2 DEF Throttled, TypeOK
  <1>5. pruned(throttle[p], now).renewed[d] \in {0, throttle[p].renewed[d]}
    <2>1. throttle[p] \in ThrottleAt(clock) /\ now \in 0..clock /\ clock \in Nat
      BY <1>1 DEF TypeOK, ThrottleAt
    <2>. QED
      BY <1>1, <2>1, PrunedForgets
  <1>6. throttle[p].renewed[d] \in Nat /\ renewInterval(after[d]) \in Nat
    <2>1. throttle[p].renewed[d] \in Nat
      BY <1>1 DEF TypeOK
    <2>. QED
      BY <1>1, <2>1, AfterType, RenewIntervalType
  <1>. QED
    BY <1>1, <1>4, <1>5, <1>6 DEF claims

(* A visit that renews nothing finds its Lease held, as long as the         *)
(* deployment was not closed: when scaleDownAfter is at least an interval   *)
(* and the timeout of a renewal.                                            *)
THEOREM ThrottledVisitsAreHeld == Spec => ThrottledIsHeld
  <1>1. ASSUME IInv, [Next]_vars, NEW q \in Request, Throttled(q)
        PROVE  Held(q)
    <2>. DEFINE p == request[q].process
                d == request[q].deployment
                now == request[q].now
    <2>1. /\ p \in Process /\ d \in Deployment /\ now \in 1..clock
          /\ throttle[p].renewed[d] # 0
          /\ now - throttle[p].renewed[d] < renewInterval(after[d])
      BY <1>1, ThrottledByClaim DEF IInv
    <2>2. SUFFICES ASSUME LongEnough(after[d]), d \notin reopened[p], ~UnderWay(p, d)
                   PROVE  KeptRunning(q)
      BY DEF Held
    <2>3. Recorded(p, d)
      BY <1>1, <2>1, <2>2 DEF IInv, LeaseFollows
    <2>4. /\ after[d] \in Nat /\ renewInterval(after[d]) \in Nat
          /\ throttle[p].renewed[d] \in Nat /\ lease[d].renewTime \in Nat
          /\ clock \in Nat /\ renewTimeout \in Nat
      <3>1. after[d] \in Nat /\ renewInterval(after[d]) \in Nat
        BY <1>1, <2>1, AfterType, RenewIntervalType DEF IInv
      <3>2. /\ throttle[p].renewed[d] \in Nat /\ lease[d].renewTime \in Nat
            /\ clock \in Nat
        BY <1>1, <2>1 DEF IInv, TypeOK
      <3>. QED
        BY <3>1, <3>2, ForwarderAssumption
    <2>. QED
      BY <2>1, <2>2, <2>3, <2>4 DEF KeptRunning, Recorded, LongEnough, runs
  <1>2. IInv /\ [Next]_vars => [\A q \in Request : Throttled(q) => Held(q)]_vars
    BY <1>1
  <1>. QED
    BY <1>2, Follows, PTL DEF Spec, ThrottledIsHeld
=============================================================================
