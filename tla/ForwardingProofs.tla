-------------------------- MODULE ForwardingProofs --------------------------
(***************************************************************************)
(* What a forwarder promises those who wait, for any number of requests,   *)
(* deployments and timeouts: DeliveredOnce, WaitsInTime, NotStartedIsTrue, *)
(* and of a forwarder that stops: ReadyAccepts and CutOffLate.             *)
(***************************************************************************)
EXTENDS Forwarding, TLAPS

Typed == TypeOK /\ scenario \in Scenario

-----------------------------------------------------------------------------
(* The types.                                                               *)

LEMMA NotMadeType == NotMade \in Forwarded
  BY DEF NotMade, Forwarded, Label, Code

LEMMA InitTyped == Init => Typed
  <1>. SUFFICES ASSUME Init PROVE Typed
    OBVIOUS
  <1>1. scenario \in Scenario
    BY ScenarioAssumption DEF Init
  <1>2. phase \in [Deployment -> {"none", "stopped", "running"}] /\ left \in [Event -> Nat]
    BY <1>1 DEF Init, Scenario
  <1>3. visited \in [Deployment -> Nat] /\ accepts \in [Deployment -> Nat] /\ clock \in Nat
    BY ForwardingAssumption DEF Init
  <1>4. request \in [Request -> Forwarded] /\ server \in Server /\ renewing \subseteq Deployment
    BY NotMadeType DEF Init, Server
  <1>. QED
    BY <1>1, <1>2, <1>3, <1>4 DEF Typed, TypeOK

LEMMA SpendType ==
    ASSUME TypeOK, NEW event \in Event, Spend(event)
    PROVE  left' \in [Event -> Nat]
  BY DEF TypeOK, Spend

LEMMA AnswerType ==
    ASSUME TypeOK, NEW q \in Request, NEW code \in Code,
           Answer(q, code)
    PROVE  request' \in [Request -> Forwarded]
  <1>1. request[q] \in Forwarded
    BY DEF TypeOK
  <1>2. request[q].delivered \in Nat
    BY <1>1 DEF Forwarded
  <1>3. [NotMade EXCEPT !.pc = "done", !.code = code, !.delivered = request[q].delivered]
        \in Forwarded
    BY <1>2 DEF Forwarded, NotMade, Label
  <1>. QED
    BY <1>3 DEF Answer, TypeOK

LEMMA GotoType ==
    ASSUME TypeOK, NEW q \in Request, NEW label \in {"dial", "select", "sent"},
           NEW locals \in Forwarded, Goto(q, label, locals)
    PROVE  request' \in [Request -> Forwarded]
  <1>1. [locals EXCEPT !.pc = label] \in Forwarded
    BY DEF Forwarded, Label
  <1>. QED
    BY <1>1 DEF Goto, TypeOK

LEMMA ErrorHandlerType ==
    ASSUME TypeOK, NEW q \in Request, NEW err, ErrorHandler(q, err)
    PROVE  request' \in [Request -> Forwarded]
  <1>1. notStartedResponse(q) \in Code /\ {0, 502} \subseteq Code
    BY DEF notStartedResponse, Code
  <1>2. CASE err = "not started"
    BY <1>1, <1>2, AnswerType DEF ErrorHandler
  <1>3. CASE err = "canceled"
    BY <1>1, <1>3, AnswerType DEF ErrorHandler
  <1>4. CASE err \notin {"not started", "canceled"}
    BY <1>1, <1>4, AnswerType DEF ErrorHandler
  <1>. QED
    BY <1>2, <1>3, <1>4

LEMMA RoundTripFailsType ==
    ASSUME TypeOK, NEW q \in Request, NEW err, RoundTripFails(q, err)
    PROVE  request' \in [Request -> Forwarded]
  <1>1. request[q] \in Forwarded /\ clock \in Nat
    BY DEF TypeOK
  <1>2. [request[q] EXCEPT !.failed = clock] \in Forwarded
    BY <1>1 DEF Forwarded
  <1>. QED
    BY <1>2, ErrorHandlerType, GotoType DEF RoundTripFails

LEMMA TimeoutType ==
    ASSUME Typed, NEW p \in scenario.prs, p.app # NoApp
    PROVE  connectionTimeout(p.app) \in Nat
  <1>1. p \in PullRequest
    BY DEF Typed, Scenario
  <1>. QED
    BY <1>1, ForwardingAssumption DEF PullRequest, connectionTimeout

(* The first step of a request that is forwarded.                           *)
LEMMA ForwardType ==
    ASSUME Typed, NEW q \in Request, NEW p \in scenario.prs, p.app # NoApp, NEW host,
           Forward(q, p, host)
    PROVE  request' \in [Request -> Forwarded] /\ renewing' \subseteq Deployment
  <1>1. PICK d \in Deployment :
           /\ renewing' = renewing \cup {d}
           /\ Goto(q, "dial",
                   [NotMade EXCEPT !.deployment = d, !.timeout = connectionTimeout(p.app),
                                   !.since = clock, !.dialed = clock])
    BY DEF Forward
  <1>2. [NotMade EXCEPT !.deployment = d, !.timeout = connectionTimeout(p.app),
                        !.since = clock, !.dialed = clock] \in Forwarded
    <2>1. connectionTimeout(p.app) \in Nat /\ clock \in Nat
      BY TimeoutType DEF Typed, TypeOK
    <2>. QED
      BY <2>1, NotMadeType DEF Forwarded
  <1>. QED
    BY <1>1, <1>2, GotoType DEF Typed, TypeOK

LEMMA RequestGone ==
    ASSUME TypeOK, NEW q \in Request
    PROVE  [request[q] EXCEPT !.gone = TRUE] \in Forwarded
  <1>1. request[q] \in Forwarded
    BY DEF TypeOK
  <1>. QED
    BY <1>1 DEF Forwarded

LEMMA NextTyped ==
    ASSUME Typed, [Next]_vars
    PROVE  Typed'
  <1>. TypeOK
    BY DEF Typed
  <1>. USE DEF Typed, TypeOK, apps
  <1>1. ASSUME NEW q \in Request, NEW h \in Host, ServeHTTP(q, h)
        PROVE  Typed'
    <2>1. left' \in [Event -> Nat]
      BY <1>1, SpendType DEF ServeHTTP, Arrives, Event
    <2>2. request' \in [Request -> Forwarded] /\ renewing' \subseteq Deployment
      <3>1. CASE (Answer(q, 404) \/ Answer(q, 500)) /\ UNCHANGED renewing
        BY <3>1, AnswerType DEF Code
      <3>2. ASSUME NEW p \in indexed(h), p.app # NoApp, Forward(q, p, h)
            PROVE  request' \in [Request -> Forwarded] /\ renewing' \subseteq Deployment
        BY <3>2, ForwardType DEF indexed
      <3>. QED
        BY <1>1, <3>1, <3>2 DEF ServeHTTP
    <2>. QED
      BY <1>1, <2>1, <2>2 DEF ServeHTTP
  <1>2. ASSUME NEW q \in Request, Fault(q)
        PROVE  Typed'
    BY <1>2, SpendType, AnswerType DEF Fault, Arrives, Event, Code
  <1>3. ASSUME NEW q \in Request, Dial(q)
        PROVE  Typed'
    <2>1. [request[q] EXCEPT !.delivered = @ + 1] \in Forwarded
      <3>1. request[q] \in Forwarded
        OBVIOUS
      <3>2. request[q].delivered \in Nat
        BY <3>1 DEF Forwarded
      <3>3. request[q].delivered + 1 \in Nat
        BY <3>2
      <3>. QED
        BY <3>1, <3>3 DEF Forwarded
    <2>2. request' \in [Request -> Forwarded]
      BY <1>3, <2>1, GotoType, RoundTripFailsType DEF Dial
    <2>. QED
      BY <1>3, <2>2 DEF Dial
  <1>4. ASSUME NEW q \in Request, Select(q)
        PROVE  Typed'
    <2>1. [request[q] EXCEPT !.dialed = clock] \in Forwarded
      <3>1. request[q] \in Forwarded /\ clock \in Nat
        OBVIOUS
      <3>. QED
        BY ONLY <3>1 DEF Forwarded
    <2>2. request' \in [Request -> Forwarded]
      BY <1>4, <2>1, GotoType, ErrorHandlerType DEF Select
    <2>. QED
      BY <1>4, <2>2 DEF Select
  <1>5. ASSUME NEW q \in Request, Respond(q)
        PROVE  Typed'
    <2>1. request' \in [Request -> Forwarded]
      BY <1>5, AnswerType, RoundTripFailsType DEF Respond, Code
    <2>2. left' \in [Event -> Nat]
      BY <1>5, SpendType DEF Respond, Event
    <2>. QED
      BY <1>5, <2>1, <2>2 DEF Respond
  <1>6. ASSUME NEW q \in Request, Leave(q)
        PROVE  Typed'
    <2>1. left' \in [Event -> Nat]
      BY <1>6, SpendType DEF Leave, Event
    <2>2. [request[q] EXCEPT !.gone = TRUE] \in Forwarded
      BY RequestGone
    <2>3. request' \in [Request -> Forwarded]
      BY <1>6, <2>2 DEF Leave
    <2>. QED
      BY <1>6, <2>1, <2>3 DEF Leave
  <1>7. ASSUME NEW d \in Deployment, StartApp(d) \/ Accept(d) \/ StopApp(d)
        PROVE  Typed'
    BY <1>7 DEF StartApp, Accept, StopApp
  <1>8. ASSUME NEW d \in Deployment, Visit(d)
        PROVE  Typed'
    <2>1. left' \in [Event -> Nat]
      BY <1>8, SpendType DEF Visit, Event
    <2>. QED
      BY <1>8, <2>1 DEF Visit
  <1>9. CASE Stop
    BY <1>9, SpendType DEF Stop, Server, Event
  <1>10. CASE Shutdown
    BY <1>10 DEF Shutdown, shutdown, Server
  <1>11. CASE Return
    <2>1. \A q \in Request : [request[q] EXCEPT !.gone = TRUE] \in Forwarded
      BY RequestGone
    <2>2. request' \in [Request -> Forwarded]
      BY <1>11, <2>1 DEF Return
    <2>3. server' \in Server
      BY <1>11 DEF Return, Server
    <2>. QED
      BY <1>11, <2>2, <2>3 DEF Return
  <1>12. CASE Tick
    BY <1>12 DEF Tick
  <1>13. CASE UNCHANGED vars
    BY <1>13 DEF vars
  <1>. QED
    BY <1>1, <1>2, <1>3, <1>4, <1>5, <1>6, <1>7, <1>8, <1>9, <1>10, <1>11, <1>12, <1>13
       DEF Next, RoundTrip

(* Everything keeps its type, whatever the requests, the deployments and    *)
(* the clock do.                                                            *)
THEOREM ForwardingTyped == Spec => []TypeOK
  <1>1. Spec => []Typed
    BY InitTyped, NextTyped, PTL DEF Spec
  <1>2. Typed => TypeOK
    BY DEF Typed
  <1>. QED
    BY <1>1, <1>2, PTL

-----------------------------------------------------------------------------
(* What a step may do to a request and to the deployment that it is for.    *)

(* A request that is not touched: time passes unless it is due, or its      *)
(* deployment begins or ceases to accept connections.                       *)
Waits(q) ==
    /\ \/ request'[q] = request[q]
       \/ request'[q] = [request[q] EXCEPT !.gone = TRUE]
    /\ \/ clock' = clock + 1 /\ ~due(q) /\ accepts' = accepts
       \/ /\ clock' = clock
          /\ \A d \in Deployment : accepts'[d] \in {accepts[d], 0, clock}

(* It begins to wait for a deployment.                                      *)
Begins(q) ==
    /\ request[q].pc = "new"
    /\ \E d \in Deployment, timeout \in Nat :
          request'[q] = [NotMade EXCEPT !.deployment = d, !.timeout = timeout, !.since = clock,
                                        !.dialed = clock, !.pc = "dial"]

Delivers(q) ==
    /\ request[q].pc = "dial"
    /\ request'[q] = [request[q] EXCEPT !.delivered = @ + 1, !.pc = "sent"]

DialFails(q) ==
    /\ request[q].pc = "dial"
    /\ request'[q] = [request[q] EXCEPT !.failed = clock, !.pc = "select"]
    /\ LET accepted == accepts[request[q].deployment]
       IN \/ accepted = 0
          \/ clock >= request[q].dialed + dialTimeout /\ accepted >= request[q].dialed

Retries(q) ==
    /\ request[q].pc = "select" /\ clock >= retriesAt(q)
    /\ request'[q] = [request[q] EXCEPT !.dialed = clock, !.pc = "dial"]

GivesUp(q) ==
    /\ request[q].pc = "select" /\ clock >= timesOutAt(q)
    /\ request'[q].pc = "done" /\ request'[q].delivered = request[q].delivered

Ends(q) ==
    /\ request'[q].pc = "done" /\ request'[q].delivered = request[q].delivered
    /\ request'[q].code \notin {202, 503}

Acts(q) ==
    /\ clock' = clock /\ accepts' = accepts
    /\ Begins(q) \/ Delivers(q) \/ DialFails(q) \/ Retries(q) \/ GivesUp(q) \/ Ends(q)

LEMMA RequestType ==
    ASSUME TypeOK, NEW q \in Request
    PROVE  /\ request[q] \in Forwarded /\ clock \in Nat
           /\ request[q].since \in Nat /\ request[q].timeout \in Nat
           /\ request[q].dialed \in Nat /\ request[q].failed \in Nat
           /\ request[q].delivered \in Nat
  <1>1. request[q] \in Forwarded /\ clock \in Nat
    BY DEF TypeOK
  <1>. QED
    BY <1>1 DEF Forwarded

LEMMA AnswerEnds ==
    ASSUME TypeOK, NEW q \in Request, NEW code \in {0, 200, 404, 500, 502}, Answer(q, code)
    PROVE  Ends(q)
  BY DEF Answer, NotMade, TypeOK, Ends

LEMMA FailureActs ==
    ASSUME TypeOK, NEW q \in Request, NEW err, ErrorHandler(q, err),
           err = "not started" => request[q].pc = "select" /\ clock >= timesOutAt(q)
    PROVE  GivesUp(q) \/ Ends(q)
  <1>1. CASE err = "not started"
    <2>1. Answer(q, notStartedResponse(q))
      BY <1>1 DEF ErrorHandler
    <2>2. /\ request'[q].pc = "done"
          /\ request'[q].delivered = request[q].delivered
      BY <2>1 DEF Answer, NotMade, TypeOK
    <2>. QED
      BY <1>1, <2>2 DEF GivesUp
  <1>2. CASE err = "canceled"
    BY <1>2, AnswerEnds DEF ErrorHandler
  <1>3. CASE err \notin {"not started", "canceled"}
    BY <1>3, AnswerEnds DEF ErrorHandler
  <1>. QED
    BY <1>1, <1>2, <1>3

(* What one request does, the others do not notice.                         *)
LEMMA OthersWait ==
    ASSUME TypeOK, NEW q \in Request, NEW p \in Request,
           \/ \E h \in Host : ServeHTTP(p, h)
           \/ Fault(p) \/ RoundTrip(p) \/ Respond(p) \/ Leave(p)
    PROVE  /\ clock' = clock /\ accepts' = accepts
           /\ p # q => request'[q] = request[q]
  <1>1. clock' = clock /\ accepts' = accepts
    BY DEF ServeHTTP, Fault, RoundTrip, Dial, Select, Respond, Leave, apps
  <1>2. \E w : request' = [request EXCEPT ![p] = w]
    <2>1. CASE \E h \in Host : ServeHTTP(p, h)
      BY <2>1 DEF ServeHTTP, Answer, Forward, Goto
    <2>2. CASE Fault(p)
      BY <2>2 DEF Fault, Answer
    <2>3. CASE RoundTrip(p)
      BY <2>3 DEF RoundTrip, Dial, Select, RoundTripFails, ErrorHandler, Answer, Goto
    <2>4. CASE Respond(p)
      BY <2>4 DEF Respond, RoundTripFails, ErrorHandler, Answer, Goto
    <2>5. CASE Leave(p)
      <3>1. request' = [request EXCEPT ![p] = [request[p] EXCEPT !.gone = TRUE]]
        BY <2>5 DEF Leave
      <3>. QED
        BY <3>1
    <2>. QED
      BY <2>1, <2>2, <2>3, <2>4, <2>5
  <1>. QED
    BY <1>1, <1>2 DEF TypeOK

LEMMA StepOfRequest ==
    ASSUME Typed, [Next]_vars, NEW q \in Request
    PROVE  Waits(q) \/ Acts(q)
  <1>. TypeOK
    BY DEF Typed
  <1>. USE DEF TypeOK
  <1>1. ASSUME NEW h \in Host, ServeHTTP(q, h)
        PROVE  Acts(q)
    <2>1. clock' = clock /\ accepts' = accepts /\ request[q].pc = "new"
      BY <1>1 DEF ServeHTTP, Arrives, apps
    <2>2. CASE Answer(q, 404) \/ Answer(q, 500)
      BY <2>1, <2>2, AnswerEnds DEF Acts
    <2>3. ASSUME NEW p \in indexed(h), p.app # NoApp, Forward(q, p, h)
          PROVE  Begins(q)
      <3>1. connectionTimeout(p.app) \in Nat
        BY <2>3, TimeoutType DEF indexed
      <3>. QED
        BY <2>1, <2>3, <3>1 DEF Forward, Goto, Begins
    <2>. QED
      BY <1>1, <2>1, <2>2, <2>3 DEF ServeHTTP, Acts
  <1>2. ASSUME Fault(q)
        PROVE  Acts(q)
    BY <1>2, AnswerEnds DEF Fault, Acts, apps
  <1>3. ASSUME Dial(q)
        PROVE  Acts(q)
    <2>1. clock' = clock /\ accepts' = accepts /\ request[q].pc = "dial"
      BY <1>3 DEF Dial, apps
    <2>2. CASE Goto(q, "sent", [request[q] EXCEPT !.delivered = @ + 1])
      BY <2>1, <2>2 DEF Goto, Delivers, Acts
    <2>3. CASE RoundTripFails(q, "canceled")
      BY <2>1, <2>3, FailureActs DEF RoundTripFails, isDialError, Acts
    <2>4. CASE /\ RoundTripFails(q, "dial")
               /\ LET accepted == accepts[request[q].deployment]
                  IN \/ accepted = 0
                     \/ clock >= request[q].dialed + dialTimeout /\ accepted >= request[q].dialed
      <3>1. Goto(q, "select", [request[q] EXCEPT !.failed = clock])
        BY <2>4 DEF RoundTripFails, isDialError
      <3>2. request'[q] = [request[q] EXCEPT !.failed = clock, !.pc = "select"]
        BY <3>1 DEF Goto
      <3>3. DialFails(q)
        BY <2>1, <2>4, <3>2 DEF DialFails
      <3>. QED
        BY <2>1, <3>3 DEF Acts
    <2>. QED
      BY <1>3, <2>2, <2>3, <2>4 DEF Dial
  <1>4. ASSUME Select(q)
        PROVE  Acts(q)
    <2>1. clock' = clock /\ accepts' = accepts /\ request[q].pc = "select"
      BY <1>4 DEF Select, apps
    <2>2. CASE ErrorHandler(q, "canceled")
      BY <2>1, <2>2, FailureActs DEF Acts
    <2>3. CASE clock >= timesOutAt(q) /\ ErrorHandler(q, "not started")
      BY <2>1, <2>3, FailureActs DEF Acts
    <2>4. CASE clock >= retriesAt(q) /\ Goto(q, "dial", [request[q] EXCEPT !.dialed = clock])
      BY <2>1, <2>4 DEF Goto, Retries, Acts
    <2>. QED
      BY <1>4, <2>2, <2>3, <2>4 DEF Select
  <1>5. ASSUME Respond(q)
        PROVE  Acts(q)
    BY <1>5, AnswerEnds, FailureActs DEF Respond, RoundTripFails, isDialError, Acts, apps
  <1>6. ASSUME Leave(q)
        PROVE  Waits(q)
    BY <1>6 DEF Leave, Waits, apps
  <1>7. ASSUME NEW p \in Request, p # q,
               \/ \E h \in Host : ServeHTTP(p, h)
               \/ Fault(p) \/ RoundTrip(p) \/ Respond(p) \/ Leave(p)
        PROVE  Waits(q)
    BY <1>7, OthersWait DEF Waits
  <1>8. ASSUME NEW d \in Deployment, StartApp(d) \/ Accept(d) \/ StopApp(d) \/ Visit(d)
        PROVE  Waits(q)
    BY <1>8 DEF StartApp, Accept, StopApp, Visit, Waits
  <1>9. CASE Stop \/ Shutdown \/ UNCHANGED vars
    BY <1>9 DEF Stop, Shutdown, vars, apps, Waits
  <1>10. CASE Return
    BY <1>10 DEF Return, Waits, apps
  <1>11. CASE Tick
    BY <1>11 DEF Tick, Waits, apps
  <1>. QED
    BY <1>1, <1>2, <1>3, <1>4, <1>5, <1>6, <1>7, <1>8, <1>9, <1>10, <1>11
       DEF Next, RoundTrip
-----------------------------------------------------------------------------
(* Requests.                                                                *)

(* Nothing is delivered before it is sent, and only what is answered has a  *)
(* code.                                                                    *)
InOrder(q) ==
    LET w == request[q]
    IN /\ w.pc # "done" => w.code = 0
       /\ w.pc \in {"dial", "select"} => w.deployment \in Deployment
       /\ w.pc \in {"new", "dial", "select"} => w.delivered = 0
       /\ w.delivered <= 1
       /\ w.code \in {202, 503} => w.delivered = 0

(* A dial only begins until the timeout, and none takes longer than it may. *)
(* After one that ends later there is no other: a retry takes time, and the *)
(* timeout is due at once.                                                  *)
InTime(q) ==
    LET w == request[q]
    IN /\ w.pc = "dial" => w.dialed <= w.since + w.timeout /\ clock <= w.dialed + dialTimeout
       /\ w.pc = "select" =>
             /\ w.failed <= clock /\ clock <= w.failed + retryInterval
             /\ clock = w.failed \/ clock <= w.since + w.timeout
             /\ clock <= w.since + w.timeout + dialTimeout

(* When the last dial failed, its deployment had not accepted connections   *)
(* for as long as a dial takes.                                             *)
Excused(q) ==
    LET accepted == accepts[request[q].deployment]
    IN request[q].pc = "select" => accepted = 0 \/ request[q].failed <= accepted + dialTimeout

Progress == \A q \in Request : InOrder(q) /\ InTime(q) /\ Excused(q)

LEMMA InitProgress == Init => Progress
  <1>1. ASSUME Init, NEW q \in Request
        PROVE  InOrder(q) /\ InTime(q) /\ Excused(q)
    <2>1. /\ request[q].pc = "new" /\ request[q].code = 0 /\ request[q].delivered = 0
      BY <1>1 DEF Init, NotMade
    <2>. QED
      BY <2>1 DEF InOrder, InTime, Excused
  <1>. QED
    BY <1>1 DEF Progress

LEMMA StaysInOrder ==
    ASSUME Typed, NEW q \in Request, InOrder(q), Waits(q) \/ Acts(q)
    PROVE  InOrder(q)'
  <1>1. request[q] \in Forwarded
    BY RequestType DEF Typed
  <1>2. CASE Waits(q)
    <2>1. /\ request'[q].pc = request[q].pc /\ request'[q].code = request[q].code
          /\ request'[q].deployment = request[q].deployment
          /\ request'[q].delivered = request[q].delivered
      BY <1>1, <1>2 DEF Waits, Forwarded
    <2>. QED
      BY <2>1 DEF InOrder
  <1>3. CASE Begins(q)
    BY <1>3 DEF Begins, NotMade, InOrder
  <1>4. CASE Delivers(q)
    <2>1. /\ request'[q].pc = "sent" /\ request'[q].code = request[q].code
          /\ request'[q].delivered = request[q].delivered + 1 /\ request[q].pc = "dial"
      BY <1>1, <1>4 DEF Delivers, Forwarded
    <2>. QED
      BY <2>1 DEF InOrder
  <1>5. CASE DialFails(q)
    BY <1>1, <1>5 DEF DialFails, InOrder, Forwarded
  <1>6. CASE Retries(q)
    BY <1>1, <1>6 DEF Retries, InOrder, Forwarded
  <1>7. CASE GivesUp(q)
    BY <1>7 DEF GivesUp, InOrder
  <1>8. CASE Ends(q)
    BY <1>8 DEF Ends, InOrder
  <1>. QED
    BY <1>2, <1>3, <1>4, <1>5, <1>6, <1>7, <1>8 DEF Acts

LEMMA StaysInTime ==
    ASSUME Typed, NEW q \in Request, InTime(q), Waits(q) \/ Acts(q)
    PROVE  InTime(q)'
  <1>1. /\ request[q] \in Forwarded /\ clock \in Nat
        /\ request[q].since \in Nat /\ request[q].timeout \in Nat
        /\ request[q].dialed \in Nat /\ request[q].failed \in Nat
        /\ dialTimeout \in Nat /\ retryInterval \in Nat /\ retryInterval > 0
    BY RequestType, ForwardingAssumption DEF Typed
  <1>2. CASE Waits(q)
    <2>1. /\ request'[q].pc = request[q].pc
          /\ request'[q].since = request[q].since /\ request'[q].timeout = request[q].timeout
          /\ request'[q].dialed = request[q].dialed /\ request'[q].failed = request[q].failed
      BY <1>1, <1>2 DEF Waits, Forwarded
    <2>. QED
      BY <1>1, <1>2, <2>1 DEF Waits, due, timesOutAt, retriesAt, InTime
  <1>3. CASE Begins(q) /\ clock' = clock
    BY <1>1, <1>3 DEF Begins, NotMade, InTime
  <1>4. CASE Delivers(q)
    BY <1>1, <1>4 DEF Delivers, InTime, Forwarded
  <1>5. CASE DialFails(q) /\ clock' = clock
    <2>1. /\ request'[q].pc = "select" /\ request'[q].failed = clock
          /\ request'[q].since = request[q].since /\ request'[q].timeout = request[q].timeout
      BY <1>1, <1>5 DEF DialFails, Forwarded
    <2>. QED
      BY <1>1, <1>5, <2>1 DEF DialFails, InTime
  <1>6. CASE Retries(q) /\ clock' = clock
    <2>1. /\ request'[q].pc = "dial" /\ request'[q].dialed = clock
          /\ request'[q].since = request[q].since /\ request'[q].timeout = request[q].timeout
      BY <1>1, <1>6 DEF Retries, Forwarded
    <2>. QED
      BY <1>1, <1>6, <2>1 DEF Retries, retriesAt, InTime
  <1>7. CASE GivesUp(q) \/ Ends(q)
    BY <1>7 DEF GivesUp, Ends, InTime
  <1>. QED
    BY <1>2, <1>3, <1>4, <1>5, <1>6, <1>7 DEF Acts

LEMMA StaysExcused ==
    ASSUME Typed, NEW q \in Request, InOrder(q), InTime(q), Excused(q), Waits(q) \/ Acts(q)
    PROVE  Excused(q)'
  <1>. DEFINE d == request[q].deployment
  <1>1. /\ request[q] \in Forwarded /\ clock \in Nat
        /\ request[q].dialed \in Nat /\ request[q].failed \in Nat /\ dialTimeout \in Nat
        /\ request[q].pc \in {"dial", "select"} => d \in Deployment /\ accepts[d] \in Nat
    BY RequestType, ForwardingAssumption DEF Typed, TypeOK, InOrder
  <1>2. CASE Waits(q)
    <2>1. /\ request'[q].pc = request[q].pc /\ request'[q].deployment = d
          /\ request'[q].failed = request[q].failed
      BY <1>1, <1>2 DEF Waits, Forwarded
    <2>. QED
      BY <1>1, <1>2, <2>1 DEF Waits, InTime, Excused
  <1>3. CASE DialFails(q) /\ accepts' = accepts
    <2>1. request'[q].failed = clock /\ request'[q].deployment = d /\ request[q].pc = "dial"
      BY <1>1, <1>3 DEF DialFails, Forwarded
    <2>. QED
      BY <1>1, <1>3, <2>1 DEF DialFails, InTime, Excused
  <1>4. CASE Begins(q) \/ Delivers(q) \/ Retries(q) \/ GivesUp(q) \/ Ends(q)
    <2>1. request'[q].pc # "select"
      BY <1>1, <1>4 DEF Begins, Delivers, Retries, GivesUp, Ends, NotMade, Forwarded
    <2>. QED
      BY <2>1 DEF Excused
  <1>. QED
    BY <1>2, <1>3, <1>4 DEF Acts

LEMMA Progresses == Spec => [](Typed /\ Progress)
  <1>1. ASSUME Typed, Progress, [Next]_vars
        PROVE  Progress'
    BY <1>1, StepOfRequest, StaysInOrder, StaysInTime, StaysExcused DEF Progress
  <1>. QED
    BY <1>1, InitTyped, NextTyped, InitProgress, PTL DEF Spec

(* A review app gets a request at most once, and not at all when it is      *)
(* answered to retry later.                                                 *)
THEOREM DeliversOnce == Spec => []DeliveredOnce
  <1>1. Progress => DeliveredOnce
    BY DEF Progress, InOrder, DeliveredOnce
  <1>. QED
    BY <1>1, Progresses, PTL

(* No request waits longer than its timeout and the dial that is under way. *)
THEOREM WaitsNoLonger == Spec => []WaitsInTime
  <1>1. ASSUME Typed, Progress
        PROVE  WaitsInTime
    <2>1. SUFFICES ASSUME NEW q \in Request, request[q].pc \in {"dial", "select"}
                   PROVE  clock <= request[q].since + request[q].timeout + dialTimeout
      BY DEF WaitsInTime
    <2>2. /\ clock \in Nat /\ request[q].since \in Nat /\ request[q].timeout \in Nat
          /\ request[q].dialed \in Nat /\ dialTimeout \in Nat
      BY <1>1, RequestType, ForwardingAssumption DEF Typed
    <2>. QED
      BY <1>1, <2>1, <2>2 DEF Progress, InTime
  <1>. QED
    BY <1>1, Progresses, PTL

(* A request is only answered that its review app did not start when it did *)
(* not accept connections, but for the time of a last attempt.              *)
THEOREM NotStartedIsNeverWrong == Spec => NotStartedIsTrue
  <1>. DEFINE Late(q) ==
          LET since == accepts[request[q].deployment]
          IN since = 0 \/ clock <= since + dialTimeout + retryInterval
              True ==
          \A q \in Request :
              request[q].pc = "select" /\ request'[q].code \in {202, 503} => Late(q)
  <1>1. ASSUME Typed, Progress, [Next]_vars
        PROVE  [True]_vars
    <2>1. SUFFICES ASSUME NEW q \in Request, request[q].pc = "select",
                          request'[q].code \in {202, 503}
                   PROVE  Late(q)
      OBVIOUS
    <2>2. /\ request[q] \in Forwarded /\ clock \in Nat /\ request[q].failed \in Nat
          /\ dialTimeout \in Nat /\ retryInterval \in Nat
          /\ request[q].deployment \in Deployment /\ accepts[request[q].deployment] \in Nat
      BY <1>1, <2>1, RequestType, ForwardingAssumption DEF Typed, TypeOK, Progress, InOrder
    <2>3. clock <= request[q].failed + retryInterval
      BY <1>1, <2>1 DEF Progress, InTime
    <2>4. \/ accepts[request[q].deployment] = 0
          \/ request[q].failed <= accepts[request[q].deployment] + dialTimeout
      BY <1>1, <2>1 DEF Progress, Excused
    <2>. QED
      BY <2>2, <2>3, <2>4
  <1>. QED
    BY <1>1, Progresses, PTL DEF Spec, NotStartedIsTrue

-----------------------------------------------------------------------------
(* How it stops.                                                            *)

(* Requests are only cut off by a server that has stopped.                  *)
Stopping ==
    /\ server \in Server /\ clock \in Nat
    /\ server.state # "stopped" => server.cut = {}
    /\ ReadyAccepts /\ CutOffLate

LEMMA StopsInOrder == Spec => []Stopping
  <1>1. Init => Stopping
    BY ForwardingAssumption DEF Init, Stopping, Server, ReadyAccepts, CutOffLate
  <1>2. ASSUME Typed, Typed', Stopping, [Next]_vars
        PROVE  Stopping'
    <2>. USE DEF ReadyAccepts, CutOffLate
    <2>1. server' \in Server /\ clock' \in Nat
      BY <1>2 DEF Typed, TypeOK
    <2>2. CASE Stop
      <3>1. server' = [server EXCEPT !.done = TRUE]
        BY <2>2 DEF Stop
      <3>2. /\ server'.ready = server.ready /\ server'.state = server.state
            /\ server'.cut = server.cut /\ server'.at = server.at
            /\ server'.stoppedAt = server.stoppedAt
        BY <1>2, <3>1 DEF Stopping, Server
      <3>. QED
        BY <1>2, <2>1, <3>2 DEF Stopping
    <2>3. CASE Shutdown
      <3>1. server.cut = {}
        BY <1>2, <2>3 DEF Stopping, Shutdown
      <3>2. /\ server'.cut = {}
            /\ server'.state = "draining" \/ (server'.state = server.state /\ ~server'.ready)
            /\ server'.ready => server'.state = "serving"
        BY <1>2, <2>3, <3>1 DEF Stopping, Shutdown, shutdown, Server
      <3>. QED
        BY <1>2, <2>1, <3>2 DEF Stopping
    <2>4. CASE Return
      <3>1. /\ server'.ready = server.ready /\ server'.state = "stopped"
            /\ server'.cut = {q \in Request : InFlight(q)}
            /\ server'.at = server.at /\ server'.stoppedAt = clock
            /\ ~server.ready
        BY <1>2, <2>4 DEF Stopping, Return, Server
      <3>2. server'.cut = {} \/ clock >= server.at + ShutdownTimeout
        BY <2>4, <3>1 DEF Return, mayReturn, idle
      <3>. QED
        BY <2>1, <3>1, <3>2 DEF Stopping
    <2>5. CASE UNCHANGED server
      BY <1>2, <2>1, <2>5 DEF Stopping
    <2>. QED
      BY <1>2, <2>2, <2>3, <2>4, <2>5
         DEF Next, vars, ServeHTTP, Fault, RoundTrip, Dial, Select, Respond, Leave,
             StartApp, Accept, StopApp, Visit, Tick
  <1>. QED
    BY <1>1, <1>2, InitTyped, NextTyped, PTL DEF Spec

(* A forwarder that is ready accepts connections.                           *)
THEOREM ReadyForwardersAccept == Spec => []ReadyAccepts
  BY StopsInOrder, PTL DEF Stopping

(* Requests are only cut off when they have been waited for.                *)
THEOREM CutOffNoEarlier == Spec => []CutOffLate
  BY StopsInOrder, PTL DEF Stopping
=============================================================================
