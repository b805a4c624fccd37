------------------------------ MODULE Forwarding ------------------------------
(***************************************************************************)
(* A forwarder that serves requests to review apps                         *)
(* (internal/forwarder/forwarder.go, internal/utils/serve.go): which       *)
(* deployment a hostname is routed to, how a request waits for it to       *)
(* start, what is answered, and how the process stops.                     *)
(*                                                                         *)
(* The deployments are those of OnDemand: the controller starts one that   *)
(* is visited, and stops it when it is not.  How a visit is recorded is    *)
(* Forwarder; here a visit is either recorded at some time or lost.        *)
(***************************************************************************)
EXTENDS Activity, FiniteSets

CONSTANTS
    Request,            \* requests, numbered as they arrive
    Deployment,
    Host,
    NoApp,              \* there is no such ReviewAppConfig
    ConnectionTimeout,  \* of the forwarder
    retryInterval,
    dialTimeout,        \* of the HTTP transport
    ShutdownTimeout,
    Start,              \* the time at which the model starts
    LastArrival,        \* requests arrive and the process is stopped until then,
    Horizon,            \* and the model ends then
    Scenarios           \* what there is and what may happen, see Scenario

ASSUME ForwardingAssumption ==
    /\ Request \subseteq Nat
    /\ ConnectionTimeout \in Nat /\ retryInterval \in Nat \ {0} /\ dialTimeout \in Nat
    /\ ShutdownTimeout \in Nat /\ Start \in Nat \ {0} /\ LastArrival \in Nat /\ Horizon \in Nat

Event == {"request", "lost", "leave", "break", "stop"}

(* connectionTimeout is that of the ReviewAppConfig, 0 when it has none,   *)
(* and hosts are the hostnames in the status of the PullRequest.           *)
PullRequest ==
    [app: [connectionTimeout: Nat] \cup {NoApp}, hosts: [Deployment -> SUBSET Host]]

(* begin tells which deployments run at first, html which requests load a  *)
(* page, faulty that the cache may not be read, and budget bounds the      *)
(* events.                                                                 *)
Scenario ==
    [prs: SUBSET PullRequest, begin: [Deployment -> {"none", "stopped", "running"}],
     scaleDownAfter: Nat, html: SUBSET Request, faulty: BOOLEAN,
     budget: [Event -> Nat]]

ASSUME ScenarioAssumption == Scenarios \subseteq Scenario

VARIABLES
    clock,
    scenario,
    phase,      \* of each deployment, see OnDemand
    visited,    \* when it was visited, as recorded
    accepts,    \* since when it accepts connections, 0 while it doesn't
    renewing,   \* the deployments whose visits are being recorded
    request,    \* what the forwarder does for each request
    server,     \* the HTTP server of the forwarder
    left        \* how often each event may still happen

apps == <<phase, visited, accepts>>
vars == <<clock, scenario, apps, renewing, request, server, left>>

(* since is when the request began to wait, dialed when it last dialed,    *)
(* delivered how often the review app got it, gone that the client left or *)
(* was cut off, and code the answer, 0 when there is none.                 *)
NotMade ==
    [pc |-> "new", deployment |-> "", timeout |-> 0, since |-> 0, dialed |-> 0,
     failed |-> 0, delivered |-> 0, gone |-> FALSE, code |-> 0]

Label == {"new", "dial", "select", "sent", "done"}
Code == {0, 200, 202, 404, 500, 502, 503}

Forwarded ==
    [pc: Label, deployment: Deployment \cup {""}, timeout: Nat, since: Nat, dialed: Nat,
     failed: Nat, delivered: Nat, gone: BOOLEAN, code: Code]

InFlight(q) == request[q].pc \in {"dial", "select", "sent"}

(* ready is the readiness probe, done is that ctx is, from at on, and cut  *)
(* are the requests that were in flight when the server stopped.           *)
Server ==
    [ready: BOOLEAN, state: {"serving", "draining", "stopped"}, done: BOOLEAN, at: Nat,
     stoppedAt: Nat, cut: SUBSET Request]

TypeOK ==
    /\ clock \in Nat
    /\ phase \in [Deployment -> {"none", "stopped", "running"}]
    /\ visited \in [Deployment -> Nat] /\ accepts \in [Deployment -> Nat]
    /\ renewing \subseteq Deployment
    /\ request \in [Request -> Forwarded]
    /\ server \in Server
    /\ left \in [Event -> Nat]

Init ==
    /\ clock = Start
    /\ scenario \in Scenarios
    /\ left = scenario.budget
    /\ phase = scenario.begin
    /\ visited = [d \in Deployment |-> IF phase[d] = "running" THEN Start ELSE 0]
    /\ accepts = [d \in Deployment |-> IF phase[d] = "running" THEN Start ELSE 0]
    /\ renewing = {}
    /\ request = [q \in Request |-> NotMade]
    /\ server = [ready |-> TRUE, state |-> "serving", done |-> FALSE, at |-> 0,
                 stoppedAt |-> 0, cut |-> {}]

Spend(event) ==
    /\ left[event] > 0
    /\ left' = [left EXCEPT ![event] = @ - 1]

-----------------------------------------------------------------------------
(* The deployments.                                                        *)

App == INSTANCE OnDemand WITH
    unseen <- FALSE,
    after <- [d \in Deployment |-> scenario.scaleDownAfter],
    onDeploy <- [d \in Deployment |-> FALSE],
    byHand <- [d \in Deployment |-> 0]

StartApp(d) ==
    /\ phase' = [phase EXCEPT ![d] = "running"]
    /\ App!StartUp(d)
    /\ UNCHANGED <<clock, scenario, visited, accepts, renewing, request, server, left>>

Accept(d) ==
    /\ phase[d] = "running" /\ accepts[d] = 0
    /\ accepts' = [accepts EXCEPT ![d] = clock]
    /\ UNCHANGED <<clock, scenario, phase, visited, renewing, request, server, left>>

StopApp(d) ==
    /\ phase' = [phase EXCEPT ![d] = "stopped"]
    /\ App!Stop(d)
    /\ accepts' = [accepts EXCEPT ![d] = 0]
    /\ UNCHANGED <<clock, scenario, visited, renewing, request, server, left>>

Visit(d) ==
    /\ d \in renewing /\ renewing' = renewing \ {d}
    /\ \/ visited' = [visited EXCEPT ![d] = clock] /\ UNCHANGED left
       \/ Spend("lost") /\ UNCHANGED visited
    /\ UNCHANGED <<clock, scenario, phase, accepts, request, server>>

-----------------------------------------------------------------------------
(* Requests.                                                               *)

Goto(q, label, locals) == request' = [request EXCEPT ![q] = [locals EXCEPT !.pc = label]]

(* The locals of a request that has been answered are of no use.           *)
Answer(q, code) ==
    request' = [request EXCEPT ![q] =
        [NotMade EXCEPT !.pc = "done", !.code = code, !.delivered = request[q].delivered]]

connectionTimeout(app) ==
    IF app.connectionTimeout > 0 THEN app.connectionTimeout ELSE ConnectionTimeout

(* The PullRequests that are indexed by the hostname.                      *)
indexed(host) == {p \in scenario.prs : \E d \in Deployment : host \in p.hosts[d]}

(* Whichever deployment with the hostname comes first in the map.          *)
Forward(q, p, host) ==
    \E d \in {d \in Deployment : host \in p.hosts[d]} :
        /\ renewing' = renewing \cup {d}
        /\ Goto(q, "dial",
                [NotMade EXCEPT !.deployment = d, !.timeout = connectionTimeout(p.app),
                                !.since = clock, !.dialed = clock])

Arrives(q) ==
    /\ Spend("request")
    /\ request[q].pc = "new" /\ \A p \in Request : p < q => request[p].pc # "new"
    /\ server.state = "serving" /\ clock <= LastArrival

ServeHTTP(q, host) ==
    /\ Arrives(q)
    /\ LET items == indexed(host)
       IN \/ items = {} /\ Answer(q, 404) /\ UNCHANGED renewing
          \/ Cardinality(items) > 1 /\ Answer(q, 500) /\ UNCHANGED renewing
          \/ /\ Cardinality(items) = 1
             /\ \E p \in items :
                   IF p.app = NoApp THEN Answer(q, 500) /\ UNCHANGED renewing
                   ELSE Forward(q, p, host)
    /\ UNCHANGED <<clock, scenario, apps, server>>

(* The cache can't be read.                                                *)
Fault(q) ==
    /\ Arrives(q) /\ scenario.faulty
    /\ Answer(q, 500)
    /\ UNCHANGED <<clock, scenario, apps, renewing, server>>

(* Mutant: everything that goes wrong is tried again.                      *)
isAnyError(err) == TRUE

isDialError(err) == err = "dial"

(* Mutant: as a gateway would.                                             *)
gatewayTimeout(q) == 504

notStartedResponse(q) == IF q \in scenario.html THEN 202 ELSE 503

(* The client has left when the error is "canceled".                       *)
ErrorHandler(q, err) ==
    Answer(q, CASE err = "not started" -> notStartedResponse(q)
                [] err = "canceled" -> 0
                [] OTHER -> 502)

(* transport.RoundTrip returns an error.                                   *)
RoundTripFails(q, err) ==
    IF isDialError(err) THEN Goto(q, "select", [request[q] EXCEPT !.failed = clock])
    ELSE ErrorHandler(q, err)

(* It is refused at once, or hangs when it began before connections were   *)
(* accepted.                                                               *)
Dial(q) ==
    LET d == request[q].deployment
    IN /\ request[q].pc = "dial"
       /\ \/ accepts[d] # 0 /\ Goto(q, "sent", [request[q] EXCEPT !.delivered = @ + 1])
          \/ accepts[d] = 0 /\ RoundTripFails(q, "dial")
          \/ /\ accepts[d] >= request[q].dialed /\ clock >= request[q].dialed + dialTimeout
             /\ RoundTripFails(q, "dial")
          \/ request[q].gone /\ RoundTripFails(q, "canceled")
       /\ UNCHANGED <<clock, scenario, apps, renewing, server, left>>

(* Mutant: every attempt has the whole timeout.                            *)
timesOutOfAttempt(q) == request[q].failed + request[q].timeout

timesOutAt(q) == request[q].since + request[q].timeout

(* Mutant: the timers are swapped.                                         *)
retriesLate(q) == request[q].failed + request[q].timeout

retriesAt(q) == request[q].failed + retryInterval

(* Whichever of the channels are ready.                                    *)
Select(q) ==
    /\ request[q].pc = "select"
    /\ \/ request[q].gone /\ ErrorHandler(q, "canceled")
       \/ clock >= timesOutAt(q) /\ ErrorHandler(q, "not started")
       \/ /\ clock >= retriesAt(q)
          /\ Goto(q, "dial", [request[q] EXCEPT !.dialed = clock])
    /\ UNCHANGED <<clock, scenario, apps, renewing, server, left>>

(* The review app answers, or not any more.                                *)
Respond(q) ==
    /\ request[q].pc = "sent"
    /\ \/ accepts[request[q].deployment] # 0 /\ Answer(q, 200) /\ UNCHANGED left
       \/ request[q].gone /\ RoundTripFails(q, "canceled") /\ UNCHANGED left
       \/ Spend("break") /\ RoundTripFails(q, "reset")
    /\ UNCHANGED <<clock, scenario, apps, renewing, server>>

Leave(q) ==
    /\ InFlight(q) /\ ~request[q].gone
    /\ Spend("leave")
    /\ request' = [request EXCEPT ![q].gone = TRUE]
    /\ UNCHANGED <<clock, scenario, apps, renewing, server>>

RoundTrip(q) == Dial(q) \/ Select(q)

-----------------------------------------------------------------------------
(* Serve.                                                                  *)

idle == \A q \in Request : ~InFlight(q)

Stop ==
    /\ ~server.done /\ clock <= LastArrival
    /\ Spend("stop")
    /\ server' = [server EXCEPT !.done = TRUE]
    /\ UNCHANGED <<clock, scenario, apps, renewing, request>>

(* Mutant: Shutdown comes first.                                           *)
shutdownFirst ==
    IF server.state = "serving" THEN [server EXCEPT !.state = "draining", !.at = clock]
    ELSE [server EXCEPT !.ready = FALSE]

(* serving.set(false), and then Shutdown closes the listener.              *)
shutdown ==
    IF server.ready THEN [server EXCEPT !.ready = FALSE]
    ELSE [server EXCEPT !.state = "draining", !.at = clock]

Shutdown ==
    /\ server.done /\ (server.ready \/ server.state = "serving")
    /\ server' = shutdown
    /\ UNCHANGED <<clock, scenario, apps, renewing, request, left>>

(* Mutant: Serve returns as soon as the shutdown starts.                   *)
mayReturnAtOnce == TRUE

(* Mutant: requests in flight are waited for.                              *)
mayReturnIdle == idle

(* Shutdown has returned, and Close has been called when it timed out.     *)
mayReturn == idle \/ clock >= server.at + ShutdownTimeout

Return ==
    /\ server.state = "draining" /\ mayReturn
    /\ server' = [server EXCEPT !.state = "stopped", !.stoppedAt = clock,
                                !.cut = {q \in Request : InFlight(q)}]
    /\ request' = [q \in Request |->
          IF InFlight(q) THEN [request[q] EXCEPT !.gone = TRUE] ELSE request[q]]
    /\ UNCHANGED <<clock, scenario, apps, renewing, left>>

-----------------------------------------------------------------------------
(* A timer has fired, or a dial has timed out.                             *)
due(q) ==
    \/ request[q].pc = "dial" /\ clock >= request[q].dialed + dialTimeout
    \/ request[q].pc = "select" /\ (clock >= timesOutAt(q) \/ clock >= retriesAt(q))

(* Serve is about to take a step.                                          *)
dueServer ==
    \/ server.done /\ server.state = "serving"
    \/ server.state = "draining" /\ clock >= server.at + ShutdownTimeout

(* None of them is late.                                                   *)
Tick ==
    /\ clock < Horizon /\ ~dueServer /\ \A q \in Request : ~due(q)
    /\ clock' = clock + 1
    /\ UNCHANGED <<scenario, apps, renewing, request, server, left>>

Next ==
    \/ \E q \in Request :
          \/ \E h \in Host : ServeHTTP(q, h)
          \/ Fault(q) \/ RoundTrip(q) \/ Respond(q) \/ Leave(q)
    \/ \E d \in Deployment : StartApp(d) \/ Accept(d) \/ StopApp(d) \/ Visit(d)
    \/ Stop \/ Shutdown \/ Return \/ Tick

Spec == Init /\ [][Next]_vars

(* Goroutines run, and time passes.                                        *)
Fairness ==
    /\ \A q \in Request : WF_vars(RoundTrip(q))
    /\ WF_vars(Shutdown) /\ WF_vars(Return) /\ WF_vars(Tick)

FairSpec == Spec /\ Fairness

-----------------------------------------------------------------------------
(* Properties.                                                             *)

(* A review app gets a request at most once, and not at all when it is     *)
(* answered to retry later (isDialError, notStartedResponse).              *)
DeliveredOnce ==
    \A q \in Request :
        /\ request[q].delivered <= 1
        /\ request[q].code \in {202, 503} => request[q].delivered = 0

(* A request does not wait for longer than the timeout and the dial that   *)
(* is under way then, however often it has been tried (RoundTrip).         *)
WaitsInTime ==
    \A q \in Request :
        request[q].pc \in {"dial", "select"} =>
            clock <= request[q].since + request[q].timeout + dialTimeout

(* A request is only answered that its review app did not start when it    *)
(* did not accept connections, but for the time of a last attempt          *)
(* (RoundTrip).                                                            *)
NotStartedIsTrue ==
    [][\A q \in Request :
         request[q].pc = "select" /\ request'[q].code \in {202, 503} =>
             LET since == accepts[request[q].deployment]
             IN since = 0 \/ clock <= since + dialTimeout + retryInterval]_vars

(* Requests in flight are only cut off when the forwarder has waited for   *)
(* them for the timeout (Serve).                                           *)
CutOffLate == server.cut # {} => server.stoppedAt >= server.at + ShutdownTimeout

(* A forwarder that is ready accepts connections (Serving.Check).          *)
ReadyAccepts == server.ready => server.state = "serving"

(* Every request that waits for its review app is sent to it or answered.  *)
Answered ==
    \A q \in Request : request[q].pc \in {"dial", "select"} ~> request[q].pc \in {"sent", "done"}

(* A forwarder that is told to stop stops, whatever its requests do.       *)
Stops == server.done ~> server.state = "stopped"
=============================================================================
