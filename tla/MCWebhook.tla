------------------------------ MODULE MCWebhook ------------------------------
(***************************************************************************)
(* Small instances of Webhook: branches "a.b" and "a-b" have the same      *)
(* names, and "a-b-c" has the name of a Deployment in common with them,    *)
(* but not that of its PullRequest.                                        *)
(***************************************************************************)
EXTENDS Webhook, TLC

Names == "a.b" :> "a-b" @@ "a-b" :> "a-b" @@ "a-b-c" :> "a-b-c"
Deployments ==
    LET full == "web" :> "web-a-b" @@ "api" :> "api-a-b"
        truncated == "web" :> "web-a-b" @@ "api" :> "api-a-b-c"
    IN "a.b" :> full @@ "a-b" :> full @@ "a-b-c" :> truncated

Deploy(b, i) ==
    [auth |-> "signed", claims |-> [repository |-> "repo", event |-> "pull_request",
                                    headRef |-> b, number |-> 1],
     body |-> "webhook", method |-> "POST", signedFor |-> "POST", signedAt |-> Start,
     branch |-> b, image |-> i, number |-> 1]
CloseOf(b) ==
    [Deploy(b, "v1") EXCEPT !.method = "DELETE", !.signedFor = "DELETE"]

OfWeb ==
    [repositories |-> {"repo"}, deployments |-> <<"web">>, hosts |-> "valid",
     targets |-> TRUE, images |-> {"v1", "v2"}]
OfWebAndApi == [OfWeb EXCEPT !.deployments = <<"web", "api">>]

(* Nothing of it is ever rolled out.                                       *)
OfNothing == [OfWeb EXCEPT !.hosts = "invalid"]

Nothing == [e \in Event |-> 0]

Base(app_, sent) ==
    [app |-> app_, ways |-> {"signed", "token"}, sent |-> sent, running |-> {},
     budget |-> [Nothing EXCEPT !["request"] = 2]]

(* What can be wrong with a webhook, and with a ReviewAppConfig.           *)
Wrong ==
    LET m == Deploy("a.b", "v1")
        t == [m EXCEPT !.auth = "token"]
    IN {[m EXCEPT !.auth = "none"], [m EXCEPT !.body = "too large"],
        [m EXCEPT !.body = "malformed"], [m EXCEPT !.signedFor = ""],
        [m EXCEPT !.signedFor = "DELETE"], [m EXCEPT !.signedAt = 0],
        [m EXCEPT !.signedAt = Start + 2], [m EXCEPT !.method = "PUT", !.signedFor = "PUT"],
        [t EXCEPT !.claims.repository = "fork"],
        [t EXCEPT !.claims.event = "push"], [t EXCEPT !.claims.headRef = "a-b"],
        [t EXCEPT !.claims.number = 2], t, m}
Refusing ==
    {[Base(OfNothing, Wrong) EXCEPT !.budget.tick = 1]}
    \cup {Base(c, {Deploy("a.b", "v1")}) :
            c \in {NoApp, Unwatched, [OfWeb EXCEPT !.deployments = <<>>],
                   [OfWeb EXCEPT !.hosts = "none"], [OfWeb EXCEPT !.targets = FALSE],
                   [OfWeb EXCEPT !.images = {"v2"}]}}

(* Deploys of one branch, and its close.                                   *)
Redeploying ==
    [Base(OfWeb, {Deploy("a.b", "v1"), Deploy("a.b", "v2")}) EXCEPT
        !.running = {Deploy("a.b", "v1")}]
ClosingBranch ==
    [Base(OfWeb, {Deploy("a.b", "v1"), CloseOf("a.b")}) EXCEPT !.budget.fault = 1]
Leaving ==
    [Base(OfWeb, {Deploy("a.b", "v1")}) EXCEPT
        !.budget.request = 1, !.budget.leave = 1, !.budget.crash = 1, !.budget.start = 1]

Breaking ==
    [Base(OfWeb, {Deploy("a.b", "v2")}) EXCEPT
        !.running = {Deploy("a.b", "v1")}, !.budget.request = 1, !.budget.break = 1]

(* Of branches with the same names.                                        *)
Colliding ==
    Base(OfNothing, {Deploy("a.b", "v1"), Deploy("a-b", "v2"), CloseOf("a.b"), CloseOf("a-b")})
CollidingRunning == [Colliding EXCEPT !.running = {Deploy("a.b", "v1")}]
Truncated ==
    [Base(OfWebAndApi, {Deploy("a-b-c", "v2")}) EXCEPT !.running = {Deploy("a.b", "v1")}]

(* The controller fails, at first or all the time.                         *)
Failing ==
    [Base(OfWeb, {Deploy("a.b", "v2")}) EXCEPT
        !.running = {Deploy("a.b", "v1")}, !.budget.request = 1, !.budget.report = 2, !.budget.tick = 1]
Invalid ==
    [Base(OfNothing, {Deploy("a.b", "v1")}) EXCEPT
        !.running = {Deploy("a.b", "v1")}, !.budget.report = 1, !.budget.tick = 1]

All ==
    Refusing \cup
    {Redeploying, ClosingBranch, Leaving, Colliding, CollidingRunning, Truncated, Breaking,
     Failing, Invalid}
=============================================================================
