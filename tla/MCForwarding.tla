----------------------------- MODULE MCForwarding -----------------------------
(***************************************************************************)
(* Small instances of Forwarding.  A dial may take longer than a retry     *)
(* interval, and the timeout has room for several.                         *)
(***************************************************************************)
EXTENDS Forwarding, TLC

Nothing == [e \in Event |-> 0]

Default == [connectionTimeout |-> 0]
Own == [connectionTimeout |-> 2]

Pr(app, web, api) == [app |-> app, hosts |-> "web" :> web @@ "api" :> api]

Base(prs) ==
    [prs |-> prs, begin |-> "web" :> "stopped" @@ "api" :> "none", scaleDownAfter |-> 0, html |-> {1},
     faulty |-> FALSE, budget |-> [Nothing EXCEPT !["request"] = 2]]

One == {Pr(Default, {"web.pr"}, {})}

(* No PullRequest, or several, have the hostname, or no ReviewAppConfig.   *)
Routing ==
    {Base({}), Base({Pr(NoApp, {"web.pr"}, {})}),
     Base({Pr(Default, {"web.pr"}, {}), Pr(Own, {}, {"web.pr"})}),
     [Base({Pr(Own, {"web.pr"}, {"web.pr"})}) EXCEPT
        !.faulty = TRUE, !.begin = [d \in Deployment |-> "running"]]}

Waiting == Base(One)
Leaving ==
    [Base(One) EXCEPT
        !.budget.request = 1, !.budget.leave = 1, !.budget.break = 1, !.html = {}]
Running ==
    [Base(One) EXCEPT !.begin["web"] = "running", !.scaleDownAfter = 2, !.budget.lost = 1,
                      !.budget.break = 1]
Stopping ==
    [Base(One) EXCEPT !.budget.request = 1, !.budget.stop = 1, !.budget.lost = 1]

All == Routing \cup {Waiting, Leaving, Running, Stopping}
=============================================================================
