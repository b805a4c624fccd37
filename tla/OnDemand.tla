------------------------------- MODULE OnDemand -------------------------------
(***************************************************************************)
(* What the operator promises for the deployments of a review app: one is  *)
(* started when it is used, it is only stopped when it has not been used   *)
(* for a while, and that it was used is not forgotten.  How the controller *)
(* keeps the promise, with a cache that trails the API server, Leases, a   *)
(* workqueue and a timer, is PullRequestController.                        *)
(***************************************************************************)
EXTENDS Activity

CONSTANT Deployment

VARIABLES
    clock,
    unseen,     \* a visit since the controller looked at the visits
    phase,      \* whether there is the deployment, and whether it runs
    visited,    \* when it was last visited, 0 when it never was
    after,      \* for how long it runs after a visit, 0 for ever
    onDeploy,   \* it runs after a deploy as well
    byHand      \* how often somebody scaled it by hand

Init == phase \in [Deployment -> {"none", "stopped", "running"}]

(* There is a reason to start it.                                          *)
Wanted(d) == visited[d] # 0 \/ onDeploy[d]

Create(d) ==
    /\ phase[d] = "none"
    /\ \/ phase'[d] = "stopped"
       \/ phase'[d] = "running" /\ Wanted(d)

StartUp(d) == phase[d] = "stopped" /\ phase'[d] = "running" /\ Wanted(d)

Stop(d) ==
    /\ phase[d] = "running" /\ phase'[d] = "stopped"
    /\ unseen \/ ~runs(visited[d], after[d], clock)

(* The pull request is closed, or the deployment configured away.          *)
Remove(d) == phase'[d] = "none"

Scale(d) ==
    /\ phase[d] # "none" /\ phase'[d] # "none"
    /\ byHand'[d] = byHand[d] + 1

(* Time passes, somebody visits it or configures it otherwise.             *)
Use(d) == phase'[d] = phase[d]

(* What a deployment may do; several may be removed at once.               *)
Step(d) ==
    \/ Remove(d)
    \/ /\ Create(d) \/ StartUp(d) \/ Stop(d) \/ Scale(d) \/ Use(d)
       /\ visited[d] # 0 => visited'[d] # 0

Next == \A d \in Deployment : Step(d)

Spec == Init /\ [][Next]_<<phase, visited>>
=============================================================================
