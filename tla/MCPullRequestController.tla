----------------------- MODULE MCPullRequestController -----------------------
(***************************************************************************)
(* Small instances of PullRequestController.  A scenario says with which   *)
(* ReviewAppConfig it begins and bounds the events that happen in it, so   *)
(* that each hazard gets the events that it needs and no others.           *)
(***************************************************************************)
EXTENDS PullRequestController, TLC

CONSTANT Scenarios      \* those of a run, one of the sets below

Nothing == [e \in Event |-> 0]

Web(after, starts) ==
    [name |-> "web", scaleDownAfter |-> after, startOnDeploy |-> starts,
     replicas |-> 2, invalid |-> FALSE]

Api == [Web(0, FALSE) EXCEPT !.name = "api", !.replicas = 0]

Config(deployments, after, delete, template) ==
    [deployments |-> deployments, scaleDownAfter |-> after, startOnDeploy |-> FALSE,
     deleteAfter |-> delete, template |-> template]

OneThat(web, delete) == Config(<<web>>, 2, delete, 1)
Both(after, template) == Config(<<Web(after, FALSE), Api>>, 0, 0, template)
OnlyApi == Config(<<Api>>, 0, 0, 1)
Invalid == Config(<<Web(0, FALSE), [Api EXCEPT !.invalid = TRUE]>>, 0, 0, 1)

-----------------------------------------------------------------------------
(* Scaling down, deleting and upgrading, against visits, deploys, lost     *)
(* renewals and crashes, as time passes.                                   *)

Visits ==
    [app |-> OneThat(Web(2, FALSE), 0),
     budget |-> "tick" :> 5 @@ "visit" :> 3 @@ "lost" :> 1 @@ "reconciled" :> 1 @@ Nothing]

VisitsAgainstCrash ==
    [app |-> OneThat(Web(2, FALSE), 0),
     budget |-> "tick" :> 5 @@ "visit" :> 2 @@ "lost" :> 1 @@ "crash" :> 1 @@ "reconciled" :> 1 @@ Nothing]

VisitsAgainstDelete ==
    [app |-> Config(<<Web(0, FALSE)>>, 0, 2, 1),
     budget |-> "tick" :> 3 @@ "visit" :> 1 @@ "reconciled" :> 1 @@ Nothing]

DeploysAgainstDelete ==
    [app |-> OneThat(Web(0, TRUE), 3),
     budget |-> "tick" :> 4 @@ "deploy" :> 1 @@ "reconciled" :> 1 @@ Nothing]

Upgrade ==
    [app |-> OneThat(Web(2, FALSE), 0),
     budget |-> "tick" :> 4 @@ "visit" :> 1 @@ "crash" :> 1 @@ "upgraded" :> 1 @@ Nothing]

ActivityScenarios ==
    {Visits, VisitsAgainstCrash, VisitsAgainstDelete, DeploysAgainstDelete, Upgrade}

-----------------------------------------------------------------------------
(* Opening, closing and reopening, colliding names, changes by hand, edits *)
(* of the ReviewAppConfig and failing calls.                               *)

Opens ==
    [app |-> OneThat(Web(0, FALSE), 0),
     budget |-> "tick" :> 1 @@ "deploy" :> 1 @@ "create" :> 1 @@ "visit" :> 1 @@ Nothing]

Reopens ==
    [app |-> OneThat(Web(0, FALSE), 0),
     budget |-> "visit" :> 1 @@ "close" :> 1 @@ "deploy" :> 1 @@ "create" :> 1 @@ "reconciled" :> 1 @@ Nothing]

Collides ==
    [app |-> OneThat(Web(0, FALSE), 0),
     budget |-> "tick" :> 1 @@ "deploy" :> 1 @@ "create" :> 1 @@ "other" :> 1 @@ Nothing]

ByHand ==
    [app |-> OneThat(Web(0, FALSE), 0),
     budget |-> "tick" :> 1 @@ "override" :> 1 @@ "scale" :> 1 @@ "visit" :> 1 @@ "fault" :> 1
                @@ "reconciled" :> 1 @@ Nothing]

EditsAgainstVisits ==
    [app |-> Both(0, 1),
     budget |-> "tick" :> 1 @@ "edit" :> 1 @@ "visit" :> 1 @@ "reconciled" :> 1 @@ Nothing]

EditsAgainstDeploys ==
    [app |-> Both(0, 1),
     budget |-> "tick" :> 1 @@ "edit" :> 1 @@ "deploy" :> 1 @@ "reconciled" :> 1 @@ Nothing]

Configured ==
    [app |-> NoApp,
     budget |-> "tick" :> 1 @@ "edit" :> 1 @@ "deploy" :> 1 @@ "create" :> 1 @@ Nothing]

Overrides ==
    [app |-> OnlyApi,
     budget |-> "tick" :> 1 @@ "edit" :> 1 @@ "override" :> 1 @@ "crash" :> 1 @@ "reconciled" :> 1 @@ Nothing]

UpgradesTwo ==
    [app |-> Both(0, 1),
     budget |-> "tick" :> 1 @@ "visit" :> 1 @@ "upgraded" :> 1 @@ Nothing]

LifecycleScenarios ==
    {Opens, Reopens, Collides, ByHand, EditsAgainstVisits, EditsAgainstDeploys,
     Configured, Overrides, UpgradesTwo}

-----------------------------------------------------------------------------
(* Liveness.                                                               *)

LiveVisits ==
    [app |-> OneThat(Web(2, FALSE), 0),
     budget |-> "tick" :> 3 @@ "visit" :> 2 @@ "crash" :> 1 @@ "reconciled" :> 1 @@ Nothing]

LiveByHand ==
    [app |-> OneThat(Web(0, FALSE), 0),
     budget |-> "tick" :> 2 @@ "scale" :> 1 @@ "visit" :> 1 @@ "fault" :> 1 @@ "reconciled" :> 1 @@ Nothing]

LiveOpens ==
    [app |-> OneThat(Web(0, FALSE), 0),
     budget |-> "tick" :> 1 @@ "deploy" :> 1 @@ "create" :> 1 @@ "visit" :> 1 @@ Nothing]

LiveScenarios == {LiveVisits, LiveByHand, LiveOpens}

-----------------------------------------------------------------------------
(* A duration of a second and a half, when a second has two ticks.         *)
OneAndAHalf ==
    [app |-> OneThat(Web(3, FALSE), 0),
     budget |-> "tick" :> 4 @@ "visit" :> 1 @@ "override" :> 1 @@ "reconciled" :> 1 @@ Nothing]

SubsecondScenarios == {OneAndAHalf}
UpgradeScenarios == {Upgrade}

-----------------------------------------------------------------------------
StartConfigs == {s.app : s \in Scenarios} \ {NoApp}
EditConfigs == StartConfigs \cup {Both(1, 2), Invalid}

MCBudgets == {s.budget : s \in Scenarios}

MCInit == Init /\ \E s \in Scenarios : app = s.app /\ left = s.budget
MCSpec == MCInit /\ [][Next]_vars
MCFairSpec == MCSpec /\ Fairness

Renewals == Permutations(Forwarder)
=============================================================================
