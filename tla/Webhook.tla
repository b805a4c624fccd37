------------------------------- MODULE Webhook -------------------------------
(***************************************************************************)
(* The deploy webhook (internal/webhook): requests that deploy and close   *)
(* review apps of one ReviewAppConfig, side by side, with an informer      *)
(* cache that trails the API server, and the rollout that a deploy waits   *)
(* for.                                                                    *)
(*                                                                         *)
(* A step of a request is one call to the API server, or what a function   *)
(* reads of the cache.  The controller is what the webhook sees of it: it  *)
(* applies the PullRequest to its Deployments or reports why it can't      *)
(* (PullRequestController has how).                                        *)
(***************************************************************************)
EXTENDS WebhookServer

CONSTANTS
    Request,            \* requests, numbered as they arrive
    Name,               \* names of PullRequests
    PullRequestName,    \* PullRequestName[b]: GetResourceName of a branch
    Object,             \* names of Deployments
    DeploymentName,     \* DeploymentName[b][d]: GetDeploymentName
    NoImage,
    NoWebhook,
    Gracious,           \* reconcileErrorGracePeriod
    maxAttempts,        \* how often the rollout is looked at again
    Start,              \* the time at which the model starts
    Scenarios           \* what there is and what may happen, see Scenario

INSTANCE Rollout

(* Names are normalized and truncated: different branches may share that   *)
(* of their PullRequest, and then share those of their Deployments, which  *)
(* are longer, or share only those of Deployments.                         *)
ASSUME WebhookAssumption ==
    /\ Request \subseteq Nat
    /\ PullRequestName \in [Branch -> Name]
    /\ DeploymentName \in [Branch -> [Deployment -> Object]]
    /\ \A a, b \in Branch :
          PullRequestName[a] = PullRequestName[b] => DeploymentName[a] = DeploymentName[b]
    /\ NoImage \notin Image /\ IsFiniteSet(Image)
    /\ Gracious \in Nat /\ maxAttempts \in Nat /\ Start \in Nat \ {0}

Event == {"request", "tick", "fault", "leave", "crash", "report", "break", "start"}

(* app is the ReviewAppConfig, ways how the webhook authenticates, sent    *)
(* the webhooks that may be sent, each any number of times, running the    *)
(* branch that is deployed already, if any, and budget bounds the events.  *)
Scenario ==
    [app: ReviewAppConfig \cup {NoApp, Unwatched}, ways: Authentication, sent: SUBSET Webhook,
     running: SUBSET Webhook, budget: [Event -> Nat]]

ASSUME ScenarioAssumption == Scenarios \subseteq Scenario

-----------------------------------------------------------------------------
(* Objects.                                                                *)

(* The Reconciled condition: failing is status False, since is its last    *)
(* transition.                                                             *)
Condition == [failing: BOOLEAN, observed: Nat, since: Nat]
Reconciled == [failing |-> FALSE, observed |-> 0, since |-> 0]

(* uid 0 is no PullRequest.                                                *)
PullRequest ==
    [uid: Nat, gen: Nat, branch: Branch \cup {""}, image: Image \cup {NoImage},
     condition: Condition]
NoPr ==
    [uid |-> 0, gen |-> 0, branch |-> "", image |-> NoImage, condition |-> Reconciled]

NoWorkload ==
    [owner |-> 0, ownerName |-> "", image |-> NoImage, replicas |-> 0, gen |-> 0,
     status |-> NoStatus]

VARIABLES
    clock,
    scenario,
    prs,        \* the PullRequests at the API server, by name
    cPrs,       \* and in the cache
    deps,       \* the Deployments at the API server, by name
    cDeps,      \* and in the cache
    pods,       \* the pods of each Deployment
    ran,        \* the images that each Deployment has been rolled out with
    request,    \* what the webhook does for each request
    born,       \* how many PullRequests there have been
    left        \* how often each event may still happen

cluster == <<prs, deps, pods, born>>
cache == <<cPrs, cDeps>>
vars == <<clock, scenario, cluster, ran, cache, request, left>>

app == scenario.app

(* seen is what the cache had when the branch was compared, known the copy *)
(* that the request patches, wrote whether it has changed anything, and    *)
(* code and result its answer.                                             *)
NotReceived ==
    [pc |-> "new", m |-> NoWebhook, seen |-> NoPr, known |-> NoPr, wrote |-> FALSE, i |-> 0,
     finished |-> FALSE, attempts |-> 0, code |-> 0, result |-> ""]

Label ==
    {"new", "check", "get", "create", "patch", "status", "attempt", "inspect", "close",
     "delete", "done"}
Code == {0, 200, 201, 202, 400, 401, 403, 404, 405, 409, 422, 500}
Result ==
    {"", "refused", "error", "left", "nothing to delete", "deleted", "can't be deployed",
     "fails to start", "timeout", "deployed"}

Handling ==
    [pc: Label, m: Webhook \cup {NoWebhook}, seen: PullRequest, known: PullRequest,
     wrote: BOOLEAN, i: Nat, finished: BOOLEAN, attempts: 0..maxAttempts, code: Code,
     result: Result]

TypeOK ==
    /\ clock \in Nat
    /\ prs \in [Name -> PullRequest] /\ cPrs \in [Name -> PullRequest]
    /\ deps \in [Object -> Workload(Image) \cup {NoWorkload}]
    /\ cDeps \in [Object -> Workload(Image) \cup {NoWorkload}]
    /\ pods \in [Object -> Pods]
    /\ ran \in [Object -> SUBSET Image]
    /\ request \in [Request -> Handling]
    /\ born \in Nat
    /\ left \in [Event -> Nat]

-----------------------------------------------------------------------------
(* A review app that was deployed before.                                  *)
Settled(m) ==
    [owner |-> 1, ownerName |-> PullRequestName[m.branch], image |-> m.image,
     replicas |-> 1, gen |-> 1,
     status |-> [observed |-> 1, replicas |-> 1, updated |-> 1, available |-> 1,
                 exceeded |-> FALSE]]

NamesOf(b) == {DeploymentName[b][app.deployments[i]] : i \in 1..Len(app.deployments)}

Init ==
    /\ clock = Start
    /\ scenario \in Scenarios
    /\ left = scenario.budget
    /\ prs = [n \in Name |->
          IF \E m \in scenario.running : PullRequestName[m.branch] = n
          THEN LET m == CHOOSE m \in scenario.running : PullRequestName[m.branch] = n
               IN [NoPr EXCEPT !.uid = 1, !.gen = 1, !.branch = m.branch, !.image = m.image,
                               !.condition.observed = 1]
          ELSE NoPr]
    /\ deps = [o \in Object |->
          IF \E m \in scenario.running : o \in NamesOf(m.branch)
          THEN Settled(CHOOSE m \in scenario.running : o \in NamesOf(m.branch))
          ELSE NoWorkload]
    /\ pods = [o \in Object |->
          [i \in Image |-> IF deps[o].image = i THEN "ready" ELSE "none"]]
    /\ ran = [o \in Object |-> {deps[o].image} \cap Image]
    /\ born = IF scenario.running = {} THEN 0 ELSE 1
    /\ cPrs = prs /\ cDeps = deps
    /\ request = [q \in Request |-> NotReceived]

Spend(event) ==
    /\ left[event] > 0
    /\ left' = [left EXCEPT ![event] = @ - 1]

-----------------------------------------------------------------------------
(* Requests.                                                               *)

Goto(q, label, locals) == request' = [request EXCEPT ![q] = [locals EXCEPT !.pc = label]]

Answer(q, code, result) ==
    request' = [request EXCEPT ![q] =
        [NotReceived EXCEPT !.pc = "done", !.m = request[q].m, !.wrote = request[q].wrote,
                            !.code = code, !.result = result]]

(* Errors after the response has started can't change its status.          *)
Refuse(q, result) ==
    Answer(q, IF request[q].code # 0 THEN request[q].code ELSE 500, result)

name(q) == PullRequestName[request[q].m.branch]

(* Mutant: conflicts are looked for once the PullRequest is written.       *)
checkLast(step) ==
    CASE step = "received" -> "get" [] step = "written" -> "check" [] OTHER -> "attempt"

(* The order of createOrUpdatePullRequest.                                 *)
following(step) ==
    CASE step = "received" -> "check" [] step = "checked" -> "get" [] OTHER -> "attempt"

(* ServeHTTP up to the method, with one look at the clock and at the       *)
(* ReviewAppConfig.                                                        *)
Receive(q, m) ==
    LET code == refusal(m, app, scenario.ways, clock)
        received == [NotReceived EXCEPT !.m = m]
    IN /\ request[q].pc = "new" /\ \A p \in Request : p < q => request[p].pc # "new"
       /\ Spend("request")
       /\ request' = [request EXCEPT ![q] =
             IF code # 0
             THEN [received EXCEPT !.pc = "done", !.code = code, !.result = "refused"]
             ELSE [received EXCEPT !.pc =
                       IF m.method = "DELETE" THEN "close" ELSE following("received")]]
       /\ UNCHANGED <<clock, scenario, cluster, cache>>

(* Mutant: the PullRequest is only looked up by its name.                  *)
conflictsByDeployment(q) ==
    \E o \in NamesOf(request[q].m.branch) : cDeps[o].owner # 0 /\ cDeps[o].ownerName # name(q)

conflicts(q) ==
    \/ cPrs[name(q)].uid # 0 /\ cPrs[name(q)].branch # request[q].m.branch
    \/ \E o \in NamesOf(request[q].m.branch) : cDeps[o].owner # 0 /\ cDeps[o].ownerName # name(q)

checkNameConflict(q) ==
    /\ request[q].pc = "check"
    /\ IF conflicts(q) THEN Answer(q, 409, "refused")
       ELSE Goto(q, following("checked"), [request[q] EXCEPT !.seen = cPrs[name(q)]])
    /\ UNCHANGED <<clock, scenario, cluster, cache, left>>

(* The cache is read once more, to decide what to write.                   *)
Get(q) ==
    /\ request[q].pc = "get"
    /\ Goto(q, IF cPrs[name(q)].uid = 0 THEN "create" ELSE "patch",
            [request[q] EXCEPT !.known = cPrs[name(q)]])
    /\ UNCHANGED <<clock, scenario, cluster, cache, left>>

Create(q) ==
    LET m == request[q].m
        created == [NoPr EXCEPT !.uid = born + 1, !.gen = 1, !.branch = m.branch,
                                !.image = m.image]
    IN /\ request[q].pc = "create"
       /\ IF prs[name(q)].uid # 0
          THEN Refuse(q, "error") /\ UNCHANGED <<prs, born>>
          ELSE /\ prs' = [prs EXCEPT ![name(q)] = created]
               /\ born' = born + 1
               /\ Goto(q, "status", [request[q] EXCEPT !.wrote = TRUE])
       /\ UNCHANGED <<clock, scenario, deps, pods, cache, left>>

(* Mutant: the image is left to the create.                                *)
mergedBranch(stored, copy, m) ==
    [stored EXCEPT !.branch = IF copy.branch # m.branch THEN m.branch ELSE @]

(* A merge patch of what differs from the copy that was read, applied to   *)
(* what is stored by that name.                                            *)
merged(stored, copy, m) ==
    [stored EXCEPT !.image = IF copy.image # m.image THEN m.image ELSE @,
                   !.branch = IF copy.branch # m.branch THEN m.branch ELSE @]

Patch(q) ==
    LET stored == prs[name(q)]
        patched == merged(stored, request[q].known, request[q].m)
    IN /\ request[q].pc = "patch"
       /\ IF stored.uid = 0
          THEN Refuse(q, "error") /\ UNCHANGED prs
          ELSE /\ prs' = [prs EXCEPT ![name(q)] =
                     IF patched = stored THEN stored ELSE [patched EXCEPT !.gen = @ + 1]]
               /\ Goto(q, "status", [request[q] EXCEPT !.wrote = TRUE])
       /\ UNCHANGED <<clock, scenario, deps, pods, born, cache, left>>

(* The deploy information.  The answer then begins to be streamed.         *)
PatchStatus(q) ==
    /\ request[q].pc = "status"
    /\ IF prs[name(q)].uid = 0
       THEN Refuse(q, "error")
       ELSE Goto(q, following("written"),
                 [request[q] EXCEPT !.code = IF request[q].known.uid = 0 THEN 201 ELSE 202])
    /\ UNCHANGED <<clock, scenario, cluster, cache, left>>

-----------------------------------------------------------------------------
(* waitForRollout.                                                         *)

(* controllerError, of the PullRequest in the cache.                       *)
controllerError(pr) ==
    /\ pr.uid # 0 /\ pr.condition.failing
    /\ pr.condition.observed = pr.gen
    /\ clock - pr.condition.since >= Gracious

Attempt(q) ==
    /\ request[q].pc = "attempt"
    /\ IF controllerError(cPrs[name(q)]) THEN Refuse(q, "can't be deployed")
       ELSE Goto(q, "inspect", [request[q] EXCEPT !.i = 1, !.finished = TRUE])
    /\ UNCHANGED <<clock, scenario, cluster, cache, left>>

inspected(q) == DeploymentName[request[q].m.branch][app.deployments[request[q].i]]

(* The rollout of this Deployment is done, of which the cache tells.       *)
done(q) ==
    LET w == cDeps[inspected(q)]
    IN w.owner # 0 /\ hasContainerImage(w, request[q].m.image) /\ rolloutDone(w)

(* It fails: its status says so.                                           *)
exceeds(q) ==
    LET w == cDeps[inspected(q)]
    IN w.owner # 0 /\ hasContainerImage(w, request[q].m.image) /\ deadlineExceeded(w)

(* Or else its pods do, if they can be listed.                             *)
crashes(q) ==
    LET w == cDeps[inspected(q)]
    IN /\ w.owner # 0 /\ hasContainerImage(w, request[q].m.image)
       /\ ~rolloutDone(w) /\ failure(pods[inspected(q)], request[q].m.image)

(* Mutant: attempts are not counted.                                       *)
againForever(q) == Goto(q, "attempt", [request[q] EXCEPT !.i = 0, !.finished = FALSE])

(* Mutant: one attempt too many.                                           *)
againOnceMore(q) ==
    IF request[q].attempts > maxAttempts THEN Refuse(q, "timeout")
    ELSE Goto(q, "attempt", [request[q] EXCEPT !.attempts = @ + 1, !.i = 0, !.finished = FALSE])

again(q) ==
    IF request[q].attempts = maxAttempts THEN Refuse(q, "timeout")
    ELSE Goto(q, "attempt", [request[q] EXCEPT !.attempts = @ + 1, !.i = 0, !.finished = FALSE])

Inspect(q) ==
    LET finished == request[q].finished /\ done(q)
    IN /\ request[q].pc = "inspect"
       /\ \/ (exceeds(q) \/ crashes(q)) /\ Refuse(q, "fails to start")
          \/ /\ ~exceeds(q) /\ request[q].i < Len(app.deployments)
             /\ Goto(q, "inspect", [request[q] EXCEPT !.i = @ + 1, !.finished = finished])
          \/ /\ ~exceeds(q) /\ request[q].i = Len(app.deployments)
             /\ \/ ~finished /\ again(q)
                \/ finished /\ app.hosts = "valid" /\ Answer(q, request[q].code, "deployed")
                \/ finished /\ app.hosts # "valid" /\ Refuse(q, "error")
       /\ UNCHANGED <<clock, scenario, cluster, cache, left>>

-----------------------------------------------------------------------------
(* deletePullRequestByName.                                                *)

Close(q) ==
    /\ request[q].pc = "close"
    /\ IF cPrs[name(q)].uid = 0 \/ cPrs[name(q)].branch # request[q].m.branch
       THEN Answer(q, 200, "nothing to delete")
       ELSE Goto(q, "delete", [request[q] EXCEPT !.seen = cPrs[name(q)]])
    /\ UNCHANGED <<clock, scenario, cluster, cache, left>>

(* Delete has no precondition.                                             *)
Delete(q) ==
    /\ request[q].pc = "delete"
    /\ prs' = [prs EXCEPT ![name(q)] = NoPr]
    /\ IF prs[name(q)].uid = 0 THEN Answer(q, 200, "nothing to delete")
       ELSE Answer(q, 200, "deleted")
    /\ UNCHANGED <<clock, scenario, deps, pods, born, cache, left>>

(* A call to the API server fails.                                         *)
Fault(q) ==
    /\ request[q].pc \in {"create", "patch", "status", "delete"}
    /\ Spend("fault")
    /\ Refuse(q, "error")
    /\ UNCHANGED <<clock, scenario, cluster, cache>>

(* The client leaves, or the webhook is cut off.  A close doesn't notice,  *)
(* and neither do reads of the cache.                                      *)
Leave(q) ==
    /\ request[q].pc \in {"create", "patch", "status", "attempt"}
    /\ Spend("leave")
    /\ Answer(q, request[q].code, "left")
    /\ UNCHANGED <<clock, scenario, cluster, cache>>

Handle(q) ==
    \/ checkNameConflict(q) \/ Get(q) \/ Create(q) \/ Patch(q)
    \/ PatchStatus(q) \/ Attempt(q) \/ Inspect(q) \/ Close(q) \/ Delete(q)

(* The operator is restarted: its requests are lost, its cache is new.     *)
Crash ==
    /\ Spend("crash")
    /\ request' = [q \in Request |->
          IF request[q].pc \in {"new", "done"} THEN request[q]
          ELSE [NotReceived EXCEPT !.pc = "done", !.m = request[q].m,
                                    !.wrote = request[q].wrote, !.result = "left"]]
    /\ cPrs' = prs /\ cDeps' = deps
    /\ UNCHANGED <<clock, scenario, cluster>>

-----------------------------------------------------------------------------
(* What the webhook sees of the controller, which reads the same cache.    *)

(* It creates a Deployment or gives it the image, unless it belongs to     *)
(* another PullRequest.                                                    *)
Apply(n, o) ==
    /\ cPrs[n].uid # 0 /\ app.hosts = "valid" /\ o \in NamesOf(cPrs[n].branch)
    /\ \/ /\ deps[o].owner = 0
          /\ \E replicas \in {0, 1} :
                deps' = [deps EXCEPT ![o] =
                    [NoWorkload EXCEPT !.owner = cPrs[n].uid, !.ownerName = n,
                                       !.image = cPrs[n].image, !.replicas = replicas,
                                       !.gen = 1]]
       \/ /\ deps[o].owner = cPrs[n].uid /\ deps[o].image # cPrs[n].image
          /\ deps' = [deps EXCEPT ![o].image = cPrs[n].image, ![o].gen = @ + 1]
    /\ UNCHANGED <<clock, scenario, prs, pods, born, cache, request, left>>

(* setReconciledCondition on the cached copy, patched by name.  It may     *)
(* fail for any reason, and always does with an invalid host template.     *)
Report(n, failing) ==
    LET condition == cPrs[n].condition
    IN /\ Spend("report")
       /\ app.hosts = "invalid" => failing
       /\ cPrs[n].uid # 0 /\ prs[n].uid # 0
       /\ <<failing, cPrs[n].gen>> # <<condition.failing, condition.observed>>
       /\ prs' = [prs EXCEPT ![n].condition =
              [failing |-> failing, observed |-> cPrs[n].gen,
               since |-> IF failing # condition.failing THEN clock ELSE condition.since]]
       /\ UNCHANGED <<clock, scenario, deps, pods, born, cache, request>>

(* Somebody visits the review app.                                         *)
StartVisited(o) ==
    /\ deps[o].owner # 0 /\ deps[o].replicas = 0
    /\ Spend("start")
    /\ deps' = [deps EXCEPT ![o].replicas = 1, ![o].gen = @ + 1]
    /\ UNCHANGED <<clock, scenario, prs, pods, born, cache, request>>

-----------------------------------------------------------------------------
(* Kubernetes and its cache.                                               *)

Run(o) ==
    /\ deps[o].owner # 0
    /\ \E p \in podSteps(deps[o], pods[o]) :
          /\ IF \E i \in Image : p[i] = "failing" /\ pods[o][i] # "failing"
             THEN Spend("break") ELSE UNCHANGED left
          /\ pods' = [pods EXCEPT ![o] = p]
    /\ UNCHANGED <<clock, scenario, prs, deps, born, cache, request>>

Observe(o) ==
    /\ deps[o].owner # 0
    /\ deps' = [deps EXCEPT ![o].status = reported(deps[o], pods[o])]
    /\ UNCHANGED <<clock, scenario, prs, pods, born, cache, request, left>>

ExceedDeadline(o) ==
    /\ deps[o].owner # 0 /\ observed(deps[o]) /\ ~rolledOut(deps[o], pods[o])
    /\ Spend("break")
    /\ deps' = [deps EXCEPT ![o].status.exceeded = TRUE]
    /\ UNCHANGED <<clock, scenario, prs, pods, born, cache, request>>

Collect(o) ==
    /\ deps[o].owner # 0 /\ \A n \in Name : prs[n].uid # deps[o].owner
    /\ deps' = [deps EXCEPT ![o] = NoWorkload]
    /\ pods' = [pods EXCEPT ![o] = NoPods]
    /\ UNCHANGED <<clock, scenario, prs, born, cache, request, left>>

DeliverPr(n) ==
    /\ cPrs' = [cPrs EXCEPT ![n] = prs[n]]
    /\ UNCHANGED <<clock, scenario, cluster, cDeps, request, left>>

DeliverDep(o) ==
    /\ cDeps' = [cDeps EXCEPT ![o] = deps[o]]
    /\ UNCHANGED <<clock, scenario, cluster, cPrs, request, left>>

Tick ==
    /\ Spend("tick")
    /\ clock' = clock + 1
    /\ UNCHANGED <<scenario, cluster, cache, request>>

(* What each Deployment has been rolled out with, for the properties.      *)
Ran ==
    ran' = [o \in Object |-> ran[o] \cup
        {i \in {deps'[o].image} \cap Image : rolledOut(deps'[o], pods'[o])}]

Step ==
    \/ \E q \in Request : Handle(q) \/ Fault(q) \/ Leave(q)
    \/ \E q \in Request : \E m \in scenario.sent : Receive(q, m)
    \/ Crash \/ Tick
    \/ \E n \in Name : DeliverPr(n) \/ \E failing \in BOOLEAN : Report(n, failing)
    \/ \E o \in Object :
          \/ \E n \in Name : Apply(n, o)
          \/ StartVisited(o) \/ Run(o) \/ Observe(o) \/ ExceedDeadline(o)
          \/ Collect(o) \/ DeliverDep(o)

Next == Step /\ Ran

Spec == Init /\ [][Next]_vars

(* A request has a goroutine of its own, which no lock holds up.           *)
Fairness == \A q \in Request : WF_vars(Handle(q) /\ Ran)

FairSpec == Spec /\ Fairness

-----------------------------------------------------------------------------
(* Properties.                                                             *)

(* A request only changes or deletes the review app of another branch when *)
(* that branch has written it since what the cache had when the branches   *)
(* were compared: different branches may have the same names               *)
(* (checkNameConflict, deletePullRequestByName).                           *)
TouchesOnlyItsBranch ==
    [][\A q \in Request :
         LET stored == prs[name(q)]
             before == request[q].seen
         IN (/\ request[q].pc # "new" /\ request'[q] # request[q] /\ prs'[name(q)] # stored
             /\ stored.uid # 0 /\ stored.branch # request[q].m.branch)
            => <<stored.uid, stored.gen>> # <<before.uid, before.gen>>]_vars

(* A webhook that is refused has changed nothing, so that it may be sent   *)
(* again once the reason is gone (ServeHTTP, createOrUpdatePullRequest).   *)
RefusedChangesNothing ==
    \A q \in Request : request[q].result = "refused" => ~request[q].wrote

(* Only a deploy whose image all the deployments of the review app have    *)
(* been rolled out with is reported as deployed: by no rollout of an       *)
(* earlier image, and by no status of an earlier generation                *)
(* (waitForRollout).                                                       *)
DeployedRan ==
    \A q \in Request : request[q].result = "deployed" =>
        \A o \in NamesOf(request[q].m.branch) : request[q].m.image \in ran[o]

(* Every webhook is answered, however the rollout goes (waitForRollout).   *)
Answered == \A q \in Request : request[q].pc # "new" ~> request[q].pc = "done"

(* createOrUpdatePullRequest "ensures that the desired pull request exists *)
(* and is up to date": it then has the image of the deploy, unless the     *)
(* copy that it was compared with was stale.                               *)
UpToDate ==
    [][\A q \in Request :
         LET stored == prs[name(q)]
             copy == request[q].known
         IN (/\ request[q].pc \in {"create", "patch"} /\ request'[q].pc = "status"
             /\ <<stored.uid, stored.gen>> = <<copy.uid, copy.gen>>)
            => <<prs'[name(q)].branch, prs'[name(q)].image>>
               = <<request[q].m.branch, request[q].m.image>>]_vars
=============================================================================
