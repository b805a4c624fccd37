# Review app operator: a TLA+ model

The review app operator runs a Kubernetes Deployment for each open pull request
of a repository, starts it when somebody visits it, scales it down when nobody
does, and deletes it when the pull request closes or nobody has used it for
long. This directory models the code that makes these decisions, checks it with
TLC on small instances, and proves its most important properties with TLAPS.

Paths are relative to `src/`, the repository. "pullrequest_controller.go" is
`internal/controller/pullrequest_controller.go`, "activity.go" is
`internal/controller/activity.go`, "forwarder.go" is
`internal/forwarder/forwarder.go`; webhook_server.go, oidc.go, deployer.go, pods.go
and close.go are in `internal/webhook/`, and resourcenames.go, labels.go,
validation.go, status.go and serve.go in `internal/utils/`.

## The system

Three servers, the controller, the webhook and the forwarder, usually in
processes of their own and in several replicas, talk through the Kubernetes API
server and nothing else.

| Component | State | Operations | Hard parts | Correct when |
|---|---|---|---|---|
| PullRequest controller (pullrequest_controller.go) | nothing but what the API server stores; an informer cache, a workqueue and a timer in memory | `Reconcile`, one PullRequest at a time | every read trails the API server, every write is one object, a crash between any two | at rest the objects are those of the PullRequest and the ReviewAppConfig; what is in use runs; nobody else's objects are touched |
| Activity and Leases (activity.go) | one Lease per deployment: when it was last visited and for how long that holds | `reconcileLease`, `runsUntil`, `leaseHeld`, `wakeUpPredicate`, `migratedRenewTime`, `deleteInactive` | two readings of time, rounded and exact durations; renewals dropped on purpose | no visit is lost; nothing in use is scaled down or deleted |
| Overrides (overrides.go) | `.spec.deployments` of the PullRequest, their hash on the Deployment | `applyOverrides`, `unknownOverrides` | edits race deploys | the last override runs |
| Forwarder: recording visits (forwarder.go) | per process: when each Lease was last renewed | `renewThrottle`, `renewLease` | renewals run in the background, fail late and arrive out of order; routing from a stale cache | a deployment in use keeps its Lease; the API server is not written on every request |
| Forwarder: waiting and forwarding (forwarder.go) | per request: since when it waits, its attempts to connect | `ServeHTTP`, `startingTransport.RoundTrip`, `ErrorHandler` | the timeout races the retry timer, a dial that hangs, the client that leaves and a review app that stops | a request is sent at most once, waits no longer than it should and is told the truth |
| Webhook server (webhook_server.go, oidc.go) | none | authenticates a `POST` or `DELETE` | order of the checks, replays | only signed, recent requests act |
| Deployer (deployer.go, close.go) | none; each deploy is a request that streams | `createOrUpdatePullRequest`, `checkNameConflict`, `deletePullRequestByName` | a check and an act on a stale cache, two writes that are not one | the last deploy wins and no other branch's review app is changed |
| Rollout (deployer.go, pods.go, status.go) | none | `waitForRollout`, `controllerError`, `podInspector.failure` | the status seen may be the one of the rollout before | "done" means the image runs |
| ReviewAppConfig controller (reviewapp_controller.go) | none | removes a finalizer of earlier versions | others add finalizers meanwhile | theirs stay |
| Names (resourcenames.go, labels.go, urls.go, validation.go) | none | normalize and truncate branch names | different branches, same name | the same branch always has the same name; collisions are detected |
| Serving (serve.go) | whether it serves | `Serve` | draining requests while stopping | no new request after the probe failed, those in flight finish or are cut off |
| Metrics (metrics.go) | counters | `recordScale`, `DeploymentsCollector` | | nothing reads them back |
| Wiring (cmd/operator/main.go) | | caches, leader election, start and stop | a new leader starts with an empty cache | |
| Action (action-entrypoint.sh) | | signs and sends one request | | |

How they interact. The webhook creates, patches and deletes the PullRequest,
and writes when it was deployed into its status. The controller watches the
PullRequest, its ReviewAppConfig, and the Leases, Deployments and Services that
it created for it, and answers with writes to these and to the status. The
forwarder finds the PullRequest of a request by the hostnames in its status and
renews the Lease of the deployment; the controller sees that and starts it, while
the forwarder keeps trying to connect. The garbage collector deletes what a
deleted PullRequest owned.

## The modules

| Module | Models | Checked by | Proved in |
|---|---|---|---|
| `Activity` | the arithmetic of activity.go and the predicate on Lease updates, as operators over naturals | every run of the controller and the forwarder | `PullRequestControllerTypeProofs` |
| `OnDemand` | what a review app promises its visitors: the abstract specification | `MCPullRequestController` | `OnDemandProofs` |
| `PullRequestController` | `Reconcile` against everything around it: the core | `MCPullRequestController` | `PullRequestControllerTypeProofs`, `PullRequestControllerProofs`, `OnDemandProofs`, `PullRequestControllerRestProofs` |
| `Forwarder` | how the forwarders record visits | `MCForwarder` | `ForwarderProofs` |
| `Forwarding` | how a forwarder serves requests and stops, in front of the deployments of `OnDemand` | `MCForwarding` | `ForwardingProofs` |
| `WebhookServer` | which webhooks are accepted, as operators | `MCWebhook` | |
| `Rollout` | how a rollout is judged, and how Kubernetes makes one, as operators | `MCWebhook` | |
| `Webhook` | deploys and closes, side by side; extends both | `MCWebhook` | `WebhookProofs` |
| `Names` | names, hostnames, labels and images | `MCNames` | `NamesProofs` |

### PullRequestController

The API server is `pr` (the PullRequest), `app` (the spec of its
ReviewAppConfig), `lease`, `dep` and `svc` (the Lease, Deployment and Service of
each deployment, with the owner of each). `cPr`, `cApp`, `cLease`, `cDep` and
`cSvc` are what the informer cache of the manager has of them, each of which
trails on its own and by any amount. `queued` and `timer` are the workqueue.

`Reconcile` is a program: `pc` says what it does next, `r` has its local
variables, and each action is what it does up to and with one call to the API
server:

| `pc` | Action | Code |
|---|---|---|
| `idle` | `Begin` | reads the PullRequest and the ReviewAppConfig, pullrequest_controller.go:75-94 |
| `missing` | `ReportMissing` | there is no ReviewAppConfig, :86-92 |
| `own` | `Own` | `Update` with the owner reference, :96-107 |
| `list`, `sweep` | `List`, `DeleteUnlisted` | deployments that the spec no longer has, :109-137 |
| `lease` | `ReconcileLease` | hostnames, labels and `reconcileLease`, :318-351, activity.go:154-202 |
| `deployment` | `ReconcileDeployment` | what to do with the Deployment, and its creation, :353-401 |
| `recheck` | `Recheck` | the Lease is read again before scaling down, :424-431 |
| `patch` | `PatchDeployment` | image, overrides, template and replicas, :401-460 |
| `service` | `ReconcileService` | :463-543, and the end of an iteration of the loop |
| `report` | `Report` | the condition and the status, :175-204, 221-275 |
| `inactive`, `leases`, `delete` | `Inactive`, `RereadLease`, `DeleteInactive` | `deleteInactive`, activity.go:226-270 |

Any call may fail (`Fault`), the manager may restart or another replica may take
over at any point, with a cache that is new or one that trails as well
(`Crash`), and between any two steps the informers deliver, the timer fires,
time passes, renewals arrive or are lost, the webhook deploys in two writes or
closes, somebody edits the ReviewAppConfig or the overrides or scales a
Deployment by hand, garbage is collected, and a review app with colliding names
takes or leaves them.

How the data is abstracted:

- A time is a natural number of ticks, `Second` of which make a second, so that
  `metav1.Time` (whole seconds) and `MicroTime` differ and durations are rounded
  as the code rounds them. All processes read the same clock.
- A resourceVersion is the content of the object: two PullRequests of the same
  content are the same version. The API server does not write an update that
  changes nothing, and generations and times tell the others apart. Deployments
  that are scaled back by hand are told apart by the counter `scaled`.
- The template of the ReviewAppConfig is a number and an override is a value: what
  the properties ask is which one runs.
- Updates of an object that follow each other may arrive as one, which informers
  do after a broken watch. Periodic resyncs are left out: they only add
  reconciliations, and the properties must not need them.
- A step that reads only the cache is taken at once after the one before
  (`ReadsCacheOnly`): as the cache trails by any amount, what happens in between
  could as well have happened before, unseen.
- The reconciliation of another review app runs in the same worker, with the same
  cache, between two of this one's.
- A renewal is in flight until it is applied or lost. The core lets it arrive
  at any later time, longer than the 10 seconds of its context, as this only adds
  behaviours. `Forwarder` has the timeout.
- A deployment that runs when the model starts has one replica, while the
  ReviewAppConfig says two: as if somebody had scaled it.

### Forwarder

Per process, `throttle` is the `renewThrottle` of the process (with 0 for a key
that is not in the map), and `routed` what its cache routes. Per request,
`request` is what `ServeHTTP` does and `renewal` what its goroutine does. `Arrive`
is the lookup up to `time.Now()`; `Claim` is `claim` under the mutex, with
the pruning, so that claims are made with times out of order. `Send` is
`renewLease` taking its time, `Apply` the patch at the API server, `Answer` and
`FailRenewal` what the goroutine does with the result: a renewal that fails may
have been applied, and one that timed out is not applied any more. `Restart`
empties the throttle; renewals that were sent may still arrive. `Close` and
`Reopen` take the Lease away and bring back one without a renew time. `reopened`
is a history variable: the deployments closed since the process claimed them.

### OnDemand

`phase` of a deployment is none, stopped or running. A step starts one that is
`Wanted` (it has been visited, or starts on deploy), stops one that has not been
visited for as long as it runs after a visit, removes any, or leaves it, and
never forgets that there was a visit. PullRequestController implements it with
`phase` the replicas of the Deployment at the API server (`phaseOf`) and `visited`
the renew time of its Lease (`visitedAt`): `KeepsPromise` is that specification as a
PROPERTY. `unseen` allows the one exception, the visit in the gap between the last
read and the patch. Forwarding instantiates the same module for the deployments
that it forwards to, so that the forwarder is checked against what the
controller is checked to do.

### Forwarding

Per request, `request` has the local variables of `ServeHTTP` and `RoundTrip`. `pc` is
`new`, `dial` (in `transport.RoundTrip`), `select` (at the `select` of the three
channels), `sent` (the review app has it) and `done`.

| Action | Code |
|---|---|
| `ServeHTTP`, `Fault` | from the host index to the proxy: no PullRequest, several, no ReviewAppConfig, or a deployment with that hostname, forwarder.go:183-282 |
| `Dial`, `Select` | an attempt, and the wait after one that failed: `RoundTrip`, forwarder.go:161-201 |
| `Respond` | the review app answers, or the connection breaks after it got the request |
| `Leave` | the client leaves |
| `Stop`, `Shutdown`, `Return` | serve.go:26-59: the readiness probe, `Shutdown`, its timeout and `Close` |
| `StartApp`, `Accept`, `StopApp`, `Visit` | the deployment, as `OnDemand` lets it; a visit is recorded or lost |

A dial is refused at once while nothing accepts connections, or hangs for
`dialTimeout` when it began before something does. When several channels of the
`select` are ready, any of them may be taken. Timers and dials are not late:
`Tick` waits for what is due.

### WebhookServer, Rollout and Webhook

`checks` are the checks that a webhook has to pass, in the order of the code, each
with the status that fails it; `refusal` is the first of them that fails. A
signature and a token are what they prove.

Per request, `request` has the local variables of the handler:

| `pc` | Action | Code |
|---|---|---|
| `new` | `Receive` | `ServeHTTP` to the method, webhook_server.go:258-341, and the checks of deployer.go:40-72 |
| `check` | `checkNameConflict` | deployer.go:248-279 |
| `get`, `create`, `patch`, `status` | `Get`, `Create`, `Patch`, `PatchStatus` | `CreateOrPatch` and the deploy information, deployer.go:84-125 |
| `attempt`, `inspect` | `Attempt`, `Inspect` | `waitForRollout`, one Deployment at a time, deployer.go:170-240, pods.go |
| `close`, `delete` | `Close`, `Delete` | `deletePullRequestByName`, close.go |

`prs` and `deps` are the PullRequests and Deployments by name at the API server, `cPrs`
and `cDeps` what the cache has. A patch is what differs between the copy that was
read and the one that is wanted, applied by name to whatever is stored (`merged`).
What the cache has is delivered at any time, any call may fail, clients leave,
and the operator restarts. The controller is what the webhook sees of it (`Apply`,
`Report`), Kubernetes is `Run`, `Observe`, `ExceedDeadline` and `Collect`: a Deployment has at
most one pod of each image, and its status trails. `ran` is a history variable: the
images that a Deployment has been rolled out with. The pauses between two attempts
are not tied to the clock, and `maxAttempts` stands for the code's 600.

Two branches may share the name of their PullRequest, and then share those of
their Deployments (`WebhookAssumption`). `SharedNamesAreShared` proves
that of the code's names.

### Names

The state is a branch name, built character by character, and a deployment: a
name, a host template and an image. The alphabet is a parameter: there are lowercase
letters, digits, characters that have a lowercase letter, separators, the space, and
those that `normalize` drops. So are the lengths of a label (63) and a hostname (253).
A template is the sequence of its characters and variables.

The names and hostnames of a branch are operators of the state, and each step of the
code (`lower`, `TrimSpace`, `allowed`, `collapsed`, `stripped`, `cut`) is an operator of
its own. `GetHostnameFromTemplate` renders the template (`render`, with the values of
its variables, `valuesOf`), and once more if its label is too long and has a random ID,
with the name of the branch `shortened` by the excess. The hostname is split at its
first dot (`Label`, `Domain`), the label fitted (`fit`) and the whole validated
(`validHost`).

## The runs

TLC checks twelve runs. "Scenarios" bound how often each event happens; each has the
events that a hazard needs and no others, so that every combination within it is
explored. The clock and all counters are bounded by these budgets, in the guards.

| Run | What it checks | Bounds | States |
|---|---|---|---|
| `activity` | `TypeOK`, `ActiveRuns`, `LooksAgain`, `ScaleDownJustified`, `DeleteJustified`, `KeepsPromise` | one deployment; 5 ticks, 3 visits, two renewals in flight and a lost one; a crash with 2 visits; deletion against visits and deploys; an upgrade | 2.6 million |
| `lifecycle` | `Converged`, `ActiveRuns`, `NoTakeover`, `KeepsPromise` | two deployments; nine scenarios of opening, closing and reopening, colliding names, overrides, edits, scaling, a failing call, a crash, an upgrade | 2.7 million |
| `live` | `VisitStarts`, `Settles` | one deployment, visits with expiry, a crash, scaling by hand, a failing call, a deploy | 115 thousand |
| `forwarder` | `TypeOK`, `ThrottledIsHeld` | two processes, three requests; four scenarios: racing, a restart, an edit, closing and reopening | 4.0 million |
| `request` | `TypeOK`, `DeliveredOnce`, `WaitsInTime`, `CutOffLate`, `ReadyAccepts`, `NotStartedIsTrue`, `Answered`, `Stops` | two requests, two deployments; eight scenarios of routing, waiting, leaving, running and stopping; eight ticks | 177 thousand |
| `webhook` | `TypeOK`, `RefusedChangesNothing`, `DeployedRan`, `TouchesOnlyItsBranch`, `UpToDate`, `Answered` | two requests, three branches of which two share all names and the third one name of a Deployment, two images; sixteen scenarios | 135 thousand |
| `names` | `TypeOK`, `ValidNames`, `SameNames`, `HasRandomID`, `LongBranches`, `DistinctHosts`, `SameRepository` | all branches of up to four characters of five classes, eleven host templates, eighteen images | 22 thousand |
| `upgrade`, `subsecond`, `reopened`, `released`, `selectors` | one property each, which fails | the smallest that shows it | until the violation |

Why the bounds are enough. A visit that is lost or a deployment wrongly scaled
down takes one visit that starts it, one that races its end, and one that
races Reconcile: three visits. A scaleDownAfter of two ticks lets a Lease run out,
be renewed and run out again in five ticks. Deployments do not share state except
the loop over them and the error that ends it, for which two of them suffice:
the first fails by a failing call or a conflict, the second also by its
hostnames. A PullRequest that is deleted and created again (`Reopens`) meets the
objects of the one before; an owner is the next PullRequest's or not, whichever
comes between. In `forwarder` a renewal may take twice as long as the shortest
interval, as the code's 10 seconds are to 5, so that a renewal can fail after the
next one has been claimed, and the model is longer than the longest interval, so
that pruning happens. Deployments share nothing of the throttle but `lastPrune`;
one is checked, any number is proved. In `request` a dial may take longer than a retry
interval and the timeout has room for several attempts, so that the timeout
comes before, during and after a dial; requests share nothing but the deployment,
so that two of them (one that has started it) are enough. In `webhook` two requests
have every order of two deploys, a deploy and a close, of the same branch or of
colliding ones; one more attempt than the first is enough for every state of a
Deployment to be seen by the first or the last. In `names` a name of a PullRequest has
room for three characters of the branch and that of a Deployment for one, so that
four characters are cut at every place, and hostnames have room for 8 characters, so
that some are too long.

`CHECK_DEADLOCK FALSE`: a model whose budgets are spent, with nothing left to
deliver, stops. `Settles` and `Converged` are about those very states.

What the properties say:

- `ScaleDownJustified`: a deployment is scaled down only when scaleDownAfter has
  passed at the API server, or the visit arrived in the gap between the last read
  and the patch (`raced`), which the code cannot close and `ActiveRuns` repairs.
- `DeleteJustified`: the same for deleting the review app, where the precondition
  on the version of the PullRequest excludes every deploy.
- `ActiveRuns`: when the controller has seen everything and has nothing queued, what
  is active runs. This is what dropping renewals of held Leases must not break.
- `LooksAgain`: when it rests with something that will be due, its timer is set.
- `Converged`: when it rests, the objects and the status are those of the
  PullRequest and the ReviewAppConfig.
- `NoTakeover`: no step of Reconcile changes an object of another review app.
- `VisitStarts`: a visited deployment starts, unless its Lease runs out first.
- `Settles`: the controller's writes do not keep it busy.
- `KeepsPromise`: the controller implements `OnDemand`.
- `ThrottledIsHeld`: a visit that the throttle lets pass without a renewal finds
  the Lease held, or being renewed, at the time of the visit.
- `DeliveredOnce`: a review app gets a request at most once, and not at all when the
  answer is to retry later.
- `WaitsInTime`: a request waits no longer than its timeout and a dial, however often
  it is tried.
- `NotStartedIsTrue`: it is told that the review app did not start only if nothing has
  accepted connections for longer than a last attempt takes.
- `CutOffLate`, `ReadyAccepts`, `Stops`: a forwarder cuts requests off only after the
  timeout, is ready only while it accepts connections, and stops, whatever its
  requests do. `Answered`: no request waits for ever.
- `TouchesOnlyItsBranch`: a deploy or a close changes the PullRequest of another branch
  only if that branch wrote it after the cache was read to compare them.
- `UpToDate`: after a deploy has written it, the PullRequest has its image and branch,
  unless the copy it was compared with was stale.
- `RefusedChangesNothing`: a webhook that is refused has not written anything.
- `DeployedRan`: a deploy is reported as deployed only when all deployments of the
  review app have been rolled out with its image: not by the status of the rollout
  before, nor by pods of another image.
- `ValidNames`, `SameNames`: every branch has valid names, and branches that share a
  PullRequest share its Deployments.
- `HasRandomID`, `LongBranches`, `DistinctHosts`: hostnames keep the random ID however
  long the branch is, no branch is too long for a template that a short one fits,
  and different random IDs never give the same hostname.
- `SameRepository`: images are of the same repository exactly when they differ only
  in tag and digest.

Fairness. In `webhook`, each request's handler continues (a goroutine of its own that
no lock holds up; `Answered` in the presence of a controller, a cluster and a
cache that may do nothing at all). In `request`, `RoundTrip`, `Shutdown` and `Return`
continue and time passes; neither the deployment, nor the client, nor the review
app have to do anything. In `live`, `Reconcile` continues, the timer fires, informers and the
garbage collector deliver, a renewal and the webhook's writes end, and time
passes: controller-runtime's worker, its watches, contexts with deadlines and a
running API server. All of it is weak fairness of single processes; visits,
deploys, failures and crashes are under none.

## What is disproved

Five runs show that the code does not do what its comments say. Each quotes
them in PROJECT.json.

- `upgrade`: `reconcileLease` computes the migrated renew time with a later
  `time.Now()` than the one by which `Reconcile` judges it, so upgrading starts a
  deployment that was deployed recently without being started (activity.go:173).
- `subsecond`: a Lease lasts for scaleDownAfter rounded to seconds, while
  `runsUntil` is exact. Between the two a visit is dropped, and the deployment does
  not start, if scaleDownAfter has a fraction (activity.go:86).
- `reopened`: the throttle's key is the name of the deployment, so after closing and
  reopening a pull request its visits renew nothing until the interval is over
  (forwarder.go:258).
- `released`: a renewal that fails late forgets the claim of a later one, so a
  Lease is renewed twice in an interval (forwarder.go:267). It errs on the safe side.
- `selectors`: the name of the deployment comes last in its instance label and is cut
  off when the ReviewAppConfig and the branch fill it. Two deployments then have
  equal labels, and the Service of each selects the pods of both (labels.go:27).

With a scaleDownAfter shorter than the interval plus the time that a renewal
takes (15 seconds in the worst case), nothing holds a deployment between two
renewals. `LongEnough` states this precondition of `ThrottledIsHeld`; nothing in
the code or the schema requires it, and no document promises otherwise.

## What is proved

TLAPS checks all proofs, for every value of the constants: any number of
deployments, images, forwarders, requests, any configurations and budgets, and names
of any length over any alphabet. All invariants and all action properties of the
runs that pass are proved. The assumptions are `SecondAssumption` (a second has
ticks), `ControllerAssumption`, `ForwarderAssumption`, `ForwardingAssumption`,
`WebhookServerAssumption` and `WebhookAssumption` (types of constants, time starts
after 0, which is Go's zero time, finitely many images, and colliding names as
above), `NamesAssumption` (no two deployments of a ReviewAppConfig have the same
name: the API server validates it, reviewappconfig_types.go:115),
`ScenarioAssumption` (scenarios are of their type), `CharacterAssumption` (classes
of characters have none in common), `NameAssumption` (what the API server allows in
names of ReviewAppConfigs and in host templates, that branches of git have no
spaces, and that random IDs have one length), and `ImageAssumption` (the grammar of
image references).

Some theorems have a hypothesis of their own. `WholeSeconds`, of `AlwaysActiveRuns`, is that
scaleDownAfter is in whole seconds. `AppHasLetter` is that the ReviewAppConfig has a
letter in its name: Kubernetes allows names of digits only, of which `normalize` leaves
nothing. `NoSpaces` is that no deployment has a space in its name, see `SpacesAreKept`.

- `HeldWhileRunning` (`PullRequestControllerTypeProofs`): for whole seconds, a Lease is held exactly
  as long as the visits in it keep the deployment running. This is why dropping
  renewals of held Leases is right, and `subsecond` shows why it needs whole seconds.
- `TypeCorrect` (`PullRequestControllerTypeProofs`): `Spec => []TypeOK`. It is not
  inductive alone: that `r.i` is an index of the ReviewAppConfig, and that there is
  one, depends on `pc`. The inductive invariant is `Typed`, `TypeOK` with `Located`.
- `NeverTakesOver` (`PullRequestControllerProofs`): `Spec => NoTakeover`, from
  `Spared`: what Reconcile has decided to write or delete, and what the cache has as
  its own, is not another review app's at the API server. The names can only
  be taken when neither the API server nor the cache has the object.
- `ScaleDownsJustified`: `Spec => ScaleDownJustified`. The invariant relates what
  Reconcile has read to what there is: time has not gone back (`Past`), a Lease
  that was read again is the one there is unless a visit raced (`Rechecked`), and
  what an earlier version recorded was carried over (`Migrated`).
- `DeletesJustified`: `Spec => DeleteJustified`, from `Counted`: the activity that
  `deleteInactive` has added up covers the Leases that it has read.
- `PromiseKept` (`OnDemandProofs`): `Spec => KeepsPromise`, the refinement of
  `OnDemand`. Its two halves are `PhaseStep`, that a Deployment only changes as
  `OnDemand` allows, and `VisitsKept`, that a deployment that was visited stays so. Four
  invariants are added to those above. `Uids`: the cache and Reconcile may know an
  earlier PullRequest than the API server has, but no object of a later one than
  they know; so what they take for their own of a name that was closed and reopened
  is told apart. `Kept` and `Found`: a Lease that the cache or Reconcile has seen with a
  visit still has one. `LegacyUid`: only the PullRequest of an earlier version has
  activity in its status, so that the visit in it is moved to its own Lease.
- `AlwaysConverged`, `AlwaysLooksAgain` and `AlwaysActiveRuns`
  (`PullRequestControllerRestProofs`): `Spec => []Converged`, `Spec => []LooksAgain` and,
  for whole seconds, `Spec => []ActiveRuns`; see below.
- `ThrottledVisitsAreHeld` and `ForwarderTyped` (`ForwarderProofs`): `Spec =>
  ThrottledIsHeld` and `Spec => []TypeOK`. The inductive invariant is
  `LeaseFollows`: a claim that a process remembers is being carried out, or the
  Lease has a renew time at most `renewTimeout` older than it. A late renewal of
  another forwarder may put the renew time back, but never by more than it may
  take; a failure forgets the claim, whoever made it.
- `DeliversOnce`, `WaitsNoLonger`, `NotStartedIsNeverWrong` and `ForwardingTyped`
  (`ForwardingProofs`). The invariant `Progress` has three parts for each request:
  `InOrder`, what it has in each state of `RoundTrip` (nothing was delivered before
  `sent`); `InTime`, that no timer it waits for is past due; and `Excused`, that
  the last attempt that failed began before anything accepted connections, or
  nothing does. The timeout is only looked at between two attempts: hence the dial
  in `WaitsInTime` and the two intervals in `NotStartedIsTrue`.
- `ReadyForwardersAccept` and `CutOffNoEarlier`, of a forwarder that stops, from
  `Stopping`: the steps of `Serve` come in order and each knows its time.
- `TouchesNoOther` and `WritesWhatItDeploys` (`WebhookProofs`). A UID and a
  generation determine the branch and the image of a PullRequest (`Known`), for
  every copy: in the cache, compared, or patched. UIDs are not used again and
  every change of the two counts the generation, while conditions do not. A patch
  from a copy that was not stale therefore writes what it is meant to.
- `DeployedHasRun`: a Deployment that looks done at the API server or in the cache
  has been rolled out with its image (`Rolled`), since every change of its spec makes
  its status one of an earlier generation, and one that is reported counts pods: as
  many that are updated as there are leaves none of another image. Each Deployment
  that was found done has run with the image of the deploy (`Waits`), though the loop
  looks at them one after the other.
- `RefusedIsUnchanged`, from the order of the checks and the writes (`Handled`), and
  `WebhookTyped`.
- `NamesTyped`, `NamesAreValid`, `SharedNamesAreShared`, `HostsHaveRandomIDs`, `HostsAreDistinct`,
  `LongBranchesHaveHosts` and `RepositoriesAreTold` (`NamesProofs`): every invariant of
  `Names`; see below.
- `SpacesAreKept`: a space inside of a name survives `normalize`, so that without
  `NoSpaces` the theorems about names would be false.

Only model-checked are `VisitStarts`, `Settles`, `Answered` and `Stops`: liveness under
fairness is out of the prover's reach. In particular the theorems about the controller
at rest do not say that it comes to rest; `Settles` does, of the runs' instances.

`OncePerInterval`, `VisitWakes`, `UpgradeStartsNothing` and `SelectsItsPods` do not
hold, nor does `ActiveRuns` without `WholeSeconds` (`subsecond`).

### The controller at rest

`Converged`, `LooksAgain` and `ActiveRuns` say what there is when the controller has
nothing left to do. None of them is inductive: almost all the time the controller
is not at rest. What every step keeps is that nothing is ever missed: whatever the
API server has that Reconcile has not acted on is either known to the cache, and
then the PullRequest is queued, or still to be delivered, and then by an event that
queues it. The invariants say so part by part, for all the time that the PullRequest
is not queued and the cache has its current incarnation (`Quiet`), of the deployments that
the loop of Reconcile has passed or, between two Reconciles, of all (`Handled`;
`HasLease` and `HasDep` in the middle of an iteration).

| Invariant | While `Quiet` | Why it is kept |
|---|---|---|
| `Leased` | the Lease is the PullRequest's, with its duration, or the cache still has it with that duration | its Lease stays while the PullRequest is there, and one that is delivered with another duration is not held back by `wakeUpPredicate` |
| `Synced` | the Deployment of the cache has the image, override and template of the PullRequest, or one that differs is on its way (`Undelivered`) | every change of a Deployment is delivered and queues; what Reconcile writes differs from what the cache has |
| `Patching` | what is about to be patched is what the cache has, and the patch changes it | a patch that changes nothing delivers no event |
| `Serviced` | the Service is the PullRequest's | only the garbage collector deletes one, after the PullRequest is gone |
| `Swept` | a Deployment that the ReviewAppConfig does not have is another's, gone, or in `r.sweep` | `List` goes by the cache, and a new ReviewAppConfig queues |
| `StatusWritten` | condition, generation, owner and hostnames are written, or the cache has yet to see a status that differs | a status that is delivered queues the PullRequest |
| `Timed` | for each deployment that runs and may have to scale down there is a wait (`r.wait`, then `timer`), and one for `deleteAfter` | `running` is decided once for the wait and the replicas |
| `Started` | a deployment that does not run is idle by the Lease of the cache (`Idle`), or its Deployment is on its way | see below |

They rest on what the cache can be wrong about. `Fresh`: while `Quiet`, Reconcile goes
by the PullRequest and ReviewAppConfig that the cache still has, since a new one
queues; so a decision that it takes late is not stale. `DoneSoFar`: what the loop has
passed it has recorded. `KeptObjects` and `KeptPr`: a Service, an owner
reference or a hostname that the cache has seen is still there, and a
Deployment is too unless Reconcile deleted it, its changes by hand only adding up: so a
Deployment that was scaled away and back is not mistaken for the one the cache has.
`Together`: another review app has all objects of a name or none, so Reconcile
does not finish with a Lease of its own and somebody else's Deployment. With
`Typed`, `Past`, `Spared`, `Uids` and `Kept` of the earlier theorems they are
`Trails`, the rest is `Working`; `WorkingStep` is the induction, and `RestConverged`,
`RestLooks` and `RestRuns` read the three properties off at rest, where the cache has
everything and so nothing is on its way.

`Started` is where dropping renewals has to be right. A renewal of a Lease that is held
does not queue the PullRequest, and may be delivered between Reconcile's read of the
Lease and its decision to leave the deployment stopped. `StaysIdle` shows that
such a renewal starts nothing: if the Lease before it was held, the
deployment was to run already. This takes that a Lease is held exactly as long as its
deployment runs, which is true of whole seconds (`HeldWhileRunning`), hence
`WholeSeconds`, and false otherwise, as `subsecond` shows.

### Names of every length

The properties of `Names` hold by what its operators compute, not by what its steps keep:
the inductive invariant is only that the branch is a sequence of the alphabet
(`AlwaysTyped`). What a fold computes takes induction over sequences, and the
provers cannot instantiate an induction theorem that takes an operator. It is done with
sets instead: `Least`, that a set of naturals has a least element, follows from the
well-foundedness of `<`, and from it that a set that has 0 and each successor has all
naturals (`NatInd`), that one that has the empty sequence and each `Append` has all
sequences (`SeqInd`), and that a recursive function exists (`Recursion`). With these, `FoldAppend`
says what `FoldLeft` does at the last element, `FlattenAppend` the same of `FlattenSeq`,
and `FromSplit` and `UpToSplit` what is cut off by `From` and `UpTo`.

- *Names.* `NormalizeIs`: of a text without spaces, `normalize` is the first `MaxLength`
  characters from the first letter on of its plain text (lowercase, allowed,
  collapsed), without what is no letter or digit at the end. So the second `once`, of
  what was cut, changes nothing but the end, which gives `NamesTyped` and `NamesAreValid`
  (`IsLabelIs`). For `SharedNamesAreShared` the two names are a prefix and the plain text
  of the branch, cut; the prefix of the Deployment is longer, so less of the branch is
  left in it than in that of the PullRequest, which decides it (`LongerPrefix`, `SameNamesOf`).
- *Random IDs.* A text that is rendered includes the value of each variable of its
  template (`FlattenIncludes`), and a label with a random ID is refused rather than cut
  (`HostLabel`): hence `HostsHaveRandomIDs`. In `HostsAreDistinct` the values of the variables
  differ between two branches only in `BranchName` and the ID. Equal texts whose parts
  are, one by one, no longer in the first than in the second have equal parts
  (`FlattenPointwise`); IDs are equally long and one of the branch names is no longer than
  the other, so if the hostnames were equal the IDs would be.
- *Long branches.* A template is split at its first dot (`RenderSplit`), and what is
  rendered of either half is valid if each of its words is, a branch as well as a
  single letter (`RenderAsValid`, an induction over the template). Without a random
  ID the label is cut, and is still one (`CutLabels`). With one, `shortened` leaves as many
  characters as there is room for, and the single letter shows that there is room for one
  (`ShortenedFits`, `ShortenedLabels`). `HasRoom` names the two templates that this
  is not true of: with the branch twice, which is shortened by all of the excess in both
  places and may be left with nothing, so that the label starts with a dash, and with a
  domain that leaves no room for a label of full length. The code refuses both.
- *Images.* `RepositoryIs`: what `imageRepository` cuts off is the tag and the digest, as a
  colon of the repository has a slash behind it.

## What is not modelled

PROJECT.json lists every part, and the hazards that no property covers.

- Of the core: the Pod template beyond its version, so also the merging of an
  override's variables; labels (those of a ReviewAppConfig are copied over the ones
  that select pods, labels.go:45), Service ports, the text of hostnames (a template is
  valid or not), `CheckTargetContainers`, foreground deletion and the deletion of the
  ReviewAppConfig. Lookups that are one indexed read of one cache are one step.
- The webhook of the core decides on the API server whether to create or patch.
  `Webhook` has the cache that it really decides on, and in turn no visits or Leases.
- Of the webhook: what a signature or a token proves, the discovery of the issuer
  and the mutex that it holds (oidc.go:57), the progress that is streamed, and two
  ReviewAppConfigs whose names collide (deployer.go:254).
- Of the forwarder: headers, bodies and upgrades, the retries of `http.Transport`
  itself on connections that it reuses, the recorded waiting time, and the timeout
  of the manager that stops it (main.go:144).
- Of names: the number of the pull request in a host template, deployments of a
  ReviewAppConfig whose names normalize to the same (resourcenames.go:176), and URLs.
- The ReviewAppConfig controller is one patch under an optimistic lock: there is no
  step between its read and its write that the API server does not reject.
- Metrics are never read back. The action, the chart and generated code have no state.

Four things are seen in the models or the proofs and not excluded by a property: a
space inside of the name of a deployment stays in the names of its Service and
Deployment, which the API server then refuses (resourcenames.go:39,
`SpacesAreKept`); a deploy may fail on an error of the spec before its own
(deployer.go:318), a close that finds nothing in a stale cache answers "nothing to
delete" (close.go:18), and a deploy whose second write is lost is counted from the
deploy before (deployer.go:101).

## Plan

What could follow, in this order:

1. The number of the pull request in a host template, and deployments whose names
   normalize to the same (resourcenames.go:176).
2. The merging of overrides into a template, should a template become more than
   a version.
