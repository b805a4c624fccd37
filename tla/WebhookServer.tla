---------------------------- MODULE WebhookServer ----------------------------
(***************************************************************************)
(* Which webhooks are accepted (internal/webhook/webhook_server.go and     *)
(* oidc.go): the checks of ServeHTTP, and those of                         *)
(* createOrUpdatePullRequest that need nothing but the webhook and the     *)
(* ReviewAppConfig, in the order in which they are made.                   *)
(*                                                                         *)
(* Signatures and ID tokens are what they prove: a webhook is "signed"     *)
(* with the secret or carries a "token" that the issuer made for the       *)
(* audience and that has not expired, or else it proves nothing.           *)
(***************************************************************************)
EXTENDS Integers, Sequences

CONSTANTS
    Branch,
    Deployment,         \* deployments of a ReviewAppConfig
    Image,
    Repository,         \* GitHub repositories
    NoApp,              \* there is no such ReviewAppConfig
    Unwatched,          \* it is in a namespace that the operator doesn't watch
    maxWebhookAge

ASSUME WebhookServerAssumption == maxWebhookAge \in Nat

Method == {"POST", "DELETE", "PUT"}

(* What an ID token says about the workflow that requested it.             *)
Claims == [repository: Repository, event: {"pull_request", "push"},
           headRef: Branch, number: Nat]

(* method is that of the request, and signedFor and signedAt are in the    *)
(* body, "" and 0 when the action is too old to send them.                 *)
Webhook ==
    [auth: {"none", "signed", "token"}, claims: Claims,
     body: {"webhook", "malformed", "too large"}, method: Method, signedFor: Method \cup {""}, signedAt: Nat,
     branch: Branch, image: Image, number: Nat]

(* hosts tells what the host templates are worth, and images are those of  *)
(* the repository of the target containers, which targets says exist.      *)
ReviewAppConfig ==
    [repositories: SUBSET Repository, deployments: Seq(Deployment),
     hosts: {"none", "invalid", "valid"}, targets: BOOLEAN, images: SUBSET Image]

(* Which ways to authenticate the webhook is configured with.              *)
Authentication == SUBSET {"signed", "token"}

-----------------------------------------------------------------------------
(* Signed with the secret.                                                 *)
validateWebhook(m, ways) == m.auth = "signed" /\ "signed" \in ways

(* With a token of the issuer, which can be reached.                       *)
verify(m, ways) == m.auth = "token" /\ "token" \in ways

authenticate(m, ways) == validateWebhook(m, ways) \/ verify(m, ways)

validateReplay(m, now) ==
    /\ m.signedFor # "" /\ m.signedAt # 0
    /\ m.signedFor = m.method
    /\ now - m.signedAt \in -maxWebhookAge..maxWebhookAge

authorizeIDToken(app, m) ==
    /\ m.claims.repository \in app.repositories
    /\ m.claims.event = "pull_request"
    /\ m.claims.headRef = m.branch
    /\ m.claims.number = m.number

(* The first deployment has a host template.                               *)
deployable(app) == app.deployments # <<>> /\ app.hosts # "none"

IsImageAllowed(app, m) == m.image \in app.images

(* The checks, each with the status that a webhook gets that fails it.     *)
checks(m, app, ways, now) ==
    LET post == m.method = "POST"
        found == app \notin {NoApp, Unwatched}
    IN << <<m.body # "too large", 500>>,
          <<authenticate(m, ways), 401>>,
          <<m.body = "webhook", 400>>,
          <<validateReplay(m, now), 401>>,
          <<app # NoApp, 404>>,
          <<app # Unwatched, 500>>,
          <<m.auth = "token" => found /\ authorizeIDToken(app, m), 403>>,
          <<m.method \in {"POST", "DELETE"}, 405>>,
          <<post => found /\ deployable(app), 422>>,
          <<post => found /\ app.targets, 422>>,
          <<post => found /\ IsImageAllowed(app, m), 403>> >>

(* The status of a webhook that is refused, 0 for one that is not.         *)
refusal(m, app, ways, now) ==
    LET c == checks(m, app, ways, now)
        failing == {i \in 1..Len(c) : ~c[i][1]}
    IN IF failing = {} THEN 0
       ELSE c[CHOOSE i \in failing : \A j \in failing : i <= j][2]
=============================================================================
