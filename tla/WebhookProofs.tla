---------------------------- MODULE WebhookProofs ----------------------------
(***************************************************************************)
(* What the webhook promises, for any number of requests, branches and     *)
(* deployments: RefusedChangesNothing, TouchesOnlyItsBranch, UpToDate, and *)
(* DeployedRan.                                                            *)
(***************************************************************************)
EXTENDS Webhook, FiniteSetTheorems, TLAPS

Typed == TypeOK /\ scenario \in Scenario

-----------------------------------------------------------------------------
(* Which webhooks are refused.                                              *)

(* The first check that fails has a status of its own.                      *)
LEMMA RefusalType ==
    ASSUME NEW m, NEW a, NEW ways, NEW now
    PROVE  /\ refusal(m, a, ways, now) \in Code
           /\ refusal(m, a, ways, now) = 0 => a \notin {NoApp, Unwatched}
  <1>. DEFINE c == checks(m, a, ways, now)
              failing == {i \in 1..Len(c) : ~c[i][1]}
              first == CHOOSE i \in failing : \A j \in failing : i <= j
  <1>0. Len(c) = 11
    BY DEF checks
  <1>1. /\ \A i \in 1..11 : c[i][2] \in Code \ {0}
        /\ c[5][1] = (a # NoApp) /\ c[6][1] = (a # Unwatched)
    BY DEF checks, Code
  <1>2. ASSUME failing # {}
        PROVE  first \in 1..11
    <2>1. \E i \in failing : \A j \in failing : i <= j
      BY <1>0, <1>2
    <2>2. first \in failing
      BY <2>1, Zenon
    <2>3. first \in 1..Len(c)
      <3>. HIDE DEF c
      <3>. QED
        BY <2>2
    <2>. QED
      <3>. HIDE DEF c, first
      <3>. QED
        BY <1>0, <2>3
  <1>3. CASE failing = {}
    <2>1. refusal(m, a, ways, now) = 0
      BY <1>3 DEF refusal
    <2>2. c[5][1] /\ c[6][1]
      <3>. HIDE DEF c
      <3>. QED
        BY <1>0, <1>3
    <2>3. 0 \in Code
      BY DEF Code
    <2>4. a \notin {NoApp, Unwatched}
      <3>. HIDE DEF c
      <3>. QED
        BY <1>1, <2>2
    <2>. QED
      BY <2>1, <2>3, <2>4
  <1>4. CASE failing # {}
    BY <1>1, <1>2, <1>4 DEF refusal
  <1>. QED
    BY <1>3, <1>4

-----------------------------------------------------------------------------
(* The types.                                                               *)

LEMMA NoPrType == NoPr \in PullRequest
  BY DEF NoPr, PullRequest, Reconciled, Condition

LEMMA NotReceivedType == NotReceived \in Handling
  BY NoPrType, WebhookAssumption DEF NotReceived, Handling, Label, Code, Result

LEMMA ReportedType ==
    ASSUME NEW w \in Workload(Image), NEW p \in Pods
    PROVE  reported(w, p) \in Status
  <1>1. /\ IsFiniteSet(exist(p)) /\ IsFiniteSet(exist(p) \cap {w.image})
        /\ IsFiniteSet({i \in Image : p[i] = "ready"})
    BY FS_Subset, WebhookAssumption DEF exist
  <1>2. /\ Cardinality(exist(p)) \in Nat /\ Cardinality(exist(p) \cap {w.image}) \in Nat
        /\ Cardinality({i \in Image : p[i] = "ready"}) \in Nat
    BY <1>1, FS_CardinalityType
  <1>3. w.gen \in Nat
    BY DEF Workload
  <1>. QED
    BY <1>2, <1>3 DEF reported, Status

LEMMA InitTyped == Init => Typed
  <1>. SUFFICES ASSUME Init PROVE Typed
    OBVIOUS
  <1>1. scenario \in Scenario /\ left \in [Event -> Nat] /\ clock \in Nat /\ born \in Nat
    BY ScenarioAssumption, WebhookAssumption DEF Init, Scenario
  <1>2. prs \in [Name -> PullRequest]
    <2>1. ASSUME NEW m \in scenario.running
          PROVE  [NoPr EXCEPT !.uid = 1, !.gen = 1, !.branch = m.branch, !.image = m.image,
                              !.condition.observed = 1] \in PullRequest
      <3>1. m \in Webhook
        BY <1>1, <2>1 DEF Scenario
      <3>. QED
        BY <3>1 DEF NoPr, PullRequest, Reconciled, Condition, Webhook
    <2>2. ASSUME NEW n \in Name
          PROVE  prs[n] \in PullRequest
      <3>1. CASE \E m \in scenario.running : PullRequestName[m.branch] = n
        BY <2>1, <3>1 DEF Init
      <3>2. CASE ~ \E m \in scenario.running : PullRequestName[m.branch] = n
        BY <3>2, NoPrType DEF Init
      <3>. QED
        BY <3>1, <3>2
    <2>. QED
      BY <2>2 DEF Init
  <1>3. /\ deps \in [Object -> Workload(Image) \cup {NoWorkload}]
        /\ pods \in [Object -> Pods] /\ ran \in [Object -> SUBSET Image]
    <2>1. ASSUME NEW m \in scenario.running
          PROVE  Settled(m) \in Workload(Image)
      <3>1. m \in Webhook
        BY <1>1, <2>1 DEF Scenario
      <3>2. m.image \in Image /\ PullRequestName[m.branch] \in Name
        BY <3>1, WebhookAssumption DEF Webhook
      <3>. QED
        BY <3>2 DEF Settled, Workload, Status
    <2>2. ASSUME NEW o \in Object
          PROVE  deps[o] \in Workload(Image) \cup {NoWorkload}
      <3>1. CASE \E m \in scenario.running : o \in NamesOf(m.branch)
        BY <2>1, <3>1 DEF Init
      <3>2. CASE ~ \E m \in scenario.running : o \in NamesOf(m.branch)
        BY <3>2 DEF Init
      <3>. QED
        BY <3>1, <3>2
    <2>. QED
      BY <2>2 DEF Init, Pods, Pod
  <1>4. request \in [Request -> Handling]
    BY NotReceivedType DEF Init
  <1>. QED
    BY <1>1, <1>2, <1>3, <1>4 DEF Init, Typed, TypeOK

LEMMA SpendType ==
    ASSUME TypeOK, NEW event \in Event, Spend(event)
    PROVE  left' \in [Event -> Nat]
  BY DEF TypeOK, Spend

LEMMA GotoType ==
    ASSUME TypeOK, NEW q \in Request, NEW label \in Label, NEW locals \in Handling,
           Goto(q, label, locals)
    PROVE  request' \in [Request -> Handling]
  <1>1. [locals EXCEPT !.pc = label] \in Handling
    BY DEF Handling
  <1>. QED
    BY <1>1 DEF Goto, TypeOK

LEMMA RequestType ==
    ASSUME TypeOK, NEW q \in Request
    PROVE  /\ request[q] \in Handling /\ request[q].m \in Webhook \cup {NoWebhook}
           /\ request[q].wrote \in BOOLEAN /\ request[q].code \in Code
           /\ request[q].seen \in PullRequest /\ request[q].known \in PullRequest
           /\ request[q].i \in Nat /\ request[q].attempts \in 0..maxAttempts
  <1>1. request[q] \in Handling
    BY DEF TypeOK
  <1>. QED
    BY <1>1 DEF Handling

LEMMA AnsweredType ==
    ASSUME TypeOK, NEW q \in Request, NEW code \in Code, NEW result \in Result
    PROVE  [NotReceived EXCEPT !.pc = "done", !.m = request[q].m, !.wrote = request[q].wrote,
                               !.code = code, !.result = result] \in Handling
  <1>1. "done" \in Label
    BY DEF Label
  <1>. QED
    BY <1>1, NotReceivedType, RequestType DEF Handling

LEMMA AnswerType ==
    ASSUME TypeOK, NEW q \in Request, NEW code \in Code, NEW result \in Result,
           Answer(q, code, result)
    PROVE  request' \in [Request -> Handling]
  BY AnsweredType DEF Answer, TypeOK

LEMMA RefuseType ==
    ASSUME TypeOK, NEW q \in Request, NEW result \in Result, Refuse(q, result)
    PROVE  request' \in [Request -> Handling]
  <1>1. (IF request[q].code # 0 THEN request[q].code ELSE 500) \in Code
    BY RequestType DEF Code
  <1>. QED
    BY <1>1, AnswerType DEF Refuse

LEMMA NameType ==
    ASSUME TypeOK, NEW q \in Request, request[q].m \in Webhook
    PROVE  /\ name(q) \in Name
           /\ request[q].m.branch \in Branch /\ request[q].m.image \in Image
  BY WebhookAssumption DEF name, Webhook

(* What a step may do to a request.                                         *)
Replied(q, code, result) ==
    [NotReceived EXCEPT !.pc = "done", !.m = request[q].m, !.wrote = request[q].wrote,
                        !.code = code, !.result = result]

Receives(q) ==
    /\ request[q].pc = "new"
    /\ \E m \in Webhook :
          \/ \E code \in Code :
                request'[q] = [NotReceived EXCEPT !.m = m, !.pc = "done", !.code = code,
                                                  !.result = "refused"]
          \/ /\ app \in ReviewAppConfig
             /\ \E label \in {"close", "check"} :
                   request'[q] = [NotReceived EXCEPT !.m = m, !.pc = label]

(* It has compared the branches.                                            *)
Compares(q) ==
    /\ \/ request[q].pc = "check" /\ request'[q].pc = "get"
       \/ request[q].pc = "close" /\ request'[q].pc = "delete"
    /\ cPrs[name(q)].uid # 0 => cPrs[name(q)].branch = request[q].m.branch
    /\ request'[q] = [request[q] EXCEPT !.seen = cPrs[name(q)], !.pc = request'[q].pc]

Gets(q) ==
    /\ request[q].pc = "get" /\ request'[q].pc \in {"create", "patch"}
    /\ request'[q] = [request[q] EXCEPT !.known = cPrs[name(q)], !.pc = request'[q].pc]

Writes(q) ==
    /\ request[q].pc \in {"create", "patch"}
    /\ request'[q] = [request[q] EXCEPT !.wrote = TRUE, !.pc = "status"]

Tells(q) ==
    /\ request[q].pc = "status"
    /\ \E code \in {201, 202} : request'[q] = [request[q] EXCEPT !.code = code, !.pc = "attempt"]

Looks(q) ==
    /\ request[q].pc = "attempt"
    /\ request'[q] = [request[q] EXCEPT !.i = 1, !.finished = TRUE, !.pc = "inspect"]

LooksOn(q) ==
    /\ request[q].pc = "inspect" /\ request[q].i < Len(app.deployments)
    /\ request'[q] = [request[q] EXCEPT !.i = @ + 1, !.finished = (request[q].finished /\ done(q)),
                                        !.pc = "inspect"]

LooksAgain(q) ==
    /\ request[q].pc = "inspect" /\ request[q].attempts # maxAttempts
    /\ request'[q] = [request[q] EXCEPT !.attempts = @ + 1, !.i = 0, !.finished = FALSE,
                                        !.pc = "attempt"]

Ends(q) ==
    /\ request[q].pc \notin {"new", "done"}
    /\ \E code \in Code, result \in Result :
          /\ request'[q] = Replied(q, code, result)
          /\ result = "refused" => request[q].pc = "check"
          /\ result = "deployed" =>
                /\ request[q].pc = "inspect" /\ request[q].i = Len(app.deployments)
                /\ request[q].finished /\ done(q)

Moves(q) ==
    \/ request'[q] = request[q]
    \/ Receives(q) \/ Compares(q) \/ Gets(q) \/ Writes(q) \/ Tells(q)
    \/ Looks(q) \/ LooksOn(q) \/ LooksAgain(q) \/ Ends(q)

LEMMA ReceiveMoves ==
    ASSUME Typed, NEW q \in Request, NEW m \in scenario.sent, Receive(q, m)
    PROVE  Receives(q)
  <1>. DEFINE code == refusal(m, app, scenario.ways, clock)
  <1>1. m \in Webhook /\ app \in ReviewAppConfig \cup {NoApp, Unwatched}
    BY DEF Typed, Scenario, app
  <1>2. code \in Code /\ (code = 0 => app \in ReviewAppConfig)
    BY <1>1, RefusalType
  <1>3. request \in [Request -> Handling] /\ request[q].pc = "new"
    BY DEF Typed, TypeOK, Receive
  <1>4. CASE code # 0
    BY <1>1, <1>2, <1>3, <1>4 DEF Receive, Receives
  <1>5. CASE code = 0
    BY <1>1, <1>2, <1>3, <1>5 DEF Receive, Receives, following
  <1>. QED
    BY <1>4, <1>5

LEMMA AnswerMoves ==
    ASSUME TypeOK, NEW q \in Request, request[q].pc \notin {"new", "done"},
           NEW code \in Code, NEW result \in Result \ {"refused", "deployed"},
           Answer(q, code, result)
    PROVE  Ends(q)
  BY DEF TypeOK, Answer, Replied, Ends

LEMMA RefuseMoves ==
    ASSUME TypeOK, NEW q \in Request, request[q].pc \notin {"new", "done"},
           NEW result \in Result \ {"refused", "deployed"}, Refuse(q, result)
    PROVE  Ends(q)
  <1>1. (IF request[q].code # 0 THEN request[q].code ELSE 500) \in Code
    BY RequestType DEF Code
  <1>. QED
    BY <1>1, AnswerMoves DEF Refuse

(* A request changes in no other way.                                       *)
LEMMA StepMoves ==
    ASSUME Typed, [Next]_vars, NEW q \in Request
    PROVE  Moves(q)
  <1>. TypeOK
    BY DEF Typed
  <1>1. ASSUME NEW m \in scenario.sent, Receive(q, m)
        PROVE  Moves(q)
    BY <1>1, ReceiveMoves DEF Moves
  <1>2. ASSUME checkNameConflict(q)
        PROVE  Moves(q)
    <2>1. CASE conflicts(q)
      <3>1. Answer(q, 409, "refused") /\ request[q].pc = "check"
        BY <1>2, <2>1 DEF checkNameConflict
      <3>2. Ends(q)
        BY <3>1 DEF TypeOK, Answer, Replied, Ends, Code, Result
      <3>. QED
        BY <3>2 DEF Moves
    <2>2. CASE ~conflicts(q)
      <3>1. Goto(q, "get", [request[q] EXCEPT !.seen = cPrs[name(q)]]) /\ request[q].pc = "check"
        BY <1>2, <2>2 DEF checkNameConflict, following
      <3>2. /\ request'[q] = [request[q] EXCEPT !.seen = cPrs[name(q)], !.pc = "get"]
            /\ request'[q].pc = "get"
        BY <3>1 DEF Goto, TypeOK, Handling
      <3>3. Compares(q)
        BY <2>2, <3>1, <3>2 DEF Compares, conflicts
      <3>. QED
        BY <3>3 DEF Moves
    <2>. QED
      BY <2>1, <2>2
  <1>3. ASSUME Get(q)
        PROVE  Moves(q)
    <2>1. PICK label \in {"create", "patch"} :
             Goto(q, label, [request[q] EXCEPT !.known = cPrs[name(q)]])
      BY <1>3 DEF Get
    <2>2. /\ request'[q] = [request[q] EXCEPT !.known = cPrs[name(q)], !.pc = label]
          /\ request'[q].pc = label
      BY <2>1 DEF Goto, TypeOK, Handling
    <2>. QED
      BY <1>3, <2>2 DEF Get, Gets, Moves
  <1>4. ASSUME Create(q) \/ Patch(q)
        PROVE  Moves(q)
    <2>1. request[q].pc \in {"create", "patch"}
      BY <1>4 DEF Create, Patch
    <2>2. CASE Refuse(q, "error")
      BY <2>1, <2>2, RefuseMoves DEF Result, Moves
    <2>3. CASE Goto(q, "status", [request[q] EXCEPT !.wrote = TRUE])
      BY <2>1, <2>3 DEF Goto, TypeOK, Writes, Moves
    <2>. QED
      BY <1>4, <2>2, <2>3 DEF Create, Patch
  <1>5. ASSUME PatchStatus(q)
        PROVE  Moves(q)
    <2>1. CASE Refuse(q, "error")
      BY <1>5, <2>1, RefuseMoves DEF PatchStatus, Result, Moves
    <2>2. CASE Goto(q, following("written"),
                    [request[q] EXCEPT !.code = IF request[q].known.uid = 0 THEN 201 ELSE 202])
      BY <1>5, <2>2 DEF PatchStatus, following, Goto, TypeOK, Tells, Moves
    <2>. QED
      BY <1>5, <2>1, <2>2 DEF PatchStatus
  <1>6. ASSUME Attempt(q)
        PROVE  Moves(q)
    <2>1. CASE Refuse(q, "can't be deployed")
      BY <1>6, <2>1, RefuseMoves DEF Attempt, Result, Moves
    <2>2. CASE Goto(q, "inspect", [request[q] EXCEPT !.i = 1, !.finished = TRUE])
      BY <1>6, <2>2 DEF Attempt, Goto, TypeOK, Looks, Moves
    <2>. QED
      BY <1>6, <2>1, <2>2 DEF Attempt
  <1>7. ASSUME Inspect(q)
        PROVE  Moves(q)
    <2>. DEFINE finished == request[q].finished /\ done(q)
    <2>1. request[q].pc = "inspect"
      BY <1>7 DEF Inspect
    <2>2. CASE \/ Refuse(q, "fails to start") \/ Refuse(q, "error") \/ Refuse(q, "timeout")
      BY <2>1, <2>2, RefuseMoves DEF Result, Moves
    <2>3. CASE /\ request[q].i < Len(app.deployments)
               /\ Goto(q, "inspect", [request[q] EXCEPT !.i = @ + 1, !.finished = finished])
      BY <2>1, <2>3 DEF Goto, TypeOK, LooksOn, Moves
    <2>4. CASE /\ request[q].attempts # maxAttempts
               /\ Goto(q, "attempt", [request[q] EXCEPT !.attempts = @ + 1, !.i = 0,
                                                        !.finished = FALSE])
      BY <2>1, <2>4 DEF Goto, TypeOK, LooksAgain, Moves
    <2>5. CASE /\ request[q].i = Len(app.deployments) /\ finished
               /\ Answer(q, request[q].code, "deployed")
      <3>1. request'[q] = Replied(q, request[q].code, "deployed")
        BY <2>5 DEF Answer, Replied, TypeOK
      <3>2. request[q].code \in Code /\ "deployed" \in Result
        BY RequestType DEF Result
      <3>3. Ends(q)
        BY <2>1, <2>5, <3>1, <3>2 DEF Ends
      <3>. QED
        BY <3>3 DEF Moves
    <2>. QED
      BY <1>7, <2>2, <2>3, <2>4, <2>5 DEF Inspect, again
  <1>8. ASSUME Close(q)
        PROVE  Moves(q)
    <2>1. CASE Answer(q, 200, "nothing to delete")
      <3>1. Ends(q)
        BY <1>8, <2>1 DEF Close, TypeOK, Answer, Replied, Ends, Code, Result
      <3>. QED
        BY <3>1 DEF Moves
    <2>2. CASE /\ cPrs[name(q)].uid # 0 /\ cPrs[name(q)].branch = request[q].m.branch
               /\ Goto(q, "delete", [request[q] EXCEPT !.seen = cPrs[name(q)]])
      <3>1. /\ request'[q] = [request[q] EXCEPT !.seen = cPrs[name(q)], !.pc = "delete"]
            /\ request'[q].pc = "delete" /\ request[q].pc = "close"
        BY <1>8, <2>2 DEF Close, Goto, TypeOK, Handling
      <3>2. Compares(q)
        BY <2>2, <3>1 DEF Compares
      <3>. QED
        BY <3>2 DEF Moves
    <2>. QED
      BY <1>8, <2>1, <2>2 DEF Close
  <1>9. ASSUME Delete(q)
        PROVE  Moves(q)
    <2>1. Ends(q)
      BY <1>9 DEF Delete, TypeOK, Answer, Replied, Ends, Code, Result
    <2>. QED
      BY <2>1 DEF Moves
  <1>10. ASSUME Fault(q)
         PROVE  Moves(q)
    BY <1>10, RefuseMoves DEF Fault, Result, Moves
  <1>11. ASSUME Leave(q)
         PROVE  Moves(q)
    BY <1>11, AnswerMoves, RequestType DEF Leave, Result, Moves
  <1>12. CASE Crash
    <2>1. CASE request[q].pc \in {"new", "done"}
      BY <1>12, <2>1 DEF Crash, Moves
    <2>2. CASE request[q].pc \notin {"new", "done"}
      <3>1. request'[q] = [NotReceived EXCEPT !.pc = "done", !.m = request[q].m,
                                              !.wrote = request[q].wrote, !.result = "left"]
        BY <1>12, <2>2 DEF Crash
      <3>2. request'[q] = Replied(q, 0, "left")
        BY <3>1 DEF Replied, NotReceived
      <3>3. Ends(q)
        BY <2>2, <3>2 DEF Ends, Code, Result
      <3>. QED
        BY <3>3 DEF Moves
    <2>. QED
      BY <2>1, <2>2
  <1>13. CASE UNCHANGED request
    BY <1>13 DEF Moves
  <1>14. ASSUME NEW p \in Request, p # q,
                \/ Handle(p) \/ Fault(p) \/ Leave(p) \/ \E m \in scenario.sent : Receive(p, m)
         PROVE  Moves(q)
    <2>1. \E w : request' = [request EXCEPT ![p] = w]
      BY <1>14, Zenon
         DEF Handle, checkNameConflict, Get, Create, Patch, PatchStatus, Attempt, Inspect, Close,
             Delete, again, Fault, Leave, Receive, Refuse, Answer, Goto
    <2>. QED
      BY <1>14, <2>1 DEF TypeOK, Moves
  <1>. QED
    BY <1>1, <1>2, <1>3, <1>4, <1>5, <1>6, <1>7, <1>8, <1>9, <1>10, <1>11, <1>12, <1>13, <1>14
       DEF Next, Step, Handle, vars, Tick, DeliverPr, DeliverDep, Report, Apply, StartVisited, Run,
           Observe, ExceedDeadline, Collect, cache

-----------------------------------------------------------------------------
(* Requests.                                                                *)

(* A request that is handled is for a ReviewAppConfig, has only compared    *)
(* its own branch, and has not written anything before it may be refused.   *)
Handled(q) ==
    LET w == request[q]
    IN /\ w.pc # "new" => w.m \in Webhook
       /\ w.pc \notin {"new", "done"} => app \in ReviewAppConfig /\ w.result = ""
       /\ w.pc \in {"new", "check"} => ~w.wrote
       /\ w.pc \in {"get", "create", "patch"} => ~w.wrote
       /\ w.result = "refused" => ~w.wrote
       /\ w.seen.uid # 0 => w.seen.branch = w.m.branch
       /\ w.pc = "new" => w = NotReceived

LEMMA MovesType ==
    ASSUME Typed, NEW q \in Request, Handled(q), Moves(q)
    PROVE  request'[q] \in Handling
  <1>. TypeOK
    BY DEF Typed
  <1>1. request[q] \in Handling
    BY RequestType
  <1>2. CASE request'[q] = request[q]
    BY <1>1, <1>2
  <1>3. CASE Receives(q)
    BY <1>3, NotReceivedType DEF Receives, Handling, Label, Result
  <1>4. CASE Compares(q)
    <2>1. cPrs[name(q)] \in PullRequest
      BY <1>4, NameType DEF TypeOK, Compares, Handled
    <2>. QED
      BY <1>1, <1>4, <2>1 DEF Compares, Handling, Label
  <1>5. CASE Gets(q)
    <2>1. cPrs[name(q)] \in PullRequest
      BY <1>5, NameType DEF TypeOK, Gets, Handled
    <2>. QED
      BY <1>1, <1>5, <2>1 DEF Gets, Handling, Label
  <1>6. CASE Writes(q)
    BY <1>1, <1>6 DEF Writes, Handling, Label
  <1>7. CASE Tells(q)
    <2>1. {201, 202} \subseteq Code
      BY Zenon DEF Code
    <2>. DEFINE told(code) == [request[q] EXCEPT !.code = code, !.pc = "attempt"]
    <2>2. PICK code \in {201, 202} : request'[q] = told(code)
      BY <1>7, Zenon DEF Tells
    <2>3. code \in Code
      BY <2>1, <2>2, Zenon
    <2>4. [request[q] EXCEPT !.code = code] \in Handling /\ "attempt" \in Label
      BY <1>1, <2>3 DEF Handling, Label
    <2>5. told(code) \in Handling
      BY <2>4 DEF Handling
    <2>. QED
      BY <2>2, <2>5, Zenon
  <1>8. CASE Looks(q)
    <2>1. [request[q] EXCEPT !.i = 1] \in Handling
      BY <1>1 DEF Handling
    <2>2. [request[q] EXCEPT !.i = 1, !.finished = TRUE, !.pc = "inspect"] \in Handling
      BY <2>1 DEF Handling, Label
    <2>. QED
      BY <1>8, <2>2, Zenon DEF Looks
  <1>9. CASE LooksOn(q)
    <2>1. request[q].i + 1 \in Nat
      BY RequestType
    <2>. DEFINE finished == request[q].finished /\ done(q)
    <2>2. finished \in BOOLEAN /\ "inspect" \in Label
      BY DEF Label
    <2>3. request'[q] = [request[q] EXCEPT !.i = @ + 1, !.finished = finished, !.pc = "inspect"]
      BY <1>9 DEF LooksOn
    <2>. QED
      <3>. HIDE DEF finished
      <3>. QED
        BY <1>1, <2>1, <2>2, <2>3 DEF Handling
  <1>10. CASE LooksAgain(q)
    <2>. DEFINE attempts == request[q].attempts + 1
    <2>1. attempts \in 0..maxAttempts
      <3>1. request[q].attempts \in 0..maxAttempts /\ maxAttempts \in Nat
        BY RequestType, WebhookAssumption
      <3>. QED
        BY <1>10, <3>1 DEF LooksAgain
    <2>2. "attempt" \in Label
      BY DEF Label
    <2>3. request'[q] = [request[q] EXCEPT !.attempts = attempts, !.i = 0, !.finished = FALSE,
                                           !.pc = "attempt"]
      BY <1>10 DEF LooksAgain
    <2>. DEFINE counted == [request[q] EXCEPT !.attempts = attempts]
                looking == [counted EXCEPT !.i = 0]
                judging == [looking EXCEPT !.finished = FALSE]
    <2>4. counted \in Handling
      <3>. HIDE DEF attempts
      <3>. QED
        BY <1>1, <2>1 DEF Handling
    <2>5. looking \in Handling
      <3>. HIDE DEF counted
      <3>. QED
        BY <2>4 DEF Handling
    <2>6. judging \in Handling
      <3>. HIDE DEF looking
      <3>. QED
        BY <2>5 DEF Handling
    <2>7. [judging EXCEPT !.pc = "attempt"] \in Handling
      <3>. HIDE DEF judging
      <3>. QED
        BY <2>2, <2>6 DEF Handling
    <2>. QED
      BY <2>3, <2>7, Zenon
  <1>11. CASE Ends(q)
    <2>1. PICK code \in Code, result \in Result : request'[q] = Replied(q, code, result)
      BY <1>11 DEF Ends
    <2>. QED
      BY <2>1, AnsweredType DEF Replied
  <1>. QED
    BY <1>2, <1>3, <1>4, <1>5, <1>6, <1>7, <1>8, <1>9, <1>10, <1>11 DEF Moves

LEMMA StepKeeps ==
    ASSUME [Next]_vars
    PROVE  scenario' = scenario
  BY DEF Next, Step, Handle, checkNameConflict, Get, Create, Patch, PatchStatus, Attempt, Inspect,
         Close, Delete, Fault, Leave, Receive, Crash, Tick, DeliverPr, DeliverDep, Report, Apply,
         StartVisited, Run, Observe, ExceedDeadline, Collect, vars

LEMMA RepliedFields ==
    ASSUME NEW q, NEW code, NEW result, NEW w, w = Replied(q, code, result)
    PROVE  /\ w.pc = "done" /\ w.m = request[q].m /\ w.wrote = request[q].wrote
           /\ w.result = result /\ w.seen = NoPr /\ w.known = NoPr
  BY DEF Replied, NotReceived, NoPr

LEMMA MovesHandled ==
    ASSUME Typed, scenario' = scenario, NEW q \in Request, Handled(q), Moves(q)
    PROVE  Handled(q)'
  <1>. TypeOK
    BY DEF Typed
  <1>0. request[q] \in Handling /\ app' = app
    BY RequestType DEF app
  <1>a. NoPr.uid = 0
    BY DEF NoPr
  <1>1. CASE request'[q] = request[q]
    BY <1>0, <1>1 DEF Handled
  <1>2. CASE Receives(q)
    <2>1. PICK m \in Webhook :
             \/ \E code \in Code :
                   request'[q] = [NotReceived EXCEPT !.m = m, !.pc = "done", !.code = code,
                                                     !.result = "refused"]
             \/ /\ app \in ReviewAppConfig
                /\ \E label \in {"close", "check"} :
                      request'[q] = [NotReceived EXCEPT !.m = m, !.pc = label]
      BY <1>2 DEF Receives
    <2>2. CASE \E code \in Code :
                  request'[q] = [NotReceived EXCEPT !.m = m, !.pc = "done", !.code = code,
                                                    !.result = "refused"]
      <3>1. /\ request'[q].pc = "done" /\ request'[q].m = m /\ ~request'[q].wrote
            /\ request'[q].seen = NoPr
        <4>1. PICK code \in Code :
                 request'[q] = [NotReceived EXCEPT !.m = m, !.pc = "done", !.code = code,
                                                   !.result = "refused"]
          BY <2>2, Zenon
        <4>. QED
          BY <4>1 DEF NotReceived
      <3>. QED
        BY <1>a, <3>1 DEF Handled
    <2>3. CASE /\ app \in ReviewAppConfig
               /\ \E label \in {"close", "check"} :
                     request'[q] = [NotReceived EXCEPT !.m = m, !.pc = label]
      <3>1. /\ request'[q].pc \in {"close", "check"} /\ request'[q].m = m
            /\ ~request'[q].wrote /\ request'[q].result = "" /\ request'[q].seen = NoPr
        <4>1. PICK label \in {"close", "check"} :
                 request'[q] = [NotReceived EXCEPT !.m = m, !.pc = label]
          BY <2>3, Zenon
        <4>. QED
          BY <4>1 DEF NotReceived
      <3>. QED
        BY <1>0, <1>a, <2>3, <3>1 DEF Handled
    <2>. QED
      BY <2>1, <2>2, <2>3
  <1>3. CASE Compares(q)
    BY <1>0, <1>3 DEF Compares, Handled, Handling
  <1>4. CASE Gets(q)
    BY <1>0, <1>4 DEF Gets, Handled, Handling
  <1>5. CASE Writes(q)
    BY <1>0, <1>5 DEF Writes, Handled, Handling
  <1>6. CASE Tells(q)
    BY <1>0, <1>6 DEF Tells, Handled, Handling
  <1>7. CASE Looks(q)
    BY <1>0, <1>7 DEF Looks, Handled, Handling
  <1>8. CASE LooksOn(q)
    BY <1>0, <1>8 DEF LooksOn, Handled, Handling
  <1>9. CASE LooksAgain(q)
    BY <1>0, <1>9 DEF LooksAgain, Handled, Handling
  <1>10. CASE Ends(q)
    <2>1. PICK code \in Code, result \in Result :
             /\ request'[q] = Replied(q, code, result)
             /\ result = "refused" => request[q].pc = "check"
      BY <1>10 DEF Ends
    <2>2. /\ request'[q].pc = "done" /\ request'[q].m = request[q].m
          /\ request'[q].wrote = request[q].wrote /\ request'[q].seen = NoPr
          /\ request'[q].result = "refused" => request[q].pc = "check"
      BY <2>1, RepliedFields
    <2>. QED
      BY <1>0, <1>a, <1>10, <2>2 DEF Ends, Handled
  <1>. QED
    BY <1>1, <1>2, <1>3, <1>4, <1>5, <1>6, <1>7, <1>8, <1>9, <1>10 DEF Moves

(* A PullRequest has the branch and the image of a webhook.                 *)
Real(pr) == pr.uid # 0 => pr.branch \in Branch /\ pr.image \in Image

(* What a step may do to the PullRequest of a name.                         *)
Changes(n) ==
    \/ prs'[n] = prs[n]
    \/ prs'[n] = NoPr
    \/ /\ prs[n].uid = 0 /\ prs'[n].uid = born + 1 /\ born' = born + 1 /\ Real(prs'[n])
    \/ /\ prs'[n].uid = prs[n].uid /\ (Real(prs[n]) => Real(prs'[n]))
       /\ \/ prs'[n].gen = prs[n].gen + 1
          \/ <<prs'[n].gen, prs'[n].branch, prs'[n].image>>
             = <<prs[n].gen, prs[n].branch, prs[n].image>>

LEMMA CreateChanges ==
    ASSUME Typed, NEW q \in Request, Handled(q), Create(q)
    PROVE  /\ prs' \in [Name -> PullRequest] /\ born' \in Nat /\ born' \in {born, born + 1}
           /\ \A n \in Name : Changes(n)
  <1>. TypeOK
    BY DEF Typed
  <1>1. request[q].m \in Webhook /\ request[q].pc = "create"
    BY DEF Create, Handled
  <1>2. name(q) \in Name /\ request[q].m.branch \in Branch /\ request[q].m.image \in Image
    BY <1>1, NameType
  <1>. DEFINE created == [NoPr EXCEPT !.uid = born + 1, !.gen = 1, !.branch = request[q].m.branch,
                                      !.image = request[q].m.image]
  <1>3. created \in PullRequest /\ created.uid = born + 1 /\ Real(created)
    <2>1. born + 1 \in Nat /\ 1 \in Nat
      BY DEF TypeOK
    <2>2. [NoPr EXCEPT !.uid = born + 1] \in PullRequest
      BY <2>1, NoPrType DEF PullRequest
    <2>3. [NoPr EXCEPT !.uid = born + 1, !.gen = 1] \in PullRequest
      BY <2>1, <2>2 DEF PullRequest
    <2>4. [NoPr EXCEPT !.uid = born + 1, !.gen = 1, !.branch = request[q].m.branch]
          \in PullRequest
      BY <1>2, <2>3 DEF PullRequest
    <2>5. created \in PullRequest
      BY <1>2, <2>4 DEF PullRequest
    <2>. QED
      BY <1>2, <2>5 DEF NoPr, Real
  <1>4. CASE prs[name(q)].uid # 0
    BY <1>4 DEF Create, TypeOK, Changes
  <1>5. CASE prs[name(q)].uid = 0
    <2>1. prs' = [prs EXCEPT ![name(q)] = created] /\ born' = born + 1
      BY <1>5 DEF Create
    <2>. HIDE DEF created
    <2>. QED
      BY <1>2, <1>3, <1>5, <2>1 DEF TypeOK, Changes
  <1>. QED
    BY <1>4, <1>5

LEMMA PatchChanges ==
    ASSUME Typed, NEW q \in Request, Handled(q), Patch(q)
    PROVE  /\ prs' \in [Name -> PullRequest] /\ born' = born
           /\ \A n \in Name : Changes(n)
  <1>. TypeOK
    BY DEF Typed
  <1>1. request[q].m \in Webhook /\ request[q].pc = "patch"
    BY DEF Patch, Handled
  <1>2. name(q) \in Name /\ request[q].m.branch \in Branch /\ request[q].m.image \in Image
    BY <1>1, NameType
  <1>. DEFINE stored == prs[name(q)]
              patched == merged(stored, request[q].known, request[q].m)
  <1>3. stored \in PullRequest
    BY <1>2 DEF TypeOK
  <1>4. /\ patched \in PullRequest /\ patched.gen = stored.gen /\ patched.uid = stored.uid
        /\ Real(stored) => patched.uid = 0 \/ (patched.branch \in Branch /\ patched.image \in Image)
    <2>. DEFINE image == IF request[q].known.image # request[q].m.image
                         THEN request[q].m.image ELSE stored.image
                branch == IF request[q].known.branch # request[q].m.branch
                          THEN request[q].m.branch ELSE stored.branch
    <2>1. image \in Image \cup {NoImage} /\ branch \in Branch \cup {""}
      BY <1>2, <1>3 DEF PullRequest
    <2>2. patched = [stored EXCEPT !.image = image, !.branch = branch]
      BY DEF merged
    <2>. QED
      <3>. HIDE DEF image, branch, stored, patched
      <3>1. [stored EXCEPT !.image = image] \in PullRequest
        BY <1>3, <2>1 DEF PullRequest
      <3>2. [stored EXCEPT !.image = image, !.branch = branch] \in PullRequest
        BY <2>1, <3>1 DEF PullRequest
      <3>3. /\ patched.gen = stored.gen /\ patched.uid = stored.uid
            /\ patched.image = image /\ patched.branch = branch
        BY <1>3, <2>2 DEF PullRequest
      <3>4. Real(stored) => stored.uid = 0 \/ (branch \in Branch /\ image \in Image)
        BY <1>2 DEF Real, image, branch
      <3>. QED
        BY <2>2, <3>2, <3>3, <3>4, Zenon
  <1>5. [patched EXCEPT !.gen = @ + 1] \in PullRequest
    <2>. HIDE DEF patched
    <2>1. patched \in PullRequest
      BY <1>4
    <2>. DEFINE gen == patched.gen + 1
    <2>2. gen \in Nat
      <3>1. patched.gen \in Nat
        BY <2>1, Zenon DEF PullRequest
      <3>. QED
        BY <3>1
    <2>. HIDE DEF gen
    <2>3. [patched EXCEPT !.gen = gen] \in PullRequest
      BY <2>1, <2>2 DEF PullRequest
    <2>. QED
      BY <2>3 DEF gen
  <1>6. CASE prs' = prs
    BY <1>6 DEF Patch, TypeOK, Changes
  <1>7. CASE prs' = [prs EXCEPT ![name(q)] = [patched EXCEPT !.gen = @ + 1]]
    <2>1. prs'[name(q)] = [patched EXCEPT !.gen = @ + 1]
      BY <1>2, <1>7 DEF TypeOK
    <2>2. Changes(name(q))
      <3>. HIDE DEF patched
      <3>. QED
        BY <1>4, <2>1 DEF Changes, Real, PullRequest
    <2>3. \A n \in Name \ {name(q)} : Changes(n)
      BY <1>7 DEF TypeOK, Changes
    <2>. QED
      BY <1>2, <1>5, <1>7, <2>2, <2>3 DEF Patch, TypeOK
  <1>. QED
    BY <1>2, <1>6, <1>7 DEF Patch, TypeOK

LEMMA DeleteChanges ==
    ASSUME Typed, NEW q \in Request, Handled(q), Delete(q)
    PROVE  /\ prs' \in [Name -> PullRequest] /\ born' = born
           /\ \A n \in Name : Changes(n)
  <1>1. request[q].m \in Webhook /\ TypeOK
    BY DEF Delete, Handled, Typed
  <1>2. name(q) \in Name
    BY <1>1, NameType
  <1>. QED
    BY <1>1, <1>2, NoPrType DEF Delete, TypeOK, Changes

LEMMA ReportChanges ==
    ASSUME Typed, NEW n \in Name, NEW failing \in BOOLEAN, Report(n, failing)
    PROVE  /\ prs' \in [Name -> PullRequest] /\ born' = born
           /\ \A o \in Name : Changes(o)
  <1>1. /\ prs \in [Name -> PullRequest] /\ cPrs[n] \in PullRequest /\ clock \in Nat
        /\ prs[n] \in PullRequest
    BY DEF Typed, TypeOK
  <1>. DEFINE new == [failing |-> failing, observed |-> cPrs[n].gen,
                      since |-> IF failing # cPrs[n].condition.failing THEN clock
                                ELSE cPrs[n].condition.since]
  <1>2. new \in Condition
    BY <1>1 DEF Condition, PullRequest
  <1>3. [prs[n] EXCEPT !.condition = new] \in PullRequest
    <2>. HIDE DEF new
    <2>. QED
      BY <1>1, <1>2 DEF PullRequest
  <1>4. prs' = [prs EXCEPT ![n] = [prs[n] EXCEPT !.condition = new]] /\ born' = born
    BY <1>1 DEF Report
  <1>5. prs'[n] = [prs[n] EXCEPT !.condition = new]
    <2>. HIDE DEF new
    <2>. QED
      BY <1>1, <1>4
  <1>6. Changes(n)
    <2>. HIDE DEF new
    <2>. QED
      BY <1>1, <1>5 DEF Changes, Real, PullRequest
  <1>7. \A o \in Name \ {n} : Changes(o)
    <2>. HIDE DEF new
    <2>. QED
      BY <1>1, <1>4 DEF Changes
  <1>8. prs' \in [Name -> PullRequest]
    <2>. HIDE DEF new
    <2>. QED
      BY <1>1, <1>3, <1>4
  <1>. QED
    BY <1>4, <1>6, <1>7, <1>8

LEMMA StepChanges ==
    ASSUME Typed, \A q \in Request : Handled(q), [Next]_vars
    PROVE  /\ prs' \in [Name -> PullRequest] /\ born' \in Nat /\ born' \in {born, born + 1}
           /\ \A n \in Name : Changes(n)
  <1>1. prs \in [Name -> PullRequest] /\ born \in Nat
    BY DEF Typed, TypeOK
  <1>2. CASE prs' = prs /\ born' = born
    BY <1>1, <1>2 DEF Changes
  <1>. QED
    BY <1>1, <1>2, CreateChanges, PatchChanges, DeleteChanges, ReportChanges
       DEF Next, Step, Handle, checkNameConflict, Get, PatchStatus, Attempt, Inspect,
           Close, Fault, Leave, Receive, Crash, Tick, DeliverPr, DeliverDep, Apply,
           StartVisited, Run, Observe, ExceedDeadline, Collect, vars, cluster

-----------------------------------------------------------------------------
(* The step keeps the types.                                                *)

LEMMA RequestsTyped ==
    ASSUME Typed, \A q \in Request : Handled(q), [Next]_vars
    PROVE  request' \in [Request -> Handling]
  <1>. TypeOK
    BY DEF Typed
  <1>1. \A q \in Request : request'[q] \in Handling
    BY StepMoves, MovesType
  <1>2. CASE UNCHANGED request
    BY <1>2 DEF TypeOK
  <1>3. CASE Crash
    BY <1>1, <1>3 DEF Crash
  <1>4. ASSUME NEW p \in Request,
               \/ Handle(p) \/ Fault(p) \/ Leave(p) \/ \E m \in scenario.sent : Receive(p, m)
        PROVE  request' \in [Request -> Handling]
    <2>1. \E w : request' = [request EXCEPT ![p] = w]
      BY <1>4, Zenon
         DEF Handle, checkNameConflict, Get, Create, Patch, PatchStatus, Attempt, Inspect, Close,
             Delete, again, Fault, Leave, Receive, Refuse, Answer, Goto
    <2>. QED
      BY <1>1, <2>1 DEF TypeOK
  <1>. QED
    BY <1>2, <1>3, <1>4
       DEF Next, Step, vars, Tick, DeliverPr, DeliverDep, Report, Apply, StartVisited, Run,
           Observe, ExceedDeadline, Collect, cache

(* What a step may do to a Deployment.                                      *)
Creates(o) ==
    deps'[o] \in Workload(Image) /\ deps'[o].gen = 1 /\ deps'[o].status = NoStatus
Redeploys(o) ==
    /\ deps[o].owner # 0 /\ deps'[o] \in Workload(Image)
    /\ deps'[o].gen = deps[o].gen + 1 /\ deps'[o].status = deps[o].status
Observes(o) ==
    /\ deps[o].owner # 0 /\ pods' = pods
    /\ deps'[o] = [deps[o] EXCEPT !.status = reported(deps[o], pods[o])]
Exceeds(o) ==
    deps[o].owner # 0 /\ deps'[o] = [deps[o] EXCEPT !.status.exceeded = TRUE]

Rolls(o) ==
    \/ deps'[o] = deps[o] \/ deps'[o] = NoWorkload
    \/ Creates(o) \/ Redeploys(o) \/ Observes(o) \/ Exceeds(o)

LEMMA WorkloadType ==
    ASSUME TypeOK, NEW o \in Object, deps[o].owner # 0
    PROVE  /\ deps[o] \in Workload(Image) /\ deps[o].gen \in Nat /\ deps[o].image \in Image
           /\ deps[o].status \in Status
  <1>1. deps[o] \in Workload(Image)
    <2>1. NoWorkload.owner = 0
      BY DEF NoWorkload
    <2>. QED
      BY <2>1 DEF TypeOK
  <1>. QED
    BY <1>1 DEF Workload

LEMMA RollsType ==
    ASSUME TypeOK, NEW o \in Object, Rolls(o)
    PROVE  deps'[o] \in Workload(Image) \cup {NoWorkload}
  <1>1. CASE Observes(o)
    <2>1. deps[o] \in Workload(Image) /\ pods[o] \in Pods
      BY <1>1, WorkloadType DEF Observes, TypeOK
    <2>2. reported(deps[o], pods[o]) \in Status
      BY <2>1, ReportedType
    <2>. QED
      BY <1>1, <2>1, <2>2 DEF Observes, Workload
  <1>2. CASE Exceeds(o)
    <2>1. deps[o] \in Workload(Image) /\ deps[o].status \in Status
      BY <1>2, WorkloadType DEF Exceeds
    <2>2. [deps[o].status EXCEPT !.exceeded = TRUE] \in Status
      BY <2>1 DEF Status
    <2>3. deps'[o] = [deps[o] EXCEPT !.status = [deps[o].status EXCEPT !.exceeded = TRUE]]
      BY <1>2, <2>1 DEF Exceeds, Workload
    <2>. QED
      BY <2>1, <2>2, <2>3 DEF Workload
  <1>. QED
    BY <1>1, <1>2 DEF Rolls, Creates, Redeploys, TypeOK

LEMMA ApplyRolls ==
    ASSUME TypeOK, NEW n \in Name, NEW o \in Object, Real(cPrs[n]), Apply(n, o)
    PROVE  (\E w : deps' = [deps EXCEPT ![o] = w]) /\ Rolls(o)
  <1>1. /\ cPrs[n].uid \in Nat \ {0} /\ cPrs[n].image \in Image
        /\ deps \in [Object -> Workload(Image) \cup {NoWorkload}]
    BY DEF TypeOK, PullRequest, Real, Apply
  <1>2. ASSUME NEW replicas \in {0, 1},
               deps' = [deps EXCEPT ![o] =
                    [NoWorkload EXCEPT !.owner = cPrs[n].uid, !.ownerName = n,
                                       !.image = cPrs[n].image, !.replicas = replicas,
                                       !.gen = 1]]
        PROVE  (\E w : deps' = [deps EXCEPT ![o] = w]) /\ Rolls(o)
    <2>1. deps'[o] = [owner |-> cPrs[n].uid, ownerName |-> n, image |-> cPrs[n].image,
                      replicas |-> replicas, gen |-> 1, status |-> NoStatus]
      BY <1>1, <1>2 DEF NoWorkload
    <2>2. deps'[o] \in Workload(Image) /\ deps'[o].gen = 1 /\ deps'[o].status = NoStatus
      BY <1>1, <2>1 DEF Workload, NoStatus, Status
    <2>. QED
      BY <1>2, <2>2, Zenon DEF Rolls, Creates
  <1>3. ASSUME deps[o].owner = cPrs[n].uid,
               deps' = [deps EXCEPT ![o].image = cPrs[n].image, ![o].gen = @ + 1]
        PROVE  (\E w : deps' = [deps EXCEPT ![o] = w]) /\ Rolls(o)
    <2>1. deps[o] \in Workload(Image) /\ deps[o].gen \in Nat
      BY <1>1, <1>3, WorkloadType
    <2>. DEFINE gen == deps[o].gen + 1
                w == [deps[o] EXCEPT !.image = cPrs[n].image, !.gen = gen]
    <2>2. deps' = [deps EXCEPT ![o] = w]
      BY <1>1, <1>3, <2>1 DEF Workload
    <2>3. gen \in Nat
      BY <2>1
    <2>4. [deps[o] EXCEPT !.image = cPrs[n].image] \in Workload(Image)
      BY <1>1, <2>1 DEF Workload
    <2>5. w \in Workload(Image) /\ w.gen = gen /\ w.status = deps[o].status
      <3>. HIDE DEF gen
      <3>. QED
        BY <2>1, <2>3, <2>4 DEF Workload
    <2>6. deps'[o] = w
      <3>. HIDE DEF w
      <3>. QED
        BY <1>1, <2>2
    <2>. QED
      BY <1>1, <1>3, <2>2, <2>5, <2>6 DEF Rolls, Redeploys
  <1>. QED
    BY <1>2, <1>3 DEF Apply

LEMMA StartRolls ==
    ASSUME TypeOK, NEW o \in Object, StartVisited(o)
    PROVE  (\E w : deps' = [deps EXCEPT ![o] = w]) /\ Rolls(o)
  <1>1. deps[o] \in Workload(Image) /\ deps[o].gen \in Nat /\ deps[o].owner # 0
    BY WorkloadType DEF StartVisited
  <1>. DEFINE gen == deps[o].gen + 1
              w == [deps[o] EXCEPT !.replicas = 1, !.gen = gen]
  <1>2. deps' = [deps EXCEPT ![o] = w]
    BY <1>1 DEF StartVisited, TypeOK, Workload
  <1>3. gen \in Nat
    BY <1>1
  <1>4. [deps[o] EXCEPT !.replicas = 1] \in Workload(Image)
    BY <1>1 DEF Workload
  <1>5. w \in Workload(Image) /\ w.gen = gen /\ w.status = deps[o].status
    <2>. HIDE DEF gen
    <2>. QED
      BY <1>1, <1>3, <1>4 DEF Workload
  <1>6. deps'[o] = w
    <2>. HIDE DEF w
    <2>. QED
      BY <1>2 DEF TypeOK
  <1>. QED
    BY <1>1, <1>2, <1>5, <1>6 DEF Rolls, Redeploys

LEMMA DeploymentsTyped ==
    ASSUME Typed, \A n \in Name : Real(cPrs[n]), [Next]_vars
    PROVE  /\ deps' \in [Object -> Workload(Image) \cup {NoWorkload}]
           /\ \A o \in Object : Rolls(o)
  <1>1. TypeOK /\ deps \in [Object -> Workload(Image) \cup {NoWorkload}]
    BY DEF Typed, TypeOK
  <1>2. CASE UNCHANGED deps
    BY <1>1, <1>2 DEF Rolls
  <1>3. ASSUME NEW p \in Object,
               \/ \E n \in Name : Apply(n, p)
               \/ StartVisited(p) \/ Observe(p) \/ ExceedDeadline(p) \/ Collect(p)
        PROVE  (\E w : deps' = [deps EXCEPT ![p] = w]) /\ Rolls(p)
    <2>1. CASE \E n \in Name : Apply(n, p)
      BY <1>1, <2>1, ApplyRolls
    <2>2. CASE StartVisited(p)
      BY <1>1, <2>2, StartRolls
    <2>3. CASE Observe(p)
      BY <1>1, <2>3 DEF Observe, Rolls, Observes
    <2>4. CASE ExceedDeadline(p)
      BY <1>1, <2>4 DEF ExceedDeadline, Rolls, Exceeds
    <2>5. CASE Collect(p)
      BY <1>1, <2>5 DEF Collect, Rolls
    <2>. QED
      BY <1>3, <2>1, <2>2, <2>3, <2>4, <2>5
  <1>4. ASSUME NEW p \in Object, NEW w, deps' = [deps EXCEPT ![p] = w], Rolls(p)
        PROVE  /\ deps' \in [Object -> Workload(Image) \cup {NoWorkload}]
               /\ \A o \in Object : Rolls(o)
    <2>1. \A o \in Object \ {p} : Rolls(o)
      BY <1>1, <1>4 DEF Rolls
    <2>2. deps'[p] = w /\ w \in Workload(Image) \cup {NoWorkload}
      BY <1>1, <1>4, RollsType
    <2>. QED
      BY <1>1, <1>4, <2>1, <2>2
  <1>. QED
    BY <1>2, <1>3, <1>4
       DEF Next, Step, Handle, checkNameConflict, Get, Create, Patch, Delete, PatchStatus, Attempt,
           Inspect, Close, Fault, Leave, Receive, Crash, Tick, DeliverPr, DeliverDep, Report, Run,
           vars, cluster

LEMMA PodStepsType ==
    ASSUME NEW w \in Workload(Image), NEW p \in Pods, NEW r \in podSteps(w, p)
    PROVE  r \in Pods
  <1>1. \A i \in Image, s \in Pod : [p EXCEPT ![i] = s] \in Pods
    BY DEF Pods
  <1>2. \E i \in Image, s \in Pod : r = [p EXCEPT ![i] = s]
    <2>1. w.image \in Image
      BY DEF Workload
    <2>. QED
      BY <2>1 DEF podSteps, exist, Pod
  <1>. QED
    BY <1>1, <1>2

LEMMA PodsTyped ==
    ASSUME Typed, [Next]_vars
    PROVE  pods' \in [Object -> Pods]
  <1>1. TypeOK /\ pods \in [Object -> Pods]
    BY DEF Typed, TypeOK
  <1>2. CASE UNCHANGED pods
    BY <1>1, <1>2
  <1>3. ASSUME NEW o \in Object, Run(o)
        PROVE  pods' \in [Object -> Pods]
    <2>1. deps[o] \in Workload(Image)
      BY <1>1, <1>3, WorkloadType DEF Run
    <2>2. PICK p \in podSteps(deps[o], pods[o]) : pods' = [pods EXCEPT ![o] = p]
      BY <1>3 DEF Run
    <2>3. p \in Pods
      BY <1>1, <2>1, PodStepsType
    <2>. QED
      BY <1>1, <2>2, <2>3
  <1>4. ASSUME NEW o \in Object, Collect(o)
        PROVE  pods' \in [Object -> Pods]
    <2>1. NoPods \in Pods
      BY DEF NoPods, Pods, Pod
    <2>. QED
      BY <1>1, <1>4, <2>1 DEF Collect
  <1>. QED
    BY <1>2, <1>3, <1>4
       DEF Next, Step, Handle, checkNameConflict, Get, Create, Patch, Delete, PatchStatus, Attempt,
           Inspect, Close, Fault, Leave, Receive, Crash, Tick, DeliverPr, DeliverDep, Report,
           Apply, StartVisited, Observe, ExceedDeadline, vars, cluster

LEMMA LeftTyped ==
    ASSUME Typed, [Next]_vars
    PROVE  left' \in [Event -> Nat]
  <1>1. TypeOK /\ left \in [Event -> Nat]
    BY DEF Typed, TypeOK
  <1>2. CASE UNCHANGED left
    BY <1>1, <1>2
  <1>3. CASE \E event \in Event : Spend(event)
    BY <1>1, <1>3, SpendType
  <1>. QED
    BY <1>2, <1>3
       DEF Next, Step, Handle, checkNameConflict, Get, Create, Patch, Delete, PatchStatus, Attempt,
           Inspect, Close, Fault, Leave, Receive, Crash, Tick, DeliverPr, DeliverDep, Report,
           Apply, StartVisited, Observe, ExceedDeadline, Collect, Run, vars, Event

LEMMA CacheTyped ==
    ASSUME Typed, [Next]_vars
    PROVE  /\ cPrs' \in [Name -> PullRequest]
           /\ \A n \in Name : cPrs'[n] \in {cPrs[n], prs[n]}
           /\ cDeps' \in [Object -> Workload(Image) \cup {NoWorkload}]
           /\ \A o \in Object : cDeps'[o] \in {cDeps[o], deps[o]}
           /\ clock' \in Nat
  <1>1. /\ prs \in [Name -> PullRequest] /\ cPrs \in [Name -> PullRequest]
        /\ deps \in [Object -> Workload(Image) \cup {NoWorkload}]
        /\ cDeps \in [Object -> Workload(Image) \cup {NoWorkload}]
        /\ clock \in Nat
    BY DEF Typed, TypeOK
  <1>2. CASE UNCHANGED <<cache, clock>>
    BY <1>1, <1>2 DEF cache
  <1>3. CASE Crash
    BY <1>1, <1>3 DEF Crash
  <1>4. ASSUME NEW n \in Name, DeliverPr(n)
        PROVE  /\ cPrs' \in [Name -> PullRequest]
               /\ \A o \in Name : cPrs'[o] \in {cPrs[o], prs[o]}
               /\ cDeps' = cDeps /\ clock' = clock
    BY <1>1, <1>4 DEF DeliverPr
  <1>5. ASSUME NEW o \in Object, DeliverDep(o)
        PROVE  /\ cDeps' \in [Object -> Workload(Image) \cup {NoWorkload}]
               /\ \A p \in Object : cDeps'[p] \in {cDeps[p], deps[p]}
               /\ cPrs' = cPrs /\ clock' = clock
    BY <1>1, <1>5 DEF DeliverDep
  <1>6. CASE Tick
    BY <1>1, <1>6 DEF Tick, cache
  <1>. QED
    BY <1>1, <1>2, <1>3, <1>4, <1>5, <1>6
       DEF Next, Step, Handle, checkNameConflict, Get, Create, Patch, Delete, PatchStatus, Attempt,
           Inspect, Close, Fault, Leave, Receive, Report,
           Apply, StartVisited, Observe, ExceedDeadline, Collect, Run, vars

LEMMA RanTyped ==
    ASSUME Typed, [Next]_vars
    PROVE  /\ ran' \in [Object -> SUBSET Image]
           /\ \A o \in Object : ran[o] \subseteq ran'[o]
           /\ Next => \A o \in Object :
                 deps'[o].image \in Image /\ rolledOut(deps'[o], pods'[o])
                 => deps'[o].image \in ran'[o]
  <1>1. ran \in [Object -> SUBSET Image]
    BY DEF Typed, TypeOK
  <1>2. CASE ~Next
    BY <1>1, <1>2 DEF vars
  <1>3. CASE Next
    BY <1>1, <1>3 DEF Next, Ran
  <1>. QED
    BY <1>2, <1>3

-----------------------------------------------------------------------------
(* Copies of PullRequests.                                                  *)

(* A copy of the PullRequest of a name is of one that has been, and of its  *)
(* generation if it is of the one that is stored.                           *)
Known(n, copy) ==
    /\ copy.uid <= born
    /\ prs[n].uid # 0 /\ copy.uid = prs[n].uid =>
          /\ copy.gen <= prs[n].gen
          /\ copy.gen = prs[n].gen =>
                copy.branch = prs[n].branch /\ copy.image = prs[n].image

Stored(n) ==
    Known(n, prs[n]) /\ Known(n, cPrs[n]) /\ Real(prs[n]) /\ Real(cPrs[n])

Copies(q) ==
    request[q].pc # "new" => Known(name(q), request[q].seen) /\ Known(name(q), request[q].known)

LEMMA KnownStep ==
    ASSUME Typed, NEW n \in Name, NEW copy \in PullRequest, Known(n, prs[n]), Known(n, copy),
           prs' \in [Name -> PullRequest], born' \in {born, born + 1}, Changes(n)
    PROVE  /\ copy.uid <= born'
           /\ prs'[n].uid # 0 /\ copy.uid = prs'[n].uid =>
                 /\ copy.gen <= prs'[n].gen
                 /\ copy.gen = prs'[n].gen =>
                       copy.branch = prs'[n].branch /\ copy.image = prs'[n].image
  <1>1. /\ born \in Nat /\ prs[n].uid \in Nat /\ prs[n].gen \in Nat
        /\ copy.uid \in Nat /\ copy.gen \in Nat
        /\ prs'[n].uid \in Nat /\ prs'[n].gen \in Nat
    BY DEF Typed, TypeOK, PullRequest
  <1>2. NoPr.uid = 0
    BY DEF NoPr
  <1>. QED
    BY <1>1, <1>2 DEF Known, Changes

LEMMA StoredStep ==
    ASSUME Typed, NEW n \in Name, Stored(n), prs' \in [Name -> PullRequest],
           born' \in {born, born + 1}, Changes(n), cPrs'[n] \in {cPrs[n], prs[n]}
    PROVE  Stored(n)'
  <1>1. prs[n] \in PullRequest /\ cPrs[n] \in PullRequest /\ prs'[n] \in PullRequest
    BY DEF Typed, TypeOK
  <1>2. Known(n, prs[n])' /\ Known(n, cPrs[n])'
    <2>1. /\ born \in Nat /\ prs[n].uid \in Nat /\ prs[n].gen \in Nat
          /\ prs'[n].uid \in Nat /\ prs'[n].gen \in Nat
      BY <1>1 DEF Typed, TypeOK, PullRequest
    <2>2. NoPr.uid = 0
      BY DEF NoPr
    <2>3. prs'[n].uid <= born'
      BY <2>1, <2>2 DEF Stored, Known, Changes
    <2>4. Known(n, prs[n])'
      BY <2>1, <2>3 DEF Known
    <2>5. Known(n, cPrs[n])'
      BY <1>1, KnownStep DEF Stored, Known
    <2>. QED
      BY <2>4, <2>5
  <1>3. Real(prs'[n]) /\ Real(cPrs'[n])
    <2>1. Real(NoPr)
      BY DEF NoPr, Real
    <2>. QED
      BY <2>1 DEF Stored, Changes, Real
  <1>. QED
    BY <1>2, <1>3 DEF Stored, Real

LEMMA CopiesStep ==
    ASSUME Typed, NEW q \in Request, Handled(q), Moves(q), \A n \in Name : Stored(n), Copies(q),
           \A n \in Name : Changes(n),
           prs' \in [Name -> PullRequest], born' \in {born, born + 1}
    PROVE  Copies(q)'
  <1>. TypeOK
    BY DEF Typed
  <1>0. request[q] \in Handling /\ born \in Nat /\ born' \in Nat /\ NoPr.uid = 0
    BY RequestType DEF TypeOK, NoPr
  <1>1. ASSUME NEW n
        PROVE  /\ NoPr.uid <= born'
               /\ ~(prs'[n].uid # 0 /\ NoPr.uid = prs'[n].uid)
    BY <1>0
  <1>2. CASE request[q].pc = "new"
    <2>1. CASE Receives(q)
      <3>1. request'[q].seen = NoPr /\ request'[q].known = NoPr
        <4>1. PICK m \in Webhook :
                 \/ \E code \in Code :
                       request'[q] = [NotReceived EXCEPT !.m = m, !.pc = "done", !.code = code,
                                                         !.result = "refused"]
                 \/ \E label \in {"close", "check"} :
                       request'[q] = [NotReceived EXCEPT !.m = m, !.pc = label]
          BY <2>1, Zenon DEF Receives
        <4>. QED
          BY <4>1 DEF NotReceived
      <3>. QED
        BY <1>1, <3>1 DEF Copies, Known
    <2>2. CASE request'[q] = request[q]
      BY <1>2, <2>2 DEF Copies
    <2>. QED
      BY <1>2, <2>1, <2>2
         DEF Moves, Compares, Gets, Writes, Tells, Looks, LooksOn, LooksAgain, Ends
  <1>3. CASE request[q].pc # "new"
    <2>. DEFINE n == name(q)
    <2>1. request[q].m \in Webhook /\ n \in Name
      BY <1>3, NameType DEF Handled
    <2>2. /\ request'[q].m = request[q].m
          /\ request'[q].seen \in {request[q].seen, cPrs[n], NoPr}
          /\ request'[q].known \in {request[q].known, cPrs[n], NoPr}
      <3>1. CASE request'[q] = request[q]
        BY <3>1
      <3>2. CASE Compares(q)
        BY <1>0, <3>2 DEF Compares, Handling
      <3>3. CASE Gets(q)
        BY <1>0, <3>3 DEF Gets, Handling
      <3>4. CASE Writes(q)
        BY <1>0, <3>4 DEF Writes, Handling
      <3>8. CASE Tells(q)
        BY <1>0, <3>8 DEF Tells, Handling
      <3>5. CASE Looks(q) \/ LooksOn(q)
        BY <1>0, <3>5 DEF Looks, LooksOn, Handling
      <3>6. CASE LooksAgain(q)
        BY <1>0, <3>6 DEF LooksAgain, Handling
      <3>7. CASE Ends(q)
        <4>1. PICK code \in Code, result \in Result : request'[q] = Replied(q, code, result)
          BY <3>7 DEF Ends
        <4>. QED
          BY <4>1, RepliedFields
      <3>. QED
        BY <1>3, <3>1, <3>2, <3>3, <3>4, <3>5, <3>6, <3>7, <3>8
           DEF Moves, Receives
    <2>3. name(q)' = n
      BY <2>2 DEF name
    <2>4. ASSUME NEW copy \in PullRequest, Known(n, copy)
          PROVE  /\ copy.uid <= born'
                 /\ prs'[n].uid # 0 /\ copy.uid = prs'[n].uid =>
                       /\ copy.gen <= prs'[n].gen
                       /\ copy.gen = prs'[n].gen =>
                             copy.branch = prs'[n].branch /\ copy.image = prs'[n].image
      BY <2>1, <2>4, KnownStep DEF Stored
    <2>5. /\ request[q].seen \in PullRequest /\ request[q].known \in PullRequest
          /\ cPrs[n] \in PullRequest
      BY <2>1, RequestType DEF TypeOK
    <2>6. /\ Known(n, request[q].seen) /\ Known(n, request[q].known) /\ Known(n, cPrs[n])
      BY <1>3, <2>1 DEF Copies, Stored
    <2>7. Known(n, request[q].seen)' /\ Known(n, request[q].known)'
      <3>. HIDE DEF n
      <3>1. ASSUME NEW copy, copy \in {request[q].seen, request[q].known, cPrs[n], NoPr}
            PROVE  /\ copy.uid <= born'
                   /\ prs'[n].uid # 0 /\ copy.uid = prs'[n].uid =>
                         /\ copy.gen <= prs'[n].gen
                         /\ copy.gen = prs'[n].gen =>
                               copy.branch = prs'[n].branch /\ copy.image = prs'[n].image
        BY <1>1, <2>4, <2>5, <2>6, <3>1
      <3>2. n' = n
        BY <2>3 DEF n
      <3>. QED
        BY <2>2, <3>1, <3>2 DEF Known
    <2>. QED
      BY <2>3, <2>7 DEF Copies
  <1>. QED
    BY <1>2, <1>3

-----------------------------------------------------------------------------
(* Rollouts.                                                                *)

(* All the pods that a finished rollout reports run its image.              *)
LEMMA ReportedRollout ==
    ASSUME NEW w \in Workload(Image), NEW p \in Pods,
           rolloutDone([w EXCEPT !.status = reported(w, p)])
    PROVE  rolledOut([w EXCEPT !.status = reported(w, p)], p)
  <1>. DEFINE new == [w EXCEPT !.status = reported(w, p)]
              all == exist(p)
              updated == exist(p) \cap {w.image}
              ready == {i \in Image : p[i] = "ready"}
  <1>1. /\ new.image = w.image /\ new.replicas = w.replicas /\ new.gen = w.gen
        /\ new.status = reported(w, p)
    BY DEF Workload
  <1>2. /\ Cardinality(updated) >= w.replicas
        /\ Cardinality(all) <= Cardinality(updated)
        /\ Cardinality(ready) >= Cardinality(updated)
    BY <1>1 DEF rolloutDone, reported
  <1>3. all \subseteq Image /\ updated \subseteq all /\ ready \subseteq all
    BY DEF exist
  <1>4. IsFiniteSet(all) /\ IsFiniteSet(updated) /\ IsFiniteSet(ready)
    BY <1>3, FS_Subset, WebhookAssumption
  <1>5. all = updated
    <2>1. /\ Cardinality(updated) <= Cardinality(all)
          /\ Cardinality(all) = Cardinality(updated) => all = updated
      BY <1>3, <1>4, FS_Subset
    <2>2. Cardinality(all) \in Nat /\ Cardinality(updated) \in Nat
      BY <1>4, FS_CardinalityType
    <2>. QED
      <3>. HIDE DEF all, updated
      <3>. QED
        BY <1>2, <2>1, <2>2
  <1>6. all \subseteq {w.image}
    BY <1>5
  <1>7. ASSUME w.replicas # 0
        PROVE  p[w.image] = "ready"
    <2>1. ready # {}
      <3>1. Cardinality(updated) \in Nat /\ Cardinality(ready) \in Nat
        BY <1>4, FS_CardinalityType
      <3>2. w.replicas = 1
        BY <1>7 DEF Workload
      <3>3. Cardinality(ready) # 0
        <4>. HIDE DEF updated, ready
        <4>. QED
          BY <1>2, <3>1, <3>2
      <3>. QED
        BY <3>3, FS_EmptySet
    <2>. QED
      BY <1>3, <1>6, <2>1
  <1>8. rolledOut(new, p)
    <2>. HIDE DEF new
    <2>. QED
      BY <1>1, <1>6, <1>7 DEF rolledOut
  <1>. QED
    BY <1>8

(* A Deployment whose rollout is done, or was done according to the cache,  *)
(* has been rolled out with its image.                                      *)
Rolled(o) ==
    /\ deps[o].owner # 0 =>
          /\ deps[o].status.observed <= deps[o].gen
          /\ rolloutDone(deps[o]) => deps[o].image \in ran[o]
    /\ cDeps[o].owner # 0 /\ rolloutDone(cDeps[o]) => cDeps[o].image \in ran[o]

LEMMA RolledStep ==
    ASSUME Typed, NEW o \in Object, Rolled(o), Rolls(o), ran[o] \subseteq ran'[o],
           cDeps'[o] \in {cDeps[o], deps[o]},
           deps'[o] # deps[o] /\ deps'[o].image \in Image /\ rolledOut(deps'[o], pods'[o])
              => deps'[o].image \in ran'[o]
    PROVE  Rolled(o)'
  <1>. TypeOK
    BY DEF Typed
  <1>1. cDeps'[o].owner # 0 /\ rolloutDone(cDeps'[o]) => cDeps'[o].image \in ran'[o]
    BY DEF Rolled
  <1>2. ASSUME deps'[o].owner # 0
        PROVE  /\ deps'[o].status.observed <= deps'[o].gen
               /\ rolloutDone(deps'[o]) => deps'[o].image \in ran'[o]
    <2>1. CASE deps'[o] = deps[o]
      BY <1>2, <2>1 DEF Rolled
    <2>2. CASE deps'[o] = NoWorkload
      <3>1. NoWorkload.owner = 0
        BY DEF NoWorkload
      <3>. QED
        BY <1>2, <2>2, <3>1
    <2>3. CASE Creates(o)
      <3>1. deps'[o].gen = 1 /\ deps'[o].status.observed = 0
        BY <2>3 DEF Creates, NoStatus
      <3>. QED
        BY <3>1 DEF rolloutDone, observed
    <2>4. CASE Redeploys(o)
      <3>1. /\ deps[o].gen \in Nat /\ deps[o].status.observed \in Nat
        BY <2>4, WorkloadType DEF Redeploys, Status
      <3>2. /\ deps'[o].gen = deps[o].gen + 1
            /\ deps'[o].status.observed = deps[o].status.observed
            /\ deps[o].status.observed <= deps[o].gen
        BY <2>4 DEF Redeploys, Rolled
      <3>. QED
        BY <3>1, <3>2 DEF rolloutDone, observed
    <2>5. CASE Observes(o)
      <3>1. deps[o] \in Workload(Image) /\ pods[o] \in Pods /\ deps[o].gen \in Nat
        BY <2>5, WorkloadType DEF Observes, TypeOK
      <3>2. deps'[o] = [deps[o] EXCEPT !.status = reported(deps[o], pods[o])] /\ pods' = pods
        BY <2>5 DEF Observes
      <3>3. deps'[o].gen = deps[o].gen /\ deps'[o].image = deps[o].image
            /\ deps'[o].status.observed = deps[o].gen
        BY <3>1, <3>2 DEF Workload, reported
      <3>4. rolloutDone(deps'[o]) => rolledOut(deps'[o], pods'[o])
        BY <3>1, <3>2, ReportedRollout
      <3>5. deps[o].image \in Image
        BY <2>5, WorkloadType DEF Observes
      <3>6. CASE deps'[o] = deps[o]
        BY <1>2, <3>6 DEF Rolled
      <3>7. CASE deps'[o] # deps[o]
        BY <3>1, <3>3, <3>4, <3>5, <3>7
      <3>. QED
        BY <3>6, <3>7
    <2>6. CASE Exceeds(o)
      <3>1. deps[o] \in Workload(Image) /\ deps[o].status \in Status /\ deps[o].owner # 0
        BY <2>6, WorkloadType DEF Exceeds
      <3>. DEFINE status == [deps[o].status EXCEPT !.exceeded = TRUE]
      <3>2. deps'[o] = [deps[o] EXCEPT !.status = status]
        BY <2>6, <3>1 DEF Exceeds, Workload
      <3>3. /\ status.observed = deps[o].status.observed
            /\ status.replicas = deps[o].status.replicas
            /\ status.updated = deps[o].status.updated
            /\ status.available = deps[o].status.available
        BY <3>1 DEF Status
      <3>4. /\ deps'[o].status = status /\ deps'[o].gen = deps[o].gen
            /\ deps'[o].image = deps[o].image /\ deps'[o].replicas = deps[o].replicas
        <4>. HIDE DEF status
        <4>. QED
          BY <3>1, <3>2 DEF Workload
      <3>5. rolloutDone(deps'[o]) => rolloutDone(deps[o])
        <4>. HIDE DEF status
        <4>. QED
          BY <3>3, <3>4 DEF rolloutDone, observed
      <3>. QED
        <4>. HIDE DEF status
        <4>. QED
          BY <3>1, <3>3, <3>4, <3>5 DEF Rolled
    <2>. QED
      BY <2>1, <2>2, <2>3, <2>4, <2>5, <2>6 DEF Rolls
  <1>. QED
    BY <1>1, <1>2 DEF Rolled, rolloutDone, observed

-----------------------------------------------------------------------------
(* Waiting for the rollout.                                                 *)

HasRun(q, j) ==
    LET o == DeploymentName[request[q].m.branch][app.deployments[j]]
    IN o \in Object /\ request[q].m.image \in ran[o]

(* What has been looked at, while all of it was done, has been rolled out   *)
(* with the image, and so has all of a deploy that was reported.            *)
Waits(q) ==
    request[q].pc = "inspect" =>
        /\ request[q].i >= 1
        /\ request[q].finished => \A j \in 1..(request[q].i - 1) : HasRun(q, j)
Deployed(q) ==
    request[q].result = "deployed" => \A j \in 1..Len(app.deployments) : HasRun(q, j)

LEMMA DoneHasRun ==
    ASSUME Typed, NEW q \in Request, Handled(q), Waits(q), \A o \in Object : Rolled(o),
           request[q].pc = "inspect", request[q].i <= Len(app.deployments),
           request[q].finished, done(q)
    PROVE  \A j \in 1..request[q].i : HasRun(q, j)
  <1>. TypeOK
    BY DEF Typed
  <1>1. request[q].m \in Webhook /\ app \in ReviewAppConfig
    BY DEF Handled
  <1>2. request[q].m.branch \in Branch /\ app.deployments \in Seq(Deployment)
    BY <1>1, NameType DEF ReviewAppConfig
  <1>3. request[q].i \in Nat /\ request[q].i >= 1
    BY RequestType DEF Waits
  <1>4. app.deployments[request[q].i] \in Deployment
    BY <1>2, <1>3
  <1>5. inspected(q) \in Object
    BY <1>2, <1>4, WebhookAssumption DEF inspected
  <1>6. HasRun(q, request[q].i)
    BY <1>5 DEF done, hasContainerImage, Rolled, inspected, HasRun
  <1>7. \A j \in 1..(request[q].i - 1) : HasRun(q, j)
    BY DEF Waits
  <1>8. \A j \in 1..request[q].i : j = request[q].i \/ j \in 1..(request[q].i - 1)
    BY <1>3
  <1>. QED
    BY <1>6, <1>7, <1>8

LEMMA WaitsStep ==
    ASSUME Typed, NEW q \in Request, Handled(q), Moves(q), Waits(q), Deployed(q),
           scenario' = scenario, \A o \in Object : Rolled(o) /\ ran[o] \subseteq ran'[o]
    PROVE  Waits(q)' /\ Deployed(q)'
  <1>. TypeOK
    BY DEF Typed
  <1>0. request[q] \in Handling /\ app' = app
    BY RequestType DEF app
  <1>1. ASSUME request'[q].m = request[q].m, NEW j, HasRun(q, j)
        PROVE  HasRun(q, j)'
    BY <1>0, <1>1 DEF HasRun
  <1>2. CASE request'[q] = request[q]
    BY <1>0, <1>1, <1>2 DEF Waits, Deployed
  <1>3. CASE Receives(q)
    <2>1. request'[q].pc # "inspect" /\ request'[q].result # "deployed"
      <3>1. PICK m \in Webhook :
               \/ \E code \in Code :
                     request'[q] = [NotReceived EXCEPT !.m = m, !.pc = "done", !.code = code,
                                                       !.result = "refused"]
               \/ \E label \in {"close", "check"} :
                     request'[q] = [NotReceived EXCEPT !.m = m, !.pc = label]
        BY <1>3, Zenon DEF Receives
      <3>. QED
        BY <3>1 DEF NotReceived
    <2>. QED
      BY <2>1 DEF Waits, Deployed
  <1>4. ASSUME request[q].pc \notin {"new", "done"}, request'[q].pc # "inspect",
               request'[q].result = request[q].result
        PROVE  Waits(q)' /\ Deployed(q)'
    BY <1>4 DEF Handled, Waits, Deployed
  <1>5. CASE Compares(q)
    BY <1>0, <1>4, <1>5 DEF Compares, Handling
  <1>6. CASE Gets(q)
    BY <1>0, <1>4, <1>6 DEF Gets, Handling
  <1>7. CASE Writes(q)
    BY <1>0, <1>4, <1>7 DEF Writes, Handling
  <1>8. CASE Tells(q)
    BY <1>0, <1>4, <1>8 DEF Tells, Handling
  <1>9. CASE LooksAgain(q)
    BY <1>0, <1>4, <1>9 DEF LooksAgain, Handling
  <1>10. CASE Looks(q)
    <2>1. request'[q].i = 1 /\ request'[q].result = ""
      BY <1>0, <1>10 DEF Looks, Handling, Handled
    <2>2. request'[q].i >= 1 /\ 1..(request'[q].i - 1) = {}
      <3>1. \A i : i = 1 => i >= 1 /\ 1..(i - 1) = {}
        OBVIOUS
      <3>. QED
        BY <2>1, <3>1, Zenon
    <2>. QED
      BY <2>1, <2>2 DEF Waits, Deployed, HasRun
  <1>11. CASE LooksOn(q)
    <2>. DEFINE finished == request[q].finished /\ done(q)
    <2>1. /\ request'[q].i = request[q].i + 1 /\ request'[q].m = request[q].m
          /\ request'[q].result = "" /\ (request'[q].finished => finished)
      <3>. HIDE DEF finished
      <3>1. request'[q] = [request[q] EXCEPT !.i = @ + 1, !.finished = finished,
                                             !.pc = "inspect"]
        BY <1>11, Zenon DEF LooksOn, finished
      <3>2. request[q].result = ""
        BY <1>11 DEF LooksOn, Handled
      <3>. QED
        BY <1>0, <3>1, <3>2 DEF Handling
    <2>2. request[q].i \in Nat /\ request[q].pc = "inspect"
      BY <1>11, RequestType DEF LooksOn
    <2>3. app.deployments \in Seq(Deployment)
      BY <2>2 DEF Handled, ReviewAppConfig
    <2>4. request[q].i <= Len(app.deployments)
      BY <1>11, <2>2, <2>3 DEF LooksOn
    <2>5. finished => \A j \in 1..request[q].i : HasRun(q, j)
      BY <2>2, <2>4, DoneHasRun
    <2>6. finished => \A j \in 1..(request'[q].i - 1) : HasRun(q, j)'
      <3>1. request'[q].i - 1 = request[q].i
        <4>1. request'[q].i = request[q].i + 1
          BY <2>1, Zenon
        <4>2. request[q].i \in Nat
          BY <2>2, Zenon
        <4>. QED
          BY <4>1, <4>2
      <3>. QED
        BY <1>0, <2>1, <2>5, <3>1 DEF HasRun
    <2>. QED
      <3>. HIDE DEF finished
      <3>1. request'[q].i >= 1
        <4>1. request[q].i >= 1
          BY <2>2 DEF Waits
        <4>2. request'[q].i = request[q].i + 1
          BY <2>1, Zenon
        <4>3. request[q].i \in Nat
          BY <2>2, Zenon
        <4>. QED
          BY <4>1, <4>2, <4>3
      <3>. QED
        BY <2>1, <2>6, <3>1 DEF Waits, Deployed, HasRun
  <1>12. CASE Ends(q)
    <2>1. PICK code \in Code, result \in Result :
             /\ request'[q] = Replied(q, code, result)
             /\ result = "deployed" =>
                   /\ request[q].pc = "inspect" /\ request[q].i = Len(app.deployments)
                   /\ request[q].finished /\ done(q)
      BY <1>12 DEF Ends
    <2>2. /\ request'[q].pc = "done" /\ request'[q].m = request[q].m
          /\ request'[q].result = result
      BY <2>1, RepliedFields
    <2>3. CASE result = "deployed"
      <3>1. \A j \in 1..Len(app.deployments) : HasRun(q, j)
        <4>1. request[q].i \in Nat
          BY RequestType
        <4>. QED
          BY <2>1, <2>3, <4>1, DoneHasRun
      <3>. QED
        BY <1>0, <1>1, <2>2, <3>1 DEF Waits, Deployed
    <2>. QED
      BY <2>2, <2>3 DEF Waits, Deployed
  <1>. QED
    BY <1>2, <1>3, <1>5, <1>6, <1>7, <1>8, <1>9, <1>10, <1>11, <1>12 DEF Moves

-----------------------------------------------------------------------------
(* The invariant.                                                           *)

Inv ==
    /\ Typed
    /\ \A q \in Request : Handled(q) /\ Copies(q) /\ Waits(q) /\ Deployed(q)
    /\ \A n \in Name : Stored(n)
    /\ \A o \in Object : Rolled(o)

LEMMA InitInv == Init => Inv
  <1>. SUFFICES ASSUME Init PROVE Inv
    OBVIOUS
  <1>1. Typed /\ TypeOK
    BY InitTyped DEF Typed
  <1>2. ASSUME NEW q \in Request
        PROVE  Handled(q) /\ Copies(q) /\ Waits(q) /\ Deployed(q)
    <2>1. request[q] = NotReceived
      BY DEF Init
    <2>. QED
      <3>1. /\ NotReceived.pc = "new" /\ NotReceived.wrote = FALSE /\ NotReceived.result = ""
            /\ NotReceived.seen = NoPr
        BY DEF NotReceived
      <3>2. NoPr.uid = 0
        BY DEF NoPr
      <3>. QED
        BY <2>1, <3>1, <3>2 DEF Handled, Copies, Waits, Deployed, NoPr
  <1>3. ASSUME NEW n \in Name
        PROVE  Stored(n)
    <2>2. Real(prs[n]) /\ prs[n].uid <= born /\ prs[n].gen \in Nat
      <3>1. CASE \E m \in scenario.running : PullRequestName[m.branch] = n
        <4>1. born = 1
          BY <3>1 DEF Init
        <4>2. PICK m \in scenario.running :
                 prs[n] = [NoPr EXCEPT !.uid = 1, !.gen = 1, !.branch = m.branch,
                                       !.image = m.image, !.condition.observed = 1]
          BY <3>1 DEF Init
        <4>3. Real(prs[n]) /\ prs[n].uid = 1
          <5>1. m \in Webhook
            BY <1>1 DEF Typed, Scenario
          <5>. QED
            BY <4>2, <5>1 DEF NoPr, Real, Webhook
        <4>4. prs[n].gen \in Nat
          BY <1>1, Zenon DEF TypeOK, PullRequest
        <4>. QED
          BY <4>1, <4>3, <4>4
      <3>2. CASE ~ \E m \in scenario.running : PullRequestName[m.branch] = n
        <4>1. prs[n] = NoPr
          BY <3>2 DEF Init
        <4>2. NoPr.uid = 0 /\ NoPr.gen = 0
          BY DEF NoPr
        <4>3. born \in Nat
          BY <1>1 DEF TypeOK
        <4>. QED
          BY <4>1, <4>2, <4>3 DEF Real
      <3>. QED
        BY <3>1, <3>2
    <2>3. cPrs = prs
      BY DEF Init
    <2>. QED
      BY <2>2, <2>3 DEF Stored, Known
  <1>4. ASSUME NEW o \in Object
        PROVE  Rolled(o)
    <2>1. CASE \E m \in scenario.running : o \in NamesOf(m.branch)
      <3>1. PICK m \in scenario.running : deps[o] = Settled(m)
        BY <2>1 DEF Init
      <3>2. m \in Webhook
        BY <1>1 DEF Typed, Scenario
      <3>3. m.image \in Image
        BY <3>2 DEF Webhook
      <3>4. ran[o] = {m.image} /\ cDeps[o] = deps[o]
        <4>1. deps[o].image = m.image
          BY <3>1 DEF Settled
        <4>2. ran[o] = {deps[o].image} \cap Image /\ cDeps[o] = deps[o]
          BY DEF Init
        <4>. QED
          BY <3>3, <4>1, <4>2
      <3>. QED
        BY <3>1, <3>4 DEF Rolled, Settled
    <2>2. CASE ~ \E m \in scenario.running : o \in NamesOf(m.branch)
      <3>1. deps[o] = NoWorkload /\ cDeps[o] = deps[o]
        BY <2>2 DEF Init
      <3>. QED
        <4>1. NoWorkload.owner = 0
          BY DEF NoWorkload
        <4>. QED
          BY <3>1, <4>1 DEF Rolled
    <2>. QED
      BY <2>1, <2>2
  <1>. QED
    BY <1>1, <1>2, <1>3, <1>4 DEF Inv

LEMMA InvStep == Inv /\ [Next]_vars => Inv'
  <1>. SUFFICES ASSUME Inv, [Next]_vars PROVE Inv'
    OBVIOUS
  <1>. USE DEF Inv
  <1>1. scenario' = scenario /\ \A q \in Request : Moves(q)
    BY StepKeeps, StepMoves
  <1>2. /\ prs' \in [Name -> PullRequest] /\ born' \in Nat /\ born' \in {born, born + 1}
        /\ \A n \in Name : Changes(n)
    BY StepChanges
  <1>3. /\ deps' \in [Object -> Workload(Image) \cup {NoWorkload}]
        /\ \A o \in Object : Rolls(o)
    BY DeploymentsTyped DEF Stored
  <1>4. Typed'
    BY <1>1, <1>2, <1>3, RequestsTyped, PodsTyped, LeftTyped, CacheTyped, RanTyped
       DEF Typed, TypeOK
  <1>5. \A q \in Request : Handled(q)' /\ Copies(q)'
    BY <1>1, <1>2, MovesHandled, CopiesStep
  <1>6. \A n \in Name : Stored(n)'
    BY <1>2, CacheTyped, StoredStep
  <1>7. \A q \in Request : Waits(q)' /\ Deployed(q)'
    BY <1>1, RanTyped, WaitsStep
  <1>8. ASSUME NEW o \in Object
        PROVE  Rolled(o)'
    <2>1. deps'[o] # deps[o] /\ deps'[o].image \in Image /\ rolledOut(deps'[o], pods'[o])
             => deps'[o].image \in ran'[o]
      <3>1. CASE Next
        BY <3>1, RanTyped
      <3>2. CASE UNCHANGED vars
        BY <3>2 DEF vars, cluster
      <3>. QED
        BY <3>1, <3>2
    <2>. QED
      BY <1>3, <2>1, RanTyped, CacheTyped, RolledStep
  <1>. QED
    BY <1>4, <1>5, <1>6, <1>7, <1>8

LEMMA Invariant == Spec => []Inv
  BY InitInv, InvStep, PTL DEF Spec

-----------------------------------------------------------------------------
(* What the webhook promises.                                               *)

(* Everything keeps its type, whatever the requests, the controller, the    *)
(* cluster and the cache do.                                                *)
THEOREM WebhookTyped == Spec => []TypeOK
  <1>1. Inv => TypeOK
    BY DEF Inv, Typed
  <1>. QED
    BY <1>1, Invariant, PTL

(* A webhook that is refused has changed nothing (ServeHTTP,                *)
(* createOrUpdatePullRequest).                                              *)
THEOREM RefusedIsUnchanged == Spec => []RefusedChangesNothing
  <1>1. Inv => RefusedChangesNothing
    BY DEF Inv, Handled, RefusedChangesNothing
  <1>. QED
    BY <1>1, Invariant, PTL

(* A deploy is only reported as deployed once all the deployments of its    *)
(* review app have been rolled out with its image, however far the cache    *)
(* trails and whatever else is deployed meanwhile (waitForRollout).         *)
THEOREM DeployedHasRun == Spec => []DeployedRan
  <1>1. Inv => DeployedRan
    BY DEF Inv, Deployed, HasRun, NamesOf, DeployedRan
  <1>. QED
    BY <1>1, Invariant, PTL

(* A request changes the review app of another branch only if that branch   *)
(* has written it since the branches were compared (checkNameConflict,      *)
(* deletePullRequestByName).                                                *)
THEOREM TouchesNoOther == Spec => TouchesOnlyItsBranch
  <1>. DEFINE Touches ==
          \A q \in Request :
              LET stored == prs[name(q)]
                  before == request[q].seen
              IN (/\ request[q].pc # "new" /\ request'[q] # request[q] /\ prs'[name(q)] # stored
                  /\ stored.uid # 0 /\ stored.branch # request[q].m.branch)
                 => <<stored.uid, stored.gen>> # <<before.uid, before.gen>>
  <1>1. Inv /\ [Next]_vars => [Touches]_vars
    <2>1. SUFFICES ASSUME Inv, NEW q \in Request, request[q].pc # "new",
                          prs[name(q)].uid # 0, prs[name(q)].branch # request[q].m.branch,
                          prs[name(q)].uid = request[q].seen.uid,
                          prs[name(q)].gen = request[q].seen.gen
                   PROVE  FALSE
      OBVIOUS
    <2>2. request[q].seen.branch = request[q].m.branch
      BY <2>1 DEF Inv, Handled
    <2>3. request[q].seen.branch = prs[name(q)].branch
      BY <2>1 DEF Inv, Copies, Known
    <2>. QED
      BY <2>1, <2>2, <2>3
  <1>. QED
    BY <1>1, Invariant, PTL DEF Spec, TouchesOnlyItsBranch

LEMMA PatchedIsUpToDate ==
    ASSUME Inv, NEW q \in Request, Patch(q), prs[name(q)].uid # 0,
           prs[name(q)].uid = request[q].known.uid, prs[name(q)].gen = request[q].known.gen
    PROVE  /\ prs'[name(q)].branch = request[q].m.branch
           /\ prs'[name(q)].image = request[q].m.image
  <1>. TypeOK
    BY DEF Inv, Typed
  <1>. DEFINE stored == prs[name(q)]
              patched == merged(stored, request[q].known, request[q].m)
  <1>1. request[q].pc = "patch" /\ name(q) \in Name
    BY NameType DEF Patch, Inv, Handled
  <1>2. stored \in PullRequest
    BY <1>1 DEF TypeOK
  <1>3. /\ stored.branch = request[q].known.branch /\ stored.image = request[q].known.image
    BY <1>1 DEF Inv, Copies, Known
  <1>4. /\ patched \in PullRequest
        /\ patched.branch = request[q].m.branch /\ patched.image = request[q].m.image
    <2>. DEFINE image == IF request[q].known.image # request[q].m.image
                         THEN request[q].m.image ELSE stored.image
                branch == IF request[q].known.branch # request[q].m.branch
                          THEN request[q].m.branch ELSE stored.branch
    <2>1. image = request[q].m.image /\ branch = request[q].m.branch
      BY <1>3
    <2>2. image \in Image /\ branch \in Branch
      BY <1>1, <2>1, NameType DEF Patch, Inv, Handled
    <2>3. patched = [stored EXCEPT !.image = image, !.branch = branch]
      BY DEF merged
    <2>. HIDE DEF image, branch, stored, patched
    <2>4. [stored EXCEPT !.image = image] \in PullRequest
      BY <1>2, <2>2 DEF PullRequest
    <2>5. [stored EXCEPT !.image = image, !.branch = branch] \in PullRequest
      BY <2>2, <2>4 DEF PullRequest
    <2>6. patched.image = image /\ patched.branch = branch
      BY <1>2, <2>3 DEF PullRequest
    <2>. QED
      BY <2>1, <2>3, <2>5, <2>6, Zenon
  <1>5. prs'[name(q)] \in {patched, [patched EXCEPT !.gen = @ + 1]}
    BY <1>1 DEF Patch, TypeOK
  <1>. QED
    <2>. HIDE DEF patched
    <2>. QED
      BY <1>4, <1>5 DEF PullRequest

(* After createOrUpdatePullRequest the PullRequest is the one of the        *)
(* deploy, unless the copy that it was compared with was stale.             *)
THEOREM WritesWhatItDeploys == Spec => UpToDate
  <1>. DEFINE Written ==
          \A q \in Request :
              LET stored == prs[name(q)]
                  copy == request[q].known
              IN (/\ request[q].pc \in {"create", "patch"} /\ request'[q].pc = "status"
                  /\ <<stored.uid, stored.gen>> = <<copy.uid, copy.gen>>)
                 => <<prs'[name(q)].branch, prs'[name(q)].image>>
                    = <<request[q].m.branch, request[q].m.image>>
  <1>1. ASSUME Inv, [Next]_vars, NEW q \in Request, request[q].pc \in {"create", "patch"},
               request'[q].pc = "status"
        PROVE  \/ Create(q) /\ prs[name(q)].uid = 0
               \/ Patch(q) /\ prs[name(q)].uid # 0
    <2>. TypeOK
      BY <1>1 DEF Inv, Typed
    <2>0. request[q] \in Handling /\ request \in [Request -> Handling]
      BY RequestType DEF TypeOK
    <2>1. request'[q].pc # request[q].pc
      BY <1>1
    <2>2. ASSUME NEW code, NEW result, Answer(q, code, result)
          PROVE  FALSE
      BY <1>1, <2>0, <2>2 DEF Answer, NotReceived
    <2>3. ~(Create(q) /\ prs[name(q)].uid # 0) /\ ~(Patch(q) /\ prs[name(q)].uid = 0)
      BY <2>2 DEF Create, Patch, Refuse
    <2>4. ~Fault(q) /\ ~Leave(q)
      BY <2>2 DEF Fault, Leave, Refuse
    <2>5. CASE Crash
      BY <1>1, <2>5 DEF Crash, NotReceived
    <2>6. ASSUME NEW p \in Request, p # q,
                 \/ Handle(p) \/ Fault(p) \/ Leave(p) \/ \E m \in scenario.sent : Receive(p, m)
          PROVE  FALSE
      <3>1. \E w : request' = [request EXCEPT ![p] = w]
        BY <2>6, Zenon
           DEF Handle, checkNameConflict, Get, Create, Patch, PatchStatus, Attempt, Inspect,
               Close, Delete, again, Fault, Leave, Receive, Refuse, Answer, Goto
      <3>. QED
        BY <2>0, <2>1, <2>6, <3>1
    <2>7. Handle(q) => Create(q) \/ Patch(q)
      BY <1>1 DEF Handle, checkNameConflict, Get, PatchStatus, Attempt, Inspect, Close, Delete
    <2>8. \A m \in scenario.sent : ~Receive(q, m)
      BY <1>1 DEF Receive
    <2>9. request' # request
      BY <2>1
    <2>. QED
      BY <1>1, <2>3, <2>4, <2>5, <2>6, <2>7, <2>8, <2>9
         DEF Next, Step, vars, Tick, DeliverPr, DeliverDep, Report, Apply, StartVisited, Run,
             Observe, ExceedDeadline, Collect, cache
  <1>2. ASSUME Inv, NEW q \in Request, Create(q), prs[name(q)].uid = 0
        PROVE  /\ prs'[name(q)].branch = request[q].m.branch
               /\ prs'[name(q)].image = request[q].m.image
    <2>1. request[q].pc = "create" /\ prs \in [Name -> PullRequest] /\ TypeOK
      BY <1>2 DEF Create, Inv, Typed, TypeOK
    <2>2. name(q) \in Name
      BY <1>2, <2>1, NameType DEF Inv, Handled
    <2>3. prs'[name(q)] = [NoPr EXCEPT !.uid = born + 1, !.gen = 1, !.branch = request[q].m.branch,
                                       !.image = request[q].m.image]
      BY <1>2, <2>1, <2>2 DEF Create
    <2>. QED
      BY <2>3 DEF NoPr
  <1>3. Inv /\ [Next]_vars => [Written]_vars
    BY <1>1, <1>2, PatchedIsUpToDate
  <1>. QED
    BY <1>3, Invariant, PTL DEF Spec, UpToDate
=============================================================================
