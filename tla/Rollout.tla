------------------------------- MODULE Rollout -------------------------------
(***************************************************************************)
(* What the webhook makes of a Deployment and its pods while it waits for  *)
(* the rollout (internal/webhook/deployer.go and pods.go,                  *)
(* internal/utils/status.go), and how Kubernetes rolls a Deployment out.   *)
(*                                                                         *)
(* A Deployment has at most one pod for each image: "starting", "ready",   *)
(* or "failing", which is in a crash loop with crashLoopRestarts restarts  *)
(* or waits for one of the stuckReasons.                                   *)
(***************************************************************************)
EXTENDS Integers, FiniteSets

CONSTANTS
    Image,
    Name        \* names of PullRequests

Pod == {"none", "starting", "ready", "failing"}
Pods == [Image -> Pod]
NoPods == [i \in Image |-> "none"]

Status ==
    [observed: Nat, replicas: Nat, updated: Nat, available: Nat, exceeded: BOOLEAN]
NoStatus ==
    [observed |-> 0, replicas |-> 0, updated |-> 0, available |-> 0, exceeded |-> FALSE]

(* The controlling PullRequest is owner, by its UID, and ownerName.        *)
Workload(images) ==
    [owner: Nat \ {0}, ownerName: Name, image: images, replicas: {0, 1}, gen: Nat,
     status: Status]

-----------------------------------------------------------------------------
(* How the webhook judges it.                                              *)

(* Mutant: any rollout that is done will do.                               *)
hasAnyImage(w, image) == TRUE

hasContainerImage(w, image) == w.image = image

observed(w) == w.gen <= w.status.observed

(* GetDeploymentStatus is kubectl rollout status.                          *)
deadlineExceeded(w) == observed(w) /\ w.status.exceeded

rolloutDone(w) ==
    /\ observed(w)
    /\ w.status.updated >= w.replicas
    /\ w.status.replicas <= w.status.updated
    /\ w.status.available >= w.status.updated

(* podInspector: a pod with the image, read from the API server.           *)
failure(pods, image) == pods[image] = "failing"

-----------------------------------------------------------------------------
(* How Kubernetes rolls it out.                                            *)

exist(pods) == {i \in Image : pods[i] # "none"}

(* What the Deployment controller reports.                                 *)
reported(w, pods) ==
    [observed |-> w.gen,
     replicas |-> Cardinality(exist(pods)),
     updated |-> Cardinality(exist(pods) \cap {w.image}),
     available |-> Cardinality({i \in Image : pods[i] = "ready"}),
     exceeded |-> w.status.exceeded /\ observed(w) /\ pods[w.image] # "ready"]

(* Where the pods may go from here.                                        *)
podSteps(w, pods) ==
    {[pods EXCEPT ![i] = "starting"] : i \in {w.image} \cap {j \in Image : w.replicas > 0 /\ pods[j] = "none"}}
    \cup {[pods EXCEPT ![i] = "ready"] : i \in {j \in Image : pods[j] \in {"starting", "failing"}}}
    \cup {[pods EXCEPT ![i] = "failing"] : i \in {j \in Image : pods[j] = "starting"}}
    \cup {[pods EXCEPT ![i] = "none"] :
             i \in {j \in exist(pods) : w.replicas = 0 \/ (j # w.image /\ pods[w.image] = "ready")}}

(* All of its pods run the image and are ready, or it is scaled down.      *)
rolledOut(w, pods) ==
    /\ exist(pods) \subseteq {w.image}
    /\ w.replicas = 0 \/ pods[w.image] = "ready"
=============================================================================
