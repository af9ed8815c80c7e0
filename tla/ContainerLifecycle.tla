-------------------------- MODULE ContainerLifecycle --------------------------
(***************************************************************************)
(* Start, stop, kill, restart, update, remove and create of a container    *)
(* backed by a Deployment (core/translator/container_lifecycle.go), run by *)
(* concurrent requests against the asynchronous Kubernetes controllers.    *)
(*                                                                         *)
(* All workloads modelled here have the same object name, one after the    *)
(* other: a container and the ones created again under its name. Their     *)
(* Pods carry the same "app" label, which is what dink selects Pods by.    *)
(*                                                                         *)
(* lockContainer is the mutex of ContainerMutex, which ContainerLock       *)
(* implements. A Get, mutate and Update retried on conflict is one step:   *)
(* the write applies the mutation to the version it read, or to none.      *)
(***************************************************************************)
EXTENDS Naturals, FiniteSets

CONSTANTS Requests,       \* API calls
          Uids,           \* workload UIDs
          Ops,            \* the operations requests may ask for
          MaxEvictions,   \* bound: Pods the cluster evicts
          OutsideDeletes, \* others than dink may delete the Deployment
          NoUid,
          NoDeployment,
          NoReplicaSet

ASSUME LifecycleAssumption ==
    /\ Ops \subseteq {"start", "stop", "kill", "restart", "update",
                      "rm", "rmForce", "create"}
    /\ NoUid \notin Uids
    /\ NoReplicaSet \notin [template : Nat, want : 0..1]
    /\ MaxEvictions \in Nat
    /\ OutsideDeletes \in BOOLEAN

VARIABLES
    deployment,   \* the Deployment of the object name, or NoDeployment
    replicaSet,   \* replicaSet[u]: its current ReplicaSet, or NoReplicaSet
    pods,         \* the Pods labelled app=<object name>
    fresh,        \* UIDs no workload has had yet
    evictions,    \* number of Pods evicted so far
    critical,     \* critical[r]: the workload r holds the lock of
    op,           \* op[r]: the operation r asks for
    pc,           \* pc[r]: the next step of r
    started,      \* started[r]: containerWorkload.Started as r locked it
    stopped,      \* stopped[r]: controllerStopped in r's wait loop
    result        \* result[r]: "none" until r returns, then "ok" or "error"

clusterVars == <<deployment, replicaSet, pods, fresh, evictions>>
requestVars == <<critical, op, pc, started, stopped, result>>
vars == <<deployment, replicaSet, pods, fresh, evictions,
          critical, op, pc, started, stopped, result>>

Mutex == INSTANCE ContainerMutex WITH Workloads <- Uids, NoWorkload <- NoUid

\* A Pod is active until its phase is Succeeded or Failed, deleted or not.
Active(p) == p.phase \in {"Pending", "Running"}
ActivePods == {p \in pods : Active(p)}
Owned(u) == {p \in ActivePods : p.uid = u}
Kept(u) == {p \in Owned(u) : ~p.deleting}

Exists(u) == deployment # NoDeployment /\ deployment.uid = u

NewDeployment(u, strategy, replicas) ==
    [uid |-> u, replicas |-> replicas, template |-> 1, strategy |-> strategy,
     signalled |-> FALSE, generation |-> 1, observedGeneration |-> 1,
     statusReplicas |-> replicas]

\* Either nothing exists, or a container does that an older release may have
\* created with a rolling update strategy.
Init ==
    /\ \/ /\ deployment = NoDeployment
          /\ replicaSet = [u \in Uids |-> NoReplicaSet]
          /\ pods = {}
          /\ fresh = Uids
       \/ \E u \in Uids, strategy \in {"Recreate", "RollingUpdate"}, n \in 0..1 :
             /\ deployment = NewDeployment(u, strategy, n)
             /\ replicaSet = [v \in Uids |-> IF v = u
                                             THEN [template |-> 1, want |-> n]
                                             ELSE NoReplicaSet]
             /\ pods = IF n = 0 THEN {}
                       ELSE {[uid |-> u, template |-> 1, phase |-> "Running",
                              deleting |-> FALSE]}
             /\ fresh = Uids \ {u}
    /\ evictions = 0
    /\ Mutex!MutexInit
    /\ op \in [Requests -> Ops]
    /\ pc = [r \in Requests |-> "idle"]
    /\ started = [r \in Requests |-> FALSE]
    /\ stopped = [r \in Requests |-> FALSE]
    /\ result = [r \in Requests |-> "none"]

-----------------------------------------------------------------------------
(* Kubernetes.                                                             *)

\* The Deployment controller: it reports the generation it has seen and the
\* Pods it counts, and sets the scale of its ReplicaSets. Under Recreate it
\* scales the old template down, and brings the new one up only when no old
\* Pod is active.
DeploymentSync ==
    /\ deployment # NoDeployment
    /\ LET u == deployment.uid
           rs == replicaSet[u]
           target == [template |-> deployment.template,
                      want |-> deployment.replicas]
           old == {p \in Owned(u) : p.template # deployment.template}
       IN  /\ deployment' = [deployment EXCEPT
                                !.observedGeneration = deployment.generation,
                                !.statusReplicas = Cardinality(Kept(u))]
           /\ replicaSet' = [replicaSet EXCEPT ![u] =
                 IF \/ rs = NoReplicaSet
                    \/ rs.template = target.template
                    \/ deployment.strategy = "RollingUpdate"
                    \/ rs.want = 0 /\ old = {}
                 THEN target
                 ELSE [rs EXCEPT !.want = 0]]
    /\ UNCHANGED <<pods, fresh, evictions, requestVars>>

\* The ReplicaSet controller: delete the Pods it should not have, create the
\* one it lacks. It does not wait for a deleted Pod to end.
ReplicaSetSync(u) ==
    /\ replicaSet[u] # NoReplicaSet
    /\ LET rs == replicaSet[u]
           keep == {p \in Kept(u) : rs.want = 1 /\ p.template = rs.template}
           drop == Kept(u) \ keep
           new == IF rs.want = 1 /\ keep = {}
                  THEN {[uid |-> u, template |-> rs.template,
                         phase |-> "Pending", deleting |-> FALSE]}
                  ELSE {}
       IN  pods' = (pods \ drop) \cup new
                   \cup {[p EXCEPT !.deleting = TRUE] : p \in drop}
    /\ UNCHANGED <<deployment, replicaSet, fresh, evictions, requestVars>>

\* The garbage collector: first the ReplicaSet of a deleted Deployment, then
\* the Pods of a deleted ReplicaSet.
CollectReplicaSet(u) ==
    /\ ~Exists(u)
    /\ replicaSet[u] # NoReplicaSet
    /\ replicaSet' = [replicaSet EXCEPT ![u] = NoReplicaSet]
    /\ UNCHANGED <<deployment, pods, fresh, evictions, requestVars>>

CollectPods(u) ==
    /\ ~Exists(u)
    /\ replicaSet[u] = NoReplicaSet
    /\ Kept(u) # {}
    /\ pods' = (pods \ Kept(u))
               \cup {[p EXCEPT !.deleting = TRUE] : p \in Kept(u)}
    /\ UNCHANGED <<deployment, replicaSet, fresh, evictions, requestVars>>

\* The kubelet starts a Pod, finishes a deleted one, or evicts one.
PodRuns(p) ==
    /\ p.phase = "Pending" /\ ~p.deleting
    /\ pods' = (pods \ {p}) \cup {[p EXCEPT !.phase = "Running"]}
    /\ UNCHANGED <<deployment, replicaSet, fresh, evictions, requestVars>>

PodEnds(p) ==
    /\ p.deleting \/ ~Active(p)
    /\ pods' = pods \ {p}
    /\ UNCHANGED <<deployment, replicaSet, fresh, evictions, requestVars>>

PodEvicted(p) ==
    /\ Active(p) /\ evictions < MaxEvictions
    /\ pods' = (pods \ {p}) \cup {[p EXCEPT !.phase = "Failed"]}
    /\ evictions' = evictions + 1
    /\ UNCHANGED <<deployment, replicaSet, fresh, requestVars>>

\* Someone deletes the Deployment outside dink.
DeletedOutside ==
    /\ OutsideDeletes
    /\ deployment # NoDeployment
    /\ deployment' = NoDeployment
    /\ UNCHANGED <<replicaSet, pods, fresh, evictions, requestVars>>

-----------------------------------------------------------------------------
(* Steps of a request.                                                     *)

Goto(r, from, to) == pc[r] = from /\ pc' = [pc EXCEPT ![r] = to]

\* r returns, and its deferred unlock runs.
Return(r, res) ==
    /\ pc' = [pc EXCEPT ![r] = "done"]
    /\ result' = [result EXCEPT ![r] = res]
    /\ IF critical[r] = NoUid THEN UNCHANGED critical ELSE Mutex!Leave(r)

\* Faults: the UID check, the exclusive lock, the wait or one of the wait's
\* conditions is missing.
UpdateDeployment_AnyUid(r, d) ==
    /\ deployment # NoDeployment
    /\ deployment' = [d EXCEPT !.generation = @ + 1, !.strategy = "Recreate"]

LockContainer_Shared(r) ==
    /\ op[r] # "create"
    /\ Goto(r, "idle", "locked")
    /\ deployment # NoDeployment
    /\ critical' = [critical EXCEPT ![r] = deployment.uid]
    /\ started' = [started EXCEPT ![r] = deployment.replicas > 0]
    /\ UNCHANGED <<clusterVars, op, stopped, result>>

StartChecks_NoWait(r) ==
    /\ op[r] = "start"
    /\ Goto(r, "locked", "scaleUp")
    /\ UNCHANGED <<clusterVars, critical, op, started, stopped, result>>

WaitGets_AnyGeneration(r) ==
    /\ Goto(r, "get", "list")
    /\ deployment = NoDeployment \/ Exists(critical[r])
    /\ stopped' = [stopped EXCEPT ![r] =
          deployment = NoDeployment
          \/ (deployment.replicas = 0 /\ deployment.statusReplicas = 0)]
    /\ UNCHANGED <<clusterVars, critical, op, started, result>>

WaitGets_NeedsDeployment(r) ==
    /\ Goto(r, "get", "list")
    /\ deployment = NoDeployment \/ Exists(critical[r])
    /\ stopped' = [stopped EXCEPT ![r] =
          /\ deployment # NoDeployment
          /\ deployment.replicas = 0
          /\ deployment.observedGeneration >= deployment.generation]
    /\ UNCHANGED <<clusterVars, critical, op, started, result>>

\* updateContainerDeployment: write d over the Deployment r has locked. A
\* changed template switches it to Recreate; a changed spec is a new
\* generation.
UpdateDeployment(r, d) ==
    LET spec(x) == <<x.replicas, x.template, x.strategy>>
        e == IF d.template = deployment.template THEN d
             ELSE [d EXCEPT !.strategy = "Recreate"]
    IN  /\ Exists(critical[r])
        /\ deployment' = IF spec(e) = spec(deployment) THEN e
                         ELSE [e EXCEPT !.generation = @ + 1]

\* setContainerReplicas; t is the next template if it also sets restartAt.
WithReplicas(n, t) ==
    [deployment EXCEPT
        !.replicas = n,
        !.strategy = "Recreate",
        !.signalled = IF n > 0 THEN FALSE ELSE @,
        !.template = t]

\* What ContainerKill writes: no replicas, and the signal.
Killed == [deployment EXCEPT !.replicas = 0, !.signalled = TRUE]

\* lockContainer returns the workload as it is then.
LockContainer(r) ==
    /\ op[r] # "create"
    /\ Goto(r, "idle", "locked")
    /\ deployment # NoDeployment
    /\ Mutex!Enter(r, deployment.uid)
    /\ started' = [started EXCEPT ![r] = deployment.replicas > 0]
    /\ UNCHANGED <<clusterVars, op, stopped, result>>

\* lockContainer or ContainerCreate fails before it has changed anything:
\* the container is not found, its name is taken, the client goes away.
NeverRuns(r) ==
    /\ pc[r] = "idle"
    /\ Return(r, "error")
    /\ UNCHANGED <<clusterVars, op, started, stopped>>

\* ContainerStop and ContainerRestart scale to zero, then wait.
ContainerStop(r) ==
    /\ op[r] = "stop"
    /\ Goto(r, "locked", "get")
    /\ UpdateDeployment(r, WithReplicas(0, deployment.template))
    /\ UNCHANGED <<replicaSet, pods, fresh, evictions,
                   critical, op, started, stopped, result>>

RestartScalesDown(r) ==
    /\ op[r] = "restart"
    /\ Goto(r, "locked", "get")
    /\ UpdateDeployment(r, WithReplicas(0, deployment.template))
    /\ UNCHANGED <<replicaSet, pods, fresh, evictions,
                   critical, op, started, stopped, result>>

\* ContainerKill scales to zero, records the signal and does not wait.
ContainerKill(r) ==
    /\ op[r] = "kill" /\ pc[r] = "locked"
    /\ UpdateDeployment(r, Killed)
    /\ Return(r, "ok")
    /\ UNCHANGED <<replicaSet, pods, fresh, evictions, op, started, stopped>>

\* ContainerStart waits for earlier Pods unless the workload was started.
StartChecks(r) ==
    /\ op[r] = "start"
    /\ Goto(r, "locked", IF started[r] THEN "scaleUp" ELSE "get")
    /\ UNCHANGED <<clusterVars, critical, op, started, stopped, result>>

\* ContainerUpdate replaces the template's resources. NetworkConnect and
\* NetworkDisconnect change the template's labels in the same way.
ContainerUpdate(r) ==
    /\ op[r] = "update" /\ pc[r] = "locked"
    /\ UpdateDeployment(r, [deployment EXCEPT !.template = @ + 1])
    /\ Return(r, "ok")
    /\ UNCHANGED <<replicaSet, pods, fresh, evictions, op, started, stopped>>

\* ContainerRm refuses a running container unless forced.
RmRefuses(r) ==
    /\ op[r] = "rm" /\ pc[r] = "locked" /\ started[r]
    /\ Return(r, "error")
    /\ UNCHANGED <<clusterVars, op, started, stopped>>

\* deleteWorkload: delete by UID; a workload that is gone is no error.
RmDeletes(r) ==
    /\ op[r] = "rmForce" \/ (op[r] = "rm" /\ ~started[r])
    /\ Goto(r, "locked", "get")
    /\ deployment = NoDeployment \/ Exists(critical[r])
    /\ deployment' = NoDeployment
    /\ UNCHANGED <<replicaSet, pods, fresh, evictions,
                   critical, op, started, stopped, result>>

\* The write finds the workload gone or replaced: NotFound, or for a delete
\* the Conflict of its UID precondition.
WorkloadGone(r) ==
    /\ \/ pc[r] = "scaleUp"
       \/ pc[r] = "locked" /\ op[r] \in {"stop", "restart", "kill", "update"}
       \/ pc[r] = "locked" /\ op[r] \in {"rm", "rmForce"}
                           /\ deployment # NoDeployment
    /\ ~Exists(critical[r])
    /\ Return(r, "error")
    /\ UNCHANGED <<clusterVars, op, started, stopped>>

\* waitContainerStopped, first read: the Deployment.
WaitGets(r) ==
    /\ Goto(r, "get", "list")
    /\ deployment = NoDeployment \/ Exists(critical[r])
    /\ stopped' = [stopped EXCEPT ![r] =
          deployment = NoDeployment
          \/ /\ deployment.replicas = 0
             /\ deployment.observedGeneration >= deployment.generation
             /\ deployment.statusReplicas = 0]
    /\ UNCHANGED <<clusterVars, critical, op, started, result>>

\* The Deployment was replaced while stopping.
WaitReplaced(r) ==
    /\ pc[r] = "get"
    /\ deployment # NoDeployment /\ ~Exists(critical[r])
    /\ Return(r, "error")
    /\ UNCHANGED <<clusterVars, op, started, stopped>>

\* Second read: the Pods. Not stopped yet: poll again.
WaitPolls(r) ==
    /\ Goto(r, "list", "get")
    /\ ~stopped[r] \/ ActivePods # {}
    /\ UNCHANGED <<clusterVars, critical, op, started, stopped, result>>

\* Stopped: start and restart go on to scale up, stop and rm return. What
\* rm does after the wait is in ContainerNames.
WaitEnds(r) ==
    /\ pc[r] = "list"
    /\ stopped[r] /\ ActivePods = {}
    /\ IF op[r] \in {"start", "restart"}
       THEN Goto(r, "list", "scaleUp") /\ UNCHANGED <<critical, result>>
       ELSE Return(r, "ok")
    /\ UNCHANGED <<clusterVars, op, started, stopped>>

\* ContainerStart scales to one, ContainerRestart to one of a new template.
StartScalesUp(r) ==
    /\ op[r] = "start" /\ pc[r] = "scaleUp"
    /\ UpdateDeployment(r, WithReplicas(1, deployment.template))
    /\ Return(r, "ok")
    /\ UNCHANGED <<replicaSet, pods, fresh, evictions, op, started, stopped>>

RestartScalesUp(r) ==
    /\ op[r] = "restart" /\ pc[r] = "scaleUp"
    /\ UpdateDeployment(r, WithReplicas(1, deployment.template + 1))
    /\ Return(r, "ok")
    /\ UNCHANGED <<replicaSet, pods, fresh, evictions, op, started, stopped>>

\* ContainerCreate creates a stopped Deployment if the name is free.
ContainerCreate(r) ==
    /\ op[r] = "create" /\ pc[r] = "idle"
    /\ deployment = NoDeployment
    /\ \E u \in fresh :
          /\ deployment' = [NewDeployment(u, "Recreate", 0)
                               EXCEPT !.observedGeneration = 0]
          /\ fresh' = fresh \ {u}
    /\ Return(r, "ok")
    /\ UNCHANGED <<replicaSet, pods, evictions, op, started, stopped>>

\* A Kubernetes call fails, the two minutes of the wait are over, the client
\* goes away, or (before scaling up) the aliases cannot be claimed.
Abort(r) ==
    /\ pc[r] \in {"locked", "get", "list", "scaleUp"}
    /\ Return(r, "error")
    /\ UNCHANGED <<clusterVars, op, started, stopped>>

\* dink restarts: requests in flight are lost, and so are the locks.
ProcessRestarts ==
    /\ \E r \in Requests : critical[r] # NoUid
    /\ Mutex!LeaveAll
    /\ pc' = [r \in Requests |-> IF pc[r] = "idle" THEN "idle" ELSE "done"]
    /\ UNCHANGED <<clusterVars, op, started, stopped, result>>

-----------------------------------------------------------------------------
RequestStep(r) ==
    \/ ContainerStop(r) \/ RestartScalesDown(r) \/ ContainerKill(r)
    \/ StartChecks(r) \/ StartScalesUp(r) \/ RestartScalesUp(r)
    \/ ContainerUpdate(r) \/ RmRefuses(r) \/ RmDeletes(r) \/ WorkloadGone(r)
    \/ WaitGets(r) \/ WaitReplaced(r) \/ WaitPolls(r) \/ WaitEnds(r)

AllReturned == (\A r \in Requests : pc[r] = "done") /\ UNCHANGED vars

ControllerStep ==
    \/ DeploymentSync
    \/ \E u \in Uids :
          ReplicaSetSync(u) \/ CollectReplicaSet(u) \/ CollectPods(u)

KubeletStep == \E p \in pods : PodRuns(p) \/ PodEnds(p)

Next ==
    \/ \E r \in Requests :
          RequestStep(r) \/ LockContainer(r) \/ ContainerCreate(r)
          \/ NeverRuns(r) \/ Abort(r)
    \/ ControllerStep
    \/ KubeletStep
    \/ \E p \in pods : PodEvicted(p)
    \/ DeletedOutside
    \/ ProcessRestarts
    \/ AllReturned

Spec == Init /\ [][Next]_vars

\* Controllers, kubelets and the goroutine of a request that holds a lock
\* keep working. No call need fail, no client need go away.
Fairness ==
    /\ \A r \in Requests : WF_vars(RequestStep(r))
    /\ WF_vars(DeploymentSync)
    /\ \A u \in Uids : /\ WF_vars(ReplicaSetSync(u))
                       /\ WF_vars(CollectReplicaSet(u))
                       /\ WF_vars(CollectPods(u))
    /\ WF_vars(KubeletStep)

-----------------------------------------------------------------------------
(* Properties.                                                             *)

Deployments ==
    [uid : Uids, replicas : 0..1, template : Nat,
     strategy : {"Recreate", "RollingUpdate"}, signalled : BOOLEAN,
     generation : Nat, observedGeneration : Nat, statusReplicas : 0..1]
ReplicaSets == [template : Nat, want : 0..1]
Pods == [uid : Uids, template : Nat, deleting : BOOLEAN,
         phase : {"Pending", "Running", "Failed"}]

\* Types of the cluster's and the requests' state.
TypeOK ==
    /\ deployment \in {NoDeployment} \cup Deployments
    /\ replicaSet \in [Uids -> {NoReplicaSet} \cup ReplicaSets]
    /\ pods \subseteq Pods
    /\ fresh \subseteq Uids
    /\ evictions \in 0..MaxEvictions
    /\ critical \in [Requests -> Uids \cup {NoUid}]
    /\ op \in [Requests -> Ops]
    /\ pc \in [Requests -> {"idle", "locked", "get", "list", "scaleUp", "done"}]
    /\ started \in [Requests -> BOOLEAN]
    /\ stopped \in [Requests -> BOOLEAN]
    /\ result \in [Requests -> {"none", "ok", "error"}]

\* Two Pods of the container are never active at the same time: "container
\* replacements must stop first so database or file-lock holders do not
\* overlap" (docs/docker-translation-contract.md:34). Start and restart wait
\* for terminating Pods, template changes use Recreate.
NoOverlap == Cardinality(ActivePods) <= 1

\* However often a container is removed and created again under its name,
\* no single workload ever has two active Pods (waitContainerStopped,
\* Recreate): what overlaps are Pods of a workload and of its replacement.
NoOwnOverlap == \A u \in Uids : Cardinality(Owned(u)) <= 1

\* A start or restart that has finished waiting still finds its workload
\* stopped when it scales up: between the wait's two reads and the write
\* nothing can bring a Pod of the workload back (a workload deleted outside
\* dink meanwhile is not scaled at all).
StoppedBeforeScaleUp ==
    \A r \in Requests :
        /\ pc[r] = "scaleUp" /\ Exists(critical[r])
        /\ ~started[r] \/ op[r] = "restart"
        => Owned(critical[r]) = {}

\* A container that is asked to run carries no exit code of an earlier kill
\* (setContainerReplicas deletes the annotation that ContainerWait reads).
NoStaleSignal ==
    deployment # NoDeployment /\ deployment.replicas > 0 =>
        ~deployment.signalled

\* Removal without force never deletes a container that is asked to run,
\* although ContainerRm checks a copy it read when it took the lock.
RmSparesRunning ==
    [][\A r \in Requests :
          RmDeletes(r) /\ op[r] = "rm" /\ deployment # NoDeployment =>
             deployment.replicas = 0]_vars

\* The spec of a workload changes only by a request that holds its lock:
\* a request whose container was replaced under its name never scales or
\* updates the replacement.
OnlyLockedChanges ==
    [][\A u \in Uids :
          /\ Exists(u) /\ Exists(u)'
          /\ deployment'.generation # deployment.generation
          => \E r \in Requests : critical[r] = u]_vars

\* A workload has at most one active Pod; while its ReplicaSet wants one, it
\* is not being deleted and has the template of the ReplicaSet.
OnePodEach ==
    \A u \in Uids :
        /\ \A p, q \in Owned(u) : p = q
        /\ replicaSet[u] # NoReplicaSet /\ replicaSet[u].want = 1 =>
              \A p \in Owned(u) : ~p.deleting /\ p.template = replicaSet[u].template

\* The controllers are never ahead of the Deployment, a workload whose
\* scale-up they have not seen has no Pod left of its template, and a
\* rolling strategy is left behind before the template changes.
ScaleFollows ==
    deployment # NoDeployment =>
        LET u == deployment.uid
            rs == replicaSet[u]
        IN  /\ rs = NoReplicaSet => Owned(u) = {}
            /\ rs # NoReplicaSet =>
                  /\ rs.template <= deployment.template
                  /\ \A p \in Owned(u) : p.template <= rs.template
                  /\ /\ deployment.replicas = 1 /\ rs.want = 0
                     /\ rs.template = deployment.template
                     => Owned(u) = {}
            /\ deployment.strategy = "RollingUpdate" =>
                  rs # NoReplicaSet /\ rs.template = deployment.template

\* A ReplicaSet that wants no Pod.
Settled(u) == replicaSet[u] = NoReplicaSet \/ replicaSet[u].want = 0

\* An observed scale to zero has reached the ReplicaSet.
ObservedIsDone ==
    deployment # NoDeployment =>
        /\ deployment.observedGeneration <= deployment.generation
        /\ /\ deployment.observedGeneration = deployment.generation
           /\ deployment.replicas = 0
           => Settled(deployment.uid)

\* Nothing refers to a UID no workload has had.
FreshUnused ==
    \A u \in fresh :
        /\ ~Exists(u) /\ replicaSet[u] = NoReplicaSet /\ Owned(u) = {}
        /\ \A r \in Requests : critical[r] # u

\* A request holds its lock exactly while it operates, and alone.
LocksHeld ==
    /\ \A r \in Requests :
          critical[r] # NoUid <=> pc[r] \in {"locked", "get", "list", "scaleUp"}
    /\ \A r, s \in Requests :
          critical[r] = critical[s] /\ critical[r] # NoUid => r = s

\* What a request has read of the workload it locked is still so, at every
\* step that relies on it, unless the workload is gone.
ReadsHold ==
    \A r \in Requests :
        /\ pc[r] \in {"get", "list"} /\ op[r] = "start" => ~started[r]
        /\ Exists(critical[r]) =>
              /\ pc[r] = "locked" => (started[r] <=> deployment.replicas = 1)
              /\ pc[r] = "scaleUp" /\ started[r] /\ op[r] = "start" =>
                    deployment.replicas = 1
              /\ pc[r] = "list" /\ stopped[r] =>
                    deployment.replicas = 0 /\ Settled(critical[r])
              /\ pc[r] = "scaleUp" /\ (~started[r] \/ op[r] = "restart") =>
                    /\ deployment.replicas = 0 /\ Settled(critical[r])
                    /\ Owned(critical[r]) = {}

\* What keeps the Pods of a workload from overlapping.
LifecycleInv ==
    /\ OnePodEach
    /\ ScaleFollows
    /\ ObservedIsDone
    /\ FreshUnused
    /\ LocksHeld
    /\ ReadsHold
    /\ NoStaleSignal

\* What every step preserves, and the proofs are by induction on: no step of
\* a call, a controller or the kubelet makes what waitContainerStopped,
\* setContainerReplicas and updateContainerDeployment rely on untrue.
IInv == TypeOK /\ LifecycleInv

\* Every operation that holds a lock returns, without its timeout and
\* without cancellation: stop, start, restart and rm never wait for Pods
\* that will not end.
OperationsReturn ==
    \A r \in Requests : critical[r] # NoUid ~> critical[r] = NoUid

=============================================================================
