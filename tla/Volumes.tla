------------------------------ MODULE Volumes ------------------------------
(***************************************************************************)
(* Docker volumes (core/translator/volume.go, volume_plugin.go,            *)
(* container_volumes.go): PersistentVolumeClaims, the plugins that back    *)
(* some of them, and the containers that mount them.                       *)
(*                                                                         *)
(* Several Docker names may have the same claim name (volumeResourceName   *)
(* lowers and replaces characters); a claim records the name it was        *)
(* created for. Kubernetes keeps a deleted claim while a Pod mounts it.    *)
(***************************************************************************)
EXTENDS Naturals, FiniteSets

CONSTANTS Calls, Containers,
          Named,        \* volume names users give
          Generated,    \* names of anonymous volumes
          ResourceName, \* volumeResourceName, on those names
          Drivers,      \* "local", and the names of plugins
          Ops, NoClaim

Names == Named \cup Generated
Claims == {ResourceName[v] : v \in Names}

VARIABLES
    claim,      \* claim[p]: the PersistentVolumeClaim p, or NoClaim
    storage,    \* names a plugin holds external state for
    workload,   \* workload[c]: claims of c's Pod template; NoClaim if no c
    pod,        \* pod[c]: claims a Pod of c mounts
    nameMu,     \* call that holds containerNameMu, or "free"
    call,       \* call[i]: local state of a call
    user        \* user[i]: containers on call i's claim ever since it looked

cluster == <<claim, storage, workload, pod, user>>
vars == <<claim, storage, workload, pod, nameMu, call, user>>

Exists(c) == workload[c] # {NoClaim}
Mounts(c) == (workload[c] \cup pod[c]) \ {NoClaim}
Users(p) == {c \in Containers : p \in Mounts(c)}

Init ==
    /\ claim = [p \in Claims |-> NoClaim]
    /\ storage = {}
    /\ workload = [c \in Containers |-> {NoClaim}]
    /\ pod = [c \in Containers |-> {}]
    /\ nameMu = "free"
    /\ call = [i \in Calls |-> [pc |-> "idle", op |-> "none", v |-> "none",
                  driver |-> "none", c |-> "none", busy |-> {},
                  found |-> "none", result |-> "none"]]
    /\ user = [i \in Calls |-> {}]

-----------------------------------------------------------------------------
P(i) == ResourceName[call[i].v]
Goto(i, step) == call' = [call EXCEPT ![i].pc = step]
Return(i, res) == /\ call' = [call EXCEPT ![i].pc = "done", ![i].result = res]
                  /\ nameMu' = IF nameMu = i THEN "free" ELSE nameMu

Call(i) ==
    /\ call[i].pc = "idle"
    /\ \E op \in Ops, v \in Names, d \in Drivers, c \in Containers :
          /\ v \in Generated => op # "create"
          /\ call' = [call EXCEPT ![i].op = op,
                 ![i].v = IF op = "rmVolumes" THEN "none" ELSE v,
                 ![i].c = IF op \in {"run", "rmVolumes"} THEN c ELSE "none",
                 ![i].driver = IF op \in {"run", "create"} THEN d ELSE "none",
                 ![i].pc = CASE op = "create" -> "get"
                             [] op \in {"remove", "removeForce"} -> "find"
                             [] op = "run" -> "mutex"
                             [] op = "rmVolumes" -> "rm"]
    /\ UNCHANGED <<cluster, nameMu>>

GetVolume_ByClaim(v) == claim[ResourceName[v]]

\* GetVolume: the claim of that resource name, if it was made for the name.
GetVolume(v) ==
    LET p == claim[ResourceName[v]]
    IN IF p # NoClaim /\ p.name = v THEN p ELSE NoClaim

-----------------------------------------------------------------------------
\* CreateVolume, for "docker volume create" and for a container's mount.

\* Where a create ends: a conflict sends a container's mount on to look.
Settle(i, res) ==
    IF call[i].op = "run" /\ res \in {"ok", "conflict"}
    THEN Goto(i, "mount") /\ UNCHANGED nameMu
    ELSE Return(i, res)

ExistingVolume(i, p) ==
    Settle(i, IF p.name = call[i].v /\ p.driver = call[i].driver
              THEN "ok" ELSE "conflict")

Get(i) ==
    /\ call[i].pc = "get"
    /\ IF claim[P(i)] # NoClaim THEN ExistingVolume(i, claim[P(i)])
       ELSE /\ Goto(i, IF call[i].driver = "local" THEN "create" ELSE "provision")
            /\ UNCHANGED nameMu
    /\ UNCHANGED cluster

\* pluginVolumeClaim; a claim the plugin describes badly ends the call here.
Provision(i) ==
    /\ call[i].pc = "provision"
    /\ storage' = storage \cup {call[i].v}
    /\ \/ Goto(i, "create") /\ UNCHANGED nameMu
       \/ Return(i, "error")
    /\ UNCHANGED <<claim, workload, pod, user>>

CreateClaim(i) ==
    /\ call[i].pc = "create"
    /\ IF claim[P(i)] # NoClaim
       THEN ExistingVolume(i, claim[P(i)]) /\ UNCHANGED claim
       ELSE /\ claim' = [claim EXCEPT ![P(i)] =
                 [name |-> call[i].v, driver |-> call[i].driver,
                  anonymous |-> call[i].v \in Generated, deleting |-> FALSE]]
            /\ Settle(i, "ok")
    /\ UNCHANGED <<storage, workload, pod, user>>

-----------------------------------------------------------------------------
\* RemoveVolume, and PruneVolumes for each volume it lists.

Find(i) ==
    LET p == GetVolume(call[i].v)
    IN /\ call[i].pc = "find"
       /\ IF p = NoClaim THEN Return(i, "notFound") /\ UNCHANGED user
          ELSE /\ call' = [call EXCEPT ![i].driver = p.driver,
                     ![i].pc = IF call[i].op = "removeForce" THEN "release"
                               ELSE "inUse"]
               /\ user' = [user EXCEPT ![i] = Users(P(i))]
               /\ UNCHANGED nameMu
       /\ UNCHANGED <<claim, storage, workload, pod>>

\* volumeClaimsInUse: workloads and, for those on their way out, Pods.
InUse(i) ==
    /\ call[i].pc = "inUse"
    /\ IF Users(P(i)) # {} THEN Return(i, "conflict")
       ELSE Goto(i, "release") /\ UNCHANGED nameMu
    /\ UNCHANGED cluster

\* removePluginVolume; force deletes the claim although the driver refuses.
Release(i) ==
    /\ call[i].pc = "release"
    /\ \/ storage' = storage \ {call[i].v} /\ Goto(i, "delete") /\ UNCHANGED nameMu
       \/ /\ call[i].driver # "local" /\ UNCHANGED storage
          /\ IF call[i].op = "removeForce"
             THEN Goto(i, "delete") /\ UNCHANGED nameMu
             ELSE Return(i, "error")
    /\ UNCHANGED <<claim, workload, pod, user>>

\* Kubernetes defers the deletion of a claim while a Pod mounts it.
DeleteClaim(p) ==
    claim' = [claim EXCEPT ![p] =
        IF @ = NoClaim THEN NoClaim
        ELSE IF \E c \in Containers : p \in pod[c] THEN [@ EXCEPT !.deleting = TRUE]
        ELSE NoClaim]

Delete(i) ==
    /\ call[i].pc = "delete"
    /\ DeleteClaim(P(i))
    /\ Return(i, IF claim[P(i)] = NoClaim THEN "notFound" ELSE "ok")
    /\ UNCHANGED <<storage, workload, pod, user>>

ClaimGoes(p) ==
    /\ claim[p] # NoClaim /\ claim[p].deleting
    /\ \A c \in Containers : p \notin pod[c]
    /\ claim' = [claim EXCEPT ![p] = NoClaim]
    /\ UNCHANGED <<storage, workload, pod, nameMu, call, user>>

-----------------------------------------------------------------------------
\* A container with one volume: ensureContainerVolume, then the workload.

TakeNameMu(i) ==
    /\ call[i].pc = "mutex" /\ nameMu = "free" /\ nameMu' = i
    /\ IF Exists(call[i].c) THEN Goto(i, "exists")
       ELSE Goto(i, IF GetVolume(call[i].v) # NoClaim THEN "mount" ELSE "get")
    /\ UNCHANGED cluster

NameTaken(i) ==
    /\ call[i].pc = "exists" /\ Return(i, "conflict") /\ UNCHANGED cluster

\* GetVolume once more; the workload will mount the claim by its name.
Mount(i) ==
    LET p == GetVolume(call[i].v)
    IN /\ call[i].pc = "mount"
       /\ IF p = NoClaim THEN Return(i, "notFound")
          ELSE /\ call' = [call EXCEPT ![i].pc = "start", ![i].found = p.name]
               /\ UNCHANGED nameMu
       /\ UNCHANGED cluster

Start(i) ==
    /\ call[i].pc = "start"
    /\ workload' = [workload EXCEPT ![call[i].c] = {P(i)}]
    /\ Return(i, "ok")
    /\ UNCHANGED <<claim, storage, pod, user>>

\* The Pod runs once its claim can be mounted.
PodRuns(c) ==
    /\ Exists(c) /\ pod[c] = {}
    /\ \A p \in workload[c] : claim[p] # NoClaim /\ ~claim[p].deleting
    /\ pod' = [pod EXCEPT ![c] = workload[c]]
    /\ UNCHANGED <<claim, storage, workload, nameMu, call, user>>

-----------------------------------------------------------------------------
\* ContainerRm with volumes: removeAnonymousVolumes after the Pods stopped.

Rm(i) ==
    LET c == call[i].c
    IN /\ call[i].pc = "rm"
       /\ IF ~Exists(c) THEN Return(i, "notFound") /\ UNCHANGED <<workload, user>>
          ELSE /\ workload' = [workload EXCEPT ![c] = {NoClaim}]
               /\ call' = [call EXCEPT ![i].pc = "stopped",
                                       ![i].busy = workload[c]]
               /\ user' = [j \in Calls |-> IF pod[c] = {} THEN user[j] \ {c}
                                           ELSE user[j]]
               /\ UNCHANGED nameMu
       /\ UNCHANGED <<claim, storage, pod>>

PodGoes(c) ==
    /\ pod[c] # {} /\ ~Exists(c)
    /\ pod' = [pod EXCEPT ![c] = {}]
    /\ user' = [j \in Calls |-> user[j] \ {c}]
    /\ UNCHANGED <<claim, storage, workload, nameMu, call>>

\* What other workloads mount is spared; call.busy becomes what is left.
Stopped(i) ==
    /\ call[i].pc = "stopped" /\ pod[call[i].c] = {}
    /\ call' = [call EXCEPT ![i].pc = "anonymous", ![i].busy =
          @ \ UNION {workload[c] : c \in Containers \ {call[i].c}}]
    /\ UNCHANGED <<cluster, nameMu>>

RemoveAnonymous(i) ==
    LET gone == {p \in call[i].busy : claim[p] # NoClaim /\ claim[p].anonymous}
    IN /\ call[i].pc = "anonymous"
       /\ \/ gone = {} /\ UNCHANGED claim /\ Return(i, "ok")
          \/ \E p \in gone : /\ DeleteClaim(p) /\ UNCHANGED nameMu
                            /\ call' = [call EXCEPT ![i].busy = @ \ {p}]
       /\ UNCHANGED <<storage, workload, pod, user>>

-----------------------------------------------------------------------------
Next ==
    \/ \E i \in Calls :
         \/ Call(i) \/ Get(i) \/ Provision(i) \/ CreateClaim(i) \/ Find(i)
         \/ InUse(i) \/ Release(i) \/ Delete(i) \/ TakeNameMu(i)
         \/ NameTaken(i) \/ Mount(i) \/ Start(i) \/ Rm(i) \/ Stopped(i)
         \/ RemoveAnonymous(i)
    \/ \E c \in Containers : PodRuns(c) \/ PodGoes(c)
    \/ \E p \in Claims : ClaimGoes(p)

Spec == Init /\ [][Next]_vars

-----------------------------------------------------------------------------
\* The types of the variables.
TypeOK ==
    /\ \A p \in Claims : claim[p] # NoClaim =>
          /\ claim[p].name \in {v \in Names : ResourceName[v] = p}
          /\ claim[p].driver \in Drivers
    /\ storage \subseteq Names
    /\ \A c \in Containers : Mounts(c) \subseteq Claims

\* RemoveVolume without force never deletes a claim that a container, or what
\* is left of its Pods, has used since before the volume was looked up.
RemoveSparesUsed ==
    \A i \in Calls :
       call[i].op = "remove" /\ call[i].pc = "delete" /\ call'[i].pc = "done"
       => user[i] = {}

\* Names that share a claim name are not mixed up: a mount goes ahead only
\* with a claim that was created for the name it asked for.
MountsItsOwn ==
    \A i \in Calls : call[i].pc = "start" => call[i].found = call[i].v

\* "only anonymous volumes not used by another container are removed": the
\* claims rm -v is about to delete are in no other workload that was there
\* when it looked.
AnonymousSparesOthers ==
    \A i \in Calls :
       call[i].pc = "stopped" /\ call'[i].pc = "anonymous"
       => \A c \in Containers \ {call[i].c} :
             workload[c] \cap call'[i].busy = {}
=============================================================================
