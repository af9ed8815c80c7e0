---------------------------- MODULE ContainerNames ----------------------------
(***************************************************************************)
(* Container names and network aliases (core/translator/container_name.go, *)
(* container_aliases.go, and the parts of container_create.go,             *)
(* container_lifecycle.go and network_connect.go that claim or give up     *)
(* names). A name or alias is claimed by the Kubernetes Service of that    *)
(* name, owned by the workload; the container name is also an annotation   *)
(* on the workload, and so are the aliases it asked for.                   *)
(*                                                                         *)
(* Every Kubernetes call is one step and may fail, except that the deletes *)
(* of one clean-up are one step that may stop half way. A rolling update   *)
(* of dink runs two processes, each with its own container locks and its   *)
(* own containerNameMu. A call whose process dies is one that fails.       *)
(***************************************************************************)
EXTENDS FiniteSets, Naturals

CONSTANTS Requests,     \* API calls
          Processes,    \* dink processes
          Uids,         \* workload UIDs, also the generated object names
          Names,        \* container names and aliases, as Service names
          Ops,          \* the operations requests may ask for
          UndoFails,    \* deleting the workload of a failed create may fail
          NoUid, NoName, NoWorkload, NoService

Service == [owner : Uids, app : Names \cup Uids, kind : {"primary", "alias"}]

ASSUME NamesAssumption ==
    /\ Ops \subseteq {"create", "rename", "connect", "disconnect", "start",
                      "rm"}
    /\ UndoFails \in BOOLEAN
    /\ NoUid \notin Uids /\ NoName \notin Names /\ Names \cap Uids = {}
    /\ NoService \notin Service

VARIABLES
    workloads,  \* workloads[u]: the Deployment or Job, or NoWorkload
    services,   \* services[n]: the Service named n, or NoService
    fresh,      \* UIDs not used yet
    req         \* req[r]: the call r and its local state

vars == <<workloads, services, fresh, req>>

Alive(u) == workloads[u] # NoWorkload
OwnedBy(n, u) == services[n] # NoService /\ services[n].owner = u

\* containerDNSService and aliasService: the Service of the container name
\* and that of an alias, both labelled with the object name of the workload.
DNSService(u, app) == [owner |-> u, app |-> app, kind |-> "primary"]
AliasService(u, app) == [owner |-> u, app |-> app, kind |-> "alias"]

Pc(r) == req[r].pc
Op(r) == req[r].op
Uid(r) == req[r].uid
InFlight(r) == Pc(r) \notin {"idle", "done"}

\* The container lock is held from lockContainer to the return of the call,
\* containerNameMu over the steps that read and write names.
HoldsLock(r) == InFlight(r) /\ Op(r) # "create"

HoldsNameMu(r) == InFlight(r) /\ Pc(r) \notin {"delete", "wait", "mu", "scale"}

SameProcess(r, s) == req[r].process = req[s].process

\* A call before it begins, and after it has returned.
Request0(pc, process, result) ==
    [pc |-> pc, op |-> "none", process |-> process, uid |-> NoUid,
     app |-> NoName, name |-> NoName, old |-> NoName, aliases |-> {},
     todo |-> {}, reserved |-> FALSE, result |-> result]

\* Containers that exist before the calls: created and stopped, under
\* different names, with aliases asked for and not yet claimed.
Init ==
    /\ \E old \in SUBSET Uids : \E name \in [old -> Names] :
          /\ \A u, v \in old : name[u] = name[v] => u = v
          /\ \E aliases \in [old -> SUBSET Names] :
                workloads = [u \in Uids |->
                    IF u \in old
                    THEN [name |-> name[u], app |-> name[u],
                          aliases |-> aliases[u],
                          running |-> FALSE, created |-> TRUE]
                    ELSE NoWorkload]
          /\ services = [n \in Names |->
                IF \E u \in old : name[u] = n
                THEN DNSService(CHOOSE u \in old : name[u] = n, n)
                ELSE NoService]
          /\ fresh = Uids \ old
    /\ \E process \in [Requests -> Processes] :
          req = [r \in Requests |-> Request0("idle", process[r], "none")]

Goto(r, to) == req' = [req EXCEPT ![r].pc = to]

\* A call that returns forgets its local state.
Return(r, res) ==
    req' = [req EXCEPT ![r] = Request0("done", req[r].process, res)]

\* Delete the Services N by deleteOwnedService, or fail after some of them.
DeleteServices(r, N, Proceed) ==
    \E D \in SUBSET N :
        /\ services' = [n \in Names |-> IF n \in D THEN NoService ELSE services[n]]
        /\ IF D = N THEN Proceed ELSE Return(r, "error")

-----------------------------------------------------------------------------
(* The beginning of a call.                                                *)

\* ContainerCreate is asked for the name n and the aliases A. The number of
\* creates is bounded by the UIDs.
CallCreate(r, n, A) ==
    /\ "create" \in Ops /\ Pc(r) = "idle"
    /\ Cardinality({s \in Requests : InFlight(s) /\ Uid(s) = NoUid})
          < Cardinality(fresh)
    /\ req' = [req EXCEPT ![r] =
          [@ EXCEPT !.pc = "mu", !.op = "create", !.name = n, !.aliases = A]]
    /\ UNCHANGED <<workloads, services, fresh>>

\* lockContainer, then containerNameMu (ContainerRm takes it only later).
\* The call keeps the workload as it was locked: its name, and the aliases
\* the call will reconcile to. Rename goes to the name n; connect replaces
\* the aliases by {n}; disconnect drops them, if there are any.
CallOnContainer(r, o, u, n) ==
    /\ o \in Ops \ {"create"} /\ Pc(r) = "idle" /\ Alive(u)
    /\ o = "disconnect" => workloads[u].aliases # {}
    /\ \A s \in Requests : SameProcess(r, s) /\ HoldsLock(s) => Uid(s) # u
    /\ req' = [req EXCEPT ![r] = [@ EXCEPT
          !.pc = IF o = "rm" THEN "delete" ELSE "mu",
          !.op = o, !.uid = u, !.app = workloads[u].app,
          !.old = workloads[u].name,
          !.name = IF o = "rename" THEN n ELSE workloads[u].name,
          !.aliases = CASE o = "connect" -> {n}
                        [] o = "disconnect" -> {}
                        [] OTHER -> workloads[u].aliases]]
    /\ UNCHANGED <<workloads, services, fresh>>

\* containerNameMu.Lock returns. A start without aliases has none to claim.
TakeNameMu(r) ==
    /\ Pc(r) = "mu"
    /\ \A s \in Requests : SameProcess(r, s) => ~HoldsNameMu(s)
    /\ Goto(r, CASE Op(r) \in {"create", "rename"} -> "check"
                 [] Op(r) = "rm" -> "services"
                 [] Op(r) = "start" /\ req[r].aliases = {} -> "scale"
                 [] OTHER -> "aliasDrop")
    /\ UNCHANGED <<workloads, services, fresh>>

-----------------------------------------------------------------------------
(* ensureContainerNameAvailable: two reads.                                *)

NameInUse(r) ==
    \E v \in Uids : v # Uid(r) /\ Alive(v) /\ workloads[v].name = req[r].name

CheckWorkloads(r) ==
    /\ Pc(r) = "check"
    /\ IF NameInUse(r) THEN Return(r, "error") ELSE Goto(r, "getService")
    /\ UNCHANGED <<workloads, services, fresh>>

CheckService(r) ==
    /\ Pc(r) = "getService"
    /\ IF services[req[r].name] # NoService /\ ~OwnedBy(req[r].name, Uid(r))
       THEN Return(r, "error")
       ELSE Goto(r, IF Op(r) = "create" THEN "object" ELSE "reserve")
    /\ UNCHANGED <<workloads, services, fresh>>

-----------------------------------------------------------------------------
(* ContainerCreate.                                                        *)

\* containerObjectName: the container name, unless an object has it.
ObjectExists(app) == \E v \in Uids : Alive(v) /\ workloads[v].app = app

ChooseObjectName(r) ==
    /\ Pc(r) = "object"
    /\ req' = [req EXCEPT ![r] = [@ EXCEPT
          !.pc = "workload",
          !.app = IF ObjectExists(req[r].name) THEN NoName ELSE req[r].name]]
    /\ UNCHANGED <<workloads, services, fresh>>

\* The Deployment or Job, with its name and aliases as annotations; NoName
\* stands for a generated object name.
CreateWorkload(r) ==
    /\ Pc(r) = "workload"
    /\ \/ /\ ObjectExists(req[r].app) /\ Return(r, "error")
          /\ UNCHANGED <<workloads, fresh>>
       \/ \E u \in fresh :
          LET app == IF req[r].app = NoName THEN u ELSE req[r].app IN
          /\ ~ObjectExists(req[r].app)
          /\ workloads' = [workloads EXCEPT ![u] =
                [name |-> req[r].name, app |-> app, aliases |-> req[r].aliases,
                 running |-> FALSE, created |-> FALSE]]
          /\ fresh' = fresh \ {u}
          /\ req' = [req EXCEPT ![r] =
                        [@ EXCEPT !.pc = "dns", !.uid = u, !.app = app]]
    /\ UNCHANGED services

\* The primary DNS Service, then the published ports.
CreateService(r) ==
    /\ Pc(r) = "dns"
    /\ IF services[req[r].name] = NoService
       THEN /\ services' = [services EXCEPT ![req[r].name] =
                               DNSService(Uid(r), req[r].app)]
            /\ Goto(r, "publish")
       ELSE Goto(r, "undo") /\ UNCHANGED services
    /\ UNCHANGED <<workloads, fresh>>

CreateReturns(r) ==
    /\ Pc(r) = "publish" /\ Alive(Uid(r))
    /\ workloads' = [workloads EXCEPT ![Uid(r)].created = TRUE]
    /\ Return(r, "ok")
    /\ UNCHANGED <<services, fresh>>

\* Publishing fails: the DNS Service is deleted by name, or left to the
\* garbage collector when only the published-ports policy failed.
CreatePublishFails(r) ==
    /\ Pc(r) = "publish"
    /\ \/ services' = [services EXCEPT ![req[r].name] = NoService]
       \/ UNCHANGED services
    /\ Goto(r, "undo")
    /\ UNCHANGED <<workloads, fresh>>

\* deleteWorkload, whose error is ignored.
CreateUndo(r) ==
    /\ Pc(r) = "undo"
    /\ \/ workloads' = [workloads EXCEPT ![Uid(r)] = NoWorkload]
       \/ UndoFails /\ UNCHANGED workloads
    /\ Return(r, "error")
    /\ UNCHANGED <<services, fresh>>

-----------------------------------------------------------------------------
(* ContainerRename.                                                        *)

\* Create the Service of the new name, or find that the workload owns it.
RenameReserves(r) ==
    LET n == req[r].name
        commit(new) == req' = [req EXCEPT ![r] =
                          [@ EXCEPT !.pc = "commit", !.reserved = new]]
    IN  /\ Pc(r) = "reserve"
        /\ \/ /\ services[n] = NoService
              /\ services' = [services EXCEPT ![n] = DNSService(Uid(r), req[r].app)]
              /\ commit(TRUE)
           \/ /\ services[n] # NoService
              /\ IF OwnedBy(n, Uid(r)) THEN commit(FALSE) ELSE Return(r, "error")
              /\ UNCHANGED services
        /\ UNCHANGED <<workloads, fresh>>

\* setContainerName: only from the name the call has seen, or a retry.
RenameCommits(r) ==
    LET u == Uid(r)
        n == req[r].name
    IN  /\ Pc(r) = "commit"
        /\ IF Alive(u) /\ workloads[u].name \in {n, req[r].old}
           THEN /\ workloads' = [workloads EXCEPT ![u].name = n]
                /\ Goto(r, "mark")
           ELSE Goto(r, "unreserve") /\ UNCHANGED workloads
        /\ UNCHANGED <<services, fresh>>

\* The commit failed: delete the Service if this call created it.
\* The resourceVersion precondition of the delete is left out: it can only
\* make the delete fail after a mark by another process.
RenameUnreserves(r) ==
    /\ Pc(r) = "unreserve"
    /\ services' = IF req[r].reserved /\ OwnedBy(req[r].name, Uid(r))
                   THEN [services EXCEPT ![req[r].name] = NoService]
                   ELSE services
    /\ Return(r, "error")
    /\ UNCHANGED <<workloads, fresh>>

\* The Service of the new name becomes the primary one.
RenameMarks(r) ==
    LET n == req[r].name IN
    /\ Pc(r) = "mark"
    /\ IF OwnedBy(n, Uid(r))
       THEN /\ services' = [services EXCEPT ![n] = DNSService(Uid(r), req[r].app)]
            /\ Goto(r, "aliasDrop")
       ELSE Return(r, "error") /\ UNCHANGED services
    /\ UNCHANGED <<workloads, fresh>>

\* Primary Services of earlier names go, unless they are aliases.
RenameDropsStale(r) ==
    /\ Pc(r) = "stale"
    /\ DeleteServices(r, {n \in Names \ ({req[r].name} \cup req[r].aliases) :
                             OwnedBy(n, Uid(r)) /\ services[n].kind = "primary"},
                      Return(r, "ok"))
    /\ UNCHANGED <<workloads, fresh>>

-----------------------------------------------------------------------------
(* applyAliasServices, for rename, start, connect and disconnect.          *)

\* Mutant: the Service of the current name is not spared.
AliasDrops_NameToo(r) ==
    /\ Pc(r) = "aliasDrop"
    /\ DeleteServices(r, {n \in Names \ req[r].aliases :
                             OwnedBy(n, Uid(r)) /\ services[n].kind = "alias"},
                      req' = [req EXCEPT ![r] =
                          [@ EXCEPT !.pc = "aliasApply", !.todo = req[r].aliases]])
    /\ UNCHANGED <<workloads, fresh>>

\* Alias Services that are no longer wanted go, except the current name's.
\* One left by an earlier workload of the same object name is an error.
AliasDrops(r) ==
    LET unwanted == {n \in Names \ (req[r].aliases \cup {req[r].name}) :
                        /\ services[n] # NoService
                        /\ services[n].kind = "alias"
                        /\ services[n].app = req[r].app}
        apply == req' = [req EXCEPT ![r] =
                    [@ EXCEPT !.pc = "aliasApply", !.todo = req[r].aliases]]
    IN  /\ Pc(r) = "aliasDrop"
        /\ IF \A n \in unwanted : OwnedBy(n, Uid(r))
           THEN DeleteServices(r, unwanted, apply)
           ELSE \E D \in SUBSET {n \in unwanted : OwnedBy(n, Uid(r))} :
                   DeleteServices(r, D, Return(r, "error"))
        /\ UNCHANGED <<workloads, fresh>>

\* Mutant: an alias that exists is taken for this container's.
AliasApplies_AnyOwner(r, a) ==
    /\ Pc(r) = "aliasApply" /\ a \in req[r].todo
    /\ services' = [services EXCEPT ![a] =
          IF @ = NoService THEN AliasService(Uid(r), req[r].app) ELSE @]
    /\ req' = [req EXCEPT ![r].todo = @ \ {a}]
    /\ UNCHANGED <<workloads, fresh>>

\* One alias: the primary Service serves it, or an alias Service is created
\* or updated, or another container has it.
AliasApplies(r, a) ==
    LET u == Uid(r)
        next == req' = [req EXCEPT ![r].todo = @ \ {a}]
    IN  /\ Pc(r) = "aliasApply" /\ a \in req[r].todo
        /\ \/ /\ services[a] # NoService /\ ~OwnedBy(a, u)
              /\ Return(r, "error") /\ UNCHANGED services
           \/ /\ a = req[r].name
              /\ \/ OwnedBy(a, u) /\ next
                 \/ services[a] = NoService /\ Return(r, "error")
              /\ UNCHANGED services
           \/ /\ a # req[r].name /\ (services[a] = NoService \/ OwnedBy(a, u))
              /\ services' = [services EXCEPT ![a] = AliasService(u, req[r].app)]
              /\ next
        /\ UNCHANGED <<workloads, fresh>>

AliasesApplied(r) ==
    /\ Pc(r) = "aliasApply" /\ req[r].todo = {}
    /\ Goto(r, CASE Op(r) = "rename" -> "stale"
                 [] Op(r) = "start" -> "scale"
                 [] OTHER -> "annotate")
    /\ UNCHANGED <<workloads, services, fresh>>

\* setContainerAliases stores the aliases after the Services; the network
\* label is updated last and may fail.
StoreAliases(r) ==
    /\ Pc(r) = "annotate"
    /\ IF Alive(Uid(r))
       THEN /\ workloads' = [workloads EXCEPT ![Uid(r)].aliases = req[r].aliases]
            /\ \E res \in {"ok", "error"} : Return(r, res)
       ELSE Return(r, "error") /\ UNCHANGED workloads
    /\ UNCHANGED <<services, fresh>>

-----------------------------------------------------------------------------
(* The other calls, and the cluster.                                       *)

\* ContainerStart scales up once the aliases are claimed.
StartScales(r) ==
    /\ Pc(r) = "scale"
    /\ IF Alive(Uid(r))
       THEN /\ workloads' = [workloads EXCEPT ![Uid(r)].running = TRUE]
            /\ Return(r, "ok")
       ELSE Return(r, "error") /\ UNCHANGED workloads
    /\ UNCHANGED <<services, fresh>>

\* ContainerRm deletes the workload, waits for its Pods, takes
\* containerNameMu and deletes the Services the workload owned.
RmDeletes(r) ==
    /\ Pc(r) = "delete"
    /\ workloads' = [workloads EXCEPT ![Uid(r)] = NoWorkload]
    /\ Goto(r, "wait")
    /\ UNCHANGED <<services, fresh>>

RmStopped(r) ==
    /\ Pc(r) = "wait"
    /\ Goto(r, "mu")
    /\ UNCHANGED <<workloads, services, fresh>>

RmDropsServices(r) ==
    /\ Pc(r) = "services"
    /\ DeleteServices(r, {n \in Names : OwnedBy(n, Uid(r))}, Return(r, "ok"))
    /\ UNCHANGED <<workloads, fresh>>

\* Kubernetes removes the Job of a finished --rm container.
JobExpires(u) ==
    /\ Alive(u) /\ workloads[u].running
    /\ workloads' = [workloads EXCEPT ![u] = NoWorkload]
    /\ UNCHANGED <<services, fresh, req>>

\* The garbage collector deletes Services whose owner is gone.
CollectService(n) ==
    /\ services[n] # NoService /\ ~Alive(services[n].owner)
    /\ services' = [services EXCEPT ![n] = NoService]
    /\ UNCHANGED <<workloads, fresh, req>>

\* A Kubernetes call fails, a client goes away or a process dies. A create
\* that has its workload then goes on to undo it, unless its process died.
Abort(r) ==
    /\ InFlight(r) /\ Pc(r) # "mu"
    /\ \/ Pc(r) = "dns" /\ Goto(r, "undo")
       \/ Pc(r) = "commit" /\ Goto(r, "unreserve")
       \/ (Pc(r) \notin {"dns", "undo", "publish"} \/ UndoFails)
          /\ Return(r, "error")
    /\ UNCHANGED <<workloads, services, fresh>>

AllReturned == (\A r \in Requests : ~InFlight(r)) /\ UNCHANGED vars

-----------------------------------------------------------------------------
RequestStep(r) ==
    \/ TakeNameMu(r) \/ CheckWorkloads(r) \/ CheckService(r)
    \/ ChooseObjectName(r) \/ CreateWorkload(r) \/ CreateService(r)
    \/ CreateReturns(r) \/ CreatePublishFails(r) \/ CreateUndo(r)
    \/ RenameReserves(r) \/ RenameCommits(r) \/ RenameUnreserves(r)
    \/ RenameMarks(r) \/ RenameDropsStale(r)
    \/ AliasDrops(r) \/ (\E a \in Names : AliasApplies(r, a))
    \/ AliasesApplied(r) \/ StoreAliases(r) \/ StartScales(r)
    \/ RmDeletes(r) \/ RmStopped(r) \/ RmDropsServices(r)

Call(r) ==
    \/ \E n \in Names, A \in SUBSET Names : CallCreate(r, n, A)
    \/ \E o \in Ops, u \in Uids, n \in Names : CallOnContainer(r, o, u, n)

Next ==
    \/ \E r \in Requests : Call(r) \/ RequestStep(r) \/ Abort(r)
    \/ \E u \in Uids : JobExpires(u)
    \/ \E n \in Names : CollectService(n)
    \/ AllReturned

Spec == Init /\ [][Next]_vars

\* A Kubernetes call returns, a mutex is granted, the collector runs.
Fairness ==
    /\ \A r \in Requests : WF_vars(RequestStep(r))
    /\ \A n \in Names : WF_vars(CollectService(n))

-----------------------------------------------------------------------------
(* Properties.                                                             *)

\* What the records of the state may hold.
Workload == [name : Names, app : Names \cup Uids, aliases : SUBSET Names,
             running : BOOLEAN, created : BOOLEAN]

Pcs ==
    {"idle", "mu", "check", "getService", "object", "workload", "dns",
     "publish", "undo", "reserve", "commit", "unreserve", "mark", "aliasDrop",
     "aliasApply", "stale", "annotate", "scale", "delete", "wait", "services",
     "done"}

Request ==
    [pc : Pcs,
     op : {"none", "create", "rename", "connect", "disconnect", "start", "rm"},
     process : Processes, uid : Uids \cup {NoUid},
     app : Names \cup Uids \cup {NoName}, name : Names \cup {NoName},
     old : Names \cup {NoName}, aliases : SUBSET Names, todo : SUBSET Names,
     reserved : BOOLEAN, result : {"none", "ok", "error"}]

\* The types of the variables.
TypeOK ==
    /\ workloads \in [Uids -> Workload \cup {NoWorkload}]
    /\ services \in [Names -> Service \cup {NoService}]
    /\ fresh \subseteq Uids
    /\ req \in [Requests -> Request]

\* No two containers that were created, and so reported to a client, have
\* the same name: names "are unique within a tenant"
\* (docs/docker-translation-contract.md:64). ensureContainerNameAvailable
\* only reads; it is the Service that decides.
UniqueNames ==
    \A u, v \in Uids :
        /\ Alive(u) /\ workloads[u].created
        /\ Alive(v) /\ workloads[v].created
        /\ workloads[u].name = workloads[v].name
        => u = v

\* In one process, a container that no call is working on resolves by its
\* name: the Service of its name is its own, after any history of failed
\* and abandoned creates, renames and alias changes.
PrimaryResolves ==
    \A u \in Uids :
        /\ Alive(u) /\ workloads[u].created
        /\ \A r \in Requests : HoldsLock(r) => Uid(r) # u
        => OwnedBy(workloads[u].name, u)

Owned(svcs, u) == {n \in Names : svcs[n] # NoService /\ svcs[n].owner = u}

\* A call that reports success leaves the Services of the container as it
\* promises: a rename exactly the new name and the aliases, a connect or
\* disconnect exactly the aliases besides the name, a start at least the
\* aliases (a replacement cannot start before it has them), and a removal
\* none.
Synced(r) ==
    LET owned == Owned(services', Uid(r))
        aliases == req[r].aliases
    IN  CASE Op(r) = "rename" -> Alive(Uid(r)) => owned = aliases \cup {req[r].name}
          [] Op(r) \in {"connect", "disconnect"} ->
                /\ aliases \subseteq owned
                /\ \A n \in owned \ {req[r].name} :
                      services'[n].kind = "alias" => n \in aliases
          [] Op(r) = "start" -> aliases \subseteq owned
          [] Op(r) = "rm" -> owned = {}
          [] OTHER -> TRUE

OkMeansSynced ==
    [][\A r \in Requests :
          InFlight(r) /\ Pc(r)' = "done" /\ req'[r].result = "ok" => Synced(r)]_vars

\* Every call returns: container locks and containerNameMu are always taken
\* in this order, and ContainerRm and ContainerStart take the second late.
EveryCallReturns == \A r \in Requests : InFlight(r) ~> Pc(r) = "done"

=============================================================================
