--------------------------- MODULE SwarmServices ---------------------------
(***************************************************************************)
(* Swarm services (core/translator/swarm_service.go): a service is a       *)
(* Deployment with a VIP Service, a LoadBalancer Service for the ports it  *)
(* publishes, one Service per network alias, an env Secret for the values  *)
(* its se:// references resolve to and a policy that opens its ports.  A   *)
(* call writes them one API request at a time, each of which may fail; the *)
(* Kubernetes garbage collector removes what a deleted Deployment owned.   *)
(***************************************************************************)
EXTENDS Integers, Sequences, FiniteSets, SequencesExt

CONSTANTS Calls,      \* requests served at the same time
          Names,      \* service names
          Aliases,    \* network aliases
          Specs,      \* service specs: [ports, aliases, values]
          NodePorts,  \* the cluster's node port range
          MaxCalls,   \* bound on the requests of a behaviour
          Serial,     \* whether clients wait for one call on a service before the next
          Faults      \* whether API requests may fail

None == [uid |-> 0]
Plain == "plain"
Idle == [pc |-> "idle"]

VARIABLES deps,    \* Deployments by name: [uid, ver, spec]
          svcs,    \* Services by name: [uid, of, lb, ports, headless]
          envs,    \* env Secrets by service: [uid, values]
          pols,    \* published-port policies by service: [uid, ports]
          calls,   \* the requests in progress
          last,    \* how the last call on a service ended
          clock    \* [uid, ver, calls]: identities and versions handed out

objects == <<deps, svcs, envs, pols>>
vars == <<deps, svcs, envs, pols, calls, last, clock>>

-----------------------------------------------------------------------------
(* The objects a spec asks for. *)

Published(n) == n \o "-published"

ServiceNames == Names \cup Aliases \cup {Published(n) : n \in Names}

\* A port as servicePorts leaves it: [target, published, proto, host].
VipPorts(ports) ==
    [i \in DOMAIN ports |->
        [port |-> ports[i].target, target |-> ports[i].target,
         proto |-> ports[i].proto, node |-> 0]]

PublishedPorts(ports) ==
    LET ingress == SelectSeq(ports, LAMBDA p : ~p.host)
    IN  [i \in DOMAIN ingress |->
            [port   |-> IF ingress[i].published = 0
                        THEN ingress[i].target ELSE ingress[i].published,
             target |-> ingress[i].target,
             proto  |-> ingress[i].proto,
             node   |-> 0]]

Endpoint(name, of, lb, ports) ==
    [name |-> name, of |-> of, lb |-> lb, ports |-> ports, headless |-> ports = <<>>]

serviceEndpointServices(n, spec) ==
    <<Endpoint(n, Plain, FALSE, VipPorts(spec.ports))>>
    \o (IF PublishedPorts(spec.ports) = <<>> THEN <<>>
        ELSE <<Endpoint(Published(n), Plain, TRUE, PublishedPorts(spec.ports))>>)
    \o [i \in DOMAIN spec.aliases |->
            Endpoint(spec.aliases[i], n, FALSE, VipPorts(spec.ports))]

\* The container's ports: one per target and protocol, the first one listed.
serviceContainerPorts(ports) ==
    {[target |-> ports[i].target, proto |-> ports[i].proto,
      host |-> IF ports[i].host THEN ports[i].published ELSE 0] :
        i \in {j \in DOMAIN ports :
                 \A k \in 1..(j - 1) : \/ ports[k].target # ports[j].target
                                       \/ ports[k].proto # ports[j].proto}}

\* allocated maps a port number to the node port of the last entry with it.
retainNodePorts(ports, existing) ==
    LET Allocated(p) == {i \in DOMAIN existing : existing[i].port = p /\ existing[i].node # 0}
    IN  [i \in DOMAIN ports |->
            IF Allocated(ports[i].port) = {} THEN ports[i]
            ELSE [ports[i] EXCEPT !.node =
                    existing[CHOOSE j \in Allocated(ports[i].port) :
                                \A k \in Allocated(ports[i].port) : k <= j].node]]

-----------------------------------------------------------------------------
(* Kubernetes: validation, node port allocation and garbage collection. *)

\* A Service lists a port and protocol once, and only a headless one has none.
Valid(s) ==
    /\ s.ports = <<>> => s.headless
    /\ \A i, j \in DOMAIN s.ports :
          (s.ports[i].port = s.ports[j].port /\ s.ports[i].proto = s.ports[j].proto) => i = j

UsedElsewhere(name) ==
    {svcs[s].ports[i].node : <<s, i>> \in
        {t \in (ServiceNames \ {name}) \X (1..2) :
            svcs[t[1]] # None /\ svcs[t[1]].lb /\ t[2] \in DOMAIN svcs[t[1]].ports}}

\* The port lists the API server may store: a node port for each port that asks for none.
Allocations(s) ==
    LET taken == UsedElsewhere(s.name) \cup {s.ports[i].node : i \in DOMAIN s.ports}
    IN  IF ~s.lb THEN {s.ports}
        ELSE {[i \in DOMAIN s.ports |-> [s.ports[i] EXCEPT !.node = f[i]]] :
                f \in {g \in [DOMAIN s.ports -> NodePorts] :
                        \A i \in DOMAIN s.ports :
                            /\ s.ports[i].node # 0 => g[i] = s.ports[i].node
                            /\ s.ports[i].node = 0 => /\ g[i] \notin taken
                                                      /\ \A j \in DOMAIN s.ports : g[j] = g[i] => j = i}}

Live(uid) == \E n \in Names : deps[n] # None /\ deps[n].uid = uid

Collected(f) ==
    {g \in {[f EXCEPT ![k] = None] : k \in {k \in DOMAIN f : f[k] # None /\ ~Live(f[k].uid)}} : g # f}

\* One object at a time, at any moment after its owner is gone.
Collect ==
    /\ \/ svcs' \in Collected(svcs) /\ UNCHANGED <<envs, pols>>
       \/ envs' \in Collected(envs) /\ UNCHANGED <<svcs, pols>>
       \/ pols' \in Collected(pols) /\ UNCHANGED <<svcs, envs>>
    /\ UNCHANGED <<deps, calls, last, clock>>

-----------------------------------------------------------------------------
(* Calls. *)

\* A new request on n, when clients may send one.
MayCall(c, n) ==
    /\ calls[c] = Idle
    /\ clock.calls < MaxCalls
    /\ Serial => last[n] # "busy"

Call(op, n, spec, pc) ==
    [pc |-> pc, op |-> op, name |-> n, spec |-> spec, uid |-> 0, ver |-> 0,
     read |-> None, wanted |-> serviceEndpointServices(n, spec), stale |-> {}]

Goto(c, pc) == calls' = [calls EXCEPT ![c].pc = pc]

End(c, how) ==
    /\ calls' = [calls EXCEPT ![c] = Idle]
    /\ last' = [last EXCEPT ![calls[c].name] = how]

\* What follows a failed request: a create deletes the Deployment it made.
Fail(c) ==
    IF calls[c].op = "create"
    THEN Goto(c, "clean up") /\ UNCHANGED last
    ELSE End(c, "failed")

\* CreateService up to the Deployment.  A taken name is refused: nothing changes.
CreateDeployment(c, n, spec) ==
    /\ MayCall(c, n)
    /\ deps[n] = None
    /\ deps' = [deps EXCEPT ![n] = [uid |-> clock.uid, ver |-> clock.ver, spec |-> spec]]
    /\ calls' = [calls EXCEPT ![c] = [Call("create", n, spec, "get env") EXCEPT !.uid = clock.uid]]
    /\ last' = [last EXCEPT ![n] = "busy"]
    /\ clock' = [uid |-> clock.uid + 1, ver |-> clock.ver + 1, calls |-> clock.calls + 1]
    /\ UNCHANGED <<svcs, envs, pols>>

\* The cleanup goes by name; it may fail too, and its error is dropped.
CleanUp(c) ==
    /\ calls[c].pc = "clean up"
    /\ \/ deps' = [deps EXCEPT ![calls[c].name] = None]
       \/ Faults /\ UNCHANGED deps
    /\ End(c, "failed")
    /\ UNCHANGED <<svcs, envs, pols, clock>>

\* A client sends an update with the version it read.
AskUpdate(c, n, spec) ==
    /\ MayCall(c, n)
    /\ deps[n] # None
    /\ calls' = [calls EXCEPT ![c] = [Call("update", n, spec, "find") EXCEPT !.ver = deps[n].ver]]
    /\ last' = [last EXCEPT ![n] = "busy"]
    /\ clock' = [clock EXCEPT !.calls = @ + 1]
    /\ UNCHANGED objects

AfterFind(c) == IF calls[c].spec.values = 0 THEN "roll out" ELSE "get env"

FindService(c) ==
    LET n == calls[c].name
    IN  /\ calls[c].pc = "find"
        /\ \/ /\ deps[n] # None
              /\ calls' = [calls EXCEPT ![c].uid = deps[n].uid,
                                        ![c].pc = IF calls[c].op = "remove" THEN "remove"
                                                  ELSE AfterFind(c)]
              /\ UNCHANGED last
           \/ (deps[n] = None \/ Faults) /\ End(c, "failed")
        /\ UNCHANGED <<objects, clock>>

SameVersion(c) ==
    LET d == deps[calls[c].name]
    IN  IF d = None THEN FALSE ELSE d.ver = calls[c].ver

\* The Deployment is replaced if it still has the client's version.
RollOut(c) ==
    LET n == calls[c].name
    IN  /\ calls[c].pc = "roll out"
        /\ \/ /\ SameVersion(c)
              /\ deps' = [deps EXCEPT ![n].ver = clock.ver, ![n].spec = calls[c].spec]
              /\ clock' = [clock EXCEPT !.ver = @ + 1]
              /\ Goto(c, IF AfterFind(c) = "roll out" THEN "get env" ELSE "get service")
              /\ UNCHANGED last
           \/ /\ ~SameVersion(c) \/ Faults
              /\ End(c, "failed")
              /\ UNCHANGED <<deps, clock>>
        /\ UNCHANGED <<svcs, envs, pols>>

AskRemove(c, n) ==
    /\ MayCall(c, n)
    /\ deps[n] # None
    /\ calls' = [calls EXCEPT ![c] = Call("remove", n, deps[n].spec, "find")]
    /\ last' = [last EXCEPT ![n] = "busy"]
    /\ clock' = [clock EXCEPT !.calls = @ + 1]
    /\ UNCHANGED objects

IsFound(c) == deps[calls[c].name].uid = calls[c].uid

RemoveService(c) ==
    LET n == calls[c].name
    IN  /\ calls[c].pc = "remove"
        /\ \/ /\ deps[n] = None
              /\ End(c, "ok") /\ UNCHANGED deps
           \/ /\ deps[n] # None /\ IsFound(c)
              /\ deps' = [deps EXCEPT ![n] = None]
              /\ End(c, "ok")
           \/ /\ Faults \/ (deps[n] # None /\ ~IsFound(c))
              /\ End(c, "failed") /\ UNCHANGED deps
        /\ UNCHANGED <<svcs, envs, pols, clock>>

-----------------------------------------------------------------------------
(* applyEnvSecret: read the Secret, then create, replace or delete it. *)

AfterEnv(c) ==
    IF calls[c].op = "update" /\ AfterFind(c) = "get env" THEN "roll out" ELSE "get service"

GetEnv(c) ==
    LET n == calls[c].name
    IN  /\ calls[c].pc = "get env"
        /\ \/ /\ calls' = [calls EXCEPT
                    ![c].read = envs[n],
                    ![c].pc = IF envs[n] = None /\ calls[c].spec.values = 0
                              THEN AfterEnv(c) ELSE "put env"]
              /\ UNCHANGED last
           \/ Faults /\ Fail(c)
        /\ UNCHANGED <<objects, clock>>

NewEnv(c) ==
    IF calls[c].spec.values = 0 THEN None
    ELSE [uid |-> calls[c].uid, values |-> calls[c].spec.values]

\* The write fails when the Secret is no longer the one that was read.
PutEnv(c) ==
    LET n == calls[c].name
        new == NewEnv(c)
    IN  /\ calls[c].pc = "put env"
        /\ \/ /\ envs[n] = calls[c].read \/ (new = None /\ envs[n] = None)
              /\ envs' = [envs EXCEPT ![n] = new]
              /\ calls' = [calls EXCEPT ![c].pc = AfterEnv(c), ![c].read = None]
              /\ UNCHANGED last
           \/ /\ envs[n] # calls[c].read \/ Faults
              /\ Fail(c)
              /\ UNCHANGED envs
        /\ UNCHANGED <<deps, svcs, pols, clock>>

-----------------------------------------------------------------------------
(* applyServiceEndpoints: each wanted Service in turn, then the stale ones. *)

GetService(c) ==
    /\ calls[c].pc = "get service"
    /\ \/ /\ calls' = [calls EXCEPT ![c].read = svcs[Head(calls[c].wanted).name],
                                    ![c].pc = "put service"]
          /\ UNCHANGED last
       \/ Faults /\ Fail(c)
    /\ UNCHANGED <<objects, clock>>

\* The Service to write: an existing one keeps its cluster IP and node ports.
Desired(c) ==
    LET s == Head(calls[c].wanted)
        old == calls[c].read
    IN  IF old = None THEN s
        ELSE [s EXCEPT !.headless = old.headless,
                       !.ports = retainNodePorts(s.ports, old.ports)]

PutService(c) ==
    LET s == Desired(c)
    IN  /\ calls[c].pc = "put service"
        /\ \/ /\ svcs[s.name] = calls[c].read
              /\ Valid(s)
              /\ \E ports \in Allocations(s) :
                    svcs' = [svcs EXCEPT ![s.name] =
                        [uid |-> calls[c].uid, of |-> s.of, lb |-> s.lb,
                         ports |-> ports, headless |-> s.headless]]
              /\ calls' = [calls EXCEPT
                    ![c].wanted = Tail(@), ![c].read = None,
                    ![c].pc = IF Tail(calls[c].wanted) = <<>> THEN "list stale" ELSE "get service"]
              /\ UNCHANGED last
           \/ /\ svcs[s.name] # calls[c].read \/ ~Valid(s) \/ Faults
              /\ Fail(c)
              /\ UNCHANGED svcs
        /\ UNCHANGED <<deps, envs, pols, clock>>

WantedNames(c) == {serviceEndpointServices(calls[c].name, calls[c].spec)[i].name :
                      i \in DOMAIN serviceEndpointServices(calls[c].name, calls[c].spec)}

\* Mutant: only the service's own two names are looked at.
StaleNames_own(c) == {calls[c].name, Published(calls[c].name)}

StaleNames(c) ==
    {calls[c].name, Published(calls[c].name)}
    \cup {s \in ServiceNames : svcs[s] # None /\ svcs[s].of = calls[c].name}

AfterStale(stale) == IF stale = {} THEN "get policy" ELSE "delete stale"

ListStale(c) ==
    LET stale == StaleNames(c) \ WantedNames(c)
    IN  /\ calls[c].pc = "list stale"
        /\ \/ /\ calls' = [calls EXCEPT ![c].stale = stale, ![c].pc = AfterStale(stale)]
              /\ UNCHANGED last
           \/ Faults /\ Fail(c)
        /\ UNCHANGED <<objects, clock>>

DeleteStale(c, s) ==
    /\ calls[c].pc = "delete stale"
    /\ s \in calls[c].stale
    /\ \/ /\ svcs' = [svcs EXCEPT ![s] = None]
          /\ calls' = [calls EXCEPT ![c].stale = @ \ {s},
                                    ![c].pc = AfterStale(calls[c].stale \ {s})]
          /\ UNCHANGED last
       \/ Faults /\ Fail(c) /\ UNCHANGED svcs
    /\ UNCHANGED <<deps, envs, pols, clock>>

-----------------------------------------------------------------------------
(* applyServicePolicies: the ports of the container are opened to any source. *)

GetPolicy(c) ==
    LET n == calls[c].name
    IN  /\ calls[c].pc = "get policy"
        /\ \/ /\ serviceContainerPorts(calls[c].spec.ports) = {}
              /\ pols' = [pols EXCEPT ![n] = None]
              /\ End(c, "ok")
           \/ /\ serviceContainerPorts(calls[c].spec.ports) # {}
              /\ calls' = [calls EXCEPT ![c].read = pols[n], ![c].pc = "put policy"]
              /\ UNCHANGED <<pols, last>>
           \/ Faults /\ Fail(c) /\ UNCHANGED pols
        /\ UNCHANGED <<deps, svcs, envs, clock>>

PutPolicy(c) ==
    LET n == calls[c].name
        new == [uid |-> calls[c].uid, ports |-> serviceContainerPorts(calls[c].spec.ports)]
    IN  /\ calls[c].pc = "put policy"
        /\ \/ /\ pols[n] = calls[c].read
              /\ pols' = [pols EXCEPT ![n] = new]
              /\ End(c, "ok")
           \/ /\ calls[c].read = None /\ pols[n] # None
              /\ End(c, "ok") /\ UNCHANGED pols
           \/ /\ Faults \/ (calls[c].read # None /\ pols[n] # calls[c].read)
              /\ Fail(c) /\ UNCHANGED pols
        /\ UNCHANGED <<deps, svcs, envs, clock>>

-----------------------------------------------------------------------------
Init ==
    /\ deps = [n \in Names |-> None]
    /\ svcs = [s \in ServiceNames |-> None]
    /\ envs = [n \in Names |-> None]
    /\ pols = [n \in Names |-> None]
    /\ calls = [c \in Calls |-> Idle]
    /\ last = [n \in Names |-> "none"]
    /\ clock = [uid |-> 1, ver |-> 1, calls |-> 0]

Next ==
    \/ Collect
    \/ \E c \in Calls :
          \/ \E n \in Names : \/ \E spec \in Specs : CreateDeployment(c, n, spec) \/ AskUpdate(c, n, spec)
                              \/ AskRemove(c, n)
          \/ CleanUp(c) \/ FindService(c) \/ RollOut(c) \/ RemoveService(c)
          \/ GetEnv(c) \/ PutEnv(c)
          \/ GetService(c) \/ PutService(c) \/ ListStale(c)
          \/ \E s \in ServiceNames : DeleteStale(c, s)
          \/ GetPolicy(c) \/ PutPolicy(c)

Spec == Init /\ [][Next]_vars

-----------------------------------------------------------------------------
(* Properties. *)

Steps == {"clean up", "find", "roll out", "remove", "get env", "put env", "get service",
          "put service", "list stale", "delete stale", "get policy", "put policy"}

\* The shape of the objects and of the calls in progress.
TypeOK ==
    /\ \A n \in Names : deps[n] = None \/ (deps[n].spec \in Specs /\ deps[n].uid < clock.uid)
    /\ \A s \in ServiceNames : svcs[s] = None \/ svcs[s].uid \in 1..(clock.uid - 1)
    /\ \A n \in Names : envs[n] = None \/ envs[n].values # 0
    /\ \A n \in Names : pols[n] = None \/ pols[n].ports # {}
    /\ \A c \in Calls : calls[c] = Idle \/ calls[c].pc \in Steps
    /\ last \in [Names -> {"none", "busy", "ok", "failed"}]

SamePorts(ports, wanted) ==
    /\ DOMAIN ports = DOMAIN wanted
    /\ \A i \in DOMAIN ports : [ports[i] EXCEPT !.node = 0] = wanted[i]

Matches(n) ==
    LET d == deps[n]
        wanted == serviceEndpointServices(n, d.spec)
    IN  /\ \A i \in DOMAIN wanted :
              LET s == svcs[wanted[i].name]
              IN  s # None /\ s.uid = d.uid /\ s.of = wanted[i].of /\ SamePorts(s.ports, wanted[i].ports)
        /\ \A s \in ServiceNames :
              (svcs[s] # None /\ (svcs[s].of = n \/ s \in {n, Published(n)}))
                  => \E i \in DOMAIN wanted : wanted[i].name = s
        /\ envs[n] = IF d.spec.values = 0 THEN None ELSE [uid |-> d.uid, values |-> d.spec.values]
        /\ pols[n] = IF d.spec.ports = <<>> THEN None
                     ELSE [uid |-> d.uid, ports |-> serviceContainerPorts(d.spec.ports)]

\* Whatever failed before, a create or update that answers success leaves the
\* service with exactly the Services, env Secret and policy its spec asks for,
\* all owned by its Deployment (applyServiceEndpoints, applyEnvSecret): nothing
\* of a failed attempt, an older spec or a removed namesake stays or is
\* collected from under it.
SuccessConverges ==
    \A n \in Names : (last[n] = "ok" /\ deps[n] # None) => Matches(n)

\* A rollout starts only once the env Secret holds the values of its spec: "New
\* values must be stored before the rollout" (UpdateService).
NewValuesFirst ==
    \A n \in Names :
      (/\ deps[n] # None /\ deps'[n] # None
       /\ deps'[n].uid = deps[n].uid /\ deps'[n].ver # deps[n].ver
       /\ deps'[n].spec.values # 0)
      => envs[n] # None /\ envs[n].values = deps'[n].spec.values

\* While a service stays published, a port it keeps publishing keeps its node
\* port: "updating a service does not move its published ports" (retainNodePorts).
NodePortsRetained ==
    \A s \in ServiceNames :
      (svcs[s] # None /\ svcs'[s] # None /\ svcs[s].lb /\ svcs[s].uid = svcs'[s].uid)
      => \A i \in DOMAIN svcs[s].ports, j \in DOMAIN svcs'[s].ports :
            (/\ svcs[s].ports[i].port = svcs'[s].ports[j].port
             /\ svcs[s].ports[i].proto = svcs'[s].ports[j].proto)
            => svcs'[s].ports[j].node = svcs[s].ports[i].node

\* An update replaces only the spec its client had read, and a remove deletes
\* only the Deployment it found, however other calls on the service interleave
\* (resourceVersionFor, the UID precondition of RemoveService).
ActsOnWhatItSaw ==
    \A c \in Calls :
      (calls[c] # Idle /\ calls'[c] # calls[c]) =>
         LET n == calls[c].name
         IN  /\ (calls[c].pc = "roll out" /\ deps' # deps) => deps[n].ver = calls[c].ver
             /\ (calls[c].pc = "remove" /\ deps' # deps) => deps[n].uid = calls[c].uid
=============================================================================
