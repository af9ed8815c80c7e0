-------------------------- MODULE SwarmPlacement ---------------------------
(***************************************************************************)
(* Where tasks run: a tenant's node placement (container_placement.go) and *)
(* a service's placement constraints (swarm_service.go) become one node    *)
(* affinity, and Kubernetes schedules by it while operators relabel and    *)
(* taint nodes; the node list of the Docker API (swarm_node.go).           *)
(***************************************************************************)
EXTENDS Integers, FiniteSets

CONSTANTS Nodes, Tenants,
          Values,         \* of the node label that constraints name
          None

VARIABLES placement,      \* the server's configuration: [enabled, tolerate]
          node,           \* labels and taints
          service,        \* one service; services do not affect each other
          task            \* the node its task was last scheduled to

vars == <<placement, node, service, task>>

Roles == {"none", "control-plane", "master"}
NodeLabels == [role : Roles, owner : Tenants \cup {None}, taint : Tenants \cup {None},
               label : Values \cup {None}]

Constraints ==
    [key : {"node.role"}, value : {"manager", "worker"}, equal : BOOLEAN]
    \cup [key : {"node.labels"}, value : Values, equal : BOOLEAN]
    \cup [key : {"node.hostname"}, value : Nodes \cup {None}, equal : BOOLEAN]

-----------------------------------------------------------------------------
(* A term is the owner a node must have and constraints it must all meet;  *)
(* one term is enough.                                                     *)

RequiresManager(k) == (k.value = "manager") = k.equal

\* parsePlacementConstraint: what a node must have.
Accepts(k, n, labels) ==
    CASE k.key = "node.role" -> (labels.role = "control-plane") = RequiresManager(k)
      [] k.key = "node.labels" -> (labels.label = k.value) = k.equal
      [] k.key = "node.hostname" -> (n = k.value) = k.equal

\* applyNodePlacement: an unclaimed node, or one of the tenant's own.
TenantTerms(t) ==
    IF ~placement.enabled THEN {}
    ELSE {[owner |-> None, constraints |-> {}], [owner |-> t, constraints |-> {}]}

\* appendNodeSelectorRequirements: added to every term.
WithConstraints(terms, ks) ==
    IF ks = {} THEN terms
    ELSE IF terms = {} THEN {[owner |-> "any", constraints |-> ks]}
    ELSE {[term EXCEPT !.constraints = @ \cup ks] : term \in terms}

Tolerations(t) == IF placement.enabled /\ placement.tolerate THEN {t} ELSE {}

Tolerates(s, taint) == taint = None \/ taint \in s.tolerates

\* Kubernetes' scheduler.
Schedulable(s, n) ==
    /\ s.terms = {} \/ \E term \in s.terms :
          /\ term.owner \in {"any", node[n].owner}
          /\ \A k \in term.constraints : Accepts(k, n, node[n])
    /\ Tolerates(s, node[n].taint)

-----------------------------------------------------------------------------
NoService == [exists |-> FALSE]

Init ==
    /\ placement \in [enabled : BOOLEAN, tolerate : BOOLEAN]
    /\ node \in [Nodes -> [role : Roles, owner : {None}, taint : {None}, label : {None}]]
    /\ service = NoService /\ task = None

\* Operators label and taint nodes.
Claim(n, t) ==
    /\ node' = [node EXCEPT ![n].owner = t] /\ UNCHANGED <<placement, service, task>>

Taint(n, t) ==
    /\ node' = [node EXCEPT ![n].taint = t] /\ UNCHANGED <<placement, service, task>>

Relabel(n, v) ==
    /\ node' = [node EXCEPT ![n].label = v] /\ UNCHANGED <<placement, service, task>>

\* CreateService: the affinity and the tolerations of its Pods.
CreateService(t, ks) ==
    /\ ~service.exists
    /\ service' = [exists |-> TRUE, tenant |-> t, asked |-> ks,
                   terms |-> WithConstraints(TenantTerms(t), ks),
                   tolerates |-> Tolerations(t)]
    /\ UNCHANGED <<placement, node, task>>

Schedule(n) ==
    /\ service.exists /\ Schedulable(service, n)
    /\ task' = n
    /\ UNCHANGED <<placement, node, service>>

PodGone ==
    /\ task # None /\ task' = None
    /\ UNCHANGED <<placement, node, service>>

Next ==
    \/ \E n \in Nodes, t \in Tenants \cup {None} : Claim(n, t) \/ Taint(n, t)
    \/ \E n \in Nodes, v \in Values : Relabel(n, v)
    \/ \E t \in Tenants : \/ \E a, b \in Constraints : CreateService(t, {a, b})
                          \/ CreateService(t, {})
    \/ \E n \in Nodes : Schedule(n)
    \/ PodGone

Spec == Init /\ [][Next]_vars

-----------------------------------------------------------------------------
(* The Docker API's view of a node. *)

\* isControlPlaneNode.
ReportedRole(n) == IF node[n].role = "none" THEN "worker" ELSE "manager"

Scheduled == task' # task /\ task' # None

-----------------------------------------------------------------------------
\* The types of the variables.
TypeOK ==
    /\ node \in [Nodes -> NodeLabels]
    /\ task \in Nodes \cup {None}
    /\ service.exists /\ service.tolerates # {} => placement.enabled /\ placement.tolerate

\* With node placement enabled a task never goes to a node claimed by another
\* tenant, whatever constraints its service has (applyNodePlacement,
\* appendNodeSelectorRequirements).
StaysOffClaimedNodes ==
    Scheduled /\ placement.enabled => node[task'].owner \in {None, service.tenant}

\* A node tainted for a tenant takes no other tenant's tasks (applyNodePlacement).
TaintKeepsOthersOff ==
    Scheduled => node[task'].taint \in {None, service.tenant}

\* A task goes only to nodes that meet every constraint on labels and names,
\* and on roles where the control plane has its current label
\* (parsePlacementConstraint, placementRequirements).
ConstraintsMet ==
    Scheduled =>
       \A k \in service.asked :
          CASE k.key = "node.role" ->
                 node[task'].role # "master" => (ReportedRole(task') = k.value) = k.equal
            [] k.key = "node.labels" -> (node[task'].label = k.value) = k.equal
            [] k.key = "node.hostname" -> (task' = k.value) = k.equal
=============================================================================
