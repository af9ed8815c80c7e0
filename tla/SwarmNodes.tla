----------------------------- MODULE SwarmNodes -----------------------------
(***************************************************************************)
(* Swarm's view of the cluster's nodes (swarm_node.go, Info of swarm.go):  *)
(* a client lists nodes with filters, looks one up by name or ID, and asks *)
(* for the swarm's information while nodes join, leave and change.         *)
(***************************************************************************)
EXTENDS Integers, Sequences, FiniteSets, SequencesExt

CONSTANTS
    UIDs, Names,      \* sequences of digits
    IdFilters, NameFilters, LabelFilters,
    Shapes            \* [labels, cordoned, ready] a node can have

VARIABLES nodes,      \* the nodes, in the order they are listed
          used,       \* UIDs that were given to a node
          held,       \* an ID the client took from a list, with its node
          call        \* the last call and its answer

vars == <<nodes, used, held, call>>

None == [none |-> TRUE]
Idle == [op |-> "idle"]

ControlPlane == "node-role.kubernetes.io/control-plane"
Master == "node-role.kubernetes.io/master"
Fields == {"id", "label", "membership", "name", "node.label", "role"}

-----------------------------------------------------------------------------
(* The list filters of the Docker API (pkg/filters).  The arguments map a  *)
(* field to its values, and each value to TRUE or, if the client says so,  *)
(* FALSE.  Identifiers, names and patterns are sequences of digits; a      *)
(* label filter is <<key>> or <<key, value>>.                              *)

\* The character that makes a pattern an invalid regular expression.
Bad == 9

FieldValues(args, key) == IF key \in DOMAIN args THEN args[key] ELSE <<>>

\* FromJSON: the legacy format lists the values of each field.
FromJSON(p) ==
    IF p.legacy THEN [key \in DOMAIN p.fields |-> [value \in DOMAIN p.fields[key] |-> TRUE]] ELSE p.fields

ExactMatch(args, key, source) ==
    LET values == FieldValues(args, key) IN
    DOMAIN values = {} \/ (source \in DOMAIN values /\ values[source])

\* A pattern of digits matches where it occurs; an invalid one is skipped.
MatchString(pattern, source) ==
    /\ Bad \notin ToSet(pattern)
    /\ \E i \in 0..Len(source) : IsPrefix(pattern, SubSeq(source, i + 1, Len(source)))

Match(args, field, source) ==
    \/ ExactMatch(args, field, source)
    \/ \E pattern \in DOMAIN FieldValues(args, field) : MatchString(pattern, source)

FuzzyMatch(args, key, source) ==
    \/ ExactMatch(args, key, source)
    \/ \E prefix \in DOMAIN FieldValues(args, key) : IsPrefix(prefix, source)

\* Whether one label filter holds of the labels.
HasLabel(value, sources) ==
    value[1] \in DOMAIN sources /\ (Len(value) = 2 => value[2] = sources[value[1]])

MatchKVList(args, key, sources) ==
    LET values == DOMAIN FieldValues(args, key) IN
    values = {} \/ (DOMAIN sources # {} /\ \A value \in values : HasLabel(value, sources))

Validate(args, accepted) == DOMAIN args \subseteq accepted

-----------------------------------------------------------------------------
(* A node as Swarm shows it. *)

\* DockerIDFromUID writes the UID twice.
DockerID(node) == node.uid \o node.uid

IsControlPlaneNode(node) == {ControlPlane, Master} \cap DOMAIN node.labels # {}

NodeState(node) == [True |-> "ready", False |-> "down", Unknown |-> "unknown", missing |-> "unknown"][node.ready]

SwarmNode(node) ==
    [id |-> DockerID(node), hostname |-> node.name, labels |-> node.labels,
     role |-> IF IsControlPlaneNode(node) THEN "manager" ELSE "worker",
     availability |-> IF node.cordoned THEN "drain" ELSE "active",
     state |-> NodeState(node)]

\* MatchesNodeFilters is a conjunction over the fields.
MatchesNodeFilters(args, node) ==
    /\ FuzzyMatch(args, "id", node.id)
    /\ Match(args, "name", node.hostname)
    /\ ExactMatch(args, "role", node.role)
    /\ ExactMatch(args, "membership", "accepted")
    /\ MatchKVList(args, "label", node.labels)
    /\ MatchKVList(args, "node.label", node.labels)

-----------------------------------------------------------------------------
(* The calls. *)

Given(C) == {[x \in S |-> b] : S \in SUBSET C, b \in BOOLEAN}

\* One or two fields, a field that is not accepted among them.
Requests ==
    LET one == {[id |-> v] : v \in Given(IdFilters)} \cup {[name |-> v] : v \in Given(NameFilters)}
               \cup {[role |-> v] : v \in Given({"manager", "worker"})}
               \cup {[label |-> v] : v \in Given(LabelFilters)}
               \cup {[membership |-> v] : v \in Given({"accepted", "pending"})}
               \cup {[unknown |-> v] : v \in Given({"x"})}
    IN [legacy : BOOLEAN, fields : one \cup {r @@ s : r \in one, s \in {[role |-> v] : v \in Given({"manager"})}}]

GetNodes ==
    /\ call = Idle
    /\ \E request \in Requests :
          LET args == FromJSON(request)
              out == {SwarmNode(n) : n \in {m \in ToSet(nodes) : MatchesNodeFilters(args, SwarmNode(m))}}
          IN IF ~Validate(args, Fields)
             THEN call' = [op |-> "invalid", args |-> args] /\ UNCHANGED held
             ELSE /\ call' = [op |-> "list", args |-> args, out |-> out]
                  /\ \/ UNCHANGED held
                     \/ \E n \in ToSet(nodes) : SwarmNode(n) \in out /\ held' = [id |-> DockerID(n), uid |-> n.uid]
    /\ UNCHANGED <<nodes, used>>

\* The node whose name it is, or whose ID it begins.
IsMatch(node, idOrName) == SwarmNode(node).hostname = idOrName \/ IsPrefix(idOrName, SwarmNode(node).id)

Found(idOrName) ==
    LET matches == SelectSeq(nodes, LAMBDA n : IsMatch(n, idOrName)) IN
    CASE matches = <<>> -> [found |-> "not found"]
      [] Len(matches) = 1 -> [found |-> "node", uid |-> matches[1].uid]
      [] OTHER -> [found |-> "conflict"]

GetNode ==
    /\ call = Idle
    /\ \E idOrName \in Names \cup IdFilters \cup (IF held = None THEN {} ELSE {held.id}) :
          call' = [op |-> "get", arg |-> idOrName, out |-> Found(idOrName)]
    /\ UNCHANGED <<nodes, used, held>>

\* The first manager, or the first node.
LocalNode(managers) == IF managers # <<>> THEN managers[1] ELSE nodes[1]

Info ==
    /\ call = Idle
    /\ LET managers == SelectSeq(nodes, IsControlPlaneNode) IN
       call' = [op |-> "info", count |-> Len(nodes), managers |-> Len(managers),
                local |-> IF nodes = <<>> THEN <<>> ELSE DockerID(LocalNode(managers))]
    /\ UNCHANGED <<nodes, used, held>>

\* Info degrades to an inactive node, and the other calls report the error.
CallFails == call = Idle /\ call' = [op |-> "failed"] /\ UNCHANGED <<nodes, used, held>>

Return == call # Idle /\ call' = Idle /\ UNCHANGED <<nodes, used, held>>

-----------------------------------------------------------------------------
(* The cluster.  A node that comes back under its name has a new UID. *)

Join ==
    /\ call = Idle
    /\ \E uid \in UIDs \ used, name \in Names \ {nodes[i].name : i \in DOMAIN nodes}, shape \in Shapes :
          /\ nodes' = Append(nodes, shape @@ [uid |-> uid, name |-> name])
          /\ used' = used \cup {uid}
    /\ UNCHANGED <<held, call>>

Leave ==
    /\ call = Idle
    /\ \E i \in DOMAIN nodes : nodes' = RemoveAt(nodes, i)
    /\ UNCHANGED <<used, held, call>>

Change ==
    /\ call = Idle
    /\ \E i \in DOMAIN nodes, shape \in Shapes : nodes' = [nodes EXCEPT ![i] = shape @@ @]
    /\ UNCHANGED <<used, held, call>>

Init == nodes = <<>> /\ used = {} /\ held = None /\ call = Idle

Next == GetNodes \/ GetNode \/ Info \/ CallFails \/ Return \/ Join \/ Leave \/ Change

Spec == Init /\ [][Next]_vars

-----------------------------------------------------------------------------
\* The type invariant.
TypeOK ==
    /\ call.op \in {"idle", "list", "invalid", "get", "info", "failed"}
    /\ used \subseteq UIDs
    /\ call.op = "list" => \A n \in call.out : n.state \in {"ready", "down", "unknown"}

\* A list has the nodes that have one of the values of each field, and all of
\* the labels, and no others (GetNodes, matchesNodeFilters, pkg/filters).
ListedMatch ==
    call.op = "list" /\ (\A key \in DOMAIN call.args : \A v \in DOMAIN call.args[key] : call.args[key][v]) =>
       LET values(key) == IF key \in DOMAIN call.args THEN DOMAIN call.args[key] ELSE {}
           Some(key, P(_)) == values(key) = {} \/ \E v \in values(key) : P(v)
           Wanted(n) ==
              /\ Some("id", LAMBDA v : \E k \in 0..4 : v = SubSeq(n.uid \o n.uid, 1, k))
              /\ Some("name", LAMBDA v : v = n.name \/ \E i, j \in DOMAIN n.name : v = SubSeq(n.name, i, j) /\ Bad \notin ToSet(v))
              /\ Some("role", LAMBDA v : (v = "manager") = (\E l \in DOMAIN n.labels : l \in {ControlPlane, Master}))
              /\ Some("membership", LAMBDA v : v = "accepted")
              /\ \A v \in values("label") : v[1] \in DOMAIN n.labels /\ (Len(v) = 1 \/ n.labels[v[1]] = v[2])
       IN {n.hostname : n \in call.out} = {n.name : n \in {m \in ToSet(nodes) : Wanted(m)}}

\* A lookup that answers a node answers the only one with that name or ID
\* prefix: ambiguous ones are refused (GetNode).
FoundIsTheOne ==
    call.op = "get" /\ call.out.found = "node" =>
       \A n \in ToSet(nodes) : n.name = call.arg \/ IsPrefix(call.arg, n.uid \o n.uid) => n.uid = call.out.uid

\* An ID from a list is of that node for ever: looked up later, also after the
\* node was replaced by one of its name, it is that node or none (GetNode,
\* DockerIDFromUID).
HeldIsItsNode ==
    call.op = "get" /\ held # None /\ call.arg = held.id =>
       call.out.found = "not found" \/ (call.out.found = "node" /\ call.out.uid = held.uid)

\* The swarm's information agrees with the list: as many managers as are
\* listed, and the node it answers for is listed, as a manager if there is one
\* (Info, swarmNode).
InfoAgrees ==
    call.op = "info" =>
       LET listed == {SwarmNode(n) : n \in ToSet(nodes)}
           managers == {n \in listed : n.role = "manager"}
       IN /\ call.managers = Cardinality(managers) /\ call.count = Cardinality(listed)
          /\ nodes # <<>> => call.local \in {n.id : n \in IF managers # {} THEN managers ELSE listed}
=============================================================================
