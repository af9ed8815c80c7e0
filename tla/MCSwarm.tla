------------------------------ MODULE MCSwarm -------------------------------
(***************************************************************************)
(* Swarm services, tasks, secrets, configs and nodes, for TLC: one         *)
(* component at a time, and the variables of the others are Off.           *)
(***************************************************************************)
EXTENDS Integers, TLC

CONSTANTS
    a, b,                   \* concurrent requests
    Vacant, Off

Port(target, published, host) ==
    [target |-> target, published |-> published, proto |-> "TCP", host |-> host]
ServiceSpec(ports, aliases, values) ==
    [ports |-> ports, aliases |-> aliases, values |-> values]

\* Bare, published with an alias and values, and published on other terms.
MixedSpecs ==
    {ServiceSpec(<<>>, <<>>, 0),
     ServiceSpec(<<Port(80, 8080, FALSE)>>, <<"x">>, 1),
     ServiceSpec(<<Port(80, 8080, FALSE), Port(81, 81, TRUE)>>, <<>>, 2)}

ValueSpecs == {ServiceSpec(<<>>, <<>>, 1), ServiceSpec(<<>>, <<>>, 2)}

\* A node without labels, one that is cordoned, and two of the control plane.
NodeShapes ==
    {[labels |-> <<>>, cordoned |-> FALSE, ready |-> "missing"],
     [labels |-> ("a" :> "1"), cordoned |-> TRUE, ready |-> "True"],
     [labels |-> ("a" :> "2" @@ "b" :> "1" @@ "node-role.kubernetes.io/master" :> ""), cordoned |-> FALSE,
      ready |-> "False"],
     [labels |-> ("a" :> "1" @@ "node-role.kubernetes.io/control-plane" :> ""),
      cordoned |-> FALSE, ready |-> "Unknown"]}

VARIABLES
    component,  \* the component this behaviour is of
    deps, svcs, envs, pols, servicesCalls, last, clock,
    dep, sets, pods, query, answer, tasksMade,
    objs, objectsCalls, objectsMade,
    placement, node, service, task,
    part, spec, specMade, tasks, build,
    nodes, used, held, call

\* Five calls one after the other, any of whose requests may fail.
Services == INSTANCE SwarmServices WITH
    Calls <- {"c"}, Names <- {"a"}, Aliases <- {"x"}, Specs <- MixedSpecs, NodePorts <- {1, 2},
    MaxCalls <- 5, Serial <- TRUE, Faults <- TRUE, calls <- servicesCalls

\* Four calls, two at a time.
Races == INSTANCE SwarmServices WITH
    Calls <- {a, b}, Names <- {"a"}, Aliases <- {"x"}, Specs <- ValueSpecs,
    NodePorts <- {1, 2}, MaxCalls <- 4, Serial <- FALSE, Faults <- FALSE,
    calls <- servicesCalls

\* Two rollouts and two failures.
Tasks == INSTANCE SwarmTasks WITH
    Templates <- {"t1", "t2"}, MaxRollouts <- 2, MaxPods <- 2, MaxFails <- 2,
    Recreates <- FALSE, made <- tasksMade

\* Names that look like IDs, and IDs that share a prefix.
Objects == INSTANCE SwarmObjects WITH
    Calls <- {a, b}, Names <- {<<"x">>, <<"0">>, <<"y">>},
    Ids <- <<<<"0", "1", "2">>, <<"0", "1", "3">>, <<"4">>>>,
    Queries <- {<<>>, <<"x">>, <<"0">>, <<"0", "1">>, <<"y">>}, Foreign <- {<<"y">>},
    MaxUpdates <- 3, Force <- TRUE, calls <- objectsCalls, made <- objectsMade

\* Constraints act on each node by itself, so one node is enough.
Placed == INSTANCE SwarmPlacement WITH
    Nodes <- {"n1"}, Tenants <- {"t1", "t2"}, Values <- {"v1", "v2"}, None <- Vacant

Specified == INSTANCE SwarmSpec WITH
    Top <- 4, Milli <- 2, MaxReplicas <- 3, Largest <- 4, MaxMounts <- 2, MaxAttempts <- 2,
    made <- specMade

\* Two nodes whose IDs share prefixes; 9 makes a pattern malformed.
Members == INSTANCE SwarmNodes WITH
    UIDs <- {<<0, 0>>, <<0, 1>>, <<1, 0>>}, Names <- {<<0>>, <<0, 1>>},
    IdFilters <- {<<0>>, <<0, 1, 0, 1>>}, NameFilters <- {<<1>>, <<9>>},
    LabelFilters <- {<<"a">>, <<"a", "1">>, <<"b">>}, Shapes <- NodeShapes

servicesVars == <<deps, svcs, envs, pols, servicesCalls, last, clock>>
tasksVars == <<dep, sets, pods, query, answer, tasksMade>>
objectsVars == <<objs, objectsCalls, objectsMade>>
placedVars == <<placement, node, service, task>>
specVars == <<part, spec, specMade, tasks, build>>
nodesVars == <<nodes, used, held, call>>
vars == <<component, servicesVars, tasksVars, objectsVars, placedVars, specVars, nodesVars>>

Components == {"services", "races", "tasks", "objects", "placement", "spec", "nodes"}

Init ==
    /\ component \in Components
    /\ CASE component = "services" -> Services!Init
         [] component = "races" -> Races!Init
         [] OTHER -> /\ deps = Off /\ svcs = Off /\ envs = Off /\ pols = Off /\ servicesCalls = Off
                     /\ last = Off /\ clock = Off
    /\ IF component = "tasks" THEN Tasks!Init
       ELSE /\ dep = Off /\ sets = Off /\ pods = Off /\ query = Off /\ answer = Off
            /\ tasksMade = Off
    /\ IF component = "objects" THEN Objects!Init
       ELSE objs = Off /\ objectsCalls = Off /\ objectsMade = Off
    /\ IF component = "placement" THEN Placed!Init
       ELSE placement = Off /\ node = Off /\ service = Off /\ task = Off
    /\ IF component = "spec" THEN Specified!Init
       ELSE part = Off /\ spec = Off /\ specMade = Off /\ tasks = Off /\ build = Off
    /\ IF component = "nodes" THEN Members!Init
       ELSE nodes = Off /\ used = Off /\ held = Off /\ call = Off

Next ==
    /\ UNCHANGED component
    /\ CASE component = "services" -> Services!Next
         [] component = "races" -> Races!Next
         [] OTHER -> UNCHANGED servicesVars
    /\ IF component = "tasks" THEN Tasks!Next ELSE UNCHANGED tasksVars
    /\ IF component = "objects" THEN Objects!Next ELSE UNCHANGED objectsVars
    /\ IF component = "placement" THEN Placed!Next ELSE UNCHANGED placedVars
    /\ IF component = "spec" THEN Specified!Next ELSE UNCHANGED specVars
    /\ IF component = "nodes" THEN Members!Next ELSE UNCHANGED nodesVars

Spec == Init /\ [][Next]_vars

\* Requests are interchangeable.
Symmetry == Permutations({a, b})

-----------------------------------------------------------------------------
\* Whatever failed before, a create or update that succeeds leaves the
\* service with exactly the objects its spec asks for (applyServiceEndpoints,
\* applyEnvSecret). A rollout starts only once the env Secret holds its
\* values, and a port a service keeps publishing keeps its node port
\* (UpdateService, retainNodePorts). An update replaces only the spec its
\* client had read, and a remove deletes only the Deployment it found
\* (resourceVersionFor, RemoveService).
ServicesSafe ==
    /\ [](/\ component = "services" => Services!TypeOK /\ Services!SuccessConverges
          /\ component = "races" => Races!TypeOK)
    /\ [][/\ component = "services" =>
                Services!NewValuesFirst /\ Services!NodePortsRetained
          /\ component = "races" => Races!ActsOnWhatItSaw]_vars

\* An object's payload stays as long as it keeps its ID, an update takes the
\* place of the version its client read, and two objects whose IDs share a
\* prefix are never confused (UpdateSecret, UpdateConfig, findSecret). A list
\* has the nodes its filters ask for and no others, a lookup answers the only
\* node so named, an ID is of one node for ever, and the swarm's information
\* agrees with the list (GetNodes, GetNode, Info).
LookupsSafe ==
    /\ [](/\ component = "objects" => Objects!TypeOK /\ Objects!NamesItAlone
          /\ component = "nodes" =>
                /\ Members!TypeOK /\ Members!ListedMatch /\ Members!FoundIsTheOne
                /\ Members!HeldIsItsNode /\ Members!InfoAgrees)
    /\ [][component = "objects" => Objects!PayloadStays /\ Objects!NoLostLabels]_vars

\* No request above its limit is made, mounts are refused only for a conflict
\* or a kind that is not supported, and the claims an accepted service mounts
\* exist before its Deployment (serviceResources, serviceMounts,
\* buildService). An update that starts first never has too few tasks ready,
\* and one that stops first never too many (serviceStrategy). A task goes
\* only to nodes that meet its constraints, and tenants' nodes and tasks keep
\* apart (placementRequirements, applyNodePlacement).
SpecSafe ==
    /\ [](/\ component = "spec" =>
                /\ Specified!TypeOK /\ Specified!ResourcesFit
                /\ Specified!RefusedMountsConflict /\ Specified!MountedClaimsExist
                /\ Specified!UpdateOrderHolds /\ Specified!DeploymentIsLast
          /\ component = "tasks" => Tasks!TypeOK
          /\ component = "placement" => Placed!TypeOK)
    /\ [][component = "placement" =>
             /\ Placed!StaysOffClaimedNodes /\ Placed!TaintKeepsOthersOff
             /\ Placed!ConstraintsMet]_vars
=============================================================================
