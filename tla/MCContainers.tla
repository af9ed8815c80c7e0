---------------------------- MODULE MCContainers ----------------------------
(***************************************************************************)
(* The calls that create, change, list and remove containers, networks and *)
(* volumes, for TLC: one component at a time, and the variables of the     *)
(* others are Off.                                                         *)
(***************************************************************************)
EXTENDS Integers, TLC

CONSTANTS
    Three, Two,             \* calls, and other things that are interchangeable
    Member,                 \* the container of Networks
    Client,                 \* the attached client of OneShotContainers
    Vacant, Off

\* "data" and "Data" have the same claim, the anonymous volume its own.
ClaimOf == ("data" :> "data") @@ ("Data" :> "data") @@ ("anon" :> "anon")

\* None; limits below the server's requests; values that are not whole millis;
\* a request with a high limit; a request alone.
TenantDefaults ==
    LET none == [cpu |-> 0, memory |-> 0]
        unset == [limits |-> none, requests |-> none]
    IN  {unset,
         [unset EXCEPT !.limits.memory = 1, !.requests.cpu = 6],
         [unset EXCEPT !.limits.cpu = 3],
         [unset EXCEPT !.requests.memory = 3, !.limits.memory = 3],
         [unset EXCEPT !.requests.memory = 2]}

VARIABLES
    component,  \* the component this behaviour is of
    net, netPolicy, deny, netLabels, fresh, netLock, netNameMu, netCall, attached,
    claim, storage, volWorkload, volPod, volNameMu, volCall, user,
    job, shotPod, shotLock, wait, shotCall, unseen, exited, signals,
    c, born, listingCall, named, kept, result,
    part, configRequest, image, configPod,
    server, tenant, resWorkload, resPod, report,
    portRequest, pc, portWorkload, dns, published, portPolicy, portLabels

\* Three calls on one user network and the bridge.
Net == INSTANCE Networks WITH
    Calls <- Three, Containers <- {Member}, Names <- {"app"}, Builtin <- {"bridge"},
    Uids <- 1..3, NoUid <- Vacant,
    Ops <- {"create", "delete", "prune", "run", "connect", "disconnect"}, policy <- netPolicy,
    labels <- netLabels, lock <- netLock, nameMu <- netNameMu, call <- netCall

\* Three calls on two names that share a claim and an anonymous volume.
Vol == INSTANCE Volumes WITH
    Calls <- Three, Containers <- Two, Named <- {"data", "Data"}, Generated <- {"anon"},
    ResourceName <- ClaimOf, Drivers <- {"local", "plugin"},
    Ops <- {"create", "remove", "removeForce", "run", "rmVolumes"}, NoClaim <- Vacant,
    workload <- volWorkload, pod <- volPod, nameMu <- volNameMu, call <- volCall

\* One client attached to a --rm container, two other calls on it.
Shot == INSTANCE OneShotContainers WITH
    Waiters <- {Client}, Callers <- Two, ExitCodes <- {0, 7}, Free <- Vacant, NoCode <- Vacant,
    pod <- shotPod, lock <- shotLock, call <- shotCall

\* Two containers; the first name is also how both IDs begin.
Listing == INSTANCE ContainerListing WITH
    Slots <- {1, 2}, Id <- <<<<1, 1>>, <<1, 2>>>>, Jobs <- {2}, Labelled <- {1},
    Names <- {<<1>>, <<3>>}, None <- Vacant, call <- listingCall

\* A second has two units, and an int32 five bits.
Config == INSTANCE ContainerConfig WITH
    Ticks <- 2, Width <- 5, Durations <- {-1, 0, 1, 3, 4, 31}, Retries <- {-1, 0, 1, 7, 16},
    MaxEnv <- 2, request <- configRequest, pod <- configPod

\* -1 is Docker's "no quota".
Res == INSTANCE ContainerResources WITH
    NanosPerMilli <- 2, DefaultPeriod <- 4, MicrosPerQuota <- 2, MaxNanos <- 8,
    Nanos <- {0, 1, 6}, Quotas <- {-1, 0, 5, 6}, Periods <- {0, 3}, Bytes <- {0, 1, 3},
    Overrides <- TenantDefaults, workload <- resWorkload, pod <- resPod

\* At most two bindings of two ports, two user networks.
Port == INSTANCE PublishedPorts WITH
    PortNumbers <- {0, 1, 2}, HostPorts <- {0, 2, 3}, MaxBindings <- 2, NodePorts <- {30, 31},
    Networks <- {"n1", "n2"}, None <- Vacant, request <- portRequest, workload <- portWorkload,
    policy <- portPolicy, labels <- portLabels

netVars == <<net, netPolicy, deny, netLabels, fresh, netLock, netNameMu, netCall, attached>>
volVars == <<claim, storage, volWorkload, volPod, volNameMu, volCall, user>>
shotVars == <<job, shotPod, shotLock, wait, shotCall, unseen, exited, signals>>
listingVars == <<c, born, listingCall, named, kept, result>>
configVars == <<part, configRequest, image, configPod>>
resVars == <<server, tenant, resWorkload, resPod, report>>
portVars == <<portRequest, pc, portWorkload, dns, published, portPolicy, portLabels>>
vars == <<component, netVars, volVars, shotVars, listingVars, configVars, resVars, portVars>>

Components == {"networks", "volumes", "oneshot", "listing", "config", "resources", "ports"}

Init ==
    /\ component \in Components
    /\ IF component = "networks" THEN Net!Init
       ELSE /\ net = Off /\ netPolicy = Off /\ deny = Off /\ netLabels = Off /\ fresh = Off
            /\ netLock = Off /\ netNameMu = Off /\ netCall = Off /\ attached = Off
    /\ IF component = "volumes" THEN Vol!Init
       ELSE /\ claim = Off /\ storage = Off /\ volWorkload = Off /\ volPod = Off /\ volNameMu = Off
            /\ volCall = Off /\ user = Off
    /\ IF component = "oneshot" THEN Shot!Init
       ELSE /\ job = Off /\ shotPod = Off /\ shotLock = Off /\ wait = Off /\ shotCall = Off
            /\ unseen = Off /\ exited = Off /\ signals = Off
    /\ IF component = "listing" THEN Listing!Init
       ELSE /\ c = Off /\ born = Off /\ listingCall = Off /\ named = Off /\ kept = Off
            /\ result = Off
    /\ IF component = "config" THEN Config!Init
       ELSE part = Off /\ configRequest = Off /\ image = Off /\ configPod = Off
    /\ IF component = "resources" THEN Res!Init
       ELSE server = Off /\ tenant = Off /\ resWorkload = Off /\ resPod = Off /\ report = Off
    /\ IF component = "ports" THEN Port!Init
       ELSE /\ portRequest = Off /\ pc = Off /\ portWorkload = Off /\ dns = Off /\ published = Off
            /\ portPolicy = Off /\ portLabels = Off

Next ==
    /\ UNCHANGED component
    /\ IF component = "networks" THEN Net!Next ELSE UNCHANGED netVars
    /\ IF component = "volumes" THEN Vol!Next ELSE UNCHANGED volVars
    /\ IF component = "oneshot" THEN Shot!Next ELSE UNCHANGED shotVars
    /\ IF component = "listing" THEN Listing!Next ELSE UNCHANGED listingVars
    /\ IF component = "config" THEN Config!Next ELSE UNCHANGED configVars
    /\ IF component = "resources" THEN Res!Next ELSE UNCHANGED resVars
    /\ IF component = "ports" THEN Port!Next ELSE UNCHANGED portVars

Spec == Init /\ [][Next]_vars

\* Each component treats the members of its sets alike.
Symmetry == Permutations(Three) \cup Permutations(Two)

\* The instance satisfies what the proofs assume of the constants.
ASSUME ContainersConstants == Net!Sane /\ Shot!Sane

-----------------------------------------------------------------------------
\* No container exists in a namespace before its default-deny policy
\* (ensureNetworkIsolation); DeleteNetwork and NetworkPrune spare a network
\* with an endpoint that was there before they looked and has not left since;
\* a container that connect reports connected is connected at that moment
\* (ConnectNetwork).
NetworksSafe ==
    /\ [](component = "networks" => Net!TypeOK /\ Net!IsolatedFirst)
    /\ [][component = "networks" => Net!DeleteSparesEndpoints /\ Net!ConnectTakesHold]_vars

\* Volumes whose names share a claim name are not mixed up: a mount goes
\* ahead only with the claim of the name it asked for (ensureVolume).
\* RemoveVolume without force deletes no claim a container has used since
\* before the volume was looked up, and rm -v none another workload mounts
\* (removeAnonymousVolumes).
VolumesSafe ==
    /\ [](component = "volumes" => Vol!TypeOK /\ Vol!MountsItsOwn)
    /\ [][component = "volumes" => Vol!RemoveSparesUsed /\ Vol!AnonymousSparesOthers]_vars

\* ContainerWait makes no exit code up: one other than 0 is the process's, or
\* one that a stop or kill announced. A client attached before the process
\* exits is told its code when nobody stops or removes the container
\* (oneShotRemovalDelay), and a stop or kill that succeeds has ended the
\* process for good (stopOneShot).
OneShotSafe ==
    component = "oneshot" =>
       /\ Shot!TypeOK /\ Shot!AnswerIsReal /\ Shot!AttachedClientReads
       /\ Shot!StopMeansStopped

\* A name one container has throughout a lookup finds that container
\* (findContainer). A list is in order, has no container twice and misses
\* none that was there throughout (Containers). Pruning removes no started
\* container (ContainerPrune, ContainerRm).
ListingSafe ==
    /\ [](component = "listing" =>
             Listing!TypeOK /\ Listing!FindsTheNamed /\ Listing!ListIsComplete)
    /\ [][component = "listing" => Listing!PruneSparesRunning]_vars

\* A container runs the client's command and environment over the image's,
\* with a probe that is never more eager than its health check and with
\* dink's own labels (mergeImageConfig, containerEnv, dockerProbeSeconds,
\* podMetadata). No request exceeds its limit, no default replaces a value
\* the client asked for, and inspect reports the resources in force
\* (applyResourceDefaults, ContainerUpdate, reconcileInspectResources).
CreatedAsAsked ==
    /\ component = "config" =>
          /\ Config!TypeOK /\ Config!RunsAsAsked /\ Config!EnvPrecedence
          /\ Config!ProbeIsFaithful /\ Config!OwnLabelsKept
    /\ component = "resources" =>
          Res!TypeOK /\ Res!RequestsFit /\ Res!ExplicitWins /\ Res!InspectIsTrue

\* Inspect reports every port a container was asked to publish
\* (containerPortBindings). What a Service forwards to is declared by the Pod
\* and let in by its policy, which opens no other port (podPorts,
\* applyPublishedPortsPolicy). A container is on the networks of its request
\* and no other (containerNetworkLabels).
PortsSafe ==
    component = "ports" =>
       /\ Port!TypeOK /\ Port!BindingsReported /\ Port!ForwardedIsOpen
       /\ Port!OpensNothingElse /\ Port!JoinsAsAsked
=============================================================================
