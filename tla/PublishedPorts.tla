-------------------------- MODULE PublishedPorts ---------------------------
(***************************************************************************)
(* The ports and networks of a container: what ContainerCreate makes of a  *)
(* request (container_create.go) one Kubernetes call after the other, what *)
(* it undoes when a call fails, and what inspect reads back                *)
(* (container_inspect.go).                                                 *)
(***************************************************************************)
EXTENDS Integers, Sequences, FiniteSets, SequencesExt, FiniteSetsExt

CONSTANTS
    PortNumbers, HostPorts,    \* 0 is no port
    MaxBindings,               \* bound: port bindings of a request
    NodePorts,                 \* what Kubernetes allocates from
    Networks,                  \* the user's networks
    None

VARIABLES request,
          pc,                  \* the next step of the create; "created" or "failed" at its end
          workload,            \* the Deployment or Job exists
          dns, published,      \* sets of Service ports, or None
          policy,              \* open ports, or None
          labels               \* networks the Pod is labelled with

vars == <<request, pc, workload, dns, published, policy, labels>>

Protocols == {"TCP", "UDP"}
Ports == PortNumbers \X Protocols
Bindings == [port : Ports, host : HostPorts]
PortRequests == [bindings : SeqOf(Bindings, MaxBindings), exposed : SUBSET {<<1, "TCP">>, <<2, "UDP">>},
                 all : BOOLEAN, mode : {"bridge", "host"}, endpoints : {{}}]
NetworkRequests == [bindings : {<<>>}, exposed : {{}}, all : {FALSE},
                    mode : {"", "default", "bridge", "none", "host", "container:"} \cup Networks,
                    endpoints : SUBSET ({"default"} \cup Networks)]

-----------------------------------------------------------------------------
(* resolvePublishedPorts: the bindings in a fixed order, so that the order *)
(* of a Go map does not show; with publish-all the exposed ports instead.  *)

Resolved ==
    IF request.all THEN SetToSeq({[port |-> p, host |-> 0] : p \in request.exposed})
    ELSE request.bindings

Bad(p) == p[1] = 0

ServiceType ==
    IF Resolved = <<>> THEN None ELSE IF request.all THEN "NodePort" ELSE "LoadBalancer"

\* podPorts: every container port once.
PodPorts == {b.port : b \in ToSet(Resolved)}

HostNetwork == request.mode = "host"

\* The names of the networks a container joins.
NetworkNames ==
    IF request.endpoints # {}
    THEN {IF n = "default" THEN "bridge" ELSE n : n \in request.endpoints}
    ELSE {IF request.mode \in {"", "default"} THEN "bridge" ELSE request.mode}

NetworkRefused ==
    \/ request.mode \in {"host", "none"} /\ request.endpoints # {}
    \/ request.mode = "container:"

\* containerDNSService: one Service port for every binding.
DNSPorts == [n \in DOMAIN Resolved |-> Resolved[n].port]

\* publishedPortsService.
PublishedServicePorts == [n \in DOMAIN Resolved |->
    LET b == Resolved[n]
    IN  [port |-> <<IF b.host # 0 THEN b.host ELSE b.port[1], b.port[2]>>,
         target |-> b.port[1], node |-> 0]]

-----------------------------------------------------------------------------
Init ==
    /\ request \in PortRequests \cup NetworkRequests
    /\ pc = "check" /\ workload = FALSE
    /\ dns = None /\ published = None /\ policy = None /\ labels = {}

\* ContainerCreate up to the first object.
CheckRequest ==
    /\ pc = "check"
    /\ pc' = IF NetworkRefused \/ (\E p \in PodPorts : Bad(p)) THEN "failed" ELSE "workload"
    /\ UNCHANGED <<request, workload, dns, published, policy, labels>>

CreateWorkload ==
    /\ pc = "workload"
    /\ workload' = TRUE /\ labels' = IF HostNetwork THEN {} ELSE NetworkNames
    /\ pc' = "dns"
    /\ UNCHANGED <<request, dns, published, policy>>

\* Kubernetes refuses a Service with two ports of one number and protocol.
DNSAccepted == \A m, n \in DOMAIN DNSPorts : DNSPorts[m] = DNSPorts[n] => m = n

PublishedAccepted ==
    \A m, n \in DOMAIN PublishedServicePorts :
       PublishedServicePorts[m].port = PublishedServicePorts[n].port => m = n

CreateDNSService ==
    /\ pc = "dns" /\ DNSAccepted
    /\ dns' = ToSet(DNSPorts)
    /\ pc' = IF ServiceType = None THEN "policy" ELSE "published"
    /\ UNCHANGED <<request, workload, published, policy, labels>>

\* Kubernetes allocates the node ports.
CreatePublishedService ==
    /\ pc = "published" /\ PublishedAccepted
    /\ \E f \in [DOMAIN PublishedServicePorts -> NodePorts] :
          /\ \A m, n \in DOMAIN f : f[m] = f[n] => m = n
          /\ published' = {[PublishedServicePorts[n] EXCEPT !.node = f[n]] : n \in DOMAIN f}
    /\ pc' = "policy"
    /\ UNCHANGED <<request, workload, dns, policy, labels>>

\* Mutant: the policy opens the ports that have a host port.
OpenPorts_WithHost == {b.port : b \in {x \in ToSet(Resolved) : x.host # 0}}

\* networkPolicyPorts.
OpenPorts == PodPorts

\* applyPublishedPortsPolicy, left out for host networking.
ApplyPolicy ==
    /\ pc = "policy"
    /\ policy' = IF HostNetwork \/ PodPorts = {} THEN policy ELSE OpenPorts
    /\ pc' = "created"
    /\ UNCHANGED <<request, workload, dns, published, labels>>

\* A Kubernetes call refuses the object, or fails with or without effect: the
\* workload is deleted, and with the published Service's failure the DNS Service
\* before it.  Whether the deletions succeed is not looked at.
CallFails ==
    /\ pc \in {"workload", "dns", "published", "policy"}
    /\ workload' \in BOOLEAN
    /\ dns' \in CASE pc = "published" -> {None, dns}
                 [] pc = "dns" /\ DNSAccepted -> {None, ToSet(DNSPorts)}
                 [] OTHER -> {dns}
    /\ policy' \in IF pc = "policy" /\ ~HostNetwork /\ PodPorts # {} THEN {None, OpenPorts} ELSE {policy}
    /\ pc' = "failed"
    /\ UNCHANGED <<request, published, labels>>

\* The objects with the workload as their owner.
Owned(object) == object \in {"dns", "published", "policy"}

\* Kubernetes deletes what a deleted workload owns.
Collect ==
    /\ pc = "failed" /\ ~workload
    /\ \/ Owned("dns") /\ dns # None /\ dns' = None /\ UNCHANGED <<published, policy>>
       \/ Owned("published") /\ published # None /\ published' = None /\ UNCHANGED <<dns, policy>>
       \/ Owned("policy") /\ policy # None /\ policy' = None /\ UNCHANGED <<dns, published>>
    /\ UNCHANGED <<request, pc, workload, labels>>

Create == CheckRequest \/ CreateWorkload \/ CreateDNSService \/ CreatePublishedService
          \/ ApplyPolicy \/ CallFails

Next == Create \/ Collect

Spec == Init /\ [][Next]_vars

\* Kubernetes' collector runs, and a create's handler runs to an end.
Fairness == WF_vars(Collect) /\ WF_vars(Create)

-----------------------------------------------------------------------------
(* Inspect. *)

\* containerPortBindings: the published Service by container port; of two
\* entries for a container port one remains.
InspectedBindings ==
    {<<<<p.target, p.port[2]>>, IF ServiceType = "NodePort" THEN p.node ELSE p.port[1]>> :
        p \in IF published = None THEN {} ELSE published}

Binding(p) == CHOOSE h \in HostPorts \cup NodePorts \cup PortNumbers : <<p, h>> \in InspectedBindings

\* containerNetworkState: by the Pod template's labels.
InspectedNetworks == IF HostNetwork THEN {} ELSE labels

-----------------------------------------------------------------------------
\* The types of the variables.
TypeOK ==
    /\ request \in PortRequests \cup NetworkRequests
    /\ pc \in {"check", "workload", "dns", "published", "policy", "created", "failed"}
    /\ workload \in BOOLEAN
    /\ dns = None \/ dns \subseteq Ports
    /\ policy = None \/ policy \subseteq Ports
    /\ labels \subseteq {"bridge", "none"} \cup Networks

\* Inspect of a created container reports every port it was asked to publish,
\* under the port asked for (resolvePublishedPorts, containerPortBindings).
BindingsReported ==
    pc = "created" /\ ~request.all =>
       \A b \in ToSet(request.bindings) :
          Binding(b.port) = IF b.host # 0 THEN b.host ELSE b.port[1]

\* Whatever a Service of a created container forwards to, the Pod declares and
\* its policy lets in (podPorts, applyPublishedPortsPolicy).
ForwardedIsOpen ==
    pc = "created" /\ published # None =>
       \A p \in published : LET t == <<p.target, p.port[2]>>
                            IN  t \in PodPorts /\ (HostNetwork \/ t \in policy)

\* No port is open, by the policy, that the request does not publish
\* (applyPublishedPortsPolicy).
OpensNothingElse ==
    policy # None =>
       policy \subseteq IF request.all THEN request.exposed ELSE {b.port : b \in ToSet(request.bindings)}

\* A container is on the networks of its request and on no other; host
\* networking and "none" keep it off all of them (containerNetworkLabels,
\* containerNetworkState).
JoinsAsAsked ==
    pc = "created" =>
       CASE request.mode = "host" -> InspectedNetworks = {}
         [] request.mode = "none" -> InspectedNetworks = {"none"}
         [] OTHER -> /\ InspectedNetworks # {}
                     /\ request.endpoints \ {"default"} \subseteq InspectedNetworks
                     /\ InspectedNetworks \ {"bridge"} \subseteq request.endpoints \cup {request.mode}

\* A create that fails leaves neither Services nor a policy for long, once its
\* workload is gone (ownerReference, deleteWorkload).
FailedLeavesNothing ==
    (pc = "failed" /\ ~workload) ~> (dns = None /\ published = None /\ policy = None)
=============================================================================
