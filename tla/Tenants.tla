------------------------------ MODULE Tenants ------------------------------
(***************************************************************************)
(* Tenants and their client certificates, as dinkle keeps them             *)
(* (cmd/dinkle/command service.go, issue.go, namespaces/namespaces.go).  A *)
(* tenant is a namespace with dinkle's labels; its clients are Secrets in  *)
(* it and files cached on the host that issued or restored them.           *)
(* Hosts run commands at the same time and a command may stop between any  *)
(* two of its requests.  Kubernetes deletes a namespace in two steps and   *)
(* creates nothing in one that is going.                                   *)
(***************************************************************************)
EXTENDS Integers, Sequences, FiniteSets

CONSTANTS Hosts, Clients,
          Tenant,    \* a tenant's name
          Foreign,   \* a namespace that is not dinkle's
          Ops,       \* the commands run
          MaxCerts,  \* bound: certificates issued
          MaxStops   \* bound: commands that stop

VARIABLES ns,          \* "none", "active" or "going" of each namespace
          labelled,    \* namespaces with dinkle's tenant labels
          leaves,      \* leaf Secrets in each namespace: [kind, name, cert]
          containers,  \* namespaces with containers
          cache,       \* certificates cached on each host: [ns, name, cert]
          cmd,         \* the command each host runs
          issued, stops

vars == <<ns, labelled, leaves, containers, cache, cmd, issued, stops>>

None == "none"
Names == {Tenant, Foreign}
Idle == [op |-> "none", pc |-> "idle", ns |-> None, client |-> None, force |-> FALSE, cert |-> 0]
Running(c) == c.pc \notin {"idle", "failed"}

To(c, pc) == [c EXCEPT !.pc = pc]
Go(h, c) == cmd' = [cmd EXCEPT ![h] = c]
Done(h) == Go(h, Idle)

\* What failed is forgotten, except a deletion, which may be run again.
Fail(h) == Go(h, IF cmd[h].op \in {"delete client", "delete tenant"} THEN To(cmd[h], "failed") ELSE Idle)

-----------------------------------------------------------------------------
(* Starting a command. *)

First(op) ==
    CASE op = "create tenant" -> "create" [] op = "delete tenant" -> "containers"
      [] op = "sync client" -> "load" [] op = "issue plugin" -> "plugin" [] OTHER -> "get"

Start(h) ==
    /\ ~Running(cmd[h])
    /\ \E op \in Ops, n \in Names, c \in Clients, f \in BOOLEAN :
        /\ f => op = "delete tenant"
        /\ Go(h, [Idle EXCEPT !.op = op, !.pc = First(op), !.ns = n, !.client = c, !.force = f])
    /\ UNCHANGED <<ns, labelled, leaves, containers, cache, issued, stops>>

\* Manager.Get: the namespace exists and carries dinkle's labels.
IsTenant(n) == ns[n] # "none" /\ n \in labelled

AfterGet(op) ==
    CASE op = "create client" -> "issue" [] op = "delete client" -> "delete leaf" [] op = "delete tenant" -> "delete"

Get(h) ==
    LET c == cmd[h]
    IN  /\ c.pc = "get"
        /\ IF IsTenant(c.ns) THEN Go(h, To(c, AfterGet(c.op))) ELSE Fail(h)
        /\ UNCHANGED <<ns, labelled, leaves, containers, cache, issued, stops>>

-----------------------------------------------------------------------------
(* Tenants. *)

CreateNamespace(h) ==
    LET c == cmd[h]
    IN  /\ c.pc = "create"
        /\ IF ns[c.ns] # "none" THEN Fail(h) /\ UNCHANGED <<ns, labelled>>
           ELSE /\ ns' = [ns EXCEPT ![c.ns] = "active"]
                /\ labelled' = labelled \cup {c.ns}
                /\ Go(h, To(c, "issue"))
        /\ UNCHANGED <<leaves, containers, cache, issued, stops>>

HasContainers(h) ==
    LET c == cmd[h]
    IN  /\ c.pc = "containers"
        /\ IF ~c.force /\ c.ns \in containers THEN Fail(h) ELSE Go(h, To(c, "get"))
        /\ UNCHANGED <<ns, labelled, leaves, containers, cache, issued, stops>>

DeleteNamespace(h) ==
    LET c == cmd[h]
    IN  /\ c.pc = "delete"
        /\ IF ns[c.ns] = "none" THEN Fail(h) /\ UNCHANGED ns
           ELSE ns' = [ns EXCEPT ![c.ns] = "going"] /\ Go(h, To(c, "clear"))
        /\ UNCHANGED <<labelled, leaves, containers, cache, issued, stops>>

RemoveAll(h) ==
    LET c == cmd[h]
    IN  /\ c.pc = "clear"
        /\ cache' = [cache EXCEPT ![h] = {f \in @ : f.ns # c.ns}]
        /\ Done(h)
        /\ UNCHANGED <<ns, labelled, leaves, containers, issued, stops>>

\* Kubernetes finishes deleting a namespace.
Collected(n) ==
    /\ ns[n] = "going"
    /\ ns' = [ns EXCEPT ![n] = "none"]
    /\ labelled' = labelled \ {n}
    /\ leaves' = [leaves EXCEPT ![n] = {}]
    /\ containers' = containers \ {n}
    /\ UNCHANGED <<cache, cmd, issued, stops>>

\* A tenant starts a container.
Run(n) ==
    /\ ns[n] = "active" /\ n \notin containers
    /\ containers' = containers \cup {n}
    /\ UNCHANGED <<ns, labelled, leaves, cache, cmd, issued, stops>>

-----------------------------------------------------------------------------
(* Client certificates. *)

\* FileStore.SaveLeaf overwrites the client's files.
Cached(h, c, cert) ==
    {f \in cache[h] : f.ns # c.ns \/ f.name # c.client} \cup {[ns |-> c.ns, name |-> c.client, cert |-> cert]}

\* issueClientCert caches the certificate, then stores it in the namespace.
IssueClient(h) ==
    LET c == cmd[h]
    IN  /\ c.pc = "issue" /\ issued < MaxCerts
        /\ issued' = issued + 1
        /\ cache' = [cache EXCEPT ![h] = Cached(h, c, issued')]
        /\ Go(h, [c EXCEPT !.pc = "save leaf", !.cert = issued'])
        /\ UNCHANGED <<ns, labelled, leaves, containers, stops>>

Leaf(kind, c) == [kind |-> kind, name |-> c.client, cert |-> c.cert]

Others(n, kind, name) == {l \in leaves[n] : l.kind # kind \/ l.name # name}

\* SecretStore.apply: an update, or else a create, which a namespace that is
\* going refuses.
Put(h, kind) ==
    LET c == cmd[h]
        others == Others(c.ns, kind, c.client)
    IN  IF ns[c.ns] = "active" \/ (ns[c.ns] = "going" /\ others # leaves[c.ns])
        THEN /\ leaves' = [leaves EXCEPT ![c.ns] = others \cup {Leaf(kind, c)}]
             /\ Done(h)
        ELSE Fail(h) /\ UNCHANGED leaves

SaveLeaf(h) ==
    /\ cmd[h].pc = "save leaf"
    /\ Put(h, "client")
    /\ UNCHANGED <<ns, labelled, containers, cache, issued, stops>>

\* IssuePluginCert, for a namespace that exists.
IssuePlugin(h) ==
    /\ cmd[h].pc = "plugin"
    /\ Put(h, "plugin")
    /\ UNCHANGED <<ns, labelled, containers, cache, issued, stops>>

\* DeleteLeaf ignores a Secret that is not there.
NotFound(c) == FALSE

DeleteLeaf(h) ==
    LET c == cmd[h]
    IN  /\ c.pc = "delete leaf"
        /\ IF NotFound(c) THEN Fail(h) /\ UNCHANGED leaves
           ELSE /\ leaves' = [leaves EXCEPT ![c.ns] = Others(c.ns, "client", c.client)]
                /\ Go(h, To(c, "uncache"))
        /\ UNCHANGED <<ns, labelled, containers, cache, issued, stops>>

Uncache(h) ==
    LET c == cmd[h]
    IN  /\ c.pc = "uncache"
        /\ cache' = [cache EXCEPT ![h] = {f \in @ : f.ns # c.ns \/ f.name # c.client}]
        /\ Done(h)
        /\ UNCHANGED <<ns, labelled, leaves, containers, issued, stops>>

\* SyncClient: load the Secret, then cache it.
LoadLeaf(h) ==
    LET c == cmd[h]
        found == leaves[c.ns] \ Others(c.ns, "client", c.client)
    IN  /\ c.pc = "load"
        /\ IF found = {} THEN Fail(h)
           ELSE Go(h, [c EXCEPT !.pc = "cache", !.cert = (CHOOSE l \in found : TRUE).cert])
        /\ UNCHANGED <<ns, labelled, leaves, containers, cache, issued, stops>>

CacheLeaf(h) ==
    LET c == cmd[h]
    IN  /\ c.pc = "cache"
        /\ cache' = [cache EXCEPT ![h] = Cached(h, c, c.cert)]
        /\ Done(h)
        /\ UNCHANGED <<ns, labelled, leaves, containers, issued, stops>>

\* A request fails, or the operator gives up.
Stop(h) ==
    /\ Running(cmd[h]) /\ stops < MaxStops
    /\ stops' = stops + 1
    /\ Fail(h)
    /\ UNCHANGED <<ns, labelled, leaves, containers, cache, issued>>

-----------------------------------------------------------------------------
Init ==
    /\ ns = [n \in Names |-> IF n = Foreign THEN "active" ELSE "none"]
    /\ labelled = {}
    /\ leaves = [n \in Names |-> {}]
    /\ containers = {}
    /\ cache = [h \in Hosts |-> {}]
    /\ cmd = [h \in Hosts |-> Idle]
    /\ issued = 0
    /\ stops = 0

Step(h) ==
    \/ Get(h) \/ CreateNamespace(h) \/ HasContainers(h) \/ DeleteNamespace(h) \/ RemoveAll(h)
    \/ IssueClient(h) \/ SaveLeaf(h) \/ IssuePlugin(h) \/ DeleteLeaf(h) \/ Uncache(h)
    \/ LoadLeaf(h) \/ CacheLeaf(h)

Next ==
    \/ \E h \in Hosts : Start(h) \/ Step(h) \/ Stop(h)
    \/ \E n \in Names : Collected(n) \/ Run(n)

Spec == Init /\ [][Next]_vars

\* Commands run to their end, and a deletion that failed is run again.
Again(h) ==
    /\ cmd[h].pc = "failed" /\ Start(h)
    /\ \A f \in {"op", "ns", "client", "force"} : cmd'[h][f] = cmd[h][f]

Fairness == \A h \in Hosts : WF_vars(Step(h)) /\ WF_vars(Again(h))

-----------------------------------------------------------------------------
(* Properties. *)

\* The shape of the namespaces and of what is in them.
TypeOK ==
    /\ ns \in [Names -> {"none", "active", "going"}]
    /\ labelled \subseteq {n \in Names : ns[n] # "none"}
    /\ \A n \in Names : ns[n] = "none" => leaves[n] = {}
    /\ \A h \in Hosts : \A f, g \in cache[h] : f.ns = g.ns /\ f.name = g.name => f = g

\* dinkle changes nothing in a namespace that is not a tenant's, a plugin's
\* certificate apart: it neither deletes it nor gives it clients.
SparesForeign ==
    /\ ns[Foreign] = "active" /\ Foreign \notin labelled
    /\ \A l \in leaves[Foreign] : l.kind = "plugin"

\* A client's deletion that stops half way is finished by running it again,
\* unless the tenant goes meanwhile or the operator turns to something else.
DeleteClientCompletes ==
    \A h \in Hosts : cmd[h].op = "delete client" /\ cmd[h].pc = "failed"
        ~> cmd[h].op # "delete client" \/ ~IsTenant(cmd[h].ns)
=============================================================================
