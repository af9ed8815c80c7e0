----------------------------- MODULE MCCluster ------------------------------
(***************************************************************************)
(* dinki's images, builds and process, the node service and dinkle's       *)
(* commands, for TLC: one component at a time, and the variables of the    *)
(* others are Off.                                                         *)
(***************************************************************************)
EXTENDS Integers, TLC

CONSTANTS
    h1, h2,                 \* hosts, operators or callers
    Vacant, Off

\* An index over two platforms and an attestation of the first, and a manifest
\* that shares a blob with the index's first platform.
Content == [amd |-> {"b1"}, arm |-> {"b2"}, att |-> {"b3"}, single |-> {"b1"}]
PlatformOf == [amd |-> "amd64", arm |-> "arm64", att |-> "unknown", single |-> "any"]

\* Connections and builds.
Parties == {"c1", "c2", "s1", "s2", "s3"}

VARIABLES
    component,  \* the component this behaviour is of
    repos, remote, upstream, used, imagesCall, moves, calls,
    stored, credsSecret, credsCall, mu, credsIssued, credsFaults, ensured,
    sessions, conn, solve, creds, touched,
    records, listen, reads,
    pc, ctx, open, collector, cancelled, listening, results, expired, aborted, failed, request,
    bundle, address, files, temps, proc, hostsFaults, kills,
    file, caSecret, tls, deployed, caCmd, minted, caStops,
    ns, labelled, leaves, containers, cache, tenCmd, tenIssued, tenStops,
    tenant, store, version, acked, valuesCmd

\* Four calls of a client on one repository; the upstream tag may move.
Images == INSTANCE ImageStore WITH
    Clients <- {"c"}, Ops <- {"pull", "tag", "push", "delete", "prune", "run"},
    Repos <- {"r1"}, Tags <- {"v1", "v2"}, Indexes <- {"index"}, Manifests <- DOMAIN Content,
    Kids <- [i \in {"index"} |-> <<"amd", "arm", "att">>], Layers <- Content,
    Platform <- PlatformOf,
    For <- [m \in DOMAIN Content |-> IF m = "att" THEN "amd" ELSE Vacant],
    Platforms <- {"amd64", "arm64"}, Default <- "amd64", MaxMoves <- 1, MaxCalls <- 4,
    None <- Vacant, call <- imagesCall

\* Three calls on two repositories.
Repositories == INSTANCE ImageStore WITH
    Clients <- {"c"}, Ops <- {"pull", "tag", "delete", "prune", "run"}, Repos <- {"r1", "r2"},
    Tags <- {"v1", "v2"}, Indexes <- {"index"}, Manifests <- DOMAIN Content,
    Kids <- [i \in {"index"} |-> <<"amd", "arm", "att">>], Layers <- Content,
    Platform <- PlatformOf,
    For <- [m \in DOMAIN Content |-> IF m = "att" THEN "amd" ELSE Vacant],
    Platforms <- {"amd64", "arm64"}, Default <- "amd64", MaxMoves <- 0, MaxCalls <- 3,
    None <- Vacant, call <- imagesCall

\* Two pulls at the same time.
Pulls == INSTANCE ImageStore WITH
    Clients <- {"c", "d"}, Ops <- {"pull", "tag"}, Repos <- {"r1"}, Tags <- {"v1", "v2"},
    Indexes <- {"index"}, Manifests <- DOMAIN Content,
    Kids <- [i \in {"index"} |-> <<"amd", "arm", "att">>], Layers <- Content,
    Platform <- PlatformOf,
    For <- [m \in DOMAIN Content |-> IF m = "att" THEN "amd" ELSE Vacant],
    Platforms <- {"amd64", "arm64"}, Default <- "amd64", MaxMoves <- 1, MaxCalls <- 1,
    None <- Vacant, call <- imagesCall

\* Two creations in one process.
Creds == INSTANCE PullCredentials WITH
    Callers <- {h1, h2}, ProcessOf <- [c \in {h1, h2} |-> "dink"], MaxFaults <- 2,
    MaxIssues <- 4, secret <- credsSecret, call <- credsCall, issued <- credsIssued,
    faults <- credsFaults

\* A client that reconnects under its UUID, its two builds, and one of another identity.
Builds == INSTANCE BuildSessions WITH
    Conns <- {"c1", "c2"}, Solves <- {"s1", "s2", "s3"}, Repos <- {"r1", "r2"},
    Uuid <- [x \in Parties |-> "u"],
    Tenant <- [x \in Parties |-> IF x = "s3" THEN "other" ELSE "one"],
    Names <- [s \in Parties |-> IF s = "s1" THEN {"r1"} ELSE {"r2"}], Lifetime <- 2,
    Margin <- 1, None <- Vacant

\* A client lists two of its references with a limit of one; all else is built
\* by another.
History == INSTANCE BuildHistory WITH
    Ids <- {"a", "b"}, Foreign <- "b", Refs <- {"x", "y"}, Contents <- {}, Listeners <- {"l"},
    Readers <- {}, Client <- [z \in {"l"} |-> "a"], Wants <- [z \in {"l"} |-> {"x", "y"}],
    Limit <- [z \in {"l"} |-> 1]

\* A client reads content.
Reading == INSTANCE BuildHistory WITH
    Ids <- {"a", "b"}, Foreign <- "foreign", Refs <- {"x", "y"}, Contents <- {"d"},
    Listeners <- {}, Readers <- {"r"}, Client <- [z \in {"r"} |-> "a"],
    Wants <- [z \in {"r"} |-> "d"], Limit <- [z \in {} |-> 1]

Registry == INSTANCE RegistryProcess WITH
    Requests <- {1, 2}

Node == INSTANCE NodeHosts WITH
    MaxRotations <- 2, MaxFaults <- 3, MaxKills <- 2, Addresses <- {1, 2},
    faults <- hostsFaults

\* Two hosts in turn, with torn writes and a CA that is lost.
CA == INSTANCE Authority WITH
    Hosts <- {h1, h2}, Services <- <<"dink", "dinki">>,
    Ops <- {"install", "upgrade", "rotate", "issue", "pull", "push", "generate"},
    Together <- FALSE, Faults <- TRUE, MaxCA <- 2, MaxStops <- 2, secret <- caSecret,
    cmd <- caCmd, stops <- caStops

\* Two hosts at the same time.
Ten == INSTANCE Tenants WITH
    Hosts <- {h1, h2}, Clients <- {"default"}, Tenant <- "t", Foreign <- "f",
    Ops <- {"create tenant", "delete tenant", "create client", "delete client", "sync client", "issue plugin"},
    MaxCerts <- 1, MaxStops <- 1, cmd <- tenCmd, issued <- tenIssued, stops <- tenStops

\* Two operators set values of one tenant.
Vals == INSTANCE TenantValues WITH
    Operators <- {h1, h2}, Keys <- {"k1", "k2"}, Values <- {"v", "w"}, MaxVersion <- 3,
    cmd <- valuesCmd

imagesVars == <<repos, remote, upstream, used, imagesCall, moves, calls>>
credsVars == <<stored, credsSecret, credsCall, mu, credsIssued, credsFaults, ensured>>
buildsVars == <<sessions, conn, solve, creds, touched>>
historyVars == <<records, listen, reads>>
registryVars == <<pc, ctx, open, collector, cancelled, listening, results, expired, aborted,
                  failed, request>>
hostsVars == <<bundle, address, files, temps, proc, hostsFaults, kills>>
caVars == <<file, caSecret, tls, deployed, caCmd, minted, caStops>>
tenVars == <<ns, labelled, leaves, containers, cache, tenCmd, tenIssued, tenStops>>
valuesVars == <<tenant, store, version, acked, valuesCmd>>
vars == <<component, imagesVars, credsVars, buildsVars, historyVars, registryVars, hostsVars,
          caVars, tenVars, valuesVars>>

Components == {"images", "repositories", "pulls", "credentials", "builds", "history",
               "content", "registry", "hosts", "authority", "tenants", "values"}

Init ==
    /\ component \in Components
    /\ CASE component = "images" -> Images!Init
         [] component = "repositories" -> Repositories!Init
         [] component = "pulls" -> Pulls!Init
         [] OTHER -> /\ repos = Off /\ remote = Off /\ upstream = Off /\ used = Off
                     /\ imagesCall = Off /\ moves = Off /\ calls = Off
    /\ IF component = "credentials" THEN Creds!Init
       ELSE /\ stored = Off /\ credsSecret = Off /\ credsCall = Off /\ mu = Off
            /\ credsIssued = Off /\ credsFaults = Off /\ ensured = Off
    /\ IF component = "builds" THEN Builds!Init
       ELSE sessions = Off /\ conn = Off /\ solve = Off /\ creds = Off /\ touched = Off
    /\ CASE component = "history" -> History!Init
         [] component = "content" -> Reading!Init
         [] OTHER -> records = Off /\ listen = Off /\ reads = Off
    /\ IF component = "registry" THEN Registry!Init
       ELSE /\ pc = Off /\ ctx = Off /\ open = Off /\ collector = Off /\ cancelled = Off
            /\ listening = Off /\ results = Off /\ expired = Off /\ aborted = Off
            /\ failed = Off /\ request = Off
    /\ IF component = "hosts" THEN Node!Init
       ELSE /\ bundle = Off /\ address = Off /\ files = Off /\ temps = Off /\ proc = Off
            /\ hostsFaults = Off /\ kills = Off
    /\ IF component = "authority" THEN CA!Init
       ELSE /\ file = Off /\ caSecret = Off /\ tls = Off /\ deployed = Off /\ caCmd = Off
            /\ minted = Off /\ caStops = Off
    /\ IF component = "tenants" THEN Ten!Init
       ELSE /\ ns = Off /\ labelled = Off /\ leaves = Off /\ containers = Off /\ cache = Off
            /\ tenCmd = Off /\ tenIssued = Off /\ tenStops = Off
    /\ IF component = "values" THEN Vals!Init
       ELSE tenant = Off /\ store = Off /\ version = Off /\ acked = Off /\ valuesCmd = Off

Next ==
    /\ UNCHANGED component
    /\ CASE component = "images" -> Images!Next
         [] component = "repositories" -> Repositories!Next
         [] component = "pulls" -> Pulls!Next
         [] OTHER -> UNCHANGED imagesVars
    /\ IF component = "credentials" THEN Creds!Next ELSE UNCHANGED credsVars
    /\ IF component = "builds" THEN Builds!Next ELSE UNCHANGED buildsVars
    /\ CASE component = "history" -> History!Next
         [] component = "content" -> Reading!Next
         [] OTHER -> UNCHANGED historyVars
    /\ IF component = "registry" THEN Registry!Next ELSE UNCHANGED registryVars
    /\ IF component = "hosts" THEN Node!Next ELSE UNCHANGED hostsVars
    /\ IF component = "authority" THEN CA!Next ELSE UNCHANGED caVars
    /\ IF component = "tenants" THEN Ten!Next ELSE UNCHANGED tenVars
    /\ IF component = "values" THEN Vals!Next ELSE UNCHANGED valuesVars

Spec == Init /\ [][Next]_vars

\* Hosts, operators and callers are interchangeable.
Symmetry == Permutations({h1, h2})

\* The instances satisfy what the proofs assume of the constants.
ASSUME ClusterConstants == Node!ConstantsOK /\ Creds!OneProcess /\ Builds!Sane

-----------------------------------------------------------------------------
\* Every tag, at every moment, names an image with all the content of one
\* platform, the image a workload is pinned to keeps its content, and a tag
\* in the external registry names complete content (pull, TagImage,
\* ImageDelete, pushTag). A blob that is removed is referenced by no manifest
\* left (ImageDelete).
ImagesSafe ==
    /\ [](/\ component = "images" =>
                /\ Images!TypeOK /\ Images!TagsUsable /\ Images!UsedUsable
                /\ Images!RemoteComplete
          /\ component = "repositories" =>
                /\ Repositories!TypeOK /\ Repositories!TagsUsable
                /\ Repositories!UsedUsable
          /\ component = "pulls" => Pulls!TypeOK /\ Pulls!TagsUsable)
    /\ [][/\ component = "images" => Images!RemovedUnreferenced
          /\ component = "repositories" => Repositories!RemovedUnreferenced]_vars

\* Once a creation has gone on, no later one leaves nodes with a password
\* dinki does not accept (ensurePullSecret), and a credential that dinki
\* accepts is reused (IssuePullCredential).
CredentialsSafe ==
    /\ [](component = "credentials" => Creds!TypeOK /\ Creds!AuthStays)
    /\ [][component = "credentials" => Creds!ValidReused]_vars

\* A session runs one build at a time, of its own identity; a registered
\* session is a live connection; a running build's credential has not
\* expired, and the registry serves a build only repositories it named and
\* nothing after its credential was revoked (Solve, handleSession, getBridge,
\* authorizeBuild). A client hears of its own builds only, other clients'
\* records take no part in a listing's limit, and content is served only
\* while a record of the client refers to it (ListenBuildHistory).
BuildsSafe ==
    /\ [](/\ component = "builds" =>
                /\ Builds!TypeOK /\ Builds!OneBuildPerSession /\ Builds!RegisteredIsOpen
                /\ Builds!OwnSession /\ Builds!CredentialOutlivesBuild
          /\ component = "history" =>
                History!TypeOK /\ History!OwnHistory /\ History!LimitCountsOwn
          /\ component = "content" => Reading!TypeOK /\ Reading!ServedFromOwn)
    /\ [][component = "builds" => Builds!ServedWhileBuilding]_vars

\* The collector and, until the shutdown's time is over, every request has
\* its stores; dinki leaves no store, listener or collector behind and ends
\* without an error only when told to end (newBackend, serve, serveAll).
RegistrySafe ==
    component = "registry" =>
       /\ Registry!TypeOK /\ Registry!CollectorHasStores /\ Registry!RequestHasStores
       /\ Registry!EndsClean /\ Registry!EndsForAReason

\* The runtime never reads half a file, hosts.toml is there only with the CA
\* it names, the node listens as the runtime is configured, and temporary
\* files are removed, whatever fails (replaceFile, writeHostsConfig,
\* serveNode).
HostsSafe ==
    component = "hosts" =>
       /\ Node!TypeOK /\ Node!WholeFiles /\ Node!NamedCAExists
       /\ Node!ListensAsConfigured /\ Node!TempsAreRemoved

\* A release that is reported ready has certificates of the cluster's CA; an
\* install or upgrade replaces no CA and no certificate, and gives no cluster
\* a CA that did not issue its certificates (prepareInstallation).
AuthoritySafe ==
    /\ [](component = "authority" => CA!TypeOK /\ CA!ReadyIsTrusted)
    /\ [][component = "authority" => CA!InstallPreserves /\ CA!NoSecondCA]_vars

\* dinkle neither deletes nor takes over a namespace that is no tenant's
\* (Manager.Get). A value reported as set stays set while others are changed,
\* and a Secret of the store's name that dinkle did not make is left alone
\* (SetSecret).
TenantsSafe ==
    /\ [](/\ component = "tenants" => Ten!TypeOK /\ Ten!SparesForeign
          /\ component = "values" => Vals!TypeOK /\ Vals!AckedStays)
    /\ [][component = "values" => Vals!ForeignKept]_vars
=============================================================================
