----------------------------- MODULE MCProgress -----------------------------
(***************************************************************************)
(* What must eventually happen, for TLC: one component at a time, under    *)
(* the fairness its module states, while the others stay as they begin.    *)
(***************************************************************************)
EXTENDS Integers, TLC

CONSTANTS
    Components,             \* the components a run is about
    h1, h2,                 \* two of a kind
    Vacant

VARIABLES
    component,  \* the component this behaviour is of
    cluster, binding, containerLocks, token, users, locksPc, ref, key, locksLock,
    job, pod, shotLock, wait, shotCall, unseen, exited, signals,
    phase, removed, entry, create, start, queue, execResize,
    attachBox, left, attach, table, sizes, attachMu, attachResize,
    eventsBox, eventsPods, spent, watched, fwd, out, client, told,
    pos, reader, tagger, merger, handler, done, logsFailed,
    stored, credsSecret, credsCall, credsMu, credsIssued, credsFaults, ensured,
    portRequest, portPc, workload, dns, published, policy, labels,
    registryPc, ctx, open, collector, registryCancelled, listening, results, expired, aborted,
    registryFailed, registryRequest,
    bundle, address, files, temps, proc, nodeFaults, kills,
    main, server, sent, closing, errc, serveCancelled,
    file, caSecret, tls, deployed, caCmd, minted, caStops,
    ns, labelled, leaves, containers, cache, tenCmd, tenIssued, tenStops,
    object, uids, seen, current, plugin, pluginCall, up, aborts,
    dep, sets, tasksPods, query, answer, tasksMade,
    part, spec, specMade, tasks, build,
    deployment, replicaSet, lifePods, lifeFresh, evictions, critical, op, lifePc, started,
    stopped, result,
    workloads, services, namesFresh, req,
    sessions, conn, solve, creds, touched

\* Three calls on one container.
Locks == INSTANCE ContainerLock WITH
    Requests <- {1, 2, 3}, Workloads <- {h1}, Refs <- {"name"}, NoWorkload <- Vacant,
    NoLock <- Vacant, pc <- locksPc, lock <- locksLock

\* A client attached to a --rm container, two other calls on it.
Shot == INSTANCE OneShotContainers WITH
    Waiters <- {h1}, Callers <- {h2, 1}, ExitCodes <- {0}, Free <- Vacant, NoCode <- Vacant,
    lock <- shotLock, call <- shotCall

\* Two starts of an exec and two resizes.
Exec == INSTANCE ExecSessions WITH
    Creators <- {1}, Starters <- {h1, h2}, Resizers <- {1, 2}, Pods <- {"own"},
    ExitCodes <- {0}, None <- Vacant, resize <- execResize

\* A session and two resizes.
Attach == INSTANCE AttachSessions WITH
    Sessions <- {h1}, Resizers <- {1, 2}, Free <- Vacant, MaxRuns <- 1, box <- attachBox,
    mu <- attachMu, resize <- attachResize

\* A subscriber, a container and a volume.
Ev == INSTANCE Events WITH
    Pods <- {1}, Containers <- {h1}, MaxRuns <- 1, MaxVols <- 1, MaxQueue <- 1, MaxOther <- 0,
    Cap <- 1, None <- Vacant, box <- eventsBox, pods <- eventsPods

\* Two Pods of a line each.
Logs == INSTANCE LogStreams WITH
    Pods <- {h1, h2}, Lines <- 1, Until <- 1, Fail <- TRUE, failed <- logsFailed

\* Two creations in one process.
Creds == INSTANCE PullCredentials WITH
    Callers <- {h1, h2}, ProcessOf <- [c \in {h1, h2} |-> "dink"], MaxFaults <- 1,
    MaxIssues <- 3, secret <- credsSecret, call <- credsCall, mu <- credsMu,
    issued <- credsIssued, faults <- credsFaults

\* A create that publishes a port or joins a network.
Port == INSTANCE PublishedPorts WITH
    PortNumbers <- {1}, HostPorts <- {0}, MaxBindings <- 1, NodePorts <- {30},
    Networks <- {"n"}, None <- Vacant, request <- portRequest, pc <- portPc

\* A request that may never end.
Registry == INSTANCE RegistryProcess WITH
    Requests <- {1}, pc <- registryPc, cancelled <- registryCancelled,
    failed <- registryFailed, request <- registryRequest

Node == INSTANCE NodeHosts WITH
    MaxRotations <- 1, MaxFaults <- 2, MaxKills <- 1, Addresses <- {1, 2}, faults <- nodeFaults

\* The plugin's server and the health server.
Serve == INSTANCE PluginServe WITH
    N <- 2, cancelled <- serveCancelled

\* Installs from two hosts, in turn, that stop anywhere.
CA == INSTANCE Authority WITH
    Hosts <- {h1, h2}, Services <- <<"dink", "dinki">>, Ops <- {"install"}, Together <- FALSE,
    Faults <- FALSE, MaxCA <- 4, MaxStops <- 3, secret <- caSecret, cmd <- caCmd,
    stops <- caStops

\* Commands of one host that stop anywhere.
Ten == INSTANCE Tenants WITH
    Hosts <- {h1}, Clients <- {"default"}, Tenant <- "t", Foreign <- "f",
    Ops <- {"create tenant", "delete tenant", "create client", "delete client"}, MaxCerts <- 1,
    MaxStops <- 2, cmd <- tenCmd, issued <- tenIssued, stops <- tenStops

\* A plugin that is up and down.
Health == INSTANCE PluginHealth WITH
    Requests <- {h1}, MaxUid <- 1, MaxGeneration <- 1, MaxAborts <- 1, None <- Vacant,
    call <- pluginCall

\* Two rollouts and a removal.
Tasks == INSTANCE SwarmTasks WITH
    Templates <- {"t1", "t2"}, MaxRollouts <- 2, MaxPods <- 2, MaxFails <- 0,
    Recreates <- TRUE, pods <- tasksPods, made <- tasksMade

\* Rolling updates of up to three tasks.
Specified == INSTANCE SwarmSpec WITH
    Top <- 1, Milli <- 1, MaxReplicas <- 3, Largest <- 4, MaxMounts <- 0, MaxAttempts <- 1,
    made <- specMade

\* Two operations on a container and its replacement.
Life == INSTANCE ContainerLifecycle WITH
    Requests <- {1, 2}, Uids <- {h1, h2},
    Ops <- {"start", "stop", "kill", "restart", "update", "rm", "rmForce", "create"},
    MaxEvictions <- 0, OutsideDeletes <- TRUE, NoUid <- Vacant, NoDeployment <- Vacant,
    NoReplicaSet <- Vacant, pods <- lifePods, fresh <- lifeFresh, pc <- lifePc

\* Two calls on a container and two names.
Naming == INSTANCE ContainerNames WITH
    Requests <- {1, 2}, Processes <- {"dink"}, Uids <- {h1}, Names <- {"n1", "n2"},
    Ops <- {"create", "rename", "connect", "disconnect", "start", "rm"}, UndoFails <- TRUE,
    NoUid <- Vacant, NoName <- Vacant, NoWorkload <- Vacant, NoService <- Vacant, fresh <- namesFresh

\* Two builds on one session.
Builds == INSTANCE BuildSessions WITH
    Conns <- {"c"}, Solves <- {"s1", "s2"}, Repos <- {"r"},
    Uuid <- [x \in {"c", "s1", "s2"} |-> "u"], Tenant <- [x \in {"c", "s1", "s2"} |-> "one"],
    Names <- [s \in {"s1", "s2"} |-> {"r"}], Lifetime <- 2, Margin <- 1, None <- Vacant

locksVars == <<cluster, binding, containerLocks, token, users, locksPc, ref, key, locksLock>>
shotVars == <<job, pod, shotLock, wait, shotCall, unseen, exited, signals>>
execVars == <<phase, removed, entry, create, start, queue, execResize>>
attachVars == <<attachBox, left, attach, table, sizes, attachMu, attachResize>>
eventsVars == <<eventsBox, eventsPods, spent, watched, fwd, out, client, told>>
logsVars == <<pos, reader, tagger, merger, handler, done, logsFailed>>
credsVars == <<stored, credsSecret, credsCall, credsMu, credsIssued, credsFaults, ensured>>
portVars == <<portRequest, portPc, workload, dns, published, policy, labels>>
registryVars == <<registryPc, ctx, open, collector, registryCancelled, listening, results,
                  expired, aborted, registryFailed, registryRequest>>
nodeVars == <<bundle, address, files, temps, proc, nodeFaults, kills>>
serveVars == <<main, server, sent, closing, errc, serveCancelled>>
caVars == <<file, caSecret, tls, deployed, caCmd, minted, caStops>>
tenVars == <<ns, labelled, leaves, containers, cache, tenCmd, tenIssued, tenStops>>
pluginVars == <<object, uids, seen, current, plugin, pluginCall, up, aborts>>
tasksVars == <<dep, sets, tasksPods, query, answer, tasksMade>>
specVars == <<part, spec, specMade, tasks, build>>
lifeVars == <<deployment, replicaSet, lifePods, lifeFresh, evictions, critical, op, lifePc,
              started, stopped, result>>
namesVars == <<workloads, services, namesFresh, req>>
buildsVars == <<sessions, conn, solve, creds, touched>>
vars == <<component, locksVars, shotVars, execVars, attachVars, eventsVars, logsVars,
          credsVars, portVars, registryVars, nodeVars, serveVars, caVars, tenVars, pluginVars,
          tasksVars, specVars, lifeVars, namesVars, buildsVars>>

Init ==
    /\ component \in Components
    /\ Locks!Init
    /\ Shot!Init
    /\ Exec!Init
    /\ Attach!Init /\ (component # "attach" => ~left /\ ~attachBox.tty /\ ~attachBox.autoRemove)
    /\ Ev!Init
    /\ Logs!Init
    /\ Creds!Init
    /\ Port!Init /\ (component # "ports" => portRequest = CHOOSE r \in Port!NetworkRequests : TRUE)
    /\ Registry!Init
    /\ Node!Init /\ (component # "hosts" => address = 1)
    /\ Serve!Init
    /\ CA!Init
    /\ Ten!Init
    /\ Health!Init
    /\ Tasks!Init
    /\ Specified!Init /\ (component # "spec" => part = "build")
    /\ component = "spec" => part = "update"
    /\ Life!Init /\ (component # "lifecycle" => deployment = Vacant /\ op = [r \in {1, 2} |-> "create"])
    /\ Naming!Init /\ (component # "names" => workloads = [u \in {h1} |-> Vacant])
    /\ Builds!Init

Next ==
    /\ UNCHANGED component
    /\ IF component = "locks" THEN Locks!Next ELSE UNCHANGED locksVars
    /\ IF component = "oneshot" THEN Shot!Next ELSE UNCHANGED shotVars
    /\ IF component = "exec" THEN Exec!Next ELSE UNCHANGED execVars
    /\ IF component = "attach" THEN Attach!Next ELSE UNCHANGED attachVars
    /\ IF component = "events" THEN Ev!Next ELSE UNCHANGED eventsVars
    /\ IF component = "logs" THEN Logs!Next ELSE UNCHANGED logsVars
    /\ IF component = "credentials" THEN Creds!Next ELSE UNCHANGED credsVars
    /\ IF component = "ports" THEN Port!Next ELSE UNCHANGED portVars
    /\ IF component = "registry" THEN Registry!Next ELSE UNCHANGED registryVars
    /\ IF component = "hosts" THEN Node!Next ELSE UNCHANGED nodeVars
    /\ IF component = "serve" THEN Serve!Next ELSE UNCHANGED serveVars
    /\ IF component = "authority" THEN CA!Next ELSE UNCHANGED caVars
    /\ IF component = "tenants" THEN Ten!Next ELSE UNCHANGED tenVars
    /\ IF component = "plugins" THEN Health!Next ELSE UNCHANGED pluginVars
    /\ IF component = "tasks" THEN Tasks!Next ELSE UNCHANGED tasksVars
    /\ IF component = "spec" THEN Specified!Next ELSE UNCHANGED specVars
    /\ IF component = "lifecycle" THEN Life!Next ELSE UNCHANGED lifeVars
    /\ IF component = "names" THEN Naming!Next ELSE UNCHANGED namesVars
    /\ IF component = "builds" THEN Builds!Next ELSE UNCHANGED buildsVars

Spec == Init /\ [][Next]_vars

-----------------------------------------------------------------------------
\* Every call returns: one that waits for a container's lock or for
\* containerNameMu (lockContainer, container_name.go), a wait for a process
\* that has exited (ContainerWait), a resize of an exec while its command
\* runs (ContainerExecResize), an ensurePullSecret, and what a create that
\* fails has made is gone (deleteWorkload, owner references).
CallsReturn ==
    /\ component = "locks" /\ Locks!Fairness => Locks!EveryCallReturns
    /\ component = "names" /\ Naming!Fairness => Naming!EveryCallReturns
    /\ component = "oneshot" /\ Shot!Fairness => Shot!WaitsEnd
    /\ component = "exec" /\ Exec!Fairness => Exec!ResizeDelivered
    /\ component = "credentials" /\ Creds!Fairness => Creds!CallEnds
    /\ component = "ports" /\ Port!Fairness => Port!FailedLeavesNothing

\* Every stream ends: an attach once its container is removed, with the
\* resizes that queue for it (ContainerAttach, ContainerResize); a
\* subscription whose client went away or whose watches were closed
\* (sendDockerEvent, SubscribeToEvents); every goroutine of a request for
\* logs (podLogs, mergeLogStreams).
StreamsEnd ==
    /\ component = "attach" /\ Attach!Fairness =>
          Attach!AttachEnds /\ Attach!ResizeReturns
    /\ component = "events" /\ Ev!Fairness =>
          Ev!ForwarderEnds /\ Ev!ResponseEnds
    /\ component = "logs" /\ Logs!Fairness => Logs!NoneLeft

\* Every operation that holds the lock of a container returns, without its
\* timeout (waitContainerStopped).
OperationsReturn ==
    /\ component = "lifecycle" /\ Life!Fairness => Life!OperationsReturn

\* Told to stop, dinki ends even when a request never does (serveAll,
\* collectGarbage); a plugin that is cancelled, or a server of which failed,
\* returns and leaves no goroutine (errc's capacity); every build ends, at
\* its deadline at the latest, and frees its session (Solve).
ProcessesEnd ==
    /\ component = "registry" /\ Registry!Fairness => Registry!Stops
    /\ component = "serve" /\ Serve!Fairness =>
          Serve!Stops /\ Serve!GoroutinesEnd
    /\ component = "builds" /\ Builds!Fairness => Builds!SolveEnds

\* What was interrupted is completed by running it again: the node's files
\* have the CA and the address in the end (serveNode), an installation
\* (prepareInstallation), the deletion of a client (DeleteClient).
CommandsComplete ==
    /\ component = "hosts" /\ Node!Fairness => Node!Settles
    /\ component = "authority" /\ CA!Fairness => CA!RerunCompletes
    /\ component = "tenants" /\ Ten!Fairness => Ten!DeleteClientCompletes

\* A plugin that answers again, while requests want it, is ready again for
\* good (ensureReady, Observe); the tasks shown become the Pods that run the
\* current spec (tasks, currentTemplateHashes); every accepted update ends
\* with the new version everywhere (serviceStrategy).
ClusterConverges ==
    /\ component = "plugins" /\ Health!Fairness => Health!Recovers
    /\ component = "tasks" /\ Tasks!Fairness => Tasks!Converges
    /\ component = "spec" /\ Specified!Fairness => Specified!UpdateCompletes
=============================================================================
