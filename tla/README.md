# A TLA+ model of dink

dink answers the Docker API on top of Kubernetes: a container is a Deployment
with at most one replica (or a Job for `--rm`), its names are Services, its
networks are labels and NetworkPolicies, its volumes are claims. dinki stores a
tenant's images and runs builds, dinkle installs and administers both. This
directory models them in TLA+, checks the models with TLC on small instances,
and proves what matters most of the core with TLAPS for every instance.

Source paths are relative to the repository; `T/` stands for
`core/translator/`.

## The system and its modules

An API call runs in a goroutine of the dink process. It finds its container by
name or ID, takes the container's lock (`lockContainer`) and, for anything that
claims a name, `containerNameMu`; it reads and writes Kubernetes objects one
request at a time, each of which may fail. Kubernetes' controllers, kubelets and
garbage collector act on these objects later and on their own. dink runs one
replica that is replaced by a rolling update (`deploy/`), so two processes with
mutexes of their own may overlap, and a process may die between any two steps.

| Part | Source | Module |
|---|---|---|
| Container locks | `T/container_lock.go` | `ContainerLock`; what it promises: `ContainerMutex` |
| Lifecycle of Deployments | `T/container_lifecycle.go`, `T/container_workload.go` | `ContainerLifecycle` |
| Names, aliases, creation | `T/container_name.go`, `T/container_aliases.go`, `T/container_create.go` | `ContainerNames` |
| `--rm` containers, `ContainerWait` | `T/container_lifecycle.go` | `OneShotContainers` |
| Lookup, list, prune | `T/container_list.go`, `T/container_prune.go` | `ContainerListing` |
| What a container runs with | `T/container_create.go`, `T/container_env.go`, `T/container.go` | `ContainerConfig`, `ContainerResources`, `PublishedPorts` |
| Networks | `T/network*.go` | `Networks` |
| Volumes | `T/volume*.go`, `T/container_volumes.go` | `Volumes` |
| Exec, attach | `T/container_exec.go`, `T/container_attach.go` | `ExecSessions`, `AttachSessions` |
| Events, logs, stats | `T/events.go`, `T/container_logs.go`, `T/container_stats.go` | `Events`, `LogStreams`, `ContainerStats` |
| Plugins, their requests, their SDK | `core/plugins/`, `core/auth/`, `sdk/plugin/` | `PluginHealth`, `PluginRequests`, `PluginServe` |
| Images | `core/registry/` | `ImageStore` |
| Pull credentials | `core/registry/pullauth/`, `T/container_create.go` | `PullCredentials` |
| Builds and their credentials | `core/buildkit/`, `core/registry/pullauth/build.go` | `BuildSessions`, `BuildHistory` |
| The dinki process, the node command | `cmd/dinki/command/` | `RegistryProcess`, `NodeHosts` |
| dinkle | `cmd/dinkle/` | `Authority`, `Tenants`, `TenantValues` |
| Swarm | `T/swarm*.go` | `SwarmServices`, `SwarmTasks`, `SwarmObjects`, `SwarmNodes`, `SwarmSpec`, `SwarmPlacement` |

In every module a variable is state of the process, of Kubernetes or of a
client, and an action is one step of a handler: what happens between two
requests to Kubernetes, or under one mutex, is one step, and what another call
can come between is two. `PROJECT.json` maps every definition to its lines.
What is outside the repository (controllers, BuildKit, the upstream registry)
is modelled by what the code relies on and no more.

### The core, in more detail

`ContainerLock` has one action per step of `lockContainer`: the first lookup
(`Find`), the registration under `containerLocksMu` (`Register`), the select
between the token and the context (`Acquire`, `Cancel`), the second lookup
(`Recheck`, `RecheckFails`), the operation (`Finish`), and the two halves of
`unlock`. A lock object is identified by the call that allocated it, so a table
entry that was deleted and made again is another object. `ContainerMutex` is
the abstract promise, at most one operation per workload; `ImplementsMutex`
states the refinement, and `ContainerLifecycle` uses the mutex.

`ContainerLifecycle` has the containers of one object name, one after the
other: the Deployment with its generation and the status last written, and the
ReplicaSet and Pods of each UID. The controllers lag behind; they keep the order
Kubernetes guarantees (`Recreate` brings a new template up only when no old Pod
is active) and no more. A call locks, scales down, does the two reads of
`waitContainerStopped`, scales up or deletes; it may fail anywhere, and the
process may restart.

`ContainerNames` has the workloads (name, object name and alias annotations)
and the Services that claim names. The checks of `ensureContainerNameAvailable`,
the object name, the workload and the Service of a create are steps of their
own, as are reserve, commit, mark and clean-up of a rename and the loops of
`applyAliasServices`. A clean-up may stop half way, the undo of a create may
fail, and each process has its own locks. Left out: the network labels of the
Pod template, published-ports Services, and a legacy case of
`applyAliasServices` that no code of this version produces.

`Networks` has the network objects, their policies, the default-deny policy and
the labels of containers. A container is its UID: once removed it never comes
back, and one created later under the name is another, because the code locks
and updates workloads by UID. `attached` records, for each deletion or prune,
the containers that were attached when it looked and have not left since.

`PullCredentials` follows `ensurePullSecret` of several creations: the Secret
and dinki's stored hash are read and written in separate requests, under
`pullSecretMu` in one process. `BuildSessions` follows client connections, the
bridge, `Solve` and the registry credential of a build; time is what is left of
a deadline.

## The runs

A composite module (`MCContainers`, `MCDaemon`, `MCCluster`, `MCSwarm`,
`MCProgress`) instantiates components that do not share state. The variable
`component` says which of them a behaviour is of; the variables of the others
are `Off`, or stay as they begin. A property of a composite is the conjunction
of the named properties of its components, and each of those is stated and
explained in the component's module.

| Run | Instance | Shows |
|---|---|---|
| `lock_table` | 3 calls, a container and its replacement, name and ID | exclusion, exact use counts, operations start only on the current workload, the mutex is implemented |
| `lifecycle_ops` | 3 calls of start, stop, kill, restart, update; 1 eviction | Pods never overlap; the inductive invariant of the proofs |
| `lifecycle_replace` | 3 calls of start, stop, rm, create; 2 UIDs; deletion from outside | no workload has two Pods, a removal spares a running container, nobody changes what it has not locked |
| `replace_overlap` | 4 calls of start, rm --force, create | a violation, below |
| `names_one` | 1 process, 3 calls of any kind, 2 containers, 2 names | names keep resolving; a success means the Services are as promised |
| `names_race` | 2 processes, 3 calls of create and rename | a violation, below |
| `containers` | networks, volumes, one-shot containers, listing, configuration, resources, ports | what is checked before a deletion still holds when it counts; a container runs with what was asked |
| `daemon` | exec, attach, events, logs, stats, plugins, the SDK | streams are in order and end as their containers did; nobody talks to a container that is gone; every plugin is asked |
| `cluster` | images, credentials, builds, history, dinki's process, nodes, the CA, tenants | tags stay usable, credentials outlive builds, commands that stop anywhere leave what the next can use |
| `swarm` | services, tasks, objects, nodes, specs, placement | attempts that fail between objects converge; what was found is what is changed |
| `progress_calls` | locks, names, waits, exec, attach, events, logs, credentials, ports | calls and streams end |
| `progress_processes` | lifecycle, builds, processes, commands, plugins, tasks, updates | operations, processes and commands finish; what failed recovers |

The bounds are the least at which the interesting cases happen, and stand with
each instance. Three calls on a container give one that operates, one that
waits and one that comes between a release and what follows it; a second UID is
the replacement under a name; two names and two containers give every conflict
between a name and an alias; two hosts, clients or builds give every race
between a check and a write. Numbers are small where the code scales with them
(an `int32` of five bits, a second of two ticks), so that rounding and overflow
happen. Every request is one call; the other bounds are constants named `Max...`
in the guards. Symmetry is used in safety runs only, over sets whose members
the modules do not tell apart. Where the calls of an instance are used up the
system may stop, so the composite runs do not check for deadlock; the progress
runs show instead that nothing waits for ever.

### Fairness

A progress property has the form `Fairness => ...`, with the fairness of the
component's module. In all of them a goroutine that can take its next step
takes it, and no failure, cancellation, timeout, eviction, kill or deletion
from outside is assumed to happen. Beyond that:

* `ContainerLifecycle`, `ContainerNames`, `PublishedPorts`, `SwarmTasks`,
  `SwarmSpec`: Kubernetes' controllers, kubelets and garbage collector keep
  working. Locks need only weak fairness because the calls are finite in number.
* `SwarmTasks`: the client keeps polling.
* `LogStreams`: a read ends when its context does.
* `RegistryProcess`: nothing of requests, which may last for ever; the collector
  notices a context that stays cancelled (strong fairness of one branch of its
  `select`).
* `PluginServe`: `serveAll` and each goroutine it starts run, and `Shutdown`
  returns by its timeout.
* `AttachSessions`, `OneShotContainers`, `PluginHealth`: a goroutine that waits
  for a mutex others keep taking gets it in the end (strong fairness; Go's
  `sync.Mutex` hands over to a starving waiter). `Events`: so does a case of a
  `select` that is ready again and again.
* `PluginHealth`: requests that want the plugin keep coming.
* `BuildSessions`: `Solve` returns promptly once its context has ended, so
  time does not pass a running build's deadline.
* `NodeHosts`: the kubelet starts the process again and its ticker ticks.
* `Authority`, `Tenants`: an operator runs again the command that stopped, when
  no other is running, and its file writes are not torn then.

### Violation: a replacement may overlap

`replace_overlap` checks `NoOverlap`, which
`docs/docker-translation-contract.md:34` states: "ordinary container
replacements must stop first so database or file-lock holders do not overlap".
A container is started and force-removed before the ReplicaSet controller has
created its Pod. `waitContainerStopped` takes the missing Deployment for a
stopped controller (`T/container_lifecycle.go:243`) and finds no Pod, so the
removal returns. The name is used again, and the new container is started while
the ReplicaSet of the first, not yet collected, creates its Pod. Without
replacement under the name the property holds and is proved (`PodsExclude`).

### Violation: two processes, one name twice

`names_race` checks `UniqueNames`, which
`docs/docker-translation-contract.md:63` states: names "are unique within a
tenant". Two dink processes rename one container to the same name. The first
creates the Service that reserves it; the second finds the Service owned by the
workload and goes on without writing. The first one's commit fails and it
deletes the Service (`T/container_name.go:181`). A create of the name finds
neither a workload nor a Service of it and succeeds, and the second rename
commits. In one process the property holds and is proved (`NamesAreUnique`).

### Where the modules say less than the documents

The properties state what the code keeps. Some documents and comments promise
more, and no property here says that: a second client attached to a `--rm`
container may be answered 0 because the first one's wait removed the Job; a
network created again under its name may lose its allow policy to the garbage
collector (`T/network_policy.go:92`); the driver of an anonymous volume is not
told of its removal (`T/container_lifecycle.go:155`); an exit handled before
the container's own event is never a `die` (`T/events.go:230`); two processes
may leave nodes with a password dinki has replaced (`T/container_create.go:901`);
a Swarm update refused for its version may have written its env Secret
(`T/swarm_service.go:145`); `retainNodePorts` keys ports by number alone
(`T/swarm_service.go:969`); dinkle prefers a host's cached CA to the cluster's
(`cmd/dinkle/command/service.go:195`). The modules follow the code in this. Where
one of them would break a property, the instance of the run is restricted and
says so: one attached client, the creations of one process, hosts in turn.

## What is proved

Every theorem holds for any sets of calls, containers, names and so on, and any
value of the bounds. Each safety theorem follows from an inductive invariant
`IInv` (`Init => IInv`, and `IInv` is kept by `[Next]_vars` action by action),
which TLC checked first.

**`ContainerLockProofs`** (assuming a finite set of calls and null values that
are no members): `Exclusion`, `NoLeaks`, `StartsOnCurrent`, `Typing`, and
`Refinement`, by which the lock table implements `ContainerMutex`. Exclusion is
not inductive. `LockInv` adds that every registered call points at the object
its key's entry holds, that different keys have different objects, that an
object a call may still allocate is in no entry, that a token is taken exactly
by the one call between `Acquire` and `Unlock`, and that an entry counts exactly
its registered calls. The last is the heart: `Release` deletes an entry when the
count reaches zero, and only because the count is exact does no other call still
point at the object. In the refinement `Recheck` is `Enter`, `Finish` is
`Leave`, `ProcessRestarts` is `LeaveAll`, everything else a stutter.

**`ContainerLifecycleProofs`**: no workload ever has two active Pods
(`OwnPodsExclude`), nor a container that is not replaced (`PodsExclude`), a
start or restart scales up a workload without Pods (`ScalesUpStopped`), an
unforced removal spares a running container (`RemovalSparesRunning`), and only
the holder of a workload's lock changes it (`ChangesAreLocked`). The invariant
says what lagging controllers may still do: the ReplicaSet follows the
Deployment, a status that was observed was acted on, and what a call read under
the lock is still so at each step that relies on it (`ReadsHold`).

**`ContainerNamesProofs`**, for the calls of one process (`OneProcess`):
the Service of a container's name is its own (`NamesResolve`), names are unique
(`NamesAreUnique`), and a call that reports success has left the Services it
promises (`SuccessIsSynced`), after any history of failures. Neither is
inductive: a container resolves because of what calls in flight have and have
not done. The invariant has, for every step of a create, rename, connect, start
or removal, which Services the call owns by then (`ClaimOf`), which name it
works with (`NameOf`) and which aliases it has applied (`AliasOf`); that a UID
never comes back (`UidInv`); that one call has `containerNameMu` and one the
lock of a container (`LockInv`); and that a Service carries its owner's object
name (`AppInv`), by which clean-ups find what they delete. `OneProcess` is
needed: `names_race` is the counterexample without it.

**`Networks`**: no container exists before the default-deny policy
(`IsolationComesFirst`), a deletion or prune removes no network from under a
container that was attached when it looked and has stayed
(`EndpointsAreSpared`), and a container that connect reports connected is
connected at that moment (`ConnectionsHold`). The invariant says that a connect
or disconnect holds the lock of its container with a true reading of its
networks (`Holder`), through all the requests in which it lists networks and
creates missing ones, and that what a deletion found attached still is (`Spares`).

**`OneShotContainers`** (assuming that "no code" is no exit code): a wait
makes no exit code up, the client attached to a `--rm` container from before
its exit is told the code unless somebody stops or removes the container, or
waits for its removal too, and a stop or kill that succeeds has ended the
process for good (`OneShotIsSafe`). The invariant says that a Job that is going
never comes back (`Doomed`), what each call has already done to it
(`CallerAt`), and that a finished Job stays until the clients that were polling
have polled once more (`ReaderAt`), which is what `oneShotRemovalDelay` buys.
The last condition was found by the proof: with two clients waiting for the
removal, the slower one is told that the container is gone
(`T/container_lifecycle.go:409`).

**`PluginServe`** (assuming a number of servers): `Serve` returns the failure of
a server and nil only for a clean stop, and nobody serves after it
(`ServeIsSafe`). The heart is a count: an answer that was sent is in the channel
or was received, so that a drained `serveAll` has heard of every server.

**`ComponentProofs`** holds the proofs of six components, each an instance of
its module, where its invariant is defined.

`ExecSessions` (assuming that one call creates the exec): one client runs it
(`ExecRunsOnce`) and its exit code is final (`ExecCodeStays`), because `execMu`
makes the check and the mark of a start one step and the mark is taken back by
its owner only.

`PluginHealth` (assuming that "none" is no version, request or object): the
registry holds the version the informer told it of last, a status is written
only to the object whose plugin it describes, and an unreachable plugin is tried
once in every `retryAfter` (`HealthIsSafe`). A version reaches the registry
once, and stays while it is the object's (`Delivered`): no call in flight is
about a version that is still to come, whose Plugin `upsert` makes anew. The
call that handshakes has the Plugin's mutex, and no failure is recent (`CallAt`).

`TenantValues`: a value reported as set stays set (`ValuesStay`) and a foreign
Secret is left alone (`ForeignSecretsKept`). What a command read is the content
of its version (`ReadIsUsable`), so an update that is accepted loses nothing.

`PullCredentials`, for one process: once a creation has gone on, nodes keep
a password dinki accepts (`AuthIsKept`), and a valid one is never replaced
(`ValidIsReused`). The invariant says what the call inside `pullSecretMu` has
seen of the Secret and of dinki and that both are still so (`Seen`), although
they are written in two requests, either of which may fail.

`RegistryProcess` and `NodeHosts`: a collector and every request has its
stores, and dinki ends clean and for a reason (`StoresOutliveUsers`); the
runtime never reads half a file, a configuration names a CA that exists, and
temporary files are removed (`ConfigurationIsSafe`).

**`BuildSessions`** (assuming that the margin is positive and within the
lifetime, and that a build names repositories that exist): a session runs one
build at a time (`OneBuild`) of its own tenant and is a live connection
(`SessionsAreOwn`), a running build's credential has not expired
(`CredentialLasts`), and the registry serves a build the repositories it named
and nothing once the credential is revoked (`ServesNamed`). The invariant ties a
build to the session it claimed at every step from the claim to the release,
also when the connection under it is gone.

The hypotheses on constants are named in the modules (`...Assumption`,
`ConstantsOK`, `Sane`, `OneProcess`), and the runs evaluate them for their
instances. Proofs that are in no `...Proofs` module stand at the end of the
module they are about.

### What is only model-checked

Everything with fairness: all properties of the two progress runs. The prover
does neither liveness nor `ENABLED`. Properties that are about what a recursive
definition computes, or about sequences built step by step, need induction over
data, which the installed provers cannot instantiate: `LogStreams`, `Events`,
`ContainerConfig`, `ContainerListing`, `SwarmNodes` with the list filters, `SwarmObjects`
and the closure of manifests in `ImageStore`. `Volumes`, `AttachSessions`,
`Authority`, `Tenants`, `PluginRequests` and the other Swarm
modules are checked with TLC only, on the instances above.

## What is not modelled

HTTP and RPC plumbing, the routers, option parsing, the rendering of manifests
and of answers, progress output, generated code, and the bytes of streams. The
secrets resolver, the image front end of dink and the identity lookup keep no
state. Devices, security options and the spelling of mounts of a creation are
left out, as are the validation of frontend attributes and platform matching.
`PROJECT.json` lists every part with its status and, under `hazards`, what is
hard to test in the code with the properties that cover it or the reason that
none does.
