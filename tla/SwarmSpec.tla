----------------------------- MODULE SwarmSpec -----------------------------
(***************************************************************************)
(* What buildService (swarm_service.go) makes of a service's spec: the     *)
(* resources, the settings, the mounts and the update strategy, and the    *)
(* order in which it makes what the Deployment refers to.  These do not    *)
(* depend on each other, so a behaviour is about one of them.              *)
(***************************************************************************)
EXTENDS Integers, Sequences, FiniteSets, SequencesExt

CONSTANTS
    Top,              \* bound: amounts of a resource
    Milli,            \* CPU units in a millicore
    MaxReplicas,      \* bound: replicas
    Largest,          \* the largest int32
    MaxMounts,        \* bound: mounts of a spec, and the secrets and configs
    MaxAttempts       \* bound: times a client creates the service

VARIABLES part, spec,
          made,       \* what was made of the spec; Nothing before
          tasks,      \* [old, new, ready]: tasks of each version, new ones that are ready
          build       \* [step, attempts, objects]: where buildService is, what exists

vars == <<part, spec, made, tasks, build>>

Nothing == [done |-> FALSE]
Refused == [done |-> TRUE, ok |-> FALSE]
NoTasks == [old |-> 0, new |-> 0, ready |-> 0]
NoBuild == [step |-> 0, attempts |-> 0, objects |-> {}]
Accepted(p) == part = p /\ made.done /\ made.ok

-----------------------------------------------------------------------------
(* Resources.  0 is an amount that is not asked for, or has no default.     *)

Unparseable == -1

Resources ==
    [name : {"cpu", "memory"}, limit : -1..Top, reservation : -1..Top,
     extra : {"none", "pids limit", "generic reservation"},
     defaultLimit : Unparseable..Top, defaultRequest : Unparseable..Top]

Unit(s) == IF s.name = "cpu" THEN Milli ELSE 1

\* serviceResources refuses negative amounts, fractions of a millicore, and what has no equivalent.
InvalidResources(s) ==
    \/ s.limit < 0 \/ s.reservation < 0 \/ s.extra # "none"
    \/ s.limit % Unit(s) # 0 \/ s.reservation % Unit(s) # 0

Effective(s, asked, default) == IF asked # 0 THEN asked \div Unit(s) ELSE default

\* Every request is capped at its limit, whether a default or not.
Capped(request, limit) == IF limit # 0 /\ request > limit THEN limit ELSE request

ServiceResources(s) ==
    LET limit == Effective(s, s.limit, s.defaultLimit)
        request == Effective(s, s.reservation, s.defaultRequest)
    IN IF InvalidResources(s) \/ limit = Unparseable \/ request = Unparseable THEN Refused
       ELSE [done |-> TRUE, ok |-> TRUE, limit |-> limit, request |-> Capped(request, limit)]

-----------------------------------------------------------------------------
(* Settings. *)

Translated == {"hostname", "grace of seconds", "host entry", "capabilities", "dns server", "sysctl"}
Ignored == {"user", "privileges", "init", "stop signal", "restart policy", "rollback", "dnsrr"}
Dropped == {"invalid hostname", "max replicas per node", "update delay", "log driver", "read-only tmpfs"}

ServiceWarnings(s) == s \cap Ignored

ServiceSettings(s) == [done |-> TRUE, ok |-> TRUE, set |-> s \cap Translated, warned |-> ServiceWarnings(s)]

-----------------------------------------------------------------------------
(* Mounts, secrets and configs. *)

Nil == "nil"
Mounts == [type : {"volume", ""}, source : {"", "data", "tmpfs-0"}, target : {"/f", "/run/secrets/f", "f"}]
          \cup [type : {"tmpfs", "bind"}, source : {""}, target : {"/f", "f"}]
Files == {Nil, "f", "/f"}

MountSpecs == [mounts : SeqOf(Mounts, MaxMounts), secrets : SeqOf(Files, 1), configs : SeqOf(Files, MaxMounts)]

\* volumeResourceName keeps these names; an anonymous volume's name is generated.
Claim(mount, n) == IF mount.source = "" THEN <<"anonymous-0", "anonymous-1", "anonymous-2">>[n] ELSE mount.source

IsVolume(mount) == mount.type \in {"volume", ""}

VolumeName(mount, n) == IF IsVolume(mount) THEN Claim(mount, n) ELSE <<"tmpfs-0", "tmpfs-1", "tmpfs-2">>[n]

InvalidMount(mount) == mount.target = "f" \/ mount.type = "bind"

\* path.Join puts an absolute name under /run/secrets as well.
SecretTarget(file) == "/run/secrets/f"

ConfigTarget(file) == "/f"

Volume(name, target, from) == [name |-> name, target |-> target, from |-> from]

VolumesOf(s) ==
    [n \in DOMAIN s.mounts |-> Volume(VolumeName(s.mounts[n], n), s.mounts[n].target,
                                      IF IsVolume(s.mounts[n]) THEN Claim(s.mounts[n], n) ELSE "memory")]
    \o [n \in DOMAIN s.secrets |-> Volume(<<"secret-0">>[n], SecretTarget(s.secrets[n]), "secret")]
    \o [n \in DOMAIN s.configs |-> Volume(<<"config-0", "config-1", "config-2">>[n], ConfigTarget(s.configs[n]), "config")]

\* Kubernetes refuses a Deployment with two volumes of a name, or two mounts at a path.
Admitted(vs) == \A m, n \in DOMAIN vs : m # n => vs[m].name # vs[n].name /\ vs[m].target # vs[n].target

InvalidFiles(s) == Nil \in ToSet(s.secrets) \cup ToSet(s.configs)

\* ensureContainerVolume has run for the mounts before the first invalid one.
CreatedClaims(s) ==
    {Claim(s.mounts[n], n) : n \in {i \in DOMAIN s.mounts :
        IsVolume(s.mounts[i]) /\ \A j \in 1..i : ~InvalidMount(s.mounts[j])}}

ServiceMounts(s) ==
    IF (\E n \in DOMAIN s.mounts : InvalidMount(s.mounts[n])) \/ InvalidFiles(s) \/ ~Admitted(VolumesOf(s))
    THEN [done |-> TRUE, ok |-> FALSE, claims |-> CreatedClaims(s)]
    ELSE [done |-> TRUE, ok |-> TRUE, volumes |-> VolumesOf(s), claims |-> CreatedClaims(s)]

-----------------------------------------------------------------------------
(* Replicas and updates. *)

NilReplicas == -1

Updates == [mode : {"none", "replicated", "global", "job"}, replicas : NilReplicas..MaxReplicas \cup {Largest + 1},
            parallelism : 0..2 \cup {Largest + 1}, order : {"", "stop-first", "start-first"}]

Parallelism(u) == IF u.parallelism \in 1..Largest THEN u.parallelism ELSE 1

\* Mutant: start-first allows unavailable tasks too.
ServiceStrategy_Both(u) ==
    [surge |-> IF u.order = "start-first" THEN Parallelism(u) ELSE 0, unavailable |-> Parallelism(u)]

ServiceStrategy(u) ==
    IF u.order = "start-first" THEN [surge |-> Parallelism(u), unavailable |-> 0]
    ELSE [surge |-> 0, unavailable |-> Parallelism(u)]

ServiceReplicas(u) == IF u.mode = "none" \/ u.replicas = NilReplicas THEN 1 ELSE u.replicas

ServiceUpdate(u) ==
    IF u.mode \in {"global", "job"} \/ ServiceReplicas(u) > Largest THEN Refused
    ELSE [done |-> TRUE, ok |-> TRUE, replicas |-> ServiceReplicas(u), strategy |-> ServiceStrategy(u)]

-----------------------------------------------------------------------------
(* buildService and the creation of the Deployment, step by step. *)

\* "checks" are the ones before the first call, "settings" the ones after the last.
BuildSteps == <<"checks", "env", "image", "pull secret", "isolation", "volumes", "settings", "deployment">>

Effects == {"image", "pull secret", "isolation", "volumes", "deployment"}

-----------------------------------------------------------------------------
Init ==
    /\ made = Nothing /\ tasks = NoTasks /\ build = NoBuild
    /\ \/ part = "resources" /\ spec \in Resources
       \/ part = "settings" /\ \E a, b \in Translated \cup Ignored \cup Dropped : spec = {a, b}
       \/ part = "mounts" /\ spec \in MountSpecs
       \/ part = "update" /\ spec \in Updates
       \/ part = "build" /\ spec = {}

\* One part of the spec is translated; an update starts with the old tasks running.
Translate ==
    /\ ~made.done /\ part # "build"
    /\ made' = CASE part = "resources" -> ServiceResources(spec)
                 [] part = "settings" -> ServiceSettings(spec)
                 [] part = "mounts" -> ServiceMounts(spec)
                 [] part = "update" -> ServiceUpdate(spec)
    /\ tasks' = IF part = "update" /\ made'.ok THEN [NoTasks EXCEPT !.old = made'.replicas] ELSE tasks
    /\ UNCHANGED <<part, spec, build>>

Attempt ==
    /\ part = "build" /\ build.step = 0 /\ build.attempts < MaxAttempts
    /\ "deployment" \notin build.objects
    /\ build' = [build EXCEPT !.step = 1, !.attempts = @ + 1] /\ UNCHANGED <<part, spec, made, tasks>>

\* A step that succeeds has its effect, on what an earlier attempt left as well.
BuildStep ==
    /\ part = "build" /\ build.step > 0
    /\ build' = [build EXCEPT
          !.step = IF build.step = Len(BuildSteps) THEN 0 ELSE @ + 1,
          !.objects = @ \cup ({BuildSteps[build.step]} \cap Effects)]
    /\ UNCHANGED <<part, spec, made, tasks>>

\* A check or a call fails: the attempt is over, and what it made stays.
BuildFails ==
    /\ part = "build" /\ build.step > 0
    /\ build' = [build EXCEPT !.step = 0] /\ UNCHANGED <<part, spec, made, tasks>>

-----------------------------------------------------------------------------
(* Kubernetes' rolling update, within the strategy. *)

StartTask ==
    /\ Accepted("update") /\ tasks.new < made.replicas
    /\ tasks.old + tasks.new < made.replicas + made.strategy.surge
    /\ tasks' = [tasks EXCEPT !.new = @ + 1] /\ UNCHANGED <<part, spec, made, build>>

TaskReady ==
    /\ Accepted("update") /\ tasks.ready < tasks.new
    /\ tasks' = [tasks EXCEPT !.ready = @ + 1] /\ UNCHANGED <<part, spec, made, build>>

StopTask ==
    /\ Accepted("update") /\ tasks.old > 0
    /\ tasks.old + tasks.ready > made.replicas - made.strategy.unavailable
    /\ tasks' = [tasks EXCEPT !.old = @ - 1] /\ UNCHANGED <<part, spec, made, build>>

Next == Translate \/ Attempt \/ BuildStep \/ BuildFails \/ StartTask \/ TaskReady \/ StopTask

Spec == Init /\ [][Next]_vars

\* Kubernetes' controllers run and new tasks become ready; nothing is assumed
\* of the client or of the calls of an attempt.
Fairness == WF_vars(StartTask) /\ WF_vars(TaskReady) /\ WF_vars(StopTask)

-----------------------------------------------------------------------------
\* The type invariant: the Deployment's numbers are ones Kubernetes accepts.
TypeOK ==
    /\ part \in {"resources", "settings", "mounts", "update", "build"}
    /\ tasks.ready <= tasks.new
    /\ build.step \in 0..Len(BuildSteps) /\ build.attempts <= MaxAttempts /\ build.objects \subseteq Effects
    /\ Accepted("update") => made.replicas \in 0..Largest
    /\ Accepted("resources") => made.limit \in 0..Top /\ made.request \in 0..Top

\* Kubernetes refuses a request above its limit: none is made, whichever of the
\* two is a default, and a limit that was asked for is the limit, in millicores
\* or bytes (serviceResources, applyServiceResourceDefaults).
ResourcesFit ==
    Accepted("resources") =>
       /\ made.limit # 0 => made.request <= made.limit
       /\ spec.limit # 0 => made.limit * Unit(spec) = spec.limit

\* A service is refused for its mounts only if one is not a volume or a tmpfs
\* at an absolute path, a file has no target, two are at one path, or one
\* volume is mounted twice, the volume tmpfs-0 and the first tmpfs counting as
\* one: in particular, not because it has several tmpfs (serviceMounts).
RefusedMountsConflict ==
    part = "mounts" /\ made.done /\ ~made.ok =>
       LET ms == spec.mounts
           paths == [n \in DOMAIN ms |-> ms[n].target]
                    \o [n \in DOMAIN spec.secrets |-> "/run/secrets/f"] \o [n \in DOMAIN spec.configs |-> "/f"]
       IN \/ \E n \in DOMAIN ms : ms[n].target = "f" \/ ms[n].type = "bind"
          \/ Nil \in ToSet(spec.secrets) \cup ToSet(spec.configs)
          \/ ~IsInjective(paths)
          \/ \E m, n \in DOMAIN ms : m # n /\ ms[m].source # "" /\ ms[m].source = ms[n].source
          \/ \E n \in DOMAIN ms : ms[n].source = "tmpfs-0" /\ ms[1].type = "tmpfs"

\* The claims an accepted service mounts exist, anonymous ones included
\* (serviceMounts, ensureContainerVolume).
MountedClaimsExist ==
    Accepted("mounts") =>
       \A n \in DOMAIN made.volumes : made.volumes[n].from \in made.claims \cup {"memory", "secret", "config"}

\* An update that starts first never has fewer tasks ready than replicas, and
\* one that stops first never runs more tasks than replicas (serviceStrategy).
UpdateOrderHolds ==
    Accepted("update") =>
       IF spec.order = "start-first" THEN tasks.old + tasks.ready >= made.replicas
       ELSE tasks.old + tasks.new <= made.replicas

\* A Deployment is created after everything it refers to, also when earlier
\* attempts to create the service failed halfway (buildService).
DeploymentIsLast ==
    "deployment" \in build.objects => Effects \subseteq build.objects

\* Every accepted update ends with the new version everywhere, whatever its
\* parallelism and order, and one that gives no count has a task (serviceStrategy, serviceReplicas).
UpdateCompletes ==
    Accepted("update") ~> /\ Accepted("update") /\ tasks.old = 0 /\ tasks.ready = made.replicas
                          /\ (spec.replicas # 0 => tasks.ready > 0)
=============================================================================
