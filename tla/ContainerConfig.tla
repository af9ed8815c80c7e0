-------------------------- MODULE ContainerConfig --------------------------
(***************************************************************************)
(* What a container's Pod is made of: the client's configuration merged    *)
(* with the image's (mergeImageConfig, container_create.go), its command,  *)
(* environment, health check and Pod metadata, and how inspect reads them  *)
(* back.  The parts do not depend on each other, so a behaviour is about   *)
(* one of them: it creates a container from one request and one image and  *)
(* looks at what runs.                                                     *)
(***************************************************************************)
EXTENDS Integers, Sequences, FiniteSets, SequencesExt, FiniteSetsExt

CONSTANTS
    Ticks,          \* time units in a second; 10^9 in the code
    Width,          \* bits of an int32
    Durations, Retries,   \* what a health check may say
    MaxEnv          \* bound: entries of an environment

VARIABLES part,     \* which part the behaviour is about
          request, image,
          pod       \* what the part of the Pod is; NoPod before it is created

vars == <<part, request, image, pod>>

NoPod == [made |-> FALSE]
Refused == [made |-> TRUE, ok |-> FALSE]
Nil == <<"nil">>    \* a list the client did not send
Or(a, b, unset) == IF a # unset THEN a ELSE b
Largest == 2^(Width - 1) - 1

-----------------------------------------------------------------------------
(* Command. *)

Commands == [entrypoint : {Nil, <<>>, <<"e1">>}, cmd : {<<>>, <<"c1">>}]
ImageCommands == [entrypoint : {<<>>, <<"e2">>}, cmd : {<<>>, <<"c2">>}]

Len0(s) == s = Nil \/ s = <<>>

\* The image's command goes with the image's entrypoint only.
MergedCmd(r, i) == IF Len0(r.entrypoint) THEN Or(r.cmd, i.cmd, <<>>) ELSE r.cmd

\* An empty entrypoint clears the image's, a missing one takes it.
MergedEntrypoint(r, i) == Or(r.entrypoint, i.entrypoint, Nil)

\* The Pod's command and args, which are also the ones kept for inspect.
PodCommand(r, i) ==
    [made |-> TRUE, ok |-> TRUE, command |-> MergedEntrypoint(r, i), args |-> MergedCmd(r, i)]

\* Kubernetes runs the image's where the Pod says nothing.
Runs(p, i) ==
    IF p.command # <<>> THEN p.command \o p.args
    ELSE i.entrypoint \o Or(p.args, i.cmd, <<>>)

\* What inspect reports as Path and Args.
Inspected(p) == p.command \o p.args

-----------------------------------------------------------------------------
(* Environment. *)

Entries == [key : {"k1", "k2"}, value : {"v1", "v2", ""}]
Envs == SeqOf(Entries, MaxEnv)
Keys(env) == {env[n].key : n \in DOMAIN env}

\* The image's entries for keys the client does not name.
MergedEnv(r, i) == r \o SelectSeq(i, LAMBDA e : e.key \notin Keys(r))

\* Of two entries for a key the later one holds.
Sees(env, k) == env[SelectLastInSeq(env, LAMBDA e : e.key = k)].value

-----------------------------------------------------------------------------
(* Health check. *)

Tests == {"none", "NONE", "CMD", "CMD-SHELL", "CMD without command", "other"}
Checks == [test : Tests, interval : Durations, start : Durations, retries : Retries]

\* Field by field.
MergedCheck(r, i) ==
    [test |-> Or(r.test, i.test, "none"), interval |-> Or(r.interval, i.interval, 0),
     start |-> Or(r.start, i.start, 0), retries |-> Or(r.retries, i.retries, 0)]

\* Rounded up to whole seconds.
ProbeSeconds(d) == IF d = 0 THEN 0 ELSE (d - 1) \div Ticks + 1

DefaultInterval == 2 * Ticks     \* 30 seconds in the code
DefaultRetries == 3

Valid(c) ==
    /\ c.test \notin {"CMD without command", "other"}
    /\ c.interval >= 0 /\ c.start >= 0 /\ c.retries >= 0
    /\ \A d \in {c.interval, c.start} : ProbeSeconds(d) <= Largest
    /\ c.retries <= Largest

Probe(c) ==
    IF c.test \in {"none", "NONE"} THEN [made |-> TRUE, ok |-> TRUE, probe |-> FALSE]
    ELSE IF ~Valid(c) THEN Refused
    ELSE [made |-> TRUE, ok |-> TRUE, probe |-> TRUE,
          period |-> ProbeSeconds(Or(c.interval, DefaultInterval, 0)),
          delay |-> ProbeSeconds(c.start), failures |-> Or(c.retries, DefaultRetries, 0)]

\* An int32 wraps around.
Wrap(n) == ((n + 2^(Width - 1)) % 2^Width) - 2^(Width - 1)

\* How long after its start a container that is not ready counts as starting.
Grace(p) == Wrap(p.delay + Wrap(p.period * p.failures))

-----------------------------------------------------------------------------
(* Pod metadata: Docker labels with the pod-label prefix. *)

Domains == {"", "dink.io", "net.dink.io", "app.kubernetes.io", "other.io"}
LabelKeys == Domains \X {"app", "managed-by", "n1"}
\* The keys of dink's own labels: the workload's, the manager's, a network's.
OwnKeys == {<<"", "app">>, <<"app.kubernetes.io", "managed-by">>, <<"dink.io", "n1">>}
Labels == UNION {kSubset(n, LabelKeys) : n \in 0..2}

\* The keys asked for; the client's value of a key wins.
MergedLabels(r, i) == r \cup i

ReservedPodMetadataKey(k) ==
    \/ k = <<"", "app">>
    \/ k = <<"app.kubernetes.io", "managed-by">>
    \/ k[1] \in {"dink.io", "net.dink.io"}

\* dink's labels, overwritten by the asked ones.
PodLabels(asked) ==
    IF \E k \in asked : ReservedPodMetadataKey(k) THEN Refused
    ELSE [made |-> TRUE, ok |-> TRUE,
          labels |-> [k \in asked \cup OwnKeys |-> IF k \in asked THEN "asked" ELSE "own"]]

-----------------------------------------------------------------------------
(* Single-valued settings. *)

Settings == {"User", "WorkingDir", "StopSignal"}
Asked == [Settings -> {"", "r"}]
ImageSettings == [Settings -> {"", "i"}]

MergedSettings(r, i) == [s \in Settings |-> Or(r[s], i[s], "")]

\* The Pod's container takes the working directory only; nothing is refused and
\* no warning given for the rest.
PodSettings(m) ==
    [made |-> TRUE, ok |-> TRUE, warned |-> {}, dir |-> m["WorkingDir"]]

-----------------------------------------------------------------------------
Init ==
    /\ pod = NoPod
    /\ \/ part = "command" /\ request \in Commands /\ image \in ImageCommands
       \/ part = "env" /\ request \in Envs /\ image \in Envs
       \/ part = "health" /\ request \in Checks
          /\ image \in {c \in Checks : c.test \in {"none", "CMD"} /\ Valid(c)}
       \/ part = "labels" /\ request \in Labels /\ image \in Labels
       \/ part = "settings" /\ request \in Asked /\ image \in ImageSettings

\* ContainerCreate.
Create ==
    /\ ~pod.made
    /\ pod' = CASE part = "command" -> PodCommand(request, image)
                [] part = "env" -> [made |-> TRUE, ok |-> TRUE, env |-> MergedEnv(request, image)]
                [] part = "health" -> Probe(MergedCheck(request, image))
                [] part = "labels" -> PodLabels(MergedLabels(request, image))
                [] part = "settings" -> PodSettings(MergedSettings(request, image))
    /\ UNCHANGED <<part, request, image>>

Next == Create

Spec == Init /\ [][Next]_vars

-----------------------------------------------------------------------------
\* The types of the variables.
TypeOK ==
    /\ part \in {"command", "env", "health", "labels", "settings"}
    /\ pod.made /\ pod.ok =>
          CASE part = "command" -> pod.command # Nil
            [] part = "health" ->
                 pod.probe => pod.period \in 1..Largest /\ pod.delay \in 0..Largest
                              /\ pod.failures \in 1..Largest
            [] OTHER -> TRUE

\* What runs is what the client asked for, with the image's command only where
\* the client left the entrypoint to the image (mergeImageConfig and
\* Kubernetes' own defaults), for requests that do not clear the entrypoint;
\* inspect reports it, and it runs in the directory asked for.
RunsAsAsked ==
    /\ part = "command" /\ pod.made /\ request.entrypoint # <<>> =>
          /\ Runs(pod, image) =
                IF request.entrypoint # Nil THEN request.entrypoint \o request.cmd
                ELSE image.entrypoint \o Or(request.cmd, image.cmd, <<>>)
          /\ Inspected(pod) = Runs(pod, image)
    /\ part = "settings" /\ pod.made => pod.dir = Or(request["WorkingDir"], image["WorkingDir"], "")

\* The process sees the client's last value of a variable, or else the image's
\* last one, and no other variable (mergeImageConfig, containerEnv).
EnvPrecedence ==
    part = "env" /\ pod.made =>
       /\ Keys(pod.env) = Keys(request) \cup Keys(image)
       /\ \A k \in Keys(pod.env) :
             Sees(pod.env, k) = IF k \in Keys(request) THEN Sees(request, k) ELSE Sees(image, k)

\* The probe is never more eager than the health check, and less than a second
\* slower (dockerProbeSeconds); a field the client left out is the image's.
\* Where all retries fit an int32 the container counts as starting until the
\* first of them is over (containerHealthStatus).
ProbeIsFaithful ==
    part = "health" /\ pod.made /\ pod.ok /\ pod.probe =>
       LET interval == Or(Or(request.interval, image.interval, 0), DefaultInterval, 0)
           start == Or(request.start, image.start, 0)
       IN  /\ pod.period * Ticks - interval \in 0..(Ticks - 1)
           /\ pod.delay * Ticks - start \in 0..(Ticks - 1)
           /\ pod.delay + pod.period * pod.failures <= Largest => Grace(pod) >= pod.delay + pod.period

\* No label a client or an image asks for changes one of dink's own, which
\* Services and policies select Pods by (podMetadata, ContainerCreate).
OwnLabelsKept ==
    part = "labels" /\ pod.made /\ pod.ok => \A k \in OwnKeys : pod.labels[k] = "own"
=============================================================================
