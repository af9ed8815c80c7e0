------------------------------- MODULE Events -------------------------------
(***************************************************************************)
(* docker events (core/translator/events.go and getEvents in the system    *)
(* router): one subscription lists workloads, Pods and volumes one after   *)
(* another, watches each kind from its own list on, and a goroutine turns  *)
(* what the watches deliver, in any order between kinds, into Docker       *)
(* events on a bounded channel that the request handler drains.            *)
(*                                                                         *)
(* The world is one container name, whose container is created, changed,   *)
(* removed and created again, the Pods of those containers, and volumes.   *)
(***************************************************************************)
EXTENDS Naturals, Sequences, FiniteSets, Functions

CONSTANTS
    Pods, Containers, None,
    MaxRuns,   \* bound on the runs of a Pod's process
    MaxVols,   \* bound on volumes created or removed
    MaxQueue,  \* bound on events a watch has yet to deliver
    MaxOther,  \* bound on renames and template updates
    Cap        \* capacity of the subscriber's channel (64 in the code)

VARIABLES
    box,       \* the workload: [uid, rev, name], or None
    pods,      \* pods[p]: the Pod object, or None
    spent,     \* containers, Pods and other changes used up
    watched,   \* watched[k]: events the API server has yet to deliver
    fwd,       \* the forwarding goroutine and its maps
    out,       \* number of messages on the subscriber's channel
    client,    \* the request handler
    told       \* per Pod, the latest run reported (or listed) as started,
               \* ended and of some health, and whether one came again

world == <<box, pods, spent>>
vars == <<box, pods, spent, watched, fwd, out, client, told>>

Kinds == {"workload", "pod", "volume"}
NoState == [pod |-> None, start |-> 0, term |-> 0, health |-> "none"]

Init ==
    /\ box = None
    /\ pods = [p \in Pods |-> None]
    /\ spent = [boxes |-> {}, pods |-> {}, vols |-> 0, other |-> 0]
    /\ watched = [k \in Kinds |-> <<>>]
    /\ fwd = [pc |-> "idle", known |-> None, open |-> {}, listed |-> {},
              states |-> [p \in Pods |-> NoState], todo |-> <<>>,
              cancelled |-> FALSE, registered |-> FALSE]
    /\ out = 0
    /\ client = "none"
    /\ told = [p \in Pods |-> [start |-> 0, die |-> 0, up |-> 0,
                            again |-> FALSE]]

-----------------------------------------------------------------------------
\* The cluster.  A change reaches every watch opened from an earlier list.

\* The cluster is followed while the subscription lasts, and runs at most
\* MaxQueue events ahead of it.
Followed ==
    /\ fwd.pc \notin {"failed", "closed"} /\ client # "gone"
    /\ \A k \in Kinds : Len(watched[k]) < MaxQueue

Deliver(kind, type, object) ==
    IF kind \in fwd.listed
    THEN [watched EXCEPT ![kind] = Append(@, [type |-> type, object |-> object])]
    ELSE watched

BoxAdded ==
    \E u \in Containers \ spent.boxes :
       /\ Followed /\ box = None
       /\ box' = [uid |-> u, rev |-> 0, name |-> 0]
       /\ spent' = [spent EXCEPT !.boxes = @ \cup {u}]
       /\ watched' = Deliver("workload", "Added", box')
       /\ UNCHANGED <<pods, fwd, out, client, told>>

\* A rename, a template update, or a change events do not report (scale).
BoxModified ==
    /\ Followed /\ box # None /\ spent.other < MaxOther
    /\ box' \in {box, [box EXCEPT !.rev = @ + 1], [box EXCEPT !.name = @ + 1]}
    /\ spent' = [spent EXCEPT !.other = @ + 1]
    /\ watched' = Deliver("workload", "Modified", box')
    /\ UNCHANGED <<pods, fwd, out, client, told>>

BoxDeleted ==
    /\ Followed /\ box # None
    /\ box' = None
    /\ watched' = Deliver("workload", "Deleted", box)
    /\ UNCHANGED <<pods, spent, fwd, out, client, told>>

PodSet(p, type, object) ==
    /\ Followed
    /\ pods' = [pods EXCEPT ![p] = IF type = "Deleted" THEN None ELSE object]
    /\ watched' = Deliver("pod", type, [name |-> p, pod |-> object])
    /\ UNCHANGED <<box, fwd, out, client, told>>

PodAdded(p) ==
    /\ box # None /\ p \notin spent.pods
    /\ spent' = [spent EXCEPT !.pods = @ \cup {p}]
    /\ PodSet(p, "Added", [run |-> 0, phase |-> "Waiting", ready |-> FALSE])

\* The kubelet's report may skip the end of a run that was restarted at once.
PodRuns(p) ==
    /\ pods[p] # None /\ pods[p].run < MaxRuns /\ UNCHANGED spent
    /\ PodSet(p, "Modified",
              [run |-> pods[p].run + 1, phase |-> "Running", ready |-> FALSE])

PodEnds(p) ==
    /\ pods[p] # None /\ pods[p].phase = "Running" /\ UNCHANGED spent
    /\ PodSet(p, "Modified", [pods[p] EXCEPT !.phase = "Waiting", !.ready = FALSE])

PodReady(p) ==
    /\ pods[p] # None /\ pods[p].phase = "Running" /\ UNCHANGED spent
    /\ ~pods[p].ready
    /\ PodSet(p, "Modified", [pods[p] EXCEPT !.ready = TRUE])

PodDeleted(p) ==
    /\ pods[p] # None /\ UNCHANGED spent
    /\ PodSet(p, "Deleted", pods[p])

VolumeChanged ==
    /\ Followed /\ spent.vols < MaxVols
    /\ spent' = [spent EXCEPT !.vols = @ + 1]
    /\ \E type \in {"Added", "Modified", "Deleted"} :
          watched' = Deliver("volume", type, None)
    /\ UNCHANGED <<box, pods, fwd, out, client, told>>

\* The API server closes a watch, as it does every few minutes.
WatchCloses(k) ==
    /\ fwd.pc \in {"select", "send"} /\ k \in fwd.open /\ watched[k] = <<>>
    /\ fwd' = [fwd EXCEPT !.open = @ \ {k}, !.listed = @ \ {k}]
    /\ UNCHANGED <<world, watched, out, client, told>>

-----------------------------------------------------------------------------
\* podEventState.

\* lastTermination: the run that ended last, or 0.
LastEnded(pod) == IF pod.phase = "Running" THEN pod.run - 1 ELSE pod.run

StartOf(pod) == IF pod.phase = "Running" THEN pod.run ELSE 0

\* containerHealthStatus: a process that is not ready is starting until its
\* grace period has passed.
HealthOf(previous, pod) ==
    CASE pod.phase # "Running" -> {"unhealthy"}
      [] pod.phase = "Running" /\ pod.ready -> {"healthy"}
      [] ~pod.ready /\ previous.start = pod.run
                    /\ previous.health = "unhealthy" -> {"unhealthy"}
      [] OTHER -> {"starting", "unhealthy"}

\* observePodEventState: health is that of a running process of a workload
\* that is known.
Observe(known, previous, pod) ==
    [pod : {pod}, start : {StartOf(pod)}, term : {LastEnded(pod)},
     health : IF known = None \/ StartOf(pod) = 0 THEN {"none"}
              ELSE HealthOf(previous, pod)]

Message(action, p, run) == [action |-> action, pod |-> p, run |-> run]

PodTransitionEvents_StartFirst(p, previous, current) ==
    (IF current.start # 0 /\ current.start # previous.start
     THEN <<Message("start", p, current.start)>> ELSE <<>>)
    \o (IF current.term # 0 /\ current.term # previous.term
        THEN <<Message("die", p, current.term)>> ELSE <<>>)
    \o (IF current.health # previous.health
              /\ current.health \in {"healthy", "unhealthy"}
        THEN <<Message("health", p, current.pod.run)>> ELSE <<>>)

PodTransitionEvents(p, previous, current) ==
    (IF current.term # 0 /\ current.term # previous.term
     THEN <<Message("die", p, current.term)>> ELSE <<>>)
    \o (IF current.start # 0 /\ current.start # previous.start
        THEN <<Message("start", p, current.start)>> ELSE <<>>)
    \o (IF current.health # previous.health
              /\ current.health \in {"healthy", "unhealthy"}
        THEN <<Message("health", p, current.pod.run)>> ELSE <<>>)

-----------------------------------------------------------------------------
\* SubscribeToEvents: the lists, one call each, then the watches.

Subscribe ==
    /\ fwd.pc = "idle"
    /\ fwd' = [fwd EXCEPT !.pc = "pods", !.known = box, !.listed = {"workload"}]
    /\ client' = "waiting"
    /\ UNCHANGED <<world, watched, out, told>>

Listed ==
    [p \in Pods |-> IF pods[p] = None THEN told[p]
                    ELSE [start |-> StartOf(pods[p]), die |-> LastEnded(pods[p]),
                          up |-> 0, again |-> FALSE]]

\* The Pods there are count as reported (forwardKubernetesEvents' podStates).
ListPods ==
    /\ fwd.pc = "pods"
    /\ \E states \in [Pods -> UNION {Observe(fwd.known, NoState, pods[p]) :
                                        p \in {q \in Pods : pods[q] # None}}
                              \cup {NoState}] :
          /\ \A p \in Pods :
                states[p] \in IF pods[p] = None THEN {NoState}
                              ELSE Observe(fwd.known, NoState, pods[p])
          /\ fwd' = [fwd EXCEPT !.pc = "volumes", !.states = states,
                                !.listed = @ \cup {"pod"}]
    /\ told' = Listed
    /\ UNCHANGED <<world, watched, out, client>>

\* The last list, the watches and the goroutine; a call that fails ends it.
Watch ==
    /\ fwd.pc = "volumes"
    /\ \/ /\ fwd' = [fwd EXCEPT !.pc = "select", !.listed = Kinds,
                                !.open = Kinds, !.registered = TRUE]
          /\ client' = "reading"
          /\ UNCHANGED watched
       \/ /\ fwd' = [fwd EXCEPT !.pc = "failed", !.listed = {}]
          /\ client' = "gone"
          /\ watched' = [k \in Kinds |-> <<>>]
    /\ UNCHANGED <<world, out, told>>

-----------------------------------------------------------------------------
\* forwardKubernetesEvents.  Its select takes any case that is ready.

Taken(k) ==
    /\ fwd.pc = "select" /\ k \in fwd.open /\ watched[k] # <<>>
    /\ watched' = [watched EXCEPT ![k] = Tail(@)]
    /\ UNCHANGED <<world, out, client, told>>

Emit(f, messages) ==
    fwd' = [f EXCEPT !.todo = messages,
                     !.pc = IF messages = <<>> THEN "select" ELSE "send"]

\* handleWorkload.
ForwardWorkload ==
    /\ Taken("workload")
    /\ LET e == Head(watched["workload"])
           was == fwd.known
           action == CASE e.type = "Added" -> "create"
                       [] e.type = "Deleted" -> "destroy"
                       [] e.type = "Modified" /\ was # None /\ was.name # e.object.name -> "rename"
                       [] e.type = "Modified" /\ was # None /\ was.name = e.object.name
                             /\ was.rev # e.object.rev -> "update"
                       [] OTHER -> "none"
       IN  Emit([fwd EXCEPT !.known = IF e.type = "Deleted" THEN None ELSE e.object],
                IF action = "none" THEN <<>> ELSE <<Message(action, None, 0)>>)

ForwardPod ==
    /\ Taken("pod")
    /\ LET e == Head(watched["pod"])
           p == e.object.name
           previous == fwd.states[p]
       IN  IF e.type = "Deleted"
           THEN Emit([fwd EXCEPT !.states[p] = NoState],
                     IF fwd.known # None /\ previous.start # 0
                     THEN <<Message("stop", p, previous.start)>> ELSE <<>>)
           ELSE \E current \in Observe(fwd.known, previous, e.object.pod) :
                   Emit([fwd EXCEPT !.states[p] = current],
                        IF fwd.known = None THEN <<>>
                        ELSE PodTransitionEvents(p, previous, current))

ForwardVolume ==
    /\ Taken("volume")
    /\ Emit(fwd, IF Head(watched["volume"]).type = "Modified" THEN <<>>
                 ELSE <<Message("volume", None, 0)>>)

\* The ticker looks again at the Pods that were starting when last seen.
HealthTick ==
    /\ fwd.pc = "select"
    /\ \E p \in Pods :
          LET previous == fwd.states[p]
          IN  /\ previous.health = "starting"
              /\ \E current \in Observe(fwd.known, previous, previous.pod) :
                    /\ current # previous
                    /\ Emit([fwd EXCEPT !.states[p] = current],
                            IF fwd.known = None THEN <<>>
                            ELSE PodTransitionEvents(p, previous, current))
    /\ UNCHANGED <<world, watched, out, client, told>>

Tell(m) ==
    [p \in Pods |->
        IF m.pod # p THEN told[p]
        ELSE CASE m.action = "start" -> [told[p] EXCEPT
                         !.start = m.run, !.again = @ \/ m.run <= told[p].start]
               [] m.action = "die" -> [told[p] EXCEPT
                         !.die = m.run, !.again = @ \/ m.run <= told[p].die]
               [] m.action = "health" -> [told[p] EXCEPT !.up = m.run]
               [] OTHER -> told[p]]

Step(f) == [f EXCEPT !.todo = Tail(@), !.pc = IF Len(f.todo) = 1 THEN "select" ELSE "send"]

\* sendDockerEvent waits for room or for the end of the subscription.
Send ==
    /\ fwd.pc = "send"
    /\ \/ /\ out < Cap
          /\ out' = out + 1 /\ told' = Tell(Head(fwd.todo))
       \/ fwd.cancelled /\ UNCHANGED <<out, told>>
    /\ fwd' = Step(fwd)
    /\ UNCHANGED <<world, watched, client>>

\* The subscription is over, or every watch is closed.
Close ==
    /\ fwd.pc = "select" /\ (fwd.cancelled \/ fwd.open = {})
    /\ fwd' = [fwd EXCEPT !.pc = "closed", !.registered = FALSE, !.open = {},
                          !.listed = {}, !.known = None,
                          !.states = [p \in Pods |-> NoState]]
    /\ watched' = [k \in Kinds |-> <<>>]
    /\ UNCHANGED <<world, out, client, told>>

-----------------------------------------------------------------------------
\* getEvents.

Read ==
    /\ client = "reading" /\ out > 0
    /\ out' = out - 1
    /\ UNCHANGED <<world, watched, fwd, client, told>>

\* The client leaves, its deadline passes or a write fails: the deferred
\* UnsubscribeFromEvents cancels the watches.
Leave ==
    /\ client = "reading"
    /\ client' = "gone"
    /\ fwd' = [fwd EXCEPT !.cancelled = @ \/ fwd.registered, !.registered = FALSE]
    /\ UNCHANGED <<world, watched, out, told>>

\* A closed and drained channel ends the response.
EndOfStream ==
    /\ client = "reading" /\ fwd.pc = "closed" /\ out = 0
    /\ client' = "gone"
    /\ UNCHANGED <<world, watched, fwd, out, told>>

-----------------------------------------------------------------------------
Cluster ==
    \/ BoxAdded \/ BoxModified \/ BoxDeleted \/ VolumeChanged
    \/ \E p \in Pods : \/ PodAdded(p) \/ PodRuns(p) \/ PodEnds(p)
                       \/ PodReady(p) \/ PodDeleted(p)
    \/ \E k \in Kinds : WatchCloses(k)

Next ==
    \/ Cluster
    \/ Subscribe \/ ListPods \/ Watch
    \/ ForwardWorkload \/ ForwardPod \/ ForwardVolume \/ HealthTick
    \/ Send \/ Close \/ Read \/ Leave \/ EndOfStream

Spec == Init /\ [][Next]_vars

\* The handler and the goroutine run; select is fair to a case that stays
\* ready.  The cluster and the client owe nothing.
Fairness ==
    /\ WF_vars(Watch) /\ WF_vars(ListPods)
    /\ WF_vars(Send) /\ WF_vars(Read) /\ WF_vars(EndOfStream) /\ SF_vars(Close)
    /\ \A k \in Kinds : SF_vars(\/ k = "workload" /\ ForwardWorkload
                                \/ k = "pod" /\ ForwardPod
                                \/ k = "volume" /\ ForwardVolume)

-----------------------------------------------------------------------------
\* The types of the variables.
TypeOK ==
    /\ out \in 0..Cap
    /\ client \in {"none", "waiting", "reading", "gone"}
    /\ fwd.open \subseteq Kinds /\ fwd.listed \subseteq Kinds
    /\ fwd.pc = "send" <=> fwd.todo # <<>>
    /\ fwd.registered => fwd.pc \in {"select", "send"}

\* Each start and each exit of a Pod's process is reported at most once, in
\* the order of the runs, and none that was there when the subscription
\* began (podStates against the lists).
NothingTwice == \A p \in Pods : ~told[p].again

\* The exit of a run is never reported after the start of a later one: a
\* restart reads die, start (podTransitionEvents).
DieBeforeNextStart ==
    \A p \in Pods : fwd.pc # "pods" /\ told'[p].die # told[p].die =>
       told[p].start <= told'[p].die

\* No health is reported for a run whose exit was reported
\* (observePodEventState, and the ticker that looks at remembered Pods).
HealthOfTheLiving ==
    \A p \in Pods : told'[p].up # told[p].up => told'[p].up > told[p].die

\* A client that went away leaves no goroutine and no watch behind, however
\* full its channel is (sendDockerEvent, UnsubscribeFromEvents).
ForwarderEnds == client = "gone" ~> fwd.pc \in {"failed", "closed"}

\* When the API server has closed every watch the response ends, instead of
\* staying open without ever carrying an event again.
ResponseEnds == fwd.pc \in {"select", "send"} /\ fwd.open = {} ~> client = "gone"
=============================================================================
