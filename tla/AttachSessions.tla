--------------------------- MODULE AttachSessions ---------------------------
(***************************************************************************)
(* docker attach and the resize of an attached terminal                    *)
(* (core/translator/container_attach.go, routes_attach.go): sessions that  *)
(* wait for the Pod of one container, the table of their terminal queues   *)
(* under attachMu, and resizes that write to every queue while they hold   *)
(* it.  The Pod of an earlier container of the same name may still run.    *)
(***************************************************************************)
EXTENDS Naturals, FiniteSets

CONSTANTS
    Sessions, Resizers, Free,
    MaxRuns    \* bound on the runs of the container's process

VARIABLES
    box,      \* the container: its workload, options and Pod
    left,     \* the earlier container's Pod still runs
    attach,   \* attach[a]: progress, input and Pod of a session
    table,    \* d.attaches: sessions whose queues a resize writes to
    sizes,    \* sizes[a]: sizes waiting in a's queue
    mu,       \* holder of attachMu, or Free
    resize    \* resize[z]: progress of ContainerResize

cluster == <<box, left>>
vars == <<box, left, attach, table, sizes, mu, resize>>

\* run: which run of its process the container is in; from the second on
\* status.LastTerminationState.Terminated is set.
Init ==
    /\ \E tty, autoRemove \in BOOLEAN :
          box = [exists |-> TRUE, tty |-> tty, autoRemove |-> autoRemove,
                 pod |-> "none", run |-> 0]
    /\ left \in BOOLEAN
    /\ attach = [a \in Sessions |-> [pc |-> "idle", stdin |-> FALSE,
                                     pod |-> "none", run |-> 0,
                                     result |-> "none"]]
    /\ table = {} /\ sizes = [a \in Sessions |-> 0] /\ mu = Free
    /\ resize = [z \in Resizers |-> [pc |-> "idle", todo |-> {}, at |-> Free]]

-----------------------------------------------------------------------------
\* The cluster: the process starts, exits and is restarted; another call
\* removes the container, and its Pod is deleted.

PodRuns ==
    /\ box.exists /\ box.pod # "Running" /\ box.run < MaxRuns
    /\ box' = [box EXCEPT !.pod = "Running", !.run = @ + 1]
    /\ UNCHANGED <<left, attach, table, sizes, mu, resize>>

PodExits ==
    /\ box.pod = "Running"
    /\ box' = [box EXCEPT !.pod = "Exited"]
    /\ UNCHANGED <<left, attach, table, sizes, mu, resize>>

Removed ==
    /\ box.exists
    /\ box' = [box EXCEPT !.exists = FALSE, !.pod = "none"]
    /\ UNCHANGED <<left, attach, table, sizes, mu, resize>>

LeftExits ==
    /\ left
    /\ left' = FALSE
    /\ UNCHANGED <<box, attach, table, sizes, mu, resize>>

-----------------------------------------------------------------------------
\* ContainerAttach.

Goto(a, step) == attach' = [attach EXCEPT ![a].pc = step]

\* Returns from a session; the deferred call takes a terminal's queue out of
\* the table.
Return(a, result) ==
    attach' = [attach EXCEPT ![a].result = result,
                   ![a].pc = IF box.tty THEN "unregister" ELSE "done"]

EndedBefore == box.autoRemove /\ box.run > 1

Replays(a) == ~box.tty /\ ~attach[a].stdin

Attach(a) ==
    /\ attach[a].pc = "idle" /\ box.exists
    /\ \E stdin \in IF box.tty THEN {TRUE} ELSE BOOLEAN :
          attach' = [attach EXCEPT ![a].stdin = stdin,
                         ![a].pc = IF box.tty THEN "register" ELSE "streams"]
    /\ UNCHANGED <<cluster, table, sizes, mu, resize>>

Register(a) ==
    /\ attach[a].pc = "register" /\ mu = Free
    /\ table' = table \cup {a}
    /\ Goto(a, "streams")
    /\ UNCHANGED <<cluster, sizes, mu, resize>>

\* GetStreams hijacks the client's connection, or fails.
Streams(a) ==
    /\ attach[a].pc = "streams"
    /\ Goto(a, "refresh") \/ Return(a, "error")
    /\ UNCHANGED <<cluster, table, sizes, mu, resize>>

\* One poll of waitAttachPod reads the workload, then its Pods.
Refresh(a) ==
    /\ attach[a].pc = "refresh"
    /\ IF box.exists THEN Goto(a, "pods")
       ELSE Return(a, IF box.autoRemove THEN "ok" ELSE "notFound")
    /\ UNCHANGED <<cluster, table, sizes, mu, resize>>

StreamTo(a, pod) ==
    attach' = [attach EXCEPT ![a].pc = "stream", ![a].pod = pod,
                             ![a].run = box.run]

\* Only Pods the workload owns count.  An exited process ends the wait; a
\* session without terminal and input reads the log it left.
Pods(a) ==
    /\ attach[a].pc = "pods"
    /\ CASE box.pod = "Exited" ->
               IF Replays(a) THEN StreamTo(a, "own") ELSE Return(a, "ok")
         [] box.pod = "Running" /\ EndedBefore -> Return(a, "ok")
         [] box.pod = "Running" /\ ~EndedBefore ->
               StreamTo(a, "own")
         [] box.pod = "none" -> Goto(a, "refresh")
    /\ UNCHANGED <<cluster, table, sizes, mu, resize>>

\* The terminal's reader passes a size on to the Pod.
ReadSize(a) ==
    /\ attach[a].pc = "stream" /\ box.tty /\ sizes[a] > 0
    /\ sizes' = [sizes EXCEPT ![a] = @ - 1]
    /\ UNCHANGED <<cluster, attach, table, mu, resize>>

RunEnded(a) == box.pod # "Running" \/ box.run # attach[a].run

\* The stream ends with the process: cleanly, or with an error that
\* attachTargetExited looks into.
StreamEnds(a) ==
    /\ attach[a].pc = "stream" /\ RunEnded(a)
    /\ Return(a, "ok") \/ (~Replays(a) /\ Goto(a, "verdict"))
    /\ UNCHANGED <<cluster, table, sizes, mu, resize>>

\* The connection to the Pod breaks.
StreamBreaks(a) ==
    /\ attach[a].pc = "stream"
    /\ IF Replays(a) THEN Return(a, "error") ELSE Goto(a, "verdict")
    /\ UNCHANGED <<cluster, table, sizes, mu, resize>>

\* attachTargetExited polls the Pod; its deadline lets the error through.
Verdict(a) ==
    /\ attach[a].pc = "verdict"
    /\ \/ /\ \/ box.pod = "none" /\ box.autoRemove
             \/ box.pod = "Exited"
             \/ box.pod = "Running" /\ EndedBefore
          /\ Return(a, "ok")
       \/ Return(a, "error")
    /\ UNCHANGED <<cluster, table, sizes, mu, resize>>

\* The client goes away.
Cancel(a) ==
    /\ attach[a].pc \in {"refresh", "pods", "stream", "verdict"}
    /\ Return(a, "error")
    /\ UNCHANGED <<cluster, table, sizes, mu, resize>>

Unregister_Unlocked(a) ==
    /\ attach[a].pc = "unregister"
    /\ table' = table \ {a}
    /\ Goto(a, "done")
    /\ UNCHANGED <<cluster, sizes, mu, resize>>

Unregister(a) ==
    /\ attach[a].pc = "unregister" /\ mu = Free
    /\ table' = table \ {a}
    /\ Goto(a, "done")
    /\ UNCHANGED <<cluster, sizes, mu, resize>>

-----------------------------------------------------------------------------
\* ContainerResize holds attachMu from the look into the table to its return.

FindResized(z) ==
    /\ resize[z].pc \in {"idle", "ok", "conflict"} /\ box.exists
    /\ resize' = [resize EXCEPT ![z].pc = "lock"]
    /\ UNCHANGED <<cluster, attach, table, sizes, mu>>

Resize(z) ==
    /\ resize[z].pc = "lock" /\ mu = Free
    /\ IF table = {}
       THEN resize' = [resize EXCEPT ![z].pc = "conflict"] /\ UNCHANGED mu
       ELSE /\ resize' = [resize EXCEPT ![z] = [@ EXCEPT !.pc = "offer", !.todo = table]]
            /\ mu' = z
    /\ UNCHANGED <<cluster, attach, table, sizes>>

\* A queue with room takes the size; a full one is emptied first.
Offer(z) ==
    /\ resize[z].pc = "offer"
    /\ \E a \in resize[z].todo :
          IF sizes[a] = 0
          THEN /\ sizes' = [sizes EXCEPT ![a] = 1]
               /\ resize' = [resize EXCEPT ![z].todo = @ \ {a}]
          ELSE /\ sizes' = sizes
               /\ resize' = [resize EXCEPT ![z].pc = "drain", ![z].at = a]
    /\ UNCHANGED <<cluster, attach, table, mu>>

\* The reader may have emptied it meanwhile: neither receive blocks.
Drain(z) ==
    /\ resize[z].pc = "drain"
    /\ sizes' = [sizes EXCEPT ![resize[z].at] = 0]
    /\ resize' = [resize EXCEPT ![z].pc = "send"]
    /\ UNCHANGED <<cluster, attach, table, mu>>

Send(z) ==
    /\ resize[z].pc = "send" /\ sizes[resize[z].at] = 0
    /\ sizes' = [sizes EXCEPT ![resize[z].at] = 1]
    /\ resize' = [resize EXCEPT ![z] =
                     [pc |-> "offer", todo |-> @.todo \ {@.at}, at |-> Free]]
    /\ UNCHANGED <<cluster, attach, table, mu>>

ResizeDone_Unlocked(z) ==
    /\ resize[z].pc = "offer" /\ resize[z].todo = {}
    /\ resize' = [resize EXCEPT ![z].pc = "ok"]
    /\ UNCHANGED <<cluster, attach, table, sizes, mu>>

ResizeDone(z) ==
    /\ resize[z].pc = "offer" /\ resize[z].todo = {}
    /\ resize' = [resize EXCEPT ![z].pc = "ok"]
    /\ mu' = Free
    /\ UNCHANGED <<cluster, attach, table, sizes>>

-----------------------------------------------------------------------------
Session(a) ==
    \/ Register(a) \/ Streams(a) \/ Refresh(a) \/ Pods(a)
    \/ StreamEnds(a) \/ Verdict(a) \/ Unregister(a)

Resizer(z) == Resize(z) \/ Offer(z) \/ Drain(z) \/ Send(z) \/ ResizeDone(z)

Next ==
    \/ PodRuns \/ PodExits \/ Removed \/ LeftExits
    \/ \E a \in Sessions : \/ Attach(a) \/ Session(a) \/ StreamBreaks(a)
                           \/ Cancel(a) \/ ReadSize(a)
    \/ \E z \in Resizers : FindResized(z) \/ Resizer(z)

Spec == Init /\ [][Next]_vars

\* A goroutine runs and a waiting Lock is served; a queue's reader, clients
\* and the cluster owe nothing.
Fairness ==
    /\ \A a \in Sessions : SF_vars(Session(a))
    /\ \A z \in Resizers : SF_vars(Resizer(z))

-----------------------------------------------------------------------------
\* The types of the variables.
TypeOK ==
    /\ left \in BOOLEAN /\ table \subseteq Sessions
    /\ mu \in {Free} \cup Resizers
    /\ sizes \in [Sessions -> 0..1]

\* A client is only ever connected to a Pod its container owns
\* (containerPods in waitAttachPod), whatever an earlier container left.
AttachToOwnPod == \A a \in Sessions : attach[a].pod # "left"

\* An attach that reports success saw the container's process end, or its
\* auto-removed container gone: a stream that broke under a running process
\* is reported (attachTargetExited).
SuccessMeansEnded ==
    \A a \in Sessions :
       attach[a].result = "none" /\ attach'[a].result = "ok" =>
          RunEnded(a) \/ EndedBefore

\* A size is put into the queue of a session that still has one registered:
\* no resize outlives the table it read (ContainerResize holds attachMu).
ResizeReachesSessions ==
    \A z \in Resizers : mu = z => resize[z].todo \subseteq table

\* A resize that waits for attachMu or holds it returns, read or unread: a
\* session that does not read its queue cannot hold up the others.
ResizeReturns ==
    \A z \in Resizers :
       resize[z].pc = "lock" ~> resize[z].pc \in {"ok", "conflict"}

\* Once the container is removed every attach to it ends.
AttachEnds ==
    \A a \in Sessions :
       attach[a].pc # "idle" /\ ~box.exists ~> attach[a].pc = "done"
=============================================================================
