---------------------------- MODULE ExecSessions ----------------------------
(***************************************************************************)
(* docker exec (core/translator/container_exec.go, routes_exec.go): the    *)
(* process-local records guarded by execMu, concurrent starts and resizes  *)
(* of one exec, and the removal of its container.                          *)
(*                                                                         *)
(* One container and one exec with a TTY. Pods are chosen by label, so the *)
(* Pod may be what is left of an earlier container of the same name. Every *)
(* start makes a terminal queue of its own; a resize sends to the queue it *)
(* took from the record, whatever became of the start since.               *)
(***************************************************************************)
EXTENDS Naturals, FiniteSets

CONSTANTS Creators, Starters, Resizers, Pods, ExitCodes, None

VARIABLES
    phase,    \* phase[p]: "Running" or "Exited"
    removed,  \* ContainerRm has purged the container's records
    entry,    \* the record in d.execs, or None
    create,   \* create[c]: progress of ContainerExecCreate, and its Pod
    start,    \* start[s]: progress of ContainerExecStart
    queue,    \* queue[s]: sizes waiting in the channel of start s
    resize    \* resize[z]: progress of ContainerExecResize, and its channel

vars == <<phase, removed, entry, create, start, queue, resize>>

Init ==
    /\ phase = [p \in Pods |-> "Running"]
    /\ removed = FALSE
    /\ entry = None
    /\ create = [c \in Creators |-> [pc |-> "idle", pod |-> None]]
    /\ start = [s \in Starters |-> [pc |-> "idle", code |-> None]]
    /\ queue = [s \in Starters |-> 0]
    /\ resize = [z \in Resizers |-> [pc |-> "idle", to |-> None]]

-----------------------------------------------------------------------------
\* runningContainerPod, then the insertion under execMu.

FindPod(c) ==
    /\ create[c].pc = "idle" /\ ~removed
    /\ \E p \in Pods : phase[p] = "Running"
          /\ create' = [create EXCEPT ![c] = [pc |-> "insert", pod |-> p]]
    /\ UNCHANGED <<phase, removed, entry, start, queue, resize>>

Insert(c) ==
    /\ create[c].pc = "insert" /\ entry = None
    /\ entry' = [pod |-> create[c].pod, running |-> FALSE, exit |-> None,
                 resize |-> None]
    /\ create' = [create EXCEPT ![c].pc = "done"]
    /\ UNCHANGED <<phase, removed, start, queue, resize>>

\* ContainerRm, once the Pods have stopped.
Purge ==
    /\ ~removed /\ \A p \in Pods : phase[p] = "Exited"
    /\ removed' = TRUE
    /\ entry' = None
    /\ UNCHANGED <<phase, create, start, queue, resize>>

PodExits(p) ==
    /\ phase[p] = "Running"
    /\ phase' = [phase EXCEPT ![p] = "Exited"]
    /\ UNCHANGED <<removed, entry, create, start, queue, resize>>

-----------------------------------------------------------------------------
\* ContainerExecStart. A start keeps its pointer to the record it found, so
\* its last writes go to a record a purge may have unlinked meanwhile.

Write(s, e) == entry' = IF entry = None THEN None ELSE e

Refuse(s) ==
    /\ start' = [start EXCEPT ![s].pc = "refused"]
    /\ UNCHANGED <<phase, removed, entry, create, queue, resize>>

Begin_FinishedOnly(s) ==
    /\ start[s].pc = "idle" /\ entry # None
    /\ IF entry.exit # None THEN Refuse(s)
       ELSE /\ entry' = [entry EXCEPT !.running = TRUE]
            /\ start' = [start EXCEPT ![s].pc = "pod"]
            /\ UNCHANGED <<phase, removed, create, queue, resize>>

Begin(s) ==
    /\ start[s].pc = "idle" /\ entry # None
    /\ IF entry.running \/ entry.exit # None THEN Refuse(s)
       ELSE /\ entry' = [entry EXCEPT !.running = TRUE]
            /\ start' = [start EXCEPT ![s].pc = "pod"]
            /\ UNCHANGED <<phase, removed, create, queue, resize>>

\* The Pod must still run; then the TTY's queue, with or without a first size.
CheckPod(s) ==
    /\ start[s].pc = "pod"
    /\ IF entry # None /\ phase[entry.pod] = "Running"
       THEN /\ \E n \in {0, 1} : queue' = [queue EXCEPT ![s] = n]
            /\ entry' = [entry EXCEPT !.resize = s]
            /\ start' = [start EXCEPT ![s].pc = "stream"]
       ELSE /\ start' = [start EXCEPT ![s].pc = "finish"]
            /\ UNCHANGED <<entry, queue>>
    /\ UNCHANGED <<phase, removed, create, resize>>

ReadSize(s) ==
    /\ start[s].pc = "stream" /\ queue[s] > 0
    /\ queue' = [queue EXCEPT ![s] = @ - 1]
    /\ UNCHANGED <<phase, removed, entry, create, start, resize>>

\* The command ends with a code; the code is written before the record is
\* marked as not running.
StreamEnds(s) ==
    /\ start[s].pc = "stream"
    /\ \E code \in ExitCodes :
          /\ start' = [start EXCEPT ![s].pc = "finish", ![s].code = code]
          /\ Write(s, [entry EXCEPT !.exit = code])
    /\ UNCHANGED <<phase, removed, create, queue, resize>>

\* The client detaches or the stream breaks: the record gets no exit code.
StreamCut(s) ==
    /\ start[s].pc = "stream"
    /\ start' = [start EXCEPT ![s].pc = "finish"]
    /\ UNCHANGED <<phase, removed, entry, create, queue, resize>>

Finish(s) ==
    /\ start[s].pc = "finish"
    /\ start' = [start EXCEPT ![s].pc = "done"]
    /\ Write(s, [entry EXCEPT !.running = FALSE, !.resize = None])
    /\ UNCHANGED <<phase, removed, create, queue, resize>>

-----------------------------------------------------------------------------
\* ContainerExecResize: the queue is taken under execMu and used without it.

TakeQueue(z) ==
    /\ resize[z].pc = "idle" /\ entry # None
    /\ resize' = [resize EXCEPT ![z] =
          IF entry.running /\ entry.resize # None
          THEN [pc |-> "send", to |-> entry.resize]
          ELSE [pc |-> "conflict", to |-> None]]
    /\ UNCHANGED <<phase, removed, entry, create, start, queue>>

Send(z) ==
    /\ resize[z].pc = "send" /\ queue[resize[z].to] = 0
    /\ queue' = [queue EXCEPT ![resize[z].to] = 1]
    /\ resize' = [resize EXCEPT ![z].pc = "ok"]
    /\ UNCHANGED <<phase, removed, entry, create, start>>

\* The client of a resize gives up.
SendCancelled(z) ==
    /\ resize[z].pc = "send"
    /\ resize' = [resize EXCEPT ![z].pc = "cancelled"]
    /\ UNCHANGED <<phase, removed, entry, create, start, queue>>

-----------------------------------------------------------------------------
StartStep(s) == CheckPod(s) \/ ReadSize(s) \/ Finish(s)

Next ==
    \/ \E c \in Creators : FindPod(c) \/ Insert(c)
    \/ \E p \in Pods : PodExits(p)
    \/ Purge
    \/ \E s \in Starters : Begin(s) \/ StartStep(s) \/ StreamEnds(s) \/ StreamCut(s)
    \/ \E z \in Resizers : TakeQueue(z) \/ Send(z) \/ SendCancelled(z)

Spec == Init /\ [][Next]_vars

\* Requests and the terminal's reader go on; a command may run for ever.
Fairness ==
    /\ \A s \in Starters : WF_vars(StartStep(s))
    /\ \A z \in Resizers : WF_vars(Send(z))

-----------------------------------------------------------------------------
\* The types of the variables.
TypeOK ==
    /\ phase \in [Pods -> {"Running", "Exited"}]
    /\ \/ entry = None
       \/ entry \in [pod : Pods, running : BOOLEAN,
                     exit : ExitCodes \cup {None}, resize : Starters \cup {None}]
    /\ queue \in [Starters -> 0..1]

InStream(s) == start[s].pc \in {"pod", "stream"}

\* "exec has already started": however many clients start one exec at once,
\* one of them runs its command.
OneAtATime ==
    \A s, t \in Starters : InStream(s) /\ InStream(t) => s = t

\* A command whose exit code is known has run for the last time, and the code
\* ContainerExecInspect reports stays the same until the record goes.
ExitCodeFinal ==
    entry # None /\ entry.exit # None
    => \/ entry' = None
       \/ /\ entry'.exit = entry.exit
          /\ \A s \in Starters : start[s].pc = "idle"
                                 => start'[s].pc # "pod"

\* A record that is not running offers no terminal: a resize never takes the
\* queue of a start that is over.
NoStaleTerminal ==
    entry # None /\ ~entry.running => entry.resize = None

\* While the command's stream is read, a resize that waits for room gets it;
\* once the stream is over it waits for its own client to give up.
ResizeDelivered ==
    \A z \in Resizers :
        resize[z].pc = "send" ~>
            \/ resize[z].pc # "send"
            \/ ~InStream(resize[z].to)

-----------------------------------------------------------------------------
(* What OneAtATime, NoStaleTerminal and ExitCodeFinal rest on, for any       *)
(* number of clients: the record is marked as running from before the Pod is *)
(* looked up until after the exit code is written.                           *)

Entries == [pod : Pods, running : BOOLEAN, exit : ExitCodes \cup {None},
            resize : Starters \cup {None}]

\* An exec is created once, and None is nothing else.
Sane ==
    /\ None \notin ExitCodes \cup Starters \cup Entries
    /\ \A c, d \in Creators : c = d

CreateRecs == [pc : {"idle", "insert", "done"}, pod : Pods \cup {None}]
StartRecs == [pc : {"idle", "refused", "pod", "stream", "finish", "done"},
              code : ExitCodes \cup {None}]
ResizeRecs == [pc : {"idle", "send", "conflict", "ok", "cancelled"},
               to : Starters \cup {None}]

Typed ==
    /\ phase \in [Pods -> {"Running", "Exited"}]
    /\ entry \in Entries \cup {None}
    /\ create \in [Creators -> CreateRecs] /\ start \in [Starters -> StartRecs]
    /\ queue \in [Starters -> {0, 1}] /\ resize \in [Resizers -> ResizeRecs]
    /\ \A c \in Creators : create[c].pc = "insert" => create[c].pod \in Pods
    /\ \A z \in Resizers : resize[z].pc = "send" => resize[z].to \in Starters

Marked(s) == start[s].pc \in {"pod", "stream", "finish"}

InsertedOnce ==
    entry # None \/ (\E s \in Starters : Marked(s)) =>
        \A c \in Creators : create[c].pc = "done"

MarkedIsRunning ==
    \A s \in Starters :
        /\ Marked(s) /\ entry # None => entry.running
        /\ InStream(s) /\ entry # None => entry.exit = None
        /\ \A t \in Starters : Marked(s) /\ Marked(t) => s = t

IInv == Typed /\ InsertedOnce /\ MarkedIsRunning /\ NoStaleTerminal
=============================================================================
