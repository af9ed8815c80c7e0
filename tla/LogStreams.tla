----------------------------- MODULE LogStreams -----------------------------
(***************************************************************************)
(* Streaming logs (core/translator/container_logs.go, swarm_logs.go and    *)
(* core/server/router/swarm/logs.go).  Each Pod's log is read by a         *)
(* goroutine, tagged by a second one and merged by a third into the one    *)
(* channel the handler writes from.  Channels are unbuffered: a send and   *)
(* its receive are one step.  Every send gives up when the request's       *)
(* context ends, which the client may bring about at any time and the      *)
(* server does when the handler returns.                                   *)
(***************************************************************************)
EXTENDS Integers, Sequences

CONSTANTS Pods,    \* the selected Pods
          Lines,   \* lines in each Pod's log
          Until,   \* the last line the client asked for
          Fail     \* whether reading a log may fail

VARIABLES pos,      \* lines read of each Pod's log
          reader,   \* podLogs: [st, msg] of each Pod
          tagger,   \* withLogAttrs
          merger,   \* mergeLogStreams
          handler,  \* [st, out]: how swarmLogs stands, and what it wrote
          done,     \* whether the request's context has ended
          failed    \* Pods whose log could not be read to the end

vars == <<pos, reader, tagger, merger, handler, done, failed>>

Unstarted == [st |-> "unstarted", msg |-> <<>>]
Empty == [st |-> "receive", msg |-> <<>>]
Ended == [st |-> "ended", msg |-> <<>>]
Send(m) == [st |-> "send", msg |-> m]

Line(p, n) == [pod |-> p, n |-> n, task |-> "none", err |-> FALSE]

Error(p) == [pod |-> p, n |-> 0, task |-> "none", err |-> TRUE]

-----------------------------------------------------------------------------
(* ServiceLogs opens the Pods' logs one by one, then starts the merge. *)

\* What podLogs and withLogAttrs start for a Pod of the selection.
Open(p) ==
    /\ handler.st = "opening" /\ reader[p].st = "unstarted"
    /\ reader' = [reader EXCEPT ![p] = Empty]
    /\ tagger' = [tagger EXCEPT ![p] = Empty]
    /\ UNCHANGED <<pos, merger, handler, done, failed>>

\* A Pod that is gone by now fails the request; the logs opened so far have
\* readers and taggers, and nobody receives from them.
OpenFails(p) ==
    /\ handler.st = "opening" /\ reader[p].st = "unstarted"
    /\ handler' = [handler EXCEPT !.st = "error"]
    /\ done' = TRUE
    /\ UNCHANGED <<pos, reader, tagger, merger, failed>>

Merge ==
    /\ handler.st = "opening"
    /\ \A p \in Pods : reader[p].st # "unstarted"
    /\ merger' = [p \in Pods |-> Empty]
    /\ handler' = [handler EXCEPT !.st = "streaming"]
    /\ UNCHANGED <<pos, reader, tagger, done, failed>>

-----------------------------------------------------------------------------
(* podLogs. *)

Wanted(n) == n <= Until

ReadLine(p) ==
    /\ reader[p].st = "receive"
    /\ pos[p] < Lines
    /\ pos' = [pos EXCEPT ![p] = @ + 1]
    /\ reader' = [reader EXCEPT ![p] = IF Wanted(pos[p] + 1) THEN Send(Line(p, pos[p] + 1)) ELSE Empty]
    /\ UNCHANGED <<tagger, merger, handler, done, failed>>

ReadEnd(p) ==
    /\ reader[p].st = "receive"
    /\ pos[p] = Lines
    /\ reader' = [reader EXCEPT ![p] = Ended]
    /\ UNCHANGED <<pos, tagger, merger, handler, done, failed>>

\* An error is passed on unless it only says that the context ended.
AfterError(p) == IF done THEN Ended ELSE Send(Error(p))

ReadError(p) ==
    /\ Fail \/ done
    /\ reader[p].st = "receive"
    /\ pos[p] < Lines
    /\ pos' = [pos EXCEPT ![p] = Lines]
    /\ reader' = [reader EXCEPT ![p] = AfterError(p)]
    /\ failed' = IF done THEN failed ELSE failed \cup {p}
    /\ UNCHANGED <<tagger, merger, handler, done>>

-----------------------------------------------------------------------------
(* withLogAttrs and mergeLogStreams: one goroutine per Pod each. *)

AfterSend(g) == IF g.msg.err THEN Ended ELSE Empty

Tagged(p, m) == IF m.err THEN m ELSE [m EXCEPT !.task = p]

ToTagger(p) ==
    /\ reader[p].st = "send" /\ tagger[p].st = "receive"
    /\ tagger' = [tagger EXCEPT ![p] = Send(Tagged(p, reader[p].msg))]
    /\ reader' = [reader EXCEPT ![p] = AfterSend(@)]
    /\ UNCHANGED <<pos, merger, handler, done, failed>>

ToMerger(p) ==
    /\ tagger[p].st = "send" /\ merger[p].st = "receive"
    /\ merger' = [merger EXCEPT ![p] = Send(tagger[p].msg)]
    /\ tagger' = [tagger EXCEPT ![p] = Empty]
    /\ UNCHANGED <<pos, reader, handler, done, failed>>

\* A stage whose input is closed closes its own output.
TaggerEnds(p) ==
    /\ tagger[p].st = "receive" /\ reader[p].st = "ended"
    /\ tagger' = [tagger EXCEPT ![p] = Ended]
    /\ UNCHANGED <<pos, reader, merger, handler, done, failed>>

MergerEnds(p) ==
    /\ merger[p].st = "receive" /\ tagger[p].st = "ended"
    /\ merger' = [merger EXCEPT ![p] = Ended]
    /\ UNCHANGED <<pos, reader, tagger, handler, done, failed>>

\* Every send gives up once the context has ended.
GivesUp(p) ==
    /\ done
    /\ \/ reader[p].st = "send" /\ reader' = [reader EXCEPT ![p] = Ended] /\ UNCHANGED <<tagger, merger>>
       \/ tagger[p].st = "send" /\ tagger' = [tagger EXCEPT ![p] = Ended] /\ UNCHANGED <<reader, merger>>
       \/ merger[p].st = "send" /\ merger' = [merger EXCEPT ![p] = Ended] /\ UNCHANGED <<reader, tagger>>
    /\ UNCHANGED <<pos, handler, done, failed>>

-----------------------------------------------------------------------------
(* swarmLogs: the handler. *)

Answer(m) ==
    IF m.err THEN [handler EXCEPT !.st = "error"] ELSE [handler EXCEPT !.out = Append(@, m)]

\* A write to a client that is gone may fail, and with it the request.
Receive(p) ==
    /\ handler.st = "streaming" /\ merger[p].st = "send"
    /\ \/ handler' = Answer(merger[p].msg)
       \/ done /\ handler' = [handler EXCEPT !.st = "gone"]
    /\ done' = (done \/ handler'.st = "error")
    /\ merger' = [merger EXCEPT ![p] = Empty]
    /\ UNCHANGED <<pos, reader, tagger, failed>>

\* Mutant: the merged channel is closed as soon as one stream has ended.
Closed_any == \E p \in Pods : merger[p].st = "ended"

Closed == \A p \in Pods : merger[p].st = "ended"

Finish ==
    /\ handler.st = "streaming"
    /\ \/ Closed /\ handler' = [handler EXCEPT !.st = IF done THEN "gone" ELSE "closed"]
       \/ done /\ handler' = [handler EXCEPT !.st = "gone"]
    /\ done' = TRUE
    /\ UNCHANGED <<pos, reader, tagger, merger, failed>>

Leave ==
    /\ ~done
    /\ done' = TRUE
    /\ UNCHANGED <<pos, reader, tagger, merger, handler, failed>>

-----------------------------------------------------------------------------
Init ==
    /\ pos = [p \in Pods |-> 0]
    /\ reader = [p \in Pods |-> Unstarted]
    /\ tagger = [p \in Pods |-> Unstarted]
    /\ merger = [p \in Pods |-> Unstarted]
    /\ handler = [st |-> "opening", out |-> <<>>]
    /\ done = FALSE
    /\ failed = {}

Read(p) == ReadLine(p) \/ ReadEnd(p)
Pass(p) == ToTagger(p) \/ ToMerger(p) \/ TaggerEnds(p) \/ MergerEnds(p) \/ GivesUp(p)

Next ==
    \/ \E p \in Pods : Open(p) \/ OpenFails(p)
    \/ Merge
    \/ \E p \in Pods : Read(p) \/ ReadError(p) \/ Pass(p) \/ Receive(p)
    \/ Finish
    \/ Leave

\* Goroutines run, and a read ends with its context; nothing else must happen.
Fairness ==
    /\ \A p \in Pods : WF_vars(done /\ ReadError(p)) /\ WF_vars(ReadEnd(p)) /\ WF_vars(Pass(p))
    /\ WF_vars(\E p \in Pods : Open(p) \/ OpenFails(p)) /\ WF_vars(Merge) /\ WF_vars(Finish)

Spec == Init /\ [][Next]_vars

-----------------------------------------------------------------------------
(* Properties. *)

\* The shape of the stages and of the output.
TypeOK ==
    /\ \A p \in Pods : {reader[p].st, tagger[p].st, merger[p].st}
            \subseteq {"unstarted", "receive", "send", "ended"}
    /\ handler.st \in {"opening", "streaming", "closed", "error", "gone"}
    /\ \A i \in DOMAIN handler.out : ~handler.out[i].err

Of(p) == SelectSeq(handler.out, LAMBDA m : m.pod = p)

\* What the client gets of each Pod is a beginning of its log up to Until, in
\* order and without gaps, each line under the name of its own task, however
\* the Pods' lines interleave (withLogAttrs, mergeLogStreams).
InOrder ==
    \A p \in Pods : \A i \in DOMAIN Of(p) :
        Of(p)[i] = [pod |-> p, n |-> i, task |-> p, err |-> FALSE] /\ i <= Until

\* A stream that ends as if complete is complete: no line of any Pod is missing
\* unless the client left first (the WaitGroup of mergeLogStreams).
CompleteIfClosed ==
    handler.st = "closed" =>
        \A p \in Pods : p \in failed \/ Len(Of(p)) = (IF Until < Lines THEN Until ELSE Lines)

\* A log that could not be read ends the request with an error, not with what
\* looks like the end of the log (podLogs sends Err).
ErrorReported ==
    \A p \in failed : handler.st # "closed"

\* Once the request is over no goroutine stays behind, those of a request that
\* failed between opening two logs included.
NoneLeft ==
    done ~> \A p \in Pods : {reader[p], tagger[p], merger[p]} \subseteq {Unstarted, Ended}

=============================================================================
