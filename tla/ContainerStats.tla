--------------------------- MODULE ContainerStats ---------------------------
(***************************************************************************)
(* Docker's stats of a container (core/translator/container_stats.go).     *)
(* Kubernetes reports a rate and Docker wants counters, so ContainerStats  *)
(* adds rate times elapsed time to the counters of the sample before.  The *)
(* Pod may be replaced, the metrics may be missing and the clock may be    *)
(* set back between two samples.                                           *)
(***************************************************************************)
EXTENDS Integers, Sequences, FiniteSets

CONSTANTS PodNames,   \* Pods the container may run in, in the order listed
          Rates,      \* CPU rates the metrics may report
          Window,     \* the metrics' window, the fallback for elapsed time
          MaxTime,    \* bound: the clock
          MaxSamples  \* bound: samples in one stream

VARIABLES stream,   \* whether the client asked for a stream
          running,  \* the Pods in phase Running
          clock,
          pc,       \* "sample", "wait" or how the call ended
          previous, \* the sample written last, as the loop keeps it
          previousPod,
          out       \* the samples written, each with its Pod and rate

vars == <<stream, running, clock, pc, previous, previousPod, out>>

None == 0
Zero == [read |-> None, total |-> 0, system |-> 0]

First(s) == CHOOSE p \in s : \A q \in s : p <= q

-----------------------------------------------------------------------------
Previous(p) == IF p # previousPod THEN Zero ELSE previous

PreviousPod(p) == p

Elapsed(prev, read) ==
    IF prev.read # None /\ read > prev.read THEN read - prev.read ELSE Window

Stats(prev, read, rate) ==
    LET elapsed == Elapsed(prev, read)
    IN  [read |-> read, total |-> prev.total + rate * elapsed, system |-> prev.system + elapsed]

\* One turn of the loop.  A rate of 0 is also what missing metrics report, and
\* a single sample carries the metrics' own timestamp.
Sample ==
    /\ pc = "sample" /\ running # {}
    /\ \E rate \in Rates, read \in IF stream THEN {clock} ELSE 1..clock :
        LET p == First(running)
            stats == Stats(Previous(p), read, rate)
        IN  /\ out' = Append(out, [pod |-> p, rate |-> rate, pre |-> Previous(p), stats |-> stats])
            /\ previous' = stats
            /\ previousPod' = PreviousPod(p)
    /\ pc' = IF stream THEN "wait" ELSE "done"
    /\ UNCHANGED <<stream, running, clock>>

NoPod ==
    /\ pc = "sample" /\ running = {}
    /\ pc' = "not found"
    /\ UNCHANGED <<stream, running, clock, previous, previousPod, out>>

\* The ticker, or the client leaving.
Tick ==
    /\ pc = "wait"
    /\ \/ pc' = "done"
       \/ pc' = "sample" /\ Len(out) < MaxSamples
    /\ UNCHANGED <<stream, running, clock, previous, previousPod, out>>

Pods ==
    /\ pc \in {"sample", "wait"}
    /\ running' \in SUBSET PodNames
    /\ UNCHANGED <<stream, clock, pc, previous, previousPod, out>>

SetClock ==
    /\ pc \in {"sample", "wait"}
    /\ clock' \in 1..MaxTime
    /\ UNCHANGED <<stream, running, pc, previous, previousPod, out>>

Init ==
    /\ stream \in BOOLEAN
    /\ running \in SUBSET PodNames
    /\ clock = 1
    /\ pc = "sample"
    /\ previous = Zero
    /\ previousPod = None
    /\ out = <<>>

Next == Sample \/ NoPod \/ Tick \/ Pods \/ SetClock

Spec == Init /\ [][Next]_vars

-----------------------------------------------------------------------------
(* Properties. *)

\* The shape of the loop's state.
TypeOK ==
    /\ pc \in {"sample", "wait", "done", "not found"}
    /\ previous.total \in Nat /\ previous.system \in Nat
    /\ previousPod \in PodNames \cup {None}
    /\ (out = <<>>) = (previousPod = None)

\* What a client computes from a sample, the usage gained over the time gained,
\* is the rate the metrics reported, whatever the clock and the Pods do between
\* the samples.
ShareIsRate ==
    \A i \in DOMAIN out : LET s == out[i] IN
        /\ s.stats.system > s.pre.system
        /\ s.stats.total - s.pre.total = s.rate * (s.stats.system - s.pre.system)

\* A sample is compared with the sample before it of the same Pod, and with
\* nothing when there is none: counters never span two Pods.
ComparesOwnPod ==
    \A i \in DOMAIN out :
        out[i].pre = IF i > 1 /\ out[i - 1].pod = out[i].pod THEN out[i - 1].stats ELSE Zero

=============================================================================
