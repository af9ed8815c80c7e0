------------------------- MODULE OneShotContainers -------------------------
(***************************************************************************)
(* A --rm container: a Job that runs one Pod once (container_workload.go), *)
(* the calls that start, stop, kill and remove it, and the clients in      *)
(* ContainerWait (container_lifecycle.go), each polling on its own.        *)
(*                                                                         *)
(* One Job, from its creation on. A condition "removed" also makes the     *)
(* waiter remove the Job once it has read an exit code. The mutex is       *)
(* lockContainer's.                                                        *)
(***************************************************************************)
EXTENDS Naturals, FiniteSets, TLAPS

CONSTANTS Waiters,     \* calls of ContainerWait
          Callers,     \* calls of start, stop, kill and rm
          ExitCodes,   \* codes the process may exit with
          Free, NoCode

VARIABLES
    job,       \* the Job: existence, Suspend, DeletionTimestamp, annotation
    pod,       \* its Pod: phase, DeletionTimestamp and exit code
    lock,      \* holder of the container's lock
    wait,      \* wait[w]: local state of a ContainerWait
    call,      \* call[c]: local state of another call
    unseen,    \* waiters that were polling when the Job finished, not since
    exited,    \* the code the process exited with
    signals    \* codes that stop and kill have announced

vars == <<job, pod, lock, wait, call, unseen, exited, signals>>

Code == ExitCodes \cup {137, 143, NoCode}

Started(j) == ~j.suspend /\ ~j.deleting

\* waitContainerStopped and hasActivePod list by label: deleted Pods too.
ActivePod == pod.phase \in {"Pending", "Running"}

Init ==
    /\ job = [exists |-> TRUE, suspend |-> TRUE, deleting |-> FALSE,
              finished |-> FALSE, signal |-> NoCode]
    /\ pod = [phase |-> "none", deleting |-> FALSE, code |-> NoCode]
    /\ lock = Free
    /\ wait = [w \in Waiters |-> [pc |-> "idle", condition |-> "none",
                  started |-> FALSE, signal |-> NoCode, seenRunning |-> FALSE,
                  firstCheck |-> TRUE, code |-> NoCode, early |-> FALSE]]
    /\ call = [c \in Callers |-> [pc |-> "idle", op |-> "none",
                  started |-> FALSE, result |-> "none"]]
    /\ unseen = {} /\ exited = NoCode /\ signals = {}

-----------------------------------------------------------------------------
\* The cluster: Job controller, kubelet, garbage collector, TTL controller.

JobCreatesPod ==
    /\ job.exists /\ Started(job) /\ ~job.finished /\ pod.phase = "none"
    /\ pod' = [pod EXCEPT !.phase = "Pending"]
    /\ UNCHANGED <<job, lock, wait, call, unseen, exited, signals>>

PodRuns ==
    /\ pod.phase = "Pending" /\ ~pod.deleting
    /\ pod' = [pod EXCEPT !.phase = "Running"]
    /\ UNCHANGED <<job, lock, wait, call, unseen, exited, signals>>

PodExits(code) ==
    /\ pod.phase = "Running"
    /\ pod' = [pod EXCEPT !.phase = "Exited", !.code = code]
    /\ exited' = code
    /\ UNCHANGED <<job, lock, wait, call, unseen, signals>>

Polling == {w \in Waiters :
              wait[w].pc \in {"refresh", "pods", "rm", "rmDelete", "rmWait"}}

JobFinishes ==
    /\ job.exists /\ ~job.finished /\ ~job.deleting /\ pod.phase = "Exited"
    /\ job' = [job EXCEPT !.finished = TRUE]
    /\ unseen' = Polling
    /\ UNCHANGED <<pod, lock, wait, call, exited, signals>>

JobExpires_Undelayed ==
    /\ job.exists /\ job.finished /\ ~job.deleting
    /\ job' = [job EXCEPT !.deleting = TRUE]
    /\ UNCHANGED <<pod, lock, wait, call, unseen, exited, signals>>

\* ttlSecondsAfterFinished: far longer than the waiters' polling interval.
JobExpires ==
    /\ job.exists /\ job.finished /\ ~job.deleting /\ unseen = {}
    /\ job' = [job EXCEPT !.deleting = TRUE]
    /\ UNCHANGED <<pod, lock, wait, call, unseen, exited, signals>>

GarbageCollects ==
    /\ job.deleting \/ ~job.exists
    /\ pod.phase # "none" /\ ~pod.deleting
    /\ pod' = [pod EXCEPT !.deleting = TRUE]
    /\ UNCHANGED <<job, lock, wait, call, unseen, exited, signals>>

PodGoes ==
    /\ pod.deleting /\ pod.phase \in {"Pending", "Exited"}
    /\ pod' = [phase |-> "none", deleting |-> FALSE, code |-> NoCode]
    /\ UNCHANGED <<job, lock, wait, call, unseen, exited, signals>>

\* Foreground deletion: the Job goes once its Pod has gone.
JobGoes ==
    /\ job.exists /\ job.deleting /\ pod.phase = "none"
    /\ job' = [job EXCEPT !.exists = FALSE]
    /\ UNCHANGED <<pod, lock, wait, call, unseen, exited, signals>>

-----------------------------------------------------------------------------
\* Start, stop, kill and rm. A call reads the Job when it gets the lock.

Return(c, res) == call' = [call EXCEPT ![c].pc = "done", ![c].result = res]
Goto(c, step) == call' = [call EXCEPT ![c].pc = step]

Call(c) ==
    /\ call[c].pc = "idle"
    /\ \E op \in {"start", "stop", "kill", "rm", "rmForce"} :
          call' = [call EXCEPT ![c].pc = "lock", ![c].op = op]
    /\ UNCHANGED <<job, pod, lock, wait, unseen, exited, signals>>

\* What the call does first, for the Job j it reads under its lock.
FirstStep(op, j) ==
    CASE op = "start" -> IF Started(j) THEN "unsuspend" ELSE "waitStart"
      [] op \in {"stop", "kill"} -> IF Started(j) THEN "annotate" ELSE "none"
      [] op = "rm" -> IF Started(j) /\ ~j.finished THEN "conflict" ELSE "delete"
      [] op = "rmForce" -> "delete"

Lock(c) ==
    /\ call[c].pc = "lock"
    /\ IF ~job.exists
       THEN Return(c, "notFound") /\ UNCHANGED lock
       ELSE /\ lock = Free
            /\ LET step == FirstStep(call[c].op, job)
               IN CASE step = "none" -> Return(c, "ok") /\ UNCHANGED lock
                    [] step = "conflict" -> Return(c, "conflict")
                                            /\ UNCHANGED lock
                    [] OTHER -> /\ lock' = c
                                /\ call' = [call EXCEPT ![c].pc = step,
                                               ![c].started = Started(job)]
    /\ UNCHANGED <<job, pod, wait, unseen, exited, signals>>

\* updateContainerJob with the annotation of stopOneShot.
Annotate(c) ==
    LET code == IF call[c].op = "kill" THEN 137 ELSE 143
    IN /\ call[c].pc = "annotate"
       /\ IF job.exists
          THEN /\ job' = [job EXCEPT !.signal = code]
               /\ signals' = signals \cup {code}
               /\ Goto(c, "deleteForeground")
               /\ UNCHANGED lock
          ELSE /\ Return(c, "notFound") /\ lock' = Free
               /\ UNCHANGED <<job, signals>>
       /\ UNCHANGED <<pod, wait, unseen, exited>>

DeleteForeground(c) ==
    /\ call[c].pc = "deleteForeground"
    /\ job' = [job EXCEPT !.deleting = job.exists]
    /\ Goto(c, "waitStopped")
    /\ UNCHANGED <<pod, lock, wait, unseen, exited, signals>>

\* deleteWorkload: in the background, unless a deletion is already under way.
DeleteWorkload ==
    job' = [job EXCEPT !.exists = job.exists /\ job.deleting]

Delete(c) ==
    /\ call[c].pc = "delete"
    /\ DeleteWorkload
    /\ Goto(c, "waitStopped")
    /\ UNCHANGED <<pod, lock, wait, unseen, exited, signals>>

WaitStopped(c) ==
    /\ call[c].pc \in {"waitStopped", "waitStart"} /\ ~ActivePod
    /\ IF call[c].pc = "waitStopped"
       THEN Return(c, "ok") /\ lock' = Free
       ELSE Goto(c, "unsuspend") /\ UNCHANGED lock
    /\ UNCHANGED <<job, pod, wait, unseen, exited, signals>>

\* The caller's context ends, or two minutes pass.
WaitTimesOut(c) ==
    /\ call[c].pc \in {"waitStopped", "waitStart"} /\ ActivePod
    /\ Return(c, "timeout") /\ lock' = Free
    /\ UNCHANGED <<job, pod, wait, unseen, exited, signals>>

Unsuspend(c) ==
    /\ call[c].pc = "unsuspend"
    /\ job' = [job EXCEPT !.suspend = job.suspend /\ ~job.exists]
    /\ Return(c, IF job.exists THEN "ok" ELSE "notFound")
    /\ lock' = Free
    /\ UNCHANGED <<pod, wait, unseen, exited, signals>>

-----------------------------------------------------------------------------
\* ContainerWait.

Attach(w) ==
    /\ wait[w].pc = "idle" /\ job.exists
    /\ \E condition \in {"not-running", "next-exit", "removed"} :
          wait' = [wait EXCEPT ![w].pc = "refresh", ![w].condition = condition,
                               ![w].early = (exited = NoCode)]
    /\ UNCHANGED <<job, pod, lock, call, unseen, exited, signals>>

Answer(w, code) == wait' = [wait EXCEPT ![w].pc = "done", ![w].code = code]

Refresh_KeepsPolling(w) ==
    /\ wait[w].pc = "refresh"
    /\ wait' = [wait EXCEPT
              ![w].pc = IF wait[w].code = NoCode THEN "pods" ELSE "refresh",
              ![w].started = Started(job), ![w].signal = job.signal]
    /\ UNCHANGED <<job, pod, lock, call, unseen, exited, signals>>

\* refreshWorkload; without an exit code of its own the answer is 0.
Refresh(w) ==
    /\ wait[w].pc = "refresh"
    /\ IF ~job.exists
       THEN Answer(w, IF wait[w].code # NoCode THEN wait[w].code ELSE 0)
       ELSE wait' = [wait EXCEPT
              ![w].pc = IF wait[w].code = NoCode THEN "pods" ELSE "refresh",
              ![w].started = Started(job), ![w].signal = job.signal]
    /\ UNCHANGED <<job, pod, lock, call, unseen, exited, signals>>

\* containerPods skips a Pod that is being deleted.
OwnedPod == pod.phase # "none" /\ ~pod.deleting

\* The exit code a poll of w arrives at.
ExitCode(w, running) ==
    IF OwnedPod /\ pod.phase = "Exited" THEN pod.code
    ELSE IF wait[w].condition = "removed" /\ ~running /\ ~wait[w].started
    THEN wait[w].signal
    ELSE NoCode

Poll(w) ==
    /\ wait[w].pc = "pods"
    /\ LET running == OwnedPod /\ pod.phase = "Running"
           seen == wait[w].seenRunning \/ running
           code == ExitCode(w, running)
           over == code # NoCode \/ (~wait[w].started /\ ~running)
           answers == \/ wait[w].condition = "not-running" /\ over
                      \/ /\ wait[w].condition = "next-exit" /\ over
                         /\ ~wait[w].firstCheck /\ seen
           removes == wait[w].condition = "removed" /\ code # NoCode
       IN wait' = [wait EXCEPT ![w] = [wait[w] EXCEPT
            !.pc = IF removes THEN "rm"
                   ELSE IF ~answers THEN "refresh"
                   ELSE IF code = NoCode THEN "unavailable" ELSE "done",
            !.code = IF removes \/ answers THEN code ELSE NoCode,
            !.seenRunning = seen, !.firstCheck = FALSE]]
    /\ unseen' = IF wait'[w].pc = "rm" THEN unseen ELSE unseen \ {w}
    /\ UNCHANGED <<job, pod, lock, call, exited, signals>>

\* The waiter's own ContainerRm, by ID: forced, with the anonymous volumes.
WaiterLocks(w) ==
    /\ wait[w].pc = "rm"
    /\ IF job.exists
       THEN /\ lock = Free /\ lock' = w
            /\ wait' = [wait EXCEPT ![w].pc = "rmDelete"]
       ELSE /\ wait' = [wait EXCEPT ![w].pc = "error", ![w].code = NoCode]
            /\ UNCHANGED lock
    /\ unseen' = unseen \ {w}
    /\ UNCHANGED <<job, pod, call, exited, signals>>

WaiterDeletes(w) ==
    /\ wait[w].pc = "rmDelete"
    /\ DeleteWorkload
    /\ wait' = [wait EXCEPT ![w].pc = "rmWait"]
    /\ UNCHANGED <<pod, lock, call, unseen, exited, signals>>

WaiterRemoved(w) ==
    /\ wait[w].pc = "rmWait" /\ ~ActivePod
    /\ wait' = [wait EXCEPT ![w].pc = "refresh"]
    /\ lock' = Free
    /\ UNCHANGED <<job, pod, call, unseen, exited, signals>>

-----------------------------------------------------------------------------
Cluster ==
    \/ JobCreatesPod \/ PodRuns \/ JobFinishes \/ JobExpires
    \/ GarbageCollects \/ PodGoes \/ JobGoes
    \/ \E code \in ExitCodes : PodExits(code)

CallStep(c) ==
    \/ Lock(c) \/ Annotate(c) \/ DeleteForeground(c) \/ Delete(c)
    \/ WaitStopped(c) \/ Unsuspend(c)

WaiterStep(w) ==
    \/ Refresh(w) \/ Poll(w) \/ WaiterLocks(w) \/ WaiterDeletes(w)
    \/ WaiterRemoved(w)

\* Every call has returned and the container is gone.
Over == /\ \A c \in Callers : call[c].pc = "done"
        /\ Polling = {}
        /\ UNCHANGED vars

Next ==
    \/ Cluster
    \/ \E c \in Callers : Call(c) \/ CallStep(c) \/ WaitTimesOut(c)
    \/ \E w \in Waiters : Attach(w) \/ WaiterStep(w)
    \/ Over

Spec == Init /\ [][Next]_vars

\* Controllers and requests keep running; nobody has to call.
Fairness ==
    /\ WF_vars(Cluster)
    /\ \A c \in Callers : SF_vars(CallStep(c))
    /\ \A w \in Waiters : SF_vars(WaiterStep(w))

-----------------------------------------------------------------------------
\* The types of the variables.
TypeOK ==
    /\ job \in [exists : BOOLEAN, suspend : BOOLEAN, deleting : BOOLEAN,
                finished : BOOLEAN, signal : Code]
    /\ pod \in [phase : {"none", "Pending", "Running", "Exited"},
                deleting : BOOLEAN, code : Code]
    /\ lock \in Waiters \cup Callers \cup {Free}
    /\ \A w \in Waiters :
          /\ wait[w].pc \in {"idle", "refresh", "pods", "rm", "rmDelete",
                             "rmWait", "unavailable", "error", "done"}
          /\ wait[w].code \in Code \cup {0}
          /\ wait[w].pc = "done" => wait[w].code # NoCode
    /\ \A c \in Callers :
          call[c].pc \in {"idle", "lock", "waitStart", "unsuspend", "annotate",
                          "deleteForeground", "delete", "waitStopped", "done"}
    /\ unseen \subseteq Waiters /\ exited \in Code /\ signals \subseteq Code

Answered(w) == wait[w].pc = "done"

\* A wait never makes an exit code up: one other than 0 is the code the
\* process exited with, or one a stop or kill announced in the annotation.
AnswerIsReal ==
    \A w \in Waiters : Answered(w) /\ wait[w].code # 0
        => wait[w].code \in signals \cup {exited}

Undisturbed ==
    \A c \in Callers : call[c].op \notin {"stop", "kill", "rm", "rmForce"}

\* No other client waits for the removal.
Sole(w) == \A v \in Waiters \ {w} : wait[v].condition # "removed"

\* "oneShotRemovalDelay keeps a finished --rm Job long enough for an attached
\* client to read its exit code": a client that waited for the removal from
\* before the exit on, as "docker run --rm" does, is told the code when no
\* stop, kill or rm was called and nobody else waits for the removal.
AttachedClientReads ==
    \A w \in Waiters :
        /\ wait[w].pc \in {"done", "error"} /\ wait[w].early
        /\ wait[w].condition = "removed" /\ exited # NoCode
        /\ Undisturbed /\ Sole(w)
        => wait[w].code = exited

\* stopOneShot returns after waitContainerStopped: when a stop or kill that
\* found the container started succeeds, its process is over for good.
StopMeansStopped ==
    \A c \in Callers :
        call[c].pc = "done" /\ call[c].result = "ok"
        /\ call[c].op \in {"stop", "kill"} /\ call[c].started
        => ~ActivePod /\ (job.exists => job.deleting)

\* Once the process has exited every wait ends, whatever its condition and
\* whoever else stops or removes the container.
WaitsEnd ==
    \A w \in Waiters :
        exited # NoCode /\ w \in Polling ~> w \notin Polling

-----------------------------------------------------------------------------
(* What the properties rest on, for any number of waiters and calls: the Job *)
(* runs one Pod, a Job that is going never comes back, and a finished one    *)
(* stays until the clients that were polling have polled once more.          *)

Sane == NoCode \notin ExitCodes \cup {0, 137, 143}

Jobs == [exists : BOOLEAN, suspend : BOOLEAN, deleting : BOOLEAN, finished : BOOLEAN,
         signal : Code]
PodRecs == [phase : {"none", "Pending", "Running", "Exited"}, deleting : BOOLEAN, code : Code]
WaitRecs ==
    [pc : {"idle", "refresh", "pods", "rm", "rmDelete", "rmWait", "unavailable", "error", "done"},
     condition : {"none", "not-running", "next-exit", "removed"}, started : BOOLEAN,
     signal : Code, seenRunning : BOOLEAN, firstCheck : BOOLEAN, code : Code \cup {0},
     early : BOOLEAN]
CallPcs == {"idle", "lock", "waitStart", "unsuspend", "annotate", "deleteForeground", "delete",
            "waitStopped", "done"}
CallRecs ==
    [pc : CallPcs, op : {"none", "start", "stop", "kill", "rm", "rmForce"}, started : BOOLEAN,
     result : {"none", "ok", "conflict", "notFound", "timeout"}]

Typed ==
    /\ job \in Jobs /\ pod \in PodRecs /\ lock \in Waiters \cup Callers \cup {Free}
    /\ wait \in [Waiters -> WaitRecs] /\ call \in [Callers -> CallRecs]
    /\ unseen \subseteq Waiters /\ exited \in Code /\ signals \subseteq {137, 143}

\* The Job is being deleted or has gone; no Pod is made for it any more.
Doomed == job.deleting \/ ~job.exists

ClusterAt ==
    /\ pod.deleting => Doomed
    /\ pod.phase \in {"Pending", "Running"} => exited = NoCode
    /\ pod.phase = "Exited" => exited # NoCode /\ pod.code = exited
    /\ pod.phase = "none" /\ exited # NoCode => Doomed
    /\ job.finished => exited # NoCode
    /\ job.signal \in signals \cup {NoCode}
    /\ Undisturbed => signals = {} /\ (Doomed => exited # NoCode)

WaiterAt(w) ==
    /\ wait[w].pc = "idle" => wait[w].condition = "none" /\ wait[w].code = NoCode
    /\ wait[w].pc = "pods" => wait[w].code = NoCode
    /\ wait[w].pc \in {"rm", "rmDelete", "rmWait"} =>
          wait[w].condition = "removed" /\ wait[w].code # NoCode
    /\ wait[w].pc = "done" => wait[w].code # NoCode
    /\ wait[w].signal \in signals \cup {NoCode}
    /\ wait[w].code # NoCode =>
          wait[w].code \in signals \cup {exited} \/ (wait[w].code = 0 /\ wait[w].pc = "done")

StoppedAt(c) ==
    call[c].op \in {"stop", "kill"} =>
        /\ call[c].pc = "waitStopped" => Doomed
        /\ call[c].pc = "done" /\ call[c].result = "ok" /\ call[c].started => Doomed /\ ~ActivePod

CallerAt(c) ==
    /\ call[c].pc = "idle" <=> call[c].op = "none"
    /\ call[c].pc \in {"idle", "lock"} => ~call[c].started
    /\ call[c].pc \in {"waitStart", "unsuspend"} => call[c].op = "start"
    /\ call[c].pc \in {"annotate", "deleteForeground"} => call[c].op \in {"stop", "kill"}
    /\ call[c].pc = "delete" => call[c].op \in {"rm", "rmForce"}
    /\ StoppedAt(c)

\* The waiter has not got its code yet, or has not begun to remove the Job.
Waits(w) ==
    wait[w].pc \in {"pods", "rm"} \/ (wait[w].pc = "refresh" /\ wait[w].code = NoCode)

ReaderAt(w) ==
    Undisturbed /\ Sole(w) /\ wait[w].condition = "removed" /\ wait[w].early =>
        /\ wait[w].pc \notin {"idle", "error", "unavailable"}
        /\ wait[w].code # NoCode => wait[w].code = exited
        /\ Waits(w) => ~Doomed /\ (job.finished => w \in unseen)

IInv ==
    /\ Typed /\ ClusterAt
    /\ \A w \in Waiters : WaiterAt(w) /\ ReaderAt(w)
    /\ \A c \in Callers : CallerAt(c)

-----------------------------------------------------------------------------
(* What a step leaves alone. *)

LEMMA TypedRecords ==
  ASSUME Typed
  PROVE  /\ job \in Jobs /\ pod \in PodRecs
         /\ call \in [Callers -> CallRecs] /\ \A c \in Callers : call[c] \in CallRecs
         /\ wait \in [Waiters -> WaitRecs] /\ \A w \in Waiters : wait[w] \in WaitRecs
<1>1. /\ job \in Jobs /\ pod \in PodRecs /\ call \in [Callers -> CallRecs]
      /\ wait \in [Waiters -> WaitRecs]
  BY Zenon DEF Typed
<1> QED
  BY <1>1, Zenon

\* What the invariant says of one waiter.
LEMMA WaiterFacts ==
  ASSUME IInv, NEW w \in Waiters
  PROVE  /\ Typed /\ ClusterAt /\ WaiterAt(w) /\ ReaderAt(w)
         /\ wait[w] \in WaitRecs /\ job \in Jobs /\ pod \in PodRecs
         /\ lock \in Waiters \cup Callers \cup {Free}
<1>1. Typed /\ ClusterAt /\ WaiterAt(w) /\ ReaderAt(w)
  BY Zenon DEF IInv
<1>2. lock \in Waiters \cup Callers \cup {Free}
  BY <1>1, Zenon DEF Typed
<1> QED
  BY <1>1, <1>2, TypedRecords, Zenon

LEMMA CallerKept ==
  ASSUME NEW c \in Callers, CallerAt(c), call'[c] = call[c], Doomed => Doomed',
         Doomed /\ ~ActivePod => ~ActivePod'
  PROVE  CallerAt(c)'
BY Zenon DEF CallerAt, StoppedAt

LEMMA WaiterKept ==
  ASSUME NEW w \in Waiters, WaiterAt(w), wait'[w] = wait[w], signals \subseteq signals',
         exited # NoCode => exited' = exited
  PROVE  WaiterAt(w)'
BY Zenon DEF WaiterAt

LEMMA ReaderKept ==
  ASSUME NEW w \in Waiters, ReaderAt(w), wait'[w] = wait[w],
         Undisturbed' => Undisturbed, Sole(w)' => Sole(w), exited # NoCode => exited' = exited,
         Undisturbed' /\ Sole(w)' /\ Doomed' => Doomed,
         job'.finished => job.finished, w \in unseen => w \in unseen'
  PROVE  ReaderAt(w)'
BY Zenon DEF ReaderAt, Waits

\* A step of the cluster.
LEMMA ClusterKeeps ==
  ASSUME IInv, Typed', ClusterAt', UNCHANGED <<wait, call, signals>>, Doomed => Doomed',
         Doomed /\ ~ActivePod => ~ActivePod', exited # NoCode => exited' = exited,
         \/ \A w \in Waiters : ReaderAt(w)'
         \/ (Doomed' => Doomed) /\ (job'.finished => job.finished) /\ UNCHANGED unseen
  PROVE  IInv'
<1>1. \A c \in Callers : CallerAt(c)'
  BY CallerKept, Zenon DEF IInv
<1>2. \A w \in Waiters : WaiterAt(w)'
  BY WaiterKept, Zenon DEF IInv
<1>3. \A w \in Waiters : ReaderAt(w)'
  <2>1. (Undisturbed' => Undisturbed) /\ \A w \in Waiters : Sole(w)' => Sole(w)
    BY Zenon DEF Undisturbed, Sole
  <2> QED
    BY <2>1, ReaderKept, Zenon DEF IInv
<1> QED
  BY <1>1, <1>2, <1>3, Zenon DEF IInv

\* A step of a call.
LEMMA CallKeeps ==
  ASSUME IInv, NEW c \in Callers, Typed', CallerAt(c)',
         \A d \in Callers \ {c} : call'[d] = call[d],
         UNCHANGED <<pod, wait, unseen, exited>>, Doomed => Doomed', signals \subseteq signals',
         job'.finished = job.finished, job'.signal \in signals' \cup {NoCode},
         Undisturbed' => Undisturbed /\ UNCHANGED signals /\ (Doomed' => Doomed)
  PROVE  IInv'
<1>1. \A d \in Callers : CallerAt(d)'
  BY CallerKept, Zenon DEF IInv, ActivePod
<1>2. \A w \in Waiters : WaiterAt(w)'
  BY WaiterKept, Zenon DEF IInv
<1>3. \A w \in Waiters : ReaderAt(w)'
  <2>1. \A w \in Waiters : Sole(w)' => Sole(w)
    BY Zenon DEF Sole
  <2> QED
    BY <2>1, ReaderKept, Zenon DEF IInv
<1>4. ClusterAt'
  BY Zenon DEF IInv, ClusterAt
<1> QED
  BY <1>1, <1>2, <1>3, <1>4, Zenon DEF IInv

\* A step of a waiter.
LEMMA WaitKeeps ==
  ASSUME IInv, NEW w \in Waiters, Typed', WaiterAt(w)', ReaderAt(w)',
         \A v \in Waiters \ {w} : /\ wait'[v] = wait[v] /\ (v \in unseen => v \in unseen')
                                  /\ Sole(v)' => Sole(v) /\ (Doomed' => Doomed),
         UNCHANGED <<pod, call, exited, signals>>, Doomed => Doomed',
         job'.finished = job.finished, job'.signal = job.signal,
         Undisturbed /\ Doomed' => exited # NoCode
  PROVE  IInv'
<1>1. \A c \in Callers : CallerAt(c)'
  BY CallerKept, Zenon DEF IInv, ActivePod
<1>2. \A v \in Waiters : WaiterAt(v)'
  BY WaiterKept, Zenon DEF IInv
<1>3. Undisturbed' <=> Undisturbed
  BY Zenon DEF Undisturbed
<1>4. \A v \in Waiters : ReaderAt(v)'
  BY <1>3, ReaderKept, Zenon DEF IInv
<1>5. ClusterAt'
  BY <1>3, Zenon DEF IInv, ClusterAt
<1> QED
  BY <1>1, <1>2, <1>4, <1>5, Zenon DEF IInv

-----------------------------------------------------------------------------
(* The cluster. *)

LEMMA ShotInit == ASSUME Sane, Init PROVE IInv
<1>1. /\ Typed /\ \A w \in Waiters : /\ wait[w].pc = "idle" /\ wait[w].condition = "none"
                                     /\ wait[w].code = NoCode /\ wait[w].signal = NoCode
      /\ \A c \in Callers : call[c].pc = "idle" /\ call[c].op = "none" /\ call[c].started = FALSE
      /\ job.exists = TRUE /\ job.deleting = FALSE /\ job.finished = FALSE /\ job.signal = NoCode
      /\ pod.deleting = FALSE /\ pod.phase = "none"
  BY Zenon DEF Init, Typed, Jobs, PodRecs, WaitRecs, CallRecs, CallPcs, Code
<1>2. ClusterAt
  BY <1>1, Zenon DEF Init, ClusterAt, Doomed
<1>3. \A w \in Waiters : WaiterAt(w) /\ ReaderAt(w)
  BY <1>1, Zenon DEF WaiterAt, ReaderAt
<1>4. \A c \in Callers : CallerAt(c)
  BY <1>1, Zenon DEF CallerAt, StoppedAt
<1> QED
  BY <1>1, <1>2, <1>3, <1>4, Zenon DEF IInv

\* The Pod: made, running, exited, deleted, gone.
LEMMA PodSteps ==
  ASSUME Sane, IInv,
         \/ JobCreatesPod \/ PodRuns \/ GarbageCollects \/ PodGoes
         \/ \E code \in ExitCodes : PodExits(code)
  PROVE  IInv'
<1>1. /\ UNCHANGED <<job, lock, wait, call, unseen, signals>> /\ Typed /\ ClusterAt /\ pod \in PodRecs
      /\ (Doomed' <=> Doomed) /\ (Undisturbed' <=> Undisturbed)
  <2>1. UNCHANGED <<job, lock, wait, call, unseen, signals>>
    BY Zenon DEF JobCreatesPod, PodRuns, PodExits, GarbageCollects, PodGoes
  <2> QED
    BY <2>1, Zenon DEF IInv, Typed, Doomed, Undisturbed
<1>2. CASE JobCreatesPod
  <2>1. /\ job.exists /\ ~job.deleting /\ pod.phase = "none" /\ pod' = [pod EXCEPT !.phase = "Pending"]
        /\ UNCHANGED exited /\ ~Doomed
    BY <1>2, Zenon DEF JobCreatesPod, Started, Doomed
  <2>2. pod' \in PodRecs /\ pod'.phase = "Pending" /\ pod'.deleting = pod.deleting
    BY <2>1, <1>1, Zenon DEF PodRecs
  <2>3. Typed' /\ ClusterAt'
    BY <2>1, <2>2, <1>1, Zenon DEF Typed, ClusterAt
  <2> QED
    BY <2>1, <2>3, <1>1, ClusterKeeps, Zenon
<1>3. CASE PodRuns
  <2>1. /\ pod.phase = "Pending" /\ pod' = [pod EXCEPT !.phase = "Running"] /\ UNCHANGED exited
    BY <1>3, Zenon DEF PodRuns
  <2>2. pod' \in PodRecs /\ pod'.phase = "Running" /\ pod'.deleting = pod.deleting
    BY <2>1, <1>1, Zenon DEF PodRecs
  <2>3. Typed' /\ ClusterAt' /\ ActivePod
    BY <2>1, <2>2, <1>1, Zenon DEF Typed, ClusterAt, ActivePod
  <2> QED
    BY <2>1, <2>3, <1>1, ClusterKeeps, Zenon
<1>4. ASSUME NEW code \in ExitCodes, PodExits(code) PROVE IInv'
  <2>1. /\ pod.phase = "Running" /\ pod' = [pod EXCEPT !.phase = "Exited", !.code = code]
        /\ exited' = code /\ code \in Code /\ code # NoCode
    BY <1>4, Zenon DEF PodExits, Code, Sane
  <2>2. pod' \in PodRecs /\ pod'.phase = "Exited" /\ pod'.deleting = pod.deleting /\ pod'.code = code
    BY <2>1, <1>1, Zenon DEF PodRecs
  <2>3. Typed' /\ ClusterAt' /\ ActivePod /\ exited = NoCode
    BY <2>1, <2>2, <1>1, Zenon DEF Typed, ClusterAt, ActivePod
  <2> QED
    BY <2>1, <2>3, <1>1, ClusterKeeps, Zenon
<1>5. CASE GarbageCollects
  <2>1. /\ Doomed /\ pod' = [pod EXCEPT !.deleting = TRUE] /\ UNCHANGED exited
    BY <1>5, Zenon DEF GarbageCollects, Doomed
  <2>2. pod' \in PodRecs /\ pod'.phase = pod.phase /\ pod'.code = pod.code
    BY <2>1, <1>1, Zenon DEF PodRecs
  <2>3. Typed' /\ ClusterAt' /\ (ActivePod' <=> ActivePod)
    BY <2>1, <2>2, <1>1, Zenon DEF Typed, ClusterAt, ActivePod
  <2> QED
    BY <2>1, <2>3, <1>1, ClusterKeeps, Zenon
<1>6. CASE PodGoes
  <2>1. /\ pod.deleting /\ UNCHANGED exited
        /\ pod' = [phase |-> "none", deleting |-> FALSE, code |-> NoCode]
    BY <1>6, Zenon DEF PodGoes
  <2>2. pod' \in PodRecs /\ pod'.phase = "none" /\ pod'.deleting = FALSE
    BY <2>1, Zenon DEF PodRecs, Code
  <2>3. Typed' /\ ClusterAt' /\ ~ActivePod'
    BY <2>1, <2>2, <1>1, Zenon DEF Typed, ClusterAt, ActivePod
  <2> QED
    BY <2>1, <2>3, <1>1, ClusterKeeps, Zenon
<1> QED
  BY <1>2, <1>3, <1>4, <1>5, <1>6, Zenon

\* The Job: finished, expired, gone.
LEMMA JobSteps ==
  ASSUME Sane, IInv, JobFinishes \/ JobExpires \/ JobGoes
  PROVE  IInv'
<1>1. /\ UNCHANGED <<pod, lock, wait, call, exited, signals>> /\ Typed /\ ClusterAt /\ job \in Jobs
      /\ (Undisturbed' <=> Undisturbed) /\ (ActivePod' <=> ActivePod)
      /\ \A w \in Waiters : (Waits(w)' <=> Waits(w)) /\ (Sole(w)' <=> Sole(w))
  <2>1. UNCHANGED <<pod, lock, wait, call, exited, signals>>
    BY Zenon DEF JobFinishes, JobExpires, JobGoes
  <2>2. Typed /\ ClusterAt
    BY Zenon DEF IInv
  <2>3. (Undisturbed' <=> Undisturbed) /\ (ActivePod' <=> ActivePod)
    BY <2>1, Zenon DEF Undisturbed, ActivePod
  <2>4. \A w \in Waiters : (Waits(w)' <=> Waits(w)) /\ (Sole(w)' <=> Sole(w))
    BY <2>1, Zenon DEF Waits, Sole
  <2> QED
    BY <2>1, <2>2, <2>3, <2>4, TypedRecords, Zenon
<1>2. CASE JobFinishes
  <2>1. /\ job' = [job EXCEPT !.finished = TRUE] /\ pod.phase = "Exited" /\ unseen' = Polling
    BY <1>2, Zenon DEF JobFinishes
  <2>2. /\ job' \in Jobs /\ job'.finished = TRUE /\ job'.exists = job.exists
        /\ job'.deleting = job.deleting /\ job'.signal = job.signal
    BY <2>1, <1>1, Zenon DEF Jobs
  <2>3. Typed' /\ ClusterAt' /\ (Doomed' <=> Doomed)
    BY <2>1, <2>2, <1>1, Zenon DEF Typed, ClusterAt, Doomed, Polling
  <2>4. \A w \in Waiters : Waits(w) => w \in unseen'
    BY <2>1, Zenon DEF Waits, Polling
  <2>5. \A w \in Waiters : ReaderAt(w)'
    BY <2>3, <2>4, <1>1, Zenon DEF IInv, ReaderAt
  <2> QED
    BY <2>3, <2>5, <1>1, ClusterKeeps, Zenon
<1>3. CASE JobExpires
  <2>1. job' = [job EXCEPT !.deleting = TRUE] /\ job.finished /\ UNCHANGED unseen /\ unseen = {}
    BY <1>3, Zenon DEF JobExpires
  <2>2. /\ job' \in Jobs /\ job'.finished = job.finished /\ job'.signal = job.signal
        /\ job'.deleting = TRUE
    BY <2>1, <1>1, Zenon DEF Jobs
  <2>3. Typed' /\ ClusterAt' /\ Doomed'
    BY <2>1, <2>2, <1>1, Zenon DEF Typed, ClusterAt, Doomed
  <2>4. \A w \in Waiters : ReaderAt(w)'
    BY <2>1, <1>1, Zenon DEF IInv, ReaderAt
  <2> QED
    BY <2>3, <2>4, <1>1, ClusterKeeps, Zenon
<1>4. CASE JobGoes
  <2>1. job' = [job EXCEPT !.exists = FALSE] /\ job.deleting /\ UNCHANGED unseen
    BY <1>4, Zenon DEF JobGoes
  <2>2. /\ job' \in Jobs /\ job'.finished = job.finished /\ job'.signal = job.signal
        /\ job'.exists = FALSE
    BY <2>1, <1>1, Zenon DEF Jobs
  <2>3. Typed' /\ ClusterAt' /\ Doomed' /\ Doomed
    BY <2>1, <2>2, <1>1, Zenon DEF Typed, ClusterAt, Doomed
  <2> QED
    BY <2>1, <2>2, <2>3, <1>1, ClusterKeeps, Zenon
<1> QED
  BY <1>2, <1>3, <1>4, Zenon

-----------------------------------------------------------------------------
(* Start, stop, kill and rm. *)

LEMMA CallMoves ==
  ASSUME Typed, NEW c \in Callers, NEW q \in CallRecs, call' = [call EXCEPT ![c] = q]
  PROVE  /\ call' \in [Callers -> CallRecs] /\ call'[c] = q
         /\ \A d \in Callers \ {c} : call'[d] = call[d]
<1>1. call \in [Callers -> CallRecs]
  BY TypedRecords, Zenon
<1> QED
  BY <1>1, Zenon

LEMMA CallReturns ==
  ASSUME Typed, NEW c \in Callers, NEW res \in {"ok", "conflict", "notFound", "timeout"},
         Return(c, res)
  PROVE  /\ call' \in [Callers -> CallRecs] /\ call'[c].pc = "done" /\ call'[c].result = res
         /\ call'[c].started = call[c].started
         /\ \A d \in Callers : call'[d].op = call[d].op
         /\ \A d \in Callers \ {c} : call'[d] = call[d]
<1> DEFINE q == [call[c] EXCEPT !.pc = "done", !.result = res]
<1>1. call[c] \in CallRecs
  BY TypedRecords, Zenon
<1>2. /\ q \in CallRecs /\ q.pc = "done" /\ q.result = res /\ q.started = call[c].started
      /\ q.op = call[c].op
  BY <1>1, Zenon DEF CallRecs, CallPcs
<1>3. call' = [call EXCEPT ![c] = q]
  BY Zenon DEF Return
<1> HIDE DEF q
<1> QED
  BY <1>2, <1>3, CallMoves, Zenon

LEMMA CallGoes ==
  ASSUME Typed, NEW c \in Callers, NEW step \in CallPcs, Goto(c, step)
  PROVE  /\ call' \in [Callers -> CallRecs] /\ call'[c].pc = step
         /\ call'[c].started = call[c].started /\ call'[c].result = call[c].result
         /\ \A d \in Callers : call'[d].op = call[d].op
         /\ \A d \in Callers \ {c} : call'[d] = call[d]
<1> DEFINE q == [call[c] EXCEPT !.pc = step]
<1>1. call[c] \in CallRecs
  BY TypedRecords, Zenon
<1>2. /\ q \in CallRecs /\ q.pc = step /\ q.result = call[c].result
      /\ q.started = call[c].started /\ q.op = call[c].op
  BY <1>1, Zenon DEF CallRecs
<1>3. call' = [call EXCEPT ![c] = q]
  BY Zenon DEF Goto
<1> HIDE DEF q
<1> QED
  BY <1>2, <1>3, CallMoves, Zenon

\* A call begins, and gets its lock.
LEMMA CallBegins ==
  ASSUME Sane, IInv, NEW c \in Callers, Call(c) \/ Lock(c)
  PROVE  IInv'
<1>1. /\ Typed /\ ClusterAt /\ CallerAt(c) /\ UNCHANGED <<job, pod, wait, unseen, exited, signals>>
      /\ call[c] \in CallRecs
  <2>1. UNCHANGED <<job, pod, wait, unseen, exited, signals>>
    BY Zenon DEF Call, Lock
  <2> QED
    BY <2>1, TypedRecords, Zenon DEF IInv
<1>2. (Doomed' <=> Doomed) /\ job'.signal \in signals' \cup {NoCode}
  BY <1>1, Zenon DEF Doomed, ClusterAt
<1>3. CASE Call(c)
  <2>1. PICK op \in {"start", "stop", "kill", "rm", "rmForce"} :
           call' = [call EXCEPT ![c].pc = "lock", ![c].op = op]
    BY <1>3, Zenon DEF Call
  <2> DEFINE q == [call[c] EXCEPT !.pc = "lock", !.op = op]
  <2>2. /\ q \in CallRecs /\ q.pc = "lock" /\ q.started = call[c].started /\ q.op = op
        /\ call' = [call EXCEPT ![c] = q]
    BY <2>1, <1>1, Zenon DEF CallRecs, CallPcs
  <2> HIDE DEF q
  <2>3. /\ call' \in [Callers -> CallRecs] /\ call'[c] = q
        /\ \A d \in Callers \ {c} : call'[d] = call[d]
    BY <2>2, <1>1, CallMoves, Zenon
  <2>4. ~call[c].started /\ call[c].op = "none" /\ UNCHANGED lock
    BY <1>1, <1>3, Zenon DEF Call, CallerAt
  <2>5. Typed' /\ CallerAt(c)'
    BY <2>2, <2>3, <2>4, <1>1, Zenon DEF Typed, CallerAt, StoppedAt
  <2>6. Undisturbed' => Undisturbed
    BY <2>3, <2>4, Zenon DEF Undisturbed
  <2> QED
    BY <2>3, <2>5, <2>6, <1>1, <1>2, CallKeeps, Zenon
<1>4. CASE Lock(c)
  <2>1. call[c].pc = "lock" /\ ~call[c].started
    BY <1>1, <1>4, Zenon DEF Lock, CallerAt
  <2>2. ASSUME NEW res \in {"ok", "conflict", "notFound"}, Return(c, res), UNCHANGED lock PROVE IInv'
    <3>1. /\ call' \in [Callers -> CallRecs] /\ call'[c].pc = "done" /\ call'[c].result = res
          /\ call'[c].started = call[c].started
          /\ \A d \in Callers : call'[d].op = call[d].op
          /\ \A d \in Callers \ {c} : call'[d] = call[d]
      BY <2>2, <1>1, CallReturns, Zenon
    <3>2. Typed' /\ CallerAt(c)'
      BY <3>1, <2>1, <2>2, <1>1, Zenon DEF Typed, CallerAt, StoppedAt
    <3>3. Undisturbed' => Undisturbed
      BY <3>1, Zenon DEF Undisturbed
    <3> QED
      BY <3>1, <3>2, <3>3, <1>1, <1>2, CallKeeps, Zenon
  <2> DEFINE step == FirstStep(call[c].op, job)
             q == [call[c] EXCEPT !.pc = step, !.started = Started(job)]
  <2>3. ASSUME step \notin {"none", "conflict"}, lock' = c,
               call' = [call EXCEPT ![c].pc = step, ![c].started = Started(job)]
        PROVE  IInv'
    <3>1. CASE call[c].op \in {"start", "stop", "kill", "rm", "rmForce"}
      <4>1. /\ step \in {"unsuspend", "waitStart", "annotate", "delete"}
            /\ step \in {"unsuspend", "waitStart"} => call[c].op = "start"
            /\ step = "annotate" => call[c].op \in {"stop", "kill"}
            /\ step = "delete" => call[c].op \in {"rm", "rmForce"}
        BY <2>3, <3>1, Zenon DEF FirstStep
      <4>2. Started(job) \in BOOLEAN
        BY Zenon DEF Started
      <4>3. call' = [call EXCEPT ![c] = q]
        BY <2>3, Zenon
      <4> HIDE DEF step
      <4>4. q \in CallRecs /\ q.pc = step /\ q.op = call[c].op
        BY <4>1, <4>2, <1>1, Zenon DEF CallRecs, CallPcs
      <4> HIDE DEF q
      <4>5. /\ call' \in [Callers -> CallRecs] /\ call'[c] = q
            /\ \A d \in Callers \ {c} : call'[d] = call[d]
        BY <4>3, <4>4, <1>1, CallMoves, Zenon
      <4>6. Typed' /\ CallerAt(c)'
        BY <4>1, <4>4, <4>5, <2>3, <1>1, Zenon DEF Typed, CallerAt, StoppedAt
      <4>7. Undisturbed' => Undisturbed
        BY <4>4, <4>5, Zenon DEF Undisturbed
      <4> QED
        BY <4>5, <4>6, <4>7, <1>1, <1>2, CallKeeps, Zenon
    <3>2. CASE call[c].op = "none"
      BY <3>2, <2>1, <1>1, Zenon DEF CallerAt
    <3> QED
      BY <3>1, <3>2, <1>1, Zenon DEF CallRecs
  <2> HIDE DEF step, q
  <2>4. CASE job.exists
    BY <2>2, <2>3, <2>4, <1>4, Zenon DEF Lock, step
  <2>5. CASE ~job.exists
    BY <2>2, <2>5, <1>4, Zenon DEF Lock
  <2> QED
    BY <2>4, <2>5, Zenon
<1> QED
  BY <1>3, <1>4, Zenon

\* A call deletes the Job, or says that it will be.
LEMMA CallDeletes ==
  ASSUME Sane, IInv, NEW c \in Callers, Annotate(c) \/ DeleteForeground(c) \/ Delete(c)
  PROVE  IInv'
<1>1. /\ Typed /\ ClusterAt /\ CallerAt(c) /\ job \in Jobs
  BY Zenon DEF IInv, Typed
<1>2. /\ UNCHANGED <<pod, wait, unseen, exited>>
      /\ call[c].pc \in {"annotate", "deleteForeground", "delete"}
  BY Zenon DEF Annotate, DeleteForeground, Delete
<1>3. call[c].op \in {"stop", "kill", "rm", "rmForce"}
  BY <1>1, <1>2, Zenon DEF CallerAt
<1>4. ASSUME Typed', CallerAt(c)', \A d \in Callers : call'[d].op = call[d].op,
             \A d \in Callers \ {c} : call'[d] = call[d], signals \subseteq signals',
             Doomed => Doomed', job'.finished = job.finished, job'.signal \in signals' \cup {NoCode}
      PROVE  IInv'
  <2>1. ~Undisturbed'
    BY <1>3, <1>4, Zenon DEF Undisturbed
  <2> QED
    BY <2>1, <1>2, <1>4, CallKeeps, Zenon
<1>5. CASE Annotate(c)
  <2>1. CASE job.exists
    <3>1. PICK code \in {137, 143} : /\ job' = [job EXCEPT !.signal = code]
                                     /\ signals' = signals \cup {code}
      BY <1>5, <2>1, Zenon DEF Annotate
    <3>2. Goto(c, "deleteForeground") /\ UNCHANGED lock /\ call[c].pc = "annotate"
      BY <1>5, <2>1, Zenon DEF Annotate
    <3>3. /\ job' \in Jobs /\ job'.finished = job.finished /\ job'.signal = code
          /\ job'.exists = job.exists /\ job'.deleting = job.deleting
      <4>1. code \in Code /\ job \in Jobs
        BY <1>1, Zenon DEF Code
      <4> QED
        BY <4>1, <3>1, Zenon DEF Jobs
    <3>4. /\ call' \in [Callers -> CallRecs] /\ call'[c].pc = "deleteForeground"
          /\ \A d \in Callers : call'[d].op = call[d].op
          /\ \A d \in Callers \ {c} : call'[d] = call[d]
      BY <3>2, <1>1, CallGoes, Zenon DEF CallPcs
    <3>5. CallerAt(c)' /\ (Doomed => Doomed')
      BY <3>3, <3>4, <1>1, <1>3, <3>2, Zenon DEF CallerAt, StoppedAt, Doomed
    <3>6. signals' \subseteq {137, 143} /\ signals \subseteq signals' /\ code \in signals'
      <4>1. signals \subseteq {137, 143}
        BY <1>1, Zenon DEF Typed
      <4> QED
        BY <4>1, <3>1, SMT
    <3>7. Typed'
      BY <3>2, <3>3, <3>4, <3>6, <1>1, <1>2, Zenon DEF Typed
    <3> QED
      BY <3>3, <3>4, <3>5, <3>6, <3>7, <1>4, Zenon
  <2>2. CASE ~job.exists
    <3>1. Return(c, "notFound") /\ lock' = Free /\ UNCHANGED <<job, signals>>
      BY <1>5, <2>2, Zenon DEF Annotate
    <3>2. /\ call' \in [Callers -> CallRecs] /\ call'[c].pc = "done" /\ call'[c].result = "notFound"
          /\ \A d \in Callers : call'[d].op = call[d].op
          /\ \A d \in Callers \ {c} : call'[d] = call[d]
      BY <3>1, <1>1, CallReturns, Zenon
    <3>3. Typed' /\ CallerAt(c)' /\ (Doomed => Doomed')
      BY <3>1, <3>2, <1>1, <1>2, <1>3, Zenon DEF Typed, CallerAt, StoppedAt, Doomed
    <3>4. job'.finished = job.finished /\ job'.signal \in signals' \cup {NoCode}
      BY <3>1, <1>1, Zenon DEF ClusterAt
    <3> QED
      BY <3>1, <3>2, <3>3, <3>4, <1>4, Zenon
  <2> QED
    BY <2>1, <2>2, Zenon
<1>6. CASE DeleteForeground(c) \/ Delete(c)
  <2>1. Goto(c, "waitStopped") /\ UNCHANGED <<lock, signals>>
    BY <1>6, Zenon DEF DeleteForeground, Delete
  <2>2. /\ call' \in [Callers -> CallRecs] /\ call'[c].pc = "waitStopped"
        /\ \A d \in Callers : call'[d].op = call[d].op
        /\ \A d \in Callers \ {c} : call'[d] = call[d]
    BY <2>1, <1>1, CallGoes, Zenon DEF CallPcs
  <2>3. /\ job' \in Jobs /\ job'.finished = job.finished /\ job'.signal = job.signal
        /\ (Doomed => Doomed') /\ (call[c].op \in {"stop", "kill"} => Doomed')
    <3>1. CASE DeleteForeground(c)
      <4>1. job' = [job EXCEPT !.deleting = job.exists] /\ job.exists \in BOOLEAN
        BY <3>1, <1>1, Zenon DEF DeleteForeground, Jobs
      <4>2. /\ job' \in Jobs /\ job'.finished = job.finished /\ job'.signal = job.signal
            /\ job'.exists = job.exists /\ job'.deleting = job.exists
        BY <4>1, <1>1, Zenon DEF Jobs
      <4> QED
        BY <4>2, Zenon DEF Doomed
    <3>2. CASE Delete(c)
      <4> DEFINE e == job.exists /\ job.deleting
      <4>1. job' = [job EXCEPT !.exists = e] /\ e \in BOOLEAN
        BY <3>2, Zenon DEF Delete, DeleteWorkload
      <4> HIDE DEF e
      <4>2. /\ job' \in Jobs /\ job'.finished = job.finished /\ job'.signal = job.signal
            /\ job'.exists = e /\ job'.deleting = job.deleting
        BY <4>1, <1>1, Zenon DEF Jobs
      <4>3. Doomed => Doomed'
        BY <4>2, Zenon DEF Doomed, e
      <4>4. call[c].op \notin {"stop", "kill"}
        BY <3>2, <1>1, Zenon DEF Delete, CallerAt
      <4> QED
        BY <4>2, <4>3, <4>4, Zenon
    <3> QED
      BY <1>6, <3>1, <3>2, Zenon
  <2>4. Typed' /\ CallerAt(c)'
    <3>1. Typed'
      BY <2>1, <2>2, <2>3, <1>1, <1>2, Zenon DEF Typed
    <3>2. CallerAt(c)'
      BY <2>2, <2>3, <1>3, Zenon DEF CallerAt, StoppedAt
    <3> QED
      BY <3>1, <3>2, Zenon
  <2>5. job'.signal \in signals' \cup {NoCode}
    BY <2>1, <2>3, <1>1, Zenon DEF ClusterAt
  <2> QED
    BY <2>1, <2>2, <2>3, <2>4, <2>5, <1>4, Zenon
<1> QED
  BY <1>5, <1>6, Zenon

\* A call ends: the container has stopped, is started, or takes too long.
LEMMA CallEnds ==
  ASSUME Sane, IInv, NEW c \in Callers, WaitStopped(c) \/ WaitTimesOut(c) \/ Unsuspend(c)
  PROVE  IInv'
<1>1. /\ Typed /\ ClusterAt /\ CallerAt(c) /\ job \in Jobs
  BY Zenon DEF IInv, Typed
<1>2. /\ UNCHANGED <<pod, wait, unseen, exited, signals>>
      /\ call[c].pc \in {"waitStopped", "waitStart", "unsuspend"}
  BY Zenon DEF WaitStopped, WaitTimesOut, Unsuspend
<1>3. ASSUME Typed', CallerAt(c)', \A d \in Callers : call'[d].op = call[d].op,
             \A d \in Callers \ {c} : call'[d] = call[d], Doomed' <=> Doomed,
             job'.finished = job.finished, job'.signal = job.signal
      PROVE  IInv'
  <2>1. Undisturbed' => Undisturbed
    BY <1>3, Zenon DEF Undisturbed
  <2>2. job'.signal \in signals' \cup {NoCode}
    BY <1>1, <1>2, <1>3, Zenon DEF ClusterAt
  <2> QED
    BY <2>1, <2>2, <1>2, <1>3, CallKeeps, Zenon
<1>4. CASE WaitStopped(c)
  <2>1. UNCHANGED job /\ ~ActivePod /\ (Doomed' <=> Doomed) /\ (ActivePod' <=> ActivePod)
    BY <1>2, <1>4, Zenon DEF WaitStopped, Doomed, ActivePod
  <2>2. CASE call[c].pc = "waitStopped"
    <3>1. Return(c, "ok") /\ lock' = Free
      BY <1>4, <2>2, Zenon DEF WaitStopped
    <3>2. /\ call' \in [Callers -> CallRecs] /\ call'[c].pc = "done"
          /\ \A d \in Callers : call'[d].op = call[d].op
          /\ \A d \in Callers \ {c} : call'[d] = call[d]
      BY <3>1, <1>1, CallReturns, Zenon
    <3>3. Typed' /\ CallerAt(c)'
      BY <3>1, <3>2, <2>1, <2>2, <1>1, <1>2, Zenon DEF Typed, CallerAt, StoppedAt
    <3> QED
      BY <3>2, <3>3, <2>1, <1>3, Zenon
  <2>3. CASE call[c].pc # "waitStopped"
    <3>1. Goto(c, "unsuspend") /\ UNCHANGED lock /\ call[c].pc = "waitStart"
      BY <1>4, <2>3, Zenon DEF WaitStopped
    <3>2. /\ call' \in [Callers -> CallRecs] /\ call'[c].pc = "unsuspend"
          /\ \A d \in Callers : call'[d].op = call[d].op
          /\ \A d \in Callers \ {c} : call'[d] = call[d]
      BY <3>1, <1>1, CallGoes, Zenon DEF CallPcs
    <3>3. Typed' /\ CallerAt(c)'
      BY <3>1, <3>2, <2>1, <1>1, <1>2, Zenon DEF Typed, CallerAt, StoppedAt
    <3> QED
      BY <3>2, <3>3, <2>1, <1>3, Zenon
  <2> QED
    BY <2>2, <2>3, Zenon
<1>5. CASE WaitTimesOut(c)
  <2>1. Return(c, "timeout") /\ lock' = Free /\ UNCHANGED job /\ (Doomed' <=> Doomed)
    BY <1>5, Zenon DEF WaitTimesOut, Doomed
  <2>2. /\ call' \in [Callers -> CallRecs] /\ call'[c].pc = "done" /\ call'[c].result = "timeout"
        /\ \A d \in Callers : call'[d].op = call[d].op
        /\ \A d \in Callers \ {c} : call'[d] = call[d]
    BY <2>1, <1>1, CallReturns, Zenon
  <2>3. Typed' /\ CallerAt(c)'
    BY <2>1, <2>2, <1>1, <1>2, Zenon DEF Typed, CallerAt, StoppedAt
  <2> QED
    BY <2>1, <2>2, <2>3, <1>3, Zenon
<1>6. CASE Unsuspend(c)
  <2> DEFINE u == job.suspend /\ ~job.exists
  <2>1. /\ job' = [job EXCEPT !.suspend = u] /\ u \in BOOLEAN /\ lock' = Free
        /\ call[c].pc = "unsuspend" /\ \E res \in {"ok", "notFound"} : Return(c, res)
    BY <1>6, Zenon DEF Unsuspend
  <2> HIDE DEF u
  <2>2. /\ job' \in Jobs /\ job'.finished = job.finished /\ job'.signal = job.signal
        /\ job'.exists = job.exists /\ job'.deleting = job.deleting
    BY <2>1, <1>1, Zenon DEF Jobs
  <2>3. /\ call' \in [Callers -> CallRecs] /\ call'[c].pc = "done"
        /\ \A d \in Callers : call'[d].op = call[d].op
        /\ \A d \in Callers \ {c} : call'[d] = call[d]
    BY <2>1, <1>1, CallReturns, Zenon
  <2>4. Typed' /\ CallerAt(c)' /\ (Doomed' <=> Doomed)
    BY <2>1, <2>2, <2>3, <1>1, <1>2, Zenon DEF Typed, CallerAt, StoppedAt, Doomed
  <2> QED
    BY <2>2, <2>3, <2>4, <1>3, Zenon
<1> QED
  BY <1>4, <1>5, <1>6, Zenon

-----------------------------------------------------------------------------
(* The clients in ContainerWait. *)

LEMMA WaitMoves ==
  ASSUME Typed, NEW w \in Waiters, NEW q \in WaitRecs, wait' = [wait EXCEPT ![w] = q]
  PROVE  /\ wait' \in [Waiters -> WaitRecs] /\ wait'[w] = q
         /\ \A v \in Waiters \ {w} : wait'[v] = wait[v]
<1>1. wait \in [Waiters -> WaitRecs]
  BY TypedRecords, Zenon
<1> QED
  BY <1>1, Zenon

\* A step of w that leaves the Job alone.
LEMMA WaitWrites ==
  ASSUME IInv, NEW w \in Waiters, NEW q \in WaitRecs, wait' = [wait EXCEPT ![w] = q],
         q.condition = wait[w].condition \/ wait[w].condition = "none",
         UNCHANGED <<job, pod, call, exited, signals>>,
         lock' \in Waiters \cup Callers \cup {Free}, unseen' = unseen \/ unseen' = unseen \ {w},
         WaiterAt(w)', ReaderAt(w)'
  PROVE  IInv'
<1>1. Typed /\ ClusterAt
  BY Zenon DEF IInv
<1>2. /\ wait' \in [Waiters -> WaitRecs] /\ wait'[w] = q
      /\ \A v \in Waiters \ {w} : wait'[v] = wait[v]
  BY <1>1, WaitMoves, Zenon
<1>3. unseen' \subseteq Waiters /\ \A v \in Waiters \ {w} : v \in unseen => v \in unseen'
  BY <1>1, Zenon DEF Typed
<1>4. Typed'
  BY <1>1, <1>2, <1>3, Zenon DEF Typed
<1>5. \A v \in Waiters : Sole(v)' => Sole(v)
  BY <1>2, Zenon DEF Sole
<1>6. Doomed' <=> Doomed
  BY Zenon DEF Doomed
<1>7. Undisturbed /\ Doomed' => exited # NoCode
  BY <1>1, <1>6, Zenon DEF ClusterAt
<1>8. job'.finished = job.finished /\ job'.signal = job.signal
  BY Zenon
<1> QED
  BY <1>2, <1>3, <1>4, <1>5, <1>6, <1>7, <1>8, WaitKeeps, Zenon

LEMMA AttachSteps ==
  ASSUME Sane, IInv, NEW w \in Waiters, Attach(w)
  PROVE  IInv'
<1>1. /\ Typed /\ ClusterAt /\ WaiterAt(w) /\ wait[w] \in WaitRecs
      /\ lock \in Waiters \cup Callers \cup {Free}
  BY WaiterFacts, Zenon
<1>2. PICK condition \in {"not-running", "next-exit", "removed"} :
         wait' = [wait EXCEPT ![w].pc = "refresh", ![w].condition = condition,
                              ![w].early = (exited = NoCode)]
  BY Zenon DEF Attach
<1>3. wait[w].pc = "idle" /\ UNCHANGED <<job, pod, lock, call, unseen, exited, signals>>
  BY Zenon DEF Attach
<1> DEFINE e == (exited = NoCode)
           q == [wait[w] EXCEPT !.pc = "refresh", !.condition = condition, !.early = e]
<1>4. wait' = [wait EXCEPT ![w] = q] /\ e \in BOOLEAN
  BY <1>2, Zenon
<1>5. e => exited = NoCode
  BY Zenon
<1> HIDE DEF e
<1>6. /\ q \in WaitRecs /\ q.pc = "refresh" /\ q.condition = condition /\ q.early = e
      /\ q.code = wait[w].code /\ q.signal = wait[w].signal
  BY <1>1, <1>4, Zenon DEF WaitRecs
<1> HIDE DEF q
<1>7. wait'[w] = q
  BY <1>1, <1>4, <1>6, WaitMoves, Zenon
<1>8. wait[w].condition = "none" /\ wait[w].code = NoCode
  BY <1>1, <1>3, Zenon DEF WaiterAt
<1>9. WaiterAt(w)'
  BY <1>1, <1>3, <1>6, <1>7, <1>8, Zenon DEF WaiterAt
<1>10. Undisturbed' /\ e => ~Doomed' /\ ~job'.finished
  BY <1>1, <1>3, <1>5, Zenon DEF ClusterAt, Undisturbed, Doomed
<1>11. ReaderAt(w)'
  BY <1>6, <1>7, <1>8, <1>10, Zenon DEF ReaderAt
<1> QED
  BY <1>1, <1>3, <1>4, <1>6, <1>8, <1>9, <1>11, WaitWrites, Zenon

LEMMA RefreshSteps ==
  ASSUME Sane, IInv, NEW w \in Waiters, Refresh(w)
  PROVE  IInv'
<1>1. /\ Typed /\ ClusterAt /\ WaiterAt(w) /\ ReaderAt(w) /\ wait[w] \in WaitRecs /\ job \in Jobs
      /\ lock \in Waiters \cup Callers \cup {Free}
  BY WaiterFacts, Zenon
<1>2. wait[w].pc = "refresh" /\ UNCHANGED <<job, pod, lock, call, unseen, exited, signals>>
  BY Zenon DEF Refresh
<1>3. (Undisturbed' => Undisturbed) /\ (Doomed' <=> Doomed)
  BY <1>2, Zenon DEF Undisturbed, Doomed
<1>4. CASE ~job.exists
  <2> DEFINE a == IF wait[w].code # NoCode THEN wait[w].code ELSE 0
             q == [wait[w] EXCEPT !.pc = "done", !.code = a]
  <2>1. /\ wait' = [wait EXCEPT ![w] = q] /\ a \in Code \cup {0} /\ a # NoCode
        /\ (wait[w].code # NoCode => a = wait[w].code)
        /\ (wait[w].code = NoCode => a = 0)
    <3>1. wait' = [wait EXCEPT ![w] = q]
      BY <1>4, Zenon DEF Refresh, Answer
    <3>2. wait[w].code \in Code \cup {0}
      BY <1>1, Zenon DEF WaitRecs
    <3> QED
      BY <3>1, <3>2, Zenon DEF Sane
  <2> HIDE DEF a
  <2>2. /\ q \in WaitRecs /\ q.pc = "done" /\ q.condition = wait[w].condition
        /\ q.early = wait[w].early /\ q.code = a /\ q.signal = wait[w].signal
    BY <2>1, <1>1, Zenon DEF WaitRecs
  <2> HIDE DEF q
  <2>3. wait'[w] = q /\ \A v \in Waiters \ {w} : wait'[v] = wait[v]
    BY <1>1, <2>1, <2>2, WaitMoves, Zenon
  <2>4. WaiterAt(w)'
    BY <1>1, <1>2, <2>1, <2>2, <2>3, Zenon DEF WaiterAt
  <2>5. (Sole(w)' => Sole(w)) /\ Doomed
    BY <1>4, <2>3, Zenon DEF Sole, Doomed
  <2>6. ReaderAt(w)'
    BY <1>1, <1>2, <1>3, <2>1, <2>2, <2>3, <2>5, Zenon DEF ReaderAt, Waits
  <2> QED
    BY <1>1, <1>2, <2>1, <2>2, <2>4, <2>6, WaitWrites, Zenon
<1>5. CASE job.exists
  <2> DEFINE p == IF wait[w].code = NoCode THEN "pods" ELSE "refresh"
             s == Started(job)
             g == job.signal
             q == [wait[w] EXCEPT !.pc = p, !.started = s, !.signal = g]
  <2>1. wait' = [wait EXCEPT ![w] = q]
    BY <1>5, Zenon DEF Refresh
  <2>2. /\ s \in BOOLEAN /\ g \in Code /\ g \in signals \cup {NoCode}
        /\ (wait[w].code = NoCode => p = "pods") /\ (wait[w].code # NoCode => p = "refresh")
    BY <1>1, Zenon DEF Started, ClusterAt, Jobs
  <2> HIDE DEF p, s, g
  <2>3. /\ q \in WaitRecs /\ q.pc = p /\ q.condition = wait[w].condition
        /\ q.early = wait[w].early /\ q.code = wait[w].code /\ q.signal = g
    BY <2>2, <1>1, Zenon DEF WaitRecs
  <2> HIDE DEF q
  <2>4. wait'[w] = q /\ \A v \in Waiters \ {w} : wait'[v] = wait[v]
    BY <1>1, <2>1, <2>3, WaitMoves, Zenon
  <2>5. WaiterAt(w)'
    BY <1>1, <1>2, <2>2, <2>3, <2>4, Zenon DEF WaiterAt
  <2>6. Sole(w)' => Sole(w)
    BY <2>4, Zenon DEF Sole
  <2>7. ReaderAt(w)'
    BY <1>1, <1>2, <1>3, <2>2, <2>3, <2>4, <2>6, Zenon DEF ReaderAt, Waits
  <2> QED
    BY <1>1, <1>2, <2>1, <2>3, <2>5, <2>7, WaitWrites, Zenon
<1> QED
  BY <1>4, <1>5, Zenon

\* A poll of the Pods: what it finds is the code, if the process has exited.
LEMMA PollSteps ==
  ASSUME Sane, IInv, NEW w \in Waiters, Poll(w)
  PROVE  IInv'
<1>1. /\ Typed /\ ClusterAt /\ WaiterAt(w) /\ ReaderAt(w) /\ wait[w] \in WaitRecs /\ pod \in PodRecs
      /\ lock \in Waiters \cup Callers \cup {Free}
  BY WaiterFacts, Zenon
<1>2. wait[w].pc = "pods" /\ UNCHANGED <<job, pod, lock, call, exited, signals>>
  BY Zenon DEF Poll
<1>3. (Undisturbed' => Undisturbed) /\ (Doomed' <=> Doomed)
  BY <1>2, Zenon DEF Undisturbed, Doomed
<1> DEFINE running == OwnedPod /\ pod.phase = "Running"
           seen == wait[w].seenRunning \/ running
           code == ExitCode(w, running)
           over == code # NoCode \/ (~wait[w].started /\ ~running)
           answers == \/ wait[w].condition = "not-running" /\ over
                      \/ /\ wait[w].condition = "next-exit" /\ over
                         /\ ~wait[w].firstCheck /\ seen
           removes == wait[w].condition = "removed" /\ code # NoCode
           p == IF removes THEN "rm" ELSE IF ~answers THEN "refresh"
                ELSE IF code = NoCode THEN "unavailable" ELSE "done"
           k == IF removes \/ answers THEN code ELSE NoCode
           q == [wait[w] EXCEPT !.pc = p, !.code = k, !.seenRunning = seen, !.firstCheck = FALSE]
<1>4. /\ wait' = [wait EXCEPT ![w] = q]
      /\ unseen' = IF wait'[w].pc = "rm" THEN unseen ELSE unseen \ {w}
  <2>1. wait' = [wait EXCEPT ![w] = q]
    BY Zenon DEF Poll
  <2>2. unseen' = IF wait'[w].pc = "rm" THEN unseen ELSE unseen \ {w}
    BY Zenon DEF Poll
  <2> QED
    BY <2>1, <2>2, Zenon
<1>5. /\ code \in Code /\ (code # NoCode => code \in signals \cup {exited})
      /\ (pod.phase = "Exited" /\ ~pod.deleting => code = exited)
  <2>1. wait[w].signal \in Code /\ pod.code \in Code /\ NoCode \in Code
    BY <1>1, Zenon DEF WaitRecs, PodRecs, Code
  <2>2. CASE OwnedPod /\ pod.phase = "Exited"
    BY <2>1, <2>2, <1>1, Zenon DEF ExitCode, ClusterAt
  <2>3. CASE ~(OwnedPod /\ pod.phase = "Exited")
    <3>1. code = wait[w].signal \/ code = NoCode
      BY <2>3, Zenon DEF ExitCode
    <3>2. ~(pod.phase = "Exited" /\ ~pod.deleting)
      BY <2>3, Zenon DEF OwnedPod
    <3>3. wait[w].signal \in signals \cup {NoCode}
      BY <1>1, Zenon DEF WaiterAt
    <3> QED
      BY <3>1, <3>2, <3>3, <2>1, Zenon
  <2> QED
    BY <2>2, <2>3, Zenon
<1>6. seen \in BOOLEAN
  BY <1>1, Zenon DEF WaitRecs
<1> HIDE DEF running, seen, code, over
<1>7. /\ (removes <=> wait[w].condition = "removed" /\ code # NoCode)
      /\ (wait[w].condition = "removed" => ~answers)
  BY Zenon
<1> HIDE DEF answers, removes
<1>8. /\ p \in {"rm", "refresh", "unavailable", "done"}
      /\ (p = "rm" <=> removes) /\ (p = "refresh" => k = NoCode) /\ (p = "done" => k # NoCode)
      /\ (p = "unavailable" => answers) /\ k \in {code, NoCode} /\ (removes => k = code)
      /\ (p = "done" => answers)
  BY <1>7, Zenon
<1> HIDE DEF p, k
<1>9. k \in Code \cup {0} /\ (k # NoCode => k \in signals \cup {exited})
  <2>1. NoCode \in Code
    BY Zenon DEF Code
  <2>2. CASE k = NoCode
    BY <2>1, <2>2, Zenon
  <2>3. CASE k = code
    BY <2>3, <1>5, Zenon
  <2> QED
    BY <2>2, <2>3, <1>8, Zenon
<1>10. /\ q \in WaitRecs /\ q.pc = p /\ q.condition = wait[w].condition
       /\ q.early = wait[w].early /\ q.code = k /\ q.signal = wait[w].signal
  BY <1>1, <1>6, <1>8, <1>9, Zenon DEF WaitRecs
<1> HIDE DEF q
<1>11. wait'[w] = q /\ \A v \in Waiters \ {w} : wait'[v] = wait[v]
  BY <1>1, <1>4, <1>10, WaitMoves, Zenon
<1>12. WaiterAt(w)'
  <2>1. p = "rm" => k # NoCode /\ wait[w].condition = "removed"
    BY <1>7, <1>8, Zenon
  <2> QED
    BY <1>1, <1>2, <1>8, <1>9, <1>10, <1>11, <2>1, Zenon DEF WaiterAt
<1>13. unseen' = (IF p = "rm" THEN unseen ELSE unseen \ {w}) /\ (Sole(w)' => Sole(w))
  BY <1>4, <1>10, <1>11, Zenon DEF Sole
<1>14. ReaderAt(w)'
  <2>1. SUFFICES ASSUME Undisturbed', Sole(w)', wait'[w].condition = "removed", wait'[w].early
                 PROVE  /\ wait'[w].pc \notin {"idle", "error", "unavailable"}
                        /\ wait'[w].code # NoCode => wait'[w].code = exited'
                        /\ Waits(w)' => ~Doomed' /\ (job'.finished => w \in unseen')
    BY Zenon DEF ReaderAt
  <2>2. /\ Undisturbed /\ Sole(w) /\ wait[w].condition = "removed" /\ wait[w].early
    BY <2>1, <1>3, <1>10, <1>11, <1>13, Zenon
  <2>3. ~Doomed /\ (job.finished => w \in unseen)
    BY <2>2, <1>1, <1>2, Zenon DEF ReaderAt, Waits
  <2>4. p \in {"rm", "refresh"} /\ (p = "rm" <=> code # NoCode)
    BY <2>2, <1>7, <1>8, Zenon
  <2>5. signals = {}
    BY <2>2, <1>1, Zenon DEF ClusterAt
  <2>6. k # NoCode => k = exited
    BY <2>5, <1>9, Zenon
  <2>7. job.finished => code # NoCode
    <3>1. job.finished => /\ exited # NoCode /\ pod.phase # "none" /\ ~pod.deleting
                          /\ pod.phase \notin {"Pending", "Running"}
      BY <2>3, <1>1, Zenon DEF ClusterAt
    <3>2. job.finished => pod.phase = "Exited"
      BY <3>1, <1>1, Zenon DEF PodRecs
    <3> QED
      BY <3>1, <3>2, <1>5, Zenon
  <2>8. job'.finished => w \in unseen'
    BY <2>3, <2>4, <2>7, <1>2, <1>13, Zenon
  <2> QED
    BY <2>3, <2>4, <2>6, <2>8, <1>2, <1>3, <1>10, <1>11, Zenon
<1>15. unseen' = unseen \/ unseen' = unseen \ {w}
  BY <1>13, Zenon
<1> QED
  BY <1>1, <1>2, <1>4, <1>10, <1>12, <1>14, <1>15, WaitWrites, Zenon

\* The waiter's own removal of the Job.
LEMMA RemovalSteps ==
  ASSUME Sane, IInv, NEW w \in Waiters, WaiterLocks(w) \/ WaiterDeletes(w) \/ WaiterRemoved(w)
  PROVE  IInv'
<1>1. /\ Typed /\ ClusterAt /\ WaiterAt(w) /\ ReaderAt(w) /\ wait[w] \in WaitRecs /\ job \in Jobs
      /\ lock \in Waiters \cup Callers \cup {Free}
  BY WaiterFacts, Zenon
<1>2. wait[w].pc \in {"rm", "rmDelete", "rmWait"} /\ UNCHANGED <<pod, call, exited, signals>>
  BY Zenon DEF WaiterLocks, WaiterDeletes, WaiterRemoved
<1>3. Undisturbed' <=> Undisturbed
  BY <1>2, Zenon DEF Undisturbed
<1>4. wait[w].condition = "removed" /\ wait[w].code # NoCode /\ wait[w].code \in signals \cup {exited}
  BY <1>1, <1>2, Zenon DEF WaiterAt
<1>5. ASSUME NEW p \in {"rmDelete", "rmWait", "refresh"}, wait' = [wait EXCEPT ![w].pc = p]
      PROVE  /\ wait' \in [Waiters -> WaitRecs] /\ \A v \in Waiters \ {w} : wait'[v] = wait[v]
             /\ WaiterAt(w)' /\ ReaderAt(w)'
             /\ \E q \in WaitRecs : wait' = [wait EXCEPT ![w] = q] /\ q.condition = wait[w].condition
  <2> DEFINE q == [wait[w] EXCEPT !.pc = p]
  <2>1. wait' = [wait EXCEPT ![w] = q]
    BY <1>5, Zenon
  <2>2. /\ q \in WaitRecs /\ q.pc = p /\ q.condition = wait[w].condition
        /\ q.early = wait[w].early /\ q.code = wait[w].code /\ q.signal = wait[w].signal
    BY <1>1, Zenon DEF WaitRecs
  <2> HIDE DEF q
  <2>3. /\ wait'[w] = q /\ \A v \in Waiters \ {w} : wait'[v] = wait[v]
        /\ wait' \in [Waiters -> WaitRecs]
    BY <1>1, <2>1, <2>2, WaitMoves, Zenon
  <2>4. WaiterAt(w)'
    BY <1>1, <1>2, <1>4, <2>2, <2>3, Zenon DEF WaiterAt
  <2>5. Sole(w)' => Sole(w)
    BY <2>3, Zenon DEF Sole
  <2>6. ReaderAt(w)'
    BY <1>1, <1>2, <1>3, <1>4, <2>2, <2>3, <2>5, Zenon DEF ReaderAt, Waits
  <2> QED
    BY <2>1, <2>2, <2>3, <2>4, <2>6, Zenon
<1>6. CASE WaiterLocks(w)
  <2>1. unseen' = unseen \ {w} /\ UNCHANGED job /\ wait[w].pc = "rm"
    BY <1>6, Zenon DEF WaiterLocks
  <2>2. CASE job.exists
    <3>1. lock' = w /\ wait' = [wait EXCEPT ![w].pc = "rmDelete"]
      BY <1>6, <2>2, Zenon DEF WaiterLocks
    <3>2. PICK q \in WaitRecs : wait' = [wait EXCEPT ![w] = q] /\ q.condition = wait[w].condition
      BY <3>1, <1>5, Zenon
    <3>3. WaiterAt(w)' /\ ReaderAt(w)'
      BY <3>1, <1>5, Zenon
    <3> QED
      BY <3>1, <3>2, <3>3, <2>1, <1>2, WaitWrites, Zenon
  <2>3. CASE ~job.exists
    <3> DEFINE q == [wait[w] EXCEPT !.pc = "error", !.code = NoCode]
    <3>1. UNCHANGED lock /\ wait' = [wait EXCEPT ![w] = q]
      BY <1>6, <2>3, Zenon DEF WaiterLocks
    <3>2. /\ q \in WaitRecs /\ q.pc = "error" /\ q.condition = wait[w].condition
          /\ q.early = wait[w].early /\ q.code = NoCode /\ q.signal = wait[w].signal
      <4>1. NoCode \in Code \cup {0}
        BY Zenon DEF Code
      <4> QED
        BY <4>1, <1>1, Zenon DEF WaitRecs
    <3> HIDE DEF q
    <3>3. wait'[w] = q /\ \A v \in Waiters \ {w} : wait'[v] = wait[v]
      BY <1>1, <3>1, <3>2, WaitMoves, Zenon
    <3>4. WaiterAt(w)'
      BY <1>1, <1>2, <3>2, <3>3, Zenon DEF WaiterAt
    <3>5. (Sole(w)' => Sole(w)) /\ Doomed
      BY <2>3, <3>3, Zenon DEF Sole, Doomed
    <3>6. ReaderAt(w)'
      BY <1>1, <1>3, <2>1, <3>2, <3>3, <3>5, Zenon DEF ReaderAt, Waits
    <3> QED
      BY <1>1, <1>2, <2>1, <3>1, <3>2, <3>4, <3>6, WaitWrites, Zenon
  <2> QED
    BY <2>2, <2>3, Zenon
<1>7. CASE WaiterDeletes(w)
  <2> DEFINE e == job.exists /\ job.deleting
  <2>1. /\ job' = [job EXCEPT !.exists = e] /\ e \in BOOLEAN /\ UNCHANGED <<lock, unseen>>
        /\ wait' = [wait EXCEPT ![w].pc = "rmWait"]
    BY <1>7, Zenon DEF WaiterDeletes, DeleteWorkload
  <2> HIDE DEF e
  <2>2. /\ job' \in Jobs /\ job'.finished = job.finished /\ job'.signal = job.signal
        /\ job'.exists = e /\ job'.deleting = job.deleting
    BY <2>1, <1>1, Zenon DEF Jobs
  <2>3. Doomed'
    BY <2>2, Zenon DEF Doomed, e
  <2>4. /\ wait' \in [Waiters -> WaitRecs] /\ \A v \in Waiters \ {w} : wait'[v] = wait[v]
        /\ WaiterAt(w)' /\ ReaderAt(w)' /\ wait'[w].condition = "removed"
    <3>1. PICK q \in WaitRecs : wait' = [wait EXCEPT ![w] = q] /\ q.condition = wait[w].condition
      BY <2>1, <1>5, Zenon
    <3>2. wait'[w] = q
      BY <3>1, <1>1, WaitMoves, Zenon
    <3> QED
      BY <2>1, <3>1, <3>2, <1>4, <1>5, Zenon
  <2>5. \A v \in Waiters \ {w} : ~Sole(v)'
    BY <2>4, Zenon DEF Sole
  <2>6. Typed'
    BY <2>1, <2>2, <2>4, <1>1, <1>2, Zenon DEF Typed
  <2>7. Undisturbed /\ Doomed' => exited # NoCode
    BY <1>1, <1>4, Zenon DEF ClusterAt
  <2> QED
    BY <2>1, <2>2, <2>3, <2>4, <2>5, <2>6, <2>7, <1>2, WaitKeeps, Zenon
<1>8. CASE WaiterRemoved(w)
  <2>1. lock' = Free /\ UNCHANGED <<job, unseen>> /\ wait' = [wait EXCEPT ![w].pc = "refresh"]
    BY <1>8, Zenon DEF WaiterRemoved
  <2>2. PICK q \in WaitRecs : wait' = [wait EXCEPT ![w] = q] /\ q.condition = wait[w].condition
    BY <2>1, <1>5, Zenon
  <2>3. WaiterAt(w)' /\ ReaderAt(w)'
    BY <2>1, <1>5, Zenon
  <2> QED
    BY <2>1, <2>2, <2>3, <1>2, WaitWrites, Zenon
<1> QED
  BY <1>6, <1>7, <1>8, Zenon

-----------------------------------------------------------------------------
LEMMA ShotStep == ASSUME Sane, IInv, [Next]_vars PROVE IInv'
<1>1. CASE Cluster
  BY <1>1, PodSteps, JobSteps, Zenon DEF Cluster
<1>2. CASE \E c \in Callers : Call(c) \/ CallStep(c) \/ WaitTimesOut(c)
  BY <1>2, CallBegins, CallDeletes, CallEnds, Zenon DEF CallStep
<1>3. CASE \E w \in Waiters : Attach(w) \/ WaiterStep(w)
  BY <1>3, AttachSteps, RefreshSteps, PollSteps, RemovalSteps, Zenon DEF WaiterStep
<1>4. CASE UNCHANGED vars
  <2>1. UNCHANGED <<job, pod, lock, wait, call, unseen, exited, signals>>
    BY <1>4, Zenon DEF vars
  <2>2. Typed /\ ClusterAt
    BY Zenon DEF IInv
  <2>3. Typed' /\ (Doomed' <=> Doomed) /\ (ActivePod' <=> ActivePod) /\ (Undisturbed' <=> Undisturbed)
    BY <2>1, <2>2, Zenon DEF Typed, Doomed, ActivePod, Undisturbed
  <2>4. ClusterAt'
    BY <2>1, <2>2, <2>3, Zenon DEF ClusterAt
  <2> QED
    BY <2>1, <2>3, <2>4, ClusterKeeps, Zenon
<1> QED
  BY <1>1, <1>2, <1>3, <1>4, Zenon DEF Next, Over

\* For any number of waiting clients and of calls: ContainerWait never makes
\* an exit code up, the client attached to a --rm container from before its
\* exit is told the code its process exited with unless somebody stops or
\* removes the container first, and a stop or kill that succeeds leaves no
\* active Pod and a Job that is going.
THEOREM OneShotIsSafe ==
  ASSUME Sane
  PROVE  Spec => [](TypeOK /\ AnswerIsReal /\ AttachedClientReads /\ StopMeansStopped)
<1>1. Init => IInv
  BY ShotInit
<1>2. IInv /\ [Next]_vars => IInv'
  BY ShotStep
<1>3. ASSUME IInv PROVE TypeOK /\ AnswerIsReal /\ AttachedClientReads /\ StopMeansStopped
  <2>1. /\ Typed /\ (\A w \in Waiters : WaiterAt(w) /\ ReaderAt(w) /\ wait[w] \in WaitRecs)
        /\ \A c \in Callers : CallerAt(c) /\ call[c] \in CallRecs
    BY <1>3, TypedRecords, Zenon DEF IInv
  <2>2. TypeOK
    <3>1. \A w \in Waiters :
             /\ wait[w].pc \in {"idle", "refresh", "pods", "rm", "rmDelete", "rmWait", "unavailable",
                                "error", "done"}
             /\ wait[w].code \in Code \cup {0}
             /\ wait[w].pc = "done" => wait[w].code # NoCode
      BY <2>1, Zenon DEF WaitRecs, WaiterAt
    <3>2. \A c \in Callers : call[c].pc \in CallPcs
      BY <2>1, Zenon DEF CallRecs
    <3>3. signals \subseteq Code
      BY <2>1, Zenon DEF Typed, Code
    <3> QED
      BY <2>1, <3>1, <3>2, <3>3, Zenon DEF TypeOK, Typed, Jobs, PodRecs, CallPcs
  <2>3. AnswerIsReal
    BY <2>1, Zenon DEF AnswerIsReal, Answered, WaiterAt
  <2>4. AttachedClientReads
    BY <2>1, Zenon DEF AttachedClientReads, ReaderAt, WaiterAt
  <2>5. StopMeansStopped
    BY <2>1, Zenon DEF StopMeansStopped, CallerAt, StoppedAt, Doomed
  <2> QED
    BY <2>2, <2>3, <2>4, <2>5, Zenon
<1> QED
  BY <1>1, <1>2, <1>3, PTL DEF Spec
=============================================================================
