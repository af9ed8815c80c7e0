------------------------- MODULE ContainerListing --------------------------
(***************************************************************************)
(* Finding, listing and pruning containers while others create, rename,    *)
(* start, stop and remove them.  Deployments and Jobs are read one after   *)
(* the other (listWorkloads), and every container is inspected later than  *)
(* it was read.  A removal holds the container's lock (ContainerLifecycle) *)
(* and is one step here.                                                   *)
(***************************************************************************)
EXTENDS Integers, Sequences, FiniteSets, SequencesExt, FiniteSetsExt

CONSTANTS
    Slots,              \* containers, each created at most once
    Id,                 \* a container's Docker ID, a sequence of digits
    Jobs,               \* the containers that are Jobs
    Labelled,           \* the containers with the label a prune may ask for
    Names,              \* Docker names, sequences of digits too
    None

VARIABLES c,            \* the containers
          born,         \* the order they were created in
          call,         \* the call under way
          named,        \* the containers that had the call's name since it began
          kept,         \* the containers that existed since the call began
          result        \* of the last call

vars == <<c, born, call, named, kept, result>>

Absent == [exists |-> FALSE, name |-> None, object |-> None, started |-> FALSE, ran |-> FALSE,
           finished |-> FALSE, pod |-> "none", claim |-> FALSE]
Idle == [op |-> "idle"]
NoResult == [op |-> "none"]

Existing == {s \in Slots : c[s].exists}
Named(n) == {s \in Existing : c[s].name = n}

\* What is known of the containers while a call runs.
Observe ==
    /\ named' = IF call.op = "find" THEN {s \in named : c'[s].exists /\ c'[s].name = call.arg} ELSE named
    /\ kept' = {s \in kept : c'[s].exists}
    /\ UNCHANGED <<call, result>>

-----------------------------------------------------------------------------
(* What happens to the containers. *)

\* The Kubernetes object has the container's name unless another object does.
Create(s, n) ==
    /\ s \notin ToSet(born) /\ Named(n) = {}
    /\ c' = [c EXCEPT ![s] = [Absent EXCEPT !.exists = TRUE, !.name = n, !.claim = TRUE,
                  !.object = IF \E t \in Existing : c[t].object = n THEN None ELSE n]]
    /\ born' = Append(born, s)
    /\ Observe

Rename(s, n) ==
    /\ s \in Existing /\ Named(n) = {}
    /\ c' = [c EXCEPT ![s].name = n] /\ UNCHANGED born /\ Observe

Start(s) ==
    /\ s \in Existing /\ ~c[s].started /\ ~c[s].finished /\ c[s].pod = "none"
    /\ c' = [c EXCEPT ![s].started = TRUE, ![s].ran = TRUE, ![s].pod = "active"]
    /\ UNCHANGED born /\ Observe

\* Only a Job finishes.
FinishedBy(s) == s \in Jobs

\* A Job's Pod ends by itself; a Deployment's only when it is stopped.
PodEnds(s) ==
    /\ c[s].pod = "active" /\ (s \in Jobs \/ ~c[s].started)
    /\ c' = [c EXCEPT ![s].pod = IF s \in Jobs THEN "ended" ELSE "none", ![s].finished = FinishedBy(s)]
    /\ UNCHANGED born /\ Observe

Stop(s) ==
    /\ s \in Existing \ Jobs /\ c[s].started
    /\ c' = [c EXCEPT ![s].started = FALSE] /\ UNCHANGED born /\ Observe

\* docker rm -v of a container that does not run.
Rm(s) ==
    /\ s \in Existing /\ (~c[s].started \/ c[s].finished)
    /\ c' = [c EXCEPT ![s] = Absent] /\ UNCHANGED born /\ Observe

-----------------------------------------------------------------------------
(* The reads of a call. *)

Begin(request) ==
    /\ call = Idle
    /\ call' = request
    /\ named' = IF request.op = "find" THEN Named(request.arg) ELSE {}
    /\ kept' = Existing
    /\ result' = NoResult
    /\ UNCHANGED <<c, born>>

Return(value) ==
    /\ call' = Idle /\ result' = value
    /\ UNCHANGED <<c, born, named, kept>>

Goto(next) == call' = next /\ UNCHANGED <<c, born, named, kept, result>>

\* listWorkloads: Deployments, then Jobs.
ReadDeployments ==
    /\ call.op # "idle" /\ call.pc = "deployments"
    /\ Goto([call EXCEPT !.pc = "jobs", !.read = {[c[s] EXCEPT !.object = s] : s \in Existing \ Jobs}])

ReadJobs ==
    /\ call.op # "idle" /\ call.pc = "jobs"
    /\ Goto([call EXCEPT !.pc = "items", !.read = @ \cup {[c[s] EXCEPT !.object = s] : s \in Existing \cap Jobs}])

Slot(w) == w.object      \* a workload that was read, by its UID

(* findContainer. *)

CallFind(arg) ==
    Begin([op |-> "find", pc |-> "get", arg |-> arg, read |-> {}])

\* The object by that name, if it is also the container's name.
GetMatches(s) == c[s].object = call.arg /\ c[s].name = call.arg

FindGets ==
    /\ call.op = "find" /\ call.pc = "get"
    /\ IF \E s \in Existing : GetMatches(s)
       THEN Return([op |-> "find", arg |-> call.arg, of |-> {s \in Existing : GetMatches(s)},
                    throughout |-> named])
       ELSE Goto([call EXCEPT !.pc = "deployments"])

\* Mutant: names and IDs are matched together.
Matches_Together ==
    {w \in call.read : w.name = call.arg \/ IsPrefix(call.arg, Id[Slot(w)])}

\* By name, and only without one by a prefix of the ID.
Matches ==
    LET byName == {w \in call.read : w.name = call.arg}
    IN  IF byName # {} THEN byName ELSE {w \in call.read : IsPrefix(call.arg, Id[Slot(w)])}

\* Not one match: not found, or ambiguous.
FindReturns ==
    /\ call.op = "find" /\ call.pc = "items"
    /\ Return([op |-> "find", arg |-> call.arg, throughout |-> named,
               of |-> IF Cardinality(Matches) = 1 THEN {Slot(w) : w \in Matches} ELSE {}])

(* Containers. *)

CallList(all, limit) ==
    Begin([op |-> "list", pc |-> "deployments", all |-> all, limit |-> limit, read |-> {}, out |-> <<>>])

\* containerState, from the workload as read and its Pod now.
State(w) ==
    LET pod == c[Slot(w)].pod
    IN  IF ~w.started THEN IF Slot(w) \in Jobs THEN "created" ELSE "exited"
        ELSE CASE pod = "active" -> "running" [] pod = "ended" -> "exited" [] OTHER -> "created"

BornAt(s) == CHOOSE n \in DOMAIN born : born[n] = s

Newer(v, w) == BornAt(Slot(v)) > BornAt(Slot(w))

NextItem == CHOOSE w \in call.read : \A v \in call.read \ {w} : Newer(w, v)

\* Inspecting a container whose claim is gone fails the list.
ListInspects ==
    /\ call.op = "list" /\ call.pc = "items" /\ call.read # {}
    /\ call.limit = 0 \/ Len(call.out) < call.limit
    /\ IF ~c[Slot(NextItem)].claim THEN Return([op |-> "list", ok |-> FALSE])
       ELSE Goto([call EXCEPT !.read = @ \ {NextItem},
                  !.out = IF call.all \/ State(NextItem) = "running"
                          THEN Append(@, [slot |-> Slot(NextItem), state |-> State(NextItem), ran |-> c[Slot(NextItem)].ran])
                          ELSE @])

ListReturns ==
    /\ call.op = "list" /\ call.pc = "items"
    /\ call.read = {} \/ (call.limit # 0 /\ Len(call.out) = call.limit)
    /\ Return([op |-> "list", ok |-> TRUE, all |-> call.all, limit |-> call.limit,
               out |-> call.out, throughout |-> kept])

(* ContainerPrune. *)

CallPrune(label) ==
    Begin([op |-> "prune", pc |-> "deployments", label |-> label, read |-> {}, rm |-> None, out |-> {}])

Prunable(w) ==
    /\ ~w.started \/ w.finished
    /\ call.label => Slot(w) \in Labelled

\* ContainerRm reads the container again, under its lock.
RmAllows(w) == LET now == c[Slot(w)] IN now.exists /\ (~now.started \/ now.finished)

\* hasActivePod: one container is skipped, or removed next.
PruneItem ==
    /\ call.op = "prune" /\ call.pc = "items"
    /\ \E w \in call.read :
          Goto(IF ~Prunable(w) \/ c[Slot(w)].pod = "active" THEN [call EXCEPT !.read = @ \ {w}]
               ELSE [call EXCEPT !.pc = "rm", !.rm = w])

\* The container is removed, or the prune ends.
PruneRemoves ==
    /\ call.op = "prune" /\ call.pc = "rm"
    /\ IF RmAllows(call.rm)
       THEN /\ c' = [c EXCEPT ![Slot(call.rm)] = Absent]
            /\ call' = [call EXCEPT !.pc = "items", !.read = @ \ {call.rm}, !.rm = None,
                                    !.out = @ \cup {Slot(call.rm)}]
            /\ kept' = kept \ {Slot(call.rm)}
            /\ UNCHANGED <<born, named, result>>
       ELSE Return([op |-> "prune", ok |-> FALSE, out |-> call.out])

PruneReturns ==
    /\ call.op = "prune" /\ call.pc = "items" /\ call.read = {}
    /\ Return([op |-> "prune", ok |-> TRUE, out |-> call.out])

-----------------------------------------------------------------------------
Init ==
    /\ c = [s \in Slots |-> Absent] /\ born = <<>>
    /\ call = Idle /\ named = {} /\ kept = {} /\ result = NoResult

Args == Names \cup {SubSeq(Id[s], 1, n) : s \in Slots, n \in 1..2}

Next ==
    \/ \E s \in Slots : \/ \E n \in Names : Create(s, n) \/ Rename(s, n)
                        \/ Start(s) \/ PodEnds(s) \/ Stop(s) \/ Rm(s)
    \/ \E a \in Args : CallFind(a)
    \/ \E all \in BOOLEAN, limit \in 0..1 : CallList(all, limit)
    \/ \E label \in BOOLEAN : CallPrune(label)
    \/ ReadDeployments \/ ReadJobs \/ FindGets \/ FindReturns
    \/ ListInspects \/ ListReturns \/ PruneItem \/ PruneRemoves \/ PruneReturns

Spec == Init /\ [][Next]_vars

-----------------------------------------------------------------------------
\* The types of the variables.
TypeOK ==
    /\ \A s \in Slots :
          /\ c[s].exists => c[s].name \in Names /\ c[s].object \in Names \cup {None}
          /\ c[s].finished => s \in Jobs
    /\ named \subseteq Slots /\ kept \subseteq Existing
    /\ call.op \in {"idle", "find", "list", "prune"}

\* A name that one container has as long as the lookup takes is that container,
\* whatever else is renamed, and whatever IDs begin with it (findContainer).
FindsTheNamed ==
    result.op = "find" /\ result.throughout # {} => result.of = result.throughout

\* A list has no container twice, the newest first, and misses none that
\* existed throughout it and that it asks for (Containers, listWorkloads).
ListIsComplete ==
    result.op = "list" /\ result.ok =>
       /\ \A m, n \in DOMAIN result.out :
             m < n => BornAt(result.out[m].slot) > BornAt(result.out[n].slot)
       /\ result.all /\ result.limit = 0 =>
             result.throughout \subseteq {result.out[n].slot : n \in DOMAIN result.out}

\* Pruning never removes a container that is started, although it decides on
\* containers it read before (ContainerPrune, ContainerRm).
PruneSparesRunning ==
    \A s \in Slots : call.op = "prune" /\ c[s].exists /\ ~c'[s].exists /\ call'.op = "prune"
                     /\ call # call' =>
       ~c[s].started \/ c[s].finished
=============================================================================
