----------------------------- MODULE SwarmTasks -----------------------------
(***************************************************************************)
(* Listing a service's tasks while it rolls out (core/translator/          *)
(* swarm_task.go).  A task is a Pod; the CLI watches convergence with the  *)
(* "_up-to-date" filter, which keeps the Pods of each Deployment's newest  *)
(* ReplicaSet.  The listing reads services, Pods and ReplicaSets one after *)
(* the other, while the Deployment controller works through the rollout    *)
(* and the garbage collector through a removed namesake.                   *)
(***************************************************************************)
EXTENDS Integers, FiniteSetsExt

CONSTANTS Templates,   \* Pod templates, by their hash
          MaxRollouts, \* bound on creates and updates of the service
          MaxPods,     \* bound on the Pods made
          MaxFails,    \* bound on the failures of containers
          Recreates    \* whether the service may be removed and made anew

None == [uid |-> 0]

VARIABLES dep,     \* the service's Deployment: [uid, tmpl], or None
          sets,    \* ReplicaSets: [uid, tmpl, rev], uid that of the owner
          pods,    \* Pods: [id, uid, tmpl, state, deleting]
          query,   \* the listing in progress: [pc, service, pods]
          answer,  \* the tasks it named, until the next one
          made     \* [rollouts, pods, fails]

vars == <<dep, sets, pods, query, answer, made>>

Waiting == [pc |-> "idle", service |-> None, pods |-> {}]

-----------------------------------------------------------------------------
(* The service and the controllers behind it. *)

Rollout(t) ==
    /\ made.rollouts < MaxRollouts
    /\ dep' = IF dep = None THEN [uid |-> made.rollouts + 1, tmpl |-> t]
              ELSE [dep EXCEPT !.tmpl = t]
    /\ dep' # dep
    /\ made' = [made EXCEPT !.rollouts = @ + 1]
    /\ UNCHANGED <<sets, pods, query, answer>>

Removed ==
    /\ Recreates
    /\ dep # None
    /\ made.rollouts < MaxRollouts
    /\ dep' = None
    /\ UNCHANGED <<sets, pods, query, answer, made>>

Own == {s \in sets : s.uid = dep.uid}

Newest == {s \in Own : \A o \in Own : o.rev <= s.rev}

\* The controller gives the current template's ReplicaSet the highest revision.
Reconcile ==
    /\ dep # None
    /\ \A s \in Newest : s.tmpl # dep.tmpl
    /\ sets' = {s \in sets : s.uid # dep.uid \/ s.tmpl # dep.tmpl}
               \cup {[uid |-> dep.uid, tmpl |-> dep.tmpl,
                      rev |-> 1 + Max({0} \cup {s.rev : s \in Own})]}
    /\ UNCHANGED <<dep, pods, query, answer, made>>

NewPod ==
    /\ dep # None
    /\ made.pods < MaxPods
    /\ \E s \in Newest :
          /\ \A p \in pods : p.uid # dep.uid \/ p.tmpl # s.tmpl \/ p.deleting
          /\ pods' = pods \cup {[id |-> made.pods + 1, uid |-> dep.uid, tmpl |-> s.tmpl,
                                 state |-> "pending", deleting |-> FALSE]}
    /\ made' = [made EXCEPT !.pods = @ + 1]
    /\ UNCHANGED <<dep, sets, query, answer>>

Becomes(p, state) == pods' = (pods \ {p}) \cup {[p EXCEPT !.state = state]}

\* Containers start, and fail and are restarted after a backoff.
PodRuns ==
    /\ \E p \in pods : p.state \in {"pending", "backoff"} /\ Becomes(p, "running")
    /\ UNCHANGED <<dep, sets, query, answer, made>>

PodBacksOff ==
    /\ \E p \in pods : p.state = "exited" /\ Becomes(p, "backoff")
    /\ UNCHANGED <<dep, sets, query, answer, made>>

PodFails ==
    /\ made.fails < MaxFails
    /\ \E p \in pods : p.state = "running" /\ Becomes(p, "exited")
    /\ made' = [made EXCEPT !.fails = @ + 1]
    /\ UNCHANGED <<dep, sets, query, answer>>

\* Pods of a superseded ReplicaSet, or of a Deployment that is gone, are deleted, then go.
Superseded(p) ==
    dep = None \/ p.uid # dep.uid \/ \A s \in Newest : s.tmpl # p.tmpl

PodGoes ==
    /\ \E p \in pods :
          /\ p.deleting \/ Superseded(p)
          /\ pods' = (pods \ {p}) \cup (IF p.deleting THEN {} ELSE {[p EXCEPT !.deleting = TRUE]})
    /\ UNCHANGED <<dep, sets, query, answer, made>>

SetGoes ==
    /\ \E s \in sets : (dep = None \/ s.uid # dep.uid) /\ sets' = sets \ {s}
    /\ UNCHANGED <<dep, pods, query, answer, made>>

-----------------------------------------------------------------------------
(* GetTasks with the _up-to-date filter. *)

ListServices ==
    /\ query.pc = "idle"
    /\ query' = [query EXCEPT !.pc = "pods", !.service = dep]
    /\ answer' = {}
    /\ UNCHANGED <<dep, sets, pods, made>>

ListPods ==
    /\ query.pc = "pods"
    /\ query' = [query EXCEPT !.pc = "sets", !.pods = pods]
    /\ UNCHANGED <<dep, sets, pods, answer, made>>

\* The hash of the ReplicaSet with the highest revision; owners go by name, so
\* a removed namesake's count as well, and between equal revisions the first listed wins.
currentTemplateHash == {s.tmpl : s \in {t \in sets : \A o \in sets : o.rev <= t.rev}}

podTaskStatus(p) ==
    CASE p.state = "pending" -> "pending"
      [] p.state = "running" -> "running"
      [] p.state = "exited"  -> "failed"
      [] p.state = "backoff" -> "starting"

swarmTask(p) == [pod |-> p.id, tmpl |-> p.tmpl, service |-> query.service.uid, state |-> podTaskStatus(p)]

upToDate(p, hash) == ~p.deleting /\ p.tmpl = hash

\* Without ReplicaSets the hash is empty and no Pod has it.
ListSets ==
    /\ query.pc = "sets"
    /\ \E hash \in IF sets = {} THEN {"none"} ELSE currentTemplateHash :
          answer' = IF query.service = None THEN {}
                    ELSE {swarmTask(p) : p \in {q \in query.pods : upToDate(q, hash)}}
    /\ query' = Waiting
    /\ UNCHANGED <<dep, sets, pods, made>>

-----------------------------------------------------------------------------
Init ==
    /\ dep = None /\ sets = {} /\ pods = {}
    /\ query = Waiting /\ answer = {}
    /\ made = [rollouts |-> 0, pods |-> 0, fails |-> 0]

Next ==
    \/ \E t \in Templates : Rollout(t)
    \/ Removed \/ Reconcile \/ NewPod \/ PodRuns \/ PodBacksOff \/ PodFails \/ PodGoes \/ SetGoes
    \/ ListServices \/ ListPods \/ ListSets

\* Kubernetes' controllers and collector act, and the client keeps polling.
Fairness ==
    /\ WF_vars(Reconcile) /\ WF_vars(NewPod) /\ WF_vars(PodGoes) /\ WF_vars(SetGoes)
    /\ WF_vars(PodRuns) /\ WF_vars(PodBacksOff)
    /\ WF_vars(ListServices) /\ WF_vars(ListPods) /\ WF_vars(ListSets)

Spec == Init /\ [][Next]_vars

-----------------------------------------------------------------------------
(* Properties. *)

\* The shape of the objects, of the listing and of its answer.
TypeOK ==
    /\ dep = None \/ dep.tmpl \in Templates
    /\ \A s \in sets : s.tmpl \in Templates /\ s.rev > 0
    /\ \A p \in pods : p.tmpl \in Templates /\ p.state \in {"pending", "running", "exited", "backoff"}
    /\ query.pc \in {"idle", "pods", "sets"}
    /\ \A t \in answer : t.service > 0 /\ t.state \in {"pending", "running", "failed", "starting"}

\* The tasks shown converge: when rollouts and failures stop, from some point on
\* every answer to the up-to-date query names exactly the Pods that run the
\* current spec, as running (tasks, currentTemplateHashes).  Neither a removed
\* namesake's higher revisions nor a superseded template's Pods stay.
Converges ==
    <>[](query.pc = "idle" =>
            IF dep = None THEN answer = {}
            ELSE /\ {t.pod : t \in answer} = {p.id : p \in pods}
                 /\ \A t \in answer : t.tmpl = dep.tmpl /\ t.service = dep.uid /\ t.state = "running")
=============================================================================
