---------------------------- MODULE ContainerLock ----------------------------
(***************************************************************************)
(* The per-container operation lock of core/translator/container_lock.go.  *)
(*                                                                         *)
(* lockContainer resolves a reference to a workload, finds or creates the  *)
(* lock object of that workload in d.containerLocks, counts itself as a    *)
(* user of the object, waits for the object's one-slot token channel or    *)
(* for its context, and resolves the reference again before it lets the    *)
(* operation run. The last user deletes the map entry.                     *)
(*                                                                         *)
(* A lock object lives on the heap: a request keeps the object it found    *)
(* even if the map no longer names it. An object is identified by the      *)
(* request that allocated it, which allocates at most one.                 *)
(***************************************************************************)
EXTENDS Naturals, FiniteSets

CONSTANTS Requests,     \* API calls, each of which calls lockContainer once
          Workloads,    \* workload identities: namespace, kind, name and UID
          Refs,         \* container names and ID prefixes clients use
          NoWorkload,   \* the reference resolves to no workload
          NoLock        \* the nil *containerOperationLock

ASSUME LockAssumption ==
    /\ IsFiniteSet(Requests)
    /\ NoLock \notin Requests
    /\ NoWorkload \notin Workloads

VARIABLES
    cluster,        \* cluster[w]: workload w is "new", "live" or "gone"
    binding,        \* binding[n]: what findContainer(n) returns now
    containerLocks, \* d.containerLocks: the lock object of each workload
    token,          \* token[o]: the channel of object o holds its one token
    users,          \* users[o]: the users field of object o
    pc,             \* pc[r]: the next step of request r
    ref,            \* ref[r]: the reference r was called with
    key,            \* key[r]: the workload r resolved first
    lock            \* lock[r]: the lock object r keeps a pointer to

clusterVars == <<cluster, binding>>
tableVars == <<containerLocks, token, users>>
vars == <<cluster, binding, containerLocks, token, users, pc, ref, key, lock>>

Step(r, from, to) == pc[r] = from /\ pc' = [pc EXCEPT ![r] = to]

Live == {w \in Workloads : cluster[w] = "live"}

Init ==
    /\ cluster = [w \in Workloads |-> "new"]
    /\ binding = [n \in Refs |-> NoWorkload]
    /\ containerLocks = [w \in Workloads |-> NoLock]
    /\ token = [o \in Requests |-> FALSE]
    /\ users = [o \in Requests |-> 0]
    /\ pc = [r \in Requests |-> "idle"]
    /\ ref \in [Requests -> Refs]
    /\ key = [r \in Requests |-> NoWorkload]
    /\ lock = [r \in Requests |-> NoLock]

-----------------------------------------------------------------------------
(* The cluster under the lock: workloads appear and disappear, by dink's   *)
(* own operations, by Kubernetes or by its users, and names move between   *)
(* the live ones. A UID is never reused.                                   *)

Rebind == binding' \in [Refs -> Live' \cup {NoWorkload}]

WorkloadAppears(w) ==
    /\ cluster[w] = "new"
    /\ cluster' = [cluster EXCEPT ![w] = "live"]
    /\ Rebind
    /\ UNCHANGED <<tableVars, pc, ref, key, lock>>

WorkloadDisappears(w) ==
    /\ cluster[w] = "live"
    /\ cluster' = [cluster EXCEPT ![w] = "gone"]
    /\ Rebind
    /\ UNCHANGED <<tableVars, pc, ref, key, lock>>

ReferencesMove ==
    /\ UNCHANGED cluster
    /\ Rebind
    /\ UNCHANGED <<tableVars, pc, ref, key, lock>>

-----------------------------------------------------------------------------
(* Plausible faults of lockContainer, used to show that the properties can *)
(* fail: the count or the shared object is forgotten, the token channel is *)
(* not exclusive, an error path forgets part of its cleanup.               *)

Register_OwnObject(r) ==
    /\ Step(r, "found", "wait")
    /\ containerLocks' = [containerLocks EXCEPT ![key[r]] = r]
    /\ users' = [users EXCEPT ![r] = 1]
    /\ lock' = [lock EXCEPT ![r] = r]
    /\ UNCHANGED <<clusterVars, token, ref, key>>

Acquire_Shared(r) ==
    /\ Step(r, "wait", "recheck")
    /\ token' = [token EXCEPT ![lock[r]] = TRUE]
    /\ UNCHANGED <<clusterVars, containerLocks, users, ref, key, lock>>

Recheck_AnyIdentity(r) ==
    /\ Step(r, "recheck", "operate")
    /\ binding[ref[r]] # NoWorkload
    /\ UNCHANGED <<clusterVars, tableVars, ref, key, lock>>

Release_DropsEntry(r) ==
    /\ Step(r, "release", "done")
    /\ users' = [users EXCEPT ![lock[r]] = @ - 1]
    /\ containerLocks' = [containerLocks EXCEPT ![key[r]] = NoLock]
    /\ UNCHANGED <<clusterVars, token, ref, key, lock>>

-----------------------------------------------------------------------------
(* lockContainer.                                                          *)

\* The first findContainer succeeds.
Find(r) ==
    /\ Step(r, "idle", "found")
    /\ binding[ref[r]] # NoWorkload
    /\ key' = [key EXCEPT ![r] = binding[ref[r]]]
    /\ UNCHANGED <<clusterVars, tableVars, ref, lock>>

\* The first findContainer fails: not found, ambiguous or an API error.
FindFails(r) ==
    /\ Step(r, "idle", "done")
    /\ UNCHANGED <<clusterVars, tableVars, ref, key, lock>>

\* Under containerLocksMu: get or create the object, and count a user.
Register(r) ==
    LET w == key[r]
        o == IF containerLocks[w] = NoLock THEN r ELSE containerLocks[w]
    IN  /\ Step(r, "found", "wait")
        /\ containerLocks' = [containerLocks EXCEPT ![w] = o]
        /\ users' = [users EXCEPT ![o] = @ + 1]
        /\ lock' = [lock EXCEPT ![r] = o]
        /\ UNCHANGED <<clusterVars, token, ref, key>>

\* select: the send on the token channel succeeds.
Acquire(r) ==
    /\ Step(r, "wait", "recheck")
    /\ ~token[lock[r]]
    /\ token' = [token EXCEPT ![lock[r]] = TRUE]
    /\ UNCHANGED <<clusterVars, containerLocks, users, ref, key, lock>>

\* select: the context ends first.
Cancel(r) ==
    /\ Step(r, "wait", "release")
    /\ UNCHANGED <<clusterVars, tableVars, ref, key, lock>>

\* The second findContainer returns the same identity: the operation runs.
Recheck(r) ==
    /\ Step(r, "recheck", "operate")
    /\ binding[ref[r]] = key[r]
    /\ UNCHANGED <<clusterVars, tableVars, ref, key, lock>>

\* The second findContainer fails or returns another workload.
RecheckFails(r) ==
    /\ Step(r, "recheck", "unlock")
    /\ UNCHANGED <<clusterVars, tableVars, ref, key, lock>>

\* The operation returns and its deferred unlock starts.
Finish(r) ==
    /\ Step(r, "operate", "unlock")
    /\ UNCHANGED <<clusterVars, tableVars, ref, key, lock>>

\* unlock: receive the token.
Unlock(r) ==
    /\ Step(r, "unlock", "release")
    /\ token[lock[r]]
    /\ token' = [token EXCEPT ![lock[r]] = FALSE]
    /\ UNCHANGED <<clusterVars, containerLocks, users, ref, key, lock>>

\* releaseUser, under containerLocksMu: the last user deletes the entry.
Release(r) ==
    /\ Step(r, "release", "done")
    /\ users' = [users EXCEPT ![lock[r]] = @ - 1]
    /\ containerLocks' = IF users[lock[r]] = 1
                         THEN [containerLocks EXCEPT ![key[r]] = NoLock]
                         ELSE containerLocks
    /\ UNCHANGED <<clusterVars, token, ref, key, lock>>

\* The process restarts. Requests that were running are lost with it.
ProcessRestarts ==
    /\ pc' = [r \in Requests |-> IF pc[r] = "idle" THEN "idle" ELSE "done"]
    /\ containerLocks' = [w \in Workloads |-> NoLock]
    /\ UNCHANGED <<clusterVars, token, users, ref, key, lock>>

\* Every call has returned.
AllReturned == (\A r \in Requests : pc[r] = "done") /\ UNCHANGED vars

RequestStep(r) ==
    \/ Find(r) \/ FindFails(r) \/ Register(r) \/ Acquire(r) \/ Cancel(r)
    \/ Recheck(r) \/ RecheckFails(r) \/ Finish(r) \/ Unlock(r) \/ Release(r)

ClusterStep ==
    \/ \E w \in Workloads : WorkloadAppears(w) \/ WorkloadDisappears(w)
    \/ ReferencesMove

Next ==
    \/ \E r \in Requests : RequestStep(r)
    \/ ClusterStep
    \/ ProcessRestarts
    \/ AllReturned

Spec == Init /\ [][Next]_vars

\* A call makes progress unless it waits for the token: the goroutine is
\* scheduled, Kubernetes reads answer or time out, the operation ends. A
\* context need not ever be cancelled.
Progress(r) ==
    \/ Register(r) \/ Acquire(r) \/ Recheck(r) \/ RecheckFails(r)
    \/ Finish(r) \/ Unlock(r) \/ Release(r)

Fairness == \A r \in Requests : WF_vars(Progress(r))

-----------------------------------------------------------------------------
(* Properties.                                                             *)

\* Requests between users++ and releaseUser, and those that hold the token.
Registered(r) == pc[r] \in {"wait", "recheck", "operate", "unlock", "release"}
HasToken(r) == pc[r] \in {"recheck", "operate", "unlock"}
UsersOf(w) == {r \in Requests : Registered(r) /\ key[r] = w}

\* Every variable stays in its type; in particular the users field of a
\* lock object (container_lock.go:10) never falls below zero.
TypeOK ==
    /\ cluster \in [Workloads -> {"new", "live", "gone"}]
    /\ binding \in [Refs -> Workloads \cup {NoWorkload}]
    /\ containerLocks \in [Workloads -> Requests \cup {NoLock}]
    /\ token \in [Requests -> BOOLEAN]
    /\ users \in [Requests -> Nat]
    /\ pc \in [Requests -> {"idle", "found", "wait", "recheck", "operate",
                            "unlock", "release", "done"}]
    /\ ref \in [Requests -> Refs]
    /\ key \in [Requests -> Workloads \cup {NoWorkload}]
    /\ lock \in [Requests -> Requests \cup {NoLock}]

\* lockContainer never lets two operations run on the same workload at the
\* same time, although entries are deleted and created again while requests
\* still hold pointers to lock objects, references move and waiters give up.
MutualExclusion ==
    \A r, s \in Requests :
        /\ pc[r] = "operate"
        /\ pc[s] = "operate"
        /\ key[r] = key[s]
        => r = s

\* d.containerLocks has an entry for a workload exactly while some request
\* uses it, and the entry counts exactly those requests: finished or
\* cancelled operations leak no lock, and no lock in use is dropped.
LocksExact ==
    \A w \in Workloads :
        IF UsersOf(w) = {}
        THEN containerLocks[w] = NoLock
        ELSE /\ containerLocks[w] # NoLock
             /\ users[containerLocks[w]] = Cardinality(UsersOf(w))

\* The parts of the inductive invariant behind the two. A request that has
\* found a workload has its key, and every user of a workload points to the
\* object in the map.
KeysFound == \A r \in Requests : pc[r] = "found" \/ Registered(r) =>
                                    key[r] \in Workloads
ObjectsShared == \A r \in Requests : Registered(r) =>
                                        lock[r] = containerLocks[key[r]]

\* Two workloads never share an object, and a request that has not
\* registered has allocated none.
ObjectsDistinct ==
    \A v, w \in Workloads :
        containerLocks[v] = containerLocks[w] /\ containerLocks[v] # NoLock
            => v = w
ObjectsFresh ==
    \A r \in Requests : pc[r] \in {"idle", "found"} =>
        users[r] = 0 /\ ~token[r] /\ \A w \in Workloads : containerLocks[w] # r

\* The token is in the channel exactly when one user holds it.
TokenHeld == \A r \in Requests : HasToken(r) => token[lock[r]]
TokenExclusive ==
    \A r, s \in Requests :
        HasToken(r) /\ HasToken(s) /\ key[r] = key[s] => r = s
TokenOwned ==
    \A w \in Workloads :
        containerLocks[w] # NoLock /\ token[containerLocks[w]] =>
            \E r \in UsersOf(w) : HasToken(r)

\* The inductive invariant of the lock table: what lockContainer, unlock and
\* releaseUser maintain together.
LockInv ==
    /\ LocksExact
    /\ KeysFound /\ ObjectsShared /\ ObjectsDistinct /\ ObjectsFresh
    /\ TokenHeld /\ TokenExclusive /\ TokenOwned

\* An operation starts only on the workload that its reference names at
\* that moment: a container removed or replaced while the request waited
\* for the lock is never operated on (container_lock.go:49-57).
EnterCurrent ==
    [][\A r \in Requests :
          pc[r] # "operate" /\ pc'[r] = "operate" =>
             /\ cluster[key[r]] = "live"
             /\ binding[ref[r]] = key[r]]_vars

\* The lock table implements the abstract per-workload mutex: the critical
\* section of a request is its operation.
Critical == [r \in Requests |-> IF pc[r] = "operate" THEN key[r]
                                                     ELSE NoWorkload]
Mutex == INSTANCE ContainerMutex WITH critical <- Critical
ImplementsMutex == Mutex!MutexSpec

\* Every call that found its container returns, without being cancelled: no
\* operation waits for ever on a token that nobody will give back.
EveryCallReturns == \A r \in Requests : pc[r] = "found" ~> pc[r] = "done"

=============================================================================
