--------------------------- MODULE ContainerMutex ---------------------------
(***************************************************************************)
(* What lockContainer (core/translator/container_lock.go) promises the     *)
(* operations that call it: at most one request at a time operates on a    *)
(* workload, whatever reference (name or Docker ID) it was called with.    *)
(* A workload is the immutable identity the lock is keyed by: namespace,   *)
(* kind, object name and UID.                                              *)
(***************************************************************************)
CONSTANTS Requests,     \* API calls that lock a container
          Workloads,    \* workload identities
          NoWorkload    \* "operates on nothing"

VARIABLE critical       \* critical[r]: the workload request r operates on

MutexInit == critical = [r \in Requests |-> NoWorkload]

\* lockContainer returns the workload w and its unlock function to r.
Enter(r, w) ==
    /\ critical[r] = NoWorkload
    /\ \A other \in Requests : critical[other] # w
    /\ critical' = [critical EXCEPT ![r] = w]

\* The deferred unlock of r runs.
Leave(r) ==
    /\ critical[r] # NoWorkload
    /\ critical' = [critical EXCEPT ![r] = NoWorkload]

\* The dink process restarts: its requests and its lock table are gone.
LeaveAll == critical' = [r \in Requests |-> NoWorkload]

MutexNext ==
    \/ \E r \in Requests, w \in Workloads : Enter(r, w)
    \/ \E r \in Requests : Leave(r)
    \/ LeaveAll

MutexSpec == MutexInit /\ [][MutexNext]_critical

=============================================================================
