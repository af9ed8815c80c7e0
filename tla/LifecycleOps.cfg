\* One container, three concurrent operations on it.
CONSTANTS
    Requests = {r1, r2, r3}
    Uids = {u1}
    Ops = {"start", "stop", "kill", "restart", "update"}
    MaxEvictions = 1
    OutsideDeletes = FALSE
    NoUid = NoUid
    NoDeployment = NoDeployment
    NoReplicaSet = NoReplicaSet
SYMMETRY Symmetry
SPECIFICATION Spec
INVARIANTS IInv NoOverlap
