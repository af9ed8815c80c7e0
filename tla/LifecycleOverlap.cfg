\* A container is removed and created again under its name.
CONSTANTS
    Requests = {r1, r2, r3, r4}
    Uids = {u1, u2}
    Ops = {"start", "rmForce", "create"}
    MaxEvictions = 0
    OutsideDeletes = FALSE
    NoUid = NoUid
    NoDeployment = NoDeployment
    NoReplicaSet = NoReplicaSet
SYMMETRY Symmetry
SPECIFICATION Spec
INVARIANTS NoOverlap
