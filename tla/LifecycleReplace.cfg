\* A container removed, created again under its name, and operated on.
CONSTANTS
    Requests = {r1, r2, r3}
    Uids = {u1, u2}
    Ops = {"start", "stop", "rm", "rmForce", "create"}
    MaxEvictions = 0
    OutsideDeletes = TRUE
    NoUid = NoUid
    NoDeployment = NoDeployment
    NoReplicaSet = NoReplicaSet
SYMMETRY Symmetry
SPECIFICATION Spec
INVARIANTS NoOwnOverlap
PROPERTIES RmSparesRunning OnlyLockedChanges
