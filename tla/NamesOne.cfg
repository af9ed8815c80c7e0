CONSTANTS
    Requests = {r1, r2, r3}
    Processes = {p1}
    Uids = {u1, u2}
    Names = {n1, n2}
    Ops = {"create", "rename", "connect", "disconnect", "start", "rm"}
    UndoFails = TRUE
    NoUid = NoUid
    NoName = NoName
    NoWorkload = NoWorkload
    NoService = NoService

SPECIFICATION Spec
SYMMETRY Symmetry
INVARIANT PrimaryResolves
PROPERTY OkMeansSynced
