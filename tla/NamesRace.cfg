\* A create and two renames of one container, in two dink processes.
CONSTANTS
    Requests = {r1, r2, r3}
    Processes = {p1, p2}
    Uids = {u1, u2}
    Names = {n1, n2}
    Ops = {"create", "rename"}
    UndoFails = FALSE
    NoUid = NoUid
    NoName = NoName
    NoWorkload = NoWorkload
    NoService = NoService
SPECIFICATION Spec
SYMMETRY Symmetry
INVARIANT UniqueNames
