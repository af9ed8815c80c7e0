\* Three calls, two workloads (a container and its replacement), two
\* references (its name and its Docker ID).
CONSTANTS
    Requests = {r1, r2, r3}
    Workloads = {w1, w2}
    Refs = {name, id}
    NoWorkload = NoWorkload
    NoLock = NoLock
SYMMETRY Symmetry
SPECIFICATION Spec
INVARIANTS MutualExclusion LockInv
PROPERTIES  ImplementsMutex
