SPECIFICATION Spec
CONSTANTS
    p1 = p1
    p2 = p2
    Proc = {p1, p2}
    TTLs = {"whole"}
    MaxSessions = 2
    MaxLate = 1
    MaxRetries = 1
SYMMETRY Symmetry
INVARIANTS
    TypeOK
    OwnsKey
    MutualExclusion
    FenceOrder
PROPERTIES
    ImplementsLease
\* All sessions used: nothing is left to do.
CHECK_DEADLOCK FALSE
