SPECIFICATION Spec
CONSTANTS
    p1 = p1
    p2 = p2
    Proc = {p1, p2}
    TTLs = {"whole"}
    MaxSessions = 2
    MaxLate = 0
    MaxRetries = 0
SYMMETRY Symmetry
INVARIANTS
    FenceFailureFreesLock
\* All sessions used: nothing is left to do.
CHECK_DEADLOCK FALSE
