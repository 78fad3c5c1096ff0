SPECIFICATION FencedSpec
CONSTANTS
    p1 = p1
    p2 = p2
    Proc = {p1, p2}
    TTLs = {"whole", "submilli"}
    MaxSessions = 2
    MaxLate = 0
    MaxRetries = 1
SYMMETRY Symmetry
INVARIANTS
    SteadyStaleWriteRejected
    OwnerAccepted
\* All sessions used: nothing is left to do.
CHECK_DEADLOCK FALSE
