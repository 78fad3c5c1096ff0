SPECIFICATION WindowSpec
CONSTANTS
    c1 = c1
    c2 = c2
    Client = {c1, c2}
    Limit = 2
    Per = 2
    Ns = {1, 2}
    Offsets <- Lagging
    MaxDelay = 1
    MaxRetries = 1
    MaxTime = 6
    MaxCalls = 4
SYMMETRY Symmetry
INVARIANTS
    TypeOK
    RateBoundUpToRegress
    DenialJustified
\* The clock and the calls are bounded: nothing is left to do.
CHECK_DEADLOCK FALSE
