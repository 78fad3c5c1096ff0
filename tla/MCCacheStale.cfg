SPECIFICATION Spec
CONSTANTS
    c1 = c1
    c2 = c2
    h1 = h1
    w1 = w1
    Host = {h1}
    Caller = {c1, c2}
    HostOf <- OneHost
    Writer = {w1}
    Refreshes = {"delete"}
    TTLs = {"whole", "keep", "none"}
    MaxVersion = 2
    MaxCalls = 2
    MaxLate = 0
SYMMETRY Symmetry
INVARIANTS
    NextReadIsNew
\* Calls and versions are bounded: nothing is left to do.
CHECK_DEADLOCK FALSE
