SPECIFICATION FairSpec
CONSTANTS
    c1 = c1
    c2 = c2
    h1 = h1
    w1 = w1
    Host = {h1}
    Caller = {c1, c2}
    HostOf <- OneHost
    Writer = {w1}
    Refreshes = {"delete", "set"}
    TTLs = {"whole"}
    MaxVersion = 2
    MaxCalls = 2
    MaxLate = 1
INVARIANTS
    TypeOK
    StaleOnlyByRace
    NoExtraLoad
    WaitersIndependent
PROPERTIES
    CallsReturn
    AgreesInTheEnd
\* Calls and versions are bounded: nothing is left to do.
CHECK_DEADLOCK FALSE
