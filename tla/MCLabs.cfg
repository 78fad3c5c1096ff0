SPECIFICATION LabsSpec
CONSTANTS
    Caller = {c1, c2, c3}
    Threshold = 3
    MaxSlips = 1
    Reader = {r1, r2, r3}
    MaxUpsets = 2
    Asker = {a1, a2}
    Position = {b1, b2}
    Limit = 2
    Window = 3
    Rate = 1
    Idle = 3
    Lag = 1
    MaxTime = 6
    Job = {j1, j2}
    Consumer = {w1, w2}
    MaxCrashes = 1
    DelayJob = {d1, d2}
    Picker = {p1, p2}
    MaxNow = 1
    MaxMishaps = 1
    Order = {o1}
    MaxFails = 3
    MaxClaims = 2
    Archiver = {x1, x2}
    MaxViews = 3
    Char = {"a", ":", "%", "3", "A"}
    MaxLength = 3
    Word = {"a", "lock:", "fence:", "rl:", "token:"}
INVARIANTS
    LabsTypeOK
    DownstreamSpared
    OneRebuild
    NoFalseAbsence
    LimitsHold
    JobsAreSafe
    BillingFaithful
    ViewsConserved
    KeysDistinct
    BlameIsRight
PROPERTIES
    WorkIsDone
CHECK_DEADLOCK FALSE
