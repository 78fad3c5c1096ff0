SPECIFICATION WatchdogSpec
CONSTANTS
    G = {g1, g2}
    TTL = 6
    MaxDelay = 1
    MaxStrays = 1
INVARIANTS
    WatchdogTypeOK
    LapseOnlyExcused
    NoLostUpdate
PROPERTIES
    EveryGoroutineEnds
\* The goroutines end, and nothing is left to do.
CHECK_DEADLOCK FALSE
