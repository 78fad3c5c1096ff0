SPECIFICATION Spec
CONSTANTS
    p1 = p1
    p2 = p2
    Proc = {p1, p2}
    TTLs <- AllTTLs
    MaxTokens = 3
    MaxLate = 1
    MaxRetries = 1
SYMMETRY Symmetry
INVARIANTS
    TypeOK
    AlwaysExpires
    RotateOnce
    RevokeSticks
