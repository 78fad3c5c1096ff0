SPECIFICATION Spec
CONSTANTS
    p1 = p1
    p2 = p2
    Proc = {p1, p2}
    TTLs <- WholeTTLs
    MaxTokens = 2
    MaxLate = 0
    MaxRetries = 1
SYMMETRY Symmetry
INVARIANTS
    DeniedRotatedNothing
