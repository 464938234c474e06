SPECIFICATION Spec
CONSTANTS
    p1 = p1
    p2 = p2
    Procs = {p1, p2}
    CachePath = TRUE
    Rotates = TRUE
    Lives = {1, 3}
    Skew = 1
    MaxTokens = 4
    MaxTime = 2
    Faults <- FaultKinds
    MaxFaults = 1
SYMMETRY Swap
INVARIANTS
    FreshAccess
    CacheCurrent
