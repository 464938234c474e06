SPECIFICATION FairSpec
CONSTANTS
    b1 = b1
    b2 = b2
    Nil = Nil
    Boundaries = {b1, b2}
    Prefixes <- Longer
    MaxFileSize = 1
    MaxLines = 12
    MaxParts = 4
    MaxAttached = 2
    Faults <- FaultKinds
    MaxFaults = 1
INVARIANTS
    OwnPart
    Whole
    NoTempLeft
PROPERTIES
    Terminates
CHECK_DEADLOCK FALSE
