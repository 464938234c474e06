SPECIFICATION Spec
CONSTANTS
    NumMsgs = 3
    NumLines = 2
    Lookalikes = {}
    Delete = TRUE
    MaxMessages = 3
    MaxDelete = FALSE
    SuperClean = FALSE
    DebugParse = FALSE
    Poison = {2}
    Faults <- OnlyTimeouts
    MaxFaults = 2
    MaxAccepts = 5
INVARIANTS
    OwnLines
