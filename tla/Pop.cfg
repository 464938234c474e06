SPECIFICATION FairSpec
CONSTANTS
    NumMsgs = 4
    NumLines = 2
    Lookalikes = {}
    Delete = TRUE
    MaxMessages = 3
    MaxDelete = TRUE
    SuperClean = FALSE
    DebugParse = FALSE
    Poison = {1}
    Faults <- FaultKinds
    MaxFaults = 3
    MaxAccepts = 5
INVARIANTS
    TypeOK
    NoLoss
    PromptLines
    DuplicatesAreFaults
PROPERTIES
    Custody
    Handled
