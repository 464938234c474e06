SPECIFICATION FairSpec
CONSTANTS
    NumMsgs = 2
    NumLines = 2
    Configs <- Accounts
    Lookalikes = {2}
    Faults <- FaultKinds
    MaxFaults = 1
    MaxChatter = 1
INVARIANTS
    Whole
    StoreAfterWhole
    NoStandoff
PROPERTIES
    CommandsKept
    Ends
CHECK_DEADLOCK FALSE
