SPECIFICATION FairSpec
CONSTANTS
    p1 = p1
    p2 = p2
    inbox = inbox
    other = other
    Procs = {p1}
    NumAccounts = 1
    Keys = {inbox}
    KeyOf <- OneKeyOf
    MaxUid = 3
    MaxEpoch = 1
    Delete <- No
    SearchAll <- Yes
    MaxMessages = 2
    MaxDelete = FALSE
    SuperClean = FALSE
    DebugParse = FALSE
    StateFile = TRUE
    Poison = {1}
    Faults <- AllHonest
    MaxFaults = 1
    MaxAccepts = 3
INVARIANTS
    DuplicatesAreFaults
PROPERTIES
    Handled
