SPECIFICATION Spec
CONSTANTS
    p1 = p1
    p2 = p2
    inbox = inbox
    other = other
    Procs = {p1, p2}
    NumAccounts = 1
    Keys = {inbox}
    KeyOf <- OneKeyOf
    MaxUid = 2
    MaxEpoch = 1
    Delete <- Yes
    SearchAll <- Yes
    MaxMessages = 2
    MaxDelete = FALSE
    SuperClean = TRUE
    DebugParse = FALSE
    StateFile = TRUE
    Poison = {1}
    Faults <- AllHonest
    MaxFaults = 1
    MaxAccepts = 1
INVARIANTS
    OnlyDeliveredAreDeleted
PROPERTIES
    Custody
