SPECIFICATION Spec
CONSTANTS
    p1 = p1
    p2 = p2
    inbox = inbox
    other = other
    Procs = {p1}
    NumAccounts = 1
    Keys = {inbox}
    KeyOf <- OneKeyOf
    MaxUid = 2
    MaxEpoch = 2
    Delete <- No
    SearchAll <- Yes
    MaxMessages = 2
    MaxDelete = FALSE
    SuperClean = FALSE
    DebugParse = FALSE
    StateFile = TRUE
    Poison = {}
    Faults <- OnlyHollow
    MaxFaults = 1
    MaxAccepts = 4
INVARIANTS
    DeliveredMeansAccepted
