SPECIFICATION Spec
CONSTANTS
    p1 = p1
    p2 = p2
    inbox = inbox
    other = other
    Procs = {p1}
    NumAccounts = 3
    Keys = {inbox, other}
    KeyOf <- ThreeKeyOf
    MaxUid = 1
    MaxEpoch = 2
    Delete <- NoYesNo
    SearchAll <- YesYesNo
    MaxMessages = 2
    MaxDelete = TRUE
    SuperClean = FALSE
    DebugParse = FALSE
    StateFile = TRUE
    Poison = {}
    Faults <- KeepsMemory
    MaxFaults = 1
    MaxAccepts = 3
INVARIANTS
    NoLoss
    DedupSound
    DuplicatesAreFaults
PROPERTIES
    Remembered
