CONSTANTS
    Procs = {p1, p2}
    Msgs = {m1}
    NoMsg = NoMsg
    Configs <- OneSwitch
    Poison = {}
    Faults <- AllFaults
    MaxFaults = 2
    MaxAccepts = 4
SPECIFICATION FairSpec
INVARIANTS
    NoLoss
    CutByMta
    Tidy
    DuplicatesAreFaults
PROPERTIES
    Custody
    Handled
CHECK_DEADLOCK FALSE
