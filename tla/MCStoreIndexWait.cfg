CONSTANTS
    Procs = {p1, p2}
    Digests = {d1}
    None = None
    StaleAfter = 1
    WaitBudget = 0
    MaxFaults = 1
    MayStall = FALSE
    RemoveFails = TRUE
SPECIFICATION FairSpec
PROPERTY LockIndexGivesUp
