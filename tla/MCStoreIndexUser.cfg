CONSTANTS
    Procs = {p1}
    Digests = {d1}
    None = None
    StaleAfter = 1
    WaitBudget = 0
    MaxFaults = 0
    MayStall = FALSE
    RemoveFails = FALSE
SPECIFICATION FairSpec
PROPERTY NeverCollectsUserSupplied
