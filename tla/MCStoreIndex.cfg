CONSTANTS
    Procs = {p1, p2}
    Digests = {d1, d2}
    None = None
    StaleAfter = 1
    WaitBudget = 0
    MaxFaults = 1
    MayStall = TRUE
    RemoveFails = TRUE
SPECIFICATION FairSpec
INVARIANT SingleWriterWhileTimely
PROPERTIES NoLostUpdate ObjectsOutliveTheirMarks LockIndexReturns
