SPECIFICATION Spec
CONSTANTS
    f1 = f1
    a1 = a1
    a2 = a2
    Cid <- OneCid
    Account <- OneAccount
    REPORT_SLOT = 2
    EntryTryout = 1
    RestartFlag = 1
    FirstBlock = 2
    MaxBlock = 4
    MaxCrashes = 1
    MaxFaults = 0
CHECK_DEADLOCK FALSE
INVARIANTS
    StoppedIsStored
