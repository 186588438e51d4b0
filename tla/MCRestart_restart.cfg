SPECIFICATION Spec
CONSTANTS
    f1 = f1
    a1 = a1
    a2 = a2
    Cid <- OneCid
    Account <- TwoAccounts
    REPORT_SLOT = 2
    EntryTryout = 1
    RestartFlag = 1
    FirstBlock = 2
    MaxBlock = 4
    MaxCrashes = 1
    MaxFaults = 1
CHECK_DEADLOCK FALSE
INVARIANTS
    RestartTypeOK
    StoredIsRegistered
    RunsAsConfigured
    OrphanIsYoung
PROPERTIES
    ReportsAscend
    StoreAdvances
    ReportedIsThere
