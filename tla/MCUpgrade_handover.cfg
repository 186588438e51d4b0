SPECIFICATION FairSpec
CONSTANTS
    c1 = c1
    Client <- OneClient
    REPORT_SLOT = 3
    LowerLimit = 1
    UpgradeTryout = 1
    RestoreTryout = 1
    FirstBlock = 6
    MaxBlock = 7
    MaxFaults = 1
CHECK_DEADLOCK FALSE
INVARIANTS
    UpgradeTypeOK
    HandoverKeepsAcked
    WaitsForTheLeaving
PROPERTIES
    ReportsAscend
    UpgradeEnds
    EnclaveResumes
