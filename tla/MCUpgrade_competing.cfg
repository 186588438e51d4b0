SPECIFICATION Spec
CONSTANTS
    c1 = c1
    Client <- NoClient
    REPORT_SLOT = 3
    LowerLimit = 1
    UpgradeTryout = 2
    RestoreTryout = 2
    FirstBlock = 6
    MaxBlock = 9
    MaxFaults = 1
CHECK_DEADLOCK FALSE
PROPERTIES
    TakenOverIsFinal
