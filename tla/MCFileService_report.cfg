SPECIFICATION SealedSpec
CONSTANTS
    req = req  val = val
    Cid <- TwoFiles
    Already = {1}
    Arrived = {2}
    Block <- Blocks
    RootBlock <- Root
    Links <- NoLinks
    EmptyBlock = 0
    FILE_NUMBER_UPPER_LIMIT = 2
    FILE_PENDING_LIMIT = 2
    MEANINGFUL_VALIDATE_MIN_NUM = 1
    WORKREPORT_FILE_LIMIT = 1
    Thread <- Threads
    ValidatorThread <- Validators
    Requests = {"start","end","delete"}
    MaxRequests = 1
    BlockNum = {1}
    Faults = {"disk", "recall", "refuse", "ipfs"}
    Upgrades = {"NONE", "SUCCESS"}
INVARIANTS
    FileTypeOK
    ReportExact
    SpecAtRest
