SPECIFICATION FairSealedSpec
CONSTANTS
    req = req  val = val
    Cid <- TwoFiles
    Already = {1, 2}
    Arrived = {}
    Block <- Blocks
    RootBlock <- Root
    Links <- NoLinks
    EmptyBlock = 0
    FILE_NUMBER_UPPER_LIMIT = 2
    FILE_PENDING_LIMIT = 2
    MEANINGFUL_VALIDATE_MIN_NUM = 1
    WORKREPORT_FILE_LIMIT = 1
    Thread <- Threads
    ValidatorThread <- Validators
    Requests = {}
    MaxRequests = 0
    BlockNum = {1}
    Faults = {"reply", "db"}
    Upgrades = {"NONE"}
INVARIANTS
    BooksAgree
PROPERTIES
    ImplementsCredit
    SealedIsReported
    DeletedIsDropped
