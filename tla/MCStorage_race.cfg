SPECIFICATION StorageSpec
CONSTANTS
    f1 = f1  f2 = f2  t1 = t1  t2 = t2
    Cid <- TwoFiles
    Block <- TwoBlocks
    RootBlock <- TwoRoot
    Links <- TwoLinks
    EmptyBlock = "e"
    FILE_NUMBER_UPPER_LIMIT = 2
    FILE_PENDING_LIMIT = 0
    Thread <- TwoThreads
    Requests = {"start", "seal", "link", "end", "delete"}
    BlockNum = {1}
    Upgrades = {"SUCCESS"}
    MaxRequests = 4
SYMMETRY Symmetry
INVARIANTS
    StorageTypeOK
    NoStuckPending
    DeletedIsBuffered
    PendingBounded
