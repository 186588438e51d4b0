SPECIFICATION StorageSpec
CONSTANTS
    f1 = f1  f2 = f2  t1 = t1  t2 = t2
    Cid <- OneFile
    Block <- Leaf1
    RootBlock <- OneRoot
    Links <- Leaf1Links
    EmptyBlock = "e"
    FILE_NUMBER_UPPER_LIMIT = 2
    FILE_PENDING_LIMIT = 2
    Thread <- OneThread
    Requests = {"start", "seal", "end", "delete"}
    BlockNum = {1}
    Upgrades = {"NONE"}
    MaxRequests = 4
PROPERTY DeletedIsFinal
