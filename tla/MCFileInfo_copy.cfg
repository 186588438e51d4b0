SPECIFICATION Spec
CONSTANTS
    c1 = c1
    r1 = r1
    r2 = r2
    Cid <- OneCid
    Thread <- TwoThreads
    FILE_PENDING_LIMIT = 0
    MaxRequests = 5
INVARIANTS
    FileInfoTypeOK
    ShownIsTrue
    
    SizeOfPending
SYMMETRY Symmetry
