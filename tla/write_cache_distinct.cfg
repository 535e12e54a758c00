SPECIFICATION FairSpec
CONSTANTS
    a = a
    b = b
    c = c
    e = e
    p = p
    q = q
    Requests = {a, b}
    Paths = {p, q}
    Flushers = {f}
    Target <- OwnPath
    Kind <- Writes
    Size <- SizeTwoOne
    MaxFileSize = 2
    Capacity = 2
    Word = 32
    LocalDir = TRUE
    MaxCrashes = 2
    None = None
INVARIANTS TypeOK AccountingIsExact
CHECK_DEADLOCK FALSE
 
