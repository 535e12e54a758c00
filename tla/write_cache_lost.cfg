SPECIFICATION HistorySpec
CONSTANTS
    a = a
    b = b
    c = c
    p = p
    Requests = {a, b}
    Paths = {p}
    Flushers = {f}
    Target <- OnePath
    Kind <- Writes
    Size <- TwoOneTwo
    MaxFileSize = 2
    Capacity = 3
    Word = 16
    LocalDir = TRUE
    MaxCrashes = 0
    None = None
INVARIANTS QuietPathHoldsLatest
CHECK_DEADLOCK FALSE
