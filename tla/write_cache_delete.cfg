SPECIFICATION OrderlySpec
CONSTANTS
    a = a
    b = b
    c = c
    p = p
    Requests = {a, b, c}
    Paths = {p}
    Flushers = {f, g}
    Target <- OnePath
    Kind <- TwoWritesOneDelete
    Size <- TwoOneTwo
    MaxFileSize = 2
    Capacity = 3
    Word = 16
    LocalDir = TRUE
    MaxCrashes = 1
    None = None
INVARIANTS QuietAccountingIsExact
PROPERTIES AtomicPaths
CHECK_DEADLOCK FALSE
