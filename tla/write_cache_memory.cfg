SPECIFICATION Spec
CONSTANTS
    a = a
    b = b
    c = c
    e = e
    p = p
    q = q
    Requests = {a, b, c, e}
    Paths = {p, q}
    Flushers = {f}
    Target <- Neighbours
    Kind <- OneDelete
    Size <- NeighbourSizes
    MaxFileSize = 2
    Capacity = 3
    Word = 16
    LocalDir = FALSE
    MaxCrashes = 0
    None = None
INVARIANTS AcknowledgedIsVisible
CHECK_DEADLOCK FALSE
