SPECIFICATION FairSpec
CONSTANTS
    d = d
    e = e
    m = m
    n = n
    r = r
    s = s
    u = u
    w = w
    x = x
    y = y
    z = z
    Tasks = {m, n, s}
    Dirs = {d, e}
    Mutexes = {g, h}
    Names = {x, y}
    Kind <- BothWays
    From <- BothWaysFrom
    To <- BothWaysTo
    Permits = 1
    Stored <- OneEach
    None = None
PROPERTIES EndsUnlessMoveCycle
CHECK_DEADLOCK FALSE
