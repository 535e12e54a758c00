SPECIFICATION Spec
CONSTANTS
    d = d
    e = e
    m = m
    n = n
    r = r
    s = s
    u = u
    w = w
    x = x
    y = y
    z = z
    Tasks = {w, u, s}
    Dirs = {d, e}
    Mutexes = {g, h, i}
    Names = {x, y}
    Kind <- Unguarding
    From <- UnguardedPaths
    To <- UnguardedPaths
    Permits = 1
    Stored <- OtherName
    None = None
INVARIANTS WriteThrough
CHECK_DEADLOCK FALSE
