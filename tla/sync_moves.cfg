SPECIFICATION Spec
CONSTANTS
    d = d
    e = e
    m = m
    n = n
    r = r
    s = s
    u = u
    w = w
    x = x
    y = y
    z = z
    Tasks = {m, r, s, u, w}
    Dirs = {d, e}
    Mutexes = {g, h, i}
    Names = {x, y, z}
    Kind <- MoveAndOthers
    From <- MoveAndOthersFrom
    To <- MoveAndOthersTo
    Permits = 1
    Stored <- BothNames
    None = None
INVARIANTS TypeOK GuardExclusion ExclusiveDirectories MarksFollowSyncs
PROPERTIES SyncIsExact
CHECK_DEADLOCK FALSE
SYMMETRY Twins
