SPECIFICATION Spec
CONSTANTS
    o1 = o1
    o2 = o2
    p = p
    q = q
    Ops = {o1, o2}
    Paths = {p, q}
    Runs = {x}
    Requests <- WriteOrDelete
    Skippable <- MaySkip
    Initially = {p}
    MaxCrashes = 0
    MaxReads = 1
    MaxFaults = 1
    None = None
INVARIANTS RecoveryIsIdempotent
SYMMETRY Symmetry
CHECK_DEADLOCK FALSE
