SPECIFICATION Spec
CONSTANTS
    o1 = o1
    o2 = o2
    p = p
    q = q
    Ops = {o1, o2}
    Paths = {p, q}
    Runs = {x}
    Requests <- Everything
    Skippable <- MaySkip
    Initially = {p}
    MaxCrashes = 1
    MaxReads = 2
    MaxFaults = 2
    None = None
INVARIANTS AcknowledgedStays CompletedAgrees
PROPERTIES RecoveryKeepsContents
SYMMETRY Symmetry
CHECK_DEADLOCK FALSE
