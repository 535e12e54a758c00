SPECIFICATION UsageSpec
CONSTANTS
    f1 = f1
    f2 = f2
    r1 = r1
    UserFiles = {f1, f2}
    FileSizes = {1}
    WriteEnds = {}
    StartSize <- StoredFiles
    Quota = 4
    Requests = {r1}
    RequestKinds = {"recount"}
    Syncers = {}
    UseWriteCache = FALSE
    MaxUsageFaults = 0
    NoTask = NoTask
PROPERTIES RecountIsExact
CHECK_DEADLOCK FALSE
