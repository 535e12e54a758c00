SPECIFICATION Spec
CONSTANTS
    ra = ra  rb = rb  rc = rc
    kp = kp  kq = kq
    Readings = {ra, rb}
    Keys = {kp, kq}
    KeySize <- Sizes
    CacheRoom = 2
    MaxReadFails = 1
    MaxRestarts = 1
    Old = Old
    Absent = Absent

    f1 = f1  f2 = f2
    UserFiles = {f1, f2}
    FileSizes = {1}
    WriteEnds = {3}
    StartSize <- OneFile
    Quota = 3
    Requests = {ra, rb}
    RequestKinds = {"write", "writeAt", "stream", "copy", "delete", "cached", "recount"}
    Syncers = {rc}
    UseWriteCache = TRUE
    MaxUsageFaults = 1
    NoTask = NoTask

    fd = fd  pg = pg  ph = ph  e0 = e0  e1 = e1  e2 = e2
    Folders = {fd}
    Papers = {pg, ph}
    BinPaths = {e0, e1, e2}
    FirstEntry = e0
    BinRequests = {ra, rb}
    BinCleaner = rc
    MaxBinFaults = 1
    Nothing = Nothing
    Dir = Dir

    topd = topd  subd = subd  fl = fl  tmpf = tmpf  nl = nl
    PoolDirs = {topd, subd}
    PoolFiles = {fl, tmpf, nl}
    Within <- Subtree
    Streamed = fl
    TmpFile = tmpf
    InBackup = {fl}
    PoolRequests = {ra, rb}
    MaxPoolFaults = 1
    Missing = Missing
    Folder = Folder
    Initial = Initial
    Backup = Backup

    v1 = v1  v2 = v2  n1 = n1  n2 = n2
    Vaults = {v1, v2}
    FirstVault = v1
    Names = {n1, n2}
    ProtectedRequests = {ra, rb}
    BlobSizes = {1, 2}
    Encrypt = TRUE
    LoggedSize = 2
    MaxVaultFaults = 1
    MaxVaultCrashes = 1
    Void = Void

    p1 = p1  p2 = p2  NoPool = NoPool
    StoragePools = {p1, p2}
    HubConfigs <- TwoConfigs
    AdminChanges <- SomeChanges
    UserRequests = {ra, rb}
    KeyRequests = {rc}
    MaxAdminChanges = 1
    MaxHubRestarts = 1
    MaxHubFaults = 1
    NoValue = NoValue

    MaxEdits = 3

    t1 = t1  t2 = t2  c1 = c1  c2 = c2  c3 = c3  top1 = top1  sub1 = sub1
    Pictures = {t1, t2}
    HomeOf <- HomeFolders
    TextFiles = {t2}
    RootFolder = top1
    Contents = {c1, c2, c3}
    ContentSize <- ContentSizes
    NoContent = NoContent
    ThumbRequests = {ra, rb}
    MaxThumbFaults = 1
    MaxThumbChanges = 2

    k1 = k1  k2 = k2
    VideoKeys = {k1, k2}
    NoSession = NoSession
    VideoRequests = {ra, rb}
    MaxTasks = 1
    MaxSessions = 2
    MaxLapses = 1

    Width = 2
    MaxBatchFaults = 2
    MaxBesides = 1
    NoFile = NoFile

    MaxStamp = 4
    EditSize <- SizesByEdit
    MaxMountFaults = 1
INVARIANTS
    CacheBytesAreExact 
    ChargesAreExact IndexAgrees
    BinAgreesWithIndex BinKeepsContents
    StreamedIsWhole
    RowsFitBlobs NoLostBlobs 
    SettingsSurvive CacheFollowsRow
    AcceptedWorks
     FailsOnlyAfterAll
    OneSessionPerKey
    BatchReportIsTrue
PROPERTIES
    GrowthIsChecked
    RestoreBringsBack
    TreeIsGone
    FilesStayInOnePool 
    TouchedSessionsStay
    NothingIsLost
    
CHECK_DEADLOCK FALSE
VIEW MovingPart
SYMMETRY Sym
