------------------------------- MODULE Storage ------------------------------
(***************************************************************************)
(* Components of the storage hub that share no state, composed. Since no   *)
(* step of one can enable, disable or change a step of another, every      *)
(* behaviour of the composition is, component by component, one in which   *)
(* the others never move; Init chooses the part that moves, and starts     *)
(* those that do not move in one state.                                    *)
(***************************************************************************)
EXTENDS ReadCache, Usage, RecycleBin, Pool, Protected, Routing, Configuration,
        Thumbnails, Rendering, Transcoding, Batches, Mounts

VARIABLE part
storageVars == <<part, readVars, usageVars, binVars, poolVars, vaultVars,
                routeVars, confVars, thumbVars, renderVars, sessionVars, batchVars,
                mountVars>>

Init ==
    /\ part \in {"reads", "usage", "bin", "pool", "vault", "route", "config",
                 "thumbs", "render", "videos", "batches", "mounts"}
    /\ ReadInit /\ UsageInit /\ BinInit /\ PoolInit /\ VaultInit
    /\ RouteInit /\ ConfInit /\ ThumbInit /\ RenderInit /\ SessionInit
    /\ BatchInit /\ MountInit
    /\ part # "route" => hubConfig = CHOOSE x \in HubConfigs : TRUE
    /\ part # "route" => anyPool = CHOOSE x \in StoragePools : TRUE
    /\ part # "thumbs" => cacheMode = "none" /\ legacy = [w \in ThumbFolders |-> FALSE]
    /\ part # "thumbs" => \A x \in Pictures : picture[x] \in {NoContent, CHOOSE y \in Contents : TRUE}
    /\ part # "render" => format = "text" /\ equipped = {}
    /\ part # "batches" => target = [x \in TargetNames |-> NoFile]

\* What a step of each part leaves alone
BesideReads == <<part, usageVars, binVars, poolVars, vaultVars, routeVars, confVars,
               thumbVars, renderVars, sessionVars, batchVars, mountVars>>
BesideUsage == <<part, readVars, binVars, poolVars, vaultVars, routeVars, confVars,
               thumbVars, renderVars, sessionVars, batchVars, mountVars>>
BesideBin == <<part, readVars, usageVars, poolVars, vaultVars, routeVars, confVars,
             thumbVars, renderVars, sessionVars, batchVars, mountVars>>
BesidePool == <<part, readVars, usageVars, binVars, vaultVars, routeVars, confVars,
              thumbVars, renderVars, sessionVars, batchVars, mountVars>>
BesideVault == <<part, readVars, usageVars, binVars, poolVars, routeVars, confVars,
               thumbVars, renderVars, sessionVars, batchVars, mountVars>>
BesideRoute == <<part, readVars, usageVars, binVars, poolVars, vaultVars, confVars,
               thumbVars, renderVars, sessionVars, batchVars, mountVars>>
BesideConfig == <<part, readVars, usageVars, binVars, poolVars, vaultVars,
                routeVars, thumbVars, renderVars, sessionVars, batchVars,
                mountVars>>
BesideThumbs == <<part, readVars, usageVars, binVars, poolVars, vaultVars,
                routeVars, confVars, renderVars, sessionVars, batchVars, mountVars>>
BesideRender == <<part, readVars, usageVars, binVars, poolVars, vaultVars,
                routeVars, confVars, thumbVars, sessionVars, batchVars, mountVars>>
BesideVideos == <<part, readVars, usageVars, binVars, poolVars, vaultVars,
                routeVars, confVars, thumbVars, renderVars, batchVars, mountVars>>
BesideBatches == <<part, readVars, usageVars, binVars, poolVars, vaultVars,
                 routeVars, confVars, thumbVars, renderVars, sessionVars,
                 mountVars>>
BesideMounts == <<part, readVars, usageVars, binVars, poolVars, vaultVars,
                routeVars, confVars, thumbVars, renderVars, sessionVars, batchVars>>

\* The steps of each part
ReadsMoves ==
    /\ part = "reads" /\ UNCHANGED BesideReads
    /\ \/ \E t \in Readings : BeginReading(t)
       \/ \E t \in Readings : AskWriteCache(t)
       \/ \E t \in Readings : Get(t)
       \/ \E t \in Readings : ReadBlobFile(t)
       \/ \E t \in Readings : Fetch(t)
       \/ \E t \in Readings : StatFetched(t)
       \/ \E t \in Readings : DropEntry(t)
       \/ \E t \in Readings : ChangePrimary(t)
       \/ \E t \in Readings : Enqueue(t)
       \/ \E t \in Readings : FlushPending(t)
       \/ \E t \in Readings : DropPending(t)
       \/ \E t \in Readings : PutRemove(t)
       \/ \E t \in Readings : MakeRoom(t)
       \/ \E t \in Readings : WriteBin(t)
       \/ \E t \in Readings : WriteJson(t)
       \/ \E t \in Readings : InsertEntry(t)
       \/ \E t \in Readings : RemoveBin(t)
       \/ \E t \in Readings : RemoveJson(t)
       \/ \E k \in Keys : Expire(k)
       \/ RestartPool

UsageMoves ==
    /\ part = "usage" /\ UNCHANGED BesideUsage
    /\ \/ \E r \in Requests : BeginRequest(r)
       \/ \E r \in Requests : FlushFirst(r)
       \/ \E r \in Requests : FlushEnded(r)
       \/ \E r \in Requests : Measure(r)
       \/ \E r \in Requests : ReadPendingDelta(r)
       \/ \E r \in Requests : CheckQuota(r)
       \/ \E r \in Requests : ChangeFile(r)
       \/ \E r \in Requests : ChangeRow(r)
       \/ \E r \in Requests : Charge(r)
       \/ \E r \in Requests : SumRows(r)
       \/ \E r \in Requests : SetUsed(r)
       \/ \E r \in Requests : EnqueueFile(r)
       \/ \E r \in Requests : MarkDirty(r)
       \/ \E r \in Requests : AddIndexTask(r)
       \/ \E f \in UserFiles : BeginFileFlush(f)
       \/ \E f \in UserFiles : StatPrevious(f)
       \/ \E f \in UserFiles : FlushFile(f)
       \/ \E f \in UserFiles : LeaveQueue(f)
       \/ \E f \in UserFiles : ScheduleIndexSync(f)
       \/ \E f \in UserFiles : ScheduleQuotaSync(f)
       \/ \E f \in UserFiles : InsertQuotaTask(f)
       \/ \E f \in UserFiles : DropQuotaTask(f)
       \/ \E s \in Syncers : TakeIndexTask(s)
       \/ \E s \in Syncers : ListFiles(s)
       \/ \E s \in Syncers : CommitRows(s)
       \/ \E s \in Syncers : CheckNewTask(s)
       \/ \E s \in Syncers : ClearDirtyMarkers(s)
       \/ TakeQuotaTask
       \/ SyncUserQuota
       \/ RestartUsage

BinMoves ==
    /\ part = "bin" /\ UNCHANGED BesideBin
    /\ \/ \E r \in BinRequests : BeginTrash(r)
       \/ \E r \in BinRequests : BeginRestore(r)
       \/ \E r \in BinRequests : BeginDelete(r)
       \/ \E r \in BinRequests : BeginWrite(r)
       \/ \E r \in BinRequests : BeginCreateDir(r)
       \/ \E r \in Workers : StatBin(r)
       \/ \E r \in Workers : MoveRegularPath(r)
       \/ \E r \in Workers : MoveRows(r)
       \/ \E r \in Workers : RemoveInside(r)
       \/ \E r \in Workers : RemoveTop(r)
       \/ \E r \in Workers : DeleteRows(r)
       \/ \E r \in Workers : StoreBin(r)
       \/ \E r \in Workers : RowBin(r)
       \/ FindExpiredBatch
       \/ DeleteExpired

PoolMoves ==
    /\ part = "pool" /\ UNCHANGED BesidePool
    /\ \/ \E r \in PoolRequests : BeginCall(r)
       \/ \E r \in PoolRequests : ReadFirst(r)
       \/ \E r \in PoolRequests : ReadSecond(r)
       \/ \E r \in PoolRequests : WriteWhole(r)
       \/ \E r \in PoolRequests : StatWritten(r)
       \/ \E r \in PoolRequests : FindDeleted(r)
       \/ \E r \in PoolRequests : DeleteFile(r)
       \/ \E r \in PoolRequests : ListTree(r)
       \/ \E r \in PoolRequests : RemoveEntry(r)
       \/ \E r \in PoolRequests : OpenTmp(r)
       \/ \E r \in PoolRequests : WriteChunk(r)
       \/ \E r \in PoolRequests : RenameTmp(r)

VaultMoves ==
    /\ part = "vault" /\ UNCHANGED BesideVault
    /\ \/ \E r \in ProtectedRequests : BeginProtectedRead(r)
       \/ \E r \in ProtectedRequests : BeginProtectedWrite(r)
       \/ \E r \in ProtectedRequests : BeginProtectedDelete(r)
       \/ \E r \in ProtectedRequests : BeginProtectedMove(r)
       \/ \E r \in ProtectedRequests : BeginProtectedCopy(r)
       \/ \E r \in ProtectedRequests : CreateProtectedDir(r)
       \/ \E r \in ProtectedRequests : ReadPayload(r)
       \/ \E r \in ProtectedRequests : ReadMacs(r)
       \/ \E r \in ProtectedRequests : WriteBlob(r)
       \/ \E r \in ProtectedRequests : UpsertRow(r)
       \/ \E r \in ProtectedRequests : RemoveBlob(r)
       \/ \E r \in ProtectedRequests : DeleteProtectedRows(r)
       \/ \E r \in ProtectedRequests : MoveProtectedRows(r)
       \/ \E r \in ProtectedRequests : CopyBlob(r)
       \/ \E r \in ProtectedRequests : BlobsCopied(r)
       \/ \E r \in ProtectedRequests : UpsertCopy(r)
       \/ \E r \in ProtectedRequests : EndCopy(r)
       \/ \E r \in ProtectedRequests : UndoRows(r)
       \/ \E r \in ProtectedRequests : UndoBlobs(r)
       \/ VaultCrash
       \/ RecoverProtectedWrite
       \/ RecoverProtectedDelete
       \/ RecoverProtectedMove
       \/ RecoverProtectedCopy

RouteMoves ==
    /\ part = "route" /\ UNCHANGED BesideRoute
    /\ \/ \E r \in UserRequests : FindSettings(r)
       \/ \E r \in UserRequests : ReadSettings(r)
       \/ \E r \in UserRequests : ReadRoleQuota(r)
       \/ \E r \in UserRequests : UpsertSettings(r)
       \/ \E r \in UserRequests : CacheSettings(r)
       \/ \E r \in UserRequests : CreateEngine(r)
       \/ \E r \in UserRequests : WriteBelowRoot(r)
       \/ \E r \in UserRequests : ChargeUser(r)
       \/ \E r \in UserRequests : EndEngine(r)
       \/ \E t \in KeyRequests : FindKeyOwner(t)
       \/ \E t \in KeyRequests : SetKeys(t)
       \/ AdminChange
       \/ DeleteSettings
       \/ InvalidateSettings
       \/ RestartHub

ConfigMoves ==
    /\ part = "config" /\ UNCHANGED BesideConfig
    /\ \/ BreakField
       \/ RemoveSection
       \/ EditThumbnails
       \/ EditSeek
       \/ EditConnectors
       \/ EditPools
       \/ EditRoutes
       \/ Validate
       \/ StartHub
       \/ UseSettings

ThumbsMoves ==
    /\ part = "thumbs" /\ UNCHANGED BesideThumbs
    /\ \/ \E r \in ThumbRequests : CheckMarkers(r)
       \/ \E r \in ThumbRequests : Download(r)
       \/ \E r \in ThumbRequests : StartRender(r)
       \/ \E r \in ThumbRequests : EndRender(r)
       \/ \E r \in ThumbRequests : StoreThumb(r)
       \/ \E r \in ThumbRequests : RemoveThumb(r)
       \/ \E r \in ThumbRequests : MoveThumb(r)
       \/ \E r \in ThumbRequests : CopyThumb(r)
       \/ \E r \in ThumbRequests : PutThumb(r)
       \/ \E r \in ThumbRequests : DropThumb(r)
       \/ \E r \in ThumbRequests, x \in Pictures : BeginShow(r, x)
       \/ \E r \in ThumbRequests, x \in Pictures, z \in Contents \cup {NoContent} : BeginThumbChange(r, x, z)
       \/ \E r \in ThumbRequests, x \in Pictures, y \in Pictures : BeginThumbMove(r, x, y)
       \/ \E r \in ThumbRequests, scope \in ThumbFolders \cup {"all"} : ClearThumbs(r, scope)
       \/ \E r \in ThumbRequests, w \in ThumbFolders, on \in BOOLEAN : SetThumbnailDisabled(r, w, on)

RenderMoves ==
    /\ part = "render" /\ UNCHANGED BesideRender
    /\ \/ \E e \in Endings : RunBuiltin(e)
       \/ \E e \in Endings : RunVips(e)
       \/ \E e \in Endings : RunMagick(e)
       \/ \E e \in Endings : RunLibreOffice(e)
       \/ \E e \in Endings : RunBlender(e)
       \/ \E e \in Endings : RunHardware(e)
       \/ \E e \in Endings : RunFfmpeg(e)
       \/ \E e \in Endings, large \in BOOLEAN : RunLatexmk(e, large)
       \/ WithoutVips
       \/ WithoutMagick

VideosMoves ==
    /\ part = "videos" /\ UNCHANGED BesideVideos
    /\ \/ \E r \in VideoRequests, k \in VideoKeys : BeginEnsureSession(r, k)
       \/ \E r \in VideoRequests, i \in SessionIds : BeginResolveAsset(r, i)
       \/ \E r \in VideoRequests, i \in SessionIds : JudgeSession(r, i)
       \/ \E r \in VideoRequests : RemoveSession(r)
       \/ \E r \in VideoRequests : RemoveDirectory(r)
       \/ \E r \in VideoRequests : FindSession(r)
       \/ \E r \in VideoRequests : LookAtSession(r)
       \/ \E r \in VideoRequests : CountJobs(r)
       \/ \E r \in VideoRequests : InsertSession(r)
       \/ \E r \in VideoRequests : ServeAsset(r)
       \/ \E i \in SessionIds : EndTranscoding(i)
       \/ \E i \in SessionIds : FailTranscoding(i)
       \/ \E i \in SessionIds : PassTimeToLive(i)

BatchesMoves ==
    /\ part = "batches" /\ UNCHANGED BesideBatches
    /\ \/ \E kind \in BatchKinds, removes \in BOOLEAN, replaces \in BOOLEAN : Submit(kind, removes, replaces)
       \/ \E i \in Items : WriteSource(i)
       \/ \E x \in TakenByOthers : WriteTarget(x)
       \/ Cancel
       \/ TimeOutTask
       \/ Report
       \/ Pack
       \/ PackNothing
       \/ ReportPack
       \/ ReportUnpack
       \/ \E i \in Items : Plan(i)
       \/ \E i \in Items : StartItem(i)
       \/ \E i \in Items : Operate(i)
       \/ \E i \in Items : Collect(i)
       \/ \E i \in Items : Stage(i)
       \/ \E i \in Items : ClearSource(i)
       \/ \E i \in Items : Unpack(i)
       \/ \E i \in Items : ChooseOutput(i)
       \/ \E i \in Items : WriteVideo(i)
       \/ \E i \in Items : RemoveVideo(i)

MountsMoves ==
    /\ part = "mounts" /\ UNCHANGED BesideMounts
    /\ \/ \E s \in Sides, p \in TreePaths : EditFile(s, p)
       \/ \E s \in Sides, p \in TreePaths : RemoveHeld(s, p)
       \/ \E mode \in MountModes, s \in Sides : BeginJob(mode, s)
       \/ FailJob
       \/ ListSource
       \/ ListSink
       \/ MakeFolders
       \/ ChooseOneWay
       \/ ChooseTwoWays
       \/ ReadFile
       \/ WriteFile
       \/ DeleteExtra
       \/ StatMoved
       \/ ListChildren
       \/ RemoveMoved
       \/ FinishJob

Next == ReadsMoves \/ UsageMoves \/ BinMoves \/ PoolMoves \/ VaultMoves \/ RouteMoves
        \/ ConfigMoves \/ ThumbsMoves \/ RenderMoves \/ VideosMoves \/ BatchesMoves \/
        MountsMoves
Spec == Init /\ [][Next]_storageVars

\* The variables that can change: for TLC two states that differ in no other are one.
MovingPart ==
    CASE part = "reads" -> <<part, readVars>>
      [] part = "usage" -> <<part, usageVars>>
      [] part = "bin" -> <<part, binVars>>
      [] part = "pool" -> <<part, poolVars>>
      [] part = "vault" -> <<part, vaultVars>>
      [] part = "route" -> <<part, routeVars>>
      [] part = "config" -> <<part, confVars>>
      [] part = "thumbs" -> <<part, thumbVars>>
      [] part = "render" -> <<part, renderVars>>
      [] part = "videos" -> <<part, sessionVars>>
      [] part = "batches" -> <<part, batchVars>>
      [] part = "mounts" -> <<part, mountVars>>
=============================================================================
