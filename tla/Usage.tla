------------------------------- MODULE Usage -------------------------------
(***************************************************************************)
(* What a user has stored, what the index says of it and what is charged   *)
(* for it: the direct operations of the scoped engine                      *)
(* (src/vfs/scoped/write.rs, internal.rs), the background work of the      *)
(* write cache - flushes, the tasks which sync a directory's index and the *)
(* user's quota (src/vfs/cache/write_cache.rs) - the row of the user's     *)
(* settings (src/business/services/user_settings.rs) and the recount of a  *)
(* recovery (src/vfs/wal/mod.rs).                                          *)
(*                                                                         *)
(* The files are those of one directory; a file is its size, 0 when there  *)
(* is none.  What the generations and files of the write cache do is the   *)
(* subject of WriteCache: here a file has one flush at a time.             *)
(***************************************************************************)
EXTENDS Integers, FiniteSets, FiniteSetsExt

CONSTANTS
    UserFiles,    \* files of the directory
    FileSizes,    \* sizes a request writes, without 0
    WriteEnds,    \* where a write at an offset ends
    StartSize,    \* [UserFiles -> Nat]: the files at the start
    Quota,        \* storage_quota; 0 is none
    Requests,     \* requests, each issued at most once
    RequestKinds, \* which of AllRequests
    Syncers,      \* bound on the concurrent syncs of the directory's index
    UseWriteCache,\* whether the pool has a write cache
    MaxUsageFaults, \* bound on the failing calls and restarts of a behaviour
    NoTask        \* no entry in a map

AllRequests == {"write", "writeAt", "stream", "copy", "delete", "cached", "recount"}
ASSUME UsageAssumption ==
    /\ IsFiniteSet(UserFiles) /\ IsFiniteSet(Requests)
    /\ FileSizes \subseteq Nat /\ WriteEnds \subseteq Nat /\ StartSize \in [UserFiles -> Nat]
    /\ Quota \in Nat /\ RequestKinds \subseteq AllRequests
    /\ NoTask \notin Int

VARIABLES
    size,         \* the primary operator
    row,          \* the file's row of the index: its size, or NoTask
    queued,       \* the write cache: the size that waits, or NoTask
    dirtyPaths, dirtyDir,  \* dirty_paths, dirty_dirs
    indexTask,    \* index_sync_dirs has the directory
    syncing,      \* [Syncers -> a run of sync_directory_index]
    quotaTask,    \* quota_sync_users: the delta, or NoTask
    charging,     \* the delta a run of sync_user_quota has taken, or NoTask
    flushing,     \* [UserFiles -> a run of flush_entry]
    used,         \* storage_used
    request,      \* [Requests -> local state]
    slips,        \* history: what has happened that the code does not account for
    usageFaults

usageVars == <<size, row, queued, dirtyPaths, dirtyDir, indexTask, syncing, quotaTask, charging,
               flushing, used, request, slips, usageFaults>>
indexVars == <<row, dirtyPaths, dirtyDir, indexTask, syncing>>
chargeVars == <<quotaTask, charging, used>>
Idle == [at |-> "idle", prev |-> 0, content |-> 0, current |-> TRUE]
AnyFile == CHOOSE f \in UserFiles : TRUE
FreshRequest == [pc |-> "new", kind |-> "write", file |-> AnyFile, from |-> AnyFile,
                 new |-> 0, diff |-> 0, seen |-> 0]
SyncIdle == [at |-> "idle", listed |-> [f \in UserFiles |-> 0]]

Stored == MapThenSumSet(LAMBDA f : size[f], UserFiles)

UsageInit ==
    /\ size = StartSize
    /\ row = [f \in UserFiles |-> IF size[f] = 0 THEN NoTask ELSE size[f]]
    /\ queued = [f \in UserFiles |-> NoTask]
    /\ dirtyPaths = {} /\ dirtyDir = FALSE /\ indexTask = FALSE
    /\ syncing = [s \in Syncers |-> SyncIdle]
    /\ quotaTask = NoTask /\ charging = NoTask /\ used = Stored
    /\ flushing = [f \in UserFiles |-> Idle]
    /\ request = [r \in Requests |-> FreshRequest]
    /\ slips = {} /\ usageFaults = 0

Under(r) == request[r].pc \notin {"new", "end"}
Files(r) == IF request[r].kind = "recount" THEN UserFiles
            ELSE {request[r].file} \cup IF request[r].kind = "copy" THEN {request[r].from} ELSE {}
AtUse(r, pc) == request[r].pc = pc
Ended == [FreshRequest EXCEPT !.pc = "end"]
Advance(r, pc) == request' = [request EXCEPT ![r] = IF pc = "end" THEN Ended ELSE [@ EXCEPT !.pc = pc]]
UsageFault == usageFaults < MaxUsageFaults /\ usageFaults' = usageFaults + 1
\* What the code does not account for: in the charge, in the index, in
\* both, or in the check of the quota.
OfCharge == {"charge"}
OfIndex == {"index"}
OfQuota == {"quota"}
Both == OfCharge \cup OfIndex
Slip(cond, what) == slips' = IF cond THEN slips \cup what ELSE slips

\* get_total_size of "/" sums the rows whose path is "/" or starts with "//": none of the
\* files' rows is among them.
RowsBelowRoot == {}
RowsTotal == MapThenSumSet(LAMBDA f : IF row[f] = NoTask THEN 0 ELSE row[f], RowsBelowRoot)
Delta == IF quotaTask = NoTask THEN 0 ELSE quotaTask
IndexQuiet == ~indexTask /\ \A s \in Syncers : syncing[s].at = "idle"
FilesQuiet == /\ \A f \in UserFiles : queued[f] = NoTask /\ flushing[f].at = "idle"
              /\ \A r \in Requests : ~Under(r)
ChargesQuiet == quotaTask = NoTask /\ charging = NoTask

-----------------------------------------------------------------------------
(* Requests                                                                 *)

Issued(kind, f, g, n) ==
    [FreshRequest EXCEPT !.kind = kind, !.file = f, !.new = n,
        !.from = IF kind = "copy" THEN g ELSE AnyFile,
        !.pc = CASE kind = "cached" -> "enqueue" [] kind = "recount" -> "sum"
                 [] kind = "stream" -> "measure" [] OTHER -> "flush"]

\* What waits for a file is flushed before a direct operation on it, except before a
\* streamed write that is too large for the cache.
BeginRequest(r) ==
    /\ AtUse(r, "new")
    /\ \E kind \in RequestKinds, f, g \in UserFiles, n \in FileSizes \cup WriteEnds :
         /\ n \in IF kind = "writeAt" THEN WriteEnds ELSE FileSizes
         /\ kind = "copy" => f # g
         /\ kind = "cached" => UseWriteCache
         /\ request' = [request EXCEPT ![r] = Issued(kind, f, g, n)]
    /\ LET others == {q \in Requests \ {r} : Under(q)}
       IN slips' = slips \cup (IF others # {} THEN OfQuota ELSE {})
                         \cup (IF \E q \in others : Files(q) \cap Files(r)' # {} THEN Both ELSE {})
                         \cup (IF request'[r].kind = "stream" /\ flushing[request'[r].file].at # "idle"
                               THEN Both ELSE {})
    /\ UNCHANGED <<size, queued, indexVars, chargeVars, flushing, usageFaults>>

\* flush_pending_write_cache_for_path: it flushes what waits, returns at once when
\* somebody else does, and fails when that flush fails.
FlushFirst(r) ==
    /\ AtUse(r, "flush")
    /\ LET waiting == {f \in Files(r) : queued[f] # NoTask}
           busy == {f \in Files(r) : flushing[f].at # "idle"}
       IN \/ /\ waiting \ busy # {}
             /\ \E f \in waiting \ busy :
                  flushing' = [flushing EXCEPT ![f] = [Idle EXCEPT !.at = "stat"]]
             /\ Advance(r, "flushed") /\ UNCHANGED slips
          \/ /\ waiting \ busy = {}
             /\ Advance(r, "measure")
             /\ Slip(busy # {}, Both) /\ UNCHANGED flushing
    /\ UNCHANGED <<size, queued, indexVars, chargeVars, usageFaults>>
FlushEnded(r) ==
    /\ AtUse(r, "flushed")
    /\ \A f \in Files(r) : flushing[f].at = "idle"
    /\ Advance(r, IF \A f \in Files(r) : queued[f] = NoTask THEN "measure" ELSE "end")
    /\ UNCHANGED <<size, queued, indexVars, chargeVars, flushing, slips, usageFaults>>

\* stat_impl: what waits, else the row of a path that is not dirty, else the store.
SizeOf(f) == IF queued[f] # NoTask THEN queued[f]
             ELSE IF f \notin dirtyPaths /\ row[f] # NoTask
                  THEN IF size[f] = 0 THEN 0 ELSE row[f]
                  ELSE size[f]

\* A copy is charged in full, whatever it replaces.
Growth(r) == CASE request[r].kind \in {"write", "stream"} -> request[r].new - SizeOf(request[r].file)
               [] request[r].kind = "writeAt" -> Max({0, request[r].new - SizeOf(request[r].file)})
               [] request[r].kind = "copy" -> SizeOf(request[r].from)
               [] request[r].kind = "delete" -> 0 - SizeOf(request[r].file)
Measure(r) ==
    /\ AtUse(r, "measure")
    /\ LET missing == \/ request[r].kind = "delete" /\ SizeOf(request[r].file) = 0
                      \/ request[r].kind = "copy" /\ SizeOf(request[r].from) = 0
           checks == Quota > 0 /\ (request[r].kind \in {"stream", "copy"} \/ Growth(r) > 0)
       IN request' = [request EXCEPT
            ![r] = IF missing THEN Ended
                   ELSE [@ EXCEPT !.diff = Growth(r), !.pc = IF checks THEN "pending" ELSE "store"]]
    /\ Slip(\/ \E f \in Files(r) : SizeOf(f) # size[f]
            \/ request[r].kind = "copy" /\ size[request[r].file] # 0, OfCharge)
    /\ UNCHANGED <<size, queued, indexVars, chargeVars, flushing, usageFaults>>

\* check_quota reads the delta that waits, then the settings.
ReadPendingDelta(r) ==
    /\ AtUse(r, "pending")
    /\ request' = [request EXCEPT ![r].seen = Delta, ![r].pc = "quota"]
    /\ Slip(\E f \in UserFiles : flushing[f].at # "idle", OfQuota)
    /\ UNCHANGED <<size, queued, indexVars, chargeVars, flushing, usageFaults>>
CheckUsedOnly(r) ==
    /\ AtUse(r, "quota")
    /\ Advance(r, IF request[r].diff > 0 /\ used + request[r].diff > Quota THEN "end" ELSE "store")
    /\ Slip(charging # NoTask \/ Delta # request[r].seen, OfQuota)
    /\ UNCHANGED <<size, queued, indexVars, chargeVars, flushing, usageFaults>>
CheckQuota(r) ==
    /\ AtUse(r, "quota")
    /\ Advance(r, IF request[r].diff > 0 /\ used + request[r].seen + request[r].diff > Quota
                  THEN "end" ELSE "store")
    /\ Slip(charging # NoTask \/ Delta # request[r].seen, OfQuota)
    /\ UNCHANGED <<size, queued, indexVars, chargeVars, flushing, usageFaults>>

\* A write at an offset whose read of the old content fails takes that for empty, and
\* what was there before is gone.
ChangeFile(r) ==
    /\ AtUse(r, "store")
    /\ LET k == request[r].kind
           f == request[r].file
           n == CASE k \in {"write", "stream"} -> request[r].new
                  [] k = "writeAt" -> Max({size[f], request[r].new})
                  [] k = "copy" -> size[request[r].from]
                  [] k = "delete" -> 0
       IN \/ /\ size' = [size EXCEPT ![f] = n]
             /\ Advance(r, IF k \in {"writeAt", "stream"} THEN "chargeFirst" ELSE "index")
             /\ Slip(\E s \in Syncers : syncing[s].at # "idle", OfIndex)
             /\ UNCHANGED usageFaults
          \/ UsageFault /\ Advance(r, "end") /\ UNCHANGED <<size, slips>>
          \/ /\ k = "writeAt" /\ UsageFault
             /\ size' = [size EXCEPT ![f] = request[r].new]
             /\ Advance(r, "chargeFirst") /\ slips' = slips \cup Both
    /\ UNCHANGED <<queued, indexVars, chargeVars, flushing>>

\* A write or a copy whose row cannot be written fails before it is charged; a
\* delete is charged all the same.  The row of a streamed write is what the pool's
\* stat answers, which is what waits in the write cache if something does.
ChangeRow(r) ==
    /\ AtUse(r, "index") \/ AtUse(r, "indexLast")
    /\ LET k == request[r].kind
           f == request[r].file
           next == IF AtUse(r, "index") THEN "charge" ELSE "end"
       IN \/ /\ row' = [row EXCEPT ![f] = IF k = "delete" THEN NoTask
                                             ELSE IF k = "stream" /\ queued[f] # NoTask THEN queued[f]
                                             ELSE size[f]]
             /\ Advance(r, next)
             /\ Slip(\E s \in Syncers : syncing[s].at # "idle", OfIndex) /\ UNCHANGED usageFaults
          \/ /\ UsageFault /\ UNCHANGED row
             /\ Advance(r, IF k = "delete" THEN next ELSE "end")
             /\ slips' = slips \cup Both
    /\ UNCHANGED <<size, queued, dirtyPaths, dirtyDir, indexTask, syncing, chargeVars, flushing>>

\* update_quota; its failure is ignored.
Charge(r) ==
    /\ AtUse(r, "charge") \/ AtUse(r, "chargeFirst")
    /\ Advance(r, IF AtUse(r, "charge") THEN "end" ELSE "indexLast")
    /\ \/ used' = used + request[r].diff /\ UNCHANGED <<slips, usageFaults>>
       \/ UsageFault /\ slips' = slips \cup OfCharge /\ UNCHANGED used
    /\ UNCHANGED <<size, queued, indexVars, quotaTask, charging, flushing>>

\* recalibrate_storage_used: the sum of the rows, then the settings.
SumRows(r) ==
    /\ AtUse(r, "sum")
    /\ request' = [request EXCEPT ![r].diff = RowsTotal, ![r].pc = "set"]
    /\ UNCHANGED <<size, queued, indexVars, chargeVars, flushing, slips, usageFaults>>
SetUsed(r) ==
    /\ AtUse(r, "set")
    /\ used' = request[r].diff
    /\ Advance(r, "end")
    /\ Slip(~ChargesQuiet \/ \E f \in UserFiles : flushing[f].at # "idle" \/ used' # Stored, OfCharge)
    /\ UNCHANGED <<size, queued, indexVars, quotaTask, charging, flushing, usageFaults>>

-----------------------------------------------------------------------------
(* The write cache: enqueue and flush                                       *)

\* No quota is checked on this path.
EnqueueFile(r) ==
    /\ AtUse(r, "enqueue")
    /\ queued' = [queued EXCEPT ![request[r].file] = request[r].new]
    /\ flushing' = [flushing EXCEPT ![request[r].file].current = @ /\ flushing[request[r].file].at = "idle"]
    /\ Advance(r, "mark")
    /\ UNCHANGED <<size, indexVars, chargeVars, slips, usageFaults>>
\* mark_dirty: the markers, then the task, which is due a second later.
MarkDirty(r) ==
    /\ AtUse(r, "mark")
    /\ dirtyPaths' = dirtyPaths \cup {request[r].file} /\ dirtyDir' = TRUE
    /\ Advance(r, "task")
    /\ UNCHANGED <<size, row, queued, indexTask, syncing, chargeVars, flushing, slips, usageFaults>>
AddIndexTask(r) ==
    /\ AtUse(r, "task")
    /\ indexTask' = TRUE
    /\ Advance(r, "end")
    /\ UNCHANGED <<size, row, queued, dirtyPaths, dirtyDir, syncing, chargeVars, flushing, slips, usageFaults>>

BeginFileFlush(f) ==
    /\ queued[f] # NoTask /\ flushing[f].at = "idle"
    /\ flushing' = [flushing EXCEPT ![f] = [Idle EXCEPT !.at = "stat"]]
    /\ LET others == {r \in Requests : Under(r) /\ request[r].kind # "cached"}
       IN slips' = slips \cup (IF others # {} THEN OfQuota ELSE {})
                         \cup (IF \E r \in others : f \in Files(r) THEN Both ELSE {})
    /\ UNCHANGED <<size, queued, indexVars, chargeVars, request, usageFaults>>
StatPrevious(f) ==
    /\ flushing[f].at = "stat"
    /\ flushing' = [flushing EXCEPT ![f] =
         [at |-> "write", prev |-> size[f], content |-> queued[f], current |-> TRUE]]
    /\ UNCHANGED <<size, queued, indexVars, chargeVars, request, slips, usageFaults>>
FlushFile(f) ==
    /\ flushing[f].at = "write"
    /\ \/ /\ size' = [size EXCEPT ![f] = flushing[f].content]
          /\ flushing' = [flushing EXCEPT ![f].at = "leave"] /\ UNCHANGED usageFaults
       \/ UsageFault /\ flushing' = [flushing EXCEPT ![f] = Idle] /\ UNCHANGED size
    /\ UNCHANGED <<queued, indexVars, chargeVars, request, slips>>
\* After an update the file waits again, and what this flush has stored is not
\* charged: the next one takes it for the previous size.
LeaveQueue(f) ==
    /\ flushing[f].at = "leave"
    /\ IF flushing[f].current
       THEN /\ queued' = [queued EXCEPT ![f] = NoTask]
            /\ flushing' = [flushing EXCEPT ![f].at = "index"] /\ UNCHANGED slips
       ELSE /\ flushing' = [flushing EXCEPT ![f] = Idle] /\ UNCHANGED queued
            /\ Slip(size[f] # flushing[f].prev, OfCharge)
    /\ UNCHANGED <<size, indexVars, chargeVars, request, usageFaults>>
ScheduleNoSync(f) ==
    /\ flushing[f].at = "index"
    /\ flushing' = [flushing EXCEPT ![f] = IF size[f] = @.prev THEN Idle ELSE [@ EXCEPT !.at = "quota"]]
    /\ UNCHANGED <<size, indexVars, queued, chargeVars, request, slips, usageFaults>>
ScheduleIndexSync(f) ==
    /\ flushing[f].at = "index"
    /\ indexTask' = TRUE
    /\ flushing' = [flushing EXCEPT ![f] = IF size[f] = @.prev THEN Idle ELSE [@ EXCEPT !.at = "quota"]]
    /\ UNCHANGED <<size, row, queued, dirtyPaths, dirtyDir, syncing, chargeVars, request, slips, usageFaults>>
\* schedule_quota_sync: the delta is added to the task under the map's lock; a task
\* that has become zero is removed, one that was missing is inserted, afterwards.
ScheduleQuotaSync(f) ==
    /\ flushing[f].at = "quota"
    /\ LET delta == flushing[f].content - flushing[f].prev IN
       IF quotaTask = NoTask
       THEN flushing' = [flushing EXCEPT ![f].at = "insert"] /\ UNCHANGED quotaTask
       ELSE /\ quotaTask' = quotaTask + delta
            /\ flushing' = [flushing EXCEPT ![f] =
                 IF quotaTask' = 0 THEN [@ EXCEPT !.at = "drop"] ELSE Idle]
    /\ UNCHANGED <<size, queued, indexVars, charging, used, request, slips, usageFaults>>
InsertQuotaTask(f) ==
    /\ flushing[f].at = "insert"
    /\ quotaTask' = flushing[f].content - flushing[f].prev
    /\ flushing' = [flushing EXCEPT ![f] = Idle]
    /\ Slip(Delta # 0, OfCharge)
    /\ UNCHANGED <<size, queued, indexVars, charging, used, request, usageFaults>>
DropQuotaTask(f) ==
    /\ flushing[f].at = "drop"
    /\ quotaTask' = NoTask
    /\ flushing' = [flushing EXCEPT ![f] = Idle]
    /\ Slip(Delta # 0, OfCharge)
    /\ UNCHANGED <<size, queued, indexVars, charging, used, request, usageFaults>>

-----------------------------------------------------------------------------
(* The write cache: the tasks                                               *)

\* The worker takes the task off the map; a failed charge is merged back.
TakeQuotaTask ==
    /\ quotaTask # NoTask /\ charging = NoTask
    /\ charging' = quotaTask /\ quotaTask' = NoTask
    /\ UNCHANGED <<size, queued, indexVars, used, flushing, request, slips, usageFaults>>
SyncUserQuotaReplaces ==
    /\ charging # NoTask
    /\ charging' = NoTask
    /\ \/ used' = used + charging /\ UNCHANGED <<quotaTask, usageFaults>>
       \/ charging # 0 /\ UsageFault /\ quotaTask' = charging /\ UNCHANGED used
    /\ UNCHANGED <<size, queued, indexVars, flushing, request, slips>>
SyncUserQuota ==
    /\ charging # NoTask
    /\ charging' = NoTask
    /\ \/ used' = used + charging /\ UNCHANGED <<quotaTask, usageFaults>>
       \/ charging # 0 /\ UsageFault /\ quotaTask' = Delta + charging /\ UNCHANGED used
    /\ UNCHANGED <<size, queued, indexVars, flushing, request, slips>>
\* sync_directory_index, without the directory's guard.
TakeIndexTask(s) ==
    /\ indexTask /\ syncing[s].at = "idle"
    /\ indexTask' = FALSE
    /\ syncing' = [syncing EXCEPT ![s].at = "list"]
    /\ UNCHANGED <<size, row, queued, dirtyPaths, dirtyDir, chargeVars, flushing, request, slips, usageFaults>>
\* When the directory cannot be listed the task is gone.
ListFiles(s) ==
    /\ syncing[s].at = "list"
    /\ \/ syncing' = [syncing EXCEPT ![s] = [at |-> "commit", listed |-> size]]
          /\ UNCHANGED <<slips, usageFaults>>
       \/ /\ UsageFault /\ syncing' = [syncing EXCEPT ![s] = SyncIdle]
          /\ slips' = slips \cup OfIndex
    /\ UNCHANGED <<size, row, queued, dirtyPaths, dirtyDir, indexTask, chargeVars, flushing, request>>
\* The transaction: what was listed is written, other rows go; when it fails the task
\* comes back unless there is a new one.
CommitRows(s) ==
    /\ syncing[s].at = "commit"
    /\ \/ /\ row' = [f \in UserFiles |-> IF syncing[s].listed[f] = 0 THEN NoTask
                                         ELSE syncing[s].listed[f]]
          /\ syncing' = [syncing EXCEPT ![s] = [SyncIdle EXCEPT !.at = "check"]]
          /\ UNCHANGED <<indexTask, usageFaults>>
       \/ /\ UsageFault /\ indexTask' = TRUE /\ UNCHANGED row
          /\ syncing' = [syncing EXCEPT ![s] = SyncIdle]
    /\ Slip(\E q \in Syncers \ {s} : syncing[q].at # "idle", OfIndex)
    /\ UNCHANGED <<size, queued, dirtyPaths, dirtyDir, chargeVars, flushing, request>>
\* Without a new task the directory's markers are cleared.
CheckNewTask(s) ==
    /\ syncing[s].at = "check"
    /\ syncing' = [syncing EXCEPT ![s] = IF indexTask THEN SyncIdle ELSE [@ EXCEPT !.at = "clear"]]
    /\ UNCHANGED <<size, row, queued, dirtyPaths, dirtyDir, indexTask, chargeVars, flushing, request, slips, usageFaults>>
ClearDirtyMarkers(s) ==
    /\ syncing[s].at = "clear"
    /\ dirtyDir' = FALSE /\ dirtyPaths' = {}
    /\ syncing' = [syncing EXCEPT ![s] = SyncIdle]
    /\ UNCHANGED <<size, row, queued, indexTask, chargeVars, flushing, request, slips, usageFaults>>

\* The maps are lost; the files that wait are loaded and marked dirty.
RestartUsage ==
    /\ UsageFault
    /\ LET waiting == {f \in UserFiles : queued[f] # NoTask} IN
       /\ dirtyPaths' = waiting
       /\ dirtyDir' = (waiting # {}) /\ indexTask' = (waiting # {})
    /\ syncing' = [s \in Syncers |-> SyncIdle]
    /\ quotaTask' = NoTask /\ charging' = NoTask
    /\ flushing' = [f \in UserFiles |-> Idle]
    /\ request' = [r \in Requests |->
         IF Under(r) THEN Ended ELSE request[r]]
    /\ Slip(~FilesQuiet \/ ~ChargesQuiet \/ ~IndexQuiet, Both)
    /\ UNCHANGED <<size, row, queued, used>>

RequestStep(r) ==
    \/ BeginRequest(r) \/ FlushFirst(r) \/ FlushEnded(r) \/ Measure(r) \/ ReadPendingDelta(r)
    \/ CheckQuota(r) \/ ChangeFile(r) \/ ChangeRow(r) \/ Charge(r) \/ SumRows(r) \/ SetUsed(r)
    \/ EnqueueFile(r) \/ MarkDirty(r) \/ AddIndexTask(r)
FlushStep(f) ==
    \/ BeginFileFlush(f) \/ StatPrevious(f) \/ FlushFile(f) \/ LeaveQueue(f)
    \/ ScheduleIndexSync(f) \/ ScheduleQuotaSync(f) \/ InsertQuotaTask(f) \/ DropQuotaTask(f)
SyncStep(s) == \/ TakeIndexTask(s) \/ ListFiles(s) \/ CommitRows(s)
               \/ CheckNewTask(s) \/ ClearDirtyMarkers(s)

UsageNext == \/ \E r \in Requests : RequestStep(r)
             \/ \E f \in UserFiles : FlushStep(f)
             \/ \E s \in Syncers : SyncStep(s)
             \/ TakeQuotaTask \/ SyncUserQuota \/ RestartUsage
UsageSpec == UsageInit /\ [][UsageNext]_usageVars

-----------------------------------------------------------------------------
(* Properties                                                               *)

\* When nothing is under way, what is charged is what is stored, except after the
\* named slips: two changes of one file at once, a size measured from a stale row, a
\* copy over a file, a charge or a row that failed, a flush overtaken by an update,
\* two flushes at the quota task, a recount beside other work, a restart that cut
\* work short.  Failing and repeated charges of the write cache, and whatever the
\* order of flushes, are not among them.
ChargesAreExact ==
    (FilesQuiet /\ ChargesQuiet /\ "charge" \notin slips) => used = Stored

\* When nothing is under way, every row agrees with the store, except after a change
\* beside a sync, two syncs at once, a row or a listing that failed, or a restart that
\* cut work short: no flush is forgotten by the index.
IndexAgrees ==
    (FilesQuiet /\ IndexQuiet /\ "index" \notin slips) =>
        \A f \in UserFiles : size[f] = IF row[f] = NoTask THEN 0 ELSE row[f]

\* A direct operation that grows what is stored leaves it within the quota, bytes
\* that flushes have stored but not charged yet included; except beside another
\* request, a flush or a charge, whose bytes the check cannot see, and after a slip
\* of the charge.  Cached writes are not checked.
GrowthIsChecked ==
    [][\A r \in Requests :
         /\ Quota > 0 /\ AtUse(r, "store") /\ ~AtUse(r, "store")' /\ Stored' > Stored
         /\ slips \cap {"charge", "quota"} = {}
         => Stored' <= Quota]_usageVars

\* "Get total size (recursive)": a recount which runs alone, when the rows agree with the
\* store and nothing waits, charges what is stored.
RecountIsExact ==
    [][\A r \in Requests :
         /\ AtUse(r, "set") /\ ~AtUse(r, "set")' /\ usageFaults' = 0
         /\ slips = {} /\ ChargesQuiet /\ IndexQuiet
         /\ \A f \in UserFiles : queued[f] = NoTask /\ flushing[f].at = "idle"
         /\ \A q \in Requests \ {r} : ~Under(q)
         => used' = Stored]_usageVars
=============================================================================
