---------------------------- MODULE DirectorySync ----------------------------
(***************************************************************************)
(* The operations on a user's directories that meet in the file index:     *)
(* moves (move_file_impl) and index syncs (sync_index_internal, its        *)
(* background form in execute_sync_decision) under SyncGuards, writes and  *)
(* deletes (write_impl, delete_impl) without a guard.  Each action is one  *)
(* I/O call, one lock or one access to a shared map.  A row of the index   *)
(* is its path; the content of files and rows is abstracted.               *)
(***************************************************************************)
EXTENDS SyncGuards, Integers

CONSTANTS
    Names,    \* file names within a directory
    Kind,     \* [Tasks -> {"move", "background", "blocking", "explicit", "write", "delete"}]
    From,     \* [Tasks -> Paths]: what the task names; of a sync, a path in its directory
    To,       \* [Tasks -> Paths]: the destination of a move, else as From
    Permits,  \* permits of the index sync semaphore
    Stored    \* the paths that exist, and are indexed, at the start

Paths == Dirs \X Names
Kinds == {"move", "background", "blocking", "explicit", "write", "delete"}

ASSUME DirectorySyncAssumption ==
    /\ Kind \in [Tasks -> Kinds] /\ From \in [Tasks -> Paths] /\ To \in [Tasks -> Paths]
    /\ \A t \in Tasks : Kind[t] # "move" => To[t] = From[t]
    /\ Permits \in Nat \ {0} /\ Stored \subseteq Paths

VARIABLES
    pc,        \* [Tasks -> PCs]
    disk,      \* the paths of the primary store
    index,     \* the paths with a row in the file index
    listed,    \* [Tasks -> SUBSET Paths]: what a sync has listed
    spared,    \* [Tasks -> SUBSET Paths]: rows, also to come, too young for the sync to prune
    found,     \* the tasks that found the row of From there when they looked for it
    permits,   \* free permits of INDEX_SYNC_SEMAPHORE
    inflight,  \* INDEX_SYNC_INFLIGHT
    recent     \* INDEX_SYNC_LAST_DONE, the directories done in the last seconds

syncVars == <<pc, disk, index, listed, spared, found, permits, inflight, recent>>
vars == <<guardVars, syncVars>>

PCs == {"new", "claim", "permit", "first", "second", "lockFirst", "lockSecond",
        "rename", "markers", "load", "row", "list", "begin", "commit",
        "store", "find", "leave", "settle", "return", "ended", "failed"}

Dir(t) == From[t][1]
DestDir(t) == To[t][1]
IsMove(t) == Kind[t] = "move"
IsSync(t) == Kind[t] \in {"background", "blocking", "explicit"}
Within(d) == {d} \X Names

Init ==
    /\ GuardInit
    /\ pc = [t \in Tasks |-> "new"]
    /\ disk = Stored /\ index = Stored
    /\ listed = [t \in Tasks |-> {}] /\ spared = [t \in Tasks |-> {}]
    /\ found = {}
    /\ permits = Permits /\ inflight = {} /\ recent = {}

At(t, p) == pc[t] = p
Go(t, p) == pc' = [pc EXCEPT ![t] = p]
Step(t, from, to) == At(t, from) /\ Go(t, to)
\* A timestamp taken now is too young for the syncs whose transaction runs.
Touch(paths) == spared' = [s \in Tasks |-> IF At(s, "commit") THEN spared[s] \cup paths ELSE spared[s]]

-----------------------------------------------------------------------------
(* Starting                                                                 *)

Start(t) ==
    /\ At(t, "new") /\ Kind[t] # "background"
    /\ Go(t, IF Kind[t] = "blocking" THEN "permit"
             ELSE IF Kind[t] \in {"explicit", "move"} THEN "first" ELSE "store")
    /\ UNCHANGED <<guardVars, disk, index, listed, spared, found, permits, inflight, recent>>

\* execute_sync_decision, mode 1: nothing to do within seconds of the last sync.
Debounce(t) ==
    /\ At(t, "new") /\ Kind[t] = "background"
    /\ Go(t, IF Dir(t) \in recent THEN "ended" ELSE "claim")
    /\ UNCHANGED <<guardVars, disk, index, listed, spared, found, permits, inflight, recent>>

\* A directory that has its marker is being synced already.
Claim(t) ==
    /\ At(t, "claim")
    /\ Go(t, IF Dir(t) \in inflight THEN "ended" ELSE "permit")
    /\ inflight' = inflight \cup {Dir(t)}
    /\ UNCHANGED <<guardVars, disk, index, listed, spared, found, permits, recent>>

AcquirePermitAlways(t) ==
    /\ Step(t, "permit", "first")
    /\ permits' = permits - 1
    /\ UNCHANGED <<guardVars, disk, index, listed, spared, found, inflight, recent>>
AcquirePermit(t) ==
    /\ Step(t, "permit", "first")
    /\ permits > 0
    /\ permits' = permits - 1
    /\ UNCHANGED <<guardVars, disk, index, listed, spared, found, inflight, recent>>

\* A move gets the guards of both parents, unless they are one directory, and then
\* locks the source's first.
GetFirst(t) ==
    /\ Step(t, "first", IF IsMove(t) /\ DestDir(t) # Dir(t) THEN "second" ELSE "lockFirst")
    /\ GetGuard(t, Dir(t))
    /\ UNCHANGED <<disk, index, listed, spared, found, permits, inflight, recent>>

GetSecond(t) ==
    /\ Step(t, "second", "lockFirst")
    /\ GetGuard(t, DestDir(t))
    /\ UNCHANGED <<disk, index, listed, spared, found, permits, inflight, recent>>

LockFirstUnguarded(t) ==
    /\ Step(t, "lockFirst", IF IsSync(t) THEN "list" ELSE "rename")
    /\ UNCHANGED <<guardVars, disk, index, listed, spared, found, permits, inflight, recent>>
LockFirst(t) ==
    /\ Step(t, "lockFirst", IF IsSync(t) THEN "list"
                            ELSE IF DestDir(t) # Dir(t) THEN "lockSecond" ELSE "rename")
    /\ Lock(t, Dir(t))
    /\ UNCHANGED <<disk, index, listed, spared, found, permits, inflight, recent>>

LockSecond(t) ==
    /\ Step(t, "lockSecond", "rename")
    /\ Lock(t, DestDir(t))
    /\ UNCHANGED <<disk, index, listed, spared, found, permits, inflight, recent>>

-----------------------------------------------------------------------------
(* move_file_impl under its guards                                          *)

\* pool.move_file is a rename and a stat: after the stat's failure the file has
\* moved, but the move ends in an error.
Rename(t) ==
    /\ At(t, "rename")
    /\ \/ /\ From[t] \in disk
          /\ disk' = (disk \ {From[t]}) \cup {To[t]}
          /\ \E next \in {"markers", "leave"} : Go(t, next)
       \/ Go(t, "leave") /\ UNCHANGED disk
    /\ UNCHANGED <<guardVars, index, listed, spared, found, permits, inflight, recent>>

\* clear_index_sync_debounce for both parents
ClearMarkers(t) ==
    /\ Step(t, "markers", "load")
    /\ recent' = recent \ {Dir(t), DestDir(t)}
    /\ inflight' = inflight \ {Dir(t), DestDir(t)}
    /\ UNCHANGED <<guardVars, disk, index, listed, spared, found, permits>>

\* index_service.move_file loads the row before its transaction.
LoadRow(t) ==
    /\ Step(t, "load", "row") /\ IsMove(t)
    /\ found' = IF From[t] \in index THEN found \cup {t} ELSE found \ {t}
    /\ UNCHANGED <<guardVars, disk, index, listed, spared, permits, inflight, recent>>

\* The row is renamed; a row that has gone, one at the new path (the path is
\* unique) or a database error fails the metadata step, and the move ends.
MoveRow(t) ==
    /\ Step(t, "row", "leave") /\ IsMove(t)
    /\ \/ /\ t \in found /\ From[t] \in index /\ To[t] \notin index \ {From[t]}
          /\ index' = (index \ {From[t]}) \cup {To[t]}
          /\ Touch({To[t]})
       \/ UNCHANGED <<index, spared>>
    /\ UNCHANGED <<guardVars, disk, listed, found, permits, inflight, recent>>

-----------------------------------------------------------------------------
(* sync_index_internal under its guard                                      *)

\* The moment at which pool.list sees the directory; the call may go on for long.
List(t) ==
    /\ Step(t, "list", "begin")
    /\ listed' = [listed EXCEPT ![t] = disk \cap Within(Dir(t))]
    /\ UNCHANGED <<guardVars, disk, index, spared, found, permits, inflight, recent>>

\* The rows writes are about to store, with timestamps taken already.
Stamped == {From[t] : t \in {u \in Tasks : Kind[u] = "write" /\ At(u, "row")}}

\* begin_directory_sync_txn: rows with a timestamp in the second before, or later,
\* are spared; which of the present ones and of those to come it is, is left open.
Begin(t) ==
    /\ Step(t, "begin", "commit")
    /\ \E young \in SUBSET ((index \cup Stamped) \cap Within(Dir(t))) : spared' = [spared EXCEPT ![t] = young]
    /\ UNCHANGED <<guardVars, disk, index, listed, found, permits, inflight, recent>>

\* The transaction upserts what was listed, prunes the other rows of the directory
\* and commits.
Commit(t) ==
    /\ Step(t, "commit", "leave")
    /\ index' = listed[t] \cup {p \in index : p \in Within(Dir(t)) => p \in spared[t]}
    /\ spared' = [s \in Tasks |-> IF s # t /\ At(s, "commit") THEN spared[s] \cup listed[t]
                                  ELSE IF s = t THEN {} ELSE spared[s]]
    /\ listed' = [listed EXCEPT ![t] = {}]
    /\ UNCHANGED <<guardVars, disk, found, permits, inflight, recent>>

\* An error of the store or of the database ends a sync; a background sync may
\* also time out, at the latest while it waits for its guard.
AbandonWithGuards(t) ==
    /\ IsSync(t) /\ pc[t] \in {"list", "begin", "commit"}
    /\ Go(t, IF Kind[t] = "background" THEN "settle" ELSE "return")
    /\ listed' = [listed EXCEPT ![t] = {}] /\ spared' = [spared EXCEPT ![t] = {}]
    /\ UNCHANGED <<guardVars, disk, index, found, permits, inflight, recent>>
Abandon(t) ==
    /\ IsSync(t)
    /\ \/ pc[t] \in {"list", "begin", "commit"}
       \/ Kind[t] = "background" /\ At(t, "lockFirst")
    /\ Go(t, "leave")
    /\ listed' = [listed EXCEPT ![t] = {}] /\ spared' = [spared EXCEPT ![t] = {}]
    /\ UNCHANGED <<guardVars, disk, index, found, permits, inflight, recent>>

\* The guards are dropped at the end of a move or of a sync.
LeaveGuards(t) ==
    /\ Step(t, "leave", IF Kind[t] = "background" THEN "settle"
                        ELSE IF Kind[t] = "blocking" THEN "return" ELSE "ended")
    /\ DropAll(t)
    /\ UNCHANGED <<disk, index, listed, spared, found, permits, inflight, recent>>

\* A background sync notes that it is done, whatever came of it, and removes the
\* directory's marker.
SettleOnly(t) ==
    /\ Step(t, "settle", "return")
    /\ recent' = recent \cup {Dir(t)}
    /\ UNCHANGED <<guardVars, disk, index, listed, spared, found, permits, inflight>>
Settle(t) ==
    /\ Step(t, "settle", "return")
    /\ recent' = recent \cup {Dir(t)}
    /\ inflight' = inflight \ {Dir(t)}
    /\ UNCHANGED <<guardVars, disk, index, listed, spared, found, permits>>

ReturnPermit(t) ==
    /\ Step(t, "return", "ended")
    /\ permits' = permits + 1
    /\ UNCHANGED <<guardVars, disk, index, listed, spared, found, inflight, recent>>

-----------------------------------------------------------------------------
(* write_impl and delete_impl, which take no guard                          *)

\* The store is changed, or fails.
ChangeStore(t) ==
    /\ At(t, "store") /\ Kind[t] \in {"write", "delete"}
    /\ \/ /\ disk' = IF Kind[t] = "write" THEN disk \cup {From[t]} ELSE disk \ {From[t]}
          /\ Kind[t] = "delete" => From[t] \in disk
          /\ Go(t, IF Kind[t] = "write" THEN "find" ELSE "row")
       \/ Go(t, "failed") /\ UNCHANGED disk
    /\ UNCHANGED <<guardVars, index, listed, spared, found, permits, inflight, recent>>

\* A write takes its row's timestamp, then add_or_update_entry looks for the row.
FindRow(t) ==
    /\ Step(t, "find", "row") /\ Kind[t] = "write"
    /\ found' = IF From[t] \in index THEN found \cup {t} ELSE found \ {t}
    /\ Touch({From[t]})
    /\ UNCHANGED <<guardVars, disk, index, listed, permits, inflight, recent>>

\* It updates or inserts as it found; a row that came or went meanwhile, or a
\* database error, fails the write although its data is stored.
UpsertRow(t) ==
    /\ At(t, "row") /\ Kind[t] = "write"
    /\ \/ /\ (t \in found) = (From[t] \in index)
          /\ index' = index \cup {From[t]}
          /\ Go(t, "ended")
       \/ Go(t, "failed") /\ UNCHANGED index
    /\ UNCHANGED <<guardVars, disk, listed, spared, found, permits, inflight, recent>>

\* A delete succeeds whatever comes of its row.
DeleteRow(t) ==
    /\ Step(t, "row", "ended") /\ Kind[t] = "delete"
    /\ index' \in {index, index \ {From[t]}}
    /\ UNCHANGED <<guardVars, disk, listed, spared, found, permits, inflight, recent>>

-----------------------------------------------------------------------------
\* INDEX_SYNC_DEBOUNCE_SECS pass.
Elapse(d) ==
    /\ d \in recent
    /\ recent' = recent \ {d}
    /\ UNCHANGED <<guardVars, pc, disk, index, listed, spared, found, permits, inflight>>

PruneGuard(d) == Prune(d) /\ UNCHANGED syncVars

MoveSteps(t) == GetSecond(t) \/ LockSecond(t) \/ Rename(t) \/ ClearMarkers(t)
                \/ LoadRow(t) \/ MoveRow(t)
SyncSteps(t) == AcquirePermit(t) \/ List(t) \/ Begin(t) \/ Commit(t) \/ Abandon(t)
                \/ Settle(t) \/ ReturnPermit(t)
RowSteps(t) == ChangeStore(t) \/ FindRow(t) \/ UpsertRow(t) \/ DeleteRow(t)
Begins(t) == Start(t) \/ Debounce(t) \/ Claim(t)
Guarding(t) == GetFirst(t) \/ LockFirst(t) \/ LeaveGuards(t)
Runs(t) == Claim(t) \/ Guarding(t) \/ MoveSteps(t) \/ SyncSteps(t) \/ RowSteps(t)

Next == \/ \E t \in Tasks : Begins(t) \/ Guarding(t) \/ MoveSteps(t) \/ SyncSteps(t) \/ RowSteps(t)
        \/ \E d \in Dirs : Elapse(d) \/ PruneGuard(d)
Spec == Init /\ [][Next]_vars

\* Tasks run on; the mutexes and the semaphore serve their waiters in turn.
FairSpec == Spec /\ \A t \in Tasks : /\ WF_vars(Runs(t))
                                     /\ SF_vars(LockFirst(t)) /\ SF_vars(LockSecond(t))
                                     /\ SF_vars(AcquirePermit(t))

-----------------------------------------------------------------------------
(* Properties                                                               *)

TypeOK ==
    /\ GuardTypeOK
    /\ pc \in [Tasks -> PCs]
    /\ disk \subseteq Paths /\ index \subseteq Paths
    /\ listed \in [Tasks -> SUBSET Paths] /\ spared \in [Tasks -> SUBSET Paths]
    /\ found \subseteq Tasks
    /\ permits \in Nat
    /\ inflight \subseteq Dirs /\ recent \subseteq Dirs

\* The directories a task works on: a sync between its lock and the end of its
\* transaction, a move from its rename to its metadata step.
WorksOn(t, d) == \/ IsSync(t) /\ pc[t] \in {"list", "begin", "commit"} /\ d = Dir(t)
                 \/ IsMove(t) /\ pc[t] \in {"rename", "markers", "load", "row"}
                               /\ d \in {Dir(t), DestDir(t)}

\* A directory is worked on by one move or one sync at a time, also while prune
\* throws guards away and syncs time out at any point.
ExclusiveDirectories ==
    \A t, u \in Tasks, d \in Dirs : WorksOn(t, d) /\ WorksOn(u, d) => t = u

\* The paths of the writes and deletes that have begun.
Unguarded == {From[t] : t \in {u \in Tasks : Kind[u] \in {"write", "delete"} /\ ~At(u, "new")}}

\* A sync that commits leaves its directory's rows as the store is at that very
\* moment, but for rows too young to prune and for the paths of writes and
\* deletes, which take no guard: whatever moves and other syncs do between its
\* listing and its commit, it never records half a move or an old listing.
SyncIsExact ==
    [][\A t \in Tasks : Commit(t) =>
         LET here == Within(Dir(t)) \ Unguarded
         IN disk \cap here \subseteq index' /\ index' \cap here \subseteq disk \cup spared[t]]_vars

ClaimedBy(t) == Kind[t] = "background" /\ pc[t] \notin {"new", "claim", "return", "ended"}

\* A move of the directory may have removed marks.
Cleared(d) == \E t \in Tasks : /\ IsMove(t) /\ d \in {Dir(t), DestDir(t)}
                               /\ pc[t] \in {"load", "row", "leave", "ended"}

\* Marks and background syncs go together.  A directory marked as being synced has a
\* task that will remove the mark: no error, timeout or move leaves a mark that would
\* end its syncs for good.  And a directory is not synced a second time while a
\* background sync of it runs, whatever requests come and time out; only a move breaks
\* this: it removes the mark of a sync that is still running.
MarksFollowSyncs ==
    /\ \A d \in inflight : \E t \in Tasks : ClaimedBy(t) /\ Dir(t) = d
    /\ \A t, u \in Tasks : ClaimedBy(t) /\ ClaimedBy(u) /\ Dir(t) = Dir(u)
                             => t = u \/ Cleared(Dir(t))

\* Moves each of which waits for a directory that another of them has locked.
MoveCycle == \E S \in SUBSET {t \in Tasks : IsMove(t) /\ At(t, "lockSecond")} :
                /\ S # {}
                /\ \A t \in S : \E u \in S : Holds(u, DestDir(t))

\* Every operation that starts ends, unless moves have locked each other out:
\* syncs, permits and moves in the same direction never block one another.
EndsUnlessMoveCycle ==
    \A t \in Tasks : pc[t] # "new" ~> (pc[t] \in {"ended", "failed"} \/ MoveCycle)

\* Write-through: once nothing runs, a write that succeeded has its row, if its
\* file is still there.
WriteThrough ==
    (\A t \in Tasks : pc[t] \in {"new", "ended", "failed"}) =>
        \A t \in Tasks : Kind[t] = "write" /\ At(t, "ended") /\ From[t] \in disk
                          => From[t] \in index
=============================================================================
