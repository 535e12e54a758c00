------------------------------- MODULE Mounts -------------------------------
(***************************************************************************)
(* The synchronisation of a mounted remote storage with a directory of     *)
(* the user's own, its peer, and the move of a directory between the two   *)
(* (src/vfs/mounted.rs).  Both work from listings they took at the start,  *)
(* compare the times of the stores, which a copy sets anew, and run beside *)
(* the user's other requests.                                              *)
(*                                                                         *)
(* A synchronised tree is one path "d", a directory or a file, and a file  *)
(* "f" in it.  The two stores take their times from one clock.             *)
(***************************************************************************)
EXTENDS Integers, FiniteSets

CONSTANTS
    MaxStamp,       \* bound on the writes of either store
    EditSize,       \* [1..MaxStamp -> size of the content written at that time]
    MaxMountFaults  \* bound on the jobs that fail of themselves or run out of time
ASSUME MountBounds == /\ MaxStamp \in Nat /\ MaxMountFaults \in Nat
                      /\ EditSize \in [1..MaxStamp -> Nat]

Sides == {"mount", "peer"}
Across(s) == IF s = "mount" THEN "peer" ELSE "mount"
TreePaths == {"d", "f"}
\* edit: the content, named by the time it was first written; at: its modification time.
NoEntry == [kind |-> "none", edit |-> 0, at |-> 0]
DirEntry == [NoEntry EXCEPT !.kind = "dir"]
Version(edit, at) == [kind |-> "file", edit |-> edit, at |-> at]
NoListing == [p \in TreePaths |-> NoEntry]
MountModes == {"keep", "mirror", "both", "move"}

VARIABLES
    held,      \* [Sides -> [TreePaths -> what is there]]
    stamp,     \* the time of the last write
    transfer,  \* the synchronisation or move under way; from: its source, the mount if both
    raced,     \* history: the user changed something while a job ran
    mountFaults
mountVars == <<held, stamp, transfer, raced, mountFaults>>

NoJob == [mode |-> "none", from |-> "mount", pc |-> "idle", met |-> FALSE, path |-> "d",
          seen |-> [s \in Sides |-> NoListing], to |-> "mount", copy |-> 0]
MountInit ==
    /\ held = [s \in Sides |-> NoListing] /\ stamp = 0 /\ transfer = NoJob
    /\ raced = FALSE /\ mountFaults = 0

AtJob(pc) == transfer.pc = pc
Is(s, p, kind) == held[s][p].kind = kind
SeenIs(s, p, kind) == transfer.seen[s][p].kind = kind
Source == transfer.from
Sink == Across(transfer.from)
UnchangedStores == UNCHANGED <<held, stamp>>

-----------------------------------------------------------------------------
(* The stores                                                               *)

\* A file is written, its directory made before; a file is not written over a directory,
\* nor below a file.
Placed(s, p, edit) ==
    /\ ~Is(s, p, "dir") /\ (p = "f" => ~Is(s, "d", "file"))
    /\ stamp < MaxStamp /\ stamp' = stamp + 1
    /\ held' = [held EXCEPT ![s] =
                   [q \in TreePaths |-> IF q = p THEN Version(edit, stamp + 1)
                                        ELSE IF q = "d" THEN DirEntry ELSE @[q]]]
Removed(s, p) ==
    held' = [held EXCEPT ![s] = [q \in TreePaths |-> IF p \in {q, "d"} THEN NoEntry ELSE @[q]]]

\* The user changes one of the stores.
Meets == /\ transfer' = [transfer EXCEPT !.met = ~AtJob("idle")]
         /\ raced' = (raced \/ ~AtJob("idle"))
EditFile(s, p) == Placed(s, p, stamp + 1) /\ Meets /\ UNCHANGED mountFaults
RemoveHeld(s, p) == ~Is(s, p, "none") /\ Removed(s, p) /\ Meets /\ UNCHANGED <<stamp, mountFaults>>

-----------------------------------------------------------------------------
(* A job                                                                    *)

EndJob == transfer' = NoJob
Succeed == transfer' = [NoJob EXCEPT !.pc = "done", !.mode = transfer.mode, !.from = transfer.from,
                                     !.met = transfer.met]
OnPath(pc, p) == transfer' = [transfer EXCEPT !.pc = pc, !.path = p, !.copy = 0]
UnchangedHistory == UNCHANGED <<raced, mountFaults>>

\* sync_remote_mount_once takes the lock of the mount, a move takes none; another job that
\* ran beside this one would be a change of the user's to it.
BeginJob(mode, s) ==
    /\ AtJob("idle") /\ (mode = "both" => s = "mount") /\ (mode = "move" => ~Is(s, "d", "none"))
    /\ transfer' = [NoJob EXCEPT !.mode = mode, !.from = s,
                                 !.pc = IF mode = "move" THEN "stat" ELSE "source"]
    /\ UnchangedStores /\ UnchangedHistory

\* A call fails, the job runs out of time.
FailJob ==
    /\ ~AtJob("idle") /\ mountFaults < MaxMountFaults /\ mountFaults' = mountFaults + 1
    /\ EndJob /\ UnchangedStores /\ UNCHANGED raced

ListSource ==
    /\ AtJob("source") /\ transfer' = [transfer EXCEPT !.pc = "sink", !.seen[Source] = held[Source]]
    /\ UnchangedStores /\ UnchangedHistory
ListSink ==
    /\ AtJob("sink")
    /\ transfer' = [transfer EXCEPT !.pc = IF transfer.mode = "both" THEN "compare" ELSE "folder",
                                    !.seen[Sink] = held[Sink]]
    /\ UnchangedStores /\ UnchangedHistory

\* A directory is made on a side; no file may be in its place.
MakeFolder(s, pc, p) ==
    IF Is(s, "d", "file") THEN EndJob /\ UNCHANGED held
    ELSE OnPath(pc, p) /\ held' = [held EXCEPT ![s]["d"] = DirEntry]
MakeFolders ==
    /\ AtJob("folder")
    /\ IF SeenIs(Source, "d", "dir") THEN MakeFolder(Sink, "choose", "d")
                                     ELSE OnPath("choose", "d") /\ UNCHANGED held
    /\ UNCHANGED stamp /\ UnchangedHistory

\* What follows a path: the next one, then in a mirror what the source does not have.
AfterPath == CASE transfer.mode = "move"                          -> OnPath("clear", "d")
               [] transfer.path = "d" /\ transfer.mode = "both" -> OnPath("compare", "f")
               [] transfer.path = "d"                           -> OnPath("choose", "f")
               [] transfer.mode = "mirror"                      -> OnPath("extra", "f")
               [] OTHER                                         -> Succeed
CopyTo(s) == transfer' = [transfer EXCEPT !.pc = "read", !.to = s]

\* (of a mutant: the comparison is the wrong way round)
Older(s, p) == transfer.seen[s][p].at < transfer.seen[Across(s)][p].at
Newer(s, p) == transfer.seen[s][p].at > transfer.seen[Across(s)][p].at
SizeSeen(s, p) == EditSize[transfer.seen[s][p].edit]
ChooseOneWay ==
    /\ AtJob("choose")
    /\ IF /\ SeenIs(Source, transfer.path, "file")
          /\ \/ ~SeenIs(Sink, transfer.path, "file")
             \/ Newer(Source, transfer.path)
             \/ SizeSeen(Source, transfer.path) # SizeSeen(Sink, transfer.path)
       THEN CopyTo(Sink) ELSE AfterPath
    /\ UnchangedStores /\ UnchangedHistory

KindsSeen(p) == {transfer.seen[s][p].kind : s \in Sides}
ChooseTwoWays ==
    /\ AtJob("compare")
    /\ LET p == transfer.path IN
       CASE KindsSeen(p) = {"dir", "none"} ->
              \E s \in Sides : SeenIs(s, p, "none") /\ MakeFolder(s, "compare", "f")
         [] KindsSeen(p) = {"dir", "file"} -> EndJob /\ UNCHANGED held
         [] KindsSeen(p) = {"file", "none"} ->
              (\E s \in Sides : SeenIs(s, p, "none") /\ CopyTo(s)) /\ UNCHANGED held
         [] KindsSeen(p) = {"file"} /\ (\E s \in Sides : Newer(s, p)) ->
              (\E s \in Sides : Newer(s, p) /\ CopyTo(Across(s))) /\ UNCHANGED held
         [] KindsSeen(p) \in {{"dir"}, {"none"}, {"file"}} -> AfterPath /\ UNCHANGED held
    /\ UNCHANGED stamp /\ UnchangedHistory

\* copy_file_between, and copy_path_between for a file
ReadFile ==
    /\ AtJob("read")
    /\ LET x == held[Across(transfer.to)][transfer.path] IN
       IF x.kind = "file" THEN transfer' = [transfer EXCEPT !.pc = "write", !.copy = x.edit] ELSE EndJob
    /\ UnchangedStores /\ UnchangedHistory
WriteFile ==
    /\ AtJob("write")
    /\ IF Is(transfer.to, transfer.path, "dir") \/ (transfer.path = "f" /\ Is(transfer.to, "d", "file"))
       THEN EndJob /\ UnchangedStores
       ELSE Placed(transfer.to, transfer.path, transfer.copy) /\ AfterPath
    /\ UnchangedHistory

\* delete_extra_paths: the deeper first; one that has gone fails the job.
DeleteExtra ==
    /\ AtJob("extra")
    /\ LET p == transfer.path
           extra == ~SeenIs(Sink, p, "none") /\ SeenIs(Source, p, "none")
       IN IF extra /\ Is(Sink, p, "none") THEN EndJob /\ UNCHANGED held
          ELSE /\ IF extra THEN Removed(Sink, p) ELSE UNCHANGED held
               /\ IF p = "f" THEN OnPath("extra", "d") ELSE Succeed
    /\ UNCHANGED stamp /\ UnchangedHistory

-----------------------------------------------------------------------------
(* A move between the stores: a copy, then the removal of the source        *)

StatMoved ==
    /\ AtJob("stat")
    /\ CASE Is(Source, "d", "none") -> EndJob /\ UNCHANGED held
         [] Is(Source, "d", "file") -> CopyTo(Sink) /\ UNCHANGED held
         [] Is(Source, "d", "dir")  -> MakeFolder(Sink, "children", "f")
    /\ UNCHANGED stamp /\ UnchangedHistory
ListChildren ==
    /\ AtJob("children")
    /\ CASE Is(Source, "d", "none") -> EndJob
         [] Is(Source, "f", "file") -> CopyTo(Sink)
         [] OTHER                   -> AfterPath
    /\ UnchangedStores /\ UnchangedHistory
\* Whatever is below the source by now goes with it.
RemoveMoved ==
    /\ AtJob("clear")
    /\ IF Is(Source, "d", "none") THEN EndJob /\ UNCHANGED held
                                  ELSE Succeed /\ Removed(Source, "d")
    /\ UNCHANGED stamp /\ UnchangedHistory

-----------------------------------------------------------------------------
\* mark_sync_finished, or the answer to the move
FinishJob == AtJob("done") /\ EndJob /\ UnchangedStores /\ UnchangedHistory

(* Properties                                                               *)

SameContent(p) == /\ held["mount"][p].kind = held["peer"][p].kind
                  /\ held["mount"][p].edit = held["peer"][p].edit
\* A file of the sink that its user wrote, after the file of the source and as large.
OwnEdit(p) == /\ held[Sink][p].edit = held[Sink][p].at /\ held[Sink][p].at > held[Source][p].at
              /\ EditSize[held[Sink][p].edit] = EditSize[held[Source][p].edit]
Agreed ==
    \A p \in TreePaths :
        /\ transfer.mode = "both" => SameContent(p)
        /\ transfer.mode \in {"keep", "mirror"} /\ ~Is(Source, p, "none") =>
               SameContent(p) \/ (Is(Source, p, "file") /\ Is(Sink, p, "file") /\ (raced \/ OwnEdit(p)))
        /\ transfer.mode = "mirror" /\ Is(Source, p, "none") => Is(Sink, p, "none")
        /\ transfer.mode = "move" => Is(Source, p, "none")

Kept ==
    \A p \in TreePaths :
        /\ transfer.mode \in {"keep", "mirror"} => held'[Source] = held[Source]
        /\ transfer.mode = "both" => \A s \in Sides : \E t \in Sides : held[s][p].edit <= held'[t][p].edit
        /\ transfer.mode = "move" => \E t \in Sides : held[Source][p].edit = held'[t][p].edit

\* A synchronisation which succeeds, and met no change of its user's, leaves the sides in
\* agreement: both ways they are equal; one way the sink has what the source has, but for a
\* file its user wrote later, and a mirror has nothing else.  And as long as no change has
\* ever met a job, no step of one, whatever fails, gives up the newest content of a path
\* both ways, anything of the source one way, and in a move what is not at the other side
\* yet.  A change that meets a copy may be older than the copy by its time: it is taken for
\* the older one ever after.
SidesAgreeAndKeep ==
    [][/\ AtJob("done") /\ ~transfer.met => Agreed
       /\ ~AtJob("idle") /\ ~raced' => Kept]_mountVars
=============================================================================
