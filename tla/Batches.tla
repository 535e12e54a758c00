------------------------------ MODULE Batches -------------------------------
(***************************************************************************)
(* A batch task (src/vfs/scoped/batch.rs): copies, moves and deletes run   *)
(* side by side (src/vfs/batch.rs), files packed into an archive or        *)
(* unpacked from one (src/utils/compression.rs), and videos compressed     *)
(* one after another (src/vfs/video_compress_task.rs).  Each operation on  *)
(* a path is one step; what it does inside is the subject of other modules.*)
(*                                                                         *)
(* The sources have the same file name in different directories, so that   *)
(* their names in the target directory have to be made different; videos   *)
(* are two of one directory which differ in the extension only, so that    *)
(* their outputs, which go to that directory, are named alike.             *)
(***************************************************************************)
EXTENDS Integers, FiniteSets

CONSTANTS
    Width,          \* effective max_concurrent_tasks
    MaxBatchFaults, \* bound on the calls that fail
    MaxBesides,     \* bound on the writes of others
    NoFile            \* no file, no value

Items == 1..2
\* "name_u (n).ext"; without the suffixes for 0.
TargetNames == [u : 0..4, n : 0..1] \cup {[u |-> 0, n |-> 2]}
Named(u, n) == [u |-> u, n |-> n]
ASSUME NoFileApart == NoFile \notin TargetNames
TakenByOthers == {Named(0, 0), Named(1, 0)}
BatchKinds == {"copy", "move", "delete", "compress", "decompress", "video"}

VARIABLES
    sources,   \* [Items -> content or NoFile]
    target,   \* [TargetNames -> content or NoFile]: the target directory
    pack,     \* [Items -> content or NoFile]: the entries of the archive, NoFile when there is none
    trash,    \* contents in the recycle bin
    task,     \* the task
    item,     \* [Items -> its progress in the task]
    foreign,  \* history: names others have written to
    edited,   \* history: sources others have written to
    excused,  \* history: contents that were given up, see NothingIsLost
    batchFaults
batchVars == <<sources, target, pack, trash, task, item, foreign, edited, excused, batchFaults>>

\* removes: the sources, or the archive, are deleted; replaces: what is in the way is.
NewTask == [kind |-> "none", removes |-> FALSE, replaces |-> FALSE, pc |-> "new",
            cancelled |-> FALSE, status |-> "pending", failures |-> 0, why |-> "none"]
NewItem == [pc |-> "new", to |-> NoFile, blind |-> FALSE, result |-> "none", log |-> "none",
            copy |-> NoFile, done |-> FALSE]
BatchInit ==
    /\ sources = [i \in Items |-> <<"source", i>>]
    /\ \E there \in SUBSET {Named(0, 0), Named(0, 1)} :
         target = [x \in TargetNames |-> IF x \in there THEN <<"there", x.n>> ELSE NoFile]
    /\ pack = [i \in Items |-> <<"packed", i>>]
    /\ trash = {} /\ foreign = {} /\ edited = {} /\ excused = {} /\ batchFaults = 0
    /\ task = NewTask /\ item = [i \in Items |-> NewItem]

NoBatchFault == UNCHANGED batchFaults
BatchFault == batchFaults < MaxBatchFaults /\ batchFaults' = batchFaults + 1
UnchangedFiles == UNCHANGED <<sources, target, pack, trash, excused>>
AtTask(pc) == task.pc = pc
AtItem(i, pc) == item[i].pc = pc

-----------------------------------------------------------------------------
(* Names in the target directory                                            *)

\* The name without suffixes, and the one get_unique_path finds.
FirstName == Named(0, 0)
UniqueName == Named(CHOOSE u \in 0..4 : /\ target[Named(u, 0)] = NoFile
                                        /\ \A v \in 0..(u - 1) : target[Named(v, 0)] # NoFile, 0)
\* (of a mutant: names are not reserved)
NotReserved(x) == x
\* reserve_batch_destination: the names it makes are not looked for in the directory.
Reserved(x) == IF \E i \in Items : item[i].to = x THEN Named(x.u, 1) ELSE x
Plan(i) ==
    /\ AtTask("plan") /\ AtItem(i, "new") /\ \A j \in 1..(i - 1) : ~AtItem(j, "new")
    /\ \/ /\ NoBatchFault
          /\ item' = [item EXCEPT ![i].pc = "planned", ![i].to = Reserved(UniqueName)]
       \/ /\ BatchFault  \* the name as it is
          /\ item' = [item EXCEPT ![i].pc = "planned", ![i].to = Reserved(FirstName), ![i].blind = TRUE]
    /\ task' = IF i = 2 THEN [task EXCEPT !.pc = "run"] ELSE task
    /\ UnchangedFiles /\ UNCHANGED <<foreign, edited>>

\* What is replaced is given up where the code does not look: names made different within
\* the batch, names that could not be looked up, names somebody took after the plan.
Unseen(i) == item[i].to.n = 1 \/ item[i].blind \/ item[i].to \in foreign
Replaced(i) == IF Unseen(i) THEN {target[item[i].to]} ELSE {}

-----------------------------------------------------------------------------
(* Submission, cancellation, time limit                                     *)

\* submit_batch_*: a task, which waits for a permit and then starts.
Submit(kind, removes, replaces) ==
    /\ AtTask("new")
    /\ removes => kind \in {"compress", "decompress", "video"}
    /\ replaces => kind \in {"decompress", "video"}
    /\ task' = [task EXCEPT !.kind = kind, !.removes = removes, !.replaces = replaces,
                            !.pc = CASE kind \in {"copy", "move"} -> "plan"
                                     [] kind = "compress" -> "stage"
                                     [] kind = "decompress" -> "unpack"
                                     [] kind = "video" -> "next"
                                     [] OTHER -> "run"]
    /\ UnchangedFiles /\ UNCHANGED <<item, foreign, edited, batchFaults>>

Cancel ==
    /\ ~task.cancelled /\ ~AtTask("new") /\ ~AtTask("end")
    /\ task' = [task EXCEPT !.cancelled = TRUE]
    /\ UnchangedFiles /\ UNCHANGED <<item, foreign, edited, batchFaults>>

\* The future is dropped: what was under way is not continued.
TimeOutTask ==
    /\ task.pc \notin {"new", "report", "end"} /\ BatchFault
    /\ task' = [task EXCEPT !.pc = "end", !.status = "failed", !.why = "time"]
    /\ UnchangedFiles /\ UNCHANGED <<item, foreign, edited>>

\* Somebody else writes a file: one of the sources, or one of the target directory.
MayWrite == Cardinality(foreign) + Cardinality(edited) < MaxBesides
WriteSource(i) ==
    /\ MayWrite /\ edited' = edited \cup {i} /\ sources' = [sources EXCEPT ![i] = <<"new", 1>>]
    /\ excused' = excused \cup {sources[i]}
    /\ UNCHANGED <<target, pack, trash, task, item, foreign, batchFaults>>
WriteTarget(x) ==
    /\ MayWrite /\ foreign' = foreign \cup {x} /\ target' = [target EXCEPT ![x] = <<"new", 1>>]
    /\ excused' = excused \cup {target[x]}
    /\ UNCHANGED <<sources, pack, trash, task, item, edited, batchFaults>>

EndTask(status, why) == task' = [task EXCEPT !.pc = "end", !.status = status, !.why = why]

-----------------------------------------------------------------------------
(* Copies, moves and deletes: VfsBatchExecutor                              *)

InFlight == {i \in Items : item[i].pc \in {"begun", "ended"}}
Startable(i) == \A j \in 1..(i - 1) : item[j].pc \notin {"new", "planned"}
StartItem(i) ==
    /\ AtTask("run") /\ item[i].pc \in {"new", "planned"} /\ Startable(i) /\ Cardinality(InFlight) < Width
    /\ item' = [item EXCEPT ![i] = IF task.cancelled THEN [@ EXCEPT !.pc = "ended", !.result = "skipped"]
                                                     ELSE [@ EXCEPT !.pc = "begun"]]
    /\ UnchangedFiles /\ UNCHANGED <<task, foreign, edited, batchFaults>>

ItemEnded(i, result, done) == item' = [item EXCEPT ![i].pc = "ended", ![i].result = result, ![i].done = done]
\* What the operation does to the files; it fails when there is no source.
Moves(i) ==
    /\ sources[i] # NoFile
    /\ CASE task.kind = "delete" -> /\ trash' = trash \cup {sources[i]} /\ UNCHANGED <<target, excused>>
         [] OTHER -> /\ target' = [target EXCEPT ![item[i].to] = sources[i]]
                     /\ excused' = excused \cup Replaced(i) /\ UNCHANGED trash
    /\ sources' = IF task.kind = "copy" THEN sources ELSE [sources EXCEPT ![i] = NoFile]
    /\ UNCHANGED pack
Operate(i) ==
    /\ AtTask("run") /\ AtItem(i, "begun")
    /\ \/ Moves(i) /\ ItemEnded(i, "ok", TRUE) /\ NoBatchFault
       \/ Moves(i) /\ ItemEnded(i, "error", TRUE) /\ BatchFault  \* the index or the row did not follow
       \/ UnchangedFiles /\ ItemEnded(i, "error", FALSE) /\ BatchFault
    /\ UNCHANGED <<task, foreign, edited>>

Logged(i) == CASE item[i].result = "ok" -> "success" [] OTHER -> "failed"
Failed(i) == IF item[i].result = "error" THEN 1 ELSE 0
\* The results come in the order the operations end.
Collect(i) ==
    /\ AtTask("run") /\ AtItem(i, "ended")
    /\ IF task.cancelled \/ item[i].result = "skipped"
       THEN task' = [task EXCEPT !.pc = "report"] /\ UNCHANGED item
       ELSE /\ item' = [item EXCEPT ![i].pc = "logged", ![i].log = Logged(i)]
            /\ task' = [task EXCEPT !.failures = @ + Failed(i),
                            !.pc = IF \A j \in Items \ {i} : AtItem(j, "logged") THEN "report" ELSE "run"]
    /\ UnchangedFiles /\ UNCHANGED <<foreign, edited, batchFaults>>
\* (of a mutant: one success is enough)
AnySuccess == IF task.failures < Cardinality(Items) THEN "success" ELSE "failed"
Outcome == IF task.failures = 0 THEN "success" ELSE "failed"
Report ==
    /\ AtTask("report") /\ EndTask(Outcome, "items")
    /\ UnchangedFiles /\ UNCHANGED <<item, foreign, edited, batchFaults>>

-----------------------------------------------------------------------------
(* Archives                                                                 *)

Stage(i) ==
    /\ AtTask("stage") /\ AtItem(i, "new") /\ \A j \in 1..(i - 1) : ~AtItem(j, "new")
    /\ \/ /\ NoBatchFault /\ sources[i] # NoFile
          /\ item' = [item EXCEPT ![i].pc = "staged", ![i].copy = sources[i]]
       \/ /\ BatchFault
          /\ item' = [item EXCEPT ![i].pc = "logged", ![i].log = "failed"]
    /\ task' = IF i = 2 THEN [task EXCEPT !.pc = "pack"] ELSE task
    /\ UnchangedFiles /\ UNCHANGED <<foreign, edited>>

Staged == {i \in Items : AtItem(i, "staged")}
LogStaged(result, done) == item' = [i \in Items |-> IF i \in Staged
    THEN [item[i] EXCEPT !.pc = "logged", !.log = result, !.done = done] ELSE item[i]]
\* An archive of that name is replaced.
WritePack == /\ pack' = [i \in Items |-> item[i].copy]
             /\ excused' = excused \cup {pack[i] : i \in Items}
             /\ UNCHANGED <<sources, target, trash>>
AfterPack == IF task.removes THEN "clear" ELSE "packed"
Pack ==
    /\ AtTask("pack") /\ Staged # {}
    /\ \/ WritePack /\ NoBatchFault /\ task' = [task EXCEPT !.pc = AfterPack] /\ UNCHANGED item
       \/ BatchFault /\ (WritePack \/ UnchangedFiles) /\ LogStaged("failed", FALSE) /\ EndTask("failed", "items")
    /\ UNCHANGED <<foreign, edited>>
PackNothing ==
    /\ AtTask("pack") /\ Staged = {} /\ EndTask("failed", "items")
    /\ UnchangedFiles /\ UNCHANGED <<item, foreign, edited, batchFaults>>
\* delete_source: also what was written to the source since it was staged; errors are
\* ignored.
ClearSource(i) ==
    /\ AtTask("clear") /\ AtItem(i, "staged") /\ ~item[i].done
    /\ \/ /\ NoBatchFault /\ sources' = [sources EXCEPT ![i] = NoFile]
          /\ excused' = IF sources[i] # item[i].copy /\ i \in edited THEN excused \cup {sources[i]} ELSE excused
          /\ UNCHANGED <<target, pack, trash>>
       \/ BatchFault /\ UnchangedFiles
    /\ item' = [item EXCEPT ![i].done = TRUE]
    /\ UNCHANGED <<task, foreign, edited>>
\* Sources that could not be staged do not make the task fail.
ReportPack ==
    /\ AtTask("packed") \/ (AtTask("clear") /\ \A i \in Staged : item[i].done)
    /\ LogStaged("success", TRUE) /\ EndTask("success", "items")
    /\ UnchangedFiles /\ UNCHANGED <<foreign, edited, batchFaults>>

\* The entries are "name" and "name (2)".  What is in the way is replaced or kept.
EntryName(i) == Named(0, IF i = 1 THEN 0 ELSE 2)
Unpack(i) ==
    /\ AtTask("unpack") /\ AtItem(i, "new") /\ \A j \in 1..(i - 1) : ~AtItem(j, "new")
    /\ LET x == EntryName(i) IN
       \/ /\ NoBatchFault /\ UNCHANGED task /\ item' = [item EXCEPT ![i].pc = "unpacked"]
          /\ IF target[x] # NoFile /\ ~task.replaces
             THEN UNCHANGED <<target, excused>>
             ELSE /\ target' = [target EXCEPT ![x] = pack[i]]
                  /\ excused' = IF task.replaces THEN excused \cup {target[x]} ELSE excused
       \/ /\ BatchFault /\ item' = [item EXCEPT ![1].log = "failed"] /\ EndTask("failed", "items")
          /\ UNCHANGED <<target, excused>>
    /\ UNCHANGED <<sources, pack, trash, foreign, edited>>
\* delete_archive, though entries may have been left out.  Then the directory is looked up.
ReportUnpack ==
    /\ AtTask("unpack") /\ \A i \in Items : AtItem(i, "unpacked")
    /\ IF task.removes
       THEN /\ pack' = [i \in Items |-> NoFile]
            /\ excused' = IF task.replaces THEN excused
                          ELSE excused \cup {pack[i] : i \in {i \in Items : target[EntryName(i)] # pack[i]}}
       ELSE UNCHANGED <<pack, excused>>
    /\ \/ /\ NoBatchFault /\ EndTask("success", "items")
          /\ item' = [i \in Items |-> [item[i] EXCEPT !.log = "success", !.done = TRUE]]
       \/ BatchFault /\ EndTask("failed", "items") /\ item' = [item EXCEPT ![1].log = "failed"]
    /\ UNCHANGED <<sources, target, trash, foreign, edited>>

-----------------------------------------------------------------------------
(* Videos: one after another                                                *)

NextVideo(i) == AtTask("next") /\ AtItem(i, "new") /\ \A j \in 1..(i - 1) : ~AtItem(j, "new")
\* resolve_output_path; then the source is copied for ffmpeg.
ChooseOutput(i) ==
    /\ NextVideo(i)
    /\ \/ task.cancelled /\ NoBatchFault /\ EndTask("failed", "cancelled") /\ UNCHANGED item
       \/ ~task.cancelled /\ BatchFault /\ EndTask("failed", "lookup") /\ UNCHANGED item
       \/ /\ ~task.cancelled /\ NoBatchFault
          /\ item' = [item EXCEPT ![i].pc = "begun", ![i].copy = sources[i],
                                  ![i].to = IF task.replaces THEN FirstName ELSE UniqueName]
          /\ task' = [task EXCEPT !.pc = "video"]
    /\ UnchangedFiles /\ UNCHANGED <<foreign, edited>>
\* What ffmpeg made of the copy is uploaded to the chosen path; a video that replaces may
\* replace the output of the other.
WriteVideo(i) ==
    /\ AtTask("video") /\ AtItem(i, "begun")
    /\ \/ /\ NoBatchFault /\ item[i].copy # NoFile
          /\ target' = [target EXCEPT ![item[i].to] = item[i].copy]
          /\ excused' = excused \cup (IF task.replaces THEN {target[item[i].to]} ELSE Replaced(i))
          /\ item' = [item EXCEPT ![i].pc = "made", ![i].result = "ok"]
          /\ UNCHANGED task
       \/ /\ BatchFault /\ UNCHANGED <<target, excused>>
          /\ item' = [item EXCEPT ![i].pc = "logged", ![i].result = "error", ![i].log = "failed"]
          /\ task' = [task EXCEPT !.failures = @ + 1, !.pc = IF i = 2 THEN "report" ELSE "next"]
    /\ UNCHANGED <<sources, pack, trash, foreign, edited>>
RemoveVideo(i) ==
    /\ AtTask("video") /\ AtItem(i, "made")
    /\ \/ /\ NoBatchFault /\ task.removes /\ sources' = [sources EXCEPT ![i] = NoFile]
          /\ excused' = IF sources[i] # item[i].copy /\ i \in edited THEN excused \cup {sources[i]} ELSE excused
       \/ (task.removes => BatchFault) /\ (~task.removes => NoBatchFault) /\ UNCHANGED <<sources, excused>>
    /\ item' = [item EXCEPT ![i].pc = "logged", ![i].log = "success", ![i].done = TRUE]
    /\ task' = [task EXCEPT !.pc = IF i = 2 THEN "report" ELSE "next"]
    /\ UNCHANGED <<target, pack, trash, foreign, edited>>

-----------------------------------------------------------------------------
(* Properties                                                               *)

Places == {sources[i] : i \in Items} \cup {target[x] : x \in TargetNames}
          \cup {pack[i] : i \in Items} \cup trash
\* Whatever is cancelled, fails or runs out of time, every file is somewhere: where it was,
\* at the place it was taken to, in the bin or in the archive.  Given up are only what was
\* asked to be replaced; files under a name that the batch made different but did not look
\* up, could not look up, or that was free when it looked; a source written anew between
\* its packing and its deletion; and entries that were left out of an archive deleted
\* afterwards.
NothingIsLost == [][Places \ {NoFile} \subseteq (Places \cup excused)']_batchVars

\* A success that is logged has happened, and a task that reports success has logged one for
\* every path, if it was not cancelled, except for paths that could not be packed; one that
\* reports the failure of its items has logged it.
BatchReportIsTrue ==
    /\ \A i \in Items : item[i].log = "success" => item[i].done
    /\ task.status = "success" /\ ~task.cancelled =>
         /\ \E i \in Items : item[i].log = "success"
         /\ task.kind # "compress" => \A i \in Items : item[i].log = "success"
    /\ task.status = "failed" /\ task.why = "items" => \E i \in Items : item[i].log = "failed"
=============================================================================
