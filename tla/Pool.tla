-------------------------------- MODULE Pool --------------------------------
(***************************************************************************)
(* A pool without its caches (src/vfs/pool.rs): a primary operator, which  *)
(* every change goes to, and a backup operator, which only answers what    *)
(* the primary does not.  The primary is a file system: parents are        *)
(* created on demand, a directory that is not empty cannot be deleted, and *)
(* a writer writes to the file it has opened, wherever that is renamed to. *)
(*                                                                         *)
(* The content of a file is a sequence of two chunks, named by the request *)
(* that wrote them.                                                        *)
(***************************************************************************)
EXTENDS Integers, Sequences, FiniteSets

CONSTANTS
    PoolDirs, PoolFiles,  \* paths
    Within,       \* [PoolDirs -> SUBSET paths]: everything below a directory
    Streamed,     \* the file that streams write
    TmpFile,      \* "{path}.tmp" of it, also one of PoolFiles
    InBackup,     \* paths the backup has
    PoolRequests, \* requests, each issued at most once
    MaxPoolFaults,\* bound on the calls that fail
    Missing, Folder, Initial, Backup  \* no file; a directory; contents

\* Paths are paths: what is below a directory below another is below that one too.
ASSUME PoolAssumption ==
    /\ {Streamed, TmpFile} \in SUBSET PoolFiles /\ Streamed # TmpFile
    /\ PoolDirs \cap PoolFiles = {} /\ Missing \notin PoolDirs \cup PoolFiles
    /\ \A d \in PoolDirs :
         /\ Within[d] \in SUBSET ((PoolDirs \cup PoolFiles) \ {d})
         /\ \A e \in Within[d] \cap PoolDirs : Within[e] \in SUBSET Within[d]

VARIABLES
    kept,         \* [paths -> content, Folder or Missing]: the primary
    call,         \* [PoolRequests -> local state]
    mixed,        \* history: two streams of the file have been under way at once
    poolFaults
poolVars == <<kept, call, mixed, poolFaults>>

PoolPaths == PoolDirs \cup PoolFiles
Chunks(w) == <<w, w>>
Has(p) == kept[p] # Missing
Above(p) == {d \in PoolDirs : p \in Within[d]}
NewCall == [pc |-> "new", kind |-> "read", path |-> Streamed, left |-> {}, handle |-> Missing,
            first |-> Missing, second |-> Missing, met |-> FALSE, hurt |-> FALSE, ok |-> FALSE]
PoolInit ==
    /\ kept = [p \in PoolPaths |-> IF p \in PoolDirs THEN Folder
                                   ELSE IF p = TmpFile THEN Missing ELSE Chunks(Initial)]
    /\ call = [r \in PoolRequests |-> NewCall]
    /\ mixed = FALSE /\ poolFaults = 0

Calling(r) == call[r].pc \notin {"new", "end"}
AtCall(r, pc) == call[r].pc = pc
GoCall(r, pc) == call' = [call EXCEPT ![r].pc = pc]
EndCall(r) == call' = [call EXCEPT ![r].pc = "end", ![r].ok = TRUE]
FailCall(r) == call' = [call EXCEPT ![r].pc = "end", ![r].hurt = TRUE]
PoolFault == poolFaults < MaxPoolFaults /\ poolFaults' = poolFaults + 1
Touched(kind, p) == CASE kind = "tree" -> {p} \cup Within[p]
                      [] kind = "stream" -> {p, TmpFile} [] OTHER -> {p}

BeginCall(r) ==
    /\ AtCall(r, "new")
    /\ \E kind \in {"read", "write", "delete", "tree", "stream"} :
       \E p \in IF kind = "tree" THEN PoolDirs ELSE IF kind = "stream" THEN {Streamed}
                ELSE PoolFiles \ {TmpFile} :
         LET near == {q \in PoolRequests : /\ Calling(q)
                        /\ Touched(call[q].kind, call[q].path) \cap Touched(kind, p) # {}}
         IN /\ call' = [q \in PoolRequests |->
                 IF q = r THEN [NewCall EXCEPT !.kind = kind, !.path = p, !.met = near # {},
                      !.pc = CASE kind = "read" -> "first" [] kind = "delete" -> "find"
                               [] kind = "tree" -> "list" [] kind = "stream" -> "open"
                               [] OTHER -> "write"]
                 ELSE [call[q] EXCEPT !.met = @ \/ q \in near]]
            /\ mixed' = (mixed \/ (kind = "stream" /\ \E q \in near : call[q].kind = "stream"))
    /\ UNCHANGED <<kept, poolFaults>>

-----------------------------------------------------------------------------
(* Reading: the data and then the stat, or for a range the stat and then    *)
(* the data.  Only the failure of the first of the two, whatever it is,     *)
(* turns to the backup.                                                     *)

FromBackup(p) == p \in InBackup
ReadFirst(r) ==
    /\ AtCall(r, "first")
    /\ LET p == call[r].path IN
       \/ /\ Has(p) /\ call' = [call EXCEPT ![r].first = kept[p], ![r].pc = "second"]
          /\ UNCHANGED poolFaults
       \/ /\ IF FromBackup(p)
             THEN call' = [call EXCEPT ![r].first = Chunks(Backup), ![r].second = Chunks(Backup),
                                       ![r].pc = "end", ![r].ok = TRUE]
             ELSE FailCall(r)
          /\ IF Has(p) THEN PoolFault ELSE UNCHANGED poolFaults
    /\ UNCHANGED <<kept, mixed>>
ReadSecond(r) ==
    /\ AtCall(r, "second")
    /\ LET p == call[r].path IN
       \/ /\ Has(p) /\ call' = [call EXCEPT ![r].second = kept[p], ![r].pc = "end", ![r].ok = TRUE]
          /\ UNCHANGED poolFaults
       \/ FailCall(r) /\ IF Has(p) THEN PoolFault ELSE UNCHANGED poolFaults
    /\ UNCHANGED <<kept, mixed>>

-----------------------------------------------------------------------------
(* Writing and deleting                                                     *)

\* The file p gets the content c; missing parents are made.
Written(p, c) == [k \in PoolPaths |-> IF k = p THEN c ELSE IF k \in Above(p) THEN Folder ELSE kept[k]]
\* Who writes to a file that leaves its path writes to where it goes.
Follow(from, to) == [q \in PoolRequests |->
    IF call[q].handle = from THEN [call[q] EXCEPT !.handle = to] ELSE call[q]]

WriteWhole(r) ==
    /\ AtCall(r, "write")
    /\ \/ kept' = Written(call[r].path, Chunks(r)) /\ GoCall(r, "stat") /\ UNCHANGED poolFaults
       \/ PoolFault /\ FailCall(r) /\ UNCHANGED kept
    /\ UNCHANGED mixed
\* A change that is done fails all the same when neither operator can stat the path.
StatWritten(r) ==
    /\ AtCall(r, "stat")
    /\ \/ Has(call[r].path) /\ EndCall(r) /\ UNCHANGED poolFaults
       \/ /\ IF FromBackup(call[r].path) THEN EndCall(r) ELSE FailCall(r)
          /\ IF Has(call[r].path) THEN PoolFault ELSE UNCHANGED poolFaults
    /\ UNCHANGED <<kept, mixed>>

\* What only the backup has is found, and its deletion acknowledged.
FindDeleted(r) ==
    /\ AtCall(r, "find")
    /\ \/ Has(call[r].path) /\ GoCall(r, "delete") /\ UNCHANGED poolFaults
       \/ /\ IF FromBackup(call[r].path) THEN GoCall(r, "delete") ELSE FailCall(r)
          /\ IF Has(call[r].path) THEN PoolFault ELSE UNCHANGED poolFaults
    /\ UNCHANGED <<kept, mixed>>
DeleteFile(r) ==
    /\ AtCall(r, "delete")
    /\ \/ /\ kept' = [kept EXCEPT ![call[r].path] = Missing]
          /\ call' = [Follow(call[r].path, Missing) EXCEPT ![r].pc = "end", ![r].ok = TRUE]
          /\ UNCHANGED poolFaults
       \/ PoolFault /\ FailCall(r) /\ UNCHANGED kept
    /\ UNCHANGED mixed

-----------------------------------------------------------------------------
(* remove_tree: what a recursive listing finds, the longest paths first     *)

ListTree(r) ==
    /\ AtCall(r, "list")
    /\ \/ /\ call' = [call EXCEPT ![r].pc = "removing", ![r].left = {p \in Within[call[r].path] : Has(p)}]
          /\ UNCHANGED poolFaults
       \/ PoolFault /\ call' = [call EXCEPT ![r].pc = "removing", ![r].hurt = TRUE,
                                            ![r].left = Within[call[r].path] \cap InBackup]
    /\ UNCHANGED <<kept, mixed>>
Shortest(S) == {p \in S : Above(p) \cap S = {}}
Longest(S) == {p \in S : p \in PoolDirs => Within[p] \cap S = {}}
RemoveEntry(r) ==
    /\ AtCall(r, "removing")
    /\ \E p \in IF call[r].left = {} THEN {call[r].path} ELSE Longest(call[r].left) :
         LET full == p \in PoolDirs /\ \E k \in Within[p] : Has(k) IN
         \/ /\ ~full
            /\ kept' = [kept EXCEPT ![p] = Missing]
            /\ call' = [Follow(p, Missing) EXCEPT
                 ![r].left = @ \ {p}, ![r].ok = (call[r].left = {}),
                 ![r].pc = IF call[r].left = {} THEN "end" ELSE "removing"]
            /\ UNCHANGED poolFaults
         \/ /\ FailCall(r) /\ UNCHANGED kept
            /\ IF full THEN UNCHANGED poolFaults ELSE PoolFault
    /\ UNCHANGED mixed

-----------------------------------------------------------------------------
(* write_stream: through the temporary file                                 *)

OpenInPlace(r) ==
    /\ AtCall(r, "open")
    /\ kept' = Written(Streamed, <<>>)
    /\ call' = [call EXCEPT ![r].handle = Streamed, ![r].pc = "chunk"]
    /\ UNCHANGED <<mixed, poolFaults>>
OpenTmp(r) ==
    /\ AtCall(r, "open")
    /\ kept' = Written(TmpFile, <<>>)
    /\ call' = [call EXCEPT ![r].handle = TmpFile, ![r].pc = "chunk"]
    /\ UNCHANGED <<mixed, poolFaults>>
\* A chunk is written at the writer's own position; the stream may fail, which leaves
\* the temporary file behind.
WriteChunk(r) ==
    /\ AtCall(r, "chunk") \/ AtCall(r, "chunk2")
    /\ LET f == call[r].handle
           i == IF AtCall(r, "chunk") THEN 1 ELSE 2
           put == [j \in 1..(IF i > Len(kept[f]) THEN i ELSE Len(kept[f])) |->
                     IF j = i THEN r ELSE IF j <= Len(kept[f]) THEN kept[f][j] ELSE Missing]
       IN \/ /\ kept' = IF f = Missing THEN kept ELSE [kept EXCEPT ![f] = put]
             /\ GoCall(r, IF i = 1 THEN "chunk2" ELSE "rename") /\ UNCHANGED poolFaults
          \/ PoolFault /\ FailCall(r) /\ UNCHANGED kept
    /\ UNCHANGED mixed
RenameTmp(r) ==
    /\ AtCall(r, "rename")
    /\ \/ /\ Has(TmpFile)
          /\ kept' = [Written(Streamed, kept[TmpFile]) EXCEPT ![TmpFile] = Missing]
          /\ call' = [q \in PoolRequests |->
               IF q = r THEN [call[q] EXCEPT !.pc = "stat", !.handle = Missing]
               ELSE [call[q] EXCEPT !.handle = IF @ = TmpFile THEN Streamed
                                               ELSE IF @ = Streamed THEN Missing ELSE @]]
          /\ UNCHANGED poolFaults
       \/ FailCall(r) /\ UNCHANGED kept /\ IF Has(TmpFile) THEN PoolFault ELSE UNCHANGED poolFaults
    /\ UNCHANGED mixed

-----------------------------------------------------------------------------
(* Properties                                                               *)

\* Whatever fails or is deleted while it runs, a stream never leaves a part of its
\* content at the path, unless two streams of the path have run at once: they share
\* the temporary file.
StreamedIsWhole ==
    ~mixed => \/ kept[Streamed] = Missing
              \/ \E w \in PoolRequests \cup {Initial} : kept[Streamed] = Chunks(w)

\* The removal of a tree which meets no other request and no failing call succeeds, and
\* no removal that succeeds leaves a path without its directory behind.
TreeIsGone ==
    [][\A r \in PoolRequests :
         /\ call[r].kind = "tree" /\ Calling(r) /\ ~Calling(r)' /\ ~call[r].met
         /\ ~call[r].hurt /\ poolFaults' = poolFaults
         => /\ call'[r].ok
            /\ \A p \in Within[call[r].path] : ~Has(p)']_poolVars
=============================================================================
