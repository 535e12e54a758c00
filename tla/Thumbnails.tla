----------------------------- MODULE Thumbnails -----------------------------
(***************************************************************************)
(* Thumbnails (src/business/services/thumbnail.rs and its renderers): a    *)
(* request answers with the stored thumbnail of the path if there is one,  *)
(* whatever the file holds by now, else downloads the file, renders it and *)
(* stores the result.  Nothing compares the two: a thumbnail is only right *)
(* because whoever changes a file then removes or moves its thumbnail.     *)
(*                                                                         *)
(* A thumbnail is the content it was rendered from.  Requests that are     *)
(* refused by the settings or for the kind of the file change nothing and  *)
(* are left out.                                                           *)
(***************************************************************************)
EXTENDS Naturals, FiniteSets

CONSTANTS
    Pictures, HomeOf,       \* the paths of files, and the directory each is in
    TextFiles,              \* those that are rendered as text
    RootFolder,             \* the directory "/"
    Contents, ContentSize,  \* what a file may hold: "empty", "small", "fits" or "large"
    NoContent,              \* no file, no thumbnail
    ThumbRequests,
    MaxThumbFaults,         \* bound on failed calls
    MaxThumbChanges         \* bound on changes of the files and of the markers

\* The value of no content is no path.
ASSUME ThumbAssumption == NoContent \notin Pictures

ThumbFolders == {HomeOf[x] : x \in Pictures} \cup {RootFolder}

VARIABLES
    cacheMode,   \* "dir", "root" (of the user) or "none"
    picture,     \* path -> content
    thumb,       \* path -> what is stored under the hash of the path
    marker,      \* directory -> it holds .fileuni-thumbnail/.disabled
    legacy,      \* directory -> it holds .thumbs/.disabled, which nothing writes any more
    slots,       \* the free permits of the process manager
    job,         \* request -> its progress
    thumbFaults, thumbChanges
thumbVars == <<cacheMode, picture, thumb, marker, legacy, slots, job, thumbFaults, thumbChanges>>

NoThumb == [of |-> NoContent, excused |-> FALSE]
NewJob == [pc |-> "new", at |-> NoContent, to |-> NoContent, got |-> NoContent,
           late |-> FALSE]

ThumbInit ==
    /\ cacheMode \in {"dir", "root", "none"}
    /\ \E x \in Contents : picture = [y \in Pictures |-> IF HomeOf[y] # RootFolder THEN x ELSE NoContent]
    /\ thumb = [x \in Pictures |-> NoThumb]
    /\ marker = [h \in ThumbFolders |-> FALSE]
    /\ legacy \in {[h \in ThumbFolders |-> FALSE], [h \in ThumbFolders |-> h = RootFolder]}
    /\ slots = 1
    /\ job = [r \in ThumbRequests |-> NewJob]
    /\ thumbFaults = 0 /\ thumbChanges = 0

-----------------------------------------------------------------------------
ThumbStep(r, from, to) == job[r].pc = from /\ job' = [job EXCEPT ![r].pc = to]
ThumbEnd(r, from) == job[r].pc = from /\ job' = [job EXCEPT ![r] = NewJob]
ThumbFail(r, from) == ThumbEnd(r, from) /\ thumbFaults < MaxThumbFaults /\ thumbFaults' = thumbFaults + 1
ThumbOnly(r, from) == /\ job[r].pc = from
                      /\ UNCHANGED <<cacheMode, picture, marker, legacy, thumbFaults, thumbChanges>>

\* The thumbnail of a path, if thumbnails are stored at all (build_thumbnail_paths).
HasThumb(x) == cacheMode # "none" /\ thumb[x] # NoThumb

\* A call that has still to make, remove or move the thumbnail of one of xs.
Pending(j, xs) == j.pc \in {"render", "rendering", "store", "remove", "move", "copy", "put", "drop"} /\ xs \cap {j.at, j.to} # {}
\* Files change: of what is under way from the old contents nothing is right any more.
OutOfDate(xs) == [r \in ThumbRequests |-> [job[r] EXCEPT !.late = @ \/ Pending(job[r], xs)]]

-----------------------------------------------------------------------------
(* A thumbnail is asked for                                                 *)

\* The file is there and is not empty (stat, then the settings).
BeginShow(r, x) ==
    /\ job[r].pc = "new" /\ picture[x] # NoContent /\ ContentSize[picture[x]] # "empty"
    /\ job' = [job EXCEPT ![r].pc = "markers", ![r].at = x, ![r].got = picture[x]]
    /\ UNCHANGED <<cacheMode, picture, thumb, marker, legacy, slots, thumbFaults, thumbChanges>>

Disabled(h) == marker[h] \/ legacy[h]

\* The markers; the limit on the size, which a preview ignores; the small images, which
\* are answered as they are; the stored thumbnail, which is answered as it is.
CheckMarkers(r) ==
    /\ ThumbOnly(r, "markers") /\ UNCHANGED <<thumb, slots>>
    /\ LET x == job[r].at
           size == ContentSize[job[r].got]
       IN \/ /\ Disabled(HomeOf[x]) \/ size = "large" \/ (size = "small" /\ x \notin TextFiles)
             /\ ThumbEnd(r, "markers")
          \/ /\ ~Disabled(HomeOf[x]) /\ (size = "small" => x \in TextFiles)
             /\ IF HasThumb(x) THEN ThumbEnd(r, "markers") ELSE ThumbStep(r, "markers", "download")

\* No permit free is an answer of its own; else the file is downloaded.
Download(r) ==
    /\ ThumbOnly(r, "download") /\ UNCHANGED <<thumb, slots>>
    /\ IF slots = 0 \/ picture[job[r].at] = NoContent
       THEN ThumbEnd(r, "download")
       ELSE job' = [job EXCEPT ![r].pc = "render", ![r].got = picture[job[r].at]]

\* The permit is waited for: it may be gone since it was looked at.
StartRender(r) ==
    /\ ThumbOnly(r, "render") /\ slots > 0
    /\ slots' = slots - 1 /\ ThumbStep(r, "render", "rendering") /\ UNCHANGED thumb

\* A text is read again, by its path; what the tools then make of it is a thumbnail
\* or an error.
EndRender(r) ==
    /\ job[r].pc = "rendering" /\ slots' = slots + 1
    /\ LET x == job[r].at
           source == IF x \in TextFiles THEN picture[x] ELSE job[r].got
       IN \/ /\ source # NoContent /\ UNCHANGED thumbFaults
             /\ job' = [job EXCEPT ![r].pc = "store", ![r].got = source,
                                   ![r].late = @ /\ x \notin TextFiles]
          \/ /\ source = NoContent /\ ThumbEnd(r, "rendering") /\ UNCHANGED thumbFaults
          \/ ThumbFail(r, "rendering")
    /\ UNCHANGED <<cacheMode, picture, thumb, marker, legacy, thumbChanges>>

\* The directory is made if it is missing, and the thumbnail written.
StoreThumb(r) ==
    /\ job[r].pc = "store"
    /\ \/ /\ ThumbEnd(r, "store") /\ UNCHANGED thumbFaults
          /\ thumb' = IF cacheMode = "none" THEN thumb
                      ELSE [thumb EXCEPT ![job[r].at] = [of |-> job[r].got, excused |-> job[r].late]]
       \/ ThumbFail(r, "store") /\ UNCHANGED thumb
    /\ UNCHANGED <<cacheMode, picture, marker, legacy, slots, thumbChanges>>

-----------------------------------------------------------------------------
(* A file is changed or moved (by callers outside this repository), and     *)
(* then its thumbnail is removed or moved                                   *)

BeginThumbChange(r, x, content) ==
    /\ job[r].pc = "new" /\ content # picture[x]
    /\ thumbChanges < MaxThumbChanges /\ thumbChanges' = thumbChanges + 1
    /\ picture' = [picture EXCEPT ![x] = content]
    /\ job' = [OutOfDate({x}) EXCEPT ![r].pc = "remove", ![r].at = x]
    /\ UNCHANGED <<cacheMode, thumb, marker, legacy, slots, thumbFaults>>

\* (of a mutant: only thumbnails beside their files are removed)
RemoveBeside(r) ==
    /\ ThumbEnd(r, "remove")
    /\ thumb' = IF cacheMode = "dir" THEN [thumb EXCEPT ![job[r].at] = NoThumb] ELSE thumb
    /\ UNCHANGED <<cacheMode, picture, marker, legacy, slots, thumbFaults, thumbChanges>>
\* remove_thumbnail_by_path: a failed call leaves the thumbnail where it is.
RemoveThumb(r) ==
    /\ job[r].pc = "remove"
    /\ LET x == job[r].at IN
       \/ ThumbEnd(r, "remove") /\ thumb' = [thumb EXCEPT ![x] = NoThumb] /\ UNCHANGED thumbFaults
       \/ ThumbFail(r, "remove") /\ thumb' = [thumb EXCEPT ![x].excused = HasThumb(x)]
    /\ UNCHANGED <<cacheMode, picture, marker, legacy, slots, thumbChanges>>

BeginThumbMove(r, x, y) ==
    /\ job[r].pc = "new" /\ x # y /\ picture[x] # NoContent
    /\ thumbChanges < MaxThumbChanges /\ thumbChanges' = thumbChanges + 1
    /\ picture' = [picture EXCEPT ![x] = NoContent, ![y] = picture[x]]
    /\ job' = [OutOfDate({x, y}) EXCEPT ![r].pc = "move", ![r].at = x, ![r].to = y,
                   ![r].late = \E s \in ThumbRequests : Pending(job[s], {x, y})]
    /\ UNCHANGED <<cacheMode, thumb, marker, legacy, slots, thumbFaults>>

Moved(t, late) == [t EXCEPT !.excused = @ \/ late]

\* move_thumbnail_by_path: where the source has none the old one of the target stays.
MoveThumb(r) ==
    /\ job[r].pc = "move"
    /\ LET x == job[r].at  y == job[r].to IN
       \/ /\ ~HasThumb(x) /\ ThumbEnd(r, "move") /\ UNCHANGED thumbFaults
          /\ thumb' = [thumb EXCEPT ![y].excused = HasThumb(y)]
       \/ /\ HasThumb(x) /\ ThumbEnd(r, "move") /\ UNCHANGED thumbFaults
          /\ thumb' = [thumb EXCEPT ![x] = NoThumb, ![y] = Moved(thumb[x], job[r].late)]
       \/ /\ HasThumb(x) /\ ThumbStep(r, "move", "copy") /\ UNCHANGED thumb
          /\ thumbFaults < MaxThumbFaults /\ thumbFaults' = thumbFaults + 1
    /\ UNCHANGED <<cacheMode, picture, marker, legacy, slots, thumbChanges>>

\* The move failed: read, write, delete.
CopyThumb(r) ==
    /\ ThumbOnly(r, "copy") /\ UNCHANGED slots
    /\ LET x == job[r].at  y == job[r].to IN
       IF HasThumb(x)
       THEN /\ job' = [job EXCEPT ![r].pc = "put", ![r].got = thumb[x].of, ![r].late = @ \/ thumb[x].excused]
            /\ UNCHANGED thumb
       ELSE ThumbEnd(r, "copy") /\ thumb' = [thumb EXCEPT ![y].excused = HasThumb(y)]

PutThumb(r) ==
    /\ ThumbOnly(r, "put") /\ UNCHANGED slots /\ ThumbStep(r, "put", "drop")
    /\ thumb' = [thumb EXCEPT ![job[r].to] = [of |-> job[r].got, excused |-> job[r].late]]

DropThumb(r) ==
    /\ ThumbOnly(r, "drop") /\ UNCHANGED slots /\ ThumbEnd(r, "drop")
    /\ thumb' = [thumb EXCEPT ![job[r].at] = NoThumb]

-----------------------------------------------------------------------------
(* Clearing, and the markers                                                *)

\* What clearing a directory finds: the entries of its .fileuni-thumbnail or, where the
\* user's root holds all, the thumbnails of the files the directory has now.
ThumbsOf(h) == {x \in Pictures : HasThumb(x) /\ HomeOf[x] = h /\ (cacheMode = "root" => picture[x] # NoContent)}
\* Everything: directory by directory, or the tree of the user's root, with what else
\* is in it: the marker of the directory "/".
ClearedMarkers(scope) == IF scope = "all" /\ cacheMode = "root" THEN {RootFolder} ELSE {}

\* Deletions that fail are passed over.
ClearThumbs(r, scope) ==
    /\ job[r].pc = "new" /\ UNCHANGED job
    /\ LET found == IF scope # "all" THEN ThumbsOf(scope) ELSE {x \in Pictures : HasThumb(x)} IN
       \E kept \in SUBSET found :
          /\ thumbFaults + Cardinality(kept) <= MaxThumbFaults /\ thumbFaults' = thumbFaults + Cardinality(kept)
          /\ thumb' = [x \in Pictures |-> IF x \in found \ kept THEN NoThumb ELSE thumb[x]]
    /\ marker' = [h \in ThumbFolders |-> marker[h] /\ h \notin ClearedMarkers(scope)]
    /\ UNCHANGED <<cacheMode, picture, legacy, slots, thumbChanges>>

\* set_thumbnail_disabled: nothing removes a marker of the old name.
SetThumbnailDisabled(r, h, disabled) ==
    /\ job[r].pc = "new" /\ UNCHANGED job
    /\ thumbChanges < MaxThumbChanges /\ thumbChanges' = thumbChanges + 1
    /\ marker' = [marker EXCEPT ![h] = disabled]
    /\ UNCHANGED <<cacheMode, picture, thumb, legacy, slots, thumbFaults>>

-----------------------------------------------------------------------------
\* A stored thumbnail is of what its file holds (and of a file that exists), unless a
\* call that will remove or move it is under way.  Excused are those of a rendering or a
\* move that a change of the file overtook, those a failed call left behind, and the old
\* thumbnail of a path onto which a file without one was moved.
ThumbsFollowFiles ==
    \A x \in Pictures :
       \/ ~HasThumb(x) \/ thumb[x].excused \/ thumb[x].of = picture[x]
       \/ \E r \in ThumbRequests : Pending(job[r], {x}) /\ job[r].pc \notin {"render", "rendering", "store"}
=============================================================================
