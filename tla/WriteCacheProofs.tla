-------------------------- MODULE WriteCacheProofs --------------------------
(***************************************************************************)
(* An acknowledged write is never lost (WriteCache), for every number of   *)
(* paths, requests, flushers and restarts, sizes and capacities; the types *)
(* of the cache; and its accounting, which is exact with one flusher and   *)
(* requests that write paths of their own.                                 *)
(***************************************************************************)
EXTENDS WriteCache, Sums

\* All but the accounting has its type.
CacheTypes ==
    /\ primary \in [Paths -> Requests \cup {None}]
    /\ disk \in [FileNames -> FileContent \cup {None}]
    /\ recs \in [RecIds -> Record \cup {None}]
    /\ entries \in [Paths -> RecIds \cup {None}]
    /\ reqs \in [Requests -> ReqState]
    /\ flush \in [Tasks -> FlushState]
    /\ crashes \in Nat

-----------------------------------------------------------------------------
(* Nothing of a path is mixed up with another's                             *)

\* The names that blobs of the path's requests have.
BlobsOf(p) ==
    {BaseFile(p)} \cup {b \in Blobs : \E q \in Requests :
        /\ Target[q] = p
        /\ \/ b \in {StagedFile("queue", q), StagedFile("abnormal", q), MemoryBlob(q)}
           \/ \E t \in Tasks : b = PromotedFile(t, q)}

\* The task has captured a record's data and not yet left flush_entry.
Active(t) == flush[t].pc \notin {"idle", "picked"}

FilesNamed == \A f \in FileNames : disk[f] # None => f \in BlobsOf(Target[disk[f].val])
\* The path that a record is of.
RecPath(id) == IF id \in Paths THEN id ELSE Target[id]
RecordsNamed ==
    \A id \in RecIds : recs[id] # None =>
        /\ recs[id].path = RecPath(id)
        /\ recs[id].blob \in BlobsOf(RecPath(id))
        /\ LocalDir => ~InMemory(recs[id].blob)
EntriesNamed == \A p \in Paths : entries[p] # None => recs[entries[p]] # None /\ RecPath(entries[p]) = p

\* A request, or a task inside flush_entry, holds a record and blobs of one path.
ReqNamed(r, me) ==
    /\ me.pc \in {"update", "stage", "swap"} =>
           me.rec # None /\ recs[me.rec] # None /\ RecPath(me.rec) = Target[r]
    /\ me.pc \in {"insert", "stage", "swap", "cleanup"} =>
           /\ me.blob \in BlobsOf(Target[r])
           /\ LocalDir => ~InMemory(me.blob)
    /\ me.pc = "stage" => ~InMemory(me.blob)
FlushNamed(it) ==
    /\ it.pc # "idle" => it.rec # None /\ recs[it.rec] # None
    /\ it.pc \notin {"idle", "picked"} => it.blob \in BlobsOf(RecPath(it.rec))
    /\ it.pc \notin {"idle", "picked", "read"} => it.val # None /\ Target[it.val] = RecPath(it.rec)
\* A request flushes its own path, and waits for that.
Forced(r) == flush[r].pc # "idle" => At(r, "flush") /\ RecPath(flush[r].rec) = Target[r]
RequestsNamed == \A r \in Requests : ReqNamed(r, reqs[r]) /\ Forced(r)
FlushesNamed == \A t \in Tasks : FlushNamed(flush[t])

Named == FilesNamed /\ RecordsNamed /\ EntriesNamed /\ RequestsNamed /\ FlushesNamed

-----------------------------------------------------------------------------
(* A write that no other request interferes with                            *)

Alone(r) == Kind[r] = "write" /\ \A q \in Requests \ {r} : Target[q] # Target[r]

\* Until it is acknowledged or fails there is nothing of its path.
Untouched(r) == LET p == Target[r] IN
    /\ entries[p] = None /\ recs[p] = None /\ recs[r] = None
    /\ reqs[r].pc \notin {"update", "stage", "swap", "cleanup"}
    /\ At(r, "insert") => Readable(reqs[r].blob)
    /\ At(r, "new") => \A f \in FileNames : disk[f] # None => Target[disk[f].val] # p

FlushOf(t, p) == flush[t].pc # "idle" /\ RecPath(flush[t].rec) = p

\* Its blob is queued and in the store of blobs; one task flushes a blob that is not in
\* the abnormal directory, and only that one can move it there.
Queued(r) == LET p == Target[r] rec == recs[entries[p]] IN
    /\ entries[p] # None /\ Readable(rec.blob) /\ rec.gen = 1
    /\ \A t \in Tasks : FlushOf(t, p) =>
        /\ flush[t].rec = entries[p]
        /\ flush[t].pc \notin {"check", "remove", "discard"}
        /\ Active(t) => flush[t].gen = 1
        /\ flush[t].pc \in {"spill", "replace"} => ~InAbnormalDir(rec.blob)
        /\ flush[t].pc = "replace" => disk[PromotedFile(t, flush[t].val)] # None
        /\ flush[t].pc = "log" => InAbnormalDir(rec.blob) /\ ~InAbnormalDir(flush[t].blob)
        /\ ~InAbnormalDir(rec.blob) /\ Active(t) =>
               rec.state = "flushing" /\ \A s \in Tasks \ {t} : FlushOf(s, p) => ~Active(s)

\* Restarts keep what is on the disk.
KeepsFiles == LocalDir \/ crashes = 0

Secured(r) ==
    /\ reqs[r].pc \notin {"done", "failed"} => Untouched(r)
    /\ Done(r) /\ KeepsFiles => primary[Target[r]] = r \/ Queued(r)
AloneInv == \A r \in Requests : Alone(r) => Secured(r)

CacheInv == CacheTypes /\ Named /\ AloneInv

-----------------------------------------------------------------------------
(* Names                                                                    *)

LEMMA Apart == /\ None \notin RecIds /\ None \notin Tasks /\ Paths \cap Requests = {}
               /\ None \notin Paths /\ None \notin Requests
    BY CacheAssumption DEF RecIds, Tasks

\* Names of blobs are the path's own.
LEMMA NamesOfPaths ==
    /\ \A p \in Paths : BlobsOf(p) \subseteq Blobs /\ BaseFile(p) \in FileNames /\ BaseFile(p) \in BlobsOf(p)
                        /\ ~InMemory(BaseFile(p)) /\ ~InAbnormalDir(BaseFile(p))
    /\ \A q \in Requests :
        /\ MemoryBlob(q) \in BlobsOf(Target[q]) /\ InMemory(MemoryBlob(q)) /\ ~InAbnormalDir(MemoryBlob(q))
        /\ \A d \in {"queue", "abnormal"} :
               StagedFile(d, q) \in FileNames /\ StagedFile(d, q) \in BlobsOf(Target[q]) /\ ~InMemory(StagedFile(d, q))
        /\ \A t \in Tasks : /\ PromotedFile(t, q) \in FileNames /\ PromotedFile(t, q) \in BlobsOf(Target[q])
                            /\ ~InMemory(PromotedFile(t, q)) /\ InAbnormalDir(PromotedFile(t, q))
    /\ \A b \in Blobs : ~InMemory(b) => b \in FileNames
<1>1. \A p \in Paths : BaseFile(p) \in FileNames /\ BaseFile(p) \in Blobs /\ BaseFile(p)[1] = "queue"
    BY DEF BaseFile, FileNames, Blobs
<1>2. \A q \in Requests, d \in {"queue", "abnormal"} :
        StagedFile(d, q) \in FileNames /\ StagedFile(d, q) \in Blobs /\ StagedFile(d, q)[1] = d
    BY DEF StagedFile, FileNames, Blobs
<1>3. \A q \in Requests, t \in Tasks :
        PromotedFile(t, q) \in FileNames /\ PromotedFile(t, q) \in Blobs /\ PromotedFile(t, q)[1] = "abnormal"
    BY DEF PromotedFile, FileNames, Blobs
<1>4. \A q \in Requests : MemoryBlob(q) \in Blobs /\ MemoryBlob(q)[1] = "memory"
    BY DEF MemoryBlob, Blobs
<1>5. \A p \in Paths : BlobsOf(p) \subseteq Blobs
    BY <1>1 DEF BlobsOf
<1>6. \A b \in Blobs : ~InMemory(b) => b \in FileNames
    BY <1>4 DEF Blobs, InMemory
<1>7. \A q \in Requests : Target[q] \in Paths
    BY CacheAssumption
<1>8. \A q \in Requests :
        /\ MemoryBlob(q) \in BlobsOf(Target[q])
        /\ \A d \in {"queue", "abnormal"} : StagedFile(d, q) \in BlobsOf(Target[q])
        /\ \A t \in Tasks : PromotedFile(t, q) \in BlobsOf(Target[q])
    BY <1>2, <1>3, <1>4 DEF BlobsOf
<1> HIDE DEF BaseFile, StagedFile, PromotedFile, MemoryBlob
<1> QED
    BY <1>1, <1>2, <1>3, <1>4, <1>5, <1>6, <1>8 DEF InMemory, InAbnormalDir, BlobsOf

\* No blob is one of two paths.
LEMMA OwnBlobs ==
    ASSUME NEW p \in Paths, NEW q \in Paths, NEW b \in BlobsOf(p), b \in BlobsOf(q)
    PROVE p = q
<1>0. Target \in [Requests -> Paths] /\ Paths \cap Requests = {}
    BY CacheAssumption
<1>1. CASE b = BaseFile(p)
    BY <1>0, <1>1 DEF BlobsOf, BaseFile, StagedFile, PromotedFile, MemoryBlob
<1>2. CASE b # BaseFile(p)
  <2>1. PICK r \in Requests : /\ Target[r] = p
           /\ \/ b \in {StagedFile("queue", r), StagedFile("abnormal", r), MemoryBlob(r)}
              \/ \E t \in Tasks : b = PromotedFile(t, r)
    BY <1>2 DEF BlobsOf
  <2>2. b # BaseFile(q)
    BY <1>0, <2>1 DEF BaseFile, StagedFile, PromotedFile, MemoryBlob
  <2>3. PICK s \in Requests : /\ Target[s] = q
           /\ \/ b \in {StagedFile("queue", s), StagedFile("abnormal", s), MemoryBlob(s)}
              \/ \E t \in Tasks : b = PromotedFile(t, s)
    BY <2>2 DEF BlobsOf
  <2>4. r = s
    BY <2>1, <2>3 DEF StagedFile, PromotedFile, MemoryBlob
  <2> QED
    BY <2>1, <2>3, <2>4
<1> QED
    BY <1>1, <1>2

\* What a blob holds is what some request wrote, of the path that the blob is of.
LEMMA Contents ==
    ASSUME CacheTypes, FilesNamed, NEW p \in Paths, NEW b \in BlobsOf(p), Readable(b)
    PROVE ContentOf(b) \in Requests /\ Target[ContentOf(b)] = p
<1>0. b \in Blobs
    BY NamesOfPaths
<1>1. CASE InMemory(b)
  <2>1. PICK r \in Requests : Target[r] = p /\ b = MemoryBlob(r)
    BY <1>1 DEF BlobsOf, InMemory, BaseFile, StagedFile, PromotedFile, MemoryBlob
  <2> QED
    BY <1>1, <2>1 DEF ContentOf, MemoryBlob
<1>2. CASE ~InMemory(b)
  <2>1. b \in FileNames /\ disk[b] # None
    BY <1>0, <1>2, NamesOfPaths DEF Readable
  <2>2. disk[b].val \in Requests /\ b \in BlobsOf(Target[disk[b].val])
    BY <2>1 DEF CacheTypes, FileContent, FilesNamed
  <2>3. Target[disk[b].val] \in Paths
    BY <2>2, CacheAssumption
  <2> QED
    BY <1>2, <2>2, <2>3, OwnBlobs DEF ContentOf
<1> QED
    BY <1>1, <1>2

-----------------------------------------------------------------------------
(* Steps of one path                                                        *)

\* No record goes, unless the process dies.
RecsStay == \A id \in RecIds : recs[id] # None => recs'[id] # None

\* What a step changes is of the path p.
OnlyPath(p) ==
    /\ \A x \in Paths \ {p} : entries'[x] = entries[x] /\ primary'[x] = primary[x]
                             /\ \A b \in BlobsOf(x) \cap FileNames : disk'[b] = disk[b]
    /\ \A id \in RecIds : RecPath(id) # p => recs'[id] = recs[id]
    /\ \A r \in Requests : Target[r] # p => reqs'[r] = reqs[r]
    /\ \A t \in Tasks : flush'[t] = flush[t]
           \/ \A x \in Paths \ {p} : ~FlushOf(t, x) /\ ~FlushOf(t, x)'
    /\ crashes' = crashes

LEMMA NamedSteps ==
    ASSUME CacheTypes, Named, CacheTypes', RecsStay, FilesNamed', RecordsNamed', EntriesNamed',
           \A q \in Requests : reqs'[q] = reqs[q] \/ ReqNamed(q, reqs[q])',
           \A t \in Tasks : flush'[t] = flush[t] \/ FlushNamed(flush[t])',
           \A q \in Requests : Forced(q)'
    PROVE Named'
<1>1. ASSUME NEW q \in Requests, reqs'[q] = reqs[q] PROVE ReqNamed(q, reqs[q])'
  <2>1. ReqNamed(q, reqs[q]) /\ reqs[q] \in ReqState
    BY DEF CacheTypes, Named, RequestsNamed
  <2>2. reqs[q].rec # None => (recs[reqs[q].rec] # None => recs'[reqs[q].rec] # None)
    BY <2>1 DEF RecsStay, ReqState
  <2> QED
    BY <1>1, <2>1, <2>2 DEF ReqNamed
<1>2. ASSUME NEW t \in Tasks, flush'[t] = flush[t] PROVE FlushNamed(flush[t])'
  <2>1. FlushNamed(flush[t]) /\ flush[t] \in FlushState
    BY DEF CacheTypes, Named, FlushesNamed
  <2>2. flush[t].rec # None => (recs[flush[t].rec] # None => recs'[flush[t].rec] # None)
    BY <2>1 DEF RecsStay, FlushState
  <2> QED
    BY <1>2, <2>1, <2>2 DEF FlushNamed
<1>3. RequestsNamed' /\ FlushesNamed'
    BY <1>1, <1>2 DEF RequestsNamed, FlushesNamed
<1> QED
    BY <1>3 DEF Named

\* A write whose path the step is not of is as secure as before.
LEMMA OtherPaths ==
    ASSUME CacheInv, CacheTypes', Named', NEW p \in Paths, OnlyPath(p),
           NEW r \in Requests, Alone(r), Target[r] # p
    PROVE Secured(r)'
<1> DEFINE x == Target[r]
<1>1. x \in Paths \ {p} /\ RecPath(x) = x /\ RecPath(r) = x
    BY CacheAssumption, Apart DEF RecPath
<1>2. CacheTypes /\ Named /\ Secured(r)
    BY DEF CacheInv, AloneInv
<1>3. /\ entries'[x] = entries[x] /\ primary'[x] = primary[x] /\ reqs'[r] = reqs[r] /\ crashes' = crashes
      /\ recs'[x] = recs[x] /\ recs'[r] = recs[r]
    BY <1>1 DEF OnlyPath, RecIds
<1>4. \A b \in BlobsOf(x) : Readable(b)' = Readable(b) /\ (b \in FileNames => disk'[b] = disk[b])
  <2>1. \A b \in BlobsOf(x) : ~InMemory(b) => b \in FileNames
    BY <1>1, NamesOfPaths
  <2>2. \A b \in BlobsOf(x) \cap FileNames : disk'[b] = disk[b]
    BY <1>1 DEF OnlyPath
  <2> QED
    BY <2>1, <2>2 DEF Readable
<1>5. Untouched(r) => Untouched(r)'
  <2>1. At(r, "insert") => reqs[r].blob \in BlobsOf(x)
    BY <1>2 DEF Named, RequestsNamed, ReqNamed, At
  <2>2. \A f \in FileNames : disk'[f] # None /\ Target[disk'[f].val] = x => disk'[f] = disk[f]
    BY <1>4 DEF Named, FilesNamed
  <2> QED
    BY <1>3, <1>4, <2>1, <2>2 DEF Untouched, At
<1>6. Queued(r) => Queued(r)'
  <2> SUFFICES ASSUME Queued(r) PROVE Queued(r)'
    OBVIOUS
  <2>1. entries[x] # None /\ entries[x] \in RecIds /\ RecPath(entries[x]) = x
    BY <1>1, <1>2 DEF Queued, CacheTypes, Named, EntriesNamed
  <2>2. recs'[entries[x]] = recs[entries[x]] /\ recs[entries[x]].blob \in BlobsOf(x)
    BY <1>1, <1>2, <2>1 DEF OnlyPath, Named, EntriesNamed, RecordsNamed
  <2>3. \A t \in Tasks : FlushOf(t, x)' => flush'[t] = flush[t] /\ FlushOf(t, x)
    BY <1>1 DEF OnlyPath, FlushOf
  <2>4. ASSUME NEW t \in Tasks, FlushOf(t, x), flush[t].pc = "replace"
        PROVE disk'[PromotedFile(t, flush[t].val)] = disk[PromotedFile(t, flush[t].val)]
    <3>1. flush[t].val \in Requests /\ Target[flush[t].val] = x
      BY <1>2, <2>4 DEF Named, FlushesNamed, FlushNamed, FlushOf, CacheTypes, FlushState
    <3> QED
      BY <1>4, <3>1, NamesOfPaths
  <2>5. Readable(recs[entries[x]].blob)'
    BY <1>3, <1>4, <2>2 DEF Queued
  <2>6. \A s, t \in Tasks : FlushOf(t, x)' /\ FlushOf(s, x)' => (Active(s)' = Active(s))
    BY <2>3 DEF Active
  <2> QED
    BY <1>3, <2>1, <2>2, <2>3, <2>4, <2>5, <2>6 DEF Queued, Active
<1> QED
    BY <1>2, <1>3, <1>5, <1>6 DEF Secured, Done, KeepsFiles

-----------------------------------------------------------------------------
(* The steps of enqueue                                                     *)

ReqPCs == {"new", "admit", "store", "insert", "update", "stage", "swap", "cleanup", "flush", "direct", "done", "failed"}

LEMMA Paths1 == \A r \in Requests : Target[r] \in Paths /\ RecPath(r) = Target[r] /\ r \in RecIds
    BY CacheAssumption, Apart DEF RecPath, RecIds

LEMMA OneReq ==
    ASSUME CacheTypes, NEW r \in Requests, NEW me \in ReqState, reqs' = [reqs EXCEPT ![r] = me]
    PROVE reqs' \in [Requests -> ReqState] /\ reqs'[r] = me /\ \A q \in Requests \ {r} : reqs'[q] = reqs[q]
    BY DEF CacheTypes

LEMMA NewReq == NewRequest \in ReqState
                /\ \A pc \in ReqPCs : [NewRequest EXCEPT !.pc = pc] \in ReqState /\ [NewRequest EXCEPT !.pc = pc].pc = pc
    BY DEF NewRequest, ReqState, ReqPCs

\* One file of the path is written or removed.
LEMMA OneFile ==
    ASSUME CacheTypes, FilesNamed, NEW p \in Paths, NEW b \in BlobsOf(p), b \in FileNames,
           NEW c \in FileContent \cup {None}, c # None => Target[c.val] = p, disk' = [disk EXCEPT ![b] = c]
    PROVE /\ disk' \in [FileNames -> FileContent \cup {None}] /\ FilesNamed' /\ disk'[b] = c
          /\ \A x \in Paths \ {p} : \A f \in BlobsOf(x) \cap FileNames : disk'[f] = disk[f]
          /\ \A f \in FileNames \ {b} : disk'[f] = disk[f]
<1>1. disk' \in [FileNames -> FileContent \cup {None}] /\ disk'[b] = c /\ \A f \in FileNames \ {b} : disk'[f] = disk[f]
    BY DEF CacheTypes
<1>2. FilesNamed'
    BY <1>1 DEF FilesNamed
<1>3. \A x \in Paths \ {p} : b \notin BlobsOf(x)
    BY OwnBlobs
<1> QED
    BY <1>1, <1>2, <1>3

\* A request goes on, and changes nothing else.
LEMMA ReqMoves ==
    ASSUME CacheInv, NEW r \in Requests, NEW me \in ReqState, reqs' = [reqs EXCEPT ![r] = me],
           UNCHANGED <<primary, disk, recs, entries, flush, crashes>>, ReqNamed(r, me),
           flush[r].pc # "idle" => me.pc = "flush", reqs[r].pc \notin {"done", "failed"}, me.pc # "new",
           Alone(r) /\ me.pc = "done" => primary[Target[r]] = r,
           Alone(r) => me.pc \notin {"update", "stage", "swap", "cleanup"},
           Alone(r) /\ me.pc = "insert" => Readable(me.blob)
    PROVE CacheInv'
<1>0. CacheTypes /\ Named
    BY DEF CacheInv
<1>1. CacheTypes' /\ reqs'[r] = me /\ \A q \in Requests \ {r} : reqs'[q] = reqs[q]
    BY <1>0, OneReq DEF CacheTypes
<1>2. Named'
    BY <1>0, <1>1 DEF Named, FilesNamed, RecordsNamed, EntriesNamed, RequestsNamed, Forced, FlushesNamed, ReqNamed, FlushNamed, At
<1>3. \A q \in Requests : Alone(q) => Secured(q)'
  <2> SUFFICES ASSUME NEW q \in Requests, Alone(q) PROVE Secured(q)'
    OBVIOUS
  <2>1. Secured(q)
    BY DEF CacheInv, AloneInv
  <2>2. CASE q # r
    BY <1>1, <2>1, <2>2 DEF Secured, Untouched, Queued, At, Done, KeepsFiles, Readable, FlushOf, Active
  <2>3. CASE q = r
    BY <1>1, <2>1, <2>3 DEF Secured, Untouched, At, Done, Readable
  <2> QED
    BY <2>2, <2>3
<1> QED
    BY <1>1, <1>2, <1>3 DEF CacheInv, AloneInv, Alone

LEMMA AdmitSteps ==
    ASSUME CacheInv, NEW r \in Requests, Admit(r) \/ Lookup(r) \/ StoreFails(r) \/ (Store(r) /\ ~LocalDir) PROVE CacheInv'
<1>1. /\ CacheTypes /\ Named /\ reqs[r] \in ReqState /\ Target[r] \in Paths
      /\ Alone(r) => Secured(r)
      /\ flush[r].pc # "idle" => At(r, "flush")
      /\ entries[Target[r]] \in RecIds \cup {None}
      /\ entries[Target[r]] # None => recs[entries[Target[r]]] # None /\ RecPath(entries[Target[r]]) = Target[r]
    BY Paths1 DEF CacheInv, CacheTypes, Named, RequestsNamed, Forced, EntriesNamed, AloneInv
<1>2. UNCHANGED <<primary, disk, recs, entries, flush, crashes>>
    BY DEF Admit, Lookup, StoreFails, Store
<1>3. reqs[r].pc \in {"new", "admit", "store", "stage"}
    BY DEF Admit, Lookup, StoreFails, Store, At
<1>4. flush[r].pc = "idle" /\ reqs[r].pc \notin {"done", "failed"}
    BY <1>1, <1>3 DEF At
<1>5. PICK me \in ReqState :
        /\ reqs' = [reqs EXCEPT ![r] = me] /\ ReqNamed(r, me)
        /\ me.pc \in {"admit", "store", "update", "flush", "insert"}
        /\ me.pc = "insert" => Readable(me.blob)
        /\ me.pc = "update" => entries[Target[r]] # None
  <2>1. CASE Admit(r) /\ reqs' # [reqs EXCEPT ![r].pc = "flush"]
    <3> DEFINE id == entries[Target[r]]
               me == [reqs[r] EXCEPT !.pc = "admit", !.prev = IF id = None THEN 0 ELSE RecordBytes(id)]
    <3>1. reqs' = [reqs EXCEPT ![r] = me]
      BY <1>1, <2>1 DEF Admit, Go, CacheTypes, ReqState
    <3>2. id # None => RecordBytes(id) \in Nat
      BY <1>1 DEF RecordBytes, AccountedFor, CacheTypes, Record
    <3>3. me \in ReqState /\ me.pc = "admit"
      BY <1>1, <3>2 DEF ReqState
    <3> QED
      BY <3>1, <3>3 DEF ReqNamed
  <2>2. CASE Lookup(r) /\ reqs' # [reqs EXCEPT ![r].pc = "flush"]
    <3> DEFINE id == entries[Target[r]]
               me == [reqs[r] EXCEPT !.pc = IF id = None THEN "store" ELSE "update", !.rec = id]
    <3>1. reqs' = [reqs EXCEPT ![r] = me]
      BY <1>1, <2>2 DEF Lookup, Go, CacheTypes, ReqState
    <3>2. me \in ReqState /\ me.pc = (IF id = None THEN "store" ELSE "update") /\ me.rec = id
      BY <1>1 DEF ReqState
    <3> HIDE DEF me
    <3> QED
      BY <1>1, <3>1, <3>2 DEF ReqNamed
  <2>3. CASE reqs' = [reqs EXCEPT ![r].pc = "flush"]
    <3> DEFINE me == [reqs[r] EXCEPT !.pc = "flush"]
    <3>1. me \in ReqState /\ me.pc = "flush" /\ reqs' = [reqs EXCEPT ![r] = me]
      BY <1>1, <2>3 DEF ReqState, CacheTypes
    <3> QED
      BY <3>1 DEF ReqNamed
  <2>4. CASE Store(r) /\ ~LocalDir
    <3> DEFINE me == [reqs[r] EXCEPT !.pc = "insert", !.blob = MemoryBlob(r)]
    <3>1. reqs' = [reqs EXCEPT ![r] = me]
      BY <1>1, <2>4 DEF Store, CacheTypes, ReqState
    <3>2. MemoryBlob(r) \in Blobs /\ MemoryBlob(r) \in BlobsOf(Target[r]) /\ Readable(MemoryBlob(r))
      BY <1>1, NamesOfPaths DEF Readable
    <3>3. me \in ReqState /\ me.pc = "insert" /\ me.blob = MemoryBlob(r)
      BY <1>1, <3>2 DEF ReqState
    <3> HIDE DEF me
    <3> QED
      BY <2>4, <3>1, <3>2, <3>3 DEF ReqNamed
  <2> QED
    BY <2>1, <2>2, <2>3, <2>4 DEF StoreFails, Go, Admit, Lookup
<1>6. Alone(r) => entries[Target[r]] = None
    BY <1>1, <1>4 DEF Secured, Untouched
<1>7. /\ Alone(r) => me.pc \notin {"update", "stage", "swap", "cleanup"}
      /\ me.pc # "done" /\ me.pc # "new"
    BY <1>5, <1>6
<1>8. flush[r].pc # "idle" => me.pc = "flush"
    BY <1>4
<1> QED
    BY <1>2, <1>4, <1>5, <1>7, <1>8, ReqMoves

LEMMA PathSteps ==
    ASSUME CacheInv, CacheTypes', Named', NEW p \in Paths, OnlyPath(p),
           \A r \in Requests : Alone(r) /\ Target[r] = p => Secured(r)'
    PROVE CacheInv'
<1>1. \A r \in Requests : Alone(r) => Secured(r)'
    BY OtherPaths
<1> QED
    BY <1>1 DEF CacheInv, AloneInv, Alone

\* A blob of the request's path is written or removed.
LEMMA FileSteps ==
    ASSUME CacheInv, NEW r \in Requests, (Store(r) /\ LocalDir) \/ Stage(r) \/ CleanUp(r) PROVE CacheInv'
<1> DEFINE p == Target[r]
<1>1. /\ CacheTypes /\ Named /\ FilesNamed /\ reqs[r] \in ReqState /\ p \in Paths /\ ReqNamed(r, reqs[r])
      /\ Alone(r) => Secured(r)
      /\ reqs[r].pc \in {"store", "stage", "cleanup"} /\ flush[r].pc = "idle"
    BY Paths1 DEF CacheInv, CacheTypes, Named, RequestsNamed, Forced, AloneInv, Store, Stage, CleanUp, At
<1>2. UNCHANGED <<primary, recs, entries, flush, crashes>>
    BY DEF Store, Stage, CleanUp
<1>3. PICK me \in ReqState :
        /\ reqs' = [reqs EXCEPT ![r] = me] /\ ReqNamed(r, me)
        /\ \/ me.pc = "insert" /\ Readable(me.blob)' /\ Store(r)
           \/ me.pc = "swap" /\ Stage(r)
           \/ me.pc = "done" /\ CleanUp(r)
  <2>1. CASE Store(r) /\ LocalDir
    <3> DEFINE me == [reqs[r] EXCEPT !.pc = "insert", !.blob = BaseFile(Target[r])]
    <3>1. reqs' = [reqs EXCEPT ![r] = me] /\ disk' = [disk EXCEPT ![BaseFile(p)] = [val |-> r, size |-> Size[r]]]
      BY <1>1, <2>1 DEF Store, CacheTypes, ReqState
    <3>2. BaseFile(p) \in Blobs /\ BaseFile(p) \in BlobsOf(p) /\ ~InMemory(BaseFile(p)) /\ BaseFile(p) \in FileNames
      BY <1>1, NamesOfPaths DEF Blobs
    <3>3. me \in ReqState /\ me.pc = "insert" /\ me.blob = BaseFile(p)
      BY <1>1, <3>2 DEF ReqState
    <3>4. [val |-> r, size |-> Size[r]] # None
      BY CacheAssumption, NoneApart DEF FileContent
    <3>5. Readable(BaseFile(p))'
      BY <1>1, <3>1, <3>2, <3>4 DEF Readable, CacheTypes
    <3> HIDE DEF me
    <3> QED
      BY <2>1, <3>1, <3>2, <3>3, <3>5 DEF ReqNamed
  <2>2. CASE Stage(r)
    <3> DEFINE me == [reqs[r] EXCEPT !.pc = "swap"]
    <3>1. reqs' = [reqs EXCEPT ![r] = me]
      BY <1>1, <2>2 DEF Stage, Go, CacheTypes, ReqState
    <3>2. me \in ReqState /\ me.pc = "swap" /\ me.blob = reqs[r].blob /\ me.rec = reqs[r].rec
      BY <1>1 DEF ReqState
    <3>3. reqs[r].pc = "stage"
      BY <2>2 DEF Stage, At
    <3> HIDE DEF me
    <3> QED
      BY <1>1, <2>2, <3>1, <3>2, <3>3 DEF ReqNamed
  <2>3. CASE CleanUp(r)
    <3>1. "done" \in ReqPCs
      BY DEF ReqPCs
    <3> QED
      BY <2>3, <3>1, NewReq DEF CleanUp, Finish, ReqNamed
  <2> QED
    BY <2>1, <2>2, <2>3
<1>4. /\ disk' \in [FileNames -> FileContent \cup {None}] /\ FilesNamed'
      /\ \A x \in Paths \ {p} : \A f \in BlobsOf(x) \cap FileNames : disk'[f] = disk[f]
  <2>1. CASE disk' = disk
    BY <1>1, <2>1 DEF CacheTypes, FilesNamed
  <2>2. CASE disk' # disk
    <3>1. PICK b \in BlobsOf(p), c \in FileContent \cup {None} :
            b \in FileNames /\ (c # None => c.val = r) /\ disk' = [disk EXCEPT ![b] = c]
      <4>1. CASE Store(r) /\ LocalDir
        BY <1>1, <4>1, NamesOfPaths, CacheAssumption DEF Store, FileContent
      <4>2. CASE Stage(r)
        <5>1. reqs[r].blob \in BlobsOf(p) /\ ~InMemory(reqs[r].blob) /\ reqs[r].blob \in Blobs
          BY <1>1, <4>2, NamesOfPaths DEF Stage, At, ReqNamed
        <5> QED
          BY <1>1, <4>2, <5>1, NamesOfPaths, CacheAssumption DEF Stage, FileContent
      <4>3. CASE CleanUp(r)
        <5>1. reqs[r].blob \in BlobsOf(p) /\ reqs[r].blob \in Blobs
          BY <1>1, <4>3, NamesOfPaths DEF CleanUp, At, ReqNamed
        <5>2. ~InMemory(reqs[r].blob) /\ disk' = [disk EXCEPT ![reqs[r].blob] = None]
          BY <2>2, <4>3 DEF CleanUp, Delete
        <5> QED
          BY <5>1, <5>2, NamesOfPaths
      <4> QED
        BY <4>1, <4>2, <4>3
    <3>2. c # None => Target[c.val] = p
      BY <3>1
    <3> QED
      BY <1>1, <3>1, <3>2, OneFile
  <2> QED
    BY <2>1, <2>2
<1>5. reqs' \in [Requests -> ReqState] /\ reqs'[r] = me /\ \A q \in Requests \ {r} : reqs'[q] = reqs[q]
    BY <1>1, <1>3, OneReq
<1>6. CacheTypes'
    BY <1>1, <1>2, <1>4, <1>5 DEF CacheTypes
<1>7. Named'
  <2>1. RecsStay /\ RecordsNamed' /\ EntriesNamed' /\ \A q \in Requests : Forced(q)'
    BY <1>1, <1>2, <1>5 DEF RecsStay, Named, RecordsNamed, EntriesNamed, RequestsNamed, Forced, At
  <2>2. ReqNamed(r, reqs[r])'
    BY <1>2, <1>3, <1>5 DEF ReqNamed
  <2> QED
    BY <1>1, <1>2, <1>4, <1>5, <1>6, <2>1, <2>2, NamedSteps
<1>8. OnlyPath(p)
    BY <1>2, <1>4, <1>5 DEF OnlyPath
<1>9. ASSUME NEW q \in Requests, Alone(q), Target[q] = p PROVE Secured(q)'
  <2>1. q = r /\ Untouched(r) /\ me.pc = "insert" /\ Readable(me.blob)'
    BY <1>1, <1>3, <1>9 DEF Alone, Secured, Untouched, Stage, CleanUp, At
  <2> QED
    BY <1>2, <1>5, <2>1 DEF Secured, Untouched, At, Done
<1> QED
    BY <1>1, <1>6, <1>7, <1>8, <1>9, PathSteps

\* The record of a first write.
LEMMA InsertStep == ASSUME CacheInv, NEW r \in Requests, Insert(r) PROVE CacheInv'
<1> DEFINE p == Target[r]
<1>1. /\ CacheTypes /\ Named /\ reqs[r] \in ReqState /\ reqs[r].pc = "insert" /\ p \in Paths
      /\ reqs[r].blob \in BlobsOf(p) /\ (LocalDir => ~InMemory(reqs[r].blob))
      /\ RecPath(r) = p /\ r \in RecIds /\ flush[r].pc = "idle"
      /\ Alone(r) => Untouched(r) /\ Readable(reqs[r].blob)
    BY Paths1 DEF CacheInv, CacheTypes, Named, RequestsNamed, Forced, ReqNamed, AloneInv, Insert, At, Secured, Untouched
<1>2. /\ recs' = [recs EXCEPT ![r] = [path |-> p, blob |-> reqs[r].blob, size |-> Size[r], gen |-> 1,
                                     state |-> "pending", logged |-> FALSE]]
      /\ entries' = [entries EXCEPT ![p] = r] /\ reqs' = [reqs EXCEPT ![r] = [NewRequest EXCEPT !.pc = "done"]]
      /\ UNCHANGED <<primary, disk, flush, crashes>>
    BY DEF Insert, Finish
<1>3. PICK rec \in Record :
        /\ recs' = [recs EXCEPT ![r] = rec] /\ rec # None
        /\ rec.path = p /\ rec.blob = reqs[r].blob /\ rec.gen = 1
  <2>1. reqs[r].blob \in Blobs /\ Size[r] \in Nat
    BY <1>1, NamesOfPaths, CacheAssumption
  <2>2. [path |-> p, blob |-> reqs[r].blob, size |-> Size[r], gen |-> 1, state |-> "pending", logged |-> FALSE] \in Record
    BY <1>1, <2>1 DEF Record
  <2> QED
    BY <1>2, <2>2, NoneApart
<1>4. PICK me \in ReqState : me.pc = "done" /\ reqs' = [reqs EXCEPT ![r] = me]
    BY <1>2, NewReq DEF ReqPCs
<1>5. /\ recs' \in [RecIds -> Record \cup {None}] /\ recs'[r] = rec /\ \A id \in RecIds \ {r} : recs'[id] = recs[id]
      /\ entries' \in [Paths -> RecIds \cup {None}] /\ entries'[p] = r /\ \A x \in Paths \ {p} : entries'[x] = entries[x]
    BY <1>1, <1>2, <1>3 DEF CacheTypes
<1>6. reqs' \in [Requests -> ReqState] /\ reqs'[r] = me /\ \A q \in Requests \ {r} : reqs'[q] = reqs[q]
    BY <1>1, <1>2, <1>4, OneReq
<1>7. CacheTypes'
    BY <1>1, <1>2, <1>5, <1>6 DEF CacheTypes
<1>8. Named'
  <2>1. RecsStay /\ \A q \in Requests : Forced(q)'
    BY <1>1, <1>2, <1>3, <1>5, <1>6 DEF RecsStay, Named, RequestsNamed, Forced, At
  <2>2. RecordsNamed' /\ FilesNamed'
    BY <1>1, <1>2, <1>3, <1>5 DEF Named, RecordsNamed, FilesNamed
  <2>3. EntriesNamed'
    BY <1>1, <1>3, <1>5 DEF Named, EntriesNamed, CacheTypes
  <2>4. ReqNamed(r, reqs[r])'
    BY <1>4, <1>6 DEF ReqNamed
  <2> QED
    BY <1>1, <1>2, <1>6, <1>7, <2>1, <2>2, <2>3, <2>4, NamedSteps
<1>9. OnlyPath(p)
    BY <1>1, <1>2, <1>5, <1>6 DEF OnlyPath
<1>10. ASSUME NEW q \in Requests, Alone(q), Target[q] = p PROVE Secured(q)'
  <2>1. q = r
    BY <1>10 DEF Alone
  <2>2. ASSUME NEW t \in Tasks PROVE ~FlushOf(t, p)'
    <3>1. flush'[t] = flush[t] /\ flush[t] \in FlushState /\ FlushNamed(flush[t])
      BY <1>1, <1>2 DEF CacheTypes, Named, FlushesNamed
    <3>2. ASSUME flush[t].pc # "idle" PROVE flush[t].rec \in RecIds /\ recs[flush[t].rec] # None
      BY <3>1, <3>2 DEF FlushNamed, FlushState
    <3>3. \A id \in RecIds : RecPath(id) = p => id \in {p, r}
      BY <1>10, <2>1, CacheAssumption DEF Alone, RecPath, RecIds
    <3>4. recs[p] = None /\ recs[r] = None
      BY <1>1, <1>10, <2>1 DEF Untouched
    <3> QED
      BY <3>1, <3>2, <3>3, <3>4 DEF FlushOf
  <2>3. Queued(r)'
    <3>1. Readable(rec.blob)'
      BY <1>1, <1>2, <1>3, <1>10, <2>1 DEF Readable
    <3>2. entries'[Target[r]] = r /\ recs'[r] = rec /\ r # None
      BY <1>1, <1>5, Apart
    <3> QED
      BY <1>3, <2>1, <2>2, <3>1, <3>2 DEF Queued
  <2> QED
    BY <1>4, <1>6, <2>1, <2>3 DEF Secured
<1> QED
    BY <1>1, <1>7, <1>8, <1>9, <1>10, PathSteps

\* An update changes a record; a write that is alone on its path never does.
LEMMA UpdateSteps == ASSUME CacheInv, NEW r \in Requests, BeginUpdate(r) \/ SwapBlob(r) PROVE CacheInv'
<1> DEFINE p == Target[r]
           id == reqs[r].rec
<1>1. /\ CacheTypes /\ Named /\ reqs[r] \in ReqState /\ reqs[r].pc \in {"update", "swap"} /\ p \in Paths
      /\ id \in RecIds /\ recs[id] # None /\ RecPath(id) = p /\ flush[r].pc = "idle" /\ ~Alone(r)
      /\ reqs[r].pc = "swap" => reqs[r].blob \in BlobsOf(p) /\ (LocalDir => ~InMemory(reqs[r].blob))
      /\ recs[id] \in Record /\ recs[id].path = p /\ recs[id].blob \in BlobsOf(p) /\ (LocalDir => ~InMemory(recs[id].blob))
  <2>1. /\ CacheTypes /\ Named /\ reqs[r] \in ReqState /\ reqs[r].pc \in {"update", "swap"} /\ p \in Paths
        /\ ReqNamed(r, reqs[r]) /\ flush[r].pc = "idle" /\ ~Alone(r)
    BY Paths1 DEF CacheInv, CacheTypes, Named, RequestsNamed, Forced, AloneInv, BeginUpdate, SwapBlob, At, Secured, Untouched
  <2>2. id \in RecIds /\ recs[id] # None /\ RecPath(id) = p
    BY <2>1 DEF ReqNamed, ReqState
  <2>3. recs[id] \in Record /\ recs[id].path = p /\ recs[id].blob \in BlobsOf(p) /\ (LocalDir => ~InMemory(recs[id].blob))
    BY <2>1, <2>2 DEF CacheTypes, Named, RecordsNamed
  <2> QED
    BY <2>1, <2>2, <2>3 DEF ReqNamed
<1>2. UNCHANGED <<primary, disk, entries, flush, crashes>>
    BY DEF BeginUpdate, SwapBlob
<1>3. PICK new \in Record, me \in ReqState :
        /\ recs' = [recs EXCEPT ![id] = new] /\ new.path = p
        /\ new.blob \in BlobsOf(p) /\ (LocalDir => ~InMemory(new.blob))
        /\ reqs' = [reqs EXCEPT ![r] = me] /\ me.pc \in {"stage", "swap", "cleanup"}
        /\ me.rec = id /\ me.blob \in BlobsOf(p) /\ (LocalDir => ~InMemory(me.blob))
        /\ me.pc = "stage" => ~InMemory(me.blob)
  <2>1. CASE BeginUpdate(r)
    <3> DEFINE old == recs[id]
               new == [old EXCEPT !.gen = NextGeneration(old), !.size = Size[r], !.state = WaitingState(old)]
               blob == IF InMemory(old.blob)
                       THEN (IF LocalDir THEN StagedFile("queue", r) ELSE MemoryBlob(r))
                       ELSE StagedFile(old.blob[1], r)
               me == [pc |-> IF InMemory(old.blob) /\ ~LocalDir THEN "swap" ELSE "stage",
                      rec |-> id, gen |-> NextGeneration(old), prev |-> RecordBytes(id), blob |-> blob]
    <3>1. recs' = [recs EXCEPT ![id] = new]
      BY <1>1, <2>1 DEF BeginUpdate, CacheTypes, Record
    <3>2. reqs' = [reqs EXCEPT ![r] = me]
      BY <2>1 DEF BeginUpdate
    <3>3. new \in Record /\ new.path = p /\ new.blob = old.blob
      <4>1. NextGeneration(old) \in Nat /\ Size[r] \in Nat /\ WaitingState(old) \in {"pending", "flushing", "abnormal"}
        BY <1>1, CacheAssumption DEF Record, NextGeneration, WaitingState
      <4> QED
        BY <1>1, <4>1 DEF Record
    <3>4. old.blob[1] \in {"queue", "abnormal", "memory"}
      BY <1>1 DEF BlobsOf, BaseFile, StagedFile, PromotedFile, MemoryBlob
    <3>5. blob \in BlobsOf(p) /\ blob \in Blobs /\ (InMemory(blob) <=> (InMemory(old.blob) /\ ~LocalDir))
      BY <1>1, <3>4, NamesOfPaths DEF InMemory
    <3>6. me \in ReqState
      BY <1>1, <3>5 DEF ReqState, Record, NextGeneration, RecordBytes, AccountedFor
    <3> HIDE DEF blob, new
    <3> QED
      BY <1>1, <3>1, <3>2, <3>3, <3>5, <3>6
  <2>2. CASE SwapBlob(r)
    <3> DEFINE current == SameGeneration(id, reqs[r].gen)
               new == IF current THEN [recs[id] EXCEPT !.blob = reqs[r].blob] ELSE recs[id]
               me == [reqs[r] EXCEPT !.pc = "cleanup", !.blob = IF current THEN recs[id].blob ELSE @]
    <3>0. reqs[r].pc = "swap" /\ reqs[r].blob \in BlobsOf(p) /\ reqs[r].blob \in Blobs
      BY <1>1, <2>2, NamesOfPaths DEF SwapBlob, At
    <3>1. recs' = [recs EXCEPT ![id] = new]
      BY <1>1, <2>2 DEF SwapBlob, CacheTypes, Record
    <3>2. reqs' = [reqs EXCEPT ![r] = me]
      BY <1>1, <2>2 DEF SwapBlob, CacheTypes, ReqState
    <3>3. new \in Record /\ new.path = p /\ new.blob \in {recs[id].blob, reqs[r].blob}
      BY <1>1, <3>0 DEF Record
    <3>4. me \in ReqState /\ me.pc = "cleanup" /\ me.rec = id /\ me.blob \in {recs[id].blob, reqs[r].blob}
      BY <1>1, <3>0 DEF ReqState, Record
    <3> HIDE DEF new, me
    <3> QED
      BY <1>1, <3>0, <3>1, <3>2, <3>3, <3>4
  <2> QED
    BY <2>1, <2>2
<1>4. recs' \in [RecIds -> Record \cup {None}] /\ recs'[id] = new /\ \A o \in RecIds \ {id} : recs'[o] = recs[o]
    BY <1>1, <1>3 DEF CacheTypes
<1>5. reqs' \in [Requests -> ReqState] /\ reqs'[r] = me /\ \A q \in Requests \ {r} : reqs'[q] = reqs[q]
    BY <1>1, <1>3, OneReq
<1>6. CacheTypes'
    BY <1>1, <1>2, <1>4, <1>5 DEF CacheTypes
<1>7. new # None
    BY NoneApart
<1>8. Named'
  <2>1. RecsStay /\ \A q \in Requests : Forced(q)'
    BY <1>1, <1>2, <1>4, <1>5, <1>7 DEF RecsStay, Named, RequestsNamed, Forced, At
  <2>2. RecordsNamed' /\ FilesNamed'
    BY <1>1, <1>2, <1>3, <1>4, <1>7 DEF Named, RecordsNamed, FilesNamed
  <2>3. EntriesNamed'
    BY <1>1, <1>2, <1>4, <1>7 DEF Named, EntriesNamed, CacheTypes
  <2>4. ReqNamed(r, reqs[r])'
    BY <1>1, <1>3, <1>4, <1>5, <1>7, Apart DEF ReqNamed
  <2> QED
    BY <1>1, <1>2, <1>5, <1>6, <2>1, <2>2, <2>3, <2>4, NamedSteps
<1>9. OnlyPath(p)
    BY <1>1, <1>2, <1>4, <1>5 DEF OnlyPath
<1>10. \A q \in Requests : Alone(q) => Target[q] # p
    BY <1>1 DEF Alone
<1> QED
    BY <1>1, <1>6, <1>8, <1>9, <1>10, PathSteps

-----------------------------------------------------------------------------
(* The steps of flush_entry                                                 *)

LEMMA OneFlush ==
    ASSUME CacheTypes, NEW t \in Tasks, NEW it \in FlushState, flush' = [flush EXCEPT ![t] = it]
    PROVE flush' \in [Tasks -> FlushState] /\ flush'[t] = it /\ \A s \in Tasks \ {t} : flush'[s] = flush[s]
    BY DEF CacheTypes

LEMMA Idle == IdleFlush \in FlushState /\ IdleFlush.pc = "idle"
    BY DEF IdleFlush, FlushState

\* A task inside flush_entry holds one record, and what it has read is of the record's path.
LEMMA FlushFacts ==
    ASSUME CacheInv, NEW t \in Tasks, flush[t].pc # "idle"
    PROVE /\ CacheTypes /\ Named /\ FilesNamed /\ flush[t] \in FlushState /\ FlushNamed(flush[t])
          /\ flush[t].rec \in RecIds /\ recs[flush[t].rec] \in Record /\ recs[flush[t].rec] # None
          /\ RecPath(flush[t].rec) \in Paths /\ recs[flush[t].rec].path = RecPath(flush[t].rec)
          /\ recs[flush[t].rec].blob \in BlobsOf(RecPath(flush[t].rec))
          /\ LocalDir => ~InMemory(recs[flush[t].rec].blob)
          /\ t \in Requests => reqs[t] \in ReqState /\ reqs[t].pc = "flush" /\ Target[t] = RecPath(flush[t].rec)
          /\ \A r \in Requests : Alone(r) /\ Target[r] = RecPath(flush[t].rec) =>
                 Secured(r) /\ reqs[r].pc \in {"done", "failed"} /\ r # t
<1>1. /\ CacheTypes /\ Named /\ FilesNamed /\ flush[t] \in FlushState /\ FlushNamed(flush[t])
      /\ t \in Requests => reqs[t] \in ReqState /\ Forced(t)
    BY DEF CacheInv, CacheTypes, Named, FlushesNamed, RequestsNamed
<1>2. flush[t].rec \in RecIds /\ recs[flush[t].rec] # None
    BY <1>1 DEF FlushNamed, FlushState
<1>3. /\ recs[flush[t].rec] \in Record
      /\ recs[flush[t].rec].path = RecPath(flush[t].rec)
      /\ recs[flush[t].rec].blob \in BlobsOf(RecPath(flush[t].rec))
      /\ LocalDir => ~InMemory(recs[flush[t].rec].blob)
    BY <1>1, <1>2 DEF CacheTypes, Named, RecordsNamed
<1>4. RecPath(flush[t].rec) \in Paths
    BY <1>2, Paths1, Apart DEF RecIds, RecPath
<1>5. ASSUME NEW r \in Requests, Alone(r), Target[r] = RecPath(flush[t].rec)
      PROVE Secured(r) /\ reqs[r].pc \in {"done", "failed"} /\ r # t
  <2>1. Secured(r)
    BY <1>5 DEF CacheInv, AloneInv
  <2>2. flush[t].rec \in {Target[r], r}
    BY <1>2, <1>5, CacheAssumption DEF Alone, RecPath, RecIds
  <2>3. ~Untouched(r)
    BY <1>2, <2>2 DEF Untouched
  <2> QED
    BY <1>1, <2>1, <2>3 DEF Secured, Forced, At
<1> QED
    BY <1>1, <1>2, <1>3, <1>4, <1>5 DEF Forced, At

\* A task takes a step that is of its record's path, and secures what was secured.
LEMMA FlushMoves ==
    ASSUME CacheInv, NEW t \in Tasks, flush[t].pc # "idle",
           NEW it \in FlushState, flush' = [flush EXCEPT ![t] = it],
           it.pc = "idle" \/ it.rec = flush[t].rec, FlushNamed(it),
           \/ reqs' = reqs
           \/ t \in Requests /\ it.pc = "idle" /\ \E me \in ReqState :
                  me.pc \in {"direct", "failed"} /\ reqs' = [reqs EXCEPT ![t] = me],
           NEW new \in Record, recs' = [recs EXCEPT ![flush[t].rec] = new], new.path = RecPath(flush[t].rec),
           new.blob \in BlobsOf(RecPath(flush[t].rec)), LocalDir => ~InMemory(new.blob),
           disk' \in [FileNames -> FileContent \cup {None}], FilesNamed',
           \A x \in Paths \ {RecPath(flush[t].rec)} : \A f \in BlobsOf(x) \cap FileNames : disk'[f] = disk[f],
           entries' = entries \/ entries' = [entries EXCEPT ![RecPath(flush[t].rec)] = None],
           primary' = primary \/ \E v \in Requests : primary' = [primary EXCEPT ![RecPath(flush[t].rec)] = v],
           crashes' = crashes,
           \A r \in Requests : Alone(r) /\ Target[r] = RecPath(flush[t].rec) /\ Done(r) =>
               /\ primary[Target[r]] = r => primary'[Target[r]] = r
               /\ Queued(r) => primary'[Target[r]] = r \/ Queued(r)'
    PROVE CacheInv'
<1> DEFINE id == flush[t].rec
           p == RecPath(flush[t].rec)
<1>1. /\ CacheTypes /\ Named /\ flush[t] \in FlushState /\ id \in RecIds /\ p \in Paths
      /\ t \in Requests => reqs[t] \in ReqState /\ reqs[t].pc = "flush" /\ Target[t] = p
    BY FlushFacts
<1>2. flush' \in [Tasks -> FlushState] /\ flush'[t] = it /\ \A s \in Tasks \ {t} : flush'[s] = flush[s]
    BY <1>1, OneFlush
<1>3. recs' \in [RecIds -> Record \cup {None}] /\ recs'[id] = new /\ \A o \in RecIds \ {id} : recs'[o] = recs[o]
    BY <1>1 DEF CacheTypes
<1>4. /\ reqs' \in [Requests -> ReqState] /\ \A q \in Requests \ {t} : reqs'[q] = reqs[q]
      /\ t \in Requests /\ reqs' # reqs => it.pc = "idle" /\ reqs'[t].pc \in {"direct", "failed"}
  <2>1. CASE reqs' = reqs
    BY <1>1, <2>1 DEF CacheTypes
  <2>2. ASSUME t \in Requests, it.pc = "idle", NEW me \in ReqState, me.pc \in {"direct", "failed"}, reqs' = [reqs EXCEPT ![t] = me]
        PROVE /\ reqs' \in [Requests -> ReqState] /\ \A q \in Requests \ {t} : reqs'[q] = reqs[q]
              /\ t \in Requests /\ reqs' # reqs => it.pc = "idle" /\ reqs'[t].pc \in {"direct", "failed"}
    BY <1>1, <2>2, OneReq
  <2> QED
    BY <2>1, <2>2
<1>5. CacheTypes'
    BY <1>1, <1>2, <1>3, <1>4 DEF CacheTypes
<1>6. new # None /\ RecsStay
    BY <1>3, NoneApart DEF RecsStay
<1>7. Named'
  <2>1. RecordsNamed'
    BY <1>1, <1>3 DEF Named, RecordsNamed
  <2>2. EntriesNamed'
    BY <1>1, <1>6 DEF Named, EntriesNamed, CacheTypes, RecsStay
  <2>3. \A q \in Requests : reqs'[q] = reqs[q] \/ ReqNamed(q, reqs[q])'
    BY <1>4 DEF ReqNamed
  <2>4. \A s \in Tasks : flush'[s] = flush[s] \/ FlushNamed(flush[s])'
    <3>1. FlushNamed(flush[t])'
      BY <1>2, <1>3, <1>6 DEF FlushNamed
    <3> QED
      BY <1>2, <3>1
  <2>5. \A q \in Requests : Forced(q)'
    BY <1>1, <1>2, <1>4 DEF Named, RequestsNamed, Forced, At, Tasks
  <2> QED
    BY <1>1, <1>5, <1>6, <2>1, <2>2, <2>3, <2>4, <2>5, NamedSteps
<1>8. OnlyPath(p)
  <2>1. \A x \in Paths \ {p} : entries'[x] = entries[x] /\ primary'[x] = primary[x]
    BY <1>1 DEF CacheTypes
  <2>2. \A s \in Tasks : flush'[s] = flush[s] \/ \A x \in Paths \ {p} : ~FlushOf(s, x) /\ ~FlushOf(s, x)'
    BY <1>2 DEF FlushOf
  <2>3. \A r \in Requests : Target[r] # p => reqs'[r] = reqs[r]
    BY <1>1, <1>4
  <2> QED
    BY <1>3, <2>1, <2>2, <2>3 DEF OnlyPath
<1>9. ASSUME NEW r \in Requests, Alone(r), Target[r] = p PROVE Secured(r)'
  <2>1. Secured(r) /\ reqs[r].pc \in {"done", "failed"} /\ reqs'[r] = reqs[r]
    BY <1>4, <1>9, FlushFacts
  <2> QED
    BY <1>9, <2>1 DEF Secured, Done, KeepsFiles
<1> QED
    BY <1>1, <1>5, <1>7, <1>8, <1>9, PathSteps

\* A blob stays queued: a task that is at its data is the only one, or the blob is in
\* the abnormal directory already and stays there.
LEMMA QueuedStays ==
    ASSUME CacheInv, NEW r \in Requests, Queued(r), NEW t \in Tasks, FlushOf(t, Target[r]),
           NEW it \in FlushState, flush' = [flush EXCEPT ![t] = it], it.pc = "idle" \/ it.rec = flush[t].rec,
           NEW new \in Record, recs' = [recs EXCEPT ![flush[t].rec] = new], entries' = entries,
           new.gen = 1, Readable(new.blob)', it.pc \notin {"check", "remove", "discard"},
           it.pc \notin {"idle", "picked"} => it.gen = 1,
           it.pc \in {"spill", "replace"} => ~InAbnormalDir(new.blob),
           it.pc = "replace" => disk'[PromotedFile(t, it.val)] # None,
           it.pc = "log" => InAbnormalDir(new.blob) /\ ~InAbnormalDir(it.blob),
           it.pc \notin {"idle", "picked"} /\ ~InAbnormalDir(new.blob) =>
               new.state = "flushing" /\ \A s \in Tasks \ {t} : FlushOf(s, Target[r]) => ~Active(s),
           \A s \in Tasks \ {t} : FlushOf(s, Target[r]) /\ Active(s) =>
               \/ InAbnormalDir(recs[flush[t].rec].blob) /\ InAbnormalDir(new.blob)
               \/ new = recs[flush[t].rec] /\ it.pc = "idle" /\ disk' = disk
    PROVE Queued(r)'
<1> DEFINE p == Target[r]
           id == flush[t].rec
<1>1. /\ CacheTypes /\ id \in RecIds /\ id = entries[p] /\ entries[p] # None
      /\ flush[t].pc # "idle"
    BY FlushFacts DEF Queued, FlushOf
<1>2. flush'[t] = it /\ (\A s \in Tasks \ {t} : flush'[s] = flush[s]) /\ recs'[id] = new
    BY <1>1, OneFlush DEF CacheTypes
<1>3. \A s \in Tasks \ {t} : (FlushOf(s, p)' <=> FlushOf(s, p)) /\ (Active(s)' <=> Active(s))
    BY <1>2 DEF FlushOf, Active
<1>4. FlushOf(t, p)' => it.pc # "idle" /\ it.rec = id
    BY <1>2 DEF FlushOf
<1>5. ASSUME NEW s \in Tasks, FlushOf(s, p)'
      PROVE /\ flush'[s].rec = entries'[p]
            /\ flush'[s].pc \notin {"check", "remove", "discard"}
            /\ Active(s)' => flush'[s].gen = 1
            /\ flush'[s].pc \in {"spill", "replace"} => ~InAbnormalDir(new.blob)
            /\ flush'[s].pc = "replace" => disk'[PromotedFile(s, flush'[s].val)] # None
            /\ flush'[s].pc = "log" => InAbnormalDir(new.blob) /\ ~InAbnormalDir(flush'[s].blob)
            /\ ~InAbnormalDir(new.blob) /\ Active(s)' =>
                   new.state = "flushing" /\ \A u \in Tasks \ {s} : FlushOf(u, p)' => ~Active(u)'
  <2>1. CASE s = t
    BY <1>1, <1>2, <1>3, <1>4, <1>5, <2>1 DEF Active
  <2>2. CASE s # t
    <3>1. flush'[s] = flush[s] /\ FlushOf(s, p)
      BY <1>2, <1>3, <1>5, <2>2
    <3>2. /\ flush[s].rec = entries[p] /\ flush[s].pc \notin {"check", "remove", "discard"}
          /\ Active(s) => flush[s].gen = 1
          /\ flush[s].pc \in {"spill", "replace"} => ~InAbnormalDir(recs[id].blob)
          /\ flush[s].pc = "replace" => disk[PromotedFile(s, flush[s].val)] # None
          /\ flush[s].pc = "log" => InAbnormalDir(recs[id].blob) /\ ~InAbnormalDir(flush[s].blob)
          /\ ~InAbnormalDir(recs[id].blob) /\ Active(s) =>
                 recs[id].state = "flushing" /\ \A u \in Tasks \ {s} : FlushOf(u, p) => ~Active(u)
      BY <1>1, <3>1 DEF Queued
    <3>3. CASE ~Active(s)
      BY <1>1, <3>1, <3>2, <3>3 DEF Active
    <3>4. CASE InAbnormalDir(recs[id].blob) /\ InAbnormalDir(new.blob) /\ Active(s)
      BY <1>1, <3>1, <3>2, <3>4 DEF Active
    <3>5. CASE new = recs[id] /\ it.pc = "idle" /\ disk' = disk /\ Active(s)
      <4>1. \A u \in Tasks \ {s} : FlushOf(u, p)' => u # t /\ FlushOf(u, p) /\ (Active(u)' <=> Active(u))
        BY <1>3, <1>4, <3>5
      <4> QED
        BY <1>1, <3>1, <3>2, <3>5, <4>1 DEF Active
    <3> QED
      BY <2>2, <3>1, <3>3, <3>4, <3>5
  <2> QED
    BY <2>1, <2>2
<1> QED
    BY <1>1, <1>2, <1>5 DEF Queued

\* What is known of a queued blob that a task is at.
LEMMA QueuedFacts ==
    ASSUME CacheInv, NEW r \in Requests, Queued(r), NEW t \in Tasks, FlushOf(t, Target[r])
    PROVE LET rec == recs[flush[t].rec] IN
          /\ rec.gen = 1 /\ Readable(rec.blob) /\ flush[t].rec = entries[Target[r]]
          /\ flush[t].pc \notin {"check", "remove", "discard"} /\ (Active(t) => flush[t].gen = 1)
          /\ flush[t].pc \in {"spill", "replace"} => ~InAbnormalDir(rec.blob)
          /\ flush[t].pc = "replace" => disk[PromotedFile(t, flush[t].val)] # None
          /\ flush[t].pc = "log" => InAbnormalDir(rec.blob) /\ ~InAbnormalDir(flush[t].blob)
          /\ ~InAbnormalDir(rec.blob) /\ Active(t) =>
                 rec.state = "flushing" /\ \A s \in Tasks \ {t} : FlushOf(s, Target[r]) => ~Active(s)
          /\ ~InAbnormalDir(rec.blob) /\ rec.state # "flushing" =>
                 \A s \in Tasks : FlushOf(s, Target[r]) => ~Active(s)
    BY DEF Queued

LEMMA SameRecord ==
    ASSUME CacheTypes, NEW id \in RecIds, recs' = recs PROVE recs' = [recs EXCEPT ![id] = recs[id]]
    BY DEF CacheTypes

\* Steps that change no record and no file: the task goes on, or leaves.
LEMMA TaskMoves ==
    ASSUME CacheInv, NEW t \in Tasks, flush[t].pc # "idle", UNCHANGED <<primary, disk, recs, entries, crashes>>,
           NEW it \in FlushState, flush' = [flush EXCEPT ![t] = it],
           it.pc = "idle" \/ it.rec = flush[t].rec, FlushNamed(it),
           \/ reqs' = reqs
           \/ t \in Requests /\ it.pc = "idle" /\ \E me \in ReqState :
                  me.pc \in {"direct", "failed"} /\ reqs' = [reqs EXCEPT ![t] = me],
           it.pc \notin {"check", "remove", "discard", "spill", "replace", "log", "picked"},
           it.pc # "idle" => Active(t) /\ it.gen = flush[t].gen
    PROVE CacheInv'
<1> DEFINE id == flush[t].rec
           p == RecPath(flush[t].rec)
<1>1. /\ CacheTypes /\ FilesNamed /\ id \in RecIds /\ recs[id] \in Record /\ recs[id].path = p
      /\ recs[id].blob \in BlobsOf(p) /\ (LocalDir => ~InMemory(recs[id].blob))
    BY FlushFacts
<1>2. recs' = [recs EXCEPT ![id] = recs[id]]
    BY <1>1, SameRecord
<1>3. disk' \in [FileNames -> FileContent \cup {None}] /\ FilesNamed'
    BY <1>1 DEF CacheTypes, FilesNamed
<1>4. ASSUME NEW r \in Requests, Target[r] = p, Queued(r) PROVE Queued(r)'
  <2>1. FlushOf(t, p)
    BY DEF FlushOf
  <2>2. PICK new \in Record : new = recs[id]
    BY <1>1
  <2>3. new.gen = 1 /\ Readable(new.blob)'
    BY <1>4, <2>1, <2>2, QueuedFacts DEF Readable
  <2>4. /\ it.pc \notin {"idle", "picked"} => it.gen = 1
        /\ it.pc \notin {"idle", "picked"} /\ ~InAbnormalDir(new.blob) =>
               new.state = "flushing" /\ \A s \in Tasks \ {t} : FlushOf(s, p) => ~Active(s)
    BY <1>4, <2>1, <2>2, QueuedFacts
  <2>5. \A s \in Tasks \ {t} : FlushOf(s, p) /\ Active(s) =>
               \/ InAbnormalDir(recs[id].blob) /\ InAbnormalDir(new.blob)
               \/ new = recs[id] /\ it.pc = "idle" /\ disk' = disk
    BY <2>2, <2>4
  <2> QED
    BY <1>2, <1>4, <2>1, <2>2, <2>3, <2>4, <2>5, QueuedStays
<1> QED
    BY <1>1, <1>2, <1>3, <1>4, FlushMoves

\* Leaving flush_entry.
LEMMA Leaves ==
    ASSUME NEW t \in Tasks, NEW ok \in BOOLEAN, Leave(t, ok)
    PROVE /\ flush' = [flush EXCEPT ![t] = IdleFlush] /\ FlushNamed(IdleFlush)
          /\ \/ reqs' = reqs
             \/ t \in Requests /\ \E me \in ReqState : me.pc \in {"direct", "failed"} /\ reqs' = [reqs EXCEPT ![t] = me]
<1>1. \A pc \in {"direct", "failed"} : [NewRequest EXCEPT !.pc = pc] \in ReqState /\ [NewRequest EXCEPT !.pc = pc].pc = pc
    BY NewReq DEF ReqPCs
<1> QED
    BY <1>1, Idle DEF Leave, FlushNamed

LEMMA ReadSteps == ASSUME CacheInv, NEW t \in Tasks, ReadBlob(t) \/ PrimaryFails(t) PROVE CacheInv'
<1>1. /\ flush[t].pc \in {"read", "write"} /\ flush[t] \in FlushState /\ FlushNamed(flush[t])
      /\ CacheTypes /\ FilesNamed /\ flush[t].rec \in RecIds /\ RecPath(flush[t].rec) \in Paths
      /\ flush[t].blob \in BlobsOf(RecPath(flush[t].rec))
  <2>1. flush[t].pc \in {"read", "write"}
    BY DEF ReadBlob, PrimaryFails, FlushAt
  <2> QED
    BY <2>1, FlushFacts DEF FlushNamed
<1>2. UNCHANGED <<primary, disk, recs, entries, crashes>>
    BY DEF ReadBlob, PrimaryFails
<1>3. CASE ReadBlob(t) /\ Readable(flush[t].blob)
  <2> DEFINE v == ContentOf(flush[t].blob)
             it == [flush[t] EXCEPT !.pc = "write", !.val = v]
  <2>1. v \in Requests /\ Target[v] = RecPath(flush[t].rec)
    BY <1>1, <1>3, Contents
  <2>2. flush' = [flush EXCEPT ![t] = it] /\ reqs' = reqs /\ flush[t].pc = "read"
    BY <1>1, <1>3 DEF ReadBlob, FlushAt, FlushState, CacheTypes
  <2>3. /\ it \in FlushState /\ it.pc = "write" /\ it.val = v /\ it.rec = flush[t].rec
        /\ it.gen = flush[t].gen /\ it.blob = flush[t].blob
    BY <1>1, <2>1 DEF FlushState
  <2> HIDE DEF it, v
  <2>4. FlushNamed(it) /\ Active(t)
    BY <1>1, <2>1, <2>2, <2>3, Apart DEF FlushNamed, Active
  <2> QED
    BY <1>1, <1>2, <2>2, <2>3, <2>4, TaskMoves
<1>4. CASE ReadBlob(t) /\ ~Readable(flush[t].blob)
  <2>1. Leave(t, FALSE)
    BY <1>4 DEF ReadBlob
  <2> QED
    BY <1>1, <1>2, <2>1, Leaves, Idle, TaskMoves
<1>5. CASE PrimaryFails(t)
  <2>1. PICK pc \in {"promote", "giveup"} : flush' = [flush EXCEPT ![t].pc = pc]
    BY <1>5 DEF PrimaryFails
  <2> DEFINE it == [flush[t] EXCEPT !.pc = pc]
  <2>2. flush' = [flush EXCEPT ![t] = it] /\ reqs' = reqs /\ flush[t].pc = "write"
    BY <1>1, <1>5, <2>1 DEF PrimaryFails, FlushAt, FlushState, CacheTypes
  <2>3. /\ it \in FlushState /\ it.pc = pc /\ it.val = flush[t].val /\ it.rec = flush[t].rec
        /\ it.gen = flush[t].gen /\ it.blob = flush[t].blob
    BY <1>1 DEF FlushState
  <2> HIDE DEF it
  <2>4. FlushNamed(it) /\ Active(t)
    BY <1>1, <2>2, <2>3 DEF FlushNamed, Active
  <2> QED
    BY <1>1, <1>2, <2>2, <2>3, <2>4, TaskMoves
<1> QED
    BY <1>3, <1>4, <1>5

LEMMA SameFiles ==
    ASSUME CacheTypes, FilesNamed, NEW p \in Paths, disk' = disk
    PROVE /\ disk' \in [FileNames -> FileContent \cup {None}] /\ FilesNamed'
          /\ \A x \in Paths \ {p} : \A f \in BlobsOf(x) \cap FileNames : disk'[f] = disk[f]
          /\ \A b \in Blobs : Readable(b) => Readable(b)'
    BY DEF CacheTypes, FilesNamed, Readable

LEMMA DeletedFile ==
    ASSUME CacheTypes, FilesNamed, NEW p \in Paths, NEW b \in BlobsOf(p), disk' = Delete(b)
    PROVE /\ disk' \in [FileNames -> FileContent \cup {None}] /\ FilesNamed'
          /\ \A x \in Paths \ {p} : \A f \in BlobsOf(x) \cap FileNames : disk'[f] = disk[f]
          /\ \A f \in Blobs : f # b /\ Readable(f) => Readable(f)'
<1>1. CASE InMemory(b)
    BY <1>1, SameFiles DEF Delete
<1>2. CASE ~InMemory(b)
  <2>1. b \in FileNames /\ disk' = [disk EXCEPT ![b] = None]
    BY <1>2, NamesOfPaths DEF Delete
  <2>2. /\ disk' \in [FileNames -> FileContent \cup {None}] /\ FilesNamed'
        /\ \A x \in Paths \ {p} : \A f \in BlobsOf(x) \cap FileNames : disk'[f] = disk[f]
        /\ \A f \in FileNames \ {b} : disk'[f] = disk[f]
    BY <2>1, OneFile
  <2>3. \A f \in Blobs : ~InMemory(f) => f \in FileNames
    BY NamesOfPaths
  <2> QED
    BY <2>2, <2>3 DEF Readable
<1> QED
    BY <1>1, <1>2

LEMMA BeginFlushStep == ASSUME CacheInv, NEW t \in Tasks, BeginFlush(t) PROVE CacheInv'
<1> DEFINE id == flush[t].rec
           p == RecPath(flush[t].rec)
<1>0. flush[t].pc = "picked"
    BY DEF BeginFlush, FlushAt
<1>1. /\ flush[t] \in FlushState /\ CacheTypes /\ FilesNamed /\ id \in RecIds /\ p \in Paths
      /\ recs[id] \in Record /\ recs[id].path = p /\ recs[id] # None /\ id # None
      /\ recs[id].blob \in BlobsOf(p) /\ recs[id].blob \in Blobs /\ (LocalDir => ~InMemory(recs[id].blob))
    BY <1>0, FlushFacts, NamesOfPaths, Apart
<1>2. UNCHANGED <<primary, disk, entries, crashes>>
    BY DEF BeginFlush
<1>3. CASE recs[id].state = "flushing"
  <2>1. Leave(t, TRUE) /\ recs' = recs
    BY <1>3 DEF BeginFlush
  <2> QED
    BY <1>0, <1>1, <1>2, <2>1, Leaves, Idle, TaskMoves
<1>4. CASE recs[id].state # "flushing"
  <2>1. PICK new \in Record, it \in FlushState :
          /\ recs' = [recs EXCEPT ![id] = new] /\ new.path = p /\ new.blob = recs[id].blob
          /\ new.gen = recs[id].gen /\ new.state = "flushing"
          /\ flush' = [flush EXCEPT ![t] = it] /\ it.pc = "read" /\ it.rec = id
          /\ it.blob = recs[id].blob /\ it.gen = recs[id].gen
    <3> DEFINE new == [recs[id] EXCEPT !.state = "flushing"]
               it == [flush[t] EXCEPT !.pc = "read", !.blob = recs[id].blob, !.gen = recs[id].gen]
    <3>1. recs' = [recs EXCEPT ![id] = new] /\ flush' = [flush EXCEPT ![t] = it]
      BY <1>1, <1>4 DEF BeginFlush, CacheTypes, Record
    <3>2. new \in Record /\ new.path = p /\ new.blob = recs[id].blob /\ new.gen = recs[id].gen /\ new.state = "flushing"
      BY <1>1 DEF Record
    <3>3. it \in FlushState /\ it.pc = "read" /\ it.rec = id /\ it.blob = recs[id].blob /\ it.gen = recs[id].gen
      BY <1>1 DEF FlushState, Record
    <3> HIDE DEF new, it
    <3> QED
      BY <3>1, <3>2, <3>3
  <2>2. reqs' = reqs /\ FlushNamed(it)
    BY <1>1, <1>4, <2>1 DEF BeginFlush, FlushNamed
  <2>3. ASSUME NEW r \in Requests, Target[r] = p, Queued(r) PROVE Queued(r)'
    <3>1. FlushOf(t, p)
      BY <1>0 DEF FlushOf
    <3>2. /\ new.gen = 1 /\ Readable(new.blob)'
          /\ ~InAbnormalDir(new.blob) => \A s \in Tasks : FlushOf(s, p) => ~Active(s)
      BY <1>1, <1>2, <1>4, <2>1, <2>3, <3>1, QueuedFacts, SameFiles
    <3>3. it.gen = 1
      BY <2>1, <3>2
    <3> QED
      BY <1>2, <2>1, <2>3, <3>1, <3>2, <3>3, QueuedStays
  <2> QED
    BY <1>0, <1>1, <1>2, <2>1, <2>2, <2>3, SameFiles, FlushMoves
<1> QED
    BY <1>3, <1>4

LEMMA WriteStep == ASSUME CacheInv, NEW t \in Tasks, WritePrimary(t) PROVE CacheInv'
<1> DEFINE id == flush[t].rec
           p == RecPath(flush[t].rec)
           v == flush[t].val
<1>0. flush[t].pc = "write"
    BY DEF WritePrimary, FlushAt
<1>1. /\ flush[t] \in FlushState /\ CacheTypes /\ FilesNamed /\ id \in RecIds /\ p \in Paths /\ FlushNamed(flush[t])
      /\ recs[id] \in Record /\ recs[id].path = p /\ recs[id] # None
      /\ recs[id].blob \in BlobsOf(p) /\ (LocalDir => ~InMemory(recs[id].blob))
    BY <1>0, FlushFacts
<1>2. v \in Requests /\ Target[v] = p
    BY <1>0, <1>1 DEF FlushNamed, FlushState
<1>3. UNCHANGED <<disk, recs, entries, reqs, crashes>> /\ primary' = [primary EXCEPT ![p] = v]
    BY <1>1 DEF WritePrimary
<1>4. PICK it \in FlushState : flush' = [flush EXCEPT ![t] = it] /\ it.rec = id /\ FlushNamed(it)
  <2> DEFINE it == [flush[t] EXCEPT !.pc = "check"]
  <2>1. flush' = [flush EXCEPT ![t] = it]
    BY <1>1 DEF WritePrimary, CacheTypes, FlushState
  <2>2. it \in FlushState /\ it.pc = "check" /\ it.rec = id /\ it.val = v /\ it.blob = flush[t].blob
    BY <1>1 DEF FlushState
  <2> HIDE DEF it
  <2> QED
    BY <1>0, <1>1, <2>1, <2>2 DEF FlushNamed
<1>5. \A r \in Requests : Alone(r) /\ Target[r] = p => primary'[Target[r]] = r
    BY <1>1, <1>2, <1>3 DEF Alone, CacheTypes
<1> QED
    BY <1>0, <1>1, <1>2, <1>3, <1>4, <1>5, SameRecord, SameFiles, FlushMoves

\* The primary store has the data: the blob, then the entry, are removed.
LEMMA RemoveSteps == ASSUME CacheInv, NEW t \in Tasks, CheckGeneration(t) \/ RemoveEntry(t) \/ Discard(t) PROVE CacheInv'
<1> DEFINE id == flush[t].rec
           p == RecPath(flush[t].rec)
<1>0. flush[t].pc \in {"check", "remove", "discard"}
    BY DEF CheckGeneration, RemoveEntry, Discard, FlushAt
<1>1. /\ flush[t] \in FlushState /\ CacheTypes /\ FilesNamed /\ id \in RecIds /\ p \in Paths /\ FlushNamed(flush[t])
      /\ recs[id] \in Record /\ recs[id].path = p /\ recs[id] # None
      /\ recs[id].blob \in BlobsOf(p) /\ (LocalDir => ~InMemory(recs[id].blob))
    BY <1>0, FlushFacts
<1>2. primary' = primary /\ crashes' = crashes
    BY DEF CheckGeneration, RemoveEntry, Discard
<1>3. \A r \in Requests : Target[r] = p => ~Queued(r)
  <2>1. FlushOf(t, p)
    BY <1>0 DEF FlushOf
  <2> QED
    BY <1>0, <2>1, QueuedFacts
<1>4. ASSUME NEW pc \in {"remove", "giveup"}
      PROVE LET it == [flush[t] EXCEPT !.pc = pc] IN
            it \in FlushState /\ it.rec = id /\ FlushNamed(it)
  <2> DEFINE it == [flush[t] EXCEPT !.pc = pc]
  <2>1. it \in FlushState /\ it.pc = pc /\ it.rec = id /\ it.val = flush[t].val /\ it.blob = flush[t].blob
    BY <1>1 DEF FlushState
  <2> HIDE DEF it
  <2>2. FlushNamed(it)
    BY <1>0, <1>1, <2>1 DEF FlushNamed
  <2> QED
    BY <2>1, <2>2 DEF it
<1>5. CASE CheckGeneration(t) /\ ~SameGeneration(id, flush[t].gen)
  <2>1. Leave(t, TRUE) /\ recs' = [recs EXCEPT ![id].state = "pending"] /\ disk' = disk /\ entries' = entries
    BY <1>5 DEF CheckGeneration
  <2>2. PICK new \in Record : recs' = [recs EXCEPT ![id] = new] /\ new.path = p /\ new.blob = recs[id].blob
    <3> DEFINE new == [recs[id] EXCEPT !.state = "pending"]
    <3>1. recs' = [recs EXCEPT ![id] = new]
      BY <1>1, <2>1 DEF CacheTypes, Record
    <3>2. new \in Record /\ new.path = p /\ new.blob = recs[id].blob
      BY <1>1 DEF Record
    <3> QED
      BY <3>1, <3>2
  <2> QED
    BY <1>0, <1>1, <1>2, <1>3, <2>1, <2>2, Leaves, Idle, SameFiles, FlushMoves
<1>6. CASE CheckGeneration(t) /\ SameGeneration(id, flush[t].gen)
  <2>1. /\ disk' = Delete(recs[id].blob) /\ recs' = recs /\ reqs' = reqs /\ entries' = entries
        /\ flush' = [flush EXCEPT ![t].pc = "remove"]
    BY <1>6 DEF CheckGeneration
  <2>2. flush' = [flush EXCEPT ![t] = [flush[t] EXCEPT !.pc = "remove"]]
    BY <1>1, <2>1 DEF CacheTypes, FlushState
  <2> QED
    BY <1>0, <1>1, <1>2, <1>3, <1>4, <2>1, <2>2, SameRecord, DeletedFile, FlushMoves
<1>7. CASE RemoveEntry(t)
  <2>1. /\ Leave(t, TRUE) /\ recs' = recs /\ disk' = disk /\ entries' = [entries EXCEPT ![p] = None]
    BY <1>1, <1>7 DEF RemoveEntry
  <2> QED
    BY <1>0, <1>1, <1>2, <1>3, <2>1, Leaves, Idle, SameRecord, SameFiles, FlushMoves
<1>8. CASE Discard(t)
  <2>1. /\ disk' = Delete(flush[t].blob) /\ recs' = recs /\ reqs' = reqs /\ entries' = entries
        /\ flush' = [flush EXCEPT ![t].pc = "giveup"] /\ flush[t].pc = "discard"
    BY <1>8 DEF Discard, FlushAt
  <2>2. flush' = [flush EXCEPT ![t] = [flush[t] EXCEPT !.pc = "giveup"]] /\ flush[t].blob \in BlobsOf(p)
    BY <1>1, <2>1 DEF CacheTypes, FlushState, FlushNamed
  <2> QED
    BY <1>0, <1>1, <1>2, <1>3, <1>4, <2>1, <2>2, SameRecord, DeletedFile, FlushMoves
<1> QED
    BY <1>5, <1>6, <1>7, <1>8

\* The primary store fails: the blob moves to the abnormal directory, or waits.
LEMMA PromoteSteps ==
    ASSUME CacheInv, NEW t \in Tasks, Promote(t) \/ Spill(t) \/ Replace(t) \/ LogAbnormal(t) \/ GiveUp(t) PROVE CacheInv'
<1> DEFINE id == flush[t].rec
           p == RecPath(flush[t].rec)
           v == flush[t].val
           file == PromotedFile(t, flush[t].val)
<1>0. flush[t].pc \in {"promote", "spill", "replace", "log", "giveup"} /\ Active(t)
    BY DEF Promote, Spill, Replace, LogAbnormal, GiveUp, FlushAt, Active
<1>1. /\ flush[t] \in FlushState /\ CacheTypes /\ FilesNamed /\ id \in RecIds /\ p \in Paths /\ FlushNamed(flush[t])
      /\ recs[id] \in Record /\ recs[id].path = p /\ recs[id] # None
      /\ recs[id].blob \in BlobsOf(p) /\ recs[id].blob \in Blobs /\ (LocalDir => ~InMemory(recs[id].blob))
    BY <1>0, FlushFacts, NamesOfPaths
<1>2. UNCHANGED <<primary, entries, crashes>>
    BY DEF Promote, Spill, Replace, LogAbnormal, GiveUp
<1>3. /\ v \in Requests /\ Target[v] = p /\ flush[t].blob \in BlobsOf(p)
      /\ file \in FileNames /\ file \in BlobsOf(p) /\ file \in Blobs /\ ~InMemory(file) /\ InAbnormalDir(file)
  <2>1. v \in Requests /\ Target[v] = p /\ flush[t].blob \in BlobsOf(p)
    BY <1>0, <1>1 DEF FlushNamed, FlushState
  <2> QED
    BY <1>1, <2>1, NamesOfPaths
<1>4. FlushOf(t, p)
    BY <1>0 DEF FlushOf
<1>5. ASSUME NEW it \in FlushState, it.pc \in {"spill", "replace", "discard", "log", "giveup"},
             it.rec = id, it.val = v, it.blob \in BlobsOf(p)
      PROVE FlushNamed(it)
    BY <1>1, <1>3, <1>5, Apart DEF FlushNamed
<1>6. CASE Promote(t)
  <2>1. PICK new \in Record, it \in FlushState :
          /\ recs' = [recs EXCEPT ![id] = new] /\ new.path = p /\ new.blob = recs[id].blob /\ new.gen = recs[id].gen
          /\ flush' = [flush EXCEPT ![t] = it] /\ it.rec = id /\ it.val = v /\ it.blob = flush[t].blob
          /\ \/ InAbnormalDir(recs[id].blob) /\ it.pc = "giveup" /\ it.gen = flush[t].gen
             \/ ~InAbnormalDir(recs[id].blob) /\ it.pc = "spill" /\ it.gen = recs[id].gen /\ new = recs[id]
    <3>1. CASE InAbnormalDir(recs[id].blob)
      <4> DEFINE new == [recs[id] EXCEPT !.state = "abnormal"]
                 it == [flush[t] EXCEPT !.pc = "giveup"]
      <4>1. recs' = [recs EXCEPT ![id] = new] /\ flush' = [flush EXCEPT ![t] = it]
        BY <1>1, <1>6, <3>1 DEF Promote, CacheTypes, Record, FlushState
      <4>2. new \in Record /\ new.path = p /\ new.blob = recs[id].blob /\ new.gen = recs[id].gen
        BY <1>1 DEF Record
      <4>3. it \in FlushState /\ it.rec = id /\ it.val = v /\ it.blob = flush[t].blob /\ it.pc = "giveup" /\ it.gen = flush[t].gen
        BY <1>1 DEF FlushState
      <4> HIDE DEF new, it
      <4> QED
        BY <3>1, <4>1, <4>2, <4>3
    <3>2. CASE ~InAbnormalDir(recs[id].blob)
      <4> DEFINE it == [flush[t] EXCEPT !.pc = "spill", !.gen = recs[id].gen, !.size = recs[id].size, !.prev = RecordBytes(id)]
      <4>1. recs' = [recs EXCEPT ![id] = recs[id]] /\ flush' = [flush EXCEPT ![t] = it]
        BY <1>1, <1>6, <3>2, SameRecord DEF Promote, CacheTypes, FlushState
      <4>2. RecordBytes(id) \in Nat
        BY <1>1 DEF RecordBytes, AccountedFor, Record
      <4>3. it \in FlushState /\ it.rec = id /\ it.val = v /\ it.blob = flush[t].blob /\ it.pc = "spill" /\ it.gen = recs[id].gen
        BY <1>1, <4>2 DEF FlushState, Record
      <4> HIDE DEF it
      <4> QED
        BY <1>1, <3>2, <4>1, <4>3
    <3> QED
      BY <3>1, <3>2
  <2>2. disk' = disk /\ reqs' = reqs /\ FlushNamed(it)
    BY <1>3, <1>5, <1>6, <2>1 DEF Promote
  <2>3. ASSUME NEW r \in Requests, Target[r] = p, Queued(r) PROVE Queued(r)'
    <3>1. /\ new.gen = 1 /\ Readable(new.blob)' /\ it.gen = 1
          /\ ~InAbnormalDir(recs[id].blob) => recs[id].state = "flushing" /\ \A s \in Tasks \ {t} : FlushOf(s, p) => ~Active(s)
      BY <1>0, <1>1, <1>4, <2>1, <2>2, <2>3, QueuedFacts, SameFiles
    <3> QED
      BY <1>2, <1>4, <2>1, <2>3, <3>1, QueuedStays
  <2> QED
    BY <1>0, <1>1, <1>2, <2>1, <2>2, <2>3, SameFiles, FlushMoves
<1>7. CASE Spill(t)
  <2>1. PICK it \in FlushState :
          /\ flush' = [flush EXCEPT ![t] = it] /\ it.rec = id /\ it.val = v /\ it.blob = flush[t].blob /\ it.gen = flush[t].gen
          /\ \/ it.pc = "replace" /\ disk' = [disk EXCEPT ![file] = [val |-> v, size |-> flush[t].size]]
             \/ it.pc = "giveup" /\ disk' = disk
    <3>1. PICK pc \in {"replace", "giveup"} :
            /\ flush' = [flush EXCEPT ![t].pc = pc]
            /\ \/ pc = "replace" /\ disk' = [disk EXCEPT ![file] = [val |-> v, size |-> flush[t].size]]
               \/ pc = "giveup" /\ disk' = disk
      BY <1>7 DEF Spill
    <3> DEFINE it == [flush[t] EXCEPT !.pc = pc]
    <3>2. flush' = [flush EXCEPT ![t] = it]
      BY <1>1, <3>1 DEF CacheTypes, FlushState
    <3>3. it \in FlushState /\ it.pc = pc /\ it.rec = id /\ it.val = v /\ it.blob = flush[t].blob /\ it.gen = flush[t].gen
      BY <1>1 DEF FlushState
    <3> HIDE DEF it
    <3> QED
      BY <3>1, <3>2, <3>3
  <2>2. recs' = [recs EXCEPT ![id] = recs[id]] /\ reqs' = reqs /\ FlushNamed(it) /\ flush[t].pc = "spill"
    BY <1>1, <1>3, <1>5, <1>7, <2>1, SameRecord DEF Spill, FlushAt
  <2>3. /\ disk' \in [FileNames -> FileContent \cup {None}] /\ FilesNamed'
        /\ \A x \in Paths \ {p} : \A f \in BlobsOf(x) \cap FileNames : disk'[f] = disk[f]
        /\ \A b \in Blobs : Readable(b) => Readable(b)'
        /\ it.pc = "replace" => disk'[file] # None
    <3>1. CASE disk' = disk /\ it.pc = "giveup"
      BY <1>1, <3>1, SameFiles
    <3>2. CASE disk' = [disk EXCEPT ![file] = [val |-> v, size |-> flush[t].size]]
      <4>1. PICK c \in FileContent : c = [val |-> v, size |-> flush[t].size] /\ c.val = v
        <5>1. flush[t].size \in Nat
          BY <1>1 DEF FlushState
        <5>2. [val |-> v, size |-> flush[t].size] \in FileContent
          BY <1>3, <5>1 DEF FileContent
        <5> QED
          BY <5>2
      <4>2. c # None
        BY NoneApart
      <4>3. /\ disk' \in [FileNames -> FileContent \cup {None}] /\ FilesNamed' /\ disk'[file] = c
            /\ \A x \in Paths \ {p} : \A f \in BlobsOf(x) \cap FileNames : disk'[f] = disk[f]
            /\ \A f \in FileNames \ {file} : disk'[f] = disk[f]
        BY <1>1, <1>3, <3>2, <4>1, OneFile
      <4>4. \A b \in Blobs : Readable(b) => Readable(b)'
        BY <4>2, <4>3, NamesOfPaths DEF Readable
      <4> QED
        BY <4>2, <4>3, <4>4
    <3> QED
      BY <2>1, <3>1, <3>2
  <2>4. ASSUME NEW r \in Requests, Target[r] = p, Queued(r) PROVE Queued(r)'
    <3>1. PICK new \in Record : new = recs[id]
      BY <1>1
    <3>2. /\ new.gen = 1 /\ Readable(new.blob)' /\ it.gen = 1 /\ ~InAbnormalDir(new.blob)
          /\ new.state = "flushing" /\ \A s \in Tasks \ {t} : FlushOf(s, p) => ~Active(s)
      BY <1>0, <1>1, <1>4, <2>1, <2>2, <2>3, <2>4, <3>1, QueuedFacts
    <3> QED
      BY <1>2, <1>4, <2>1, <2>2, <2>3, <2>4, <3>1, <3>2, QueuedStays
  <2> QED
    BY <1>0, <1>1, <1>2, <2>1, <2>2, <2>3, <2>4, FlushMoves
<1>8. CASE Replace(t)
  <2>1. PICK new \in Record, it \in FlushState :
          /\ recs' = [recs EXCEPT ![id] = new] /\ new.path = p /\ new.gen = recs[id].gen
          /\ flush' = [flush EXCEPT ![t] = it] /\ it.rec = id /\ it.val = v /\ it.gen = flush[t].gen
          /\ \/ new.blob = file /\ it.pc = "log" /\ it.blob = recs[id].blob
             \/ new = recs[id] /\ it.pc = "discard" /\ it.blob = file /\ recs[id].gen # flush[t].gen
    <3>1. CASE SameGeneration(id, flush[t].gen)
      <4> DEFINE new == [recs[id] EXCEPT !.blob = file, !.state = "abnormal"]
                 it == [flush[t] EXCEPT !.pc = "log", !.blob = recs[id].blob]
      <4>1. recs' = [recs EXCEPT ![id] = new] /\ flush' = [flush EXCEPT ![t] = it]
        BY <1>1, <1>8, <3>1 DEF Replace, CacheTypes, Record, FlushState
      <4>2. new \in Record /\ new.path = p /\ new.blob = file /\ new.gen = recs[id].gen
        BY <1>1, <1>3 DEF Record
      <4>3. it \in FlushState /\ it.rec = id /\ it.val = v /\ it.blob = recs[id].blob /\ it.pc = "log" /\ it.gen = flush[t].gen
        BY <1>1 DEF FlushState
      <4> HIDE DEF new, it
      <4> QED
        BY <4>1, <4>2, <4>3
    <3>2. CASE ~SameGeneration(id, flush[t].gen)
      <4> DEFINE it == [flush[t] EXCEPT !.pc = "discard", !.blob = file]
      <4>1. recs' = [recs EXCEPT ![id] = recs[id]] /\ flush' = [flush EXCEPT ![t] = it]
        BY <1>1, <1>8, <3>2, SameRecord DEF Replace, CacheTypes, FlushState
      <4>2. it \in FlushState /\ it.rec = id /\ it.val = v /\ it.blob = file /\ it.pc = "discard" /\ it.gen = flush[t].gen
        BY <1>1, <1>3 DEF FlushState
      <4> HIDE DEF it
      <4> QED
        BY <1>1, <3>2, <4>1, <4>2 DEF SameGeneration
    <3> QED
      BY <3>1, <3>2
  <2>2. disk' = disk /\ reqs' = reqs /\ FlushNamed(it) /\ flush[t].pc = "replace"
        /\ new.blob \in BlobsOf(p) /\ (LocalDir => ~InMemory(new.blob))
    BY <1>1, <1>3, <1>5, <1>8, <2>1 DEF Replace, FlushAt
  <2>3. ASSUME NEW r \in Requests, Target[r] = p, Queued(r) PROVE Queued(r)'
    <3>1. /\ new.gen = 1 /\ it.gen = 1 /\ disk[file] # None /\ ~InAbnormalDir(recs[id].blob)
          /\ \A s \in Tasks \ {t} : FlushOf(s, p) => ~Active(s)
      BY <1>0, <1>4, <2>1, <2>2, <2>3, QueuedFacts
    <3>2. new.blob = file /\ it.pc = "log" /\ it.blob = recs[id].blob
      BY <1>0, <1>4, <2>1, <2>3, <3>1, QueuedFacts
    <3>3. Readable(new.blob)'
      BY <2>2, <3>1, <3>2 DEF Readable
    <3> QED
      BY <1>2, <1>3, <1>4, <2>1, <2>3, <3>1, <3>2, <3>3, QueuedStays
  <2> QED
    BY <1>0, <1>1, <1>2, <2>1, <2>2, <2>3, SameFiles, FlushMoves
<1>9. CASE LogAbnormal(t) /\ recs[id].logged
  <2> DEFINE it == [flush[t] EXCEPT !.pc = "giveup"]
  <2>1. flush' = [flush EXCEPT ![t] = it] /\ reqs' = reqs /\ disk' = disk /\ recs' = recs
    BY <1>1, <1>9 DEF LogAbnormal, CacheTypes, FlushState
  <2>2. it \in FlushState /\ it.pc = "giveup" /\ it.rec = id /\ it.val = v /\ it.blob = flush[t].blob /\ it.gen = flush[t].gen
    BY <1>1 DEF FlushState
  <2> HIDE DEF it
  <2>3. FlushNamed(it)
    BY <1>3, <1>5, <2>2
  <2> QED
    BY <1>0, <1>2, <2>1, <2>2, <2>3, TaskMoves
<1>10. CASE (LogAbnormal(t) /\ ~recs[id].logged) \/ GiveUp(t)
  <2>1. PICK new \in Record :
          recs' = [recs EXCEPT ![id] = new] /\ new.path = p /\ new.gen = recs[id].gen /\ new.blob = recs[id].blob
    <3>1. CASE LogAbnormal(t) /\ ~recs[id].logged
      <4> DEFINE new == [recs[id] EXCEPT !.logged = TRUE, !.state = "abnormal"]
      <4>1. recs' = [recs EXCEPT ![id] = new]
        BY <1>1, <3>1 DEF LogAbnormal, CacheTypes, Record
      <4>2. new \in Record /\ new.path = p /\ new.gen = recs[id].gen /\ new.blob = recs[id].blob
        BY <1>1 DEF Record
      <4> QED
        BY <4>1, <4>2
    <3>2. CASE GiveUp(t)
      <4> DEFINE new == [recs[id] EXCEPT !.state = WaitingState(recs[id])]
      <4>1. recs' = [recs EXCEPT ![id] = new]
        BY <1>1, <3>2 DEF GiveUp, CacheTypes, Record
      <4>2. new \in Record /\ new.path = p /\ new.gen = recs[id].gen /\ new.blob = recs[id].blob
        BY <1>1 DEF Record, WaitingState
      <4> QED
        BY <4>1, <4>2
    <3> QED
      BY <1>10, <3>1, <3>2
  <2>2. /\ Leave(t, FALSE)
        /\ \/ disk' = disk /\ flush[t].pc = "giveup"
           \/ disk' = Delete(flush[t].blob) /\ flush[t].pc = "log"
    BY <1>10 DEF LogAbnormal, GiveUp, FlushAt
  <2>3. /\ disk' \in [FileNames -> FileContent \cup {None}] /\ FilesNamed'
        /\ \A x \in Paths \ {p} : \A f \in BlobsOf(x) \cap FileNames : disk'[f] = disk[f]
        /\ \A b \in Blobs : Readable(b) /\ (flush[t].pc = "log" => b # flush[t].blob) => Readable(b)'
    BY <1>1, <1>3, <2>2, SameFiles, DeletedFile
  <2>4. ASSUME NEW r \in Requests, Target[r] = p, Queued(r) PROVE Queued(r)'
    <3>1. /\ new.gen = 1 /\ Readable(new.blob)'
          /\ ~InAbnormalDir(recs[id].blob) => \A s \in Tasks \ {t} : FlushOf(s, p) => ~Active(s)
      <4>1. recs[id].gen = 1 /\ Readable(recs[id].blob) /\ (flush[t].pc = "log" => recs[id].blob # flush[t].blob)
        BY <1>4, <2>4, QueuedFacts
      <4>2. ~InAbnormalDir(recs[id].blob) => \A s \in Tasks \ {t} : FlushOf(s, p) => ~Active(s)
        BY <1>0, <1>4, <2>4, QueuedFacts
      <4> QED
        BY <1>1, <2>1, <2>3, <4>1, <4>2
    <3> QED
      BY <1>2, <1>4, <2>1, <2>2, <2>4, <3>1, Leaves, Idle, QueuedStays
  <2> QED
    BY <1>0, <1>1, <1>2, <2>1, <2>2, <2>3, <2>4, Leaves, Idle, FlushMoves
<1> QED
    BY <1>6, <1>7, <1>8, <1>9, <1>10

-----------------------------------------------------------------------------
(* Flushes begin; operations on the primary store; restarts                 *)

\* A task, or a request that forces a flush, picks the record of a path.
LEMMA PickSteps ==
    ASSUME CacheInv, NEW p \in Paths, NEW t \in Tasks, flush[t].pc = "idle", entries[p] # None,
           t \in Requests => At(t, "flush") /\ Target[t] = p,
           flush' = [flush EXCEPT ![t] = [IdleFlush EXCEPT !.pc = "picked", !.rec = entries[p]]],
           UNCHANGED <<primary, disk, recs, entries, reqs, crashes>>
    PROVE CacheInv'
<1>1. /\ CacheTypes /\ Named /\ entries[p] \in RecIds /\ recs[entries[p]] # None /\ RecPath(entries[p]) = p
    BY DEF CacheInv, CacheTypes, Named, EntriesNamed
<1>2. PICK it \in FlushState : flush' = [flush EXCEPT ![t] = it] /\ it.pc = "picked" /\ it.rec = entries[p]
  <2> DEFINE it == [IdleFlush EXCEPT !.pc = "picked", !.rec = entries[p]]
  <2>1. it \in FlushState /\ it.pc = "picked" /\ it.rec = entries[p]
    BY <1>1 DEF IdleFlush, FlushState
  <2>2. flush' = [flush EXCEPT ![t] = it]
    OBVIOUS
  <2> HIDE DEF it
  <2> QED
    BY <2>1, <2>2
<1>3. flush' \in [Tasks -> FlushState] /\ flush'[t] = it /\ \A s \in Tasks \ {t} : flush'[s] = flush[s]
    BY <1>1, <1>2, OneFlush
<1>4. CacheTypes'
    BY <1>1, <1>3 DEF CacheTypes
<1>5. Named'
  <2>1. FlushNamed(flush[t])' /\ (t \in Requests => Forced(t)')
    BY <1>1, <1>2, <1>3, Apart DEF FlushNamed, Forced, At
  <2>2. RecsStay /\ FilesNamed' /\ RecordsNamed' /\ EntriesNamed' /\ \A q \in Requests : Forced(q)'
    BY <1>1, <1>3, <2>1 DEF RecsStay, Named, FilesNamed, RecordsNamed, EntriesNamed, RequestsNamed, Forced, At, Tasks
  <2> QED
    BY <1>1, <1>3, <1>4, <2>1, <2>2, NamedSteps
<1>6. OnlyPath(p)
    BY <1>1, <1>2, <1>3 DEF OnlyPath, FlushOf
<1>7. ASSUME NEW r \in Requests, Alone(r), Target[r] = p PROVE Secured(r)'
  <2>1. Secured(r) /\ ~Untouched(r)
    BY <1>7 DEF CacheInv, AloneInv, Untouched
  <2>2. Queued(r) => Queued(r)'
    <3>1. \A s \in Tasks : (FlushOf(s, p)' /\ s # t => FlushOf(s, p)) /\ (Active(s)' <=> Active(s))
      BY <1>2, <1>3 DEF FlushOf, Active
    <3>2. ~Active(t)' /\ it.rec = entries[p] /\ it.pc = "picked"
      BY <1>2, <1>3 DEF Active
    <3> SUFFICES ASSUME Queued(r) PROVE Queued(r)'
      OBVIOUS
    <3>3. PICK rec \in Record : rec = recs[entries[p]]
      BY <1>1 DEF CacheTypes
    <3>4. rec = recs'[entries'[p]] /\ entries'[p] # None /\ Readable(rec.blob)' /\ rec.gen = 1
      BY <1>7, <3>3 DEF Queued, Readable
    <3>5. ASSUME NEW s \in Tasks, FlushOf(s, p)', s # t
          PROVE
            /\ flush'[s].rec = entries'[p]
            /\ flush'[s].pc \notin {"check", "remove", "discard"}
            /\ Active(s)' => flush'[s].gen = 1
            /\ flush'[s].pc \in {"spill", "replace"} => ~InAbnormalDir(rec.blob)
            /\ flush'[s].pc = "replace" => disk'[PromotedFile(s, flush'[s].val)] # None
            /\ flush'[s].pc = "log" => InAbnormalDir(rec.blob) /\ ~InAbnormalDir(flush'[s].blob)
            /\ ~InAbnormalDir(rec.blob) /\ Active(s)' =>
                   rec.state = "flushing" /\ \A u \in Tasks \ {s} : FlushOf(u, p)' => ~Active(u)'
      BY <1>3, <1>7, <3>1, <3>2, <3>3, <3>5 DEF Queued
    <3> QED
      <4>1. entries'[Target[r]] = entries[p] /\ recs'[entries'[Target[r]]] = rec
        BY <1>7, <3>4
      <4>2. flush'[t].rec = entries'[p] /\ flush'[t].pc = "picked"
        BY <1>3, <3>2
      <4> QED
        BY <1>7, <3>2, <3>4, <3>5, <4>1, <4>2 DEF Queued
  <2> QED
    BY <1>7, <2>1, <2>2 DEF Secured, Done, KeepsFiles
<1> QED
    BY <1>1, <1>4, <1>5, <1>6, <1>7, PathSteps

LEMMA DirectSteps ==
    ASSUME CacheInv, NEW r \in Requests, Direct(r) \/ (\E p \in Paths : PickDue(r, p)) PROVE CacheInv'
<1> DEFINE p == Target[r]
<1>1. /\ CacheTypes /\ Named /\ reqs[r] \in ReqState /\ p \in Paths /\ Forced(r)
      /\ Alone(r) => Secured(r)
    BY Paths1 DEF CacheInv, CacheTypes, Named, RequestsNamed, AloneInv
<1>0. ~\E x \in Paths : PickDue(r, x)
    BY CacheAssumption DEF PickDue
<1>2. CASE ForceFlush(r) /\ ~Pending(p)
  <2>1. reqs[r].pc = "flush" /\ flush[r].pc = "idle" /\ reqs' = [reqs EXCEPT ![r].pc = "direct"]
        /\ UNCHANGED <<primary, disk, recs, entries, flush, crashes>>
    BY <1>2 DEF ForceFlush, At, FlushAt, Go
  <2>2. PICK me \in ReqState : me.pc = "direct" /\ reqs' = [reqs EXCEPT ![r] = me]
    <3> DEFINE me == [reqs[r] EXCEPT !.pc = "direct"]
    <3>1. me \in ReqState /\ me.pc = "direct" /\ reqs' = [reqs EXCEPT ![r] = me]
      BY <1>1, <2>1 DEF ReqState, CacheTypes
    <3> QED
      BY <3>1
  <2>3. ReqNamed(r, me)
    BY <2>2 DEF ReqNamed
  <2> QED
    BY <2>1, <2>2, <2>3, ReqMoves
<1>3. CASE ForceFlush(r) /\ Pending(p)
  <2>1. /\ At(r, "flush") /\ flush[r].pc = "idle" /\ entries[p] # None /\ r \in Tasks
        /\ flush' = [flush EXCEPT ![r] = [IdleFlush EXCEPT !.pc = "picked", !.rec = entries[p]]]
        /\ UNCHANGED <<primary, disk, recs, entries, reqs, crashes>>
    BY <1>3 DEF ForceFlush, FlushAt, Pending, Tasks
  <2> QED
    BY <1>1, <2>1, PickSteps
<1>4. CASE DirectWrite(r) \/ DirectDelete(r)
  <2>1. /\ reqs[r].pc = "direct" /\ flush[r].pc = "idle" /\ UNCHANGED <<disk, recs, entries, flush, crashes>>
        /\ primary' = primary \/ (primary' = [primary EXCEPT ![p] = r] /\ Kind[r] = "write")
           \/ (primary' = [primary EXCEPT ![p] = None] /\ Kind[r] = "delete")
        /\ Kind[r] = "write" => primary' = [primary EXCEPT ![p] = r] \/ reqs' = [reqs EXCEPT ![r] = [NewRequest EXCEPT !.pc = "failed"]]
    BY <1>4 DEF DirectWrite, DirectDelete, At, FlushAt, Finish
  <2>2. PICK me \in ReqState : me.pc \in {"done", "failed"} /\ reqs' = [reqs EXCEPT ![r] = me]
            /\ (Kind[r] = "write" => primary' = [primary EXCEPT ![p] = r] \/ me.pc = "failed")
    <3>1. "done" \in ReqPCs /\ "failed" \in ReqPCs
      BY DEF ReqPCs
    <3> QED
      BY <1>4, <2>1, <3>1, NewReq DEF DirectWrite, DirectDelete, Finish
  <2>3. reqs' \in [Requests -> ReqState] /\ reqs'[r] = me /\ \A q \in Requests \ {r} : reqs'[q] = reqs[q]
    BY <1>1, <2>2, OneReq
  <2>4. CacheTypes' /\ \A x \in Paths \ {p} : primary'[x] = primary[x]
    BY <1>1, <2>1, <2>3 DEF CacheTypes
  <2>5. Named'
    <3>1. RecsStay /\ FilesNamed' /\ RecordsNamed' /\ EntriesNamed' /\ \A q \in Requests : Forced(q)'
      BY <1>1, <2>1, <2>3 DEF RecsStay, Named, FilesNamed, RecordsNamed, EntriesNamed, RequestsNamed, Forced, At
    <3>2. ReqNamed(r, reqs[r])'
      BY <2>2, <2>3 DEF ReqNamed
    <3> QED
      BY <1>1, <2>1, <2>3, <2>4, <3>1, <3>2, NamedSteps
  <2>6. OnlyPath(p)
    BY <2>1, <2>3, <2>4 DEF OnlyPath
  <2>7. ASSUME NEW q \in Requests, Alone(q), Target[q] = p PROVE Secured(q)'
    <3>1. q = r /\ Kind[r] = "write"
      BY <2>7 DEF Alone
    <3>2. primary'[p] = r \/ me.pc = "failed"
      BY <1>1, <2>2, <3>1 DEF CacheTypes
    <3> QED
      BY <2>2, <2>3, <3>1, <3>2 DEF Secured, Done
  <2> QED
    BY <1>1, <2>4, <2>5, <2>6, <2>7, PathSteps
<1> QED
    BY <1>0, <1>2, <1>3, <1>4 DEF Direct

\* A restart queues what it finds on the disk: a file of the path if there is one.
LEMMA RestartStep == ASSUME CacheInv, Restart PROVE CacheInv'
<1>1. CacheTypes /\ Named /\ FilesNamed
    BY DEF CacheInv, Named
<1>2. PICK chosen \in [Paths -> Loadable \cup {None}] :
         /\ \A p \in Paths : IF FilesOf(p) = {} THEN chosen[p] = None ELSE chosen[p] \in LastLoaded(p)
         /\ entries' = [p \in Paths |-> IF chosen[p] = None THEN None ELSE p]
         /\ recs' = [id \in RecIds |->
                IF id \in Paths /\ chosen[id] # None
                THEN [path |-> id, blob |-> chosen[id], size |-> disk[chosen[id]].size, gen |-> 1,
                      state |-> IF InAbnormalDir(chosen[id]) THEN "abnormal" ELSE "pending",
                      logged |-> InAbnormalDir(chosen[id])]
                ELSE None]
    BY DEF Restart
<1>3. /\ primary' = primary /\ disk' = disk /\ crashes' = crashes + 1
      /\ flush' = [t \in Tasks |-> IdleFlush]
      /\ reqs' = [r \in Requests |-> IF reqs[r].pc \in {"new", "done", "failed"} THEN reqs[r]
                                    ELSE [NewRequest EXCEPT !.pc = "failed"]]
    BY DEF Restart
<1>4. ASSUME NEW p \in Paths, chosen[p] # None
      PROVE chosen[p] \in FileNames /\ disk[chosen[p]] # None /\ chosen[p] \in BlobsOf(p) /\ ~InMemory(chosen[p])
            /\ chosen[p] \in Blobs
  <2>1. chosen[p] \in FilesOf(p)
    BY <1>2, <1>4 DEF LastLoaded
  <2>2. chosen[p] \in FileNames /\ disk[chosen[p]] # None /\ Target[disk[chosen[p]].val] = p
    BY <2>1 DEF FilesOf, Loadable, PathOf
  <2>3. chosen[p] \in BlobsOf(p)
    BY <1>1, <2>2 DEF FilesNamed
  <2>4. chosen[p] \in Blobs /\ ~InMemory(chosen[p])
    BY <2>2 DEF Blobs, FileNames, InMemory, BaseFile, StagedFile, PromotedFile
  <2> QED
    BY <2>2, <2>3, <2>4
<1>5. /\ \A p \in Paths : p \in RecIds /\ RecPath(p) = p /\ p # None
      /\ \A p \in Paths : chosen[p] = None => entries'[p] = None /\ recs'[p] = None
      /\ \A r \in Requests : recs'[r] = None
    BY <1>2, Apart DEF RecIds, RecPath
<1>6. ASSUME NEW p \in Paths, chosen[p] # None
      PROVE /\ entries'[p] = p /\ recs'[p] \in Record /\ recs'[p] # None /\ recs'[p].path = p
            /\ recs'[p].blob = chosen[p] /\ recs'[p].gen = 1
  <2> DEFINE new == [path |-> p, blob |-> chosen[p], size |-> disk[chosen[p]].size, gen |-> 1,
                     state |-> IF InAbnormalDir(chosen[p]) THEN "abnormal" ELSE "pending",
                     logged |-> InAbnormalDir(chosen[p])]
  <2>1. disk[chosen[p]].size \in Nat /\ InAbnormalDir(chosen[p]) \in BOOLEAN
    BY <1>1, <1>4, <1>6 DEF CacheTypes, FileContent, InAbnormalDir
  <2>2. new \in Record
    BY <1>4, <1>6, <2>1 DEF Record
  <2>3. entries'[p] = p /\ recs'[p] = new
    BY <1>2, <1>5, <1>6
  <2> QED
    BY <2>2, <2>3, NoneApart
<1>7. CacheTypes'
  <2>1. recs' \in [RecIds -> Record \cup {None}]
    BY <1>2, <1>5, <1>6 DEF RecIds
  <2>2. entries' \in [Paths -> RecIds \cup {None}]
    BY <1>2, <1>5
  <2>3. reqs' \in [Requests -> ReqState]
    BY <1>1, <1>3, NewReq DEF CacheTypes, ReqPCs
  <2> QED
    BY <1>1, <1>3, <2>1, <2>2, <2>3, Idle DEF CacheTypes
<1>8. Named'
  <2>1. RecordsNamed'
    <3> SUFFICES ASSUME NEW id \in RecIds, recs'[id] # None
                 PROVE recs'[id].path = RecPath(id) /\ recs'[id].blob \in BlobsOf(RecPath(id)) /\ ~InMemory(recs'[id].blob)
      BY DEF RecordsNamed
    <3>1. id \in Paths /\ chosen[id] # None
      BY <1>5 DEF RecIds
    <3> QED
      BY <1>4, <1>5, <1>6, <3>1
  <2>2. EntriesNamed'
    BY <1>5, <1>6 DEF EntriesNamed
  <2>3. FilesNamed'
    BY <1>1, <1>3 DEF FilesNamed
  <2>4. \A t \in Tasks : flush'[t] = IdleFlush
    BY <1>3
  <2>5. \A r \in Requests : reqs'[r].pc \in {"new", "done", "failed"}
    BY <1>3, NewReq DEF ReqPCs
  <2>6. RequestsNamed' /\ FlushesNamed'
    BY <2>4, <2>5, Idle DEF RequestsNamed, FlushesNamed, ReqNamed, FlushNamed, Forced, Tasks
  <2> QED
    BY <2>1, <2>2, <2>3, <2>6 DEF Named
<1>9. ASSUME NEW r \in Requests, Alone(r) PROVE Secured(r)'
  <2> DEFINE p == Target[r]
  <2>1. Secured(r) /\ p \in Paths
    BY <1>9, Paths1 DEF CacheInv, AloneInv
  <2>2. CASE reqs[r].pc = "new"
    <3>1. Untouched(r) /\ reqs'[r] = reqs[r]
      BY <1>3, <2>1, <2>2 DEF Secured
    <3>2. FilesOf(p) = {}
      BY <2>2, <3>1 DEF Untouched, At, FilesOf, Loadable, PathOf
    <3>3. chosen[p] = None
      BY <1>2, <2>1, <3>2
    <3>4. \A f \in FileNames : disk'[f] # None => Target[disk'[f].val] # p
      BY <1>3, <2>2, <3>1 DEF Untouched, At
    <3> QED
      BY <1>5, <2>1, <2>2, <3>1, <3>3, <3>4 DEF Secured, Untouched, At, Done
  <2>3. CASE reqs[r].pc = "done"
    <3>1. reqs'[r] = reqs[r] /\ Done(r)
      BY <1>3, <2>3 DEF Done
    <3>2. ASSUME LocalDir, Queued(r) PROVE Queued(r)'
      <4>1. /\ entries[p] \in RecIds /\ recs[entries[p]] # None /\ RecPath(entries[p]) = p
            /\ Readable(recs[entries[p]].blob)
        BY <1>1, <2>1, <3>2 DEF Queued, CacheTypes, Named, EntriesNamed
      <4> DEFINE b == recs[entries[p]].blob
      <4>2. b \in BlobsOf(p) /\ ~InMemory(b) /\ b \in Blobs
        BY <1>1, <2>1, <3>2, <4>1, NamesOfPaths DEF Named, RecordsNamed
      <4>3. b \in FileNames /\ disk[b] # None /\ Target[disk[b].val] = p
        BY <1>1, <2>1, <4>1, <4>2, NamesOfPaths, Contents DEF Readable, ContentOf
      <4>4. chosen[p] # None
        <5>1. b \in FilesOf(p)
          BY <3>2, <4>3 DEF FilesOf, Loadable, PathOf
        <5>2. chosen[p] \in LastLoaded(p)
          BY <1>2, <2>1, <5>1
        <5>3. chosen[p] \in FileNames
          BY <5>2 DEF LastLoaded, FilesOf, Loadable
        <5> QED
          BY <5>3, NoneApart DEF Blobs
      <4>5. entries'[p] = p /\ recs'[p].blob = chosen[p] /\ recs'[p].gen = 1 /\ p # None
        BY <1>5, <1>6, <2>1, <4>4
      <4>6. Readable(chosen[p])'
        BY <1>3, <1>4, <2>1, <4>4 DEF Readable
      <4>7. \A t \in Tasks : ~FlushOf(t, p)'
        BY <1>3, Idle DEF FlushOf
      <4> QED
        BY <4>5, <4>6, <4>7 DEF Queued
    <3>3. KeepsFiles' => LocalDir
      BY <1>1, <1>3 DEF KeepsFiles, CacheTypes
    <3> QED
      BY <1>3, <2>1, <2>3, <3>1, <3>2, <3>3 DEF Secured, Done, KeepsFiles
  <2>4. CASE reqs[r].pc \notin {"new", "done"}
    <3>1. reqs'[r].pc = "failed"
      BY <1>3, <2>4, NewReq DEF ReqPCs
    <3> QED
      BY <3>1 DEF Secured, Done
  <2> QED
    BY <2>2, <2>3, <2>4
<1> QED
    BY <1>7, <1>8, <1>9 DEF CacheInv, AloneInv, Alone

-----------------------------------------------------------------------------
(* The theorem                                                              *)

LEMMA CacheInit == Init => CacheInv
<1> SUFFICES ASSUME Init PROVE CacheInv
    OBVIOUS
<1>1. CacheTypes
    BY NewReq, Idle DEF Init, CacheTypes
<1>2. Named
    BY NewReq, Idle DEF Init, Named, FilesNamed, RecordsNamed, EntriesNamed, RequestsNamed, FlushesNamed,
                        ReqNamed, FlushNamed, Forced, NewRequest, Tasks
<1>3. AloneInv
    BY Paths1 DEF Init, AloneInv, Secured, Untouched, Done, At, NewRequest, RecIds
<1> QED
    BY <1>1, <1>2, <1>3 DEF CacheInv

LEMMA CacheInductive == CacheInv /\ [Next]_vars => CacheInv'
<1> SUFFICES ASSUME CacheInv, [Next]_vars PROVE CacheInv'
    OBVIOUS
<1>1. CASE UNCHANGED vars
    BY <1>1 DEF vars, CacheInv, CacheTypes, Named, FilesNamed, RecordsNamed, EntriesNamed, RequestsNamed, FlushesNamed,
                ReqNamed, FlushNamed, Forced, AloneInv, Alone, Secured, Untouched, Queued, Done, At, Readable,
                FlushOf, Active, KeepsFiles
<1>2. ASSUME NEW r \in Requests, Enqueue(r) PROVE CacheInv'
    BY <1>2, AdmitSteps, FileSteps, InsertStep, UpdateSteps DEF Enqueue
<1>3. ASSUME NEW r \in Requests, Direct(r) PROVE CacheInv'
    BY <1>3, DirectSteps
<1>4. ASSUME NEW t \in Flushers, NEW p \in Paths, PickDue(t, p) PROVE CacheInv'
  <2>1. t \in Tasks /\ t \notin Requests
    BY CacheAssumption DEF Tasks
  <2> QED
    BY <1>4, <2>1, PickSteps DEF PickDue, FlushAt
<1>5. ASSUME NEW t \in Tasks, FlushSteps(t) PROVE CacheInv'
    BY <1>5, BeginFlushStep, ReadSteps, WriteStep, RemoveSteps, PromoteSteps DEF FlushSteps
<1> QED
    BY <1>1, <1>2, <1>3, <1>4, <1>5, RestartStep DEF Next

\* An acknowledged write of a path that no other request names can be read from then
\* on (enqueue answers before the primary store has it): through failed flushes, the
\* move to the abnormal directory (promote_to_abnormal) and, when the blobs are files
\* (local_dir), every restart.
THEOREM AcknowledgedWritesStay == Spec => [](KeepsFiles => AcknowledgedIsVisible)
<1>1. CacheInv => (KeepsFiles => AcknowledgedIsVisible)
  <2> SUFFICES ASSUME CacheInv, KeepsFiles, NEW r \in Requests, AcknowledgedAlone(r) PROVE Visible(Target[r]) = r
    BY DEF AcknowledgedIsVisible
  <2> DEFINE p == Target[r]
  <2>1. /\ CacheTypes /\ Named /\ FilesNamed /\ Alone(r) /\ p \in Paths
        /\ primary[p] = r \/ Queued(r)
    BY Paths1 DEF CacheInv, Named, AloneInv, Secured, AcknowledgedAlone, Alone
  <2>2. ASSUME entries[p] # None, Readable(recs[entries[p]].blob) PROVE ContentOf(recs[entries[p]].blob) = r
    <3>1. recs[entries[p]].blob \in BlobsOf(p)
      BY <2>1, <2>2 DEF Named, EntriesNamed, RecordsNamed, CacheTypes
    <3>2. ContentOf(recs[entries[p]].blob) \in Requests /\ Target[ContentOf(recs[entries[p]].blob)] = p
      BY <2>1, <2>2, <3>1, Contents
    <3> QED
      BY <2>1, <3>2 DEF Alone
  <2> QED
    BY <2>1, <2>2 DEF Visible, Queued
<1> QED
    BY <1>1, CacheInit, CacheInductive, PTL DEF Spec

-----------------------------------------------------------------------------
(* The accounting has its type                                              *)

Accounted == accounted \in 0..(Word - 1) /\ crashes \in 0..MaxCrashes

LEMMA ImagesAreFinite ==
    ASSUME NEW S, IsFiniteSet(S), NEW f, f = [x \in S |-> f[x]], \A x, y \in S : f[x] = f[y] => x = y
    PROVE IsFiniteSet({f[x] : x \in S})
<1>1. f \in Bijection(S, {f[x] : x \in S})
    BY DEF Bijection, Injection, Surjection, IsInjective
<1> QED
    BY <1>1, FS_Bijection DEF ExistsBijection

LEMMA FilesAreFinite == IsFiniteSet(FileNames) /\ IsFiniteSet(Loadable)
<1>0. IsFiniteSet(Paths) /\ IsFiniteSet(Requests)
    BY CacheAssumption
<1>1. IsFiniteSet(Tasks) /\ IsFiniteSet(Tasks \X Requests)
    BY CacheAssumption, FS_Union, FS_Product DEF Tasks
<1> DEFINE Bases == {BaseFile(p) : p \in Paths}
           Staged(d) == {StagedFile(d, r) : r \in Requests}
           Promoted == {PromotedFile(z[1], z[2]) : z \in Tasks \X Requests}
<1>2. IsFiniteSet(Bases)
  <2> DEFINE f == [p \in Paths |-> BaseFile(p)]
  <2>1. Bases = {f[p] : p \in Paths} /\ f = [p \in Paths |-> f[p]] /\ \A p, q \in Paths : f[p] = f[q] => p = q
      BY DEF BaseFile
  <2> HIDE DEF f
  <2> QED
      BY <1>0, <2>1, ImagesAreFinite
<1>3. ASSUME NEW d PROVE IsFiniteSet(Staged(d))
  <2> DEFINE f == [r \in Requests |-> StagedFile(d, r)]
  <2>1. /\ Staged(d) = {f[r] : r \in Requests} /\ f = [r \in Requests |-> f[r]]
        /\ \A r, q \in Requests : f[r] = f[q] => r = q
      BY DEF StagedFile
  <2> HIDE DEF f
  <2> QED
      BY <1>0, <2>1, ImagesAreFinite
<1>4. IsFiniteSet(Promoted)
  <2> DEFINE f == [z \in Tasks \X Requests |-> PromotedFile(z[1], z[2])]
  <2>1. /\ Promoted = {f[z] : z \in Tasks \X Requests} /\ f = [z \in Tasks \X Requests |-> f[z]]
        /\ \A z, w \in Tasks \X Requests : f[z] = f[w] => z = w
      BY DEF PromotedFile
  <2> HIDE DEF f
  <2> QED
      BY <1>1, <2>1, ImagesAreFinite
<1>5. FileNames \subseteq Bases \cup (Staged("queue") \cup (Staged("abnormal") \cup Promoted))
  <2>1. \A t \in Tasks, r \in Requests : <<t, r>> \in Tasks \X Requests /\ <<t, r>>[1] = t /\ <<t, r>>[2] = r
      OBVIOUS
  <2>2. \A t \in Tasks, r \in Requests : PromotedFile(t, r) \in Promoted
      BY <2>1
  <2> HIDE DEF Promoted
  <2> QED
      BY <2>2 DEF FileNames
<1>6. IsFiniteSet(FileNames)
  <2> HIDE DEF Bases, Staged, Promoted
  <2>1. IsFiniteSet(Staged("abnormal") \cup Promoted)
      BY <1>3, <1>4, FS_Union
  <2>2. IsFiniteSet(Staged("queue") \cup (Staged("abnormal") \cup Promoted))
      BY <1>3, <2>1, FS_Union
  <2>3. IsFiniteSet(Bases \cup (Staged("queue") \cup (Staged("abnormal") \cup Promoted)))
      BY <1>2, <2>2, FS_Union
  <2> QED
      BY <1>5, <2>3, FS_Subset
<1>7. Loadable \subseteq FileNames
    BY DEF Loadable
<1> QED
    BY <1>6, <1>7, FS_Subset

\* Whatever is taken in or given back, the result is in the word.
LEMMA ExchangedFits == ASSUME accounted \in Int, NEW new \in Int, NEW old \in Int PROVE Exchanged(new, old) \in 0..(Word - 1)
    BY CacheAssumption DEF Exchanged

LEMMA AccountedIsNumber == \A b, n : n \in Nat => AccountedFor(b, n) \in Nat /\ AccountedFor(b, n) <= n
    BY DEF AccountedFor

LEMMA RecordBytesAre == ASSUME CacheInv, NEW id \in RecIds, recs[id] # None PROVE RecordBytes(id) \in Nat /\ recs[id] \in Record
<1>1. recs[id] \in Record
    BY DEF CacheInv, CacheTypes
<1>2. recs[id].size \in Nat
    BY <1>1 DEF Record
<1> QED
    BY <1>1, <1>2, AccountedIsNumber DEF RecordBytes

LEMMA FileBytesAre == ASSUME CacheInv PROVE \A f \in Loadable : f \in FileNames /\ FileBytes[f] \in Nat
<1> SUFFICES ASSUME NEW f \in Loadable PROVE f \in FileNames /\ FileBytes[f] \in Nat
    OBVIOUS
<1>1. f \in FileNames /\ disk[f] \in FileContent
    BY DEF Loadable, CacheInv, CacheTypes
<1>2. disk[f].size \in Nat
    BY <1>1 DEF FileContent
<1> QED
    BY <1>1, <1>2, AccountedIsNumber DEF FileBytes

LEMMA LoadedIsSum == MapThenSumSet(LAMBDA f : FileBytes[f], Loadable) = SumOf(FileBytes, Loadable)
    BY DEF SumOf, MapThenSumSet, MapThenFoldSet

LEMMA AccountedKeeps == ASSUME CacheInv, Accounted, [Next]_vars PROVE Accounted'
<1>1. accounted \in Int /\ crashes \in 0..MaxCrashes
    BY DEF Accounted
<1>2. ASSUME NEW r \in Requests, Insert(r) PROVE Accounted'
  <2>1. AccountedFor(reqs[r].blob, Size[r]) \in Int
      BY CacheAssumption, AccountedIsNumber
  <2> QED
      BY <1>1, <1>2, <2>1, ExchangedFits DEF Insert, Accounted
<1>3. ASSUME NEW r \in Requests, SwapBlob(r) PROVE Accounted'
  <2>1. reqs[r] \in ReqState /\ reqs[r].pc = "swap"
      BY <1>3 DEF SwapBlob, At, CacheInv, CacheTypes
  <2>2. reqs[r].rec \in RecIds /\ recs[reqs[r].rec] # None /\ reqs[r].prev \in Int
      BY <2>1 DEF CacheInv, Named, RequestsNamed, ReqNamed, ReqState
  <2>3. recs[reqs[r].rec].size \in Nat
      BY <2>2, RecordBytesAre DEF Record
  <2>4. AccountedFor(reqs[r].blob, recs[reqs[r].rec].size) \in Int
      BY <2>3, AccountedIsNumber
  <2>5. accounted' \in {accounted, Exchanged(AccountedFor(reqs[r].blob, recs[reqs[r].rec].size), reqs[r].prev)}
      BY <1>3 DEF SwapBlob
  <2> QED
      BY <1>1, <1>3, <2>2, <2>4, <2>5, ExchangedFits DEF SwapBlob, Accounted
<1>4. ASSUME NEW t \in Tasks, CheckGeneration(t) \/ Replace(t) PROVE Accounted'
  <2>1. flush[t] \in FlushState /\ flush[t].pc \in {"check", "replace"}
      BY <1>4 DEF CheckGeneration, Replace, FlushAt, CacheInv, CacheTypes
  <2>2. flush[t].rec \in RecIds /\ recs[flush[t].rec] # None /\ flush[t].prev \in Int
      BY <2>1 DEF CacheInv, Named, FlushesNamed, FlushNamed, FlushState
  <2>3. RecordBytes(flush[t].rec) \in Int /\ recs[flush[t].rec].size \in Nat
      BY <2>2, RecordBytesAre DEF Record
  <2>4. AccountedFor(PromotedFile(t, flush[t].val), recs[flush[t].rec].size) \in Int
      BY <2>3, AccountedIsNumber
  <2>5. CASE CheckGeneration(t)
    <3>1. Exchanged(0, RecordBytes(flush[t].rec)) \in 0..(Word - 1)
        BY <1>1, <2>3, ExchangedFits
    <3>2. accounted' \in {accounted, Exchanged(0, RecordBytes(flush[t].rec))} /\ UNCHANGED crashes
        BY <2>5 DEF CheckGeneration
    <3> QED
        BY <3>1, <3>2 DEF Accounted
  <2>6. CASE Replace(t)
      BY <1>1, <2>2, <2>4, <2>6, ExchangedFits DEF Replace, Accounted
  <2> QED
      BY <1>4, <2>5, <2>6
<1>5. CASE Restart
  <2>1. SumOf(FileBytes, Loadable) \in Int
      BY FilesAreFinite, FileBytesAre, SumsAreIntegers
  <2>2. accounted' = SumOf(FileBytes, Loadable) % Word /\ crashes < MaxCrashes /\ crashes' = crashes + 1
      BY <1>5, LoadedIsSum DEF Restart
  <2>3. accounted' \in 0..(Word - 1)
      BY <2>1, <2>2, CacheAssumption
  <2> QED
      BY <1>1, <2>2, <2>3, CacheAssumption DEF Accounted
<1>6. ASSUME NEW r \in Requests, Enqueue(r) \/ Direct(r), ~Insert(r), ~SwapBlob(r) PROVE UNCHANGED <<accounted, crashes>>
    BY <1>6 DEF Enqueue, Direct, Admit, Lookup, Store, BeginUpdate, Stage, CleanUp, StoreFails, ForceFlush, DirectWrite,
                DirectDelete
<1>7. ASSUME NEW t \in Tasks, FlushSteps(t), ~CheckGeneration(t), ~Replace(t) PROVE UNCHANGED <<accounted, crashes>>
    BY <1>7 DEF FlushSteps, BeginFlush, ReadBlob, WritePrimary, PrimaryFails, RemoveEntry, Promote, Spill, Discard,
                LogAbnormal, GiveUp
<1>8. ASSUME NEW t \in Flushers, NEW p \in Paths, PickDue(t, p) PROVE UNCHANGED <<accounted, crashes>>
    BY <1>8 DEF PickDue
<1>9. CASE UNCHANGED <<accounted, crashes>>
    BY <1>9 DEF Accounted
<1> QED
    BY <1>2, <1>3, <1>4, <1>5, <1>6, <1>7, <1>8, <1>9 DEF Next, vars

\* Every variable of the write cache has its type, and accounted_bytes stays within its word.
THEOREM CacheTypesHold == Spec => []TypeOK
<1>1. Init => Accounted
    BY CacheAssumption DEF Init, Accounted
<1>2. CacheInv /\ Accounted => TypeOK
    BY DEF CacheInv, CacheTypes, Accounted, TypeOK
<1> QED
    BY <1>1, <1>2, CacheInit, CacheInductive, AccountedKeeps, PTL DEF Spec

-----------------------------------------------------------------------------
(* The accounting is exact                                                  *)

\* Each request writes a path of its own, and one flusher works.
AllAlone == \A r \in Requests : Alone(r)
OneFlusher == \A s, t \in Flushers : s = t
\* What is counted twice after a restart is in files.
Spare(m) == SumOf([f \in FileNames |-> m], FileNames)
\* The word takes all there can be: no write is larger than m.
WordSuffices(m) == (\A r \in Requests : Size[r] <= m) /\ SumOf([p \in Paths |-> m], Paths) + Spare(m) < Word

\* What is being flushed is the record in the map; what is to be given back is what was taken.
CurrentFlush ==
    \A t \in Tasks :
        /\ flush[t].pc # "idle" => entries[RecPath(flush[t].rec)] = flush[t].rec
        /\ flush[t].pc \in {"spill", "replace"} => flush[t].prev = RecordBytes(flush[t].rec)
SizesFit(m) ==
    /\ \A id \in RecIds : recs[id] # None => recs[id].size <= m
    /\ \A f \in FileNames : disk[f] # None => disk[f].size <= m
    /\ \A t \in Tasks : flush[t].pc = "spill" => flush[t].size <= m
Held == SumOf(HeldBytes, Paths)
SumFits(m) == /\ Held <= accounted /\ accounted <= Held + Spare(m)
              /\ crashes = 0 => accounted = Held
ExactInv(m) == CurrentFlush /\ SizesFit(m) /\ SumFits(m)

LEMMA HeldIsSum == MapThenSumSet(LAMBDA p : HeldBytes[p], Paths) = Held
    BY DEF Held, SumOf, MapThenSumSet, MapThenFoldSet

LEMMA NoWrap ==
    ASSUME accounted \in Int, NEW new \in Int, NEW old \in Int, 0 <= accounted + new - old, accounted + new - old < Word
    PROVE Exchanged(new, old) = accounted + new - old
    BY CacheAssumption DEF Exchanged

\* Before a request ends there is nothing of its path.
LEMMA NothingOf ==
    ASSUME CacheInv, AllAlone, NEW r \in Requests, reqs[r].pc \notin {"done", "failed"}
    PROVE /\ entries[Target[r]] = None /\ reqs[r].pc \notin {"update", "stage", "swap", "cleanup"}
          /\ \A id \in RecIds : recs[id] # None => RecPath(id) # Target[r]
          /\ \A t \in Tasks : flush[t].pc # "idle" => RecPath(flush[t].rec) # Target[r]
<1>1. Untouched(r)
    BY DEF CacheInv, AloneInv, AllAlone, Secured
<1>2. ASSUME NEW id \in RecIds, recs[id] # None PROVE RecPath(id) # Target[r]
  <2>1. CASE id \in Paths
      BY <1>1, <1>2, <2>1 DEF RecPath, Untouched
  <2>2. CASE id \notin Paths
    <3>1. id \in Requests /\ RecPath(id) = Target[id]
        BY <2>2 DEF RecIds, RecPath
    <3>2. id # r
        BY <1>1, <1>2 DEF Untouched
    <3> QED
        BY <3>1, <3>2 DEF AllAlone, Alone
  <2> QED
      BY <2>1, <2>2
<1>3. \A t \in Tasks : flush[t].pc # "idle" => flush[t].rec \in RecIds /\ recs[flush[t].rec] # None
    BY DEF CacheInv, CacheTypes, Named, FlushesNamed, FlushNamed, FlushState
<1> QED
    BY <1>1, <1>2, <1>3 DEF Untouched

\* No request updates a record, and none has to flush one.
LEMMA RequestsDoNotFlush ==
    ASSUME CacheInv, AllAlone, NEW r \in Requests
    PROVE flush[r].pc = "idle" /\ reqs[r].pc \notin {"update", "stage", "swap", "cleanup"}
<1>1. CASE reqs[r].pc \in {"done", "failed"}
    BY <1>1 DEF CacheInv, Named, RequestsNamed, Forced, At
<1>2. CASE reqs[r].pc \notin {"done", "failed"}
    BY <1>2, NothingOf DEF CacheInv, Named, RequestsNamed, Forced, Tasks
<1> QED
    BY <1>1, <1>2

\* A flush is the only one.
LEMMA AloneFlushing ==
    ASSUME CacheInv, AllAlone, OneFlusher, NEW t \in Tasks, flush[t].pc # "idle" \/ t \in Flushers
    PROVE \A s \in Tasks \ {t} : flush[s].pc = "idle"
<1>1. \A s \in Requests : flush[s].pc = "idle"
    BY RequestsDoNotFlush
<1>2. t \notin Requests
    BY <1>1, CacheAssumption
<1> QED
    BY <1>1, <1>2 DEF Tasks, OneFlusher

\* What the task flushes.
LEMMA FlushedRecord ==
    ASSUME CacheInv, CurrentFlush, NEW t \in Tasks, flush[t].pc # "idle"
    PROVE LET id == flush[t].rec IN
          /\ id \in RecIds /\ recs[id] # None /\ recs[id] \in Record /\ recs[id].path = RecPath(id)
          /\ RecPath(id) \in Paths /\ entries[RecPath(id)] = id /\ id # None
          /\ \A p \in Paths : entries[p] = id <=> p = RecPath(id)
<1>1. flush[t].rec \in RecIds /\ recs[flush[t].rec] # None /\ flush[t].rec # None
    BY DEF CacheInv, CacheTypes, Named, FlushesNamed, FlushNamed, FlushState
<1>2. recs[flush[t].rec] \in Record /\ recs[flush[t].rec].path = RecPath(flush[t].rec)
    BY <1>1 DEF CacheInv, CacheTypes, Named, RecordsNamed
<1>3. RecPath(flush[t].rec) \in Paths
    BY <1>2 DEF Record
<1>4. \A p \in Paths : entries[p] = flush[t].rec => p = RecPath(flush[t].rec)
    BY <1>1 DEF CacheInv, Named, EntriesNamed
<1> QED
    BY <1>1, <1>2, <1>3, <1>4 DEF CurrentFlush

\* What is held of a path is a number, and no more than a write can be.
LEMMA BytesOfPaths ==
    ASSUME CacheInv, NEW m \in Nat, SizesFit(m)
    PROVE \A p \in Paths : BytesOf(p) \in Nat /\ BytesOf(p) <= m
<1> SUFFICES ASSUME NEW p \in Paths, entries[p] # None PROVE RecordBytes(entries[p]) \in Nat /\ RecordBytes(entries[p]) <= m
    BY DEF BytesOf
<1>1. entries[p] \in RecIds /\ recs[entries[p]] # None
    BY DEF CacheInv, CacheTypes, Named, EntriesNamed
<1>2. recs[entries[p]].size \in Nat /\ recs[entries[p]].size <= m
    BY <1>1, RecordBytesAre DEF Record, SizesFit
<1> QED
    BY <1>2, AccountedIsNumber DEF RecordBytes

LEMMA SpareIs == ASSUME NEW m \in Nat PROVE Spare(m) \in Nat /\ SumOf([p \in Paths |-> m], Paths) \in Nat
<1>1. IsFiniteSet(Paths) /\ IsFiniteSet(FileNames)
    BY CacheAssumption, FilesAreFinite
<1>2. PICK g, h : g = [p \in Paths |-> m] /\ h = [f \in FileNames |-> m]
    OBVIOUS
<1>3. (\A p \in Paths : g[p] \in Nat) /\ \A f \in FileNames : h[f] \in Nat
    BY <1>2
<1>4. SumOf(g, Paths) \in Nat /\ SumOf(h, FileNames) \in Nat
    BY <1>1, <1>3, SumsOfParts
<1> QED
    BY <1>2, <1>4 DEF Spare

\* The bytes of one path change, and what is accounted with them.
LEMMA SumFollows ==
    ASSUME CacheInv, Accounted, NEW m \in Nat, WordSuffices(m), SizesFit(m), SumFits(m), NEW a \in Paths, NEW new \in Nat,
           new <= m, BytesOf(a)' = new, \A p \in Paths \ {a} : BytesOf(p)' = BytesOf(p), crashes' = crashes,
           accounted' = Exchanged(new, BytesOf(a))
    PROVE SumFits(m)'
<1>1. PICK g, h, c : g = HeldBytes /\ h = HeldBytes' /\ c = [p \in Paths |-> m]
    OBVIOUS
<1>2. IsFiniteSet(Paths) /\ Spare(m) \in Nat /\ Word \in Nat
    BY CacheAssumption, SpareIs
<1>3. /\ \A p \in Paths : g[p] \in Nat /\ h[p] \in Nat /\ c[p] \in Nat /\ g[p] <= c[p] /\ h[p] <= c[p]
      /\ \A p \in Paths : p # a => g[p] = h[p]
      /\ g[a] = BytesOf(a) /\ h[a] = new
    BY <1>1, BytesOfPaths DEF HeldBytes
<1>4. SumOf(h, Paths) = SumOf(g, Paths) - g[a] + h[a]
    BY <1>2, <1>3, SumsChange
<1>5. SumOf(g, Paths) \in Int /\ SumOf(h, Paths) \in Nat /\ SumOf(c, Paths) \in Int
    BY <1>2, <1>3, SumsAreIntegers, SumsOfParts
<1>6. SumOf(h, Paths) <= SumOf(c, Paths)
    BY <1>2, <1>3, SumsCompare
<1>7. Held = SumOf(g, Paths) /\ Held' = SumOf(h, Paths)
    BY <1>1 DEF Held
<1>8. SumOf(c, Paths) + Spare(m) < Word
    BY <1>1 DEF WordSuffices
<1>9. accounted \in Int /\ SumOf(g, Paths) <= accounted /\ accounted <= SumOf(g, Paths) + Spare(m)
    BY <1>7 DEF Accounted, SumFits
<1>10. 0 <= accounted + new - BytesOf(a) /\ accounted + new - BytesOf(a) < Word
    BY <1>2, <1>3, <1>4, <1>5, <1>6, <1>8, <1>9
<1>11. accounted' = accounted + new - BytesOf(a)
    BY <1>3, <1>9, <1>10, NoWrap
<1>12. Spare(m)' = Spare(m)
    BY DEF Spare, FileNames, Tasks
<1>13. Held' <= accounted' /\ accounted' <= Held' + Spare(m) /\ (crashes' = 0 => accounted' = Held')
    BY <1>2, <1>3, <1>4, <1>5, <1>7, <1>9, <1>11 DEF SumFits
<1> QED
    BY <1>12, <1>13 DEF SumFits

\* No bytes change.
LEMMA SumStays ==
    ASSUME NEW m \in Nat, SumFits(m), \A p \in Paths : BytesOf(p)' = BytesOf(p), UNCHANGED <<accounted, crashes>>
    PROVE SumFits(m)'
<1>1. HeldBytes' = HeldBytes
    BY DEF HeldBytes
<1>2. Held' = Held /\ Spare(m)' = Spare(m)
    BY <1>1 DEF Held, Spare, FileNames, Tasks
<1> QED
    BY <1>2 DEF SumFits

\* The record's data is where it was, and as large.
SameData(id) == /\ recs[id] # None /\ recs'[id] # None
                /\ recs'[id].path = recs[id].path /\ recs'[id].blob = recs[id].blob /\ recs'[id].size = recs[id].size
\* A task may be where it is, about to remove no entry.
FitsTask(m, it) == /\ it.pc # "remove"
                   /\ it.pc # "idle" => it.rec \in RecIds /\ recs[it.rec] # None /\ entries[RecPath(it.rec)] = it.rec
                   /\ it.pc \in {"spill", "replace"} => it.prev = RecordBytes(it.rec)
                   /\ it.pc = "spill" => it.size <= m

\* The steps that leave the records where they are.
LEMMA NothingMoves ==
    ASSUME CacheInv, NEW m \in Nat, ExactInv(m), UNCHANGED <<entries, accounted, crashes>>,
           \A id \in RecIds : recs'[id] = recs[id] \/ SameData(id),
           \A f \in FileNames : disk'[f] \in {disk[f], None} \/ disk'[f].size <= m,
           \A t \in Tasks : flush'[t] = flush[t] \/ (flush[t].pc # "remove" /\ FitsTask(m, flush'[t]))
    PROVE ExactInv(m)'
<1>1. \A id \in RecIds : recs[id] # None => /\ recs'[id] # None /\ recs'[id].path = recs[id].path
                                            /\ RecordBytes(id)' = RecordBytes(id) /\ recs'[id].size = recs[id].size
    BY DEF SameData, RecordBytes, AccountedFor
<1>2. \A id \in RecIds : recs'[id] # None => recs[id] # None
    BY DEF SameData
<1>3. \A t \in Tasks : flush[t].pc # "idle" => flush[t].rec \in RecIds /\ recs[flush[t].rec] # None
    BY FlushFacts
<1>4. CurrentFlush'
  <2> SUFFICES ASSUME NEW t \in Tasks
               PROVE /\ flush'[t].pc # "idle" => entries'[RecPath(flush'[t].rec)] = flush'[t].rec
                     /\ flush'[t].pc \in {"spill", "replace"} => flush'[t].prev = RecordBytes(flush[t].rec)'
      BY DEF CurrentFlush, RecPath
  <2>1. CASE flush'[t] = flush[t]
    <3>1. flush[t].pc \in {"spill", "replace"} => RecordBytes(flush[t].rec)' = RecordBytes(flush[t].rec)
        BY <1>1, <1>3, <2>1 DEF RecordBytes, AccountedFor
    <3> QED
        BY <2>1, <3>1 DEF ExactInv, CurrentFlush, RecordBytes, AccountedFor
  <2>2. CASE FitsTask(m, flush'[t])
    <3>1. flush'[t].pc \in {"spill", "replace"} => RecordBytes(flush[t].rec)' = AccountedFor(recs[flush'[t].rec].blob, recs[flush'[t].rec].size)
        BY <2>2 DEF RecordBytes, AccountedFor, FitsTask, SameData
    <3> QED
        BY <2>2, <3>1 DEF FitsTask, RecordBytes
  <2> QED
      BY <2>1, <2>2
<1>5. SizesFit(m)'
    BY <1>1, <1>2 DEF ExactInv, SizesFit, FitsTask
<1>6. \A p \in Paths : Removing(p)' = Removing(p)
  <2>1. \A t \in Tasks : flush'[t].pc = "remove" <=> flush[t].pc = "remove"
      BY DEF FitsTask
  <2>2. \A t \in Tasks : flush[t].pc = "remove" => flush'[t] = flush[t]
      OBVIOUS
  <2>3. \A t \in Tasks : flush[t].pc = "remove" => recs'[flush'[t].rec].path = recs[flush[t].rec].path
      BY <1>1, <1>3, <2>2
  <2> QED
      BY <2>1, <2>3 DEF Removing, FlushAt
<1>7. \A p \in Paths : BytesOf(p)' = BytesOf(p)
  <2>1. \A p \in Paths : entries[p] # None => entries[p] \in RecIds /\ recs[entries[p]] # None
      BY DEF CacheInv, CacheTypes, Named, EntriesNamed
  <2>2. \A p \in Paths : entries[p] # None => RecordBytes(entries[p])' = RecordBytes(entries[p])
      BY <1>1, <2>1 DEF RecordBytes, AccountedFor
  <2> QED
      BY <1>6, <2>2 DEF BytesOf
<1> QED
    BY <1>4, <1>5, <1>7, SumStays DEF ExactInv

\* The steps of a request.
LEMMA RequestsFit ==
    ASSUME CacheInv, AllAlone, NEW m \in Nat, WordSuffices(m), ExactInv(m), NEW r \in Requests, Enqueue(r) \/ Direct(r), ~Insert(r)
    PROVE ExactInv(m)'
<1>1. ~BeginUpdate(r) /\ ~Stage(r) /\ ~SwapBlob(r) /\ ~CleanUp(r)
    BY RequestsDoNotFlush DEF BeginUpdate, Stage, SwapBlob, CleanUp, At
<1>2. Size[r] <= m
    BY DEF WordSuffices
<1>3. CASE Store(r)
  <2>1. \A f \in FileNames : disk'[f] = disk[f] \/ disk'[f] = [val |-> r, size |-> Size[r]]
      BY <1>3 DEF Store, CacheInv, CacheTypes
  <2>2. \A f \in FileNames : disk'[f] \in {disk[f], None} \/ disk'[f].size <= m
      BY <1>2, <2>1
  <2>3. UNCHANGED <<entries, accounted, crashes, recs, flush>>
      BY <1>3 DEF Store
  <2> QED
      BY <2>2, <2>3, NothingMoves
<1>4. CASE ForceFlush(r)
  <2>1. entries[Target[r]] = None
      BY <1>4, NothingOf DEF ForceFlush, At
  <2>2. UNCHANGED <<entries, accounted, crashes, recs, disk, flush>>
      BY <1>4, <2>1 DEF ForceFlush, Pending
  <2> QED
      BY <2>2, NothingMoves
<1>5. CASE Admit(r) \/ Lookup(r) \/ StoreFails(r) \/ DirectWrite(r) \/ DirectDelete(r)
  <2>1. UNCHANGED <<entries, accounted, crashes, recs, disk, flush>>
      BY <1>5 DEF Admit, Lookup, StoreFails, DirectWrite, DirectDelete
  <2> QED
      BY <2>1, NothingMoves
<1> QED
    BY <1>1, <1>3, <1>4, <1>5 DEF Enqueue, Direct

LEMMA DeletedOnly == ASSUME CacheInv, NEW b, disk' = Delete(b) PROVE \A f \in FileNames : disk'[f] \in {disk[f], None}
    BY DEF Delete, CacheInv, CacheTypes

\* A task goes on, the records stay where they are.
LEMMA TaskFits ==
    ASSUME CacheInv, NEW m \in Nat, ExactInv(m), UNCHANGED <<entries, accounted, crashes>>,
           NEW t \in Tasks, flush[t].pc # "remove", NEW it, FitsTask(m, it), flush' = [flush EXCEPT ![t] = it],
           recs' = recs \/ (SameData(flush[t].rec) /\ \A id \in RecIds \ {flush[t].rec} : recs'[id] = recs[id]),
           \A f \in FileNames : disk'[f] \in {disk[f], None} \/ disk'[f].size <= m
    PROVE ExactInv(m)'
<1>1. \A s \in Tasks : flush'[s] = flush[s] \/ (flush[s].pc # "remove" /\ FitsTask(m, flush'[s]))
    BY DEF CacheInv, CacheTypes
<1>2. \A id \in RecIds : recs'[id] = recs[id] \/ SameData(id)
    OBVIOUS
<1> QED
    BY <1>1, <1>2, NothingMoves

LEMMA IdleFits == ASSUME NEW m PROVE FitsTask(m, IdleFlush)
    BY DEF FitsTask, IdleFlush

\* Only the state of the record changes.
LEMMA StateChanges ==
    ASSUME CacheInv, NEW id \in RecIds, recs[id] # None, NEW s \in {"pending", "flushing", "abnormal"},
           recs' = [recs EXCEPT ![id].state = s] \/ recs' = [recs EXCEPT ![id].logged = TRUE, ![id].state = s]
    PROVE SameData(id) /\ \A x \in RecIds \ {id} : recs'[x] = recs[x]
<1>1. PICK old : old = recs[id]
    OBVIOUS
<1>2. old \in Record
    BY <1>1 DEF CacheInv, CacheTypes
<1>3. recs'[id] = [old EXCEPT !.state = s] \/ recs'[id] = [old EXCEPT !.logged = TRUE, !.state = s]
    BY <1>1 DEF CacheInv, CacheTypes
<1>4. \A new : new = [old EXCEPT !.state = s] \/ new = [old EXCEPT !.logged = TRUE, !.state = s] =>
          new \in Record /\ new.path = old.path /\ new.blob = old.blob /\ new.size = old.size
    BY <1>2 DEF Record
<1>5. \A x \in RecIds \ {id} : recs'[x] = recs[x]
    BY DEF CacheInv, CacheTypes
<1>6. recs'[id] # None
    BY <1>3, <1>4, NoneApart
<1> QED
    BY <1>1, <1>3, <1>4, <1>5, <1>6 DEF SameData

\* The steps of a flush that leave the records where they are.
LEMMA FlushesFit ==
    ASSUME CacheInv, NEW m \in Nat, ExactInv(m), NEW t \in Tasks,
           \/ BeginFlush(t) \/ ReadBlob(t) \/ WritePrimary(t) \/ PrimaryFails(t) \/ Promote(t) \/ Spill(t) \/ Discard(t)
           \/ LogAbnormal(t) \/ GiveUp(t)
           \/ CheckGeneration(t) /\ ~SameGeneration(flush[t].rec, flush[t].gen)
           \/ Replace(t) /\ ~SameGeneration(flush[t].rec, flush[t].gen)
    PROVE ExactInv(m)'
<1>1. flush[t].pc \notin {"idle", "remove"}
    BY DEF BeginFlush, ReadBlob, WritePrimary, PrimaryFails, Promote, Spill, Discard, LogAbnormal, GiveUp, CheckGeneration,
           Replace, FlushAt
<1>2. UNCHANGED <<entries, accounted, crashes>>
    BY DEF BeginFlush, ReadBlob, WritePrimary, PrimaryFails, Promote, Spill, Discard, LogAbnormal, GiveUp, CheckGeneration,
           Replace
<1>3. PICK id, me : id = flush[t].rec /\ me = flush[t]
    OBVIOUS
<1>4. /\ id \in RecIds /\ recs[id] # None /\ recs[id] \in Record /\ entries[RecPath(id)] = id
      /\ me \in FlushState /\ me.rec = id
    BY <1>1, <1>3, FlushFacts DEF ExactInv, CurrentFlush
\* A task goes where nothing is captured, or leaves.
<1>5. ASSUME NEW it, flush' = [flush EXCEPT ![t] = it], it = IdleFlush \/ (it.rec = id /\ it.pc \notin {"idle", "remove", "spill", "replace"}),
             recs' = recs \/ (SameData(id) /\ \A x \in RecIds \ {id} : recs'[x] = recs[x]),
             \A f \in FileNames : disk'[f] \in {disk[f], None}
      PROVE ExactInv(m)'
  <2>1. FitsTask(m, it)
      BY <1>4, <1>5, IdleFits DEF FitsTask
  <2> QED
      BY <1>1, <1>2, <1>3, <1>5, <2>1, TaskFits
<1>6. ASSUME NEW s \in {"pending", "flushing", "abnormal"},
             recs' = [recs EXCEPT ![id].state = s] \/ recs' = [recs EXCEPT ![id].logged = TRUE, ![id].state = s]
      PROVE SameData(id) /\ \A x \in RecIds \ {id} : recs'[x] = recs[x]
    BY <1>4, <1>6, StateChanges
<1>7. WaitingState(recs[id]) \in {"pending", "flushing", "abnormal"}
    BY DEF WaitingState
<1>8. CASE BeginFlush(t)
  <2>1. CASE flush' = [flush EXCEPT ![t] = IdleFlush] /\ recs' = recs
      BY <1>5, <1>8, <2>1 DEF BeginFlush
  <2>2. CASE recs[id].state # "flushing"
    <3>1. PICK it : it = [me EXCEPT !.pc = "read", !.blob = recs[id].blob, !.gen = recs[id].gen]
        OBVIOUS
    <3>2. it.pc = "read" /\ it.rec = id
        BY <1>4, <3>1 DEF FlushState
    <3>3. flush' = [flush EXCEPT ![t] = it] /\ recs' = [recs EXCEPT ![id].state = "flushing"] /\ disk' = disk
        BY <1>3, <1>8, <2>2, <3>1 DEF BeginFlush, CacheInv, CacheTypes
    <3> QED
        BY <1>5, <1>6, <3>2, <3>3
  <2> QED
      BY <1>3, <1>8, <2>1, <2>2 DEF BeginFlush, Leave
<1>9. ASSUME NEW pc \in {"write", "check", "giveup", "promote"}, NEW v, disk' = disk, recs' = recs,
             \/ flush' = [flush EXCEPT ![t].pc = pc] \/ flush' = [flush EXCEPT ![t].pc = pc, ![t].val = v]
      PROVE ExactInv(m)'
  <2>1. PICK it : it \in {[me EXCEPT !.pc = pc], [me EXCEPT !.pc = pc, !.val = v]} /\ flush' = [flush EXCEPT ![t] = it]
      BY <1>3, <1>9 DEF CacheInv, CacheTypes
  <2>2. it.pc = pc /\ it.rec = id
      BY <1>4, <2>1 DEF FlushState
  <2> QED
      BY <1>5, <1>9, <2>1, <2>2
<1>10. CASE ReadBlob(t) \/ WritePrimary(t) \/ PrimaryFails(t)
  <2>1. CASE flush' = [flush EXCEPT ![t] = IdleFlush]
      BY <1>5, <1>10, <2>1 DEF ReadBlob, WritePrimary, PrimaryFails
  <2>2. CASE flush' # [flush EXCEPT ![t] = IdleFlush]
      BY <1>9, <1>10, <2>2 DEF ReadBlob, WritePrimary, PrimaryFails, Leave
  <2> QED
      BY <2>1, <2>2
<1>11. ASSUME NEW pc \in {"discard", "giveup"}, NEW b, \A f \in FileNames : disk'[f] \in {disk[f], None},
              recs' = recs \/ (SameData(id) /\ \A x \in RecIds \ {id} : recs'[x] = recs[x]),
              \/ flush' = [flush EXCEPT ![t].pc = pc] \/ flush' = [flush EXCEPT ![t].pc = pc, ![t].blob = b]
       PROVE ExactInv(m)'
  <2>1. PICK it : it \in {[me EXCEPT !.pc = pc], [me EXCEPT !.pc = pc, !.blob = b]} /\ flush' = [flush EXCEPT ![t] = it]
      BY <1>3, <1>11 DEF CacheInv, CacheTypes
  <2>2. it.pc = pc /\ it.rec = id
      BY <1>4, <2>1 DEF FlushState
  <2> QED
      BY <1>5, <1>11, <2>1, <2>2
<1>12. CASE Discard(t)
    BY <1>11, <1>12, DeletedOnly DEF Discard
<1>13. CASE Replace(t) /\ ~SameGeneration(flush[t].rec, flush[t].gen)
  <2>1. /\ flush' = [flush EXCEPT ![t].pc = "discard", ![t].blob = PromotedFile(t, flush[t].val)]
        /\ recs' = recs /\ disk' = disk
      BY <1>13 DEF Replace
  <2> QED
      BY <1>11, <2>1
<1>14. CASE GiveUp(t) \/ (CheckGeneration(t) /\ ~SameGeneration(flush[t].rec, flush[t].gen))
  <2>1. /\ \E s \in {"pending", "flushing", "abnormal"} : recs' = [recs EXCEPT ![id].state = s]
        /\ disk' = disk /\ flush' = [flush EXCEPT ![t] = IdleFlush]
      BY <1>3, <1>7, <1>14 DEF GiveUp, CheckGeneration, Leave
  <2> QED
      BY <1>5, <1>6, <2>1
<1>15. CASE LogAbnormal(t)
  <2>1. CASE recs[id].logged
      BY <1>3, <1>11, <1>15, <2>1 DEF LogAbnormal
  <2>2. CASE ~recs[id].logged
    <3>1. /\ recs' = [recs EXCEPT ![id].logged = TRUE, ![id].state = "abnormal"]
          /\ disk' = Delete(flush[t].blob) /\ flush' = [flush EXCEPT ![t] = IdleFlush]
        BY <1>3, <1>15, <2>2 DEF LogAbnormal, Leave
    <3> QED
        BY <1>5, <1>6, <3>1, DeletedOnly
  <2> QED
      BY <2>1, <2>2
<1>16. CASE Promote(t)
  <2>1. CASE InAbnormalDir(recs[id].blob)
    <3>1. recs' = [recs EXCEPT ![id].state = "abnormal"] /\ flush' = [flush EXCEPT ![t].pc = "giveup"] /\ disk' = disk
        BY <1>3, <1>16, <2>1 DEF Promote
    <3> QED
        BY <1>6, <1>11, <3>1
  <2>2. CASE ~InAbnormalDir(recs[id].blob)
    <3>1. PICK it : it = [me EXCEPT !.pc = "spill", !.gen = recs[id].gen, !.size = recs[id].size, !.prev = RecordBytes(id)]
        OBVIOUS
    <3>2. it.pc = "spill" /\ it.rec = id /\ it.size = recs[id].size /\ it.prev = RecordBytes(id)
        BY <1>4, <3>1 DEF FlushState
    <3>3. flush' = [flush EXCEPT ![t] = it] /\ recs' = recs /\ disk' = disk
        BY <1>3, <1>16, <2>2, <3>1 DEF Promote, CacheInv, CacheTypes
    <3>4. recs[id].size <= m
        BY <1>4 DEF ExactInv, SizesFit
    <3>5. FitsTask(m, it)
        BY <1>4, <3>2, <3>4 DEF FitsTask
    <3> QED
        BY <1>1, <1>2, <3>3, <3>5, TaskFits
  <2> QED
      BY <2>1, <2>2
<1>17. CASE Spill(t)
  <2>1. CASE flush' = [flush EXCEPT ![t].pc = "giveup"] /\ disk' = disk
      BY <1>11, <1>17, <2>1 DEF Spill
  <2>2. CASE /\ disk' = [disk EXCEPT ![PromotedFile(t, flush[t].val)] = [val |-> flush[t].val, size |-> flush[t].size]]
             /\ flush' = [flush EXCEPT ![t].pc = "replace"]
    <3>1. me.pc = "spill" /\ me.size <= m /\ me.prev = RecordBytes(id)
        BY <1>3, <1>17 DEF Spill, FlushAt, ExactInv, SizesFit, CurrentFlush
    <3>2. PICK it : it = [me EXCEPT !.pc = "replace"]
        OBVIOUS
    <3>3. it.pc = "replace" /\ it.rec = id /\ it.prev = RecordBytes(id) /\ flush' = [flush EXCEPT ![t] = it]
        BY <1>3, <1>4, <2>2, <3>1, <3>2 DEF FlushState, CacheInv, CacheTypes
    <3>4. FitsTask(m, it)
        BY <1>4, <3>3 DEF FitsTask
    <3>5. \A f \in FileNames : disk'[f] = disk[f] \/ disk'[f].size = flush[t].size
        BY <2>2 DEF CacheInv, CacheTypes
    <3>6. \A f \in FileNames : disk'[f] \in {disk[f], None} \/ disk'[f].size <= m
        BY <1>3, <3>1, <3>5
    <3>7. recs' = recs
        BY <1>17 DEF Spill
    <3> QED
        BY <1>1, <1>2, <3>3, <3>4, <3>6, <3>7, TaskFits
  <2> QED
      BY <1>17, <2>1, <2>2 DEF Spill
<1> QED
    BY <1>8, <1>10, <1>12, <1>13, <1>14, <1>15, <1>16, <1>17

\* The first write of a path is accounted.
LEMMA InsertFits ==
    ASSUME CacheInv, Accounted, AllAlone, NEW m \in Nat, WordSuffices(m), ExactInv(m), NEW r \in Requests, Insert(r)
    PROVE ExactInv(m)'
<1>1. PICK a, id, new : a = Target[r] /\ id = r /\ new = AccountedFor(reqs[r].blob, Size[r])
    OBVIOUS
<1>2. a \in Paths /\ id \in RecIds /\ RecPath(id) = a /\ id # None
    BY <1>1, Paths1, CacheAssumption
<1>3. /\ entries[a] = None /\ recs[id] = None
      /\ \A x \in RecIds : recs[x] # None => RecPath(x) # a /\ x # id
      /\ \A t \in Tasks : flush[t].pc # "idle" => RecPath(flush[t].rec) # a
    BY <1>1, <1>2, NothingOf DEF Insert, At
<1>4. Size[r] \in Nat /\ Size[r] <= m /\ new \in Nat /\ new <= m
    BY <1>1, AccountedIsNumber, CacheAssumption DEF WordSuffices
<1>5. PICK rec : rec = [path |-> Target[r], blob |-> reqs[r].blob, size |-> Size[r], gen |-> 1, state |-> "pending", logged |-> FALSE]
    OBVIOUS
<1>6. /\ recs'[id] = rec /\ \A x \in RecIds \ {id} : recs'[x] = recs[x]
      /\ entries'[a] = id /\ \A p \in Paths \ {a} : entries'[p] = entries[p]
      /\ flush' = flush /\ disk' = disk /\ crashes' = crashes /\ accounted' = Exchanged(new, 0)
    BY <1>1, <1>2, <1>5 DEF Insert, CacheInv, CacheTypes
<1>7. rec.size = Size[r] /\ AccountedFor(rec.blob, rec.size) = new /\ rec.path = a
    BY <1>1, <1>5
<1>8. \A t \in Tasks : flush[t].pc # "idle" => /\ flush[t].rec \in RecIds /\ flush[t].rec # id
                                              /\ recs[flush[t].rec].path = RecPath(flush[t].rec)
                                              /\ RecPath(flush[t].rec) \in Paths \ {a}
    BY <1>3, FlushFacts
<1>9. CurrentFlush'
  <2>1. \A t \in Tasks : flush[t].pc # "idle" =>
            entries'[RecPath(flush[t].rec)] = flush[t].rec /\ RecordBytes(flush[t].rec)' = RecordBytes(flush[t].rec)
      BY <1>6, <1>8 DEF ExactInv, CurrentFlush, RecordBytes, AccountedFor
  <2>2. \A t \in Tasks : flush[t].pc \in {"spill", "replace"} => flush[t].prev = RecordBytes(flush[t].rec)'
      BY <2>1 DEF ExactInv, CurrentFlush
  <2> QED
      BY <1>6, <2>1, <2>2 DEF CurrentFlush, RecPath, RecordBytes, AccountedFor
<1>10. SizesFit(m)'
    BY <1>4, <1>6, <1>7 DEF ExactInv, SizesFit
<1>11. \A p \in Paths : Removing(p)' = Removing(p)
  <2>1. \A t \in Tasks : flush[t].pc = "remove" => recs'[flush[t].rec] = recs[flush[t].rec]
      BY <1>6, <1>8
  <2> QED
      BY <1>6, <2>1 DEF Removing, FlushAt
<1>12. ~Removing(a)
    BY <1>8 DEF Removing, FlushAt
<1>13. BytesOf(a) = 0 /\ BytesOf(a)' = new
    BY <1>2, <1>3, <1>6, <1>7, <1>11, <1>12 DEF BytesOf, RecordBytes, AccountedFor
<1>14. ASSUME NEW p \in Paths \ {a} PROVE BytesOf(p)' = BytesOf(p)
  <2>1. entries[p] # None => entries[p] \in RecIds /\ recs[entries[p]] # None
      BY DEF CacheInv, CacheTypes, Named, EntriesNamed
  <2>2. entries[p] # None => recs'[entries[p]] = recs[entries[p]]
      BY <1>3, <1>6, <2>1
  <2>3. entries'[p] = entries[p]
      BY <1>6
  <2> QED
      BY <1>11, <2>2, <2>3 DEF BytesOf, RecordBytes, AccountedFor
<1>15. SumFits(m)'
    BY <1>2, <1>4, <1>6, <1>13, <1>14, SumFollows DEF ExactInv
<1> QED
    BY <1>9, <1>10, <1>15 DEF ExactInv

\* No other flush is about to remove an entry.
LEMMA OnlyRemoves ==
    ASSUME CacheInv, AllAlone, OneFlusher, NEW t \in Tasks, flush[t].pc # "idle"
    PROVE \A p \in Paths : Removing(p) <=> (flush[t].pc = "remove" /\ recs[flush[t].rec].path = p)
    BY AloneFlushing DEF Removing, FlushAt

\* The data is in the primary store, and the record is left.
LEMMA RemovalsFit ==
    ASSUME CacheInv, Accounted, AllAlone, OneFlusher, NEW m \in Nat, WordSuffices(m), ExactInv(m), NEW t \in Tasks,
           RemoveEntry(t) \/ (CheckGeneration(t) /\ SameGeneration(flush[t].rec, flush[t].gen))
    PROVE ExactInv(m)'
<1>1. flush[t].pc \in {"check", "remove"}
    BY DEF CheckGeneration, RemoveEntry, FlushAt
<1>2. PICK id, a : id = flush[t].rec /\ a = RecPath(id)
    OBVIOUS
<1>3. /\ id \in RecIds /\ recs[id] # None /\ recs[id].path = a /\ a \in Paths /\ entries[a] = id /\ id # None
      /\ \A p \in Paths : entries[p] = id <=> p = a
    BY <1>1, <1>2, FlushedRecord DEF ExactInv
<1>4. \A s \in Tasks \ {t} : flush[s].pc = "idle"
    BY <1>1, AloneFlushing
<1>5. recs' = recs /\ crashes' = crashes
    BY DEF CheckGeneration, RemoveEntry
<1>6. \A p \in Paths : Removing(p) <=> (flush[t].pc = "remove" /\ p = a)
    BY <1>1, <1>2, <1>3, OnlyRemoves
<1>7. CASE CheckGeneration(t) /\ SameGeneration(flush[t].rec, flush[t].gen)
  <2>1. /\ accounted' = Exchanged(0, RecordBytes(id)) /\ entries' = entries /\ disk' = Delete(recs[id].blob)
        /\ flush' = [flush EXCEPT ![t].pc = "remove"]
      BY <1>2, <1>7 DEF CheckGeneration
  <2>2. /\ flush'[t].pc = "remove" /\ flush'[t].rec = id /\ \A s \in Tasks \ {t} : flush'[s] = flush[s]
        /\ flush[t].pc = "check"
      BY <1>2, <1>7, <2>1 DEF CheckGeneration, FlushAt, CacheInv, CacheTypes, FlushState
  <2>3. \A p \in Paths : Removing(p)' <=> p = a
      BY <1>3, <1>4, <1>5, <2>2 DEF Removing, FlushAt
  <2>4. BytesOf(a) = RecordBytes(id) /\ BytesOf(a)' = 0
      BY <1>3, <1>6, <2>2, <2>3 DEF BytesOf
  <2>5. \A p \in Paths \ {a} : BytesOf(p)' = BytesOf(p)
      BY <1>5, <1>6, <2>1, <2>2, <2>3 DEF BytesOf, RecordBytes, AccountedFor
  <2>6. SumFits(m)'
      BY <1>3, <1>5, <2>1, <2>4, <2>5, SumFollows DEF ExactInv
  <2>7. CurrentFlush'
    <3>1. \A s \in Tasks : flush'[s].pc # "idle" => s = t
        BY <1>4, <2>2
    <3>2. entries'[RecPath(id)] = id
        BY <1>2, <1>3, <2>1
    <3>3. entries'[RecPath(flush'[t].rec)] = flush'[t].rec
        BY <2>2, <3>2
    <3> QED
        BY <2>2, <3>1, <3>3 DEF CurrentFlush, RecPath
  <2>8. SizesFit(m)'
      BY <1>4, <1>5, <2>1, <2>2, DeletedOnly DEF ExactInv, SizesFit
  <2> QED
      BY <2>6, <2>7, <2>8 DEF ExactInv
<1>8. CASE RemoveEntry(t)
  <2>1. accounted' = accounted /\ entries' = [entries EXCEPT ![a] = None] /\ disk' = disk /\ flush' = [flush EXCEPT ![t] = IdleFlush]
      BY <1>2, <1>3, <1>8 DEF RemoveEntry, Leave
  <2>2. flush'[t].pc = "idle" /\ (\A s \in Tasks \ {t} : flush'[s] = flush[s]) /\ flush[t].pc = "remove"
      BY <1>8, <2>1 DEF RemoveEntry, FlushAt, CacheInv, CacheTypes, IdleFlush
  <2>3. \A p \in Paths : ~Removing(p)'
      BY <1>4, <2>2 DEF Removing, FlushAt
  <2>4. entries'[a] = None /\ \A p \in Paths \ {a} : entries'[p] = entries[p]
      BY <1>3, <2>1 DEF CacheInv, CacheTypes
  <2>5. ASSUME NEW p \in Paths PROVE BytesOf(p)' = BytesOf(p)
    <3>1. CASE p = a
        BY <1>6, <2>2, <2>4, <3>1 DEF BytesOf
    <3>2. CASE p # a
        BY <1>5, <1>6, <2>3, <2>4, <3>2 DEF BytesOf, RecordBytes, AccountedFor
    <3> QED
        BY <3>1, <3>2
  <2>6. SumFits(m)'
      BY <1>5, <2>1, <2>5, SumStays DEF ExactInv
  <2>7. CurrentFlush'
      BY <1>4, <2>2 DEF CurrentFlush
  <2>8. SizesFit(m)'
      BY <1>4, <1>5, <2>1, <2>2 DEF ExactInv, SizesFit
  <2> QED
      BY <2>6, <2>7, <2>8 DEF ExactInv
<1> QED
    BY <1>7, <1>8

\* The promoted file takes the place of the queued blob.
LEMMA ReplaceFits ==
    ASSUME CacheInv, Accounted, AllAlone, OneFlusher, NEW m \in Nat, WordSuffices(m), ExactInv(m), NEW t \in Tasks,
           Replace(t), SameGeneration(flush[t].rec, flush[t].gen)
    PROVE ExactInv(m)'
<1>1. flush[t].pc = "replace"
    BY DEF Replace, FlushAt
<1>2. PICK id, a, file, new : /\ id = flush[t].rec /\ a = RecPath(id) /\ file = PromotedFile(t, flush[t].val)
                              /\ new = AccountedFor(file, recs[id].size)
    OBVIOUS
<1>3. /\ id \in RecIds /\ recs[id] # None /\ recs[id].path = a /\ a \in Paths /\ entries[a] = id /\ id # None
      /\ recs[id] \in Record
      /\ \A p \in Paths : entries[p] = id <=> p = a
    BY <1>1, <1>2, FlushedRecord DEF ExactInv
<1>4. \A s \in Tasks \ {t} : flush[s].pc = "idle"
    BY <1>1, AloneFlushing
<1>5. /\ recs' = [recs EXCEPT ![id].blob = file, ![id].state = "abnormal"] /\ accounted' = Exchanged(new, flush[t].prev)
      /\ flush' = [flush EXCEPT ![t].pc = "log", ![t].blob = recs[id].blob]
      /\ UNCHANGED <<disk, entries, crashes>>
    BY <1>2 DEF Replace
<1>6. flush[t].prev = RecordBytes(id)
    BY <1>1, <1>2 DEF ExactInv, CurrentFlush
<1>7. /\ recs'[id].blob = file /\ recs'[id].size = recs[id].size /\ recs'[id].path = a
      /\ \A x \in RecIds \ {id} : recs'[x] = recs[x]
  <2>1. PICK old : old = recs[id]
      OBVIOUS
  <2>2. recs'[id] = [old EXCEPT !.blob = file, !.state = "abnormal"] /\ \A x \in RecIds \ {id} : recs'[x] = recs[x]
      BY <1>3, <1>5, <2>1 DEF CacheInv, CacheTypes
  <2> QED
      BY <1>3, <2>1, <2>2 DEF Record
<1>8. flush'[t].pc = "log" /\ flush'[t].rec = id /\ \A s \in Tasks \ {t} : flush'[s] = flush[s]
    BY <1>2, <1>5 DEF CacheInv, CacheTypes, FlushState
<1>9. \A p \in Paths : ~Removing(p) /\ ~Removing(p)'
    BY <1>1, <1>4, <1>8 DEF Removing, FlushAt
<1>10. recs[id].size \in Nat /\ recs[id].size <= m /\ new \in Nat /\ new <= m
    BY <1>2, <1>3, AccountedIsNumber DEF Record, ExactInv, SizesFit
<1>11. BytesOf(a) = RecordBytes(id) /\ BytesOf(a)' = new
    BY <1>2, <1>3, <1>5, <1>7, <1>9 DEF BytesOf, RecordBytes, AccountedFor
<1>12. ASSUME NEW p \in Paths \ {a} PROVE BytesOf(p)' = BytesOf(p)
  <2>1. entries[p] # None => entries[p] \in RecIds /\ entries[p] # id
      BY <1>3 DEF CacheInv, CacheTypes
  <2>2. entries[p] # None => recs'[entries[p]] = recs[entries[p]]
      BY <1>7, <2>1
  <2>3. entries'[p] = entries[p]
      BY <1>5
  <2> QED
      BY <1>9, <2>2, <2>3 DEF BytesOf, RecordBytes, AccountedFor
<1>13. SumFits(m)'
    BY <1>3, <1>5, <1>6, <1>10, <1>11, <1>12, SumFollows DEF ExactInv
<1>14. CurrentFlush'
  <2>1. \A s \in Tasks : flush'[s].pc # "idle" => s = t
      BY <1>4, <1>8
  <2>2. entries'[RecPath(id)] = id
      BY <1>2, <1>3, <1>5
  <2>3. entries'[RecPath(flush'[t].rec)] = flush'[t].rec
      BY <1>8, <2>2
  <2> QED
      BY <1>8, <2>1, <2>3 DEF CurrentFlush, RecPath
<1>15. SizesFit(m)'
  <2>1. \A x \in RecIds : recs'[x] # None => recs'[x].size <= m
      BY <1>7, <1>10 DEF ExactInv, SizesFit
  <2>2. \A s \in Tasks : flush'[s].pc # "spill"
      BY <1>4, <1>8
  <2>3. disk' = disk
      BY <1>5
  <2> QED
      BY <2>1, <2>2, <2>3 DEF ExactInv, SizesFit
<1> QED
    BY <1>13, <1>14, <1>15 DEF ExactInv

\* A restart accounts every file it loads, and has at most one of each path in the map.
LEMMA RestartFits ==
    ASSUME CacheInv, NEW m \in Nat, WordSuffices(m), SizesFit(m), Restart
    PROVE ExactInv(m)'
<1>1. PICK chosen \in [Paths -> Loadable \cup {None}] :
         /\ \A p \in Paths : IF FilesOf(p) = {} THEN chosen[p] = None ELSE chosen[p] \in LastLoaded(p)
         /\ entries' = [p \in Paths |-> IF chosen[p] = None THEN None ELSE p]
         /\ recs' = [id \in RecIds |->
                IF id \in Paths /\ chosen[id] # None
                THEN [path |-> id, blob |-> chosen[id], size |-> disk[chosen[id]].size, gen |-> 1,
                      state |-> IF InAbnormalDir(chosen[id]) THEN "abnormal" ELSE "pending",
                      logged |-> InAbnormalDir(chosen[id])]
                ELSE None]
    BY DEF Restart
<1>2. /\ disk' = disk /\ crashes' = crashes + 1 /\ flush' = [t \in Tasks |-> IdleFlush]
      /\ accounted' = SumOf(FileBytes, Loadable) % Word
    BY LoadedIsSum DEF Restart
<1>3. /\ \A p \in Paths : p \in RecIds /\ p # None
      /\ None \notin Loadable
    BY Apart, NoneApart DEF RecIds, Loadable, Blobs
<1>4. ASSUME NEW p \in Paths, chosen[p] # None
      PROVE /\ chosen[p] \in Loadable /\ PathOf(chosen[p]) = p /\ entries'[p] = p
            /\ recs'[p].blob = chosen[p] /\ recs'[p].size = disk[chosen[p]].size
  <2>1. chosen[p] \in FilesOf(p)
      BY <1>1, <1>4 DEF LastLoaded
  <2>2. entries'[p] = p /\ recs'[p].blob = chosen[p] /\ recs'[p].size = disk[chosen[p]].size
      BY <1>1, <1>3, <1>4
  <2> QED
      BY <2>1, <2>2 DEF FilesOf
<1>5. \A p \in Paths : chosen[p] = None => entries'[p] = None
    BY <1>1
<1>6. \A id \in RecIds : recs'[id] # None => id \in Paths /\ chosen[id] # None
    BY <1>1
<1>7. \A t \in Tasks : flush'[t].pc = "idle"
    BY <1>2, Idle
<1>8. CurrentFlush'
    BY <1>7 DEF CurrentFlush
<1>9. SizesFit(m)'
  <2>1. \A f \in Loadable : disk[f].size <= m
      BY DEF Loadable, SizesFit
  <2>2. \A id \in RecIds : recs'[id] # None => recs'[id].size <= m
      BY <1>4, <1>6, <2>1
  <2> QED
      BY <1>2, <1>7, <2>2 DEF SizesFit
<1>10. PICK g, h, c, w : g = FileBytes /\ h = HeldBytes' /\ c = [p \in Paths |-> chosen[p]] /\ w = [f \in FileNames |-> m]
    OBVIOUS
<1>11. IsFiniteSet(Loadable) /\ IsFiniteSet(FileNames) /\ IsFiniteSet(Paths) /\ Loadable \in SUBSET FileNames
    BY FilesAreFinite, CacheAssumption DEF Loadable
<1>12. \A f \in Loadable : g[f] \in Nat /\ g[f] <= m
  <2> SUFFICES ASSUME NEW f \in Loadable PROVE g[f] \in Nat /\ g[f] <= m
      OBVIOUS
  <2>1. f \in FileNames /\ disk[f] \in FileContent /\ disk[f].size <= m
      BY DEF Loadable, SizesFit, CacheInv, CacheTypes
  <2>2. disk[f].size \in Nat
      BY <2>1 DEF FileContent
  <2>3. g[f] = AccountedFor(f, disk[f].size)
      BY <1>10, <2>1 DEF FileBytes
  <2> QED
      BY <2>1, <2>2, <2>3, AccountedIsNumber
<1>13. \A p \in Paths : ~Removing(p)'
    BY <1>7 DEF Removing, FlushAt
<1>14. ASSUME NEW p \in Paths
       PROVE (chosen[p] \in Loadable => h[p] = g[chosen[p]]) /\ (chosen[p] \notin Loadable => h[p] = 0)
  <2>1. h[p] = BytesOf(p)'
      BY <1>10 DEF HeldBytes
  <2>2. CASE chosen[p] \in Loadable
    <3>1. BytesOf(p)' = AccountedFor(chosen[p], disk[chosen[p]].size)
        BY <1>3, <1>4, <1>13, <2>2 DEF BytesOf, RecordBytes, AccountedFor
    <3>2. g[chosen[p]] = AccountedFor(chosen[p], disk[chosen[p]].size)
        BY <1>10, <1>11, <2>2 DEF FileBytes
    <3> QED
        BY <2>1, <2>2, <3>1, <3>2
  <2>3. CASE chosen[p] \notin Loadable
    <3>1. chosen[p] = None
        BY <1>1, <2>3
    <3> QED
        BY <1>5, <2>1, <2>3, <3>1 DEF BytesOf
  <2> QED
      BY <2>2, <2>3
<1>15. SumOf(h, Paths) <= SumOf(g, Loadable)
  <2>1. \A p \in Paths : h[p] \in Nat /\ (c[p] \in Loadable => h[p] <= g[c[p]]) /\ (c[p] \notin Loadable => h[p] = 0)
      BY <1>10, <1>12, <1>14
  <2>2. \A p, q \in Paths : c[p] = c[q] /\ c[p] \in Loadable => p = q
      BY <1>3, <1>4, <1>10
  <2> QED
      BY <1>11, <1>12, <2>1, <2>2, SumsOfChosen
<1>16. SumOf(g, Loadable) \in Nat /\ SumOf(g, Loadable) <= SumOf(w, FileNames)
  <2>1. \A f \in FileNames : w[f] \in Nat /\ w[f] = m
      BY <1>10
  <2>2. SumOf(w, Loadable) <= SumOf(w, FileNames) /\ SumOf(w, Loadable) \in Nat /\ SumOf(w, FileNames) \in Int
      BY <1>11, <2>1, SumsOfParts, SumsAreIntegers
  <2>3. SumOf(g, Loadable) <= SumOf(w, Loadable)
    <3>1. \A f \in Loadable : g[f] \in Int /\ w[f] \in Int /\ g[f] <= w[f]
        BY <1>11, <1>12, <2>1
    <3> QED
        BY <1>11, <3>1, SumsCompare
  <2>4. SumOf(g, Loadable) \in Nat
    <3>1. Loadable \in SUBSET Loadable
        OBVIOUS
    <3> QED
        BY <1>11, <1>12, <3>1, SumsOfParts
  <2> QED
      BY <2>2, <2>3, <2>4
<1>17. SumOf(w, FileNames) = Spare(m) /\ Spare(m) \in Nat /\ SumOf([p \in Paths |-> m], Paths) \in Nat
    BY <1>10, SpareIs DEF Spare
<1>18. SumOf(w, FileNames) < Word
  <2>1. PICK n : n = SumOf([p \in Paths |-> m], Paths)
      OBVIOUS
  <2>2. n + Spare(m) < Word /\ n \in Nat /\ Word \in Nat
      BY <1>17, <2>1, CacheAssumption DEF WordSuffices
  <2> QED
      BY <1>17, <2>2
<1>19. accounted' = SumOf(g, Loadable)
    BY <1>2, <1>10, <1>16, <1>17, <1>18, CacheAssumption
<1>20. SumOf(h, Paths) \in Nat
  <2>1. \A p \in Paths : h[p] \in Nat
      BY <1>12, <1>14
  <2>2. Paths \in SUBSET Paths
      OBVIOUS
  <2> QED
      BY <1>11, <2>1, <2>2, SumsOfParts
<1>21. SumFits(m)'
  <2>1. Held' = SumOf(h, Paths) /\ Spare(m)' = Spare(m)
      BY <1>10 DEF Held, Spare, FileNames, Tasks
  <2>2. crashes' # 0
      BY <1>2 DEF CacheInv, CacheTypes
  <2>3. Held' <= accounted' /\ accounted' <= Held' + Spare(m)
      BY <1>15, <1>16, <1>17, <1>19, <1>20, <2>1
  <2> QED
      BY <2>1, <2>2, <2>3 DEF SumFits
<1> QED
    BY <1>8, <1>9, <1>21 DEF ExactInv

LEMMA ExactInit == ASSUME NEW m \in Nat, Init PROVE ExactInv(m)
<1>1. CurrentFlush /\ SizesFit(m)
    BY Idle DEF Init, CurrentFlush, SizesFit
<1>2. PICK h : h = HeldBytes
    OBVIOUS
<1>3. \A p \in Paths : h[p] = 0
    BY <1>2 DEF Init, HeldBytes, BytesOf
<1>4. Held = 0
    BY <1>2, <1>3, CacheAssumption, SumOfZeros DEF Held
<1>5. SumFits(m)
    BY <1>4, SpareIs DEF Init, SumFits
<1> QED
    BY <1>1, <1>5 DEF ExactInv

LEMMA ExactInductive ==
    ASSUME CacheInv, Accounted, AllAlone, OneFlusher, NEW m \in Nat, WordSuffices(m), ExactInv(m), [Next]_vars
    PROVE ExactInv(m)'
<1>1. CASE UNCHANGED vars
    BY <1>1, NothingMoves DEF vars
<1>2. ASSUME NEW r \in Requests, Enqueue(r) \/ Direct(r) PROVE ExactInv(m)'
    BY <1>2, InsertFits, RequestsFit
<1>3. ASSUME NEW t \in Flushers, NEW p \in Paths, PickDue(t, p) PROVE ExactInv(m)'
  <2>1. t \in Tasks /\ flush[t].pc = "idle" /\ UNCHANGED <<disk, recs, entries, accounted, crashes>>
      BY <1>3 DEF PickDue, FlushAt, Tasks
  <2>2. PICK it : it = [IdleFlush EXCEPT !.pc = "picked", !.rec = entries[p]]
      OBVIOUS
  <2>3. it.pc = "picked" /\ it.rec = entries[p] /\ flush' = [flush EXCEPT ![t] = it]
      BY <1>3, <2>2 DEF PickDue, IdleFlush
  <2>4. entries[p] \in RecIds /\ recs[entries[p]] # None /\ RecPath(entries[p]) = p
      BY <1>3 DEF PickDue, CacheInv, CacheTypes, Named, EntriesNamed
  <2>5. FitsTask(m, it)
      BY <2>3, <2>4 DEF FitsTask
  <2> QED
      BY <2>1, <2>3, <2>5, TaskFits
<1>4. ASSUME NEW t \in Tasks, FlushSteps(t) PROVE ExactInv(m)'
    BY <1>4, FlushesFit, RemovalsFit, ReplaceFits DEF FlushSteps
<1>5. CASE Restart
    BY <1>5, RestartFits DEF ExactInv
<1> QED
    BY <1>1, <1>2, <1>3, <1>4, <1>5 DEF Next

\* With one flusher, when every request writes a path of its own and the word takes all
\* that can be queued and loaded: accounted_bytes is what the records in the map hold,
\* and after a restart, which accounts every file it loads (load_entries_from_dir), not less.
THEOREM AccountingStaysExact ==
    ASSUME AllAlone, OneFlusher, NEW m \in Nat, WordSuffices(m)
    PROVE Spec => []AccountingIsExact
<1>1. Init => Accounted
    BY CacheAssumption DEF Init, Accounted
<1>2. Init => ExactInv(m)
    BY ExactInit
<1>3. CacheInv /\ Accounted /\ ExactInv(m) /\ [Next]_vars => ExactInv(m)'
    BY ExactInductive
<1>4. ExactInv(m) => AccountingIsExact
    BY HeldIsSum DEF ExactInv, SumFits, AccountingIsExact
<1> QED
    BY <1>1, <1>2, <1>3, <1>4, CacheInit, CacheInductive, AccountedKeeps, PTL DEF Spec
=============================================================================
