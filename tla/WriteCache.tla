----------------------------- MODULE WriteCache -----------------------------
(***************************************************************************)
(* The write-back cache in front of a storage pool                         *)
(* (src/vfs/cache/write_cache.rs) with the engine operations that go       *)
(* through it (write_impl and delete_impl of src/vfs/scoped/write.rs).     *)
(*                                                                         *)
(* A write is acknowledged once its data is queued locally; background     *)
(* flushers move the queued data to the primary store.  Every record is    *)
(* guarded by its own async mutex, which is released around all I/O, so    *)
(* each action below is one critical section or one I/O call.  A blob is   *)
(* identified with the request that wrote it; the queue file and its json  *)
(* are one object, because a load skips each of the two without the other. *)
(***************************************************************************)
EXTENDS Integers, FiniteSetsExt

CONSTANTS
    Paths,       \* physical paths
    Requests,    \* client requests, each issued at most once
    Flushers,    \* permits of the background worker (flush_concurrency)
    Target,      \* [Requests -> Paths]: the path a request names
    Kind,        \* [Requests -> {"write", "delete"}]
    Size,        \* [Requests -> Nat]: bytes of a write
    MaxFileSize, \* largest file the cache takes
    Capacity,    \* capacity_bytes
    Word,        \* accounted_bytes is an unsigned integer modulo Word
    LocalDir,    \* backend: local_dir (TRUE) or memory (FALSE)
    MaxCrashes,  \* bound on the restarts of one behaviour
    None         \* no file, no record, no entry

ASSUME CacheAssumption ==
    /\ Target \in [Requests -> Paths]
    /\ Kind \in [Requests -> {"write", "delete"}]
    /\ Size \in [Requests -> Nat]
    /\ MaxFileSize \in Nat /\ Capacity \in Nat /\ Word \in Nat \ {0}
    /\ LocalDir \in BOOLEAN /\ MaxCrashes \in Nat
    /\ Requests \cap Paths = {} /\ Requests \cap Flushers = {}
    /\ None \notin Paths \cup Requests \cup Flushers
    /\ IsFiniteSet(Paths) /\ IsFiniteSet(Requests) /\ IsFiniteSet(Flushers)

VARIABLES
    primary,   \* [Paths -> Requests or None]: the content of the primary store
    disk,      \* the cache's files that survive a crash, by name
    recs,      \* the record objects; tasks hold them by reference
    entries,   \* the map from paths to record objects
    accounted, \* accounted_bytes
    reqs,      \* the state of each request
    flush,     \* the state of each task inside flush_entry
    crashes

vars == <<primary, disk, recs, entries, accounted, reqs, flush, crashes>>

-----------------------------------------------------------------------------
Tasks == Requests \cup Flushers
\* A record is named by the request that created it, or by its path when a
\* restart loaded it.
RecIds == Requests \cup Paths

\* File names: the fixed name of a first write, the unique name of an update's
\* staged blob, the unique name of a blob copied to the abnormal directory.
BaseFile(p) == <<"queue", p>>
StagedFile(dir, r) == <<dir, r>>
PromotedFile(t, r) == <<"abnormal", t, r>>
FileNames == {BaseFile(p) : p \in Paths}
             \cup {StagedFile(d, r) : d \in {"queue", "abnormal"}, r \in Requests}
             \cup {PromotedFile(t, r) : t \in Tasks, r \in Requests}
FileContent == [val : Requests, size : Nat]

MemoryBlob(r) == <<"memory", r>>
Blobs == FileNames \cup {MemoryBlob(r) : r \in Requests}
InMemory(b) == b[1] = "memory"
InAbnormalDir(b) == b[1] = "abnormal"

Record == [path : Paths, blob : Blobs, size : Nat, gen : Nat,
           state : {"pending", "flushing", "abnormal"}, logged : BOOLEAN]

ASSUME NoneApart == None \notin Blobs /\ None \notin FileContent /\ None \notin Record

\* Where a request is.  "flush" is the forced flush_path, "direct" the write or
\* delete on the primary store; "done" is acknowledged, "failed" returned an error.
ReqState == [pc : {"new", "admit", "store", "insert", "update", "stage", "swap",
                   "cleanup", "flush", "direct", "done", "failed"},
             rec : RecIds \cup {None}, gen : Nat, prev : Nat,
             blob : Blobs \cup {None}]

FlushState == [pc : {"idle", "picked", "read", "write", "check", "remove",
                     "promote", "spill", "replace", "discard", "log", "giveup"},
               rec : RecIds \cup {None}, blob : Blobs \cup {None}, gen : Nat,
               val : Requests \cup {None}, size : Nat, prev : Nat]

IdleFlush == [pc |-> "idle", rec |-> None, blob |-> None, gen |-> 0,
              val |-> None, size |-> 0, prev |-> 0]
NewRequest == [pc |-> "new", rec |-> None, gen |-> 0, prev |-> 0, blob |-> None]

Readable(b) == InMemory(b) \/ disk[b] # None
ContentOf(b) == IF InMemory(b) THEN b[2] ELSE disk[b].val

\* accounted_bytes_for_blob: a memory cache counts blobs in memory, a local_dir
\* cache blobs on disk.
AccountedFor(blob, size) == IF LocalDir = InMemory(blob) THEN 0 ELSE size
RecordBytes(id) == AccountedFor(recs[id].blob, recs[id].size)
FileBytes == [f \in FileNames |-> AccountedFor(f, disk[f].size)]

\* accounted_bytes after `old' accounted bytes are replaced by `new' ones.
ExchangedWithoutReturn(new, old) == (accounted + new) % Word
ExchangedReturnedTwice(new, old) == accounted + new - 2 * old
Exchanged(new, old) == (accounted + new - old) % Word

\* The generation protocol: an update takes the next number, and who captured a
\* blob compares the number it captured with the record's.
NextGeneration(rec) == rec.gen + 1
AnyGeneration(id, gen) == TRUE
SameGeneration(id, gen) == recs[id].gen = gen

\* The state of a record that waits for its next flush.
NeverWaits(rec) == "flushing"
WaitingState(rec) == IF rec.logged THEN "abnormal" ELSE "pending"

\* What a reader of the path gets: the queued blob while there is one that can
\* be read, the primary store otherwise.
Visible(p) == IF entries[p] # None /\ Readable(recs[entries[p]].blob)
              THEN ContentOf(recs[entries[p]].blob)
              ELSE primary[p]

-----------------------------------------------------------------------------
Init ==
    /\ primary = [p \in Paths |-> None]
    /\ disk = [f \in FileNames |-> None]
    /\ recs = [id \in RecIds |-> None]
    /\ entries = [p \in Paths |-> None]
    /\ accounted = 0
    /\ reqs = [r \in Requests |-> NewRequest]
    /\ flush = [t \in Tasks |-> IdleFlush]
    /\ crashes = 0

At(r, pc) == reqs[r].pc = pc
Go(r, pc) == reqs' = [reqs EXCEPT ![r].pc = pc]
Finish(r, pc) == reqs' = [reqs EXCEPT ![r] = [NewRequest EXCEPT !.pc = pc]]

-----------------------------------------------------------------------------
(* enqueue: admission                                                       *)

\* should_cache, then the first half of can_admit: what the path holds already.
Admit(r) ==
    /\ At(r, "new")
    /\ IF Kind[r] = "write" /\ Size[r] > 0 /\ Size[r] <= MaxFileSize /\ Size[r] <= Capacity
       THEN LET id == entries[Target[r]]
            IN reqs' = [reqs EXCEPT ![r].pc = "admit",
                                    ![r].prev = IF id = None THEN 0 ELSE RecordBytes(id)]
       ELSE Go(r, "flush")
    /\ UNCHANGED <<primary, disk, recs, entries, accounted, flush, crashes>>

\* The second half of can_admit, then the lookup that picks update or insert.
Lookup(r) ==
    /\ At(r, "admit")
    /\ LET id == entries[Target[r]]
           rest == IF accounted > reqs[r].prev THEN accounted - reqs[r].prev ELSE 0
       IN IF rest + Size[r] <= Capacity
          THEN reqs' = [reqs EXCEPT ![r].pc = IF id = None THEN "store" ELSE "update",
                                    ![r].rec = id]
          ELSE Go(r, "flush")
    /\ UNCHANGED <<primary, disk, recs, entries, accounted, flush, crashes>>

(* enqueue: first write of a path                                           *)

\* store_blob
Store(r) ==
    /\ At(r, "store")
    /\ IF LocalDir
       THEN /\ disk' = [disk EXCEPT ![BaseFile(Target[r])] = [val |-> r, size |-> Size[r]]]
            /\ reqs' = [reqs EXCEPT ![r].pc = "insert", ![r].blob = BaseFile(Target[r])]
       ELSE /\ disk' = disk
            /\ reqs' = [reqs EXCEPT ![r].pc = "insert", ![r].blob = MemoryBlob(r)]
    /\ UNCHANGED <<primary, recs, entries, accounted, flush, crashes>>

\* The record is accounted and put in the map; whatever the map held for the
\* path is replaced.
Insert(r) ==
    /\ At(r, "insert")
    /\ recs' = [recs EXCEPT ![r] = [path |-> Target[r], blob |-> reqs[r].blob,
                                    size |-> Size[r], gen |-> 1,
                                    state |-> "pending", logged |-> FALSE]]
    /\ entries' = [entries EXCEPT ![Target[r]] = r]
    /\ accounted' = Exchanged(AccountedFor(reqs[r].blob, Size[r]), 0)
    /\ Finish(r, "done")
    /\ UNCHANGED <<primary, disk, flush, crashes>>

(* enqueue: update_existing_entry                                           *)

\* First critical section: the new generation and size are announced before
\* the blob that carries them exists.
BeginUpdate(r) ==
    /\ At(r, "update")
    /\ LET id == reqs[r].rec
           old == recs[id]
       IN /\ recs' = [recs EXCEPT ![id].gen = NextGeneration(old),
                                  ![id].size = Size[r],
                                  ![id].state = WaitingState(old)]
          /\ reqs' = [reqs EXCEPT
                ![r] = [pc |-> IF InMemory(old.blob) /\ ~LocalDir THEN "swap" ELSE "stage",
                         rec |-> id, gen |-> NextGeneration(old), prev |-> RecordBytes(id),
                         blob |-> IF InMemory(old.blob)
                                  THEN (IF LocalDir THEN StagedFile("queue", r) ELSE MemoryBlob(r))
                                  ELSE StagedFile(old.blob[1], r)]]
    /\ UNCHANGED <<primary, disk, entries, accounted, flush, crashes>>

\* store_staged_blob, outside the lock
Stage(r) ==
    /\ At(r, "stage")
    /\ disk' = [disk EXCEPT ![reqs[r].blob] = [val |-> r, size |-> Size[r]]]
    /\ Go(r, "swap")
    /\ UNCHANGED <<primary, recs, entries, accounted, flush, crashes>>

\* Second critical section: the blob is swapped in unless a later update has
\* announced a newer generation.  Either way one file is left to delete: the
\* replaced one or the staged one.
SwapBlob(r) ==
    /\ At(r, "swap")
    /\ LET id == reqs[r].rec
           current == SameGeneration(id, reqs[r].gen)
           new == AccountedFor(reqs[r].blob, recs[id].size)
       IN /\ recs' = IF current THEN [recs EXCEPT ![id].blob = reqs[r].blob] ELSE recs
          /\ accounted' = IF current THEN Exchanged(new, reqs[r].prev) ELSE accounted
          /\ reqs' = [reqs EXCEPT ![r].pc = "cleanup",
                                  ![r].blob = IF current THEN recs[id].blob ELSE @]
    /\ UNCHANGED <<primary, disk, entries, flush, crashes>>

Delete(blob) == IF InMemory(blob) THEN disk ELSE [disk EXCEPT ![blob] = None]

\* The leftover file is removed and the write acknowledged.
CleanUp(r) ==
    /\ At(r, "cleanup")
    /\ disk' = Delete(reqs[r].blob)
    /\ Finish(r, "done")
    /\ UNCHANGED <<primary, recs, entries, accounted, flush, crashes>>

\* A local file cannot be written: try_enqueue_write_cache logs it and
\* write_impl goes on as if the cache had not taken the write.
StoreFails(r) ==
    /\ LocalDir \/ At(r, "stage")
    /\ At(r, "store") \/ At(r, "stage")
    /\ Go(r, "flush")
    /\ UNCHANGED <<primary, disk, recs, entries, accounted, flush, crashes>>

-----------------------------------------------------------------------------
(* flush_entry, run by a background flusher or inside a request            *)

FlushAt(t, pc) == flush[t].pc = pc
\* A task leaves flush_entry: a request goes on after Ok and fails on an error.
Leave(t, ok) ==
    /\ flush' = [flush EXCEPT ![t] = IdleFlush]
    /\ reqs' = IF t \in Requests
               THEN [reqs EXCEPT ![t] = [NewRequest EXCEPT !.pc = IF ok THEN "direct" ELSE "failed"]]
               ELSE reqs

\* The worker finds a due record and takes a permit.  Whether next_retry_at has
\* passed is left open: any record that is not being flushed may be due.
PickDue(t, p) ==
    /\ t \in Flushers /\ FlushAt(t, "idle")
    /\ entries[p] # None /\ recs[entries[p]].state # "flushing"
    /\ flush' = [flush EXCEPT ![t] = [IdleFlush EXCEPT !.pc = "picked", !.rec = entries[p]]]
    /\ UNCHANGED <<primary, disk, recs, entries, accounted, reqs, crashes>>

Pending(p) == entries[p] # None

\* flush_path: a request forces the flush of its path, if anything is pending.
ForceFlush(r) ==
    /\ At(r, "flush") /\ FlushAt(r, "idle")
    /\ IF ~Pending(Target[r])
       THEN Go(r, "direct") /\ UNCHANGED flush
       ELSE /\ flush' = [flush EXCEPT ![r] = [IdleFlush EXCEPT !.pc = "picked",
                                                             !.rec = entries[Target[r]]]]
            /\ UNCHANGED reqs
    /\ UNCHANGED <<primary, disk, recs, entries, accounted, crashes>>

\* A record that is being flushed is left to its flusher, at once and with Ok.
BeginFlush(t) ==
    /\ FlushAt(t, "picked")
    /\ LET id == flush[t].rec
       IN IF recs[id].state = "flushing"
          THEN Leave(t, TRUE) /\ UNCHANGED recs
          ELSE /\ recs' = [recs EXCEPT ![id].state = "flushing"]
               /\ flush' = [flush EXCEPT ![t] = [@ EXCEPT !.pc = "read",
                                !.blob = recs[id].blob, !.gen = recs[id].gen]]
               /\ UNCHANGED reqs
    /\ UNCHANGED <<primary, disk, entries, accounted, crashes>>

\* read_blob_bytes; on an error the record keeps the state "flushing".
ReadBlob(t) ==
    /\ FlushAt(t, "read")
    /\ IF Readable(flush[t].blob)
       THEN /\ flush' = [flush EXCEPT ![t].pc = "write", ![t].val = ContentOf(flush[t].blob)]
            /\ UNCHANGED reqs
       ELSE Leave(t, FALSE)
    /\ UNCHANGED <<primary, disk, recs, entries, accounted, crashes>>

WritePrimary(t) ==
    /\ FlushAt(t, "write")
    /\ primary' = [primary EXCEPT ![recs[flush[t].rec].path] = flush[t].val]
    /\ flush' = [flush EXCEPT ![t].pc = "check"]
    /\ UNCHANGED <<disk, recs, entries, accounted, reqs, crashes>>

PrimaryFailureIgnored(t) ==
    /\ FlushAt(t, "write")
    /\ flush' = [flush EXCEPT ![t].pc = "check"]
    /\ UNCHANGED <<primary, disk, recs, entries, accounted, reqs, crashes>>
\* The primary write fails.  Past the deadline captured at the start the entry is
\* promoted to an abnormal one first; the clock is left open.
PrimaryFails(t) ==
    /\ FlushAt(t, "write")
    /\ \E next \in {"promote", "giveup"} : flush' = [flush EXCEPT ![t].pc = next]
    /\ UNCHANGED <<primary, disk, recs, entries, accounted, reqs, crashes>>

\* The generation check after a successful write.
CheckGeneration(t) ==
    /\ FlushAt(t, "check")
    /\ LET id == flush[t].rec
       IN IF ~SameGeneration(id, flush[t].gen)
          THEN /\ recs' = [recs EXCEPT ![id].state = "pending"]
               /\ Leave(t, TRUE)
               /\ UNCHANGED <<disk, accounted>>
          ELSE /\ accounted' = Exchanged(0, RecordBytes(id))
               /\ disk' = Delete(recs[id].blob)
               /\ flush' = [flush EXCEPT ![t].pc = "remove"]
               /\ UNCHANGED <<recs, reqs>>
    /\ UNCHANGED <<primary, entries, crashes>>

\* entries.remove, after the record's lock is released
RemoveEntry(t) ==
    /\ FlushAt(t, "remove")
    /\ entries' = [entries EXCEPT ![recs[flush[t].rec].path] = None]
    /\ Leave(t, TRUE)
    /\ UNCHANGED <<primary, disk, recs, accounted, crashes>>

(* promote_to_abnormal: the data moves to a file of the abnormal directory  *)

\* First critical section of promote_to_abnormal.
Promote(t) ==
    /\ FlushAt(t, "promote")
    /\ LET id == flush[t].rec
       IN IF InAbnormalDir(recs[id].blob)
          THEN /\ recs' = [recs EXCEPT ![id].state = "abnormal"]
               /\ flush' = [flush EXCEPT ![t].pc = "giveup"]
          ELSE /\ flush' = [flush EXCEPT ![t] = [@ EXCEPT !.pc = "spill", !.gen = recs[id].gen,
                                !.size = recs[id].size, !.prev = RecordBytes(id)]]
               /\ UNCHANGED recs
    /\ UNCHANGED <<primary, disk, entries, accounted, reqs, crashes>>

\* The data captured when the flush began is staged; staging may fail.
Spill(t) ==
    /\ FlushAt(t, "spill")
    /\ \/ /\ disk' = [disk EXCEPT ![PromotedFile(t, flush[t].val)] =
                            [val |-> flush[t].val, size |-> flush[t].size]]
          /\ flush' = [flush EXCEPT ![t].pc = "replace"]
       \/ /\ flush' = [flush EXCEPT ![t].pc = "giveup"]
          /\ UNCHANGED disk
    /\ UNCHANGED <<primary, recs, entries, accounted, reqs, crashes>>

\* Second critical section: swap, unless the generation moved meanwhile.
Replace(t) ==
    /\ FlushAt(t, "replace")
    /\ LET id == flush[t].rec
           file == PromotedFile(t, flush[t].val)
       IN IF SameGeneration(id, flush[t].gen)
          THEN /\ recs' = [recs EXCEPT ![id].blob = file, ![id].state = "abnormal"]
               /\ accounted' = Exchanged(AccountedFor(file, recs[id].size), flush[t].prev)
               /\ flush' = [flush EXCEPT ![t].pc = "log", ![t].blob = recs[id].blob]
          ELSE /\ flush' = [flush EXCEPT ![t].pc = "discard", ![t].blob = file]
               /\ UNCHANGED <<recs, accounted>>
    /\ UNCHANGED <<primary, disk, entries, reqs, crashes>>

Discard(t) ==
    /\ FlushAt(t, "discard")
    /\ disk' = Delete(flush[t].blob)
    /\ flush' = [flush EXCEPT ![t].pc = "giveup"]
    /\ UNCHANGED <<primary, recs, entries, accounted, reqs, crashes>>

\* The first promotion of a record marks it and removes the replaced file; a
\* second one leaves the file behind.
LogAbnormal(t) ==
    /\ FlushAt(t, "log")
    /\ LET id == flush[t].rec
       IN IF recs[id].logged
          THEN /\ flush' = [flush EXCEPT ![t].pc = "giveup"]
               /\ UNCHANGED <<disk, recs, reqs>>
          ELSE /\ recs' = [recs EXCEPT ![id].logged = TRUE, ![id].state = "abnormal"]
               /\ disk' = Delete(flush[t].blob)
               /\ Leave(t, FALSE)
    /\ UNCHANGED <<primary, entries, accounted, crashes>>

GiveUp(t) ==
    /\ FlushAt(t, "giveup")
    /\ LET id == flush[t].rec
       IN recs' = [recs EXCEPT ![id].state = WaitingState(recs[id])]
    /\ Leave(t, FALSE)
    /\ UNCHANGED <<primary, disk, entries, accounted, crashes>>

-----------------------------------------------------------------------------
(* The operation on the primary store, after flush_path returned Ok         *)

DirectWrite(r) ==
    /\ At(r, "direct") /\ FlushAt(r, "idle") /\ Kind[r] = "write"
    /\ \/ primary' = [primary EXCEPT ![Target[r]] = r] /\ Finish(r, "done")
       \/ UNCHANGED primary /\ Finish(r, "failed")
    /\ UNCHANGED <<disk, recs, entries, accounted, flush, crashes>>

\* delete_impl: a file that neither the cache nor the store has is an error.
DirectDelete(r) ==
    /\ At(r, "direct") /\ FlushAt(r, "idle") /\ Kind[r] = "delete"
    /\ \/ /\ primary[Target[r]] # None
          /\ primary' = [primary EXCEPT ![Target[r]] = None]
          /\ Finish(r, "done")
       \/ UNCHANGED primary /\ Finish(r, "failed")
    /\ UNCHANGED <<disk, recs, entries, accounted, flush, crashes>>

-----------------------------------------------------------------------------
(* Crash and restart                                                        *)

\* The path recorded in a file's json.
PathOf(file) == Target[disk[file].val]

\* The files a restart finds for a path, and the ones whose entry survives the
\* load: the directories are read in turn, each in an arbitrary order, and every
\* file replaces the entry loaded before it.
Loadable == {f \in FileNames : disk[f] # None /\ (LocalDir \/ InAbnormalDir(f))}
FilesOf(p) == {f \in Loadable : PathOf(f) = p}
LastLoaded(p) == LET spilled == {f \in FilesOf(p) : InAbnormalDir(f)}
                 IN IF spilled # {} THEN spilled ELSE FilesOf(p)

\* The process dies and starts again: records, entries and tasks are gone, and
\* load_existing_entries queues what the files hold.  Every loaded file is
\* accounted, also one whose entry is replaced at once.
Restart ==
    /\ crashes < MaxCrashes
    /\ crashes' = crashes + 1
    /\ \E chosen \in [Paths -> Loadable \cup {None}] :
         /\ \A p \in Paths : IF FilesOf(p) = {} THEN chosen[p] = None
                                             ELSE chosen[p] \in LastLoaded(p)
         /\ entries' = [p \in Paths |-> IF chosen[p] = None THEN None ELSE p]
         /\ recs' = [id \in RecIds |->
                IF id \in Paths /\ chosen[id] # None
                THEN [path |-> id, blob |-> chosen[id], size |-> disk[chosen[id]].size, gen |-> 1,
                      state |-> IF InAbnormalDir(chosen[id]) THEN "abnormal" ELSE "pending",
                      logged |-> InAbnormalDir(chosen[id])]
                ELSE None]
    /\ accounted' = MapThenSumSet(LAMBDA f : FileBytes[f], Loadable) % Word
    /\ reqs' = [r \in Requests |-> IF reqs[r].pc \in {"new", "done", "failed"} THEN reqs[r]
                                    ELSE [NewRequest EXCEPT !.pc = "failed"]]
    /\ flush' = [t \in Tasks |-> IdleFlush]
    /\ UNCHANGED <<primary, disk>>

-----------------------------------------------------------------------------
Enqueue(r) == Admit(r) \/ Lookup(r) \/ Store(r) \/ Insert(r) \/ BeginUpdate(r)
              \/ Stage(r) \/ SwapBlob(r) \/ CleanUp(r) \/ StoreFails(r)
FlushSteps(t) == BeginFlush(t) \/ ReadBlob(t) \/ WritePrimary(t) \/ PrimaryFails(t)
                 \/ CheckGeneration(t) \/ RemoveEntry(t) \/ Promote(t) \/ Spill(t)
                 \/ Replace(t) \/ Discard(t) \/ LogAbnormal(t) \/ GiveUp(t)
Direct(r) == ForceFlush(r) \/ DirectWrite(r) \/ DirectDelete(r)

Next == \/ \E r \in Requests : Enqueue(r) \/ Direct(r)
        \/ \E t \in Flushers, p \in Paths : PickDue(t, p)
        \/ \E t \in Tasks : FlushSteps(t)
        \/ Restart

Spec == Init /\ [][Next]_vars

\* Tasks run on.  The worker scans every entry in each round, so it comes to
\* each path again and again; the primary store does not fail for ever.
Fairness == /\ \A r \in Requests : WF_vars(~At(r, "new") /\ (Enqueue(r) \/ Direct(r)))
            /\ \A t \in Tasks : WF_vars(FlushSteps(t)) /\ SF_vars(WritePrimary(t))
            /\ \A p \in Paths : SF_vars(\E t \in Flushers : PickDue(t, p))
FairSpec == Spec /\ Fairness

-----------------------------------------------------------------------------
(* Properties                                                               *)

\* Every variable has its type; the accounting stays within its word.
TypeOK ==
    /\ primary \in [Paths -> Requests \cup {None}]
    /\ disk \in [FileNames -> FileContent \cup {None}]
    /\ recs \in [RecIds -> Record \cup {None}]
    /\ entries \in [Paths -> RecIds \cup {None}]
    /\ accounted \in 0..(Word - 1)
    /\ reqs \in [Requests -> ReqState]
    /\ flush \in [Tasks -> FlushState]
    /\ crashes \in 0..MaxCrashes

Done(r) == reqs[r].pc = "done"
\* A flush has passed its generation check but not yet removed its entry.
Removing(p) == \E t \in Tasks : FlushAt(t, "remove") /\ recs[flush[t].rec].path = p

\* r is a write, acknowledged, of a path that no other request names.
AcknowledgedAlone(r) == /\ Done(r) /\ Kind[r] = "write"
                        /\ \A q \in Requests \ {r} : Target[q] # Target[r]

\* An acknowledged write of a path no other request names can be read, from the
\* cache or from the primary store, in every later state: through failed
\* flushes, the promotion to an abnormal entry and, with local_dir, a crash.
AcknowledgedIsVisible == \A r \in Requests : AcknowledgedAlone(r) => Visible(Target[r]) = r

\* Such a write reaches the primary store, whatever flushes fail before and
\* wherever the data was moved meanwhile.
AcknowledgedIsFlushed ==
    \A r \in Requests : AcknowledgedAlone(r) ~> primary[Target[r]] = r

BytesOf(p) == IF entries[p] = None \/ Removing(p) THEN 0 ELSE RecordBytes(entries[p])
HeldBytes == [p \in Paths |-> BytesOf(p)]

\* The bytes admission control works with are those of the records in the map
\* (but for a record whose flush has just given them back).  A restart that
\* finds two files of one path counts both, so after a crash they may exceed
\* them; they never fall below.
AccountingIsExact ==
    LET bytes == MapThenSumSet(LAMBDA p : HeldBytes[p], Paths)
    IN IF crashes = 0 THEN accounted = bytes ELSE accounted >= bytes
=============================================================================
