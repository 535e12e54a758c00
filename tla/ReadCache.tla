----------------------------- MODULE ReadCache -----------------------------
(***************************************************************************)
(* The read cache of a pool (src/vfs/cache/read_cache.rs, kept in a local  *)
(* directory) and what goes on around it: reads (VfsPool::read), direct    *)
(* writes and deletes, and writes through the write cache, whose flush     *)
(* fills the read cache (flush_entry of src/vfs/cache/write_cache.rs).     *)
(*                                                                         *)
(* Every map operation and every I/O call is a step.  A content is the     *)
(* request that wrote it, or Old.  The write cache is only what a reader   *)
(* sees of it: the content that is pending for a key.                      *)
(***************************************************************************)
EXTENDS Integers, FiniteSets, FiniteSetsExt

CONSTANTS
    Readings,     \* requests, each issued at most once
    Keys,         \* physical paths
    KeySize,      \* [Keys -> Nat]: bytes of each blob
    CacheRoom,    \* capacity_bytes
    MaxReadFails, \* bound on the calls of the store and the cache's disk that fail
    MaxRestarts,  \* bound on the restarts in one behaviour
    Old, Absent

\* What an entry of the map may be; Absent is none, and no key or request.
Held == [info : Readings \cup {Old, Absent}, by : Readings, expired : BOOLEAN]
ASSUME ReadAssumption ==
    /\ Absent \notin Readings \cup Keys \cup Held
    /\ IsFiniteSet(Keys) /\ KeySize \in [Keys -> Nat]

VARIABLES
    primary,      \* [Keys -> contents or Absent]: the primary operator
    pending,      \* [Keys -> contents or Absent]: what the write cache still holds
    entry,        \* [Keys -> record or Absent]: the map of entries
    bin, json,    \* [Keys -> record or Absent]: the two files of a key
    accounted,    \* accounted_bytes
    reading,      \* [Readings -> local state of a request]
    restarts, readFails

readVars == <<primary, pending, entry, bin, json, accounted, reading, restarts, readFails>>

ReadKinds == {"read", "write", "delete", "cached"}
Caching == {"read", "cached"}
\* met, twin (histories): a request that changes the key, one that may cache it, was
\* under way beside this one.
\* next: where the removal of an entry's files continues.
Fresh == [pc |-> "new", kind |-> "read", key |-> CHOOSE k \in Keys : TRUE,
          data |-> Absent, info |-> Absent, victim |-> Absent, next |-> "end",
          met |-> FALSE, twin |-> FALSE]
Going(t) == reading[t].pc \notin {"new", "end"}
Changing(t) == Going(t) /\ reading[t].kind # "read"
KeyOf(t) == reading[t].key
AtRead(t, at) == reading[t].pc = at

ReadInit ==
    /\ primary = [k \in Keys |-> Old]
    /\ pending = [k \in Keys |-> Absent]
    /\ entry = [k \in Keys |-> Absent] /\ bin = entry /\ json = entry
    /\ accounted = 0
    /\ reading = [t \in Readings |-> Fresh]
    /\ restarts = 0 /\ readFails = 0

Wrote(t, k) == \/ bin[k] # Absent /\ bin[k].by = t
               \/ json[k] # Absent /\ json[k].by = t
Step(t, next) == reading' = [reading EXCEPT ![t].pc = next]
Fails == readFails < MaxReadFails /\ readFails' = readFails + 1

\* ReadCacheManager::remove: the entry leaves the map and its bytes are returned;
\* its files are removed by the steps after.
UnmapForgetful(t, k, next) ==
    IF entry[k] = Absent
    THEN Step(t, next) /\ UNCHANGED <<entry, accounted>>
    ELSE /\ entry' = [entry EXCEPT ![k] = Absent]
         /\ UNCHANGED accounted
         /\ reading' = [reading EXCEPT ![t].pc = "rmBin", ![t].victim = k, ![t].next = next]
Unmap(t, k, next) ==
    IF entry[k] = Absent
    THEN Step(t, next) /\ UNCHANGED <<entry, accounted>>
    ELSE /\ entry' = [entry EXCEPT ![k] = Absent]
         /\ accounted' = accounted - KeySize[k]
         /\ reading' = [reading EXCEPT ![t].pc = "rmBin", ![t].victim = k, ![t].next = next]
RemoveBin(t) ==
    /\ AtRead(t, "rmBin")
    /\ bin' = [bin EXCEPT ![reading[t].victim] = Absent]
    /\ Step(t, "rmJson")
    /\ UNCHANGED <<primary, pending, entry, json, accounted, restarts, readFails>>
RemoveJson(t) ==
    /\ AtRead(t, "rmJson")
    /\ json' = [json EXCEPT ![reading[t].victim] = Absent]
    /\ reading' = [reading EXCEPT ![t].pc = reading[t].next, ![t].victim = Absent]
    /\ UNCHANGED <<primary, pending, entry, bin, accounted, restarts, readFails>>

-----------------------------------------------------------------------------
(* Requests                                                                 *)

\* A direct change of a key begins by flushing what is pending for it, so that the
\* two do not overlap here.
BeginReading(t) ==
    /\ AtRead(t, "new")
    /\ \E kind \in ReadKinds, k \in Keys :
         /\ kind # "read" => \A u \in Readings : Changing(u) => KeyOf(u) # k
         /\ LET beside == {u \in Readings : Going(u) /\ KeyOf(u) = k}
                caches == {u \in beside : kind \in Caching /\ reading[u].kind \in Caching}
                meets == {u \in beside : kind # "read" \/ Changing(u)}
            IN reading' = [u \in Readings |->
                 IF u = t THEN [Fresh EXCEPT !.pc = IF kind = "read" THEN "pending" ELSE "drop",
                                             !.kind = kind, !.key = k, !.data = t, !.info = t,
                                             !.met = meets # {}, !.twin = caches # {}]
                 ELSE [reading[u] EXCEPT !.met = @ \/ (u \in meets /\ kind # "read"),
                                         !.twin = @ \/ u \in caches]]
    /\ UNCHANGED <<primary, pending, entry, bin, json, accounted, restarts, readFails>>

\* VfsPool::read asks the write cache, then the read cache.
AskWriteCache(t) ==
    /\ AtRead(t, "pending")
    /\ Step(t, IF pending[KeyOf(t)] # Absent THEN "end" ELSE "get")
    /\ UNCHANGED <<primary, pending, entry, bin, json, accounted, restarts, readFails>>

\* get clones a live entry and reads its blob afterwards; an expired one is removed.
Get(t) ==
    /\ AtRead(t, "get")
    /\ LET k == KeyOf(t) IN
       IF entry[k] # Absent /\ entry[k].expired THEN Unmap(t, k, "fetch")
       ELSE Step(t, IF entry[k] = Absent THEN "fetch" ELSE "blob") /\ UNCHANGED <<entry, accounted>>
    /\ UNCHANGED <<primary, pending, bin, json, restarts, readFails>>
ReadBlobFile(t) ==
    /\ AtRead(t, "blob")
    /\ \/ /\ bin[KeyOf(t)] # Absent /\ Step(t, "end")
          /\ UNCHANGED <<entry, accounted, readFails>>
       \/ /\ Unmap(t, KeyOf(t), "fetch")
          /\ IF bin[KeyOf(t)] = Absent THEN UNCHANGED readFails ELSE Fails
    /\ UNCHANGED <<primary, pending, bin, json, restarts>>

\* The primary's data and its stat are two calls.  Without the primary the backup
\* answers, and nothing is cached.
Fetch(t) ==
    /\ AtRead(t, "fetch")
    /\ \/ /\ primary[KeyOf(t)] # Absent
          /\ reading' = [reading EXCEPT ![t].pc = "stat", ![t].data = primary[KeyOf(t)]]
          /\ UNCHANGED readFails
       \/ Step(t, "end") /\ IF primary[KeyOf(t)] = Absent THEN UNCHANGED readFails ELSE Fails
    /\ UNCHANGED <<primary, pending, entry, bin, json, accounted, restarts>>
StatFetched(t) ==
    /\ AtRead(t, "stat")
    /\ \/ /\ primary[KeyOf(t)] # Absent
          /\ reading' = [reading EXCEPT ![t].pc = "put", ![t].info = primary[KeyOf(t)]]
          /\ UNCHANGED readFails
       \/ Step(t, "end") /\ IF primary[KeyOf(t)] = Absent THEN UNCHANGED readFails ELSE Fails
    /\ UNCHANGED <<primary, pending, entry, bin, json, accounted, restarts>>

\* Every change removes the entry first: invalidate_read_cache in the pool, remove
\* in enqueue.
KeepEntry(t) ==
    /\ AtRead(t, "drop")
    /\ Step(t, IF reading[t].kind = "cached" THEN "enqueue" ELSE "change")
    /\ UNCHANGED <<primary, pending, entry, bin, json, accounted, restarts, readFails>>
DropEntry(t) ==
    /\ AtRead(t, "drop")
    /\ Unmap(t, KeyOf(t), IF reading[t].kind = "cached" THEN "enqueue" ELSE "change")
    /\ UNCHANGED <<primary, pending, bin, json, restarts, readFails>>
ChangePrimary(t) ==
    /\ AtRead(t, "change")
    /\ \/ /\ primary' = [primary EXCEPT ![KeyOf(t)] =
                           IF reading[t].kind = "delete" THEN Absent ELSE t]
          /\ UNCHANGED readFails
       \/ Fails /\ UNCHANGED primary
    /\ Step(t, "end")
    /\ UNCHANGED <<pending, entry, bin, json, accounted, restarts>>

Enqueue(t) ==
    /\ AtRead(t, "enqueue")
    /\ pending' = [pending EXCEPT ![KeyOf(t)] = t]
    /\ Step(t, "flush")
    /\ UNCHANGED <<primary, entry, bin, json, accounted, restarts, readFails>>

\* The background flush: the store is written, then the record leaves the write
\* cache, and only then is the read cache filled.
FlushPending(t) ==
    /\ AtRead(t, "flush")
    /\ primary' = [primary EXCEPT ![KeyOf(t)] = t]
    /\ Step(t, "flushed")
    /\ UNCHANGED <<pending, entry, bin, json, accounted, restarts, readFails>>
DropPending(t) ==
    /\ AtRead(t, "flushed")
    /\ pending' = [pending EXCEPT ![KeyOf(t)] = Absent]
    /\ reading' = [reading EXCEPT ![t].pc = "put", ![t].data = t, ![t].info = t]
    /\ UNCHANGED <<primary, entry, bin, json, accounted, restarts, readFails>>

-----------------------------------------------------------------------------
(* ReadCacheManager::put                                                    *)

Used == MapThenSumSet(LAMBDA k : KeySize[k], {k \in Keys : entry[k] # Absent})
Cacheable(k) == KeySize[k] > 0 /\ KeySize[k] <= CacheRoom

PutRemove(t) ==
    /\ AtRead(t, "put")
    /\ IF Cacheable(KeyOf(t)) THEN Unmap(t, KeyOf(t), "room")
       ELSE Step(t, "end") /\ UNCHANGED <<entry, accounted>>
    /\ UNCHANGED <<primary, pending, bin, json, restarts, readFails>>

\* ensure_capacity: expired entries go, then the oldest, until the blob fits.  Which
\* one is the oldest is left open.
MakeRoom(t) ==
    /\ AtRead(t, "room")
    /\ LET fits == accounted + KeySize[KeyOf(t)] <= CacheRoom
           mapped == {k \in Keys : entry[k] # Absent}
       IN \/ fits /\ Step(t, "bin") /\ UNCHANGED <<entry, accounted>>
          \/ \E k \in mapped : (~fits \/ entry[k].expired) /\ Unmap(t, k, "room")
          \/ ~fits /\ mapped = {} /\ Step(t, "end") /\ UNCHANGED <<entry, accounted>>
    /\ UNCHANGED <<primary, pending, bin, json, restarts, readFails>>

\* The blob's file, then the json; if either fails both are removed.
WriteBin(t) ==
    /\ AtRead(t, "bin")
    /\ \/ /\ bin' = [bin EXCEPT ![KeyOf(t)] = [data |-> reading[t].data, by |-> t]]
          /\ Step(t, "json") /\ UNCHANGED readFails
       \/ /\ Fails /\ UNCHANGED bin
          /\ reading' = [reading EXCEPT ![t].pc = "rmBin", ![t].victim = KeyOf(t), ![t].next = "end"]
    /\ UNCHANGED <<primary, pending, entry, json, accounted, restarts>>
WriteJson(t) ==
    /\ AtRead(t, "json")
    /\ \/ /\ json' = [json EXCEPT ![KeyOf(t)] = [info |-> reading[t].info, by |-> t]]
          /\ Step(t, "insert") /\ UNCHANGED readFails
       \/ /\ Fails /\ UNCHANGED json
          /\ reading' = [reading EXCEPT ![t].pc = "rmBin", ![t].victim = KeyOf(t), ![t].next = "end"]
    /\ UNCHANGED <<primary, pending, entry, bin, accounted, restarts>>

\* The bytes are added and the entry is inserted, over one that another put may
\* have inserted since: that one's bytes stay accounted.
InsertEntry(t) ==
    /\ AtRead(t, "insert")
    /\ accounted' = accounted + KeySize[KeyOf(t)]
    /\ entry' = [entry EXCEPT ![KeyOf(t)] =
                   [info |-> reading[t].info, by |-> t, expired |-> FALSE]]
    /\ Step(t, "end")
    /\ UNCHANGED <<primary, pending, bin, json, restarts, readFails>>

-----------------------------------------------------------------------------
(* Time and restarts                                                        *)

Expire(k) ==
    /\ entry[k] # Absent /\ ~entry[k].expired
    /\ entry' = [entry EXCEPT ![k].expired = TRUE]
    /\ UNCHANGED <<primary, pending, bin, json, accounted, reading, restarts, readFails>>

\* load_existing_entries: a json with its blob becomes an entry; a json without
\* one, or one that has expired, is removed, and of the latter the blob too.  What
\* the write cache had accepted is flushed after the restart.
RestartPool ==
    /\ restarts < MaxRestarts /\ restarts' = restarts + 1
    /\ \E dead \in SUBSET {k \in Keys : json[k] # Absent} :
       LET loaded == {k \in Keys \ dead : json[k] # Absent /\ bin[k] # Absent}
       IN /\ entry' = [k \in Keys |->
                IF k \in loaded
                THEN [info |-> json[k].info, by |-> json[k].by, expired |-> FALSE]
                ELSE Absent]
          /\ json' = [k \in Keys |-> IF k \in loaded THEN json[k] ELSE Absent]
          /\ bin' = [k \in Keys |-> IF k \in dead THEN Absent ELSE bin[k]]
          /\ accounted' = MapThenSumSet(LAMBDA k : KeySize[k], loaded)
    /\ reading' = [t \in Readings |->
         [reading[t] EXCEPT
             !.pc = IF ~Going(t) THEN @ ELSE IF pending[KeyOf(t)] = t THEN "flush" ELSE "end",
             !.victim = Absent, !.twin = FALSE,
             !.met = @ \/ \E u \in Readings : reading[u].victim # Absent /\ Wrote(t, reading[u].victim)]]
    /\ UNCHANGED <<primary, pending, readFails>>

ReadingStep(t) ==
    \/ BeginReading(t) \/ AskWriteCache(t) \/ Get(t) \/ ReadBlobFile(t) \/ Fetch(t)
    \/ StatFetched(t) \/ DropEntry(t) \/ ChangePrimary(t) \/ Enqueue(t)
    \/ FlushPending(t) \/ DropPending(t) \/ PutRemove(t) \/ MakeRoom(t)
    \/ WriteBin(t) \/ WriteJson(t) \/ InsertEntry(t) \/ RemoveBin(t) \/ RemoveJson(t)

ReadNext == \/ \E t \in Readings : ReadingStep(t)
            \/ \E k \in Keys : Expire(k)
            \/ RestartPool
ReadSpec == ReadInit /\ [][ReadNext]_readVars

-----------------------------------------------------------------------------
(* Properties                                                               *)

\* Whatever expires, fails or is evicted, the accounted bytes are those of the
\* entries; requests which cache one key side by side can make them more, never
\* less, so that the unsigned counter does not wrap.
CacheBytesAreExact ==
    /\ accounted >= Used
    /\ (\A t \in Readings : ~reading[t].twin) => accounted = Used

\* A cached blob and its metadata are at every moment those of the store, if no change
\* of the key ran beside the request that cached them and no restart cut the removal of
\* their files short: neither a failure nor a restart alone brings an old content back.
StaleOnlyFromOverlap ==
    \A k \in Keys :
        /\ entry[k] # Absent /\ ~reading[entry[k].by].met
        /\ bin[k] # Absent /\ ~reading[bin[k].by].met
        => entry[k].info = primary[k] /\ bin[k].data = primary[k]
=============================================================================
