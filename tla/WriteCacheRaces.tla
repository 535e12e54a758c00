-------------------------- MODULE WriteCacheRaces --------------------------
(***************************************************************************)
(* Which interleavings of one path's writers and flushers can the          *)
(* generation protocol of write_cache.rs not repair?  Race below names the *)
(* windows that the protocol leaves open, each as a relation between a     *)
(* step's two states.  OrderlySpec has the behaviours that hit none of     *)
(* them, and there the cache implements PathStore: every overlap of        *)
(* writes, deletes, flushes, failures and promotions leaves the path as    *)
(* some order of the requests would.                                       *)
(***************************************************************************)
EXTENDS WriteCache

VARIABLE before   \* [Requests -> SUBSET Requests]: returned before the request began

Running(r) == reqs[r].pc \notin {"new", "done", "failed"}
Returned(r) == reqs[r].pc \in {"done", "failed"}
\* A task between capturing a record's data and the end of flush_entry.
FlushingPath(t, p) == flush[t].pc \notin {"idle", "picked"} /\ recs[flush[t].rec].path = p
UpdateOpen(id) == \E r \in Requests : reqs[r].pc \in {"stage", "swap"} /\ reqs[r].rec = id

\* A flush captures the old blob under the generation of an update that has not
\* swapped its own in yet.
CaptureInsideUpdate(p) ==
    \E t \in Tasks : FlushAt(t, "picked") /\ flush'[t].pc = "read"
                     /\ recs[flush[t].rec].path = p /\ UpdateOpen(flush[t].rec)
\* A flush starts while another one works on the path: an update has put a
\* record that is being flushed back to pending.
TwoFlushes(p) ==
    \E t \in Tasks : FlushAt(t, "picked") /\ flush'[t].pc = "read"
                     /\ recs[flush[t].rec].path = p
                     /\ \E s \in Tasks : FlushingPath(s, p)
\* An update starts on a record that left the map, or is about to.
UpdateOfDetached(p) ==
    \E r \in Requests : At(r, "update") /\ reqs'[r].pc # "update" /\ Target[r] = p
                        /\ (entries[p] # reqs[r].rec \/ Removing(p))
\* Two updates of one record overlap: the second takes the first one's size for
\* accounted already.
OverlappingUpdates(p) ==
    \E r \in Requests : At(r, "update") /\ reqs'[r].pc # "update" /\ Target[r] = p
                        /\ UpdateOpen(reqs[r].rec)
\* Two first writes of a path overlap: they share the queue file, and the second
\* record replaces the first.
TwoFirstWrites(p) ==
    \E r \in Requests : /\ At(r, "store") /\ reqs'[r].pc = "insert" /\ Target[r] = p
                        /\ \/ entries[p] # None
                           \/ \E s \in Requests \ {r} : Target[s] = p /\ reqs[s].pc = "insert"
\* The staged file of an update cannot be written: the record keeps the new size
\* and generation with the old blob.
UpdateTorn(p) ==
    \E r \in Requests : At(r, "stage") /\ reqs'[r].pc = "flush" /\ Target[r] = p
\* A promotion replaces the blob of a later write by the data of an older flush.
StalePromotion(p) ==
    \E t \in Tasks : FlushAt(t, "promote") /\ recs[flush[t].rec].path = p
                     /\ flush'[t].pc = "spill" /\ recs[flush[t].rec].gen # flush[t].gen
\* The primary store is changed while an older write of the path is still queued
\* or in flight: flush_path returned Ok without having flushed it.
DirectBeforeFlush(p) ==
    \E r \in Requests :
        /\ At(r, "direct") /\ reqs'[r].pc = "done" /\ Target[r] = p
        /\ \/ entries[p] # None /\ Readable(recs[entries[p]].blob)
              /\ ContentOf(recs[entries[p]].blob) \in before[r]
           \/ \E t \in Tasks : FlushingPath(t, p) /\ flush[t].val \in before[r]
\* An update removes its leftover file after the path's next first write has
\* taken the name again.
LateCleanUp(p) ==
    \E r \in Requests : /\ At(r, "cleanup") /\ reqs'[r].pc = "done" /\ Target[r] = p
                         /\ \/ entries[p] # None /\ recs[entries[p]].blob = reqs[r].blob
                            \/ \E s \in Requests \ {r} : At(s, "insert") /\ reqs[s].blob = reqs[r].blob

\* A restart loads a file that is not the blob of the path's record: the one an
\* update or promotion replaced but had not removed yet, or the one it had staged.
LeftoverLoaded(p) ==
    /\ crashes' # crashes
    /\ \E f \in FilesOf(p) : /\ entries[p] = None \/ f # recs[entries[p]].blob
                             /\ ~\E r \in Requests : At(r, "insert") /\ reqs[r].blob = f

Race(p) == \/ CaptureInsideUpdate(p) \/ TwoFlushes(p) \/ UpdateOfDetached(p)
           \/ OverlappingUpdates(p) \/ TwoFirstWrites(p) \/ UpdateTorn(p)
           \/ StalePromotion(p) \/ DirectBeforeFlush(p)
           \/ LateCleanUp(p) \/ LeftoverLoaded(p)

InitHistory == Init /\ before = [r \in Requests |-> {}]
NextHistory == /\ Next
               /\ before' = [r \in Requests |->
                               IF At(r, "new") /\ reqs'[r].pc # "new"
                               THEN {s \in Requests : Returned(s)} ELSE before[r]]

HistorySpec == InitHistory /\ [][NextHistory]_<<vars, before>>

Orderly == NextHistory /\ \A p \in Paths : ~Race(p)
OrderlySpec == InitHistory /\ [][Orderly]_<<vars, before>>

-----------------------------------------------------------------------------
\* No request of the path is under way and no task flushes it.
Quiet(p) == /\ \A r \in Requests : Target[r] = p => ~Running(r)
            /\ \A t \in Tasks : flush[t].pc = "idle" \/ recs[flush[t].rec].path # p

Phase(r) == IF reqs[r].pc \in {"new", "done", "failed"} THEN reqs[r].pc ELSE "running"
Promised == INSTANCE PathStore WITH content <- [p \in Paths |-> Visible(p)],
                                 phase <- [r \in Requests |-> Phase(r)]

\* The cache and the store behind it look like one store whose operations are
\* atomic: an acknowledged write or delete is undone by no flush, retry or
\* promotion of older data, not even for a moment.
AtomicPaths == Promised!Spec

\* Once the requests of a path have returned and its flushes ended, the path
\* holds the effect of a request no acknowledged one was issued after, if any was
\* acknowledged.  Checked over all behaviours (HistorySpec), it states what the
\* configuration's documentation says of acknowledged writes.
QuietPathHoldsLatest ==
    \A p \in Paths :
        (Quiet(p) /\ \E r \in Requests : Target[r] = p /\ Done(r))
            => \E r \in Promised!Latest(p) : Visible(p) = Promised!Effect(r)

\* While no flush is between its accounting and its removal, the accounted bytes
\* are those of the record in the map: updates, promotions and their file clean-up
\* neither leak admission capacity nor free it twice.
QuietAccountingIsExact ==
    (\A r \in Requests : ~Running(r)) => AccountingIsExact
=============================================================================
