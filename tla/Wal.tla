-------------------------------- MODULE Wal --------------------------------
(***************************************************************************)
(* The write-ahead log of one user's file operations (src/vfs/wal/mod.rs), *)
(* the operations that write it (write_impl, delete_impl, move_file_impl,  *)
(* copy_file_impl, create_dir_impl of src/vfs/scoped/write.rs and the      *)
(* recycle bin's two moves in src/vfs/scoped/ops.rs), its recovery, and    *)
(* the maintenance lock between them (src/vfs/maintenance_mode.rs).        *)
(*                                                                         *)
(* An operation changes the store, then the index, and moves its log row   *)
(* along; nothing spans the three, so every step is an action and a crash  *)
(* may come between any two.  A file's content is the operation that made  *)
(* it (or its path, for a file that was there from the start); an index    *)
(* row holds the content it describes.                                     *)
(***************************************************************************)
EXTENDS Naturals, Sequences, SequencesExt

CONSTANTS
    Ops,         \* operations, each issued at most once
    Paths,
    Runs,        \* calls of recover_all or replay_issue that may overlap
    Requests,    \* what may be asked; from = to where there is one path
    Skippable,   \* those of them whose log row may be skipped
    Initially,   \* files that are there from the start
    MaxCrashes,  \* bound on the restarts of one behaviour
    MaxReads,    \* bound on the recoveries started in one behaviour
    MaxFaults,   \* bound on the calls of the store or the database that fail
    None

Relocates == {"move", "trash", "restore"}
Kinds == {"write", "delete", "mkdir", "copy"} \cup Relocates

ASSUME WalAssumption ==
    /\ Requests \subseteq [kind : Kinds, from : Paths, to : Paths]
    /\ \A r \in Requests : (r.kind \in {"write", "delete", "mkdir"}) = (r.from = r.to)
    /\ Skippable \subseteq Requests /\ Initially \subseteq Paths
    /\ MaxCrashes \in Nat /\ MaxReads \in Nat /\ MaxFaults \in Nat
    /\ Ops \cap Paths = {} /\ None \notin Ops \cup Paths \cup Requests

VARIABLES
    store,    \* [Paths -> Ops, Paths or None]: the primary store
    index,    \* [Paths -> Ops, Paths or None]: rows of the file index
    req,      \* [Ops -> Requests or None]: what the operation is to do
    log,      \* [Ops -> status of the operation's row]
    order,    \* the operations with a row, by row id
    pc,       \* [Ops -> where the operation is]
    rec,      \* [Runs -> the state of a recovery]
    locked,   \* the user is in LOCKED_USERS
    before,   \* history: what had ended when an operation began
    crashes, reads, faults

vars == <<store, index, req, log, order, pc, rec, locked, before, crashes, reads, faults>>

Contents == Ops \cup Paths
Statuses == {"none", "pending", "recovering", "physical_done", "failed", "completed"}
Active == Statuses \ {"none", "completed"}

\* "failOk" and "failErr" are before fail_wal, in an operation that will answer
\* Ok or an error; "lost" never answered.
PCs == {"new", "admitted", "store", "mark", "index", "complete", "failOk", "failErr",
        "ok", "error", "lost"}
Ended(o) == pc[o] \in {"ok", "error", "lost"}
Running(o) == pc[o] # "new" /\ ~Ended(o)
Kind(o) == req[o].kind
From(o) == req[o].from
To(o) == req[o].to
Touches(o, p) == p \in {From(o), To(o)}

\* rows: what recover_all read and has not taken up yet, each with the status it had
\* then; taken: the row that is being recovered; found: its probe saw a file at To(o);
\* begun (history): the operations that had begun when the rows were read.
NoRow == [op |-> None, status |-> "none"]
IdleRun == [pc |-> "idle", rows |-> {}, taken |-> NoRow, locks |-> FALSE, found |-> FALSE,
            begun |-> {}]
StartRun(pc0, rows, locks) == [IdleRun EXCEPT !.pc = pc0, !.rows = rows, !.locks = locks,
                                              !.begun = {o \in Ops : pc[o] # "new"}]
RunPCs == {"idle", "lock", "row", "probe", "store", "index", "done", "bad"}
Row == [op : Ops, status : Statuses]
RunState == [pc : RunPCs, rows : SUBSET Row, taken : Row \cup {NoRow}, locks : BOOLEAN,
             found : BOOLEAN, begun : SUBSET Ops]

Init ==
    /\ store = [p \in Paths |-> IF p \in Initially THEN p ELSE None]
    /\ index = store
    /\ req = [o \in Ops |-> None]
    /\ log = [o \in Ops |-> "none"] /\ order = <<>>
    /\ pc = [o \in Ops |-> "new"]
    /\ rec = [x \in Runs |-> IdleRun]
    /\ locked = FALSE /\ crashes = 0 /\ reads = 0 /\ faults = 0
    /\ before = [o \in Ops |-> [ended |-> {}, settled |-> {}]]

-----------------------------------------------------------------------------
(* What the steps do to the store, the index and the log                    *)

Exists(p) == store[p] # None

\* A call of the store or of the database fails, though it may succeed.
Fault == faults < MaxFaults /\ faults' = faults + 1
FaultIf(mayWork) == IF mayWork THEN Fault ELSE UNCHANGED faults

\* The store's part of an operation, and whether it can succeed.
Possible(o) == Kind(o) \in {"write", "mkdir"} \/ Exists(From(o))
Stored(o) ==
    CASE Kind(o) = "write"  -> [store EXCEPT ![To(o)] = o]
      [] Kind(o) = "mkdir"  -> IF Exists(To(o)) THEN store ELSE [store EXCEPT ![To(o)] = o]
      [] Kind(o) = "copy"   -> [store EXCEPT ![To(o)] = store[From(o)]]
      [] Kind(o) = "delete" -> [store EXCEPT ![From(o)] = None]
      [] OTHER              -> [store EXCEPT ![From(o)] = None, ![To(o)] = store[From(o)]]

\* index_service.move_file, trash_file, restore_file: without a row nothing is
\* done; the path of a row is unique.
RowMayMove(o) == index[From(o)] = None \/ index[To(o)] = None
RowMoved(o) == IF index[From(o)] = None THEN index
               ELSE [index EXCEPT ![From(o)] = None, ![To(o)] = index[From(o)]]
RowGone(p) == [index EXCEPT ![p] = None]

\* transition_operation and complete_operation update the row if there is one;
\* the operations go on when this fails.
MarkedAlways(o, status) == [log EXCEPT ![o] = status]
Marked(o, status) == IF log[o] = "none" THEN log ELSE [log EXCEPT ![o] = status]
Transition(o, status) == \/ log' = Marked(o, status) /\ UNCHANGED faults
                         \/ Fault /\ UNCHANGED log

-----------------------------------------------------------------------------
(* The operations                                                           *)

At(o, at) == pc[o] = at
Go(o, next) == pc' = [pc EXCEPT ![o] = next]

\* What an operation that begins now comes after: the operations that have ended,
\* and those among them whose rows no recovery will take up.
Past == [ended |-> {o \in Ops : Ended(o)},
         settled |-> {o \in Ops : Ended(o) /\ log[o] \notin Active}]

\* check_maintenance is the first thing an operation does; nothing reads the lock
\* after it.  A refused operation has no effect and is not followed further.
Begin(o) ==
    /\ At(o, "new") /\ ~locked
    /\ Go(o, "admitted")
    /\ \E r \in Requests : req' = [req EXCEPT ![o] = r]
    /\ before' = [before EXCEPT ![o] = Past]
    /\ UNCHANGED <<store, index, log, order, rec, locked, crashes, reads, faults>>

SourceKnown(o) == /\ Kind(o) \in {"delete", "copy", "trash"} => Exists(From(o))
                  /\ Kind(o) = "restore" => index[From(o)] # None

\* The steps up to begin_wal: the source is looked up and the row is inserted,
\* unless should_skip_wal; both may fail.
BeginWal(o) ==
    /\ At(o, "admitted")
    /\ \/ /\ Go(o, "store")
          /\ SourceKnown(o)
          /\ \/ log' = [log EXCEPT ![o] = "pending"] /\ order' = Append(order, o)
             \/ req[o] \in Skippable /\ UNCHANGED <<log, order>>
          /\ UNCHANGED faults
       \/ /\ Go(o, "error") /\ UNCHANGED <<log, order>>
          /\ FaultIf(SourceKnown(o))
    /\ UNCHANGED <<req, store, index, rec, locked, before, crashes, reads>>

\* The pool's call changes the store and stats the result: after the stat's
\* failure the store has changed, but the call has failed.
ChangeStore(o) ==
    /\ At(o, "store")
    /\ \/ Possible(o) /\ store' = Stored(o) /\ Go(o, "mark") /\ UNCHANGED faults
       \/ Possible(o) /\ store' = Stored(o) /\ Go(o, "failErr") /\ Kind(o) # "delete" /\ Fault
       \/ UNCHANGED store /\ Go(o, "failErr") /\ FaultIf(Possible(o))
    /\ UNCHANGED <<req, index, log, order, rec, locked, before, crashes, reads>>

MarkPhysicalDone(o) ==
    /\ At(o, "mark")
    /\ Go(o, "index") /\ Transition(o, "physical_done")
    /\ UNCHANGED <<req, store, index, order, rec, locked, before, crashes, reads>>

\* The index's part: whether it can succeed, and the rows then.
IndexMay(o) == CASE Kind(o) \in {"mkdir", "copy"} -> Exists(To(o))
                 [] Kind(o) \in Relocates         -> RowMayMove(o)
                 [] OTHER                         -> TRUE
Indexed(o) ==
    CASE Kind(o) = "write"             -> [index EXCEPT ![To(o)] = o]
      [] Kind(o) \in {"mkdir", "copy"} -> [index EXCEPT ![To(o)] = store[To(o)]]
      [] Kind(o) = "delete"            -> RowGone(From(o))
      [] OTHER                         -> RowMoved(o)

\* A copy and a new directory are looked up again first, and an error then leaves
\* the row as it is.  An index error fails the operation, unless it is a delete,
\* or a move whose last lookup succeeds: they answer Ok.
ChangeIndex(o) ==
    /\ At(o, "index")
    /\ \/ /\ IndexMay(o) /\ index' = Indexed(o)
          /\ \/ Go(o, "complete") /\ UNCHANGED faults
             \/ Kind(o) = "move" /\ Go(o, "failErr") /\ Fault
       \/ /\ UNCHANGED index
          /\ FaultIf(IndexMay(o))
          /\ \/ Kind(o) # "delete" /\ Go(o, "failErr")
             \/ Kind(o) \in {"delete", "move"} /\ Go(o, "failOk")
             \/ Kind(o) \in {"mkdir", "copy"} /\ Go(o, "error")
    /\ UNCHANGED <<req, store, log, order, rec, locked, before, crashes, reads>>

CompleteWal(o) ==
    /\ At(o, "complete")
    /\ Go(o, "ok") /\ Transition(o, "completed")
    /\ UNCHANGED <<req, store, index, order, rec, locked, before, crashes, reads>>

FailWal(o) ==
    /\ pc[o] \in {"failOk", "failErr"}
    /\ Go(o, IF At(o, "failOk") THEN "ok" ELSE "error") /\ Transition(o, "failed")
    /\ UNCHANGED <<req, store, index, order, rec, locked, before, crashes, reads>>

-----------------------------------------------------------------------------
(* Recovery                                                                 *)

RunAt(x, at) == rec[x].pc = at
RunGo(x, next) == rec' = [rec EXCEPT ![x].pc = next]
LeaveRow(x) == rec' = [rec EXCEPT ![x].pc = "row", ![x].taken = NoRow, ![x].found = FALSE]
Taken(x) == rec[x].taken.op
WasDone(x) == rec[x].taken.status = "physical_done"

EveryRow == {o \in Ops : log[o] # "none"}
NotCompleted == {o \in Ops : log[o] \in Active}
RowOf(o) == [op |-> o, status |-> log[o]]

\* recover_all reads every row that is not completed; it takes them up by their ids.
\* The embedding program calls it, at the latest after a restart: here, while no
\* operation of the user is under way.  What begins later is the lock's business.
ReadRows(x) ==
    /\ RunAt(x, "idle") /\ reads < MaxReads /\ reads' = reads + 1
    /\ \A o \in Ops : ~Running(o)
    /\ NotCompleted # {}
    /\ rec' = [rec EXCEPT ![x] = StartRun("lock", {RowOf(o) : o \in NotCompleted}, TRUE)]
    /\ UNCHANGED <<req, store, index, log, order, pc, locked, before, crashes, faults>>

\* replay_issue recovers one row that an administrator chose, without the lock.
ReadIssue(x) ==
    /\ RunAt(x, "idle") /\ reads < MaxReads /\ reads' = reads + 1
    /\ \A o \in Ops : ~Running(o)
    /\ \E o \in {u \in Ops : log[u] \in Active} :
         rec' = [rec EXCEPT ![x] = StartRun("row", {RowOf(o)}, FALSE)]
    /\ UNCHANGED <<req, store, index, log, order, pc, locked, before, crashes, faults>>

LockUsers(x) ==
    /\ RunAt(x, "lock")
    /\ RunGo(x, "row") /\ locked' = TRUE
    /\ UNCHANGED <<req, store, index, log, order, pc, before, crashes, reads, faults>>

\* The next row by its id; mark_recovering; if this fails the row is left as it is.
Earlier(o, u) == \E i, j \in DOMAIN order : i < j /\ order[i] = o /\ order[j] = u
MarkRecovering(x) ==
    /\ RunAt(x, "row")
    /\ \E row \in rec[x].rows :
         /\ \A other \in rec[x].rows : ~Earlier(other.op, row.op)
         /\ \/ /\ rec' = [rec EXCEPT ![x].pc = "probe", ![x].rows = @ \ {row}, ![x].taken = row]
               /\ log' = Marked(row.op, "recovering") /\ UNCHANGED faults
            \/ Fault /\ rec' = [rec EXCEPT ![x].rows = @ \ {row}] /\ UNCHANGED log
    /\ UNCHANGED <<req, store, index, order, pc, locked, before, crashes, reads>>

\* The guards are dropped: the user leaves the set of locked users, whoever else
\* put it there.
EndRun(x) ==
    /\ RunAt(x, "row") /\ rec[x].rows = {}
    /\ rec' = [rec EXCEPT ![x] = IdleRun]
    /\ locked' = (locked /\ ~rec[x].locks)
    /\ UNCHANGED <<req, store, index, log, order, pc, before, crashes, reads, faults>>

\* What a recovery does after its probes.  Where the two paths of a relocation
\* both exist, or neither does, it gives up.
AnyRelocation(o, done, from, to) == IF done \/ ~from THEN "index" ELSE "store"
Relocation(o, done, from, to) == IF done THEN "index"
                                 ELSE IF from /\ ~to THEN "store"
                                 ELSE IF ~from /\ to THEN "index"
                                 ELSE "bad"
DeleteOnlyFile(done, from) == IF done \/ ~from THEN "done" ELSE "store"
DeleteAgain(done, from) == IF done \/ ~from THEN "index" ELSE "store"
AfterProbe(o, done, from, to) ==
    CASE Kind(o) \in {"write", "copy"} -> "index"
      [] Kind(o) = "delete" -> DeleteAgain(done, from)
      [] Kind(o) = "mkdir"  -> IF ~done /\ ~to THEN "store" ELSE "index"
      [] OTHER              -> Relocation(o, done, from, to)

\* Without an engine for the user the row stays as it is.
Probe(x) ==
    /\ RunAt(x, "probe")
    /\ LET o == Taken(x)
           next == AfterProbe(o, WasDone(x), Exists(From(o)), Exists(To(o)))
       IN \/ /\ rec' = [rec EXCEPT ![x].pc = next, ![x].found = Exists(To(o))]
             /\ UNCHANGED faults
          \/ Fault /\ (RunGo(x, "bad") \/ LeaveRow(x))
    /\ UNCHANGED <<req, store, index, log, order, pc, locked, before, crashes, reads>>

\* The physical part is done again; of a move this is all.
RecoverStore(x) ==
    /\ RunAt(x, "store")
    /\ LET o == Taken(x)
       IN \/ /\ Possible(o) /\ store' = Stored(o)
             /\ RunGo(x, IF Kind(o) = "move" THEN "done" ELSE "index")
             /\ UNCHANGED faults
          \/ /\ Possible(o) /\ Kind(o) # "delete" /\ store' = Stored(o)
             /\ RunGo(x, "bad") /\ Fault
          \/ /\ RunGo(x, "bad") /\ UNCHANGED store
             /\ FaultIf(Possible(o))
    /\ UNCHANGED <<req, index, log, order, pc, locked, before, crashes, reads>>

\* sync_index_for_path: the lookup answers from the path's row if there is one and
\* the file exists, so that a row is only ever added.
RowSynced(p) == IF index[p] # None THEN index ELSE [index EXCEPT ![p] = store[p]]

\* sync_index_for_copy_target: a row that names a file in the store is kept (rows
\* written by a sync or by a recovery name none); otherwise the source's row is
\* copied, if there is one.
RowsCopied(o) ==
    {IF index[From(o)] # None THEN [index EXCEPT ![To(o)] = index[From(o)]] ELSE RowSynced(To(o))}
    \cup (IF index[To(o)] # None THEN {index} ELSE {})

RecoverMay(x, o) ==
    CASE Kind(o) \in {"write", "mkdir"} -> Exists(To(o)) \/ (Kind(o) = "write" /\ ~rec[x].found)
      [] Kind(o) = "copy" -> ~(WasDone(x) \/ rec[x].found) \/ index[From(o)] # None \/ Exists(To(o))
      [] Kind(o) \in Relocates -> RowMayMove(o)
      [] OTHER -> TRUE
RecoveredRows(x, o) ==
    CASE Kind(o) = "delete" -> {RowGone(From(o))}
      [] Kind(o) \in Relocates -> {RowMoved(o)}
      [] Kind(o) = "write" /\ ~rec[x].found -> {RowGone(To(o))}
      [] Kind(o) = "copy" -> IF WasDone(x) \/ rec[x].found THEN RowsCopied(o) ELSE {RowGone(To(o))}
      [] OTHER -> {RowSynced(To(o))}

RecoverIndex(x) ==
    /\ RunAt(x, "index")
    /\ LET o == Taken(x)
       IN \/ /\ RecoverMay(x, o) /\ index' \in RecoveredRows(x, o)
             /\ RunGo(x, "done") /\ UNCHANGED faults
          \/ /\ RunGo(x, "bad") /\ UNCHANGED index
             /\ FaultIf(RecoverMay(x, o))
    /\ UNCHANGED <<req, store, log, order, pc, locked, before, crashes, reads>>

\* recover_one completes the row, or fails it; either may fail itself.
FinishRow(x) ==
    /\ rec[x].pc \in {"done", "bad"}
    /\ Transition(Taken(x), IF RunAt(x, "done") THEN "completed" ELSE "failed")
    /\ LeaveRow(x)
    /\ UNCHANGED <<req, store, index, order, pc, locked, before, crashes, reads>>

-----------------------------------------------------------------------------
\* The process dies and starts again: the operations never answer, the lock is
\* gone, and the rows stay.
Crash ==
    /\ crashes < MaxCrashes /\ crashes' = crashes + 1
    /\ pc' = [o \in Ops |-> IF Running(o) THEN "lost" ELSE pc[o]]
    /\ rec' = [x \in Runs |-> IdleRun]
    /\ locked' = FALSE
    /\ UNCHANGED <<req, store, index, log, order, before, reads, faults>>

Operation(o) == Begin(o) \/ BeginWal(o) \/ ChangeStore(o) \/ MarkPhysicalDone(o)
                \/ ChangeIndex(o) \/ CompleteWal(o) \/ FailWal(o)
Recovery(x) == ReadRows(x) \/ ReadIssue(x) \/ LockUsers(x) \/ MarkRecovering(x) \/ EndRun(x)
               \/ Probe(x) \/ RecoverStore(x) \/ RecoverIndex(x) \/ FinishRow(x)

Next == \/ \E o \in Ops : Operation(o)
        \/ \E x \in Runs : Recovery(x)
        \/ Crash
Spec == Init /\ [][Next]_vars

-----------------------------------------------------------------------------
(* Properties                                                               *)

\* The types of the variables.
TypeOK ==
    /\ store \in [Paths -> Contents \cup {None}] /\ index \in [Paths -> Contents \cup {None}]
    /\ req \in [Ops -> Requests \cup {None}]
    /\ log \in [Ops -> Statuses] /\ order \in Seq(Ops)
    /\ {o \in Ops : log[o] # "none"} = ToSet(order)
    /\ pc \in [Ops -> PCs]
    /\ rec \in [Runs -> RunState]
    /\ locked \in BOOLEAN
    /\ before \in [Ops -> [ended : SUBSET Ops, settled : SUBSET Ops]]
    /\ crashes \in 0..MaxCrashes /\ reads \in 0..MaxReads /\ faults \in 0..MaxFaults

\* What an operation leaves at a path for good, as far as that does not depend on
\* what it found.
Leaves(o, p) ==
    IF Kind(o) = "write" /\ p = To(o) THEN {o}
    ELSE IF Kind(o) \in {"delete"} \cup Relocates /\ p = From(o) THEN {None}
    ELSE Contents \cup {None}
OnlyAfter(o, p, past) ==
    \A u \in Ops \ {o} : pc[u] # "new" /\ Touches(u, p) => u \in past

\* Where an operation that was acknowledged is the last on a path, the path stays
\* as it left it, through crashes and recoveries, if the rows of all earlier
\* operations were settled when it began.
AcknowledgedStays ==
    \A o \in Ops, p \in Paths :
        pc[o] = "ok" /\ Touches(o, p) /\ OnlyAfter(o, p, before[o].settled)
            => store[p] \in Leaves(o, p)

\* The same whatever the rows: recovery repeats nothing that had its effect, or
\* its error, before.
RecoveryIsIdempotent ==
    \A o \in Ops, p \in Paths :
        pc[o] = "ok" /\ Touches(o, p) /\ OnlyAfter(o, p, before[o].ended)
            => store[p] \in Leaves(o, p)

\* No other operation of its paths has begun.
Alone(o) == \A u \in Ops \ {o} : pc[u] = "new" \/ \A p \in Paths : Touches(o, p) => ~Touches(u, p)

\* A row is completed, by its operation or by a recovery, only when files and
\* index rows of its paths go together again, whatever failed or was cut short
\* before.  The exception is a move that had not reached the store.
CompletedAgrees ==
    \A o \in Ops :
        /\ log[o] = "completed" /\ Ended(o) /\ Alone(o)
        /\ Kind(o) = "move" => pc[o] = "ok"
        => \A p \in {From(o), To(o)} : (index[p] = None) = (store[p] = None)

Held(s) == {s[p] : p \in Paths} \ {None}

\* Recovery loses no content, but where it repeats a delete: in particular it
\* never moves a file over another, as long as no operation began meanwhile.
RecoveryKeepsContents ==
    [][\A x \in Runs :
         /\ RecoverStore(x) /\ Kind(Taken(x)) # "delete"
         /\ \A o \in Ops : pc[o] # "new" => o \in rec[x].begun
         => Held(store) \subseteq Held(store')]_vars

\* "Places maintenance lock on affected users, blocks writes": no operation changes
\* the store or the index while a recovery that locked its user is at work.
LockBlocksWrites ==
    [][\A o \in Ops : ChangeStore(o) \/ ChangeIndex(o)
         => \A x \in Runs : rec[x].locks => rec[x].pc \in {"idle", "lock"}]_vars
=============================================================================
