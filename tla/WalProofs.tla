------------------------------ MODULE WalProofs ------------------------------
(***************************************************************************)
(* What the write-ahead log and its recovery guarantee, for every number   *)
(* of operations, paths, failures, crashes and recoveries.                 *)
(***************************************************************************)
EXTENDS Wal, SequenceTheorems, TLAPS

\* What an operation that has begun is to do; before it is past its log row there
\* is none.
RequestsInv ==
    /\ \A o \in Ops : pc[o] # "new" => req[o] \in Requests
    /\ \A o \in Ops : pc[o] \in {"new", "admitted"} => log[o] = "none"

LEMMA RequestFields ==
    ASSUME RequestsInv, NEW o \in Ops, pc[o] # "new"
    PROVE /\ req[o] \in Requests /\ Kind(o) \in Kinds /\ From(o) \in Paths /\ To(o) \in Paths
          /\ (Kind(o) \in {"write", "delete", "mkdir"}) = (From(o) = To(o))
    BY WalAssumption DEF RequestsInv, Kind, From, To

LEMMA NoneApart == None \notin Contents
    BY WalAssumption DEF Contents

\* A recovery has taken up a row while it works on one; the operations of all rows
\* it has read have begun.
Working == {"probe", "store", "index", "done", "bad"}
RowsInv ==
    \A x \in Runs : LET run == rec[x] IN
        /\ run.pc \in Working => run.taken \in Row
        /\ \A row \in Row : row = run.taken \/ row \in run.rows => pc[row.op] # "new"

-----------------------------------------------------------------------------
(* Types                                                                    *)

\* The store and the index map every path to what is there.
Maps == [Paths -> Contents \cup {None}]

LEMMA StoredType ==
    ASSUME RequestsInv, store \in Maps, NEW o \in Ops, pc[o] # "new" PROVE Stored(o) \in Maps
    BY RequestFields DEF Stored, Maps, Contents

LEMMA IndexedType ==
    ASSUME RequestsInv, store \in Maps, index \in Maps, NEW o \in Ops, pc[o] # "new" PROVE Indexed(o) \in Maps
    BY RequestFields DEF Indexed, Maps, Contents, RowGone, RowMoved

LEMMA RecoveredType ==
    ASSUME RequestsInv, store \in Maps, index \in Maps, NEW x \in Runs, NEW o \in Ops, pc[o] # "new",
           NEW rows \in RecoveredRows(x, o)
    PROVE rows \in Maps
<1> USE RequestFields DEF Maps
<1>1. RowGone(From(o)) \in Maps /\ RowGone(To(o)) \in Maps /\ RowMoved(o) \in Maps /\ RowSynced(To(o)) \in Maps
    BY DEF RowGone, RowMoved, RowSynced
<1>2. RowsCopied(o) \subseteq Maps
    BY <1>1 DEF RowsCopied
<1> QED
    BY <1>1, <1>2 DEF RecoveredRows

LEMMA ToSetAppend ==
    ASSUME NEW S, NEW s \in Seq(S), NEW e \in S PROVE ToSet(Append(s, e)) = ToSet(s) \cup {e}
<1> DEFINE t == Append(s, e)
<1>1. t \in Seq(S) /\ Len(t) = Len(s) + 1 /\ (\A i \in 1..Len(s) : t[i] = s[i]) /\ t[Len(s) + 1] = e
    BY AppendProperties
<1>2. DOMAIN s = 1..Len(s) /\ DOMAIN t = 1..(Len(s) + 1) /\ Len(s) \in Nat
    BY <1>1
<1> HIDE DEF t
<1>3. ASSUME NEW u \in ToSet(t) PROVE u \in ToSet(s) \cup {e}
  <2>1. PICK i \in DOMAIN t : u = t[i]
    BY DEF ToSet
  <2> QED BY <1>1, <1>2, <2>1 DEF ToSet
<1>4. ASSUME NEW u \in ToSet(s) PROVE u \in ToSet(t)
  <2>1. PICK i \in DOMAIN s : u = s[i]
    BY DEF ToSet
  <2>2. i \in DOMAIN t /\ u = t[i]
    BY <1>1, <1>2, <2>1
  <2> QED BY <2>2 DEF ToSet
<1>5. e \in ToSet(t)
  <2>1. Len(s) + 1 \in DOMAIN t
    BY <1>2
  <2> QED BY <1>1, <2>1 DEF ToSet
<1> QED
    BY <1>3, <1>4, <1>5 DEF t

TypeInv == TypeOK /\ RequestsInv /\ RowsInv

\* What an operation does keeps the types.
LEMMA OperationTypes ==
    ASSUME TypeInv, NEW o \in Ops, Operation(o) PROVE TypeInv'
<1> USE DEF TypeInv, TypeOK
<1>1. CASE Begin(o)
  <2>1. /\ pc' = [pc EXCEPT ![o] = "admitted"] /\ UNCHANGED <<store, index, log, order, rec, locked, crashes, reads, faults>>
        /\ \E r \in Requests : req' = [req EXCEPT ![o] = r]
        /\ before' = [before EXCEPT ![o] = Past] /\ pc[o] = "new"
    BY <1>1 DEF Begin, At, Go
  <2>2. Past \in [ended : SUBSET Ops, settled : SUBSET Ops]
    BY DEF Past
  <2>3. TypeOK'
    BY <2>1, <2>2 DEF PCs
  <2>4. RequestsInv'
    BY <2>1 DEF RequestsInv
  <2>5. RowsInv'
    BY <2>1 DEF RowsInv, Row
  <2> QED BY <2>3, <2>4, <2>5
<1>2. CASE BeginWal(o)
  <2>1. /\ pc' \in [Ops -> PCs] /\ pc[o] # "new" /\ pc'[o] # "new"
        /\ pc[o] = "admitted" /\ pc'[o] \in {"store", "error"}
        /\ \A u \in Ops \ {o} : pc'[u] = pc[u]
    BY <1>2 DEF BeginWal, At, Go, PCs
  <2>2. /\ UNCHANGED <<req, store, index, rec, locked, before, crashes, reads>>
        /\ \/ UNCHANGED <<log, order>>
           \/ log' = [log EXCEPT ![o] = "pending"] /\ order' = Append(order, o)
    BY <1>2 DEF BeginWal
  <2>3. faults' \in 0..MaxFaults
    BY <1>2, WalAssumption DEF BeginWal, FaultIf, Fault
  <2>4. log' \in [Ops -> Statuses]
    BY <2>2 DEF Statuses
  <2>5. order' \in Seq(Ops) /\ {u \in Ops : log'[u] # "none"} = ToSet(order')
    <3>1. ASSUME log' = [log EXCEPT ![o] = "pending"], order' = Append(order, o)
          PROVE order' \in Seq(Ops) /\ {u \in Ops : log'[u] # "none"} = ToSet(order')
      <4>4. order' \in Seq(Ops) /\ ToSet(order') = ToSet(order) \cup {o}
        BY <3>1, AppendProperties, ToSetAppend
      <4>5. {u \in Ops : log'[u] # "none"} = {u \in Ops : log[u] # "none"} \cup {o}
        BY <3>1
      <4> QED BY <4>4, <4>5
    <3> QED BY <2>2, <3>1
  <2>6. RequestsInv'
    BY <2>1, <2>2 DEF RequestsInv
  <2>7. RowsInv'
    BY <2>1, <2>2 DEF RowsInv, Row
  <2> QED BY <2>1, <2>2, <2>3, <2>4, <2>5, <2>6, <2>7
<1>3. CASE ChangeStore(o) \/ ChangeIndex(o)
  <2>1. /\ pc' \in [Ops -> PCs] /\ pc[o] \notin {"new", "admitted"} /\ pc'[o] \notin {"new", "admitted"}
        /\ \A u \in Ops \ {o} : pc'[u] = pc[u]
    BY <1>3 DEF ChangeStore, ChangeIndex, At, Go, PCs
  <2>2. UNCHANGED <<req, log, order, rec, locked, before, crashes, reads>>
    BY <1>3 DEF ChangeStore, ChangeIndex
  <2>3. store' \in Maps /\ index' \in Maps
    BY <1>3, <2>1, StoredType, IndexedType DEF ChangeStore, ChangeIndex, Maps
  <2>4. faults' \in 0..MaxFaults
    BY <1>3, WalAssumption DEF ChangeStore, ChangeIndex, FaultIf, Fault
  <2>5. RequestsInv' /\ RowsInv'
    BY <2>1, <2>2 DEF RequestsInv, RowsInv, Row
  <2> QED BY <2>1, <2>2, <2>3, <2>4, <2>5 DEF Maps
<1>4. CASE MarkPhysicalDone(o) \/ CompleteWal(o) \/ FailWal(o)
  <2>1. /\ pc' \in [Ops -> PCs] /\ pc[o] \notin {"new", "admitted"} /\ pc'[o] \notin {"new", "admitted"}
        /\ \A u \in Ops \ {o} : pc'[u] = pc[u]
    BY <1>4 DEF MarkPhysicalDone, CompleteWal, FailWal, At, Go, PCs
  <2>2. UNCHANGED <<req, store, index, order, rec, locked, before, crashes, reads>>
    BY <1>4 DEF MarkPhysicalDone, CompleteWal, FailWal
  <2>3. PICK status \in Statuses \ {"none"} : Transition(o, status)
    BY <1>4 DEF MarkPhysicalDone, CompleteWal, FailWal, Statuses
  <2>4. /\ log' \in [Ops -> Statuses] /\ \A u \in Ops : log'[u] = "none" <=> log[u] = "none"
    BY <2>3 DEF Transition, Marked
  <2>5. faults' \in 0..MaxFaults
    BY <2>3, WalAssumption DEF Transition, Fault
  <2>6. RequestsInv' /\ RowsInv'
    BY <2>1, <2>2, <2>4 DEF RequestsInv, RowsInv, Row
  <2> QED BY <2>1, <2>2, <2>4, <2>5, <2>6
<1> QED
    BY <1>1, <1>2, <1>3, <1>4 DEF Operation

\* The state of a run after a step of a recovery, of which rows and what it takes up
\* come from the rows it had.
LEMMA RunTypes ==
    ASSUME TypeInv, NEW x \in Runs, NEW run \in RunState,
           run.pc \in Working => run.taken \in Row,
           \A row \in Row : row = run.taken \/ row \in run.rows => pc[row.op] # "new",
           rec' = [rec EXCEPT ![x] = run], pc' = pc
    PROVE rec' \in [Runs -> RunState] /\ RowsInv'
    BY DEF TypeInv, TypeOK, RowsInv

LEMMA FaultType ==
    ASSUME TypeInv, Fault \/ UNCHANGED faults PROVE faults' \in 0..MaxFaults
    BY WalAssumption DEF TypeInv, TypeOK, Fault

\* The row a recovery works on is that of an operation which has begun.
LEMMA TakenBegun ==
    ASSUME TypeInv, NEW x \in Runs, rec[x].pc \in Working
    PROVE Taken(x) \in Ops /\ pc[Taken(x)] # "new" /\ log[Taken(x)] \in Statuses /\ rec[x].taken \in Row
    BY DEF TypeInv, TypeOK, RowsInv, Taken, Row

\* A recovery starts with rows that are still to be recovered.
LEMMA RunStarts ==
    ASSUME TypeInv, NEW x \in Runs, ReadRows(x) \/ ReadIssue(x)
    PROVE \E set \in SUBSET NotCompleted, first \in {"lock", "row"}, locks \in BOOLEAN :
             rec' = [rec EXCEPT ![x] = StartRun(first, {RowOf(o) : o \in set}, locks)]
<1>1. CASE ReadRows(x)
    BY <1>1 DEF ReadRows
<1>2. CASE ReadIssue(x)
  <2>1. PICK o \in NotCompleted : rec' = [rec EXCEPT ![x] = StartRun("row", {RowOf(o)}, FALSE)]
    BY <1>2 DEF ReadIssue, NotCompleted
  <2>2. {RowOf(o)} = {RowOf(u) : u \in {o}} /\ {o} \in SUBSET NotCompleted
    OBVIOUS
  <2> QED BY <2>1, <2>2
<1> QED
    BY <1>1, <1>2

LEMMA RecoveryTypes ==
    ASSUME TypeInv, NEW x \in Runs, Recovery(x) PROVE TypeInv'
<1> USE DEF TypeInv, TypeOK
<1>0. rec[x] \in RunState /\ NoRow.op = None
    BY DEF NoRow
<1>1. CASE ReadRows(x) \/ ReadIssue(x)
  <2>1. UNCHANGED <<req, store, index, log, order, pc, locked, before, crashes, faults>> /\ reads' = reads + 1 /\ reads < MaxReads
    BY <1>1 DEF ReadRows, ReadIssue
  <2>2. PICK set \in SUBSET NotCompleted, first \in {"lock", "row"}, locks \in BOOLEAN :
           rec' = [rec EXCEPT ![x] = StartRun(first, {RowOf(o) : o \in set}, locks)]
    BY <1>1, RunStarts
  <2>3. \A o \in set : RowOf(o) \in Row /\ pc[o] # "new" /\ RowOf(o).op = o
    BY DEF NotCompleted, RowOf, Row, RequestsInv, Active
  <2> DEFINE rows == {RowOf(o) : o \in set}
             run == StartRun(first, rows, locks)
  <2>a. rows \in SUBSET Row /\ \A row \in rows : pc[row.op] # "new"
    BY <2>3
  <2> HIDE DEF rows
  <2>4. run \in RunState /\ run.pc \notin Working /\ run.rows = rows /\ run.taken = NoRow
    BY <2>a DEF StartRun, IdleRun, RunState, RunPCs, Working
  <2>5. \A row \in Row : row = run.taken \/ row \in run.rows => pc[row.op] # "new"
    BY <2>a, <2>4, <1>0, NoneApart DEF Row, Contents
  <2>6. rec' = [rec EXCEPT ![x] = run]
    BY <2>2 DEF rows
  <2> HIDE DEF run
  <2>7. rec' \in [Runs -> RunState] /\ RowsInv'
    BY <2>1, <2>4, <2>5, <2>6, RunTypes
  <2> QED BY <2>1, <2>7, WalAssumption DEF RequestsInv
<1>2. ASSUME LockUsers(x) \/ EndRun(x) PROVE TypeInv'
  <2>1. UNCHANGED <<req, store, index, log, order, pc, before, crashes, reads, faults>> /\ locked' \in BOOLEAN
    BY <1>2, <1>0 DEF LockUsers, EndRun, RunState
  <2>2. \/ rec' = [rec EXCEPT ![x] = [rec[x] EXCEPT !.pc = "row"]] /\ rec[x].pc = "lock"
        \/ rec' = [rec EXCEPT ![x] = IdleRun]
    BY <1>2 DEF LockUsers, EndRun, RunGo, RunAt
  <2>3. PICK run \in RunState :
           /\ rec' = [rec EXCEPT ![x] = run] /\ run.pc \notin Working
           /\ run.taken \in {rec[x].taken, NoRow} /\ run.rows \in {rec[x].rows, {}}
    <3>1. LET run == [rec[x] EXCEPT !.pc = "row"]
          IN run \in RunState /\ run.pc \notin Working /\ run.taken = rec[x].taken /\ run.rows = rec[x].rows
      BY <1>0 DEF RunState, RunPCs, Working
    <3>2. IdleRun \in RunState /\ IdleRun.pc \notin Working /\ IdleRun.taken = NoRow /\ IdleRun.rows = {}
      BY DEF IdleRun, RunState, RunPCs, Working
    <3> QED BY <2>2, <3>1, <3>2
  <2>4. \A row \in Row : row = run.taken \/ row \in run.rows => pc[row.op] # "new"
    BY <1>0, <2>3, NoneApart DEF RowsInv, Row, Contents
  <2>5. rec' \in [Runs -> RunState] /\ RowsInv'
    BY <2>1, <2>3, <2>4, RunTypes
  <2> QED BY <2>1, <2>5 DEF RequestsInv
<1>3. CASE MarkRecovering(x)
  <2>1. UNCHANGED <<req, store, index, order, pc, locked, before, crashes, reads>> /\ (Fault \/ UNCHANGED faults)
    BY <1>3 DEF MarkRecovering
  <2>2. PICK row \in rec[x].rows :
          \/ /\ rec' = [rec EXCEPT ![x] = [rec[x] EXCEPT !.pc = "probe", !.rows = @ \ {row}, !.taken = row]]
             /\ log' = Marked(row.op, "recovering")
          \/ rec' = [rec EXCEPT ![x] = [rec[x] EXCEPT !.rows = @ \ {row}]] /\ log' = log
    BY <1>3 DEF MarkRecovering
  <2>3. row \in Row /\ row.op \in Ops
    BY <1>0 DEF RunState, Row
  <2>4. log' \in [Ops -> Statuses] /\ \A o \in Ops : log'[o] = "none" <=> log[o] = "none"
    BY <2>2, <2>3 DEF Marked, Statuses
  <2>5. rec' \in [Runs -> RunState] /\ RowsInv'
    <3>1. LET run == [rec[x] EXCEPT !.pc = "probe", !.rows = @ \ {row}, !.taken = row]
          IN run \in RunState /\ run.taken = row /\ run.rows = rec[x].rows \ {row}
      BY <1>0, <2>3 DEF RunState, RunPCs
    <3>2. LET run == [rec[x] EXCEPT !.rows = @ \ {row}]
          IN run \in RunState /\ run.pc = rec[x].pc /\ run.taken = rec[x].taken /\ run.rows = rec[x].rows \ {row}
      BY <1>0 DEF RunState
    <3>3. PICK run \in RunState :
             /\ rec' = [rec EXCEPT ![x] = run] /\ run.rows = rec[x].rows \ {row}
             /\ run.taken = row \/ (run.taken = rec[x].taken /\ run.pc = rec[x].pc)
      BY <2>2, <3>1, <3>2
    <3>4. \A other \in Row : other = run.taken \/ other \in run.rows => pc[other.op] # "new"
      BY <2>3, <3>3 DEF RowsInv
    <3>5. run.pc \in Working => run.taken \in Row
      BY <2>3, <3>3 DEF RowsInv
    <3> QED BY <2>1, <3>3, <3>4, <3>5, RunTypes
  <2> QED BY <2>1, <2>4, <2>5, FaultType DEF RequestsInv
<1>4. ASSUME Probe(x) \/ RecoverStore(x) \/ RecoverIndex(x) \/ FinishRow(x) PROVE TypeInv'
  <2>1. rec[x].pc \in Working /\ UNCHANGED <<req, order, pc, locked, before, crashes, reads>>
    BY <1>4 DEF Probe, RecoverStore, RecoverIndex, FinishRow, RunAt, Working
  <2>2. Fault \/ UNCHANGED faults
    BY <1>4 DEF Probe, RecoverStore, RecoverIndex, FinishRow, FaultIf, Transition
  <2>3. PICK run \in RunState :
           /\ rec' = [rec EXCEPT ![x] = run]
           /\ run.rows = rec[x].rows
           /\ \/ run.pc \in Working /\ run.taken = rec[x].taken
              \/ run.pc = "row" /\ run.taken = NoRow
    <3>1. \A next \in Working, found \in BOOLEAN :
             LET run == [rec[x] EXCEPT !.pc = next, !.found = found]
             IN run \in RunState /\ run.pc \in Working /\ run.taken = rec[x].taken /\ run.rows = rec[x].rows
      BY <1>0 DEF RunState, RunPCs, Working
    <3>2. \A next \in Working :
             LET run == [rec[x] EXCEPT !.pc = next]
             IN run \in RunState /\ run.pc \in Working /\ run.taken = rec[x].taken /\ run.rows = rec[x].rows
      BY <1>0 DEF RunState, RunPCs, Working
    <3>3. LET run == [rec[x] EXCEPT !.pc = "row", !.taken = NoRow, !.found = FALSE]
          IN run \in RunState /\ run.pc = "row" /\ run.taken = NoRow /\ run.rows = rec[x].rows
      BY <1>0 DEF RunState, RunPCs
    <3>4. CASE Probe(x)
      <4> DEFINE o == Taken(x)
                 next == AfterProbe(o, WasDone(x), Exists(From(o)), Exists(To(o)))
                 found == Exists(To(o))
      <4>1. next \in Working /\ found \in BOOLEAN
        BY DEF AfterProbe, DeleteAgain, Relocation, Working, Exists
      <4>2. \/ rec' = [rec EXCEPT ![x].pc = next, ![x].found = found]
            \/ rec' = [rec EXCEPT ![x].pc = "bad"]
            \/ rec' = [rec EXCEPT ![x].pc = "row", ![x].taken = NoRow, ![x].found = FALSE]
        BY <3>4 DEF Probe, RunGo, LeaveRow
      <4> HIDE DEF next, found
      <4>3. CASE rec' = [rec EXCEPT ![x].pc = next, ![x].found = found]
        BY <3>1, <4>1, <4>3
      <4>4. CASE rec' = [rec EXCEPT ![x].pc = "bad"]
        BY <3>2, <4>4 DEF Working
      <4>5. CASE rec' = [rec EXCEPT ![x].pc = "row", ![x].taken = NoRow, ![x].found = FALSE]
        BY <3>3, <4>5
      <4> QED BY <4>2, <4>3, <4>4, <4>5
    <3>5. CASE RecoverStore(x) \/ RecoverIndex(x)
      BY <3>2, <3>5 DEF RecoverStore, RecoverIndex, RunGo, Working
    <3>6. CASE FinishRow(x)
      BY <3>3, <3>6 DEF FinishRow, LeaveRow
    <3> QED BY <1>4, <3>4, <3>5, <3>6
  <2>4. rec' \in [Runs -> RunState] /\ RowsInv'
    <3>1. \A row \in Row : row = run.taken \/ row \in run.rows => pc[row.op] # "new"
      BY <1>0, <2>3, NoneApart DEF RowsInv, Row, Contents
    <3> QED BY <2>1, <2>3, <3>1, RunTypes, TakenBegun DEF Working
  <2>5. store' \in Maps /\ index' \in Maps
    <3>1. Taken(x) \in Ops /\ pc[Taken(x)] # "new"
      BY <2>1, TakenBegun
    <3>2. Stored(Taken(x)) \in Maps /\ \A rows \in RecoveredRows(x, Taken(x)) : rows \in Maps
      BY <3>1, StoredType, RecoveredType DEF Maps
    <3> QED BY <1>4, <3>2 DEF Probe, RecoverStore, RecoverIndex, FinishRow, Maps
  <2>6. log' \in [Ops -> Statuses] /\ \A o \in Ops : log'[o] = "none" <=> log[o] = "none"
    BY <1>4, <2>1, TakenBegun DEF Probe, RecoverStore, RecoverIndex, FinishRow, Transition, Marked, Statuses
  <2> QED BY <2>1, <2>2, <2>4, <2>5, <2>6, FaultType DEF RequestsInv, Maps
<1> QED
    BY <1>1, <1>2, <1>3, <1>4 DEF Recovery

LEMMA CrashTypes == ASSUME TypeInv, Crash PROVE TypeInv'
<1> USE DEF TypeInv, TypeOK, Crash
<1>1. pc' \in [Ops -> PCs] /\ \A o \in Ops : (pc'[o] = "new" <=> pc[o] = "new") /\ (pc'[o] = "admitted" => FALSE)
    BY DEF Running, Ended, PCs
<1>2. rec' \in [Runs -> RunState] /\ RowsInv'
    BY <1>1, NoneApart DEF RowsInv, IdleRun, RunState, RunPCs, NoRow, Row, Working, Contents
<1>3. /\ UNCHANGED req /\ UNCHANGED store /\ UNCHANGED index /\ UNCHANGED log
      /\ UNCHANGED order /\ UNCHANGED before /\ UNCHANGED reads /\ UNCHANGED faults
      /\ locked' = FALSE /\ crashes' = crashes + 1 /\ crashes < MaxCrashes
    OBVIOUS
<1>5. crashes' \in 0..MaxCrashes
    BY <1>3, WalAssumption
<1>4. RequestsInv'
    BY <1>1, <1>3 DEF RequestsInv
<1> QED
    BY <1>1, <1>2, <1>3, <1>4, <1>5

LEMMA TypeInit == Init => TypeInv
<1> SUFFICES ASSUME Init PROVE TypeInv
    OBVIOUS
<1>1. TypeOK
  <2>1. ToSet(<<>>) = {}
    BY DEF ToSet
  <2>2. store \in Maps /\ index \in Maps
    BY WalAssumption DEF Init, Maps, Contents
  <2>3. IdleRun \in RunState
    BY DEF IdleRun, RunState, RunPCs
  <2>4. rec \in [Runs -> RunState] /\ order \in Seq(Ops) /\ {o \in Ops : log[o] # "none"} = ToSet(order)
    BY <2>1, <2>3 DEF Init
  <2>5. req \in [Ops -> Requests \cup {None}] /\ log \in [Ops -> Statuses] /\ pc \in [Ops -> PCs]
    BY DEF Init, Statuses, PCs
  <2>6. locked \in BOOLEAN /\ before \in [Ops -> [ended : SUBSET Ops, settled : SUBSET Ops]]
    BY DEF Init
  <2>7. crashes \in 0..MaxCrashes /\ reads \in 0..MaxReads /\ faults \in 0..MaxFaults
    BY WalAssumption DEF Init
  <2> QED BY <2>2, <2>4, <2>5, <2>6, <2>7 DEF TypeOK, Maps
<1>2. RequestsInv /\ RowsInv
    BY NoneApart DEF Init, RequestsInv, RowsInv, IdleRun, NoRow, Row, Working, Contents
<1> QED
    BY <1>1, <1>2 DEF TypeInv

LEMMA TypeStep == TypeInv /\ [Next]_vars => TypeInv'
<1>1. TypeInv /\ UNCHANGED vars => TypeInv'
    BY DEF TypeInv, TypeOK, RequestsInv, RowsInv, vars
<1> QED
    BY <1>1, OperationTypes, RecoveryTypes, CrashTypes DEF Next

\* The variables of the log and its recovery keep their types: in particular a recovery
\* only ever takes up rows that were written, of operations which have begun.
THEOREM LogTypes == Spec => []TypeOK
<1>1. Spec => []TypeInv
    BY TypeInit, TypeStep, PTL DEF Spec
<1> QED
    BY <1>1, PTL DEF TypeInv

-----------------------------------------------------------------------------
(* What the recoveries have in hand                                         *)

\* Recoveries do not overlap.  The code does not see to this: a row may be in the
\* hands of two recoveries, and the one that is late repeats it after the other has
\* completed it and an operation has come in between.
OneRecovery == \A x, y \in Runs : rec[x].pc # "idle" /\ rec[y].pc # "idle" => x = y

\* The rows a recovery has in hand.
InHand(x, row) == row \in rec[x].rows \/ row = rec[x].taken

\* They are rows of operations that have ended, and still to be recovered; there is
\* one of each operation.
HandsInv ==
    \A x \in Runs :
        /\ rec[x].pc = "idle" => rec[x] = IdleRun
        /\ \A row \in Row : InHand(x, row) => Ended(row.op) /\ log[row.op] \in Active
        /\ \A row \in Row, other \in rec[x].rows :
               InHand(x, row) /\ row.op = other.op => row = other /\ row # rec[x].taken
        /\ \A o \in rec[x].begun : Ended(o)

\* What an operation found settled stays so.
SettledStay == \A o \in Ops : \A u \in before[o].settled : Ended(u) /\ log[u] \notin Active

-----------------------------------------------------------------------------
(* What an operation did to the store stays                                 *)

\* The store's part of an operation is done, and it has not been failed.
PastStore == {"mark", "index", "complete", "failOk", "ok"}

EffectsStay ==
    \A o \in Ops, p \in Paths :
        pc[o] \in PastStore /\ Touches(o, p) /\ OnlyAfter(o, p, before[o].settled)
            => store[p] \in Leaves(o, p)

-----------------------------------------------------------------------------
(* Files and rows of an operation's paths                                   *)

HasRow(p) == index[p] # None
Agree(p) == (index[p] = None) = (store[p] = None)

\* No operation has come to the path.
Untouched(p) == \A o \in Ops : pc[o] = "new" \/ ~Touches(o, p)

\* The store shows the effect of the operation.
Done(o) ==
    /\ Kind(o) \in {"delete"} \cup Relocates => ~Exists(From(o))
    /\ Kind(o) # "delete" => Exists(To(o))

\* How far a row may be from its file before the index has its part: it may be
\* missing where a file was made, and be left where one was taken away.
Close(o) ==
    CASE Kind(o) \in {"write", "mkdir"} -> HasRow(To(o)) => Exists(To(o))
      [] Kind(o) = "copy"   -> Agree(From(o)) /\ (HasRow(To(o)) => Exists(To(o)))
      [] Kind(o) = "delete" -> Exists(From(o)) => HasRow(From(o))
      [] OTHER              -> \/ Agree(From(o)) /\ Agree(To(o))
                               \/ Done(o) /\ HasRow(From(o))

Agreed(o) == Agree(From(o)) /\ Agree(To(o))
\* A move that did not answer Ok may be completed without its index part.
Promised(o) == Kind(o) = "move" => pc[o] = "ok"

\* What holds of an operation that is alone on its paths: by itself, and with a
\* recovery that has its row in hand.
Outside(o) ==
    /\ Close(o)
    /\ pc[o] \in PastStore \/ log[o] = "physical_done" => Done(o)
    /\ log[o] = "completed" => Ended(o)
    /\ pc[o] = "complete" \/ (log[o] = "completed" /\ Promised(o)) => Agreed(o)
Inside(o, x) ==
    /\ \A row \in Row : InHand(x, row) /\ row = [op |-> o, status |-> "physical_done"] => Done(o)
    /\ rec[x].taken.op = o =>
        /\ rec[x].pc = "store" => Kind(o) \notin {"write", "copy"}
        /\ rec[x].pc = "index" => IF Kind(o) \in {"write", "copy"}
                                  THEN rec[x].found = Exists(To(o)) ELSE Done(o)
        /\ rec[x].pc = "done" /\ Promised(o) => Agreed(o)
PathsInv(o) == Outside(o) /\ \A x \in Runs : Inside(o, x)

AgreeInv ==
    /\ \A p \in Paths : Untouched(p) => Agree(p)
    /\ \A o \in Ops : pc[o] # "new" /\ Alone(o) => PathsInv(o)

-----------------------------------------------------------------------------
(* What recovery does to the contents                                       *)

NoneSince(x) == \A o \in Ops : pc[o] # "new" => o \in rec[x].begun

TargetsFree ==
    \A x \in Runs : rec[x].pc = "store" /\ NoneSince(x) =>
        /\ Kind(Taken(x)) \in {"delete", "mkdir"} \cup Relocates
        /\ Kind(Taken(x)) \in Relocates => ~Exists(To(Taken(x)))

-----------------------------------------------------------------------------
(* What a step leaves alone                                                 *)

LEMMA OperationFrame ==
    ASSUME TypeInv, NEW o \in Ops, Operation(o)
    PROVE /\ ~Ended(o) /\ pc'[o] # "new" /\ rec' = rec
          /\ \A u \in Ops \ {o} : /\ pc'[u] = pc[u] /\ log'[u] = log[u]
                                  /\ req'[u] = req[u] /\ before'[u] = before[u]
          /\ \/ pc[o] = "new" /\ before'[o] = Past /\ UNCHANGED <<store, index, log>>
             \/ pc[o] # "new" /\ UNCHANGED <<req, before>>
<1> USE DEF TypeInv, TypeOK
<1>1. CASE Begin(o)
    BY <1>1 DEF Begin, At, Go, Ended
<1>2. CASE BeginWal(o)
    BY <1>2 DEF BeginWal, At, Go, Ended
<1>3. CASE ChangeStore(o) \/ ChangeIndex(o)
    BY <1>3 DEF ChangeStore, ChangeIndex, At, Go, Ended
<1>4. CASE MarkPhysicalDone(o) \/ CompleteWal(o) \/ FailWal(o)
    BY <1>4 DEF MarkPhysicalDone, CompleteWal, FailWal, At, Go, Ended, Transition, Marked
<1> QED
    BY <1>1, <1>2, <1>3, <1>4 DEF Operation

LEMMA RecoveryFrame ==
    ASSUME TypeInv, NEW x \in Runs, Recovery(x)
    PROVE /\ UNCHANGED <<pc, req, before>>
          /\ \A y \in Runs \ {x} : rec'[y] = rec[y]
          /\ \/ UNCHANGED log
             \/ \E row \in Row : /\ InHand(x, row)
                                 /\ \A u \in Ops : u # row.op => log'[u] = log[u]
<1> USE DEF TypeInv, TypeOK
<1>1. CASE ReadRows(x) \/ ReadIssue(x) \/ LockUsers(x) \/ EndRun(x) \/ Probe(x) \/ RecoverStore(x) \/ RecoverIndex(x)
    BY <1>1 DEF ReadRows, ReadIssue, LockUsers, EndRun, Probe, RecoverStore, RecoverIndex, RunGo, LeaveRow
<1>2. CASE MarkRecovering(x)
    BY <1>2 DEF MarkRecovering, Marked, InHand, RunState
<1>3. CASE FinishRow(x)
  <2>1. rec[x].taken \in Row /\ Taken(x) \in Ops
    BY <1>3, TakenBegun DEF FinishRow, Working
  <2> QED BY <1>3, <2>1 DEF FinishRow, Transition, Marked, InHand, Taken, LeaveRow
<1> QED
    BY <1>1, <1>2, <1>3 DEF Recovery

LEMMA CrashFrame ==
    ASSUME TypeInv, Crash
    PROVE /\ UNCHANGED <<store, index, log, req, before>>
          /\ \A x \in Runs : rec'[x] = IdleRun
          /\ \A o \in Ops : /\ (pc'[o] = "new") = (pc[o] = "new")
                            /\ pc'[o] = pc[o] \/ (~Ended(o) /\ pc'[o] = "lost")
                            /\ Ended(o) => pc'[o] = pc[o]
    BY DEF TypeInv, TypeOK, Crash, Running, Ended

LEMMA IdleFields ==
    /\ IdleRun.pc = "idle" /\ IdleRun.rows = {} /\ IdleRun.begun = {}
    /\ IdleRun.taken = NoRow /\ NoRow \notin Row
    BY NoneApart DEF IdleRun, NoRow, Row, Contents

LEMMA IdleHands ==
    ASSUME HandsInv, NEW x \in Runs, rec[x].pc = "idle", NEW row \in Row
    PROVE ~InHand(x, row) /\ rec[x] = IdleRun
<1>1. rec[x] = IdleRun
    BY DEF HandsInv
<1> QED
    BY <1>1, IdleFields DEF InHand

LEMMA EndedStays ==
    ASSUME TypeInv, [Next]_vars, NEW o \in Ops, Ended(o) PROVE pc'[o] = pc[o]
<1>1. CASE UNCHANGED vars
    BY <1>1 DEF vars
<1> QED
    BY <1>1, OperationFrame, RecoveryFrame, CrashFrame DEF Next

HandsAll == TypeInv /\ HandsInv /\ SettledStay

LEMMA SettledStep ==
    ASSUME HandsAll, [Next]_vars PROVE SettledStay'
<1> USE DEF HandsAll, SettledStay
<1>1. \A o \in Ops : before[o].settled \subseteq Ops /\ Past.settled = {u \in Ops : Ended(u) /\ log[u] \notin Active}
    BY DEF TypeInv, TypeOK, Past
<1>2. CASE UNCHANGED vars
    BY <1>2 DEF vars, Ended
<1>3. ASSUME NEW o \in Ops, Operation(o) PROVE SettledStay'
    BY <1>1, <1>3, OperationFrame DEF Ended
<1>4. ASSUME NEW x \in Runs, Recovery(x) PROVE SettledStay'
    BY <1>1, <1>4, RecoveryFrame DEF Ended, HandsInv
<1>5. CASE Crash
    BY <1>1, <1>5, CrashFrame DEF Ended
<1> QED
    BY <1>2, <1>3, <1>4, <1>5 DEF Next

LEMMA HandsStep ==
    ASSUME HandsAll, OneRecovery, OneRecovery', [Next]_vars PROVE HandsInv'
<1> USE DEF HandsAll
<1>1. CASE UNCHANGED vars
    BY <1>1 DEF vars, HandsInv, InHand, Ended
<1>2. ASSUME NEW o \in Ops, Operation(o) PROVE HandsInv'
  <2>1. rec' = rec /\ \A u \in Ops : Ended(u) => Ended(u)' /\ log'[u] = log[u]
    BY <1>2, OperationFrame DEF Ended
  <2>2. \A x \in Runs : rec[x].begun \subseteq Ops
    BY DEF TypeInv, TypeOK, RunState
  <2> QED BY <2>1, <2>2 DEF HandsInv, InHand, Row
<1>3. CASE Crash
    BY <1>3, CrashFrame, IdleFields DEF HandsInv, InHand
<1>4. ASSUME NEW x \in Runs, Recovery(x) PROVE HandsInv'
  <2> USE DEF TypeInv, TypeOK
  <2> DEFINE Fits(y) ==
        /\ rec[y].pc = "idle" => rec[y] = IdleRun
        /\ \A row \in Row : InHand(y, row) => Ended(row.op) /\ log[row.op] \in Active
        /\ \A row \in Row, other \in rec[y].rows :
               InHand(y, row) /\ row.op = other.op => row = other /\ row # rec[y].taken
        /\ \A o \in rec[y].begun : Ended(o)
  <2>1. \A y \in Runs \ {x} : Fits(y)'
    <3> SUFFICES ASSUME NEW y \in Runs \ {x} PROVE Fits(y)'
      OBVIOUS
    <3>1. rec'[y] = rec[y] /\ pc' = pc
      BY <1>4, RecoveryFrame
    <3>2. CASE rec[x].pc = "idle"
      <4>1. log' = log
        BY <1>4, <3>2, RecoveryFrame, IdleHands
      <4> QED BY <3>1, <4>1 DEF HandsInv, InHand, Ended
    <3>3. CASE rec[x].pc # "idle"
      <4>1. rec[y].pc = "idle"
        BY <3>3 DEF OneRecovery
      <4>2. rec'[y] = IdleRun
        BY <3>1, <4>1 DEF HandsInv
      <4> QED BY <4>2, IdleFields DEF InHand
    <3> QED BY <3>2, <3>3
  <2>2. Fits(x)'
    <3>0. rec[x] \in RunState /\ pc' = pc
      BY <1>4, RecoveryFrame
    <3>1. CASE ReadRows(x) \/ ReadIssue(x)
      <4>1. PICK set \in SUBSET NotCompleted, first \in {"lock", "row"}, locks \in BOOLEAN :
               rec'[x] = StartRun(first, {RowOf(o) : o \in set}, locks)
        BY <3>1, RunStarts, ZenonT(60) DEF TypeInv, TypeOK
      <4>2. log' = log /\ \A o \in Ops : ~Running(o)
        BY <3>1 DEF ReadRows, ReadIssue
      <4>3. \A o \in set : o \in Ops /\ log[o] \in Active /\ Ended(o) /\ RowOf(o).op = o
        BY <4>2 DEF NotCompleted, Running, RequestsInv, Active, RowOf
      <4> DEFINE rows == {RowOf(o) : o \in set}
                 begun == {o \in Ops : pc[o] # "new"}
      <4>4. \A row \in rows : Ended(row.op) /\ log[row.op] \in Active
        BY <4>3
      <4>5. \A row, other \in rows : row.op = other.op => row = other
        BY <4>3
      <4>6. \A o \in begun : Ended(o)
        BY <4>2 DEF Running
      <4>7. rec'[x].rows = rows /\ rec'[x].begun = begun /\ rec'[x].pc # "idle" /\ rec'[x].taken = NoRow
        BY <4>1 DEF StartRun, IdleRun
      <4> HIDE DEF rows, begun
      <4>8. NoRow \notin Row
        BY NoneApart DEF NoRow, Row, Contents
      <4> QED BY <3>0, <4>2, <4>4, <4>5, <4>6, <4>7, <4>8 DEF InHand, Ended
    <3>2. CASE LockUsers(x) \/ Probe(x) \/ RecoverStore(x) \/ RecoverIndex(x)
      <4>1. /\ rec'[x].rows = rec[x].rows /\ rec'[x].begun = rec[x].begun /\ log' = log
            /\ rec'[x].taken \in {rec[x].taken, NoRow} /\ rec'[x].pc # "idle"
        <5>1. CASE Probe(x)
          <6>1. AfterProbe(Taken(x), WasDone(x), Exists(From(Taken(x))), Exists(To(Taken(x)))) # "idle"
            BY DEF AfterProbe, DeleteAgain, Relocation
          <6> QED BY <5>1, <6>1, <3>0 DEF Probe, RunGo, LeaveRow, RunState
        <5>2. CASE LockUsers(x) \/ RecoverStore(x) \/ RecoverIndex(x)
          BY <5>2, <3>0 DEF LockUsers, RecoverStore, RecoverIndex, RunGo, RunState
        <5> QED BY <3>2, <5>1, <5>2
      <4>2. NoRow \notin Row
        BY NoneApart DEF NoRow, Row, Contents
      <4> QED BY <3>0, <4>1, <4>2 DEF HandsInv, InHand, Ended, RunState
    <3>3. CASE EndRun(x)
      <4>1. rec'[x] = IdleRun
        BY <3>3 DEF EndRun
      <4> QED BY <4>1, IdleFields DEF InHand
    <3>4. CASE MarkRecovering(x)
      <4>1. PICK row \in rec[x].rows :
               /\ rec'[x].rows = rec[x].rows \ {row} /\ rec'[x].begun = rec[x].begun /\ rec'[x].pc # "idle"
               /\ \/ rec'[x].taken = row /\ log' = Marked(row.op, "recovering")
                  \/ rec'[x].taken = rec[x].taken /\ log' = log
        <5>1. PICK row \in rec[x].rows :
                 \/ /\ rec' = [rec EXCEPT ![x].pc = "probe", ![x].rows = @ \ {row}, ![x].taken = row]
                    /\ log' = Marked(row.op, "recovering")
                 \/ rec' = [rec EXCEPT ![x].rows = @ \ {row}] /\ log' = log
          BY <3>4 DEF MarkRecovering
        <5>2. rec[x].pc = "row"
          BY <3>4 DEF MarkRecovering, RunAt
        <5>3. /\ rec'[x].rows = rec[x].rows \ {row} /\ rec'[x].begun = rec[x].begun
              /\ rec'[x].pc \in {"probe", "row"}
          BY <5>1, <5>2, <3>0 DEF RunState
        <5>4. rec'[x].taken = row \/ (rec'[x].taken = rec[x].taken /\ log' = log)
          BY <5>1, <5>2, <3>0 DEF RunState
        <5>5. log' = Marked(row.op, "recovering") \/ (rec'[x].taken = rec[x].taken /\ log' = log)
          BY <5>1, <5>2, <3>0 DEF RunState
        <5> QED BY <5>3, <5>4, <5>5
      <4>2. row \in Row /\ row.op \in Ops
        BY <3>0 DEF RunState, Row
      <4>3. \A o \in Ops : log[o] \in Active => log'[o] \in Active
        BY <4>1, <4>2 DEF Marked, Active, Statuses
      <4>4. rec[x].rows \subseteq Row
        BY <3>0 DEF RunState
      <4>5. \A other \in Row : InHand(x, other)' => InHand(x, other)
        BY <4>1 DEF InHand
      <4>6. \A other \in Row : InHand(x, other)' => Ended(other.op)' /\ log'[other.op] \in Active
        BY <3>0, <4>3, <4>5 DEF HandsInv, Ended, Row
      <4>7. ASSUME NEW one \in Row, NEW other \in rec'[x].rows, InHand(x, one)', one.op = other.op
            PROVE one = other /\ one # rec'[x].taken
        <5>1. other \in rec[x].rows /\ other # row /\ InHand(x, one)
          BY <4>1, <4>5, <4>7
        <5>2. one = other /\ one # rec[x].taken
          BY <4>7, <5>1 DEF HandsInv
        <5> QED BY <4>1, <5>1, <5>2
      <4>8. \A o \in rec'[x].begun : Ended(o)'
        BY <3>0, <4>1 DEF HandsInv, Ended
      <4> QED BY <4>1, <4>6, <4>7, <4>8
    <3>5. CASE FinishRow(x)
      <4>1. /\ rec'[x].rows = rec[x].rows /\ rec'[x].begun = rec[x].begun
            /\ rec'[x].taken = NoRow /\ rec'[x].pc = "row"
        BY <3>5, <3>0 DEF FinishRow, LeaveRow, RunState
      <4>2. rec[x].taken \in Row /\ Taken(x) \in Ops
        BY <3>5, TakenBegun DEF FinishRow, Working
      <4>3. \A u \in Ops : u # Taken(x) => log'[u] = log[u]
        BY <3>5, <4>2 DEF FinishRow, Transition, Marked
      <4>4. \A row \in rec[x].rows : row.op # Taken(x)
        BY <4>2 DEF HandsInv, InHand, Taken
      <4>5. NoRow \notin Row /\ rec[x].rows \subseteq Row
        BY <3>0, NoneApart DEF NoRow, Row, Contents, RunState
      <4> QED BY <3>0, <4>1, <4>3, <4>4, <4>5 DEF HandsInv, InHand, Ended, Row
    <3> QED BY <1>4, <3>1, <3>2, <3>3, <3>4, <3>5 DEF Recovery
  <2> QED BY <2>1, <2>2 DEF HandsInv
<1> QED
    BY <1>1, <1>2, <1>3, <1>4 DEF Next

LEMMA HandsInit == Init => HandsAll
<1> SUFFICES ASSUME Init PROVE HandsAll
    OBVIOUS
<1>1. HandsInv
    BY NoneApart DEF Init, HandsInv, InHand, IdleRun, NoRow, Row, Contents
<1>2. SettledStay
    BY DEF Init, SettledStay
<1> QED
    BY <1>1, <1>2, TypeInit DEF HandsAll

-----------------------------------------------------------------------------
(* What an operation did to the store stays: proof                          *)

\* The store's and the index's part of an operation change its own paths only.
LEMMA StoredFrame ==
    ASSUME TypeInv, NEW o \in Ops, pc[o] # "new", NEW p \in Paths
    PROVE /\ ~Touches(o, p) => Stored(o)[p] = store[p] /\ Indexed(o)[p] = index[p]
          /\ ~Touches(o, p) => \A x \in Runs : \A rows \in RecoveredRows(x, o) : rows[p] = index[p]
          /\ Touches(o, p) /\ Possible(o) => Stored(o)[p] \in Leaves(o, p)
<1> USE RequestFields DEF TypeInv, TypeOK
<1>1. ASSUME ~Touches(o, p)
      PROVE /\ Stored(o)[p] = store[p] /\ Indexed(o)[p] = index[p]
            /\ RowGone(From(o))[p] = index[p] /\ RowGone(To(o))[p] = index[p]
            /\ RowMoved(o)[p] = index[p] /\ RowSynced(To(o))[p] = index[p]
    BY <1>1 DEF Touches, Stored, Indexed, RowGone, RowMoved, RowSynced
<1>2. ASSUME ~Touches(o, p) PROVE \A rows \in RowsCopied(o) : rows[p] = index[p]
    BY <1>1, <1>2 DEF Touches, RowsCopied
<1>3. ASSUME ~Touches(o, p), NEW x \in Runs, NEW rows \in RecoveredRows(x, o) PROVE rows[p] = index[p]
    BY <1>1, <1>2, <1>3 DEF RecoveredRows
<1>4. ASSUME Touches(o, p), Possible(o) PROVE Stored(o)[p] \in Leaves(o, p)
    BY <1>4 DEF Touches, Stored, Leaves, Kinds, Relocates, Contents
<1> QED
    BY <1>1, <1>3, <1>4

EffectsAll == HandsAll /\ EffectsStay

LEMMA EffectsStep ==
    ASSUME EffectsAll, [Next]_vars PROVE EffectsStay'
<1> USE DEF EffectsAll, HandsAll
<1>1. CASE UNCHANGED vars
    BY <1>1 DEF vars, EffectsStay, Touches, OnlyAfter, Leaves, Kind, From, To
<1>2. SettledStay'
    BY SettledStep
<1> SUFFICES ASSUME Next, NEW o \in Ops, NEW p \in Paths, (pc[o] \in PastStore)', Touches(o, p)',
                    OnlyAfter(o, p, before[o].settled)'
             PROVE (store[p] \in Leaves(o, p))'
    BY <1>1 DEF EffectsStay
\* An operation that is to come, or to be recovered, has nothing to do with the path.
<1>3. ASSUME NEW u \in Ops \ {o}, (pc[u] # "new")', Touches(u, p)'
      PROVE Ended(u)' /\ log'[u] \notin Active
    BY <1>2, <1>3 DEF SettledStay, OnlyAfter
<1>4. ASSUME NEW u \in Ops, Operation(u), u # o PROVE (store[p] \in Leaves(o, p))'
  <2>1. pc'[o] = pc[o] /\ req'[o] = req[o] /\ before'[o] = before[o] /\ Touches(o, p)
    BY <1>4, OperationFrame DEF Touches, From, To
  <2>2. OnlyAfter(o, p, before[o].settled)
    <3>1. \A v \in Ops : pc[v] # "new" => pc'[v] # "new" /\ req'[v] = req[v]
      BY <1>4, OperationFrame
    <3> QED BY <2>1, <3>1 DEF OnlyAfter, Touches, From, To
  <2>3. store[p] \in Leaves(o, p)
    BY <2>1, <2>2 DEF EffectsStay
  <2>4. store'[p] = store[p]
    <3>1. CASE ChangeStore(u)
      <4>1. pc[u] = "store" /\ req' = req /\ ~Ended(u)' /\ pc'[u] # "new"
        BY <3>1 DEF ChangeStore, At, Go, Ended, TypeInv, TypeOK
      <4>2. ~Touches(u, p)
        BY <1>3, <1>4, <4>1 DEF Touches, From, To
      <4> QED BY <3>1, <4>1, <4>2, StoredFrame DEF ChangeStore
    <3>2. CASE ~ChangeStore(u)
      BY <1>4, <3>2 DEF Operation, Begin, BeginWal, MarkPhysicalDone, ChangeIndex, CompleteWal, FailWal
    <3> QED BY <3>1, <3>2
  <2> QED BY <2>1, <2>3, <2>4 DEF Leaves, Kind, From, To
<1>5. CASE Operation(o)
  <2>1. pc[o] \in PastStore \/ ChangeStore(o)
    BY <1>5 DEF Operation, Begin, BeginWal, ChangeStore, MarkPhysicalDone, ChangeIndex, CompleteWal, FailWal,
                At, Go, PastStore, TypeInv, TypeOK
  <2>2. pc[o] # "new" /\ UNCHANGED <<req, before>>
    BY <1>5, <2>1, OperationFrame DEF ChangeStore, At, PastStore
  <2>3. CASE ChangeStore(o)
    <3>1. Possible(o) /\ store' = Stored(o)
      BY <2>3 DEF ChangeStore, At, Go, PastStore, TypeInv, TypeOK
    <3> QED BY <2>2, <3>1, StoredFrame DEF Touches, Leaves, Kind, From, To
  <2>4. CASE pc[o] \in PastStore /\ ~ChangeStore(o)
    <3>1. store' = store
      BY <1>5, <2>4 DEF Operation, Begin, BeginWal, MarkPhysicalDone, ChangeIndex, CompleteWal, FailWal
    <3>2. \A v \in Ops : pc[v] # "new" => pc'[v] # "new"
      BY <1>5, OperationFrame
    <3>3. OnlyAfter(o, p, before[o].settled) /\ Touches(o, p)
      BY <2>2, <3>2 DEF OnlyAfter, Touches, From, To
    <3> QED BY <2>2, <2>4, <3>1, <3>3 DEF EffectsStay, Leaves, Kind, From, To
  <2> QED BY <2>1, <2>3, <2>4
<1>6. ASSUME NEW x \in Runs, Recovery(x) PROVE (store[p] \in Leaves(o, p))'
  <2>1. UNCHANGED <<pc, req, before>>
    BY <1>6, RecoveryFrame
  <2>2. pc[o] # "new" /\ Touches(o, p) /\ store[p] \in Leaves(o, p)
    BY <2>1 DEF EffectsStay, PastStore, OnlyAfter, Touches, From, To
  <2>3. CASE store' = store
    BY <2>1, <2>2, <2>3 DEF Leaves, Kind, From, To
  <2>4. CASE store' # store
    <3>1. RecoverStore(x) /\ Possible(Taken(x)) /\ store' = Stored(Taken(x)) /\ log' = log
      BY <1>6, <2>4 DEF Recovery, ReadRows, ReadIssue, LockUsers, EndRun, Probe, RecoverStore, RecoverIndex,
                        MarkRecovering, FinishRow
    <3>2. /\ Taken(x) \in Ops /\ pc[Taken(x)] # "new" /\ rec[x].taken \in Row
      BY <3>1, TakenBegun DEF RecoverStore, RunAt, Working
    <3>3. log[Taken(x)] \in Active
      BY <3>2 DEF HandsInv, InHand, Taken
    <3>4. CASE Taken(x) = o
      BY <2>1, <2>2, <3>1, <3>2, <3>4, StoredFrame DEF Leaves, Kind, From, To
    <3>5. CASE Taken(x) # o
      <4>1. ~Touches(Taken(x), p)
        BY <1>3, <2>1, <3>1, <3>2, <3>3, <3>5 DEF Touches, From, To
      <4> QED BY <2>1, <2>2, <3>1, <3>2, <4>1, StoredFrame DEF Leaves, Kind, From, To
    <3> QED BY <3>4, <3>5
  <2> QED BY <2>3, <2>4
<1>7. CASE Crash
  <2>1. UNCHANGED <<store, req, before>> /\ pc'[o] = pc[o] /\ \A u \in Ops : (pc'[u] = "new") = (pc[u] = "new")
    BY <1>7, CrashFrame DEF PastStore
  <2>2. Touches(o, p) /\ OnlyAfter(o, p, before[o].settled)
    BY <2>1 DEF OnlyAfter, Touches, From, To
  <2> QED BY <2>1, <2>2 DEF EffectsStay, Leaves, Kind, From, To
<1> QED
    BY <1>4, <1>5, <1>6, <1>7 DEF Next

\* Where an operation that was acknowledged is the last on a path, the path stays as the
\* operation left it, through any number of crashes and of recoveries one after another,
\* if the rows of all earlier operations were settled when it began.
THEOREM AcknowledgedOperationsStay == Spec /\ []OneRecovery => []AcknowledgedStays
<1>1. Init => EffectsAll
  <2>1. Init => EffectsStay
    BY DEF Init, EffectsStay, PastStore
  <2> QED BY <2>1, HandsInit DEF EffectsAll
<1>2. EffectsAll /\ OneRecovery /\ OneRecovery' /\ [Next]_vars => EffectsAll'
    BY TypeStep, HandsStep, SettledStep, EffectsStep DEF EffectsAll, HandsAll
<1>3. EffectsAll => AcknowledgedStays
    BY DEF EffectsAll, EffectsStay, AcknowledgedStays, PastStore
<1> QED
    BY <1>1, <1>2, <1>3, PTL DEF Spec

-----------------------------------------------------------------------------
(* Files and rows of an operation's paths: proof                            *)

LEMMA OperationPaths ==
    ASSUME TypeInv, NEW o \in Ops, Operation(o), NEW p \in Paths, pc[o] # "new" => ~Touches(o, p)
    PROVE store'[p] = store[p] /\ index'[p] = index[p]
    BY StoredFrame DEF Operation, Begin, BeginWal, ChangeStore, MarkPhysicalDone, ChangeIndex, CompleteWal, FailWal, At

LEMMA RecoveryPaths ==
    ASSUME TypeInv, NEW x \in Runs, Recovery(x), NEW p \in Paths,
           rec[x].pc \in Working => ~Touches(Taken(x), p)
    PROVE store'[p] = store[p] /\ index'[p] = index[p]
<1>1. CASE RecoverStore(x) \/ RecoverIndex(x)
  <2>1. rec[x].pc \in Working
    BY <1>1 DEF RecoverStore, RecoverIndex, RunAt, Working
  <2> QED BY <1>1, <2>1, TakenBegun, StoredFrame DEF RecoverStore, RecoverIndex
<1>2. CASE ~(RecoverStore(x) \/ RecoverIndex(x))
    BY <1>2 DEF Recovery, ReadRows, ReadIssue, LockUsers, EndRun, Probe, MarkRecovering, FinishRow
<1> QED
    BY <1>1, <1>2

\* Where the files and rows of its paths are as before, so is what is said of them.
LEMMA SamePaths ==
    ASSUME TypeInv, NEW o \in Ops, pc[o] # "new", req'[o] = req[o],
           \A p \in {From(o), To(o)} : store'[p] = store[p] /\ index'[p] = index[p]
    PROVE /\ Close(o)' = Close(o) /\ Done(o)' = Done(o) /\ Agreed(o)' = Agreed(o)
          /\ Exists(To(o))' = Exists(To(o)) /\ Exists(From(o))' = Exists(From(o))
          /\ Kind(o)' = Kind(o) /\ From(o)' = From(o) /\ To(o)' = To(o)
<1>1. Kind(o)' = Kind(o) /\ From(o)' = From(o) /\ To(o)' = To(o)
    BY DEF Kind, From, To
<1>2. \A p \in {From(o), To(o)} : Exists(p)' = Exists(p) /\ HasRow(p)' = HasRow(p) /\ Agree(p)' = Agree(p)
    BY DEF Exists, HasRow, Agree
<1> QED
    BY <1>1, <1>2 DEF Close, Done, Agreed

\* The store's part, done once or again, keeps the rows close; the index's part brings
\* them together, and so does what a recovery does in its place.
LEMMA StoredClose ==
    ASSUME TypeInv, NEW o \in Ops, pc[o] # "new", Close(o), Possible(o),
           store' = Stored(o), index' = index, req' = req
    PROVE Close(o)' /\ Done(o)'
<1> USE RequestFields, NoneApart DEF TypeInv, TypeOK, Exists, HasRow, Agree, Contents
<1>0. Kind(o)' = Kind(o) /\ From(o)' = From(o) /\ To(o)' = To(o)
    BY DEF Kind, From, To
<1>1. Done(o)'
    BY <1>0 DEF Done, Stored, Possible, Kinds, Relocates
<1>2. Close(o)'
    BY <1>0, <1>1 DEF Close, Done, Stored, Possible, Kinds, Relocates
<1> QED
    BY <1>1, <1>2

LEMMA IndexedAgreed ==
    ASSUME TypeInv, NEW o \in Ops, pc[o] # "new", Close(o), Done(o), IndexMay(o),
           index' = Indexed(o), store' = store, req' = req
    PROVE Close(o)' /\ Agreed(o)'
<1> USE RequestFields, NoneApart DEF TypeInv, TypeOK, Exists, HasRow, Agree, Contents
<1>0. Kind(o)' = Kind(o) /\ From(o)' = From(o) /\ To(o)' = To(o)
    BY DEF Kind, From, To
<1>1. Agreed(o)'
    BY <1>0 DEF Agreed, Close, Done, Indexed, IndexMay, RowGone, RowMoved, RowMayMove, Kinds, Relocates
<1>2. Done(o)'
    BY <1>0 DEF Done
<1>3. Close(o)'
    BY <1>0, <1>1, <1>2 DEF Close, Agreed, Done
<1> QED
    BY <1>1, <1>3

LEMMA RecoveredAgreed ==
    ASSUME TypeInv, NEW x \in Runs, NEW o \in Ops, pc[o] # "new", Close(o), RecoverMay(x, o),
           IF Kind(o) \in {"write", "copy"} THEN rec[x].found = Exists(To(o)) ELSE Done(o),
           Kind(o) = "copy" /\ WasDone(x) => Done(o),
           index' \in RecoveredRows(x, o), store' = store, req' = req
    PROVE Close(o)' /\ Agreed(o)'
<1> USE RequestFields, NoneApart DEF TypeInv, TypeOK, Exists, HasRow, Agree, Contents
<1>0. Kind(o)' = Kind(o) /\ From(o)' = From(o) /\ To(o)' = To(o)
    BY DEF Kind, From, To
<1>1. Agreed(o)'
  <2> USE <1>0 DEF Agreed, RecoverMay, RecoveredRows, Kinds, Relocates
  <2>1. CASE Kind(o) \in {"write", "mkdir"}
    <3>1. From(o) = To(o)
      BY <2>1
    <3>2. CASE Exists(To(o))
      <4>1. index' = RowSynced(To(o))
        BY <2>1, <3>2
      <4> QED BY <3>1, <3>2, <4>1 DEF RowSynced
    <3>3. CASE ~Exists(To(o))
      <4>1. Kind(o) = "write" /\ ~rec[x].found
        BY <2>1, <3>3 DEF Done
      <4>2. index' = RowGone(To(o))
        BY <4>1
      <4> QED BY <3>1, <3>3, <4>2 DEF RowGone
    <3> QED BY <3>2, <3>3
  <2>2. CASE Kind(o) = "delete"
    BY <2>2 DEF Done, RowGone
  <2>3. CASE Kind(o) \in Relocates
    BY <2>3 DEF Done, Close, RowMoved, RowMayMove
  <2>4. CASE Kind(o) = "copy"
    <3>1. CASE WasDone(x) \/ rec[x].found
      <4>1. Exists(To(o)) /\ index' \in RowsCopied(o)
        BY <2>4, <3>1 DEF Done
      <4> QED BY <2>4, <4>1 DEF Close, RowsCopied, RowSynced
    <3>2. CASE ~(WasDone(x) \/ rec[x].found)
      <4>1. index' = RowGone(To(o)) /\ store[To(o)] = None /\ From(o) # To(o)
        BY <2>4, <3>2
      <4>2. Agree(From(o))
        BY <2>4 DEF Close
      <4> QED BY <4>1, <4>2 DEF RowGone
    <3> QED BY <3>1, <3>2
  <2> QED BY <2>1, <2>2, <2>3, <2>4
<1>2. Done(o) => Done(o)'
    BY <1>0 DEF Done
<1>3. Close(o)'
    BY <1>0, <1>1, <1>2 DEF Close, Agreed, Done
<1> QED
    BY <1>1, <1>3

AgreeAll == HandsAll /\ AgreeInv

\* What an operation that is alone on its paths does itself.
LEMMA OwnStep ==
    ASSUME AgreeAll, NEW o \in Ops, pc[o] # "new", PathsInv(o), Operation(o) PROVE PathsInv(o)'
<1> USE DEF AgreeAll, HandsAll, TypeInv, TypeOK
<1>1. /\ ~Ended(o) /\ rec' = rec /\ UNCHANGED req
      /\ log[o] # "completed"
    BY OperationFrame DEF PathsInv, Outside, Inside
<1>2. \A x \in Runs : rec[x].taken.op # o /\ \A row \in Row : InHand(x, row) => row.op # o
  <2>1. ASSUME NEW x \in Runs PROVE /\ \A row \in Row : InHand(x, row) => row.op # o
    BY <1>1 DEF HandsInv
  <2>2. ASSUME NEW x \in Runs PROVE rec[x].taken.op # o
    <3>1. rec[x].taken \in Row \cup {NoRow}
      BY DEF RunState
    <3> QED BY <2>1, <3>1, NoneApart DEF InHand, NoRow, Contents
  <2> QED BY <2>1, <2>2
<1>3. SUFFICES /\ Close(o)'
               /\ (pc[o] \in PastStore \/ log[o] = "physical_done")' => Done(o)'
               /\ log'[o] = "completed" => Ended(o)'
               /\ (pc[o] = "complete")' \/ log'[o] = "completed" => Agreed(o)'
  <2>1. \A x \in Runs : rec'[x].taken.op # o /\ \A row \in Row : InHand(x, row)' => row.op # o
    BY <1>1, <1>2 DEF InHand
  <2> QED BY <2>1 DEF PathsInv, Outside, Inside, Row
<1>4. Close(o) /\ (pc[o] \in PastStore \/ log[o] = "physical_done" => Done(o)) /\ (pc[o] = "complete" => Agreed(o))
    BY DEF PathsInv, Outside, Inside
<1>5. CASE UNCHANGED <<store, index>>
  <2>1. Close(o)' /\ Done(o)' = Done(o) /\ Agreed(o)' = Agreed(o)
    BY <1>1, <1>4, <1>5, SamePaths
  <2>2. CASE Begin(o)
    BY <2>2 DEF Begin, At
  <2>3. CASE BeginWal(o)
    BY <1>1, <2>1, <2>3 DEF BeginWal, At, Go, PastStore, RequestsInv
  <2>4. CASE ChangeStore(o) \/ ChangeIndex(o)
    <3>1. CASE ChangeStore(o) /\ (pc[o] \in PastStore)'
      <4>1. store' = Stored(o) /\ Possible(o) /\ index' = index /\ UNCHANGED log
        BY <3>1 DEF ChangeStore, At, Go, PastStore
      <4>2. Done(o)'
        BY <1>1, <1>4, <4>1, StoredClose
      <4>3. pc'[o] # "complete"
        BY <3>1 DEF ChangeStore, At, Go
      <4> QED BY <1>1, <2>1, <4>1, <4>2, <4>3
    <3>2. CASE ChangeStore(o) /\ ~(pc[o] \in PastStore)'
      BY <1>1, <1>4, <2>1, <3>2 DEF ChangeStore, PastStore
    <3>3. CASE ChangeIndex(o) /\ (pc[o] = "complete")'
      <4>1. index' = Indexed(o) /\ IndexMay(o) /\ store' = store /\ UNCHANGED log /\ pc[o] = "index"
        BY <3>3 DEF ChangeIndex, At, Go
      <4>2. Agreed(o)'
        BY <1>1, <1>4, <4>1, IndexedAgreed DEF PastStore
      <4> QED BY <1>1, <1>4, <2>1, <4>1, <4>2 DEF PastStore
    <3>4. CASE ChangeIndex(o) /\ ~(pc[o] = "complete")'
      BY <1>1, <1>4, <2>1, <3>4 DEF ChangeIndex, At, Go, PastStore
    <3> QED BY <2>4, <3>1, <3>2, <3>3, <3>4
  <2>5. CASE MarkPhysicalDone(o) \/ FailWal(o)
    BY <1>1, <1>4, <2>1, <2>5 DEF MarkPhysicalDone, FailWal, Transition, Marked, At, Go, PastStore
  <2>6. CASE CompleteWal(o)
    BY <1>1, <1>4, <2>1, <2>6 DEF CompleteWal, Transition, Marked, At, Go, PastStore, Ended
  <2> QED BY <2>2, <2>3, <2>4, <2>5, <2>6 DEF Operation
<1>6. CASE ChangeStore(o) /\ store' # store
  <2>1. store' = Stored(o) /\ Possible(o) /\ index' = index /\ UNCHANGED log /\ pc'[o] # "complete"
    BY <1>6 DEF ChangeStore, At, Go
  <2>2. Close(o)' /\ Done(o)'
    BY <1>1, <1>4, <2>1, StoredClose
  <2> QED BY <1>1, <2>1, <2>2
<1>7. CASE ChangeIndex(o) /\ index' # index
  <2>1. index' = Indexed(o) /\ IndexMay(o) /\ store' = store /\ UNCHANGED log /\ pc[o] = "index"
    BY <1>7 DEF ChangeIndex, At, Go
  <2>2. Close(o)' /\ Agreed(o)'
    BY <1>1, <1>4, <2>1, IndexedAgreed DEF PastStore
  <2>3. Done(o)'
    BY <1>1, <1>4, <2>1 DEF PastStore, Done, Exists, Kind, From, To
  <2> QED BY <1>1, <2>1, <2>2, <2>3
<1> QED
    BY <1>5, <1>6, <1>7 DEF Operation, Begin, BeginWal, ChangeStore, MarkPhysicalDone, ChangeIndex, CompleteWal, FailWal

\* What a recovery does with the operation's row.
LEMMA RecoveryOfIt ==
    ASSUME AgreeAll, NEW x \in Runs, Recovery(x), NEW o \in Ops, PathsInv(o),
           rec[x].pc \in Working, Taken(x) = o
    PROVE Outside(o)' /\ Inside(o, x)'
<1> USE DEF AgreeAll, HandsAll, TypeInv, TypeOK
<1>1. rec[x].taken \in Row /\ pc[o] # "new" /\ Ended(o) /\ log[o] \in Active /\ rec[x] \in RunState
    BY TakenBegun DEF HandsInv, InHand, Taken
<1>2. UNCHANGED <<pc, req>>
    BY RecoveryFrame
<1>3. /\ pc[o] # "complete" /\ log[o] # "completed" /\ Close(o) /\ Ended(o)' /\ (Promised(o) = Promised(o)')
      /\ pc[o] \in PastStore \/ log[o] = "physical_done" => Done(o)
    BY <1>1, <1>2 DEF Ended, Active, PathsInv, Outside, Inside, Promised, Kind
<1>4. Inside(o, x) /\ Kind(o)' = Kind(o) /\ From(o)' = From(o) /\ To(o)' = To(o)
    BY <1>2 DEF PathsInv, Outside, Inside, Kind, From, To
<1>5. WasDone(x) => Done(o)
  <2>1. WasDone(x) => rec[x].taken = [op |-> o, status |-> "physical_done"]
    BY <1>1 DEF WasDone, Taken, Row
  <2> QED BY <1>1, <1>4, <2>1 DEF Inside, InHand
<1>6. Promised(o) /\ Kind(o) = "move" => Done(o)
    BY <1>3 DEF Promised, PastStore
<1>7. CASE Probe(x)
  <2> DEFINE next == AfterProbe(o, WasDone(x), Exists(From(o)), Exists(To(o)))
  <2>1. /\ UNCHANGED <<store, index, log>> /\ rec'[x].rows = rec[x].rows
        /\ \/ rec'[x].pc = next /\ rec'[x].found = Exists(To(o)) /\ rec'[x].taken = rec[x].taken
           \/ rec'[x].pc \in {"bad", "row"} /\ rec'[x].taken \in {rec[x].taken, NoRow}
    BY <1>1, <1>7 DEF Probe, RunGo, LeaveRow, RunState
  <2>2. next # "done" /\ (next = "store" => Kind(o) \notin {"write", "copy"})
    BY DEF AfterProbe, DeleteAgain, Relocation
  <2>3. next = "index" => Kind(o) \in {"write", "copy"} \/ Done(o)
    BY <1>1, <1>5, RequestFields DEF AfterProbe, DeleteAgain, Relocation, Done, Kinds, Relocates
  <2>4. Close(o)' = Close(o) /\ Done(o)' = Done(o) /\ Exists(To(o))' = Exists(To(o))
    BY <1>1, <1>2, <2>1, SamePaths
  <2> HIDE DEF next
  <2>5. Outside(o)'
    BY <1>2, <1>3, <2>1, <2>4 DEF Outside
  <2>6. \A row \in Row : InHand(x, row)' => InHand(x, row)
    BY <2>1, IdleFields DEF InHand
  <2>7. Inside(o, x)'
    BY <1>4, <2>1, <2>2, <2>3, <2>4, <2>6 DEF Inside
  <2> QED BY <2>5, <2>7
<1>8. CASE RecoverStore(x)
  <2>1. /\ index' = index /\ log' = log /\ rec'[x].rows = rec[x].rows /\ rec'[x].taken = rec[x].taken
        /\ Kind(o) \notin {"write", "copy"}
        /\ store' = store \/ (store' = Stored(o) /\ Possible(o))
        /\ \/ rec'[x].pc = "bad"
           \/ /\ rec'[x].pc = IF Kind(o) = "move" THEN "done" ELSE "index"
              /\ store' = Stored(o) /\ Possible(o)
    BY <1>1, <1>4, <1>8 DEF RecoverStore, RunGo, RunAt, RunState, Inside, Taken
  <2>2. CASE store' = Stored(o) /\ Possible(o)
    <3>1. Close(o)' /\ Done(o)'
      BY <1>1, <1>2, <1>3, <2>1, <2>2, StoredClose
    <3>2. Kind(o) = "move" => ~Promised(o)
      BY <1>6, <2>2 DEF Possible, Done, Relocates
    <3> QED BY <1>2, <1>3, <1>4, <2>1, <3>1, <3>2 DEF Outside, Inside
  <2>3. CASE store' = store /\ rec'[x].pc = "bad"
    <3>1. Close(o)' = Close(o) /\ Done(o)' = Done(o)
      BY <1>1, <1>2, <2>1, <2>3, SamePaths
    <3> QED BY <1>2, <1>3, <1>4, <2>1, <2>3, <3>1 DEF Outside, Inside, InHand
  <2> QED BY <2>1, <2>2, <2>3
<1>9. CASE RecoverIndex(x)
  <2>1. /\ store' = store /\ log' = log /\ rec'[x].rows = rec[x].rows /\ rec'[x].taken = rec[x].taken
        /\ rec[x].pc = "index"
        /\ \/ rec'[x].pc = "bad" /\ index' = index
           \/ rec'[x].pc = "done" /\ index' \in RecoveredRows(x, o) /\ RecoverMay(x, o)
    BY <1>1, <1>9 DEF RecoverIndex, RunGo, RunAt, RunState
  <2>2. Done(o)' = Done(o)
    BY <1>4, <2>1 DEF Done, Exists
  <2>3. CASE index' = index /\ rec'[x].pc = "bad"
    <3>1. Close(o)' = Close(o)
      BY <1>1, <1>2, <2>1, <2>3, SamePaths
    <3> QED BY <1>2, <1>3, <1>4, <2>1, <2>2, <2>3, <3>1 DEF Outside, Inside, InHand
  <2>4. CASE rec'[x].pc = "done" /\ index' \in RecoveredRows(x, o) /\ RecoverMay(x, o)
    <3>1. Close(o)' /\ Agreed(o)'
      BY <1>1, <1>2, <1>3, <1>4, <1>5, <2>1, <2>4, RecoveredAgreed DEF Inside, Taken
    <3> QED BY <1>2, <1>3, <1>4, <2>1, <2>2, <2>4, <3>1 DEF Outside, Inside, InHand
  <2> QED BY <2>1, <2>3, <2>4
<1>10. CASE FinishRow(x)
  <2>1. /\ UNCHANGED <<store, index>> /\ rec'[x].rows = rec[x].rows /\ rec'[x].taken = NoRow /\ rec'[x].pc = "row"
        /\ log'[o] \in {log[o], IF rec[x].pc = "done" THEN "completed" ELSE "failed"}
    BY <1>1, <1>10 DEF FinishRow, LeaveRow, RunAt, RunState, Transition, Marked
  <2>2. Close(o)' = Close(o) /\ Done(o)' = Done(o) /\ Agreed(o)' = Agreed(o)
    BY <1>1, <1>2, <2>1, SamePaths
  <2>3. rec[x].pc = "done" /\ Promised(o) => Agreed(o)
    BY <1>4 DEF Inside, Taken
  <2>4. Outside(o)'
    BY <1>2, <1>3, <2>1, <2>2, <2>3 DEF Outside
  <2>5. Inside(o, x)'
    BY <1>4, <2>1, <2>2, IdleFields DEF Inside, InHand
  <2> QED BY <2>4, <2>5
<1> QED
    BY <1>7, <1>8, <1>9, <1>10 DEF Recovery, Working, ReadRows, ReadIssue, LockUsers, EndRun, MarkRecovering, RunAt

\* What the recovery does with other rows.
LEMMA RecoveryOfOthers ==
    ASSUME AgreeAll, NEW x \in Runs, Recovery(x), NEW o \in Ops, pc[o] # "new", PathsInv(o), Alone(o),
           ~(rec[x].pc \in Working /\ Taken(x) = o)
    PROVE Outside(o)' /\ Inside(o, x)'
<1> USE DEF AgreeAll, HandsAll, TypeInv, TypeOK
<1>1. UNCHANGED <<pc, req>> /\ rec[x] \in RunState
    BY RecoveryFrame
<1>2. \A p \in {From(o), To(o)} : store'[p] = store[p] /\ index'[p] = index[p]
  <2>1. rec[x].pc \in Working => \A p \in {From(o), To(o)} : ~Touches(Taken(x), p)
    BY TakenBegun, RequestFields DEF Alone, Touches
  <2> QED BY <2>1, RecoveryPaths, RequestFields
<1>3. /\ Close(o)' = Close(o) /\ Done(o)' = Done(o) /\ Agreed(o)' = Agreed(o)
      /\ Exists(To(o))' = Exists(To(o)) /\ Kind(o)' = Kind(o) /\ Promised(o)' = Promised(o) /\ Ended(o)' = Ended(o)
    BY <1>1, <1>2, SamePaths DEF Promised, Ended
<1>4. Outside(o) /\ Inside(o, x)
    BY DEF PathsInv, Outside, Inside
<1>5. CASE MarkRecovering(x)
  <2>1. PICK row \in rec[x].rows :
           \/ /\ rec' = [rec EXCEPT ![x].pc = "probe", ![x].rows = @ \ {row}, ![x].taken = row]
              /\ log' = Marked(row.op, "recovering")
           \/ rec' = [rec EXCEPT ![x].rows = @ \ {row}] /\ log' = log
    BY <1>5 DEF MarkRecovering
  <2>2. row \in Row /\ row.op \in Ops /\ rec[x].pc = "row"
    BY <1>1, <1>5 DEF RunState, Row, MarkRecovering, RunAt
  <2>3. /\ rec'[x].rows = rec[x].rows \ {row} /\ rec'[x].pc \in {"probe", "row"}
        /\ rec'[x].taken \in {row, rec[x].taken}
    BY <1>1, <2>1, <2>2 DEF RunState
  <2>4. log'[o] \in {log[o], "recovering"}
    BY <2>1, <2>2 DEF Marked
  <2>5. \A other \in Row : InHand(x, other)' => InHand(x, other)
    BY <2>3 DEF InHand
  <2>6. Outside(o)'
    BY <1>1, <1>3, <1>4, <2>4 DEF Outside
  <2>7. Inside(o, x)'
    BY <1>3, <1>4, <2>3, <2>5 DEF Inside
  <2> QED BY <2>6, <2>7
<1>6. CASE ReadRows(x) \/ ReadIssue(x)
  <2>1. log' = log
    BY <1>6 DEF ReadRows, ReadIssue
  <2>2. PICK set \in SUBSET NotCompleted, first \in {"lock", "row"}, locks \in BOOLEAN :
           rec'[x] = StartRun(first, {RowOf(u) : u \in set}, locks)
    BY <1>6, RunStarts, ZenonT(60) DEF TypeInv, TypeOK
  <2> DEFINE rows == {RowOf(u) : u \in set}
  <2>3. \A row \in rows : row.status = log[row.op]
    BY DEF RowOf
  <2>4. rec'[x].rows = rows /\ rec'[x].taken = NoRow /\ rec'[x].pc \in {"lock", "row"}
    BY <2>2 DEF StartRun, IdleRun
  <2> HIDE DEF rows
  <2>5. Outside(o)'
    BY <1>1, <1>3, <1>4, <2>1 DEF Outside
  <2>6. \A row \in Row : InHand(x, row)' /\ row = [op |-> o, status |-> "physical_done"] => Done(o)
    BY <1>4, <2>3, <2>4, IdleFields DEF InHand, Outside
  <2>7. Inside(o, x)'
    BY <1>3, <2>4, <2>6 DEF Inside
  <2> QED BY <2>5, <2>7
<1>7. CASE ~(MarkRecovering(x) \/ ReadRows(x) \/ ReadIssue(x))
  <2>1. log'[o] = log[o]
    <3>1. CASE FinishRow(x)
      <4>1. Taken(x) \in Ops /\ Taken(x) # o
        BY <3>1, TakenBegun DEF FinishRow, Working
      <4> QED BY <3>1, <4>1 DEF FinishRow, Transition, Marked
    <3>2. CASE ~FinishRow(x)
      BY <1>7, <3>2 DEF Recovery, LockUsers, EndRun, Probe, RecoverStore, RecoverIndex
    <3> QED BY <3>1, <3>2
  <2>2. \A row \in Row : InHand(x, row)' => InHand(x, row)
    <3>1. rec'[x].rows \subseteq rec[x].rows /\ rec'[x].taken \in {rec[x].taken, NoRow}
      BY <1>1, <1>7, IdleFields DEF Recovery, LockUsers, EndRun, Probe, RecoverStore, RecoverIndex, FinishRow,
                                    RunGo, LeaveRow, RunState
    <3> QED BY <3>1, IdleFields DEF InHand
  <2>3. rec'[x].taken.op = o => rec'[x].pc \notin {"store", "index", "done"}
    <3>1. CASE LockUsers(x) \/ EndRun(x)
      BY <1>1, <3>1, IdleFields DEF LockUsers, EndRun, RunGo, RunState
    <3>2. CASE Probe(x) \/ RecoverStore(x) \/ RecoverIndex(x) \/ FinishRow(x)
      <4>1. rec[x].pc \in Working /\ Taken(x) # o
        BY <3>2 DEF Probe, RecoverStore, RecoverIndex, FinishRow, RunAt, Working
      <4>2. rec'[x].taken = rec[x].taken \/ rec'[x].pc = "row"
        BY <1>1, <3>2 DEF Probe, RecoverStore, RecoverIndex, FinishRow, RunGo, LeaveRow, RunState
      <4> QED BY <4>1, <4>2 DEF Taken
    <3> QED BY <1>7, <3>1, <3>2 DEF Recovery
  <2>4. Outside(o)'
    BY <1>1, <1>3, <1>4, <2>1 DEF Outside
  <2>5. Inside(o, x)'
    BY <1>3, <1>4, <2>2, <2>3 DEF Inside
  <2> QED BY <2>4, <2>5
<1> QED
    BY <1>5, <1>6, <1>7

LEMMA AgreeStep ==
    ASSUME AgreeAll, OneRecovery, OneRecovery', [Next]_vars PROVE AgreeInv'
<1> USE DEF AgreeAll, HandsAll, TypeInv, TypeOK
<1>1. CASE UNCHANGED vars
    BY <1>1 DEF vars, AgreeInv, Untouched, Alone, Touches, Agree, PathsInv, Outside, Inside, InHand, Close, Done, Agreed,
                Promised, Exists, HasRow, Kind, From, To, Ended
<1> SUFFICES ASSUME Next PROVE AgreeInv'
    BY <1>1
\* Operations stay begun, with the paths they have.
<1>2. \A u \in Ops : pc[u] # "new" => pc'[u] # "new" /\ req'[u] = req[u] /\ \A p : Touches(u, p)' = Touches(u, p)
    BY OperationFrame, RecoveryFrame, CrashFrame DEF Next, Touches, From, To
<1>3. ASSUME NEW p \in Paths, Untouched(p)' PROVE Agree(p)'
  <2>1. Untouched(p)
    BY <1>2, <1>3 DEF Untouched
  <2>2. store'[p] = store[p] /\ index'[p] = index[p]
    <3>1. ASSUME NEW u \in Ops, Operation(u) PROVE store'[p] = store[p] /\ index'[p] = index[p]
      BY <2>1, <3>1, OperationPaths DEF Untouched
    <3>2. ASSUME NEW x \in Runs, Recovery(x) PROVE store'[p] = store[p] /\ index'[p] = index[p]
      BY <2>1, <3>2, RecoveryPaths, TakenBegun DEF Untouched
    <3> QED BY <3>1, <3>2, CrashFrame DEF Next
  <2> QED BY <2>1, <2>2 DEF AgreeInv, Agree
<1>4. ASSUME NEW o \in Ops, (pc[o] # "new")', Alone(o)' PROVE PathsInv(o)'
  <2>1. CASE pc[o] = "new"
    <3>1. Operation(o) /\ UNCHANGED <<store, index, log>> /\ rec' = rec
      BY <1>4, <2>1, OperationFrame, RecoveryFrame, CrashFrame DEF Next
    <3>2. pc'[o] = "admitted" /\ req'[o] \in Requests
      BY <2>1, <3>1 DEF Operation, Begin, BeginWal, ChangeStore, MarkPhysicalDone, ChangeIndex, CompleteWal, FailWal, At, Go
    <3>3. PICK f \in Paths, t \in Paths :
             f = From(o)' /\ t = To(o)' /\ Touches(o, f)' /\ Touches(o, t)'
      BY <3>2, WalAssumption DEF From, To, Touches
    <3>4. Untouched(f) /\ Untouched(t)
      BY <1>2, <1>4, <2>1, <3>3 DEF Untouched, Alone
    <3>5. Agree(f)' /\ Agree(t)'
      BY <3>1, <3>4 DEF AgreeInv, Agree
    <3>6. log'[o] = "none"
      BY <2>1, <3>1 DEF RequestsInv
    <3>7. Close(o)' /\ Agreed(o)'
      BY <3>3, <3>5 DEF Close, Agreed, Agree, HasRow, Exists
    <3>8. Outside(o)'
      BY <3>2, <3>6, <3>7 DEF Outside, PastStore
    <3>9. ASSUME NEW x \in Runs PROVE Inside(o, x)'
      <4>1. \A row \in Row : InHand(x, row) => row.op # o
        BY <2>1 DEF HandsInv, Ended
      <4>2. rec[x].taken.op # o
        <5>1. rec[x].taken \in Row \cup {NoRow}
          BY DEF RunState
        <5> QED BY <4>1, <5>1, NoneApart DEF InHand, NoRow, Contents
      <4> QED BY <3>1, <4>1, <4>2 DEF Inside, InHand, Row
    <3> QED BY <3>8, <3>9 DEF PathsInv
  <2>2. CASE pc[o] # "new"
    <3>1. Alone(o)
      BY <1>2, <1>4, <2>2 DEF Alone
    <3>2. PathsInv(o)
      BY <2>2, <3>1 DEF AgreeInv
    <3>3. CASE Operation(o)
      BY <2>2, <3>2, <3>3, OwnStep
    <3>4. ASSUME NEW u \in Ops \ {o}, Operation(u) PROVE PathsInv(o)'
      <4>1. pc'[o] = pc[o] /\ log'[o] = log[o] /\ req'[o] = req[o] /\ rec' = rec /\ pc'[u] # "new"
        BY <3>4, OperationFrame
      <4>2. \A p \in {From(o), To(o)} : store'[p] = store[p] /\ index'[p] = index[p]
        <5>1. pc[u] # "new" => \A p \in {From(o), To(o)} : ~Touches(u, p)
          BY <2>2, <3>1, RequestFields DEF Alone, Touches
        <5> QED BY <2>2, <3>4, <5>1, OperationPaths, RequestFields
      <4>3. /\ Close(o)' = Close(o) /\ Done(o)' = Done(o) /\ Agreed(o)' = Agreed(o)
            /\ Exists(To(o))' = Exists(To(o)) /\ Kind(o)' = Kind(o)
            /\ Promised(o)' = Promised(o) /\ Ended(o)' = Ended(o)
        BY <2>2, <4>1, <4>2, SamePaths DEF Promised, Ended
      <4>4. Outside(o)'
        BY <3>2, <4>1, <4>3 DEF PathsInv, Outside
      <4>5. \A x \in Runs : Inside(o, x)'
        BY <3>2, <4>1, <4>3 DEF PathsInv, Inside, InHand
      <4> QED BY <4>4, <4>5 DEF PathsInv
    <3>5. ASSUME NEW x \in Runs, Recovery(x) PROVE PathsInv(o)'
      <4>1. Outside(o)' /\ Inside(o, x)'
        BY <2>2, <3>1, <3>2, <3>5, RecoveryOfIt, RecoveryOfOthers
      <4>2. ASSUME NEW y \in Runs \ {x} PROVE Inside(o, y)'
        <5>1. rec'[y] = rec[y]
          BY <3>5, <4>2, RecoveryFrame
        <5>2. CASE rec[y].pc = "idle"
          <6>1. rec'[y] = IdleRun
            BY <5>1, <5>2 DEF HandsInv
          <6> QED BY <6>1, IdleFields DEF Inside, InHand
        <5>3. CASE rec[y].pc # "idle"
          <6>1. rec[x].pc = "idle" /\ rec'[x].pc = "idle"
            BY <4>2, <5>1, <5>3 DEF OneRecovery
          <6>2. FALSE
            <7>1. ReadRows(x) \/ ReadIssue(x)
              BY <3>5, <6>1 DEF Recovery, LockUsers, EndRun, Probe, RecoverStore, RecoverIndex, MarkRecovering,
                                FinishRow, RunAt
            <7>2. PICK set \in SUBSET NotCompleted, first \in {"lock", "row"}, locks \in BOOLEAN :
                     rec' = [rec EXCEPT ![x] = StartRun(first, {RowOf(u) : u \in set}, locks)]
              BY <7>1, RunStarts
            <7>3. rec'[x].pc = first
              BY <7>2 DEF StartRun, IdleRun
            <7> QED BY <6>1, <7>3
          <6> QED BY <6>2
        <5> QED BY <5>2, <5>3
      <4> QED BY <4>1, <4>2 DEF PathsInv
    <3>6. CASE Crash
      <4>1. /\ UNCHANGED <<store, index, log, req>> /\ \A x \in Runs : rec'[x] = IdleRun
            /\ pc'[o] = pc[o] \/ pc'[o] = "lost"
            /\ Ended(o) => pc'[o] = pc[o]
        BY <3>6, CrashFrame
      <4>2. Close(o)' = Close(o) /\ Done(o)' = Done(o) /\ Agreed(o)' = Agreed(o) /\ Kind(o)' = Kind(o)
        BY <2>2, <4>1, SamePaths
      <4>3. Outside(o)'
        BY <3>2, <3>6, <4>1, <4>2, CrashFrame DEF PathsInv, Outside, PastStore, Promised, Ended
      <4>4. \A x \in Runs : Inside(o, x)'
        BY <4>1, IdleFields DEF Inside, InHand
      <4> QED BY <4>3, <4>4 DEF PathsInv
    <3> QED BY <3>3, <3>4, <3>5, <3>6 DEF Next
  <2> QED BY <2>1, <2>2
<1> QED
    BY <1>3, <1>4 DEF AgreeInv

\* A row is completed, by its operation or by a recovery, only when the files and the
\* index rows of its paths go together again, whatever failed or was cut short before;
\* but for a move that had not answered Ok.
THEOREM CompletedRowsAgree == Spec /\ []OneRecovery => []CompletedAgrees
<1>1. Init => AgreeAll
  <2>1. Init => AgreeInv
    BY DEF Init, AgreeInv, Agree
  <2> QED BY <2>1, HandsInit DEF AgreeAll
<1>2. AgreeAll /\ OneRecovery /\ OneRecovery' /\ [Next]_vars => AgreeAll'
    BY TypeStep, HandsStep, SettledStep, AgreeStep DEF AgreeAll, HandsAll
<1>3. AgreeAll => CompletedAgrees
  <2> SUFFICES ASSUME AgreeAll, NEW o \in Ops, log[o] = "completed", Ended(o), Alone(o), Kind(o) = "move" => pc[o] = "ok"
               PROVE \A p \in {From(o), To(o)} : Agree(p)
    BY DEF CompletedAgrees, Agree
  <2>1. PathsInv(o)
    BY DEF AgreeAll, AgreeInv, Ended
  <2> QED BY <2>1 DEF PathsInv, Outside, Promised, Agreed
<1> QED
    BY <1>1, <1>2, <1>3, PTL DEF Spec

-----------------------------------------------------------------------------
(* What recovery does to the contents: proof                                *)

KeepsAll == HandsAll /\ TargetsFree

LEMMA TargetsStep ==
    ASSUME KeepsAll, OneRecovery, OneRecovery', [Next]_vars PROVE TargetsFree'
<1> USE DEF KeepsAll, HandsAll, TypeInv, TypeOK
<1>1. CASE UNCHANGED vars
    BY <1>1 DEF vars, TargetsFree, NoneSince, Kind, Taken, Exists, To
<1> SUFFICES ASSUME Next, NEW x \in Runs, rec'[x].pc = "store", NoneSince(x)'
             PROVE /\ Kind(Taken(x))' \in {"delete", "mkdir"} \cup Relocates
                   /\ Kind(Taken(x))' \in Relocates => ~Exists(To(Taken(x)))'
    BY <1>1 DEF TargetsFree
<1>2. ~Crash
    BY CrashFrame, IdleFields
<1>3. ASSUME NEW o \in Ops, Operation(o) PROVE FALSE
  <2>1. rec' = rec /\ pc'[o] # "new" /\ ~Ended(o)
    BY <1>3, OperationFrame
  <2>2. o \in rec[x].begun
    BY <2>1 DEF NoneSince
  <2> QED BY <2>1, <2>2 DEF HandsInv
<1>4. ASSUME NEW y \in Runs \ {x}, Recovery(y) PROVE FALSE
  <2>1. rec'[x] = rec[x]
    BY <1>4, RecoveryFrame
  <2>2. rec[y].pc = "idle" /\ rec'[y].pc = "idle"
    BY <1>4, <2>1 DEF OneRecovery
  <2>3. ReadRows(y) \/ ReadIssue(y)
    BY <1>4, <2>2 DEF Recovery, LockUsers, EndRun, Probe, RecoverStore, RecoverIndex, MarkRecovering, FinishRow, RunAt
  <2>4. PICK set \in SUBSET NotCompleted, first \in {"lock", "row"}, locks \in BOOLEAN :
           rec' = [rec EXCEPT ![y] = StartRun(first, {RowOf(o) : o \in set}, locks)]
    BY <2>3, RunStarts
  <2>5. rec'[y].pc = first
    BY <2>4 DEF StartRun, IdleRun
  <2> QED BY <2>2, <2>5
<1>5. CASE Recovery(x)
  <2> DEFINE o == Taken(x)
             next == AfterProbe(o, WasDone(x), Exists(From(o)), Exists(To(o)))
  <2>1. Probe(x) /\ rec'[x].taken = rec[x].taken /\ next = "store"
    <3>1. ~(ReadRows(x) \/ ReadIssue(x))
      <4>1. SUFFICES ASSUME ReadRows(x) \/ ReadIssue(x) PROVE FALSE
        OBVIOUS
      <4>2. PICK set \in SUBSET NotCompleted, first \in {"lock", "row"}, locks \in BOOLEAN :
               rec' = [rec EXCEPT ![x] = StartRun(first, {RowOf(u) : u \in set}, locks)]
        BY <4>1, RunStarts
      <4>3. rec'[x].pc = first
        BY <4>2 DEF StartRun, IdleRun
      <4> QED BY <4>3
    <3>2. rec[x] \in RunState
      OBVIOUS
    <3>3. Probe(x)
      <4>1. ~(LockUsers(x) \/ EndRun(x))
        BY <3>2, IdleFields DEF LockUsers, EndRun, RunGo, RunState
      <4>2. ~(RecoverStore(x) \/ RecoverIndex(x) \/ FinishRow(x))
        BY <3>2 DEF RecoverStore, RecoverIndex, FinishRow, RunGo, LeaveRow, RunState
      <4>3. ~MarkRecovering(x)
        <5>1. SUFFICES ASSUME MarkRecovering(x) PROVE FALSE
          OBVIOUS
        <5>2. rec[x].pc = "row"
          BY <5>1 DEF MarkRecovering, RunAt
        <5>3. \/ \E row : rec' = [rec EXCEPT ![x].pc = "probe", ![x].rows = @ \ {row}, ![x].taken = row]
              \/ \E row : rec' = [rec EXCEPT ![x].rows = @ \ {row}]
          BY <5>1 DEF MarkRecovering
        <5>4. rec'[x].pc \in {"probe", "row"}
          BY <3>2, <5>2, <5>3, ZenonT(60) DEF RunState
        <5> QED BY <5>4
      <4> QED BY <1>5, <3>1, <4>1, <4>2, <4>3 DEF Recovery
    <3> QED BY <3>2, <3>3 DEF Probe, RunGo, LeaveRow, RunState
  <2>2. o \in Ops /\ pc[o] # "new"
    BY <2>1, TakenBegun DEF Probe, RunAt, Working
  <2>3. UNCHANGED <<store, req>>
    BY <2>1 DEF Probe
  <2>4. Taken(x)' = o /\ Kind(o)' = Kind(o) /\ To(o)' = To(o) /\ Exists(To(o))' = Exists(To(o))
    BY <2>1, <2>3 DEF Taken, Kind, To, Exists
  <2>5. /\ Kind(o) \in {"delete", "mkdir"} \cup Relocates
        /\ Kind(o) \in Relocates => ~Exists(To(o))
    BY <2>1, <2>2, RequestFields DEF AfterProbe, DeleteAgain, Relocation, Kinds, Relocates
  <2>6. Kind(Taken(x))' = Kind(o) /\ Exists(To(Taken(x)))' = Exists(To(o))
    BY <2>1, <2>3 DEF Taken, Kind, To, Exists
  <2> QED BY <2>5, <2>6
<1> QED
    BY <1>2, <1>3, <1>4, <1>5 DEF Next

\* What a recovery does to the store again loses nothing but what a delete was to take
\* away: in particular it never moves a file over another, as long as no operation
\* began since it read the rows.
THEOREM RecoveryLosesNothing == Spec /\ []OneRecovery => RecoveryKeepsContents
<1>1. Init => KeepsAll
  <2>1. Init => TargetsFree
    BY DEF Init, TargetsFree, IdleRun
  <2> QED BY <2>1, HandsInit DEF KeepsAll
<1>2. KeepsAll /\ OneRecovery /\ OneRecovery' /\ [Next]_vars => KeepsAll'
    BY TypeStep, HandsStep, SettledStep, TargetsStep DEF KeepsAll, HandsAll
<1>3. ASSUME KeepsAll, NEW x \in Runs, RecoverStore(x), Kind(Taken(x)) # "delete", NoneSince(x)
      PROVE Held(store) \subseteq Held(store')
  <2> USE DEF KeepsAll, HandsAll, TypeInv, TypeOK
  <2> DEFINE o == Taken(x)
  <2>1. o \in Ops /\ pc[o] # "new" /\ rec[x].pc = "store"
    BY <1>3, TakenBegun DEF RecoverStore, RunAt, Working
  <2>2. /\ From(o) \in Paths /\ To(o) \in Paths /\ Kind(o) \in {"mkdir"} \cup Relocates
        /\ Kind(o) \in Relocates => ~Exists(To(o)) /\ From(o) # To(o)
    BY <1>3, <2>1, RequestFields DEF TargetsFree, Relocates
  <2>3. store' = store \/ store' = Stored(o)
    BY <1>3 DEF RecoverStore
  <2> SUFFICES ASSUME NEW p \in Paths, store[p] # None
               PROVE \E q \in Paths : store'[q] = store[p]
    BY DEF Held
  <2>4. CASE store' = Stored(o) /\ Kind(o) = "mkdir"
    BY <2>2, <2>4 DEF Stored, Exists
  <2>5. CASE store' = Stored(o) /\ Kind(o) \in Relocates
    <3>1. store' = [store EXCEPT ![From(o)] = None, ![To(o)] = store[From(o)]]
      BY <2>5 DEF Stored, Relocates
    <3>2. store'[To(o)] = store[From(o)] /\ \A q \in Paths \ {From(o), To(o)} : store'[q] = store[q]
      BY <1>3, <2>2, <2>5, <3>1
    <3> QED BY <2>2, <2>5, <3>2 DEF Exists
  <2> QED BY <2>2, <2>3, <2>4, <2>5
<1>4. KeepsAll /\ [Next]_vars =>
      [\A x \in Runs : /\ RecoverStore(x) /\ Kind(Taken(x)) # "delete"
                       /\ \A o \in Ops : pc[o] # "new" => o \in rec[x].begun
                       => Held(store) \subseteq Held(store')]_vars
    BY <1>3 DEF NoneSince
<1> QED
    BY <1>1, <1>2, <1>4, PTL DEF Spec, RecoveryKeepsContents
=============================================================================
