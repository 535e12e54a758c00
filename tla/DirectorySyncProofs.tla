-------------------------- MODULE DirectorySyncProofs --------------------------
(***************************************************************************)
(* The guards of directories exclude each other (SyncGuards), and          *)
(* DirectorySync works on a directory one move or sync at a time, for      *)
(* every number of tasks, directories, mutexes and files.                  *)
(***************************************************************************)
EXTENDS DirectorySync, TLAPS

-----------------------------------------------------------------------------
(* The guards                                                               *)

\* Every step of the manager and of its mutexes keeps the types.
LEMMA GuardTypeStep == GuardTypeOK /\ [GuardNext]_guardVars => GuardTypeOK'
<1> SUFFICES ASSUME GuardTypeOK, [GuardNext]_guardVars PROVE GuardTypeOK'
    OBVIOUS
<1> USE DEF GuardTypeOK
<1>1. ASSUME NEW t \in Tasks, NEW d \in Dirs, GetGuard(t, d) PROVE GuardTypeOK'
    BY <1>1 DEF GetGuard
<1>2. ASSUME NEW t \in Tasks, NEW d \in Dirs, Lock(t, d) PROVE GuardTypeOK'
    BY <1>2 DEF Lock
<1>3. ASSUME NEW t \in Tasks, DropAll(t) PROVE GuardTypeOK'
    BY <1>3 DEF DropAll
<1>4. ASSUME NEW d \in Dirs, Prune(d) PROVE GuardTypeOK'
    BY <1>4 DEF Prune
<1>5. CASE UNCHANGED guardVars
    BY <1>5 DEF guardVars
<1> QED
    BY <1>1, <1>2, <1>3, <1>4, <1>5 DEF GuardNext

\* The strengthened invariant is inductive: get_guard hands out the map's mutex
\* or a new one, and prune only drops a mutex that no task refers to.
LEMMA GuardInvStep ==
    GuardTypeOK /\ GuardInv /\ [GuardNext]_guardVars => GuardInv'
<1> SUFFICES ASSUME GuardTypeOK, GuardInv, [GuardNext]_guardVars PROVE GuardInv'
    OBVIOUS
<1> USE GuardAssumption DEF GuardTypeOK, GuardInv
<1>1. ASSUME NEW t \in Tasks, NEW d \in Dirs, GetGuard(t, d) PROVE GuardInv'
  <2>1. PICK m \in Mutexes : /\ IF guards[d] = None THEN Fresh(m) ELSE m = guards[d]
                             /\ guards' = [guards EXCEPT ![d] = m]
                             /\ arcs' = [arcs EXCEPT ![t][d] = m]
    BY <1>1 DEF GetGuard
  <2>2. \A u \in Tasks, e \in Dirs : arcs'[u][e] # None => arcs'[u][e] = guards'[e]
    BY <2>1 DEF Fresh
  <2>3. \A e, f \in Dirs : guards'[e] # None /\ guards'[e] = guards'[f] => e = f
    BY <2>1 DEF Fresh
  <2>4. \A n \in Mutexes : owner'[n] # None => \E e \in Dirs : arcs'[owner'[n]][e] = n
    BY <1>1, <2>1 DEF GetGuard
  <2> QED BY <2>2, <2>3, <2>4
<1>2. ASSUME NEW t \in Tasks, NEW d \in Dirs, Lock(t, d) PROVE GuardInv'
    BY <1>2 DEF Lock
<1>3. ASSUME NEW t \in Tasks, DropAll(t) PROVE GuardInv'
    BY <1>3 DEF DropAll
<1>4. ASSUME NEW d \in Dirs, Prune(d) PROVE GuardInv'
    BY <1>4 DEF Prune, Referenced
<1>5. CASE UNCHANGED guardVars
    BY <1>5 DEF guardVars
<1> QED
    BY <1>1, <1>2, <1>3, <1>4, <1>5 DEF GuardNext

\* Two holders of one directory's lock would own the same mutex.
LEMMA InvGivesExclusion == GuardInv => GuardExclusion
    BY DEF GuardInv, GuardExclusion, Holds

LEMMA GuardInitInv == GuardInit => GuardTypeOK /\ GuardInv
    BY DEF GuardInit, GuardTypeOK, GuardInv

\* The type invariant and the strengthened invariant hold in every behaviour.
THEOREM GuardSafety == GuardSpec => [](GuardTypeOK /\ GuardInv)
<1>1. GuardTypeOK /\ GuardInv /\ [GuardNext]_guardVars => (GuardTypeOK /\ GuardInv)'
    BY GuardTypeStep, GuardInvStep
<1> QED
    BY GuardInitInv, <1>1, PTL DEF GuardSpec

\* At most one task holds the lock of a directory, whatever prune removes.
THEOREM ExclusionTheorem == GuardSpec => []GuardExclusion
    BY GuardSafety, InvGivesExclusion, PTL

-----------------------------------------------------------------------------
(* Moves and syncs use them                                                 *)


\* The steps that leave the guards alone.
Unguarding == \E t \in Tasks :
    \/ Start(t) \/ Debounce(t) \/ Claim(t) \/ AcquirePermit(t) \/ Rename(t) \/ ClearMarkers(t)
    \/ LoadRow(t) \/ MoveRow(t) \/ List(t) \/ Begin(t) \/ Commit(t) \/ Abandon(t) \/ Settle(t)
    \/ ReturnPermit(t) \/ ChangeStore(t) \/ FindRow(t) \/ UpsertRow(t) \/ DeleteRow(t)
UnguardedStep == Unguarding \/ \E d \in Dirs : Elapse(d)

LEMMA UnguardedKeeps == UnguardedStep => UNCHANGED guardVars
    BY DEF UnguardedStep, Unguarding, Start, Debounce, Claim, AcquirePermit, Rename, ClearMarkers,
       LoadRow, MoveRow, List, Begin, Commit, Abandon, Settle, ReturnPermit, ChangeStore, FindRow,
       UpsertRow, DeleteRow, Elapse

\* The steps by the guard action they take.
LEMMA NextSplit ==
    ASSUME Next
    PROVE \/ UnguardedStep
          \/ \E t \in Tasks : GetFirst(t) \/ GetSecond(t) \/ LockFirst(t) \/ LockSecond(t) \/ LeaveGuards(t)
          \/ \E d \in Dirs : PruneGuard(d)
    BY DEF Next, Begins, Guarding, MoveSteps, SyncSteps, RowSteps, UnguardedStep, Unguarding

LEMMA DirsOfTask == \A t \in Tasks : Dir(t) \in Dirs /\ DestDir(t) \in Dirs
    BY DirectorySyncAssumption DEF Dir, DestDir, Paths

\* DirectorySync uses the guards only through the manager's and mutexes' actions.
LEMMA GuardSteps == [Next]_vars => [GuardNext]_guardVars
<1> SUFFICES ASSUME [Next]_vars PROVE [GuardNext]_guardVars
    OBVIOUS
<1>1. CASE UnguardedStep
    BY <1>1, UnguardedKeeps
<1>2. ASSUME NEW t \in Tasks, GetFirst(t) \/ GetSecond(t) \/ LockFirst(t) \/ LockSecond(t) \/ LeaveGuards(t)
      PROVE GuardNext
    BY <1>2, DirsOfTask DEF GuardNext, GetFirst, GetSecond, LockFirst, LockSecond, LeaveGuards
<1>3. ASSUME NEW d \in Dirs, PruneGuard(d) PROVE GuardNext
    BY <1>3 DEF PruneGuard, GuardNext
<1>4. CASE UNCHANGED vars
    BY <1>4 DEF vars
<1> QED
    BY <1>1, <1>2, <1>3, <1>4, NextSplit

\* Whatever the tasks do, the guards behave as SyncGuards says.
THEOREM GuardsImplemented == Spec => GuardSpec
<1>1. Init => GuardInit
    BY DEF Init
<1> QED
    BY <1>1, GuardSteps, PTL DEF Spec, GuardSpec

-----------------------------------------------------------------------------
LEMMA WithinPaths == \A t \in Tasks : /\ From[t] \in Paths /\ To[t] \in Paths
                                      /\ Within(Dir(t)) \subseteq Paths
    BY DirectorySyncAssumption DEF Paths, Within, Dir

\* TypeOK without the guards.
FieldsOK == /\ pc \in [Tasks -> PCs]
            /\ disk \subseteq Paths /\ index \subseteq Paths
            /\ listed \in [Tasks -> SUBSET Paths] /\ spared \in [Tasks -> SUBSET Paths]
            /\ found \subseteq Tasks
            /\ permits \in Nat
            /\ inflight \subseteq Dirs /\ recent \subseteq Dirs

\* Every step keeps the types: rows and listings are paths, markers directories.
LEMMA TypeStep == TypeOK /\ [Next]_vars => TypeOK'
<1> SUFFICES ASSUME TypeOK, [Next]_vars PROVE TypeOK'
    OBVIOUS
<1>1. GuardTypeOK'
    BY GuardSteps, GuardTypeStep DEF TypeOK
<1>2. FieldsOK
    BY DEF TypeOK, FieldsOK
<1> USE <1>2, DirsOfTask, WithinPaths DEF FieldsOK, PCs, Step, At, Go
<1>3. ASSUME NEW t \in Tasks, Begins(t) PROVE FieldsOK'
    BY <1>3 DEF Begins, Start, Debounce, Claim
<1>4. ASSUME NEW t \in Tasks, Guarding(t) PROVE FieldsOK'
    BY <1>4 DEF Guarding, GetFirst, LockFirst, LeaveGuards
<1>5. ASSUME NEW t \in Tasks, MoveSteps(t) PROVE FieldsOK'
  <2>1. CASE Rename(t)
    BY <2>1 DEF Rename
  <2>2. CASE MoveRow(t)
    BY <2>2 DEF MoveRow, Touch
  <2>3. CASE GetSecond(t) \/ LockSecond(t) \/ ClearMarkers(t)
    BY <2>3 DEF GetSecond, LockSecond, ClearMarkers
  <2>4. CASE LoadRow(t)
    BY <2>4 DEF LoadRow
  <2> QED BY <1>5, <2>1, <2>2, <2>3, <2>4 DEF MoveSteps
<1>6. ASSUME NEW t \in Tasks, SyncSteps(t) PROVE FieldsOK'
  <2>1. CASE List(t) \/ Begin(t)
    BY <2>1 DEF List, Begin, Stamped
  <2>2. CASE Commit(t)
    BY <2>2 DEF Commit
  <2>3. CASE Abandon(t) \/ Settle(t)
    BY <2>3 DEF Abandon, Settle
  <2>4. CASE AcquirePermit(t) \/ ReturnPermit(t)
    BY <2>4 DEF AcquirePermit, ReturnPermit
  <2> QED BY <1>6, <2>1, <2>2, <2>3, <2>4 DEF SyncSteps
<1>7. ASSUME NEW t \in Tasks, RowSteps(t) PROVE FieldsOK'
  <2>1. CASE ChangeStore(t)
    BY <2>1 DEF ChangeStore
  <2>2. CASE UpsertRow(t) \/ DeleteRow(t)
    BY <2>2 DEF UpsertRow, DeleteRow
  <2>3. CASE FindRow(t)
    BY <2>3 DEF FindRow, Touch
  <2> QED BY <1>7, <2>1, <2>2, <2>3 DEF RowSteps
<1>8. ASSUME NEW d \in Dirs, Elapse(d) \/ PruneGuard(d) PROVE FieldsOK'
    BY <1>8 DEF Elapse, PruneGuard, syncVars
<1>9. ASSUME UNCHANGED vars PROVE FieldsOK'
    BY <1>9 DEF vars, syncVars
<1> HIDE DEF FieldsOK, PCs, Step, At, Go
<1>10. FieldsOK'
    BY <1>3, <1>4, <1>5, <1>6, <1>7, <1>8, <1>9 DEF Next
<1> QED
    BY <1>1, <1>10 DEF TypeOK, FieldsOK

\* Every variable keeps its type in every behaviour.
THEOREM TypeCorrect == Spec => []TypeOK
<1>1. Init => TypeOK
    BY GuardInitInv, DirectorySyncAssumption DEF Init, TypeOK, PCs
<1> QED
    BY <1>1, TypeStep, PTL DEF Spec

-----------------------------------------------------------------------------
\* A task loses a lock only by dropping its guards.
LEMMA HoldsStable ==
    ASSUME GuardTypeOK, NEW t \in Tasks, NEW d \in Dirs, Holds(t, d),
           \/ UNCHANGED guardVars
           \/ \E u \in Tasks, e \in Dirs : GetGuard(u, e) \/ Lock(u, e)
           \/ \E u \in Tasks \ {t} : DropAll(u)
           \/ \E e \in Dirs : Prune(e)
    PROVE Holds(t, d)'
<1> USE GuardAssumption DEF GuardTypeOK, Holds
<1>1. CASE UNCHANGED guardVars
    BY <1>1 DEF guardVars
<1>2. ASSUME NEW u \in Tasks, NEW e \in Dirs, GetGuard(u, e) PROVE Holds(t, d)'
    BY <1>2 DEF GetGuard
<1>3. ASSUME NEW u \in Tasks, NEW e \in Dirs, Lock(u, e) PROVE Holds(t, d)'
    BY <1>3 DEF Lock
<1>4. ASSUME NEW u \in Tasks \ {t}, DropAll(u) PROVE Holds(t, d)'
    BY <1>4 DEF DropAll
<1>5. ASSUME NEW e \in Dirs, Prune(e) PROVE Holds(t, d)'
    BY <1>5 DEF Prune
<1> QED
    BY <1>1, <1>2, <1>3, <1>4, <1>5

LEMMA LockHolds ==
    ASSUME GuardTypeOK, NEW t \in Tasks, NEW d \in Dirs, Lock(t, d)
    PROVE Holds(t, d)'
    BY GuardAssumption DEF GuardTypeOK, Lock, Holds

\* What a task that works on a directory has locked.
WorkInv ==
    /\ pc \in [Tasks -> PCs]
    /\ \A t \in Tasks, d \in Dirs : WorksOn(t, d) => Holds(t, d)
    /\ \A t \in Tasks : IsMove(t) /\ At(t, "lockSecond") => Holds(t, Dir(t))

NoNewWork ==
    /\ pc' \in [Tasks -> PCs]
    /\ \A t \in Tasks, d \in Dirs : WorksOn(t, d)' => WorksOn(t, d)
    /\ \A t \in Tasks : IsMove(t) /\ At(t, "lockSecond")' => At(t, "lockSecond")

\* An unguarded step neither starts the work on a directory nor waits for a guard.
LEMMA UnguardedWork ==
    ASSUME WorkInv, UnguardedStep
    PROVE NoNewWork
<1> USE DirectorySyncAssumption DEF NoNewWork, WorkInv, WorksOn, IsSync, IsMove, At, Go, Step, PCs, Dir, DestDir, Kinds
<1>1. ASSUME NEW u \in Tasks, Start(u) \/ Debounce(u) \/ Claim(u) \/ AcquirePermit(u)
      PROVE NoNewWork
    BY <1>1 DEF Start, Debounce, Claim, AcquirePermit
<1>2. ASSUME NEW u \in Tasks, Rename(u) \/ ClearMarkers(u) \/ LoadRow(u) \/ MoveRow(u)
      PROVE NoNewWork
    BY <1>2 DEF Rename, ClearMarkers, LoadRow, MoveRow
<1>3. ASSUME NEW u \in Tasks, List(u) \/ Begin(u) \/ Commit(u) \/ Abandon(u) \/ Settle(u) \/ ReturnPermit(u)
      PROVE NoNewWork
    BY <1>3 DEF List, Begin, Commit, Abandon, Settle, ReturnPermit
<1>4. ASSUME NEW u \in Tasks, ChangeStore(u) \/ FindRow(u) \/ UpsertRow(u) \/ DeleteRow(u)
      PROVE NoNewWork
    BY <1>4 DEF ChangeStore, FindRow, UpsertRow, DeleteRow
<1>5. ASSUME NEW e \in Dirs, Elapse(e)
      PROVE NoNewWork
    BY <1>5 DEF Elapse
<1> QED
    BY <1>1, <1>2, <1>3, <1>4, <1>5 DEF UnguardedStep, Unguarding

\* WorkInv is inductive, given the invariants of the guards.
LEMMA WorkStep == GuardTypeOK /\ WorkInv /\ [Next]_vars => WorkInv'
<1> SUFFICES ASSUME GuardTypeOK, WorkInv, [Next]_vars PROVE WorkInv'
    OBVIOUS
<1>1. CASE UnguardedStep
  <2>1. \A t \in Tasks, d \in Dirs : Holds(t, d)' <=> Holds(t, d)
    BY <1>1, UnguardedKeeps DEF Holds, guardVars
  <2> QED
    BY <1>1, <2>1, UnguardedWork, DirsOfTask DEF NoNewWork, WorkInv, Dir, IsMove
<1>2. ASSUME NEW u \in Tasks, GetFirst(u) \/ GetSecond(u) PROVE WorkInv'
  <2>1. \E e \in Dirs : GetGuard(u, e)
    BY <1>2, DirsOfTask DEF GetFirst, GetSecond
  <2>2. \A t \in Tasks, d \in Dirs : Holds(t, d) => Holds(t, d)'
    BY <2>1, HoldsStable
  <2>3. \A t \in Tasks, d \in Dirs : WorksOn(t, d)' => WorksOn(t, d)
    BY <1>2 DEF WorkInv, GetFirst, GetSecond, WorksOn, Step, At, Go, IsMove, IsSync, PCs, Dir, DestDir
  <2>4. pc' \in [Tasks -> PCs] /\ \A t \in Tasks : At(t, "lockSecond")' => At(t, "lockSecond")
    BY <1>2 DEF WorkInv, GetFirst, GetSecond, Step, At, Go, PCs
  <2> QED
    BY <2>2, <2>3, <2>4, DirsOfTask DEF WorkInv, Dir, IsMove
<1>3. ASSUME NEW u \in Tasks, LockFirst(u) PROVE WorkInv'
  <2>1. Holds(u, Dir(u))'
    BY <1>3, LockHolds, DirsOfTask DEF LockFirst
  <2>2. \A t \in Tasks, d \in Dirs : Holds(t, d) => Holds(t, d)'
    BY <1>3, HoldsStable, DirsOfTask DEF LockFirst
  <2>3. \A t \in Tasks, d \in Dirs : WorksOn(t, d)' => WorksOn(t, d) \/ (t = u /\ d = Dir(u))
    BY <1>3 DEF WorkInv, LockFirst, WorksOn, Step, At, Go, IsMove, IsSync, PCs, Dir, DestDir
  <2>4. pc' \in [Tasks -> PCs] /\ \A t \in Tasks : At(t, "lockSecond")' => At(t, "lockSecond") \/ t = u
    BY <1>3 DEF WorkInv, LockFirst, Step, At, Go, PCs
  <2> QED
    BY <2>1, <2>2, <2>3, <2>4, DirsOfTask DEF WorkInv, Dir, IsMove
<1>4. ASSUME NEW u \in Tasks, LockSecond(u) PROVE WorkInv'
  <2>1. Holds(u, DestDir(u))'
    BY <1>4, LockHolds, DirsOfTask DEF LockSecond
  <2>2. \A t \in Tasks, d \in Dirs : Holds(t, d) => Holds(t, d)'
    BY <1>4, HoldsStable, DirsOfTask DEF LockSecond
  <2>3. \A t \in Tasks, d \in Dirs : WorksOn(t, d)' =>
           \/ WorksOn(t, d)
           \/ t = u /\ IsMove(u) /\ At(u, "lockSecond") /\ d \in {Dir(u), DestDir(u)}
    BY <1>4 DEF WorkInv, LockSecond, WorksOn, Step, At, Go, IsMove, IsSync, PCs, Dir, DestDir
  <2>4. pc' \in [Tasks -> PCs] /\ \A t \in Tasks : At(t, "lockSecond")' => At(t, "lockSecond")
    BY <1>4 DEF WorkInv, LockSecond, Step, At, Go, PCs
  <2> QED
    BY <2>1, <2>2, <2>3, <2>4, DirsOfTask DEF WorkInv, Dir, IsMove
<1>5. ASSUME NEW u \in Tasks, LeaveGuards(u) PROVE WorkInv'
  <2>1. \A t \in Tasks \ {u}, d \in Dirs : Holds(t, d) => Holds(t, d)'
    BY <1>5, HoldsStable DEF LeaveGuards
  <2>2. \A t \in Tasks, d \in Dirs : WorksOn(t, d)' => WorksOn(t, d) /\ t # u
    BY <1>5 DEF WorkInv, LeaveGuards, WorksOn, Step, At, Go, IsMove, IsSync, PCs, Dir, DestDir
  <2>3. /\ pc' \in [Tasks -> PCs]
        /\ \A t \in Tasks : At(t, "lockSecond")' => At(t, "lockSecond") /\ t # u
    BY <1>5 DEF WorkInv, LeaveGuards, Step, At, Go, PCs
  <2> QED
    BY <2>1, <2>2, <2>3, DirsOfTask DEF WorkInv, Dir, IsMove
<1>6. ASSUME NEW e \in Dirs, PruneGuard(e) PROVE WorkInv'
  <2>1. \A t \in Tasks, d \in Dirs : Holds(t, d) => Holds(t, d)'
    BY <1>6, HoldsStable DEF PruneGuard
  <2>2. pc' = pc
    BY <1>6 DEF PruneGuard, syncVars
  <2> QED
    BY <2>1, <2>2, DirsOfTask DEF WorkInv, WorksOn, At, Dir, DestDir, IsMove, IsSync
<1>7. CASE UNCHANGED vars
  <2>1. pc' = pc /\ \A t \in Tasks, d \in Dirs : Holds(t, d)' <=> Holds(t, d)
    BY <1>7 DEF vars, syncVars, guardVars, Holds
  <2> QED
    BY <2>1, DirsOfTask DEF WorkInv, WorksOn, At, Dir, DestDir, IsMove, IsSync
<1> QED
    BY <1>1, <1>2, <1>3, <1>4, <1>5, <1>6, <1>7, NextSplit

LEMMA WorkInit == Init => WorkInv
    BY DEF Init, WorkInv, WorksOn, At, PCs

\* Everything a task works on is locked by it.
THEOREM WorkIsLocked == Spec => []WorkInv
<1>1. Spec => [](GuardTypeOK /\ GuardInv)
    BY GuardsImplemented, GuardSafety, PTL
<1> QED
    BY <1>1, WorkInit, WorkStep, PTL DEF Spec

\* A directory is worked on by one move or sync at a time: two workers would both
\* hold its lock, which GuardExclusion forbids.
THEOREM OneWorkerPerDirectory == Spec => []ExclusiveDirectories
<1>1. WorkInv /\ GuardExclusion => ExclusiveDirectories
    BY DEF WorkInv, GuardExclusion, ExclusiveDirectories
<1>2. Spec => []GuardExclusion
    BY GuardsImplemented, ExclusionTheorem, PTL
<1> QED
    BY <1>1, <1>2, WorkIsLocked, PTL

-----------------------------------------------------------------------------
\* Each kind of task has its own part of the program.
KindsFit ==
    /\ pc \in [Tasks -> PCs]
    /\ \A t \in Tasks :
         /\ pc[t] \in {"permit", "list", "begin", "commit", "settle", "return"} => IsSync(t)
         /\ pc[t] \in {"first", "second", "lockFirst", "leave"} => IsSync(t) \/ IsMove(t)
         /\ pc[t] \in {"lockSecond", "rename", "markers", "load"} => IsMove(t)
         /\ pc[t] \in {"claim", "settle"} => Kind[t] = "background"
         /\ At(t, "row") => Kind[t] \in {"move", "write", "delete"}
         /\ At(t, "failed") => Kind[t] \in {"write", "delete"}

LEMMA KindsStep == KindsFit /\ [Next]_vars => KindsFit'
<1> SUFFICES ASSUME KindsFit, [Next]_vars PROVE KindsFit'
    OBVIOUS
<1> USE DirectorySyncAssumption DEF KindsFit, IsSync, IsMove, At, Go, Step, PCs, Kinds
<1>1. ASSUME NEW u \in Tasks, Begins(u) PROVE KindsFit'
    BY <1>1 DEF Begins, Start, Debounce, Claim
<1>2. ASSUME NEW u \in Tasks, Guarding(u) PROVE KindsFit'
    BY <1>2 DEF Guarding, GetFirst, LockFirst, LeaveGuards
<1>3. ASSUME NEW u \in Tasks, MoveSteps(u) PROVE KindsFit'
    BY <1>3 DEF MoveSteps, GetSecond, LockSecond, Rename, ClearMarkers, LoadRow, MoveRow
<1>4. ASSUME NEW u \in Tasks, SyncSteps(u) PROVE KindsFit'
    BY <1>4 DEF SyncSteps, AcquirePermit, List, Begin, Commit, Abandon, Settle, ReturnPermit
<1>5. ASSUME NEW u \in Tasks, RowSteps(u) PROVE KindsFit'
    BY <1>5 DEF RowSteps, ChangeStore, FindRow, UpsertRow, DeleteRow
<1>6. ASSUME NEW d \in Dirs, Elapse(d) \/ PruneGuard(d) PROVE KindsFit'
    BY <1>6 DEF Elapse, PruneGuard, syncVars
<1>7. CASE UNCHANGED vars
    BY <1>7 DEF vars, syncVars
<1> QED
    BY <1>1, <1>2, <1>3, <1>4, <1>5, <1>6, <1>7 DEF Next

\* What a sync has listed is what the store still has, wherever no write or delete
\* interferes: the moves that could change it would need the sync's guard.
ListingInv ==
    \A t \in Tasks : pc[t] \in {"begin", "commit"} =>
        LET here == Within(Dir(t)) \ Unguarded IN listed[t] \cap here = disk \cap here

LEMMA UnguardedGrows == KindsFit /\ [Next]_vars => Unguarded \subseteq Unguarded'
<1> SUFFICES ASSUME KindsFit, [Next]_vars PROVE Unguarded \subseteq Unguarded'
    OBVIOUS
<1> SUFFICES \A u \in Tasks : ~At(u, "new") => ~At(u, "new")'
    BY DEF Unguarded
<1> USE DEF KindsFit, At, Go, Step
<1>1. ASSUME NEW u \in Tasks, Begins(u) \/ Guarding(u) PROVE \A v \in Tasks : pc[v] # "new" => pc'[v] # "new"
    BY <1>1 DEF Begins, Start, Debounce, Claim, Guarding, GetFirst, LockFirst, LeaveGuards
<1>2. ASSUME NEW u \in Tasks, MoveSteps(u) \/ SyncSteps(u) \/ RowSteps(u)
      PROVE \A v \in Tasks : pc[v] # "new" => pc'[v] # "new"
    BY <1>2 DEF MoveSteps, GetSecond, LockSecond, Rename, ClearMarkers, LoadRow, MoveRow, SyncSteps,
       AcquirePermit, List, Begin, Commit, Abandon, Settle, ReturnPermit,
       RowSteps, ChangeStore, FindRow, UpsertRow, DeleteRow
<1>3. ASSUME NEW d \in Dirs, Elapse(d) \/ PruneGuard(d) PROVE pc' = pc
    BY <1>3 DEF Elapse, PruneGuard, syncVars
<1>4. CASE UNCHANGED vars
    BY <1>4 DEF vars, syncVars
<1> QED
    BY <1>1, <1>2, <1>3, <1>4 DEF Next

\* A step that is not a listing leaves what a sync has listed, until it ends.
LEMMA ListedKept ==
    ASSUME KindsFit, TypeOK, [Next]_vars, NEW t \in Tasks, pc'[t] \in {"begin", "commit"}, ~List(t)
    PROVE pc[t] \in {"begin", "commit"} /\ listed'[t] = listed[t]
<1> USE DEF KindsFit, TypeOK, At, Go, Step, PCs
<1>1. ASSUME NEW u \in Tasks, Begins(u) \/ Guarding(u) PROVE pc[t] \in {"begin", "commit"} /\ listed'[t] = listed[t]
    BY <1>1 DEF Begins, Start, Debounce, Claim, Guarding, GetFirst, LockFirst, LeaveGuards, IsMove
<1>2. ASSUME NEW u \in Tasks, MoveSteps(u) \/ RowSteps(u)
      PROVE pc[t] \in {"begin", "commit"} /\ listed'[t] = listed[t]
    BY <1>2 DEF MoveSteps, GetSecond, LockSecond, Rename, ClearMarkers, LoadRow, MoveRow,
       RowSteps, ChangeStore, FindRow, UpsertRow, DeleteRow
<1>3. ASSUME NEW u \in Tasks, SyncSteps(u) PROVE pc[t] \in {"begin", "commit"} /\ listed'[t] = listed[t]
    BY <1>3 DEF SyncSteps, AcquirePermit, List, Begin, Commit, Abandon, Settle, ReturnPermit
<1>4. ASSUME NEW d \in Dirs, Elapse(d) \/ PruneGuard(d) PROVE pc' = pc /\ listed' = listed
    BY <1>4 DEF Elapse, PruneGuard, syncVars
<1>5. CASE UNCHANGED vars
    BY <1>5 DEF vars, syncVars
<1> QED
    BY <1>1, <1>2, <1>3, <1>4, <1>5 DEF Next

\* The store changes by moves, writes and deletes.
LEMMA DiskChanges ==
    ASSUME [Next]_vars, disk' # disk
    PROVE \E u \in Tasks : \/ Rename(u) /\ disk' = (disk \ {From[u]}) \cup {To[u]}
                           \/ ChangeStore(u) /\ \A p \in Paths : p # From[u] => (p \in disk) = (p \in disk')
<1>1. ASSUME NEW u \in Tasks, Begins(u) \/ Guarding(u) \/ SyncSteps(u) PROVE disk' = disk
    BY <1>1 DEF Begins, Start, Debounce, Claim, Guarding, GetFirst, LockFirst, LeaveGuards, SyncSteps,
       AcquirePermit, List, Begin, Commit, Abandon, Settle, ReturnPermit
<1>2. ASSUME NEW u \in Tasks, MoveSteps(u), ~Rename(u) PROVE disk' = disk
    BY <1>2 DEF MoveSteps, GetSecond, LockSecond, ClearMarkers, LoadRow, MoveRow
<1>3. ASSUME NEW u \in Tasks, RowSteps(u), ~ChangeStore(u) PROVE disk' = disk
    BY <1>3 DEF RowSteps, FindRow, UpsertRow, DeleteRow
<1>4. ASSUME NEW d \in Dirs, Elapse(d) \/ PruneGuard(d) PROVE disk' = disk
    BY <1>4 DEF Elapse, PruneGuard, syncVars
<1>5. PICK u \in Tasks : Rename(u) \/ ChangeStore(u)
    BY <1>1, <1>2, <1>3, <1>4 DEF Next, vars, syncVars
<1>6. Rename(u) => disk' = (disk \ {From[u]}) \cup {To[u]}
    BY <1>5 DEF Rename
<1>7. ChangeStore(u) => \A p \in Paths : p # From[u] => (p \in disk) = (p \in disk')
    BY <1>5 DEF ChangeStore
<1> QED
    BY <1>5, <1>6, <1>7

\* While a sync works on its directory, only writes and deletes change the files there.
LEMMA DirectoryHeld ==
    ASSUME KindsFit, ExclusiveDirectories, [Next]_vars,
           NEW t \in Tasks, IsSync(t), pc[t] \in {"list", "begin", "commit"},
           NEW p \in Within(Dir(t)) \ Unguarded'
    PROVE (p \in disk) = (p \in disk')
<1> USE DirectorySyncAssumption
<1>1. CASE disk' = disk
    BY <1>1
<1>2. ASSUME NEW u \in Tasks, Rename(u), disk' = (disk \ {From[u]}) \cup {To[u]} PROVE (p \in disk) = (p \in disk')
  <2>1. IsMove(u) /\ At(u, "rename")
    BY <1>2 DEF Rename, KindsFit, At
  <2>2. u # t /\ WorksOn(u, Dir(u)) /\ WorksOn(u, DestDir(u)) /\ WorksOn(t, Dir(t))
    BY <2>1 DEF WorksOn, IsSync, IsMove, At
  <2>3. Dir(t) # Dir(u) /\ Dir(t) # DestDir(u)
    BY <2>2, DirsOfTask DEF ExclusiveDirectories
  <2>4. From[u] \notin Within(Dir(t)) /\ To[u] \notin Within(Dir(t))
    BY <2>3, DirsOfTask DEF Within, Dir, DestDir, Paths
  <2> QED BY <1>2, <2>4
<1>3. ASSUME NEW u \in Tasks, ChangeStore(u), \A q \in Paths : q # From[u] => (q \in disk) = (q \in disk')
      PROVE (p \in disk) = (p \in disk')
  <2>1. Kind[u] \in {"write", "delete"} /\ pc'[u] # "new"
    BY <1>3 DEF ChangeStore, KindsFit, At, Go
  <2>2. From[u] \in Unguarded'
    BY <2>1 DEF Unguarded, At
  <2>3. p \in Paths
    BY WithinPaths
  <2> QED BY <1>3, <2>2, <2>3
<1> QED
    BY <1>1, <1>2, <1>3, DiskChanges

LEMMA ListingStep == TypeOK /\ KindsFit /\ ExclusiveDirectories /\ ListingInv /\ [Next]_vars => ListingInv'
<1> SUFFICES ASSUME TypeOK, KindsFit, ExclusiveDirectories, ListingInv, [Next]_vars,
                    NEW t \in Tasks, pc'[t] \in {"begin", "commit"},
                    NEW p \in Within(Dir(t)) \ Unguarded'
             PROVE (p \in listed'[t]) = (p \in disk')
    BY DEF ListingInv, Dir, Within
<1>1. p \in Within(Dir(t)) \ Unguarded
    BY UnguardedGrows
<1>2. CASE List(t)
    BY <1>1, <1>2 DEF List, TypeOK
<1>3. CASE ~List(t)
  <2>1. pc[t] \in {"begin", "commit"} /\ listed'[t] = listed[t]
    BY <1>3, ListedKept
  <2>2. IsSync(t)
    BY <2>1 DEF KindsFit
  <2>3. (p \in disk) = (p \in disk')
    BY <2>1, <2>2, DirectoryHeld
  <2> QED BY <1>1, <2>1, <2>3 DEF ListingInv
<1> QED
    BY <1>2, <1>3

LEMMA SyncInit == Init => KindsFit /\ ListingInv
    BY DirectorySyncAssumption DEF Init, KindsFit, ListingInv, PCs, At, Kinds, IsSync, IsMove

\* The invariants of syncs: which task is where, and what it has listed.
LEMMA SyncInvariants == Spec => []KindsFit /\ []ListingInv
<1>1. Spec => []KindsFit
    BY SyncInit, KindsStep, PTL DEF Spec
<1> QED
    BY <1>1, SyncInit, ListingStep, TypeCorrect, OneWorkerPerDirectory, PTL DEF Spec

\* A commit leaves the rows of its directory as the store is at that moment, but for
\* young rows and unguarded requests: the listing is the store's, by ListingInv, and
\* the transaction makes the rows as it was.
THEOREM SyncsAreExact == Spec => SyncIsExact
<1> DEFINE Exact ==
      \A t \in Tasks : Commit(t) =>
         LET here == Within(Dir(t)) \ Unguarded
         IN disk \cap here \subseteq index' /\ index' \cap here \subseteq disk \cup spared[t]
<1>1. ListingInv => [Exact]_vars
  <2> SUFFICES ASSUME ListingInv, NEW t \in Tasks, Commit(t),
                      NEW p \in Within(Dir(t)) \ Unguarded
               PROVE /\ p \in disk => p \in index'
                     /\ p \in index' => p \in disk \cup spared[t]
    OBVIOUS
  <2>1. pc[t] = "commit" /\ index' = listed[t] \cup {q \in index : q \in Within(Dir(t)) => q \in spared[t]}
    BY DEF Commit, Step, At
  <2>2. (p \in listed[t]) = (p \in disk)
    BY <2>1 DEF ListingInv
  <2> QED BY <2>1, <2>2
<1>2. Spec => [][Exact]_vars
    BY <1>1, SyncInvariants, PTL
<1> QED
    BY <1>2 DEF SyncIsExact

-----------------------------------------------------------------------------
\* A background sync has marked its directory, unless a move took the mark away.
MarksInv == /\ MarksFollowSyncs
            /\ \A t \in Tasks : ClaimedBy(t) => Dir(t) \in inflight \/ Cleared(Dir(t))

\* Who claims what is changed by claims and settlements only.
LEMMA ClaimsKept ==
    ASSUME KindsFit, [Next]_vars, NEW t \in Tasks, ~Claim(t), ~Settle(t)
    PROVE ClaimedBy(t)' = ClaimedBy(t)
<1> USE DirectorySyncAssumption DEF KindsFit, ClaimedBy, At, Go, Step, PCs
<1>1. ASSUME NEW u \in Tasks, Begins(u) \/ Guarding(u) PROVE ClaimedBy(t)' = ClaimedBy(t)
    BY <1>1 DEF Begins, Start, Debounce, Claim, Guarding, GetFirst, LockFirst, LeaveGuards, IsMove, IsSync, Kinds
<1>2. ASSUME NEW u \in Tasks, MoveSteps(u) \/ RowSteps(u) PROVE ClaimedBy(t)' = ClaimedBy(t)
    BY <1>2 DEF MoveSteps, GetSecond, LockSecond, Rename, ClearMarkers, LoadRow, MoveRow,
       RowSteps, ChangeStore, FindRow, UpsertRow, DeleteRow, IsMove
<1>3. ASSUME NEW u \in Tasks, SyncSteps(u) PROVE ClaimedBy(t)' = ClaimedBy(t)
    BY <1>3 DEF SyncSteps, AcquirePermit, List, Begin, Commit, Abandon, Settle, ReturnPermit, IsSync
<1>4. ASSUME NEW d \in Dirs, Elapse(d) \/ PruneGuard(d) PROVE pc' = pc
    BY <1>4 DEF Elapse, PruneGuard, syncVars
<1>5. CASE UNCHANGED vars
    BY <1>5 DEF vars, syncVars
<1> QED
    BY <1>1, <1>2, <1>3, <1>4, <1>5 DEF Next

\* Once a move has taken the marks of a directory away, it counts as cleared for good.
LEMMA ClearedStays == ASSUME KindsFit, [Next]_vars, NEW d \in Dirs, Cleared(d) PROVE Cleared(d)'
<1> USE DirectorySyncAssumption DEF KindsFit, At, Go, Step, PCs, IsMove, IsSync
<1>1. PICK t \in Tasks : IsMove(t) /\ d \in {Dir(t), DestDir(t)} /\ pc[t] \in {"load", "row", "leave", "ended"}
    BY DEF Cleared
<1> SUFFICES pc'[t] \in {"load", "row", "leave", "ended"}
    BY <1>1 DEF Cleared, Dir, DestDir
<1>2. ASSUME NEW u \in Tasks, Begins(u) \/ Guarding(u) PROVE pc'[t] \in {"load", "row", "leave", "ended"}
    BY <1>1, <1>2 DEF Begins, Start, Debounce, Claim, Guarding, GetFirst, LockFirst, LeaveGuards
<1>3. ASSUME NEW u \in Tasks, MoveSteps(u) \/ RowSteps(u) PROVE pc'[t] \in {"load", "row", "leave", "ended"}
    BY <1>1, <1>3 DEF MoveSteps, GetSecond, LockSecond, Rename, ClearMarkers, LoadRow, MoveRow,
       RowSteps, ChangeStore, FindRow, UpsertRow, DeleteRow
<1>4. ASSUME NEW u \in Tasks, SyncSteps(u) PROVE pc'[t] \in {"load", "row", "leave", "ended"}
    BY <1>1, <1>4 DEF SyncSteps, AcquirePermit, List, Begin, Commit, Abandon, Settle, ReturnPermit
<1>5. ASSUME NEW e \in Dirs, Elapse(e) \/ PruneGuard(e) PROVE pc' = pc
    BY <1>5 DEF Elapse, PruneGuard, syncVars
<1>6. CASE UNCHANGED vars
    BY <1>1, <1>6 DEF vars, syncVars
<1> QED
    BY <1>1, <1>2, <1>3, <1>4, <1>5, <1>6 DEF Next

\* The marks change when a sync claims its directory or settles, and when a move clears.
LEMMA MarkChanges ==
    ASSUME [Next]_vars, inflight' # inflight
    PROVE \E u \in Tasks : Claim(u) \/ Settle(u) \/ ClearMarkers(u)
<1>1. ASSUME NEW u \in Tasks, Begins(u) \/ Guarding(u) \/ RowSteps(u), ~Claim(u) PROVE inflight' = inflight
    BY <1>1 DEF Begins, Start, Debounce, Guarding, GetFirst, LockFirst, LeaveGuards,
       RowSteps, ChangeStore, FindRow, UpsertRow, DeleteRow
<1>2. ASSUME NEW u \in Tasks, MoveSteps(u), ~ClearMarkers(u) PROVE inflight' = inflight
    BY <1>2 DEF MoveSteps, GetSecond, LockSecond, Rename, LoadRow, MoveRow
<1>3. ASSUME NEW u \in Tasks, SyncSteps(u), ~Settle(u) PROVE inflight' = inflight
    BY <1>3 DEF SyncSteps, AcquirePermit, List, Begin, Commit, Abandon, ReturnPermit
<1>4. ASSUME NEW d \in Dirs, Elapse(d) \/ PruneGuard(d) PROVE inflight' = inflight
    BY <1>4 DEF Elapse, PruneGuard, syncVars
<1> QED
    BY <1>1, <1>2, <1>3, <1>4 DEF Next, vars, syncVars

LEMMA MarksStep == KindsFit /\ MarksInv /\ [Next]_vars => MarksInv'
<1> SUFFICES ASSUME KindsFit, MarksInv, [Next]_vars PROVE MarksInv'
    OBVIOUS
<1>1. \A t \in Tasks : Dir(t)' = Dir(t) /\ Dir(t) \in Dirs
    BY DirsOfTask DEF Dir
<1>2. \A d \in Dirs : Cleared(d) => Cleared(d)'
    BY ClearedStays
<1> USE DEF MarksInv, MarksFollowSyncs
<1>3. ASSUME NEW u \in Tasks, Claim(u) PROVE MarksInv'
  <2>1. ~Settle(u) /\ (\A t \in Tasks \ {u} : ~Claim(t) /\ ~Settle(t))
    BY <1>3 DEF Claim, Settle, Step, At, Go, KindsFit, PCs
  <2>2. \A t \in Tasks \ {u} : ClaimedBy(t)' = ClaimedBy(t)
    BY <2>1, ClaimsKept
  <2>3. ~ClaimedBy(u) /\ inflight' = inflight \cup {Dir(u)} /\ (ClaimedBy(u)' => Dir(u) \notin inflight)
    BY <1>3 DEF Claim, ClaimedBy, At, Go, KindsFit
  <2>4. Dir(u) \notin inflight => ClaimedBy(u)'
    BY <1>3 DEF Claim, ClaimedBy, At, Go, KindsFit
  <2> QED BY <1>1, <1>2, <2>2, <2>3, <2>4
<1>4. ASSUME NEW u \in Tasks, Settle(u) PROVE MarksInv'
  <2>1. ~Claim(u) /\ (\A t \in Tasks \ {u} : ~Claim(t) /\ ~Settle(t))
    BY <1>4 DEF Claim, Settle, Step, At, Go, KindsFit, PCs
  <2>2. \A t \in Tasks \ {u} : ClaimedBy(t)' = ClaimedBy(t)
    BY <2>1, ClaimsKept
  <2>3. ClaimedBy(u) /\ inflight' = inflight \ {Dir(u)} /\ ~ClaimedBy(u)'
    BY <1>4 DEF Settle, ClaimedBy, Step, At, Go, KindsFit
  <2> QED BY <1>1, <1>2, <2>2, <2>3
<1>5. ASSUME NEW u \in Tasks, ClearMarkers(u) PROVE MarksInv'
  <2>1. \A t \in Tasks : ~Claim(t) /\ ~Settle(t)
    BY <1>5 DEF Claim, Settle, ClearMarkers, Step, At, Go, KindsFit, PCs
  <2>2. \A t \in Tasks : ClaimedBy(t)' = ClaimedBy(t)
    BY <2>1, ClaimsKept
  <2>3. IsMove(u) /\ inflight' = inflight \ {Dir(u), DestDir(u)} /\ pc'[u] = "load"
    BY <1>5 DEF ClearMarkers, Step, At, Go, KindsFit
  <2>4. Cleared(Dir(u))' /\ Cleared(DestDir(u))'
    BY <2>3 DEF Cleared, Dir, DestDir, IsMove
  <2> QED BY <1>1, <1>2, <2>2, <2>3, <2>4
<1>6. ASSUME \A u \in Tasks : ~Claim(u) /\ ~Settle(u) /\ ~ClearMarkers(u) PROVE MarksInv'
  <2>1. inflight' = inflight
    BY <1>6, MarkChanges
  <2>2. \A t \in Tasks : ClaimedBy(t)' = ClaimedBy(t)
    BY <1>6, ClaimsKept
  <2> QED BY <1>1, <1>2, <2>1, <2>2
<1> QED
    BY <1>3, <1>4, <1>5, <1>6

\* No mark outlives its sync, and no directory is synced twice in the background,
\* unless a move took the mark away: a mark is set by the sync that starts, who
\* starts only without one, and every way out of a sync leads to its settlement.
THEOREM MarksAreRight == Spec => []MarksFollowSyncs
<1>1. Init => MarksInv
    BY DEF Init, MarksInv, MarksFollowSyncs, ClaimedBy
<1>2. Spec => []MarksInv
    BY <1>1, SyncInvariants, MarksStep, PTL DEF Spec
<1> QED
    BY <1>2, PTL DEF MarksInv
=============================================================================
