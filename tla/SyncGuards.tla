------------------------------ MODULE SyncGuards ------------------------------
(***************************************************************************)
(* SyncGuardManager (src/vfs/maintenance/sync_guard.rs): one mutex per     *)
(* directory, made on demand, shared by reference counting and pruned when *)
(* nobody but the map refers to it.  A directory here is a pair of a user  *)
(* and a path.  The actions are those of the manager and of the mutexes it *)
(* hands out; DirectorySync says which task takes them when.               *)
(***************************************************************************)
CONSTANTS
    Tasks,    \* the tasks that lock directories
    Dirs,     \* the directories
    Mutexes,  \* the mutex objects
    None

ASSUME GuardAssumption == None \notin Tasks \cup Mutexes

VARIABLES
    guards,   \* [Dirs -> Mutexes or None]: the map
    arcs,     \* [Tasks -> [Dirs -> Mutexes or None]]: the references tasks keep
    owner     \* [Mutexes -> Tasks or None]: who has locked a mutex

guardVars == <<guards, arcs, owner>>

GuardInit ==
    /\ guards = [d \in Dirs |-> None]
    /\ arcs = [t \in Tasks |-> [d \in Dirs |-> None]]
    /\ owner = [m \in Mutexes |-> None]

\* strong_count(guard) > 1
Referenced(d) == \E t \in Tasks : arcs[t][d] = guards[d]
\* A mutex nobody refers to: a new one.
Fresh(m) == /\ \A d \in Dirs : guards[d] # m
            /\ \A t \in Tasks, d \in Dirs : arcs[t][d] # m

\* get_guard: the map's mutex, made on demand.
GetGuard(t, d) ==
    /\ arcs[t][d] = None
    /\ \E m \in Mutexes :
         /\ IF guards[d] = None THEN Fresh(m) ELSE m = guards[d]
         /\ guards' = [guards EXCEPT ![d] = m]
         /\ arcs' = [arcs EXCEPT ![t][d] = m]
    /\ UNCHANGED owner

\* lock().await returns
Lock(t, d) ==
    /\ arcs[t][d] # None
    /\ owner[arcs[t][d]] = None
    /\ owner' = [owner EXCEPT ![arcs[t][d]] = t]
    /\ UNCHANGED <<guards, arcs>>

\* A task drops its lock guards and then its references, without an await
\* between them.
DropAll(t) ==
    /\ owner' = [m \in Mutexes |-> IF owner[m] = t THEN None ELSE owner[m]]
    /\ arcs' = [arcs EXCEPT ![t] = [d \in Dirs |-> None]]
    /\ UNCHANGED guards

\* prune visits one directory after the other.
PruneAnything(d) == /\ guards[d] # None
                    /\ guards' = [guards EXCEPT ![d] = None]
                    /\ UNCHANGED <<arcs, owner>>
Prune(d) == /\ guards[d] # None /\ ~Referenced(d)
            /\ guards' = [guards EXCEPT ![d] = None]
            /\ UNCHANGED <<arcs, owner>>

GuardNext == \/ \E t \in Tasks, d \in Dirs : GetGuard(t, d) \/ Lock(t, d)
             \/ \E t \in Tasks : DropAll(t)
             \/ \E d \in Dirs : Prune(d)

GuardSpec == GuardInit /\ [][GuardNext]_guardVars

-----------------------------------------------------------------------------
Holds(t, d) == arcs[t][d] # None /\ owner[arcs[t][d]] = t

GuardTypeOK ==
    /\ guards \in [Dirs -> Mutexes \cup {None}]
    /\ arcs \in [Tasks -> [Dirs -> Mutexes \cup {None}]]
    /\ owner \in [Mutexes -> Tasks \cup {None}]

\* At most one task holds the lock of a directory, although the mutex behind it
\* is thrown away and made anew while tasks come and go: a task never waits on
\* one mutex of a directory while another task works under a second one.
GuardExclusion ==
    \A t, u \in Tasks, d \in Dirs : Holds(t, d) /\ Holds(u, d) => t = u

\* What makes it so: a task's reference is the map's own mutex, no two
\* directories share one, and a locked mutex is referred to by its owner.
GuardInv ==
    /\ \A t \in Tasks, d \in Dirs : arcs[t][d] # None => arcs[t][d] = guards[d]
    /\ \A d, e \in Dirs : guards[d] # None /\ guards[d] = guards[e] => d = e
    /\ \A m \in Mutexes : owner[m] # None => \E d \in Dirs : arcs[owner[m]][d] = m
=============================================================================
