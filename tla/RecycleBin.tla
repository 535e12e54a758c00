---------------------------- MODULE RecycleBin ----------------------------
(***************************************************************************)
(* The recycle bin: moving a path to it and back (src/vfs/scoped/ops.rs),  *)
(* deleting for good (delete_impl of src/vfs/scoped/write.rs), also by the *)
(* cleanup of expired entries (src/vfs/maintenance/mod.rs), and the rows   *)
(* of the index which say where an entry came from                         *)
(* (src/business/services/file_index_service.rs).                          *)
(*                                                                         *)
(* A head is a path of the user or an entry of the bin; it is a file, or a *)
(* directory with at most one file in it.  A node is a head or the file in *)
(* it.  A content is the request that wrote it, or the head it was in at the start.  *)
(***************************************************************************)
EXTENDS Integers, FiniteSets

CONSTANTS
    Folders, Papers,  \* heads of the user: directories, files
    BinPaths,         \* paths in the bin, /.recycle_bin/<uuid>_<name>
    FirstEntry,       \* the one that is taken at the start, by a directory
    BinRequests,      \* requests, each issued at most once
    BinCleaner,       \* the cleanup of expired entries
    MaxBinFaults,     \* bound on the calls that fail
    Nothing, Dir      \* no value; the content of a directory

VARIABLES
    batch,        \* the expired entries the cleanup has still to delete, or Nothing
    stored,       \* [Nodes -> contents or Nothing]: the primary operator
    indexed,      \* [Nodes -> [from |-> node or Nothing] or Nothing]: the rows
    trashing,         \* [Workers -> local state]
    odd,          \* history: heads whose index is known not to be kept
    named,        \* history: which heads a restore, a delete or a write has named, and whose
    binFaults
binVars == <<batch, stored, indexed, trashing, odd, named, binFaults>>

Workers == BinRequests \cup {BinCleaner}
Homes == Folders \cup Papers
Heads == Homes \cup BinPaths
Nodes == Heads \X {"top", "in"}
ASSUME BinAssumption ==
    /\ Folders # {} /\ Folders \cap Papers = {} /\ Homes \cap BinPaths = {}
    /\ FirstEntry \in BinPaths /\ BinCleaner \notin BinRequests
    /\ Nothing \notin Nodes \cup Heads \cup Workers \cup {[from |-> x] : x \in Nodes \cup {Nothing}}
    /\ Dir \notin Heads \cup Workers \cup {Nothing}
Top(h) == <<h, "top">>
In(h) == <<h, "in">>
\* A path and what is below it.
Tree(n) == IF n[2] = "top" THEN {n, In(n[1])} ELSE {n}

NewBinRequest == [pc |-> "new", kind |-> "write", node |-> Top(FirstEntry),
                  to |-> Top(FirstEntry), kept |-> <<>>, met |-> FALSE, ok |-> FALSE]
OldFolder == CHOOSE h \in Folders : TRUE
BinInit ==
    /\ stored = [n \in Nodes |->
         CASE n[1] \in Folders \cup {FirstEntry} -> IF n[2] = "top" THEN Dir ELSE n[1]
           [] n[1] \in Papers /\ n[2] = "top" -> n[1]
           [] OTHER -> Nothing]
    /\ indexed = [n \in Nodes |->
         IF stored[n] = Nothing THEN Nothing
         ELSE [from |-> IF n[1] = FirstEntry THEN <<OldFolder, n[2]>> ELSE Nothing]]
    /\ trashing = [r \in Workers |-> NewBinRequest]
    /\ batch = Nothing /\ odd = {} /\ named = {} /\ binFaults = 0

Busy(r) == trashing[r].pc \notin {"new", "end"}
AtBin(r, pc) == trashing[r].pc = pc
GoBin(r, pc) == trashing' = [trashing EXCEPT ![r].pc = pc]
EndBin(r) == trashing' = [trashing EXCEPT ![r].pc = "end", ![r].ok = TRUE]
BinFault == binFaults < MaxBinFaults /\ binFaults' = binFaults + 1
HeadsOf(q) == {q.node[1], q.to[1]}
Odd(cond, hs) == odd' = IF cond THEN odd \cup hs ELSE odd
Found(n) == stored[n] # Nothing

-----------------------------------------------------------------------------
(* Requests                                                                 *)

\* The trash path has a new uuid.
ReusedTrashPath(n) == CHOOSE e \in BinPaths \ {FirstEntry} : TRUE
TrashPath(n) == CHOOSE e \in BinPaths : /\ e # FirstEntry
                                         /\ \A r \in Workers : trashing[r].to # Top(e)
Begin(r, kind, n, to, pc) ==
    LET mine == [NewBinRequest EXCEPT !.kind = kind, !.node = n, !.to = to, !.pc = pc]
        near == {q \in Workers : Busy(q) /\ HeadsOf(trashing[q]) \cap HeadsOf(mine) # {}}
    IN /\ trashing' = [q \in Workers |->
            IF q = r THEN [mine EXCEPT !.met = near # {}]
            ELSE [trashing[q] EXCEPT !.met = @ \/ q \in near]]
       /\ odd' = odd \cup UNION {HeadsOf(trashing[q]) \cup HeadsOf(mine) : q \in near}
       /\ named' = named \cup IF kind = "trash" THEN {} ELSE HeadsOf(mine) \X {r}
       /\ UNCHANGED <<stored, indexed, binFaults>>
BeginTrash(r) ==
    /\ AtBin(r, "new") /\ UNCHANGED batch
    /\ \E h \in Homes :
         /\ \E e \in BinPaths \ {FirstEntry} : \A q \in Workers : trashing[q].to # Top(e)
         /\ Begin(r, "trash", Top(h), Top(TrashPath(Top(h))), "stat")
\* The target is read from the row of the path, which may be inside an entry.
BeginRestore(r) ==
    /\ AtBin(r, "new") /\ UNCHANGED batch
    /\ \E n \in BinPaths \X {"top", "in"} :
         /\ indexed[n] # Nothing /\ indexed[n].from # Nothing
         /\ Begin(r, "restore", n, indexed[n].from, "rename")
BeginDelete(r) ==
    /\ AtBin(r, "new") /\ UNCHANGED batch
    /\ \E n \in Nodes : Begin(r, "delete", n, n, "stat")
BeginWrite(r) ==
    /\ AtBin(r, "new") /\ UNCHANGED batch
    /\ \E h \in Homes : LET n == IF h \in Folders THEN In(h) ELSE Top(h)
                        IN Begin(r, "write", n, n, "store")
BeginCreateDir(r) ==
    /\ AtBin(r, "new") /\ UNCHANGED batch
    /\ \E h \in Folders : Begin(r, "mkdir", Top(h), Top(h), "store")

\* The cleanup deletes the expired entries a batch at a time, until it finds none; which
\* of them have expired is left open.
Expired == {e \in BinPaths : indexed[Top(e)] # Nothing /\ indexed[Top(e)].from # Nothing}
FindExpiredBatch ==
    /\ ~Busy(BinCleaner)
    /\ \/ batch = Nothing /\ trashing[BinCleaner].pc = "new"
       \/ batch = {}
    /\ \E old \in SUBSET Expired :
         /\ batch' = IF old = {} THEN Nothing ELSE old
         /\ trashing' = [trashing EXCEPT ![BinCleaner].pc = "end"]
    /\ UNCHANGED <<stored, indexed, odd, named, binFaults>>
DeleteExpired ==
    /\ ~Busy(BinCleaner) /\ batch # Nothing
    /\ \E e \in batch : /\ batch' = batch \ {e}
                        /\ Begin(BinCleaner, "expire", Top(e), Top(e), "stat")

\* stat_impl: a row whose path is not in the store is an error.
StatBin(r) ==
    /\ AtBin(r, "stat")
    /\ LET n == trashing[r].node IN
       GoBin(r, IF ~Found(n) THEN "end" ELSE IF trashing[r].kind = "trash" THEN "rename"
                ELSE IF stored[n] = Dir THEN "inside" ELSE "remove")
    /\ UNCHANGED <<batch, stored, indexed, odd, named, binFaults>>

\* move_regular_path_without_wal: a file replaces a file, a directory an empty one;
\* missing parents are created.  Its stat may fail after the rename.
RenamedAlone(n, m) == [stored EXCEPT ![m] = stored[n], ![n] = Nothing, ![In(n[1])] = Nothing]
Renamed(n, m) == [k \in Nodes |->
    CASE k \in Tree(m) -> stored[<<n[1], IF k = m THEN n[2] ELSE "in">>]
      [] k \in Tree(n) -> Nothing
      [] m[2] = "in" /\ k = Top(m[1]) -> Dir
      [] OTHER -> stored[k]]
MoveRegularPath(r) ==
    /\ AtBin(r, "rename")
    /\ LET n == trashing[r].node
           m == trashing[r].to
           can == Found(n) /\ \/ ~Found(m)
                              \/ stored[n] # Dir /\ stored[m] # Dir
                              \/ stored[n] = Dir /\ stored[m] = Dir /\ ~Found(In(m[1]))
           lone == m[2] = "in" /\ indexed[Top(m[1])] = Nothing
       IN \/ /\ can /\ stored' = Renamed(n, m)
             /\ trashing' = [trashing EXCEPT ![r].pc = "rows",
                                     ![r].kept = [p \in {"top", "in"} |-> stored[<<n[1], p>>]]]
             /\ Odd(n[1] \in odd \/ lone, HeadsOf(trashing[r])) /\ UNCHANGED binFaults
          \/ /\ can /\ BinFault /\ stored' = Renamed(n, m)
             /\ GoBin(r, "end") /\ odd' = odd \cup HeadsOf(trashing[r])
          \/ GoBin(r, "end") /\ UNCHANGED <<stored, odd>>
             /\ IF can THEN BinFault ELSE UNCHANGED binFaults
    /\ UNCHANGED <<batch, indexed, named>>

\* trash_file and restore_file: the rows of the tree in one transaction.  A row at the
\* target makes restore_file fail; the file has been moved by then.
RowsMoved(n, m, from) == [k \in Nodes |->
    CASE k \in Tree(m) /\ indexed[<<n[1], IF k = m THEN n[2] ELSE "in">>] # Nothing ->
           [from |-> IF from THEN <<n[1], IF k = m THEN n[2] ELSE "in">> ELSE Nothing]
      [] k \in Tree(n) -> Nothing
      [] OTHER -> indexed[k]]
TrashFile(n, m) == RowsMoved(n, m, TRUE)
RestoreFile(n, m) == RowsMoved(n, m, FALSE)
MoveRows(r) ==
    /\ AtBin(r, "rows") /\ trashing[r].kind \in {"trash", "restore"}
    /\ LET n == trashing[r].node
           m == trashing[r].to
           clash == /\ trashing[r].kind = "restore"
                    /\ \E k \in Tree(n) : /\ indexed[k] # Nothing
                                          /\ indexed[<<m[1], IF k = n THEN m[2] ELSE "in">>] # Nothing
       IN \/ /\ ~clash /\ EndBin(r)
             /\ indexed' = IF trashing[r].kind = "trash" THEN TrashFile(n, m) ELSE RestoreFile(n, m)
             /\ Odd(n[1] \in odd \/ (trashing[r].kind = "trash" /\ indexed[n] = Nothing), HeadsOf(trashing[r]))
             /\ UNCHANGED binFaults
          \/ /\ IF clash THEN UNCHANGED binFaults ELSE BinFault
             /\ GoBin(r, "end") /\ odd' = odd \cup HeadsOf(trashing[r]) /\ UNCHANGED indexed
    /\ UNCHANGED <<batch, stored, named>>

-----------------------------------------------------------------------------
(* Deleting                                                                 *)

\* remove_tree: what is inside, then the directory, which must be empty by then.
RemoveInside(r) ==
    /\ AtBin(r, "inside")
    /\ \/ /\ stored' = [stored EXCEPT ![In(trashing[r].node[1])] = Nothing]
          /\ GoBin(r, "remove") /\ UNCHANGED <<odd, binFaults>>
       \/ BinFault /\ GoBin(r, "end") /\ UNCHANGED <<stored, odd>>
    /\ UNCHANGED <<batch, indexed, named>>
\* A file that is gone by now is an error, but below the bin its row is stale and is
\* deleted; a directory that is gone is none.
RemoveTop(r) ==
    /\ AtBin(r, "remove")
    /\ LET n == trashing[r].node
           full == n[2] = "top" /\ Found(In(n[1]))
           gone == ~Found(n) /\ n[1] \in Homes
       IN \/ /\ ~full /\ ~gone
             /\ stored' = [stored EXCEPT ![n] = Nothing]
             /\ GoBin(r, "rows") /\ UNCHANGED <<odd, binFaults>>
          \/ /\ IF full \/ gone THEN UNCHANGED binFaults ELSE BinFault
             /\ GoBin(r, "end") /\ odd' = odd \cup {n[1]} /\ UNCHANGED stored
    /\ UNCHANGED <<batch, indexed, named>>
\* delete_file: the rows of the tree, and every row that came from below the path this
\* one came from, another entry's too.  A failure is only logged.
AlsoDeleted(n) ==
    IF indexed[n] = Nothing \/ n[2] = "in" THEN {}
    ELSE IF indexed[n].from = Nothing THEN {}
    ELSE {k \in Nodes : indexed[k] # Nothing /\ indexed[k].from = In(indexed[n].from[1])}
DeleteOnlyTop(r) ==
    /\ AtBin(r, "rows") /\ trashing[r].kind \in {"delete", "expire"}
    /\ LET n == trashing[r].node
           dead == {n}
       IN indexed' = [k \in Nodes |-> IF k \in dead THEN Nothing ELSE indexed[k]]
    /\ EndBin(r)
    /\ UNCHANGED <<batch, stored, odd, named, binFaults>>
DeleteRows(r) ==
    /\ AtBin(r, "rows") /\ trashing[r].kind \in {"delete", "expire"}
    /\ LET n == trashing[r].node
           dead == Tree(n) \cup AlsoDeleted(n)
       IN \/ /\ indexed' = [k \in Nodes |-> IF k \in dead THEN Nothing ELSE indexed[k]]
             /\ odd' = odd \cup {k[1] : k \in AlsoDeleted(n) \ Tree(n)}
             /\ UNCHANGED binFaults
          \/ BinFault /\ odd' = odd \cup {n[1]} /\ UNCHANGED indexed
    /\ EndBin(r)
    /\ UNCHANGED <<batch, stored, named>>

-----------------------------------------------------------------------------
(* Writing a file and making a directory: the store, then the row           *)

StoreBin(r) ==
    /\ AtBin(r, "store")
    /\ LET n == trashing[r].node
           lone == n[2] = "in" /\ indexed[Top(n[1])] = Nothing
       IN \/ /\ stored' = [k \in Nodes |->
                  IF k = n THEN IF trashing[r].kind = "mkdir" THEN Dir ELSE r
                  ELSE IF k = Top(n[1]) THEN Dir ELSE stored[k]]
             /\ GoBin(r, "row") /\ Odd(lone, {n[1]}) /\ UNCHANGED binFaults
          \/ BinFault /\ GoBin(r, "end") /\ UNCHANGED <<stored, odd>>
    /\ UNCHANGED <<batch, indexed, named>>
RowBin(r) ==
    /\ AtBin(r, "row")
    /\ LET n == trashing[r].node IN
       \/ /\ indexed' = [indexed EXCEPT ![n] = [from |-> Nothing]]
          /\ EndBin(r) /\ UNCHANGED <<odd, binFaults>>
       \/ BinFault /\ GoBin(r, "end") /\ odd' = odd \cup {n[1]} /\ UNCHANGED indexed
    /\ UNCHANGED <<batch, stored, named>>

-----------------------------------------------------------------------------
(* Properties                                                               *)

QuietHead(h) == \A r \in Workers : Busy(r) => h \notin HeadsOf(trashing[r])

\* Between requests every file of the user and of the bin has a row and every row a
\* file, and a row of the bin knows where its file came from; except for heads of two
\* requests at once, of a call that failed, of a restore onto a path that is in use
\* again, without a row of their own when they were moved, or whose rows went with
\* another entry of the same directory.
BinAgreesWithIndex ==
    \A h \in Heads \ odd : QuietHead(h) =>
        \A p \in {"top", "in"} :
            /\ (indexed[<<h, p>>] = Nothing) = (stored[<<h, p>>] = Nothing)
            /\ indexed[<<h, p>>] # Nothing => (indexed[<<h, p>>].from = Nothing) = (h \in Homes)

\* What an acknowledged move to the bin has put there stays as it was, whatever else
\* is moved, restored or deleted, until a restore or a delete names the entry.
BinKeepsContents ==
    \A r \in Workers :
        /\ trashing[r].kind = "trash" /\ trashing[r].ok /\ \A q \in Workers : <<trashing[r].to[1], q>> \notin named
        => \A p \in {"top", "in"} : stored[<<trashing[r].to[1], p>>] = trashing[r].kept[p]

\* What an acknowledged move to the bin has taken away, an acknowledged restore of the
\* entry, or of the file in it, puts where it was, unless another request has named the
\* entry or ran beside one of the two.
RestoreBringsBack ==
    [][\A r, q \in Workers :
         /\ trashing[r].kind = "restore" /\ trashing'[r].ok /\ ~trashing[r].ok /\ ~trashing[r].met
         /\ trashing[q].kind = "trash" /\ trashing[q].ok /\ ~trashing[q].met
         /\ trashing[q].to[1] = trashing[r].node[1]
         /\ \A s \in Workers \ {r} : <<trashing[q].to[1], s>> \notin named
         => LET home == trashing[q].node[1] IN
            \A p \in IF trashing[r].node[2] = "top" THEN {"top", "in"} ELSE {"in"} :
                stored[<<home, p>>] = trashing[q].kept[p]]_binVars
=============================================================================
