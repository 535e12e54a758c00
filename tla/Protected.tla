----------------------------- MODULE Protected -----------------------------
(***************************************************************************)
(* Files of a protected root (src/vfs/scoped/protected.rs): the bytes are  *)
(* in blobs with random names, and the row of a file in the index says     *)
(* which blob and how to decode it (the nonce or seed and the size, its    *)
(* meta).  With the recovery of such paths (src/vfs/wal/mod.rs).           *)
(*                                                                         *)
(* A content is named by the request and the path it was written for; a    *)
(* blob's payload is as many chunks as its size, followed by a MAC of each *)
(* when the mode is to encrypt.                                            *)
(***************************************************************************)
EXTENDS Integers, FiniteSets, SequencesExt

CONSTANTS
    Vaults,            \* protected directories, one of them there at the start
    FirstVault,
    Names,             \* names of the files in them
    ProtectedRequests, \* requests, each issued at most once
    BlobSizes,         \* sizes of what is written, in chunks
    Encrypt,           \* the mode: encrypt, or obfuscate
    LoggedSize,        \* shorter writes are not logged
    MaxVaultFaults,    \* bound on failing calls
    MaxVaultCrashes,   \* bound on crashes
    Void               \* no value

VARIABLES
    fileRow,   \* [VaultPaths -> [key, meta] or Void]: the index
    blob,      \* [BlobKeys -> contents or Void]: the store
    vault,     \* [ProtectedRequests -> local state]
    openLog,   \* the requests whose log row is not completed, in order
    todo,      \* the part of it that a recovery has still to do
    hurt,      \* history: paths whose rows may not fit their blobs
    leaky,     \* history: paths whose blobs may have no row
    vaultFaults
vaultVars == <<fileRow, blob, vault, openLog, todo, hurt, leaky, vaultFaults>>

Root == "dir"
VaultPaths == Vaults \X (Names \cup {Root})
FilePaths == Vaults \X Names
BlobKeys == (ProtectedRequests \cup {FirstVault}) \X FilePaths
Below(p) == IF p[2] = Root THEN {p[1]} \X (Names \cup {Root}) ELSE {p}
Other(p) == <<CHOOSE v \in Vaults : v # p[1], p[2]>>
IsFile(p) == p[2] # Root
FirstFiles == {FirstVault} \X Names
Payload == [of : BlobKeys, size : BlobSizes \cup {1}]
VaultRow == [key : BlobKeys \cup {Void}, meta : Payload \cup {Void}]

\* There are two protected directories, no value is taken for another, and sizes are numbers.
ASSUME VaultAssumption ==
    /\ \E v \in Vaults : v # FirstVault /\ Vaults = {FirstVault, v}
    /\ Root \notin Names /\ FirstVault \notin ProtectedRequests
    /\ Void \notin BlobKeys \cup Payload \cup VaultRow
    /\ BlobSizes \subseteq Nat /\ LoggedSize \in Nat

NewVaultRequest == [pc |-> "new", kind |-> "none", path |-> <<FirstVault, Root>>, size |-> 1,
                    rows |-> <<>>, left |-> {}, made |-> {}, data |-> Void, ok |-> FALSE]
VaultInit ==
    /\ fileRow = [p \in VaultPaths |->
         IF p[1] # FirstVault THEN Void
         ELSE IF IsFile(p) THEN [key |-> <<FirstVault, p>>, meta |-> [of |-> <<FirstVault, p>>, size |-> 1]]
         ELSE [key |-> Void, meta |-> Void]]
    /\ blob = [k \in BlobKeys |-> IF k[1] = FirstVault /\ k[2] \in FirstFiles THEN [of |-> k, size |-> 1] ELSE Void]
    /\ vault = [r \in ProtectedRequests |-> NewVaultRequest]
    /\ openLog = <<>> /\ todo = <<>> /\ hurt = {} /\ leaky = {}
    /\ vaultFaults = [calls |-> 0, crashes |-> 0]

Running(r) == vault[r].pc \notin {"new", "end"}
AtVault(r, pc) == vault[r].pc = pc
GoVault(r, pc) == vault' = [vault EXCEPT ![r].pc = pc]
EndVault(r) == vault' = [vault EXCEPT ![r].pc = "end", ![r].ok = TRUE]
VaultFault == vaultFaults.calls < MaxVaultFaults /\ vaultFaults' = [vaultFaults EXCEPT !.calls = @ + 1]
NoVaultFault == UNCHANGED vaultFaults
Close(r) == openLog' = IF r \notin Range(openLog) THEN openLog
                       ELSE RemoveAt(openLog, CHOOSE i \in DOMAIN openLog : openLog[i] = r)
\* What a request reads or changes.
Scope(kind, p) == IF kind \in {"move", "copy"} THEN Below(p) \cup Below(Other(p)) ELSE Below(p)
Mine(r) == Scope(vault[r].kind, vault[r].path)
Row(x) == [key |-> x.key, meta |-> x.meta]
Rows(ps) == {q \in ps : fileRow[q] # Void}
\* The paths of log rows whose requests have ended.
Unsettled == UNION {Mine(q) : q \in {q \in Range(openLog) : ~Running(q)}}
Spoilt(ps) == hurt' = hurt \cup ps /\ leaky' = leaky \cup ps

-----------------------------------------------------------------------------
(* Requests.  The rows they need are read when they begin.                  *)

Begun(r, kind, p, more, logged) ==
    LET near == {q \in ProtectedRequests : Running(q) /\ Mine(q) \cap Scope(kind, p) # {}}
        changes(k) == k # "read"
        clash == {q \in near : changes(kind) \/ changes(vault[q].kind)}
    IN /\ AtVault(r, "new") /\ todo = <<>>
       /\ vault' = [vault EXCEPT ![r] = [more EXCEPT !.kind = kind, !.path = p]]
       /\ Spoilt((UNION {Mine(q) \cup Scope(kind, p) : q \in clash})
                 \cup (IF changes(kind) /\ (Unsettled \cup hurt) \cap Scope(kind, p) # {} THEN Scope(kind, p) ELSE {}))
       /\ openLog' = IF logged THEN Append(openLog, r) ELSE openLog
       /\ UNCHANGED <<fileRow, blob, todo, vaultFaults>>

BeginProtectedRead(r) ==
    \E p \in Rows(FilePaths) :
        Begun(r, "read", p, [NewVaultRequest EXCEPT !.pc = "payload", !.rows = [q \in {p} |-> fileRow[q]]], FALSE)
\* The payload has a new nonce or seed.
EncodePayload(r, p, n) == [of |-> <<r, p>>, size |-> n]
\* An existing file keeps its blob's name.
BeginProtectedWrite(r) ==
    \E p \in FilePaths, n \in BlobSizes :
        LET key == IF fileRow[p] # Void THEN fileRow[p].key ELSE <<r, p>> IN
        Begun(r, "write", p, [NewVaultRequest EXCEPT !.pc = "write", !.size = n,
                  !.rows = [q \in {p} |-> [key |-> key, meta |-> EncodePayload(r, p, n)]]],
              n >= LoggedSize)
BeginProtectedDelete(r) ==
    \E p \in Rows(VaultPaths) :
        Begun(r, "delete", p, [NewVaultRequest EXCEPT !.pc = "remove",
                  !.left = {fileRow[q].key : q \in {q \in Rows(Below(p)) : IsFile(q)}}], TRUE)
BeginProtectedMove(r) ==
    \E p \in Rows(VaultPaths) :
        /\ fileRow[Other(p)] = Void
        /\ Begun(r, "move", p, [NewVaultRequest EXCEPT !.pc = "rename"], TRUE)
\* The plan of a copy names a new blob for every file.
NewKey(r, q) == IF IsFile(q) THEN <<r, q>> ELSE Void
CopyPlan(r, found) == [q \in {Other(x) : x \in found} |->
    [key |-> NewKey(r, q), meta |-> fileRow[Other(q)].meta, src |-> fileRow[Other(q)].key]]
BeginProtectedCopy(r) ==
    \E p \in Rows(VaultPaths) :
        LET found == Rows(Below(p)) IN
        /\ fileRow[Other(p)] = Void
        /\ Begun(r, "copy", p, [NewVaultRequest EXCEPT !.pc = "copy",
                     !.rows = CopyPlan(r, found), !.left = {Other(q) : q \in {q \in found : IsFile(q)}}], TRUE)
\* The directory is only a row.
CreateProtectedDir(r) ==
    /\ AtVault(r, "new") /\ todo = <<>>
    /\ \E v \in Vaults :
         /\ fileRow' = IF fileRow[<<v, Root>>] # Void THEN fileRow
                     ELSE [fileRow EXCEPT ![<<v, Root>>] = [key |-> Void, meta |-> Void]]
         /\ LET near == {q \in ProtectedRequests : Running(q) /\ <<v, Root>> \in Mine(q)}
            IN Spoilt(UNION {Mine(q) : q \in near})
    /\ EndVault(r)
    /\ UNCHANGED <<blob, openLog, todo, vaultFaults>>

-----------------------------------------------------------------------------
(* Reading: the payload and, to encrypt, the MACs, by the size in the row   *)

ReadFails(r) == GoVault(r, "end")
\* A blob that is too short for the range is an error; a MAC table makes it longer.
LongEnough(b, n) == IF Encrypt THEN 2 * b.size >= n ELSE b.size >= n
ReadPayload(r) ==
    /\ AtVault(r, "payload")
    /\ LET row == vault[r].rows[vault[r].path]
           b == blob[row.key]
           there == b # Void /\ LongEnough(b, row.meta.size)
       IN \/ /\ there /\ NoVaultFault
             /\ vault' = [vault EXCEPT ![r].data = b, ![r].ok = ~Encrypt,
                                       ![r].pc = IF Encrypt THEN "macs" ELSE "end"]
          \/ ReadFails(r) /\ IF there THEN VaultFault ELSE NoVaultFault
    /\ UNCHANGED <<fileRow, blob, openLog, todo, hurt, leaky>>
\* verify_encrypt_window: the MACs begin where the row says that the payload ends, and each
\* is of its chunk.  The nonce is no part of them.
VerifyNothing(payload, b, n) == TRUE
VerifyWindow(payload, b, n) == payload = b /\ b.size = n
ReadMacs(r) ==
    /\ AtVault(r, "macs")
    /\ LET row == vault[r].rows[vault[r].path]
           b == blob[row.key]
           there == b # Void /\ VerifyWindow(vault[r].data, b, row.meta.size)
       IN \/ there /\ EndVault(r) /\ NoVaultFault
          \/ ReadFails(r) /\ IF there THEN VaultFault ELSE NoVaultFault
    /\ UNCHANGED <<fileRow, blob, openLog, todo, hurt, leaky>>

-----------------------------------------------------------------------------
(* Writing: the blob in place, then the row with the new meta               *)

WriteBlob(r) ==
    /\ AtVault(r, "write")
    /\ LET p == vault[r].path
           row == vault[r].rows[p]
           stored == [blob EXCEPT ![row.key] = row.meta]
       IN \/ blob' = stored /\ GoVault(r, "row") /\ UNCHANGED <<hurt, leaky, vaultFaults>>
          \/ /\ VaultFault /\ blob' \in {blob, stored}
             /\ GoVault(r, "end")
             /\ IF fileRow[p] # Void \/ r \notin Range(openLog) THEN Spoilt({p}) ELSE UNCHANGED <<hurt, leaky>>
    /\ UNCHANGED <<fileRow, openLog, todo>>
\* (of a mutant: the row keeps its meta)
OldMeta(r) == LET p == vault[r].path IN IF fileRow[p] = Void THEN vault[r].rows[p] ELSE fileRow[p]
NewMeta(r) == vault[r].rows[vault[r].path]
UpsertRow(r) ==
    /\ AtVault(r, "row")
    /\ LET p == vault[r].path IN
       \/ /\ fileRow' = [fileRow EXCEPT ![p] = NewMeta(r)] /\ EndVault(r) /\ Close(r)
          /\ UNCHANGED <<hurt, leaky, vaultFaults>>
       \/ /\ VaultFault /\ GoVault(r, "end") /\ UNCHANGED <<fileRow, openLog>>
          /\ IF fileRow[p] # Void \/ r \notin Range(openLog) THEN Spoilt({p}) ELSE UNCHANGED <<hurt, leaky>>
    /\ UNCHANGED <<blob, todo>>

-----------------------------------------------------------------------------
(* Deleting: each blob, then the rows below the path, in one transaction    *)

\* pool.delete of a blob that is gone is an error, and ends the request.
RemoveBlob(r) ==
    /\ AtVault(r, "remove")
    /\ \E k \in vault[r].left :
         \/ /\ blob[k] # Void /\ blob' = [blob EXCEPT ![k] = Void]
            /\ vault' = [vault EXCEPT ![r].left = @ \ {k}] /\ UNCHANGED <<hurt, leaky, vaultFaults>>
         \/ /\ IF blob[k] # Void THEN VaultFault ELSE NoVaultFault
            /\ GoVault(r, "end") /\ Spoilt(Mine(r)) /\ UNCHANGED blob
    /\ UNCHANGED <<fileRow, openLog, todo>>
WithoutRows(ps) == [q \in VaultPaths |-> IF q \in ps THEN Void ELSE fileRow[q]]
DeleteProtectedRows(r) ==
    /\ AtVault(r, "remove") /\ vault[r].left = {}
    /\ \/ /\ fileRow' = WithoutRows(Mine(r)) /\ EndVault(r) /\ Close(r) /\ NoVaultFault
       \/ VaultFault /\ GoVault(r, "end") /\ UNCHANGED <<fileRow, openLog>>
    /\ UNCHANGED <<blob, todo, hurt, leaky>>

-----------------------------------------------------------------------------
(* Moving: rows only                                                        *)

MovedRows(p) == [q \in VaultPaths |->
    IF q \in Below(Other(p)) /\ fileRow[Other(q)] # Void THEN fileRow[Other(q)]
    ELSE IF q \in Below(p) THEN Void ELSE fileRow[q]]
\* Each path has one row.
Blocked(p) == \E q \in Rows(Below(p)) : fileRow[Other(q)] # Void
MoveProtectedRows(r) ==
    /\ AtVault(r, "rename")
    /\ LET p == vault[r].path IN
       \/ /\ ~Blocked(p) /\ fileRow' = MovedRows(p) /\ EndVault(r) /\ Close(r) /\ NoVaultFault
       \/ /\ IF Blocked(p) THEN NoVaultFault ELSE VaultFault
          /\ GoVault(r, "end") /\ UNCHANGED <<fileRow, openLog>>
    /\ UNCHANGED <<blob, todo, hurt, leaky>>

-----------------------------------------------------------------------------
(* Copying: blobs, then rows, the directory's first; a failure takes both   *)
(* back                                                                     *)

CopyBlob(r) ==
    /\ AtVault(r, "copy")
    /\ \E q \in vault[r].left :
         LET step == vault[r].rows[q]
             there == blob[step.src] # Void
         IN \/ /\ there /\ blob' = [blob EXCEPT ![step.key] = blob[step.src]]
               /\ vault' = [vault EXCEPT ![r].left = @ \ {q}, ![r].made = @ \cup {step.key}]
               /\ NoVaultFault
            \/ /\ IF there THEN VaultFault ELSE NoVaultFault
               /\ vault' = [vault EXCEPT ![r].pc = "undo", ![r].left = {}] /\ UNCHANGED blob
    /\ UNCHANGED <<fileRow, openLog, todo, hurt, leaky>>
BlobsCopied(r) ==
    /\ AtVault(r, "copy") /\ vault[r].left = {}
    /\ vault' = [vault EXCEPT ![r].pc = "rows", ![r].left = DOMAIN vault[r].rows]
    /\ UNCHANGED <<fileRow, blob, openLog, todo, hurt, leaky, vaultFaults>>
\* A row that is in the way below the target is replaced, whatever blob it names.
UpsertCopy(r) ==
    /\ AtVault(r, "rows")
    /\ \E q \in vault[r].left :
         /\ IsFile(q) => \A k \in vault[r].left : IsFile(k)
         /\ \/ /\ fileRow' = [fileRow EXCEPT ![q] = Row(vault[r].rows[q])]
               /\ vault' = [vault EXCEPT ![r].left = @ \ {q}]
               /\ IF fileRow[q] # Void THEN Spoilt({q}) ELSE UNCHANGED <<hurt, leaky>>
               /\ NoVaultFault
            \/ /\ VaultFault /\ UNCHANGED <<fileRow, hurt, leaky>>
               /\ vault' = [vault EXCEPT ![r].pc = "undo", ![r].left = (DOMAIN vault[r].rows) \ @]
    /\ UNCHANGED <<blob, openLog, todo>>
EndCopy(r) ==
    /\ AtVault(r, "rows") /\ vault[r].left = {} /\ EndVault(r) /\ Close(r)
    /\ UNCHANGED <<fileRow, blob, todo, hurt, leaky, vaultFaults>>
\* rollback_protected_copy_partial: the rows made, with what is below them, then the blobs
\* made.  Failures are ignored; none are modelled.
UndoRows(r) ==
    /\ AtVault(r, "undo")
    /\ fileRow' = WithoutRows(UNION {Below(q) : q \in vault[r].left})
    /\ GoVault(r, "undoBlobs")
    /\ UNCHANGED <<blob, openLog, todo, hurt, leaky, vaultFaults>>
NoneMade(r) == {}
Made(r) == vault[r].made
UndoBlobs(r) ==
    /\ AtVault(r, "undoBlobs")
    /\ blob' = [k \in BlobKeys |-> IF k \in Made(r) THEN Void ELSE blob[k]]
    /\ GoVault(r, "end")
    /\ UNCHANGED <<fileRow, openLog, todo, hurt, leaky, vaultFaults>>

-----------------------------------------------------------------------------
(* A crash, and the recovery before the first request after it              *)

VaultCrash ==
    /\ vaultFaults.crashes < MaxVaultCrashes
    /\ vaultFaults' = [vaultFaults EXCEPT !.crashes = @ + 1]
    /\ LET cut == {r \in ProtectedRequests : Running(r)}
           over == {r \in cut : vault[r].kind = "write" /\ (Rows(Mine(r)) # {} \/ r \notin Range(openLog))}
           half == {r \in cut : vault[r].kind \in {"delete", "copy"}}
       IN /\ hurt' = hurt \cup UNION {Mine(r) : r \in over}
          /\ leaky' = leaky \cup UNION {Mine(r) : r \in over \cup half}
          /\ vault' = [r \in ProtectedRequests |-> IF r \in cut THEN [vault[r] EXCEPT !.pc = "end"] ELSE vault[r]]
    /\ todo' = openLog
    /\ UNCHANGED <<fileRow, blob, openLog>>
Recovering(kind) == todo # <<>> /\ vault[Head(todo)].kind = kind /\ todo' = Tail(todo)
\* A file that has a row is taken for written.
RecoverProtectedWrite ==
    /\ Recovering("write")
    /\ LET r == Head(todo)
           p == vault[r].path
           row == vault[r].rows[p]
       IN \/ fileRow[p] # Void /\ Close(r) /\ UNCHANGED fileRow
          \/ fileRow[p] = Void /\ blob[row.key] # Void /\ fileRow' = [fileRow EXCEPT ![p] = row] /\ Close(r)
          \/ fileRow[p] = Void /\ blob[row.key] = Void /\ UNCHANGED <<fileRow, openLog>>
    /\ UNCHANGED <<blob, vault, hurt, leaky, vaultFaults>>
\* exists answers by the path in the store, where no protected file is: no blob is deleted.
RecoverProtectedDelete ==
    /\ Recovering("delete")
    /\ fileRow' = WithoutRows(Mine(Head(todo))) /\ Close(Head(todo))
    /\ UNCHANGED <<blob, vault, hurt, leaky, vaultFaults>>
\* For the same reason neither end of a move is found: it stays as it is.
RecoverProtectedMove ==
    /\ Recovering("move")
    /\ UNCHANGED <<fileRow, blob, vault, openLog, hurt, leaky, vaultFaults>>
RecoverProtectedCopy ==
    /\ Recovering("copy")
    /\ LET r == Head(todo)
           plan == vault[r].rows
           whole == \A q \in DOMAIN plan : IsFile(q) => blob[plan[q].key] # Void
       IN \/ /\ whole /\ fileRow' = [q \in VaultPaths |-> IF q \in DOMAIN plan THEN Row(plan[q]) ELSE fileRow[q]]
             /\ Close(r)
          \/ /\ ~whole /\ fileRow' = WithoutRows(UNION {Below(q) : q \in DOMAIN plan})
             /\ UNCHANGED openLog
    /\ UNCHANGED <<blob, vault, hurt, leaky, vaultFaults>>

VaultStep(r) ==
    \/ BeginProtectedRead(r) \/ BeginProtectedWrite(r) \/ BeginProtectedDelete(r)
    \/ BeginProtectedMove(r) \/ BeginProtectedCopy(r) \/ CreateProtectedDir(r)
    \/ ReadPayload(r) \/ ReadMacs(r) \/ WriteBlob(r) \/ UpsertRow(r)
    \/ RemoveBlob(r) \/ DeleteProtectedRows(r) \/ MoveProtectedRows(r)
    \/ CopyBlob(r) \/ BlobsCopied(r) \/ UpsertCopy(r) \/ EndCopy(r) \/ UndoRows(r) \/ UndoBlobs(r)
VaultNext ==
    \/ \E r \in ProtectedRequests : VaultStep(r)
    \/ VaultCrash \/ RecoverProtectedWrite \/ RecoverProtectedDelete
    \/ RecoverProtectedMove \/ RecoverProtectedCopy
VaultSpec == VaultInit /\ [][VaultNext]_vaultVars

-----------------------------------------------------------------------------
(* Properties                                                               *)

\* A path that no request works on and no unsettled log row names.
Settled(p) == /\ todo = <<>> /\ p \notin Unsettled
              /\ \A r \in ProtectedRequests : Running(r) => p \notin Mine(r)

\* The row of a settled file names a blob that is there and that it describes, whatever
\* was moved, copied, recovered or taken back; except after two requests at once, or when
\* an existing file was being replaced as a call failed or the program crashed.  No two
\* rows name one blob, with the same exceptions.
RowsFitBlobs ==
    /\ \A x \in FilePaths \ hurt :
         Settled(x) /\ fileRow[x] # Void => blob[fileRow[x].key] = fileRow[x].meta
    /\ \A x, y \in FilePaths \ hurt :
         fileRow[x] # Void /\ fileRow[y] # Void /\ x # y => fileRow[x].key # fileRow[y].key

\* A blob whose paths are settled has a row: a write of a new file is completed by the
\* recovery, and a copy that fails leaves none behind; except after a delete or a copy
\* that was cut off, and the cases above.
NoLostBlobs ==
    \A k \in BlobKeys : blob[k] # Void /\ {k[2], Other(k[2])} \cap leaky = {}
                    /\ Settled(k[2]) /\ Settled(Other(k[2]))
        => \E p \in FilePaths : fileRow[p] # Void /\ fileRow[p].key = k

\* What an encrypted read answers with is what the row describes, even beside writes and
\* moves, unless the blob was written anew with the same size: the nonce is in no MAC.
EncryptedReadsAreTrue ==
    \A r \in ProtectedRequests :
        Encrypt /\ vault[r].kind = "read" /\ vault[r].ok =>
            LET meta == vault[r].rows[vault[r].path].meta IN
            vault[r].data # meta => vault[r].data.size = meta.size
=============================================================================
