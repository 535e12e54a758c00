---------------------------- MODULE VaultProofs ----------------------------
(***************************************************************************)
(* The protected directories (Protected): what is read of their encrypted  *)
(* files, and which rows and blobs a crash, a failing call or requests     *)
(* side by side can leave, for any number of requests, paths, sizes, keys, *)
(* restarts and crashes, whether the directory encrypts or not.            *)
(***************************************************************************)
EXTENDS Storage, SequenceTheorems, TLAPS

\* A step of Storage either is one of the vaults' or leaves them alone.
LEMMA VaultSteps == [Next]_storageVars => VaultMoves \/ UNCHANGED vaultVars
    BY DEF Next, storageVars, ReadsMoves, UsageMoves, BinMoves, PoolMoves, RouteMoves, ConfigMoves,
           ThumbsMoves, RenderMoves, VideosMoves, BatchesMoves, MountsMoves, BesideReads, BesideUsage, BesideBin, BesidePool,
           BesideRoute, BesideConfig, BesideThumbs, BesideRender, BesideVideos, BesideBatches, BesideMounts

-----------------------------------------------------------------------------
(* Reads of encrypted files                                                 *)

\* A read does nothing else, and when it has an answer the size of the payload was the
\* one in the row it began with.
VaultFields == {"pc", "kind", "path", "size", "rows", "left", "made", "data", "ok"}
ReadIsVerified(q) ==
    /\ DOMAIN q = VaultFields /\ q = [x \in VaultFields |-> q[x]]
    /\ q.pc = "new" => q.kind = "none"
    /\ q.kind = "read" => q.pc \in {"payload", "macs", "end"}
    /\ q.kind = "read" /\ Encrypt /\ q.ok => q.data.size = q.rows[q.path].meta.size
ReadsVerified ==
    /\ vault = [r \in ProtectedRequests |-> vault[r]]
    /\ \A r \in ProtectedRequests : ReadIsVerified(vault[r])

LEMMA ReadsInit == Init => ReadsVerified
<1> SUFFICES ASSUME VaultInit PROVE ReadsVerified
    BY DEF Init
<1>1. /\ NewVaultRequest.pc = "new" /\ NewVaultRequest.kind = "none" /\ DOMAIN NewVaultRequest = VaultFields
      /\ NewVaultRequest = [x \in VaultFields |-> NewVaultRequest[x]]
    BY DEF NewVaultRequest, VaultFields
<1> QED
    BY <1>1 DEF VaultInit, ReadsVerified, ReadIsVerified

\* What a request that is not a read does to its own state.
LEMMA OneMoves ==
    ASSUME ReadsVerified, NEW r \in ProtectedRequests, NEW me,
           vault' = [vault EXCEPT ![r] = me], ReadIsVerified(me)
    PROVE ReadsVerified'
    BY DEF ReadsVerified


\* One line for each action that a read could be in the middle of; the rest take no step
\* of a read.
LEMMA ReadSteps == ReadsVerified /\ [Next]_storageVars => ReadsVerified'
<1> SUFFICES ASSUME ReadsVerified, VaultMoves PROVE ReadsVerified'
  <2>1. UNCHANGED vaultVars => UNCHANGED vault
      BY DEF vaultVars
  <2>2. ReadsVerified /\ UNCHANGED vault => ReadsVerified'
      BY DEF ReadsVerified
  <2> QED
      BY <2>1, <2>2, VaultSteps
<1>1. /\ NewVaultRequest.pc = "new" /\ NewVaultRequest.kind = "none" /\ ~NewVaultRequest.ok
      /\ DOMAIN NewVaultRequest = VaultFields /\ NewVaultRequest = [x \in VaultFields |-> NewVaultRequest[x]]
    BY DEF NewVaultRequest, VaultFields
<1>2. ASSUME NEW r \in ProtectedRequests, BeginProtectedRead(r) PROVE ReadsVerified'
  <2>1. PICK p \in FilePaths : vault' = [vault EXCEPT ![r] =
             [[NewVaultRequest EXCEPT !.pc = "payload", !.rows = [q \in {p} |-> fileRow[q]]] EXCEPT !.kind = "read", !.path = p]]
      BY <1>2 DEF BeginProtectedRead, Begun, Rows
  <2> DEFINE me == [[NewVaultRequest EXCEPT !.pc = "payload", !.rows = [q \in {p} |-> fileRow[q]]]
                        EXCEPT !.kind = "read", !.path = p]
  <2>2. me.pc = "payload" /\ me.kind = "read" /\ ~me.ok /\ DOMAIN me = VaultFields /\ me = [x \in VaultFields |-> me[x]]
      BY <1>1 DEF VaultFields
  <2>3. ReadIsVerified(me)
      BY <2>2 DEF ReadIsVerified
  <2> QED
      BY <2>1, <2>3, OneMoves
<1>3. ASSUME NEW r \in ProtectedRequests,
             \/ BeginProtectedWrite(r) \/ BeginProtectedDelete(r) \/ BeginProtectedMove(r) \/ BeginProtectedCopy(r)
      PROVE ReadsVerified'
  <2>1. \E me : /\ me.kind # "read" /\ me.pc # "new" /\ DOMAIN me = VaultFields /\ me = [x \in VaultFields |-> me[x]]
                /\ vault' = [vault EXCEPT ![r] = me]
    <3>1. CASE BeginProtectedWrite(r)
      <4>1. PICK p \in FilePaths, n \in BlobSizes : \E rows : vault' = [vault EXCEPT ![r] =
                 [[NewVaultRequest EXCEPT !.pc = "write", !.size = n, !.rows = rows] EXCEPT !.kind = "write", !.path = p]]
          BY <3>1, Zenon DEF BeginProtectedWrite, Begun
      <4> QED
          BY <4>1, <1>1 DEF VaultFields
    <3>2. CASE BeginProtectedDelete(r)
        BY <3>2, <1>1 DEF BeginProtectedDelete, Begun, VaultFields
    <3>3. CASE BeginProtectedMove(r)
        BY <3>3, <1>1 DEF BeginProtectedMove, Begun, VaultFields
    <3>4. CASE BeginProtectedCopy(r)
        BY <3>4, <1>1 DEF BeginProtectedCopy, Begun, VaultFields
    <3> QED
        BY <1>3, <3>1, <3>2, <3>3, <3>4
  <2>2. PICK me : me.kind # "read" /\ me.pc # "new" /\ DOMAIN me = VaultFields /\ me = [x \in VaultFields |-> me[x]]
                  /\ vault' = [vault EXCEPT ![r] = me]
      BY <2>1
  <2>3. ReadIsVerified(me)
      BY <2>2 DEF ReadIsVerified
  <2> QED
      BY <2>2, <2>3, OneMoves

<1>4. ASSUME NEW r \in ProtectedRequests, CreateProtectedDir(r) PROVE ReadsVerified'
  <2>1. vault' = [vault EXCEPT ![r] = [[vault[r] EXCEPT !.pc = "end"] EXCEPT !.ok = TRUE]]
      BY <1>4 DEF CreateProtectedDir, EndVault, ReadsVerified, ReadIsVerified, VaultFields
  <2>2. ReadIsVerified([[vault[r] EXCEPT !.pc = "end"] EXCEPT !.ok = TRUE])
      BY <1>4 DEF CreateProtectedDir, AtVault, ReadsVerified, ReadIsVerified, VaultFields
  <2> QED
      BY <2>1, <2>2, OneMoves
<1>5. ASSUME NEW r \in ProtectedRequests, ReadPayload(r) PROVE ReadsVerified'
  <2>1. CASE GoVault(r, "end")
    <3>1. vault' = [vault EXCEPT ![r] = [vault[r] EXCEPT !.pc = "end"]]
        BY <2>1 DEF GoVault
    <3>2. ReadIsVerified([vault[r] EXCEPT !.pc = "end"])
        BY DEF ReadsVerified, ReadIsVerified, VaultFields
    <3> QED
        BY <3>1, <3>2, OneMoves
  <2>2. CASE ~GoVault(r, "end")
    <3>0. PICK b : vault' = [vault EXCEPT ![r].data = b, ![r].ok = ~Encrypt,
                                          ![r].pc = IF Encrypt THEN "macs" ELSE "end"]
        BY <1>5, <2>2 DEF ReadPayload, ReadFails
    <3>1. vault' = [vault EXCEPT ![r] = [[[vault[r] EXCEPT !.data = b] EXCEPT !.ok = ~Encrypt]
                                                   EXCEPT !.pc = IF Encrypt THEN "macs" ELSE "end"]]
        BY <3>0 DEF ReadsVerified
    <3>2. ReadIsVerified([[[vault[r] EXCEPT !.data = b] EXCEPT !.ok = ~Encrypt]
                                                   EXCEPT !.pc = IF Encrypt THEN "macs" ELSE "end"])
        BY DEF ReadsVerified, ReadIsVerified, VaultFields
    <3> QED
        BY <3>1, <3>2, OneMoves
  <2> QED
      BY <2>1, <2>2
<1>6. ASSUME NEW r \in ProtectedRequests, ReadMacs(r) PROVE ReadsVerified'
  <2>1. CASE GoVault(r, "end")
    <3>1. vault' = [vault EXCEPT ![r] = [vault[r] EXCEPT !.pc = "end"]]
        BY <2>1 DEF GoVault
    <3>2. ReadIsVerified([vault[r] EXCEPT !.pc = "end"])
        BY DEF ReadsVerified, ReadIsVerified, VaultFields
    <3> QED
        BY <3>1, <3>2, OneMoves
  <2>2. CASE EndVault(r) /\ VerifyWindow(vault[r].data, blob[vault[r].rows[vault[r].path].key],
                                         vault[r].rows[vault[r].path].meta.size)
    <3>1. vault' = [vault EXCEPT ![r] = [[vault[r] EXCEPT !.pc = "end"] EXCEPT !.ok = TRUE]]
        BY <2>2 DEF EndVault, ReadsVerified, ReadIsVerified, VaultFields
    <3>2. vault[r].data.size = vault[r].rows[vault[r].path].meta.size
        BY <2>2 DEF VerifyWindow
    <3>3. ReadIsVerified([[vault[r] EXCEPT !.pc = "end"] EXCEPT !.ok = TRUE])
        BY <3>2 DEF ReadsVerified, ReadIsVerified, VaultFields
    <3> QED
        BY <3>1, <3>3, OneMoves
  <2> QED
      BY <1>6, <2>1, <2>2 DEF ReadMacs, ReadFails
<1>7. ASSUME NEW r \in ProtectedRequests,
             vault[r].pc \in {"write", "row", "remove", "rename", "copy", "rows", "undo", "undoBlobs"},
             NEW me, me.kind = vault[r].kind, me.pc # "new", DOMAIN me = VaultFields,
             me = [x \in VaultFields |-> me[x]], vault' = [vault EXCEPT ![r] = me]
      PROVE ReadsVerified'
  <2>1. ReadIsVerified(vault[r])
      BY DEF ReadsVerified
  <2>2. ReadIsVerified(me)
      BY <1>7, <2>1 DEF ReadIsVerified
  <2> QED
      BY <1>7, <2>2, OneMoves
<1>8. ASSUME NEW r \in ProtectedRequests,
             \/ WriteBlob(r) \/ UpsertRow(r) \/ RemoveBlob(r) \/ DeleteProtectedRows(r) \/ MoveProtectedRows(r)
             \/ CopyBlob(r) \/ BlobsCopied(r) \/ UpsertCopy(r) \/ EndCopy(r) \/ UndoRows(r) \/ UndoBlobs(r)
      PROVE ReadsVerified'
  <2> DEFINE ended == [[vault[r] EXCEPT !.pc = "end"] EXCEPT !.ok = TRUE]
             at(pc) == [vault[r] EXCEPT !.pc = pc]
  <2>1. ReadIsVerified(vault[r]) /\ vault = [q \in ProtectedRequests |-> vault[q]]
      BY DEF ReadsVerified
  <2>2. ASSUME EndVault(r), vault[r].pc \in {"row", "remove", "rename", "rows"} PROVE ReadsVerified'
    <3>1. vault' = [vault EXCEPT ![r] = ended]
        BY <2>1, <2>2 DEF EndVault
    <3>2. ended.kind = vault[r].kind /\ ended.pc # "new" /\ DOMAIN ended = VaultFields
          /\ ended = [x \in VaultFields |-> ended[x]]
        BY <2>1 DEF ReadIsVerified, VaultFields
    <3> QED
        BY <2>2, <3>1, <3>2, <1>7
  <2>3. ASSUME NEW pc \in {"row", "end", "undoBlobs"}, GoVault(r, pc),
               vault[r].pc \in {"write", "row", "remove", "rename", "undo", "undoBlobs"}
        PROVE ReadsVerified'
    <3>1. vault' = [vault EXCEPT ![r] = at(pc)]
        BY <2>1, <2>3 DEF GoVault
    <3>2. at(pc).kind = vault[r].kind /\ at(pc).pc # "new" /\ DOMAIN at(pc) = VaultFields
          /\ at(pc) = [x \in VaultFields |-> at(pc)[x]]
        BY <2>1 DEF ReadIsVerified, VaultFields
    <3> QED
        BY <2>3, <3>1, <3>2, <1>7
  <2>6. CASE WriteBlob(r) \/ UpsertRow(r) \/ DeleteProtectedRows(r) \/ MoveProtectedRows(r) \/ EndCopy(r)
             \/ UndoRows(r) \/ UndoBlobs(r)
    <3>1. CASE WriteBlob(r)
        BY <3>1, <2>3 DEF WriteBlob, AtVault
    <3>2. CASE UpsertRow(r)
        BY <3>2, <2>2, <2>3 DEF UpsertRow, AtVault
    <3>3. CASE DeleteProtectedRows(r)
        BY <3>3, <2>2, <2>3 DEF DeleteProtectedRows, AtVault
    <3>4. CASE MoveProtectedRows(r)
        BY <3>4, <2>2, <2>3 DEF MoveProtectedRows, AtVault
    <3>5. CASE EndCopy(r)
        BY <3>5, <2>2 DEF EndCopy, AtVault
    <3>6. CASE UndoRows(r)
        BY <3>6, <2>3 DEF UndoRows, AtVault
    <3>7. CASE UndoBlobs(r)
        BY <3>7, <2>3 DEF UndoBlobs, AtVault
    <3> QED
        BY <2>6, <3>1, <3>2, <3>3, <3>4, <3>5, <3>6, <3>7
  <2>7. ASSUME NEW left, vault' = [vault EXCEPT ![r].left = left],
               vault[r].pc \in {"remove", "copy", "rows"}
        PROVE ReadsVerified'
    <3> DEFINE me == [vault[r] EXCEPT !.left = left]
    <3>1. vault' = [vault EXCEPT ![r] = me]
        BY <2>1, <2>7 DEF ReadIsVerified, VaultFields
    <3>2. me.kind = vault[r].kind /\ me.pc # "new" /\ DOMAIN me = VaultFields
          /\ me = [x \in VaultFields |-> me[x]]
        BY <2>1, <2>7 DEF ReadIsVerified, VaultFields
    <3> QED
        BY <2>7, <3>1, <3>2, <1>7
  <2>8. ASSUME NEW left, NEW pc \in {"rows", "undo"}, vault' = [vault EXCEPT ![r].pc = pc, ![r].left = left],
               vault[r].pc \in {"remove", "copy", "rows"}
        PROVE ReadsVerified'
    <3> DEFINE me == [[vault[r] EXCEPT !.pc = pc] EXCEPT !.left = left]
    <3>1. vault' = [vault EXCEPT ![r] = me]
        BY <2>1, <2>8 DEF ReadIsVerified, VaultFields
    <3>2. me.kind = vault[r].kind /\ me.pc # "new" /\ DOMAIN me = VaultFields
          /\ me = [x \in VaultFields |-> me[x]]
        BY <2>1, <2>8 DEF ReadIsVerified, VaultFields
    <3> QED
        BY <2>8, <3>1, <3>2, <1>7
  <2>9. ASSUME NEW left, NEW made, vault' = [vault EXCEPT ![r].left = left, ![r].made = made],
               vault[r].pc \in {"remove", "copy", "rows"}
        PROVE ReadsVerified'
    <3> DEFINE me == [[vault[r] EXCEPT !.left = left] EXCEPT !.made = made]
    <3>1. vault' = [vault EXCEPT ![r] = me]
        BY <2>1, <2>9 DEF ReadIsVerified, VaultFields
    <3>2. me.kind = vault[r].kind /\ me.pc # "new" /\ DOMAIN me = VaultFields
          /\ me = [x \in VaultFields |-> me[x]]
        BY <2>1, <2>9 DEF ReadIsVerified, VaultFields
    <3> QED
        BY <2>9, <3>1, <3>2, <1>7
  <2>10. CASE RemoveBlob(r)
      BY <2>10, <2>3, <2>7 DEF RemoveBlob, AtVault
  <2>11. CASE CopyBlob(r)
      BY <2>11, <2>8, <2>9 DEF CopyBlob, AtVault
  <2>12. CASE BlobsCopied(r)
      BY <2>12, <2>8 DEF BlobsCopied, AtVault
  <2>13. CASE UpsertCopy(r)
      BY <2>13, <2>7, <2>8 DEF UpsertCopy, AtVault
  <2> QED
      BY <1>8, <2>6, <2>10, <2>11, <2>12, <2>13
<1>9. ASSUME VaultCrash PROVE ReadsVerified'
  <2> DEFINE me(r) == IF Running(r) THEN [vault[r] EXCEPT !.pc = "end"] ELSE vault[r]
  <2>1. vault' = [r \in ProtectedRequests |-> me(r)]
      BY <1>9 DEF VaultCrash
  <2>2. ASSUME NEW r \in ProtectedRequests PROVE ReadIsVerified(me(r))
      BY DEF ReadsVerified, ReadIsVerified, VaultFields
  <2> HIDE DEF me
  <2> QED
      BY <2>1, <2>2 DEF ReadsVerified
<1>10. ASSUME \/ RecoverProtectedWrite \/ RecoverProtectedDelete \/ RecoverProtectedMove \/ RecoverProtectedCopy
       PROVE ReadsVerified'
  <2>1. UNCHANGED vault
      BY <1>10 DEF RecoverProtectedWrite, RecoverProtectedDelete, RecoverProtectedMove, RecoverProtectedCopy
  <2> QED
      BY <2>1 DEF ReadsVerified
<1> QED
    BY <1>2, <1>3, <1>4, <1>5, <1>6, <1>8, <1>9, <1>10 DEF VaultMoves

\* A read of an encrypted file answers with what its row describes, or with a payload of
\* the same size: the MACs are looked up by the size in the row (verify_encrypt_window).
THEOREM ReadsAreTrue == Spec => []EncryptedReadsAreTrue
<1>1. ReadsVerified => EncryptedReadsAreTrue
    BY DEF ReadsVerified, ReadIsVerified, EncryptedReadsAreTrue
<1> QED
    BY <1>1, ReadsInit, ReadSteps, PTL DEF Spec

-----------------------------------------------------------------------------
(* Rows, blobs and the requests that work on them                           *)

EndsOf(p) == {p, Other(p)}
HasKey(x, k) == fileRow[x] # Void /\ fileRow[x].key = k
InLog(r) == r \in Range(openLog)
Live(r) == Running(r) \/ InLog(r)
Kind(r) == vault[r].kind
Pc(r) == vault[r].pc
PlaceOf(r) == vault[r].path
PlanOf(r) == vault[r].rows
LeftOf(r) == vault[r].left
PlannedFiles(r) == {q \in DOMAIN PlanOf(r) : IsFile(q)}
LiveWrite(r) == Live(r) /\ Kind(r) = "write"
LiveCopy(r) == Live(r) /\ Kind(r) = "copy"
LiveDelete(r) == Live(r) /\ Kind(r) = "delete"
WriteKey(r) == PlanOf(r)[PlaceOf(r)].key
WriteMeta(r) == PlanOf(r)[PlaceOf(r)].meta
\* The rows that a copy has made, or that its recovery will.
RowsMade(r) == CASE Pc(r) = "rows" -> DOMAIN PlanOf(r) \ LeftOf(r)
                 [] Pc(r) = "undo" -> LeftOf(r)
                 [] Pc(r) = "end" /\ r \in Range(todo) -> DOMAIN PlanOf(r)
                 [] OTHER -> {}

\* What the state of a request can be.
WriteIs(q) ==
    /\ q.pc \in {"write", "row", "end"} /\ q.path \in FilePaths
    /\ DOMAIN q.rows = {q.path}
    /\ q.rows[q.path] \in [key : BlobKeys, meta : Payload] /\ q.rows[q.path].key[2] \in EndsOf(q.path)
CopyIs(r, q) == LET files == {x \in DOMAIN q.rows : IsFile(x)} IN
    /\ q.pc \in {"copy", "rows", "undo", "undoBlobs", "end"}
    /\ DOMAIN q.rows \subseteq Below(Other(q.path))
    /\ \A x \in DOMAIN q.rows : q.rows[x].key = NewKey(r, x)
    /\ \A x \in files : q.rows[x].meta \in Payload /\ q.rows[x].src \in BlobKeys
    /\ \A x \in DOMAIN q.rows : Row(q.rows[x]) \in VaultRow
    /\ q.left \subseteq DOMAIN q.rows
    /\ q.made \subseteq {<<r, x>> : x \in files}
    /\ q.pc = "copy" => q.left \subseteq files /\ q.made = {<<r, x>> : x \in files \ q.left}
    /\ q.pc = "rows" => q.made = {<<r, x>> : x \in files} /\ ((\E x \in q.left : ~IsFile(x)) => q.left = DOMAIN q.rows)
    /\ q.pc = "undo" /\ q.left # {} => q.made = {<<r, x>> : x \in files} /\ q.made # {}
RequestIs(r, q) ==
    /\ q.path \in VaultPaths
    /\ q.kind \in {"none", "read", "write", "delete", "move", "copy"}
    /\ q.kind = "none" => q.pc \in {"new", "end"}
    /\ q.kind = "read" => q.pc \in {"payload", "macs", "end"}
    /\ q.kind = "write" => WriteIs(q)
    /\ q.kind = "delete" => q.pc \in {"remove", "end"} /\ q.left \subseteq BlobKeys
    /\ q.kind = "move" => q.pc \in {"rename", "end"}
    /\ q.kind = "copy" => CopyIs(r, q)
RequestsAre == \A r \in ProtectedRequests : RequestIs(r, vault[r])

RowIs(x, e) ==
    /\ e \in VaultRow \cup {Void}
    /\ IsFile(x) /\ e # Void => e.key \in BlobKeys /\ e.meta \in Payload /\ e.key[2] \in EndsOf(x)
StoreIs ==
    /\ fileRow = [x \in VaultPaths |-> fileRow[x]]
    /\ \A x \in VaultPaths : RowIs(x, fileRow[x])
    /\ blob \in [BlobKeys -> Payload \cup {Void}]
    /\ hurt \subseteq leaky
NoTwice(s) == \A i, j \in DOMAIN s : s[i] = s[j] => i = j
LogIs ==
    /\ openLog \in Seq(ProtectedRequests) /\ todo \in Seq(ProtectedRequests)
    /\ NoTwice(openLog) /\ NoTwice(todo) /\ Range(todo) \subseteq Range(openLog)
    /\ todo # <<>> => \A r \in ProtectedRequests : ~Running(r)
    /\ \A r \in ProtectedRequests : InLog(r) => Pc(r) # "new" /\ Kind(r) \in {"write", "delete", "move", "copy"}
    /\ \A r \in ProtectedRequests : Running(r) /\ Kind(r) \in {"delete", "move", "copy"} => InLog(r)

\* Where two requests meet.
Overlap(r, s) == Mine(r) \cap Mine(s) # {} /\ (Kind(r) # "read" \/ Kind(s) # "read")
MeetingsHurt ==
    \A r, s \in ProtectedRequests : r # s =>
        /\ Running(r) /\ Running(s) /\ Overlap(r, s) => Mine(r) \subseteq hurt
        /\ Live(r) /\ Kind(r) # "read" /\ InLog(s) => Mine(r) \cap Mine(s) \subseteq hurt
\* What was met at one end of a move or copy was met at the other.
BothEnds ==
    \A r \in ProtectedRequests : Running(r) =>
        /\ Kind(r) = "move" => \A x \in Mine(r) \cap hurt : Other(x) \in hurt
        /\ Kind(r) = "copy" => \A x \in Below(PlaceOf(r)) \cap hurt : Other(x) \in hurt

\* No two keep one blob, unless they met.
RowsApart == \A x, y \in FilePaths : x # y /\ fileRow[x] # Void /\ HasKey(y, fileRow[x].key) => x \in hurt
WriteApart(r) == LiveWrite(r) =>
    /\ \A y \in FilePaths : y # PlaceOf(r) /\ HasKey(y, WriteKey(r)) => {y, PlaceOf(r)} \subseteq hurt
    /\ \A s \in ProtectedRequests : s # r /\ LiveWrite(s) /\ WriteKey(s) = WriteKey(r) => PlaceOf(r) \in hurt
    /\ \A s \in ProtectedRequests : LiveCopy(s) /\ (\E q \in PlannedFiles(s) : WriteKey(r) = <<s, q>>) =>
           PlaceOf(r) \in hurt /\ Mine(s) \subseteq hurt
WritesApart == \A r \in ProtectedRequests : WriteApart(r)
CopyApart(r) == LiveCopy(r) =>
    \A q \in PlannedFiles(r), y \in FilePaths :
        HasKey(y, <<r, q>>) /\ (y # q \/ q \notin RowsMade(r)) => y \in hurt /\ Mine(r) \subseteq hurt
CopiesApart == \A r \in ProtectedRequests : CopyApart(r)
DeleteApart(r) == Running(r) /\ Kind(r) = "delete" =>
    /\ \A x \in FilePaths : fileRow[x] # Void /\ fileRow[x].key \in LeftOf(r) => x \in Mine(r) \cup hurt
    /\ \A s \in ProtectedRequests : LiveWrite(s) /\ WriteKey(s) \in LeftOf(r) => PlaceOf(s) \in hurt
    /\ \A s \in ProtectedRequests : LiveCopy(s) => \A q \in PlannedFiles(s) : <<s, q>> \in LeftOf(r) => q \in hurt
DeletesApart == \A r \in ProtectedRequests : DeleteApart(r)
\* Nothing has the name of a blob that is still to be made.
NewKeys ==
    \A r \in ProtectedRequests, k \in BlobKeys : Pc(r) = "new" /\ k[1] = r =>
        /\ blob[k] = Void /\ \A x \in FilePaths : ~HasKey(x, k)
        /\ \A s \in ProtectedRequests : /\ LiveWrite(s) => WriteKey(s) # k
                                        /\ Running(s) /\ Kind(s) = "delete" => k \notin LeftOf(s)
ApartInv == RowsApart /\ WritesApart /\ CopiesApart /\ DeletesApart /\ NewKeys

\* What is kept fits.
WriteFits(r) == LiveWrite(r) /\ PlaceOf(r) \notin hurt =>
    /\ fileRow[PlaceOf(r)] # Void => Running(r) /\ fileRow[PlaceOf(r)].key = WriteKey(r)
    /\ fileRow[PlaceOf(r)] = Void => blob[WriteKey(r)] \in {Void, WriteMeta(r)}
    /\ Pc(r) = "row" => blob[WriteKey(r)] = WriteMeta(r)
CopyFits(r) == LiveCopy(r) => \A q \in PlannedFiles(r) :
    /\ Pc(r) = "copy" /\ Other(q) \notin hurt =>
           HasKey(Other(q), PlanOf(r)[q].src) /\ blob[PlanOf(r)[q].src] = PlanOf(r)[q].meta
    /\ q \notin hurt => blob[<<r, q>>] \in {Void, PlanOf(r)[q].meta}
    /\ q \notin hurt /\ (Pc(r) = "rows" \/ (Pc(r) = "copy" /\ q \notin LeftOf(r))) => blob[<<r, q>>] = PlanOf(r)[q].meta
RowFits(x) == x \notin hurt /\ fileRow[x] # Void =>
    \/ blob[fileRow[x].key] = fileRow[x].meta
    \/ \E r \in ProtectedRequests : Kind(r) = "write" /\ Pc(r) = "row" /\ PlaceOf(r) = x
    \/ \E r \in ProtectedRequests : LiveDelete(r) /\ x \in Mine(r)
KeptFit == /\ \A r \in ProtectedRequests : WriteFits(r)
           /\ \A r \in ProtectedRequests : CopyFits(r)
           /\ \A x \in FilePaths : RowFits(x)

\* No blob is lost.
DeleteLeaves(r) == LiveDelete(r) => \A x \in FilePaths : x \in Mine(r) /\ x \notin leaky /\ fileRow[x] # Void =>
    (Running(r) /\ fileRow[x].key \in LeftOf(r)) \/ blob[fileRow[x].key] = Void
Missed(r) == \E q \in PlannedFiles(r) : blob[<<r, q>>] = Void
CopyLeaves(r) == LiveCopy(r) =>
    /\ Pc(r) = "end" => Mine(r) \subseteq leaky \/ PlannedFiles(r) = {} \/ Missed(r)
    /\ Running(r) => \A q \in RowsMade(r) : q \notin hurt => fileRow[q] = Row(PlanOf(r)[q])
    /\ Running(r) => \A q \in PlannedFiles(r) : <<r, q>> \notin vault[r].made => blob[<<r, q>>] = Void \/ Mine(r) \subseteq hurt
Keeps(r, k) ==
    \/ LiveWrite(r) /\ WriteKey(r) = k
    \/ Kind(r) = "copy" /\ Running(r) /\ k \in vault[r].made
    \/ Kind(r) = "copy" /\ Pc(r) = "undoBlobs" /\ vault[r].made # {} /\ k[2] \in Mine(r)
    \/ LiveCopy(r) /\ Pc(r) = "end" /\ Missed(r) /\ k[2] \in Mine(r)
BlobHeld(k) == (\E x \in FilePaths : HasKey(x, k)) \/ \E r \in ProtectedRequests : Keeps(r, k)
BlobsKept == \A k \in BlobKeys : blob[k] # Void /\ EndsOf(k[2]) \cap leaky = {} => BlobHeld(k)
LostInv == /\ \A r \in ProtectedRequests : DeleteLeaves(r)
           /\ \A r \in ProtectedRequests : CopyLeaves(r)
           /\ BlobsKept

VaultTypes == RequestsAre /\ StoreIs /\ LogIs
VaultInv == ReadsVerified /\ VaultTypes /\ MeetingsHurt /\ BothEnds /\ ApartInv /\ KeptFit /\ LostInv

-----------------------------------------------------------------------------
(* Paths                                                                    *)

LEMMA ThePaths ==
    ASSUME NEW p \in VaultPaths
    PROVE /\ p = <<p[1], p[2]>> /\ p[1] \in Vaults /\ p[2] \in Names \cup {Root}
          /\ Other(p) \in VaultPaths /\ Other(p)[2] = p[2] /\ Other(p) # p /\ Other(Other(p)) = p
          /\ IsFile(p) <=> p \in FilePaths
          /\ IsFile(Other(p)) <=> IsFile(p)
<1>1. PICK v \in Vaults : v # FirstVault /\ Vaults = {FirstVault, v}
    BY VaultAssumption
<1>2. \A a \in Vaults : (CHOOSE b \in Vaults : b # a) \in Vaults /\ (CHOOSE b \in Vaults : b # a) # a
    BY <1>1
<1>3. p = <<p[1], p[2]>> /\ p[1] \in Vaults /\ p[2] \in Names \cup {Root}
    BY DEF VaultPaths
<1>4. PICK a : a = CHOOSE b \in Vaults : b # p[1]
    OBVIOUS
<1>5. Other(p) = <<a, p[2]>> /\ a \in Vaults /\ a # p[1]
    BY <1>2, <1>3, <1>4 DEF Other
<1>6. Other(<<a, p[2]>>) = <<CHOOSE b \in Vaults : b # a, p[2]>>
    BY DEF Other
<1>7. (CHOOSE b \in Vaults : b # a) = p[1]
    BY <1>1, <1>2, <1>3, <1>5
<1> QED
    BY <1>3, <1>5, <1>6, <1>7, VaultAssumption DEF VaultPaths, FilePaths, IsFile

LEMMA FilesArePaths == FilePaths \subseteq VaultPaths
    BY DEF FilePaths, VaultPaths

LEMMA BelowPaths ==
    ASSUME NEW p \in VaultPaths
    PROVE /\ p \in Below(p) /\ Below(p) \subseteq VaultPaths
          /\ \A x \in Below(p) : /\ Other(x) \in Below(Other(p)) /\ Below(x) \subseteq Below(p)
                                 /\ x[1] = p[1] /\ (~IsFile(x) => x = p) /\ (IsFile(x) => Below(x) = {x})
          /\ IsFile(p) => Below(p) = {p}
<1>1. p = <<p[1], p[2]>> /\ p[1] \in Vaults /\ p[2] \in Names \cup {Root}
    BY ThePaths
<1>2. CASE p[2] # Root
  <2>1. Below(p) = {p} /\ Below(Other(p)) = {Other(p)} /\ IsFile(p)
      BY <1>2, ThePaths DEF Below, IsFile
  <2> QED
      BY <1>1, <2>1
<1>3. CASE p[2] = Root
  <2>1. Below(p) = {p[1]} \X (Names \cup {Root}) /\ ~IsFile(p)
      BY <1>3 DEF Below, IsFile
  <2>2. Below(Other(p)) = {Other(p)[1]} \X (Names \cup {Root})
      BY <1>3, ThePaths DEF Below
  <2>3. Below(p) \subseteq VaultPaths
      BY <1>1, <2>1 DEF VaultPaths
  <2>4. ASSUME NEW x \in Below(p)
        PROVE /\ Other(x) \in Below(Other(p)) /\ Below(x) \subseteq Below(p)
              /\ x[1] = p[1] /\ (~IsFile(x) => x = p) /\ (IsFile(x) => Below(x) = {x})
    <3>1. x = <<p[1], x[2]>> /\ x[2] \in Names \cup {Root} /\ x[1] = p[1]
        BY <2>1
    <3>2. Other(x) = <<CHOOSE b \in Vaults : b # p[1], x[2]>> /\ Other(p) = <<CHOOSE b \in Vaults : b # p[1], p[2]>>
        BY <3>1 DEF Other
    <3>3. Other(x) \in Below(Other(p))
        BY <2>2, <3>1, <3>2
    <3> QED
        BY <1>1, <1>3, <2>1, <3>1, <3>3 DEF Below, IsFile
  <2> QED
      BY <1>1, <1>3, <2>1, <2>3, <2>4
<1> QED
    BY <1>1, <1>2, <1>3

LEMMA ScopeIs ==
    ASSUME NEW p \in VaultPaths, NEW kind
    PROVE /\ p \in Scope(kind, p) /\ Below(p) \subseteq Scope(kind, p) /\ Scope(kind, p) \subseteq VaultPaths
          /\ \A x \in Scope(kind, p) : Below(x) \subseteq Scope(kind, p)
          /\ kind \in {"move", "copy"} => /\ \A x \in Scope(kind, p) : Other(x) \in Scope(kind, p)
                                          /\ Below(Other(p)) \subseteq Scope(kind, p)
                                          /\ Scope(kind, p) = Below(p) \cup Below(Other(p))
          /\ kind \notin {"move", "copy"} => Scope(kind, p) = Below(p)
<1>1. Other(p) \in VaultPaths /\ Other(Other(p)) = p
    BY ThePaths
<1>2. \A a \in {p, Other(p)} : /\ a \in Below(a) /\ Below(a) \subseteq VaultPaths
                               /\ \A x \in Below(a) : Other(x) \in Below(Other(a)) /\ Below(x) \subseteq Below(a)
    BY <1>1, BelowPaths
<1> QED
    BY <1>1, <1>2 DEF Scope

\* What a request works on.
LEMMA MineIs ==
    ASSUME RequestsAre, NEW r \in ProtectedRequests
    PROVE /\ PlaceOf(r) \in VaultPaths /\ PlaceOf(r) \in Mine(r) /\ Mine(r) \subseteq VaultPaths
          /\ Below(PlaceOf(r)) \subseteq Mine(r)
          /\ \A x \in Mine(r) : Below(x) \subseteq Mine(r)
          /\ Kind(r) \in {"move", "copy"} =>
               /\ \A x \in Mine(r) : Other(x) \in Mine(r)
               /\ Below(Other(PlaceOf(r))) \subseteq Mine(r)
               /\ Mine(r) = Below(PlaceOf(r)) \cup Below(Other(PlaceOf(r)))
          /\ Kind(r) \notin {"move", "copy"} => Mine(r) = Below(PlaceOf(r))
          /\ Kind(r) = "write" => Mine(r) = {PlaceOf(r)} /\ PlaceOf(r) \in FilePaths
<1>1. PlaceOf(r) \in VaultPaths /\ Mine(r) = Scope(Kind(r), PlaceOf(r))
    BY DEF RequestsAre, RequestIs, PlaceOf, Mine, Kind
<1>2. Kind(r) = "write" => PlaceOf(r) \in FilePaths /\ Below(PlaceOf(r)) = {PlaceOf(r)}
    BY <1>1, BelowPaths, ThePaths DEF RequestsAre, RequestIs, WriteIs, Kind, PlaceOf
<1>3. PICK p, kind : p = PlaceOf(r) /\ kind = Kind(r)
    OBVIOUS
<1>4. /\ p \in Scope(kind, p) /\ Below(p) \subseteq Scope(kind, p) /\ Scope(kind, p) \subseteq VaultPaths
      /\ \A x \in Scope(kind, p) : Below(x) \subseteq Scope(kind, p)
      /\ kind \in {"move", "copy"} => /\ \A x \in Scope(kind, p) : Other(x) \in Scope(kind, p)
                                      /\ Below(Other(p)) \subseteq Scope(kind, p)
                                      /\ Scope(kind, p) = Below(p) \cup Below(Other(p))
      /\ kind \notin {"move", "copy"} => Scope(kind, p) = Below(p)
    BY <1>1, <1>3, ScopeIs
<1> QED
    BY <1>1, <1>2, <1>3, <1>4

\* Both ends of a path are the ends of either.
LEMMA TheEnds ==
    ASSUME NEW x \in VaultPaths, NEW y \in EndsOf(x)
    PROVE y \in VaultPaths /\ EndsOf(y) = EndsOf(x) /\ x \in EndsOf(y)
    BY ThePaths DEF EndsOf

LEMMA FileRows ==
    ASSUME StoreIs, NEW x \in FilePaths, fileRow[x] # Void
    PROVE /\ fileRow[x].key \in BlobKeys /\ fileRow[x].meta \in Payload /\ HasKey(x, fileRow[x].key)
          /\ fileRow[x].key[2] \in EndsOf(x) /\ x \in EndsOf(fileRow[x].key[2])
          /\ fileRow[x] = [key |-> fileRow[x].key, meta |-> fileRow[x].meta]
<1>1. x \in VaultPaths
    BY FilesArePaths
<1>2. IsFile(x)
    BY <1>1, ThePaths
<1>3. RowIs(x, fileRow[x])
    BY <1>1 DEF StoreIs
<1>4. fileRow[x].key \in BlobKeys /\ fileRow[x].meta \in Payload /\ fileRow[x].key[2] \in EndsOf(x) /\ fileRow[x] \in VaultRow
  <2>1. PICK e : e = fileRow[x] /\ e # Void
      OBVIOUS
  <2>2. RowIs(x, e)
      BY <1>3, <2>1
  <2>3. e.key \in BlobKeys /\ e.meta \in Payload /\ e.key[2] \in EndsOf(x) /\ e \in VaultRow
      BY <1>2, <2>1, <2>2, Zenon DEF RowIs
  <2> QED
      BY <2>1, <2>3
<1>5. x \in EndsOf(fileRow[x].key[2])
    BY <1>1, <1>4, TheEnds
<1> QED
    BY <1>4, <1>5 DEF HasKey, VaultRow

\* What a copy plans lies below its target.
LEMMA PlansOf ==
    ASSUME RequestsAre, NEW r \in ProtectedRequests, Kind(r) = "copy"
    PROVE /\ CopyIs(r, vault[r]) /\ DOMAIN PlanOf(r) \subseteq Mine(r) /\ RowsMade(r) \subseteq DOMAIN PlanOf(r)
          /\ \A q \in DOMAIN PlanOf(r) : /\ Other(q) \in Below(PlaceOf(r)) /\ Other(q) \in Mine(r) /\ q \in VaultPaths
                                         /\ q \notin Below(PlaceOf(r)) /\ Below(q) \subseteq Mine(r)
          /\ PlannedFiles(r) \subseteq FilePaths
          /\ \A q \in PlannedFiles(r) : /\ PlanOf(r)[q].key = <<r, q>> /\ <<r, q>> \in BlobKeys
                                        /\ Row(PlanOf(r)[q]) = [key |-> <<r, q>>, meta |-> PlanOf(r)[q].meta]
                                        /\ PlanOf(r)[q].meta \in Payload
<1>1. CopyIs(r, vault[r]) /\ DOMAIN PlanOf(r) \subseteq Below(Other(PlaceOf(r))) /\ LeftOf(r) \subseteq DOMAIN PlanOf(r)
    BY DEF RequestsAre, RequestIs, Kind, CopyIs, PlanOf, PlaceOf, LeftOf
<1>2. /\ PlaceOf(r) \in VaultPaths /\ Below(Other(PlaceOf(r))) \subseteq Mine(r) /\ Below(PlaceOf(r)) \subseteq Mine(r)
      /\ Mine(r) \subseteq VaultPaths /\ \A x \in Mine(r) : Below(x) \subseteq Mine(r)
    BY MineIs
<1>3. Other(PlaceOf(r)) \in VaultPaths /\ Other(Other(PlaceOf(r))) = PlaceOf(r) /\ Other(PlaceOf(r)) # PlaceOf(r)
      /\ Other(PlaceOf(r))[2] = PlaceOf(r)[2]
    BY <1>2, ThePaths
<1>4. \A q \in DOMAIN PlanOf(r) : Other(q) \in Below(PlaceOf(r)) /\ q \in VaultPaths /\ q[1] = Other(PlaceOf(r))[1]
    BY <1>1, <1>3, BelowPaths
<1>5. \A q \in Below(PlaceOf(r)) : q[1] = PlaceOf(r)[1]
    BY <1>2, BelowPaths
<1>6. Other(PlaceOf(r))[1] # PlaceOf(r)[1]
    BY <1>2, <1>3, ThePaths
<1>7. RowsMade(r) \subseteq DOMAIN PlanOf(r)
    BY <1>1 DEF RowsMade
<1>8. PlannedFiles(r) \subseteq FilePaths
    BY <1>4, ThePaths DEF PlannedFiles
<1>9. ASSUME NEW q \in PlannedFiles(r)
      PROVE /\ PlanOf(r)[q].key = <<r, q>> /\ <<r, q>> \in BlobKeys /\ PlanOf(r)[q].meta \in Payload
            /\ Row(PlanOf(r)[q]) = [key |-> <<r, q>>, meta |-> PlanOf(r)[q].meta]
  <2>1. q \in DOMAIN PlanOf(r) /\ IsFile(q) /\ q \in FilePaths
      BY <1>8 DEF PlannedFiles
  <2>2. PlanOf(r)[q].key = NewKey(r, q) /\ PlanOf(r)[q].meta \in Payload
      BY <1>1, <2>1 DEF CopyIs, PlanOf
  <2> QED
      BY <2>1, <2>2 DEF NewKey, Row, BlobKeys
<1> QED
    BY <1>1, <1>2, <1>4, <1>5, <1>6, <1>7, <1>8, <1>9

LEMMA WritesOf ==
    ASSUME RequestsAre, NEW r \in ProtectedRequests, Kind(r) = "write"
    PROVE /\ WriteIs(vault[r]) /\ PlaceOf(r) \in FilePaths /\ Mine(r) = {PlaceOf(r)}
          /\ WriteKey(r) \in BlobKeys /\ WriteMeta(r) \in Payload /\ WriteKey(r)[2] \in EndsOf(PlaceOf(r))
          /\ PlanOf(r)[PlaceOf(r)] = [key |-> WriteKey(r), meta |-> WriteMeta(r)]
          /\ EndsOf(WriteKey(r)[2]) = EndsOf(PlaceOf(r)) /\ PlaceOf(r) \in EndsOf(WriteKey(r)[2])
<1>1. WriteIs(vault[r])
    BY DEF RequestsAre, RequestIs, Kind
<1>2. PlanOf(r)[PlaceOf(r)] \in [key : BlobKeys, meta : Payload] /\ WriteKey(r)[2] \in EndsOf(PlaceOf(r))
    BY <1>1 DEF WriteIs, PlanOf, PlaceOf, WriteKey
<1>3. PlaceOf(r) \in FilePaths /\ Mine(r) = {PlaceOf(r)}
    BY MineIs
<1>4. PlaceOf(r) \in VaultPaths
    BY <1>3, FilesArePaths
<1>5. EndsOf(WriteKey(r)[2]) = EndsOf(PlaceOf(r)) /\ PlaceOf(r) \in EndsOf(WriteKey(r)[2])
    BY <1>2, <1>4, TheEnds
<1> QED
    BY <1>1, <1>2, <1>3, <1>5 DEF WriteKey, WriteMeta

\* Who works on one path has met, if both change it.
LEMMA TheyMet ==
    ASSUME MeetingsHurt, NEW r \in ProtectedRequests, NEW s \in ProtectedRequests, r # s, Live(r), Live(s),
           Kind(r) # "read", Kind(s) # "read"
    PROVE Mine(r) \cap Mine(s) \subseteq hurt
<1>1. CASE InLog(s)
    BY <1>1 DEF MeetingsHurt
<1>2. CASE InLog(r)
    BY <1>2 DEF MeetingsHurt
<1>3. CASE Running(r) /\ Running(s)
    BY <1>3 DEF MeetingsHurt, Overlap
<1> QED
    BY <1>1, <1>2, <1>3 DEF Live

-----------------------------------------------------------------------------
(* The log                                                                  *)

LEMMA ListWithout ==
    ASSUME NEW S, NEW s \in Seq(S), NoTwice(s), NEW i \in DOMAIN s
    PROVE RemoveAt(s, i) \in Seq(S) /\ Range(RemoveAt(s, i)) = Range(s) \ {s[i]} /\ NoTwice(RemoveAt(s, i))
<1>1. i \in 1..Len(s) /\ Len(s) \in Nat /\ DOMAIN s = 1..Len(s)
    OBVIOUS
<1>2. PICK t : t = RemoveAt(s, i)
    OBVIOUS
<1>3. t = SubSeq(s, 1, i - 1) \o SubSeq(s, i + 1, Len(s))
    BY <1>2 DEF RemoveAt
<1>4. t \in Seq(S) /\ Len(t) = Len(s) - 1 /\ DOMAIN t = 1..(Len(s) - 1)
      /\ \A j \in 1..(Len(s) - 1) : t[j] = IF j < i THEN s[j] ELSE s[j + 1]
  <2>1. PICK before, after : before = SubSeq(s, 1, i - 1) /\ after = SubSeq(s, i + 1, Len(s))
      OBVIOUS
  <2>2. before \in Seq(S) /\ Len(before) = i - 1 /\ \A j \in 1..(i - 1) : before[j] = s[j]
      BY <1>1, <2>1
  <2>3. after \in Seq(S) /\ Len(after) = Len(s) - i /\ \A j \in 1..(Len(s) - i) : after[j] = s[i + j]
      BY <1>1, <2>1
  <2>4. t \in Seq(S) /\ Len(t) = Len(before) + Len(after)
        /\ \A j \in 1..Len(t) : t[j] = IF j <= Len(before) THEN before[j] ELSE after[j - Len(before)]
    <3>1. t = before \o after
        BY <1>3, <2>1
    <3>2. t \in Seq(S) /\ Len(t) = Len(before) + Len(after)
          /\ \A j \in 1..(Len(before) + Len(after)) : t[j] = IF j <= Len(before) THEN before[j] ELSE after[j - Len(before)]
        BY <2>2, <2>3, <3>1, ConcatProperties, Zenon
    <3> QED
        BY <3>2
  <2>5. Len(t) = Len(s) - 1
      BY <1>1, <2>2, <2>3, <2>4
  <2>6. ASSUME NEW j \in 1..(Len(s) - 1) PROVE t[j] = IF j < i THEN s[j] ELSE s[j + 1]
    <3>1. CASE j < i
        BY <1>1, <2>2, <2>4, <2>5, <3>1
    <3>2. CASE j >= i
      <4>1. t[j] = after[j - (i - 1)] /\ j - (i - 1) \in 1..(Len(s) - i)
          BY <1>1, <2>2, <2>4, <2>5, <3>2
      <4>2. i + (j - (i - 1)) = j + 1
          BY <1>1
      <4> QED
          BY <2>3, <3>2, <4>1, <4>2
    <3> QED
        BY <1>1, <3>1, <3>2
  <2> QED
      BY <2>4, <2>5, <2>6
<1>5. Range(t) \subseteq Range(s) \ {s[i]}
    BY <1>1, <1>4 DEF Range, NoTwice
<1>6. ASSUME NEW x \in Range(s), x # s[i] PROVE x \in Range(t)
  <2>1. PICK j \in 1..Len(s) : s[j] = x /\ j # i
      BY <1>1, <1>6 DEF Range
  <2>2. CASE j < i
      BY <1>1, <1>4, <2>1, <2>2 DEF Range
  <2>3. CASE j > i
    <3>1. j - 1 \in 1..(Len(s) - 1) /\ t[j - 1] = x
        BY <1>1, <1>4, <2>1, <2>3
    <3> QED
        BY <1>4, <3>1 DEF Range
  <2> QED
      BY <1>1, <2>1, <2>2, <2>3
<1>7. ASSUME NEW j \in DOMAIN t, NEW k \in DOMAIN t, t[j] = t[k] PROVE j = k
  <2>1. \A x, y \in DOMAIN s : s[x] = s[y] => x = y
      BY DEF NoTwice
  <2>2. j \in 1..(Len(s) - 1) /\ k \in 1..(Len(s) - 1)
      BY <1>4
  <2>3. PICK x \in 1..Len(s) : t[j] = s[x] /\ x = IF j < i THEN j ELSE j + 1
      BY <1>1, <1>4, <2>2
  <2>4. PICK y \in 1..Len(s) : t[k] = s[y] /\ y = IF k < i THEN k ELSE k + 1
      BY <1>1, <1>4, <2>2
  <2>5. x = y
      BY <1>1, <1>7, <2>1, <2>3, <2>4
  <2> QED
      BY <1>1, <2>2, <2>3, <2>4, <2>5
<1> QED
    BY <1>2, <1>4, <1>5, <1>6, <1>7 DEF NoTwice

LEMMA Closing ==
    ASSUME LogIs, NEW r \in ProtectedRequests, Close(r)
    PROVE openLog' \in Seq(ProtectedRequests) /\ Range(openLog') = Range(openLog) \ {r} /\ NoTwice(openLog')
<1>1. CASE r \notin Range(openLog)
    BY <1>1 DEF Close, LogIs
<1>2. CASE r \in Range(openLog)
  <2>1. PICK i : i = CHOOSE j \in DOMAIN openLog : openLog[j] = r
      OBVIOUS
  <2>2. i \in DOMAIN openLog /\ openLog[i] = r /\ openLog' = RemoveAt(openLog, i)
      BY <1>2, <2>1 DEF Close, Range
  <2> QED
      BY <2>2, ListWithout DEF LogIs
<1> QED
    BY <1>1, <1>2

LEMMA Opening ==
    ASSUME LogIs, NEW r \in ProtectedRequests, r \notin Range(openLog), openLog' = Append(openLog, r)
    PROVE openLog' \in Seq(ProtectedRequests) /\ Range(openLog') = Range(openLog) \cup {r} /\ NoTwice(openLog')
<1>1. openLog \in Seq(ProtectedRequests) /\ Len(openLog) \in Nat /\ DOMAIN openLog = 1..Len(openLog)
    BY DEF LogIs
<1>2. /\ openLog' \in Seq(ProtectedRequests) /\ DOMAIN openLog' = 1..(Len(openLog) + 1)
      /\ openLog'[Len(openLog) + 1] = r /\ \A i \in 1..Len(openLog) : openLog'[i] = openLog[i]
    BY <1>1
<1>3. Range(openLog') = Range(openLog) \cup {r}
  <2>1. Range(openLog') \subseteq Range(openLog) \cup {r}
      BY <1>1, <1>2 DEF Range
  <2>2. Range(openLog) \subseteq Range(openLog')
      BY <1>1, <1>2 DEF Range
  <2>3. r \in Range(openLog')
      BY <1>1, <1>2 DEF Range
  <2> QED
      BY <2>1, <2>2, <2>3
<1>4. NoTwice(openLog')
    BY <1>1, <1>2 DEF NoTwice, LogIs, Range
<1> QED
    BY <1>2, <1>3, <1>4

LEMMA NextToDo ==
    ASSUME LogIs, todo # <<>>, todo' = Tail(todo)
    PROVE /\ Head(todo) \in Range(todo) /\ Head(todo) \in ProtectedRequests /\ InLog(Head(todo))
          /\ todo' \in Seq(ProtectedRequests) /\ Range(todo') = Range(todo) \ {Head(todo)} /\ NoTwice(todo')
<1>1. todo \in Seq(ProtectedRequests) /\ Len(todo) \in Nat /\ Len(todo) # 0 /\ DOMAIN todo = 1..Len(todo) /\ Head(todo) = todo[1]
    BY DEF LogIs
<1>2. /\ todo' \in Seq(ProtectedRequests) /\ DOMAIN todo' = 1..(Len(todo) - 1)
      /\ \A i \in 1..(Len(todo) - 1) : todo'[i] = todo[i + 1]
    BY <1>1
<1>3. Range(todo') \subseteq Range(todo) \ {Head(todo)}
    BY <1>1, <1>2 DEF LogIs, NoTwice, Range
<1>4. ASSUME NEW x \in Range(todo), x # Head(todo) PROVE x \in Range(todo')
  <2>1. PICK j \in 1..Len(todo) : todo[j] = x /\ j # 1
      BY <1>1, <1>4 DEF Range
  <2>2. j - 1 \in 1..(Len(todo) - 1) /\ todo'[j - 1] = x
      BY <1>1, <1>2, <2>1
  <2> QED
      BY <1>2, <2>2 DEF Range
<1>5. NoTwice(todo')
    BY <1>1, <1>2 DEF NoTwice, LogIs
<1>6. Head(todo) \in Range(todo) /\ Head(todo) \in ProtectedRequests
    BY <1>1 DEF Range
<1> QED
    BY <1>2, <1>3, <1>4, <1>5, <1>6 DEF LogIs, InLog

-----------------------------------------------------------------------------
(* What a step of one request leaves alone                                  *)

\* A step of one request or of its recovery.
StepOf(r) ==
    /\ \A s \in ProtectedRequests :
        /\ Kind(s)' = Kind(s) /\ PlaceOf(s)' = PlaceOf(s) /\ PlanOf(s)' = PlanOf(s)
        /\ (Running(s)' => Running(s)) /\ (InLog(s)' => InLog(s)) /\ (Pc(s)' = "new" => Pc(s) = "new")
    /\ \A s \in ProtectedRequests \ {r} :
        vault'[s] = vault[s] /\ (InLog(s)' <=> InLog(s)) /\ (s \in Range(todo') <=> s \in Range(todo))
    /\ hurt \subseteq hurt' /\ leaky \subseteq leaky'
\* The paths it may change.
Works(r) == IF Kind(r) = "read" \/ ~Live(r) THEN {} ELSE Mine(r)
\* A blob that no other request or row relies on.
Owns(r, k) ==
    /\ \A s \in ProtectedRequests : s # r /\ LiveWrite(s) /\ WriteKey(s) = k => PlaceOf(s) \in hurt
    /\ \A s \in ProtectedRequests : s # r /\ LiveCopy(s) => \A q \in PlannedFiles(s) : <<s, q>> = k => q \in hurt
    /\ \A x \in FilePaths : HasKey(x, k) => x \in Works(r) \cup hurt

LEMMA AllSame ==
    ASSUME NEW r \in ProtectedRequests, StepOf(r), NEW s \in ProtectedRequests
    PROVE /\ Mine(s)' = Mine(s) /\ PlannedFiles(s)' = PlannedFiles(s)
          /\ WriteKey(s)' = WriteKey(s) /\ WriteMeta(s)' = WriteMeta(s)
          /\ Live(s)' => Live(s)
          /\ LiveWrite(s)' => LiveWrite(s)
          /\ LiveCopy(s)' => LiveCopy(s)
          /\ LiveDelete(s)' => LiveDelete(s)
<1>1. /\ Kind(s)' = Kind(s) /\ PlaceOf(s)' = PlaceOf(s) /\ PlanOf(s)' = PlanOf(s)
      /\ (Running(s)' => Running(s)) /\ (InLog(s)' => InLog(s))
    BY DEF StepOf
<1>2. Mine(s)' = Mine(s)
    BY <1>1 DEF Kind, PlaceOf, Mine
<1>3. PlannedFiles(s)' = PlannedFiles(s) /\ WriteKey(s)' = WriteKey(s) /\ WriteMeta(s)' = WriteMeta(s)
    BY <1>1 DEF PlannedFiles, WriteKey, WriteMeta
<1> QED
    BY <1>1, <1>2, <1>3 DEF Live, LiveWrite, LiveCopy, LiveDelete

LEMMA OthersSame ==
    ASSUME NEW r \in ProtectedRequests, StepOf(r), NEW s \in ProtectedRequests \ {r}
    PROVE /\ Kind(s)' = Kind(s) /\ Pc(s)' = Pc(s) /\ PlaceOf(s)' = PlaceOf(s) /\ PlanOf(s)' = PlanOf(s)
          /\ LeftOf(s)' = LeftOf(s) /\ vault'[s].made = vault[s].made /\ RowsMade(s)' = RowsMade(s)
          /\ Running(s)' <=> Running(s)
          /\ Live(s)' <=> Live(s)
          /\ LiveWrite(s)' <=> LiveWrite(s)
          /\ LiveCopy(s)' <=> LiveCopy(s)
          /\ LiveDelete(s)' <=> LiveDelete(s)
<1>1. vault'[s] = vault[s] /\ (InLog(s)' <=> InLog(s)) /\ (s \in Range(todo') <=> s \in Range(todo))
    BY DEF StepOf
<1>2. /\ Kind(s)' = Kind(s) /\ Pc(s)' = Pc(s) /\ PlaceOf(s)' = PlaceOf(s) /\ PlanOf(s)' = PlanOf(s)
      /\ LeftOf(s)' = LeftOf(s) /\ vault'[s].made = vault[s].made /\ (Running(s)' <=> Running(s))
    BY <1>1 DEF Kind, Pc, PlaceOf, PlanOf, LeftOf, Running
<1>3. RowsMade(s)' = RowsMade(s)
    BY <1>1, <1>2 DEF RowsMade
<1> QED
    BY <1>1, <1>2, <1>3 DEF Live, LiveWrite, LiveCopy, LiveDelete

LEMMA StepsMeet ==
    ASSUME MeetingsHurt, NEW r \in ProtectedRequests, StepOf(r)
    PROVE MeetingsHurt'
<1> SUFFICES ASSUME NEW s \in ProtectedRequests, NEW t \in ProtectedRequests, s # t
             PROVE /\ Running(s)' /\ Running(t)' /\ Overlap(s, t)' => Mine(s)' \subseteq hurt'
                   /\ Live(s)' /\ Kind(s)' # "read" /\ InLog(t)' => Mine(s)' \cap Mine(t)' \subseteq hurt'
    BY DEF MeetingsHurt
<1>1. /\ Mine(s)' = Mine(s) /\ Mine(t)' = Mine(t) /\ Kind(s)' = Kind(s) /\ Kind(t)' = Kind(t) /\ hurt \subseteq hurt'
      /\ (Live(s)' => Live(s)) /\ (InLog(t)' => InLog(t)) /\ (Running(s)' => Running(s)) /\ (Running(t)' => Running(t))
    BY AllSame DEF StepOf
<1> QED
    BY <1>1 DEF MeetingsHurt, Overlap

LEMMA StepsReachBothEnds ==
    ASSUME RequestsAre, MeetingsHurt, BothEnds, NEW r \in ProtectedRequests, StepOf(r), hurt' \subseteq hurt \cup Works(r),
           hurt' = hurt \/ Running(r),
           \/ hurt' = hurt \/ ~Running(r)' \/ Kind(r) \notin {"move", "copy"}
           \/ Kind(r) = "copy" /\ hurt' \cap Below(PlaceOf(r)) \subseteq hurt
    PROVE BothEnds'
<1> SUFFICES ASSUME NEW s \in ProtectedRequests, Running(s)'
             PROVE /\ Kind(s)' = "move" => \A x \in Mine(s)' \cap hurt' : Other(x) \in hurt'
                   /\ Kind(s)' = "copy" => \A x \in Below(PlaceOf(s)') \cap hurt' : Other(x) \in hurt'
    BY DEF BothEnds, Below, Other
<1>1. Mine(s)' = Mine(s) /\ PlaceOf(s)' = PlaceOf(s) /\ Kind(s)' = Kind(s) /\ Running(s) /\ hurt \subseteq hurt'
    BY AllSame DEF StepOf
<1>2. CASE hurt' = hurt
    BY <1>1, <1>2 DEF BothEnds
<1>3. CASE s # r /\ hurt' # hurt
  <2>1. ASSUME Kind(s) \in {"move", "copy"}, NEW x \in Mine(s), x \in hurt', x \notin hurt PROVE Other(x) \in hurt'
    <3>1. x \in Mine(r) /\ Kind(r) # "read" /\ Running(r)
        BY <1>3, <2>1 DEF Works
    <3>2. Mine(s) \subseteq hurt
        BY <1>1, <1>3, <2>1, <3>1 DEF MeetingsHurt, Overlap
    <3> QED
        BY <2>1, <3>2
  <2> QED
      BY <1>1, <2>1, MineIs DEF BothEnds
<1>4. CASE s = r /\ hurt' # hurt
    BY <1>1, <1>4 DEF BothEnds
<1> QED
    BY <1>2, <1>3, <1>4

\* A row that comes shares its blob with none, unless they met.
Comes(x, k) ==
    /\ \A y \in FilePaths : y # x /\ HasKey(y, k)' => {x, y} \subseteq hurt'
    /\ \A s \in ProtectedRequests : LiveWrite(s)' /\ WriteKey(s) = k /\ PlaceOf(s) # x => {x, PlaceOf(s)} \subseteq hurt'
    /\ \A s \in ProtectedRequests : LiveCopy(s)' => \A q \in PlannedFiles(s) :
           <<s, q>> = k /\ (x # q \/ q \notin RowsMade(s)') => x \in hurt' /\ Mine(s) \subseteq hurt'
    /\ \A s \in ProtectedRequests : Running(s)' /\ Kind(s) = "delete" /\ k \in LeftOf(s)' => x \in Mine(s) \cup hurt'
    /\ \A s \in ProtectedRequests : Pc(s)' = "new" => k[1] # s

LEMMA RowsComeApart ==
    ASSUME ApartInv, NEW r \in ProtectedRequests, StepOf(r), RequestsAre,
           \A x \in FilePaths, k \in BlobKeys : HasKey(x, k)' => HasKey(x, k) \/ Comes(x, k),
           \A x \in FilePaths : fileRow'[x] # Void => fileRow'[x].key \in BlobKeys,
           LeftOf(r)' \subseteq LeftOf(r) \/ Kind(r) # "delete",
           LiveCopy(r)' => \A q \in PlannedFiles(r) : q \in RowsMade(r) /\ q \notin RowsMade(r)' => ~HasKey(q, <<r, q>>)',
           \A k \in BlobKeys : blob'[k] = blob[k] \/ \A s \in ProtectedRequests : Pc(s) = "new" => k[1] # s
    PROVE ApartInv'
<1>0. hurt \subseteq hurt' /\ \A s \in ProtectedRequests : Kind(s)' = Kind(s) /\ PlaceOf(s)' = PlaceOf(s)
      /\ (Running(s)' => Running(s)) /\ (Pc(s)' = "new" => Pc(s) = "new")
    BY DEF StepOf
<1>1. \A s \in ProtectedRequests :
        /\ Mine(s)' = Mine(s) /\ PlannedFiles(s)' = PlannedFiles(s) /\ WriteKey(s)' = WriteKey(s)
        /\ (LiveWrite(s)' => LiveWrite(s)) /\ (LiveCopy(s)' => LiveCopy(s))
    BY AllSame
<1>2. \A s \in ProtectedRequests : Kind(s) = "delete" => LeftOf(s)' \subseteq LeftOf(s)
    BY OthersSame
<1>3. \A s \in ProtectedRequests : LiveWrite(s) => WriteKey(s) \in BlobKeys
    BY WritesOf DEF LiveWrite
<1>4. \A s \in ProtectedRequests : LiveCopy(s) => \A q \in PlannedFiles(s) : <<s, q>> \in BlobKeys
    BY PlansOf DEF LiveCopy
<1>5. RowsApart'
  <2> SUFFICES ASSUME NEW x \in FilePaths, NEW y \in FilePaths, x # y, fileRow'[x] # Void, HasKey(y, fileRow[x].key)'
               PROVE x \in hurt'
      BY DEF RowsApart
  <2>1. PICK k \in BlobKeys : k = fileRow'[x].key
      OBVIOUS
  <2>2. HasKey(x, k)' /\ HasKey(y, k)'
      BY <2>1 DEF HasKey
  <2>3. CASE HasKey(x, k) /\ HasKey(y, k)
      BY <1>0, <2>3 DEF RowsApart, ApartInv, HasKey
  <2>4. CASE Comes(x, k) \/ Comes(y, k)
      BY <2>2, <2>4 DEF Comes
  <2> QED
      BY <2>2, <2>3, <2>4
<1>6. ASSUME NEW s \in ProtectedRequests PROVE WriteApart(s)'
  <2> SUFFICES ASSUME LiveWrite(s)' PROVE WriteApart(s)'
      BY DEF WriteApart
  <2>1. WriteApart(s) /\ LiveWrite(s) /\ WriteKey(s) \in BlobKeys
      BY <1>1, <1>3 DEF ApartInv, WritesApart
  <2>2. ASSUME NEW y \in FilePaths, y # PlaceOf(s), HasKey(y, WriteKey(s))' PROVE {y, PlaceOf(s)} \subseteq hurt'
    <3>1. PICK k \in BlobKeys : k = WriteKey(s) /\ HasKey(y, k)'
        BY <1>1, <2>1, <2>2 DEF HasKey
    <3>2. CASE HasKey(y, k)
        BY <1>0, <2>1, <2>2, <3>1, <3>2 DEF WriteApart
    <3>3. CASE Comes(y, k)
        BY <2>2, <3>1, <3>3 DEF Comes
    <3> QED
        BY <3>1, <3>2, <3>3
  <2> QED
      BY <1>0, <1>1, <2>1, <2>2 DEF WriteApart
<1>7. ASSUME NEW s \in ProtectedRequests PROVE CopyApart(s)'
  <2> SUFFICES ASSUME LiveCopy(s)', NEW q \in PlannedFiles(s), NEW y \in FilePaths, HasKey(y, <<s, q>>)',
                      y # q \/ q \notin RowsMade(s)'
               PROVE y \in hurt' /\ Mine(s) \subseteq hurt'
      BY <1>1 DEF CopyApart
  <2>1. CopyApart(s) /\ LiveCopy(s) /\ <<s, q>> \in BlobKeys
      BY <1>1, <1>4 DEF ApartInv, CopiesApart
  <2>2. CASE HasKey(y, <<s, q>>)
    <3>1. y # q \/ q \notin RowsMade(s)
        BY OthersSame
    <3> QED
        BY <1>0, <2>1, <2>2, <3>1 DEF CopyApart
  <2>3. CASE Comes(y, <<s, q>>)
      BY <2>3 DEF Comes
  <2> QED
      BY <2>1, <2>2, <2>3
<1>8. ASSUME NEW s \in ProtectedRequests PROVE DeleteApart(s)'
  <2> SUFFICES ASSUME Running(s)', Kind(s) = "delete" PROVE DeleteApart(s)'
      BY <1>0 DEF DeleteApart
  <2>1. DeleteApart(s) /\ Running(s) /\ LeftOf(s)' \subseteq LeftOf(s)
      BY <1>0, <1>2 DEF ApartInv, DeletesApart
  <2>2. ASSUME NEW x \in FilePaths, fileRow'[x] # Void, fileRow'[x].key \in LeftOf(s)' PROVE x \in Mine(s)' \cup hurt'
    <3>1. PICK k \in BlobKeys : k = fileRow'[x].key /\ HasKey(x, k)'
        BY <2>2 DEF HasKey
    <3>2. CASE HasKey(x, k)
        BY <1>0, <1>1, <2>1, <2>2, <3>1, <3>2 DEF DeleteApart, HasKey
    <3>3. CASE Comes(x, k)
        BY <1>1, <2>2, <3>1, <3>3 DEF Comes
    <3> QED
        BY <3>1, <3>2, <3>3
  <2>3. \A t \in ProtectedRequests : LiveWrite(t)' /\ WriteKey(t)' \in LeftOf(s)' => PlaceOf(t)' \in hurt'
      BY <1>0, <1>1, <2>1 DEF DeleteApart
  <2>4. \A t \in ProtectedRequests : LiveCopy(t)' => \A q \in PlannedFiles(t)' : <<t, q>> \in LeftOf(s)' => q \in hurt'
      BY <1>0, <1>1, <2>1 DEF DeleteApart
  <2> QED
      BY <2>2, <2>3, <2>4 DEF DeleteApart
<1>9. NewKeys'
  <2> SUFFICES ASSUME NEW s \in ProtectedRequests, NEW k \in BlobKeys, Pc(s)' = "new", k[1] = s
               PROVE /\ blob'[k] = Void /\ \A x \in FilePaths : ~HasKey(x, k)'
                     /\ \A t \in ProtectedRequests : /\ LiveWrite(t)' => WriteKey(t)' # k
                                                     /\ Running(t)' /\ Kind(t)' = "delete" => k \notin LeftOf(t)'
      BY DEF NewKeys
  <2>1. Pc(s) = "new" /\ blob'[k] = blob[k]
      BY <1>0
  <2>2. /\ blob[k] = Void /\ \A x \in FilePaths : ~HasKey(x, k)
        /\ \A t \in ProtectedRequests : /\ LiveWrite(t) => WriteKey(t) # k
                                        /\ Running(t) /\ Kind(t) = "delete" => k \notin LeftOf(t)
      BY <2>1 DEF ApartInv, NewKeys
  <2>3. \A x \in FilePaths : ~HasKey(x, k)'
      BY <2>2 DEF Comes
  <2> QED
      BY <1>0, <1>1, <1>2, <2>1, <2>2, <2>3
<1> QED
    BY <1>5, <1>6, <1>7, <1>8, <1>9 DEF ApartInv, WritesApart, CopiesApart, DeletesApart

\* What a step may change of rows and blobs without touching others.
Touches(r) ==
    /\ \A x \in FilePaths : fileRow'[x] = fileRow[x] \/ x \in Works(r)
    /\ \A x \in VaultPaths : fileRow'[x] = fileRow[x] \/ x \in Works(r)
    /\ \A k \in BlobKeys : blob'[k] = blob[k] \/ Owns(r, k)
    /\ \A s \in ProtectedRequests : s # r /\ LiveCopy(s) => \A q \in PlannedFiles(s) :
           blob'[<<s, q>>] \in {blob[<<s, q>>], Void} \/ Mine(s) \subseteq hurt

\* Who else is under way keeps what fits.
LEMMA OthersFit ==
    ASSUME VaultTypes, MeetingsHurt, ApartInv, KeptFit, NEW r \in ProtectedRequests, StepOf(r), Touches(r)
    PROVE /\ \A s \in ProtectedRequests \ {r} : WriteFits(s)' /\ CopyFits(s)'
          /\ \A x \in FilePaths : x \notin Works(r) => RowFits(x)'
<1>0. hurt \subseteq hurt' /\ RequestsAre /\ StoreIs
    BY DEF StepOf, VaultTypes
<1>1. ASSUME NEW s \in ProtectedRequests \ {r}
      PROVE /\ Kind(s)' = Kind(s) /\ Pc(s)' = Pc(s) /\ PlaceOf(s)' = PlaceOf(s) /\ PlanOf(s)' = PlanOf(s)
            /\ LeftOf(s)' = LeftOf(s) /\ RowsMade(s)' = RowsMade(s) /\ PlannedFiles(s)' = PlannedFiles(s)
            /\ WriteKey(s)' = WriteKey(s) /\ WriteMeta(s)' = WriteMeta(s) /\ Mine(s)' = Mine(s)
            /\ Running(s)' <=> Running(s)
            /\ LiveWrite(s)' <=> LiveWrite(s)
            /\ LiveCopy(s)' <=> LiveCopy(s)
            /\ LiveDelete(s)' <=> LiveDelete(s)
    BY OthersSame, AllSame
\* A path of another's work that this one works on has been met.
<1>2. ASSUME NEW s \in ProtectedRequests \ {r}, Live(s), Kind(s) # "read", NEW x \in Mine(s), x \notin hurt
      PROVE x \notin Works(r)
    BY <1>2, TheyMet DEF Works
<1>3. ASSUME NEW s \in ProtectedRequests \ {r} PROVE WriteFits(s)'
  <2> SUFFICES ASSUME LiveWrite(s)', PlaceOf(s)' \notin hurt' PROVE WriteFits(s)'
      BY DEF WriteFits
  <2>1. LiveWrite(s) /\ PlaceOf(s) \notin hurt /\ PlaceOf(s) \in FilePaths /\ WriteKey(s) \in BlobKeys /\ Mine(s) = {PlaceOf(s)}
      BY <1>0, <1>1, WritesOf DEF LiveWrite
  <2>2. fileRow'[PlaceOf(s)] = fileRow[PlaceOf(s)]
    <3>1. PlaceOf(s) \notin Works(r)
        BY <1>2, <2>1 DEF LiveWrite
    <3> QED
        BY <2>1, <3>1 DEF Touches
  <2>3. blob'[WriteKey(s)] = blob[WriteKey(s)]
      BY <2>1 DEF Touches, Owns
  <2>4. WriteFits(s)
      BY DEF KeptFit
  <2> QED
      BY <1>1, <2>1, <2>2, <2>3, <2>4 DEF WriteFits
<1>4. ASSUME NEW s \in ProtectedRequests \ {r} PROVE CopyFits(s)'
  <2> SUFFICES ASSUME LiveCopy(s)', NEW q \in PlannedFiles(s)
               PROVE /\ Pc(s)' = "copy" /\ Other(q) \notin hurt' =>
                          HasKey(Other(q), PlanOf(s)[q].src)' /\ blob'[PlanOf(s)[q].src] = PlanOf(s)[q].meta
                     /\ q \notin hurt' => blob'[<<s, q>>] \in {Void, PlanOf(s)[q].meta}
                     /\ q \notin hurt' /\ (Pc(s)' = "rows" \/ (Pc(s)' = "copy" /\ q \notin LeftOf(s)')) =>
                          blob'[<<s, q>>] = PlanOf(s)[q].meta
      BY <1>1 DEF CopyFits
  <2>1. LiveCopy(s) /\ CopyFits(s) /\ Live(s) /\ Kind(s) = "copy"
      BY <1>1 DEF KeptFit, LiveCopy
  <2>2. q \in FilePaths /\ <<s, q>> \in BlobKeys /\ Other(q) \in Mine(s) /\ Other(q) \in FilePaths /\ PlanOf(s)[q].src \in BlobKeys
    <3>1. q \in DOMAIN PlanOf(s) /\ IsFile(q)
        BY DEF PlannedFiles
    <3>2. q \in FilePaths /\ <<s, q>> \in BlobKeys /\ Other(q) \in Mine(s) /\ CopyIs(s, vault[s]) /\ q \in VaultPaths
        BY <1>0, <2>1, <3>1, PlansOf
    <3> QED
        BY <3>1, <3>2, ThePaths DEF CopyIs, PlanOf
  <2>3. q \notin hurt => blob'[<<s, q>>] = blob[<<s, q>>]
      BY <2>1, <2>2 DEF Touches, Owns
  <2>4. ASSUME Pc(s)' = "copy", Other(q) \notin hurt'
        PROVE HasKey(Other(q), PlanOf(s)[q].src)' /\ blob'[PlanOf(s)[q].src] = PlanOf(s)[q].meta
    <3>1. HasKey(Other(q), PlanOf(s)[q].src) /\ blob[PlanOf(s)[q].src] = PlanOf(s)[q].meta /\ Other(q) \notin hurt
        BY <1>0, <1>1, <2>1, <2>4 DEF CopyFits
    <3>2. Other(q) \notin Works(r)
        BY <1>2, <2>1, <2>2, <3>1
    <3>3. fileRow'[Other(q)] = fileRow[Other(q)]
        BY <2>2, <3>2 DEF Touches
    <3>4. blob'[PlanOf(s)[q].src] = blob[PlanOf(s)[q].src]
        BY <2>2, <3>1, <3>2 DEF Touches, Owns
    <3> QED
        BY <1>1, <3>1, <3>3, <3>4 DEF HasKey
  <2> QED
      BY <1>0, <1>1, <2>1, <2>3, <2>4 DEF CopyFits
<1>5. ASSUME NEW x \in FilePaths, x \notin Works(r) PROVE RowFits(x)'
  <2> SUFFICES ASSUME x \notin hurt', fileRow'[x] # Void PROVE RowFits(x)'
      BY DEF RowFits
  <2>1. fileRow'[x] = fileRow[x] /\ x \notin hurt /\ RowFits(x)
      BY <1>0, <1>5 DEF Touches, KeptFit
  <2>2. fileRow[x].key \in BlobKeys
      BY <1>0, <2>1, FileRows
  <2>3. blob'[fileRow[x].key] = blob[fileRow[x].key]
      BY <1>5, <2>1, <2>2 DEF Touches, Owns, HasKey
  <2>4. CASE blob[fileRow[x].key] = fileRow[x].meta
      BY <2>1, <2>3, <2>4 DEF RowFits
  <2>5. ASSUME NEW s \in ProtectedRequests, Kind(s) = "write", Pc(s) = "row", PlaceOf(s) = x PROVE RowFits(x)'
    <3>1. s # r
        BY <1>0, <1>5, <2>5, WritesOf DEF Works, Live, Running, Pc
    <3> QED
        BY <1>1, <2>5, <3>1 DEF RowFits
  <2>6. ASSUME NEW s \in ProtectedRequests, LiveDelete(s), x \in Mine(s) PROVE RowFits(x)'
    <3>1. s # r
        BY <1>5, <2>6 DEF Works, LiveDelete
    <3> QED
        BY <1>1, <2>6, <3>1 DEF RowFits
  <2> QED
      BY <2>1, <2>4, <2>5, <2>6 DEF RowFits
<1> QED
    BY <1>3, <1>4, <1>5

\* Nor is a blob of theirs lost.
LEMMA OthersLeave ==
    ASSUME VaultTypes, MeetingsHurt, ApartInv, LostInv, NEW r \in ProtectedRequests, StepOf(r), Touches(r)
    PROVE /\ \A s \in ProtectedRequests \ {r} : DeleteLeaves(s)' /\ CopyLeaves(s)'
          /\ \A s \in ProtectedRequests \ {r}, k \in BlobKeys : Keeps(s, k) /\ k[2] \notin leaky' => Keeps(s, k)'
<1>0. hurt \subseteq hurt' /\ leaky \subseteq leaky' /\ hurt \subseteq leaky /\ RequestsAre /\ StoreIs
    BY DEF StepOf, VaultTypes, StoreIs
<1>1. ASSUME NEW s \in ProtectedRequests \ {r}
      PROVE /\ Kind(s)' = Kind(s) /\ Pc(s)' = Pc(s) /\ PlaceOf(s)' = PlaceOf(s) /\ PlanOf(s)' = PlanOf(s)
            /\ LeftOf(s)' = LeftOf(s) /\ RowsMade(s)' = RowsMade(s) /\ PlannedFiles(s)' = PlannedFiles(s)
            /\ WriteKey(s)' = WriteKey(s) /\ Mine(s)' = Mine(s) /\ vault'[s].made = vault[s].made
            /\ Running(s)' <=> Running(s)
            /\ LiveWrite(s)' <=> LiveWrite(s)
            /\ LiveCopy(s)' <=> LiveCopy(s)
            /\ LiveDelete(s)' <=> LiveDelete(s)
    BY OthersSame, AllSame
<1>2. ASSUME NEW s \in ProtectedRequests \ {r}, Live(s), Kind(s) # "read", NEW x \in Mine(s), x \notin hurt
      PROVE x \notin Works(r)
    BY <1>2, TheyMet DEF Works
<1>3. ASSUME NEW s \in ProtectedRequests \ {r} PROVE DeleteLeaves(s)'
  <2> SUFFICES ASSUME LiveDelete(s)', NEW x \in FilePaths, x \in Mine(s), x \notin leaky', fileRow'[x] # Void
               PROVE (Running(s) /\ fileRow'[x].key \in LeftOf(s)) \/ blob'[fileRow'[x].key] = Void
      BY <1>1 DEF DeleteLeaves
  <2>1. x \notin hurt /\ x \notin leaky /\ LiveDelete(s) /\ x \notin Works(r)
      BY <1>0, <1>1, <1>2 DEF LiveDelete
  <2>2. fileRow'[x] = fileRow[x]
      BY <2>1 DEF Touches
  <2>3. fileRow[x].key \in BlobKeys
      BY <1>0, <2>2, FileRows
  <2>4. blob'[fileRow[x].key] = blob[fileRow[x].key]
      BY <2>1, <2>2, <2>3 DEF Touches, Owns, HasKey
  <2>5. DeleteLeaves(s)
      BY DEF LostInv
  <2> QED
      BY <2>1, <2>2, <2>4, <2>5 DEF DeleteLeaves
<1>4. ASSUME NEW s \in ProtectedRequests \ {r}, LiveCopy(s)
      PROVE /\ ~(Mine(s) \subseteq hurt) => \A q \in PlannedFiles(s) : blob'[<<s, q>>] \in {blob[<<s, q>>], Void}
            /\ Missed(s) => Mine(s) \subseteq hurt \/ Missed(s)'
  <2>1. ~(Mine(s) \subseteq hurt) => \A q \in PlannedFiles(s) : blob'[<<s, q>>] \in {blob[<<s, q>>], Void}
      BY <1>4 DEF Touches
  <2> QED
      BY <1>1, <2>1 DEF Missed
<1>5. ASSUME NEW s \in ProtectedRequests \ {r} PROVE CopyLeaves(s)'
  <2> SUFFICES ASSUME LiveCopy(s)' PROVE CopyLeaves(s)'
      BY DEF CopyLeaves
  <2>1. LiveCopy(s) /\ CopyLeaves(s) /\ Kind(s) = "copy" /\ Live(s)
      BY <1>1 DEF LostInv, LiveCopy
  <2>2. Pc(s)' = "end" => Mine(s)' \subseteq leaky' \/ PlannedFiles(s)' = {} \/ Missed(s)'
      BY <1>0, <1>1, <1>4, <2>1 DEF CopyLeaves
  <2>3. ASSUME Running(s)', NEW q \in RowsMade(s)', q \notin hurt' PROVE fileRow'[q] = Row(PlanOf(s)[q])
    <3>1. q \in RowsMade(s) /\ q \notin hurt /\ fileRow[q] = Row(PlanOf(s)[q]) /\ q \in DOMAIN PlanOf(s)
        BY <1>0, <1>1, <2>1, <2>3, PlansOf DEF CopyLeaves
    <3>2. q \in Mine(s) /\ q \in VaultPaths
        BY <1>0, <2>1, <3>1, PlansOf
    <3>3. q \notin Works(r)
        BY <1>2, <2>1, <3>1, <3>2
    <3> QED
        BY <3>1, <3>2, <3>3 DEF Touches
  <2>4. ASSUME Running(s)', NEW q \in PlannedFiles(s)', <<s, q>> \notin vault'[s].made
        PROVE blob'[<<s, q>>] = Void \/ Mine(s)' \subseteq hurt'
      BY <1>0, <1>1, <1>4, <2>1, <2>4 DEF CopyLeaves
  <2> QED
      BY <1>1, <2>2, <2>3, <2>4 DEF CopyLeaves, Row
<1>6. ASSUME NEW s \in ProtectedRequests \ {r}, NEW k \in BlobKeys, Keeps(s, k), k[2] \notin leaky' PROVE Keeps(s, k)'
  <2>1. CASE LiveCopy(s) /\ Pc(s) = "end" /\ Missed(s) /\ k[2] \in Mine(s)
    <3>1. ~(Mine(s) \subseteq hurt)
        BY <1>0, <1>6, <2>1
    <3> QED
        BY <1>1, <1>4, <2>1, <3>1 DEF Keeps
  <2>2. CASE LiveWrite(s) /\ WriteKey(s) = k
      BY <1>1, <2>2 DEF Keeps
  <2>3. CASE Kind(s) = "copy" /\ Running(s) /\ k \in vault[s].made
      BY <1>1, <2>3 DEF Keeps
  <2>4. CASE Kind(s) = "copy" /\ Pc(s) = "undoBlobs" /\ vault[s].made # {} /\ k[2] \in Mine(s)
      BY <1>1, <2>4 DEF Keeps
  <2> QED
      BY <1>6, <2>1, <2>2, <2>3, <2>4 DEF Keeps
<1> QED
    BY <1>3, <1>5, <1>6

\* It remains to show what becomes of the blobs of the paths that are worked on.
LEMMA BlobsStay ==
    ASSUME VaultTypes, MeetingsHurt, ApartInv, LostInv, NEW r \in ProtectedRequests, StepOf(r), Touches(r),
           \A k \in BlobKeys :
               /\ blob'[k] # Void /\ EndsOf(k[2]) \cap leaky' = {}
               /\ blob[k] = Void \/ Keeps(r, k) \/ \E x \in FilePaths \cap Works(r) : HasKey(x, k) /\ fileRow'[x] # fileRow[x]
               => BlobHeld(k)'
    PROVE BlobsKept'
<1> SUFFICES ASSUME NEW k \in BlobKeys, blob'[k] # Void, EndsOf(k[2]) \cap leaky' = {},
                    blob[k] # Void, ~Keeps(r, k),
                    \A x \in FilePaths \cap Works(r) : HasKey(x, k) => fileRow'[x] = fileRow[x]
             PROVE BlobHeld(k)'
    BY DEF BlobsKept, EndsOf
<1>1. BlobHeld(k)
    BY DEF LostInv, BlobsKept, StepOf
<1>2. k[2] \notin leaky'
    BY DEF EndsOf
<1>3. ASSUME NEW x \in FilePaths, HasKey(x, k) PROVE HasKey(x, k)'
    BY <1>3 DEF HasKey, Touches
<1>4. ASSUME NEW s \in ProtectedRequests, Keeps(s, k) PROVE Keeps(s, k)'
    BY <1>2, <1>4, OthersLeave
<1> QED
    BY <1>1, <1>3, <1>4 DEF BlobHeld

-----------------------------------------------------------------------------
(* The steps of requests and of recoveries                                  *)

\* A request goes on, or ends.
GoesOn(r, me) ==
    /\ Running(r) /\ vault' = [vault EXCEPT ![r] = me]
    /\ me.kind = Kind(r) /\ me.path = PlaceOf(r) /\ me.rows = PlanOf(r) /\ me.pc # "new"
    /\ todo' = todo /\ (openLog' = openLog \/ (Close(r) /\ me.pc = "end"))
    /\ hurt \subseteq hurt' /\ leaky \subseteq leaky'

LEMMA Advances ==
    ASSUME ReadsVerified, RequestsAre, LogIs, NEW r \in ProtectedRequests, NEW me, GoesOn(r, me), RequestIs(r, me)
    PROVE /\ StepOf(r) /\ RequestsAre' /\ LogIs'
          /\ Pc(r)' = me.pc /\ LeftOf(r)' = me.left /\ vault'[r].made = me.made /\ (Running(r)' <=> me.pc # "end")
          /\ todo = <<>> /\ Range(todo) = {} /\ Live(r)
          /\ openLog' = openLog => (InLog(r)' <=> InLog(r))
          /\ Close(r) => ~InLog(r)'
<1>1. vault'[r] = me /\ \A s \in ProtectedRequests \ {r} : vault'[s] = vault[s]
    BY DEF GoesOn, ReadsVerified
<1>2. /\ Kind(r)' = Kind(r) /\ PlaceOf(r)' = PlaceOf(r) /\ PlanOf(r)' = PlanOf(r) /\ Pc(r)' = me.pc /\ Pc(r)' # "new"
      /\ LeftOf(r)' = me.left /\ (Running(r)' <=> me.pc # "end") /\ Pc(r) # "new"
    BY <1>1 DEF GoesOn, Kind, PlaceOf, PlanOf, Pc, LeftOf, Running
<1>3. \A s \in ProtectedRequests \ {r} : /\ Kind(s)' = Kind(s) /\ PlaceOf(s)' = PlaceOf(s) /\ PlanOf(s)' = PlanOf(s)
                                         /\ Pc(s)' = Pc(s) /\ (Running(s)' <=> Running(s))
    BY <1>1 DEF Kind, PlaceOf, PlanOf, Pc, Running
<1>4. todo = <<>> /\ Range(todo) = {} /\ todo' = todo /\ Live(r) /\ Running(r)
    BY DEF GoesOn, LogIs, Range, Live
<1>5. /\ openLog' \in Seq(ProtectedRequests) /\ NoTwice(openLog') /\ Range(openLog') \in {Range(openLog), Range(openLog) \ {r}}
      /\ openLog' = openLog => Range(openLog') = Range(openLog)
      /\ Close(r) => Range(openLog') = Range(openLog) \ {r}
      /\ Range(openLog') # Range(openLog) => me.pc = "end"
  <2>1. CASE openLog' = openLog
    <3>1. Close(r) => Range(openLog') = Range(openLog) \ {r}
        BY Closing
    <3> QED
        BY <2>1, <3>1 DEF LogIs
  <2>2. CASE Close(r) /\ me.pc = "end"
    <3>1. openLog' \in Seq(ProtectedRequests) /\ NoTwice(openLog') /\ Range(openLog') = Range(openLog) \ {r}
        BY <2>2, Closing
    <3> QED
        BY <2>2, <3>1
  <2> QED
      BY <2>1, <2>2 DEF GoesOn
<1>6. \A s \in ProtectedRequests \ {r} : InLog(s)' <=> InLog(s)
    BY <1>5 DEF InLog
<1>7. (InLog(r)' => InLog(r)) /\ (openLog' = openLog => (InLog(r)' <=> InLog(r))) /\ (Close(r) => ~InLog(r)')
      /\ (me.pc # "end" => (InLog(r)' <=> InLog(r)))
    BY <1>5 DEF InLog
<1>8. StepOf(r)
    BY <1>1, <1>2, <1>3, <1>4, <1>6, <1>7 DEF StepOf, GoesOn
<1>9. RequestsAre'
    BY <1>1 DEF RequestsAre, RequestIs, WriteIs, CopyIs
<1>10. LogIs'
  <2>1. ASSUME NEW s \in ProtectedRequests
        PROVE /\ InLog(s)' => Pc(s)' # "new" /\ Kind(s)' \in {"write", "delete", "move", "copy"}
              /\ Running(s)' /\ Kind(s)' \in {"delete", "move", "copy"} => InLog(s)'
      BY <1>2, <1>3, <1>4, <1>6, <1>7 DEF LogIs
  <2>2. todo' \in Seq(ProtectedRequests) /\ NoTwice(todo') /\ todo' = <<>> /\ Range(todo') = {}
      BY <1>4 DEF LogIs
  <2> QED
      BY <1>5, <2>1, <2>2 DEF LogIs
<1> QED
    BY <1>1, <1>2, <1>4, <1>7, <1>8, <1>9, <1>10

\* The recovery of one row of the log.
Recovers(r) ==
    /\ todo # <<>> /\ r = Head(todo) /\ todo' = Tail(todo)
    /\ openLog' = openLog \/ Close(r)
    /\ UNCHANGED <<vault, hurt, leaky>>

LEMMA Recoveries ==
    ASSUME RequestsAre, LogIs, NEW r, Recovers(r)
    PROVE /\ r \in ProtectedRequests /\ StepOf(r) /\ RequestsAre' /\ LogIs'
          /\ r \in Range(todo) /\ r \notin Range(todo') /\ Live(r) /\ InLog(r) /\ Pc(r) = "end" /\ Pc(r)' = "end"
          /\ \A s \in ProtectedRequests : /\ ~Running(s) /\ ~Running(s)' /\ Pc(s)' = Pc(s) /\ LeftOf(s)' = LeftOf(s)
                                          /\ Pc(s) \in {"new", "end"}
          /\ Close(r) => ~Live(r)'
          /\ openLog' = openLog => (Live(r)' <=> Live(r))
<1>1. /\ r \in Range(todo) /\ r \in ProtectedRequests /\ InLog(r)
      /\ todo' \in Seq(ProtectedRequests) /\ Range(todo') = Range(todo) \ {r} /\ NoTwice(todo')
    BY NextToDo DEF Recovers
<1>2. /\ openLog' \in Seq(ProtectedRequests) /\ NoTwice(openLog') /\ Range(openLog') \in {Range(openLog), Range(openLog) \ {r}}
      /\ (Close(r) => Range(openLog') = Range(openLog) \ {r})
  <2>1. CASE openLog' = openLog
    <3>1. Close(r) => Range(openLog') = Range(openLog) \ {r}
        BY <1>1, Closing
    <3> QED
        BY <2>1, <3>1 DEF LogIs
  <2>2. CASE Close(r)
      BY <1>1, <2>2, Closing
  <2> QED
      BY <2>1, <2>2 DEF Recovers
<1>3. UNCHANGED <<vault, hurt, leaky>>
    BY DEF Recovers
<1>4. \A s \in ProtectedRequests : /\ Kind(s)' = Kind(s) /\ PlaceOf(s)' = PlaceOf(s) /\ PlanOf(s)' = PlanOf(s)
                                   /\ Pc(s)' = Pc(s) /\ LeftOf(s)' = LeftOf(s) /\ (Running(s)' <=> Running(s))
    BY <1>3 DEF Kind, PlaceOf, PlanOf, Pc, LeftOf, Running
<1>5. \A s \in ProtectedRequests : ~Running(s) /\ Pc(s) \in {"new", "end"}
    BY DEF LogIs, Recovers, Running, Pc
<1>6. /\ \A s \in ProtectedRequests : InLog(s)' => InLog(s)
      /\ \A s \in ProtectedRequests \ {r} : InLog(s)' <=> InLog(s)
      /\ Close(r) => ~InLog(r)'
    BY <1>2 DEF InLog
<1>7. \A s \in ProtectedRequests \ {r} : s \in Range(todo') <=> s \in Range(todo)
    BY <1>1
<1>8. StepOf(r)
    BY <1>3, <1>4, <1>6, <1>7 DEF StepOf
<1>9. RequestsAre'
    BY <1>3 DEF RequestsAre, RequestIs, WriteIs, CopyIs
<1>10. LogIs'
  <2>1. Range(todo') \subseteq Range(openLog')
      BY <1>1, <1>2 DEF LogIs
  <2>2. ASSUME NEW s \in ProtectedRequests
        PROVE /\ ~Running(s)'
              /\ InLog(s)' => Pc(s)' # "new" /\ Kind(s)' \in {"write", "delete", "move", "copy"}
      BY <1>4, <1>5, <1>6 DEF LogIs
  <2> QED
      BY <1>1, <1>2, <2>1, <2>2 DEF LogIs
<1>11. Pc(r) = "end"
    BY <1>1, <1>5 DEF LogIs
<1>12. openLog' = openLog => (InLog(r)' <=> InLog(r))
    BY DEF InLog
<1> QED
    BY <1>1, <1>4, <1>5, <1>6, <1>8, <1>9, <1>10, <1>11, <1>12 DEF Live

\* What is in the store keeps its type.
LEMMA StoreStays ==
    ASSUME StoreIs, hurt' \subseteq leaky',
           \/ fileRow' = fileRow
           \/ \E x \in VaultPaths : \E e : RowIs(x, e) /\ fileRow' = [fileRow EXCEPT ![x] = e]
           \/ \E ps : fileRow' = WithoutRows(ps),
           \/ blob' = blob
           \/ \E k \in BlobKeys, b \in Payload \cup {Void} : blob' = [blob EXCEPT ![k] = b]
    PROVE StoreIs'
<1>1. blob' \in [BlobKeys -> Payload \cup {Void}]
    BY DEF StoreIs
<1>2. fileRow' = [x \in VaultPaths |-> fileRow'[x]] /\ \A x \in VaultPaths : RowIs(x, fileRow'[x])
  <2>1. CASE fileRow' = fileRow
      BY <2>1 DEF StoreIs
  <2>2. CASE \E x \in VaultPaths : \E e : RowIs(x, e) /\ fileRow' = [fileRow EXCEPT ![x] = e]
      BY <2>2 DEF StoreIs
  <2>3. ASSUME NEW ps, fileRow' = WithoutRows(ps)
        PROVE fileRow' = [x \in VaultPaths |-> fileRow'[x]] /\ \A x \in VaultPaths : RowIs(x, fileRow'[x])
    <3>1. \A x \in VaultPaths : fileRow'[x] = IF x \in ps THEN Void ELSE fileRow[x]
        BY <2>3 DEF WithoutRows
    <3>2. \A x \in VaultPaths : RowIs(x, Void)
        BY DEF RowIs
    <3> QED
        BY <2>3, <3>1, <3>2 DEF WithoutRows, StoreIs
  <2> QED
      BY <2>1, <2>2, <2>3
<1> QED
    BY <1>1, <1>2 DEF StoreIs

VaultKept == VaultTypes' /\ MeetingsHurt' /\ BothEnds' /\ ApartInv' /\ KeptFit' /\ LostInv'
\* What a step has to show of its own request.
Own(r) ==
    /\ WriteFits(r)' /\ CopyFits(r)' /\ DeleteLeaves(r)' /\ CopyLeaves(r)'
    /\ \A x \in FilePaths \cap Works(r) : RowFits(x)'
    /\ \A k \in BlobKeys :
        /\ blob'[k] # Void /\ EndsOf(k[2]) \cap leaky' = {}
        /\ blob[k] = Void \/ Keeps(r, k) \/ \E x \in FilePaths \cap Works(r) : HasKey(x, k) /\ fileRow'[x] # fileRow[x]
        => BlobHeld(k)'

LEMMA StepKeeps ==
    ASSUME VaultInv, NEW r \in ProtectedRequests, StepOf(r), VaultTypes', BothEnds', ApartInv', Touches(r), Own(r)
    PROVE VaultKept
<1>1. MeetingsHurt'
    BY StepsMeet DEF VaultInv
<1>2. KeptFit'
  <2>1. \A s \in ProtectedRequests \ {r} : WriteFits(s)' /\ CopyFits(s)'
      BY OthersFit DEF VaultInv
  <2>2. \A x \in FilePaths : x \notin Works(r) => RowFits(x)'
      BY OthersFit DEF VaultInv
  <2>3. WriteFits(r)' /\ CopyFits(r)' /\ \A x \in FilePaths \cap Works(r) : RowFits(x)'
      BY DEF Own
  <2> QED
      BY <2>1, <2>2, <2>3 DEF KeptFit
<1>3. BlobsKept'
    BY BlobsStay DEF VaultInv, Own
<1>4. LostInv'
  <2>1. \A s \in ProtectedRequests \ {r} : DeleteLeaves(s)' /\ CopyLeaves(s)'
      BY OthersLeave DEF VaultInv
  <2> QED
      BY <1>3, <2>1 DEF LostInv, Own
<1> QED
    BY <1>1, <1>2, <1>4 DEF VaultKept

\* The fields of a request's state.
LEMMA TheFields ==
    ASSUME ReadsVerified, NEW r \in ProtectedRequests
    PROVE DOMAIN vault[r] = {"pc", "kind", "path", "size", "rows", "left", "made", "data", "ok"}
    BY DEF ReadsVerified, ReadIsVerified, VaultFields

\* What is only the business of other kinds.
LEMMA NotOfKind ==
    ASSUME NEW r \in ProtectedRequests, StepOf(r)
    PROVE /\ Kind(r) # "write" => WriteFits(r)'
          /\ Kind(r) # "copy" => CopyFits(r)' /\ CopyLeaves(r)'
          /\ Kind(r) # "delete" => DeleteLeaves(r)'
          /\ Kind(r) \notin {"write", "copy"} => \A k \in BlobKeys : ~Keeps(r, k)
    BY DEF WriteFits, CopyFits, DeleteLeaves, CopyLeaves, LiveWrite, LiveCopy, LiveDelete, Keeps, StepOf

-----------------------------------------------------------------------------
(* Writes                                                                   *)

LEMMA WriterOwns ==
    ASSUME VaultInv, NEW r \in ProtectedRequests, LiveWrite(r)
    PROVE /\ Owns(r, WriteKey(r)) /\ WriteKey(r) \in BlobKeys
          /\ Works(r) = {PlaceOf(r)} /\ PlaceOf(r) \in FilePaths /\ PlaceOf(r) \in VaultPaths
          /\ \A s \in ProtectedRequests : Pc(s) = "new" => WriteKey(r)[1] # s
          /\ \A s \in ProtectedRequests : s # r /\ LiveCopy(s) => \A q \in PlannedFiles(s) :
                 <<s, q>> = WriteKey(r) => Mine(s) \subseteq hurt
<1>1. RequestsAre /\ ApartInv
    BY DEF VaultInv, VaultTypes
<1>2. /\ WriteKey(r) \in BlobKeys /\ Mine(r) = {PlaceOf(r)} /\ PlaceOf(r) \in FilePaths /\ PlaceOf(r) \in VaultPaths
      /\ Kind(r) = "write" /\ Live(r)
    BY <1>1, WritesOf, FilesArePaths DEF LiveWrite
<1>3. Works(r) = {PlaceOf(r)}
    BY <1>2 DEF Works
<1>4. WriteApart(r) /\ \A s \in ProtectedRequests : WriteApart(s)
    BY <1>1 DEF ApartInv, WritesApart
<1>5. \A s \in ProtectedRequests : s # r /\ LiveWrite(s) /\ WriteKey(s) = WriteKey(r) => PlaceOf(s) \in hurt
    BY <1>4 DEF WriteApart
<1>6. ASSUME NEW s \in ProtectedRequests, LiveCopy(s), NEW q \in PlannedFiles(s), <<s, q>> = WriteKey(r)
      PROVE q \in hurt /\ Mine(s) \subseteq hurt
  <2>1. Mine(s) \subseteq hurt
      BY <1>4, <1>6 DEF WriteApart
  <2>2. q \in Mine(s)
      BY <1>1, <1>6, PlansOf DEF LiveCopy, PlannedFiles
  <2> QED
      BY <2>1, <2>2
<1>7. \A x \in FilePaths : HasKey(x, WriteKey(r)) => x \in Works(r) \cup hurt
    BY <1>3, <1>4 DEF WriteApart
<1>8. \A s \in ProtectedRequests : Pc(s) = "new" => WriteKey(r)[1] # s
    BY <1>1, <1>2 DEF ApartInv, NewKeys
<1> QED
    BY <1>2, <1>3, <1>5, <1>6, <1>7, <1>8 DEF Owns

LEMMA WriteBlobKeeps == ASSUME VaultInv, NEW r \in ProtectedRequests, WriteBlob(r) PROVE VaultKept
<1>0. ReadsVerified /\ RequestsAre /\ LogIs /\ StoreIs /\ VaultTypes /\ MeetingsHurt /\ BothEnds /\ ApartInv /\ KeptFit /\ LostInv
    BY DEF VaultInv, VaultTypes
<1>1. DOMAIN vault[r] = {"pc", "kind", "path", "size", "rows", "left", "made", "data", "ok"} /\ Pc(r) = "write" /\ Running(r)
    BY <1>0, TheFields DEF WriteBlob, AtVault, Pc, Running
<1>2. Kind(r) = "write" /\ Live(r) /\ LiveWrite(r)
  <2>1. Kind(r) = "write"
      BY <1>0, <1>1 DEF RequestsAre, RequestIs, CopyIs, Kind, Pc
  <2> QED
      BY <1>1, <2>1 DEF Live, LiveWrite
<1>3. PICK p, k : p = PlaceOf(r) /\ k = WriteKey(r)
    OBVIOUS
<1>4. /\ Owns(r, k) /\ k \in BlobKeys /\ Works(r) = {p} /\ p \in FilePaths /\ p \in VaultPaths
      /\ \A s \in ProtectedRequests : Pc(s) = "new" => k[1] # s
      /\ \A s \in ProtectedRequests : s # r /\ LiveCopy(s) => \A q \in PlannedFiles(s) : <<s, q>> = k => Mine(s) \subseteq hurt
      /\ WriteMeta(r) \in Payload /\ EndsOf(k[2]) = EndsOf(p) /\ PlanOf(r)[p] = [key |-> k, meta |-> WriteMeta(r)]
    BY <1>0, <1>2, <1>3, WriterOwns, WritesOf
<1>5. PICK me : /\ vault' = [vault EXCEPT ![r] = me] /\ me.pc \in {"row", "end"} /\ me.kind = "write" /\ me.path = p
                /\ me.rows = PlanOf(r) /\ me.left = LeftOf(r)
                /\ me.pc = "row" => blob' = [blob EXCEPT ![k] = WriteMeta(r)] /\ hurt' = hurt /\ leaky' = leaky
                /\ blob' \in {blob, [blob EXCEPT ![k] = WriteMeta(r)]}
                /\ me.pc = "end" => IF fileRow[p] # Void \/ r \notin Range(openLog) THEN Spoilt({p}) ELSE UNCHANGED <<hurt, leaky>>
  <2>1. vault[r].path = p /\ vault[r].kind = "write" /\ vault[r].rows[p].key = k /\ vault[r].rows[p].meta = WriteMeta(r)
      BY <1>2, <1>3, <1>4 DEF PlaceOf, Kind, PlanOf
  <2>2. CASE GoVault(r, "row") /\ blob' = [blob EXCEPT ![k] = WriteMeta(r)] /\ UNCHANGED <<hurt, leaky, vaultFaults>>
    <3> WITNESS [vault[r] EXCEPT !.pc = "row"]
    <3> QED
        BY <1>1, <2>1, <2>2 DEF GoVault, PlanOf, LeftOf
  <2>3. CASE /\ GoVault(r, "end") /\ blob' \in {blob, [blob EXCEPT ![k] = WriteMeta(r)]}
             /\ IF fileRow[p] # Void \/ r \notin Range(openLog) THEN Spoilt({p}) ELSE UNCHANGED <<hurt, leaky>>
    <3> WITNESS [vault[r] EXCEPT !.pc = "end"]
    <3> QED
        BY <1>1, <2>1, <2>3 DEF GoVault, PlanOf, LeftOf
  <2> QED
      BY <2>1, <2>2, <2>3 DEF WriteBlob
<1>6. UNCHANGED <<fileRow, openLog, todo>>
    BY DEF WriteBlob
<1>7. /\ hurt \subseteq hurt' /\ leaky \subseteq leaky' /\ hurt' \subseteq hurt \cup {p} /\ hurt' \subseteq leaky'
      /\ me.pc = "end" => (fileRow[p] # Void \/ ~InLog(r) => p \in hurt' /\ p \in leaky')
    BY <1>0, <1>5 DEF Spoilt, StoreIs, InLog
<1>8. /\ StepOf(r) /\ RequestsAre' /\ LogIs' /\ Pc(r)' = me.pc /\ LeftOf(r)' = LeftOf(r) /\ (Running(r)' <=> me.pc # "end")
      /\ InLog(r)' <=> InLog(r)
  <2>1. GoesOn(r, me)
      BY <1>1, <1>2, <1>3, <1>5, <1>6, <1>7 DEF GoesOn
  <2>2. RequestIs(r, me)
    <3>1. RequestIs(r, vault[r]) /\ vault[r].path = p /\ vault[r].kind = "write" /\ vault[r].rows = PlanOf(r)
        BY <1>0, <1>2, <1>3 DEF RequestsAre, PlaceOf, Kind, PlanOf
    <3> QED
        BY <1>5, <3>1 DEF RequestIs, WriteIs
  <2> QED
      BY <1>0, <1>5, <1>6, <2>1, <2>2, Advances
<1>9. StoreIs'
    BY <1>0, <1>4, <1>5, <1>6, <1>7, StoreStays
<1>10. BothEnds'
    BY <1>0, <1>1, <1>2, <1>4, <1>7, <1>8, StepsReachBothEnds
<1>11. ApartInv'
  <2>1. \A x \in FilePaths, b \in BlobKeys : HasKey(x, b)' => HasKey(x, b)
      BY <1>6 DEF HasKey
  <2>2. \A x \in FilePaths : fileRow'[x] # Void => fileRow'[x].key \in BlobKeys
      BY <1>0, <1>6, FileRows
  <2>3. \A b \in BlobKeys : blob'[b] = blob[b] \/ \A s \in ProtectedRequests : Pc(s) = "new" => b[1] # s
      BY <1>0, <1>4, <1>5 DEF StoreIs
  <2>4. ~LiveCopy(r)'
      BY <1>2, <1>8 DEF LiveCopy, StepOf
  <2> QED
      BY <1>0, <1>2, <1>8, <2>1, <2>2, <2>3, <2>4, RowsComeApart
<1>12. \A b \in BlobKeys : b # k => blob'[b] = blob[b]
    BY <1>0, <1>5 DEF StoreIs
<1>13. blob'[k] \in {blob[k], WriteMeta(r)} /\ (me.pc = "row" => blob'[k] = WriteMeta(r))
    BY <1>0, <1>4, <1>5 DEF StoreIs
<1>14. Touches(r)
  <2>1. ASSUME NEW s \in ProtectedRequests, s # r, LiveCopy(s), NEW q \in PlannedFiles(s)
        PROVE blob'[<<s, q>>] = blob[<<s, q>>] \/ Mine(s) \subseteq hurt
    <3>1. <<s, q>> \in BlobKeys
        BY <1>0, <2>1, PlansOf DEF LiveCopy
    <3> QED
        BY <1>4, <1>12, <2>1, <3>1
  <2> QED
      BY <1>4, <1>6, <1>12, <2>1 DEF Touches
<1>15. /\ WriteKey(r)' = k /\ WriteMeta(r)' = WriteMeta(r) /\ PlaceOf(r)' = p /\ Kind(r)' = "write"
       /\ LiveWrite(r)' => LiveWrite(r)
    BY <1>2, <1>3, <1>8, AllSame DEF StepOf
<1>16. WriteFits(r)'
  <2> SUFFICES ASSUME LiveWrite(r)', p \notin hurt'
               PROVE /\ fileRow[p] # Void => me.pc # "end" /\ fileRow[p].key = k
                     /\ fileRow[p] = Void => blob'[k] \in {Void, WriteMeta(r)}
                     /\ me.pc = "row" => blob'[k] = WriteMeta(r)
      BY <1>6, <1>8, <1>15 DEF WriteFits
  <2>1. WriteFits(r) /\ p \notin hurt
      BY <1>0, <1>7 DEF KeptFit
  <2> QED
      BY <1>2, <1>3, <1>7, <1>13, <2>1 DEF WriteFits
<1>17. RowFits(p)'
  <2> SUFFICES ASSUME p \notin hurt', fileRow[p] # Void PROVE RowFits(p)'
      BY <1>6 DEF RowFits
  <2>1. me.pc = "row"
      BY <1>5, <1>7
  <2> QED
      BY <1>8, <1>15, <2>1 DEF RowFits
<1>18. ASSUME NEW b \in BlobKeys, EndsOf(b[2]) \cap leaky' = {}, blob'[b] # Void, blob[b] = Void \/ Keeps(r, b)
       PROVE BlobHeld(b)'
  <2>1. b = k
      BY <1>2, <1>3, <1>12, <1>18 DEF Keeps, LiveCopy
  <2>2. p \notin leaky'
      BY <1>4, <1>18, <2>1 DEF EndsOf
  <2>3. Live(r)'
      BY <1>5, <1>7, <1>8, <2>2 DEF Live
  <2> QED
      BY <1>15, <2>1, <2>3 DEF BlobHeld, Keeps, LiveWrite
<1>19. Own(r)
    BY <1>2, <1>4, <1>6, <1>8, <1>16, <1>17, <1>18, NotOfKind DEF Own
<1> QED
    BY <1>8, <1>9, <1>10, <1>11, <1>14, <1>19, StepKeeps DEF VaultTypes

\* A step that changes neither rows nor blobs.
LEMMA QuietStepKeeps ==
    ASSUME VaultInv, NEW r \in ProtectedRequests, StepOf(r), RequestsAre', LogIs', UNCHANGED <<fileRow, blob>>,
           hurt' \subseteq leaky', BothEnds',
           LeftOf(r)' \subseteq LeftOf(r) \/ Kind(r) # "delete",
           LiveCopy(r)' => RowsMade(r) \cap PlannedFiles(r) \subseteq RowsMade(r)',
           Kind(r) = "write" => Pc(r)' = Pc(r) \/ RowFits(PlaceOf(r))',
           LiveDelete(r) => LiveDelete(r)',
           WriteFits(r)', CopyFits(r)', DeleteLeaves(r)', CopyLeaves(r)',
           \A k \in BlobKeys : blob[k] # Void /\ EndsOf(k[2]) \cap leaky' = {} /\ Keeps(r, k) => BlobHeld(k)'
    PROVE VaultKept
<1>0. ReadsVerified /\ RequestsAre /\ LogIs /\ StoreIs /\ VaultTypes /\ MeetingsHurt /\ BothEnds /\ ApartInv /\ KeptFit /\ LostInv
    BY DEF VaultInv, VaultTypes
<1>1. fileRow' = fileRow /\ blob' = blob
    OBVIOUS
<1>2. StoreIs'
    BY <1>0, <1>1, StoreStays
<1>3. ApartInv'
  <2>1. \A x \in FilePaths, b \in BlobKeys : HasKey(x, b)' => HasKey(x, b)
      BY <1>1 DEF HasKey
  <2>2. \A x \in FilePaths : fileRow'[x] # Void => fileRow'[x].key \in BlobKeys
      BY <1>0, <1>1, FileRows
  <2> QED
      BY <1>0, <1>1, <2>1, <2>2, RowsComeApart
<1>4. Touches(r)
    BY <1>1 DEF Touches
<1>5. ASSUME NEW x \in FilePaths \cap Works(r) PROVE RowFits(x)'
  <2>1. RowFits(x) /\ hurt \subseteq hurt'
      BY <1>0 DEF KeptFit, StepOf
  <2>2. ASSUME NEW s \in ProtectedRequests, Kind(s) = "write", Pc(s) = "row", PlaceOf(s) = x PROVE RowFits(x)'
    <3>1. CASE s = r /\ Pc(r)' = Pc(r)
      <4>1. Kind(s)' = "write" /\ Pc(s)' = "row" /\ PlaceOf(s)' = x
          BY <2>2, <3>1 DEF StepOf
      <4> QED
          BY <4>1 DEF RowFits
    <3>2. CASE s # r
      <4>1. Kind(s)' = "write" /\ Pc(s)' = "row" /\ PlaceOf(s)' = x
          BY <2>2, <3>2, OthersSame
      <4> QED
          BY <4>1 DEF RowFits
    <3>3. CASE s = r /\ RowFits(PlaceOf(r))'
      <4>1. PlaceOf(r)' = x
          BY <2>2, <3>3 DEF StepOf
      <4> QED
          BY <3>3, <4>1 DEF RowFits
    <3> QED
        BY <2>2, <3>1, <3>2, <3>3
  <2>3. ASSUME NEW s \in ProtectedRequests, LiveDelete(s), x \in Mine(s) PROVE RowFits(x)'
    <3>1. LiveDelete(s)' /\ x \in Mine(s)'
        BY <2>3, OthersSame, AllSame
    <3> QED
        BY <3>1 DEF RowFits
  <2> QED
      BY <1>1, <2>1, <2>2, <2>3 DEF RowFits
<1>6. Own(r)
  <2>1. WriteFits(r)' /\ CopyFits(r)' /\ DeleteLeaves(r)' /\ CopyLeaves(r)'
      OBVIOUS
  <2> QED
      BY <1>1, <1>5, <2>1 DEF Own
<1> QED
    BY <1>0, <1>2, <1>3, <1>4, <1>6, StepKeeps DEF VaultTypes

\* A write that gives up leaves its file unless it may have spoilt it.
LEMMA WriteEndsKeep ==
    ASSUME VaultInv, NEW r \in ProtectedRequests, StepOf(r), RequestsAre', LogIs', UNCHANGED <<fileRow, blob>>,
           LiveWrite(r), ~Running(r)', Pc(r)' = "end", hurt' \subseteq leaky', hurt' \subseteq hurt \cup {PlaceOf(r)},
           hurt' = hurt \/ Running(r), PlaceOf(r) \notin hurt' => fileRow[PlaceOf(r)] = Void /\ Live(r)'
    PROVE VaultKept
<1>0. ReadsVerified /\ RequestsAre /\ LogIs /\ StoreIs /\ VaultTypes /\ MeetingsHurt /\ BothEnds /\ ApartInv /\ KeptFit /\ LostInv
    BY DEF VaultInv, VaultTypes
<1>1. Kind(r) = "write" /\ Works(r) = {PlaceOf(r)} /\ WriteKey(r) \in BlobKeys /\ PlaceOf(r) \in EndsOf(WriteKey(r)[2])
    BY <1>0, WriterOwns, WritesOf DEF LiveWrite
<1>2. BothEnds'
    BY <1>0, <1>1, StepsReachBothEnds
<1>3. /\ WriteKey(r)' = WriteKey(r) /\ WriteMeta(r)' = WriteMeta(r) /\ PlaceOf(r)' = PlaceOf(r) /\ Kind(r)' = "write"
      /\ hurt \subseteq hurt'
    BY <1>1, AllSame DEF StepOf
<1>4. RowFits(PlaceOf(r))'
    BY <1>3 DEF RowFits
<1>5. WriteFits(r)'
  <2> SUFFICES ASSUME PlaceOf(r) \notin hurt'
               PROVE fileRow'[PlaceOf(r)] = Void /\ blob'[WriteKey(r)] \in {Void, WriteMeta(r)}
      BY <1>3 DEF WriteFits
  <2>1. WriteFits(r)
      BY <1>0 DEF KeptFit
  <2> QED
      BY <1>3, <2>1 DEF WriteFits
<1>6. ASSUME NEW k \in BlobKeys, EndsOf(k[2]) \cap leaky' = {}, Keeps(r, k) PROVE BlobHeld(k)'
  <2>1. k = WriteKey(r)
      BY <1>1, <1>6 DEF Keeps, LiveCopy
  <2>2. PlaceOf(r) \notin leaky'
      BY <1>1, <1>6, <2>1
  <2>3. Live(r)'
      BY <2>2
  <2> QED
      BY <1>3, <2>1, <2>3 DEF BlobHeld, Keeps, LiveWrite
<1>7. ~LiveCopy(r)' /\ ~LiveDelete(r)
    BY <1>1, <1>3 DEF LiveCopy, LiveDelete
<1>8. CopyFits(r)' /\ DeleteLeaves(r)' /\ CopyLeaves(r)'
    BY <1>1, NotOfKind
<1> QED
    BY <1>1, <1>2, <1>4, <1>5, <1>6, <1>7, <1>8, QuietStepKeeps

\* The row of a write, by its request or by the recovery.
LEMMA RowWritten ==
    ASSUME VaultInv, NEW r \in ProtectedRequests, StepOf(r), RequestsAre', LogIs', UNCHANGED <<blob, hurt, leaky>>,
           LiveWrite(r), ~Live(r)', fileRow' = [fileRow EXCEPT ![PlaceOf(r)] = PlanOf(r)[PlaceOf(r)]],
           PlaceOf(r) \notin hurt => blob[WriteKey(r)] = WriteMeta(r)
    PROVE VaultKept
<1>0. ReadsVerified /\ RequestsAre /\ LogIs /\ StoreIs /\ VaultTypes /\ MeetingsHurt /\ BothEnds /\ ApartInv /\ KeptFit /\ LostInv
    BY DEF VaultInv, VaultTypes
<1>1. Kind(r) = "write" /\ Live(r)
    BY DEF LiveWrite
<1>2. PICK p, k, m : p = PlaceOf(r) /\ k = WriteKey(r) /\ m = WriteMeta(r)
    OBVIOUS
<1>3. /\ Owns(r, k) /\ k \in BlobKeys /\ Works(r) = {p} /\ p \in FilePaths /\ p \in VaultPaths /\ m \in Payload
      /\ \A s \in ProtectedRequests : Pc(s) = "new" => k[1] # s
      /\ p \in EndsOf(k[2]) /\ PlanOf(r)[p] = [key |-> k, meta |-> m] /\ k[2] \in EndsOf(p) /\ Mine(r) = {p}
    BY <1>0, <1>1, <1>2, WriterOwns, WritesOf
<1>4. fileRow'[p] = [key |-> k, meta |-> m] /\ \A x \in VaultPaths : x # p => fileRow'[x] = fileRow[x]
    BY <1>0, <1>2, <1>3 DEF StoreIs
<1>5. fileRow'[p] # Void /\ RowIs(p, fileRow'[p])
  <2>1. [key |-> k, meta |-> m] \in VaultRow
      BY <1>3 DEF VaultRow
  <2>2. fileRow'[p] # Void
      BY <1>4, <2>1, VaultAssumption
  <2> QED
      BY <1>3, <1>4, <2>1, <2>2 DEF RowIs
<1>6. StoreIs'
  <2>1. fileRow' = [fileRow EXCEPT ![p] = fileRow'[p]]
      BY <1>0, <1>2, <1>3, <1>4
  <2>2. hurt' \subseteq leaky'
      BY <1>0 DEF StoreIs
  <2> QED
      BY <1>0, <1>3, <1>5, <2>1, <2>2, StoreStays
<1>7. BothEnds'
    BY <1>0, StepsReachBothEnds
<1>8. \A x \in FilePaths : x # p => fileRow'[x] = fileRow[x]
    BY <1>4, FilesArePaths
<1>9. \A x \in FilePaths : x # p => \A b \in BlobKeys : HasKey(x, b)' <=> HasKey(x, b)
    BY <1>8 DEF HasKey
<1>10. \A b \in BlobKeys : HasKey(p, b)' <=> b = k
    BY <1>4, <1>5 DEF HasKey
<1>11. \A s \in ProtectedRequests :
         /\ Kind(s)' = Kind(s) /\ (Running(s)' => Running(s)) /\ (LiveWrite(s)' => LiveWrite(s) /\ s # r)
         /\ (LiveCopy(s)' => LiveCopy(s) /\ s # r) /\ (Pc(s)' = "new" => Pc(s) = "new")
         /\ (Running(s)' => s # r)
    BY AllSame DEF StepOf, LiveWrite, LiveCopy, Live
<1>12. Comes(p, k)
  <2>1. \A y \in FilePaths : y # p /\ HasKey(y, k)' => {p, y} \subseteq hurt'
    <3>1. WriteApart(r)
        BY <1>0 DEF ApartInv, WritesApart
    <3> QED
        BY <1>2, <1>3, <1>9, <3>1 DEF WriteApart
  <2>2. ASSUME NEW s \in ProtectedRequests, LiveWrite(s)', WriteKey(s) = k, PlaceOf(s) # p PROVE {p, PlaceOf(s)} \subseteq hurt'
    <3>1. WriteApart(r) /\ WriteApart(s) /\ LiveWrite(s) /\ s # r
        BY <1>0, <1>11, <2>2 DEF ApartInv, WritesApart
    <3> QED
        BY <1>2, <2>2, <3>1 DEF WriteApart
  <2>3. ASSUME NEW s \in ProtectedRequests, LiveCopy(s)', NEW q \in PlannedFiles(s), <<s, q>> = k
        PROVE p \in hurt' /\ Mine(s) \subseteq hurt'
    <3>1. WriteApart(r) /\ LiveCopy(s)
        BY <1>0, <1>11, <2>3 DEF ApartInv, WritesApart
    <3> QED
        BY <1>2, <2>3, <3>1 DEF WriteApart
  <2>4. ASSUME NEW s \in ProtectedRequests, Running(s)', Kind(s) = "delete", k \in LeftOf(s)' PROVE p \in Mine(s) \cup hurt'
    <3>1. DeleteApart(s) /\ Running(s) /\ LeftOf(s)' = LeftOf(s)
        BY <1>0, <1>11, <2>4, OthersSame DEF ApartInv, DeletesApart
    <3> QED
        BY <1>2, <2>4, <3>1 DEF DeleteApart
  <2> QED
      BY <1>3, <1>11, <2>1, <2>2, <2>3, <2>4 DEF Comes
<1>13. ApartInv'
  <2>1. \A x \in FilePaths, b \in BlobKeys : HasKey(x, b)' => HasKey(x, b) \/ Comes(x, b)
      BY <1>9, <1>10, <1>12
  <2>2. \A x \in FilePaths : fileRow'[x] # Void => fileRow'[x].key \in BlobKeys
    <3>1. \A x \in FilePaths : fileRow[x] # Void => fileRow[x].key \in BlobKeys
        BY <1>0, FileRows
    <3>2. fileRow'[p].key \in BlobKeys
        BY <1>3, <1>4
    <3> QED
        BY <1>8, <3>1, <3>2
  <2>3. ~LiveCopy(r)' /\ Kind(r) # "delete"
      BY <1>1, <1>11
  <2> QED
      BY <1>0, <2>1, <2>2, <2>3, RowsComeApart
<1>14. Touches(r)
    BY <1>3, <1>4, <1>8 DEF Touches
<1>15. WriteFits(r)'
    BY <1>11 DEF WriteFits
<1>16. RowFits(p)'
    BY <1>2, <1>4 DEF RowFits
<1>17. ASSUME NEW b \in BlobKeys, EndsOf(b[2]) \cap leaky' = {}, Keeps(r, b) \/ HasKey(p, b) PROVE BlobHeld(b)'
  <2>1. CASE b = k
      BY <1>3, <1>10, <2>1 DEF BlobHeld
  <2>2. CASE b # k
    <3>1. HasKey(p, b)
        BY <1>1, <1>2, <1>17, <2>2 DEF Keeps, LiveCopy
    <3>2. p \in hurt
      <4>1. WriteFits(r)
          BY <1>0 DEF KeptFit
      <4> QED
          BY <1>2, <2>2, <3>1, <4>1 DEF WriteFits, HasKey
    <3>3. p \in EndsOf(b[2])
        BY <1>0, <1>3, <3>1, FileRows DEF HasKey
    <3> QED
        BY <1>0, <1>17, <3>2, <3>3 DEF StoreIs
  <2> QED
      BY <2>1, <2>2
<1>18. CopyFits(r)' /\ DeleteLeaves(r)' /\ CopyLeaves(r)'
    BY <1>1, NotOfKind
<1>19. Own(r)
    BY <1>3, <1>15, <1>16, <1>17, <1>18 DEF Own
<1> QED
    BY <1>6, <1>7, <1>13, <1>14, <1>19, StepKeeps DEF VaultTypes

LEMMA UpsertRowKeeps == ASSUME VaultInv, NEW r \in ProtectedRequests, UpsertRow(r) PROVE VaultKept
<1>0. ReadsVerified /\ RequestsAre /\ LogIs /\ StoreIs /\ VaultTypes /\ KeptFit
    BY DEF VaultInv, VaultTypes
<1>1. DOMAIN vault[r] = {"pc", "kind", "path", "size", "rows", "left", "made", "data", "ok"} /\ Pc(r) = "row" /\ Running(r)
    BY <1>0, TheFields DEF UpsertRow, AtVault, Pc, Running
<1>2. Kind(r) = "write" /\ Live(r) /\ LiveWrite(r) /\ RequestIs(r, vault[r])
  <2>1. Kind(r) = "write" /\ RequestIs(r, vault[r])
      BY <1>0, <1>1 DEF RequestsAre, RequestIs, CopyIs, Kind, Pc
  <2> QED
      BY <1>1, <2>1 DEF Live, LiveWrite
<1>3. UNCHANGED <<blob, todo>>
    BY DEF UpsertRow
<1>4. CASE /\ fileRow' = [fileRow EXCEPT ![PlaceOf(r)] = NewMeta(r)] /\ EndVault(r) /\ Close(r)
           /\ UNCHANGED <<hurt, leaky, vaultFaults>>
  <2>1. PICK me : me = [vault[r] EXCEPT !.pc = "end", !.ok = TRUE]
      OBVIOUS
  <2>2. GoesOn(r, me) /\ RequestIs(r, me) /\ me.pc = "end"
      BY <1>1, <1>2, <1>3, <1>4, <2>1 DEF GoesOn, EndVault, Kind, PlaceOf, PlanOf, RequestIs, WriteIs
  <2>3. StepOf(r) /\ RequestsAre' /\ LogIs' /\ ~Running(r)' /\ ~InLog(r)'
      BY <1>0, <1>4, <2>2, Advances
  <2>4. ~Live(r)'
      BY <2>3 DEF Live
  <2>5. PlaceOf(r) \notin hurt => blob[WriteKey(r)] = WriteMeta(r)
      BY <1>0, <1>1, <1>2 DEF KeptFit, WriteFits
  <2>6. NewMeta(r) = PlanOf(r)[PlaceOf(r)]
      BY DEF NewMeta, PlanOf, PlaceOf
  <2> QED
      BY <1>2, <1>3, <1>4, <2>3, <2>4, <2>5, <2>6, RowWritten
<1>5. CASE /\ GoVault(r, "end") /\ UNCHANGED <<fileRow, openLog>>
           /\ IF fileRow[PlaceOf(r)] # Void \/ r \notin Range(openLog) THEN Spoilt({PlaceOf(r)}) ELSE UNCHANGED <<hurt, leaky>>
  <2>1. PICK me : me = [vault[r] EXCEPT !.pc = "end"]
      OBVIOUS
  <2>2. /\ hurt \subseteq hurt' /\ leaky \subseteq leaky' /\ hurt' \subseteq hurt \cup {PlaceOf(r)} /\ hurt' \subseteq leaky'
        /\ PlaceOf(r) \notin hurt' => fileRow[PlaceOf(r)] = Void /\ InLog(r)
      BY <1>0, <1>5 DEF Spoilt, StoreIs, InLog
  <2>3. GoesOn(r, me) /\ RequestIs(r, me) /\ me.pc = "end"
      BY <1>1, <1>2, <1>3, <1>5, <2>1, <2>2 DEF GoesOn, GoVault, Kind, PlaceOf, PlanOf, RequestIs, WriteIs
  <2>4. StepOf(r) /\ RequestsAre' /\ LogIs' /\ ~Running(r)' /\ Pc(r)' = "end" /\ (InLog(r)' <=> InLog(r))
      BY <1>0, <1>5, <2>3, Advances
  <2>5. PlaceOf(r) \notin hurt' => fileRow[PlaceOf(r)] = Void /\ Live(r)'
      BY <2>2, <2>4 DEF Live
  <2> QED
      BY <1>1, <1>2, <1>3, <1>5, <2>2, <2>4, <2>5, WriteEndsKeep
<1> QED
    BY <1>4, <1>5 DEF UpsertRow, PlaceOf

LEMMA RecoverWriteKeeps == ASSUME VaultInv, RecoverProtectedWrite PROVE VaultKept
<1>0. ReadsVerified /\ RequestsAre /\ LogIs /\ StoreIs /\ VaultTypes /\ KeptFit
    BY DEF VaultInv, VaultTypes
<1>1. PICK r : r = Head(todo)
    OBVIOUS
<1>2. Recovers(r) /\ Kind(r) = "write"
    BY <1>1 DEF RecoverProtectedWrite, Recovering, Recovers, Kind
<1>3. /\ r \in ProtectedRequests /\ StepOf(r) /\ RequestsAre' /\ LogIs' /\ Pc(r)' = "end" /\ ~Running(r) /\ ~Running(r)'
      /\ Live(r) /\ (Close(r) => ~Live(r)') /\ (openLog' = openLog => (Live(r)' <=> Live(r)))
    BY <1>0, <1>2, Recoveries
<1>4. LiveWrite(r) /\ UNCHANGED <<blob, hurt, leaky>> /\ hurt \subseteq leaky /\ WriteFits(r)
    BY <1>0, <1>2, <1>3 DEF LiveWrite, RecoverProtectedWrite, StoreIs, KeptFit
<1>5. WriteKey(r) = vault[r].rows[vault[r].path].key /\ PlanOf(r)[PlaceOf(r)] = vault[r].rows[vault[r].path] /\ PlaceOf(r) = vault[r].path
    BY DEF WriteKey, PlanOf, PlaceOf
<1>6. CASE fileRow[PlaceOf(r)] # Void /\ Close(r) /\ UNCHANGED fileRow
  <2>1. PlaceOf(r) \in hurt
      BY <1>3, <1>4, <1>6 DEF WriteFits
  <2> QED
      BY <1>3, <1>4, <1>6, <2>1, WriteEndsKeep
<1>7. CASE /\ fileRow[PlaceOf(r)] = Void /\ blob[WriteKey(r)] # Void
           /\ fileRow' = [fileRow EXCEPT ![PlaceOf(r)] = PlanOf(r)[PlaceOf(r)]] /\ Close(r)
  <2>1. PlaceOf(r) \notin hurt => blob[WriteKey(r)] = WriteMeta(r)
      BY <1>4, <1>7 DEF WriteFits
  <2> QED
      BY <1>3, <1>4, <1>7, <2>1, RowWritten
<1>8. CASE fileRow[PlaceOf(r)] = Void /\ blob[WriteKey(r)] = Void /\ UNCHANGED <<fileRow, openLog>>
    BY <1>3, <1>4, <1>8, WriteEndsKeep
<1> QED
    BY <1>1, <1>5, <1>6, <1>7, <1>8 DEF RecoverProtectedWrite

-----------------------------------------------------------------------------
(* Deletes, and other steps that take rows away                             *)

\* A step that takes rows away from what it works on.
LEMMA RowsGone ==
    ASSUME VaultInv, NEW r \in ProtectedRequests, StepOf(r), RequestsAre', LogIs', UNCHANGED <<blob, hurt, leaky>>,
           NEW D, D \subseteq Works(r), fileRow' = WithoutRows(D), Kind(r) \in {"delete", "copy"},
           Kind(r) = "delete" => D = Mine(r) /\ LeftOf(r)' \subseteq LeftOf(r),
           LiveCopy(r)' => RowsMade(r) \cap PlannedFiles(r) \subseteq RowsMade(r)' \cup D,
           CopyFits(r)', CopyLeaves(r)',
           \A k \in BlobKeys, x \in FilePaths :
               /\ blob[k] # Void /\ EndsOf(k[2]) \cap leaky = {}
               /\ Keeps(r, k) \/ (HasKey(x, k) /\ x \in D)
               => BlobHeld(k)'
    PROVE VaultKept
<1>0. ReadsVerified /\ RequestsAre /\ LogIs /\ StoreIs /\ VaultTypes /\ MeetingsHurt /\ BothEnds /\ ApartInv /\ KeptFit /\ LostInv
    BY DEF VaultInv, VaultTypes
<1>1. \A x \in VaultPaths : fileRow'[x] = IF x \in D THEN Void ELSE fileRow[x]
    BY DEF WithoutRows
<1>2. \A x \in FilePaths : fileRow'[x] = IF x \in D THEN Void ELSE fileRow[x]
    BY <1>1, FilesArePaths
<1>3. StoreIs'
  <2>1. hurt' \subseteq leaky'
      BY <1>0 DEF StoreIs
  <2> QED
      BY <1>0, <2>1, StoreStays
<1>4. BothEnds'
    BY <1>0, StepsReachBothEnds
<1>5. ApartInv'
  <2>1. \A x \in FilePaths, b \in BlobKeys : HasKey(x, b)' => HasKey(x, b) /\ x \notin D
      BY <1>2 DEF HasKey
  <2>2. \A x \in FilePaths : fileRow'[x] # Void => fileRow'[x].key \in BlobKeys
    <3>1. \A x \in FilePaths : fileRow[x] # Void => fileRow[x].key \in BlobKeys
        BY <1>0, FileRows
    <3> QED
        BY <1>2, <3>1
  <2>3. LiveCopy(r)' => \A q \in PlannedFiles(r) : q \in RowsMade(r) /\ q \notin RowsMade(r)' => ~HasKey(q, <<r, q>>)'
    <3> SUFFICES ASSUME LiveCopy(r)', NEW q \in PlannedFiles(r), q \in RowsMade(r), q \notin RowsMade(r)'
                 PROVE ~HasKey(q, <<r, q>>)'
        OBVIOUS
    <3>1. q \in D
        OBVIOUS
    <3>2. Kind(r) = "copy"
        BY DEF LiveCopy, StepOf
    <3>3. q \in FilePaths
        BY <1>0, <3>2, PlansOf
    <3> QED
        BY <1>2, <3>1, <3>3 DEF HasKey
  <2> QED
      BY <1>0, <2>1, <2>2, <2>3, RowsComeApart
<1>6. Touches(r)
    BY <1>1, <1>2 DEF Touches
<1>7. ASSUME NEW x \in FilePaths \cap Works(r) PROVE RowFits(x)'
  <2> SUFFICES ASSUME x \notin hurt', fileRow'[x] # Void PROVE RowFits(x)'
      BY DEF RowFits
  <2>1. x \notin D /\ fileRow'[x] = fileRow[x] /\ Kind(r) = "copy" /\ RowFits(x)
      BY <1>0, <1>2 DEF Works, KeptFit
  <2>2. ASSUME NEW s \in ProtectedRequests, Kind(s) = "write", Pc(s) = "row", PlaceOf(s) = x PROVE RowFits(x)'
    <3>1. Kind(s)' = "write" /\ Pc(s)' = "row" /\ PlaceOf(s)' = x
        BY <2>1, <2>2, OthersSame
    <3> QED
        BY <3>1 DEF RowFits
  <2>3. ASSUME NEW s \in ProtectedRequests, LiveDelete(s), x \in Mine(s) PROVE RowFits(x)'
    <3>1. LiveDelete(s)' /\ x \in Mine(s)'
        BY <2>1, <2>3, OthersSame, AllSame DEF LiveDelete
    <3> QED
        BY <3>1 DEF RowFits
  <2> QED
      BY <2>1, <2>2, <2>3 DEF RowFits
<1>8. WriteFits(r)' /\ (Kind(r) # "delete" => DeleteLeaves(r)')
    BY NotOfKind
<1>9. ASSUME Kind(r) = "delete" PROVE DeleteLeaves(r)'
  <2>1. \A x \in FilePaths : x \in Mine(r)' => fileRow'[x] = Void
      BY <1>2, <1>9, AllSame
  <2> QED
      BY <2>1 DEF DeleteLeaves
<1>10. ASSUME NEW k \in BlobKeys, blob'[k] # Void, EndsOf(k[2]) \cap leaky' = {},
              blob[k] = Void \/ Keeps(r, k) \/ \E x \in FilePaths \cap Works(r) : HasKey(x, k) /\ fileRow'[x] # fileRow[x]
       PROVE BlobHeld(k)'
  <2>1. blob[k] # Void /\ EndsOf(k[2]) \cap leaky = {}
      BY <1>10
  <2>2. CASE Keeps(r, k)
    <3>1. PICK x \in FilePaths : TRUE
      <4>1. k[2] \in FilePaths
          BY DEF BlobKeys
      <4> QED
          BY <4>1
    <3> QED
        BY <2>1, <2>2, <3>1
  <2>3. ASSUME NEW x \in FilePaths, HasKey(x, k), fileRow'[x] # fileRow[x] PROVE BlobHeld(k)'
    <3>1. x \in D
        BY <1>2, <2>3
    <3> QED
        BY <2>1, <2>3, <3>1
  <2> QED
      BY <1>10, <2>1, <2>2, <2>3
<1>11. Own(r)
    BY <1>7, <1>8, <1>9, <1>10 DEF Own
<1> QED
    BY <1>0, <1>3, <1>4, <1>5, <1>6, <1>11, StepKeeps DEF VaultTypes

\* The rows of a delete whose blobs are gone.
LEMMA RowsDeleted ==
    ASSUME VaultInv, NEW r \in ProtectedRequests, StepOf(r), RequestsAre', LogIs', UNCHANGED <<blob, hurt, leaky>>,
           LiveDelete(r), LeftOf(r) = {} \/ ~Running(r), LeftOf(r)' \subseteq LeftOf(r), fileRow' = WithoutRows(Mine(r))
    PROVE VaultKept
<1>0. RequestsAre /\ StoreIs /\ DeleteLeaves(r)
    BY DEF VaultInv, VaultTypes, LostInv
<1>1. Kind(r) = "delete" /\ Works(r) = Mine(r) /\ CopyFits(r)' /\ CopyLeaves(r)' /\ \A k \in BlobKeys : ~Keeps(r, k)
    BY NotOfKind DEF LiveDelete, Works
<1>2. ASSUME NEW k \in BlobKeys, NEW x \in FilePaths, blob[k] # Void, EndsOf(k[2]) \cap leaky = {}, HasKey(x, k), x \in Mine(r)
      PROVE FALSE
  <2>1. x \notin leaky
      BY <1>0, <1>2, FileRows DEF HasKey
  <2> QED
      BY <1>0, <1>2, <2>1 DEF DeleteLeaves, HasKey
<1>3. ~LiveCopy(r)'
    BY <1>1 DEF LiveCopy, StepOf
<1> QED
    BY <1>1, <1>2, <1>3, RowsGone

LEMMA DeleteRowsKeeps == ASSUME VaultInv, NEW r \in ProtectedRequests, DeleteProtectedRows(r) PROVE VaultKept
<1>0. ReadsVerified /\ RequestsAre /\ LogIs /\ StoreIs /\ VaultTypes /\ LostInv /\ MeetingsHurt /\ BothEnds
    BY DEF VaultInv, VaultTypes
<1>1. DOMAIN vault[r] = {"pc", "kind", "path", "size", "rows", "left", "made", "data", "ok"} /\ Pc(r) = "remove" /\ Running(r)
      /\ LeftOf(r) = {}
    BY <1>0, TheFields DEF DeleteProtectedRows, AtVault, Pc, Running, LeftOf
<1>2. Kind(r) = "delete" /\ Live(r) /\ LiveDelete(r) /\ RequestIs(r, vault[r]) /\ InLog(r)
  <2>1. Kind(r) = "delete" /\ RequestIs(r, vault[r])
      BY <1>0, <1>1 DEF RequestsAre, RequestIs, WriteIs, CopyIs, Kind, Pc
  <2> QED
      BY <1>0, <1>1, <2>1 DEF Live, LiveDelete, LogIs
<1>3. UNCHANGED <<blob, todo, hurt, leaky>> /\ hurt \subseteq leaky
    BY <1>0 DEF DeleteProtectedRows, StoreIs
<1>4. CASE fileRow' = WithoutRows(Mine(r)) /\ EndVault(r) /\ Close(r)
  <2>1. PICK me : me = [vault[r] EXCEPT !.pc = "end", !.ok = TRUE]
      OBVIOUS
  <2>2. GoesOn(r, me) /\ RequestIs(r, me) /\ me.pc = "end" /\ me.left = LeftOf(r)
      BY <1>1, <1>2, <1>3, <1>4, <2>1 DEF GoesOn, EndVault, Kind, PlaceOf, PlanOf, RequestIs, LeftOf
  <2>3. StepOf(r) /\ RequestsAre' /\ LogIs' /\ LeftOf(r)' = LeftOf(r)
      BY <1>0, <2>2, Advances
  <2> QED
      BY <1>1, <1>2, <1>3, <1>4, <2>3, RowsDeleted
<1>5. CASE GoVault(r, "end") /\ UNCHANGED <<fileRow, openLog>>
  <2>1. PICK me : me = [vault[r] EXCEPT !.pc = "end"]
      OBVIOUS
  <2>2. GoesOn(r, me) /\ RequestIs(r, me) /\ me.pc = "end" /\ me.left = LeftOf(r)
      BY <1>1, <1>2, <1>3, <1>5, <2>1 DEF GoesOn, GoVault, Kind, PlaceOf, PlanOf, RequestIs, LeftOf
  <2>3. StepOf(r) /\ RequestsAre' /\ LogIs' /\ LeftOf(r)' = LeftOf(r) /\ InLog(r)'
      BY <1>0, <1>2, <1>5, <2>2, Advances
  <2>4. LiveDelete(r)' /\ ~LiveCopy(r)' /\ Mine(r)' = Mine(r)
      BY <1>2, <2>3, AllSame DEF LiveDelete, LiveCopy, StepOf, Live
  <2>5. BothEnds'
      BY <1>0, <1>3, <2>3, StepsReachBothEnds
  <2>6. DeleteLeaves(r)'
    <3>1. DeleteLeaves(r)
        BY <1>0 DEF LostInv
    <3> QED
        BY <1>1, <1>2, <1>3, <1>5, <2>4, <3>1 DEF DeleteLeaves
  <2>7. WriteFits(r)' /\ CopyFits(r)' /\ CopyLeaves(r)' /\ \A k \in BlobKeys : ~Keeps(r, k)
      BY <1>2, <2>3, NotOfKind
  <2> QED
      BY <1>2, <1>3, <1>5, <2>3, <2>4, <2>5, <2>6, <2>7, QuietStepKeeps
<1> QED
    BY <1>4, <1>5 DEF DeleteProtectedRows

LEMMA RecoverDeleteKeeps == ASSUME VaultInv, RecoverProtectedDelete PROVE VaultKept
<1>0. RequestsAre /\ LogIs
    BY DEF VaultInv, VaultTypes
<1>1. PICK r : r = Head(todo)
    OBVIOUS
<1>2. Recovers(r) /\ Kind(r) = "delete" /\ UNCHANGED <<blob, hurt, leaky>> /\ fileRow' = WithoutRows(Mine(r))
    BY <1>1 DEF RecoverProtectedDelete, Recovering, Recovers, Kind
<1>3. r \in ProtectedRequests /\ StepOf(r) /\ RequestsAre' /\ LogIs' /\ ~Running(r) /\ LeftOf(r)' = LeftOf(r) /\ Live(r)
    BY <1>0, <1>2, Recoveries
<1> QED
    BY <1>2, <1>3, RowsDeleted DEF LiveDelete

LEMMA RemoveBlobKeeps == ASSUME VaultInv, NEW r \in ProtectedRequests, RemoveBlob(r) PROVE VaultKept
<1>0. ReadsVerified /\ RequestsAre /\ LogIs /\ StoreIs /\ VaultTypes /\ LostInv /\ MeetingsHurt /\ BothEnds /\ ApartInv
    BY DEF VaultInv, VaultTypes
<1>1. DOMAIN vault[r] = {"pc", "kind", "path", "size", "rows", "left", "made", "data", "ok"} /\ Pc(r) = "remove" /\ Running(r)
    BY <1>0, TheFields DEF RemoveBlob, AtVault, Pc, Running
<1>2. Kind(r) = "delete" /\ Live(r) /\ LiveDelete(r) /\ RequestIs(r, vault[r]) /\ InLog(r) /\ Works(r) = Mine(r)
  <2>1. Kind(r) = "delete" /\ RequestIs(r, vault[r])
      BY <1>0, <1>1 DEF RequestsAre, RequestIs, WriteIs, CopyIs, Kind, Pc
  <2> QED
      BY <1>0, <1>1, <2>1 DEF Live, LiveDelete, LogIs, Works
<1>3. UNCHANGED <<fileRow, openLog, todo>> /\ hurt \subseteq leaky
    BY <1>0 DEF RemoveBlob, StoreIs
<1>4. PICK k \in LeftOf(r) :
         \/ /\ blob[k] # Void /\ blob' = [blob EXCEPT ![k] = Void]
            /\ vault' = [vault EXCEPT ![r].left = @ \ {k}] /\ UNCHANGED <<hurt, leaky>>
         \/ GoVault(r, "end") /\ Spoilt(Mine(r)) /\ UNCHANGED blob
    BY DEF RemoveBlob, LeftOf
<1>5. k \in BlobKeys
    BY <1>2, <1>4 DEF RequestIs, LeftOf, Kind
<1>6. CASE /\ blob' = [blob EXCEPT ![k] = Void] /\ vault' = [vault EXCEPT ![r].left = @ \ {k}] /\ UNCHANGED <<hurt, leaky>>
  <2>1. PICK me : me = [vault[r] EXCEPT !.left = @ \ {k}]
      OBVIOUS
  <2>2. GoesOn(r, me) /\ RequestIs(r, me) /\ me.pc = "remove" /\ me.left = LeftOf(r) \ {k}
      BY <1>1, <1>2, <1>3, <1>6, <2>1 DEF GoesOn, Kind, PlaceOf, PlanOf, RequestIs, LeftOf, Pc
  <2>3. StepOf(r) /\ RequestsAre' /\ LogIs' /\ LeftOf(r)' = LeftOf(r) \ {k} /\ Running(r)'
      BY <1>0, <2>2, Advances
  <2>4. LiveDelete(r)' /\ ~LiveCopy(r)' /\ Mine(r)' = Mine(r)
      BY <1>2, <2>3, AllSame DEF LiveDelete, LiveCopy, StepOf, Live
  <2>5. blob'[k] = Void /\ \A b \in BlobKeys : b # k => blob'[b] = blob[b]
      BY <1>0, <1>5, <1>6 DEF StoreIs
  <2>6. Owns(r, k)
    <3>1. DeleteApart(r)
        BY <1>0 DEF ApartInv, DeletesApart
    <3> QED
        BY <1>1, <1>2, <1>4, <3>1 DEF DeleteApart, Owns, HasKey
  <2>7. StoreIs'
    <3>1. hurt' \subseteq leaky'
        BY <1>3, <1>6
    <3> QED
        BY <1>0, <1>3, <1>5, <1>6, <3>1, StoreStays
  <2>8. BothEnds'
      BY <1>0, <1>6, <2>3, StepsReachBothEnds
  <2>9. ApartInv'
    <3>1. \A x \in FilePaths, b \in BlobKeys : HasKey(x, b)' => HasKey(x, b)
        BY <1>3 DEF HasKey
    <3>2. \A x \in FilePaths : fileRow'[x] # Void => fileRow'[x].key \in BlobKeys
        BY <1>0, <1>3, FileRows
    <3>3. \A s \in ProtectedRequests : Pc(s) = "new" => k[1] # s
        BY <1>0, <1>1, <1>2, <1>4, <1>5 DEF ApartInv, NewKeys
    <3> QED
        BY <1>0, <2>3, <2>4, <2>5, <3>1, <3>2, <3>3, RowsComeApart
  <2>10. Touches(r)
    <3>1. ASSUME NEW s \in ProtectedRequests, s # r, LiveCopy(s), NEW q \in PlannedFiles(s)
          PROVE blob'[<<s, q>>] \in {blob[<<s, q>>], Void}
      <4>1. <<s, q>> \in BlobKeys
          BY <1>0, <3>1, PlansOf DEF LiveCopy
      <4> QED
          BY <2>5, <4>1
    <3> QED
        BY <1>3, <2>5, <2>6, <3>1 DEF Touches
  <2>11. DeleteLeaves(r)'
    <3> SUFFICES ASSUME NEW x \in FilePaths, x \in Mine(r), x \notin leaky, fileRow[x] # Void
                 PROVE fileRow[x].key \in LeftOf(r) \ {k} \/ blob'[fileRow[x].key] = Void
        BY <1>3, <1>6, <2>3, <2>4 DEF DeleteLeaves
    <3>1. fileRow[x].key \in LeftOf(r) \/ blob[fileRow[x].key] = Void
        BY <1>0, <1>2 DEF LostInv, DeleteLeaves
    <3>2. fileRow[x].key \in BlobKeys
        BY <1>0, FileRows
    <3> QED
        BY <2>5, <3>1, <3>2
  <2>12. \A x \in FilePaths \cap Works(r) : RowFits(x)'
      BY <1>2, <2>4 DEF RowFits
  <2>13. WriteFits(r)' /\ CopyFits(r)' /\ CopyLeaves(r)' /\ \A b \in BlobKeys : ~Keeps(r, b)
      BY <1>2, <2>3, NotOfKind
  <2>14. Own(r)
      BY <1>3, <2>5, <2>11, <2>12, <2>13 DEF Own
  <2> QED
      BY <2>3, <2>7, <2>8, <2>9, <2>10, <2>14, StepKeeps DEF VaultTypes
<1>7. CASE GoVault(r, "end") /\ Spoilt(Mine(r)) /\ UNCHANGED blob
  <2>1. PICK me : me = [vault[r] EXCEPT !.pc = "end"]
      OBVIOUS
  <2>2. hurt \subseteq hurt' /\ leaky \subseteq leaky' /\ hurt' \subseteq leaky' /\ hurt' = hurt \cup Mine(r) /\ Mine(r) \subseteq leaky'
      BY <1>3, <1>7 DEF Spoilt
  <2>3. GoesOn(r, me) /\ RequestIs(r, me) /\ me.pc = "end" /\ me.left = LeftOf(r)
      BY <1>1, <1>2, <1>3, <1>7, <2>1, <2>2 DEF GoesOn, GoVault, Kind, PlaceOf, PlanOf, RequestIs, LeftOf
  <2>4. StepOf(r) /\ RequestsAre' /\ LogIs' /\ LeftOf(r)' = LeftOf(r) /\ InLog(r)'
      BY <1>0, <1>2, <1>3, <2>3, Advances
  <2>5. LiveDelete(r)' /\ ~LiveCopy(r)' /\ Mine(r)' = Mine(r)
      BY <1>2, <2>4, AllSame DEF LiveDelete, LiveCopy, StepOf, Live
  <2>6. BothEnds'
      BY <1>0, <1>1, <1>2, <2>2, <2>4, StepsReachBothEnds
  <2>7. DeleteLeaves(r)'
      BY <2>2, <2>5 DEF DeleteLeaves
  <2>8. WriteFits(r)' /\ CopyFits(r)' /\ CopyLeaves(r)' /\ \A b \in BlobKeys : ~Keeps(r, b)
      BY <1>2, <2>4, NotOfKind
  <2> QED
      BY <1>2, <1>3, <1>7, <2>2, <2>4, <2>5, <2>6, <2>7, <2>8, QuietStepKeeps
<1> QED
    BY <1>4, <1>6, <1>7

-----------------------------------------------------------------------------
(* Moves                                                                    *)

\* A step of a move that changes no row.
LEMMA QuietMoveKeeps ==
    ASSUME VaultInv, NEW r \in ProtectedRequests, StepOf(r), RequestsAre', LogIs', Kind(r) = "move",
           UNCHANGED <<fileRow, blob, hurt, leaky>>
    PROVE VaultKept
<1>0. RequestsAre /\ MeetingsHurt /\ BothEnds /\ hurt \subseteq leaky
    BY DEF VaultInv, VaultTypes, StoreIs
<1>1. BothEnds'
    BY <1>0, StepsReachBothEnds
<1>2. WriteFits(r)' /\ CopyFits(r)' /\ DeleteLeaves(r)' /\ CopyLeaves(r)' /\ \A k \in BlobKeys : ~Keeps(r, k)
    BY NotOfKind
<1>3. ~LiveCopy(r)' /\ ~LiveDelete(r) /\ hurt' \subseteq leaky'
    BY <1>0 DEF LiveCopy, LiveDelete, StepOf
<1> QED
    BY <1>1, <1>2, <1>3, QuietStepKeeps

\* Where the rows of a move go.
LEMMA MovedAre ==
    ASSUME RequestsAre, NEW r \in ProtectedRequests, Kind(r) = "move", ~Blocked(PlaceOf(r)), fileRow' = MovedRows(PlaceOf(r))
    PROVE /\ \A x \in VaultPaths \ Mine(r) : fileRow'[x] = fileRow[x]
          /\ \A x \in Below(PlaceOf(r)) : fileRow'[x] = Void
          /\ \A x \in Mine(r) \ Below(PlaceOf(r)) :
               /\ Other(x) \in Below(PlaceOf(r))
               /\ fileRow[Other(x)] = Void => fileRow'[x] = fileRow[x]
               /\ fileRow[Other(x)] # Void => fileRow'[x] = fileRow[Other(x)] /\ fileRow[x] = Void
          /\ \A x \in Below(PlaceOf(r)) : Other(x) \in Mine(r) \ Below(PlaceOf(r)) /\ x = Other(Other(x)) /\ x \in Mine(r)
<1>1. PICK p : p = PlaceOf(r)
    OBVIOUS
<1>2. p \in VaultPaths /\ Other(p) \in VaultPaths /\ Other(Other(p)) = p /\ Mine(r) = Below(p) \cup Below(Other(p))
      /\ Mine(r) \subseteq VaultPaths
    BY <1>1, MineIs, ThePaths
<1>3. \A x \in Below(p) : x[1] = p[1] /\ Other(x) \in Below(Other(p))
    BY <1>2, BelowPaths
<1>4. \A x \in Below(Other(p)) : x[1] = Other(p)[1] /\ Other(x) \in Below(p)
    BY <1>2, BelowPaths
<1>5. p[1] # Other(p)[1]
    BY <1>2, ThePaths
<1>6. \A x \in Mine(r) : Other(Other(x)) = x
    BY <1>2, ThePaths
<1>7. \A x \in VaultPaths : fileRow'[x] = IF x \in Below(Other(p)) /\ fileRow[Other(x)] # Void THEN fileRow[Other(x)]
                                          ELSE IF x \in Below(p) THEN Void ELSE fileRow[x]
    BY <1>1 DEF MovedRows
<1>8. \A x \in Below(p) : fileRow[x] # Void => fileRow[Other(x)] = Void
    BY <1>1 DEF Blocked, Rows
<1>9. \A x \in Mine(r) : x \in Below(p) <=> x \notin Below(Other(p))
    BY <1>2, <1>3, <1>4, <1>5
<1>10. \A x \in Mine(r) \ Below(p) :
               /\ Other(x) \in Below(p)
               /\ fileRow[Other(x)] = Void => fileRow'[x] = fileRow[x]
               /\ fileRow[Other(x)] # Void => fileRow'[x] = fileRow[Other(x)] /\ fileRow[x] = Void
    BY <1>2, <1>4, <1>6, <1>7, <1>8, <1>9
<1>11. \A x \in Below(p) : /\ fileRow'[x] = Void /\ Other(x) \in Mine(r) \ Below(p) /\ x = Other(Other(x)) /\ x \in Mine(r)
    BY <1>2, <1>3, <1>6, <1>7, <1>9
<1>12. \A x \in VaultPaths \ Mine(r) : fileRow'[x] = fileRow[x]
    BY <1>2, <1>7
<1> QED
    BY <1>1, <1>10, <1>11, <1>12

LEMMA MoveRowsKeeps == ASSUME VaultInv, NEW r \in ProtectedRequests, MoveProtectedRows(r) PROVE VaultKept
<1>0. ReadsVerified /\ RequestsAre /\ LogIs /\ StoreIs /\ VaultTypes /\ LostInv /\ MeetingsHurt /\ BothEnds /\ ApartInv /\ KeptFit
    BY DEF VaultInv, VaultTypes
<1>1. DOMAIN vault[r] = {"pc", "kind", "path", "size", "rows", "left", "made", "data", "ok"} /\ Pc(r) = "rename" /\ Running(r)
    BY <1>0, TheFields DEF MoveProtectedRows, AtVault, Pc, Running
<1>2. Kind(r) = "move" /\ Live(r) /\ RequestIs(r, vault[r]) /\ InLog(r) /\ Works(r) = Mine(r) /\ Kind(r) # "read"
  <2>1. Kind(r) = "move" /\ RequestIs(r, vault[r])
      BY <1>0, <1>1 DEF RequestsAre, RequestIs, WriteIs, CopyIs, Kind, Pc
  <2> QED
      BY <1>0, <1>1, <2>1 DEF Live, LogIs, Works
<1>3. UNCHANGED <<blob, todo, hurt, leaky>> /\ hurt \subseteq leaky
    BY <1>0 DEF MoveProtectedRows, StoreIs
<1>4. CASE GoVault(r, "end") /\ UNCHANGED <<fileRow, openLog>>
  <2>1. PICK me : me = [vault[r] EXCEPT !.pc = "end"]
      OBVIOUS
  <2>2. GoesOn(r, me) /\ RequestIs(r, me)
      BY <1>1, <1>2, <1>3, <1>4, <2>1 DEF GoesOn, GoVault, Kind, PlaceOf, PlanOf, RequestIs
  <2>3. StepOf(r) /\ RequestsAre' /\ LogIs'
      BY <1>0, <2>2, Advances
  <2> QED
      BY <1>2, <1>3, <1>4, <2>3, QuietMoveKeeps
<1>5. CASE ~Blocked(PlaceOf(r)) /\ fileRow' = MovedRows(PlaceOf(r)) /\ EndVault(r) /\ Close(r)
  <2>1. PICK me : me = [vault[r] EXCEPT !.pc = "end", !.ok = TRUE]
      OBVIOUS
  <2>2. GoesOn(r, me) /\ RequestIs(r, me) /\ me.pc = "end"
      BY <1>1, <1>2, <1>3, <1>5, <2>1 DEF GoesOn, EndVault, Kind, PlaceOf, PlanOf, RequestIs
  <2>3. StepOf(r) /\ RequestsAre' /\ LogIs' /\ ~Running(r)' /\ ~InLog(r)' /\ todo = <<>> /\ Range(todo) = {}
      BY <1>0, <1>5, <2>2, Advances
  <2>4. \A s \in ProtectedRequests :
          /\ Kind(s)' = Kind(s) /\ (Running(s)' => Running(s) /\ s # r) /\ (LiveWrite(s)' => LiveWrite(s) /\ s # r)
          /\ (LiveCopy(s)' => LiveCopy(s) /\ s # r) /\ (Pc(s)' = "new" => Pc(s) = "new")
      BY <2>3, AllSame DEF StepOf, LiveWrite, LiveCopy, Live
  <2>5. PICK B : B = Below(PlaceOf(r))
      OBVIOUS
  <2>6. /\ \A x \in VaultPaths \ Mine(r) : fileRow'[x] = fileRow[x]
        /\ \A x \in B : fileRow'[x] = Void
        /\ \A x \in Mine(r) \ B :
               /\ Other(x) \in B
               /\ fileRow[Other(x)] = Void => fileRow'[x] = fileRow[x]
               /\ fileRow[Other(x)] # Void => fileRow'[x] = fileRow[Other(x)] /\ fileRow[x] = Void
        /\ \A x \in B : Other(x) \in Mine(r) \ B /\ x = Other(Other(x)) /\ x \in Mine(r)
      BY <1>0, <1>2, <1>5, <2>5, MovedAre
  <2>7. Mine(r) \subseteq VaultPaths /\ \A x \in Mine(r) \cap hurt : Other(x) \in hurt
      BY <1>0, <1>1, <1>2, MineIs DEF BothEnds
  <2>8. \A x \in FilePaths : x \in VaultPaths /\ Other(x) \in FilePaths /\ Other(Other(x)) = x
      BY FilesArePaths, ThePaths
  <2>9. ASSUME NEW x \in FilePaths, NEW k \in BlobKeys, HasKey(x, k)'
        PROVE \/ HasKey(x, k) /\ fileRow'[x] = fileRow[x] /\ x \notin B
              \/ x \in Mine(r) \ B /\ HasKey(Other(x), k) /\ Other(x) \in B
      BY <2>6, <2>8, <2>9 DEF HasKey
  \* What has been met at one end has been met at the other.
  <2>10. ASSUME NEW x \in Mine(r) \ B, Other(x) \in hurt PROVE x \in hurt
      BY <2>6, <2>7, <2>10, ThePaths
  <2>11. ASSUME NEW s \in ProtectedRequests, s # r, Live(s), Kind(s) # "read", NEW x \in Mine(r) \cap Mine(s) PROVE x \in hurt
      BY <1>0, <1>2, <2>11, TheyMet
  <2>12. ASSUME NEW s \in ProtectedRequests, s # r, Running(s), NEW x \in Mine(r) \cap Mine(s)
         PROVE Mine(s) \subseteq hurt /\ Mine(r) \subseteq hurt
      BY <1>0, <1>1, <1>2, <2>12 DEF MeetingsHurt, Overlap
  <2>13. ASSUME NEW x \in FilePaths \cap (Mine(r) \ B), NEW k \in BlobKeys, HasKey(Other(x), k) PROVE Comes(x, k)
    <3>1. PICK o : o = Other(x)
        OBVIOUS
    <3>2. o \in FilePaths /\ o \in B /\ o \in Mine(r) /\ HasKey(o, k) /\ (o \in hurt => x \in hurt)
        BY <2>6, <2>8, <2>10, <2>13, <3>1
    <3>3. ASSUME NEW y \in FilePaths, y # x, HasKey(y, k)' PROVE {x, y} \subseteq hurt'
      <4>1. CASE HasKey(y, k) /\ y \notin B
        <5>1. y # o /\ fileRow[o] # Void /\ fileRow[y] # Void /\ HasKey(y, fileRow[o].key) /\ HasKey(o, fileRow[y].key)
            BY <3>2, <4>1 DEF HasKey
        <5>2. y \in hurt /\ o \in hurt
            BY <1>0, <3>2, <5>1 DEF ApartInv, RowsApart
        <5> QED
            BY <1>3, <3>2, <5>2
      <4>2. CASE y \in Mine(r) \ B /\ HasKey(Other(y), k) /\ Other(y) \in B
        <5>1. Other(y) # o /\ Other(y) \in FilePaths
            BY <2>8, <3>1, <3>3
        <5>2. /\ fileRow[o] # Void /\ fileRow[Other(y)] # Void
              /\ HasKey(Other(y), fileRow[o].key) /\ HasKey(o, fileRow[Other(y)].key)
            BY <3>2, <4>2 DEF HasKey
        <5>3. Other(y) \in hurt /\ o \in hurt
            BY <1>0, <3>2, <5>1, <5>2 DEF ApartInv, RowsApart
        <5> QED
            BY <1>3, <2>10, <3>2, <4>2, <5>3
      <4> QED
          BY <2>9, <3>3, <4>1, <4>2
    <3>4. ASSUME NEW s \in ProtectedRequests, LiveWrite(s)', WriteKey(s) = k, PlaceOf(s) # x PROVE {x, PlaceOf(s)} \subseteq hurt'
      <4>1. WriteApart(s) /\ LiveWrite(s) /\ s # r /\ Live(s) /\ Kind(s) = "write" /\ PlaceOf(s) \in Mine(s)
          BY <1>0, <2>4, <3>4, MineIs DEF ApartInv, WritesApart, LiveWrite
      <4>2. CASE o # PlaceOf(s)
          BY <1>3, <3>2, <3>4, <4>1, <4>2 DEF WriteApart
      <4>3. CASE o = PlaceOf(s)
          BY <1>3, <2>11, <3>2, <4>1, <4>3
      <4> QED
          BY <4>2, <4>3
    <3>5. ASSUME NEW s \in ProtectedRequests, LiveCopy(s)', NEW q \in PlannedFiles(s), <<s, q>> = k
          PROVE x \in hurt' /\ Mine(s) \subseteq hurt'
      <4>1. CopyApart(s) /\ LiveCopy(s) /\ s # r /\ Kind(s) = "copy"
          BY <1>0, <2>4, <3>5 DEF ApartInv, CopiesApart, LiveCopy
      <4>2. CASE o # q \/ q \notin RowsMade(s)
          BY <1>3, <3>2, <3>5, <4>1, <4>2 DEF CopyApart
      <4>3. CASE o = q /\ q \in RowsMade(s)
        <5>1. Running(s)
            BY <2>3, <4>3 DEF RowsMade, Running, Pc
        <5>2. o \in Mine(s)
            BY <1>0, <4>1, <4>3, PlansOf
        <5>3. Mine(s) \subseteq hurt /\ Mine(r) \subseteq hurt
            BY <2>12, <3>2, <4>1, <5>1, <5>2
        <5> QED
            BY <1>3, <2>13, <5>3
      <4> QED
          BY <4>2, <4>3
    <3>6. ASSUME NEW s \in ProtectedRequests, Running(s)', Kind(s) = "delete", k \in LeftOf(s)' PROVE x \in Mine(s) \cup hurt'
      <4>1. DeleteApart(s) /\ Running(s) /\ s # r /\ LeftOf(s)' = LeftOf(s)
          BY <1>0, <2>3, <2>4, <3>6, OthersSame DEF ApartInv, DeletesApart
      <4>2. o \in Mine(s) \cup hurt
          BY <3>2, <3>6, <4>1 DEF DeleteApart, HasKey
      <4>3. o \in Mine(s) => Mine(r) \subseteq hurt
          BY <2>12, <3>2, <4>1
      <4> QED
          BY <1>3, <2>13, <3>2, <4>2, <4>3
    <3>7. \A s \in ProtectedRequests : Pc(s)' = "new" => k[1] # s
        BY <1>0, <2>4, <3>2 DEF ApartInv, NewKeys
    <3> QED
        BY <3>3, <3>4, <3>5, <3>6, <3>7 DEF Comes
  <2>14. ApartInv'
    <3>1. \A x \in FilePaths, k \in BlobKeys : HasKey(x, k)' => HasKey(x, k) \/ Comes(x, k)
        BY <2>9, <2>13
    <3>2. \A x \in FilePaths : fileRow'[x] # Void => fileRow'[x].key \in BlobKeys
      <4>1. \A x \in FilePaths : fileRow[x] # Void => fileRow[x].key \in BlobKeys
          BY <1>0, FileRows
      <4> QED
          BY <2>6, <2>8, <4>1
    <3>3. ~LiveCopy(r)'
        BY <2>4
    <3> QED
        BY <1>0, <1>2, <1>3, <2>3, <3>1, <3>2, <3>3, RowsComeApart
  <2>15. StoreIs'
    <3>1. ASSUME NEW x \in VaultPaths PROVE RowIs(x, fileRow'[x])
      <4>1. RowIs(x, fileRow[x]) /\ RowIs(Other(x), fileRow[Other(x)]) /\ RowIs(x, Void)
          BY <1>0, ThePaths DEF StoreIs, RowIs
      <4>2. EndsOf(Other(x)) = EndsOf(x) /\ (IsFile(Other(x)) <=> IsFile(x))
          BY ThePaths, TheEnds DEF EndsOf
      <4>3. RowIs(x, fileRow[Other(x)])
        <5>1. PICK e : e = fileRow[Other(x)]
            OBVIOUS
        <5>2. RowIs(Other(x), e)
            BY <4>1, <5>1
        <5>3. RowIs(x, e)
            BY <4>2, <5>2, Zenon DEF RowIs
        <5> QED
            BY <5>1, <5>3
      <4>4. fileRow'[x] \in {fileRow[x], fileRow[Other(x)], Void}
          BY <2>6
      <4>5. PICK e : e = fileRow'[x]
          OBVIOUS
      <4>6. RowIs(x, e)
          BY <4>1, <4>3, <4>4, <4>5
      <4> QED
          BY <4>5, <4>6
    <3>2. fileRow' = [x \in VaultPaths |-> fileRow'[x]]
        BY <1>5 DEF MovedRows
    <3> QED
        BY <1>0, <1>3, <3>1, <3>2 DEF StoreIs
  <2>16. BothEnds'
      BY <1>0, <1>3, <2>3, StepsReachBothEnds
  <2>17. Touches(r)
      BY <1>2, <1>3, <2>6, <2>8 DEF Touches
  <2>18. ASSUME NEW x \in FilePaths \cap Works(r) PROVE RowFits(x)'
    <3> SUFFICES ASSUME x \notin hurt', fileRow'[x] # Void PROVE RowFits(x)'
        BY DEF RowFits
    <3>1. x \in Mine(r) \ B /\ x \notin hurt /\ RowFits(x) /\ RowFits(Other(x))
        BY <1>0, <1>2, <1>3, <2>6, <2>8 DEF KeptFit
    <3>2. CASE fileRow[Other(x)] = Void
      <4>1. fileRow'[x] = fileRow[x]
          BY <2>6, <3>1, <3>2
      <4>2. ASSUME NEW s \in ProtectedRequests, Kind(s) = "write", Pc(s) = "row", PlaceOf(s) = x PROVE RowFits(x)'
        <5>1. Kind(s)' = "write" /\ Pc(s)' = "row" /\ PlaceOf(s)' = x
            BY <1>2, <2>3, <4>2, OthersSame
        <5> QED
            BY <5>1 DEF RowFits
      <4>3. ASSUME NEW s \in ProtectedRequests, LiveDelete(s), x \in Mine(s) PROVE RowFits(x)'
        <5>1. LiveDelete(s)' /\ x \in Mine(s)'
            BY <1>2, <2>3, <4>3, OthersSame, AllSame DEF LiveDelete
        <5> QED
            BY <5>1 DEF RowFits
      <4> QED
          BY <1>3, <3>1, <4>1, <4>2, <4>3 DEF RowFits
    <3>3. CASE fileRow[Other(x)] # Void
      <4>1. fileRow'[x] = fileRow[Other(x)] /\ Other(x) \notin hurt /\ Other(x) \in Mine(r)
          BY <2>6, <2>10, <3>1, <3>3
      <4>2. ASSUME NEW s \in ProtectedRequests, Kind(s) = "write", Pc(s) = "row", PlaceOf(s) = Other(x) PROVE FALSE
        <5>1. Other(x) \in Mine(s) /\ Live(s) /\ s # r
            BY <1>0, <1>2, <4>2, MineIs DEF Live, Running, Pc
        <5> QED
            BY <2>11, <4>1, <4>2, <5>1
      <4>3. ASSUME NEW s \in ProtectedRequests, LiveDelete(s), Other(x) \in Mine(s) PROVE FALSE
          BY <1>2, <2>11, <4>1, <4>3 DEF LiveDelete
      <4>4. blob[fileRow[Other(x)].key] = fileRow[Other(x)].meta
          BY <3>1, <3>3, <4>1, <4>2, <4>3 DEF RowFits
      <4> QED
          BY <1>3, <4>1, <4>4 DEF RowFits
    <3> QED
        BY <3>2, <3>3
  <2>19. ASSUME NEW k \in BlobKeys, NEW x \in FilePaths \cap Works(r), HasKey(x, k), fileRow'[x] # fileRow[x] PROVE BlobHeld(k)'
    <3>1. x \in B
        BY <1>2, <2>6, <2>19 DEF HasKey
    <3>2. Other(x) \in Mine(r) \ B /\ Other(x) \in FilePaths /\ Other(Other(x)) = x
        BY <2>6, <2>8, <3>1
    <3>3. HasKey(Other(x), k)'
        BY <2>6, <2>19, <3>2 DEF HasKey
    <3> QED
        BY <3>2, <3>3 DEF BlobHeld
  <2>20. WriteFits(r)' /\ CopyFits(r)' /\ DeleteLeaves(r)' /\ CopyLeaves(r)' /\ \A k \in BlobKeys : ~Keeps(r, k)
      BY <1>2, <2>3, NotOfKind
  <2>21. Own(r)
      BY <1>3, <2>18, <2>19, <2>20 DEF Own
  <2> QED
      BY <2>3, <2>14, <2>15, <2>16, <2>17, <2>21, StepKeeps DEF VaultTypes
<1> QED
    BY <1>4, <1>5 DEF MoveProtectedRows, PlaceOf

LEMMA RecoverMoveKeeps == ASSUME VaultInv, RecoverProtectedMove PROVE VaultKept
<1>0. RequestsAre /\ LogIs
    BY DEF VaultInv, VaultTypes
<1>1. PICK r : r = Head(todo)
    OBVIOUS
<1>2. Recovers(r) /\ Kind(r) = "move" /\ UNCHANGED <<fileRow, blob, hurt, leaky>>
    BY <1>1 DEF RecoverProtectedMove, Recovering, Recovers, Kind
<1>3. r \in ProtectedRequests /\ StepOf(r) /\ RequestsAre' /\ LogIs'
    BY <1>0, <1>2, Recoveries
<1> QED
    BY <1>2, <1>3, QuietMoveKeeps

-----------------------------------------------------------------------------
(* Copies                                                                   *)

\* A row that a copy or a move leaves alone.
LEMMA RowStays ==
    ASSUME VaultInv, NEW r \in ProtectedRequests, StepOf(r), Kind(r) \notin {"write", "delete"},
           NEW x \in FilePaths, fileRow'[x] = fileRow[x],
           x \notin hurt /\ fileRow[x] # Void => blob'[fileRow[x].key] = blob[fileRow[x].key]
    PROVE RowFits(x)'
<1> SUFFICES ASSUME x \notin hurt', fileRow[x] # Void PROVE RowFits(x)'
    BY DEF RowFits
<1>1. RowFits(x) /\ x \notin hurt
    BY DEF VaultInv, KeptFit, StepOf
<1>2. ASSUME NEW s \in ProtectedRequests, Kind(s) = "write", Pc(s) = "row", PlaceOf(s) = x PROVE RowFits(x)'
  <2>1. Kind(s)' = "write" /\ Pc(s)' = "row" /\ PlaceOf(s)' = x
      BY <1>2, OthersSame
  <2> QED
      BY <2>1 DEF RowFits
<1>3. ASSUME NEW s \in ProtectedRequests, LiveDelete(s), x \in Mine(s) PROVE RowFits(x)'
  <2>1. LiveDelete(s)' /\ x \in Mine(s)'
      BY <1>3, OthersSame, AllSame DEF LiveDelete
  <2> QED
      BY <2>1 DEF RowFits
<1> QED
    BY <1>1, <1>2, <1>3 DEF RowFits

\* The blobs of a copy are its own until it has rows.
LEMMA CopierOwns ==
    ASSUME VaultInv, NEW r \in ProtectedRequests, LiveCopy(r), NEW q \in PlannedFiles(r), RowsMade(r) = {}
    PROVE /\ Owns(r, <<r, q>>) /\ \A y \in FilePaths : HasKey(y, <<r, q>>) => y \in hurt
<1>0. ApartInv
    BY DEF VaultInv
<1>1. \A s \in ProtectedRequests : s # r /\ LiveWrite(s) /\ WriteKey(s) = <<r, q>> => PlaceOf(s) \in hurt
    BY <1>0 DEF ApartInv, WritesApart, WriteApart
<1>2. \A y \in FilePaths : HasKey(y, <<r, q>>) => y \in hurt
    BY <1>0 DEF ApartInv, CopiesApart, CopyApart
<1> QED
    BY <1>1, <1>2 DEF Owns

\* Its rows share them with none.
LEMMA CopiedComes ==
    ASSUME VaultInv, NEW r \in ProtectedRequests, StepOf(r), LiveCopy(r), Pc(r) # "new", NEW q \in PlannedFiles(r),
           LiveCopy(r)' => q \in RowsMade(r)',
           \A y \in FilePaths : y # q /\ HasKey(y, <<r, q>>)' => HasKey(y, <<r, q>>)
    PROVE Comes(q, <<r, q>>)
<1>0. RequestsAre /\ ApartInv /\ Kind(r) = "copy" /\ hurt \subseteq hurt'
    BY DEF VaultInv, VaultTypes, LiveCopy, StepOf
<1>1. q \in Mine(r) /\ q \in FilePaths /\ <<r, q>> \in BlobKeys
    BY <1>0, PlansOf DEF PlannedFiles
<1>2. \A y \in FilePaths : y # q /\ HasKey(y, <<r, q>>)' => {q, y} \subseteq hurt'
    BY <1>0, <1>1 DEF ApartInv, CopiesApart, CopyApart
<1>3. ASSUME NEW s \in ProtectedRequests, LiveWrite(s)', WriteKey(s) = <<r, q>> PROVE {q, PlaceOf(s)} \subseteq hurt'
  <2>1. LiveWrite(s) /\ WriteApart(s)
      BY <1>0, <1>3, AllSame DEF ApartInv, WritesApart
  <2> QED
      BY <1>0, <1>1, <1>3, <2>1 DEF WriteApart
<1>4. ASSUME NEW s \in ProtectedRequests, LiveCopy(s)', NEW x \in PlannedFiles(s), <<s, x>> = <<r, q>> PROVE x = q /\ q \in RowsMade(s)'
    BY <1>4
<1>5. ASSUME NEW s \in ProtectedRequests, Running(s)', Kind(s) = "delete", <<r, q>> \in LeftOf(s)' PROVE q \in Mine(s) \cup hurt'
  <2>1. Running(s) /\ LeftOf(s)' = LeftOf(s) /\ DeleteApart(s)
      BY <1>0, <1>5, OthersSame DEF ApartInv, DeletesApart, StepOf
  <2> QED
      BY <1>0, <1>5, <2>1 DEF DeleteApart
<1>6. \A s \in ProtectedRequests : Pc(s)' = "new" => <<r, q>>[1] # s
    BY DEF StepOf
<1> QED
    BY <1>2, <1>3, <1>4, <1>5, <1>6 DEF Comes

\* What a copy's step begins with.
LEMMA CopyIsAt ==
    ASSUME VaultInv, NEW r \in ProtectedRequests, Pc(r) \in {"copy", "rows", "undo", "undoBlobs"}
    PROVE /\ DOMAIN vault[r] = {"pc", "kind", "path", "size", "rows", "left", "made", "data", "ok"}
          /\ RequestIs(r, vault[r]) /\ Kind(r) = "copy" /\ Running(r) /\ Live(r) /\ LiveCopy(r) /\ InLog(r)
          /\ Works(r) = Mine(r) /\ ~LiveDelete(r) /\ (Pc(r) \in {"copy", "undoBlobs"} => RowsMade(r) = {})
          /\ CopyFits(r) /\ CopyLeaves(r) /\ CopyIs(r, vault[r])
          /\ \A k \in BlobKeys : Keeps(r, k) =>
                k \in vault[r].made \/ (Pc(r) = "undoBlobs" /\ vault[r].made # {} /\ k[2] \in Mine(r))
<1>0. ReadsVerified /\ RequestsAre /\ LogIs /\ KeptFit /\ LostInv
    BY DEF VaultInv, VaultTypes
<1>1. Kind(r) = "copy" /\ RequestIs(r, vault[r]) /\ Running(r)
    BY <1>0 DEF RequestsAre, RequestIs, WriteIs, CopyIs, Kind, Pc, Running
<1>2. Live(r) /\ InLog(r)
    BY <1>0, <1>1 DEF LogIs, Live
<1>3. \A k \in BlobKeys : Keeps(r, k) =>
                k \in vault[r].made \/ (Pc(r) = "undoBlobs" /\ vault[r].made # {} /\ k[2] \in Mine(r))
    BY <1>1 DEF Keeps, LiveWrite
<1>4. CopyIs(r, vault[r])
    BY <1>1 DEF RequestIs, Kind
<1>5. Pc(r) \in {"copy", "undoBlobs"} => RowsMade(r) = {}
    BY DEF RowsMade
<1>6. Works(r) = Mine(r) /\ ~LiveDelete(r) /\ LiveCopy(r)
    BY <1>1, <1>2 DEF Works, LiveDelete, LiveCopy
<1> QED
    BY <1>0, <1>1, <1>2, <1>3, <1>4, <1>5, <1>6, TheFields DEF KeptFit, LostInv

\* A step of a copy that changes neither rows nor blobs.
LEMMA QuietCopyKeeps ==
    ASSUME VaultInv, NEW r \in ProtectedRequests, StepOf(r), RequestsAre', LogIs', Kind(r) = "copy",
           UNCHANGED <<fileRow, blob, hurt, leaky>>, LiveCopy(r)' => RowsMade(r) \subseteq RowsMade(r)',
           CopyFits(r)', CopyLeaves(r)',
           \A k \in BlobKeys : blob[k] # Void /\ EndsOf(k[2]) \cap leaky' = {} /\ Keeps(r, k) => BlobHeld(k)'
    PROVE VaultKept
<1>0. RequestsAre /\ MeetingsHurt /\ BothEnds /\ hurt \subseteq leaky
    BY DEF VaultInv, VaultTypes, StoreIs
<1>1. BothEnds'
    BY <1>0, StepsReachBothEnds
<1>2. WriteFits(r)' /\ DeleteLeaves(r)'
    BY NotOfKind
<1>3. ~LiveDelete(r) /\ hurt' \subseteq leaky'
    BY <1>0 DEF LiveDelete
<1> QED
    BY <1>1, <1>2, <1>3, QuietStepKeeps

LEMMA BlobsCopiedKeeps == ASSUME VaultInv, NEW r \in ProtectedRequests, BlobsCopied(r) PROVE VaultKept
<1>0. ReadsVerified /\ RequestsAre /\ LogIs
    BY DEF VaultInv, VaultTypes
<1>1. Pc(r) = "copy" /\ LeftOf(r) = {} /\ UNCHANGED <<fileRow, blob, openLog, todo, hurt, leaky>>
    BY DEF BlobsCopied, AtVault, Pc, LeftOf
<1>2. /\ DOMAIN vault[r] = {"pc", "kind", "path", "size", "rows", "left", "made", "data", "ok"}
      /\ RequestIs(r, vault[r]) /\ CopyIs(r, vault[r]) /\ Kind(r) = "copy" /\ Running(r) /\ Live(r) /\ LiveCopy(r)
      /\ RowsMade(r) = {} /\ CopyFits(r) /\ CopyLeaves(r) /\ \A k \in BlobKeys : Keeps(r, k) => k \in vault[r].made
    BY <1>1, CopyIsAt
<1>3. PICK me : me = [vault[r] EXCEPT !.pc = "rows", !.left = DOMAIN vault[r].rows]
    OBVIOUS
<1>4. GoesOn(r, me) /\ me.pc = "rows" /\ me.left = DOMAIN PlanOf(r) /\ me.made = vault[r].made
    BY <1>1, <1>2, <1>3 DEF GoesOn, BlobsCopied, Kind, PlaceOf, PlanOf
<1>5. RequestIs(r, me)
    BY <1>1, <1>2, <1>3 DEF RequestIs, CopyIs, Kind, Pc, LeftOf
<1>6. /\ StepOf(r) /\ RequestsAre' /\ LogIs' /\ Pc(r)' = "rows" /\ LeftOf(r)' = DOMAIN PlanOf(r) /\ Running(r)'
      /\ vault'[r].made = vault[r].made /\ PlanOf(r)' = PlanOf(r) /\ PlannedFiles(r)' = PlannedFiles(r) /\ Kind(r)' = "copy"
      /\ Mine(r)' = Mine(r)
    BY <1>0, <1>2, <1>4, <1>5, Advances, AllSame DEF StepOf
<1>7. RowsMade(r)' = {}
    BY <1>6 DEF RowsMade
<1>8. CopyFits(r)'
    BY <1>1, <1>2, <1>6 DEF CopyFits
<1>9. CopyLeaves(r)'
    BY <1>1, <1>2, <1>6, <1>7 DEF CopyLeaves
<1>10. \A k \in BlobKeys : Keeps(r, k) => BlobHeld(k)'
    BY <1>2, <1>6 DEF BlobHeld, Keeps
<1> QED
    BY <1>1, <1>2, <1>6, <1>7, <1>8, <1>9, <1>10, QuietCopyKeeps

LEMMA EndCopyKeeps == ASSUME VaultInv, NEW r \in ProtectedRequests, EndCopy(r) PROVE VaultKept
<1>0. ReadsVerified /\ RequestsAre /\ LogIs /\ StoreIs
    BY DEF VaultInv, VaultTypes
<1>1. Pc(r) = "rows" /\ LeftOf(r) = {} /\ UNCHANGED <<fileRow, blob, todo, hurt, leaky>> /\ EndVault(r) /\ Close(r)
    BY DEF EndCopy, AtVault, Pc, LeftOf
<1>2. /\ DOMAIN vault[r] = {"pc", "kind", "path", "size", "rows", "left", "made", "data", "ok"}
      /\ RequestIs(r, vault[r]) /\ CopyIs(r, vault[r]) /\ Kind(r) = "copy" /\ Running(r) /\ Live(r) /\ LiveCopy(r)
      /\ CopyLeaves(r) /\ \A k \in BlobKeys : Keeps(r, k) => k \in vault[r].made
    BY <1>1, CopyIsAt
<1>3. PICK me : me = [vault[r] EXCEPT !.pc = "end", !.ok = TRUE]
    OBVIOUS
<1>4. GoesOn(r, me) /\ me.pc = "end"
    BY <1>1, <1>2, <1>3 DEF GoesOn, EndVault, Kind, PlaceOf, PlanOf
<1>5. RequestIs(r, me)
    BY <1>1, <1>2, <1>3 DEF RequestIs, CopyIs, Kind, Pc
<1>6. StepOf(r) /\ RequestsAre' /\ LogIs' /\ ~LiveCopy(r)'
    BY <1>0, <1>1, <1>4, <1>5, Advances DEF LiveCopy, Live
<1>7. CopyFits(r)' /\ CopyLeaves(r)'
    BY <1>6 DEF CopyFits, CopyLeaves
<1>8. ASSUME NEW k \in BlobKeys, EndsOf(k[2]) \cap leaky' = {}, Keeps(r, k) PROVE BlobHeld(k)'
  <2>1. PICK x \in PlannedFiles(r) : k = <<r, x>>
      BY <1>1, <1>2, <1>8 DEF CopyIs, PlannedFiles, PlanOf, Pc
  <2>2. x \in RowsMade(r) /\ x \in FilePaths /\ Row(PlanOf(r)[x]) = [key |-> k, meta |-> PlanOf(r)[x].meta]
        /\ PlanOf(r)[x].meta \in Payload
      BY <1>0, <1>1, <1>2, <2>1, PlansOf DEF RowsMade, PlannedFiles
  <2>3. x \notin hurt
      BY <1>0, <1>1, <1>8, <2>1 DEF EndsOf, StoreIs
  <2>4. fileRow[x] = [key |-> k, meta |-> PlanOf(r)[x].meta]
      BY <1>2, <2>2, <2>3 DEF CopyLeaves
  <2>5. fileRow[x] # Void
      BY <1>8, <2>2, <2>4, VaultAssumption DEF VaultRow
  <2> QED
      BY <1>1, <2>2, <2>4, <2>5 DEF BlobHeld, HasKey
<1> QED
    BY <1>1, <1>2, <1>6, <1>7, <1>8, QuietCopyKeeps

LEMMA CopyBlobKeeps == ASSUME VaultInv, NEW r \in ProtectedRequests, CopyBlob(r) PROVE VaultKept
<1>0. ReadsVerified /\ RequestsAre /\ LogIs /\ StoreIs /\ VaultTypes /\ MeetingsHurt /\ BothEnds /\ ApartInv
    BY DEF VaultInv, VaultTypes
<1>1. Pc(r) = "copy" /\ UNCHANGED <<fileRow, openLog, todo, hurt, leaky>> /\ hurt \subseteq leaky
    BY <1>0 DEF CopyBlob, AtVault, Pc, StoreIs
<1>2. /\ DOMAIN vault[r] = {"pc", "kind", "path", "size", "rows", "left", "made", "data", "ok"}
      /\ RequestIs(r, vault[r]) /\ CopyIs(r, vault[r]) /\ Kind(r) = "copy" /\ Running(r) /\ Live(r) /\ LiveCopy(r)
      /\ RowsMade(r) = {} /\ CopyFits(r) /\ CopyLeaves(r) /\ \A b \in BlobKeys : Keeps(r, b) => b \in vault[r].made
      /\ Works(r) = Mine(r) /\ InLog(r)
    BY <1>1, CopyIsAt
<1>3. PICK q \in LeftOf(r) :
        \/ /\ blob[PlanOf(r)[q].src] # Void /\ blob' = [blob EXCEPT ![PlanOf(r)[q].key] = blob[PlanOf(r)[q].src]]
           /\ vault' = [vault EXCEPT ![r].left = @ \ {q}, ![r].made = @ \cup {PlanOf(r)[q].key}]
        \/ vault' = [vault EXCEPT ![r].pc = "undo", ![r].left = {}] /\ UNCHANGED blob
    BY DEF CopyBlob, LeftOf, PlanOf
<1>4. q \in PlannedFiles(r)
    BY <1>1, <1>2 DEF CopyIs, PlannedFiles, PlanOf, LeftOf, Pc
<1>5. /\ q \in FilePaths /\ PlanOf(r)[q].key = <<r, q>> /\ <<r, q>> \in BlobKeys /\ PlanOf(r)[q].src \in BlobKeys
      /\ PlannedFiles(r) \subseteq FilePaths /\ \A x \in PlannedFiles(r) : <<r, x>> \in BlobKeys /\ PlanOf(r)[x].src \in BlobKeys
      /\ \A x \in PlannedFiles(r) : Other(x) \in Below(PlaceOf(r)) /\ x = Other(Other(x)) /\ Other(x) \in FilePaths
  <2>1. \A x \in PlannedFiles(r) : /\ PlanOf(r)[x].key = <<r, x>> /\ <<r, x>> \in BlobKeys /\ x \in FilePaths
                                   /\ Other(x) \in Below(PlaceOf(r))
      BY <1>0, <1>2, PlansOf DEF PlannedFiles
  <2>2. \A x \in PlannedFiles(r) : PlanOf(r)[x].src \in BlobKeys
      BY <1>2 DEF CopyIs, PlannedFiles, PlanOf
  <2>3. \A x \in FilePaths : x = Other(Other(x)) /\ Other(x) \in FilePaths
      BY FilesArePaths, ThePaths
  <2> QED
      BY <1>4, <2>1, <2>2, <2>3
<1>6. CASE /\ blob[PlanOf(r)[q].src] # Void /\ blob' = [blob EXCEPT ![PlanOf(r)[q].key] = blob[PlanOf(r)[q].src]]
           /\ vault' = [vault EXCEPT ![r].left = @ \ {q}, ![r].made = @ \cup {PlanOf(r)[q].key}]
  <2>1. PICK k, b : k = <<r, q>> /\ b = blob[PlanOf(r)[q].src]
      OBVIOUS
  <2>2. /\ k \in BlobKeys /\ b \in Payload /\ blob' = [blob EXCEPT ![k] = b] /\ blob'[k] = b
        /\ \A c \in BlobKeys : c # k => blob'[c] = blob[c]
      BY <1>0, <1>5, <1>6, <2>1 DEF StoreIs
  <2>3. PICK me : me = [vault[r] EXCEPT !.left = @ \ {q}, !.made = @ \cup {k}]
      OBVIOUS
  <2>4. GoesOn(r, me) /\ me.pc = "copy" /\ me.left = LeftOf(r) \ {q} /\ me.made = vault[r].made \cup {k}
      BY <1>1, <1>2, <1>5, <1>6, <2>1, <2>3 DEF GoesOn, Kind, PlaceOf, PlanOf, LeftOf, Pc
  <2>5. RequestIs(r, me)
    <3>1. /\ me.pc = "copy" /\ me.kind = "copy" /\ me.path = vault[r].path /\ me.rows = vault[r].rows
          /\ me.left = vault[r].left \ {q} /\ me.made = vault[r].made \cup {<<r, q>>}
          /\ q \in {x \in DOMAIN vault[r].rows : IsFile(x)}
        BY <1>2, <1>4, <2>1, <2>3, <2>4 DEF Kind, PlannedFiles, PlanOf, LeftOf
    <3>2. CopyIs(r, me)
        BY <1>1, <1>2, <1>3, <3>1 DEF CopyIs, Pc, LeftOf
    <3> QED
        BY <1>2, <3>1, <3>2 DEF RequestIs
  <2>6. /\ StepOf(r) /\ RequestsAre' /\ LogIs' /\ Pc(r)' = "copy" /\ LeftOf(r)' = LeftOf(r) \ {q} /\ Running(r)'
        /\ vault'[r].made = vault[r].made \cup {k} /\ PlanOf(r)' = PlanOf(r) /\ PlannedFiles(r)' = PlannedFiles(r)
        /\ Kind(r)' = "copy" /\ Mine(r)' = Mine(r)
      BY <1>0, <1>2, <2>4, <2>5, Advances, AllSame DEF StepOf
  <2>7. RowsMade(r)' = {}
      BY <2>6 DEF RowsMade
  <2>8. Owns(r, k) /\ \A y \in FilePaths : HasKey(y, k) => y \in hurt
      BY <1>2, <1>4, <2>1, CopierOwns
  <2>9. StoreIs'
    <3>1. hurt' \subseteq leaky'
        BY <1>1
    <3> QED
        BY <1>0, <1>1, <2>2, <3>1, StoreStays
  <2>10. BothEnds'
      BY <1>0, <1>1, <2>6, StepsReachBothEnds
  <2>11. ApartInv'
    <3>1. \A x \in FilePaths, c \in BlobKeys : HasKey(x, c)' => HasKey(x, c)
        BY <1>1 DEF HasKey
    <3>2. \A x \in FilePaths : fileRow'[x] # Void => fileRow'[x].key \in BlobKeys
        BY <1>0, <1>1, FileRows
    <3>3. \A s \in ProtectedRequests : Pc(s) = "new" => k[1] # s
        BY <1>1, <2>1
    <3> QED
        BY <1>0, <1>2, <2>2, <2>6, <3>1, <3>2, <3>3, RowsComeApart
  <2>12. Touches(r)
    <3>1. ASSUME NEW s \in ProtectedRequests, s # r, LiveCopy(s), NEW x \in PlannedFiles(s)
          PROVE blob'[<<s, x>>] = blob[<<s, x>>]
      <4>1. <<s, x>> \in BlobKeys
          BY <1>0, <3>1, PlansOf DEF LiveCopy
      <4> QED
          BY <2>1, <2>2, <3>1, <4>1
    <3> QED
        BY <1>1, <2>2, <2>8, <3>1 DEF Touches
  <2>13. CopyFits(r)'
    <3> SUFFICES ASSUME NEW x \in PlannedFiles(r)
                 PROVE /\ Other(x) \notin hurt => HasKey(Other(x), PlanOf(r)[x].src) /\ blob'[PlanOf(r)[x].src] = PlanOf(r)[x].meta
                       /\ x \notin hurt => blob'[<<r, x>>] \in {Void, PlanOf(r)[x].meta}
                       /\ x \notin hurt /\ x \notin LeftOf(r) \ {q} => blob'[<<r, x>>] = PlanOf(r)[x].meta
        BY <1>1, <2>6 DEF CopyFits, HasKey
    <3>1. /\ Other(x) \notin hurt => HasKey(Other(x), PlanOf(r)[x].src) /\ blob[PlanOf(r)[x].src] = PlanOf(r)[x].meta
          /\ x \notin hurt => blob[<<r, x>>] \in {Void, PlanOf(r)[x].meta}
          /\ x \notin hurt /\ x \notin LeftOf(r) => blob[<<r, x>>] = PlanOf(r)[x].meta
        BY <1>1, <1>2 DEF CopyFits
    <3>2. Other(x) \notin hurt => blob'[PlanOf(r)[x].src] = blob[PlanOf(r)[x].src]
        BY <1>5, <2>2, <2>8, <3>1
    <3>3. x \notin hurt => Other(x) \notin hurt
        BY <1>0, <1>2, <1>5 DEF BothEnds
    <3>4. CASE x = q
        BY <2>1, <2>2, <3>1, <3>2, <3>3, <3>4
    <3>5. CASE x # q
        BY <1>5, <2>1, <2>2, <3>1, <3>2, <3>5
    <3> QED
        BY <3>4, <3>5
  <2>14. CopyLeaves(r)'
    <3> SUFFICES ASSUME NEW x \in PlannedFiles(r), <<r, x>> \notin vault[r].made \cup {k}
                 PROVE blob'[<<r, x>>] = Void \/ Mine(r) \subseteq hurt
        BY <1>1, <2>6, <2>7 DEF CopyLeaves
    <3> QED
        BY <1>2, <1>5, <2>2 DEF CopyLeaves
  <2>15. ASSUME NEW x \in FilePaths \cap Works(r) PROVE RowFits(x)'
    <3>1. x \notin hurt /\ fileRow[x] # Void => fileRow[x].key \in BlobKeys /\ HasKey(x, fileRow[x].key)
        BY <1>0, FileRows
    <3>2. x \notin hurt /\ fileRow[x] # Void => blob'[fileRow[x].key] = blob[fileRow[x].key]
        BY <2>2, <2>8, <3>1
    <3> QED
        BY <1>1, <1>2, <2>6, <3>2, RowStays
  <2>16. \A c \in BlobKeys : blob'[c] # Void /\ (blob[c] = Void \/ Keeps(r, c)) => BlobHeld(c)'
    <3>1. \A c \in BlobKeys : c \in vault[r].made \cup {k} => Keeps(r, c)'
        BY <2>6 DEF Keeps
    <3> QED
        BY <1>2, <2>2, <3>1 DEF BlobHeld
  <2>17. WriteFits(r)' /\ DeleteLeaves(r)'
      BY <1>2, <2>6, NotOfKind
  <2>18. Own(r)
      BY <1>1, <2>13, <2>14, <2>15, <2>16, <2>17 DEF Own
  <2> QED
      BY <2>6, <2>9, <2>10, <2>11, <2>12, <2>18, StepKeeps DEF VaultTypes
<1>7. CASE vault' = [vault EXCEPT ![r].pc = "undo", ![r].left = {}] /\ UNCHANGED blob
  <2>1. PICK me : me = [vault[r] EXCEPT !.pc = "undo", !.left = {}]
      OBVIOUS
  <2>2. GoesOn(r, me) /\ me.pc = "undo" /\ me.left = {} /\ me.made = vault[r].made
      BY <1>1, <1>2, <1>7, <2>1 DEF GoesOn, Kind, PlaceOf, PlanOf
  <2>3. RequestIs(r, me)
      BY <1>1, <1>2, <2>1 DEF RequestIs, CopyIs, Kind, Pc
  <2>4. /\ StepOf(r) /\ RequestsAre' /\ LogIs' /\ Pc(r)' = "undo" /\ LeftOf(r)' = {} /\ Running(r)'
        /\ vault'[r].made = vault[r].made /\ PlanOf(r)' = PlanOf(r) /\ PlannedFiles(r)' = PlannedFiles(r)
        /\ Kind(r)' = "copy" /\ Mine(r)' = Mine(r)
      BY <1>0, <1>2, <2>2, <2>3, Advances, AllSame DEF StepOf
  <2>5. RowsMade(r)' = {}
      BY <2>4 DEF RowsMade
  <2>6. CopyFits(r)'
      BY <1>1, <1>2, <1>7, <2>4 DEF CopyFits
  <2>7. CopyLeaves(r)'
      BY <1>1, <1>2, <1>7, <2>4, <2>5 DEF CopyLeaves
  <2>8. \A c \in BlobKeys : Keeps(r, c) => BlobHeld(c)'
      BY <1>2, <2>4 DEF BlobHeld, Keeps
  <2> QED
      BY <1>1, <1>2, <1>7, <2>4, <2>5, <2>6, <2>7, <2>8, QuietCopyKeeps
<1> QED
    BY <1>3, <1>6, <1>7

LEMMA UpsertCopyKeeps == ASSUME VaultInv, NEW r \in ProtectedRequests, UpsertCopy(r) PROVE VaultKept
<1>0. ReadsVerified /\ RequestsAre /\ LogIs /\ StoreIs /\ VaultTypes /\ MeetingsHurt /\ BothEnds /\ ApartInv
    BY DEF VaultInv, VaultTypes
<1>1. Pc(r) = "rows" /\ UNCHANGED <<blob, openLog, todo>> /\ hurt \subseteq leaky
    BY <1>0 DEF UpsertCopy, AtVault, Pc, StoreIs
<1>2. /\ DOMAIN vault[r] = {"pc", "kind", "path", "size", "rows", "left", "made", "data", "ok"}
      /\ RequestIs(r, vault[r]) /\ CopyIs(r, vault[r]) /\ Kind(r) = "copy" /\ Running(r) /\ Live(r) /\ LiveCopy(r)
      /\ CopyFits(r) /\ CopyLeaves(r) /\ \A b \in BlobKeys : Keeps(r, b) => b \in vault[r].made
      /\ Works(r) = Mine(r) /\ InLog(r)
    BY <1>1, CopyIsAt
<1>3. RowsMade(r) = DOMAIN PlanOf(r) \ LeftOf(r) /\ LeftOf(r) \subseteq DOMAIN PlanOf(r)
    BY <1>1, <1>2 DEF RowsMade, CopyIs, LeftOf, PlanOf
<1>4. PICK q \in LeftOf(r) :
        /\ IsFile(q) => \A x \in LeftOf(r) : IsFile(x)
        /\ \/ /\ fileRow' = [fileRow EXCEPT ![q] = Row(PlanOf(r)[q])]
              /\ vault' = [vault EXCEPT ![r].left = @ \ {q}]
              /\ IF fileRow[q] # Void THEN Spoilt({q}) ELSE UNCHANGED <<hurt, leaky>>
           \/ /\ UNCHANGED <<fileRow, hurt, leaky>>
              /\ vault' = [vault EXCEPT ![r].pc = "undo", ![r].left = (DOMAIN vault[r].rows) \ @]
    BY DEF UpsertCopy, LeftOf, PlanOf
<1>5. q \in DOMAIN PlanOf(r) /\ q \in Mine(r) /\ q \in VaultPaths /\ q \notin Below(PlaceOf(r))
    BY <1>0, <1>2, <1>3, PlansOf
<1>6. CASE /\ fileRow' = [fileRow EXCEPT ![q] = Row(PlanOf(r)[q])]
           /\ vault' = [vault EXCEPT ![r].left = @ \ {q}]
           /\ IF fileRow[q] # Void THEN Spoilt({q}) ELSE UNCHANGED <<hurt, leaky>>
  <2>1. PICK me : me = [vault[r] EXCEPT !.left = @ \ {q}]
      OBVIOUS
  <2>2. /\ hurt \subseteq hurt' /\ leaky \subseteq leaky' /\ hurt' \subseteq hurt \cup {q} /\ hurt' \subseteq leaky'
        /\ fileRow[q] # Void => q \in leaky'
      BY <1>1, <1>6 DEF Spoilt
  <2>3. GoesOn(r, me) /\ me.pc = "rows" /\ me.left = LeftOf(r) \ {q} /\ me.made = vault[r].made
      BY <1>1, <1>2, <1>6, <2>1, <2>2 DEF GoesOn, Kind, PlaceOf, PlanOf, LeftOf, Pc
  \* The directory's row is the first.
  <2>4. \A x \in LeftOf(r) \ {q} : IsFile(x)
    <3>1. \A x \in DOMAIN PlanOf(r) : ~IsFile(x) => x = Other(PlaceOf(r))
      <4>1. DOMAIN PlanOf(r) \subseteq Below(Other(PlaceOf(r))) /\ Other(PlaceOf(r)) \in VaultPaths
          BY <1>0, <1>2, MineIs, ThePaths DEF CopyIs, PlanOf, PlaceOf
      <4> QED
          BY <4>1, BelowPaths
    <3> QED
        BY <1>3, <1>4, <1>5, <3>1
  <2>5. RequestIs(r, me)
      BY <1>1, <1>2, <2>1, <2>4 DEF RequestIs, CopyIs, Kind, Pc, LeftOf
  <2>6. /\ StepOf(r) /\ RequestsAre' /\ LogIs' /\ Pc(r)' = "rows" /\ LeftOf(r)' = LeftOf(r) \ {q} /\ Running(r)'
        /\ vault'[r].made = vault[r].made /\ PlanOf(r)' = PlanOf(r) /\ PlannedFiles(r)' = PlannedFiles(r)
        /\ Kind(r)' = "copy" /\ Mine(r)' = Mine(r)
      BY <1>0, <1>2, <2>3, <2>5, Advances, AllSame DEF StepOf
  <2>7. RowsMade(r)' = RowsMade(r) \cup {q}
      BY <1>3, <1>5, <2>6 DEF RowsMade
  <2>8. fileRow'[q] = Row(PlanOf(r)[q]) /\ \A x \in VaultPaths : x # q => fileRow'[x] = fileRow[x]
      BY <1>0, <1>5, <1>6 DEF StoreIs
  <2>9. \A x \in FilePaths : x \in VaultPaths /\ (x # q => fileRow'[x] = fileRow[x])
      BY <2>8, FilesArePaths
  <2>10. ASSUME q \in FilePaths
         PROVE /\ q \in PlannedFiles(r) /\ Row(PlanOf(r)[q]) = [key |-> <<r, q>>, meta |-> PlanOf(r)[q].meta]
               /\ <<r, q>> \in BlobKeys /\ PlanOf(r)[q].meta \in Payload
    <3>1. q \in PlannedFiles(r)
        BY <1>5, <2>10, ThePaths DEF PlannedFiles
    <3> QED
        BY <1>0, <1>2, <3>1, PlansOf
  <2>11. StoreIs'
    <3>1. PICK e : e = Row(PlanOf(r)[q])
        OBVIOUS
    <3>2. e \in VaultRow
        BY <1>2, <1>5, <3>1 DEF CopyIs, PlanOf
    <3>3. IsFile(q) => e.key \in BlobKeys /\ e.meta \in Payload /\ e.key[2] \in EndsOf(q)
        BY <1>5, <2>10, <3>1, ThePaths DEF EndsOf
    <3>4. RowIs(q, e)
        BY <3>2, <3>3 DEF RowIs
    <3>5. \E x \in VaultPaths : \E f : RowIs(x, f) /\ fileRow' = [fileRow EXCEPT ![x] = f]
        BY <1>5, <1>6, <3>1, <3>4
    <3> QED
        BY <1>0, <1>1, <2>2, <3>5, StoreStays
  <2>12. BothEnds'
      BY <1>0, <1>2, <1>5, <2>2, <2>6, StepsReachBothEnds
  <2>13. ApartInv'
    <3>1. \A x \in FilePaths, c \in BlobKeys : HasKey(x, c)' => HasKey(x, c) \/ (x = q /\ c = <<r, q>>)
        BY <2>8, <2>9, <2>10 DEF HasKey
    <3>2. ASSUME q \in FilePaths PROVE Comes(q, <<r, q>>)
      <4>1. \A y \in FilePaths : y # q /\ HasKey(y, <<r, q>>)' => HasKey(y, <<r, q>>)
          BY <2>9 DEF HasKey
      <4> QED
          BY <1>1, <1>2, <2>6, <2>7, <2>10, <3>2, <4>1, CopiedComes
    <3>3. \A x \in FilePaths : fileRow'[x] # Void => fileRow'[x].key \in BlobKeys
      <4>1. \A x \in FilePaths : fileRow[x] # Void => fileRow[x].key \in BlobKeys
          BY <1>0, FileRows
      <4> QED
          BY <2>8, <2>9, <2>10, <4>1
    <3> QED
        BY <1>0, <1>1, <1>2, <2>6, <2>7, <3>1, <3>2, <3>3, RowsComeApart
  <2>14. Touches(r)
      BY <1>1, <1>2, <1>5, <2>8, <2>9 DEF Touches
  <2>15. CopyFits(r)'
      BY <1>1, <1>2, <2>2, <2>6 DEF CopyFits
  <2>16. CopyLeaves(r)'
    <3> SUFFICES /\ \A x \in RowsMade(r) \cup {q} : x \notin hurt' => fileRow'[x] = Row(PlanOf(r)[x])
                 /\ \A x \in PlannedFiles(r) : <<r, x>> \notin vault[r].made => blob[<<r, x>>] = Void \/ Mine(r) \subseteq hurt'
        BY <1>1, <2>6, <2>7 DEF CopyLeaves, Row
    <3>1. \A x \in RowsMade(r) : x \in VaultPaths
        BY <1>0, <1>2, PlansOf
    <3> QED
        BY <1>2, <1>3, <2>2, <2>8, <3>1 DEF CopyLeaves
  <2>17. ASSUME NEW x \in FilePaths \cap Works(r) PROVE RowFits(x)'
    <3>1. CASE x # q
        BY <1>1, <1>2, <2>6, <2>9, <3>1, RowStays
    <3>2. CASE x = q
      <4>1. q \notin hurt' => blob[<<r, q>>] = PlanOf(r)[q].meta
          BY <1>1, <1>2, <2>2, <2>10, <3>2 DEF CopyFits
      <4> QED
          BY <1>1, <2>8, <2>10, <3>2, <4>1 DEF RowFits
    <3> QED
        BY <3>1, <3>2
  <2>18. \A c \in BlobKeys : Keeps(r, c) => BlobHeld(c)'
      BY <1>2, <2>6 DEF BlobHeld, Keeps
  <2>19. ASSUME NEW c \in BlobKeys, NEW x \in FilePaths, HasKey(x, c), fileRow'[x] # fileRow[x], EndsOf(c[2]) \cap leaky' = {}
         PROVE FALSE
    <3>1. x = q /\ x \in leaky'
        BY <2>2, <2>9, <2>19 DEF HasKey
    <3> QED
        BY <1>0, <2>19, <3>1, FileRows DEF HasKey
  <2>20. WriteFits(r)' /\ DeleteLeaves(r)'
      BY <1>2, <2>6, NotOfKind
  <2>21. Own(r)
      BY <1>1, <2>15, <2>16, <2>17, <2>18, <2>19, <2>20 DEF Own
  <2> QED
      BY <2>6, <2>11, <2>12, <2>13, <2>14, <2>21, StepKeeps DEF VaultTypes
<1>7. CASE /\ UNCHANGED <<fileRow, hurt, leaky>>
           /\ vault' = [vault EXCEPT ![r].pc = "undo", ![r].left = (DOMAIN vault[r].rows) \ @]
  <2>1. PICK me : me = [vault[r] EXCEPT !.pc = "undo", !.left = (DOMAIN vault[r].rows) \ @]
      OBVIOUS
  <2>2. GoesOn(r, me) /\ me.pc = "undo" /\ me.left = DOMAIN PlanOf(r) \ LeftOf(r) /\ me.made = vault[r].made
      BY <1>1, <1>2, <1>7, <2>1 DEF GoesOn, Kind, PlaceOf, PlanOf, LeftOf
  \* Once there are rows, only files are left.
  <2>3. me.left # {} => me.made = {<<r, x>> : x \in PlannedFiles(r)} /\ me.made # {}
    <3> SUFFICES ASSUME me.left # {} PROVE me.made = {<<r, x>> : x \in PlannedFiles(r)} /\ me.made # {}
        OBVIOUS
    <3>1. vault[r].made = {<<r, x>> : x \in PlannedFiles(r)} /\ ((\E x \in LeftOf(r) : ~IsFile(x)) => LeftOf(r) = DOMAIN PlanOf(r))
        BY <1>1, <1>2 DEF CopyIs, PlannedFiles, PlanOf, LeftOf, Pc
    <3>2. IsFile(q)
        BY <1>4, <2>2, <3>1
    <3>3. q \in PlannedFiles(r)
        BY <1>5, <3>2 DEF PlannedFiles
    <3> QED
        BY <2>2, <3>1, <3>3
  <2>4. RequestIs(r, me)
    <3>1. /\ me.pc = "undo" /\ me.kind = "copy" /\ me.path = vault[r].path /\ me.rows = vault[r].rows
          /\ me.left \subseteq DOMAIN vault[r].rows /\ me.made = vault[r].made
        BY <1>2, <2>1, <2>2 DEF Kind, PlanOf
    <3>2. CopyIs(r, me)
        BY <1>2, <2>3, <3>1 DEF CopyIs, PlannedFiles, PlanOf
    <3> QED
        BY <1>2, <3>1, <3>2 DEF RequestIs
  <2>5. /\ StepOf(r) /\ RequestsAre' /\ LogIs' /\ Pc(r)' = "undo" /\ LeftOf(r)' = DOMAIN PlanOf(r) \ LeftOf(r) /\ Running(r)'
        /\ vault'[r].made = vault[r].made /\ PlanOf(r)' = PlanOf(r) /\ PlannedFiles(r)' = PlannedFiles(r)
        /\ Kind(r)' = "copy" /\ Mine(r)' = Mine(r)
      BY <1>0, <1>2, <2>2, <2>4, Advances, AllSame DEF StepOf
  <2>6. RowsMade(r)' = RowsMade(r)
      BY <1>3, <2>5 DEF RowsMade
  <2>7. CopyFits(r)'
      BY <1>1, <1>2, <1>7, <2>5 DEF CopyFits
  <2>8. CopyLeaves(r)'
      BY <1>1, <1>2, <1>7, <2>5, <2>6 DEF CopyLeaves, Row
  <2>9. \A c \in BlobKeys : Keeps(r, c) => BlobHeld(c)'
      BY <1>2, <2>5 DEF BlobHeld, Keeps
  <2> QED
      BY <1>1, <1>2, <1>7, <2>5, <2>6, <2>7, <2>8, <2>9, QuietCopyKeeps
<1> QED
    BY <1>4, <1>6, <1>7

LEMMA UndoRowsKeeps == ASSUME VaultInv, NEW r \in ProtectedRequests, UndoRows(r) PROVE VaultKept
<1>0. ReadsVerified /\ RequestsAre /\ LogIs /\ StoreIs
    BY DEF VaultInv, VaultTypes
<1>1. Pc(r) = "undo" /\ UNCHANGED <<blob, openLog, todo, hurt, leaky>> /\ GoVault(r, "undoBlobs")
    BY DEF UndoRows, AtVault, Pc
<1>2. /\ DOMAIN vault[r] = {"pc", "kind", "path", "size", "rows", "left", "made", "data", "ok"}
      /\ RequestIs(r, vault[r]) /\ CopyIs(r, vault[r]) /\ Kind(r) = "copy" /\ Running(r) /\ Live(r) /\ LiveCopy(r)
      /\ CopyFits(r) /\ CopyLeaves(r) /\ \A b \in BlobKeys : Keeps(r, b) => b \in vault[r].made
      /\ Works(r) = Mine(r) /\ RowsMade(r) = LeftOf(r)
  <2>1. RowsMade(r) = LeftOf(r)
      BY <1>1 DEF RowsMade
  <2> QED
      BY <1>1, <2>1, CopyIsAt
<1>3. PICK me : me = [vault[r] EXCEPT !.pc = "undoBlobs"]
    OBVIOUS
<1>4. GoesOn(r, me) /\ me.pc = "undoBlobs" /\ me.made = vault[r].made
    BY <1>1, <1>2, <1>3 DEF GoesOn, GoVault, Kind, PlaceOf, PlanOf
<1>5. RequestIs(r, me)
    BY <1>1, <1>2, <1>3 DEF RequestIs, CopyIs, Kind, Pc
<1>6. /\ StepOf(r) /\ RequestsAre' /\ LogIs' /\ Pc(r)' = "undoBlobs" /\ Running(r)'
      /\ vault'[r].made = vault[r].made /\ PlanOf(r)' = PlanOf(r) /\ PlannedFiles(r)' = PlannedFiles(r)
      /\ Kind(r)' = "copy" /\ Mine(r)' = Mine(r)
    BY <1>0, <1>2, <1>4, <1>5, Advances, AllSame DEF StepOf
<1>7. RowsMade(r)' = {}
    BY <1>6 DEF RowsMade
<1>8. CopyFits(r)'
    BY <1>1, <1>2, <1>6 DEF CopyFits
<1>9. CopyLeaves(r)'
    BY <1>1, <1>2, <1>6, <1>7 DEF CopyLeaves
<1>10. PICK D : D = UNION {Below(q) : q \in LeftOf(r)}
    OBVIOUS
<1>11. D \subseteq Mine(r) /\ LeftOf(r) \subseteq D /\ fileRow' = WithoutRows(D)
  <2>1. \A q \in LeftOf(r) : Below(q) \subseteq Mine(r) /\ q \in VaultPaths
      BY <1>0, <1>2, PlansOf
  <2>2. \A q \in LeftOf(r) : q \in Below(q)
      BY <2>1, BelowPaths
  <2> QED
      BY <1>10, <2>1, <2>2 DEF UndoRows, LeftOf
<1>12. ASSUME NEW k \in BlobKeys, NEW x \in FilePaths, Keeps(r, k) \/ (HasKey(x, k) /\ x \in D) PROVE BlobHeld(k)'
  <2>1. CASE Keeps(r, k)
      BY <1>2, <1>6, <2>1 DEF BlobHeld, Keeps
  <2>2. CASE HasKey(x, k) /\ x \in D
    <3>1. vault[r].made # {}
        BY <1>1, <1>2, <1>10, <2>2 DEF CopyIs, LeftOf, Pc
    <3>2. k[2] \in EndsOf(x)
        BY <1>0, <2>2, FileRows DEF HasKey
    <3>3. k[2] \in Mine(r)
        BY <1>0, <1>2, <1>11, <2>2, <3>2, MineIs DEF EndsOf
    <3> QED
        BY <1>6, <3>1, <3>3 DEF BlobHeld, Keeps
  <2> QED
      BY <1>12, <2>1, <2>2
<1> QED
    BY <1>1, <1>2, <1>6, <1>8, <1>9, <1>11, <1>12, RowsGone

LEMMA UndoBlobsKeeps == ASSUME VaultInv, NEW r \in ProtectedRequests, UndoBlobs(r) PROVE VaultKept
<1>0. ReadsVerified /\ RequestsAre /\ LogIs /\ StoreIs /\ VaultTypes /\ MeetingsHurt /\ BothEnds /\ ApartInv
    BY DEF VaultInv, VaultTypes
<1>1. Pc(r) = "undoBlobs" /\ UNCHANGED <<fileRow, openLog, todo, hurt, leaky>> /\ GoVault(r, "end") /\ hurt \subseteq leaky
    BY <1>0 DEF UndoBlobs, AtVault, Pc, StoreIs
<1>2. /\ DOMAIN vault[r] = {"pc", "kind", "path", "size", "rows", "left", "made", "data", "ok"}
      /\ RequestIs(r, vault[r]) /\ CopyIs(r, vault[r]) /\ Kind(r) = "copy" /\ Running(r) /\ Live(r) /\ LiveCopy(r)
      /\ CopyFits(r) /\ CopyLeaves(r) /\ Works(r) = Mine(r) /\ RowsMade(r) = {} /\ InLog(r)
      /\ \A b \in BlobKeys : Keeps(r, b) => b \in vault[r].made \/ (vault[r].made # {} /\ b[2] \in Mine(r))
    BY <1>1, CopyIsAt
<1>3. PICK made : made = vault[r].made
    OBVIOUS
<1>4. /\ \A k \in BlobKeys : blob'[k] = IF k \in made THEN Void ELSE blob[k]
      /\ blob' = [k \in BlobKeys |-> blob'[k]]
    BY <1>3 DEF UndoBlobs, Made
<1>5. /\ \A k \in made : k \in BlobKeys /\ k[1] = r /\ \E q \in PlannedFiles(r) : k = <<r, q>>
      /\ \A q \in PlannedFiles(r) : <<r, q>> \in BlobKeys
  <2>1. \A k \in made : \E q \in PlannedFiles(r) : k = <<r, q>>
      BY <1>2, <1>3 DEF CopyIs, PlannedFiles, PlanOf
  <2>2. \A q \in PlannedFiles(r) : <<r, q>> \in BlobKeys
      BY <1>0, <1>2, PlansOf
  <2> QED
      BY <2>1, <2>2
<1>6. \A k \in made : Owns(r, k) /\ \A y \in FilePaths : HasKey(y, k) => y \in hurt
  <2> SUFFICES ASSUME NEW k \in made PROVE Owns(r, k) /\ \A y \in FilePaths : HasKey(y, k) => y \in hurt
      OBVIOUS
  <2>1. PICK q \in PlannedFiles(r) : k = <<r, q>>
      BY <1>5
  <2> QED
      BY <1>2, <2>1, CopierOwns
<1>7. PICK me : me = [vault[r] EXCEPT !.pc = "end"]
    OBVIOUS
<1>8. GoesOn(r, me) /\ me.pc = "end"
    BY <1>1, <1>2, <1>7 DEF GoesOn, GoVault, Kind, PlaceOf, PlanOf
<1>9. RequestIs(r, me)
    BY <1>1, <1>2, <1>7 DEF RequestIs, CopyIs, Kind, Pc
<1>10. /\ StepOf(r) /\ RequestsAre' /\ LogIs' /\ Pc(r)' = "end" /\ ~Running(r)' /\ InLog(r)'
       /\ PlanOf(r)' = PlanOf(r) /\ PlannedFiles(r)' = PlannedFiles(r) /\ Kind(r)' = "copy" /\ Mine(r)' = Mine(r)
       /\ Range(todo') = {}
    BY <1>0, <1>1, <1>2, <1>8, <1>9, Advances, AllSame DEF StepOf
<1>11. StoreIs'
  <2>1. \A k \in BlobKeys : blob'[k] \in Payload \cup {Void}
      BY <1>0, <1>4 DEF StoreIs
  <2>2. blob' \in [BlobKeys -> Payload \cup {Void}]
      BY <1>4, <2>1
  <2> QED
      BY <1>0, <1>1, <2>2 DEF StoreIs
<1>12. BothEnds'
    BY <1>0, <1>1, <1>10, StepsReachBothEnds
<1>13. ApartInv'
  <2>1. \A x \in FilePaths, c \in BlobKeys : HasKey(x, c)' => HasKey(x, c)
      BY <1>1 DEF HasKey
  <2>2. \A x \in FilePaths : fileRow'[x] # Void => fileRow'[x].key \in BlobKeys
      BY <1>0, <1>1, FileRows
  <2>3. \A k \in made : \A s \in ProtectedRequests : Pc(s) = "new" => k[1] # s
      BY <1>1, <1>5
  <2> QED
      BY <1>0, <1>2, <1>4, <1>10, <2>1, <2>2, <2>3, RowsComeApart
<1>14. Touches(r)
  <2>1. ASSUME NEW s \in ProtectedRequests, s # r, LiveCopy(s), NEW x \in PlannedFiles(s)
        PROVE blob'[<<s, x>>] = blob[<<s, x>>]
    <3>1. <<s, x>> \in BlobKeys
        BY <1>0, <2>1, PlansOf DEF LiveCopy
    <3> QED
        BY <1>4, <1>5, <2>1, <3>1
  <2> QED
      BY <1>1, <1>4, <1>6, <2>1 DEF Touches
<1>15. CopyFits(r)'
    BY <1>1, <1>2, <1>4, <1>5, <1>10 DEF CopyFits
<1>16. made # {} => Missed(r)'
  <2> SUFFICES ASSUME NEW k \in made PROVE Missed(r)'
      OBVIOUS
  <2>1. PICK q \in PlannedFiles(r) : k = <<r, q>>
      BY <1>5
  <2>2. blob'[<<r, q>>] = Void
      BY <1>4, <1>5, <2>1
  <2> QED
      BY <1>10, <2>2 DEF Missed
<1>17. CopyLeaves(r)'
  <2>1. ASSUME made = {}, NEW q \in PlannedFiles(r) PROVE Mine(r) \subseteq leaky \/ Missed(r)'
    <3>1. blob[<<r, q>>] = Void \/ Mine(r) \subseteq hurt
        BY <1>2, <1>3, <2>1 DEF CopyLeaves
    <3>2. blob'[<<r, q>>] = blob[<<r, q>>]
        BY <1>4, <1>5, <2>1
    <3> QED
        BY <1>1, <1>10, <3>1, <3>2 DEF Missed
  <2> QED
      BY <1>1, <1>10, <1>16, <2>1 DEF CopyLeaves
<1>18. ASSUME NEW x \in FilePaths \cap Works(r) PROVE RowFits(x)'
  <2>1. x \notin hurt /\ fileRow[x] # Void => fileRow[x].key \in BlobKeys /\ HasKey(x, fileRow[x].key)
      BY <1>0, FileRows
  <2>2. x \notin hurt /\ fileRow[x] # Void => blob'[fileRow[x].key] = blob[fileRow[x].key]
      BY <1>4, <1>6, <2>1
  <2> QED
      BY <1>1, <1>2, <1>10, <2>2, RowStays
<1>19. ASSUME NEW k \in BlobKeys, blob'[k] # Void, blob[k] = Void \/ Keeps(r, k) PROVE BlobHeld(k)'
  <2>1. made # {} /\ k[2] \in Mine(r)
      BY <1>2, <1>3, <1>4, <1>19
  <2>2. LiveCopy(r)'
      BY <1>10 DEF LiveCopy, Live
  <2> QED
      BY <1>10, <1>16, <2>1, <2>2 DEF BlobHeld, Keeps
<1>20. WriteFits(r)' /\ DeleteLeaves(r)'
    BY <1>2, <1>10, NotOfKind
<1>21. Own(r)
    BY <1>1, <1>15, <1>17, <1>18, <1>19, <1>20 DEF Own
<1> QED
    BY <1>10, <1>11, <1>12, <1>13, <1>14, <1>21, StepKeeps DEF VaultTypes

LEMMA RecoverCopyKeeps == ASSUME VaultInv, RecoverProtectedCopy PROVE VaultKept
<1>0. RequestsAre /\ LogIs /\ StoreIs /\ MeetingsHurt /\ BothEnds /\ ApartInv /\ KeptFit /\ LostInv
    BY DEF VaultInv, VaultTypes
<1>1. PICK r : r = Head(todo)
    OBVIOUS
<1>2. Recovers(r) /\ Kind(r) = "copy" /\ UNCHANGED <<blob, hurt, leaky>>
    BY <1>1 DEF RecoverProtectedCopy, Recovering, Recovers, Kind
<1>3. /\ r \in ProtectedRequests /\ StepOf(r) /\ RequestsAre' /\ LogIs' /\ r \in Range(todo) /\ Pc(r) = "end" /\ Pc(r)' = "end"
      /\ ~Running(r) /\ ~Running(r)' /\ Live(r) /\ (Close(r) => ~Live(r)') /\ (openLog' = openLog => (Live(r)' <=> Live(r)))
    BY <1>0, <1>2, Recoveries
<1>4. /\ LiveCopy(r) /\ Works(r) = Mine(r) /\ CopyFits(r) /\ CopyLeaves(r) /\ RowsMade(r) = DOMAIN PlanOf(r)
      /\ CopyIs(r, vault[r]) /\ hurt \subseteq leaky
      /\ \A k \in BlobKeys : Keeps(r, k) => Missed(r) /\ k[2] \in Mine(r)
  <2>1. RowsMade(r) = DOMAIN PlanOf(r)
      BY <1>3 DEF RowsMade
  <2>2. \A k \in BlobKeys : Keeps(r, k) => Missed(r) /\ k[2] \in Mine(r)
      BY <1>2, <1>3 DEF Keeps, LiveWrite
  <2>3. LiveCopy(r) /\ Works(r) = Mine(r)
      BY <1>2, <1>3 DEF LiveCopy, Works
  <2>4. CopyIs(r, vault[r])
      BY <1>0, <1>2, <1>3 DEF RequestsAre, RequestIs, Kind
  <2> QED
      BY <1>0, <1>3, <2>1, <2>2, <2>3, <2>4 DEF KeptFit, LostInv, StoreIs
<1>5. /\ DOMAIN PlanOf(r) \subseteq Mine(r) /\ PlannedFiles(r) \subseteq FilePaths
      /\ \A q \in DOMAIN PlanOf(r) : q \in VaultPaths /\ Below(q) \subseteq Mine(r)
      /\ \A q \in PlannedFiles(r) : /\ PlanOf(r)[q].key = <<r, q>> /\ <<r, q>> \in BlobKeys /\ PlanOf(r)[q].meta \in Payload
                                    /\ Row(PlanOf(r)[q]) = [key |-> <<r, q>>, meta |-> PlanOf(r)[q].meta]
    BY <1>0, <1>2, <1>3, PlansOf
<1>6. /\ Kind(r)' = "copy" /\ PlanOf(r)' = PlanOf(r) /\ PlannedFiles(r)' = PlannedFiles(r) /\ Mine(r)' = Mine(r)
    BY <1>2, <1>3, AllSame DEF StepOf
<1>7. CASE /\ ~Missed(r) /\ Close(r)
           /\ fileRow' = [q \in VaultPaths |-> IF q \in DOMAIN PlanOf(r) THEN Row(PlanOf(r)[q]) ELSE fileRow[q]]
  <2>1. \A x \in VaultPaths : fileRow'[x] = IF x \in DOMAIN PlanOf(r) THEN Row(PlanOf(r)[x]) ELSE fileRow[x]
      BY <1>7
  <2>2. \A x \in FilePaths : /\ x \in VaultPaths /\ (x \in DOMAIN PlanOf(r) <=> x \in PlannedFiles(r))
                             /\ fileRow'[x] = IF x \in PlannedFiles(r) THEN Row(PlanOf(r)[x]) ELSE fileRow[x]
    <3>1. \A x \in FilePaths : x \in VaultPaths /\ IsFile(x)
        BY FilesArePaths, ThePaths
    <3> QED
        BY <2>1, <3>1 DEF PlannedFiles
  <2>12. ASSUME NEW x \in PlannedFiles(r)
         PROVE x \in FilePaths /\ fileRow'[x].key = <<r, x>> /\ fileRow'[x].meta = PlanOf(r)[x].meta /\ <<r, x>> \in BlobKeys
    <3>1. x \in FilePaths /\ Row(PlanOf(r)[x]) = [key |-> <<r, x>>, meta |-> PlanOf(r)[x].meta] /\ <<r, x>> \in BlobKeys
        BY <1>5
    <3>2. fileRow'[x] = Row(PlanOf(r)[x])
        BY <2>2, <3>1
    <3> QED
        BY <3>1, <3>2
  <2>3. ~Live(r)' /\ ~LiveCopy(r)'
      BY <1>3, <1>7 DEF LiveCopy
  <2>4. StoreIs'
    <3>1. ASSUME NEW x \in VaultPaths PROVE RowIs(x, fileRow'[x])
      <4>1. CASE x \notin DOMAIN PlanOf(r)
        <5>1. RowIs(x, fileRow[x]) /\ fileRow'[x] = fileRow[x]
            BY <1>0, <2>1, <4>1 DEF StoreIs
        <5>2. PICK e : e = fileRow[x]
            OBVIOUS
        <5> QED
            BY <5>1, <5>2
      <4>2. CASE x \in DOMAIN PlanOf(r)
        <5>1. PICK e : e = Row(PlanOf(r)[x])
            OBVIOUS
        <5>2. e \in VaultRow
            BY <1>4, <4>2, <5>1 DEF CopyIs, PlanOf
        <5>3. ASSUME IsFile(x) PROVE e.key \in BlobKeys /\ e.meta \in Payload /\ e.key[2] \in EndsOf(x)
          <6>1. x \in PlannedFiles(r)
              BY <4>2, <5>3 DEF PlannedFiles
          <6>2. e = [key |-> <<r, x>>, meta |-> PlanOf(r)[x].meta]
              BY <1>5, <5>1, <6>1
          <6> QED
              BY <1>5, <6>1, <6>2 DEF EndsOf
        <5>4. RowIs(x, e) /\ fileRow'[x] = e
            BY <2>1, <4>2, <5>1, <5>2, <5>3 DEF RowIs
        <5> QED
            BY <5>4
      <4> QED
          BY <4>1, <4>2
    <3>2. fileRow' = [x \in VaultPaths |-> fileRow'[x]]
        BY <1>7
    <3> QED
        BY <1>0, <1>2, <3>1, <3>2 DEF StoreIs
  <2>5. BothEnds'
      BY <1>0, <1>2, <1>3, StepsReachBothEnds
  <2>6. ApartInv'
    <3>1. \A x \in FilePaths, c \in BlobKeys : HasKey(x, c)' => HasKey(x, c) \/ (x \in PlannedFiles(r) /\ c = <<r, x>>)
        BY <2>2, <2>12 DEF HasKey
    <3>2. ASSUME NEW x \in PlannedFiles(r) PROVE Comes(x, <<r, x>>)
      <4>1. \A y \in FilePaths : y # x /\ HasKey(y, <<r, x>>)' => HasKey(y, <<r, x>>)
        <5>1. <<r, x>> \in BlobKeys
            BY <2>12
        <5> QED
            BY <3>1, <5>1
      <4> QED
          BY <1>3, <1>4, <2>3, <4>1, CopiedComes
    <3>3. \A x \in FilePaths : fileRow'[x] # Void => fileRow'[x].key \in BlobKeys
      <4>1. \A x \in FilePaths : fileRow[x] # Void => fileRow[x].key \in BlobKeys
          BY <1>0, FileRows
      <4> QED
          BY <2>2, <2>12, <4>1
    <3>4. \A x \in FilePaths, c \in BlobKeys : HasKey(x, c)' => HasKey(x, c) \/ Comes(x, c)
        BY <3>1, <3>2
    <3> QED
        BY <1>0, <1>2, <1>3, <2>3, <3>3, <3>4, RowsComeApart
  <2>7. Touches(r)
      BY <1>2, <1>4, <1>5, <2>1, <2>2 DEF Touches
  <2>8. ASSUME NEW x \in FilePaths \cap Works(r) PROVE RowFits(x)'
    <3>1. CASE x \notin PlannedFiles(r)
        BY <1>2, <1>3, <2>2, <3>1, RowStays
    <3>2. CASE x \in PlannedFiles(r)
      <4>1. x \notin hurt => blob[<<r, x>>] = PlanOf(r)[x].meta
          BY <1>4, <1>7, <3>2 DEF CopyFits, Missed
      <4> QED
          BY <1>2, <2>12, <3>2, <4>1 DEF RowFits
    <3> QED
        BY <3>1, <3>2
  <2>9. CopyFits(r)' /\ CopyLeaves(r)' /\ WriteFits(r)' /\ DeleteLeaves(r)'
      BY <1>2, <1>3, <2>3, NotOfKind DEF CopyFits, CopyLeaves
  <2>10. ASSUME NEW c \in BlobKeys, NEW x \in FilePaths, HasKey(x, c), fileRow'[x] # fileRow[x], EndsOf(c[2]) \cap leaky = {}
         PROVE FALSE
    <3>1. x \in PlannedFiles(r) /\ x \in Mine(r)
        BY <1>5, <2>2, <2>10 DEF PlannedFiles
    <3>2. x \in leaky
        BY <1>3, <1>4, <1>7, <3>1 DEF CopyLeaves
    <3> QED
        BY <1>0, <2>10, <3>2, FileRows DEF HasKey
  <2>11. Own(r)
      BY <1>2, <1>4, <1>7, <2>8, <2>9, <2>10 DEF Own
  <2> QED
      BY <1>3, <2>4, <2>5, <2>6, <2>7, <2>11, StepKeeps DEF VaultTypes
<1>8. CASE Missed(r) /\ fileRow' = WithoutRows(UNION {Below(q) : q \in DOMAIN PlanOf(r)}) /\ UNCHANGED openLog
  <2>1. PICK D : D = UNION {Below(q) : q \in DOMAIN PlanOf(r)}
      OBVIOUS
  <2>2. D \subseteq Mine(r) /\ RowsMade(r) \subseteq D
    <3>1. \A q \in DOMAIN PlanOf(r) : q \in Below(q)
        BY <1>5, BelowPaths
    <3> QED
        BY <1>4, <1>5, <2>1, <3>1
  <2>3. LiveCopy(r)' /\ Missed(r)'
      BY <1>2, <1>3, <1>6, <1>8 DEF LiveCopy, Missed
  <2>4. CopyFits(r)'
      BY <1>2, <1>3, <1>4, <1>6 DEF CopyFits
  <2>5. CopyLeaves(r)'
      BY <1>3, <2>3 DEF CopyLeaves
  <2>6. ASSUME NEW k \in BlobKeys, NEW x \in FilePaths, Keeps(r, k) \/ (HasKey(x, k) /\ x \in D) PROVE BlobHeld(k)'
    <3>1. ASSUME HasKey(x, k), x \in D PROVE k[2] \in Mine(r)
      <4>1. k[2] \in EndsOf(x)
          BY <1>0, <3>1, FileRows DEF HasKey
      <4> QED
          BY <1>0, <1>2, <1>3, <2>2, <3>1, <4>1, MineIs DEF EndsOf
    <3>2. k[2] \in Mine(r)
        BY <1>4, <2>6, <3>1
    <3> QED
        BY <1>3, <1>6, <2>3, <3>2 DEF BlobHeld, Keeps
  <2> QED
      BY <1>2, <1>3, <1>4, <1>8, <2>1, <2>2, <2>4, <2>5, <2>6, RowsGone
<1>9. Missed(r) <=> \E q \in DOMAIN PlanOf(r) : IsFile(q) /\ blob[PlanOf(r)[q].key] = Void
    BY <1>5 DEF Missed, PlannedFiles
<1>10. PlanOf(r) = vault[Head(todo)].rows
    BY <1>1 DEF PlanOf
<1> QED
    BY <1>1, <1>7, <1>8, <1>9, <1>10 DEF RecoverProtectedCopy

-----------------------------------------------------------------------------
(* Reads                                                                    *)

LEMMA ReadsKeep ==
    ASSUME VaultInv, NEW r \in ProtectedRequests, Kind(r) = "read", Running(r), UNCHANGED <<fileRow, blob, openLog, todo, hurt, leaky>>,
           NEW me, vault' = [vault EXCEPT ![r] = me], me.kind = "read", me.path = PlaceOf(r), me.rows = PlanOf(r),
           me.left = LeftOf(r), me.pc \in {"macs", "end"}
    PROVE VaultKept
<1>0. ReadsVerified /\ RequestsAre /\ LogIs /\ StoreIs /\ MeetingsHurt /\ BothEnds
    BY DEF VaultInv, VaultTypes
<1>1. GoesOn(r, me) /\ RequestIs(r, me)
  <2>1. RequestIs(r, vault[r]) /\ vault[r].kind = "read" /\ vault[r].path = PlaceOf(r)
      BY <1>0 DEF RequestsAre, Kind, PlaceOf
  <2> QED
      BY <2>1 DEF GoesOn, RequestIs
<1>2. StepOf(r) /\ RequestsAre' /\ LogIs' /\ LeftOf(r)' = LeftOf(r)
    BY <1>0, <1>1, Advances
<1>3. BothEnds'
    BY <1>0, <1>2, StepsReachBothEnds
<1>4. WriteFits(r)' /\ CopyFits(r)' /\ DeleteLeaves(r)' /\ CopyLeaves(r)' /\ \A k \in BlobKeys : ~Keeps(r, k)
    BY <1>2, NotOfKind
<1>5. ~LiveCopy(r)' /\ ~LiveDelete(r) /\ hurt' \subseteq leaky'
    BY <1>0, <1>2 DEF LiveCopy, LiveDelete, StepOf, StoreIs
<1> QED
    BY <1>2, <1>3, <1>4, <1>5, QuietStepKeeps

LEMMA ReadPayloadKeeps == ASSUME VaultInv, NEW r \in ProtectedRequests, ReadPayload(r) PROVE VaultKept
<1>0. ReadsVerified /\ RequestsAre
    BY DEF VaultInv, VaultTypes
<1>1. DOMAIN vault[r] = {"pc", "kind", "path", "size", "rows", "left", "made", "data", "ok"} /\ Pc(r) = "payload" /\ Running(r)
    BY <1>0, TheFields DEF ReadPayload, AtVault, Pc, Running
<1>2. Kind(r) = "read"
    BY <1>0, <1>1 DEF RequestsAre, RequestIs, WriteIs, CopyIs, Kind, Pc
<1>3. PICK b : b = blob[vault[r].rows[vault[r].path].key]
    OBVIOUS
<1>4. UNCHANGED <<fileRow, blob, openLog, todo, hurt, leaky>>
    BY DEF ReadPayload
<1>5. PICK me : /\ vault' = [vault EXCEPT ![r] = me] /\ me.kind = "read" /\ me.path = PlaceOf(r) /\ me.rows = PlanOf(r)
                /\ me.left = LeftOf(r) /\ me.pc \in {"macs", "end"}
  <2>1. CASE vault' = [vault EXCEPT ![r].data = b, ![r].ok = ~Encrypt, ![r].pc = IF Encrypt THEN "macs" ELSE "end"]
    <3> WITNESS [vault[r] EXCEPT !.data = b, !.ok = ~Encrypt, !.pc = IF Encrypt THEN "macs" ELSE "end"]
    <3> QED
        BY <1>1, <1>2, <2>1 DEF Kind, PlaceOf, PlanOf, LeftOf
  <2>2. CASE vault' = [vault EXCEPT ![r].pc = "end"]
    <3> WITNESS [vault[r] EXCEPT !.pc = "end"]
    <3> QED
        BY <1>1, <1>2, <2>2 DEF Kind, PlaceOf, PlanOf, LeftOf
  <2> QED
      BY <1>3, <2>1, <2>2 DEF ReadPayload, ReadFails, GoVault
<1> QED
    BY <1>1, <1>2, <1>4, <1>5, ReadsKeep

LEMMA ReadMacsKeeps == ASSUME VaultInv, NEW r \in ProtectedRequests, ReadMacs(r) PROVE VaultKept
<1>0. ReadsVerified /\ RequestsAre
    BY DEF VaultInv, VaultTypes
<1>1. DOMAIN vault[r] = {"pc", "kind", "path", "size", "rows", "left", "made", "data", "ok"} /\ Pc(r) = "macs" /\ Running(r)
    BY <1>0, TheFields DEF ReadMacs, AtVault, Pc, Running
<1>2. Kind(r) = "read"
    BY <1>0, <1>1 DEF RequestsAre, RequestIs, WriteIs, CopyIs, Kind, Pc
<1>3. UNCHANGED <<fileRow, blob, openLog, todo, hurt, leaky>>
    BY DEF ReadMacs
<1>4. PICK me : /\ vault' = [vault EXCEPT ![r] = me] /\ me.kind = "read" /\ me.path = PlaceOf(r) /\ me.rows = PlanOf(r)
                /\ me.left = LeftOf(r) /\ me.pc \in {"macs", "end"}
  <2>1. CASE EndVault(r)
    <3> WITNESS [vault[r] EXCEPT !.pc = "end", !.ok = TRUE]
    <3> QED
        BY <1>1, <1>2, <2>1 DEF EndVault, Kind, PlaceOf, PlanOf, LeftOf
  <2>2. CASE vault' = [vault EXCEPT ![r].pc = "end"]
    <3> WITNESS [vault[r] EXCEPT !.pc = "end"]
    <3> QED
        BY <1>1, <1>2, <2>2 DEF Kind, PlaceOf, PlanOf, LeftOf
  <2> QED
      BY <2>1, <2>2 DEF ReadMacs, ReadFails, GoVault
<1> QED
    BY <1>1, <1>2, <1>3, <1>4, ReadsKeep

-----------------------------------------------------------------------------
(* Beginnings: the others stay as they are                                  *)

\* A step of a request that has not begun.
Rests(r) ==
    /\ \A s \in ProtectedRequests \ {r} : vault'[s] = vault[s] /\ (InLog(s)' <=> InLog(s))
    /\ todo' = todo /\ todo = <<>> /\ Range(todo) = {} /\ blob' = blob /\ hurt \subseteq hurt' /\ leaky \subseteq leaky'
    /\ \A x \in FilePaths : fileRow'[x] = fileRow[x]
    /\ \A x \in VaultPaths : fileRow[x] # Void => fileRow'[x] = fileRow[x]
    /\ Kind(r) = "none" /\ Pc(r) = "new" /\ ~Running(r) /\ ~InLog(r) /\ ~Live(r)

LEMMA RestSame ==
    ASSUME NEW r \in ProtectedRequests, Rests(r), NEW s \in ProtectedRequests \ {r}
    PROVE /\ Kind(s)' = Kind(s) /\ Pc(s)' = Pc(s) /\ PlaceOf(s)' = PlaceOf(s) /\ PlanOf(s)' = PlanOf(s)
          /\ LeftOf(s)' = LeftOf(s) /\ vault'[s].made = vault[s].made /\ RowsMade(s)' = RowsMade(s)
          /\ Mine(s)' = Mine(s) /\ PlannedFiles(s)' = PlannedFiles(s) /\ WriteKey(s)' = WriteKey(s) /\ WriteMeta(s)' = WriteMeta(s)
          /\ Running(s)' <=> Running(s)
          /\ InLog(s)' <=> InLog(s)
          /\ Live(s)' <=> Live(s)
          /\ LiveWrite(s)' <=> LiveWrite(s)
          /\ LiveCopy(s)' <=> LiveCopy(s)
          /\ LiveDelete(s)' <=> LiveDelete(s)
<1>1. /\ Kind(s)' = Kind(s) /\ Pc(s)' = Pc(s) /\ PlaceOf(s)' = PlaceOf(s) /\ PlanOf(s)' = PlanOf(s)
      /\ LeftOf(s)' = LeftOf(s) /\ vault'[s].made = vault[s].made /\ (Running(s)' <=> Running(s)) /\ (InLog(s)' <=> InLog(s))
    BY DEF Rests, Kind, Pc, PlaceOf, PlanOf, LeftOf, Running
<1>2. Live(s)' <=> Live(s)
    BY <1>1 DEF Live
<1>3. RowsMade(s)' = RowsMade(s)
    BY <1>1 DEF RowsMade, Rests
<1>4. Mine(s)' = Mine(s)
    BY <1>1 DEF Mine, Kind, PlaceOf
<1>5. PlannedFiles(s)' = PlannedFiles(s) /\ WriteKey(s)' = WriteKey(s) /\ WriteMeta(s)' = WriteMeta(s)
    BY <1>1 DEF PlannedFiles, WriteKey, WriteMeta
<1> QED
    BY <1>1, <1>2, <1>3, <1>4, <1>5 DEF LiveWrite, LiveCopy, LiveDelete

LEMMA TheRestKeeps ==
    ASSUME VaultInv, NEW r \in ProtectedRequests, Rests(r),
           WriteFits(r)', CopyFits(r)', DeleteLeaves(r)', CopyLeaves(r)'
    PROVE KeptFit' /\ LostInv'
<1>0. RequestsAre /\ StoreIs /\ KeptFit /\ LostInv /\ hurt \subseteq hurt' /\ leaky \subseteq leaky' /\ hurt \subseteq leaky
    BY DEF VaultInv, VaultTypes, Rests, StoreIs
<1>1. blob' = blob /\ (\A x \in FilePaths : fileRow'[x] = fileRow[x]) /\ \A x \in FilePaths : \A k : HasKey(x, k)' <=> HasKey(x, k)
    BY DEF Rests, HasKey
<1>2. ASSUME NEW s \in ProtectedRequests \ {r} PROVE WriteFits(s)' /\ CopyFits(s)' /\ DeleteLeaves(s)' /\ CopyLeaves(s)'
  <2>1. /\ Kind(s)' = Kind(s) /\ Pc(s)' = Pc(s) /\ PlaceOf(s)' = PlaceOf(s) /\ PlanOf(s)' = PlanOf(s)
        /\ LeftOf(s)' = LeftOf(s) /\ vault'[s].made = vault[s].made /\ RowsMade(s)' = RowsMade(s)
        /\ Mine(s)' = Mine(s) /\ PlannedFiles(s)' = PlannedFiles(s) /\ WriteKey(s)' = WriteKey(s) /\ WriteMeta(s)' = WriteMeta(s)
        /\ Running(s)' <=> Running(s)
        /\ LiveWrite(s)' <=> LiveWrite(s)
        /\ LiveCopy(s)' <=> LiveCopy(s)
        /\ LiveDelete(s)' <=> LiveDelete(s)
      BY RestSame
  <2>2. WriteFits(s)'
    <3>1. LiveWrite(s) => PlaceOf(s) \in FilePaths
        BY <1>0, WritesOf DEF LiveWrite
    <3>2. WriteFits(s)
        BY <1>0 DEF KeptFit
    <3> QED
        BY <1>0, <1>1, <2>1, <3>1, <3>2 DEF WriteFits
  <2>3. CopyFits(s)'
    <3>1. LiveCopy(s) => \A q \in PlannedFiles(s) : q \in FilePaths /\ Other(q) \in FilePaths
      <4>1. LiveCopy(s) => PlannedFiles(s) \subseteq FilePaths
          BY <1>0, PlansOf DEF LiveCopy
      <4> QED
          BY <4>1, FilesArePaths, ThePaths
    <3>2. CopyFits(s)
        BY <1>0 DEF KeptFit
    <3>3. LiveCopy(s) => \A q \in PlannedFiles(s) : Other(q) \notin hurt' /\ HasKey(Other(q), PlanOf(s)[q].src) =>
                                                    HasKey(Other(q), PlanOf(s)[q].src)'
        BY <1>1, <2>1, <3>1 DEF HasKey
    <3> QED
        BY <1>0, <1>1, <2>1, <3>2, <3>3 DEF CopyFits
  <2>4. DeleteLeaves(s)'
      BY <1>0, <1>1, <2>1 DEF DeleteLeaves, LostInv
  <2>5. CopyLeaves(s)'
    <3> SUFFICES ASSUME LiveCopy(s) PROVE CopyLeaves(s)'
        BY <2>1 DEF CopyLeaves
    <3>1. CopyLeaves(s) /\ CopyIs(s, vault[s]) /\ RowsMade(s) \subseteq DOMAIN PlanOf(s)
          /\ \A q \in DOMAIN PlanOf(s) : q \in VaultPaths
        BY <1>0, PlansOf DEF LostInv, LiveCopy
    <3>2. Missed(s)' <=> Missed(s)
        BY <1>1, <2>1 DEF Missed
    <3>3. ASSUME Running(s), NEW q \in RowsMade(s), q \notin hurt' PROVE fileRow'[q] = Row(PlanOf(s)[q])
      <4>1. fileRow[q] = Row(PlanOf(s)[q]) /\ q \in VaultPaths
          BY <1>0, <3>1, <3>3 DEF CopyLeaves
      <4>2. Row(PlanOf(s)[q]) \in VaultRow
          BY <3>1, <3>3 DEF CopyIs, PlanOf
      <4> QED
          BY <4>1, <4>2, VaultAssumption DEF Rests
    <3> QED
        BY <1>0, <1>1, <2>1, <3>1, <3>2, <3>3 DEF CopyLeaves, Row
  <2> QED
      BY <2>2, <2>3, <2>4, <2>5
<1>3. ASSUME NEW x \in FilePaths PROVE RowFits(x)'
  <2> SUFFICES ASSUME x \notin hurt', fileRow'[x] # Void PROVE RowFits(x)'
      BY DEF RowFits
  <2>1. RowFits(x) /\ x \notin hurt /\ fileRow'[x] = fileRow[x]
      BY <1>0, <1>1 DEF KeptFit
  <2>2. ASSUME NEW s \in ProtectedRequests, Kind(s) = "write", Pc(s) = "row", PlaceOf(s) = x PROVE RowFits(x)'
    <3>1. s # r
        BY <2>2 DEF Rests
    <3>2. Kind(s)' = "write" /\ Pc(s)' = "row" /\ PlaceOf(s)' = x
        BY <2>2, <3>1, RestSame
    <3> QED
        BY <3>2 DEF RowFits
  <2>3. ASSUME NEW s \in ProtectedRequests, LiveDelete(s), x \in Mine(s) PROVE RowFits(x)'
    <3>1. s # r
        BY <2>3 DEF Rests, LiveDelete
    <3>2. LiveDelete(s)' /\ x \in Mine(s)'
        BY <2>3, <3>1, RestSame
    <3> QED
        BY <3>2 DEF RowFits
  <2> QED
      BY <1>1, <2>1, <2>2, <2>3 DEF RowFits
<1>4. BlobsKept'
  <2> SUFFICES ASSUME NEW k \in BlobKeys, blob[k] # Void, EndsOf(k[2]) \cap leaky' = {} PROVE BlobHeld(k)'
      BY <1>1 DEF BlobsKept
  <2>1. BlobHeld(k)
      BY <1>0 DEF LostInv, BlobsKept
  <2>2. ASSUME NEW s \in ProtectedRequests, Keeps(s, k) PROVE Keeps(s, k)'
    <3>1. s # r
        BY <2>2 DEF Keeps, Rests, LiveWrite, LiveCopy
    <3>2. /\ Kind(s)' = Kind(s) /\ Pc(s)' = Pc(s) /\ vault'[s].made = vault[s].made /\ Mine(s)' = Mine(s)
          /\ PlannedFiles(s)' = PlannedFiles(s) /\ WriteKey(s)' = WriteKey(s)
          /\ Running(s)' <=> Running(s)
          /\ LiveWrite(s)' <=> LiveWrite(s)
          /\ LiveCopy(s)' <=> LiveCopy(s)
        BY <3>1, RestSame
    <3>3. Missed(s)' <=> Missed(s)
        BY <1>1, <3>2 DEF Missed
    <3> QED
        BY <2>2, <3>2, <3>3 DEF Keeps
  <2> QED
      BY <1>1, <2>1, <2>2 DEF BlobHeld
<1> QED
    BY <1>2, <1>3, <1>4 DEF KeptFit, LostInv

\* What a beginning leaves apart.
LEMMA TheRestApart ==
    ASSUME VaultInv, NEW r \in ProtectedRequests, Rests(r), Pc(r)' # "new", PlannedFiles(r)' \subseteq FilePaths \/ ~LiveCopy(r)',
           WriteApart(r)', DeleteApart(r)',
           \A s \in ProtectedRequests \ {r} : LiveWrite(r)' /\ LiveWrite(s) /\ WriteKey(s) = WriteKey(r)' => PlaceOf(s) \in hurt',
           \A s \in ProtectedRequests \ {r} :
               LiveWrite(r)' /\ Running(s) /\ Kind(s) = "delete" /\ WriteKey(r)' \in LeftOf(s) => PlaceOf(r)' \in hurt',
           \A s \in ProtectedRequests, k \in BlobKeys : Pc(s) = "new" /\ k[1] = s /\ s # r =>
               /\ LiveWrite(r)' => WriteKey(r)' # k
               /\ Running(r)' /\ Kind(r)' = "delete" => k \notin LeftOf(r)'
    PROVE ApartInv'
<1>0. RequestsAre /\ StoreIs /\ ApartInv /\ hurt \subseteq hurt' /\ blob' = blob /\ Pc(r) = "new"
    BY DEF VaultInv, VaultTypes, Rests
<1>1. \A x \in FilePaths : fileRow'[x] = fileRow[x] /\ \A k : HasKey(x, k)' <=> HasKey(x, k)
    BY DEF Rests, HasKey
<1>2. ASSUME NEW s \in ProtectedRequests \ {r}
      PROVE /\ Kind(s)' = Kind(s) /\ Pc(s)' = Pc(s) /\ PlaceOf(s)' = PlaceOf(s) /\ PlanOf(s)' = PlanOf(s)
            /\ LeftOf(s)' = LeftOf(s) /\ RowsMade(s)' = RowsMade(s)
            /\ Mine(s)' = Mine(s) /\ PlannedFiles(s)' = PlannedFiles(s) /\ WriteKey(s)' = WriteKey(s)
            /\ Running(s)' <=> Running(s)
            /\ LiveWrite(s)' <=> LiveWrite(s)
            /\ LiveCopy(s)' <=> LiveCopy(s)
    BY RestSame
\* Nobody knows the blobs that it will make.
<1>3. \A k \in BlobKeys : k[1] = r =>
        /\ blob[k] = Void /\ \A x \in FilePaths : ~HasKey(x, k)
        /\ \A s \in ProtectedRequests : /\ LiveWrite(s) => WriteKey(s) # k
                                        /\ Running(s) /\ Kind(s) = "delete" => k \notin LeftOf(s)
    BY <1>0 DEF ApartInv, NewKeys
<1>4. LiveCopy(r)' => \A q \in PlannedFiles(r)' : <<r, q>> \in BlobKeys /\ <<r, q>>[1] = r
    BY DEF BlobKeys
<1>5. RowsApart'
    BY <1>0, <1>1 DEF ApartInv, RowsApart
<1>6. ASSUME NEW s \in ProtectedRequests \ {r} PROVE WriteApart(s)'
  <2> SUFFICES ASSUME LiveWrite(s)' PROVE WriteApart(s)'
      BY DEF WriteApart
  <2>1. WriteApart(s) /\ LiveWrite(s)
      BY <1>0, <1>2 DEF ApartInv, WritesApart
  <2>2. \A y \in FilePaths : y # PlaceOf(s) /\ HasKey(y, WriteKey(s))' => {y, PlaceOf(s)} \subseteq hurt'
      BY <1>0, <1>1, <1>2, <2>1 DEF WriteApart, HasKey
  <2>3. ASSUME NEW t \in ProtectedRequests, t # s, LiveWrite(t)', WriteKey(t)' = WriteKey(s) PROVE PlaceOf(s) \in hurt'
    <3>1. CASE t = r
        BY <1>2, <2>1, <2>3, <3>1
    <3>2. CASE t # r
        BY <1>0, <1>2, <2>1, <2>3, <3>2 DEF WriteApart
    <3> QED
        BY <3>1, <3>2
  <2>4. ASSUME NEW t \in ProtectedRequests, LiveCopy(t)', NEW q \in PlannedFiles(t)', WriteKey(s) = <<t, q>>
        PROVE PlaceOf(s) \in hurt' /\ Mine(t)' \subseteq hurt'
    <3>1. CASE t = r
        BY <1>3, <1>4, <2>1, <2>4, <3>1
    <3>2. CASE t # r
        BY <1>0, <1>2, <2>1, <2>4, <3>2 DEF WriteApart
    <3> QED
        BY <3>1, <3>2
  <2> QED
      BY <1>2, <2>2, <2>3, <2>4 DEF WriteApart
<1>7. ASSUME NEW s \in ProtectedRequests PROVE CopyApart(s)'
  <2>1. CASE s = r
      BY <1>1, <1>3, <1>4, <2>1 DEF CopyApart
  <2>2. CASE s # r
    <3>1. CopyApart(s)
        BY <1>0 DEF ApartInv, CopiesApart
    <3> QED
        BY <1>0, <1>1, <1>2, <2>2, <3>1 DEF CopyApart
  <2> QED
      BY <2>1, <2>2
<1>8. ASSUME NEW s \in ProtectedRequests \ {r} PROVE DeleteApart(s)'
  <2> SUFFICES ASSUME Running(s)', Kind(s)' = "delete" PROVE DeleteApart(s)'
      BY DEF DeleteApart
  <2>1. DeleteApart(s) /\ Running(s) /\ Kind(s) = "delete"
      BY <1>0, <1>2 DEF ApartInv, DeletesApart
  <2>2. \A x \in FilePaths : fileRow'[x] # Void /\ fileRow'[x].key \in LeftOf(s) => x \in Mine(s) \cup hurt'
      BY <1>0, <1>1, <2>1 DEF DeleteApart
  <2>3. ASSUME NEW t \in ProtectedRequests, LiveWrite(t)', WriteKey(t)' \in LeftOf(s) PROVE PlaceOf(t)' \in hurt'
    <3>1. CASE t = r
        BY <2>1, <2>3, <3>1
    <3>2. CASE t # r
        BY <1>0, <1>2, <2>1, <2>3, <3>2 DEF DeleteApart
    <3> QED
        BY <3>1, <3>2
  <2>4. ASSUME NEW t \in ProtectedRequests, LiveCopy(t)', NEW q \in PlannedFiles(t)', <<t, q>> \in LeftOf(s) PROVE q \in hurt'
    <3>1. CASE t = r
        BY <1>3, <1>4, <2>1, <2>4, <3>1
    <3>2. CASE t # r
        BY <1>0, <1>2, <2>1, <2>4, <3>2 DEF DeleteApart
    <3> QED
        BY <3>1, <3>2
  <2> QED
      BY <1>2, <2>2, <2>3, <2>4 DEF DeleteApart
<1>9. NewKeys'
  <2> SUFFICES ASSUME NEW s \in ProtectedRequests, NEW k \in BlobKeys, Pc(s)' = "new", k[1] = s
               PROVE /\ blob'[k] = Void /\ \A x \in FilePaths : ~HasKey(x, k)'
                     /\ \A t \in ProtectedRequests : /\ LiveWrite(t)' => WriteKey(t)' # k
                                                     /\ Running(t)' /\ Kind(t)' = "delete" => k \notin LeftOf(t)'
      BY DEF NewKeys
  <2>1. s # r
      OBVIOUS
  <2>2. Pc(s) = "new"
      BY <1>2, <2>1
  <2>3. /\ blob[k] = Void /\ \A x \in FilePaths : ~HasKey(x, k)
        /\ \A t \in ProtectedRequests : /\ LiveWrite(t) => WriteKey(t) # k
                                        /\ Running(t) /\ Kind(t) = "delete" => k \notin LeftOf(t)
      BY <1>0, <2>2 DEF ApartInv, NewKeys
  <2>4. ASSUME NEW t \in ProtectedRequests
        PROVE /\ LiveWrite(t)' => WriteKey(t)' # k
              /\ Running(t)' /\ Kind(t)' = "delete" => k \notin LeftOf(t)'
    <3>1. CASE t = r
        BY <2>1, <2>2, <3>1
    <3>2. CASE t # r
        BY <1>2, <2>3, <3>2
    <3> QED
        BY <3>1, <3>2
  <2> QED
      BY <1>0, <1>1, <2>3, <2>4
<1> QED
    BY <1>5, <1>6, <1>7, <1>8, <1>9 DEF ApartInv, WritesApart, CopiesApart, DeletesApart

LEMMA RequestsStay ==
    ASSUME RequestsAre, NEW r \in ProtectedRequests, NEW me, RequestIs(r, me),
           vault'[r] = me, \A s \in ProtectedRequests \ {r} : vault'[s] = vault[s]
    PROVE RequestsAre'
    BY DEF RequestsAre, RequestIs, WriteIs, CopyIs

\* Who begins has met those who work on what it needs.
LEMMA BeginningOf ==
    ASSUME VaultInv, NEW r \in ProtectedRequests, NEW kind \in {"read", "write", "delete", "move", "copy"}, NEW p \in VaultPaths,
           NEW more, NEW logged \in BOOLEAN, Begun(r, kind, p, more, logged),
           NEW me, me = [more EXCEPT !.kind = kind, !.path = p], me.kind = kind, me.path = p, me.pc \notin {"new", "end"},
           RequestIs(r, me), kind = "read" => ~logged, kind \in {"delete", "move", "copy"} => logged
    PROVE /\ Rests(r) /\ VaultTypes' /\ MeetingsHurt' /\ BothEnds' /\ fileRow' = fileRow /\ blob' = blob
          /\ Kind(r)' = kind /\ PlaceOf(r)' = p /\ Pc(r)' = me.pc /\ PlanOf(r)' = me.rows /\ LeftOf(r)' = me.left
          /\ Running(r)' /\ Mine(r)' = Scope(kind, p)
          /\ kind # "read" => \A s \in ProtectedRequests :
               /\ Live(s) /\ Kind(s) # "read" => Mine(s) \cap Scope(kind, p) \subseteq hurt'
               /\ Running(s) /\ Mine(s) \cap Scope(kind, p) # {} => Mine(s) \subseteq hurt' /\ Scope(kind, p) \subseteq hurt'
<1>0. ReadsVerified /\ RequestsAre /\ LogIs /\ StoreIs /\ MeetingsHurt /\ BothEnds /\ hurt \subseteq leaky
  <2>1. ReadsVerified /\ RequestsAre /\ LogIs /\ StoreIs /\ MeetingsHurt /\ BothEnds
      BY DEF VaultInv, VaultTypes
  <2> QED
      BY <2>1 DEF StoreIs
<1>1. PICK S : S = Scope(kind, p)
    OBVIOUS
<1>2. PICK near, clash :
        /\ near = {q \in ProtectedRequests : Running(q) /\ Mine(q) \cap S # {}}
        /\ clash = {q \in near : kind # "read" \/ Kind(q) # "read"}
    OBVIOUS
<1>3. /\ vault[r].pc = "new" /\ todo = <<>> /\ vault' = [vault EXCEPT ![r] = me]
      /\ Spoilt((UNION {Mine(q) \cup S : q \in clash})
                \cup (IF kind # "read" /\ (Unsettled \cup hurt) \cap S # {} THEN S ELSE {}))
      /\ openLog' = IF logged THEN Append(openLog, r) ELSE openLog
      /\ UNCHANGED <<fileRow, blob, todo, vaultFaults>>
    BY <1>1, <1>2 DEF Begun, AtVault, Kind
<1>4. /\ Pc(r) = "new" /\ ~Running(r) /\ ~InLog(r) /\ ~Live(r) /\ Kind(r) = "none"
  <2>1. Pc(r) = "new" /\ ~Running(r)
      BY <1>3 DEF Pc, Running
  <2>2. ~InLog(r)
      BY <1>0, <2>1 DEF LogIs
  <2>3. Kind(r) = "none"
      BY <1>0, <2>1 DEF RequestsAre, RequestIs, WriteIs, CopyIs, Kind, Pc
  <2> QED
      BY <2>1, <2>2, <2>3 DEF Live
<1>5. vault'[r] = me /\ \A s \in ProtectedRequests \ {r} : vault'[s] = vault[s]
    BY <1>0, <1>3 DEF ReadsVerified
<1>6. /\ openLog' \in Seq(ProtectedRequests) /\ NoTwice(openLog')
      /\ Range(openLog') = IF logged THEN Range(openLog) \cup {r} ELSE Range(openLog)
  <2>1. CASE logged
      BY <1>0, <1>3, <1>4, <2>1, Opening DEF InLog
  <2>2. CASE ~logged
      BY <1>0, <1>3, <2>2 DEF LogIs
  <2> QED
      BY <2>1, <2>2
<1>7. (\A s \in ProtectedRequests \ {r} : InLog(s)' <=> InLog(s)) /\ (InLog(r)' <=> logged)
    BY <1>4, <1>6 DEF InLog
<1>8. hurt \subseteq hurt' /\ leaky \subseteq leaky' /\ hurt' \subseteq leaky'
    BY <1>0, <1>3 DEF Spoilt
<1>9. Rests(r)
  <2>1. Range(todo) = {}
      BY <1>3 DEF Range
  <2> QED
      BY <1>3, <1>4, <1>5, <1>7, <1>8, <2>1 DEF Rests
<1>10. /\ Kind(r)' = kind /\ PlaceOf(r)' = p /\ Pc(r)' = me.pc /\ PlanOf(r)' = me.rows /\ LeftOf(r)' = me.left
       /\ Running(r)' /\ Mine(r)' = S
    BY <1>1, <1>5 DEF Kind, PlaceOf, Pc, PlanOf, LeftOf, Running, Mine
<1>11. \A s \in ProtectedRequests \ {r} : /\ Kind(s)' = Kind(s) /\ Pc(s)' = Pc(s) /\ PlaceOf(s)' = PlaceOf(s) /\ Mine(s)' = Mine(s)
                                          /\ (Running(s)' <=> Running(s)) /\ (Live(s)' <=> Live(s))
    BY <1>9, RestSame
\* What a beginning spoils.
<1>12. /\ \A q \in clash : Mine(q) \cup S \subseteq hurt'
       /\ kind # "read" /\ (Unsettled \cup hurt) \cap S # {} => S \subseteq hurt'
       /\ \A x \in hurt' : x \in hurt \/ x \in S \/ \E q \in clash : x \in Mine(q)
       /\ S \subseteq hurt' \/ hurt' = hurt
  <2>1. PICK unsure : unsure = IF kind # "read" /\ (Unsettled \cup hurt) \cap S # {} THEN S ELSE {}
      OBVIOUS
  <2>2. \A x : x \in hurt' <=> x \in hurt \/ (\E q \in clash : x \in Mine(q) \cup S) \/ x \in unsure
    <3>1. PICK met : met = UNION {Mine(q) \cup S : q \in clash}
        OBVIOUS
    <3>2. Spoilt(met \cup unsure)
        BY <1>3, <2>1, <3>1
    <3>3. \A x : x \in met <=> \E q \in clash : x \in Mine(q) \cup S
        BY <3>1
    <3> QED
        BY <3>2, <3>3 DEF Spoilt
  <2> QED
      BY <2>1, <2>2
<1>13. kind # "read" /\ hurt' \cap S # {} => S \subseteq hurt'
  <2> SUFFICES ASSUME kind # "read", NEW x \in hurt' \cap S, ~(S \subseteq hurt') PROVE FALSE
      OBVIOUS
  <2> QED
      BY <1>12
<1>14. ASSUME NEW s \in ProtectedRequests, Running(s), Mine(s) \cap S # {}, kind # "read" \/ Kind(s) # "read"
       PROVE s \in clash /\ Mine(s) \subseteq hurt' /\ S \subseteq hurt'
    BY <1>2, <1>12, <1>14
<1>15. ASSUME NEW s \in ProtectedRequests, InLog(s), ~Running(s), kind # "read", Mine(s) \cap S # {} PROVE S \subseteq hurt'
  <2>1. Mine(s) \subseteq Unsettled
      BY <1>15 DEF Unsettled, InLog
  <2> QED
      BY <1>12, <1>15, <2>1
<1>16. ASSUME NEW s \in ProtectedRequests, Live(s), Kind(s) # "read", kind # "read" PROVE Mine(s) \cap S \subseteq hurt'
    BY <1>14, <1>15, <1>16 DEF Live
<1>17. RequestsAre'
    BY <1>0, <1>5, RequestsStay
<1>18. StoreIs'
    BY <1>0, <1>3, <1>8, StoreStays
<1>19. LogIs'
  <2>1. ASSUME NEW s \in ProtectedRequests
        PROVE /\ InLog(s)' => Pc(s)' # "new" /\ Kind(s)' \in {"write", "delete", "move", "copy"}
              /\ Running(s)' /\ Kind(s)' \in {"delete", "move", "copy"} => InLog(s)'
    <3>1. CASE s = r
        BY <1>7, <1>10, <3>1
    <3>2. CASE s # r
        BY <1>0, <1>7, <1>11, <3>2 DEF LogIs
    <3> QED
        BY <3>1, <3>2
  <2>2. todo' = <<>> /\ todo' \in Seq(ProtectedRequests) /\ NoTwice(todo') /\ Range(todo') = {}
      BY <1>0, <1>3 DEF LogIs, Range
  <2> QED
      BY <1>6, <2>1, <2>2 DEF LogIs
<1>20. MeetingsHurt'
  <2> SUFFICES ASSUME NEW s \in ProtectedRequests, NEW t \in ProtectedRequests, s # t
               PROVE /\ Running(s)' /\ Running(t)' /\ Overlap(s, t)' => Mine(s)' \subseteq hurt'
                     /\ Live(s)' /\ Kind(s)' # "read" /\ InLog(t)' => Mine(s)' \cap Mine(t)' \subseteq hurt'
      BY DEF MeetingsHurt
  <2>1. CASE s # r /\ t # r
    <3>1. Overlap(s, t)' <=> Overlap(s, t)
        BY <1>11, <2>1 DEF Overlap
    <3> QED
        BY <1>0, <1>7, <1>8, <1>11, <2>1, <3>1 DEF MeetingsHurt
  <2>2. CASE s = r
    <3>1. Overlap(s, t)' <=> S \cap Mine(t) # {} /\ (kind # "read" \/ Kind(t) # "read")
        BY <1>10, <1>11, <2>2 DEF Overlap
    <3>2. Running(t)' /\ Overlap(s, t)' => Mine(s)' \subseteq hurt'
        BY <1>10, <1>11, <1>14, <2>2, <3>1
    <3>3. Kind(s)' # "read" /\ InLog(t)' => Mine(s)' \cap Mine(t)' \subseteq hurt'
        BY <1>7, <1>10, <1>11, <1>14, <1>15, <2>2
    <3> QED
        BY <3>2, <3>3
  <2>3. CASE t = r
    <3>1. Overlap(s, t)' <=> Mine(s) \cap S # {} /\ (Kind(s) # "read" \/ kind # "read")
        BY <1>10, <1>11, <2>3 DEF Overlap
    <3>2. Running(s)' /\ Overlap(s, t)' => Mine(s)' \subseteq hurt'
        BY <1>11, <1>14, <2>3, <3>1
    <3>3. Live(s)' /\ Kind(s)' # "read" /\ InLog(t)' => Mine(s)' \cap Mine(t)' \subseteq hurt'
        BY <1>7, <1>10, <1>11, <1>16, <2>3
    <3> QED
        BY <3>2, <3>3
  <2> QED
      BY <2>1, <2>2, <2>3
<1>21. BothEnds'
  <2> SUFFICES ASSUME NEW s \in ProtectedRequests, Running(s)'
               PROVE /\ Kind(s)' = "move" => \A x \in Mine(s)' \cap hurt' : Other(x) \in hurt'
                     /\ Kind(s)' = "copy" => \A x \in Below(PlaceOf(s)') \cap hurt' : Other(x) \in hurt'
      BY DEF BothEnds
  <2>1. CASE s = r
    <3>1. kind \in {"move", "copy"} => (\A x \in S : Other(x) \in S) /\ Below(p) \subseteq S
        BY <1>1, ScopeIs
    <3> QED
        BY <1>10, <1>13, <2>1, <3>1
  <2>2. CASE s # r
    <3>1. Running(s) /\ Kind(s)' = Kind(s) /\ PlaceOf(s)' = PlaceOf(s) /\ Mine(s)' = Mine(s)
        BY <1>11, <2>2
    <3> SUFFICES ASSUME Kind(s) \in {"move", "copy"}, NEW x \in Mine(s), x \in hurt', x \notin hurt PROVE Other(x) \in hurt'
      <4>1. Below(PlaceOf(s)) \subseteq Mine(s)
          BY <1>0, MineIs
      <4> QED
          BY <1>0, <1>8, <3>1, <4>1 DEF BothEnds
    <3>2. Other(x) \in Mine(s)
        BY <1>0, MineIs
    <3>3. CASE x \in S
        BY <1>14, <3>1, <3>2, <3>3
    <3>4. ASSUME NEW q \in clash, x \in Mine(q) PROVE Other(x) \in hurt'
      <4>1. CASE q = s
          BY <1>12, <3>2, <4>1
      <4>2. CASE q # s
        <5>1. Running(q) /\ q \in ProtectedRequests
            BY <1>2
        <5>2. Mine(s) \subseteq hurt
            BY <1>0, <3>1, <3>4, <4>2, <5>1 DEF MeetingsHurt, Overlap
        <5> QED
            BY <5>2
      <4> QED
          BY <4>1, <4>2
    <3> QED
        BY <1>12, <3>3, <3>4
  <2> QED
      BY <2>1, <2>2
<1> QED
    BY <1>1, <1>3, <1>9, <1>10, <1>14, <1>16, <1>17, <1>18, <1>19, <1>20, <1>21 DEF VaultTypes

\* What a beginning has to show of its request, by its kind.
LEMMA OnlyOfKind ==
    ASSUME NEW r \in ProtectedRequests
    PROVE /\ Kind(r)' # "write" => ~LiveWrite(r)' /\ WriteFits(r)' /\ WriteApart(r)'
          /\ Kind(r)' # "copy" => ~LiveCopy(r)' /\ CopyFits(r)' /\ CopyLeaves(r)'
          /\ Kind(r)' # "delete" => DeleteApart(r)' /\ DeleteLeaves(r)'
    BY DEF LiveWrite, LiveCopy, LiveDelete, WriteFits, CopyFits, DeleteLeaves, CopyLeaves, WriteApart, DeleteApart

LEMMA BeginReadKeeps == ASSUME VaultInv, NEW r \in ProtectedRequests, BeginProtectedRead(r) PROVE VaultKept
<1>0. PICK p \in Rows(FilePaths) : Begun(r, "read", p, [NewVaultRequest EXCEPT !.pc = "payload", !.rows = [q \in {p} |-> fileRow[q]]], FALSE)
    BY DEF BeginProtectedRead
<1>1. PICK more :
        more = [NewVaultRequest EXCEPT !.pc = "payload", !.rows = [q \in {p} |-> fileRow[q]]] /\ Begun(r, "read", p, more, FALSE)
    BY <1>0
<1>2. p \in FilePaths /\ p \in VaultPaths
    BY FilesArePaths DEF Rows
<1>3. PICK me : me = [more EXCEPT !.kind = "read", !.path = p]
    OBVIOUS
<1>4. me.kind = "read" /\ me.path = p /\ me.pc = "payload"
    BY <1>1, <1>3 DEF NewVaultRequest
<1>5. RequestIs(r, me)
    BY <1>2, <1>4 DEF RequestIs
<1>6. Rests(r) /\ VaultTypes' /\ MeetingsHurt' /\ BothEnds' /\ Kind(r)' = "read" /\ Pc(r)' = "payload"
    BY <1>1, <1>2, <1>3, <1>4, <1>5, BeginningOf
<1>7. /\ ~LiveWrite(r)' /\ WriteFits(r)' /\ WriteApart(r)' /\ ~LiveCopy(r)' /\ CopyFits(r)' /\ CopyLeaves(r)'
      /\ DeleteApart(r)' /\ DeleteLeaves(r)'
    BY <1>6, OnlyOfKind
<1>8. ApartInv'
    BY <1>6, <1>7, TheRestApart
<1>9. KeptFit' /\ LostInv'
    BY <1>6, <1>7, TheRestKeeps
<1> QED
    BY <1>6, <1>8, <1>9 DEF VaultKept

LEMMA BeginMoveKeeps == ASSUME VaultInv, NEW r \in ProtectedRequests, BeginProtectedMove(r) PROVE VaultKept
<1>0. PICK p \in Rows(VaultPaths) : Begun(r, "move", p, [NewVaultRequest EXCEPT !.pc = "rename"], TRUE)
    BY DEF BeginProtectedMove
<1>1. PICK more : more = [NewVaultRequest EXCEPT !.pc = "rename"] /\ Begun(r, "move", p, more, TRUE)
    BY <1>0
<1>2. p \in VaultPaths
    BY DEF Rows
<1>3. PICK me : me = [more EXCEPT !.kind = "move", !.path = p]
    OBVIOUS
<1>4. me.kind = "move" /\ me.path = p /\ me.pc = "rename"
    BY <1>1, <1>3 DEF NewVaultRequest
<1>5. RequestIs(r, me)
    BY <1>2, <1>4 DEF RequestIs
<1>6. Rests(r) /\ VaultTypes' /\ MeetingsHurt' /\ BothEnds' /\ Kind(r)' = "move" /\ Pc(r)' = "rename"
    BY <1>1, <1>2, <1>3, <1>4, <1>5, BeginningOf
<1>7. /\ ~LiveWrite(r)' /\ WriteFits(r)' /\ WriteApart(r)' /\ ~LiveCopy(r)' /\ CopyFits(r)' /\ CopyLeaves(r)'
      /\ DeleteApart(r)' /\ DeleteLeaves(r)'
    BY <1>6, OnlyOfKind
<1>8. ApartInv'
    BY <1>6, <1>7, TheRestApart
<1>9. KeptFit' /\ LostInv'
    BY <1>6, <1>7, TheRestKeeps
<1> QED
    BY <1>6, <1>8, <1>9 DEF VaultKept

LEMMA BeginWriteKeeps == ASSUME VaultInv, NEW r \in ProtectedRequests, BeginProtectedWrite(r) PROVE VaultKept
<1>0. RequestsAre /\ LogIs /\ StoreIs /\ ApartInv /\ hurt \subseteq leaky
    BY DEF VaultInv, VaultTypes, StoreIs
<1>1. PICK p \in FilePaths, n \in BlobSizes :
        Begun(r, "write", p, [NewVaultRequest EXCEPT !.pc = "write", !.size = n,
                  !.rows = [q \in {p} |-> [key |-> IF fileRow[p] # Void THEN fileRow[p].key ELSE <<r, p>>,
                                              meta |-> EncodePayload(r, p, n)]]], n >= LoggedSize)
    BY DEF BeginProtectedWrite
<1>2. p \in VaultPaths /\ IsFile(p) /\ Below(p) = {p}
    BY FilesArePaths, ThePaths, BelowPaths
<1>3. PICK k, m : k = (IF fileRow[p] # Void THEN fileRow[p].key ELSE <<r, p>>) /\ m = EncodePayload(r, p, n)
    OBVIOUS
<1>4. PICK more :
        /\ more = [NewVaultRequest EXCEPT !.pc = "write", !.size = n, !.rows = [q \in {p} |-> [key |-> k, meta |-> m]]]
        /\ Begun(r, "write", p, more, TRUE) \/ Begun(r, "write", p, more, FALSE)
  <2>1. PICK more : more = [NewVaultRequest EXCEPT !.pc = "write", !.size = n, !.rows = [q \in {p} |-> [key |-> k, meta |-> m]]]
      OBVIOUS
  <2>2. Begun(r, "write", p, more, n >= LoggedSize)
      BY <1>1, <1>3, <2>1
  <2>0. n \in Nat /\ LoggedSize \in Nat
      BY VaultAssumption
  <2>3. CASE n >= LoggedSize
    <3>1. (n >= LoggedSize) = TRUE
        BY <2>0, <2>3
    <3>2. Begun(r, "write", p, more, TRUE)
        BY <2>2, <3>1, Zenon
    <3> QED
        BY <2>1, <3>2
  <2>4. CASE ~(n >= LoggedSize)
    <3>1. (n >= LoggedSize) = FALSE
        BY <2>0, <2>4
    <3>2. Begun(r, "write", p, more, FALSE)
        BY <2>2, <3>1, Zenon
    <3> QED
        BY <2>1, <3>2
  <2> QED
      BY <2>3, <2>4
<1>5. PICK me : me = [more EXCEPT !.kind = "write", !.path = p]
    OBVIOUS
<1>6. me.kind = "write" /\ me.path = p /\ me.pc = "write" /\ me.rows = [q \in {p} |-> [key |-> k, meta |-> m]]
    BY <1>4, <1>5 DEF NewVaultRequest
<1>7. DOMAIN me.rows = {p} /\ me.rows[p] = [key |-> k, meta |-> m]
    BY <1>6
<1>8. /\ k \in BlobKeys /\ k[2] \in EndsOf(p) /\ m \in Payload
      /\ fileRow[p] # Void => HasKey(p, k)
      /\ fileRow[p] = Void => k = <<r, p>>
  <2>1. CASE fileRow[p] # Void
      BY <1>0, <1>3, <2>1, FileRows DEF EncodePayload, Payload, BlobKeys
  <2>2. CASE fileRow[p] = Void
      BY <1>3, <2>2 DEF EncodePayload, Payload, BlobKeys, EndsOf
  <2> QED
      BY <2>1, <2>2
<1>9. RequestIs(r, me)
  <2>1. WriteIs(me)
      BY <1>6, <1>7, <1>8 DEF WriteIs
  <2> QED
      BY <1>2, <1>6, <2>1 DEF RequestIs
<1>11. /\ Rests(r) /\ VaultTypes' /\ MeetingsHurt' /\ BothEnds' /\ fileRow' = fileRow /\ blob' = blob
       /\ Kind(r)' = "write" /\ PlaceOf(r)' = p /\ Pc(r)' = "write" /\ PlanOf(r)' = me.rows
       /\ Running(r)' /\ Mine(r)' = {p}
       /\ \A s \in ProtectedRequests :
            /\ Live(s) /\ Kind(s) # "read" => Mine(s) \cap {p} \subseteq hurt'
            /\ Running(s) /\ Mine(s) \cap {p} # {} => Mine(s) \subseteq hurt' /\ {p} \subseteq hurt'
  <2>1. Scope("write", p) = {p}
      BY <1>2 DEF Scope
  <2>2. /\ Rests(r) /\ VaultTypes' /\ MeetingsHurt' /\ BothEnds' /\ fileRow' = fileRow /\ blob' = blob
        /\ Kind(r)' = "write" /\ PlaceOf(r)' = p /\ Pc(r)' = me.pc /\ PlanOf(r)' = me.rows
        /\ Running(r)' /\ Mine(r)' = Scope("write", p)
        /\ \A s \in ProtectedRequests :
            /\ Live(s) /\ Kind(s) # "read" => Mine(s) \cap Scope("write", p) \subseteq hurt'
            /\ Running(s) /\ Mine(s) \cap Scope("write", p) # {} => Mine(s) \subseteq hurt' /\ Scope("write", p) \subseteq hurt'
    <3>1. me.pc \notin {"new", "end"} /\ me.kind = "write" /\ me.path = p
        BY <1>6
    <3>2. CASE Begun(r, "write", p, more, TRUE)
        BY <1>2, <1>5, <1>9, <3>1, <3>2, BeginningOf
    <3>3. CASE Begun(r, "write", p, more, FALSE)
        BY <1>2, <1>5, <1>9, <3>1, <3>3, BeginningOf
    <3> QED
        BY <1>4, <3>2, <3>3
  <2> QED
      BY <1>6, <2>1, <2>2
<1>12. WriteKey(r)' = k /\ WriteMeta(r)' = m
    BY <1>7, <1>11 DEF WriteKey, WriteMeta
<1>13. hurt \subseteq hurt' /\ Pc(r) = "new" /\ ~Running(r) /\ ~Live(r)
    BY <1>11 DEF Rests
<1>14. \A s \in ProtectedRequests : /\ Live(s) /\ Kind(s) # "read" /\ p \in Mine(s) => p \in hurt'
                                    /\ Running(s) /\ p \in Mine(s) => Mine(s) \subseteq hurt' /\ p \in hurt'
    BY <1>11
\* A blob of its own is nobody's.
<1>15. fileRow[p] = Void =>
         /\ blob[k] = Void /\ \A x \in FilePaths : ~HasKey(x, k)
         /\ \A s \in ProtectedRequests : /\ LiveWrite(s) => WriteKey(s) # k
                                         /\ Running(s) /\ Kind(s) = "delete" => k \notin LeftOf(s)
         /\ k[1] = r
    BY <1>0, <1>8, <1>13 DEF ApartInv, NewKeys
<1>16. ASSUME NEW y \in FilePaths, y # p, HasKey(y, k) PROVE {y, p} \subseteq hurt'
  <2>1. fileRow[p] # Void
      BY <1>15, <1>16
  <2>2. HasKey(p, k) /\ RowsApart
      BY <1>0, <1>8, <2>1 DEF ApartInv
  <2> QED
      BY <1>13, <1>16, <2>1, <2>2 DEF RowsApart, HasKey
<1>17. ASSUME NEW s \in ProtectedRequests, LiveWrite(s), WriteKey(s) = k PROVE PlaceOf(s) \in hurt' /\ p \in hurt'
  <2>1. HasKey(p, k) /\ WriteApart(s)
      BY <1>0, <1>8, <1>15, <1>17 DEF ApartInv, WritesApart
  <2>2. CASE PlaceOf(s) # p
      BY <1>13, <1>17, <2>1, <2>2 DEF WriteApart
  <2>3. CASE PlaceOf(s) = p
      BY <1>0, <1>14, <1>17, <2>3, MineIs DEF LiveWrite
  <2> QED
      BY <2>2, <2>3
<1>18. ASSUME NEW s \in ProtectedRequests, LiveCopy(s), NEW q \in PlannedFiles(s), <<s, q>> = k
       PROVE p \in hurt' /\ Mine(s) \subseteq hurt'
  <2>1. s # r /\ fileRow[p] # Void
      BY <1>8, <1>13, <1>18 DEF LiveCopy
  <2>2. HasKey(p, <<s, q>>) /\ CopyApart(s)
      BY <1>0, <1>8, <1>18, <2>1 DEF ApartInv, CopiesApart
  <2>3. CASE p # q \/ q \notin RowsMade(s)
      BY <1>13, <1>18, <2>2, <2>3 DEF CopyApart
  <2>4. CASE p = q /\ q \in RowsMade(s)
    <3>1. Running(s)
        BY <1>11, <2>4 DEF RowsMade, Rests, Running, Pc
    <3>2. q \in Mine(s)
        BY <1>0, <1>18, PlansOf DEF LiveCopy, PlannedFiles
    <3> QED
        BY <1>14, <2>4, <3>1, <3>2
  <2> QED
      BY <2>3, <2>4
<1>19. ASSUME NEW s \in ProtectedRequests, Running(s), Kind(s) = "delete", k \in LeftOf(s) PROVE p \in hurt'
  <2>1. HasKey(p, k) /\ DeleteApart(s)
      BY <1>0, <1>8, <1>15, <1>19 DEF ApartInv, DeletesApart
  <2>2. p \in Mine(s) \cup hurt
      BY <1>19, <2>1 DEF DeleteApart, HasKey
  <2> QED
      BY <1>13, <1>14, <1>19, <2>2
<1>20. WriteApart(r)'
  <2>1. \A y \in FilePaths : y # p /\ HasKey(y, k)' => {y, p} \subseteq hurt'
      BY <1>11, <1>16 DEF HasKey
  <2>2. ASSUME NEW s \in ProtectedRequests, s # r, LiveWrite(s)', WriteKey(s)' = k PROVE p \in hurt'
      BY <1>11, <1>17, <2>2, RestSame
  <2>3. ASSUME NEW s \in ProtectedRequests, LiveCopy(s)', NEW q \in PlannedFiles(s)', k = <<s, q>>
        PROVE p \in hurt' /\ Mine(s)' \subseteq hurt'
    <3>1. s # r
        BY <1>11, <2>3 DEF LiveCopy
    <3> QED
        BY <1>11, <1>18, <2>3, <3>1, RestSame
  <2> QED
      BY <1>11, <1>12, <2>1, <2>2, <2>3 DEF WriteApart
<1>21. WriteFits(r)'
  <2>1. fileRow[p] # Void => fileRow[p].key = k
      BY <1>8 DEF HasKey
  <2>2. fileRow[p] = Void => blob[k] = Void
      BY <1>15
  <2> QED
      BY <1>11, <1>12, <2>1, <2>2 DEF WriteFits
<1>22. /\ ~LiveCopy(r)' /\ CopyFits(r)' /\ CopyLeaves(r)' /\ DeleteApart(r)' /\ DeleteLeaves(r)'
    BY <1>11, OnlyOfKind
<1>23. ApartInv'
  <2>1. ASSUME NEW s \in ProtectedRequests, NEW b \in BlobKeys, Pc(s) = "new", b[1] = s, s # r PROVE k # b
    <3>1. fileRow[p] # Void => \A x \in FilePaths : ~HasKey(x, b)
        BY <1>0, <2>1 DEF ApartInv, NewKeys
    <3>2. fileRow[p] = Void => k[1] = r
        BY <1>15
    <3> QED
        BY <1>8, <2>1, <3>1, <3>2
  <2> QED
      BY <1>11, <1>12, <1>17, <1>19, <1>20, <1>22, <2>1, TheRestApart
<1>24. KeptFit' /\ LostInv'
    BY <1>11, <1>21, <1>22, TheRestKeeps
<1> QED
    BY <1>11, <1>23, <1>24 DEF VaultKept

LEMMA BeginDeleteKeeps == ASSUME VaultInv, NEW r \in ProtectedRequests, BeginProtectedDelete(r) PROVE VaultKept
<1>0. RequestsAre /\ StoreIs /\ ApartInv /\ hurt \subseteq leaky
    BY DEF VaultInv, VaultTypes, StoreIs
<1>1. PICK p \in Rows(VaultPaths) :
        Begun(r, "delete", p, [NewVaultRequest EXCEPT !.pc = "remove",
                  !.left = {fileRow[q].key : q \in {q \in Rows(Below(p)) : IsFile(q)}}], TRUE)
    BY DEF BeginProtectedDelete
<1>2. p \in VaultPaths /\ Below(p) \subseteq VaultPaths /\ Scope("delete", p) = Below(p)
    BY BelowPaths DEF Rows, Scope
<1>3. PICK left : left = {fileRow[q].key : q \in {q \in Rows(Below(p)) : IsFile(q)}}
    OBVIOUS
<1>4. PICK more : more = [NewVaultRequest EXCEPT !.pc = "remove", !.left = left] /\ Begun(r, "delete", p, more, TRUE)
    BY <1>1, <1>3
<1>5. PICK me : me = [more EXCEPT !.kind = "delete", !.path = p]
    OBVIOUS
<1>6. me.kind = "delete" /\ me.path = p /\ me.pc = "remove" /\ me.left = left
    BY <1>4, <1>5 DEF NewVaultRequest
<1>7. \A q \in Below(p) : fileRow[q] # Void /\ IsFile(q) => q \in FilePaths /\ fileRow[q].key \in left
    BY <1>2, <1>3, ThePaths DEF Rows
<1>8. \A k \in left : k \in BlobKeys /\ \E q \in FilePaths : q \in Below(p) /\ HasKey(q, k)
  <2> SUFFICES ASSUME NEW q \in Rows(Below(p)), IsFile(q)
               PROVE fileRow[q].key \in BlobKeys /\ q \in FilePaths /\ q \in Below(p) /\ HasKey(q, fileRow[q].key)
      BY <1>3
  <2>1. q \in FilePaths /\ fileRow[q] # Void /\ q \in Below(p)
      BY <1>2, ThePaths DEF Rows
  <2> QED
      BY <1>0, <2>1, FileRows
<1>9. RequestIs(r, me)
    BY <1>2, <1>6, <1>8 DEF RequestIs
<1>10. /\ Rests(r) /\ VaultTypes' /\ MeetingsHurt' /\ BothEnds' /\ fileRow' = fileRow /\ blob' = blob
       /\ Kind(r)' = "delete" /\ PlaceOf(r)' = p /\ Pc(r)' = "remove" /\ LeftOf(r)' = left
       /\ Running(r)' /\ Mine(r)' = Below(p)
       /\ \A s \in ProtectedRequests :
            /\ Live(s) /\ Kind(s) # "read" => Mine(s) \cap Below(p) \subseteq hurt'
            /\ Running(s) /\ Mine(s) \cap Below(p) # {} => Mine(s) \subseteq hurt' /\ Below(p) \subseteq hurt'
  <2>1. Begun(r, "delete", p, more, TRUE) /\ me.kind = "delete" /\ me.path = p /\ me.pc \notin {"new", "end"}
      BY <1>4, <1>6
  <2>2. /\ Rests(r) /\ VaultTypes' /\ MeetingsHurt' /\ BothEnds' /\ fileRow' = fileRow /\ blob' = blob
        /\ Kind(r)' = "delete" /\ PlaceOf(r)' = p /\ Pc(r)' = me.pc /\ LeftOf(r)' = me.left
        /\ Running(r)' /\ Mine(r)' = Scope("delete", p)
        /\ \A s \in ProtectedRequests :
             /\ Live(s) /\ Kind(s) # "read" => Mine(s) \cap Scope("delete", p) \subseteq hurt'
             /\ Running(s) /\ Mine(s) \cap Scope("delete", p) # {} => Mine(s) \subseteq hurt' /\ Scope("delete", p) \subseteq hurt'
      BY <1>2, <1>5, <1>9, <2>1, BeginningOf
  <2> QED
      BY <1>2, <1>6, <2>2
<1>11. hurt \subseteq hurt' /\ Pc(r) = "new" /\ ~Running(r) /\ ~Live(r)
    BY <1>10 DEF Rests
\* What the deletion will take away is below it, or was met.
<1>12. ASSUME NEW k \in left, NEW y \in FilePaths, HasKey(y, k) PROVE y \in Below(p) \cup hurt'
  <2>1. PICK q \in FilePaths : q \in Below(p) /\ HasKey(q, k)
      BY <1>8
  <2>2. CASE q = y
      BY <2>1, <2>2
  <2>3. CASE q # y
      BY <1>0, <1>11, <1>12, <2>1, <2>3 DEF ApartInv, RowsApart, HasKey
  <2> QED
      BY <2>2, <2>3
<1>13. ASSUME NEW s \in ProtectedRequests, LiveWrite(s), WriteKey(s) \in left PROVE PlaceOf(s) \in hurt'
  <2>1. PICK q \in FilePaths : q \in Below(p) /\ HasKey(q, WriteKey(s))
      BY <1>8, <1>13
  <2>2. CASE q = PlaceOf(s)
      BY <1>0, <1>10, <1>13, <2>1, <2>2, MineIs DEF LiveWrite
  <2>3. CASE q # PlaceOf(s)
      BY <1>0, <1>11, <1>13, <2>1, <2>3 DEF ApartInv, WritesApart, WriteApart
  <2> QED
      BY <2>2, <2>3
<1>14. ASSUME NEW s \in ProtectedRequests, LiveCopy(s), NEW q \in PlannedFiles(s), <<s, q>> \in left PROVE q \in hurt'
  <2>1. PICK y \in FilePaths : y \in Below(p) /\ HasKey(y, <<s, q>>)
      BY <1>8, <1>14
  <2>2. q \in Mine(s)
      BY <1>0, <1>14, PlansOf DEF LiveCopy, PlannedFiles
  <2>3. CASE q = y
      BY <1>10, <1>14, <2>1, <2>2, <2>3 DEF LiveCopy
  <2>4. CASE q # y
      BY <1>0, <1>11, <1>14, <2>1, <2>2, <2>4 DEF ApartInv, CopiesApart, CopyApart
  <2> QED
      BY <2>3, <2>4
<1>15. DeleteApart(r)'
  <2>1. \A x \in FilePaths : fileRow'[x] # Void /\ fileRow'[x].key \in left => x \in Below(p) \cup hurt'
      BY <1>10, <1>12 DEF HasKey
  <2>2. ASSUME NEW s \in ProtectedRequests, LiveWrite(s)', WriteKey(s)' \in left PROVE PlaceOf(s)' \in hurt'
    <3>1. s # r
        BY <1>10, <2>2 DEF LiveWrite
    <3> QED
        BY <1>10, <1>13, <2>2, <3>1, RestSame
  <2>3. ASSUME NEW s \in ProtectedRequests, LiveCopy(s)', NEW q \in PlannedFiles(s)', <<s, q>> \in left PROVE q \in hurt'
    <3>1. s # r
        BY <1>10, <2>3 DEF LiveCopy
    <3> QED
        BY <1>10, <1>14, <2>3, <3>1, RestSame
  <2> QED
      BY <1>10, <2>1, <2>2, <2>3 DEF DeleteApart
<1>16. DeleteLeaves(r)'
  <2>1. \A x \in FilePaths : x \in Below(p) /\ fileRow[x] # Void => fileRow[x].key \in left
      BY <1>7, FilesArePaths, ThePaths
  <2> QED
      BY <1>10, <2>1 DEF DeleteLeaves
<1>17. ~LiveWrite(r)' /\ WriteFits(r)' /\ WriteApart(r)' /\ ~LiveCopy(r)' /\ CopyFits(r)' /\ CopyLeaves(r)'
    BY <1>10, OnlyOfKind
<1>18. ApartInv'
  <2>1. \A s \in ProtectedRequests, b \in BlobKeys : Pc(s) = "new" /\ b[1] = s => b \notin left
      BY <1>0, <1>8 DEF ApartInv, NewKeys
  <2> QED
      BY <1>10, <1>15, <1>17, <2>1, TheRestApart
<1>19. KeptFit' /\ LostInv'
    BY <1>10, <1>16, <1>17, TheRestKeeps
<1> QED
    BY <1>10, <1>18, <1>19 DEF VaultKept

LEMMA BeginCopyKeeps == ASSUME VaultInv, NEW r \in ProtectedRequests, BeginProtectedCopy(r) PROVE VaultKept
<1>0. RequestsAre /\ LogIs /\ StoreIs /\ ApartInv /\ KeptFit
    BY DEF VaultInv, VaultTypes
<1>1. PICK p \in Rows(VaultPaths) :
        Begun(r, "copy", p, [NewVaultRequest EXCEPT !.pc = "copy", !.rows = CopyPlan(r, Rows(Below(p))),
                  !.left = {Other(q) : q \in {q \in Rows(Below(p)) : IsFile(q)}}], TRUE)
    BY DEF BeginProtectedCopy
<1>2. /\ p \in VaultPaths /\ Below(p) \subseteq VaultPaths /\ Below(p) \subseteq Scope("copy", p)
      /\ \A x \in Below(p) : Other(x) \in Below(Other(p))
    BY BelowPaths DEF Rows, Scope
<1>3. PICK found, plan, left : /\ found = Rows(Below(p)) /\ plan = CopyPlan(r, found)
                               /\ left = {Other(q) : q \in {q \in found : IsFile(q)}}
    OBVIOUS
<1>4. PICK more : /\ more = [NewVaultRequest EXCEPT !.pc = "copy", !.rows = plan, !.left = left]
                  /\ Begun(r, "copy", p, more, TRUE)
    BY <1>1, <1>3
<1>5. PICK me : me = [more EXCEPT !.kind = "copy", !.path = p]
    OBVIOUS
<1>6. me.kind = "copy" /\ me.path = p /\ me.pc = "copy" /\ me.left = left /\ me.rows = plan /\ me.made = {}
    BY <1>4, <1>5 DEF NewVaultRequest
<1>7. DOMAIN plan = {Other(x) : x \in found} /\ found \subseteq Below(p) /\ \A x \in found : fileRow[x] # Void
    BY <1>3 DEF CopyPlan, Rows
<1>8. ASSUME NEW q \in DOMAIN plan
      PROVE /\ q \in VaultPaths /\ q \in Below(Other(p)) /\ Other(q) \in found /\ Other(q) \in VaultPaths /\ Other(Other(q)) = q
            /\ plan[q] = [key |-> NewKey(r, q), meta |-> fileRow[Other(q)].meta, src |-> fileRow[Other(q)].key]
            /\ IsFile(q) <=> IsFile(Other(q))
            /\ IsFile(q) => q \in FilePaths /\ Other(q) \in FilePaths
  <2>1. PICK x \in found : q = Other(x)
      BY <1>7
  <2>2. x \in VaultPaths /\ q \in Below(Other(p))
      BY <1>2, <1>7, <2>1
  <2>3. q \in VaultPaths /\ Other(q) = x /\ (IsFile(q) <=> IsFile(x))
      BY <2>1, <2>2, ThePaths
  <2>4. plan[q] = [key |-> NewKey(r, q), meta |-> fileRow[Other(q)].meta, src |-> fileRow[Other(q)].key]
      BY <1>3, <1>7 DEF CopyPlan
  <2> QED
      BY <2>1, <2>2, <2>3, <2>4, ThePaths
<1>9. PICK files : files = {q \in DOMAIN plan : IsFile(q)}
    OBVIOUS
<1>10. left = files
  <2>1. \A q \in left : q \in files
      BY <1>2, <1>3, <1>7, <1>9, ThePaths
  <2>2. \A q \in files : q \in left
    <3> SUFFICES ASSUME NEW q \in files PROVE q \in left
        OBVIOUS
    <3>1. q \in DOMAIN plan /\ IsFile(q)
        BY <1>9
    <3>2. Other(q) \in found /\ IsFile(Other(q)) /\ Other(Other(q)) = q
        BY <1>8, <3>1
    <3> QED
        BY <1>3, <3>2
  <2> QED
      BY <2>1, <2>2
<1>11. ASSUME NEW q \in files
       PROVE /\ q \in DOMAIN plan /\ IsFile(q) /\ q \in FilePaths /\ Other(q) \in FilePaths /\ fileRow[Other(q)] # Void
             /\ Other(q) \in Below(p) /\ plan[q].key = <<r, q>> /\ <<r, q>> \in BlobKeys /\ <<r, q>>[1] = r
             /\ plan[q].meta = fileRow[Other(q)].meta /\ plan[q].src = fileRow[Other(q)].key
             /\ plan[q].meta \in Payload /\ plan[q].src \in BlobKeys
  <2>1. q \in DOMAIN plan /\ IsFile(q)
      BY <1>9
  <2>2. /\ q \in FilePaths /\ Other(q) \in FilePaths /\ fileRow[Other(q)] # Void /\ Other(q) \in Below(p)
        /\ plan[q] = [key |-> NewKey(r, q), meta |-> fileRow[Other(q)].meta, src |-> fileRow[Other(q)].key]
      BY <1>7, <1>8, <2>1
  <2>3. fileRow[Other(q)].meta \in Payload /\ fileRow[Other(q)].key \in BlobKeys
      BY <1>0, <2>2, FileRows
  <2> QED
      BY <2>1, <2>2, <2>3 DEF NewKey, BlobKeys
<1>12. ASSUME NEW q \in DOMAIN plan PROVE plan[q].key = NewKey(r, q) /\ Row(plan[q]) \in VaultRow
  <2>1. /\ plan[q] = [key |-> NewKey(r, q), meta |-> fileRow[Other(q)].meta, src |-> fileRow[Other(q)].key]
        /\ q \in VaultPaths /\ Other(q) \in VaultPaths /\ fileRow[Other(q)] # Void
      BY <1>7, <1>8
  <2>2. PICK e : e = fileRow[Other(q)]
      OBVIOUS
  <2>3. e \in VaultRow
    <3>1. RowIs(Other(q), e)
        BY <1>0, <2>1, <2>2 DEF StoreIs
    <3> QED
        BY <2>1, <2>2, <3>1 DEF RowIs
  <2>4. NewKey(r, q) \in BlobKeys \cup {Void}
      BY <1>8 DEF NewKey, BlobKeys
  <2>5. Row(plan[q]) = [key |-> NewKey(r, q), meta |-> e.meta]
      BY <2>1, <2>2 DEF Row
  <2> QED
      BY <2>1, <2>3, <2>4, <2>5 DEF VaultRow
<1>13. CopyIs(r, me)
  <2>1. me.made = {<<r, x>> : x \in files \ left}
      BY <1>6, <1>10
  <2>2. DOMAIN plan \subseteq Below(Other(p)) /\ left \subseteq DOMAIN plan
      BY <1>8, <1>9, <1>10
  <2>3. \A x \in DOMAIN plan : IsFile(x) => plan[x].meta \in Payload /\ plan[x].src \in BlobKeys
      BY <1>9, <1>11
  <2> QED
      BY <1>6, <1>9, <1>10, <1>12, <2>1, <2>2, <2>3 DEF CopyIs
<1>14. RequestIs(r, me)
    BY <1>2, <1>6, <1>13 DEF RequestIs
<1>15. /\ Rests(r) /\ VaultTypes' /\ MeetingsHurt' /\ BothEnds' /\ fileRow' = fileRow /\ blob' = blob
       /\ Kind(r)' = "copy" /\ PlaceOf(r)' = p /\ Pc(r)' = "copy" /\ LeftOf(r)' = left /\ PlanOf(r)' = plan
       /\ Running(r)'
       /\ \A s \in ProtectedRequests :
            /\ Live(s) /\ Kind(s) # "read" => Mine(s) \cap Scope("copy", p) \subseteq hurt'
            /\ Running(s) /\ Mine(s) \cap Scope("copy", p) # {} => Mine(s) \subseteq hurt' /\ Scope("copy", p) \subseteq hurt'
  <2>1. Begun(r, "copy", p, more, TRUE) /\ me.kind = "copy" /\ me.path = p /\ me.pc \notin {"new", "end"}
      BY <1>4, <1>6
  <2>2. /\ Rests(r) /\ VaultTypes' /\ MeetingsHurt' /\ BothEnds' /\ fileRow' = fileRow /\ blob' = blob
        /\ Kind(r)' = "copy" /\ PlaceOf(r)' = p /\ Pc(r)' = me.pc /\ LeftOf(r)' = me.left /\ PlanOf(r)' = me.rows
        /\ Running(r)'
        /\ \A s \in ProtectedRequests :
            /\ Live(s) /\ Kind(s) # "read" => Mine(s) \cap Scope("copy", p) \subseteq hurt'
            /\ Running(s) /\ Mine(s) \cap Scope("copy", p) # {} => Mine(s) \subseteq hurt' /\ Scope("copy", p) \subseteq hurt'
      BY <1>2, <1>5, <1>14, <2>1, BeginningOf
  <2> QED
      BY <1>6, <2>2
<1>16. hurt \subseteq hurt' /\ Pc(r) = "new" /\ ~Running(r) /\ ~Live(r)
    BY <1>15 DEF Rests
<1>17. PlannedFiles(r)' = files
    BY <1>9, <1>15 DEF PlannedFiles
<1>18. \A q \in files : blob[<<r, q>>] = Void
    BY <1>0, <1>11, <1>16 DEF ApartInv, NewKeys
<1>19. ASSUME NEW q \in files, Other(q) \notin hurt'
       PROVE HasKey(Other(q), plan[q].src)' /\ blob[plan[q].src] = plan[q].meta
  <2>1. HasKey(Other(q), plan[q].src)'
      BY <1>11, <1>15 DEF HasKey
  <2>2. PICK x : x = Other(q)
      OBVIOUS
  <2>3. /\ x \in FilePaths /\ x \in Scope("copy", p) /\ x \notin hurt' /\ x \notin hurt /\ fileRow[x] # Void
        /\ plan[q].src = fileRow[x].key /\ plan[q].meta = fileRow[x].meta
      BY <1>2, <1>11, <1>16, <1>19, <2>2
  <2>4. RowFits(x)
      BY <1>0, <2>3 DEF KeptFit
  <2>5. ASSUME NEW s \in ProtectedRequests, Kind(s) = "write", Pc(s) = "row", PlaceOf(s) = x PROVE FALSE
    <3>1. Running(s) /\ x \in Mine(s)
        BY <1>0, <2>5, MineIs DEF Running, Pc
    <3> QED
        BY <1>15, <2>3, <3>1
  <2>6. ASSUME NEW s \in ProtectedRequests, LiveDelete(s), x \in Mine(s) PROVE FALSE
    <3>1. Live(s) /\ Kind(s) # "read"
        BY <2>6 DEF LiveDelete
    <3> QED
        BY <1>15, <2>3, <2>6, <3>1
  <2> QED
      BY <2>1, <2>3, <2>4, <2>5, <2>6 DEF RowFits
<1>20. CopyFits(r)'
  <2>1. ASSUME NEW q \in files
        PROVE /\ Other(q) \notin hurt' => HasKey(Other(q), plan[q].src)' /\ blob'[plan[q].src] = plan[q].meta
              /\ blob'[<<r, q>>] = Void /\ q \in left
      BY <1>10, <1>15, <1>18, <1>19
  <2> QED
      BY <1>15, <1>17, <2>1 DEF CopyFits
<1>21. CopyLeaves(r)'
  <2>1. RowsMade(r)' = {}
      BY <1>15 DEF RowsMade
  <2> QED
      BY <1>15, <1>17, <1>18, <2>1 DEF CopyLeaves
<1>22. ~LiveWrite(r)' /\ WriteFits(r)' /\ WriteApart(r)' /\ DeleteApart(r)' /\ DeleteLeaves(r)'
    BY <1>15, OnlyOfKind
<1>23. ApartInv'
  <2>1. PlannedFiles(r)' \subseteq FilePaths
      BY <1>11, <1>17
  <2> QED
      BY <1>15, <1>22, <2>1, TheRestApart
<1>24. KeptFit' /\ LostInv'
    BY <1>15, <1>20, <1>21, <1>22, TheRestKeeps
<1> QED
    BY <1>15, <1>23, <1>24 DEF VaultKept

LEMMA CreateDirKeeps == ASSUME VaultInv, NEW r \in ProtectedRequests, CreateProtectedDir(r) PROVE VaultKept
<1>0. ReadsVerified /\ RequestsAre /\ LogIs /\ StoreIs /\ MeetingsHurt /\ BothEnds /\ hurt \subseteq leaky
  <2>1. ReadsVerified /\ RequestsAre /\ LogIs /\ StoreIs /\ MeetingsHurt /\ BothEnds
      BY DEF VaultInv, VaultTypes
  <2> QED
      BY <2>1 DEF StoreIs
<1>1. PICK v \in Vaults :
        /\ fileRow' = IF fileRow[<<v, Root>>] # Void THEN fileRow
                      ELSE [fileRow EXCEPT ![<<v, Root>>] = [key |-> Void, meta |-> Void]]
        /\ Spoilt(UNION {Mine(q) : q \in {q \in ProtectedRequests : Running(q) /\ <<v, Root>> \in Mine(q)}})
    BY DEF CreateProtectedDir
<1>2. PICK d, near : d = <<v, Root>> /\ near = {q \in ProtectedRequests : Running(q) /\ d \in Mine(q)}
    OBVIOUS
<1>3. PICK met : met = UNION {Mine(q) : q \in near}
    OBVIOUS
<1>4. d \in VaultPaths /\ d \notin FilePaths /\ ~IsFile(d)
    BY <1>2, VaultAssumption DEF VaultPaths, FilePaths, IsFile
<1>5. hurt' = hurt \cup met /\ leaky' = leaky \cup met
    BY <1>1, <1>2, <1>3 DEF Spoilt
<1>6. \A x : x \in met <=> \E q \in near : x \in Mine(q)
    BY <1>3
<1>7. hurt \subseteq hurt' /\ leaky \subseteq leaky' /\ hurt' \subseteq leaky'
    BY <1>0, <1>5
<1>8. vault[r].pc = "new" /\ todo = <<>> /\ UNCHANGED <<blob, openLog, todo>>
    BY DEF CreateProtectedDir, AtVault
<1>9. DOMAIN vault[r] = {"pc", "kind", "path", "size", "rows", "left", "made", "data", "ok"}
    BY <1>0, TheFields
<1>10. PICK me : me = [vault[r] EXCEPT !.pc = "end", !.ok = TRUE]
    OBVIOUS
<1>11. vault' = [vault EXCEPT ![r] = me]
    BY <1>10 DEF CreateProtectedDir, EndVault
<1>12. Pc(r) = "new" /\ ~Running(r) /\ ~InLog(r) /\ ~Live(r) /\ Kind(r) = "none"
  <2>1. Pc(r) = "new" /\ ~Running(r)
      BY <1>8 DEF Pc, Running
  <2>2. ~InLog(r)
      BY <1>0, <2>1 DEF LogIs
  <2>3. Kind(r) = "none"
      BY <1>0, <2>1 DEF RequestsAre, RequestIs, WriteIs, CopyIs, Kind, Pc
  <2> QED
      BY <2>1, <2>2, <2>3 DEF Live
<1>13. me.pc = "end" /\ me.kind = "none" /\ me.path = PlaceOf(r) /\ me.rows = PlanOf(r)
    BY <1>9, <1>10, <1>12 DEF Kind, PlaceOf, PlanOf
<1>14. vault'[r] = me /\ \A s \in ProtectedRequests \ {r} : vault'[s] = vault[s]
    BY <1>0, <1>11 DEF ReadsVerified
<1>15. RequestsAre'
  <2>1. RequestIs(r, me)
      BY <1>0, <1>13, MineIs DEF RequestIs
  <2> QED
      BY <1>0, <1>14, <2>1, RequestsStay
<1>16. /\ Kind(r)' = "none" /\ PlaceOf(r)' = PlaceOf(r) /\ PlanOf(r)' = PlanOf(r) /\ Pc(r)' = "end" /\ ~Running(r)'
    BY <1>13, <1>14 DEF Kind, PlaceOf, PlanOf, Pc, Running
<1>17. /\ \A s \in ProtectedRequests : InLog(s)' <=> InLog(s)
       /\ todo' = todo /\ Range(todo) = {} /\ Range(todo') = {}
    BY <1>8 DEF InLog, Range
<1>18. \A s \in ProtectedRequests \ {r} : /\ Kind(s)' = Kind(s) /\ PlaceOf(s)' = PlaceOf(s) /\ PlanOf(s)' = PlanOf(s)
                                          /\ Pc(s)' = Pc(s) /\ (Running(s)' <=> Running(s)) /\ Mine(s)' = Mine(s)
    BY <1>14 DEF Kind, PlaceOf, PlanOf, Pc, Running, Mine
<1>19. StepOf(r)
    BY <1>7, <1>12, <1>14, <1>16, <1>17, <1>18 DEF StepOf
<1>20. \A x \in VaultPaths : fileRow'[x] = fileRow[x] \/ (x = d /\ fileRow[x] = Void)
    BY <1>0, <1>1, <1>2, <1>4 DEF StoreIs
<1>21. Rests(r)
    BY <1>4, <1>7, <1>8, <1>12, <1>14, <1>17, <1>20, FilesArePaths DEF Rests
<1>22. StoreIs'
  <2>1. RowIs(d, [key |-> Void, meta |-> Void])
      BY <1>4 DEF RowIs, VaultRow
  <2>2. \/ fileRow' = fileRow
        \/ \E x \in VaultPaths : \E e : RowIs(x, e) /\ fileRow' = [fileRow EXCEPT ![x] = e]
      BY <1>1, <1>2, <1>4, <2>1
  <2> QED
      BY <1>0, <1>7, <1>8, <2>2, StoreStays
<1>23. LogIs'
  <2>1. ASSUME NEW s \in ProtectedRequests
        PROVE /\ InLog(s)' => Pc(s)' # "new" /\ Kind(s)' \in {"write", "delete", "move", "copy"}
              /\ Running(s)' /\ Kind(s)' \in {"delete", "move", "copy"} => InLog(s)'
    <3>1. CASE s = r
        BY <1>12, <1>16, <1>17, <3>1
    <3>2. CASE s # r
        BY <1>0, <1>17, <1>18, <3>2 DEF LogIs
    <3> QED
        BY <3>1, <3>2
  <2>2. todo' = <<>> /\ openLog' = openLog /\ Range(openLog') = Range(openLog)
      BY <1>8
  <2> QED
      BY <1>0, <1>8, <1>17, <2>1, <2>2 DEF LogIs
<1>24. MeetingsHurt'
    BY <1>0, <1>19, StepsMeet
<1>25. BothEnds'
  <2> SUFFICES ASSUME NEW s \in ProtectedRequests, Running(s)'
               PROVE /\ Kind(s)' = "move" => \A x \in Mine(s)' \cap hurt' : Other(x) \in hurt'
                     /\ Kind(s)' = "copy" => \A x \in Below(PlaceOf(s)') \cap hurt' : Other(x) \in hurt'
      BY DEF BothEnds
  <2>1. s # r
      BY <1>16
  <2>2. Running(s) /\ Kind(s)' = Kind(s) /\ PlaceOf(s)' = PlaceOf(s) /\ Mine(s)' = Mine(s)
      BY <1>18, <2>1
  <2> SUFFICES ASSUME Kind(s) \in {"move", "copy"}, NEW x \in Mine(s), x \in hurt', x \notin hurt PROVE Other(x) \in hurt'
    <3>1. Below(PlaceOf(s)) \subseteq Mine(s)
        BY <1>0, MineIs
    <3> QED
        BY <1>0, <1>7, <2>2, <3>1 DEF BothEnds
  <2>3. Other(x) \in Mine(s)
      BY <1>0, MineIs
  <2>4. PICK q \in near : x \in Mine(q)
      BY <1>5, <1>6
  <2>5. CASE q = s
      BY <1>5, <1>6, <2>3, <2>4, <2>5
  <2>6. CASE q # s
    <3>1. Running(q) /\ q \in ProtectedRequests
        BY <1>2, <2>4
    <3>2. Mine(s) \subseteq hurt
        BY <1>0, <2>2, <2>4, <2>6, <3>1 DEF MeetingsHurt, Overlap
    <3> QED
        BY <1>7, <2>3, <3>2
  <2> QED
      BY <2>5, <2>6
<1>26. /\ ~LiveWrite(r)' /\ WriteFits(r)' /\ WriteApart(r)' /\ ~LiveCopy(r)' /\ CopyFits(r)' /\ CopyLeaves(r)'
       /\ DeleteApart(r)' /\ DeleteLeaves(r)'
    BY <1>16, OnlyOfKind
<1>27. ApartInv'
    BY <1>16, <1>21, <1>26, TheRestApart
<1>28. KeptFit' /\ LostInv'
    BY <1>21, <1>26, TheRestKeeps
<1> QED
    BY <1>15, <1>22, <1>23, <1>24, <1>25, <1>27, <1>28 DEF VaultKept, VaultTypes

-----------------------------------------------------------------------------
(* A crash                                                                  *)

LEMMA CrashKeeps == ASSUME VaultInv, VaultCrash PROVE VaultKept
<1>0. ReadsVerified /\ RequestsAre /\ LogIs /\ StoreIs /\ MeetingsHurt /\ ApartInv /\ KeptFit /\ LostInv /\ hurt \subseteq leaky
  <2>1. ReadsVerified /\ RequestsAre /\ LogIs /\ StoreIs /\ MeetingsHurt /\ ApartInv /\ KeptFit /\ LostInv
      BY DEF VaultInv, VaultTypes
  <2> QED
      BY <2>1 DEF StoreIs
<1>1. PICK cut : cut = {r \in ProtectedRequests : Running(r)}
    OBVIOUS
<1>2. PICK over, half :
        /\ over = {r \in cut : vault[r].kind = "write" /\ (Rows(Mine(r)) # {} \/ r \notin Range(openLog))}
        /\ half = {r \in cut : vault[r].kind \in {"delete", "copy"}}
    OBVIOUS
<1>3. /\ hurt' = hurt \cup UNION {Mine(r) : r \in over}
      /\ leaky' = leaky \cup UNION {Mine(r) : r \in over \cup half}
      /\ vault' = [r \in ProtectedRequests |-> IF r \in cut THEN [vault[r] EXCEPT !.pc = "end"] ELSE vault[r]]
      /\ todo' = openLog /\ UNCHANGED <<fileRow, blob, openLog>>
    BY <1>1, <1>2 DEF VaultCrash
<1>4. /\ \A s \in over : Mine(s) \subseteq hurt' /\ Mine(s) \subseteq leaky'
      /\ \A s \in half : Mine(s) \subseteq leaky'
      /\ hurt \subseteq hurt' /\ leaky \subseteq leaky' /\ hurt' \subseteq leaky'
  <2>1. PICK met, lost : met = UNION {Mine(r) : r \in over} /\ lost = UNION {Mine(r) : r \in over \cup half}
      OBVIOUS
  <2>2. /\ \A x : x \in met <=> \E s \in over : x \in Mine(s)
        /\ \A x : x \in lost <=> \E s \in over \cup half : x \in Mine(s)
      BY <2>1
  <2>3. hurt' = hurt \cup met /\ leaky' = leaky \cup lost
      BY <1>3, <2>1
  <2> QED
      BY <1>0, <2>2, <2>3
<1>5. ASSUME NEW s \in ProtectedRequests
      PROVE /\ vault'[s] = IF s \in cut THEN [vault[s] EXCEPT !.pc = "end"] ELSE vault[s]
            /\ s \in cut <=> Running(s)
            /\ DOMAIN vault[s] = {"pc", "kind", "path", "size", "rows", "left", "made", "data", "ok"}
    BY <1>0, <1>1, <1>3, TheFields
<1>6. ASSUME NEW s \in ProtectedRequests
      PROVE /\ Kind(s)' = Kind(s) /\ PlaceOf(s)' = PlaceOf(s) /\ PlanOf(s)' = PlanOf(s) /\ LeftOf(s)' = LeftOf(s)
            /\ vault'[s].made = vault[s].made /\ Mine(s)' = Mine(s)
            /\ Running(s) => Pc(s)' = "end"
            /\ ~Running(s) => Pc(s)' = Pc(s) /\ Pc(s) \in {"new", "end"}
            /\ ~Running(s)' /\ (InLog(s)' <=> InLog(s)) /\ (Live(s)' <=> InLog(s))
            /\ InLog(s) => Live(s) /\ Pc(s) # "new" /\ Pc(s)' = "end"
  <2>1. InLog(s)' <=> InLog(s)
      BY <1>3 DEF InLog
  <2>2. CASE s \in cut
    <3>1. /\ vault'[s].kind = vault[s].kind /\ vault'[s].path = vault[s].path /\ vault'[s].rows = vault[s].rows
          /\ vault'[s].left = vault[s].left /\ vault'[s].made = vault[s].made /\ vault'[s].pc = "end"
        BY <1>5, <2>2
    <3> QED
        BY <1>0, <1>5, <2>1, <2>2, <3>1 DEF Kind, PlaceOf, PlanOf, LeftOf, Mine, Pc, Running, Live, LogIs
  <2>3. CASE s \notin cut
      BY <1>0, <1>5, <2>1, <2>3 DEF Kind, PlaceOf, PlanOf, LeftOf, Mine, Pc, Running, Live, LogIs
  <2> QED
      BY <2>2, <2>3
<1>7. ASSUME NEW s \in ProtectedRequests
      PROVE /\ PlannedFiles(s)' = PlannedFiles(s) /\ WriteKey(s)' = WriteKey(s) /\ WriteMeta(s)' = WriteMeta(s)
            /\ LiveWrite(s)' <=> InLog(s) /\ Kind(s) = "write"
            /\ LiveCopy(s)' <=> InLog(s) /\ Kind(s) = "copy"
            /\ LiveDelete(s)' <=> LiveDelete(s)
            /\ LiveWrite(s)' => LiveWrite(s)
            /\ LiveCopy(s)' => LiveCopy(s)
  <2>1. PlannedFiles(s)' = PlannedFiles(s) /\ WriteKey(s)' = WriteKey(s) /\ WriteMeta(s)' = WriteMeta(s)
      BY <1>6 DEF PlannedFiles, WriteKey, WriteMeta
  <2>2. Kind(s) = "delete" => (Live(s) <=> InLog(s))
      BY <1>0 DEF LogIs, Live
  <2> QED
      BY <1>6, <2>1, <2>2 DEF LiveWrite, LiveCopy, LiveDelete
<1>8. \A s \in ProtectedRequests : Running(s) /\ Kind(s) \in {"delete", "copy"} => Mine(s) \subseteq leaky'
    BY <1>1, <1>2, <1>4 DEF Kind
<1>9. \A s \in ProtectedRequests : Running(s) /\ Kind(s) = "write" /\ ~InLog(s) => Mine(s) \subseteq hurt'
    BY <1>1, <1>2, <1>4 DEF Kind, InLog
<1>10. ASSUME NEW s \in ProtectedRequests, Running(s), Kind(s) = "write", fileRow[PlaceOf(s)] # Void PROVE PlaceOf(s) \in hurt'
  <2>1. PlaceOf(s) \in Mine(s)
      BY <1>0, MineIs
  <2>2. Rows(Mine(s)) # {}
      BY <1>10, <2>1 DEF Rows
  <2>3. s \in over
      BY <1>1, <1>2, <1>10, <2>2 DEF Kind
  <2> QED
      BY <1>4, <2>1, <2>3
<1>11. RequestsAre'
  <2> SUFFICES ASSUME NEW s \in ProtectedRequests PROVE RequestIs(s, vault'[s])
      BY DEF RequestsAre, RequestIs, WriteIs, CopyIs
  <2>1. RequestIs(s, vault[s])
      BY <1>0 DEF RequestsAre
  <2>2. CASE s \in cut
    <3>1. /\ vault'[s].kind = vault[s].kind /\ vault'[s].path = vault[s].path /\ vault'[s].rows = vault[s].rows
          /\ vault'[s].left = vault[s].left /\ vault'[s].made = vault[s].made /\ vault'[s].pc = "end"
        BY <1>5, <2>2
    <3>2. vault[s].kind = "write" => WriteIs(vault'[s])
        BY <2>1, <3>1 DEF RequestIs, WriteIs
    <3>3. vault[s].kind = "copy" => CopyIs(s, vault'[s])
        BY <2>1, <3>1 DEF RequestIs, CopyIs
    <3> QED
        BY <2>1, <3>1, <3>2, <3>3 DEF RequestIs
  <2>3. CASE s \notin cut
      BY <1>5, <2>1, <2>3
  <2> QED
      BY <2>2, <2>3
<1>12. LogIs'
  <2>1. \A s \in ProtectedRequests : /\ ~Running(s)'
                                     /\ InLog(s)' => Pc(s)' # "new" /\ Kind(s)' \in {"write", "delete", "move", "copy"}
      BY <1>0, <1>6 DEF LogIs
  <2>2. openLog' = openLog /\ todo' = openLog
      BY <1>3
  <2> QED
      BY <1>0, <2>1, <2>2 DEF LogIs
<1>13. StoreIs'
    BY <1>0, <1>3, <1>4, StoreStays
<1>14. MeetingsHurt' /\ BothEnds'
  <2>1. BothEnds'
      BY <1>6 DEF BothEnds
  <2>2. ASSUME NEW s \in ProtectedRequests, NEW t \in ProtectedRequests, s # t
        PROVE /\ ~Running(s)'
              /\ Live(s)' /\ Kind(s)' # "read" /\ InLog(t)' => Mine(s)' \cap Mine(t)' \subseteq hurt'
      BY <1>0, <1>4, <1>6, <2>2 DEF MeetingsHurt
  <2> QED
      BY <2>1, <2>2 DEF MeetingsHurt
<1>15. \A x \in FilePaths : fileRow'[x] = fileRow[x] /\ \A k : HasKey(x, k)' <=> HasKey(x, k)
    BY <1>3 DEF HasKey
<1>16. ApartInv'
  <2>1. RowsApart'
      BY <1>0, <1>3, <1>4, <1>15 DEF ApartInv, RowsApart
  <2>2. ASSUME NEW s \in ProtectedRequests PROVE WriteApart(s)'
    <3> SUFFICES ASSUME LiveWrite(s)' PROVE WriteApart(s)'
        BY DEF WriteApart
    <3>1. WriteApart(s) /\ LiveWrite(s)
        BY <1>0, <1>7 DEF ApartInv, WritesApart
    <3>2. \A y \in FilePaths : y # PlaceOf(s)' /\ HasKey(y, WriteKey(s))' => {y, PlaceOf(s)'} \subseteq hurt'
        BY <1>3, <1>4, <1>6, <1>7, <3>1 DEF WriteApart, HasKey
    <3>3. \A t \in ProtectedRequests : t # s /\ LiveWrite(t)' /\ WriteKey(t)' = WriteKey(s)' => PlaceOf(s)' \in hurt'
        BY <1>4, <1>6, <1>7, <3>1 DEF WriteApart
    <3>4. \A t \in ProtectedRequests : LiveCopy(t)' /\ (\E q \in PlannedFiles(t)' : WriteKey(s)' = <<t, q>>) =>
              PlaceOf(s)' \in hurt' /\ Mine(t)' \subseteq hurt'
        BY <1>4, <1>6, <1>7, <3>1 DEF WriteApart
    <3> QED
        BY <3>2, <3>3, <3>4 DEF WriteApart
  <2>3. ASSUME NEW s \in ProtectedRequests PROVE CopyApart(s)'
    <3> SUFFICES ASSUME LiveCopy(s)', NEW q \in PlannedFiles(s), NEW y \in FilePaths, HasKey(y, <<s, q>>),
                        y # q \/ q \notin RowsMade(s)'
                 PROVE y \in hurt' /\ Mine(s) \subseteq hurt'
        BY <1>6, <1>7, <1>15 DEF CopyApart
    <3>1. CopyApart(s) /\ LiveCopy(s) /\ InLog(s)
        BY <1>0, <1>7 DEF ApartInv, CopiesApart
    <3>2. Pc(s)' = "end" /\ s \in Range(todo')
        BY <1>3, <1>6, <3>1 DEF InLog
    <3>3. RowsMade(s)' = DOMAIN PlanOf(s)
        BY <1>6, <3>2 DEF RowsMade
    <3>4. y # q
        BY <3>3 DEF PlannedFiles
    <3> QED
        BY <1>4, <3>1, <3>4 DEF CopyApart
  <2>4. DeletesApart'
      BY <1>6 DEF DeletesApart, DeleteApart
  <2>5. NewKeys'
    <3> SUFFICES ASSUME NEW s \in ProtectedRequests, NEW k \in BlobKeys, Pc(s)' = "new", k[1] = s
                 PROVE /\ blob'[k] = Void /\ \A x \in FilePaths : ~HasKey(x, k)'
                       /\ \A t \in ProtectedRequests : /\ LiveWrite(t)' => WriteKey(t)' # k
                                                       /\ Running(t)' /\ Kind(t)' = "delete" => k \notin LeftOf(t)'
        BY DEF NewKeys
    <3>1. Pc(s) = "new"
        BY <1>6
    <3>2. /\ blob[k] = Void /\ \A x \in FilePaths : ~HasKey(x, k)
          /\ \A t \in ProtectedRequests : LiveWrite(t) => WriteKey(t) # k
        BY <1>0, <3>1 DEF ApartInv, NewKeys
    <3> QED
        BY <1>3, <1>6, <1>7, <1>15, <3>2
  <2> QED
      BY <2>1, <2>2, <2>3, <2>4, <2>5 DEF ApartInv, WritesApart, CopiesApart
<1>17. KeptFit'
  <2>1. ASSUME NEW s \in ProtectedRequests PROVE WriteFits(s)'
    <3> SUFFICES ASSUME LiveWrite(s)', PlaceOf(s) \notin hurt'
                 PROVE fileRow[PlaceOf(s)] = Void /\ blob[WriteKey(s)] \in {Void, WriteMeta(s)}
        BY <1>3, <1>6, <1>7 DEF WriteFits
    <3>1. WriteFits(s) /\ LiveWrite(s) /\ Kind(s) = "write" /\ PlaceOf(s) \notin hurt
        BY <1>0, <1>4, <1>7 DEF KeptFit
    <3>2. fileRow[PlaceOf(s)] = Void
        BY <1>10, <3>1 DEF WriteFits
    <3> QED
        BY <3>1, <3>2 DEF WriteFits
  <2>2. ASSUME NEW s \in ProtectedRequests PROVE CopyFits(s)'
    <3> SUFFICES ASSUME LiveCopy(s)', NEW q \in PlannedFiles(s), q \notin hurt'
                 PROVE blob[<<s, q>>] \in {Void, PlanOf(s)[q].meta}
        BY <1>3, <1>6, <1>7 DEF CopyFits
    <3>1. CopyFits(s) /\ LiveCopy(s) /\ q \notin hurt
        BY <1>0, <1>4, <1>7 DEF KeptFit
    <3> QED
        BY <3>1 DEF CopyFits
  <2>3. ASSUME NEW x \in FilePaths PROVE RowFits(x)'
    <3> SUFFICES ASSUME x \notin hurt', fileRow'[x] # Void PROVE RowFits(x)'
        BY DEF RowFits
    <3>1. RowFits(x) /\ x \notin hurt /\ fileRow[x] # Void
        BY <1>0, <1>4, <1>15 DEF KeptFit
    <3>2. \A s \in ProtectedRequests : ~(Kind(s) = "write" /\ Pc(s) = "row" /\ PlaceOf(s) = x)
        BY <1>10, <3>1 DEF Running, Pc
    <3>3. ASSUME NEW s \in ProtectedRequests, LiveDelete(s), x \in Mine(s) PROVE RowFits(x)'
      <4>1. LiveDelete(s)' /\ x \in Mine(s)'
          BY <1>6, <1>7, <3>3
      <4> QED
          BY <4>1 DEF RowFits
    <3>4. CASE blob[fileRow[x].key] = fileRow[x].meta
        BY <1>3, <3>4 DEF RowFits
    <3> QED
        BY <3>1, <3>2, <3>3, <3>4 DEF RowFits
  <2> QED
      BY <2>1, <2>2, <2>3 DEF KeptFit
<1>18. LostInv'
  <2>1. ASSUME NEW s \in ProtectedRequests PROVE DeleteLeaves(s)'
    <3> SUFFICES ASSUME LiveDelete(s)', NEW x \in FilePaths, x \in Mine(s), x \notin leaky', fileRow[x] # Void
                 PROVE blob[fileRow[x].key] = Void
        BY <1>3, <1>6 DEF DeleteLeaves
    <3>1. LiveDelete(s) /\ DeleteLeaves(s) /\ x \notin leaky /\ Kind(s) = "delete"
        BY <1>0, <1>4, <1>7 DEF LostInv, LiveDelete
    <3>2. ~Running(s)
        BY <1>8, <3>1
    <3> QED
        BY <3>1, <3>2 DEF DeleteLeaves
  <2>2. ASSUME NEW s \in ProtectedRequests PROVE CopyLeaves(s)'
    <3> SUFFICES ASSUME LiveCopy(s)' PROVE Mine(s) \subseteq leaky' \/ PlannedFiles(s) = {} \/ Missed(s)'
        BY <1>6, <1>7 DEF CopyLeaves
    <3>1. LiveCopy(s) /\ CopyLeaves(s) /\ Kind(s) = "copy" /\ Pc(s)' = "end"
        BY <1>0, <1>6, <1>7 DEF LostInv
    <3>2. CASE Running(s)
        BY <1>8, <3>1, <3>2
    <3>3. CASE ~Running(s)
      <4>1. Mine(s) \subseteq leaky \/ PlannedFiles(s) = {} \/ Missed(s)
          BY <1>6, <3>1, <3>3 DEF CopyLeaves
      <4> QED
          BY <1>3, <1>4, <1>7, <4>1 DEF Missed
    <3> QED
        BY <3>2, <3>3
  <2>3. BlobsKept'
    <3> SUFFICES ASSUME NEW k \in BlobKeys, blob[k] # Void, EndsOf(k[2]) \cap leaky' = {} PROVE BlobHeld(k)'
        BY <1>3 DEF BlobsKept, EndsOf
    <3>1. BlobHeld(k)
        BY <1>0, <1>4 DEF LostInv, BlobsKept
    <3>2. k[2] \notin leaky'
        BY DEF EndsOf
    <3>3. ASSUME NEW s \in ProtectedRequests, Keeps(s, k) PROVE Keeps(s, k)'
      <4>1. CASE LiveWrite(s) /\ WriteKey(s) = k
        <5>1. PlaceOf(s) \in EndsOf(k[2]) /\ PlaceOf(s) \in Mine(s) /\ Kind(s) = "write"
            BY <1>0, <4>1, WritesOf DEF LiveWrite
        <5>2. InLog(s)
            BY <1>4, <1>9, <4>1, <5>1 DEF LiveWrite, Live
        <5> QED
            BY <1>7, <4>1, <5>1, <5>2 DEF Keeps
      <4>2. CASE Kind(s) = "copy" /\ Running(s) /\ k \in vault[s].made
        <5>1. CopyIs(s, vault[s]) /\ DOMAIN PlanOf(s) \subseteq Mine(s)
            BY <1>0, <4>2, PlansOf
        <5>2. k[2] \in DOMAIN PlanOf(s)
            BY <4>2, <5>1 DEF CopyIs, PlanOf
        <5> QED
            BY <1>8, <3>2, <4>2, <5>1, <5>2
      <4>3. CASE Kind(s) = "copy" /\ Pc(s) = "undoBlobs" /\ k[2] \in Mine(s)
        <5>1. Running(s)
            BY <4>3 DEF Running, Pc
        <5> QED
            BY <1>8, <3>2, <4>3, <5>1
      <4>4. CASE LiveCopy(s) /\ Pc(s) = "end" /\ Missed(s) /\ k[2] \in Mine(s)
        <5>1. InLog(s) /\ Kind(s) = "copy" /\ Pc(s)' = "end"
            BY <1>6, <4>4 DEF LiveCopy, Live, Running, Pc
        <5>2. LiveCopy(s)' /\ k[2] \in Mine(s)'
            BY <1>6, <1>7, <4>4, <5>1
        <5>3. Missed(s)'
            BY <1>3, <1>7, <4>4 DEF Missed
        <5> QED
            BY <5>1, <5>2, <5>3 DEF Keeps
      <4> QED
          BY <3>3, <4>1, <4>2, <4>3, <4>4 DEF Keeps
    <3> QED
        BY <1>15, <3>1, <3>3 DEF BlobHeld
  <2> QED
      BY <2>1, <2>2, <2>3 DEF LostInv
<1> QED
    BY <1>11, <1>12, <1>13, <1>14, <1>16, <1>17, <1>18 DEF VaultKept, VaultTypes

-----------------------------------------------------------------------------
(* The invariant of the vaults                                              *)

LEMMA VaultStarts == VaultInit /\ ReadsVerified => VaultInv
<1> SUFFICES ASSUME VaultInit, ReadsVerified PROVE VaultInv
    OBVIOUS
<1>1. FirstVault \in Vaults /\ FirstVault \notin ProtectedRequests /\ Root \notin Names
    BY VaultAssumption
<1>2. \A r \in ProtectedRequests : vault[r] = NewVaultRequest
    BY DEF VaultInit
<1>3. ASSUME NEW r \in ProtectedRequests
      PROVE Pc(r) = "new" /\ Kind(r) = "none" /\ PlaceOf(r) = <<FirstVault, Root>> /\ ~Running(r) /\ ~InLog(r) /\ ~Live(r)
            /\ ~LiveWrite(r) /\ ~LiveCopy(r) /\ ~LiveDelete(r)
  <2>1. Pc(r) = "new" /\ Kind(r) = "none" /\ PlaceOf(r) = <<FirstVault, Root>> /\ ~Running(r)
      BY <1>2 DEF NewVaultRequest, Pc, Kind, PlaceOf, Running
  <2>2. ~InLog(r)
      BY DEF VaultInit, InLog, Range
  <2> QED
      BY <2>1, <2>2 DEF Live, LiveWrite, LiveCopy, LiveDelete
<1>4. \A x \in FilePaths : x \in VaultPaths /\ IsFile(x) /\ x = <<x[1], x[2]>> /\ x[1] \in Vaults /\ x[2] \in Names
    BY <1>1, FilesArePaths DEF FilePaths, IsFile
<1>5. ASSUME NEW x \in FilePaths
      PROVE /\ fileRow[x] = IF x[1] # FirstVault THEN Void
                            ELSE [key |-> <<FirstVault, x>>, meta |-> [of |-> <<FirstVault, x>>, size |-> 1]]
            /\ <<FirstVault, x>> \in BlobKeys
            /\ x[1] = FirstVault => x \in FirstFiles
    BY <1>4 DEF VaultInit, BlobKeys, FirstFiles
<1>6. ASSUME NEW k \in BlobKeys
      PROVE /\ blob[k] = IF k[1] = FirstVault /\ k[2] \in FirstFiles THEN [of |-> k, size |-> 1] ELSE Void
            /\ k = <<k[1], k[2]>> /\ k[2] \in FilePaths
            /\ [of |-> k, size |-> 1] \in Payload
            /\ [of |-> k, size |-> 1] # Void
  <2>1. k = <<k[1], k[2]>> /\ k[2] \in FilePaths /\ [of |-> k, size |-> 1] \in Payload
      BY DEF BlobKeys, Payload
  <2> QED
      BY <2>1, VaultAssumption DEF VaultInit
<1>7. ASSUME NEW x \in FilePaths, x[1] = FirstVault
      PROVE /\ [key |-> <<FirstVault, x>>, meta |-> [of |-> <<FirstVault, x>>, size |-> 1]] \in VaultRow
            /\ fileRow[x] # Void /\ fileRow[x].key = <<FirstVault, x>>
            /\ fileRow[x].meta = [of |-> <<FirstVault, x>>, size |-> 1]
            /\ blob[<<FirstVault, x>>] = fileRow[x].meta
  <2>1. <<FirstVault, x>> \in BlobKeys /\ x \in FirstFiles
      BY <1>5, <1>7
  <2>2. [of |-> <<FirstVault, x>>, size |-> 1] \in Payload
      BY <1>6, <2>1
  <2>3. [key |-> <<FirstVault, x>>, meta |-> [of |-> <<FirstVault, x>>, size |-> 1]] \in VaultRow
      BY <2>1, <2>2 DEF VaultRow
  <2>4. fileRow[x] = [key |-> <<FirstVault, x>>, meta |-> [of |-> <<FirstVault, x>>, size |-> 1]]
      BY <1>5, <1>7
  <2>5. fileRow[x] # Void
      BY <2>3, <2>4, VaultAssumption
  <2>6. blob[<<FirstVault, x>>] = [of |-> <<FirstVault, x>>, size |-> 1]
      BY <1>6, <2>1
  <2> QED
      BY <2>3, <2>4, <2>5, <2>6
<1>8. \A x \in FilePaths : \A k : HasKey(x, k) <=> x[1] = FirstVault /\ k = <<FirstVault, x>>
    BY <1>5, <1>7 DEF HasKey
<1>9. RequestsAre
  <2>1. <<FirstVault, Root>> \in VaultPaths
      BY <1>1 DEF VaultPaths
  <2> QED
      BY <1>2, <2>1 DEF RequestsAre, RequestIs, NewVaultRequest
<1>10. StoreIs
  <2>1. fileRow = [x \in VaultPaths |-> fileRow[x]] /\ hurt \subseteq leaky
      BY DEF VaultInit
  <2>2. blob \in [BlobKeys -> Payload \cup {Void}]
    <3>1. blob = [k \in BlobKeys |-> blob[k]]
        BY DEF VaultInit
    <3> QED
        BY <1>6, <3>1
  <2>3. ASSUME NEW x \in VaultPaths PROVE RowIs(x, fileRow[x])
    <3>1. PICK e : e = fileRow[x]
        OBVIOUS
    <3>2. CASE IsFile(x)
      <4>1. x \in FilePaths
          BY <3>2, ThePaths
      <4>2. CASE x[1] = FirstVault
        <5>1. e \in VaultRow /\ e.key = <<FirstVault, x>> /\ e.meta = [of |-> <<FirstVault, x>>, size |-> 1]
            BY <1>5, <1>7, <3>1, <4>1, <4>2
        <5>2. e.key \in BlobKeys /\ e.meta \in Payload /\ e.key[2] \in EndsOf(x)
            BY <1>5, <1>6, <4>1, <5>1 DEF EndsOf
        <5> QED
            BY <3>1, <5>1, <5>2 DEF RowIs
      <4>3. CASE x[1] # FirstVault
          BY <1>5, <4>1, <4>3 DEF RowIs
      <4> QED
          BY <4>2, <4>3
    <3>3. CASE ~IsFile(x)
      <4>1. fileRow[x] \in {Void, [key |-> Void, meta |-> Void]}
          BY <3>3 DEF VaultInit
      <4>2. e \in VaultRow \cup {Void}
          BY <3>1, <4>1 DEF VaultRow
      <4> QED
          BY <3>1, <3>3, <4>2 DEF RowIs
    <3> QED
        BY <3>2, <3>3
  <2> QED
      BY <2>1, <2>2, <2>3 DEF StoreIs
<1>11. LogIs
  <2>1. openLog = <<>> /\ todo = <<>> /\ Range(openLog) = {} /\ Range(todo) = {}
      BY DEF VaultInit, Range
  <2> QED
      BY <1>3, <2>1 DEF LogIs, NoTwice
<1>12. MeetingsHurt /\ BothEnds
    BY <1>3 DEF MeetingsHurt, BothEnds
<1>13. ApartInv
  <2>1. RowsApart
      BY <1>7, <1>8 DEF RowsApart, HasKey
  <2>2. WritesApart /\ CopiesApart /\ DeletesApart
      BY <1>3 DEF WritesApart, CopiesApart, DeletesApart, WriteApart, CopyApart, DeleteApart
  <2>3. NewKeys
    <3> SUFFICES ASSUME NEW r \in ProtectedRequests, NEW k \in BlobKeys, k[1] = r
                 PROVE blob[k] = Void /\ \A x \in FilePaths : ~HasKey(x, k)
        BY <1>3 DEF NewKeys
    <3>1. k[1] # FirstVault
        BY <1>1
    <3>2. blob[k] = Void
        BY <1>6, <3>1
    <3>3. \A x \in FilePaths : k # <<FirstVault, x>>
        BY <3>1
    <3> QED
        BY <1>8, <3>2, <3>3
  <2> QED
      BY <2>1, <2>2, <2>3 DEF ApartInv
<1>14. KeptFit
  <2>1. \A x \in FilePaths : RowFits(x)
      BY <1>5, <1>7 DEF RowFits
  <2> QED
      BY <1>3, <2>1 DEF KeptFit, WriteFits, CopyFits
<1>15. LostInv
  <2>1. BlobsKept
    <3> SUFFICES ASSUME NEW k \in BlobKeys, blob[k] # Void PROVE BlobHeld(k)
        BY DEF BlobsKept
    <3>1. k = <<FirstVault, k[2]>> /\ k[2] \in FirstFiles /\ k[2] \in FilePaths /\ k[2][1] = FirstVault
        BY <1>6 DEF FirstFiles
    <3> QED
        BY <1>8, <3>1 DEF BlobHeld
  <2> QED
      BY <1>3, <2>1 DEF LostInv, DeleteLeaves, CopyLeaves
<1> QED
    BY <1>9, <1>10, <1>11, <1>12, <1>13, <1>14, <1>15 DEF VaultInv, VaultTypes

LEMMA VaultsMoveOn == ReadsVerified' /\ VaultInv /\ VaultMoves => VaultInv'
<1> SUFFICES ASSUME VaultInv, VaultMoves, ReadsVerified' PROVE VaultInv'
    OBVIOUS
<1> SUFFICES VaultKept
    BY DEF VaultInv, VaultKept
<1>1. ASSUME NEW r \in ProtectedRequests,
             \/ BeginProtectedRead(r) \/ BeginProtectedWrite(r) \/ BeginProtectedDelete(r)
             \/ BeginProtectedMove(r) \/ BeginProtectedCopy(r) \/ CreateProtectedDir(r)
      PROVE VaultKept
    BY <1>1, BeginReadKeeps, BeginWriteKeeps, BeginDeleteKeeps, BeginMoveKeeps, BeginCopyKeeps, CreateDirKeeps
<1>2. ASSUME NEW r \in ProtectedRequests,
             \/ ReadPayload(r) \/ ReadMacs(r) \/ WriteBlob(r) \/ UpsertRow(r)
             \/ RemoveBlob(r) \/ DeleteProtectedRows(r) \/ MoveProtectedRows(r)
      PROVE VaultKept
    BY <1>2, ReadPayloadKeeps, ReadMacsKeeps, WriteBlobKeeps, UpsertRowKeeps, RemoveBlobKeeps, DeleteRowsKeeps, MoveRowsKeeps
<1>3. ASSUME NEW r \in ProtectedRequests,
             CopyBlob(r) \/ BlobsCopied(r) \/ UpsertCopy(r) \/ EndCopy(r) \/ UndoRows(r) \/ UndoBlobs(r)
      PROVE VaultKept
    BY <1>3, CopyBlobKeeps, BlobsCopiedKeeps, UpsertCopyKeeps, EndCopyKeeps, UndoRowsKeeps, UndoBlobsKeeps
<1>4. ASSUME VaultCrash \/ RecoverProtectedWrite \/ RecoverProtectedDelete \/ RecoverProtectedMove \/ RecoverProtectedCopy
      PROVE VaultKept
    BY <1>4, CrashKeeps, RecoverWriteKeeps, RecoverDeleteKeeps, RecoverMoveKeeps, RecoverCopyKeeps
<1> QED
    BY <1>1, <1>2, <1>3, <1>4 DEF VaultMoves

LEMMA VaultsRest == VaultInv /\ UNCHANGED vaultVars => VaultInv'
<1> SUFFICES ASSUME VaultInv, UNCHANGED vaultVars PROVE VaultInv'
    OBVIOUS
<1>0. UNCHANGED <<fileRow, blob, vault, openLog, todo, hurt, leaky, vaultFaults>>
    BY DEF vaultVars
<1>1. ASSUME NEW r
      PROVE /\ Kind(r)' = Kind(r) /\ Pc(r)' = Pc(r) /\ PlaceOf(r)' = PlaceOf(r) /\ PlanOf(r)' = PlanOf(r) /\ LeftOf(r)' = LeftOf(r)
            /\ Mine(r)' = Mine(r) /\ RowsMade(r)' = RowsMade(r) /\ vault'[r] = vault[r]
            /\ Running(r)' <=> Running(r)
            /\ InLog(r)' <=> InLog(r)
    BY <1>0 DEF Kind, Pc, PlaceOf, PlanOf, LeftOf, Mine, RowsMade, Running, InLog
<1>2. ASSUME NEW r
      PROVE /\ PlannedFiles(r)' = PlannedFiles(r) /\ WriteKey(r)' = WriteKey(r) /\ WriteMeta(r)' = WriteMeta(r)
            /\ Live(r)' <=> Live(r)
            /\ LiveWrite(r)' <=> LiveWrite(r)
            /\ LiveCopy(r)' <=> LiveCopy(r)
            /\ LiveDelete(r)' <=> LiveDelete(r)
            /\ Missed(r)' <=> Missed(r)
            /\ \A s : Overlap(r, s)' <=> Overlap(r, s)
    BY <1>0, <1>1 DEF PlannedFiles, WriteKey, WriteMeta, Live, LiveWrite, LiveCopy, LiveDelete, Missed, Overlap
<1>3. /\ \A x, k : HasKey(x, k)' <=> HasKey(x, k)
      /\ \A r, k : Keeps(r, k)' <=> Keeps(r, k)
    BY <1>0, <1>1, <1>2 DEF HasKey, Keeps
<1>4. ReadsVerified'
    BY <1>0 DEF VaultInv, ReadsVerified
<1>5. RequestsAre' /\ StoreIs' /\ LogIs'
    BY <1>0, <1>1 DEF VaultInv, VaultTypes, RequestsAre, StoreIs, LogIs, RequestIs, WriteIs, CopyIs
<1>6. MeetingsHurt' /\ BothEnds'
    BY <1>0, <1>1, <1>2 DEF VaultInv, MeetingsHurt, BothEnds
<1>7. RowsApart' /\ NewKeys'
    BY <1>0, <1>1, <1>2, <1>3 DEF VaultInv, ApartInv, RowsApart, NewKeys
<1>8. WritesApart' /\ CopiesApart' /\ DeletesApart'
  <2>1. \A r \in ProtectedRequests : WriteApart(r)'
      BY <1>0, <1>1, <1>2, <1>3 DEF VaultInv, ApartInv, WritesApart, WriteApart
  <2>2. \A r \in ProtectedRequests : CopyApart(r)'
      BY <1>0, <1>1, <1>2, <1>3 DEF VaultInv, ApartInv, CopiesApart, CopyApart
  <2>3. \A r \in ProtectedRequests : DeleteApart(r)'
      BY <1>0, <1>1, <1>2, <1>3 DEF VaultInv, ApartInv, DeletesApart, DeleteApart
  <2> QED
      BY <2>1, <2>2, <2>3 DEF WritesApart, CopiesApart, DeletesApart
<1>9. KeptFit'
  <2>1. \A r \in ProtectedRequests : WriteFits(r)' /\ CopyFits(r)'
      BY <1>0, <1>1, <1>2, <1>3 DEF VaultInv, KeptFit, WriteFits, CopyFits
  <2>2. \A x \in FilePaths : RowFits(x)'
      BY <1>0, <1>1, <1>2, <1>3 DEF VaultInv, KeptFit, RowFits
  <2> QED
      BY <2>1, <2>2 DEF KeptFit
<1>10. LostInv'
  <2>1. \A r \in ProtectedRequests : DeleteLeaves(r)' /\ CopyLeaves(r)'
      BY <1>0, <1>1, <1>2, <1>3 DEF VaultInv, LostInv, DeleteLeaves, CopyLeaves
  <2>2. BlobsKept'
      BY <1>0, <1>3 DEF VaultInv, LostInv, BlobsKept, BlobHeld
  <2> QED
      BY <2>1, <2>2 DEF LostInv
<1> QED
    BY <1>4, <1>5, <1>6, <1>7, <1>8, <1>9, <1>10 DEF VaultInv, VaultTypes, ApartInv

LEMMA VaultStays == VaultInv /\ [Next]_storageVars => VaultInv'
<1>1. VaultInv => ReadsVerified
    BY DEF VaultInv
<1> QED
    BY <1>1, ReadSteps, VaultSteps, VaultsMoveOn, VaultsRest

LEMMA VaultInvHolds == Spec => []VaultInv
<1>1. Init => VaultInv
    BY ReadsInit, VaultStarts DEF Init
<1> QED
    BY <1>1, VaultStays, PTL DEF Spec

\* What works on a path keeps it from being settled.
LEMMA SettledIs ==
    ASSUME VaultTypes, NEW x, Settled(x), NEW r \in ProtectedRequests, x \in Mine(r)
    PROVE ~Running(r) /\ ~InLog(r) /\ ~Live(r)
<1>1. ~Running(r)
    BY DEF Settled
<1>2. ~InLog(r)
    BY <1>1 DEF Settled, Unsettled, InLog
<1> QED
    BY <1>1, <1>2 DEF Live

\* The row of a settled file describes the blob that it names, and no two rows name one,
\* whatever order blobs and rows were written, removed and recovered in
\* (vfs/scoped/protected.rs and the recovery of its log rows), except after two requests
\* at once or the replacement of a file that was cut off.
THEOREM RowsFitAll == Spec => []RowsFitBlobs
<1>1. VaultInv => RowsFitBlobs
  <2> SUFFICES ASSUME VaultInv PROVE RowsFitBlobs
      OBVIOUS
  <2>0. VaultTypes /\ RequestsAre /\ RowsApart /\ \A x \in FilePaths : RowFits(x)
      BY DEF VaultInv, VaultTypes, ApartInv, KeptFit
  <2>1. ASSUME NEW x \in FilePaths \ hurt, Settled(x), fileRow[x] # Void PROVE blob[fileRow[x].key] = fileRow[x].meta
    <3>1. RowFits(x)
        BY <2>0
    <3>2. \A r \in ProtectedRequests : ~(Kind(r) = "write" /\ Pc(r) = "row" /\ PlaceOf(r) = x)
        BY <2>0, <2>1, SettledIs, MineIs DEF Running, Pc
    <3>3. \A r \in ProtectedRequests : ~(LiveDelete(r) /\ x \in Mine(r))
        BY <2>0, <2>1, SettledIs DEF LiveDelete
    <3> QED
        BY <2>1, <3>1, <3>2, <3>3 DEF RowFits
  <2>2. ASSUME NEW x \in FilePaths \ hurt, NEW y \in FilePaths \ hurt, fileRow[x] # Void, fileRow[y] # Void, x # y
        PROVE fileRow[x].key # fileRow[y].key
      BY <2>0, <2>2 DEF RowsApart, HasKey
  <2> QED
      BY <2>1, <2>2 DEF RowsFitBlobs
<1> QED
    BY <1>1, VaultInvHolds, PTL

\* A blob whose paths are settled has a row: the recovery completes a write that was cut
\* off, and a copy that fails takes its blobs back (rollback_protected_copy_partial);
\* except after a delete or a copy that was cut off, and the cases above.
THEOREM NoBlobIsLost == Spec => []NoLostBlobs
<1>1. VaultInv => NoLostBlobs
  <2> SUFFICES ASSUME VaultInv, NEW k \in BlobKeys, blob[k] # Void, {k[2], Other(k[2])} \cap leaky = {},
                      Settled(k[2]), Settled(Other(k[2]))
               PROVE \E p \in FilePaths : fileRow[p] # Void /\ fileRow[p].key = k
      BY DEF NoLostBlobs
  <2>0. VaultTypes /\ RequestsAre /\ BlobsKept
      BY DEF VaultInv, VaultTypes, LostInv
  <2>1. BlobHeld(k)
      BY <2>0 DEF BlobsKept, EndsOf
  <2>2. ASSUME NEW r \in ProtectedRequests, Keeps(r, k) PROVE FALSE
    <3>1. CASE LiveWrite(r) /\ WriteKey(r) = k
      <4>1. PlaceOf(r) \in EndsOf(k[2]) /\ PlaceOf(r) \in Mine(r) /\ Live(r)
          BY <2>0, <3>1, WritesOf DEF LiveWrite
      <4>2. Settled(PlaceOf(r))
          BY <4>1 DEF EndsOf
      <4> QED
          BY <2>0, <4>1, <4>2, SettledIs
    <3>2. CASE Kind(r) = "copy" /\ Running(r) /\ k \in vault[r].made
      <4>1. CopyIs(r, vault[r]) /\ DOMAIN PlanOf(r) \subseteq Mine(r)
          BY <2>0, <3>2, PlansOf
      <4>2. k[2] \in Mine(r)
          BY <3>2, <4>1 DEF CopyIs, PlanOf
      <4> QED
          BY <2>0, <3>2, <4>2, SettledIs
    <3>3. CASE Kind(r) = "copy" /\ Pc(r) = "undoBlobs" /\ k[2] \in Mine(r)
        BY <2>0, <3>3, SettledIs DEF Running, Pc
    <3>4. CASE LiveCopy(r) /\ k[2] \in Mine(r)
        BY <2>0, <3>4, SettledIs DEF LiveCopy
    <3> QED
        BY <2>2, <3>1, <3>2, <3>3, <3>4 DEF Keeps
  <2> QED
      BY <2>1, <2>2 DEF BlobHeld, HasKey
<1> QED
    BY <1>1, VaultInvHolds, PTL
=============================================================================
