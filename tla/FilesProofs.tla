----------------------------- MODULE FilesProofs -----------------------------
(***************************************************************************)
(* The recycle bin (RecycleBin), a batch of each kind (Batches), the       *)
(* sessions of transcoded videos (Transcoding), the thumbnails beside the  *)
(* changes of their files (Thumbnails), the rendering of one of them       *)
(* (Rendering) and the validation of the configuration (Configuration),    *)
(* for any number of requests, entries, files, sessions, tools, pools and  *)
(* failing calls, and any width of a batch.                                *)
(***************************************************************************)
EXTENDS Storage, FiniteSetTheorems, TLAPS

\* A step of Storage either is one of the bin's or leaves it alone.
LEMMA BinSteps == [Next]_storageVars => BinMoves \/ UNCHANGED binVars
    BY DEF Next, storageVars, ReadsMoves, UsageMoves, PoolMoves, VaultMoves, RouteMoves, ConfigMoves, ThumbsMoves,
           RenderMoves, VideosMoves, BatchesMoves, MountsMoves, BesideReads, BesideUsage, BesidePool, BesideVault,
           BesideRoute, BesideConfig, BesideThumbs, BesideRender, BesideVideos, BesideBatches, BesideMounts

-----------------------------------------------------------------------------
(* Types                                                                    *)

BinPCs == {"new", "end", "stat", "rename", "rows", "inside", "remove", "store", "row"}
BinKinds == {"trash", "restore", "delete", "expire", "write", "mkdir"}
NodePlaces == {"top", "in"}

BinContents == Heads \cup Workers \cup {Nothing, Dir}
BinRows == [from : Nodes \cup {Nothing}]
BinState == [pc : BinPCs, kind : BinKinds, node : Nodes, to : Nodes, kept : {<<>>} \cup [NodePlaces -> BinContents],
             met : BOOLEAN, ok : BOOLEAN]

BinTypes ==
    /\ trashing \in [Workers -> BinState]
    /\ stored \in [Nodes -> BinContents]
    /\ indexed \in [Nodes -> BinRows \cup {Nothing}]
    /\ batch # Nothing => batch \in SUBSET BinPaths

-----------------------------------------------------------------------------
(* The inductive invariant                                                  *)

\* What a request is about, by what it is for and how far it is.
RequestsFit ==
    \A r \in Workers : LET me == trashing[r] IN
        /\ me.pc = "new" => ~me.ok /\ me.kind = "write" /\ \A h \in Heads : <<h, r>> \notin named
        /\ me.pc = "stat" => me.kind \in {"trash", "delete", "expire"}
        /\ me.pc = "rename" => me.kind \in {"trash", "restore"}
        /\ me.pc = "rows" => me.kind \in {"trash", "restore", "delete", "expire"}
        /\ me.pc \in {"inside", "remove"} => me.kind \in {"delete", "expire"}
        /\ me.pc = "inside" => me.node[2] = "top"
        /\ me.pc \in {"store", "row"} =>
              /\ me.kind \in {"write", "mkdir"} /\ me.node[1] \in Homes
              /\ me.node[2] = (IF me.kind = "write" /\ me.node[1] \in Folders THEN "in" ELSE "top")
              /\ me.kind = "mkdir" => me.node[1] \in Folders
        /\ me.ok => me.pc = "end"
        /\ me.kind = "trash" => r \in BinRequests /\ me.node \in Homes \X {"top"}
                                /\ me.to \in (BinPaths \ {FirstEntry}) \X {"top"}
        /\ me.kind = "restore" => r \in BinRequests /\ me.node \in BinPaths \X NodePlaces
                                  /\ me.to \in Homes \X {me.node[2]}
        /\ me.kind \in {"delete", "expire", "write", "mkdir"} => me.to = me.node
        /\ me.kind # "trash" /\ Busy(r) => HeadsOf(me) \X {r} \in SUBSET named

\* Requests on a same head.
Share(a, b) == HeadsOf(a) \cap HeadsOf(b) # {}

\* Each entry is made by one request; of two that run at once on one head both know it.
RequestsApart ==
    \A r, q \in Workers : r # q =>
        /\ trashing[r].kind = "trash" /\ trashing[q].kind = "trash" => trashing[r].to # trashing[q].to
        /\ Busy(r) /\ Busy(q) /\ Share(trashing[r], trashing[q]) =>
              trashing[r].met /\ trashing[q].met /\ HeadsOf(trashing[r]) \cup HeadsOf(trashing[q]) \in SUBSET odd

\* The path a head stands for.
IsHome(x, h) == \/ h \in Homes /\ x = h
                \/ h = FirstEntry /\ x = OldFolder
                \/ \E q \in Workers : /\ trashing[q].kind = "trash" /\ trashing[q].to = Top(h)
                                      /\ x = trashing[q].node[1]

\* Heads hold what they stand for, and their rows come from there.
StandsFor(x, h, p) ==
    /\ IsHome(x, h) /\ (p = "in" => x \in Folders)
    /\ indexed[<<h, p>>] # Nothing => indexed[<<h, p>>].from = IF h \in Homes THEN Nothing ELSE <<x, p>>
    /\ p = "top" /\ stored[<<h, p>>] # Nothing => (stored[<<h, p>>] = Dir <=> x \in Folders)
HeadFits(h) ==
    /\ stored[In(h)] # Nothing => stored[Top(h)] = Dir
    /\ stored[In(h)] # Dir
    /\ \A p \in NodePlaces : stored[<<h, p>>] # Nothing \/ indexed[<<h, p>>] # Nothing =>
          \E x \in Homes : StandsFor(x, h, p)
HeadsFit == \A h \in Heads : HeadFits(h)

\* An entry has rows and content only from the request that made it, and a restore takes
\* it where that request has found it.
EntriesMade ==
    /\ \A e \in BinPaths \ {FirstEntry} : \A p \in NodePlaces :
          /\ indexed[<<e, p>>] # Nothing => \E q \in Workers : trashing[q].kind = "trash" /\ trashing[q].ok /\ trashing[q].to = Top(e)
          /\ stored[<<e, p>>] # Nothing =>
                \E q \in Workers : trashing[q].kind = "trash" /\ trashing[q].pc \notin {"stat", "rename"} /\ trashing[q].to = Top(e)
    /\ \A r \in Workers : trashing[r].kind = "restore" => IsHome(trashing[r].to[1], trashing[r].node[1])

Trash(r) == trashing[r].kind = "trash" /\ (trashing[r].pc = "rows" \/ trashing[r].ok)
\* Whoever has named the entry has not yet moved it.
Waiting(q) == trashing[q].kind = "restore" /\ trashing[q].pc = "rename"
EntriesKept ==
    \A r \in Workers : Trash(r) /\ (\A q \in Workers : <<trashing[r].to[1], q>> \in named => Waiting(q)) =>
        \A p \in NodePlaces : stored[<<trashing[r].to[1], p>>] = trashing[r].kept[p]

\* What a restore has moved is as the request that made the entry found it.
Restored ==
    \A r, q \in Workers :
        /\ trashing[r].kind = "restore" /\ trashing[r].pc = "rows" /\ ~trashing[r].met
        /\ trashing[q].kind = "trash" /\ trashing[q].ok /\ trashing[q].to[1] = trashing[r].node[1]
        /\ \A s \in Workers \ {r} : <<trashing[q].to[1], s>> \notin named
        => \A p \in IF trashing[r].node[2] = "top" THEN NodePlaces ELSE {"in"} :
              stored[<<trashing[q].node[1], p>>] = trashing[q].kept[p]

BinInv == BinTypes /\ RequestsFit /\ RequestsApart /\ HeadsFit /\ EntriesMade /\ EntriesKept /\ Restored

-----------------------------------------------------------------------------
(* Files and rows                                                           *)

Agrees(h, p) == indexed[<<h, p>>] = Nothing <=> stored[<<h, p>>] = Nothing

\* How far a request of this kind, from n to m, has come with the head h it works on.
HalfwayAt(pc, kind, n, m, h) ==
    /\ pc \in {"stat", "rename", "store", "inside"} => \A p \in NodePlaces : Agrees(h, p)
    /\ pc = "remove" => Agrees(h, "top") /\ (n[2] = "in" => Agrees(h, "in"))
    /\ pc = "rows" /\ (kind \in {"delete", "expire"} \/ h = n[1]) =>
          stored[In(h)] = Nothing /\ IF n[2] = "top" THEN stored[Top(h)] = Nothing ELSE Agrees(h, "top")
    /\ pc = "rows" /\ kind \in {"trash", "restore"} /\ h = m[1] /\ n[1] \notin odd =>
          /\ n[2] = "in" => Agrees(h, "top")
          /\ \A p \in {n[2], "in"} : stored[<<h, p>>] = Nothing <=> indexed[<<n[1], p>>] = Nothing
          /\ indexed[n] # Nothing
          /\ indexed[m] = Nothing => \A p \in {n[2], "in"} : indexed[<<h, p>>] = Nothing
    /\ pc = "row" => stored[n] # Nothing /\ \A p \in NodePlaces \ {n[2]} : Agrees(h, p)
Halfway(r, h) == HalfwayAt(trashing[r].pc, trashing[r].kind, trashing[r].node, trashing[r].to, h)

BinHalfway ==
    \A h \in Heads \ odd :
        /\ QuietHead(h) => \A p \in NodePlaces : Agrees(h, p)
        /\ \A r \in Workers : Busy(r) /\ h \in HeadsOf(trashing[r]) => Halfway(r, h)

-----------------------------------------------------------------------------
(* The proof                                                                *)

LEMMA NodeParts ==
    /\ \A h, p : <<h, p>>[1] = h /\ <<h, p>>[2] = p
    /\ \A h \in Heads : Top(h) \in Nodes /\ In(h) \in Nodes /\ Top(h) = <<h, "top">> /\ In(h) = <<h, "in">>
    /\ \A n \in Nodes : n[1] \in Heads /\ n[2] \in NodePlaces /\ n = <<n[1], n[2]>>
    /\ \A n : \A k \in Tree(n) : k[1] = n[1]
    BY DEF Top, In, Nodes, NodePlaces, Tree

\* A step of a request that runs: StatBin and what follows it.
BinWork(r) == StatBin(r) \/ MoveRegularPath(r) \/ MoveRows(r) \/ RemoveInside(r) \/ RemoveTop(r) \/ DeleteRows(r)
              \/ StoreBin(r) \/ RowBin(r)

\* Where a step leaves its request.
LEMMA WorkProgress ==
    ASSUME BinTypes, NEW r \in Workers, BinWork(r)
    PROVE /\ Busy(r) /\ UNCHANGED <<batch, named>> /\ odd \in SUBSET odd'
          /\ trashing' \in [Workers -> BinState]
          /\ \A q \in Workers \ {r} : trashing'[q] = trashing[q]
          /\ LET me == trashing[r]
                 you == trashing'[r]
             IN /\ you.kind = me.kind /\ you.node = me.node /\ you.to = me.to /\ you.met = me.met
                /\ me.pc # "rename" => you.kept = me.kept
                /\ you.pc \in {"end", "rename", "inside", "remove", "rows", "row"}
                /\ you.pc = "rename" => me.kind = "trash"
                /\ you.pc = "rows" => me.pc \in {"rename", "remove"}
                /\ you.pc \in {"inside", "remove"} => me.pc \in {"stat", "inside"} /\ (me.pc = "stat" => me.kind # "trash")
                /\ you.pc = "row" => me.pc = "store"
                /\ you.pc # "end" => you.ok = me.ok
                /\ me.pc \notin {"rows", "row"} => you.ok = me.ok
<1> DEFINE me == trashing[r]
<1>1. me \in BinState /\ \A q \in Workers : trashing[q] \in BinState
    BY DEF BinTypes
<1>2. ASSUME NEW pc \in BinPCs \ {"new"}, trashing' = [trashing EXCEPT ![r].pc = pc]
      PROVE /\ trashing' \in [Workers -> BinState]
            /\ \A q \in Workers \ {r} : trashing'[q] = trashing[q]
            /\ trashing'[r].pc = pc
            /\ LET you == trashing'[r] IN
               you.kind = me.kind /\ you.node = me.node /\ you.to = me.to /\ you.met = me.met /\ you.kept = me.kept
               /\ you.ok = me.ok
    BY <1>1, <1>2 DEF BinTypes, BinState
<1>3. ASSUME EndBin(r)
      PROVE /\ trashing' \in [Workers -> BinState]
            /\ \A q \in Workers \ {r} : trashing'[q] = trashing[q]
            /\ trashing'[r].pc = "end"
            /\ LET you == trashing'[r] IN
               you.kind = me.kind /\ you.node = me.node /\ you.to = me.to /\ you.met = me.met /\ you.kept = me.kept
    BY <1>1, <1>3 DEF BinTypes, BinState, BinPCs, EndBin
<1>4. CASE StatBin(r)
  <2>1. \E pc \in {"end", "rename", "inside", "remove"} :
           /\ trashing' = [trashing EXCEPT ![r].pc = pc]
           /\ pc = "rename" => me.kind = "trash"
           /\ pc \in {"inside", "remove"} => me.kind # "trash"
      BY <1>4 DEF StatBin, GoBin
  <2> QED
      BY <1>2, <1>4, <2>1 DEF StatBin, AtBin, Busy, BinPCs
<1>5. CASE RemoveInside(r) \/ RemoveTop(r) \/ StoreBin(r)
    BY <1>2, <1>5 DEF RemoveInside, RemoveTop, StoreBin, GoBin, AtBin, Busy, BinPCs, Odd
<1>6. CASE MoveRows(r) \/ DeleteRows(r) \/ RowBin(r)
  <2>1. me.pc \in {"rows", "row"} /\ UNCHANGED <<batch, named>> /\ odd \in SUBSET odd'
      BY <1>6 DEF MoveRows, DeleteRows, RowBin, AtBin, Odd
  <2>2. EndBin(r) \/ trashing' = [trashing EXCEPT ![r].pc = "end"]
      BY <1>6 DEF MoveRows, DeleteRows, RowBin, GoBin
  <2> QED
      BY <1>2, <1>3, <2>1, <2>2 DEF Busy, BinPCs
<1>7. CASE MoveRegularPath(r)
  <2> DEFINE both == [p \in {"top", "in"} |-> stored[<<me.node[1], p>>]]
             to == [me EXCEPT !.pc = "rows", !.kept = both]
  <2>1. CASE GoBin(r, "end")
    <3>1. me.pc = "rename" /\ UNCHANGED <<batch, named>> /\ odd \in SUBSET odd'
        BY <1>7 DEF MoveRegularPath, AtBin, Odd
    <3>2. trashing' = [trashing EXCEPT ![r].pc = "end"] /\ "end" \in BinPCs \ {"new"}
        BY <2>1 DEF GoBin, BinPCs
    <3>3. /\ trashing' \in [Workers -> BinState]
          /\ \A q \in Workers \ {r} : trashing'[q] = trashing[q]
          /\ trashing'[r].pc = "end"
          /\ LET you == trashing'[r] IN
             you.kind = me.kind /\ you.node = me.node /\ you.to = me.to /\ you.met = me.met /\ you.kept = me.kept
             /\ you.ok = me.ok
        BY <1>2, <3>2
    <3> QED
        BY <3>1, <3>3 DEF Busy
  <2>2. CASE ~GoBin(r, "end")
    <3>1. trashing' = [trashing EXCEPT ![r] = to]
        BY <1>1, <1>7, <2>2 DEF MoveRegularPath, BinTypes
    <3>2. both \in [NodePlaces -> BinContents]
        BY <1>1, NodeParts DEF NodePlaces, BinTypes, BinState, Nodes
    <3>3. to \in BinState /\ to.pc = "rows" /\ to.kind = me.kind /\ to.node = me.node /\ to.to = me.to
          /\ to.met = me.met /\ to.ok = me.ok
        BY <1>1, <3>2 DEF BinState, BinPCs
    <3> HIDE DEF to
    <3>4. trashing'[r] = to /\ me.pc = "rename" /\ UNCHANGED <<batch, named>> /\ odd \in SUBSET odd'
        BY <1>7, <2>2, <3>1 DEF MoveRegularPath, AtBin, BinTypes, Odd
    <3> QED
        BY <3>1, <3>3, <3>4 DEF Busy, BinTypes, BinPCs
  <2> QED
      BY <2>1, <2>2
<1> QED
    BY <1>4, <1>5, <1>6, <1>7 DEF BinWork

\* What a step does to files and rows it does to the heads of its request; but with the
\* rows of a directory go those of what else was moved to the bin from it.
LEMMA WorkHeads ==
    ASSUME BinTypes, NEW r \in Workers, BinWork(r)
    PROVE /\ stored' \in [Nodes -> BinContents] /\ indexed' \in [Nodes -> BinRows \cup {Nothing}]
          /\ \A n \in Nodes : n[1] \notin HeadsOf(trashing[r]) =>
                /\ stored'[n] = stored[n]
                /\ \/ indexed'[n] = indexed[n]
                   \/ indexed'[n] = Nothing /\ indexed[n] # Nothing /\ indexed[n].from # Nothing /\ n[1] \in odd'
          /\ trashing[r].pc \notin {"rename", "inside", "remove", "store"} => stored' = stored
          /\ trashing[r].pc \notin {"rows", "row"} => indexed' = indexed
<1> DEFINE me == trashing[r]
<1>1. me \in BinState /\ me.node \in Nodes /\ me.to \in Nodes /\ r \in BinContents /\ Dir \in BinContents /\ Nothing \in BinContents
      /\ me.node[1] \in HeadsOf(me) /\ me.to[1] \in HeadsOf(me)
    BY DEF BinTypes, BinState, BinContents, HeadsOf
<1>2. CASE StatBin(r)
    BY <1>2 DEF StatBin, BinTypes
<1>3. CASE MoveRegularPath(r)
  <2>1. CASE stored' = Renamed(me.node, me.to)
    <3>1. \A k \in Tree(me.to) : <<me.node[1], IF k = me.to THEN me.node[2] ELSE "in">> \in Nodes
        BY <1>1, NodeParts DEF Nodes
    <3>2. stored' \in [Nodes -> BinContents]
        BY <1>1, <2>1, <3>1 DEF Renamed, BinTypes
    <3>3. ASSUME NEW n \in Nodes, n[1] \notin HeadsOf(me) PROVE stored'[n] = stored[n]
      <4>1. n \notin Tree(me.to) /\ n \notin Tree(me.node) /\ n # Top(me.to[1])
          BY <1>1, <3>3, NodeParts DEF Top
      <4> QED
          BY <2>1, <4>1 DEF Renamed
    <3> QED
        BY <1>3, <3>2, <3>3 DEF MoveRegularPath, AtBin, BinTypes
  <2>2. CASE stored' # Renamed(me.node, me.to)
      BY <1>3, <2>2 DEF MoveRegularPath, AtBin, BinTypes
  <2> QED
      BY <2>1, <2>2
<1>4. CASE MoveRows(r)
  <2>1. stored' = stored /\ me.pc = "rows"
      BY <1>4 DEF MoveRows, AtBin
  <2>2. CASE \E from \in BOOLEAN : indexed' = RowsMoved(me.node, me.to, from)
    <3> PICK from \in BOOLEAN : indexed' = RowsMoved(me.node, me.to, from)
        BY <2>2
    <3>1. \A k \in Tree(me.to) : <<me.node[1], IF k = me.to THEN me.node[2] ELSE "in">> \in Nodes
        BY <1>1, NodeParts DEF Nodes
    <3>2. indexed' \in [Nodes -> BinRows \cup {Nothing}]
        BY <1>1, <3>1 DEF RowsMoved, BinTypes, BinRows
    <3>3. ASSUME NEW n \in Nodes, n[1] \notin HeadsOf(me) PROVE indexed'[n] = indexed[n]
      <4>1. n \notin Tree(me.to) /\ n \notin Tree(me.node)
          BY <1>1, <3>3, NodeParts
      <4> QED
          BY <4>1 DEF RowsMoved
    <3> QED
        BY <2>1, <3>2, <3>3 DEF BinTypes
  <2>3. CASE indexed' = indexed
      BY <2>1, <2>3 DEF BinTypes
  <2> QED
      BY <1>4, <2>2, <2>3 DEF MoveRows, TrashFile, RestoreFile
<1>5. CASE RemoveInside(r) \/ RemoveTop(r)
    BY <1>1, <1>5 DEF RemoveInside, RemoveTop, AtBin, BinTypes, In
<1>6. CASE DeleteRows(r)
  <2> DEFINE dead == Tree(me.node) \cup AlsoDeleted(me.node)
  <2>1. stored' = stored /\ me.pc = "rows"
      BY <1>6 DEF DeleteRows, AtBin
  <2>2. CASE indexed' = indexed
      BY <2>1, <2>2 DEF BinTypes
  <2>3. CASE indexed' # indexed
    <3>1. indexed' = [k \in Nodes |-> IF k \in dead THEN Nothing ELSE indexed[k]]
          /\ odd' = odd \cup {k[1] : k \in AlsoDeleted(me.node) \ Tree(me.node)}
        BY <1>6, <2>3 DEF DeleteRows
    <3>2. indexed' \in [Nodes -> BinRows \cup {Nothing}]
        BY <3>1 DEF BinTypes
    <3>3. \A n \in Tree(me.node) : n[1] \in HeadsOf(me)
        BY <1>1, NodeParts
    <3>4. ASSUME NEW n \in AlsoDeleted(me.node) PROVE indexed[n] # Nothing /\ indexed[n].from # Nothing
      <4>1. \E h : In(h) \in Nodes /\ n \in Nodes /\ indexed[n] # Nothing /\ indexed[n].from = In(h)
        <5>1. /\ indexed[me.node] # Nothing /\ indexed[me.node].from # Nothing
              /\ n \in Nodes /\ indexed[n] # Nothing /\ indexed[n].from = In(indexed[me.node].from[1])
            BY DEF AlsoDeleted
        <5>2. indexed[me.node].from \in Nodes
            BY <1>1, <5>1 DEF BinTypes, BinRows
        <5> QED
            BY <5>1, <5>2, NodeParts
      <4> QED
          BY <4>1, BinAssumption
    <3>5. ASSUME NEW n \in Nodes, n[1] \notin HeadsOf(me), indexed'[n] # indexed[n]
          PROVE indexed'[n] = Nothing /\ indexed[n] # Nothing /\ indexed[n].from # Nothing /\ n[1] \in odd'
      <4>1. n \in AlsoDeleted(me.node) \ Tree(me.node) /\ indexed'[n] = Nothing
          BY <3>1, <3>3, <3>5
      <4>2. n[1] \in odd'
          BY <3>1, <4>1
      <4> QED
          BY <3>4, <4>1, <4>2
    <3> QED
        BY <2>1, <3>2, <3>5 DEF BinTypes
  <2> QED
      BY <2>2, <2>3
<1>7. CASE StoreBin(r)
    BY <1>1, <1>7 DEF StoreBin, AtBin, BinTypes, Top
<1>8. CASE RowBin(r)
    BY <1>1, <1>8 DEF RowBin, AtBin, BinTypes, BinRows
<1> QED
    BY <1>2, <1>3, <1>4, <1>5, <1>6, <1>7, <1>8 DEF BinWork

\* What a request begins with.
LEMMA Beginning ==
    ASSUME BinTypes, NEW r \in Workers, NEW kind \in BinKinds, NEW n \in Nodes, NEW m \in Nodes,
           NEW pc \in {"stat", "rename", "store"}, Begin(r, kind, n, m, pc)
    PROVE /\ UNCHANGED <<stored, indexed>>
          /\ trashing' \in [Workers -> BinState]
          /\ LET me == trashing'[r] IN
             /\ me.pc = pc /\ me.kind = kind /\ me.node = n /\ me.to = m /\ ~me.ok
             /\ HeadsOf(me) = {n[1], m[1]}
          /\ \A q \in Workers \ {r} : LET you == trashing[q] IN
                /\ trashing'[q].pc = you.pc /\ trashing'[q].kind = you.kind /\ trashing'[q].node = you.node
                /\ trashing'[q].to = you.to /\ trashing'[q].kept = you.kept /\ trashing'[q].ok = you.ok
                /\ you.met => trashing'[q].met
          /\ odd \in SUBSET odd'
          /\ named' = named \cup IF kind = "trash" THEN {} ELSE {n[1], m[1]} \X {r}
<1> DEFINE mine == [NewBinRequest EXCEPT !.kind = kind, !.node = n, !.to = m, !.pc = pc]
           near == {q \in Workers : Busy(q) /\ HeadsOf(trashing[q]) \cap HeadsOf(mine) # {}}
           me == [mine EXCEPT !.met = near # {}]
<1>1. mine \in BinState /\ mine.kind = kind /\ mine.node = n /\ mine.to = m /\ mine.pc = pc /\ ~mine.ok
    BY DEF NewBinRequest, BinState, BinPCs
<1>2. HeadsOf(mine) = {n[1], m[1]}
    BY <1>1 DEF HeadsOf
<1>3. /\ me \in BinState /\ me.kind = kind /\ me.node = n /\ me.to = m /\ me.pc = pc /\ ~me.ok
      /\ me.met = (near # {}) /\ HeadsOf(me) = {n[1], m[1]}
    BY <1>1 DEF BinState, HeadsOf
<1>4. /\ trashing' = [q \in Workers |-> IF q = r THEN me ELSE [trashing[q] EXCEPT !.met = @ \/ q \in near]]
      /\ odd' = odd \cup UNION {HeadsOf(trashing[q]) \cup HeadsOf(mine) : q \in near}
      /\ named' = named \cup IF kind = "trash" THEN {} ELSE HeadsOf(mine) \X {r}
      /\ UNCHANGED <<stored, indexed>>
    BY DEF Begin
<1> HIDE DEF mine, me
<1>5. ASSUME NEW q \in Workers \ {r}
      PROVE LET you == trashing[q] IN
            /\ trashing'[q] \in BinState
            /\ trashing'[q].pc = you.pc /\ trashing'[q].kind = you.kind /\ trashing'[q].node = you.node
            /\ trashing'[q].to = you.to /\ trashing'[q].kept = you.kept /\ trashing'[q].ok = you.ok
            /\ trashing'[q].met = (you.met \/ q \in near)
  <2>1. trashing[q] \in BinState /\ trashing'[q] = [trashing[q] EXCEPT !.met = @ \/ q \in near]
      BY <1>4 DEF BinTypes
  <2> HIDE DEF near
  <2> QED
      BY <2>1 DEF BinState
<1>6. trashing' \in [Workers -> BinState]
    BY <1>3, <1>4, <1>5
<1>7. trashing'[r] = me
    BY <1>4
<1> QED
    BY <1>2, <1>3, <1>4, <1>5, <1>6, <1>7

\* What it is about.
LEMMA BeganAs ==
    ASSUME BinTypes, NEW r \in Workers, NEW kind \in BinKinds, NEW n \in Nodes, NEW m \in Nodes,
           NEW pc \in {"stat", "rename", "store"}, Begin(r, kind, n, m, pc)
    PROVE LET me == trashing'[r] IN
          me.pc = pc /\ me.kind = kind /\ me.node = n /\ me.to = m /\ ~me.ok /\ HeadsOf(me) = {n[1], m[1]}
<1> DEFINE me == trashing'[r]
<1>1. me.pc = pc /\ me.kind = kind /\ me.node = n /\ me.to = m /\ ~me.ok
    BY Beginning, SMT
<1>2. HeadsOf(me) = {n[1], m[1]}
    BY <1>1 DEF HeadsOf
<1> QED
    BY <1>1, <1>2

\* Two requests at once on one head know of each other.
LEMMA BeginsBeside ==
    ASSUME BinTypes, NEW r \in Workers, NEW kind \in BinKinds, NEW n \in Nodes, NEW m \in Nodes,
           NEW pc \in {"stat", "rename", "store"}, Begin(r, kind, n, m, pc), NEW q \in Workers \ {r},
           Busy(q), Share(trashing[q], trashing'[r])
    PROVE /\ trashing'[r].met /\ trashing'[q].met
          /\ HeadsOf(trashing[q]) \cup HeadsOf(trashing'[r]) \in SUBSET odd'
<1>1. HeadsOf(trashing'[r]) = {n[1], m[1]}
    BY BeganAs
<1> DEFINE mine == [NewBinRequest EXCEPT !.kind = kind, !.node = n, !.to = m, !.pc = pc]
           near == {p \in Workers : Busy(p) /\ HeadsOf(trashing[p]) \cap HeadsOf(mine) # {}}
<1>2. mine \in BinState /\ mine.node = n /\ mine.to = m
    BY DEF NewBinRequest, BinState, BinPCs
<1>3. HeadsOf(mine) = HeadsOf(trashing'[r])
    BY <1>1, <1>2 DEF HeadsOf
<1>4. [mine EXCEPT !.met = near # {}].met = (near # {})
    BY <1>2 DEF BinState
<1>5. /\ trashing'[r] = [mine EXCEPT !.met = near # {}]
      /\ trashing'[q] = [trashing[q] EXCEPT !.met = @ \/ q \in near]
      /\ odd' = odd \cup UNION {HeadsOf(trashing[p]) \cup HeadsOf(mine) : p \in near}
    BY DEF Begin
<1>6. q \in near
    BY <1>3 DEF Share
<1> HIDE DEF mine, near
<1>7. [trashing[q] EXCEPT !.met = @ \/ q \in near].met
    BY <1>6 DEF BinTypes, BinState
<1> QED
    BY <1>3, <1>4, <1>5, <1>6, <1>7

\* How requests begin.
BinBegins(r, kind, n, m, pc) ==
    /\ Begin(r, kind, n, m, pc) /\ ~Busy(r)
    /\ r \in BinRequests => trashing[r].pc = "new"
    /\ r = BinCleaner => kind = "expire"
    /\ \/ /\ kind = "trash" /\ pc = "stat" /\ r \in BinRequests /\ n \in Homes \X {"top"}
          /\ m \in (BinPaths \ {FirstEntry}) \X {"top"} /\ \A q \in Workers : trashing[q].to # m
       \/ /\ kind = "restore" /\ pc = "rename" /\ r \in BinRequests /\ n \in BinPaths \X NodePlaces
          /\ indexed[n] # Nothing /\ m = indexed[n].from
       \/ kind \in {"delete", "expire"} /\ pc = "stat" /\ m = n
       \/ /\ kind \in {"write", "mkdir"} /\ pc = "store" /\ m = n /\ n[1] \in Homes
          /\ n[2] = (IF kind = "write" /\ n[1] \in Folders THEN "in" ELSE "top")
          /\ kind = "mkdir" => n[1] \in Folders

\* A step of the bin begins a request, goes on with one or picks what has expired.
LEMMA BinCases ==
    ASSUME BinTypes, BinMoves
    PROVE \/ \E r \in Workers, kind \in BinKinds, n \in Nodes, m \in Nodes, pc \in {"stat", "rename", "store"} :
                BinBegins(r, kind, n, m, pc) /\ (batch' # Nothing => batch' \in SUBSET BinPaths)
          \/ \E r \in Workers : BinWork(r)
          \/ FindExpiredBatch
<1> DEFINE Goal == \E r \in Workers, kind \in BinKinds, n \in Nodes, m \in Nodes, pc \in {"stat", "rename", "store"} :
                       BinBegins(r, kind, n, m, pc) /\ (batch' # Nothing => batch' \in SUBSET BinPaths)
<1>1. ASSUME NEW r \in BinRequests, BeginTrash(r) PROVE Goal
  <2>1. PICK h \in Homes : Begin(r, "trash", Top(h), Top(TrashPath(Top(h))), "stat")
      BY <1>1 DEF BeginTrash
  <2>2. \E e \in BinPaths : e # FirstEntry /\ \A q \in Workers : trashing[q].to # Top(e)
      BY <1>1 DEF BeginTrash
  <2>3. TrashPath(Top(h)) \in BinPaths \ {FirstEntry} /\ \A q \in Workers : trashing[q].to # Top(TrashPath(Top(h)))
      BY <2>2 DEF TrashPath
  <2>4. PICK e \in BinPaths \ {FirstEntry} : e = TrashPath(Top(h)) /\ \A q \in Workers : trashing[q].to # Top(e)
      BY <2>3
  <2>5. BinBegins(r, "trash", Top(h), Top(e), "stat")
      BY <1>1, <2>1, <2>4, BinAssumption DEF BinBegins, BeginTrash, AtBin, Busy, Top
  <2>6. Top(h) \in Nodes /\ Top(e) \in Nodes /\ r \in Workers /\ "trash" \in BinKinds
      BY NodeParts DEF Heads, Workers, BinKinds
  <2> QED
      BY <1>1, <2>5, <2>6 DEF BeginTrash, BinTypes
<1>2. ASSUME NEW r \in BinRequests, BeginRestore(r) PROVE Goal
  <2>1. PICK n \in BinPaths \X {"top", "in"} : /\ indexed[n] # Nothing /\ indexed[n].from # Nothing
                                             /\ Begin(r, "restore", n, indexed[n].from, "rename")
      BY <1>2 DEF BeginRestore
  <2>2. n \in Nodes /\ indexed[n].from \in Nodes
      BY <2>1 DEF BinTypes, BinRows, Nodes, Heads
  <2>3. BinBegins(r, "restore", n, indexed[n].from, "rename")
      BY <1>2, <2>1, BinAssumption DEF BinBegins, BeginRestore, AtBin, Busy, NodePlaces
  <2> QED
      BY <1>2, <2>2, <2>3 DEF BeginRestore, BinTypes, BinKinds, Workers
<1>3. ASSUME NEW r \in BinRequests, BeginDelete(r) PROVE Goal
  <2>1. PICK n \in Nodes : Begin(r, "delete", n, n, "stat")
      BY <1>3 DEF BeginDelete
  <2>2. BinBegins(r, "delete", n, n, "stat")
      BY <1>3, <2>1, BinAssumption DEF BinBegins, BeginDelete, AtBin, Busy
  <2> QED
      BY <1>3, <2>2 DEF BeginDelete, BinTypes, BinKinds, Workers
<1>4. ASSUME NEW r \in BinRequests, BeginWrite(r) \/ BeginCreateDir(r) PROVE Goal
  <2>1. PICK h \in Homes, kind \in {"write", "mkdir"} :
           /\ Begin(r, kind, IF kind = "write" /\ h \in Folders THEN In(h) ELSE Top(h),
                    IF kind = "write" /\ h \in Folders THEN In(h) ELSE Top(h), "store")
           /\ kind = "mkdir" => h \in Folders
      BY <1>4 DEF BeginWrite, BeginCreateDir, Homes
  <2> DEFINE n == IF kind = "write" /\ h \in Folders THEN In(h) ELSE Top(h)
  <2>2. n \in Nodes /\ n[1] = h /\ n[2] = (IF kind = "write" /\ n[1] \in Folders THEN "in" ELSE "top")
      BY NodeParts DEF Heads
  <2>3. Begin(r, kind, n, n, "store")
      BY <2>1
  <2> HIDE DEF n
  <2>4. BinBegins(r, kind, n, n, "store")
      BY <1>4, <2>1, <2>2, <2>3, BinAssumption DEF BinBegins, BeginWrite, BeginCreateDir, AtBin, Busy
  <2> QED
      BY <1>4, <2>2, <2>4 DEF BeginWrite, BeginCreateDir, BinTypes, BinKinds, Workers
<1>5. ASSUME DeleteExpired PROVE Goal
  <2>1. PICK e \in batch : /\ batch' = batch \ {e}
                          /\ Begin(BinCleaner, "expire", Top(e), Top(e), "stat")
      BY <1>5 DEF DeleteExpired
  <2>2. e \in BinPaths /\ batch' \in SUBSET BinPaths
      BY <1>5, <2>1 DEF DeleteExpired, BinTypes
  <2>3. BinBegins(BinCleaner, "expire", Top(e), Top(e), "stat")
      BY <1>5, <2>1, BinAssumption DEF BinBegins, DeleteExpired
  <2> QED
      BY <2>2, <2>3, NodeParts DEF BinKinds, Workers, Heads
<1>6. CASE \E r \in Workers : BinWork(r)
    BY <1>6
<1> QED
    BY <1>1, <1>2, <1>3, <1>4, <1>5, <1>6 DEF BinMoves, BinWork

\* Finding what has expired changes no request.
LEMMA ExpiredFrame ==
    ASSUME BinTypes, FindExpiredBatch
    PROVE /\ BinTypes' /\ UNCHANGED <<stored, indexed, odd, named>>
          /\ ~Busy(BinCleaner) /\ trashing'[BinCleaner].pc = "end"
          /\ \A q \in Workers \ {BinCleaner} : trashing'[q] = trashing[q]
          /\ LET me == trashing[BinCleaner]
                 you == trashing'[BinCleaner]
             IN you.kind = me.kind /\ you.node = me.node /\ you.to = me.to /\ you.met = me.met /\ you.kept = me.kept
                /\ you.ok = me.ok
<1>1. BinCleaner \in Workers /\ trashing[BinCleaner] \in BinState
    BY DEF Workers, BinTypes
<1>2. trashing' = [trashing EXCEPT ![BinCleaner].pc = "end"] /\ UNCHANGED <<stored, indexed, odd, named>> /\ ~Busy(BinCleaner)
    BY DEF FindExpiredBatch
<1>3. batch' # Nothing => batch' \in SUBSET BinPaths
    BY DEF FindExpiredBatch, Expired
<1> QED
    BY <1>1, <1>2, <1>3 DEF BinTypes, BinState, BinPCs

\* What a restore is to bring back is a path of the user.
LEMMA FromHome ==
    ASSUME BinTypes, HeadsFit, NEW n \in BinPaths \X NodePlaces, indexed[n] # Nothing
    PROVE \E x \in Homes : IsHome(x, n[1]) /\ indexed[n].from = <<x, n[2]>>
<1>1. PICK e \in BinPaths, p \in NodePlaces : n = <<e, p>>
    OBVIOUS
<1>2. e \in Heads /\ e \notin Homes
    BY BinAssumption DEF Heads
<1>3. ASSUME NEW h \in Heads, NEW q \in NodePlaces, indexed[<<h, q>>] # Nothing, h \notin Homes
      PROVE \E x \in Homes : IsHome(x, h) /\ indexed[<<h, q>>].from = <<x, q>>
  <2>1. \E x \in Homes : StandsFor(x, h, q)
      BY <1>3 DEF HeadsFit, HeadFits
  <2> QED
      BY <1>3, <2>1 DEF StandsFor
<1> QED
    BY <1>1, <1>2, <1>3

LEMMA BinTypesStep == BinInv /\ BinMoves => BinTypes'
<1> SUFFICES ASSUME BinInv, BinMoves PROVE BinTypes'
    OBVIOUS
<1>1. BinTypes
    BY DEF BinInv
<1>2. ASSUME NEW r \in Workers, BinWork(r) PROVE BinTypes'
    BY <1>1, <1>2, WorkProgress, WorkHeads DEF BinTypes
<1>3. ASSUME NEW r \in Workers, NEW kind \in BinKinds, NEW n \in Nodes, NEW m \in Nodes,
             NEW pc \in {"stat", "rename", "store"}, BinBegins(r, kind, n, m, pc), batch' # Nothing => batch' \in SUBSET BinPaths
      PROVE BinTypes'
  <2>1. UNCHANGED <<stored, indexed>> /\ trashing' \in [Workers -> BinState]
      BY <1>1, <1>3, Beginning DEF BinBegins
  <2> QED
      BY <1>1, <1>3, <2>1 DEF BinTypes
<1> QED
    BY <1>1, <1>2, <1>3, BinCases, ExpiredFrame

LEMMA RequestsFitStep == BinInv /\ BinMoves => RequestsFit'
<1> SUFFICES ASSUME BinInv, BinMoves PROVE RequestsFit'
    OBVIOUS
<1>1. BinTypes /\ RequestsFit /\ HeadsFit
    BY DEF BinInv
<1>2. ASSUME NEW r \in Workers, BinWork(r) PROVE RequestsFit'
  <2>1. ASSUME NEW q \in Workers \ {r} PROVE trashing'[q] = trashing[q]
      BY <1>1, <1>2, WorkProgress
  <2>2. /\ Busy(r) /\ named' = named /\ trashing[r] \in BinState
        /\ LET me == trashing[r]
                 you == trashing'[r]
             IN /\ you.kind = me.kind /\ you.node = me.node /\ you.to = me.to
                /\ you.pc \in {"end", "rename", "inside", "remove", "rows", "row"}
                /\ you.pc = "rename" => me.kind = "trash"
                /\ you.pc = "rows" => me.pc \in {"rename", "remove"}
                /\ you.pc \in {"inside", "remove"} => me.pc \in {"stat", "inside"} /\ (me.pc = "stat" => me.kind # "trash")
                /\ you.pc = "row" => me.pc = "store"
                /\ you.pc # "end" => you.ok = me.ok
      BY <1>1, <1>2, WorkProgress DEF BinTypes
  <2>3. HeadsOf(trashing'[r]) = HeadsOf(trashing[r])
      BY <2>2 DEF HeadsOf
  <2>4. trashing'[r].pc = "inside" => trashing[r].node[2] = "top"
    <3>1. ASSUME StatBin(r), trashing'[r].pc = "inside" PROVE stored[trashing[r].node] = Dir
        BY <1>1, <3>1, BinAssumption DEF StatBin, GoBin, AtBin, BinTypes, BinState
    <3>2. ASSUME stored[trashing[r].node] = Dir PROVE trashing[r].node[2] = "top"
      <4>1. trashing[r].node \in Nodes
          BY <2>2 DEF BinState
      <4> QED
          BY <1>1, <3>2, <4>1, NodeParts DEF HeadsFit, HeadFits, NodePlaces
    <3>3. trashing'[r].pc = "inside" => StatBin(r)
        BY <1>1, <1>2 DEF BinWork, MoveRegularPath, MoveRows, RemoveInside, RemoveTop, DeleteRows, StoreBin, RowBin,
           GoBin, EndBin, BinTypes, BinState
    <3> QED
        BY <3>1, <3>2, <3>3
  <2>5. ASSUME NEW q \in Workers PROVE
        LET me == trashing'[q] IN
        /\ me.pc = "new" => ~me.ok /\ me.kind = "write" /\ \A h \in Heads : <<h, q>> \notin named
        /\ me.pc = "stat" => me.kind \in {"trash", "delete", "expire"}
        /\ me.pc = "rename" => me.kind \in {"trash", "restore"}
        /\ me.pc = "rows" => me.kind \in {"trash", "restore", "delete", "expire"}
        /\ me.pc \in {"inside", "remove"} => me.kind \in {"delete", "expire"}
        /\ me.pc = "inside" => me.node[2] = "top"
        /\ me.pc \in {"store", "row"} =>
              /\ me.kind \in {"write", "mkdir"} /\ me.node[1] \in Homes
              /\ me.node[2] = (IF me.kind = "write" /\ me.node[1] \in Folders THEN "in" ELSE "top")
              /\ me.kind = "mkdir" => me.node[1] \in Folders
        /\ me.ok => me.pc = "end"
    <3>1. CASE q = r
        BY <1>1, <2>2, <2>4, <3>1 DEF RequestsFit, Busy
    <3>2. CASE q # r
        BY <1>1, <2>1, <3>2 DEF RequestsFit
    <3> QED
        BY <3>1, <3>2
  <2>6. ASSUME NEW q \in Workers PROVE
        LET me == trashing'[q] IN
        /\ me.kind = "trash" => q \in BinRequests /\ me.node \in Homes \X {"top"}
                                /\ me.to \in (BinPaths \ {FirstEntry}) \X {"top"}
        /\ me.kind = "restore" => q \in BinRequests /\ me.node \in BinPaths \X NodePlaces
                                  /\ me.to \in Homes \X {me.node[2]}
        /\ me.kind \in {"delete", "expire", "write", "mkdir"} => me.to = me.node
        /\ me.kind # "trash" /\ me.pc \notin {"new", "end"} => HeadsOf(me) \X {q} \in SUBSET named
    <3>1. CASE q = r
        BY <1>1, <2>2, <2>3, <3>1 DEF RequestsFit, Busy
    <3>2. CASE q # r
        BY <1>1, <2>1, <3>2 DEF RequestsFit, Busy
    <3> QED
        BY <3>1, <3>2
  <2> QED
      BY <2>2, <2>5, <2>6 DEF RequestsFit, Busy
<1>3. ASSUME NEW r \in Workers, NEW kind \in BinKinds, NEW n \in Nodes, NEW m \in Nodes,
             NEW pc \in {"stat", "rename", "store"}, BinBegins(r, kind, n, m, pc)
      PROVE RequestsFit'
  <2>1. /\ LET me == trashing'[r] IN
           me.pc = pc /\ me.kind = kind /\ me.node = n /\ me.to = m /\ ~me.ok /\ HeadsOf(me) = {n[1], m[1]}
        /\ \A q \in Workers \ {r} : LET you == trashing[q] IN
              /\ trashing'[q].pc = you.pc /\ trashing'[q].kind = you.kind /\ trashing'[q].node = you.node
              /\ trashing'[q].to = you.to /\ trashing'[q].ok = you.ok
        /\ named' = named \cup IF kind = "trash" THEN {} ELSE {n[1], m[1]} \X {r}
    <3>1. Begin(r, kind, n, m, pc)
        BY <1>3 DEF BinBegins
    <3>2. LET me == trashing'[r] IN
             me.pc = pc /\ me.kind = kind /\ me.node = n /\ me.to = m /\ ~me.ok /\ HeadsOf(me) = {n[1], m[1]}
        BY <1>1, <3>1, BeganAs
    <3>4. named' = named \cup IF kind = "trash" THEN {} ELSE {n[1], m[1]} \X {r}
        BY <1>1, <3>1, Beginning
    <3>3. ASSUME NEW q \in Workers \ {r} PROVE LET you == trashing[q] IN
              /\ trashing'[q].pc = you.pc /\ trashing'[q].kind = you.kind /\ trashing'[q].node = you.node
              /\ trashing'[q].to = you.to /\ trashing'[q].ok = you.ok
        BY <1>1, <3>1, Beginning
    <3> QED
        BY <3>2, <3>3, <3>4
  <2>2. kind = "restore" => m \in Homes \X {n[2]}
      BY <1>1, <1>3, FromHome DEF BinBegins
  <2>3. ASSUME NEW q \in Workers \ {r}
        PROVE /\ \A h : <<h, q>> \in named' => <<h, q>> \in named
              /\ HeadsOf(trashing'[q]) = HeadsOf(trashing[q]) /\ Busy(q)' = Busy(q)
      BY <2>1 DEF HeadsOf, Busy
  <2>4. ASSUME NEW q \in Workers \ {r}, trashing'[q].kind # "trash", Busy(q)'
        PROVE HeadsOf(trashing'[q]) \X {q} \in SUBSET named'
    <3>1. HeadsOf(trashing[q]) \X {q} \in SUBSET named
        BY <1>1, <2>1, <2>3, <2>4 DEF RequestsFit
    <3> QED
        BY <2>1, <2>3, <3>1
  <2>5. kind # "trash" => HeadsOf(trashing'[r]) \X {r} \in SUBSET named'
      BY <2>1
  <2>6. r \in BinRequests \/ kind \notin {"trash", "restore"}
      BY <1>3 DEF BinBegins
  <2>7. ASSUME NEW q \in Workers \ {r} PROVE
        LET me == trashing'[q] IN
        /\ me.pc = "new" => ~me.ok /\ me.kind = "write" /\ \A h \in Heads : <<h, q>> \notin named'
        /\ me.pc = "stat" => me.kind \in {"trash", "delete", "expire"}
        /\ me.pc = "rename" => me.kind \in {"trash", "restore"}
        /\ me.pc = "rows" => me.kind \in {"trash", "restore", "delete", "expire"}
        /\ me.pc \in {"inside", "remove"} => me.kind \in {"delete", "expire"}
        /\ me.pc = "inside" => me.node[2] = "top"
        /\ me.pc \in {"store", "row"} =>
              /\ me.kind \in {"write", "mkdir"} /\ me.node[1] \in Homes
              /\ me.node[2] = (IF me.kind = "write" /\ me.node[1] \in Folders THEN "in" ELSE "top")
              /\ me.kind = "mkdir" => me.node[1] \in Folders
        /\ me.ok => me.pc = "end"
        /\ me.kind = "trash" => q \in BinRequests /\ me.node \in Homes \X {"top"}
                                /\ me.to \in (BinPaths \ {FirstEntry}) \X {"top"}
        /\ me.kind = "restore" => q \in BinRequests /\ me.node \in BinPaths \X NodePlaces
                                  /\ me.to \in Homes \X {me.node[2]}
        /\ me.kind \in {"delete", "expire", "write", "mkdir"} => me.to = me.node
      BY <1>1, <2>1, <2>3 DEF RequestsFit
  <2>8. LET me == trashing'[r] IN
        /\ me.pc # "new"
        /\ me.pc = "stat" => me.kind \in {"trash", "delete", "expire"}
        /\ me.pc = "rename" => me.kind \in {"trash", "restore"}
        /\ me.pc \notin {"rows", "inside", "remove", "row"}
        /\ me.pc = "store" =>
              /\ me.kind \in {"write", "mkdir"} /\ me.node[1] \in Homes
              /\ me.node[2] = (IF me.kind = "write" /\ me.node[1] \in Folders THEN "in" ELSE "top")
              /\ me.kind = "mkdir" => me.node[1] \in Folders
        /\ ~me.ok
        /\ me.kind = "trash" => r \in BinRequests /\ me.node \in Homes \X {"top"}
                                /\ me.to \in (BinPaths \ {FirstEntry}) \X {"top"}
        /\ me.kind = "restore" => r \in BinRequests /\ me.node \in BinPaths \X NodePlaces
                                  /\ me.to \in Homes \X {me.node[2]}
        /\ me.kind \in {"delete", "expire", "write", "mkdir"} => me.to = me.node
      BY <1>3, <2>1, <2>2 DEF BinBegins
  <2> QED
      BY <2>4, <2>5, <2>7, <2>8, <2>1 DEF RequestsFit
<1>4. CASE FindExpiredBatch
    BY <1>1, <1>4, ExpiredFrame DEF RequestsFit, Busy, HeadsOf
<1> QED
    BY <1>1, <1>2, <1>3, <1>4, BinCases

\* What others are about when a request begins.
LEMMA BeginsOthers ==
    ASSUME BinTypes, NEW r \in Workers, NEW kind \in BinKinds, NEW n \in Nodes, NEW m \in Nodes,
           NEW pc \in {"stat", "rename", "store"}, Begin(r, kind, n, m, pc), NEW q \in Workers \ {r}
    PROVE /\ trashing'[q].pc = trashing[q].pc /\ trashing'[q].kind = trashing[q].kind
          /\ trashing'[q].node = trashing[q].node /\ trashing'[q].to = trashing[q].to
          /\ trashing'[q].kept = trashing[q].kept /\ trashing'[q].ok = trashing[q].ok
          /\ trashing[q].met => trashing'[q].met
          /\ HeadsOf(trashing'[q]) = HeadsOf(trashing[q]) /\ (Busy(q)' <=> Busy(q))
          /\ Busy(q) /\ Share(trashing[q], trashing'[r]) =>
                /\ trashing'[r].met /\ trashing'[q].met
                /\ HeadsOf(trashing[q]) \cup HeadsOf(trashing'[r]) \in SUBSET odd'
<1>1. /\ trashing'[q].pc = trashing[q].pc /\ trashing'[q].kind = trashing[q].kind
      /\ trashing'[q].node = trashing[q].node /\ trashing'[q].to = trashing[q].to
      /\ trashing'[q].kept = trashing[q].kept /\ trashing'[q].ok = trashing[q].ok
      /\ trashing[q].met => trashing'[q].met
    BY Beginning
<1>2. Busy(q) /\ Share(trashing[q], trashing'[r]) =>
         /\ trashing'[r].met /\ trashing'[q].met
         /\ HeadsOf(trashing[q]) \cup HeadsOf(trashing'[r]) \in SUBSET odd'
    BY BeginsBeside
<1>3. HeadsOf(trashing'[q]) = HeadsOf(trashing[q]) /\ (Busy(q)' <=> Busy(q))
    BY <1>1 DEF HeadsOf, Busy
<1> QED
    BY <1>1, <1>2, <1>3

LEMMA RequestsApartStep == BinInv /\ BinMoves => RequestsApart'
<1> SUFFICES ASSUME BinInv, BinMoves PROVE RequestsApart'
    OBVIOUS
<1>1. BinTypes /\ RequestsApart
    BY DEF BinInv
<1>2. ASSUME NEW r \in Workers, BinWork(r) PROVE RequestsApart'
  <2>1. ASSUME NEW q \in Workers
        PROVE /\ trashing'[q].kind = trashing[q].kind /\ trashing'[q].to = trashing[q].to
              /\ trashing'[q].node = trashing[q].node /\ trashing'[q].met = trashing[q].met
              /\ Busy(q)' => Busy(q)
    <3>1. Busy(r)
        BY <1>1, <1>2, WorkProgress
    <3>2. CASE q = r
        BY <1>1, <1>2, <3>1, <3>2, WorkProgress
    <3>3. CASE q # r
        BY <1>1, <1>2, <3>3, WorkProgress DEF Busy
    <3> QED
        BY <3>2, <3>3
  <2>2. ASSUME NEW q \in Workers PROVE HeadsOf(trashing'[q]) = HeadsOf(trashing[q])
      BY <2>1 DEF HeadsOf
  <2>3. odd \in SUBSET odd'
      BY <1>1, <1>2, WorkProgress
  <2> QED
      BY <1>1, <2>1, <2>2, <2>3 DEF RequestsApart, Share
<1>3. ASSUME NEW r \in Workers, NEW kind \in BinKinds, NEW n \in Nodes, NEW m \in Nodes,
             NEW pc \in {"stat", "rename", "store"}, BinBegins(r, kind, n, m, pc)
      PROVE RequestsApart'
  <2>1. Begin(r, kind, n, m, pc) /\ (kind = "trash" => \A q \in Workers : trashing[q].to # m)
      BY <1>3 DEF BinBegins
  <2>2. trashing'[r].kind = kind /\ trashing'[r].to = m /\ odd \in SUBSET odd'
      BY <1>1, <2>1, BeganAs, Beginning
  <2>3. ASSUME NEW q \in Workers \ {r}
        PROVE /\ trashing'[q].kind = "trash" /\ kind = "trash" => trashing'[q].to # m
              /\ Busy(q)' /\ Share(trashing'[q], trashing'[r]) =>
                    /\ trashing'[r].met /\ trashing'[q].met
                    /\ HeadsOf(trashing'[q]) \cup HeadsOf(trashing'[r]) \in SUBSET odd'
    <3>1. /\ trashing'[q].kind = trashing[q].kind /\ trashing'[q].to = trashing[q].to
          /\ HeadsOf(trashing'[q]) = HeadsOf(trashing[q]) /\ (Busy(q)' <=> Busy(q))
        BY <1>1, <2>1, BeginsOthers
    <3>2. Busy(q) /\ Share(trashing[q], trashing'[r]) =>
             /\ trashing'[r].met /\ trashing'[q].met
             /\ HeadsOf(trashing[q]) \cup HeadsOf(trashing'[r]) \in SUBSET odd'
        BY <1>1, <2>1, BeginsOthers
    <3> QED
        BY <2>1, <3>1, <3>2 DEF Share
  <2>4. ASSUME NEW a \in Workers \ {r}, NEW b \in Workers \ {r}, a # b
        PROVE /\ trashing'[a].kind = "trash" /\ trashing'[b].kind = "trash" => trashing'[a].to # trashing'[b].to
              /\ Busy(a)' /\ Busy(b)' /\ Share(trashing'[a], trashing'[b]) =>
                    /\ trashing'[a].met /\ trashing'[b].met
                    /\ HeadsOf(trashing'[a]) \cup HeadsOf(trashing'[b]) \in SUBSET odd'
    <3>1. /\ trashing[a].kind = "trash" /\ trashing[b].kind = "trash" => trashing[a].to # trashing[b].to
          /\ Busy(a) /\ Busy(b) /\ Share(trashing[a], trashing[b]) =>
                /\ trashing[a].met /\ trashing[b].met
                /\ HeadsOf(trashing[a]) \cup HeadsOf(trashing[b]) \in SUBSET odd
        BY <1>1, <2>4 DEF RequestsApart
    <3>2. /\ trashing'[a].kind = trashing[a].kind /\ trashing'[a].to = trashing[a].to /\ (Busy(a)' <=> Busy(a))
          /\ HeadsOf(trashing'[a]) = HeadsOf(trashing[a]) /\ (trashing[a].met => trashing'[a].met)
        BY <1>1, <2>1, BeginsOthers
    <3>3. /\ trashing'[b].kind = trashing[b].kind /\ trashing'[b].to = trashing[b].to /\ (Busy(b)' <=> Busy(b))
          /\ HeadsOf(trashing'[b]) = HeadsOf(trashing[b]) /\ (trashing[b].met => trashing'[b].met)
        BY <1>1, <2>1, BeginsOthers
    <3> QED
        BY <2>2, <3>1, <3>2, <3>3 DEF Share
  <2>5. ASSUME NEW a \in Workers, NEW b \in Workers, a # b
        PROVE /\ trashing'[a].kind = "trash" /\ trashing'[b].kind = "trash" => trashing'[a].to # trashing'[b].to
              /\ Busy(a)' /\ Busy(b)' /\ Share(trashing'[a], trashing'[b]) =>
                    /\ trashing'[a].met /\ trashing'[b].met
                    /\ HeadsOf(trashing'[a]) \cup HeadsOf(trashing'[b]) \in SUBSET odd'
    <3>1. CASE a = r
        BY <2>2, <2>3, <2>5, <3>1 DEF Share
    <3>2. CASE b = r
        BY <2>2, <2>3, <2>5, <3>2 DEF Share
    <3>3. CASE a # r /\ b # r
        BY <2>4, <2>5, <3>3
    <3> QED
        BY <3>1, <3>2, <3>3
  <2> QED
      BY <2>5 DEF RequestsApart
<1>4. CASE FindExpiredBatch
    BY <1>1, <1>4, ExpiredFrame DEF RequestsApart, Busy, HeadsOf
<1> QED
    BY <1>1, <1>2, <1>3, <1>4, BinCases

-----------------------------------------------------------------------------
(* Heads and their homes                                                    *)

\* A request to move something to the bin is the only one its request ever is.
LEMMA TrashStays ==
    ASSUME BinInv, BinMoves, NEW q \in Workers, trashing[q].kind = "trash"
    PROVE /\ trashing'[q].kind = "trash" /\ trashing'[q].node = trashing[q].node /\ trashing'[q].to = trashing[q].to
          /\ trashing[q].ok => trashing'[q].ok /\ trashing'[q].kept = trashing[q].kept
          /\ trashing[q].met => trashing'[q].met
          /\ trashing[q].pc \notin {"stat", "rename"} =>
                trashing'[q].pc \notin {"stat", "rename"} /\ trashing'[q].kept = trashing[q].kept
<1>1. BinTypes /\ RequestsFit
    BY DEF BinInv
<1>2. trashing[q].pc # "new" /\ q # BinCleaner /\ (trashing[q].ok => trashing[q].pc = "end")
    BY <1>1, BinAssumption DEF RequestsFit
<1>3. ASSUME NEW r \in Workers, BinWork(r)
      PROVE /\ trashing'[q].kind = "trash" /\ trashing'[q].node = trashing[q].node /\ trashing'[q].to = trashing[q].to
            /\ trashing[q].ok => trashing'[q].ok /\ trashing'[q].kept = trashing[q].kept
            /\ trashing[q].met => trashing'[q].met
            /\ trashing[q].pc \notin {"stat", "rename"} =>
                  trashing'[q].pc \notin {"stat", "rename"} /\ trashing'[q].kept = trashing[q].kept
  <2>1. CASE q = r
    <3>1. /\ Busy(q) /\ trashing'[q].kind = trashing[q].kind /\ trashing'[q].node = trashing[q].node
          /\ trashing'[q].to = trashing[q].to /\ trashing'[q].met = trashing[q].met
          /\ trashing[q].pc # "rename" => trashing'[q].kept = trashing[q].kept
          /\ trashing'[q].pc \in {"end", "rename", "inside", "remove", "rows", "row"}
        BY <1>1, <1>3, <2>1, WorkProgress
    <3>2. trashing'[q].pc = "rename" => trashing[q].pc = "stat"
        BY <1>1, <1>3, <2>1 DEF BinWork, StatBin, MoveRegularPath, MoveRows, RemoveInside, RemoveTop, DeleteRows,
           StoreBin, RowBin, GoBin, EndBin, AtBin, BinTypes, BinState
    <3> QED
        BY <1>2, <3>1, <3>2 DEF Busy
  <2>2. CASE q # r
      BY <1>1, <1>3, <2>2, WorkProgress
  <2> QED
      BY <2>1, <2>2
<1>4. ASSUME NEW r \in Workers, NEW kind \in BinKinds, NEW n \in Nodes, NEW m \in Nodes,
             NEW pc \in {"stat", "rename", "store"}, BinBegins(r, kind, n, m, pc)
      PROVE /\ trashing'[q].kind = "trash" /\ trashing'[q].node = trashing[q].node /\ trashing'[q].to = trashing[q].to
            /\ trashing[q].ok => trashing'[q].ok /\ trashing'[q].kept = trashing[q].kept
            /\ trashing[q].met => trashing'[q].met
            /\ trashing[q].pc \notin {"stat", "rename"} =>
                  trashing'[q].pc \notin {"stat", "rename"} /\ trashing'[q].kept = trashing[q].kept
  <2>1. Begin(r, kind, n, m, pc) /\ q # r
      BY <1>2, <1>4 DEF BinBegins, Workers
  <2> QED
      BY <1>1, <2>1, BeginsOthers
<1>5. CASE FindExpiredBatch
    BY <1>1, <1>2, <1>5, ExpiredFrame
<1> QED
    BY <1>1, <1>3, <1>4, <1>5, BinCases

LEMMA IsHomeStays ==
    ASSUME BinInv, BinMoves, NEW x, NEW h, IsHome(x, h)
    PROVE IsHome(x, h)'
<1>1. CASE \E q \in Workers : trashing[q].kind = "trash" /\ trashing[q].to = Top(h) /\ x = trashing[q].node[1]
  <2>1. PICK q \in Workers : trashing[q].kind = "trash" /\ trashing[q].to = Top(h) /\ x = trashing[q].node[1]
      BY <1>1
  <2>2. trashing'[q].kind = "trash" /\ trashing'[q].node = trashing[q].node /\ trashing'[q].to = trashing[q].to
      BY <2>1, TrashStays
  <2> QED
      BY <2>1, <2>2 DEF IsHome
<1> QED
    BY <1>1 DEF IsHome

\* A head stands for one path.
LEMMA HomeIsOne ==
    ASSUME RequestsFit, RequestsApart, NEW x, NEW y, NEW h \in Heads, IsHome(x, h), IsHome(y, h)
    PROVE x = y /\ (h \in Homes => x = h)
<1>1. ASSUME NEW q \in Workers, trashing[q].kind = "trash", trashing[q].to = Top(h)
      PROVE h \in BinPaths \ {FirstEntry}
    BY <1>1, NodeParts DEF RequestsFit
<1>2. h \in BinPaths => h \notin Homes
    BY BinAssumption
<1> QED
    BY <1>1, <1>2, BinAssumption DEF IsHome, RequestsApart

\* The only path a restore can be on its way to.
LEMMA RestoresHome ==
    ASSUME RequestsFit, EntriesMade, NEW r \in Workers, trashing[r].kind = "restore"
    PROVE IsHome(trashing[r].to[1], trashing[r].node[1])
    BY DEF EntriesMade

\* A head that loses content or rows still fits.
LEMMA StillFits ==
    ASSUME BinInv, BinMoves, NEW h \in Heads,
           \/ stored'[Top(h)] = stored[Top(h)] /\ stored'[In(h)] \in {stored[In(h)], Nothing}
           \/ stored'[In(h)] = Nothing /\ stored'[Top(h)] \in {stored[Top(h)], Nothing},
           \A p \in NodePlaces : indexed'[<<h, p>>] \in {indexed[<<h, p>>], Nothing}
    PROVE HeadFits(h)'
<1>1. HeadFits(h)
    BY DEF BinInv, HeadsFit
<1>2. ASSUME NEW p \in NodePlaces, stored'[<<h, p>>] # Nothing \/ indexed'[<<h, p>>] # Nothing
      PROVE \E x \in Homes : StandsFor(x, h, p)'
  <2>1. stored'[<<h, p>>] # Nothing => stored'[<<h, p>>] = stored[<<h, p>>]
      BY NodeParts DEF NodePlaces
  <2>2. indexed'[<<h, p>>] # Nothing => indexed'[<<h, p>>] = indexed[<<h, p>>]
      OBVIOUS
  <2>3. PICK x \in Homes : StandsFor(x, h, p)
      BY <1>1, <1>2, <2>1, <2>2 DEF HeadFits
  <2>4. IsHome(x, h)'
      BY <2>3, IsHomeStays DEF StandsFor
  <2> QED
      BY <2>1, <2>2, <2>3, <2>4 DEF StandsFor
<1>3. (stored'[In(h)] # Nothing => stored'[Top(h)] = Dir) /\ stored'[In(h)] # Dir
    BY <1>1, BinAssumption DEF HeadFits
<1> QED
    BY <1>2, <1>3 DEF HeadFits

\* The entry a request moves to holds nothing before.
LEMMA EntryIsNew ==
    ASSUME BinTypes, RequestsFit, RequestsApart, EntriesMade, NEW r \in Workers, trashing[r].kind = "trash", ~trashing[r].ok,
           NEW p \in NodePlaces
    PROVE /\ indexed[<<trashing[r].to[1], p>>] = Nothing
          /\ trashing[r].pc \in {"stat", "rename"} => stored[<<trashing[r].to[1], p>>] = Nothing
<1>1. PICK e \in BinPaths \ {FirstEntry} : trashing[r].to = Top(e)
    BY NodeParts DEF RequestsFit, Top
<1>2. \A q \in Workers : trashing[q].kind = "trash" /\ trashing[q].to = Top(e) => q = r
    BY <1>1 DEF RequestsApart
<1>3. trashing[r].to[1] = e
    BY <1>1, NodeParts DEF Top
<1> QED
    BY <1>2, <1>3 DEF EntriesMade

\* What a move brings together: a path of the user and an entry that stands for it.
LEMMA MoveEnds ==
    ASSUME RequestsFit, EntriesMade, NEW r \in Workers, trashing[r].kind \in {"trash", "restore"},
           NEW n \in Nodes, NEW m \in Nodes, n = trashing[r].node, m = trashing[r].to
    PROVE /\ trashing[r].kind = "trash" => /\ n \in Homes \X {"top"} /\ m \in (BinPaths \ {FirstEntry}) \X {"top"}
                                           /\ IsHome(n[1], m[1])
          /\ trashing[r].kind = "restore" => /\ n \in BinPaths \X NodePlaces /\ m \in Homes \X {n[2]}
                                             /\ IsHome(m[1], n[1])
          /\ n[1] # m[1] /\ m[2] = n[2] /\ n[1] \in Heads /\ m[1] \in Heads /\ n[2] \in NodePlaces
          /\ n = <<n[1], n[2]>> /\ m = <<m[1], m[2]>>
<1>1. CASE trashing[r].kind = "trash"
  <2>1. n \in Homes \X {"top"} /\ m \in (BinPaths \ {FirstEntry}) \X {"top"}
      BY <1>1 DEF RequestsFit
  <2>2. m = Top(m[1])
      BY <2>1 DEF Top
  <2>3. IsHome(n[1], m[1])
      BY <1>1, <2>1, <2>2 DEF IsHome
  <2> QED
      BY <1>1, <2>1, <2>3, BinAssumption, NodeParts
<1>2. CASE trashing[r].kind = "restore"
  <2>1. n \in BinPaths \X NodePlaces /\ m \in Homes \X {n[2]} /\ IsHome(m[1], n[1])
      BY <1>2, RestoresHome DEF RequestsFit
  <2> QED
      BY <1>2, <2>1, BinAssumption, NodeParts
<1> QED
    BY <1>1, <1>2

\* What there is after a rename.
LEMMA StoredAfter ==
    ASSUME NEW n \in Nodes, NEW m \in Nodes, n[1] # m[1], m[2] = n[2],
           stored' = Renamed(n, m), NEW h \in Heads, NEW p \in NodePlaces
    PROVE stored'[<<h, p>>] =
          IF h = m[1] /\ (p = m[2] \/ m[2] = "top") THEN stored[<<n[1], p>>]
          ELSE IF h = n[1] /\ (p = n[2] \/ n[2] = "top") THEN Nothing
          ELSE IF m[2] = "in" /\ h = m[1] /\ p = "top" THEN Dir ELSE stored[<<h, p>>]
<1> DEFINE k == <<h, p>>
<1>1. k \in Nodes
    BY DEF Nodes, NodePlaces
<1>2. /\ k \in Tree(m) <=> h = m[1] /\ (p = m[2] \/ m[2] = "top")
      /\ k \in Tree(n) <=> h = n[1] /\ (p = n[2] \/ n[2] = "top")
      /\ k = Top(m[1]) <=> h = m[1] /\ p = "top"
      /\ k \in Tree(m) => (IF k = m THEN n[2] ELSE "in") = p
  <2>1. m = <<m[1], m[2]>> /\ n = <<n[1], n[2]>> /\ m[2] \in NodePlaces /\ n[2] \in NodePlaces
      BY NodeParts
  <2> QED
      BY <2>1 DEF Tree, In, Top, NodePlaces
<1> HIDE DEF k
<1>3. stored'[k] = CASE k \in Tree(m) -> stored[<<n[1], IF k = m THEN n[2] ELSE "in">>]
                     [] k \in Tree(n) -> Nothing
                     [] m[2] = "in" /\ k = Top(m[1]) -> Dir
                     [] OTHER -> stored[k]
    BY <1>1 DEF Renamed
<1>4. k \in Tree(m) => <<n[1], IF k = m THEN n[2] ELSE "in">> = <<n[1], p>>
    BY <1>2
<1>5. ~(k \in Tree(m) /\ k \in Tree(n)) /\ ~(k \in Tree(m) /\ m[2] = "in" /\ k = Top(m[1]))
      /\ ~(k \in Tree(n) /\ k = Top(m[1]))
    BY <1>2
<1>6. CASE k \in Tree(m)
  <2>1. stored'[k] = stored[<<n[1], p>>]
      BY <1>3, <1>4, <1>5, <1>6
  <2> QED
      BY <1>2, <1>6, <2>1 DEF k
<1>7. CASE k \in Tree(n)
  <2>1. stored'[k] = Nothing
      BY <1>3, <1>5, <1>7
  <2> QED
      BY <1>2, <1>5, <1>7, <2>1 DEF k
<1>8. CASE k \notin Tree(m) /\ k \notin Tree(n)
  <2>1. stored'[k] = IF m[2] = "in" /\ k = Top(m[1]) THEN Dir ELSE stored[k]
      BY <1>3, <1>8
  <2> QED
      BY <1>2, <1>8, <2>1 DEF k
<1> QED
    BY <1>6, <1>7, <1>8

\* A rename brings to a head what the path it stands for held.
LEMMA MovedFits ==
    ASSUME BinInv, BinMoves, NEW r \in Workers, MoveRegularPath(r)
    PROVE \A h \in Heads : HeadFits(h)'
<1>0. PICK n \in Nodes, m \in Nodes : n = trashing[r].node /\ m = trashing[r].to
    BY DEF BinInv, BinTypes, BinState
<1>1. /\ BinTypes /\ RequestsFit /\ RequestsApart /\ HeadsFit /\ EntriesMade /\ indexed' = indexed
    BY DEF BinInv, BinTypes, BinState, MoveRegularPath
<1>2. CASE stored' = stored
    BY <1>1, <1>2, StillFits DEF HeadsFit
<1>3. CASE stored' # stored
  <2>1. /\ trashing[r].pc = "rename" /\ trashing[r].kind \in {"trash", "restore"} /\ ~trashing[r].ok
        /\ stored' = Renamed(n, m) /\ Found(n)
      BY <1>0, <1>1, <1>3 DEF MoveRegularPath, AtBin, RequestsFit
  <2>2. /\ trashing[r].kind = "trash" => n[1] \in Homes /\ IsHome(n[1], m[1])
        /\ trashing[r].kind = "restore" => m[1] \in Homes /\ IsHome(m[1], n[1])
      BY <1>0, <1>1, <2>1, MoveEnds
  <2>3. /\ n[1] # m[1] /\ m[2] = n[2] /\ n[1] \in Heads /\ m[1] \in Heads /\ n[2] \in NodePlaces
        /\ n = <<n[1], n[2]>> /\ m = <<m[1], m[2]>>
      BY <1>0, <1>1, <2>1, MoveEnds
  <2>4. \A h \in Heads, p \in NodePlaces :
           stored'[<<h, p>>] = IF h = m[1] /\ (p = m[2] \/ m[2] = "top") THEN stored[<<n[1], p>>]
                               ELSE IF h = n[1] /\ (p = n[2] \/ n[2] = "top") THEN Nothing
                               ELSE IF m[2] = "in" /\ h = m[1] /\ p = "top" THEN Dir ELSE stored[<<h, p>>]
      BY <2>1, <2>3, StoredAfter
  <2>5. ASSUME NEW h \in Heads, h # m[1] PROVE HeadFits(h)'
      BY <1>1, <2>3, <2>4, <2>5, StillFits DEF NodePlaces, Top, In
  <2>6. PICK x \in Homes : x \in {n[1], m[1]} /\ IsHome(x, n[1]) /\ IsHome(x, m[1])
      BY <2>1, <2>2 DEF IsHome
  <2>7. ASSUME NEW h \in Heads, NEW p \in NodePlaces, stored[<<h, p>>] # Nothing \/ indexed[<<h, p>>] # Nothing,
               IsHome(x, h)
        PROVE StandsFor(x, h, p)
    <3>1. PICK y \in Homes : StandsFor(y, h, p)
        BY <1>1, <2>7 DEF HeadsFit, HeadFits
    <3>2. y = x
        BY <1>1, <2>7, <3>1, HomeIsOne DEF StandsFor
    <3> QED
        BY <3>1, <3>2
  <2>8. IsHome(x, m[1])'
      BY <2>6, IsHomeStays
  <2>9. stored[n] # Nothing /\ HeadFits(n[1]) /\ HeadFits(m[1]) /\ (n[2] = "in" => x \in Folders)
    <3>1. stored[n] # Nothing
        BY <2>1 DEF Found
    <3> QED
        BY <1>1, <2>3, <2>6, <2>7, <3>1 DEF HeadsFit, StandsFor
  <2>10. ASSUME NEW p \in NodePlaces, stored'[<<m[1], p>>] # Nothing \/ indexed'[<<m[1], p>>] # Nothing
         PROVE StandsFor(x, m[1], p)'
    <3>1. CASE p = m[2] \/ m[2] = "top"
      <4>1. stored'[<<m[1], p>>] = stored[<<n[1], p>>]
          BY <2>3, <2>4, <3>1
      <4>2. stored[<<n[1], p>>] # Nothing => StandsFor(x, n[1], p)
          BY <2>3, <2>6, <2>7
      <4>3. indexed[<<m[1], p>>] # Nothing => StandsFor(x, m[1], p)
          BY <2>3, <2>6, <2>7
      <4> QED
          BY <1>1, <2>8, <2>10, <4>1, <4>2, <4>3 DEF StandsFor
    <3>2. CASE p = "top" /\ m[2] = "in"
      <4>1. stored'[<<m[1], p>>] = Dir
          BY <2>3, <2>4, <3>2
      <4>3. indexed[<<m[1], p>>] # Nothing => StandsFor(x, m[1], p)
          BY <2>3, <2>6, <2>7
      <4> QED
          BY <1>1, <2>3, <2>8, <2>9, <3>2, <4>1, <4>3 DEF StandsFor
    <3> QED
        BY <2>3, <3>1, <3>2 DEF NodePlaces
  <2>11. (stored'[In(m[1])] # Nothing => stored'[Top(m[1])] = Dir) /\ stored'[In(m[1])] # Dir
    <3>1. stored'[In(m[1])] = stored[In(n[1])]
        BY <2>3, <2>4 DEF In, NodePlaces
    <3>2. stored'[Top(m[1])] = IF m[2] = "in" THEN Dir ELSE stored[Top(n[1])]
        BY <2>3, <2>4 DEF Top, NodePlaces
    <3> QED
        BY <2>9, <3>1, <3>2 DEF HeadFits
  <2>12. HeadFits(m[1])'
      BY <2>10, <2>11 DEF HeadFits
  <2> QED
      BY <2>5, <2>12
<1> QED
    BY <1>2, <1>3

\* What the rows of a tree are after they have been moved.
LEMMA RowsAfter ==
    ASSUME NEW n \in Nodes, NEW m \in Nodes, n[1] # m[1], m[2] = n[2], NEW from \in BOOLEAN,
           indexed' = RowsMoved(n, m, from), NEW h \in Heads, NEW p \in NodePlaces
    PROVE indexed'[<<h, p>>] =
          IF h = m[1] /\ (p = m[2] \/ m[2] = "top") /\ indexed[<<n[1], p>>] # Nothing
          THEN [from |-> IF from THEN <<n[1], p>> ELSE Nothing]
          ELSE IF h = n[1] /\ (p = n[2] \/ n[2] = "top") THEN Nothing ELSE indexed[<<h, p>>]
<1> DEFINE k == <<h, p>>
<1>1. k \in Nodes
    BY DEF Nodes, NodePlaces
<1>2. /\ k \in Tree(m) <=> h = m[1] /\ (p = m[2] \/ m[2] = "top")
      /\ k \in Tree(n) <=> h = n[1] /\ (p = n[2] \/ n[2] = "top")
      /\ k \in Tree(m) => (IF k = m THEN n[2] ELSE "in") = p
  <2>1. m = <<m[1], m[2]>> /\ n = <<n[1], n[2]>> /\ m[2] \in NodePlaces /\ n[2] \in NodePlaces
      BY NodeParts
  <2> QED
      BY <2>1 DEF Tree, In, Top, NodePlaces
<1> HIDE DEF k
<1>3. k \in Tree(m) => <<n[1], IF k = m THEN n[2] ELSE "in">> = <<n[1], p>>
    BY <1>2
<1>4. indexed'[k] = CASE k \in Tree(m) /\ indexed[<<n[1], IF k = m THEN n[2] ELSE "in">>] # Nothing ->
                           [from |-> IF from THEN <<n[1], IF k = m THEN n[2] ELSE "in">> ELSE Nothing]
                      [] k \in Tree(n) -> Nothing
                      [] OTHER -> indexed[k]
    BY <1>1 DEF RowsMoved
<1>5. ~(k \in Tree(m) /\ k \in Tree(n))
    BY <1>2
<1>6. CASE k \in Tree(m) /\ indexed[<<n[1], p>>] # Nothing
  <2>1. indexed'[k] = [from |-> IF from THEN <<n[1], p>> ELSE Nothing]
      BY <1>3, <1>4, <1>5, <1>6
  <2> QED
      BY <1>2, <1>6, <2>1 DEF k
<1>7. CASE k \in Tree(n)
  <2>1. indexed'[k] = Nothing
      BY <1>4, <1>5, <1>7
  <2> QED
      BY <1>2, <1>5, <1>7, <2>1 DEF k
<1>8. CASE ~(k \in Tree(m) /\ indexed[<<n[1], p>>] # Nothing) /\ k \notin Tree(n)
  <2>1. indexed'[k] = indexed[k]
      BY <1>3, <1>4, <1>8
  <2> QED
      BY <1>2, <1>8, <2>1 DEF k
<1> QED
    BY <1>6, <1>7, <1>8

\* The rows of an entry say where it came from, those of a path of the user nothing.
LEMMA MovedRowsFit ==
    ASSUME BinInv, BinMoves, NEW r \in Workers, MoveRows(r)
    PROVE \A h \in Heads : HeadFits(h)'
<1>0. PICK n \in Nodes, m \in Nodes : n = trashing[r].node /\ m = trashing[r].to
    BY DEF BinInv, BinTypes, BinState
<1>1. /\ BinTypes /\ RequestsFit /\ RequestsApart /\ HeadsFit /\ EntriesMade /\ stored' = stored
    BY DEF BinInv, MoveRows
<1>2. CASE indexed' = indexed
    BY <1>1, <1>2, StillFits DEF HeadsFit
<1>3. CASE indexed' # indexed
  <2>1. /\ trashing[r].kind \in {"trash", "restore"}
        /\ indexed' = IF trashing[r].kind = "trash" THEN RowsMoved(n, m, TRUE) ELSE RowsMoved(n, m, FALSE)
      BY <1>0, <1>3 DEF MoveRows, TrashFile, RestoreFile
  <2>2. /\ trashing[r].kind = "trash" => n[1] \in Homes /\ m[1] \in BinPaths /\ IsHome(n[1], m[1])
        /\ trashing[r].kind = "restore" => m[1] \in Homes /\ IsHome(m[1], n[1])
      BY <1>0, <1>1, <2>1, MoveEnds
  <2>3. n[1] # m[1] /\ m[2] = n[2] /\ n[1] \in Heads /\ m[1] \in Heads /\ n[2] \in NodePlaces
      BY <1>0, <1>1, <2>1, MoveEnds
  <2>4. \A h \in Heads, p \in NodePlaces :
           indexed'[<<h, p>>] =
           IF h = m[1] /\ (p = m[2] \/ m[2] = "top") /\ indexed[<<n[1], p>>] # Nothing
           THEN [from |-> IF trashing[r].kind = "trash" THEN <<n[1], p>> ELSE Nothing]
           ELSE IF h = n[1] /\ (p = n[2] \/ n[2] = "top") THEN Nothing ELSE indexed[<<h, p>>]
    <3>1. CASE trashing[r].kind = "trash"
      <4>1. indexed' = RowsMoved(n, m, TRUE)
          BY <2>1, <3>1
      <4>2. \A h \in Heads, p \in NodePlaces :
               indexed'[<<h, p>>] =
               IF h = m[1] /\ (p = m[2] \/ m[2] = "top") /\ indexed[<<n[1], p>>] # Nothing
               THEN [from |-> IF TRUE THEN <<n[1], p>> ELSE Nothing]
               ELSE IF h = n[1] /\ (p = n[2] \/ n[2] = "top") THEN Nothing ELSE indexed[<<h, p>>]
          BY <2>3, <4>1, RowsAfter
      <4> QED
          BY <3>1, <4>2
    <3>2. CASE trashing[r].kind # "trash"
      <4>1. indexed' = RowsMoved(n, m, FALSE)
          BY <2>1, <3>2
      <4>2. \A h \in Heads, p \in NodePlaces :
               indexed'[<<h, p>>] =
               IF h = m[1] /\ (p = m[2] \/ m[2] = "top") /\ indexed[<<n[1], p>>] # Nothing
               THEN [from |-> IF FALSE THEN <<n[1], p>> ELSE Nothing]
               ELSE IF h = n[1] /\ (p = n[2] \/ n[2] = "top") THEN Nothing ELSE indexed[<<h, p>>]
          BY <2>3, <4>1, RowsAfter
      <4> QED
          BY <3>2, <4>2
    <3> QED
        BY <3>1, <3>2
  <2>5. ASSUME NEW h \in Heads, h # m[1] PROVE HeadFits(h)'
      BY <1>1, <2>3, <2>4, <2>5, StillFits
  <2>6. PICK x \in Homes : x \in {n[1], m[1]} /\ IsHome(x, n[1]) /\ IsHome(x, m[1])
                           /\ (trashing[r].kind = "trash" => x = n[1] /\ m[1] \notin Homes)
                           /\ (trashing[r].kind = "restore" => m[1] \in Homes)
      BY <2>1, <2>2, BinAssumption DEF IsHome
  <2>7. ASSUME NEW h \in Heads, NEW p \in NodePlaces, stored[<<h, p>>] # Nothing \/ indexed[<<h, p>>] # Nothing,
               IsHome(x, h)
        PROVE StandsFor(x, h, p)
    <3>1. PICK y \in Homes : StandsFor(y, h, p)
        BY <1>1, <2>7 DEF HeadsFit, HeadFits
    <3>2. y = x
        BY <1>1, <2>7, <3>1, HomeIsOne DEF StandsFor
    <3> QED
        BY <3>1, <3>2
  <2>8. IsHome(x, m[1])'
      BY <2>6, IsHomeStays
  <2>9. ASSUME NEW p \in NodePlaces, stored'[<<m[1], p>>] # Nothing \/ indexed'[<<m[1], p>>] # Nothing
        PROVE StandsFor(x, m[1], p)'
    <3>1. stored[<<m[1], p>>] # Nothing \/ indexed[<<m[1], p>>] # Nothing => StandsFor(x, m[1], p)
        BY <2>3, <2>6, <2>7
    <3>2. indexed[<<n[1], p>>] # Nothing => StandsFor(x, n[1], p)
        BY <2>3, <2>6, <2>7
    <3>3. CASE (p = m[2] \/ m[2] = "top") /\ indexed[<<n[1], p>>] # Nothing
      <4>1. indexed'[<<m[1], p>>] = [from |-> IF trashing[r].kind = "trash" THEN <<n[1], p>> ELSE Nothing]
          BY <2>3, <2>4, <3>3
      <4>2. indexed'[<<m[1], p>>].from = IF trashing[r].kind = "trash" THEN <<n[1], p>> ELSE Nothing
          BY <4>1
      <4>3. indexed'[<<m[1], p>>].from = IF m[1] \in Homes THEN Nothing ELSE <<x, p>>
          BY <2>1, <2>6, <4>2
      <4> QED
          BY <1>1, <2>8, <3>1, <3>2, <3>3, <4>3 DEF StandsFor
    <3>4. CASE ~((p = m[2] \/ m[2] = "top") /\ indexed[<<n[1], p>>] # Nothing)
      <4>1. indexed'[<<m[1], p>>] = indexed[<<m[1], p>>]
          BY <2>3, <2>4, <3>4
      <4> QED
          BY <1>1, <2>8, <2>9, <3>1, <4>1 DEF StandsFor
    <3> QED
        BY <3>3, <3>4
  <2>10. HeadFits(m[1])
      BY <1>1, <2>3 DEF HeadsFit
  <2>11. HeadFits(m[1])'
      BY <1>1, <2>9, <2>10 DEF HeadFits
  <2> QED
      BY <2>5, <2>11
<1> QED
    BY <1>2, <1>3

LEMMA WrittenFits ==
    ASSUME BinInv, BinMoves, NEW r \in Workers, StoreBin(r) \/ RowBin(r)
    PROVE \A h \in Heads : HeadFits(h)'
<1>0. PICK n \in Nodes : n = trashing[r].node
    BY DEF BinInv, BinTypes, BinState
<1>1. /\ BinTypes /\ RequestsFit /\ RequestsApart /\ HeadsFit
      /\ r \notin {Nothing, Dir} /\ n = <<n[1], n[2]>> /\ n[1] \in Heads /\ n[2] \in NodePlaces
    BY BinAssumption, NodeParts DEF BinInv
<1>2. /\ trashing[r].kind \in {"write", "mkdir"} /\ n[1] \in Homes
      /\ n[2] = (IF trashing[r].kind = "write" /\ n[1] \in Folders THEN "in" ELSE "top")
      /\ trashing[r].kind = "mkdir" => n[1] \in Folders
    BY <1>0, <1>1 DEF StoreBin, RowBin, AtBin, RequestsFit
<1>3. IsHome(n[1], n[1]) /\ IsHome(n[1], n[1])'
    BY <1>2 DEF IsHome
<1>4. ASSUME NEW p \in NodePlaces, stored[<<n[1], p>>] # Nothing \/ indexed[<<n[1], p>>] # Nothing
      PROVE StandsFor(n[1], n[1], p)
  <2>1. PICK x \in Homes : StandsFor(x, n[1], p)
      BY <1>1, <1>4 DEF HeadsFit, HeadFits
  <2>2. x = n[1]
      BY <1>1, <1>3, <2>1, HomeIsOne DEF StandsFor
  <2> QED
      BY <2>1, <2>2
<1>5. HeadFits(n[1])
    BY <1>1 DEF HeadsFit
<1>6. CASE stored' = stored /\ indexed' = indexed
    BY <1>6, StillFits
<1>7. CASE StoreBin(r) /\ stored' # stored
  <2>1. /\ indexed' = indexed
        /\ stored' = [k \in Nodes |-> IF k = n THEN IF trashing[r].kind = "mkdir" THEN Dir ELSE r
                                      ELSE IF k = Top(n[1]) THEN Dir ELSE stored[k]]
      BY <1>0, <1>7 DEF StoreBin
  <2>2. \A h \in Heads, p \in NodePlaces : <<h, p>> \in Nodes /\ (<<h, p>> = n <=> h = n[1] /\ p = n[2])
                                           /\ (<<h, p>> = Top(n[1]) <=> h = n[1] /\ p = "top")
      BY <1>1 DEF Nodes, NodePlaces, Top
  <2>3. ASSUME NEW h \in Heads, NEW p \in NodePlaces
        PROVE stored'[<<h, p>>] = IF h = n[1] /\ p = n[2] THEN IF trashing[r].kind = "mkdir" THEN Dir ELSE r
                                  ELSE IF h = n[1] /\ p = "top" THEN Dir ELSE stored[<<h, p>>]
    <3>1. stored'[<<h, p>>] = IF <<h, p>> = n THEN IF trashing[r].kind = "mkdir" THEN Dir ELSE r
                              ELSE IF <<h, p>> = Top(n[1]) THEN Dir ELSE stored[<<h, p>>]
        BY <2>1, <2>2
    <3> QED
        BY <2>2, <3>1
  <2>4. ASSUME NEW h \in Heads, h # n[1] PROVE HeadFits(h)'
      BY <2>1, <2>3, <2>4, StillFits DEF NodePlaces, Top, In
  <2>5. ASSUME NEW p \in NodePlaces, stored'[<<n[1], p>>] # Nothing \/ indexed'[<<n[1], p>>] # Nothing
        PROVE StandsFor(n[1], n[1], p)'
    <3>1. stored'[<<n[1], p>>] # stored[<<n[1], p>>] =>
             /\ p = "in" => n[1] \in Folders
             /\ p = "top" => (stored'[<<n[1], p>>] = Dir <=> n[1] \in Folders)
        BY <1>1, <1>2, <2>3 DEF NodePlaces
    <3>2. /\ p = "in" => n[1] \in Folders
          /\ indexed'[<<n[1], p>>] # Nothing => indexed'[<<n[1], p>>].from = Nothing
          /\ p = "top" /\ stored'[<<n[1], p>>] # Nothing => (stored'[<<n[1], p>>] = Dir <=> n[1] \in Folders)
      <4>1. stored[<<n[1], p>>] # Nothing \/ indexed[<<n[1], p>>] # Nothing => StandsFor(n[1], n[1], p)
          BY <1>4
      <4>2. CASE stored'[<<n[1], p>>] # stored[<<n[1], p>>]
          BY <1>2, <2>1, <3>1, <4>1, <4>2 DEF StandsFor
      <4>3. CASE stored'[<<n[1], p>>] = stored[<<n[1], p>>]
          BY <1>2, <2>1, <2>5, <4>1, <4>3 DEF StandsFor
      <4> QED
          BY <4>2, <4>3
    <3> QED
        BY <1>2, <1>3, <3>2 DEF StandsFor
  <2>6. (stored'[In(n[1])] # Nothing => stored'[Top(n[1])] = Dir) /\ stored'[In(n[1])] # Dir
    <3>1. stored'[In(n[1])] = IF n[2] = "in" THEN IF trashing[r].kind = "mkdir" THEN Dir ELSE r ELSE stored[In(n[1])]
        BY <1>1, <2>3 DEF In, NodePlaces
    <3>2. stored'[Top(n[1])] = IF n[2] = "top" THEN IF trashing[r].kind = "mkdir" THEN Dir ELSE r ELSE Dir
        BY <1>1, <2>3 DEF Top, NodePlaces
    <3>3. stored[In(n[1])] # Nothing => n[1] \in Folders
        BY <1>4 DEF In, NodePlaces, StandsFor
    <3> QED
        BY <1>1, <1>2, <1>5, <3>1, <3>2, <3>3 DEF HeadFits
  <2>7. HeadFits(n[1])'
      BY <1>2, <2>5, <2>6 DEF HeadFits
  <2> QED
      BY <2>4, <2>7
<1>8. CASE RowBin(r) /\ indexed' # indexed
  <2>1. /\ stored' = stored /\ indexed' = [indexed EXCEPT ![n] = [from |-> Nothing]]
      BY <1>0, <1>8 DEF RowBin
  <2>2. ASSUME NEW h \in Heads, NEW p \in NodePlaces
        PROVE indexed'[<<h, p>>] = IF h = n[1] /\ p = n[2] THEN [from |-> Nothing] ELSE indexed[<<h, p>>]
    <3>1. <<h, p>> \in Nodes /\ (<<h, p>> = n <=> h = n[1] /\ p = n[2])
        BY <1>1 DEF Nodes, NodePlaces
    <3> QED
        BY <1>1, <2>1, <3>1 DEF BinTypes
  <2>3. ASSUME NEW h \in Heads, h # n[1] PROVE HeadFits(h)'
      BY <2>1, <2>2, <2>3, StillFits
  <2>4. ASSUME NEW p \in NodePlaces, stored'[<<n[1], p>>] # Nothing \/ indexed'[<<n[1], p>>] # Nothing
        PROVE StandsFor(n[1], n[1], p)'
    <3>1. stored[<<n[1], p>>] # Nothing \/ indexed[<<n[1], p>>] # Nothing => StandsFor(n[1], n[1], p)
        BY <1>4
    <3>2. CASE p = n[2]
      <4>1. indexed'[<<n[1], p>>].from = Nothing
          BY <1>1, <2>2, <3>2
      <4> QED
          BY <1>2, <1>3, <2>1, <3>1, <3>2, <4>1 DEF StandsFor
    <3>3. CASE p # n[2]
      <4>1. indexed'[<<n[1], p>>] = indexed[<<n[1], p>>]
          BY <1>1, <2>2, <3>3
      <4> QED
          BY <1>3, <2>1, <2>4, <3>1, <4>1 DEF StandsFor
    <3> QED
        BY <3>2, <3>3
  <2>5. HeadFits(n[1])'
      BY <1>2, <1>5, <2>1, <2>4 DEF HeadFits
  <2> QED
      BY <2>3, <2>5
<1> QED
    BY <1>6, <1>7, <1>8 DEF StoreBin, RowBin

LEMMA HeadsFitStep == BinInv /\ BinMoves => HeadsFit'
<1> SUFFICES ASSUME BinInv, BinMoves PROVE \A h \in Heads : HeadFits(h)'
    BY DEF HeadsFit
<1>1. BinTypes
    BY DEF BinInv
<1>2. ASSUME NEW r \in Workers, BinWork(r) PROVE \A h \in Heads : HeadFits(h)'
  <2>1. CASE MoveRegularPath(r) \/ MoveRows(r) \/ StoreBin(r) \/ RowBin(r)
      BY <2>1, MovedFits, MovedRowsFit, WrittenFits
  <2>2. CASE StatBin(r)
      BY <2>2, StillFits DEF StatBin
  <2>3. CASE RemoveInside(r) \/ RemoveTop(r)
    <3>1. PICK n \in Nodes : n = trashing[r].node
        BY <1>1 DEF BinTypes, BinState
    <3>2. indexed' = indexed /\ \/ stored' = stored
                                \/ stored' = [stored EXCEPT ![In(n[1])] = Nothing]
                                \/ stored' = [stored EXCEPT ![n] = Nothing] /\ (n[2] = "top" => stored[In(n[1])] = Nothing)
        BY <2>3, <3>1 DEF RemoveInside, RemoveTop, Found
    <3>3. ASSUME NEW h \in Heads
          PROVE \/ stored'[Top(h)] = stored[Top(h)] /\ stored'[In(h)] \in {stored[In(h)], Nothing}
                \/ stored'[In(h)] = Nothing /\ stored'[Top(h)] \in {stored[Top(h)], Nothing}
      <4>1. n = <<n[1], n[2]>> /\ n[2] \in NodePlaces /\ Top(h) \in Nodes /\ In(h) \in Nodes
            /\ Top(h) = <<h, "top">> /\ In(h) = <<h, "in">> /\ In(n[1]) = <<n[1], "in">>
          BY NodeParts
      <4>2. stored \in [Nodes -> BinContents]
          BY <1>1 DEF BinTypes
      <4>3. CASE stored' = [stored EXCEPT ![n] = Nothing] /\ (n[2] = "top" => stored[In(n[1])] = Nothing)
        <5>1. stored'[Top(h)] = IF Top(h) = n THEN Nothing ELSE stored[Top(h)]
            BY <4>1, <4>2, <4>3
        <5>2. stored'[In(h)] = IF In(h) = n THEN Nothing ELSE stored[In(h)]
            BY <4>1, <4>2, <4>3
        <5>3. Top(h) = n => In(h) = In(n[1]) /\ n[2] = "top" /\ In(h) # n
            BY <4>1
        <5> QED
            BY <4>3, <5>1, <5>2, <5>3
      <4> QED
          BY <3>2, <4>1, <4>2, <4>3
    <3> QED
        BY <3>2, <3>3, StillFits
  <2>4. CASE DeleteRows(r)
    <3>1. stored' = stored /\ \A k \in Nodes : indexed'[k] \in {indexed[k], Nothing}
        BY <2>4 DEF DeleteRows
    <3>2. \A h \in Heads, p \in NodePlaces : <<h, p>> \in Nodes
        BY DEF Nodes, NodePlaces
    <3> QED
        BY <3>1, <3>2, StillFits
  <2> QED
      BY <1>2, <2>1, <2>2, <2>3, <2>4 DEF BinWork
<1>3. ASSUME UNCHANGED <<stored, indexed>> PROVE \A h \in Heads : HeadFits(h)'
    BY <1>3, StillFits
<1> QED
    BY <1>1, <1>2, <1>3, BinCases, Beginning, ExpiredFrame DEF BinBegins

\* An entry gets content and rows only from the request that moves something to it.
LEMMA EntryGains ==
    ASSUME BinInv, NEW r \in Workers, BinWork(r), NEW e \in BinPaths, NEW p \in NodePlaces
    PROVE /\ stored[<<e, p>>] = Nothing /\ stored'[<<e, p>>] # Nothing =>
                MoveRegularPath(r) /\ trashing[r].kind = "trash" /\ trashing[r].to = Top(e)
          /\ indexed[<<e, p>>] = Nothing /\ indexed'[<<e, p>>] # Nothing =>
                MoveRows(r) /\ trashing'[r].ok /\ trashing[r].kind = "trash" /\ trashing[r].to = Top(e)
<1>0. PICK n \in Nodes, m \in Nodes : n = trashing[r].node /\ m = trashing[r].to
    BY DEF BinInv, BinTypes, BinState
<1>1. BinTypes /\ RequestsFit /\ <<e, p>> \in Nodes /\ e \in Heads /\ e \notin Homes /\ <<e, p>>[1] = e
    BY BinAssumption DEF BinInv, Heads, Nodes, NodePlaces
<1>2. CASE MoveRegularPath(r)
  <2>1. indexed' = indexed /\ trashing[r].kind \in {"trash", "restore"}
      BY <1>1, <1>2 DEF MoveRegularPath, AtBin, RequestsFit
  <2>2. CASE stored' = Renamed(n, m)
    <3>1. <<e, p>> \notin Tree(m) /\ <<e, p>> # Top(m[1]) => stored'[<<e, p>>] \in {Nothing, stored[<<e, p>>]}
        BY <1>1, <2>2 DEF Renamed
    <3>2. <<e, p>> \in Tree(m) \/ <<e, p>> = Top(m[1]) => m[1] = e
        BY <1>1, NodeParts DEF Top
    <3>3. trashing[r].kind = "restore" => m[1] \in Homes
        BY <1>0, <1>1 DEF RequestsFit
    <3>4. trashing[r].kind = "trash" => m = Top(m[1])
        BY <1>0, <1>1 DEF RequestsFit, Top
    <3> QED
        BY <1>0, <1>1, <1>2, <2>1, <3>1, <3>2, <3>3, <3>4
  <2>3. CASE stored' = stored
      BY <2>1, <2>3
  <2> QED
      BY <1>0, <1>2, <2>2, <2>3 DEF MoveRegularPath
<1>3. CASE MoveRows(r)
  <2>1. stored' = stored /\ trashing[r].kind \in {"trash", "restore"}
      BY <1>3 DEF MoveRows
  <2>2. CASE EndBin(r) /\ \E from \in BOOLEAN : indexed' = RowsMoved(n, m, from)
    <3>1. PICK from \in BOOLEAN : indexed' = RowsMoved(n, m, from)
        BY <2>2
    <3>2. <<e, p>> \notin Tree(m) => indexed'[<<e, p>>] \in {Nothing, indexed[<<e, p>>]}
        BY <1>1, <3>1 DEF RowsMoved
    <3>3. <<e, p>> \in Tree(m) => m[1] = e
        BY <1>1, NodeParts
    <3>4. trashing[r].kind = "restore" => m[1] \in Homes
        BY <1>0, <1>1 DEF RequestsFit
    <3>5. trashing[r].kind = "trash" => m = Top(m[1])
        BY <1>0, <1>1 DEF RequestsFit, Top
    <3>6. trashing'[r].ok
        BY <1>1, <2>2 DEF EndBin, BinTypes, BinState
    <3> QED
        BY <1>0, <1>1, <1>3, <2>1, <3>2, <3>3, <3>4, <3>5, <3>6
  <2>3. CASE indexed' = indexed
      BY <2>1, <2>3
  <2> QED
      BY <1>0, <1>3, <2>2, <2>3 DEF MoveRows, TrashFile, RestoreFile
<1>4. CASE StoreBin(r) \/ RowBin(r)
  <2>1. n[1] \in Homes
      BY <1>0, <1>1, <1>4 DEF StoreBin, RowBin, AtBin, RequestsFit
  <2>2. <<e, p>> # n /\ <<e, p>> # Top(n[1])
      BY <1>1, <2>1, NodeParts DEF Top
  <2> QED
      BY <1>0, <1>1, <1>4, <2>2 DEF StoreBin, RowBin, BinTypes
<1>5. CASE StatBin(r) \/ RemoveInside(r) \/ RemoveTop(r) \/ DeleteRows(r)
    BY <1>1, <1>5 DEF StatBin, RemoveInside, RemoveTop, DeleteRows, BinTypes
<1> QED
    BY <1>2, <1>3, <1>4, <1>5 DEF BinWork

LEMMA EntriesMadeStep == BinInv /\ BinMoves => EntriesMade'
<1> SUFFICES ASSUME BinInv, BinMoves PROVE EntriesMade'
    OBVIOUS
<1>1. BinTypes /\ RequestsFit /\ HeadsFit /\ EntriesMade
    BY DEF BinInv
<1>2. ASSUME NEW e \in BinPaths \ {FirstEntry}, NEW p \in NodePlaces, indexed'[<<e, p>>] # Nothing
      PROVE \E q \in Workers : trashing'[q].kind = "trash" /\ trashing'[q].ok /\ trashing'[q].to = Top(e)
  <2>1. CASE indexed[<<e, p>>] # Nothing
    <3>1. PICK q \in Workers : trashing[q].kind = "trash" /\ trashing[q].ok /\ trashing[q].to = Top(e)
        BY <1>1, <2>1 DEF EntriesMade
    <3> QED
        BY <3>1, TrashStays
  <2>2. CASE indexed[<<e, p>>] = Nothing
    <3>1. PICK r \in Workers : BinWork(r)
        BY <1>1, <1>2, <2>2, BinCases, Beginning, ExpiredFrame DEF BinBegins
    <3>2. trashing'[r].ok /\ trashing[r].kind = "trash" /\ trashing[r].to = Top(e)
        BY <1>2, <2>2, <3>1, EntryGains
    <3> QED
        BY <3>2, TrashStays
  <2> QED
      BY <2>1, <2>2
<1>3. ASSUME NEW e \in BinPaths \ {FirstEntry}, NEW p \in NodePlaces, stored'[<<e, p>>] # Nothing
      PROVE \E q \in Workers : trashing'[q].kind = "trash" /\ trashing'[q].pc \notin {"stat", "rename"} /\ trashing'[q].to = Top(e)
  <2>1. CASE stored[<<e, p>>] # Nothing
    <3>1. PICK q \in Workers : trashing[q].kind = "trash" /\ trashing[q].pc \notin {"stat", "rename"} /\ trashing[q].to = Top(e)
        BY <1>1, <2>1 DEF EntriesMade
    <3> QED
        BY <3>1, TrashStays
  <2>2. CASE stored[<<e, p>>] = Nothing
    <3>1. PICK r \in Workers : BinWork(r)
        BY <1>1, <1>3, <2>2, BinCases, Beginning, ExpiredFrame DEF BinBegins
    <3>2. MoveRegularPath(r) /\ trashing[r].kind = "trash" /\ trashing[r].to = Top(e)
        BY <1>3, <2>2, <3>1, EntryGains
    <3>3. trashing[r].pc = "rename"
        BY <3>2 DEF MoveRegularPath, AtBin
    <3>4. trashing'[r].pc \notin {"stat", "rename"}
        BY <1>1, <3>1, <3>2, <3>3 DEF MoveRegularPath, GoBin, BinTypes, BinState
    <3> QED
        BY <3>2, <3>4, TrashStays
  <2> QED
      BY <2>1, <2>2
<1>4. ASSUME NEW q \in Workers, trashing'[q].kind = "restore" PROVE IsHome(trashing[q].to[1], trashing[q].node[1])'
  <2>1. ASSUME trashing[q].kind = "restore", trashing'[q].to = trashing[q].to, trashing'[q].node = trashing[q].node
        PROVE IsHome(trashing[q].to[1], trashing[q].node[1])'
    <3>1. PICK x, h : x = trashing[q].to[1] /\ h = trashing[q].node[1]
        OBVIOUS
    <3>2. IsHome(x, h)
        BY <1>1, <2>1, <3>1 DEF EntriesMade
    <3>3. IsHome(x, h)'
        BY <3>2, IsHomeStays
    <3> QED
        BY <2>1, <3>1, <3>3
  <2>2. ASSUME NEW r \in Workers, BinWork(r) PROVE IsHome(trashing[q].to[1], trashing[q].node[1])'
    <3>1. trashing'[q].kind = trashing[q].kind /\ trashing'[q].to = trashing[q].to /\ trashing'[q].node = trashing[q].node
        BY <1>1, <2>2, WorkProgress
    <3> QED
        BY <1>4, <2>1, <3>1
  <2>3. ASSUME NEW r \in Workers, NEW kind \in BinKinds, NEW n \in Nodes, NEW m \in Nodes,
               NEW pc \in {"stat", "rename", "store"}, BinBegins(r, kind, n, m, pc)
        PROVE IsHome(trashing[q].to[1], trashing[q].node[1])'
    <3>1. Begin(r, kind, n, m, pc)
        BY <2>3 DEF BinBegins
    <3>2. CASE q = r
      <4>1. kind = "restore" /\ trashing'[q].node = n /\ trashing'[q].to = m
          BY <1>1, <1>4, <3>1, <3>2, BeganAs
      <4>2. PICK x \in Homes : IsHome(x, n[1]) /\ m = <<x, n[2]>>
          BY <1>1, <2>3, <4>1, FromHome DEF BinBegins
      <4>3. IsHome(x, n[1])'
          BY <4>2, IsHomeStays
      <4>4. m[1] = x
          BY <4>2
      <4> QED
          BY <4>1, <4>3, <4>4
    <3>3. CASE q # r
        BY <1>1, <1>4, <2>1, <3>1, <3>3, BeginsOthers
    <3> QED
        BY <3>2, <3>3
  <2>4. CASE FindExpiredBatch
      BY <1>1, <1>4, <2>1, <2>4, ExpiredFrame
  <2> QED
      BY <1>1, <2>2, <2>3, <2>4, BinCases
<1> QED
    BY <1>2, <1>3, <1>4 DEF EntriesMade

-----------------------------------------------------------------------------
(* What is kept                                                             *)

LEMMA NamedStays == BinInv /\ BinMoves => named \in SUBSET named'
    BY BinCases, WorkProgress, Beginning, ExpiredFrame DEF BinInv, BinBegins

\* Who has not moved the entry he named had not moved it before.
LEMMA StillWaiting ==
    ASSUME BinInv, BinMoves, NEW q \in Workers, NEW h \in Heads, <<h, q>> \in named, Waiting(q)'
    PROVE Waiting(q) /\ ~BinWork(q)
<1>1. BinTypes /\ RequestsFit
    BY DEF BinInv
<1>2. trashing[q].pc # "new" /\ trashing'[q].kind = "restore" /\ trashing'[q].pc = "rename"
    BY <1>1 DEF RequestsFit, Waiting
<1>3. ~BinWork(q)
    BY <1>1, <1>2, WorkProgress
<1>4. ASSUME NEW r \in Workers, BinWork(r) PROVE Waiting(q)
    BY <1>1, <1>2, <1>3, <1>4, WorkProgress DEF Waiting
<1>5. ASSUME NEW r \in Workers, NEW kind \in BinKinds, NEW n \in Nodes, NEW m \in Nodes,
             NEW pc \in {"stat", "rename", "store"}, BinBegins(r, kind, n, m, pc)
      PROVE Waiting(q)
  <2>1. Begin(r, kind, n, m, pc) /\ (r \in BinRequests => trashing[r].pc = "new") /\ (r = BinCleaner => kind = "expire")
      BY <1>5 DEF BinBegins
  <2>2. q # r
    <3>1. trashing'[r].kind = kind
        BY <1>1, <2>1, BeganAs
    <3> QED
        BY <1>2, <2>1, <3>1 DEF Workers
  <2> QED
      BY <1>1, <1>2, <2>1, <2>2, BeginsOthers DEF Waiting
<1>6. CASE FindExpiredBatch
  <2>1. q # BinCleaner
      BY <1>1, <1>2, <1>6, ExpiredFrame
  <2>2. trashing'[q] = trashing[q]
      BY <1>1, <1>6, <2>1, ExpiredFrame
  <2> QED
      BY <1>2, <1>3, <2>2 DEF Waiting
<1> QED
    BY <1>1, <1>3, <1>4, <1>5, <1>6, BinCases

\* A request that has moved its path remembers what was there.
LEMMA MovedKept ==
    ASSUME BinInv, NEW r \in Workers, BinWork(r), trashing'[r].pc = "rows", trashing[r].kind \in {"trash", "restore"},
           NEW n \in Nodes, NEW m \in Nodes, n = trashing[r].node, m = trashing[r].to
    PROVE /\ MoveRegularPath(r) /\ trashing[r].pc = "rename" /\ stored' = Renamed(n, m)
          /\ \A p \in NodePlaces : trashing'[r].kept[p] = stored[<<n[1], p>>]
<1>1. BinTypes /\ RequestsFit /\ trashing[r] \in BinState
    BY DEF BinInv, BinTypes
<1>2. trashing[r].pc \in {"rename", "remove"}
    BY <1>1, WorkProgress
<1>3. trashing[r].pc = "rename"
    BY <1>1, <1>2 DEF RequestsFit
<1>4. MoveRegularPath(r)
    BY <1>3 DEF BinWork, StatBin, MoveRows, RemoveInside, RemoveTop, DeleteRows, StoreBin, RowBin, AtBin
<1>5. ~GoBin(r, "end")
    BY <1>1 DEF GoBin, BinTypes, BinState
<1>6. /\ stored' = Renamed(n, m)
      /\ trashing' = [trashing EXCEPT ![r].pc = "rows", ![r].kept = [p \in {"top", "in"} |-> stored[<<n[1], p>>]]]
    BY <1>4, <1>5 DEF MoveRegularPath
<1> DEFINE both == [p \in {"top", "in"} |-> stored[<<n[1], p>>]]
<1>7. \A p \in NodePlaces : both[p] = stored[<<n[1], p>>]
    BY DEF NodePlaces
<1> HIDE DEF both
<1>8. trashing'[r].kept = both
  <2>1. trashing' = [trashing EXCEPT ![r].pc = "rows", ![r].kept = both]
      BY <1>6 DEF both
  <2>2. trashing'[r] = [trashing[r] EXCEPT !.pc = "rows", !.kept = both]
      BY <1>1, <2>1 DEF BinTypes
  <2> QED
      BY <1>1, <2>2 DEF BinState
<1> QED
    BY <1>3, <1>4, <1>6, <1>7, <1>8

LEMMA EntriesKeptStep == BinInv /\ BinMoves => EntriesKept'
<1> SUFFICES ASSUME BinInv, BinMoves, NEW r \in Workers, NEW p \in NodePlaces, Trash(r)',
                    \A q \in Workers : <<trashing'[r].to[1], q>> \in named' => Waiting(q)'
             PROVE stored'[<<trashing'[r].to[1], p>>] = trashing'[r].kept[p]
    BY DEF EntriesKept
<1>1. BinTypes /\ RequestsFit /\ RequestsApart /\ EntriesMade /\ EntriesKept /\ trashing[r] \in BinState
    BY DEF BinInv, BinTypes
<1>2. CASE Trash(r)
  <2>1. trashing[r].kind = "trash" /\ trashing[r].pc \in {"rows", "end"}
      BY <1>1, <1>2 DEF Trash, RequestsFit
  <2>2. trashing'[r].to = trashing[r].to /\ trashing'[r].kept = trashing[r].kept
      BY <2>1, TrashStays
  <2>3. PICK e \in BinPaths \ {FirstEntry} : trashing[r].to = Top(e) /\ trashing[r].to[1] = e
      BY <1>1, <2>1, NodeParts DEF RequestsFit, Top
  <2>4. e \in Heads /\ e \notin Homes /\ <<e, p>> \in Nodes /\ <<e, p>>[1] = e
      BY BinAssumption DEF Heads, Nodes, NodePlaces
  <2>5. ASSUME NEW q \in Workers, <<e, q>> \in named PROVE Waiting(q) /\ ~BinWork(q)
      BY <2>2, <2>3, <2>4, <2>5, NamedStays, StillWaiting
  <2>6. stored[<<e, p>>] = trashing[r].kept[p]
      BY <1>1, <1>2, <2>3, <2>5 DEF EntriesKept
  <2>7. ASSUME NEW w \in Workers, BinWork(w) PROVE stored'[<<e, p>>] = stored[<<e, p>>]
    <3>1. CASE e \notin HeadsOf(trashing[w])
        BY <1>1, <2>4, <2>7, <3>1, WorkHeads
    <3>2. CASE e \in HeadsOf(trashing[w])
      <4>1. Busy(w) /\ <<e, w>> \notin named
          BY <1>1, <2>5, <2>7, WorkProgress
      <4>2. trashing[w].kind = "trash"
          BY <1>1, <3>2, <4>1 DEF RequestsFit
      <4>3. trashing[w].to = Top(e)
          BY <1>1, <2>4, <3>2, <4>2, NodeParts DEF RequestsFit, HeadsOf, Top
      <4>4. w = r
          BY <1>1, <2>1, <2>3, <4>2, <4>3 DEF RequestsApart
      <4> QED
          BY <1>1, <2>1, <2>7, <4>4, WorkHeads
    <3> QED
        BY <3>1, <3>2
  <2>8. stored'[<<e, p>>] = stored[<<e, p>>]
      BY <1>1, <2>7, BinCases, Beginning, ExpiredFrame DEF BinBegins
  <2> QED
      BY <2>2, <2>3, <2>6, <2>8
<1>3. CASE ~Trash(r)
  <2>1. trashing'[r].kind = "trash" /\ (trashing'[r].pc = "rows" \/ trashing'[r].ok)
      BY DEF Trash
  <2>2. BinWork(r)
    <3>1. ASSUME NEW w \in Workers, BinWork(w), w # r PROVE FALSE
        BY <1>1, <1>3, <2>1, <3>1, WorkProgress DEF Trash
    <3>2. ASSUME NEW w \in Workers, NEW kind \in BinKinds, NEW n \in Nodes, NEW m \in Nodes,
                 NEW pc \in {"stat", "rename", "store"}, BinBegins(w, kind, n, m, pc)
          PROVE FALSE
      <4>1. Begin(w, kind, n, m, pc)
          BY <3>2 DEF BinBegins
      <4>2. CASE w = r
          BY <1>1, <2>1, <4>1, <4>2, BeganAs
      <4>3. CASE w # r
          BY <1>1, <1>3, <2>1, <4>1, <4>3, BeginsOthers DEF Trash
      <4> QED
          BY <4>2, <4>3
    <3>3. CASE FindExpiredBatch
        BY <1>1, <1>3, <2>1, <3>3, ExpiredFrame DEF Trash
    <3> QED
        BY <1>1, <3>1, <3>2, <3>3, BinCases
  <2>3. trashing[r].kind = "trash" /\ trashing'[r].to = trashing[r].to
      BY <1>1, <2>1, <2>2, WorkProgress
  <2>4. trashing'[r].pc = "rows"
    <3>1. trashing[r].pc \in {"rows", "row"} \/ trashing'[r].ok = trashing[r].ok
        BY <1>1, <2>2, WorkProgress
    <3> QED
        BY <1>1, <1>3, <2>1, <2>3, <3>1 DEF RequestsFit, Trash
  <2>5. PICK n \in Nodes, m \in Nodes : n = trashing[r].node /\ m = trashing[r].to
      BY <1>1 DEF BinState
  <2>6. stored' = Renamed(n, m) /\ trashing'[r].kept[p] = stored[<<n[1], p>>]
      BY <2>2, <2>3, <2>4, <2>5, MovedKept
  <2>7. m[2] = "top" /\ n[1] # m[1] /\ m[2] = n[2] /\ m[1] \in Heads
      BY <1>1, <2>3, <2>5, MoveEnds
  <2>8. stored'[<<m[1], p>>] = stored[<<n[1], p>>]
      BY <2>6, <2>7, StoredAfter
  <2> QED
      BY <2>3, <2>5, <2>6, <2>8
<1> QED
    BY <1>2, <1>3

LEMMA RestoredStep == BinInv /\ BinMoves => Restored'
<1> SUFFICES ASSUME BinInv, BinMoves PROVE Restored'
    OBVIOUS
<1>0. trashing' \in [Workers -> BinState]
    BY BinTypesStep DEF BinTypes
<1> SUFFICES ASSUME NEW r \in Workers, NEW q \in Workers, NEW e, NEW n \in Nodes, NEW m \in Nodes,
                    trashing'[r].kind = "restore", trashing'[r].pc = "rows", ~trashing'[r].met,
                    n = trashing'[r].node, m = trashing'[r].to,
                    trashing'[q].kind = "trash", trashing'[q].ok, trashing'[q].to[1] = e, n[1] = e,
                    \A s \in Workers \ {r} : <<e, s>> \notin named',
                    NEW p \in NodePlaces, n[2] = "top" \/ p = "in"
             PROVE stored'[<<trashing'[q].node[1], p>>] = trashing'[q].kept[p]
  <2>1. ASSUME NEW r \in Workers PROVE trashing'[r].node \in Nodes /\ trashing'[r].to \in Nodes
      BY <1>0 DEF BinState
  <2> QED
      BY <2>1, ZenonT(60) DEF Restored, NodePlaces
<1>1. BinTypes /\ RequestsFit /\ RequestsApart /\ EntriesMade /\ EntriesKept /\ Restored
      /\ trashing[r] \in BinState /\ trashing[q] \in BinState /\ r # q
    BY DEF BinInv, BinTypes
\* Nobody else has named the entry.
<1>2. \A s \in Workers \ {r} : <<e, s>> \notin named
    BY NamedStays
<1>3. ASSUME trashing[q].kind = "trash", trashing[r].kind = "restore", trashing[r].node = n, trashing[r].to = m
      PROVE /\ trashing'[q].to = trashing[q].to /\ trashing'[q].node = trashing[q].node
            /\ trashing[q].to = Top(e) /\ e \in BinPaths
            /\ trashing[q].node[1] = m[1]
  <2>1. trashing'[q].to = trashing[q].to /\ trashing'[q].node = trashing[q].node
      BY <1>3, TrashStays
  <2>2. trashing[q].to = Top(e) /\ e \in BinPaths
      BY <1>1, <1>3, <2>1, NodeParts DEF RequestsFit, Top
  <2>3. IsHome(trashing[q].node[1], e) /\ IsHome(m[1], e) /\ e \in Heads
      BY <1>1, <1>3, <2>2, RestoresHome DEF IsHome, Heads
  <2> QED
      BY <1>1, <2>1, <2>2, <2>3, HomeIsOne
<1>4. CASE /\ trashing[r].kind = "restore" /\ trashing[r].pc = "rows" /\ ~trashing[r].met
           /\ trashing[r].node = n /\ trashing[r].to = m /\ trashing[q].kind = "trash"
  <2>1. /\ trashing'[q].to = trashing[q].to /\ trashing'[q].node = trashing[q].node
        /\ trashing[q].to = Top(e) /\ e \in BinPaths /\ trashing[q].node[1] = m[1]
      BY <1>3, <1>4
  <2>2. Busy(r) /\ HeadsOf(trashing[r]) = {e, m[1]} /\ e \in HeadsOf(trashing[q])
      BY <1>4, <2>1, NodeParts DEF Busy, HeadsOf, Top
  \* Nobody else works on the heads of the restore.
  <2>3. ASSUME NEW w \in Workers, Busy(w), Share(trashing[w], trashing[r]) PROVE w = r
      BY <1>1, <1>4, <2>2, <2>3 DEF RequestsApart, Share
  <2>4. ~Busy(q)
      BY <1>1, <2>2, <2>3 DEF Share
  <2>5. trashing[q].ok /\ trashing[q].pc = "end"
    <3>1. trashing[q].pc = "end"
        BY <1>1, <1>4, <2>4 DEF RequestsFit, Busy
    <3>2. ASSUME NEW w \in Workers, BinWork(w) PROVE trashing[q].ok
      <4>1. w # q
          BY <1>1, <2>4, <3>2, WorkProgress
      <4>2. trashing'[q] = trashing[q]
          BY <1>1, <3>2, <4>1, WorkProgress
      <4> QED
          BY <4>2
    <3>3. ASSUME NEW w \in Workers, NEW kind \in BinKinds, NEW a \in Nodes, NEW b \in Nodes,
                 NEW pc \in {"stat", "rename", "store"}, BinBegins(w, kind, a, b, pc)
          PROVE trashing[q].ok
      <4>1. Begin(w, kind, a, b, pc)
          BY <3>3 DEF BinBegins
      <4>2. w # q
          BY <1>1, <4>1, BeganAs
      <4> QED
          BY <1>1, <4>1, <4>2, BeginsOthers
    <3>4. CASE FindExpiredBatch
      <4>1. CASE q = BinCleaner
        <5>1. ~trashing[q].ok => ~trashing'[q].ok
            BY <1>1, <3>4, <4>1, ExpiredFrame
        <5> QED
            BY <3>1, <5>1
      <4>2. CASE q # BinCleaner
        <5>1. trashing'[q] = trashing[q]
            BY <1>1, <3>4, <4>2, ExpiredFrame
        <5> QED
            BY <3>1, <5>1
      <4> QED
          BY <4>1, <4>2
    <3> QED
        BY <1>1, <3>1, <3>2, <3>3, <3>4, BinCases
  <2>6. trashing'[q].kept = trashing[q].kept
      BY <1>4, <2>5, TrashStays
  <2>7. stored[<<m[1], p>>] = trashing[q].kept[p]
    <3>1. \A k \in IF trashing[r].node[2] = "top" THEN NodePlaces ELSE {"in"} :
              stored[<<trashing[q].node[1], k>>] = trashing[q].kept[k]
      <4>1. trashing[q].to[1] = trashing[r].node[1] /\ \A s \in Workers \ {r} : <<trashing[q].to[1], s>> \notin named
          BY <1>2, <1>4, <2>1
      <4> QED
          BY <1>1, <1>4, <2>5, <4>1 DEF Restored
    <3> QED
        BY <1>4, <2>1, <3>1
  <2>8. ASSUME NEW w \in Workers, BinWork(w) PROVE stored'[<<m[1], p>>] = stored[<<m[1], p>>]
    <3>1. CASE m[1] \in HeadsOf(trashing[w])
      <4>1. w = r
          BY <1>1, <2>2, <2>3, <2>8, <3>1, WorkProgress DEF Share
      <4> QED
          BY <1>1, <1>4, <2>8, <4>1, WorkHeads
    <3>2. CASE m[1] \notin HeadsOf(trashing[w])
      <4>1. <<m[1], p>> \in Nodes /\ <<m[1], p>>[1] = m[1]
          BY NodeParts DEF Nodes, NodePlaces
      <4> QED
          BY <1>1, <2>8, <3>2, <4>1, WorkHeads
    <3> QED
        BY <3>1, <3>2
  <2>9. stored'[<<m[1], p>>] = stored[<<m[1], p>>]
      BY <1>1, <2>8, BinCases, Beginning, ExpiredFrame DEF BinBegins
  <2> QED
      BY <2>1, <2>6, <2>7, <2>9
<1>5. ASSUME BinWork(r) PROVE stored'[<<trashing'[q].node[1], p>>] = trashing'[q].kept[p]
  <2>1. trashing[r].kind = "restore" /\ trashing[r].node = n /\ trashing[r].to = m /\ trashing'[q] = trashing[q]
      BY <1>1, <1>5, WorkProgress
  <2>2. trashing[r].pc = "rename" /\ stored' = Renamed(n, m)
      BY <1>5, <2>1, MovedKept
  <2>3. trashing[q].kind = "trash" /\ trashing[q].to = Top(e) /\ trashing[q].node[1] = m[1] /\ Trash(q)
        /\ trashing[q].to[1] = e
      BY <1>3, <2>1, NodeParts DEF Trash, Top
  <2>4. \A s \in Workers : <<e, s>> \in named => Waiting(s)
      BY <1>2, <2>1, <2>2 DEF Waiting
  <2>5. stored[<<e, p>>] = trashing[q].kept[p]
      BY <1>1, <2>3, <2>4 DEF EntriesKept
  <2>6. n[1] # m[1] /\ m[2] = n[2] /\ m[1] \in Heads
      BY <1>1, <2>1, MoveEnds
  <2>7. stored'[<<m[1], p>>] = stored[<<n[1], p>>]
      BY <2>2, <2>6, StoredAfter, NodeParts DEF NodePlaces
  <2> QED
      BY <2>1, <2>3, <2>5, <2>7
<1>6. ASSUME NEW w \in Workers, BinWork(w), w # r PROVE stored'[<<trashing'[q].node[1], p>>] = trashing'[q].kept[p]
    BY <1>1, <1>4, <1>6, WorkProgress
<1>7. ASSUME NEW w \in Workers, NEW kind \in BinKinds, NEW a \in Nodes, NEW b \in Nodes,
             NEW pc \in {"stat", "rename", "store"}, BinBegins(w, kind, a, b, pc)
      PROVE stored'[<<trashing'[q].node[1], p>>] = trashing'[q].kept[p]
  <2>1. Begin(w, kind, a, b, pc)
      BY <1>7 DEF BinBegins
  <2>2. w # r /\ w # q
      BY <1>1, <2>1, BeganAs
  <2>3. trashing[r].kind = "restore" /\ trashing[r].pc = "rows" /\ ~trashing[r].met
        /\ trashing[r].node = n /\ trashing[r].to = m
      BY <1>1, <2>1, <2>2, BeginsOthers
  <2>4. trashing[q].kind = "trash"
      BY <1>1, <2>1, <2>2, BeginsOthers
  <2> QED
      BY <1>4, <2>3, <2>4
<1>8. CASE FindExpiredBatch
  <2>1. r # BinCleaner
      BY <1>1, <1>8, ExpiredFrame
  <2>2. trashing'[r] = trashing[r]
      BY <1>1, <1>8, <2>1, ExpiredFrame
  <2>3. trashing'[q].kind = trashing[q].kind
      BY <1>1, <1>8, ExpiredFrame
  <2> QED
      BY <1>4, <2>2, <2>3
<1> QED
    BY <1>1, <1>5, <1>6, <1>7, <1>8, BinCases


-----------------------------------------------------------------------------
(* Files and their rows                                                     *)

\* Where a step has left its request with a head: at the end, or on its way.
DoneOrHalfway(r, h) ==
    IF trashing[r].pc = "end" THEN \A p \in NodePlaces : Agrees(h, p) ELSE Halfway(r, h)

LEMMA StatHalfway ==
    ASSUME BinInv, NEW r \in Workers, StatBin(r), NEW h \in Heads, Halfway(r, h)
    PROVE DoneOrHalfway(r, h)'
<1>1. PICK n \in Nodes, m \in Nodes, pc \in {"end", "rename", "inside", "remove"}, kind \in BinKinds :
         /\ trashing[r].pc = "stat" /\ trashing'[r].pc = pc /\ trashing'[r].kind = kind /\ trashing'[r].node = n /\ trashing'[r].to = m
         /\ UNCHANGED <<stored, indexed, odd>>
    BY DEF BinInv, BinTypes, BinState, StatBin, AtBin, GoBin
<1>2. \A p \in NodePlaces : Agrees(h, p)
    BY <1>1 DEF Halfway, HalfwayAt
<1>3. \A p \in NodePlaces : Agrees(h, p)'
    BY <1>1, <1>2 DEF Agrees
<1>4. pc # "end" => HalfwayAt(pc, kind, n, m, h)'
    BY <1>3, NodeParts DEF HalfwayAt, NodePlaces
<1> QED
    BY <1>1, <1>3, <1>4 DEF DoneOrHalfway, Halfway

LEMMA MoveHalfway ==
    ASSUME BinInv, NEW r \in Workers, MoveRegularPath(r), BinWork(r),
           \A g \in HeadsOf(trashing[r]) \ odd : Halfway(r, g), NEW h \in HeadsOf(trashing[r]), h \notin odd'
    PROVE DoneOrHalfway(r, h)'
<1>1. PICK n \in Nodes, m \in Nodes, kind \in BinKinds :
         n = trashing[r].node /\ m = trashing[r].to /\ kind = trashing[r].kind
    BY DEF BinInv, BinTypes, BinState
<1>2. BinTypes /\ RequestsFit /\ HeadsFit /\ EntriesMade
    BY DEF BinInv
<1>3. /\ trashing[r].pc = "rename" /\ trashing[r].kind \in {"trash", "restore"} /\ indexed' = indexed
      /\ HeadsOf(trashing[r]) = {n[1], m[1]} /\ trashing'[r].kind = kind
      /\ trashing'[r].node = n /\ trashing'[r].to = m /\ odd \in SUBSET odd'
    BY <1>1, <1>2, WorkProgress DEF MoveRegularPath, AtBin, RequestsFit, HeadsOf
<1>4. n[1] # m[1] /\ m[2] = n[2] /\ n[1] \in Heads /\ m[1] \in Heads /\ n[2] \in NodePlaces /\ h \in Heads
      /\ n = <<n[1], n[2]>> /\ m = <<m[1], m[2]>>
    BY <1>1, <1>2, <1>3, MoveEnds
<1>5. ASSUME NEW g \in {n[1], m[1]} \ odd, NEW p \in NodePlaces PROVE Agrees(g, p)
    BY <1>3, <1>5 DEF Halfway, HalfwayAt
<1>6. CASE stored' = stored /\ GoBin(r, "end")
  <2>1. trashing'[r].pc = "end"
      BY <1>2, <1>6 DEF GoBin, BinTypes, BinState
  <2>2. \A p \in NodePlaces : Agrees(h, p)
      BY <1>3, <1>5
  <2>3. \A p \in NodePlaces : Agrees(h, p)'
      BY <1>3, <1>6, <2>2 DEF Agrees
  <2> QED
      BY <2>1, <2>3 DEF DoneOrHalfway
<1>7. CASE ~(stored' = stored /\ GoBin(r, "end"))
  <2>1. /\ stored' = Renamed(n, m) /\ Found(n)
        /\ trashing' = [trashing EXCEPT ![r].pc = "rows", ![r].kept = [p \in {"top", "in"} |-> stored[<<n[1], p>>]]]
        /\ n[1] \notin odd /\ ~(m[2] = "in" /\ indexed[Top(m[1])] = Nothing)
      BY <1>1, <1>3, <1>7 DEF MoveRegularPath, Odd
  <2>2. trashing'[r].pc = "rows"
    <3>1. PICK both : trashing' = [trashing EXCEPT ![r].pc = "rows", ![r].kept = both]
        BY <2>1
    <3>2. trashing'[r] = [trashing[r] EXCEPT !.pc = "rows", !.kept = both]
        BY <1>2, <3>1 DEF BinTypes
    <3> QED
        BY <1>2, <3>2 DEF BinTypes, BinState
  <2>3. \A g \in Heads, p \in NodePlaces :
           stored'[<<g, p>>] = IF g = m[1] /\ (p = m[2] \/ m[2] = "top") THEN stored[<<n[1], p>>]
                               ELSE IF g = n[1] /\ (p = n[2] \/ n[2] = "top") THEN Nothing
                               ELSE IF m[2] = "in" /\ g = m[1] /\ p = "top" THEN Dir ELSE stored[<<g, p>>]
      BY <1>4, <2>1, StoredAfter
  <2>4. h = n[1] => stored'[In(h)] = Nothing /\ IF n[2] = "top" THEN stored'[Top(h)] = Nothing ELSE Agrees(h, "top")'
    <3>1. h = n[1] => stored'[<<h, "in">>] = Nothing
        BY <1>4, <2>3 DEF NodePlaces
    <3>2. h = n[1] /\ n[2] = "top" => stored'[<<h, "top">>] = Nothing
        BY <1>4, <2>3 DEF NodePlaces
    <3>3. h = n[1] /\ n[2] # "top" => stored'[<<h, "top">>] = stored[<<h, "top">>]
        BY <1>4, <2>3 DEF NodePlaces
    <3>4. h = n[1] => Agrees(h, "top")
        BY <1>5, <2>1 DEF NodePlaces
    <3> QED
        BY <1>3, <3>1, <3>2, <3>3, <3>4 DEF Agrees, In, Top
  <2>5. ASSUME h = m[1]
        PROVE /\ n[2] = "in" => Agrees(h, "top")'
              /\ \A p \in {n[2], "in"} : stored'[<<h, p>>] = Nothing <=> indexed'[<<n[1], p>>] = Nothing
              /\ indexed'[n] # Nothing
              /\ indexed'[m] = Nothing => \A p \in {n[2], "in"} : indexed'[<<h, p>>] = Nothing
    <3>1. n[2] = "in" => Agrees(h, "top")'
      <4>1. n[2] = "in" => stored'[<<h, "top">>] = Dir
          BY <1>4, <2>3, <2>5 DEF NodePlaces
      <4> QED
          BY <1>3, <1>4, <2>1, <2>5, <4>1, BinAssumption DEF Agrees, Top
    <3>2. ASSUME NEW p \in {n[2], "in"} PROVE stored'[<<h, p>>] = Nothing <=> indexed'[<<n[1], p>>] = Nothing
      <4>1. p \in NodePlaces /\ stored'[<<h, p>>] = stored[<<n[1], p>>]
          BY <1>4, <2>3, <2>5, ZenonT(60) DEF NodePlaces
      <4>2. Agrees(n[1], p)
          BY <1>5, <2>1, <4>1
      <4> QED
          BY <1>3, <4>1, <4>2 DEF Agrees
    <3>3. indexed'[n] # Nothing
      <4>1. Agrees(n[1], n[2])
          BY <1>4, <1>5, <2>1
      <4> QED
          BY <1>3, <1>4, <2>1, <4>1 DEF Agrees, Found
    <3>4. ASSUME indexed'[m] = Nothing, NEW p \in {n[2], "in"} PROVE indexed'[<<h, p>>] = Nothing
      <4>1. h \notin odd /\ HeadFits(h)
          BY <1>2, <1>3, <1>4 DEF HeadsFit
      <4>2. Agrees(h, "top") /\ Agrees(h, "in")
          BY <1>5, <2>5, <4>1 DEF NodePlaces
      <4>3. CASE p = m[2]
          BY <1>4, <2>5, <3>4, <4>3
      <4>4. CASE p # m[2]
        <5>1. m = Top(h) /\ p = "in"
            BY <1>4, <2>5, <4>4 DEF NodePlaces, Top
        <5>2. stored[Top(h)] = Nothing
            BY <1>3, <3>4, <4>2, <5>1 DEF Agrees, Top
        <5>3. stored[In(h)] = Nothing
            BY <4>1, <5>2, BinAssumption DEF HeadFits
        <5> QED
            BY <1>3, <4>2, <5>1, <5>3 DEF Agrees, In
      <4> QED
          BY <4>3, <4>4
    <3> QED
        BY <3>1, <3>2, <3>3, <3>4
  <2>6. HalfwayAt("rows", kind, n, m, h)'
      BY <1>1, <1>3, <1>4, <2>4, <2>5 DEF HalfwayAt
  <2> QED
      BY <1>3, <2>2, <2>6 DEF DoneOrHalfway, Halfway
<1> QED
    BY <1>6, <1>7

LEMMA MoveRowsHalfway ==
    ASSUME BinInv, NEW r \in Workers, MoveRows(r), BinWork(r),
           \A g \in HeadsOf(trashing[r]) \ odd : Halfway(r, g), NEW h \in HeadsOf(trashing[r]), h \notin odd'
    PROVE DoneOrHalfway(r, h)'
<1>1. PICK n \in Nodes, m \in Nodes, kind \in BinKinds :
         n = trashing[r].node /\ m = trashing[r].to /\ kind = trashing[r].kind
    BY DEF BinInv, BinTypes, BinState
<1>2. BinTypes /\ RequestsFit /\ RequestsApart /\ HeadsFit /\ EntriesMade
    BY DEF BinInv
<1>3. /\ trashing[r].pc = "rows" /\ kind \in {"trash", "restore"} /\ stored' = stored
      /\ HeadsOf(trashing[r]) = {n[1], m[1]} /\ odd \in SUBSET odd'
    BY <1>1, <1>2, WorkProgress DEF MoveRows, AtBin, HeadsOf
<1>4. n[1] # m[1] /\ m[2] = n[2] /\ n[1] \in Heads /\ m[1] \in Heads /\ n[2] \in NodePlaces /\ h \in Heads
      /\ n = <<n[1], n[2]>> /\ m = <<m[1], m[2]>>
    BY <1>1, <1>2, <1>3, MoveEnds
<1>5. /\ IF kind = "trash" THEN indexed' = RowsMoved(n, m, TRUE) ELSE indexed' = RowsMoved(n, m, FALSE)
      /\ EndBin(r) /\ n[1] \notin odd
      /\ kind = "restore" => ~\E k \in Tree(n) : /\ indexed[k] # Nothing
                                               /\ indexed[<<m[1], IF k = n THEN m[2] ELSE "in">>] # Nothing
    BY <1>1, <1>3 DEF MoveRows, Odd, TrashFile, RestoreFile
<1>6. trashing'[r].pc = "end"
    BY <1>2, <1>5 DEF EndBin, BinTypes, BinState
<1>7. \A g \in Heads, p \in NodePlaces :
         LET moved == g = m[1] /\ (p = m[2] \/ m[2] = "top") /\ indexed[<<n[1], p>>] # Nothing
         IN /\ moved => indexed'[<<g, p>>] # Nothing
            /\ ~moved => indexed'[<<g, p>>] = IF g = n[1] /\ (p = n[2] \/ n[2] = "top") THEN Nothing ELSE indexed[<<g, p>>]
  <2>1. PICK from \in BOOLEAN : indexed' = RowsMoved(n, m, from)
      BY <1>5
  <2>2. ASSUME NEW g \in Heads, NEW p \in NodePlaces
        PROVE indexed'[<<g, p>>] =
              IF g = m[1] /\ (p = m[2] \/ m[2] = "top") /\ indexed[<<n[1], p>>] # Nothing
              THEN [from |-> IF from THEN <<n[1], p>> ELSE Nothing]
              ELSE IF g = n[1] /\ (p = n[2] \/ n[2] = "top") THEN Nothing ELSE indexed[<<g, p>>]
      BY <1>4, <2>1, RowsAfter
  <2>3. \A p \in NodePlaces : [from |-> IF from THEN <<n[1], p>> ELSE Nothing] # Nothing
    <3>1. \A p \in NodePlaces : (IF from THEN <<n[1], p>> ELSE Nothing) \in Nodes \cup {Nothing}
        BY <1>4 DEF Nodes, NodePlaces
    <3> QED
        BY <3>1, BinAssumption
  <2> QED
      BY <2>2, <2>3
<1>8. CASE h = n[1]
  <2>1. stored[In(h)] = Nothing /\ IF n[2] = "top" THEN stored[Top(h)] = Nothing ELSE Agrees(h, "top")
      BY <1>1, <1>3, <1>5, <1>8 DEF Halfway, HalfwayAt
  <2>2. indexed'[<<h, "in">>] = Nothing
      BY <1>4, <1>7, <1>8 DEF NodePlaces
  <2>3. indexed'[<<h, "top">>] = IF n[2] = "top" THEN Nothing ELSE indexed[<<h, "top">>]
      BY <1>4, <1>7, <1>8 DEF NodePlaces
  <2> QED
      BY <1>3, <1>6, <2>1, <2>2, <2>3 DEF DoneOrHalfway, Agrees, NodePlaces, In, Top
<1>9. CASE h = m[1]
  <2>1. /\ n[2] = "in" => Agrees(h, "top")
        /\ \A p \in {n[2], "in"} : stored[<<h, p>>] = Nothing <=> indexed[<<n[1], p>>] = Nothing
        /\ indexed[n] # Nothing
        /\ indexed[m] = Nothing => \A p \in {n[2], "in"} : indexed[<<h, p>>] = Nothing
      BY <1>1, <1>3, <1>5, <1>9 DEF Halfway, HalfwayAt
  <2>2. indexed[m] = Nothing
    <3>1. CASE kind = "trash"
      <4>1. ~trashing[r].ok
          BY <1>2, <1>3 DEF RequestsFit
      <4> QED
          BY <1>1, <1>2, <1>4, <3>1, <4>1, EntryIsNew
    <3>2. CASE kind = "restore"
      <4>1. n \in Tree(n)
          BY DEF Tree
      <4> QED
          BY <1>4, <1>5, <2>1, <3>2, <4>1
    <3> QED
        BY <1>3, <3>1, <3>2
  <2>3. ASSUME NEW p \in {n[2], "in"} PROVE Agrees(h, p)'
    <3>1. p \in NodePlaces /\ (p = m[2] \/ m[2] = "top") /\ ~(h = n[1])
        BY <1>4, <1>9 DEF NodePlaces
    <3>2. indexed'[<<h, p>>] = Nothing <=> indexed[<<n[1], p>>] = Nothing
        BY <1>4, <1>7, <1>9, <2>1, <2>2, <3>1
    <3> QED
        BY <1>3, <2>1, <3>2 DEF Agrees
  <2>4. n[2] = "in" => Agrees(h, "top")'
      BY <1>3, <1>4, <1>7, <1>9, <2>1 DEF Agrees, NodePlaces
  <2>5. \A p \in NodePlaces : Agrees(h, p)'
      BY <1>4, <2>3, <2>4 DEF NodePlaces
  <2> QED
      BY <1>6, <2>5 DEF DoneOrHalfway
<1> QED
    BY <1>3, <1>8, <1>9

LEMMA DeleteHalfway ==
    ASSUME BinInv, NEW r \in Workers, RemoveInside(r) \/ RemoveTop(r) \/ DeleteRows(r), BinWork(r),
           NEW h \in HeadsOf(trashing[r]), Halfway(r, h), h \notin odd'
    PROVE DoneOrHalfway(r, h)'
<1>1. PICK n \in Nodes, kind \in BinKinds : n = trashing[r].node /\ kind = trashing[r].kind
    BY DEF BinInv, BinTypes, BinState
<1>2. BinTypes /\ RequestsFit
    BY DEF BinInv
<1>3. /\ kind \in {"delete", "expire"} /\ trashing[r].to = n /\ h = n[1]
      /\ n = <<h, n[2]>> /\ n[2] \in NodePlaces /\ h \in Heads
      /\ trashing'[r].kind = kind /\ trashing'[r].node = n /\ trashing'[r].to = n
  <2>1. trashing[r].pc \in {"inside", "remove", "rows"} /\ kind \notin {"trash", "restore"}
      BY <1>1, <1>2 DEF RemoveInside, RemoveTop, DeleteRows, AtBin, RequestsFit
  <2>2. kind \in {"delete", "expire"}
      BY <1>1, <1>2, <2>1 DEF RequestsFit
  <2>3. trashing[r].to = n
      BY <1>1, <1>2, <2>2 DEF RequestsFit
  <2>4. h = n[1]
      BY <1>1, <2>3 DEF HeadsOf
  <2> QED
      BY <1>1, <1>2, <2>2, <2>3, <2>4, WorkProgress, NodeParts
<1>4. \A p \in NodePlaces : <<h, p>> \in Nodes /\ (<<h, p>> = n <=> p = n[2])
      /\ In(h) = <<h, "in">> /\ Top(h) = <<h, "top">>
    BY <1>3, NodeParts DEF Nodes, NodePlaces
<1>5. CASE RemoveInside(r)
  <2>1. trashing[r].pc = "inside" /\ indexed' = indexed /\ n[2] = "top" /\ Agrees(h, "top") /\ Agrees(h, "in")
      BY <1>1, <1>2, <1>5 DEF RemoveInside, AtBin, RequestsFit, Halfway, HalfwayAt, NodePlaces
  <2>2. CASE stored' = [stored EXCEPT ![In(h)] = Nothing] /\ GoBin(r, "remove")
    <3>1. trashing'[r].pc = "remove" /\ stored'[<<h, "top">>] = stored[<<h, "top">>]
        BY <1>2, <1>4, <2>2 DEF GoBin, BinTypes, BinState, NodePlaces
    <3>2. Agrees(h, "top")'
        BY <2>1, <3>1 DEF Agrees
    <3>3. HalfwayAt("remove", kind, n, n, h)'
        BY <2>1, <3>2 DEF HalfwayAt
    <3> QED
        BY <1>3, <3>1, <3>3 DEF DoneOrHalfway, Halfway
  <2>3. CASE stored' = stored /\ GoBin(r, "end")
    <3>1. trashing'[r].pc = "end"
        BY <1>2, <2>3 DEF GoBin, BinTypes, BinState
    <3> QED
        BY <2>1, <2>3, <3>1 DEF DoneOrHalfway, Agrees, NodePlaces
  <2> QED
      BY <1>1, <1>3, <1>5, <2>2, <2>3 DEF RemoveInside
<1>6. CASE RemoveTop(r)
  <2>1. /\ trashing[r].pc = "remove" /\ indexed' = indexed /\ stored' = [stored EXCEPT ![n] = Nothing]
        /\ GoBin(r, "rows") /\ (n[2] = "top" => stored[In(h)] = Nothing)
      BY <1>1, <1>3, <1>6 DEF RemoveTop, AtBin, Found
  <2>2. trashing'[r].pc = "rows"
      BY <1>2, <2>1 DEF GoBin, BinTypes, BinState
  <2>3. Agrees(h, "top")
      BY <1>1, <2>1 DEF Halfway, HalfwayAt
  <2>4. \A p \in NodePlaces : stored'[<<h, p>>] = IF p = n[2] THEN Nothing ELSE stored[<<h, p>>]
    <3>1. \A k \in Nodes : stored'[k] = IF k = n THEN Nothing ELSE stored[k]
        BY <1>2, <2>1 DEF BinTypes
    <3> QED
        BY <1>4, <3>1
  <2>5. stored'[In(h)] = Nothing /\ IF n[2] = "top" THEN stored'[Top(h)] = Nothing ELSE Agrees(h, "top")'
      BY <1>3, <1>4, <2>1, <2>3, <2>4 DEF Agrees, NodePlaces
  <2>6. HalfwayAt("rows", kind, n, n, h)'
      BY <1>3, <2>5 DEF HalfwayAt
  <2> QED
      BY <1>3, <2>2, <2>6 DEF DoneOrHalfway, Halfway
<1>7. CASE DeleteRows(r)
  <2>1. /\ trashing[r].pc = "rows" /\ stored' = stored /\ EndBin(r)
        /\ indexed' = [k \in Nodes |-> IF k \in Tree(n) \cup AlsoDeleted(n) THEN Nothing ELSE indexed[k]]
        /\ odd' = odd \cup {k[1] : k \in AlsoDeleted(n) \ Tree(n)}
      BY <1>1, <1>3, <1>7 DEF DeleteRows, AtBin
  <2>2. trashing'[r].pc = "end"
      BY <1>2, <2>1 DEF EndBin, BinTypes, BinState
  <2>3. stored[In(h)] = Nothing /\ IF n[2] = "top" THEN stored[Top(h)] = Nothing ELSE Agrees(h, "top")
      BY <1>1, <1>3, <2>1 DEF Halfway, HalfwayAt
  <2>4. ASSUME NEW p \in NodePlaces
        PROVE indexed'[<<h, p>>] = IF p = n[2] \/ n[2] = "top" THEN Nothing ELSE indexed[<<h, p>>]
    <3>1. <<h, p>> \in Tree(n) <=> p = n[2] \/ n[2] = "top"
        BY <1>3, <1>4 DEF Tree, NodePlaces
    <3>2. <<h, p>> \notin AlsoDeleted(n) \ Tree(n)
      <4>1. <<h, p>>[1] \notin {k[1] : k \in AlsoDeleted(n) \ Tree(n)}
          BY <2>1
      <4> QED
          BY <4>1
    <3> QED
        BY <1>4, <2>1, <3>1, <3>2
  <2>5. Agrees(h, "in")' /\ Agrees(h, "top")'
      BY <1>3, <1>4, <2>1, <2>3, <2>4 DEF Agrees, NodePlaces
  <2> QED
      BY <2>2, <2>5 DEF DoneOrHalfway, NodePlaces
<1> QED
    BY <1>5, <1>6, <1>7

LEMMA WriteHalfway ==
    ASSUME BinInv, NEW r \in Workers, StoreBin(r) \/ RowBin(r), BinWork(r),
           NEW h \in HeadsOf(trashing[r]), Halfway(r, h), h \notin odd'
    PROVE DoneOrHalfway(r, h)'
<1>1. PICK n \in Nodes, kind \in BinKinds : n = trashing[r].node /\ kind = trashing[r].kind
    BY DEF BinInv, BinTypes, BinState
<1>2. BinTypes /\ RequestsFit
    BY DEF BinInv
<1>3. /\ kind \in {"write", "mkdir"} /\ trashing[r].to = n /\ h = n[1]
      /\ n = <<h, n[2]>> /\ n[2] \in NodePlaces /\ h \in Heads
      /\ trashing'[r].kind = kind /\ trashing'[r].node = n /\ trashing'[r].to = n
  <2>1. kind \in {"write", "mkdir"}
      BY <1>1, <1>2 DEF StoreBin, RowBin, AtBin, RequestsFit
  <2>2. trashing[r].to = n
      BY <1>1, <1>2, <2>1 DEF RequestsFit
  <2>3. h = n[1]
      BY <1>1, <2>2 DEF HeadsOf
  <2> QED
      BY <1>1, <1>2, <2>1, <2>2, <2>3, WorkProgress, NodeParts
<1>4. \A p \in NodePlaces : <<h, p>> \in Nodes /\ (<<h, p>> = n <=> p = n[2])
      /\ Top(h) = <<h, "top">>
    BY <1>3, NodeParts DEF Nodes, NodePlaces
<1>5. CASE StoreBin(r)
  <2>1. trashing[r].pc = "store" /\ indexed' = indexed /\ \A p \in NodePlaces : Agrees(h, p)
      BY <1>5 DEF StoreBin, AtBin, Halfway, HalfwayAt
  <2>2. CASE stored' = stored /\ GoBin(r, "end")
    <3>1. trashing'[r].pc = "end"
        BY <1>2, <2>2 DEF GoBin, BinTypes, BinState
    <3> QED
        BY <2>1, <2>2, <3>1 DEF DoneOrHalfway, Agrees
  <2>3. CASE ~(stored' = stored /\ GoBin(r, "end"))
    <3>1. /\ stored' = [k \in Nodes |-> IF k = n THEN IF kind = "mkdir" THEN Dir ELSE r
                                        ELSE IF k = Top(h) THEN Dir ELSE stored[k]]
          /\ GoBin(r, "row") /\ ~(n[2] = "in" /\ indexed[Top(h)] = Nothing)
        BY <1>1, <1>3, <1>5, <2>3 DEF StoreBin, Odd
    <3>2. trashing'[r].pc = "row"
        BY <1>2, <3>1 DEF GoBin, BinTypes, BinState
    <3>3. ASSUME NEW p \in NodePlaces \ {n[2]} PROVE Agrees(h, p)'
      <4>1. stored'[<<h, p>>] = IF p = "top" THEN Dir ELSE stored[<<h, p>>]
          BY <1>4, <3>1, <3>3 DEF NodePlaces
      <4> QED
          BY <1>3, <1>4, <2>1, <3>1, <3>3, <4>1, BinAssumption DEF Agrees, NodePlaces
    <3>4. stored'[n] # Nothing
      <4>1. r # Nothing /\ Dir # Nothing
          BY BinAssumption
      <4> QED
          BY <3>1, <4>1
    <3>5. HalfwayAt("row", kind, n, n, h)'
        BY <3>3, <3>4 DEF HalfwayAt
    <3> QED
        BY <1>3, <3>2, <3>5 DEF DoneOrHalfway, Halfway
  <2> QED
      BY <2>2, <2>3
<1>6. CASE RowBin(r)
  <2>1. /\ trashing[r].pc = "row" /\ stored' = stored /\ EndBin(r)
        /\ indexed' = [indexed EXCEPT ![n] = [from |-> Nothing]]
      BY <1>1, <1>3, <1>6 DEF RowBin, AtBin
  <2>2. trashing'[r].pc = "end"
      BY <1>2, <2>1 DEF EndBin, BinTypes, BinState
  <2>3. stored[n] # Nothing /\ \A p \in NodePlaces \ {n[2]} : Agrees(h, p)
      BY <1>1, <2>1 DEF Halfway, HalfwayAt
  <2>4. \A k \in Nodes : indexed'[k] = IF k = n THEN [from |-> Nothing] ELSE indexed[k]
      BY <1>2, <2>1 DEF BinTypes
  <2>5. [from |-> Nothing] # Nothing
      BY BinAssumption
  <2>6. \A p \in NodePlaces : Agrees(h, p)'
    <3>1. ASSUME NEW p \in NodePlaces, p # n[2] PROVE Agrees(h, p)'
        BY <1>4, <2>1, <2>3, <2>4, <3>1 DEF Agrees
    <3>2. Agrees(h, n[2])'
        BY <1>3, <2>1, <2>3, <2>4, <2>5 DEF Agrees
    <3> QED
        BY <3>1, <3>2
  <2> QED
      BY <2>2, <2>6 DEF DoneOrHalfway
<1> QED
    BY <1>5, <1>6

LEMMA WorkDoneOrHalfway ==
    ASSUME BinInv, BinHalfway, NEW r \in Workers, BinWork(r), NEW h \in HeadsOf(trashing[r]), h \notin odd'
    PROVE DoneOrHalfway(r, h)'
<1>1. BinTypes /\ Busy(r) /\ odd \in SUBSET odd' /\ HeadsOf(trashing[r]) \in SUBSET Heads
    BY WorkProgress, NodeParts DEF BinInv, BinTypes, BinState, HeadsOf
<1>2. \A g \in HeadsOf(trashing[r]) \ odd : Halfway(r, g)
    BY <1>1 DEF BinHalfway
<1>3. h \in Heads /\ Halfway(r, h)
    BY <1>1, <1>2
<1> QED
    BY <1>2, <1>3, StatHalfway, MoveHalfway, MoveRowsHalfway, DeleteHalfway, WriteHalfway DEF BinWork

\* What others do not touch stays as far as it is.
LEMMA OthersHalfway ==
    ASSUME BinTypes, RequestsFit, NEW q \in Workers, NEW h \in Heads \ odd', Halfway(q, h), odd \in SUBSET odd', h \in HeadsOf(trashing[q]),
           trashing'[q].pc = trashing[q].pc, trashing'[q].kind = trashing[q].kind,
           trashing'[q].node = trashing[q].node, trashing'[q].to = trashing[q].to,
           \A g \in HeadsOf(trashing[q]) \ odd' : \A p \in NodePlaces :
               stored'[<<g, p>>] = stored[<<g, p>>] /\ indexed'[<<g, p>>] = indexed[<<g, p>>]
    PROVE Halfway(q, h)'
<1>1. PICK n \in Nodes, m \in Nodes, kind \in BinKinds, pc \in BinPCs :
         n = trashing[q].node /\ m = trashing[q].to /\ kind = trashing[q].kind /\ pc = trashing[q].pc
    BY DEF BinTypes, BinState
<1>2. h \in {n[1], m[1]} /\ HeadsOf(trashing[q]) = {n[1], m[1]} /\ HalfwayAt(pc, kind, n, m, h)
      /\ n = <<n[1], n[2]>> /\ m = <<m[1], m[2]>> /\ n[2] \in NodePlaces /\ m[2] \in NodePlaces
    BY <1>1, NodeParts DEF HeadsOf, Halfway
<1>3. \A g \in {n[1], m[1]} \ odd' : \A p \in NodePlaces :
          stored'[<<g, p>>] = stored[<<g, p>>] /\ indexed'[<<g, p>>] = indexed[<<g, p>>]
    BY <1>2
<1>4. \A p \in NodePlaces : Agrees(h, p)' <=> Agrees(h, p)
    BY <1>2, <1>3 DEF Agrees
<1>5. stored'[In(h)] = stored[In(h)] /\ stored'[Top(h)] = stored[Top(h)]
    BY <1>2, <1>3 DEF In, Top, NodePlaces
<1>6. n[1] \notin odd' =>
         /\ n[1] \notin odd /\ indexed'[n] = indexed[n] /\ stored'[n] = stored[n]
         /\ \A p \in NodePlaces : indexed'[<<n[1], p>>] = indexed[<<n[1], p>>]
    BY <1>2, <1>3
<1>7. h = m[1] => indexed'[m] = indexed[m]
    BY <1>2, <1>3
<1>8. pc = "row" => stored'[n] # Nothing
  <2>1. pc = "row" => h = n[1]
      BY <1>1, <1>2 DEF RequestsFit
  <2> QED
      BY <1>2, <1>6, <2>1 DEF HalfwayAt
<1>9. pc = "rows" /\ kind \in {"trash", "restore"} /\ h = m[1] /\ n[1] \notin odd' =>
          /\ n[2] = "in" => Agrees(h, "top")'
          /\ \A p \in {n[2], "in"} : stored'[<<h, p>>] = Nothing <=> indexed'[<<n[1], p>>] = Nothing
          /\ indexed'[n] # Nothing
          /\ indexed'[m] = Nothing => \A p \in {n[2], "in"} : indexed'[<<h, p>>] = Nothing
  <2> SUFFICES ASSUME pc = "rows", kind \in {"trash", "restore"}, h = m[1], n[1] \notin odd'
               PROVE /\ n[2] = "in" => Agrees(h, "top")'
                     /\ \A p \in {n[2], "in"} : stored'[<<h, p>>] = Nothing <=> indexed'[<<n[1], p>>] = Nothing
                     /\ indexed'[n] # Nothing
                     /\ indexed'[m] = Nothing => \A p \in {n[2], "in"} : indexed'[<<h, p>>] = Nothing
      OBVIOUS
  <2>1. /\ n[2] = "in" => Agrees(h, "top")
        /\ \A p \in {n[2], "in"} : stored[<<h, p>>] = Nothing <=> indexed[<<n[1], p>>] = Nothing
        /\ indexed[n] # Nothing
        /\ indexed[m] = Nothing => \A p \in {n[2], "in"} : indexed[<<h, p>>] = Nothing
      BY <1>2, <1>6 DEF HalfwayAt
  <2>2. ASSUME NEW p \in {n[2], "in"}
        PROVE /\ stored'[<<h, p>>] = stored[<<h, p>>]
              /\ indexed'[<<h, p>>] = indexed[<<h, p>>] /\ indexed'[<<n[1], p>>] = indexed[<<n[1], p>>]
    <3>1. p \in NodePlaces /\ h \in {n[1], m[1]} \ odd'
        BY <1>2 DEF NodePlaces
    <3>2. stored'[<<h, p>>] = stored[<<h, p>>] /\ indexed'[<<h, p>>] = indexed[<<h, p>>]
        BY <1>3, <3>1
    <3>3. indexed'[<<n[1], p>>] = indexed[<<n[1], p>>]
        BY <1>6, <3>1
    <3> QED
        BY <3>2, <3>3
  <2>3. n[2] = "in" => Agrees(h, "top")'
      BY <1>4, <2>1 DEF NodePlaces
  <2> QED
      BY <1>6, <1>7, <2>1, <2>2, <2>3
<1>10. HalfwayAt(pc, kind, n, m, h)'
    BY <1>2, <1>4, <1>5, <1>8, <1>9 DEF HalfwayAt, NodePlaces
<1> QED
    BY <1>1, <1>10 DEF Halfway

LEMMA BinHalfwayStep == BinInv /\ BinHalfway /\ BinMoves => BinHalfway'
<1> SUFFICES ASSUME BinInv, BinHalfway, BinMoves, NEW h \in Heads \ odd'
             PROVE /\ QuietHead(h)' => \A p \in NodePlaces : Agrees(h, p)'
                   /\ \A q \in Workers : Busy(q)' /\ h \in HeadsOf(trashing'[q]) => Halfway(q, h)'
    BY DEF BinHalfway
<1>1. BinTypes /\ RequestsFit /\ RequestsApart /\ h \in Heads
    BY DEF BinInv
<1>2. ASSUME h \notin odd, NEW q \in Workers, NEW w \in Workers, Busy(q), Busy(w),
             h \in HeadsOf(trashing[q]), h \in HeadsOf(trashing[w])
      PROVE q = w
    BY <1>1, <1>2 DEF RequestsApart, Share
<1>3. ASSUME NEW r \in Workers, BinWork(r)
      PROVE /\ QuietHead(h)' => \A p \in NodePlaces : Agrees(h, p)'
            /\ \A q \in Workers : Busy(q)' /\ h \in HeadsOf(trashing'[q]) => Halfway(q, h)'
  <2>1. Busy(r) /\ odd \in SUBSET odd' /\ h \notin odd
      BY <1>1, <1>3, WorkProgress
  <2>2. /\ \A q \in Workers \ {r} : trashing'[q] = trashing[q]
        /\ HeadsOf(trashing'[r]) = HeadsOf(trashing[r])
    <3>1. trashing'[r].node = trashing[r].node /\ trashing'[r].to = trashing[r].to
        BY <1>1, <1>3, WorkProgress
    <3> QED
        BY <1>1, <1>3, <3>1, WorkProgress DEF HeadsOf
  <2>3. ASSUME NEW g \in Heads \ odd', g \notin HeadsOf(trashing[r]), NEW p \in NodePlaces
        PROVE stored'[<<g, p>>] = stored[<<g, p>>] /\ indexed'[<<g, p>>] = indexed[<<g, p>>]
    <3>1. <<g, p>> \in Nodes /\ <<g, p>>[1] = g
        BY DEF Nodes, NodePlaces
    <3> QED
        BY <1>1, <1>3, <2>3, <3>1, WorkHeads
  <2>4. ASSUME h \in HeadsOf(trashing[r]) PROVE DoneOrHalfway(r, h)'
      BY <1>3, <2>4, WorkDoneOrHalfway
  <2>5. ASSUME QuietHead(h)' PROVE \A p \in NodePlaces : Agrees(h, p)'
    <3>1. CASE h \in HeadsOf(trashing[r])
      <4>1. trashing'[r].pc = "end"
        <5>1. ~Busy(r)'
            BY <2>2, <2>5, <3>1 DEF QuietHead
        <5> QED
            BY <1>1, <1>3, <5>1, WorkProgress DEF Busy
      <4> QED
          BY <2>4, <3>1, <4>1 DEF DoneOrHalfway
    <3>2. CASE h \notin HeadsOf(trashing[r])
      <4>1. QuietHead(h)
          BY <2>2, <2>5, <3>2 DEF QuietHead, Busy
      <4>2. \A p \in NodePlaces : Agrees(h, p)
          BY <2>1, <4>1 DEF BinHalfway
      <4> QED
          BY <2>3, <3>2, <4>2 DEF Agrees
    <3> QED
        BY <3>1, <3>2
  <2>6. ASSUME NEW q \in Workers, Busy(q)', h \in HeadsOf(trashing'[q]) PROVE Halfway(q, h)'
    <3>1. CASE q = r
        BY <2>2, <2>4, <2>6, <3>1 DEF DoneOrHalfway, Busy
    <3>2. CASE q # r
      <4>1. trashing'[q] = trashing[q] /\ Busy(q) /\ h \in HeadsOf(trashing[q])
          BY <2>2, <2>6, <3>2 DEF Busy
      <4>2. Halfway(q, h)
          BY <2>1, <4>1 DEF BinHalfway
      <4>3. HeadsOf(trashing[q]) \in SUBSET Heads
          BY <1>1, NodeParts DEF BinTypes, BinState, HeadsOf
      <4>4. ASSUME NEW g \in HeadsOf(trashing[q]) \ odd' PROVE g \notin HeadsOf(trashing[r])
          BY <1>1, <2>1, <3>2, <4>1 DEF RequestsApart, Share
      <4>5. \A g \in HeadsOf(trashing[q]) \ odd' : \A p \in NodePlaces :
                stored'[<<g, p>>] = stored[<<g, p>>] /\ indexed'[<<g, p>>] = indexed[<<g, p>>]
          BY <2>3, <4>3, <4>4
      <4> QED
          BY <1>1, <2>1, <4>1, <4>2, <4>5, OthersHalfway
    <3> QED
        BY <3>1, <3>2
  <2> QED
      BY <2>5, <2>6
<1>4. ASSUME NEW r \in Workers, NEW kind \in BinKinds, NEW n \in Nodes, NEW m \in Nodes,
             NEW pc \in {"stat", "rename", "store"}, BinBegins(r, kind, n, m, pc)
      PROVE /\ QuietHead(h)' => \A p \in NodePlaces : Agrees(h, p)'
            /\ \A q \in Workers : Busy(q)' /\ h \in HeadsOf(trashing'[q]) => Halfway(q, h)'
  <2>1. Begin(r, kind, n, m, pc) /\ ~Busy(r)
      BY <1>4 DEF BinBegins
  <2>2. stored' = stored /\ indexed' = indexed /\ odd \in SUBSET odd' /\ h \notin odd
      BY <1>1, <2>1, Beginning
  <2>3. \A p \in NodePlaces : Agrees(h, p)' <=> Agrees(h, p)
      BY <2>2 DEF Agrees
  <2>4. ASSUME NEW q \in Workers \ {r}
        PROVE /\ HeadsOf(trashing'[q]) = HeadsOf(trashing[q]) /\ (Busy(q)' <=> Busy(q))
      BY <1>1, <2>1, BeginsOthers
  <2>5. ASSUME QuietHead(h)' PROVE QuietHead(h)
      BY <2>1, <2>4, <2>5 DEF QuietHead
  <2>6. ASSUME NEW q \in Workers, Busy(q)', h \in HeadsOf(trashing'[q]) PROVE Halfway(q, h)'
    <3>1. CASE q = r
      <4>1. QuietHead(h)
        <5>1. ASSUME NEW w \in Workers, Busy(w), h \in HeadsOf(trashing[w]) PROVE FALSE
          <6>1. w # r /\ Share(trashing[w], trashing'[r])
              BY <2>1, <2>6, <3>1, <5>1 DEF Share
          <6>2. HeadsOf(trashing[w]) \in SUBSET odd'
              BY <1>1, <2>1, <5>1, <6>1, BeginsBeside
          <6> QED
              BY <5>1, <6>2
        <5> QED
            BY <5>1 DEF QuietHead
      <4>2. \A p \in NodePlaces : Agrees(h, p)'
          BY <2>2, <2>3, <4>1 DEF BinHalfway
      <4>3. HalfwayAt(pc, kind, n, m, h)'
          BY <4>2 DEF HalfwayAt
      <4>4. trashing'[r].pc = pc /\ trashing'[r].kind = kind /\ trashing'[r].node = n /\ trashing'[r].to = m
          BY <1>1, <2>1, BeganAs
      <4> QED
          BY <3>1, <4>3, <4>4 DEF Halfway
    <3>2. CASE q # r
      <4>1. Busy(q) /\ h \in HeadsOf(trashing[q])
          BY <2>4, <2>6, <3>2
      <4>2. Halfway(q, h)
          BY <2>2, <4>1 DEF BinHalfway
      <4>3. trashing'[q].pc = trashing[q].pc /\ trashing'[q].kind = trashing[q].kind
            /\ trashing'[q].node = trashing[q].node /\ trashing'[q].to = trashing[q].to
          BY <1>1, <2>1, <3>2, BeginsOthers
      <4> QED
          BY <1>1, <2>2, <4>1, <4>2, <4>3, OthersHalfway
    <3> QED
        BY <3>1, <3>2
  <2>7. QuietHead(h)' => \A p \in NodePlaces : Agrees(h, p)'
      BY <2>2, <2>3, <2>5 DEF BinHalfway
  <2> QED
      BY <2>6, <2>7
<1>5. CASE FindExpiredBatch
  <2>1. stored' = stored /\ indexed' = indexed /\ odd' = odd /\ BinCleaner \in Workers
        /\ ~Busy(BinCleaner) /\ trashing'[BinCleaner].pc = "end"
        /\ \A q \in Workers \ {BinCleaner} : trashing'[q] = trashing[q]
      BY <1>1, <1>5, ExpiredFrame DEF Workers
  <2>2. ~Busy(BinCleaner)'
      BY <2>1 DEF Busy
  <2>3. QuietHead(h)' => QuietHead(h)
      BY <2>1 DEF QuietHead, Busy
  <2>4. QuietHead(h)' => \A p \in NodePlaces : Agrees(h, p)'
      BY <2>1, <2>3 DEF BinHalfway, Agrees
  <2>5. ASSUME NEW q \in Workers, Busy(q)', h \in HeadsOf(trashing'[q]) PROVE Halfway(q, h)'
    <3>1. q # BinCleaner /\ trashing'[q] = trashing[q]
        BY <2>1, <2>2, <2>5
    <3>2. Busy(q) /\ h \in HeadsOf(trashing[q])
        BY <2>5, <3>1 DEF Busy
    <3>3. Halfway(q, h)
        BY <2>1, <3>2 DEF BinHalfway
    <3> QED
        BY <1>1, <2>1, <3>1, <3>2, <3>3, OthersHalfway
  <2> QED
      BY <2>4, <2>5
<1> QED
    BY <1>1, <1>3, <1>4, <1>5, BinCases

-----------------------------------------------------------------------------
(* The theorems                                                             *)

LEMMA BinInvStep == BinInv /\ [Next]_storageVars => BinInv'
<1> SUFFICES ASSUME BinInv, BinMoves \/ UNCHANGED binVars PROVE BinInv'
    BY BinSteps
<1>1. CASE BinMoves
    BY <1>1, BinTypesStep, RequestsFitStep, RequestsApartStep, HeadsFitStep, EntriesMadeStep, EntriesKeptStep,
       RestoredStep DEF BinInv
<1>2. CASE UNCHANGED binVars
  <2>1. UNCHANGED <<batch, stored, indexed, trashing, odd, named>>
      BY <1>2 DEF binVars
  <2>2. BinTypes' /\ RequestsFit' /\ RequestsApart'
      BY <2>1 DEF BinInv, BinTypes, RequestsFit, RequestsApart, Busy
  <2>3. HeadsFit' /\ EntriesMade'
      BY <2>1 DEF BinInv, HeadsFit, HeadFits, StandsFor, IsHome, EntriesMade
  <2>4. EntriesKept' /\ Restored'
      BY <2>1 DEF BinInv, EntriesKept, Restored, Trash, Waiting
  <2> QED
      BY <2>2, <2>3, <2>4 DEF BinInv
<1> QED
    BY <1>1, <1>2

LEMMA BinInvInit == BinInit => BinInv
<1> SUFFICES ASSUME BinInit PROVE BinInv
    OBVIOUS
<1>1. FirstEntry \in Heads /\ Top(FirstEntry) \in Nodes /\ OldFolder \in Folders /\ Folders \in SUBSET Homes
      /\ FirstEntry \notin Homes /\ Homes \in SUBSET Heads
    BY BinAssumption, NodeParts DEF Heads, OldFolder, Homes
<1>2. /\ NewBinRequest \in BinState /\ NewBinRequest.pc = "new" /\ NewBinRequest.kind = "write" /\ ~NewBinRequest.ok
      /\ NewBinRequest.to = NewBinRequest.node
    BY <1>1 DEF NewBinRequest, BinState, BinPCs, BinKinds
<1>3. /\ \A r \in Workers : trashing[r] = NewBinRequest
      /\ trashing \in [Workers -> BinState] /\ named = {} /\ odd = {} /\ batch = Nothing
    BY <1>2 DEF BinInit
<1>4. ASSUME NEW h \in Heads
      PROVE /\ Top(h) = <<h, "top">> /\ In(h) = <<h, "in">>
            /\ stored[Top(h)] = IF h \in Folders \cup {FirstEntry} THEN Dir ELSE IF h \in Papers THEN h ELSE Nothing
            /\ stored[In(h)] = IF h \in Folders \cup {FirstEntry} THEN h ELSE Nothing
  <2>1. Top(h) = <<h, "top">> /\ In(h) = <<h, "in">> /\ Top(h) \in Nodes /\ In(h) \in Nodes
      BY NodeParts
  <2>2. \A n \in Nodes : stored[n] = CASE n[1] \in Folders \cup {FirstEntry} -> IF n[2] = "top" THEN Dir ELSE n[1]
                                       [] n[1] \in Papers /\ n[2] = "top" -> n[1]
                                       [] OTHER -> Nothing
      BY DEF BinInit
  <2>3. ~(h \in Folders \cup {FirstEntry} /\ h \in Papers)
      BY BinAssumption DEF Homes
  <2>4. CASE h \in Folders \cup {FirstEntry}
    <3>1. stored[Top(h)] = Dir
        BY <2>1, <2>2, <2>3, <2>4
    <3>2. stored[In(h)] = h
        BY <2>1, <2>2, <2>3, <2>4
    <3> QED
        BY <2>1, <2>4, <3>1, <3>2
  <2>5. CASE h \notin Folders \cup {FirstEntry}
    <3>1. stored[Top(h)] = IF h \in Papers THEN h ELSE Nothing
        BY <2>1, <2>2, <2>5
    <3>2. stored[In(h)] = Nothing
        BY <2>1, <2>2, <2>5
    <3> QED
        BY <2>1, <2>5, <3>1, <3>2
  <2> QED
      BY <2>4, <2>5
<1>5. \A n \in Nodes : indexed[n] = IF stored[n] = Nothing THEN Nothing
                                    ELSE [from |-> IF n[1] = FirstEntry THEN <<OldFolder, n[2]>> ELSE Nothing]
    BY DEF BinInit
<1>6. BinTypes
  <2>1. stored \in [Nodes -> BinContents]
    <3>1. ASSUME NEW n \in Nodes PROVE stored[n] \in BinContents
      <4>1. n[1] \in Heads /\ (n = Top(n[1]) \/ n = In(n[1]))
          BY NodeParts DEF NodePlaces
      <4> QED
          BY <1>4, <4>1 DEF BinContents
    <3> QED
        BY <3>1 DEF BinInit
  <2>2. indexed \in [Nodes -> BinRows \cup {Nothing}]
    <3>1. ASSUME NEW n \in Nodes PROVE indexed[n] \in BinRows \cup {Nothing}
      <4>1. <<OldFolder, n[2]>> \in Nodes
          BY <1>1 DEF Nodes
      <4>2. [from |-> IF n[1] = FirstEntry THEN <<OldFolder, n[2]>> ELSE Nothing] \in BinRows
          BY <4>1 DEF BinRows
      <4> QED
          BY <1>5, <4>2
    <3> QED
        BY <3>1 DEF BinInit
  <2> QED
      BY <1>3, <2>1, <2>2 DEF BinTypes
<1>7. RequestsFit /\ RequestsApart
    BY <1>2, <1>3 DEF RequestsFit, RequestsApart, Busy
<1>8. ASSUME NEW h \in Heads PROVE HeadFits(h)
  <2>1. (stored[In(h)] # Nothing => stored[Top(h)] = Dir) /\ stored[In(h)] # Dir
      BY <1>4, BinAssumption
  <2>2. ASSUME NEW p \in NodePlaces, stored[<<h, p>>] # Nothing \/ indexed[<<h, p>>] # Nothing
        PROVE \E x \in Homes : StandsFor(x, h, p)
    <3>1. stored[<<h, p>>] # Nothing /\ <<h, p>> \in Nodes /\ <<h, p>>[1] = h /\ <<h, p>>[2] = p
        BY <1>5, <2>2 DEF Nodes, NodePlaces
    <3>2. indexed[<<h, p>>].from = IF h = FirstEntry THEN <<OldFolder, p>> ELSE Nothing
      <4>1. indexed[<<h, p>>] = [from |-> IF h = FirstEntry THEN <<OldFolder, p>> ELSE Nothing]
        <5> DEFINE k == <<h, p>>
        <5>1. k \in Nodes /\ stored[k] # Nothing /\ k[1] = h /\ k[2] = p
            BY <3>1
        <5> HIDE DEF k
        <5>2. indexed[k] = [from |-> IF k[1] = FirstEntry THEN <<OldFolder, k[2]>> ELSE Nothing]
            BY <1>5, <5>1
        <5> QED
            BY <5>1, <5>2 DEF k
      <4> QED
          BY <4>1
    <3>3. CASE h = FirstEntry
      <4>1. StandsFor(OldFolder, h, p)
          BY <1>1, <1>4, <3>1, <3>2, <3>3 DEF StandsFor, IsHome
      <4> QED
          BY <1>1, <4>1
    <3>4. CASE h # FirstEntry
      <4>1. h \in Homes /\ (p = "in" => h \in Folders)
          BY <1>4, <3>1, <3>4 DEF NodePlaces, Homes
      <4>2. StandsFor(h, h, p)
          BY <1>4, <3>1, <3>2, <3>4, <4>1, BinAssumption DEF StandsFor, IsHome
      <4> QED
          BY <4>1, <4>2
    <3> QED
        BY <3>3, <3>4
  <2> QED
      BY <2>1, <2>2 DEF HeadFits
<1>9. EntriesMade
  <2>1. ASSUME NEW e \in BinPaths \ {FirstEntry}, NEW p \in NodePlaces
        PROVE stored[<<e, p>>] = Nothing /\ indexed[<<e, p>>] = Nothing
    <3>1. e \in Heads /\ e \notin Folders \cup Papers \cup {FirstEntry} /\ <<e, p>> \in Nodes
          /\ (<<e, p>> = Top(e) \/ <<e, p>> = In(e))
        BY BinAssumption, NodeParts DEF Heads, Homes, Nodes, NodePlaces
    <3> QED
        BY <1>4, <1>5, <3>1
  <2> QED
      BY <1>2, <1>3, <2>1 DEF EntriesMade
<1>10. EntriesKept /\ Restored
    BY <1>2, <1>3 DEF EntriesKept, Restored, Trash
<1> QED
    BY <1>6, <1>7, <1>8, <1>9, <1>10 DEF BinInv, HeadsFit

LEMMA BinHolds == Spec => []BinInv
<1>1. Init => BinInv
    BY BinInvInit DEF Init
<1> QED
    BY <1>1, BinInvStep, PTL DEF Spec

\* What trash_file has acknowledged stays in the bin as it was, whatever else is moved,
\* restored, deleted or expires, until the entry itself is named.
THEOREM EntriesStay == Spec => []BinKeepsContents
<1>1. BinInv => BinKeepsContents
    BY DEF BinInv, EntriesKept, Trash, BinKeepsContents, NodePlaces
<1> QED
    BY <1>1, BinHolds, PTL

\* Between requests files and rows agree, except where a step failed half-way, two
\* requests met or the rows of one directory went with another's.
THEOREM BinAgrees == Spec => []BinAgreesWithIndex
<1>1. BinInit => BinHalfway
  <2> SUFFICES ASSUME BinInit PROVE BinHalfway
      OBVIOUS
  <2>1. ASSUME NEW r \in Workers PROVE ~Busy(r)
      BY <2>1 DEF BinInit, NewBinRequest, Busy
  <2>2. ASSUME NEW h \in Heads, NEW p \in NodePlaces PROVE Agrees(h, p)
    <3> DEFINE n == <<h, p>>
    <3>1. n \in Nodes
        BY DEF Nodes, NodePlaces
    <3>2. <<OldFolder, p>> \in Nodes /\ n[1] = h /\ n[2] = p
        BY BinAssumption DEF Nodes, NodePlaces, Heads, Homes, OldFolder
    <3> HIDE DEF n
    <3>3. indexed[n] = IF stored[n] = Nothing THEN Nothing
                       ELSE [from |-> IF n[1] = FirstEntry THEN <<OldFolder, n[2]>> ELSE Nothing]
        BY <3>1 DEF BinInit
    <3>4. [from |-> IF n[1] = FirstEntry THEN <<OldFolder, n[2]>> ELSE Nothing] # Nothing
      <4>1. (IF n[1] = FirstEntry THEN <<OldFolder, n[2]>> ELSE Nothing) \in Nodes \cup {Nothing}
          BY <3>2
      <4> QED
          BY <4>1, BinAssumption
    <3> QED
        BY <3>3, <3>4 DEF Agrees, n
  <2> QED
      BY <2>1, <2>2 DEF BinHalfway
<1>2. BinInv /\ BinHalfway /\ [Next]_storageVars => BinHalfway'
  <2> SUFFICES ASSUME BinInv, BinHalfway, UNCHANGED binVars PROVE BinHalfway'
      BY BinSteps, BinHalfwayStep
  <2>1. UNCHANGED <<stored, indexed, trashing, odd>>
      BY DEF binVars
  <2> QED
      BY <2>1 DEF BinHalfway, QuietHead, Busy, Agrees, Halfway, HalfwayAt
<1>3. BinInv /\ BinHalfway => BinAgreesWithIndex
  <2> SUFFICES ASSUME BinInv, BinHalfway, NEW h \in Heads \ odd, QuietHead(h), NEW p \in NodePlaces
               PROVE /\ (indexed[<<h, p>>] = Nothing) = (stored[<<h, p>>] = Nothing)
                     /\ indexed[<<h, p>>] # Nothing => (indexed[<<h, p>>].from = Nothing) = (h \in Homes)
      BY DEF BinAgreesWithIndex, NodePlaces
  <2>1. indexed[<<h, p>>] = Nothing <=> stored[<<h, p>>] = Nothing
      BY DEF BinHalfway, Agrees
  <2>2. ASSUME indexed[<<h, p>>] # Nothing PROVE indexed[<<h, p>>].from = Nothing <=> h \in Homes
    <3>1. PICK x \in Homes : StandsFor(x, h, p)
        BY <2>2 DEF BinInv, HeadsFit, HeadFits
    <3>2. <<x, p>> # Nothing
        BY BinAssumption DEF Nodes, Heads, NodePlaces
    <3> QED
        BY <2>2, <3>1, <3>2 DEF StandsFor
  <2> QED
      BY <2>1, <2>2
<1>4. Init => BinHalfway
    BY <1>1 DEF Init
<1> QED
    BY <1>2, <1>3, <1>4, BinHolds, PTL DEF Spec

\* A restore that is acknowledged has put back what the move to the bin had found.
THEOREM RestoresBringBack == Spec => RestoreBringsBack
<1> DEFINE BroughtBack(r, q) ==
       /\ trashing[r].kind = "restore" /\ trashing'[r].ok /\ ~trashing[r].ok /\ ~trashing[r].met
       /\ trashing[q].kind = "trash" /\ trashing[q].ok /\ ~trashing[q].met
       /\ trashing[q].to[1] = trashing[r].node[1]
       /\ \A s \in Workers \ {r} : <<trashing[q].to[1], s>> \notin named
       => \A p \in IF trashing[r].node[2] = "top" THEN {"top", "in"} ELSE {"in"} :
              stored[<<trashing[q].node[1], p>>] = trashing[q].kept[p]
<1>1. BinInv /\ BinMoves => \A r, q \in Workers : BroughtBack(r, q)
  <2> SUFFICES ASSUME BinInv, BinMoves, NEW r \in Workers, NEW q \in Workers,
                      trashing[r].kind = "restore", trashing'[r].ok, ~trashing[r].ok, ~trashing[r].met,
                      trashing[q].kind = "trash", trashing[q].ok, trashing[q].to[1] = trashing[r].node[1],
                      \A s \in Workers \ {r} : <<trashing[q].to[1], s>> \notin named
               PROVE \A p \in IF trashing[r].node[2] = "top" THEN {"top", "in"} ELSE {"in"} :
                         stored[<<trashing[q].node[1], p>>] = trashing[q].kept[p]
      OBVIOUS
  <2>1. BinTypes /\ RequestsFit /\ Restored
      BY DEF BinInv
  <2>2. trashing[r].pc = "rows"
    <3>1. ASSUME NEW w \in Workers, BinWork(w) PROVE trashing[r].pc = "rows"
      <4>1. w = r
          BY <2>1, <3>1, WorkProgress
      <4>2. trashing[r].pc \in {"rows", "row"}
          BY <2>1, <3>1, <4>1, WorkProgress
      <4> QED
          BY <2>1, <4>2 DEF RequestsFit
    <3>2. ASSUME NEW w \in Workers, NEW kind \in BinKinds, NEW n \in Nodes, NEW m \in Nodes,
                 NEW pc \in {"stat", "rename", "store"}, BinBegins(w, kind, n, m, pc)
          PROVE FALSE
      <4>1. Begin(w, kind, n, m, pc)
          BY <3>2 DEF BinBegins
      <4>2. w # r
          BY <2>1, <4>1, BeganAs
      <4> QED
          BY <2>1, <4>1, <4>2, BeginsOthers
    <3>3. CASE FindExpiredBatch
      <4>1. CASE r = BinCleaner
          BY <2>1, <4>1, BinAssumption DEF RequestsFit
      <4>2. CASE r # BinCleaner
        <5>1. trashing'[r] = trashing[r]
            BY <2>1, <3>3, <4>2, ExpiredFrame
        <5> QED
            BY <5>1
      <4> QED
          BY <4>1, <4>2
    <3> QED
        BY <2>1, <3>1, <3>2, <3>3, BinCases
  <2> QED
      BY <2>1, <2>2 DEF Restored, NodePlaces
<1>2. BinInv /\ [Next]_storageVars => [\A r, q \in Workers : BroughtBack(r, q)]_binVars
    BY <1>1, BinSteps
<1> QED
    BY <1>2, BinHolds, PTL DEF Spec, RestoreBringsBack

-----------------------------------------------------------------------------
(* Batches of copies, moves, deletes, archives and videos (Batches)         *)

\* A step of Storage either is one of the batch's or leaves it alone.
LEMMA BatchSteps == [Next]_storageVars => BatchesMoves \/ UNCHANGED batchVars
    BY DEF Next, storageVars, ReadsMoves, UsageMoves, BinMoves, PoolMoves, VaultMoves, RouteMoves, ConfigMoves,
           ThumbsMoves, RenderMoves, VideosMoves, MountsMoves, BesideReads, BesideUsage, BesideBin, BesidePool,
           BesideVault, BesideRoute, BesideConfig, BesideThumbs, BesideRender, BesideVideos, BesideMounts

Stuff == ({"source", "there", "packed", "new"} \X (0..2)) \cup {NoFile}
TaskPCs == {"new", "plan", "run", "report", "stage", "pack", "packed", "clear", "unpack", "next", "video", "end"}
TaskState == [kind : BatchKinds \cup {"none"}, removes : BOOLEAN, replaces : BOOLEAN, pc : TaskPCs,
              cancelled : BOOLEAN, status : {"pending", "success", "failed"}, failures : Nat,
              why : {"none", "items", "time", "cancelled", "lookup"}]
ItemPCs == {"new", "planned", "begun", "ended", "logged", "staged", "unpacked", "made"}
ItemState == [pc : ItemPCs, to : TargetNames \cup {NoFile}, blind : BOOLEAN,
              result : {"none", "ok", "error", "skipped"}, log : {"none", "success", "failed"},
              copy : Stuff, done : BOOLEAN]
FileTypes ==
    /\ sources \in [Items -> Stuff] /\ pack \in [Items -> Stuff] /\ target \in [TargetNames -> Stuff]
    /\ trash \in SUBSET Stuff /\ excused \in SUBSET Stuff
    /\ foreign \in SUBSET TargetNames /\ edited \in SUBSET Items

\* Where the task is, and how far its items are.
Progress ==
    /\ task.pc \in {"stage", "pack", "packed", "clear"} => task.kind = "compress"
    /\ task.pc = "end" <=> task.status # "pending"
    /\ task.pc \in {"new", "plan", "stage", "pack", "packed", "clear", "unpack"} => task.failures = 0
    /\ task.pc = "new" => \A i \in Items : item[i].pc = "new" /\ item[i].log = "none" /\ item[i].to = NoFile
    /\ task.pc = "plan" => item[1].pc \in {"new", "planned"} /\ item[2].pc = "new"
    /\ task.pc \in {"plan", "next", "video"} => \A i \in Items : item[i].pc = "new" => item[i].to = NoFile
    /\ task.pc \in {"plan", "run"} => \A i \in Items : item[i].pc \in {"new", "planned", "begun", "ended", "logged"}
    /\ task.pc = "run" /\ task.kind \in {"copy", "move"} => \A i \in Items : item[i].pc # "new"
    /\ task.pc \in {"plan", "run"} => task.kind \in {"copy", "move", "delete"}
    /\ task.pc \in {"next", "video"} => task.kind = "video"
    /\ task.pc = "stage" => item[1].pc \in {"new", "staged", "logged"} /\ item[2].pc = "new"
    /\ task.pc \in {"pack", "packed", "clear"} => \A i \in Items : item[i].pc \in {"staged", "logged"}
    /\ task.pc \in {"packed", "clear"} => Staged # {}
    /\ task.pc = "unpack" => \A i \in Items : item[i].pc \in {"new", "unpacked"}
    /\ task.pc = "next" => item[1].pc \in {"new", "logged"} /\ item[2].pc = "new"
    /\ task.pc = "video" => \/ item[1].pc \in {"begun", "made"} /\ item[2].pc = "new"
                            \/ item[1].pc = "logged" /\ item[2].pc \in {"begun", "made"}

\* What is logged has happened; the failures that are counted are those that are logged.
LogsAgree ==
    /\ \A i \in Items :
        /\ item[i].log = "success" => item[i].done
        /\ task.pc # "end" /\ item[i].pc # "logged" => item[i].log = "none"
        /\ item[i].pc = "ended" => item[i].result \in {"ok", "error", "skipped"}
        /\ item[i].pc = "ended" /\ item[i].result = "ok" => item[i].done
        /\ item[i].pc = "ended" /\ item[i].result = "skipped" => task.cancelled
        /\ item[i].pc = "logged" => item[i].log # "none"
        /\ task.pc \in {"stage", "pack", "packed", "clear"} /\ item[i].pc = "logged" => item[i].log = "failed"
    /\ task.pc \in {"run", "next", "video", "report"} =>
        /\ task.failures = 0 => \A i \in Items : item[i].log # "failed"
        /\ task.failures # 0 => \E i \in Items : item[i].log = "failed"
    /\ task.pc = "report" /\ ~task.cancelled => \A i \in Items : item[i].pc = "logged"
\* The parts of the invariant that tell how far the task is.
Control == task \in TaskState /\ item \in [Items -> ItemState] /\ Progress /\ LogsAgree /\ BatchReportIsTrue

\* A name that only the task can have taken is one of an item.
NamesTaken == \A u \in 2..4 : target[Named(u, 0)] # NoFile => \E i \in Items : item[i].to = Named(u, 0)

\* Where an item goes nothing is, unless the code does not look; no other item goes there.
GoesToFreeName(i) ==
    /\ task.kind \in {"copy", "move"} /\ item[i].pc \in {"planned", "begun"} =>
        /\ item[i].to # NoFile
        /\ \A j \in Items \ {i} : item[j].to # item[i].to
        /\ ~Unseen(i) => target[item[i].to] = NoFile
    /\ task.pc = "video" /\ item[i].pc = "begun" =>
        item[i].to # NoFile /\ (~task.replaces /\ ~Unseen(i) => target[item[i].to] = NoFile)
\* What will be removed has been kept elsewhere.
KeptBefore(i) ==
    /\ item[i].pc \in {"staged", "made"} \/ (task.pc = "video" /\ item[i].pc = "begun") =>
         sources[i] \in {item[i].copy, NoFile} \/ i \in edited
    /\ task.pc = "clear" /\ item[i].pc = "staged" => pack[i] = item[i].copy
    /\ task.pc = "video" /\ item[i].pc = "made" =>
         item[i].to # NoFile /\ item[i].copy \in {target[item[i].to]} \cup excused
    /\ task.pc = "unpack" /\ task.replaces /\ item[i].pc = "unpacked" => pack[i] \in {target[EntryName(i)]} \cup excused
FilesKept == NamesTaken /\ (\A i \in Items : GoesToFreeName(i)) /\ \A i \in Items : KeptBefore(i)
BatchInv == Control /\ FileTypes /\ FilesKept
\* What NothingIsLost says of a step.
NoneLost == Places \ {NoFile} \subseteq (Places \cup excused)'

LEMMA TwoItems ==
    /\ Items = {1, 2}
    /\ \A i \in Items : i # 1 => i = 2 /\ 1 \in 1..(i - 1) /\ Items \ {i} = {1}
    /\ 1..(1 - 1) = {}
    BY DEF Items

\* One item goes on.
OnlyItem(i) == item' \in [Items -> ItemState] /\ \A j \in Items \ {i} : item'[j] = item[j]
\* The task goes on.
TaskOn == /\ task' \in TaskState /\ task'.kind = task.kind /\ task'.removes = task.removes
          /\ task'.replaces = task.replaces /\ task'.cancelled = task.cancelled

LEMMA Ending ==
    ASSUME Control, NEW status \in {"success", "failed"}, NEW why \in {"items", "time", "cancelled", "lookup"},
           EndTask(status, why)
    PROVE TaskOn /\ task'.pc = "end" /\ task'.status = status /\ task'.why = why /\ task'.failures = task.failures
    BY DEF Control, EndTask, TaskState, TaskOn, TaskPCs

\* The task ends; what it reports is in the logs.
LEMMA ControlEnds ==
    ASSUME Control, TaskOn, item' \in [Items -> ItemState], task'.pc = "end", task'.status \in {"success", "failed"},
           \A i \in Items : /\ item'[i].log = "success" => item'[i].done
                            /\ item'[i].pc # "ended" \/ item'[i] = item[i]
                            /\ item'[i].pc = "logged" => item'[i].log # "none",
           task'.status = "success" /\ ~task.cancelled =>
              /\ \E i \in Items : item'[i].log = "success"
              /\ task.kind # "compress" => \A i \in Items : item'[i].log = "success",
           task'.status = "failed" /\ task'.why = "items" => \E i \in Items : item'[i].log = "failed"
    PROVE Control'
<1>1. Progress'
    BY DEF Progress, TaskOn
<1>2. LogsAgree'
    BY DEF LogsAgree, Control, TaskOn
<1>3. BatchReportIsTrue'
    BY DEF BatchReportIsTrue, TaskOn
<1> QED
    BY <1>1, <1>2, <1>3 DEF Control, TaskOn

LEMMA SubmitControl ==
    ASSUME Control, NEW kind \in BatchKinds, NEW removes \in BOOLEAN, NEW replaces \in BOOLEAN, Submit(kind, removes, replaces)
    PROVE Control'
<1>1. task' \in TaskState
  <2>1. PICK pc \in TaskPCs :
          task' = [task EXCEPT !.kind = kind, !.removes = removes, !.replaces = replaces, !.pc = pc]
      BY DEF Submit, TaskPCs
  <2> QED
      BY <2>1 DEF Control, TaskState
<1>2. /\ task.pc = "new" /\ item' = item /\ task'.kind = kind /\ task'.cancelled = task.cancelled
      /\ task'.status = task.status /\ task'.failures = task.failures /\ task'.why = task.why
      /\ task'.pc = CASE kind \in {"copy", "move"} -> "plan" [] kind = "compress" -> "stage"
                      [] kind = "decompress" -> "unpack" [] kind = "video" -> "next" [] OTHER -> "run"
    BY DEF Control, Submit, AtTask, TaskState
<1>3. Progress'
    BY <1>2, TwoItems DEF Control, Progress, BatchKinds
<1>4. LogsAgree'
    BY <1>2, TwoItems DEF Control, Progress, LogsAgree, BatchKinds
<1>5. BatchReportIsTrue'
    BY <1>2 DEF Control, Progress, BatchReportIsTrue
<1> QED
    BY <1>1, <1>2, <1>3, <1>4, <1>5 DEF Control

LEMMA CancelControl == ASSUME Control, Cancel PROVE Control'
<1>1. /\ task' \in TaskState /\ task.pc # "end" /\ item' = item /\ task'.cancelled /\ task'.kind = task.kind
      /\ task'.pc = task.pc /\ task'.status = task.status /\ task'.failures = task.failures /\ task'.why = task.why
    BY DEF Control, Cancel, AtTask, TaskState
<1>2. Progress'
    BY <1>1 DEF Control, Progress, Staged, AtItem
<1>3. LogsAgree'
    BY <1>1 DEF Control, LogsAgree
<1>4. BatchReportIsTrue'
    BY <1>1 DEF Control, Progress, BatchReportIsTrue
<1> QED
    BY <1>1, <1>2, <1>3, <1>4 DEF Control

LEMMA TimeOutControl == ASSUME Control, TimeOutTask PROVE Control'
<1>1. /\ TaskOn /\ task'.pc = "end" /\ task'.status = "failed" /\ task'.why = "time" /\ item' = item
    BY DEF Control, TimeOutTask, TaskState, TaskOn, TaskPCs
<1> QED
    BY <1>1, ControlEnds DEF Control, LogsAgree

LEMMA PlanControl ==
    ASSUME Control, NEW i \in Items, UniqueName \in TargetNames, Plan(i)
    PROVE Control'
<1>1. /\ task.pc = "plan" /\ item[i].pc = "new" /\ (i = 2 => item[1].pc # "new")
    BY TwoItems DEF Plan, AtTask, AtItem
<1>2. TaskOn /\ task'.pc = (IF i = 2 THEN "run" ELSE "plan") /\ task'.failures = task.failures /\ task'.status = task.status /\ task'.why = task.why
    BY <1>1 DEF Control, Plan, TaskOn, TaskState, TaskPCs
<1>3. FirstName \in TargetNames /\ Reserved(UniqueName) \in TargetNames /\ Reserved(FirstName) \in TargetNames
    BY DEF FirstName, Reserved, Named, TargetNames
<1>4. /\ OnlyItem(i) /\ item'[i].pc = "planned" /\ item'[i].log = item[i].log /\ item'[i].done = item[i].done
      /\ item'[i].result = item[i].result /\ item'[i].to \in TargetNames
    BY <1>3 DEF Control, Plan, OnlyItem, ItemState, ItemPCs
<1>5. Progress'
    BY <1>1, <1>2, <1>4, TwoItems DEF Control, Progress, TaskOn, OnlyItem
<1>6. LogsAgree'
  <2>1. \A j \in Items : item[j].pc \in {"new", "planned"} /\ item[j].log = "none"
      BY <1>1, TwoItems DEF Control, Progress, LogsAgree
  <2> QED
      BY <1>1, <1>2, <1>4, TwoItems DEF Control, Progress, LogsAgree, TaskOn, OnlyItem
<1>7. BatchReportIsTrue'
    BY <1>1, <1>2, <1>4 DEF Control, Progress, BatchReportIsTrue, LogsAgree, TaskOn, OnlyItem
<1> QED
    BY <1>2, <1>4, <1>5, <1>6, <1>7 DEF Control, TaskOn, OnlyItem

LEMMA StartControl == ASSUME Control, NEW i \in Items, StartItem(i) PROVE Control'
<1>1. task.pc = "run" /\ task' = task /\ item[i].pc \in {"new", "planned"}
    BY DEF StartItem, AtTask
<1>2. /\ OnlyItem(i) /\ item'[i].log = item[i].log /\ item'[i].done = item[i].done /\ item'[i].to = item[i].to
      /\ \/ item'[i].pc = "begun"
         \/ item'[i].pc = "ended" /\ item'[i].result = "skipped" /\ task.cancelled
  <2>1. PICK me : me = IF task.cancelled THEN [item[i] EXCEPT !.pc = "ended", !.result = "skipped"]
                                         ELSE [item[i] EXCEPT !.pc = "begun"]
      OBVIOUS
  <2>2. item' = [item EXCEPT ![i] = me] /\ item \in [Items -> ItemState] /\ item[i] \in ItemState
      BY <2>1 DEF StartItem, Control
  <2>3. /\ me \in ItemState /\ me.log = item[i].log /\ me.done = item[i].done /\ me.to = item[i].to
        /\ me.pc = "begun" \/ (me.pc = "ended" /\ me.result = "skipped" /\ task.cancelled)
      BY <2>1, <2>2 DEF ItemState, ItemPCs
  <2> QED
      BY <2>2, <2>3 DEF OnlyItem
<1>3. Progress'
    BY <1>1, <1>2 DEF Control, Progress, OnlyItem
<1>4. LogsAgree'
    BY <1>1, <1>2 DEF Control, Progress, LogsAgree, OnlyItem
<1>5. BatchReportIsTrue'
    BY <1>1, <1>2 DEF Control, Progress, BatchReportIsTrue, OnlyItem
<1> QED
    BY <1>1, <1>2, <1>3, <1>4, <1>5 DEF Control, OnlyItem

\* The file operation of an item, whatever it does to the files.
LEMMA OperateControl == ASSUME Control, NEW i \in Items, Operate(i) PROVE Control'
<1>1. task.pc = "run" /\ task' = task /\ item[i].pc = "begun"
    BY DEF Operate, AtTask, AtItem
<1>2. PICK result \in {"ok", "error"}, done \in BOOLEAN : ItemEnded(i, result, done) /\ (result = "ok" => done)
    BY DEF Operate
<1>3. /\ OnlyItem(i) /\ item'[i].log = item[i].log /\ item'[i].to = item[i].to /\ item'[i].pc = "ended"
      /\ item'[i].result = result /\ item'[i].done = done
  <2> DEFINE me == [item[i] EXCEPT !.pc = "ended", !.result = result, !.done = done]
  <2>1. item \in [Items -> ItemState] /\ item[i] \in ItemState
      BY DEF Control
  <2>2. item' = [item EXCEPT ![i] = me]
      BY <1>2 DEF ItemEnded
  <2>3. me \in ItemState /\ me.log = item[i].log /\ me.to = item[i].to /\ me.pc = "ended" /\ me.result = result /\ me.done = done
      BY <2>1 DEF ItemState, ItemPCs
  <2> HIDE DEF me
  <2> QED
      BY <2>1, <2>2, <2>3 DEF OnlyItem
<1>4. Progress'
    BY <1>1, <1>3 DEF Control, Progress, OnlyItem
<1>5. LogsAgree'
    BY <1>1, <1>2, <1>3 DEF Control, Progress, LogsAgree, OnlyItem
<1>6. BatchReportIsTrue'
    BY <1>1, <1>3 DEF Control, Progress, LogsAgree, BatchReportIsTrue, OnlyItem
<1> QED
    BY <1>1, <1>3, <1>4, <1>5, <1>6 DEF Control, OnlyItem

LEMMA CollectControl == ASSUME Control, NEW i \in Items, Collect(i) PROVE Control'
<1>1. task.pc = "run" /\ item[i].pc = "ended"
    BY DEF Collect, AtTask, AtItem
<1>2. item[i].result \in {"ok", "error", "skipped"} /\ item[i].log = "none" /\ task.status = "pending"
    BY <1>1 DEF Control, Progress, LogsAgree, TaskState
<1>3. CASE task.cancelled \/ item[i].result = "skipped"
  <2>1. TaskOn /\ task'.pc = "report" /\ item' = item /\ task'.failures = task.failures /\ task'.status = task.status
        /\ task.cancelled
      BY <1>1, <1>2, <1>3 DEF Control, Collect, TaskOn, TaskState, TaskPCs, LogsAgree
  <2>2. Progress'
      BY <1>1, <2>1 DEF Control, Progress, TaskOn
  <2>3. LogsAgree'
      BY <1>1, <2>1 DEF Control, LogsAgree, TaskOn
  <2>4. BatchReportIsTrue'
      BY <1>2, <2>1 DEF Control, BatchReportIsTrue, TaskOn
  <2> QED
      BY <2>1, <2>2, <2>3, <2>4 DEF Control, TaskOn
<1>4. CASE ~(task.cancelled \/ item[i].result = "skipped")
  <2>1. /\ OnlyItem(i) /\ item'[i].pc = "logged" /\ item'[i].log = Logged(i) /\ item'[i].done = item[i].done
        /\ item'[i].to = item[i].to
      BY <1>1, <1>4 DEF Control, Collect, OnlyItem, ItemState, ItemPCs, Logged
  <2>2. /\ Failed(i) \in {0, 1} /\ (Failed(i) = 1 <=> Logged(i) = "failed") /\ Logged(i) \in {"success", "failed"}
        /\ Logged(i) = "success" => item[i].done
      BY <1>1, <1>2, <1>4 DEF Failed, Logged, Control, LogsAgree
  <2>3. /\ TaskOn /\ task'.failures = task.failures + Failed(i) /\ task'.status = task.status
        /\ task'.pc = (IF \A j \in Items \ {i} : AtItem(j, "logged") THEN "report" ELSE "run")
    <3>1. PICK pc \in {"report", "run"} : pc = (IF \A j \in Items \ {i} : AtItem(j, "logged") THEN "report" ELSE "run")
        OBVIOUS
    <3>2. PICK n \in Nat : n = task.failures + Failed(i)
        BY <2>2 DEF Control, TaskState
    <3>3. task' = [task EXCEPT !.failures = n, !.pc = pc]
        BY <1>4, <3>1, <3>2 DEF Collect
    <3>4. TaskOn /\ task'.failures = n /\ task'.status = task.status /\ task'.pc = pc
        BY <3>3 DEF Control, TaskOn, TaskState, TaskPCs
    <3> QED
        BY <3>1, <3>2, <3>4
  <2>4. task.failures \in Nat
      BY DEF Control, TaskState
  <2>5. Progress'
      BY <1>1, <1>2, <2>1, <2>3 DEF Control, Progress, TaskOn, OnlyItem
  <2>6. LogsAgree'
    <3>1. task'.failures = 0 <=> task.failures = 0 /\ Logged(i) = "success"
        BY <2>2, <2>3, <2>4
    <3>2. task'.pc = "report" => \A j \in Items : item'[j].pc = "logged"
        BY <2>1, <2>3 DEF AtItem, OnlyItem
    <3>3. task'.failures = 0 => \A j \in Items : item'[j].log # "failed"
        BY <1>1, <2>1, <2>2, <3>1 DEF OnlyItem, Control, LogsAgree
    <3>4. task'.failures # 0 => \E j \in Items : item'[j].log = "failed"
      <4>1. CASE Logged(i) = "failed"
          BY <2>1, <4>1
      <4>2. CASE task.failures # 0
        <5>1. PICK j \in Items : item[j].log = "failed"
            BY <1>1, <4>2 DEF Control, LogsAgree
        <5> QED
            BY <1>2, <2>1, <5>1 DEF OnlyItem
      <4> QED
          BY <2>2, <3>1, <4>1, <4>2
    <3>5. task'.pc \in {"run", "report"}
        BY <2>3
    <3> QED
        BY <1>1, <2>1, <2>2, <2>3, <3>2, <3>3, <3>4, <3>5 DEF OnlyItem, Control, LogsAgree, TaskOn
  <2>7. BatchReportIsTrue'
      BY <1>2, <2>1, <2>2, <2>3 DEF Control, BatchReportIsTrue, TaskOn, OnlyItem, LogsAgree
  <2> QED
      BY <2>1, <2>3, <2>5, <2>6, <2>7 DEF Control, TaskOn, OnlyItem
<1> QED
    BY <1>3, <1>4

LEMMA ReportControl == ASSUME Control, Report PROVE Control'
<1>1. task.pc = "report" /\ EndTask(Outcome, "items") /\ item' = item /\ Outcome \in {"success", "failed"}
    BY DEF Report, AtTask, Outcome
<1>2. TaskOn /\ task'.pc = "end" /\ task'.status = Outcome /\ task'.why = "items"
    BY <1>1, Ending
<1>3. /\ Outcome = "success" /\ ~task.cancelled => \A i \in Items : item[i].log = "success"
      /\ Outcome = "failed" => \E i \in Items : item[i].log = "failed"
    BY <1>1 DEF Control, LogsAgree, Outcome, ItemState
<1> QED
    BY <1>1, <1>2, <1>3, ControlEnds, TwoItems DEF Control, LogsAgree

LEMMA StageControl == ASSUME Control, NEW i \in Items, \A j \in Items : sources[j] \in Stuff, Stage(i) PROVE Control'
<1>1. task.pc = "stage" /\ item[i].pc = "new" /\ (i = 2 => item[1].pc # "new")
    BY TwoItems DEF Stage, AtTask, AtItem
<1>2. TaskOn /\ task'.pc = (IF i = 2 THEN "pack" ELSE "stage") /\ task'.failures = task.failures /\ task'.status = task.status /\ task'.why = task.why
    BY <1>1 DEF Control, Stage, TaskOn, TaskState, TaskPCs
<1>3. /\ OnlyItem(i) /\ item'[i].done = item[i].done /\ item'[i].to = item[i].to
      /\ \/ item'[i].pc = "staged" /\ item'[i].log = item[i].log
         \/ item'[i].pc = "logged" /\ item'[i].log = "failed"
    BY DEF Control, Stage, OnlyItem, ItemState, ItemPCs
<1>4. Progress'
    BY <1>1, <1>2, <1>3, TwoItems DEF Control, Progress, TaskOn, OnlyItem
<1>5. LogsAgree'
    BY <1>1, <1>2, <1>3, TwoItems DEF Control, Progress, LogsAgree, TaskOn, OnlyItem
<1>6. BatchReportIsTrue'
    BY <1>1, <1>2, <1>3 DEF Control, Progress, BatchReportIsTrue, LogsAgree, TaskOn, OnlyItem
<1> QED
    BY <1>2, <1>3, <1>4, <1>5, <1>6 DEF Control, TaskOn, OnlyItem

\* What was staged is logged.
LEMMA StagedLogged ==
    ASSUME Control, NEW result \in {"success", "failed"}, NEW done \in BOOLEAN, LogStaged(result, done)
    PROVE /\ item' \in [Items -> ItemState]
          /\ \A i \in Staged : item'[i].pc = "logged" /\ item'[i].log = result /\ item'[i].done = done
          /\ \A i \in Items \ Staged : item'[i] = item[i]
<1>1. \A i \in Items : item[i] \in ItemState
    BY DEF Control
<1>2. \A i \in Items : [item[i] EXCEPT !.pc = "logged", !.log = result, !.done = done] \in ItemState
    BY <1>1 DEF ItemState, ItemPCs
<1>3. \A i \in Staged : item'[i] = [item[i] EXCEPT !.pc = "logged", !.log = result, !.done = done]
    BY DEF LogStaged, Staged
<1>4. \A i \in Items \ Staged : item'[i] = item[i]
    BY DEF LogStaged
<1>5. item' \in [Items -> ItemState]
    BY <1>1, <1>2 DEF LogStaged
<1>6. \A i \in Staged : item'[i].pc = "logged" /\ item'[i].log = result /\ item'[i].done = done
    BY <1>1, <1>3 DEF ItemState, Staged
<1> QED
    BY <1>4, <1>5, <1>6

LEMMA PackControl == ASSUME Control, Pack PROVE Control'
<1>1. task.pc = "pack" /\ Staged # {} /\ Staged \subseteq Items
    BY DEF Pack, AtTask, Staged
<1>2. CASE task' = [task EXCEPT !.pc = AfterPack] /\ item' = item
  <2>1. /\ TaskOn /\ task'.pc \in {"clear", "packed"} /\ task'.failures = task.failures /\ task'.status = task.status
        /\ task'.why = task.why
      BY <1>2 DEF Control, TaskOn, AfterPack, TaskState, TaskPCs
  <2>2. Progress'
      BY <1>1, <1>2, <2>1 DEF Control, Progress, TaskOn, Staged, AtItem
  <2>3. LogsAgree'
      BY <1>1, <1>2, <2>1 DEF Control, LogsAgree, TaskOn
  <2>4. BatchReportIsTrue'
      BY <1>1, <1>2, <2>1 DEF Control, Progress, BatchReportIsTrue, TaskOn
  <2> QED
      BY <1>2, <2>1, <2>2, <2>3, <2>4 DEF Control, TaskOn
<1>3. CASE LogStaged("failed", FALSE) /\ EndTask("failed", "items")
  <2>1. TaskOn /\ task'.pc = "end" /\ task'.status = "failed" /\ task'.why = "items"
      BY <1>3, Ending
  <2>2. /\ item' \in [Items -> ItemState]
        /\ \A i \in Staged : item'[i].pc = "logged" /\ item'[i].log = "failed" /\ item'[i].done = FALSE
        /\ \A i \in Items \ Staged : item'[i] = item[i]
      BY <1>3, StagedLogged
  <2>3. \A i \in Items : /\ item'[i].log = "success" => item'[i].done
                         /\ item'[i].pc # "ended" \/ item'[i] = item[i]
                         /\ item'[i].pc = "logged" => item'[i].log # "none"
      BY <2>2 DEF Control, LogsAgree
  <2>4. \E i \in Items : item'[i].log = "failed"
      BY <1>1, <2>2
  <2> QED
      BY <2>1, <2>2, <2>3, <2>4, ControlEnds
<1> QED
    BY <1>2, <1>3 DEF Pack

LEMMA PackNothingControl == ASSUME Control, PackNothing PROVE Control'
<1>1. task.pc = "pack" /\ Staged = {} /\ EndTask("failed", "items") /\ item' = item
    BY DEF PackNothing, AtTask
<1>2. TaskOn /\ task'.pc = "end" /\ task'.status = "failed" /\ task'.why = "items"
    BY <1>1, Ending
<1>3. item[1].log = "failed" /\ 1 \in Items
    BY <1>1, TwoItems DEF Control, Progress, LogsAgree, Staged, AtItem
<1> QED
    BY <1>1, <1>2, <1>3, ControlEnds DEF Control, LogsAgree

LEMMA ClearControl == ASSUME Control, NEW i \in Items, ClearSource(i) PROVE Control'
<1>1. task.pc = "clear" /\ item[i].pc = "staged" /\ task' = task
    BY DEF ClearSource, AtTask, AtItem
<1>2. OnlyItem(i) /\ item'[i].pc = item[i].pc /\ item'[i].log = item[i].log /\ item'[i].to = item[i].to /\ item'[i].done
    BY DEF Control, ClearSource, OnlyItem, ItemState
<1>3. Staged' = Staged
    BY <1>2 DEF Staged, AtItem, OnlyItem
<1>4. Progress'
    BY <1>1, <1>2, <1>3 DEF Control, Progress, OnlyItem
<1>5. LogsAgree'
    BY <1>1, <1>2 DEF Control, Progress, LogsAgree, OnlyItem
<1>6. BatchReportIsTrue'
    BY <1>1, <1>2 DEF Control, Progress, BatchReportIsTrue, OnlyItem
<1> QED
    BY <1>1, <1>2, <1>4, <1>5, <1>6 DEF Control, OnlyItem

LEMMA ReportPackControl == ASSUME Control, ReportPack PROVE Control'
<1>1. task.pc \in {"packed", "clear"} /\ LogStaged("success", TRUE) /\ EndTask("success", "items")
    BY DEF ReportPack, AtTask
<1>2. TaskOn /\ task'.pc = "end" /\ task'.status = "success" /\ task'.why = "items" /\ task.kind = "compress" /\ Staged # {}
    BY <1>1, Ending DEF Control, Progress
<1>3. /\ item' \in [Items -> ItemState]
      /\ \A i \in Staged : item'[i].pc = "logged" /\ item'[i].log = "success" /\ item'[i].done = TRUE
      /\ \A i \in Items \ Staged : item'[i] = item[i]
    BY <1>1, StagedLogged
<1>4. \A i \in Items : /\ item'[i].log = "success" => item'[i].done
                       /\ item'[i].pc # "ended" \/ item'[i] = item[i]
                       /\ item'[i].pc = "logged" => item'[i].log # "none"
    BY <1>3 DEF Control, LogsAgree
<1>5. \E i \in Items : item'[i].log = "success"
    BY <1>2, <1>3 DEF Staged
<1> QED
    BY <1>2, <1>3, <1>4, <1>5, ControlEnds

LEMMA UnpackControl == ASSUME Control, NEW i \in Items, Unpack(i) PROVE Control'
<1>1. task.pc = "unpack" /\ item[i].pc = "new"
    BY DEF Unpack, AtTask, AtItem
<1>2. CASE task' = task /\ item' = [item EXCEPT ![i].pc = "unpacked"]
  <2>1. OnlyItem(i) /\ item'[i].pc = "unpacked" /\ item'[i].log = item[i].log /\ item'[i].to = item[i].to /\ item'[i].done = item[i].done
      BY <1>2 DEF Control, OnlyItem, ItemState, ItemPCs
  <2>2. Progress'
      BY <1>1, <1>2, <2>1 DEF Control, Progress, OnlyItem
  <2>3. LogsAgree'
      BY <1>1, <1>2, <2>1 DEF Control, Progress, LogsAgree, OnlyItem
  <2>4. BatchReportIsTrue'
      BY <1>1, <1>2, <2>1 DEF Control, Progress, BatchReportIsTrue, OnlyItem
  <2> QED
      BY <1>2, <2>1, <2>2, <2>3, <2>4 DEF Control, OnlyItem
<1>3. CASE EndTask("failed", "items") /\ item' = [item EXCEPT ![1].log = "failed"]
  <2>1. TaskOn /\ task'.pc = "end" /\ task'.status = "failed" /\ task'.why = "items"
      BY <1>3, Ending
  <2>2. 1 \in Items /\ OnlyItem(1) /\ item'[1].pc = item[1].pc /\ item'[1].log = "failed"
      BY <1>3, TwoItems DEF Control, OnlyItem, ItemState
  <2>3. \A j \in Items : item[j].pc \in {"new", "unpacked"}
      BY <1>1 DEF Control, Progress
  <2> QED
      BY <2>1, <2>2, <2>3, ControlEnds DEF Control, LogsAgree, OnlyItem
<1> QED
    BY <1>2, <1>3 DEF Unpack

LEMMA ReportUnpackControl == ASSUME Control, ReportUnpack PROVE Control'
<1>1. task.pc = "unpack" /\ \A i \in Items : item[i].pc = "unpacked" /\ item[i] \in ItemState
    BY DEF ReportUnpack, AtTask, AtItem, Control
<1>2. CASE EndTask("success", "items") /\ item' = [i \in Items |-> [item[i] EXCEPT !.log = "success", !.done = TRUE]]
  <2>1. TaskOn /\ task'.pc = "end" /\ task'.status = "success" /\ task'.why = "items"
      BY <1>2, Ending
  <2>2. \A i \in Items : /\ item'[i] \in ItemState /\ item'[i].pc = "unpacked" /\ item'[i].log = "success" /\ item'[i].done
      BY <1>1, <1>2 DEF ItemState
  <2>3. item' \in [Items -> ItemState]
      BY <1>2, <2>2
  <2> QED
      BY <2>1, <2>2, <2>3, ControlEnds, TwoItems
<1>3. CASE EndTask("failed", "items") /\ item' = [item EXCEPT ![1].log = "failed"]
  <2>1. TaskOn /\ task'.pc = "end" /\ task'.status = "failed" /\ task'.why = "items"
      BY <1>3, Ending
  <2>2. 1 \in Items /\ OnlyItem(1) /\ item'[1].pc = item[1].pc /\ item'[1].log = "failed"
      BY <1>3, TwoItems DEF Control, OnlyItem, ItemState
  <2> QED
      BY <1>1, <2>1, <2>2, ControlEnds DEF Control, LogsAgree, OnlyItem
<1> QED
    BY <1>2, <1>3 DEF ReportUnpack

LEMMA ChooseControl ==
    ASSUME Control, NEW i \in Items, UniqueName \in TargetNames, \A j \in Items : sources[j] \in Stuff, ChooseOutput(i)
    PROVE Control'
<1>1. task.pc = "next" /\ item[i].pc = "new" /\ (i = 2 => item[1].pc # "new")
    BY TwoItems DEF ChooseOutput, NextVideo, AtTask, AtItem
<1>2. ASSUME NEW why \in {"cancelled", "lookup"}, EndTask("failed", why), item' = item PROVE Control'
  <2>1. TaskOn /\ task'.pc = "end" /\ task'.status = "failed" /\ task'.why = why
      BY <1>2, Ending
  <2> QED
      BY <1>2, <2>1, ControlEnds DEF Control, LogsAgree
<1>3. ASSUME NEW to \in TargetNames, task' = [task EXCEPT !.pc = "video"],
             item' = [item EXCEPT ![i].pc = "begun", ![i].copy = sources[i], ![i].to = to]
      PROVE Control'
  <2>1. /\ TaskOn /\ task'.pc = "video" /\ task'.failures = task.failures /\ task'.status = task.status /\ task'.why = task.why
      BY <1>3 DEF Control, TaskOn, TaskState, TaskPCs
  <2>2. OnlyItem(i) /\ item'[i].pc = "begun" /\ item'[i].log = item[i].log /\ item'[i].done = item[i].done
    <3> DEFINE me == [item[i] EXCEPT !.pc = "begun", !.copy = sources[i], !.to = to]
    <3>1. item \in [Items -> ItemState] /\ item[i] \in ItemState
        BY DEF Control
    <3>2. me \in ItemState /\ me.log = item[i].log /\ me.pc = "begun" /\ me.done = item[i].done
        BY <3>1 DEF ItemState, ItemPCs
    <3>3. item' = [item EXCEPT ![i] = me]
        BY <1>3
    <3> HIDE DEF me
    <3> QED
        BY <3>1, <3>2, <3>3 DEF OnlyItem
  <2>3. Progress'
      BY <1>1, <2>1, <2>2, TwoItems DEF Control, Progress, TaskOn, OnlyItem
  <2>4. LogsAgree'
      BY <1>1, <2>1, <2>2 DEF Control, LogsAgree, TaskOn, OnlyItem
  <2>5. BatchReportIsTrue'
      BY <1>1, <2>1, <2>2 DEF Control, Progress, BatchReportIsTrue, TaskOn, OnlyItem
  <2> QED
      BY <2>1, <2>2, <2>3, <2>4, <2>5 DEF Control, TaskOn, OnlyItem
<1>4. FirstName \in TargetNames
    BY DEF FirstName, Named, TargetNames
<1>5. PICK to \in TargetNames : to = IF task.replaces THEN FirstName ELSE UniqueName
    BY <1>4
<1> QED
    BY <1>2, <1>3, <1>5 DEF ChooseOutput

VideoEnds(i, n, me) ==
    /\ task' = [task EXCEPT !.failures = task.failures + n, !.pc = IF i = 2 THEN "report" ELSE "next"]
    /\ item' = [item EXCEPT ![i] = me]

\* A video is done with, made or not, and the next one follows.
LEMMA NextVideoControl ==
    ASSUME Control, NEW i \in Items, task.pc = "video", item[i].pc \in {"begun", "made"},
           NEW n \in {0, 1}, NEW me \in ItemState, me.pc = "logged",
           n = 0 => me.log = "success" /\ me.done, n = 1 => me.log = "failed",
           VideoEnds(i, n, me)
    PROVE Control'
<1>1. task.failures \in Nat /\ task.failures + n \in Nat /\ (task.failures + n = 0 <=> task.failures = 0 /\ n = 0)
    BY DEF Control, TaskState
<1>2. /\ TaskOn /\ task'.pc = (IF i = 2 THEN "report" ELSE "next") /\ task'.failures = task.failures + n
      /\ task'.status = task.status /\ task'.why = task.why
    BY <1>1 DEF VideoEnds, Control, TaskOn, TaskState, TaskPCs
<1>3. OnlyItem(i) /\ item'[i] = me
    BY DEF VideoEnds, Control, OnlyItem
<1>4. item[i].log = "none" /\ task.status = "pending"
    BY DEF Control, LogsAgree, Progress, TaskState
<1>5. Progress'
    BY <1>2, <1>3, <1>4, TwoItems DEF Control, Progress, TaskOn, OnlyItem
<1>6. LogsAgree'
  <2>1. task'.failures = 0 => \A j \in Items : item'[j].log # "failed"
      BY <1>1, <1>2, <1>3 DEF OnlyItem, Control, LogsAgree
  <2>2. task'.failures # 0 => \E j \in Items : item'[j].log = "failed"
    <3>1. CASE n = 1
        BY <1>3, <3>1
    <3>2. CASE task.failures # 0
      <4>1. PICK j \in Items : item[j].log = "failed"
          BY <3>2 DEF Control, LogsAgree
      <4> QED
          BY <1>3, <1>4, <4>1 DEF OnlyItem
    <3> QED
        BY <1>1, <1>2, <3>1, <3>2
  <2>3. task'.pc = "report" => \A j \in Items : item'[j].pc = "logged"
      BY <1>2, <1>3, TwoItems DEF Control, Progress, OnlyItem
  <2> QED
      BY <1>2, <1>3, <2>1, <2>2, <2>3 DEF Control, LogsAgree, TaskOn, OnlyItem
<1>7. BatchReportIsTrue'
    BY <1>2, <1>3, <1>4 DEF Control, BatchReportIsTrue, TaskOn, OnlyItem
<1> QED
    BY <1>2, <1>3, <1>5, <1>6, <1>7 DEF Control, TaskOn, OnlyItem

LEMMA WriteVideoControl == ASSUME Control, NEW i \in Items, WriteVideo(i) PROVE Control'
<1>1. task.pc = "video" /\ item[i].pc = "begun" /\ item[i] \in ItemState
    BY DEF WriteVideo, AtTask, AtItem, Control
<1>2. CASE item' = [item EXCEPT ![i].pc = "made", ![i].result = "ok"] /\ task' = task
  <2>1. OnlyItem(i) /\ item'[i].pc = "made" /\ item'[i].log = item[i].log /\ item'[i].to = item[i].to /\ item'[i].done = item[i].done
    <3> DEFINE me == [item[i] EXCEPT !.pc = "made", !.result = "ok"]
    <3>1. item \in [Items -> ItemState]
        BY DEF Control
    <3>2. me \in ItemState /\ me.log = item[i].log /\ me.to = item[i].to /\ me.pc = "made" /\ me.done = item[i].done
        BY <1>1 DEF ItemState, ItemPCs
    <3>3. item' = [item EXCEPT ![i] = me]
        BY <1>2
    <3> HIDE DEF me
    <3> QED
        BY <3>1, <3>2, <3>3 DEF OnlyItem
  <2>2. Progress'
      BY <1>1, <1>2, <2>1, TwoItems DEF Control, Progress, OnlyItem
  <2>3. LogsAgree'
      BY <1>1, <1>2, <2>1 DEF Control, Progress, LogsAgree, OnlyItem
  <2>4. BatchReportIsTrue'
      BY <1>1, <1>2, <2>1 DEF Control, Progress, BatchReportIsTrue, OnlyItem
  <2> QED
      BY <1>2, <2>1, <2>2, <2>3, <2>4 DEF Control, OnlyItem
<1>3. CASE /\ item' = [item EXCEPT ![i].pc = "logged", ![i].result = "error", ![i].log = "failed"]
           /\ task' = [task EXCEPT !.failures = @ + 1, !.pc = IF i = 2 THEN "report" ELSE "next"]
  <2> DEFINE me == [item[i] EXCEPT !.pc = "logged", !.result = "error", !.log = "failed"]
  <2>1. me \in ItemState /\ me.pc = "logged" /\ me.log = "failed" /\ item' = [item EXCEPT ![i] = me]
      BY <1>1, <1>3 DEF ItemState, ItemPCs
  <2> HIDE DEF me
  <2>2. VideoEnds(i, 1, me)
      BY <1>3, <2>1 DEF VideoEnds
  <2> QED
      BY <1>1, <2>1, <2>2, NextVideoControl
<1> QED
    BY <1>2, <1>3 DEF WriteVideo

LEMMA RemoveVideoControl == ASSUME Control, NEW i \in Items, RemoveVideo(i) PROVE Control'
<1>1. task.pc = "video" /\ item[i].pc = "made" /\ item[i] \in ItemState /\ task \in TaskState
    BY DEF RemoveVideo, AtTask, AtItem, Control
<1> DEFINE me == [item[i] EXCEPT !.pc = "logged", !.log = "success", !.done = TRUE]
<1>2. me \in ItemState /\ me.pc = "logged" /\ me.log = "success" /\ me.done
    BY <1>1 DEF ItemState, ItemPCs
<1>3. item' = [item EXCEPT ![i] = me]
    BY DEF RemoveVideo
<1>4. task' = [task EXCEPT !.failures = task.failures + 0, !.pc = IF i = 2 THEN "report" ELSE "next"]
  <2>1. task.failures + 0 = task.failures
      BY <1>1 DEF TaskState
  <2>2. [task EXCEPT !.failures = task.failures] = task
      BY <1>1 DEF TaskState
  <2>3. task' = [task EXCEPT !.pc = IF i = 2 THEN "report" ELSE "next"]
      BY DEF RemoveVideo
  <2> QED
      BY <1>1, <2>1, <2>2, <2>3 DEF TaskState
<1> HIDE DEF me
<1>5. VideoEnds(i, 0, me)
    BY <1>3, <1>4 DEF VideoEnds
<1> QED
    BY <1>1, <1>2, <1>5, NextVideoControl

-----------------------------------------------------------------------------
(* The files of a batch                                                     *)

LEMMA TheNames ==
    /\ \A u \in 0..4, n \in 0..1 : Named(u, n) \in TargetNames /\ Named(u, n).u = u /\ Named(u, n).n = n
    /\ \A u, v \in 0..4, m, n \in 0..1 : Named(u, m) = Named(v, n) <=> u = v /\ m = n
    /\ \A i \in Items : EntryName(i) \in TargetNames
    /\ \A i, j \in Items : i # j => EntryName(i) # EntryName(j)
    /\ \A i \in Items, u \in 2..4 : EntryName(i) # Named(u, 0)
    /\ \A x \in TakenByOthers, u \in 2..4 : x \in TargetNames /\ x # Named(u, 0)
    /\ FirstName \in TargetNames /\ \A u \in 2..4 : FirstName # Named(u, 0)
    BY DEF Named, TargetNames, EntryName, TakenByOthers, FirstName, Items

\* Some name is free, and the first one is found.
LEMMA FreeName == ASSUME NamesTaken PROVE UniqueName \in TargetNames /\ UniqueName.n = 0 /\ target[UniqueName] = NoFile
<1>1. \E u \in 2..4 : target[Named(u, 0)] = NoFile
  <2> SUFFICES ASSUME \A u \in 2..4 : target[Named(u, 0)] # NoFile PROVE FALSE
      OBVIOUS
  <2>1. \A u \in 2..4 : item[1].to = Named(u, 0) \/ item[2].to = Named(u, 0)
      BY TwoItems DEF NamesTaken
  <2>2. Named(2, 0) # Named(3, 0) /\ Named(2, 0) # Named(4, 0) /\ Named(3, 0) # Named(4, 0)
      BY DEF Named
  <2>3. 2 \in 2..4 /\ 3 \in 2..4 /\ 4 \in 2..4
      OBVIOUS
  <2> QED
      BY <2>1, <2>2, <2>3
<1> DEFINE Free(u) == target[Named(u, 0)] = NoFile
           First(u) == Free(u) /\ \A v \in 0..(u - 1) : ~Free(v)
<1>2. \E u \in 0..4 : First(u)
  <2>1. Free(0) \/ Free(1) \/ Free(2) \/ Free(3) \/ Free(4)
      BY <1>1
  <2>2. 0..(0 - 1) = {} /\ 0..(1 - 1) = {0} /\ 0..(2 - 1) = {0, 1} /\ 0..(3 - 1) = {0, 1, 2} /\ 0..(4 - 1) = {0, 1, 2, 3}
      OBVIOUS
  <2>3. 0 \in 0..4 /\ 1 \in 0..4 /\ 2 \in 0..4 /\ 3 \in 0..4 /\ 4 \in 0..4
      OBVIOUS
  <2> HIDE DEF Free
  <2> QED
      BY <2>1, <2>2, <2>3
<1> DEFINE c == CHOOSE u \in 0..4 : First(u)
<1>3. c \in 0..4 /\ First(c)
    BY <1>2
<1>4. UniqueName = Named(c, 0)
    BY DEF UniqueName
<1> HIDE DEF c, First, Free
<1>5. target[Named(c, 0)] = NoFile
    BY <1>3 DEF First, Free
<1> QED
    BY <1>3, <1>4, <1>5, TheNames

LEMMA StuffIs ==
    /\ NoFile \in Stuff /\ <<"new", 1>> \in Stuff
    /\ \A i \in Items : <<"source", i>> \in Stuff /\ <<"packed", i>> \in Stuff
    /\ \A n \in 0..1 : <<"there", n>> \in Stuff
    BY DEF Stuff, Items

\* A step that leaves the files alone loses none.
LEMMA AlonesKept == ASSUME UnchangedFiles PROVE NoneLost
    BY DEF UnchangedFiles, NoneLost, Places

\* What is lost by nobody.
LEMMA AllKept ==
    ASSUME \A i \in Items : sources[i] \in (Places \cup excused)' \cup {NoFile},
           \A x \in TargetNames : target[x] \in (Places \cup excused)' \cup {NoFile},
           \A i \in Items : pack[i] \in (Places \cup excused)' \cup {NoFile},
           \A z \in trash : z \in (Places \cup excused)' \cup {NoFile}
    PROVE NoneLost
    BY DEF NoneLost, Places

LEMMA SubmitFiles ==
    ASSUME BatchInv, NEW kind \in BatchKinds, NEW removes \in BOOLEAN, NEW replaces \in BOOLEAN, Submit(kind, removes, replaces)
    PROVE FileTypes' /\ FilesKept'
<1>1. /\ UNCHANGED <<sources, target, pack, trash, excused, foreign, edited, item>>
      /\ \A i \in Items : item[i].pc = "new"
      /\ task'.pc \in {"plan", "stage", "unpack", "next", "run"}
    BY DEF Submit, UnchangedFiles, BatchInv, Control, Progress, AtTask, TaskState
<1>2. FilesKept'
    BY <1>1 DEF BatchInv, FilesKept, NamesTaken, GoesToFreeName, KeptBefore
<1> QED
    BY <1>1, <1>2 DEF BatchInv, FileTypes

LEMMA CancelFiles == ASSUME BatchInv, Cancel PROVE FileTypes' /\ FilesKept'
<1>1. /\ UNCHANGED <<sources, target, pack, trash, excused, foreign, edited, item>>
      /\ task'.pc = task.pc /\ task'.kind = task.kind /\ task'.replaces = task.replaces
    BY DEF Cancel, UnchangedFiles, BatchInv, Control, TaskState
<1> QED
    BY <1>1 DEF BatchInv, FileTypes, FilesKept, NamesTaken, GoesToFreeName, KeptBefore, Unseen

\* The task ends, however.
LEMMA EndFiles ==
    ASSUME BatchInv, UNCHANGED <<sources, target, pack, trash, excused, foreign, edited>>,
           TaskOn, task'.pc = "end", item' \in [Items -> ItemState],
           \A i \in Items : /\ item'[i].to = item[i].to /\ item'[i].blind = item[i].blind /\ item'[i].copy = item[i].copy
                            /\ item'[i].pc \in {item[i].pc, "logged", "unpacked"}
    PROVE FileTypes' /\ FilesKept'
<1>1. FileTypes' /\ NamesTaken'
    BY DEF BatchInv, FileTypes, FilesKept, NamesTaken
<1>2. \A i \in Items : GoesToFreeName(i)'
    BY DEF BatchInv, FilesKept, GoesToFreeName, TaskOn, Unseen
<1>3. \A i \in Items : KeptBefore(i)'
    BY DEF BatchInv, FilesKept, KeptBefore
<1> QED
    BY <1>1, <1>2, <1>3 DEF FilesKept

LEMMA WriteSourceFiles == ASSUME BatchInv, NEW i \in Items, WriteSource(i) PROVE FileTypes' /\ FilesKept' /\ NoneLost
<1>1. /\ sources' = [sources EXCEPT ![i] = <<"new", 1>>] /\ edited' = edited \cup {i}
      /\ excused' = excused \cup {sources[i]} /\ UNCHANGED <<target, pack, trash, task, item, foreign>>
    BY DEF WriteSource
<1>2. FileTypes'
    BY <1>1, StuffIs DEF BatchInv, FileTypes
<1>3. FilesKept'
    BY <1>1 DEF BatchInv, FileTypes, FilesKept, NamesTaken, GoesToFreeName, KeptBefore, Unseen
<1>4. NoneLost
    BY <1>1 DEF BatchInv, FileTypes, NoneLost, Places
<1> QED
    BY <1>2, <1>3, <1>4

LEMMA WriteTargetFiles == ASSUME BatchInv, NEW x \in TakenByOthers, WriteTarget(x) PROVE FileTypes' /\ FilesKept' /\ NoneLost
<1>0. x \in TargetNames /\ \A u \in 2..4 : x # Named(u, 0)
    BY TheNames
<1>1. /\ target' = [target EXCEPT ![x] = <<"new", 1>>] /\ foreign' = foreign \cup {x}
      /\ excused' = excused \cup {target[x]} /\ UNCHANGED <<sources, pack, trash, task, item, edited>>
    BY DEF WriteTarget
<1>2. FileTypes'
    BY <1>0, <1>1, StuffIs DEF BatchInv, FileTypes
<1>3. \A y \in TargetNames \ {x} : target'[y] = target[y]
    BY <1>1 DEF BatchInv, FileTypes
<1>4. NamesTaken'
    BY <1>0, <1>1, <1>3, TheNames DEF BatchInv, FilesKept, NamesTaken
<1>5. \A i \in Items : item[i].to \in TargetNames \cup {NoFile}
    BY DEF BatchInv, Control, ItemState
<1>6. \A i \in Items : GoesToFreeName(i)'
    BY <1>1, <1>3, <1>5 DEF BatchInv, FilesKept, GoesToFreeName, Unseen
<1>7. \A i \in Items : KeptBefore(i)'
    BY <1>1, <1>3, <1>5, TheNames DEF BatchInv, FilesKept, KeptBefore
<1>8. NoneLost
  <2>1. \A y \in TargetNames : target[y] \in (Places \cup excused)'
      BY <1>1, <1>3 DEF Places
  <2>2. \A i \in Items : sources[i] \in Places' /\ pack[i] \in Places'
      BY <1>1 DEF Places
  <2>3. \A z \in trash : z \in Places'
      BY <1>1 DEF Places
  <2> QED
      BY <2>1, <2>2, <2>3, AllKept
<1> QED
    BY <1>2, <1>4, <1>6, <1>7, <1>8 DEF FilesKept

LEMMA PlanFiles == ASSUME BatchInv, NEW i \in Items, Plan(i) PROVE FileTypes' /\ FilesKept'
<1>0. UniqueName \in TargetNames /\ UniqueName.n = 0 /\ target[UniqueName] = NoFile
    BY FreeName DEF BatchInv, FilesKept
<1>1. /\ task.pc = "plan" /\ item[i].pc = "new" /\ item \in [Items -> ItemState] /\ item[i] \in ItemState
      /\ \A j \in Items : item[j].pc \in {"new", "planned"} /\ (item[j].pc = "new" => item[j].to = NoFile)
      /\ UNCHANGED <<sources, target, pack, trash, excused, foreign, edited>> /\ item[i].to = NoFile
    BY TwoItems DEF Plan, AtTask, AtItem, UnchangedFiles, BatchInv, Control, Progress
<1>2. task'.kind = task.kind /\ task'.pc \in {"plan", "run"}
    BY <1>1 DEF Plan, BatchInv, Control, TaskState
<1>3. PICK x \in {UniqueName, FirstName}, blind \in BOOLEAN :
        /\ item' = [item EXCEPT ![i] = [@ EXCEPT !.pc = "planned", !.to = Reserved(x), !.blind = blind]]
        /\ x = UniqueName \/ blind
  <2>1. CASE item' = [item EXCEPT ![i].pc = "planned", ![i].to = Reserved(UniqueName)]
    <3>1. item[i].blind \in BOOLEAN /\ [item[i] EXCEPT !.pc = "planned", !.to = Reserved(UniqueName)]
                        = [item[i] EXCEPT !.pc = "planned", !.to = Reserved(UniqueName), !.blind = item[i].blind]
        BY <1>1 DEF ItemState
    <3> QED
        BY <1>1, <2>1, <3>1
  <2>2. CASE item' = [item EXCEPT ![i].pc = "planned", ![i].to = Reserved(FirstName), ![i].blind = TRUE]
      BY <2>2
  <2> QED
      BY <2>1, <2>2 DEF Plan
<1>4. x \in TargetNames /\ x.n = 0
    BY <1>0, <1>3, TheNames DEF FirstName, Named
<1>5. Reserved(x) \in TargetNames /\ (Reserved(x) = x \/ Reserved(x).n = 1)
      /\ \A j \in Items \ {i} : item[j].to # Reserved(x)
  <2>1. \A y \in TargetNames : y.n = 0 => y = Named(y.u, 0) /\ y.u \in 0..4
      BY DEF TargetNames, Named
  <2>2. x.u \in 0..4 /\ Named(x.u, 1) \in TargetNames /\ Named(x.u, 1).n = 1
      BY <1>4, <2>1, TheNames
  <2>3. CASE \E k \in Items : item[k].to = x
    <3>1. Reserved(x) = Named(x.u, 1)
        BY <2>3 DEF Reserved
    <3>2. NoFile # x
        BY <1>4, <2>3, NoFileApart
    <3>3. PICK k \in Items : item[k].to = x
        BY <2>3
    <3>4. k # i /\ Items \ {i} = {k}
        BY <1>1, <3>2, <3>3, TwoItems
    <3>5. x # Named(x.u, 1)
        BY <1>4, <2>2
    <3> QED
        BY <2>2, <3>1, <3>3, <3>4, <3>5
  <2>4. CASE ~\E k \in Items : item[k].to = x
      BY <1>4, <2>4 DEF Reserved
  <2> QED
      BY <2>3, <2>4
<1> DEFINE me == [item[i] EXCEPT !.pc = "planned", !.to = Reserved(x), !.blind = blind]
<1>6. me.pc = "planned" /\ me.to = Reserved(x) /\ me.blind = blind
    BY <1>1 DEF ItemState
<1>7. item' = [item EXCEPT ![i] = me]
    BY <1>3
<1> HIDE DEF me
<1>8. item'[i] = me /\ \A j \in Items \ {i} : item'[j] = item[j]
    BY <1>1, <1>7
<1>9. NamesTaken'
    BY <1>1, <1>8, NoFileApart, TheNames DEF BatchInv, FilesKept, NamesTaken
<1>10. GoesToFreeName(i)'
  <2>1. me.to # NoFile /\ \A j \in Items \ {i} : item'[j].to # me.to
      BY <1>5, <1>6, <1>8, NoFileApart
  <2>2. ~Unseen(i)' => me.to = UniqueName
      BY <1>3, <1>5, <1>6, <1>8 DEF Unseen
  <2> QED
      BY <1>0, <1>1, <1>2, <1>6, <1>8, <2>1, <2>2 DEF GoesToFreeName
<1>11. ASSUME NEW j \in Items \ {i} PROVE GoesToFreeName(j)'
    BY <1>1, <1>2, <1>5, <1>6, <1>8 DEF BatchInv, FilesKept, GoesToFreeName, Unseen
<1>12. \A j \in Items : KeptBefore(j)'
    BY <1>1, <1>2, <1>6, <1>8 DEF KeptBefore
<1>13. FileTypes'
    BY <1>1 DEF BatchInv, FileTypes
<1> QED
    BY <1>9, <1>10, <1>11, <1>12, <1>13 DEF FilesKept

LEMMA StartFiles == ASSUME BatchInv, NEW i \in Items, StartItem(i) PROVE FileTypes' /\ FilesKept'
<1>1. /\ task.pc = "run" /\ task' = task /\ item[i].pc \in {"new", "planned"} /\ item[i] \in ItemState
      /\ task.kind \in {"copy", "move"} => item[i].pc = "planned"
      /\ item \in [Items -> ItemState]
      /\ UNCHANGED <<sources, target, pack, trash, excused, foreign, edited>>
    BY DEF StartItem, AtTask, UnchangedFiles, BatchInv, Control, Progress
<1>2. /\ \A j \in Items \ {i} : item'[j] = item[j]
      /\ item'[i].to = item[i].to /\ item'[i].blind = item[i].blind /\ item'[i].pc \in {"begun", "ended"}
    BY <1>1 DEF StartItem, ItemState
<1>3. NamesTaken'
    BY <1>1, <1>2 DEF BatchInv, FilesKept, NamesTaken
<1>4. \A j \in Items : GoesToFreeName(j)'
    BY <1>1, <1>2 DEF BatchInv, FilesKept, GoesToFreeName, Unseen
<1>5. \A j \in Items : KeptBefore(j)'
    BY <1>1, <1>2 DEF BatchInv, FilesKept, KeptBefore
<1> QED
    BY <1>1, <1>3, <1>4, <1>5 DEF BatchInv, FileTypes, FilesKept

LEMMA CollectFiles == ASSUME BatchInv, NEW i \in Items, Collect(i) PROVE FileTypes' /\ FilesKept'
<1>1. /\ task.pc = "run" /\ item[i].pc = "ended" /\ item[i] \in ItemState /\ item \in [Items -> ItemState]
      /\ UNCHANGED <<sources, target, pack, trash, excused, foreign, edited>>
    BY DEF Collect, AtTask, AtItem, UnchangedFiles, BatchInv, Control
<1>2. /\ \A j \in Items \ {i} : item'[j] = item[j]
      /\ item'[i].to = item[i].to /\ item'[i].blind = item[i].blind /\ item'[i].pc \in {"logged", "ended"}
    BY <1>1 DEF Collect, ItemState
<1>3. task'.kind = task.kind /\ task'.pc \in {"run", "report"}
    BY <1>1 DEF Collect, BatchInv, Control, TaskState
<1>4. NamesTaken'
    BY <1>1, <1>2 DEF BatchInv, FilesKept, NamesTaken
<1>5. \A j \in Items : GoesToFreeName(j)'
    BY <1>1, <1>2, <1>3 DEF BatchInv, FilesKept, GoesToFreeName, Unseen
<1>6. \A j \in Items : KeptBefore(j)'
    BY <1>1, <1>2, <1>3 DEF BatchInv, FilesKept, KeptBefore
<1> QED
    BY <1>1, <1>4, <1>5, <1>6 DEF BatchInv, FileTypes, FilesKept

LEMMA StageFiles == ASSUME BatchInv, NEW i \in Items, Stage(i) PROVE FileTypes' /\ FilesKept'
<1>1. /\ task.pc = "stage" /\ item[i].pc = "new" /\ item[i] \in ItemState /\ item \in [Items -> ItemState]
      /\ \A j \in Items : item[j].pc \in {"new", "staged", "logged"}
      /\ task.kind = "compress"
      /\ UNCHANGED <<sources, target, pack, trash, excused, foreign, edited>>
    BY TwoItems DEF Stage, AtTask, AtItem, UnchangedFiles, BatchInv, Control, Progress
<1>2. /\ \A j \in Items \ {i} : item'[j] = item[j]
      /\ item'[i].to = item[i].to
      /\ \/ item'[i].pc = "staged" /\ item'[i].copy = sources[i]
         \/ item'[i].pc = "logged"
    BY <1>1 DEF Stage, ItemState
<1>3. task'.kind = task.kind /\ task'.pc \in {"stage", "pack"}
    BY <1>1 DEF Stage, BatchInv, Control, TaskState
<1>4. NamesTaken'
    BY <1>1, <1>2 DEF BatchInv, FilesKept, NamesTaken
<1>5. \A j \in Items : GoesToFreeName(j)'
    BY <1>1, <1>2, <1>3 DEF GoesToFreeName
<1>6. \A j \in Items : KeptBefore(j)'
    BY <1>1, <1>2, <1>3 DEF BatchInv, FilesKept, KeptBefore
<1> QED
    BY <1>1, <1>4, <1>5, <1>6 DEF BatchInv, FileTypes, FilesKept

LEMMA StagedStay ==
    ASSUME BatchInv, NEW result \in {"success", "failed"}, NEW done \in BOOLEAN, LogStaged(result, done)
    PROVE \A i \in Items : /\ item'[i].to = item[i].to /\ item'[i].blind = item[i].blind /\ item'[i].copy = item[i].copy
                            /\ item'[i].pc \in {item[i].pc, "logged"}
<1>1. \A i \in Items : item[i] \in ItemState
    BY DEF BatchInv, Control
<1>2. \A i \in Items : item'[i] = item[i] \/ item'[i] = [item[i] EXCEPT !.pc = "logged", !.log = result, !.done = done]
    BY DEF LogStaged
<1>3. \A i \in Items : LET me == [item[i] EXCEPT !.pc = "logged", !.log = result, !.done = done] IN
         me.to = item[i].to /\ me.blind = item[i].blind /\ me.copy = item[i].copy /\ me.pc = "logged"
    BY <1>1 DEF ItemState
<1> QED
    BY <1>2, <1>3

\* What was in the archive is excused, what was staged is in it.
LEMMA PackFiles == ASSUME BatchInv, Pack PROVE FileTypes' /\ FilesKept' /\ NoneLost
<1>1. task.pc = "pack" /\ UNCHANGED <<foreign, edited>> /\ task.kind = "compress"
    BY DEF Pack, AtTask, BatchInv, Control, Progress
<1>2. \A i \in Items : item[i].copy \in Stuff
    BY DEF BatchInv, Control, ItemState
<1>3. ASSUME WritePack PROVE /\ FileTypes' /\ NoneLost /\ UNCHANGED <<sources, target, trash>>
                             /\ pack' = [i \in Items |-> item[i].copy] /\ excused \subseteq excused'
  <2>1. FileTypes'
      BY <1>1, <1>2, <1>3 DEF WritePack, BatchInv, FileTypes
  <2>2. NoneLost
      BY <1>3 DEF WritePack, NoneLost, Places
  <2> QED
      BY <1>3, <2>1, <2>2 DEF WritePack
<1>4. CASE WritePack /\ task' = [task EXCEPT !.pc = AfterPack] /\ UNCHANGED item
  <2>1. task'.kind = task.kind /\ task'.replaces = task.replaces /\ task'.pc \in {"clear", "packed"}
      BY <1>4 DEF BatchInv, Control, TaskState, AfterPack
  <2>2. NamesTaken' /\ \A i \in Items : GoesToFreeName(i)'
      BY <1>1, <1>3, <1>4, <2>1 DEF BatchInv, FilesKept, NamesTaken, GoesToFreeName
  <2>3. \A i \in Items : KeptBefore(i)'
      BY <1>1, <1>3, <1>4, <2>1 DEF BatchInv, FilesKept, KeptBefore, Control, Progress
  <2> QED
      BY <1>3, <1>4, <2>2, <2>3 DEF FilesKept
<1>5. CASE LogStaged("failed", FALSE) /\ EndTask("failed", "items") /\ (WritePack \/ UnchangedFiles)
  <2>1. TaskOn /\ task'.pc = "end"
      BY <1>5, Ending DEF BatchInv
  <2>2. \A i \in Items : /\ item'[i].to = item[i].to /\ item'[i].blind = item[i].blind /\ item'[i].copy = item[i].copy
                          /\ item'[i].pc \in {item[i].pc, "logged"}
      BY <1>5, StagedStay
  <2>3. UNCHANGED <<sources, target>> /\ excused \subseteq excused' /\ FileTypes' /\ NoneLost
      BY <1>1, <1>3, <1>5, AlonesKept DEF UnchangedFiles, BatchInv, FileTypes
  <2>4. NamesTaken'
      BY <2>2, <2>3 DEF BatchInv, FilesKept, NamesTaken
  <2>5. \A i \in Items : GoesToFreeName(i)'
      BY <1>1, <2>1 DEF GoesToFreeName, TaskOn
  <2>6. \A i \in Items : KeptBefore(i)'
      BY <1>1, <2>1, <2>2, <2>3 DEF BatchInv, FilesKept, KeptBefore
  <2> QED
      BY <2>3, <2>4, <2>5, <2>6 DEF FilesKept
<1> QED
    BY <1>4, <1>5 DEF Pack

\* A source that was changed after it was staged is excused, the others are in the archive.
LEMMA ClearFiles == ASSUME BatchInv, NEW i \in Items, ClearSource(i) PROVE FileTypes' /\ FilesKept' /\ NoneLost
<1>1. /\ task.pc = "clear" /\ task.kind = "compress" /\ item[i].pc = "staged" /\ item[i] \in ItemState
      /\ task' = task /\ item \in [Items -> ItemState]
      /\ UNCHANGED <<target, pack, trash, foreign, edited>>
      /\ pack[i] = item[i].copy /\ (sources[i] \in {item[i].copy, NoFile} \/ i \in edited)
    BY DEF ClearSource, AtTask, AtItem, UnchangedFiles, BatchInv, Control, Progress, FilesKept, KeptBefore
<1>2. /\ \A j \in Items \ {i} : item'[j] = item[j]
      /\ item'[i].to = item[i].to /\ item'[i].blind = item[i].blind /\ item'[i].copy = item[i].copy
      /\ item'[i].pc = item[i].pc
    BY <1>1 DEF ClearSource, ItemState
<1>3. /\ excused \subseteq excused' /\ excused' \subseteq Stuff
      /\ sources' \in [Items -> Stuff] /\ \A j \in Items \ {i} : sources'[j] = sources[j]
      /\ sources'[i] \in {sources[i], NoFile}
      /\ sources[i] \in {sources'[i], pack[i], NoFile} \cup excused'
    BY <1>1, StuffIs DEF ClearSource, UnchangedFiles, BatchInv, FileTypes
<1>4. FileTypes'
    BY <1>1, <1>3 DEF BatchInv, FileTypes
<1>5. NamesTaken' /\ \A j \in Items : GoesToFreeName(j)'
    BY <1>1, <1>2 DEF BatchInv, FilesKept, NamesTaken, GoesToFreeName
<1>6. \A j \in Items : KeptBefore(j)'
    BY <1>1, <1>2, <1>3 DEF BatchInv, FilesKept, KeptBefore
<1>7. NoneLost
    BY <1>1, <1>3 DEF NoneLost, Places
<1> QED
    BY <1>4, <1>5, <1>6, <1>7 DEF FilesKept

\* The source is taken to a name nothing is under, unless the code does not look.
LEMMA OperateFiles == ASSUME BatchInv, NEW i \in Items, Operate(i) PROVE FileTypes' /\ FilesKept' /\ NoneLost
<1>1. /\ task.pc = "run" /\ item[i].pc = "begun" /\ item[i] \in ItemState /\ item \in [Items -> ItemState] /\ task' = task
      /\ UNCHANGED <<foreign, edited, pack>> /\ task.kind \in {"copy", "move", "delete"}
      /\ \A j \in Items : item[j].pc \in {"new", "planned", "begun", "ended", "logged"}
    BY DEF Operate, Moves, AtTask, AtItem, UnchangedFiles, BatchInv, Control, Progress
<1>2. /\ item' \in [Items -> ItemState] /\ \A j \in Items \ {i} : item'[j] = item[j]
      /\ item'[i].to = item[i].to /\ item'[i].blind = item[i].blind /\ item'[i].pc = "ended"
  <2>1. PICK result \in {"ok", "error"}, done \in BOOLEAN : ItemEnded(i, result, done)
      BY DEF Operate
  <2> DEFINE me == [item[i] EXCEPT !.pc = "ended", !.result = result, !.done = done]
  <2>2. me \in ItemState /\ me.to = item[i].to /\ me.blind = item[i].blind /\ me.pc = "ended"
      BY <1>1 DEF ItemState, ItemPCs
  <2>3. item' = [item EXCEPT ![i] = me]
      BY <2>1 DEF ItemEnded
  <2> HIDE DEF me
  <2> QED
      BY <1>1, <2>2, <2>3
<1>3. \A j \in Items : KeptBefore(j)'
  <2>1. \A j \in Items : item'[j].pc \in {"new", "planned", "begun", "ended", "logged"}
      BY <1>1, <1>2
  <2> QED
      BY <1>1, <2>1 DEF KeptBefore
<1>4. CASE UnchangedFiles
  <2>1. NamesTaken' /\ \A j \in Items : GoesToFreeName(j)'
      BY <1>1, <1>2, <1>4 DEF BatchInv, FilesKept, NamesTaken, GoesToFreeName, Unseen, UnchangedFiles
  <2> QED
      BY <1>1, <1>3, <1>4, <2>1, AlonesKept DEF BatchInv, FileTypes, FilesKept, UnchangedFiles
<1>5. CASE Moves(i) /\ task.kind = "delete"
  <2>1. /\ trash' = trash \cup {sources[i]} /\ UNCHANGED <<target, excused>>
        /\ sources' = [sources EXCEPT ![i] = NoFile]
      BY <1>5 DEF Moves
  <2>2. NamesTaken' /\ \A j \in Items : GoesToFreeName(j)'
      BY <1>1, <1>2, <1>5, <2>1 DEF BatchInv, FilesKept, NamesTaken, GoesToFreeName
  <2>3. FileTypes'
      BY <1>1, <2>1, StuffIs DEF BatchInv, FileTypes
  <2>4. NoneLost
      BY <1>1, <2>1 DEF BatchInv, FileTypes, NoneLost, Places
  <2> QED
      BY <1>3, <2>2, <2>3, <2>4 DEF FilesKept
<1>6. CASE Moves(i) /\ task.kind # "delete"
  <2>1. PICK x : x = item[i].to
      OBVIOUS
  <2>2. /\ target' = [target EXCEPT ![x] = sources[i]] /\ excused' = excused \cup Replaced(i) /\ trash' = trash
        /\ sources' = sources \/ sources' = [sources EXCEPT ![i] = NoFile]
      BY <1>6, <2>1 DEF Moves
  <2>3. /\ x \in TargetNames /\ \A j \in Items \ {i} : item[j].to # x
        /\ ~Unseen(i) => target[x] = NoFile
      BY <1>1, <1>6, <2>1 DEF BatchInv, FilesKept, GoesToFreeName, ItemState
  <2>4. target'[x] = sources[i] /\ \A y \in TargetNames \ {x} : target'[y] = target[y]
      BY <2>2, <2>3 DEF BatchInv, FileTypes
  <2>5. target[x] \in excused' \cup {NoFile} /\ excused \subseteq excused' /\ excused' \subseteq Stuff
      BY <2>1, <2>2, <2>3 DEF Replaced, BatchInv, FileTypes
  <2>6. FileTypes'
      BY <1>1, <2>2, <2>3, <2>5, StuffIs DEF BatchInv, FileTypes
  <2>7. NamesTaken'
    <3> SUFFICES ASSUME NEW u \in 2..4, target'[Named(u, 0)] # NoFile PROVE \E j \in Items : item'[j].to = Named(u, 0)
        BY DEF NamesTaken
    <3>1. Named(u, 0) \in TargetNames
        BY TheNames
    <3>2. CASE Named(u, 0) = x
        BY <1>2, <2>1, <3>2
    <3>3. CASE Named(u, 0) # x
        BY <1>2, <2>4, <3>1, <3>3 DEF BatchInv, FilesKept, NamesTaken
    <3> QED
        BY <3>2, <3>3
  <2>8. ASSUME NEW j \in Items PROVE GoesToFreeName(j)'
    <3>1. CASE j = i
        BY <1>1, <1>2, <3>1 DEF GoesToFreeName
    <3>2. CASE j # i /\ item[j].pc \in {"planned", "begun"}
      <4>1. item[j].to \in TargetNames \ {x} /\ item'[j] = item[j]
          BY <1>1, <1>2, <1>6, <2>3, <3>2 DEF BatchInv, FilesKept, GoesToFreeName, ItemState
      <4>2. target'[item[j].to] = target[item[j].to]
          BY <2>4, <4>1
      <4>3. Unseen(j)' = Unseen(j)
          BY <1>1, <4>1 DEF Unseen
      <4> QED
          BY <1>1, <1>2, <3>2, <4>1, <4>2, <4>3 DEF BatchInv, FilesKept, GoesToFreeName
    <3>3. CASE j # i /\ item[j].pc \notin {"planned", "begun"}
        BY <1>1, <1>2, <3>3 DEF GoesToFreeName
    <3> QED
        BY <3>1, <3>2, <3>3
  <2>9. NoneLost
    <3>1. \A y \in TargetNames : target[y] \in (Places \cup excused)' \cup {NoFile}
        BY <2>4, <2>5 DEF Places
    <3>2. \A j \in Items : pack[j] \in Places'
        BY <1>1 DEF Places
    <3>3. \A z \in trash : z \in Places'
        BY <2>2 DEF Places
    <3>4. \A j \in Items : sources[j] \in Places'
      <4>1. sources[i] \in Places'
          BY <2>3, <2>4 DEF Places
      <4>2. \A j \in Items \ {i} : sources'[j] = sources[j]
          BY <2>2 DEF BatchInv, FileTypes
      <4> QED
          BY <4>1, <4>2 DEF Places
    <3> QED
        BY <3>1, <3>2, <3>3, <3>4, AllKept
  <2> QED
      BY <1>3, <2>6, <2>7, <2>8, <2>9 DEF FilesKept
<1> QED
    BY <1>1, <1>4, <1>5, <1>6 DEF Operate

LEMMA ReportFiles ==
    ASSUME BatchInv, TimeOutTask \/ Report \/ PackNothing \/ ReportPack
    PROVE FileTypes' /\ FilesKept' /\ UnchangedFiles
<1>1. UnchangedFiles /\ UNCHANGED <<foreign, edited>>
    BY DEF TimeOutTask, Report, PackNothing, ReportPack
<1>2. TaskOn /\ task'.pc = "end"
  <2>1. CASE TimeOutTask
      BY <2>1 DEF BatchInv, Control, TimeOutTask, TaskState, TaskOn, TaskPCs
  <2>2. CASE Report
      BY <2>2, Ending DEF Report, Outcome, BatchInv
  <2>3. CASE PackNothing
      BY <2>3, Ending DEF PackNothing, BatchInv
  <2>4. CASE ReportPack
      BY <2>4, Ending DEF ReportPack, BatchInv
  <2> QED
      BY <2>1, <2>2, <2>3, <2>4
<1>3. CASE UNCHANGED item
    BY <1>1, <1>2, <1>3, EndFiles DEF BatchInv, Control, UnchangedFiles
<1>4. CASE ReportPack
  <2>1. LogStaged("success", TRUE)
      BY <1>4 DEF ReportPack
  <2>2. \A i \in Items : /\ item'[i].to = item[i].to /\ item'[i].blind = item[i].blind /\ item'[i].copy = item[i].copy
                         /\ item'[i].pc \in {item[i].pc, "logged"}
      BY <2>1, StagedStay
  <2>3. item' \in [Items -> ItemState]
      BY <2>1, StagedLogged DEF BatchInv
  <2> QED
      BY <1>1, <1>2, <2>2, <2>3, EndFiles DEF UnchangedFiles
<1> QED
    BY <1>1, <1>3, <1>4 DEF TimeOutTask, Report, PackNothing

\* An entry takes the place of what is to be replaced, or of nothing.
LEMMA UnpackFiles == ASSUME BatchInv, NEW i \in Items, Unpack(i) PROVE FileTypes' /\ FilesKept' /\ NoneLost
<1>1. /\ task.pc = "unpack" /\ item[i].pc = "new" /\ item \in [Items -> ItemState]
      /\ \A j \in Items : item[j].pc \in {"new", "unpacked"} /\ item[j] \in ItemState
      /\ UNCHANGED <<sources, pack, trash, foreign, edited>>
    BY DEF Unpack, AtTask, AtItem, BatchInv, Control, Progress
<1>2. PICK x : x = EntryName(i)
    OBVIOUS
<1>3. /\ x \in TargetNames /\ \A u \in 2..4 : x # Named(u, 0)
      /\ \A j \in Items \ {i} : EntryName(j) \in TargetNames \ {x}
    BY <1>2, TheNames
<1>4. CASE UNCHANGED task /\ item' = [item EXCEPT ![i].pc = "unpacked"]
           /\ IF target[x] # NoFile /\ ~task.replaces
              THEN UNCHANGED <<target, excused>>
              ELSE /\ target' = [target EXCEPT ![x] = pack[i]]
                   /\ excused' = IF task.replaces THEN excused \cup {target[x]} ELSE excused
  <2>1. /\ \A j \in Items \ {i} : item'[j] = item[j]
        /\ item'[i].to = item[i].to /\ item'[i].pc = "unpacked"
      BY <1>1, <1>4 DEF ItemState
  <2>2. /\ \A y \in TargetNames \ {x} : target'[y] = target[y]
        /\ target'[x] \in {target[x], pack[i]} /\ (task.replaces => target'[x] = pack[i])
        /\ target[x] \in {target'[x], NoFile} \cup excused'
        /\ excused \subseteq excused'
      BY <1>3, <1>4 DEF BatchInv, FileTypes
  <2>3. FileTypes'
      BY <1>1, <1>3, <1>4 DEF BatchInv, FileTypes
  <2>4. NamesTaken'
      BY <1>3, <2>1, <2>2, TheNames DEF BatchInv, FilesKept, NamesTaken
  <2>5. \A j \in Items : item'[j].pc \in {"new", "unpacked"} /\ task' = task
      BY <1>1, <1>4, <2>1
  <2>6. \A j \in Items : GoesToFreeName(j)'
      BY <1>1, <2>5 DEF GoesToFreeName
  <2>7. ASSUME NEW j \in Items PROVE KeptBefore(j)'
    <3>1. CASE j = i
        BY <1>1, <1>2, <2>2, <2>5, <3>1 DEF KeptBefore
    <3>2. CASE j # i
        BY <1>1, <1>3, <2>1, <2>2, <2>5, <3>2 DEF BatchInv, FilesKept, KeptBefore
    <3> QED
        BY <3>1, <3>2
  <2>8. NoneLost
    <3>1. \A y \in TargetNames : target[y] \in (Places \cup excused)' \cup {NoFile}
        BY <1>3, <2>2 DEF Places
    <3>2. \A j \in Items : sources[j] \in Places' /\ pack[j] \in Places'
        BY <1>1 DEF Places
    <3>3. \A z \in trash : z \in Places'
        BY <1>1 DEF Places
    <3> QED
        BY <3>1, <3>2, <3>3, AllKept
  <2> QED
      BY <2>3, <2>4, <2>6, <2>7, <2>8 DEF FilesKept
<1>5. CASE item' = [item EXCEPT ![1].log = "failed"] /\ EndTask("failed", "items") /\ UNCHANGED <<target, excused>>
  <2>1. TaskOn /\ task'.pc = "end"
      BY <1>5, Ending DEF BatchInv
  <2>2. item' \in [Items -> ItemState]
      BY <1>1, <1>5, TwoItems DEF ItemState
  <2>3. \A j \in Items : /\ item'[j].to = item[j].to /\ item'[j].blind = item[j].blind /\ item'[j].copy = item[j].copy
                         /\ item'[j].pc \in {item[j].pc, "logged", "unpacked"}
      BY <1>1, <1>5, TwoItems DEF ItemState
  <2>4. FileTypes' /\ FilesKept'
      BY <1>1, <1>5, <2>1, <2>2, <2>3, EndFiles
  <2> QED
      BY <1>1, <1>5, <2>4, AlonesKept DEF UnchangedFiles
<1> QED
    BY <1>2, <1>4, <1>5 DEF Unpack

\* The archive goes when its entries are in the directory, or when they were left out.
LEMMA ReportUnpackFiles == ASSUME BatchInv, ReportUnpack PROVE FileTypes' /\ FilesKept' /\ NoneLost
<1>1. /\ task.pc = "unpack" /\ item \in [Items -> ItemState]
      /\ \A j \in Items : item[j].pc = "unpacked" /\ item[j] \in ItemState
      /\ UNCHANGED <<sources, target, trash, foreign, edited>>
    BY DEF ReportUnpack, AtTask, AtItem, BatchInv, Control
<1>2. task'.pc = "end"
    BY Ending DEF ReportUnpack, BatchInv
<1>3. \A j \in Items : item'[j].pc = "unpacked" /\ item'[j].to = item[j].to
  <2>1. CASE item' = [j \in Items |-> [item[j] EXCEPT !.log = "success", !.done = TRUE]]
      BY <1>1, <2>1 DEF ItemState
  <2>2. CASE item' = [item EXCEPT ![1].log = "failed"]
      BY <1>1, <2>2, TwoItems DEF ItemState
  <2> QED
      BY <2>1, <2>2 DEF ReportUnpack
<1>4. ASSUME task.removes PROVE FileTypes' /\ NoneLost
  <2>1. /\ pack' = [i \in Items |-> NoFile]
        /\ excused' = IF task.replaces THEN excused
                      ELSE excused \cup {pack[i] : i \in {i \in Items : target[EntryName(i)] # pack[i]}}
      BY <1>4 DEF ReportUnpack
  <2>2. FileTypes'
      BY <1>1, <2>1, StuffIs DEF BatchInv, FileTypes
  <2>3. ASSUME NEW j \in Items PROVE pack[j] \in (Places \cup excused)'
    <3>1. target[EntryName(j)] \in Places' /\ excused \subseteq excused'
        BY <1>1, <2>1, TheNames DEF Places
    <3>2. CASE task.replaces
        BY <1>1, <3>1, <3>2 DEF BatchInv, FilesKept, KeptBefore
    <3>3. CASE ~task.replaces
        BY <2>1, <3>1, <3>3
    <3> QED
        BY <3>2, <3>3
  <2>4. NoneLost
    <3>1. \A j \in Items : sources[j] \in Places'
        BY <1>1 DEF Places
    <3>2. \A y \in TargetNames : target[y] \in Places'
        BY <1>1 DEF Places
    <3>3. \A z \in trash : z \in Places'
        BY <1>1 DEF Places
    <3> QED
        BY <2>3, <3>1, <3>2, <3>3, AllKept
  <2> QED
      BY <2>2, <2>4
<1>5. ASSUME ~task.removes PROVE FileTypes' /\ NoneLost
  <2>1. UNCHANGED <<pack, excused>>
      BY <1>5 DEF ReportUnpack
  <2> QED
      BY <1>1, <2>1, AlonesKept DEF UnchangedFiles, BatchInv, FileTypes
<1>6. NamesTaken'
    BY <1>1, <1>3 DEF BatchInv, FilesKept, NamesTaken
<1>7. \A j \in Items : GoesToFreeName(j)' /\ KeptBefore(j)'
    BY <1>2, <1>3 DEF GoesToFreeName, KeptBefore
<1> QED
    BY <1>4, <1>5, <1>6, <1>7 DEF FilesKept

LEMMA ChooseFiles == ASSUME BatchInv, NEW i \in Items, ChooseOutput(i) PROVE FileTypes' /\ FilesKept'
<1>0. UniqueName \in TargetNames /\ UniqueName.n = 0 /\ target[UniqueName] = NoFile
    BY FreeName DEF BatchInv, FilesKept
<1>1. /\ task.pc = "next" /\ item[i].pc = "new" /\ item[i] \in ItemState /\ item \in [Items -> ItemState]
      /\ UNCHANGED <<sources, target, pack, trash, excused, foreign, edited>>
      /\ item[i].to = NoFile /\ \A j \in Items \ {i} : item[j].pc \in {"new", "logged"}
    BY TwoItems DEF ChooseOutput, NextVideo, AtTask, AtItem, UnchangedFiles, BatchInv, Control, Progress
<1>2. CASE UNCHANGED item
  <2>1. TaskOn /\ task'.pc = "end"
      BY <1>1, <1>2, Ending DEF ChooseOutput, BatchInv, ItemState
  <2> QED
      BY <1>1, <1>2, <2>1, EndFiles DEF BatchInv, Control
<1>3. CASE /\ item' = [item EXCEPT ![i].pc = "begun", ![i].copy = sources[i],
                                   ![i].to = IF task.replaces THEN FirstName ELSE UniqueName]
           /\ task' = [task EXCEPT !.pc = "video"]
  <2>1. PICK x : x = IF task.replaces THEN FirstName ELSE UniqueName
      OBVIOUS
  <2> DEFINE me == [item[i] EXCEPT !.pc = "begun", !.copy = sources[i], !.to = x]
  <2>2. me.pc = "begun" /\ me.copy = sources[i] /\ me.to = x
      BY <1>1 DEF ItemState
  <2>3. item' = [item EXCEPT ![i] = me]
      BY <1>3, <2>1
  <2> HIDE DEF me
  <2>4. item'[i] = me /\ \A j \in Items \ {i} : item'[j] = item[j]
      BY <1>1, <2>3
  <2>5. task'.kind = task.kind /\ task'.replaces = task.replaces /\ task'.pc = "video"
      BY <1>3 DEF BatchInv, Control, TaskState
  <2>6. x \in TargetNames /\ x # NoFile /\ (~task.replaces => target[x] = NoFile)
      BY <1>0, <2>1, TheNames, NoFileApart
  <2>7. task.kind = "video"
      BY <1>1 DEF BatchInv, Control, Progress
  <2>8. NamesTaken'
      BY <1>1, <2>4, TheNames, NoFileApart DEF BatchInv, FilesKept, NamesTaken
  <2>9. \A j \in Items : KeptBefore(j)'
      BY <1>1, <2>2, <2>4, <2>5 DEF BatchInv, FilesKept, KeptBefore
  <2>10. \A j \in Items : GoesToFreeName(j)'
      BY <1>1, <2>2, <2>4, <2>5, <2>6, <2>7 DEF GoesToFreeName
  <2> QED
      BY <1>1, <2>8, <2>9, <2>10 DEF BatchInv, FileTypes, FilesKept
<1> QED
    BY <1>2, <1>3 DEF ChooseOutput

\* The output takes the place of what is to be replaced, or of nothing.
LEMMA WriteVideoFiles == ASSUME BatchInv, NEW i \in Items, WriteVideo(i) PROVE FileTypes' /\ FilesKept' /\ NoneLost
<1>1. /\ task.pc = "video" /\ item[i].pc = "begun" /\ item[i] \in ItemState /\ item \in [Items -> ItemState]
      /\ task.kind = "video"
      /\ UNCHANGED <<sources, pack, trash, foreign, edited>> /\ \A j \in Items \ {i} : item[j].pc \in {"new", "logged"}
    BY TwoItems DEF WriteVideo, AtTask, AtItem, BatchInv, Control, Progress
<1>2. /\ task'.kind = "video" /\ task'.replaces = task.replaces
      /\ sources[i] \in {item[i].copy, NoFile} \/ i \in edited
    BY <1>1 DEF WriteVideo, BatchInv, Control, TaskState, FilesKept, KeptBefore
<1>3. PICK x : x = item[i].to
    OBVIOUS
<1>4. /\ x \in TargetNames /\ (~task.replaces /\ ~Unseen(i) => target[x] = NoFile) /\ item[i].copy \in Stuff
    BY <1>1, <1>3 DEF BatchInv, FilesKept, GoesToFreeName, ItemState
<1>5. CASE /\ target' = [target EXCEPT ![x] = item[i].copy]
           /\ excused' = excused \cup (IF task.replaces THEN {target[x]} ELSE Replaced(i))
           /\ item' = [item EXCEPT ![i].pc = "made", ![i].result = "ok"]
           /\ UNCHANGED task
  <2>1. /\ \A j \in Items \ {i} : item'[j] = item[j]
        /\ item'[i].to = x /\ item'[i].copy = item[i].copy /\ item'[i].pc = "made"
      BY <1>1, <1>3, <1>5 DEF ItemState
  <2>2. target'[x] = item[i].copy /\ \A y \in TargetNames \ {x} : target'[y] = target[y]
      BY <1>4, <1>5 DEF BatchInv, FileTypes
  <2>3. /\ target[x] \in excused' \cup {NoFile} /\ excused \subseteq excused' /\ excused' \subseteq Stuff
      BY <1>3, <1>4, <1>5 DEF Replaced, BatchInv, FileTypes
  <2>4. FileTypes'
      BY <1>1, <1>4, <1>5, <2>3 DEF BatchInv, FileTypes
  <2>5. NamesTaken'
    <3> SUFFICES ASSUME NEW u \in 2..4, target'[Named(u, 0)] # NoFile PROVE \E j \in Items : item'[j].to = Named(u, 0)
        BY DEF NamesTaken
    <3>1. Named(u, 0) \in TargetNames
        BY TheNames
    <3>2. CASE Named(u, 0) = x
        BY <2>1, <3>2
    <3>3. CASE Named(u, 0) # x
        BY <1>3, <2>1, <2>2, <3>1, <3>3 DEF BatchInv, FilesKept, NamesTaken
    <3> QED
        BY <3>2, <3>3
  <2>6. \A j \in Items : GoesToFreeName(j)'
      BY <1>1, <1>2, <2>1 DEF GoesToFreeName
  <2>7. \A j \in Items : KeptBefore(j)'
    <3>1. KeptBefore(i)'
        BY <1>1, <1>2, <1>4, <1>5, <2>1, <2>2, NoFileApart DEF KeptBefore
    <3>2. \A j \in Items \ {i} : KeptBefore(j)'
        BY <1>1, <1>5, <2>1 DEF KeptBefore
    <3> QED
        BY <3>1, <3>2
  <2>8. NoneLost
    <3>1. \A y \in TargetNames : target[y] \in (Places \cup excused)' \cup {NoFile}
        BY <2>2, <2>3 DEF Places
    <3>2. \A j \in Items : sources[j] \in Places' /\ pack[j] \in Places'
        BY <1>1 DEF Places
    <3>3. \A z \in trash : z \in Places'
        BY <1>1 DEF Places
    <3> QED
        BY <3>1, <3>2, <3>3, AllKept
  <2> QED
      BY <2>4, <2>5, <2>6, <2>7, <2>8 DEF FilesKept
<1>6. CASE /\ UNCHANGED <<target, excused>>
           /\ item' = [item EXCEPT ![i].pc = "logged", ![i].result = "error", ![i].log = "failed"]
           /\ task' = [task EXCEPT !.failures = @ + 1, !.pc = IF i = 2 THEN "report" ELSE "next"]
  <2>1. /\ \A j \in Items \ {i} : item'[j] = item[j]
        /\ item'[i].to = x /\ item'[i].pc = "logged"
      BY <1>1, <1>3, <1>6 DEF ItemState
  <2>2. \A j \in Items : item'[j].pc \in {"new", "logged"} /\ item'[j].to = item[j].to
      BY <1>1, <1>3, <2>1
  <2>3. task'.pc \in {"report", "next"}
      BY <1>6 DEF BatchInv, Control, TaskState
  <2>4. NamesTaken'
      BY <1>6, <2>2 DEF BatchInv, FilesKept, NamesTaken
  <2>5. \A j \in Items : GoesToFreeName(j)' /\ KeptBefore(j)'
      BY <1>2, <2>2, <2>3 DEF GoesToFreeName, KeptBefore
  <2> QED
      BY <1>1, <1>6, <2>4, <2>5, AlonesKept DEF UnchangedFiles, BatchInv, FileTypes, FilesKept
<1> QED
    BY <1>3, <1>5, <1>6 DEF WriteVideo

\* The source goes when the output of what was copied from it is there.
LEMMA RemoveVideoFiles == ASSUME BatchInv, NEW i \in Items, RemoveVideo(i) PROVE FileTypes' /\ FilesKept' /\ NoneLost
<1>1. /\ task.pc = "video" /\ item[i].pc = "made" /\ item[i] \in ItemState /\ item \in [Items -> ItemState]
      /\ UNCHANGED <<target, pack, trash, foreign, edited>> /\ \A j \in Items \ {i} : item[j].pc \in {"new", "logged"}
    BY TwoItems DEF RemoveVideo, AtTask, AtItem, BatchInv, Control, Progress
<1>2. /\ sources[i] \in {item[i].copy, NoFile} \/ i \in edited
      /\ item[i].to # NoFile /\ item[i].copy \in {target[item[i].to]} \cup excused
    BY <1>1 DEF BatchInv, FilesKept, KeptBefore
<1>3. /\ \A j \in Items \ {i} : item'[j] = item[j]
      /\ item'[i].to = item[i].to /\ item'[i].pc = "logged"
    BY <1>1 DEF RemoveVideo, ItemState
<1>4. \A j \in Items : item'[j].pc \in {"new", "logged"} /\ item'[j].to = item[j].to
    BY <1>1, <1>3
<1>5. task'.pc \in {"report", "next"} /\ task'.kind = "video"
    BY <1>1 DEF RemoveVideo, BatchInv, Control, TaskState, Progress
<1>6. NamesTaken'
    BY <1>1, <1>4 DEF BatchInv, FilesKept, NamesTaken
<1>7. \A j \in Items : GoesToFreeName(j)' /\ KeptBefore(j)'
    BY <1>4, <1>5 DEF GoesToFreeName, KeptBefore
<1>8. /\ excused \subseteq excused' /\ excused' \subseteq Stuff
      /\ sources' \in [Items -> Stuff] /\ \A j \in Items \ {i} : sources'[j] = sources[j]
      /\ sources'[i] = sources[i] \/ sources[i] \in {item[i].copy, NoFile} \cup excused'
    BY <1>1, <1>2, StuffIs DEF RemoveVideo, BatchInv, FileTypes
<1>9. FileTypes'
    BY <1>1, <1>8 DEF BatchInv, FileTypes
<1>10. NoneLost
  <2>1. item[i].to \in TargetNames
      BY <1>1, <1>2 DEF ItemState
  <2>2. target[item[i].to] \in Places'
      BY <1>1, <2>1 DEF Places
  <2>3. item[i].copy \in (Places \cup excused)'
      BY <1>2, <1>8, <2>2
  <2>4. \A j \in Items : sources[j] \in (Places \cup excused)' \cup {NoFile}
      BY <1>8, <2>3 DEF Places
  <2>5. \A y \in TargetNames : target[y] \in Places'
      BY <1>1 DEF Places
  <2>6. \A j \in Items : pack[j] \in Places'
      BY <1>1 DEF Places
  <2>7. \A z \in trash : z \in Places'
      BY <1>1 DEF Places
  <2> QED
      BY <2>4, <2>5, <2>6, <2>7, AllKept
<1> QED
    BY <1>6, <1>7, <1>9, <1>10 DEF FilesKept

-----------------------------------------------------------------------------
(* The batch as a whole                                                     *)

LEMMA BatchStarts == Init => BatchInv
<1> SUFFICES ASSUME BatchInit PROVE BatchInv
    BY DEF Init
<1>1. task = NewTask /\ item = [i \in Items |-> NewItem] /\ trash = {} /\ foreign = {} /\ edited = {} /\ excused = {}
    BY DEF BatchInit
<1>2. task \in TaskState /\ task.pc = "new" /\ task.status = "pending" /\ task.failures = 0
    BY <1>1 DEF NewTask, TaskState, TaskPCs
<1>3. NewItem \in ItemState /\ NewItem.pc = "new" /\ NewItem.log = "none" /\ NewItem.to = NoFile
    BY StuffIs DEF NewItem, ItemState, ItemPCs
<1>4. item \in [Items -> ItemState] /\ \A i \in Items : item[i].pc = "new" /\ item[i].log = "none" /\ item[i].to = NoFile
    BY <1>1, <1>3
<1>5. Progress
    BY <1>2, <1>4 DEF Progress
<1>6. LogsAgree /\ BatchReportIsTrue
    BY <1>2, <1>4 DEF LogsAgree, BatchReportIsTrue
<1>7. sources = [i \in Items |-> <<"source", i>>] /\ pack = [i \in Items |-> <<"packed", i>>]
    BY DEF BatchInit
<1>8. PICK there \in SUBSET {Named(0, 0), Named(0, 1)} :
        target = [x \in TargetNames |-> IF x \in there THEN <<"there", x.n>> ELSE NoFile]
    BY DEF BatchInit
<1>9. \A x \in there : x.n \in 0..1
    BY <1>8, TheNames
<1>10. FileTypes
    BY <1>1, <1>7, <1>8, <1>9, StuffIs DEF FileTypes
<1>11. NamesTaken
  <2>1. \A u \in 2..4 : Named(u, 0) \in TargetNames /\ Named(u, 0) \notin {Named(0, 0), Named(0, 1)}
      BY TheNames
  <2> QED
      BY <1>8, <2>1 DEF NamesTaken
<1>12. \A i \in Items : GoesToFreeName(i) /\ KeptBefore(i)
    BY <1>2, <1>4 DEF GoesToFreeName, KeptBefore
<1> QED
    BY <1>2, <1>4, <1>5, <1>6, <1>10, <1>11, <1>12 DEF BatchInv, Control, FilesKept

\* No step of the batch breaks its invariant, and none loses a file.
LEMMA BatchStepsKeep == ASSUME BatchInv, BatchesMoves PROVE BatchInv' /\ NoneLost
<1>0. Control /\ \A j \in Items : sources[j] \in Stuff
    BY DEF BatchInv, FileTypes
<1>1. UniqueName \in TargetNames
    BY FreeName DEF BatchInv, FilesKept
<1>2. ASSUME NEW kind \in BatchKinds, NEW removes \in BOOLEAN, NEW replaces \in BOOLEAN, Submit(kind, removes, replaces)
      PROVE BatchInv' /\ NoneLost
  <2>1. UnchangedFiles
      BY <1>2 DEF Submit
  <2> QED
      BY <1>0, <1>2, <2>1, SubmitControl, SubmitFiles, AlonesKept DEF BatchInv
<1>3. ASSUME NEW i \in Items, WriteSource(i) PROVE BatchInv' /\ NoneLost
  <2>1. UNCHANGED <<task, item>>
      BY <1>3 DEF WriteSource
  <2>2. Control'
      BY <1>0, <2>1 DEF Control, Progress, LogsAgree, BatchReportIsTrue, Staged, AtItem
  <2> QED
      BY <1>3, <2>2, WriteSourceFiles DEF BatchInv
<1>4. ASSUME NEW x \in TakenByOthers, WriteTarget(x) PROVE BatchInv' /\ NoneLost
  <2>1. UNCHANGED <<task, item>>
      BY <1>4 DEF WriteTarget
  <2>2. Control'
      BY <1>0, <2>1 DEF Control, Progress, LogsAgree, BatchReportIsTrue, Staged, AtItem
  <2> QED
      BY <1>4, <2>2, WriteTargetFiles DEF BatchInv
<1>5. CASE Cancel
  <2>1. UnchangedFiles
      BY <1>5 DEF Cancel
  <2> QED
      BY <1>0, <1>5, <2>1, CancelControl, CancelFiles, AlonesKept DEF BatchInv
<1>6. CASE TimeOutTask \/ Report \/ PackNothing \/ ReportPack
  <2>1. FileTypes' /\ FilesKept' /\ UnchangedFiles
      BY <1>6, ReportFiles
  <2>2. Control'
      BY <1>0, <1>6, TimeOutControl, ReportControl, PackNothingControl, ReportPackControl
  <2> QED
      BY <2>1, <2>2, AlonesKept DEF BatchInv
<1>7. CASE Pack
    BY <1>0, <1>7, PackControl, PackFiles DEF BatchInv
<1>8. CASE ReportUnpack
    BY <1>0, <1>8, ReportUnpackControl, ReportUnpackFiles DEF BatchInv
<1>9. ASSUME NEW i \in Items, Plan(i) \/ StartItem(i) \/ Collect(i) \/ Stage(i) \/ ChooseOutput(i)
      PROVE BatchInv' /\ NoneLost
  <2>1. UnchangedFiles
      BY <1>9 DEF Plan, StartItem, Collect, Stage, ChooseOutput
  <2>2. Control'
      BY <1>0, <1>1, <1>9, PlanControl, StartControl, CollectControl, StageControl, ChooseControl
  <2>3. FileTypes' /\ FilesKept'
      BY <1>9, PlanFiles, StartFiles, CollectFiles, StageFiles, ChooseFiles
  <2> QED
      BY <2>1, <2>2, <2>3, AlonesKept DEF BatchInv
<1>10. ASSUME NEW i \in Items, Operate(i) \/ ClearSource(i) \/ Unpack(i) \/ WriteVideo(i) \/ RemoveVideo(i)
       PROVE BatchInv' /\ NoneLost
  <2>1. Control'
      BY <1>0, <1>10, OperateControl, ClearControl, UnpackControl, WriteVideoControl, RemoveVideoControl
  <2> QED
      BY <1>10, <2>1, OperateFiles, ClearFiles, UnpackFiles, WriteVideoFiles, RemoveVideoFiles DEF BatchInv
<1> QED
    BY <1>2, <1>3, <1>4, <1>5, <1>6, <1>7, <1>8, <1>9, <1>10 DEF BatchesMoves

LEMMA BatchKeeps == BatchInv /\ [Next]_storageVars => BatchInv' /\ (NoneLost \/ UNCHANGED batchVars)
<1> SUFFICES ASSUME BatchInv, [Next]_storageVars PROVE BatchInv' /\ (NoneLost \/ UNCHANGED batchVars)
    OBVIOUS
<1>1. CASE UNCHANGED batchVars
  <2>1. UNCHANGED <<sources, target, pack, trash, task, item, foreign, edited, excused>>
      BY <1>1 DEF batchVars
  <2>2. Control'
      BY <2>1 DEF BatchInv, Control, Progress, LogsAgree, BatchReportIsTrue, Staged, AtItem
  <2>3. FileTypes' /\ FilesKept'
      BY <2>1 DEF BatchInv, FileTypes, FilesKept, NamesTaken, GoesToFreeName, KeptBefore, Unseen
  <2> QED
      BY <1>1, <2>2, <2>3 DEF BatchInv
<1>2. CASE BatchesMoves
    BY <1>2, BatchStepsKeep
<1> QED
    BY <1>1, <1>2, BatchSteps

\* What a batch's log and its end report is true (batch_task_items and batch_tasks): no
\* success is logged that did not happen, whatever is cancelled, fails or times out.
THEOREM ReportsAreTrue == Spec => []BatchReportIsTrue
<1>1. BatchInv => BatchReportIsTrue
    BY DEF BatchInv, Control
<1> QED
    BY <1>1, BatchStarts, BatchKeeps, PTL DEF Spec

\* No step of a batch loses a file: what a copy, move, delete, archive or video takes away
\* is elsewhere, or was to be given up.
THEOREM NoFileIsLost == Spec => NothingIsLost
<1>1. (NoneLost \/ UNCHANGED batchVars) => [Places \ {NoFile} \subseteq (Places \cup excused)']_batchVars
    BY DEF NoneLost
<1>2. BatchInv /\ [Next]_storageVars => [Places \ {NoFile} \subseteq (Places \cup excused)']_batchVars
    BY <1>1, BatchKeeps
<1> QED
    BY <1>2, BatchStarts, BatchKeeps, PTL DEF Spec, NothingIsLost

-----------------------------------------------------------------------------
(* Sessions of transcoded videos (Transcoding)                              *)


\* A step of Storage either is one of the sessions' or leaves them alone.
LEMMA VideoSteps == [Next]_storageVars => VideosMoves \/ UNCHANGED sessionVars
    BY DEF Next, storageVars, ReadsMoves, UsageMoves, BinMoves, PoolMoves, VaultMoves, RouteMoves, ConfigMoves,
           ThumbsMoves, RenderMoves, BatchesMoves, MountsMoves, BesideReads, BesideUsage, BesideBin, BesidePool,
           BesideVault, BesideRoute, BesideConfig, BesideThumbs, BesideRender, BesideBatches, BesideMounts

-----------------------------------------------------------------------------
(* Types                                                                    *)

SessionRecord == [state : {"none", "pending", "ready", "failed"}, key : VideoKeys \cup {NoSession},
                  expired : BOOLEAN, touched : BOOLEAN, dir : BOOLEAN]
AskingPCs == {"new", "judge", "remove", "rmdir", "look", "replace", "redir", "count", "insert"}
AskingState == [pc : AskingPCs, op : {"none", "ensure", "asset"}, key : VideoKeys \cup {NoSession},
                id : SessionIds \cup {NoSession}, judge : SUBSET SessionIds, victim : SessionIds \cup {NoSession}]

VideoTypes ==
    /\ byId \in SUBSET SessionIds
    /\ byKey \in [VideoKeys -> SessionIds \cup {NoSession}]
    /\ session \in [SessionIds -> SessionRecord]
    /\ asking \in [VideoRequests -> AskingState]
    /\ overlapped \in BOOLEAN

-----------------------------------------------------------------------------
(* The inductive invariant                                                  *)

Exists(i) == session[i].state # "none"
Over(i) == session[i].state \in {"ready", "failed"}

\* What the maps, and whoever looks through them, lead to has been made; what is pending
\* is known, for no session is pending again.
MapsLeadToSessions ==
    /\ \A i \in byId : Exists(i)
    /\ \A k \in VideoKeys : byKey[k] # NoSession => Exists(byKey[k]) /\ session[byKey[k]].key = k
    /\ \A i \in SessionIds : Exists(i) => session[i].key \in VideoKeys
    /\ \A i \in SessionIds : session[i].state = "pending" => i \in byId
    /\ \A i \in SessionIds : ~(session[i].expired /\ session[i].touched)

\* A request knows what it looks at; what it removes is over.
RequestsKnow ==
    \A r \in VideoRequests : LET me == asking[r] IN
        /\ me.pc = "new" => me.judge = {}
        /\ \A i \in me.judge : Exists(i)
        /\ me.pc \in {"look", "replace", "redir", "count", "insert"} => me.key \in VideoKeys
        /\ me.op = "ensure" => me.key \in VideoKeys
        /\ me.op = "asset" => me.id \in SessionIds
        /\ me.pc = "look" => me.victim \in SessionIds /\ Exists(me.victim)
        /\ me.pc \in {"remove", "rmdir", "replace", "redir"} => me.victim \in SessionIds /\ Over(me.victim)

\* While requests come one at a time, the maps are each other's inverse, and the request
\* that is there has seen them as they are.
OneAtATime ==
    ~overlapped =>
        /\ \A r, s \in VideoRequests : asking[r].pc # "new" /\ asking[s].pc # "new" => r = s
        /\ \A i \in byId : byKey[session[i].key] = i
        /\ \A k \in VideoKeys : byKey[k] # NoSession => byKey[k] \in byId
        /\ Cardinality(PendingSessions) <= MaxTasks
        /\ \A r \in VideoRequests : LET me == asking[r] IN
              /\ me.judge \in SUBSET byId
              /\ me.pc \in {"look", "replace"} => me.judge = {}
              /\ me.pc \in {"remove", "look", "replace"} => me.victim \in byId \ me.judge
              /\ me.pc \in {"look", "replace"} => session[me.victim].key = me.key
              /\ me.pc \in {"redir", "count", "insert"} => byKey[me.key] = NoSession
              /\ me.pc = "insert" => SlotFree

VideoInv == VideoTypes /\ MapsLeadToSessions /\ RequestsKnow /\ OneAtATime

-----------------------------------------------------------------------------
(* The proof                                                                *)

LEMMA VideoInit == Init => VideoInv
<1> SUFFICES ASSUME SessionInit PROVE VideoInv
    BY DEF Init
<1>1. PendingSessions = {}
    BY DEF SessionInit, PendingSessions
<1>2. Cardinality(PendingSessions) = 0
    BY <1>1, FS_EmptySet
<1>3. /\ \A r \in VideoRequests : asking[r] = NotAsking
      /\ NotAsking \in AskingState /\ NotAsking.pc = "new" /\ NotAsking.op = "none" /\ NotAsking.judge = {}
    BY DEF SessionInit, NotAsking, AskingState, AskingPCs
<1>4. /\ \A i \in SessionIds : session[i] = NoRecord
      /\ NoRecord \in SessionRecord /\ NoRecord.state = "none" /\ NoRecord.touched = FALSE
    BY DEF SessionInit, NoRecord, SessionRecord
<1>5. VideoTypes
    BY <1>3, <1>4 DEF SessionInit, VideoTypes
<1>6. MapsLeadToSessions
    BY <1>4 DEF SessionInit, MapsLeadToSessions, Exists
<1>7. RequestsKnow
    BY <1>3 DEF RequestsKnow
<1>8. OneAtATime
    BY <1>2, <1>3, SessionAssumption DEF SessionInit, OneAtATime
<1> QED
    BY <1>5, <1>6, <1>7, <1>8 DEF VideoInv

\* The pending sessions can be counted, and fewer are no more.
LEMMA Counting ==
    ASSUME VideoTypes
    PROVE /\ IsFiniteSet(PendingSessions) /\ Cardinality(PendingSessions) \in Nat
          /\ \A S \in SUBSET PendingSessions : Cardinality(S) \in Nat /\ Cardinality(S) <= Cardinality(PendingSessions)
          /\ \A i : Cardinality(PendingSessions \cup {i}) \in Nat
                    /\ Cardinality(PendingSessions \cup {i}) <= Cardinality(PendingSessions) + 1
<1>1. IsFiniteSet(SessionIds)
    BY SessionAssumption, FS_Interval DEF SessionIds
<1>2. PendingSessions \in SUBSET SessionIds
    BY DEF VideoTypes, PendingSessions
<1>3. IsFiniteSet(PendingSessions)
    BY <1>1, <1>2, FS_Subset
<1>4. Cardinality(PendingSessions) \in Nat
    BY <1>3, FS_CardinalityType
<1>5. ASSUME NEW S \in SUBSET PendingSessions
      PROVE Cardinality(S) \in Nat /\ Cardinality(S) <= Cardinality(PendingSessions)
    BY <1>3, <1>5, FS_Subset, FS_CardinalityType
<1>6. ASSUME NEW i
      PROVE Cardinality(PendingSessions \cup {i}) \in Nat
            /\ Cardinality(PendingSessions \cup {i}) <= Cardinality(PendingSessions) + 1
    BY <1>3, <1>4, FS_AddElement, FS_CardinalityType
<1> QED
    BY <1>3, <1>4, <1>5, <1>6

\* Sessions are touched, lapse, or lose their directory: they stay what they are.
SessionsKept ==
    /\ session' \in [SessionIds -> SessionRecord]
    /\ \A i \in SessionIds : session'[i].state = session[i].state /\ session'[i].key = session[i].key
                            /\ ~(session'[i].expired /\ session'[i].touched)

\* One request moves on; the maps stay as they are.
LEMMA OneAsks ==
    ASSUME VideoInv, NEW r \in VideoRequests, NEW me \in AskingState, asking' = [asking EXCEPT ![r] = me],
           UNCHANGED <<byId, byKey>>, SessionsKept, overlapped' \in BOOLEAN, ~overlapped' => ~overlapped,
           ~overlapped' /\ me.pc # "new" => \A s \in VideoRequests \ {r} : asking[s].pc = "new",
           me.pc = "new" => me.judge = {}, \A i \in me.judge : Exists(i),
           me.pc \in {"look", "replace", "redir", "count", "insert"} => me.key \in VideoKeys,
           me.op = "ensure" => me.key \in VideoKeys,
           me.op = "asset" => me.id \in SessionIds,
           me.pc = "look" => me.victim \in SessionIds /\ Exists(me.victim),
           me.pc \in {"remove", "rmdir", "replace", "redir"} => me.victim \in SessionIds /\ Over(me.victim),
           ~overlapped' =>
              /\ me.judge \in SUBSET byId
              /\ me.pc \in {"look", "replace"} => me.judge = {}
              /\ me.pc \in {"remove", "look", "replace"} => me.victim \in byId \ me.judge
              /\ me.pc \in {"look", "replace"} => session[me.victim].key = me.key
              /\ me.pc \in {"redir", "count", "insert"} => byKey[me.key] = NoSession
              /\ me.pc = "insert" => SlotFree
    PROVE VideoInv'
<1>1. PendingSessions' = PendingSessions
    BY DEF PendingSessions, SessionsKept, VideoInv, VideoTypes
<1>2. asking'[r] = me /\ \A s \in VideoRequests \ {r} : asking'[s] = asking[s]
    BY DEF VideoInv, VideoTypes
<1>3. VideoTypes'
    BY DEF VideoInv, VideoTypes, SessionsKept
<1>4. MapsLeadToSessions'
    BY SessionAssumption DEF VideoInv, VideoTypes, MapsLeadToSessions, Exists, SessionsKept
<1>5. RequestsKnow'
  <2> SUFFICES ASSUME NEW s \in VideoRequests PROVE
        LET you == asking'[s] IN
        /\ you.pc = "new" => you.judge = {}
        /\ \A i \in you.judge : Exists(i)
        /\ you.pc \in {"look", "replace", "redir", "count", "insert"} => you.key \in VideoKeys
        /\ you.op = "ensure" => you.key \in VideoKeys
        /\ you.op = "asset" => you.id \in SessionIds
        /\ you.pc = "look" => you.victim \in SessionIds /\ Exists(you.victim)
        /\ you.pc \in {"remove", "rmdir", "replace", "redir"} => you.victim \in SessionIds /\ Over(you.victim)
      BY <1>3 DEF RequestsKnow, Exists, Over, SessionsKept, VideoTypes, AskingState
  <2> QED
      BY <1>2 DEF VideoInv, RequestsKnow
<1>6. OneAtATime'
    BY <1>1, <1>2 DEF VideoInv, VideoTypes, OneAtATime, SlotFree, SessionsKept
<1> QED
    BY <1>3, <1>4, <1>5, <1>6 DEF VideoInv

LEMMA NothingKept == VideoInv /\ session' = session => SessionsKept
    BY DEF VideoInv, VideoTypes, MapsLeadToSessions, SessionsKept

LEMMA BeginSteps ==
    ASSUME VideoInv, NEW r \in VideoRequests,
           (\E k \in VideoKeys : BeginEnsureSession(r, k)) \/ (\E i \in SessionIds : BeginResolveAsset(r, i))
    PROVE VideoInv'
<1>1. ASSUME NEW fields \in AskingState, BeginAsking(r, fields), fields.op = "ensure" => fields.key \in VideoKeys,
             fields.op = "asset" => fields.id \in SessionIds
      PROVE VideoInv'
  <2> DEFINE me == [fields EXCEPT !.pc = "judge", !.judge = byId]
  <2>1. me \in AskingState /\ me.pc = "judge" /\ me.judge = byId /\ me.op = fields.op /\ me.key = fields.key
        /\ me.id = fields.id
      BY DEF AskingState, AskingPCs, VideoInv, VideoTypes
  <2>2. asking' = [asking EXCEPT ![r] = me]
      BY <1>1 DEF BeginAsking
  <2>3. overlapped' \in BOOLEAN /\ (~overlapped' => ~overlapped /\ \A s \in VideoRequests : asking[s].pc = "new")
      BY <1>1 DEF BeginAsking, VideoInv, VideoTypes
  <2> HIDE DEF me
  <2> QED
      BY <1>1, <2>1, <2>2, <2>3, OneAsks, NothingKept DEF BeginAsking, VideoInv, MapsLeadToSessions
<1>2. /\ \A k \in VideoKeys : [NotAsking EXCEPT !.op = "ensure", !.key = k] \in AskingState
      /\ \A i \in SessionIds : [NotAsking EXCEPT !.op = "asset", !.id = i] \in AskingState
    BY DEF NotAsking, AskingState, AskingPCs
<1> QED
    BY <1>1, <1>2 DEF BeginEnsureSession, BeginResolveAsset, NotAsking

LEMMA JudgeSteps ==
    ASSUME VideoInv, NEW r \in VideoRequests, NEW i \in SessionIds, JudgeSession(r, i)
    PROVE VideoInv'
<1> DEFINE me == [asking[r] EXCEPT !.judge = @ \ {i},
                     !.pc = IF TimeIsUp(i) THEN "remove" ELSE "judge",
                     !.victim = IF TimeIsUp(i) THEN i ELSE NoSession]
<1>1. asking[r] \in AskingState /\ session[i] \in SessionRecord /\ asking[r].pc = "judge" /\ i \in asking[r].judge
    BY DEF VideoInv, VideoTypes, JudgeSession
<1>2. /\ me \in AskingState /\ me.judge \in SUBSET asking[r].judge /\ me.op = asking[r].op /\ me.key = asking[r].key
      /\ me.id = asking[r].id /\ me.pc = (IF TimeIsUp(i) THEN "remove" ELSE "judge")
      /\ me.pc = "remove" => me.victim = i
    BY <1>1 DEF AskingState, AskingPCs
<1>3. asking' = [asking EXCEPT ![r] = me]
    BY DEF JudgeSession
<1>4. \A j \in me.judge : Exists(j)
    BY <1>2 DEF VideoInv, RequestsKnow
<1>5. me.pc = "remove" => Over(i) /\ i \in SessionIds
    BY <1>1, <1>2 DEF TimeIsUp, Over, Exists, SessionRecord, VideoInv, RequestsKnow
<1>6. /\ UNCHANGED <<byId, byKey, session, overlapped>> /\ overlapped \in BOOLEAN
      /\ ~overlapped => i \in byId /\ me.judge \in SUBSET byId
      /\ ~overlapped => \A s \in VideoRequests \ {r} : asking[s].pc = "new"
    BY <1>1, <1>2 DEF JudgeSession, VideoInv, VideoTypes, OneAtATime
<1>7. me.op = "ensure" => me.key \in VideoKeys
    BY <1>2 DEF VideoInv, RequestsKnow
<1>8. me.op = "asset" => me.id \in SessionIds
    BY <1>2 DEF VideoInv, RequestsKnow
<1>9. me.pc = "remove" => me.victim \notin me.judge
    BY <1>2
<1> HIDE DEF me
<1> QED
    BY <1>2, <1>3, <1>4, <1>5, <1>6, <1>7, <1>8, <1>9, OneAsks, NothingKept

\* What the invariant says of a request.
LEMMA OfRequest ==
    ASSUME VideoInv, NEW r \in VideoRequests
    PROVE LET me == asking[r] IN
        /\ me \in AskingState /\ overlapped \in BOOLEAN
        /\ me.pc = "new" => me.judge = {}
        /\ \A i \in me.judge : Exists(i)
        /\ me.pc \in {"look", "replace", "redir", "count", "insert"} => me.key \in VideoKeys
        /\ me.op = "ensure" => me.key \in VideoKeys
        /\ me.op = "asset" => me.id \in SessionIds
        /\ me.pc = "look" => me.victim \in SessionIds /\ Exists(me.victim)
        /\ me.pc \in {"remove", "rmdir", "replace", "redir"} => me.victim \in SessionIds /\ Over(me.victim)
        /\ ~overlapped =>
              /\ me.pc # "new" => \A s \in VideoRequests \ {r} : asking[s].pc = "new"
              /\ me.judge \in SUBSET byId
              /\ me.pc \in {"look", "replace"} => me.judge = {}
              /\ me.pc \in {"remove", "look", "replace"} => me.victim \in byId \ me.judge
              /\ me.pc \in {"look", "replace"} => session[me.victim].key = me.key
              /\ me.pc \in {"redir", "count", "insert"} => byKey[me.key] = NoSession
              /\ me.pc = "insert" => SlotFree
    BY DEF VideoInv, VideoTypes, RequestsKnow, OneAtATime

LEMMA LookSteps ==
    ASSUME VideoInv, NEW r \in VideoRequests, LookAtSession(r) \/ CountJobs(r)
    PROVE VideoInv'
<1>1. /\ NotAsking \in AskingState /\ NotAsking.pc = "new" /\ NotAsking.op = "none" /\ NotAsking.judge = {}
    BY DEF NotAsking, AskingState, AskingPCs
<1>2. asking[r] \in AskingState
    BY DEF VideoInv, VideoTypes
<1>3. CASE AskEnd(r, "look") \/ AskEnd(r, "count")
    BY <1>1, <1>3, OneAsks, NothingKept DEF AskEnd, LookAtSession, CountJobs, VideoInv, VideoTypes
<1>4. CASE LookAtSession(r) /\ ~AskEnd(r, "look")
  <2> DEFINE me == [asking[r] EXCEPT !.pc = "replace"]
  <2>1. asking[r].pc = "look" /\ asking' = [asking EXCEPT ![r] = me]
      BY <1>4 DEF LookAtSession, AskStep
  <2>2. /\ me \in AskingState /\ me.pc = "replace" /\ me.judge = asking[r].judge /\ me.op = asking[r].op
        /\ me.key = asking[r].key /\ me.id = asking[r].id /\ me.victim = asking[r].victim
      BY <1>2, <2>1 DEF AskingState, AskingPCs
  <2>3. asking[r].victim \in SessionIds /\ Over(asking[r].victim)
      BY <1>4, <2>1, OfRequest DEF LookAtSession, VideoInv, VideoTypes, Exists, Over, SessionRecord
  <2>4. UNCHANGED <<byId, byKey, session, overlapped>>
      BY <1>4 DEF LookAtSession
  <2> HIDE DEF me
  <2> QED
      BY <2>1, <2>2, <2>3, <2>4, OneAsks, NothingKept, OfRequest
<1>5. CASE CountJobs(r) /\ ~AskEnd(r, "count")
  <2> DEFINE me == [asking[r] EXCEPT !.pc = "insert"]
  <2>1. asking[r].pc = "count" /\ asking' = [asking EXCEPT ![r] = me] /\ SlotFree
      BY <1>5 DEF CountJobs, AskStep
  <2>2. /\ me \in AskingState /\ me.pc = "insert" /\ me.judge = asking[r].judge /\ me.op = asking[r].op
        /\ me.key = asking[r].key /\ me.id = asking[r].id /\ me.victim = asking[r].victim
      BY <1>2, <2>1 DEF AskingState, AskingPCs
  <2>3. UNCHANGED <<byId, byKey, session, overlapped>>
      BY <1>5 DEF CountJobs
  <2> HIDE DEF me
  <2> QED
      BY <2>1, <2>2, <2>3, OneAsks, NothingKept, OfRequest
<1> QED
    BY <1>3, <1>4, <1>5

\* A session that is asked for is touched: it is there, and stays what it is.
LEMMA Touching ==
    ASSUME VideoInv, NEW i \in SessionIds, session' = WithTouch(i)
    PROVE SessionsKept
<1> DEFINE rec == [session[i] EXCEPT !.expired = FALSE, !.touched = TRUE]
<1>1. session[i] \in SessionRecord /\ session' = [session EXCEPT ![i] = rec]
    BY DEF VideoInv, VideoTypes, WithTouch
<1>2. rec \in SessionRecord /\ rec.state = session[i].state /\ rec.key = session[i].key /\ rec.expired = FALSE
    BY <1>1 DEF SessionRecord
<1> HIDE DEF rec
<1> QED
    BY <1>1, <1>2 DEF VideoInv, VideoTypes, MapsLeadToSessions, SessionsKept

LEMMA FindSteps ==
    ASSUME VideoInv, NEW r \in VideoRequests, FindSession(r)
    PROVE VideoInv'
<1> DEFINE i == byKey[asking[r].key]
           me == [asking[r] EXCEPT !.pc = "look", !.victim = i]
           next == [asking[r] EXCEPT !.pc = "count"]
<1>1. asking[r] \in AskingState /\ asking[r].pc = "judge" /\ asking[r].judge = {} /\ asking[r].op = "ensure"
      /\ asking[r].key \in VideoKeys /\ i \in SessionIds \cup {NoSession}
      /\ UNCHANGED <<byId, byKey, overlapped>>
    BY DEF VideoInv, VideoTypes, RequestsKnow, FindSession, Judged
<1>2. CASE i = NoSession
  <2>1. asking' = [asking EXCEPT ![r] = next] /\ session' = session
      BY <1>2 DEF FindSession, AskStep
  <2>2. /\ next \in AskingState /\ next.pc = "count" /\ next.judge = {} /\ next.op = "ensure"
        /\ next.key = asking[r].key /\ next.id = asking[r].id /\ next.victim = asking[r].victim
      BY <1>1 DEF AskingState, AskingPCs
  <2>3. byKey[next.key] = NoSession
      BY <1>2, <2>2
  <2> HIDE DEF next, i
  <2> QED
      BY <1>1, <2>1, <2>2, <2>3, OneAsks, NothingKept, ZenonT(60) DEF VideoInv, VideoTypes, OneAtATime
<1>3. CASE i # NoSession
  <2>1. asking' = [asking EXCEPT ![r] = me] /\ session' = WithTouch(i) /\ i \in SessionIds
      BY <1>1, <1>3 DEF FindSession
  <2>2. /\ me \in AskingState /\ me.pc = "look" /\ me.judge = {} /\ me.op = "ensure"
        /\ me.key = asking[r].key /\ me.id = asking[r].id /\ me.victim = i
      BY <1>1, <2>1 DEF AskingState, AskingPCs
  <2>3. Exists(i) /\ session[i].key = me.key /\ (~overlapped => i \in byId)
      BY <1>1, <1>3, <2>2 DEF VideoInv, MapsLeadToSessions, OneAtATime
  <2> HIDE DEF me, i
  <2> QED
      BY <1>1, <2>1, <2>2, <2>3, OneAsks, Touching, ZenonT(60) DEF VideoInv, VideoTypes, OneAtATime
<1> QED
    BY <1>2, <1>3

LEMMA ServeSteps ==
    ASSUME VideoInv, NEW r \in VideoRequests, ServeAsset(r)
    PROVE VideoInv'
<1>1. /\ NotAsking \in AskingState /\ NotAsking.pc = "new" /\ NotAsking.op = "none" /\ NotAsking.judge = {}
    BY DEF NotAsking, AskingState, AskingPCs
<1>2. SessionsKept
    BY Touching, NothingKept DEF ServeAsset, VideoInv, VideoTypes
<1> QED
    BY <1>1, <1>2, OneAsks DEF ServeAsset, AskEnd, VideoInv, VideoTypes

LEMMA DirectorySteps ==
    ASSUME VideoInv, NEW r \in VideoRequests, RemoveDirectory(r)
    PROVE VideoInv'
<1> DEFINE me == [asking[r] EXCEPT !.pc = IF @ = "rmdir" THEN "judge" ELSE "count", !.victim = NoSession]
<1>1. asking[r] \in AskingState /\ asking[r].pc \in {"rmdir", "redir"} /\ asking' = [asking EXCEPT ![r] = me]
      /\ asking[r].victim \in SessionIds /\ UNCHANGED <<byId, byKey, overlapped>>
    BY DEF VideoInv, VideoTypes, RemoveDirectory, RequestsKnow
<1>2. /\ me \in AskingState /\ me.pc \in {"judge", "count"} /\ (me.pc = "count" => asking[r].pc = "redir")
      /\ me.judge = asking[r].judge /\ me.op = asking[r].op /\ me.key = asking[r].key /\ me.id = asking[r].id
    BY <1>1 DEF AskingState, AskingPCs
<1>3. SessionsKept
  <2> DEFINE v == asking[r].victim
             rec == [session[v] EXCEPT !.dir = FALSE]
  <2>1. session[v] \in SessionRecord /\ session' = [session EXCEPT ![v] = rec]
      BY <1>1 DEF RemoveDirectory, VideoInv, VideoTypes
  <2>2. /\ rec \in SessionRecord /\ rec.state = session[v].state /\ rec.key = session[v].key
        /\ rec.expired = session[v].expired /\ rec.touched = session[v].touched
      BY <2>1 DEF SessionRecord
  <2> HIDE DEF rec
  <2> QED
      BY <1>1, <2>1, <2>2 DEF VideoInv, VideoTypes, MapsLeadToSessions, SessionsKept
<1> HIDE DEF me
<1> QED
    BY <1>1, <1>2, <1>3, OneAsks, OfRequest, ZenonT(60)

\* A session is forgotten: no key of another goes with it while requests come one at a
\* time.
LEMMA RemoveSteps ==
    ASSUME VideoInv, NEW r \in VideoRequests, RemoveSession(r)
    PROVE VideoInv'
<1> DEFINE v == asking[r].victim
           to == IF asking[r].pc = "remove" THEN "rmdir" ELSE "redir"
           me == [asking[r] EXCEPT !.pc = to]
           K == session[v].key
<1>1. /\ asking[r] \in AskingState /\ asking[r].pc \in {"remove", "replace"} /\ asking' = [asking EXCEPT ![r] = me]
      /\ v \in SessionIds /\ Over(v) /\ byId' = byId \ {v} /\ byKey' = [byKey EXCEPT ![K] = NoSession]
      /\ UNCHANGED <<session, overlapped>>
    BY OfRequest DEF RemoveSession, AskStep
<1>2. /\ me \in AskingState /\ me.pc = to /\ me.judge = asking[r].judge /\ me.op = asking[r].op
      /\ me.key = asking[r].key /\ me.id = asking[r].id /\ me.victim = v
    BY <1>1 DEF AskingState, AskingPCs
<1>3. K \in VideoKeys
    BY <1>1 DEF VideoInv, MapsLeadToSessions, Over, Exists
<1>4. asking'[r] = me /\ \A s \in VideoRequests \ {r} : asking'[s] = asking[s]
    BY <1>1 DEF VideoInv, VideoTypes
<1> HIDE DEF me
<1>5. VideoTypes'
    BY <1>1, <1>2 DEF VideoInv, VideoTypes
<1>6. MapsLeadToSessions'
    BY <1>1, <1>3 DEF VideoInv, VideoTypes, MapsLeadToSessions, Exists, Over
<1>7. RequestsKnow'
  <2> SUFFICES ASSUME NEW s \in VideoRequests PROVE
        LET you == asking'[s] IN
        /\ you.pc = "new" => you.judge = {}
        /\ \A i \in you.judge : Exists(i)
        /\ you.pc \in {"look", "replace", "redir", "count", "insert"} => you.key \in VideoKeys
        /\ you.op = "ensure" => you.key \in VideoKeys
        /\ you.op = "asset" => you.id \in SessionIds
        /\ you.pc = "look" => you.victim \in SessionIds /\ Exists(you.victim)
        /\ you.pc \in {"remove", "rmdir", "replace", "redir"} => you.victim \in SessionIds /\ Over(you.victim)
      BY <1>1 DEF RequestsKnow, Exists, Over
  <2> QED
      BY <1>1, <1>2, <1>4, OfRequest
<1>8. OneAtATime'
  <2> SUFFICES ASSUME ~overlapped PROVE OneAtATime'
      BY <1>1 DEF OneAtATime
  <2>1. \A s \in VideoRequests \ {r} : asking[s].pc = "new"
      BY <1>1, OfRequest
  <2>2. v \in byId /\ v \notin asking[r].judge /\ byKey[K] = v
      BY <1>1, OfRequest DEF VideoInv, OneAtATime
  <2>3. PendingSessions' = PendingSessions
      BY <1>1 DEF PendingSessions, Over
  <2>4. \A i \in byId' : byKey'[session[i].key] = i
      BY <1>1, <1>3, <2>2 DEF VideoInv, VideoTypes, MapsLeadToSessions, OneAtATime, Exists
  <2>5. \A k \in VideoKeys : byKey'[k] # NoSession => byKey'[k] \in byId'
      BY <1>1, <1>3, <2>2 DEF VideoInv, VideoTypes, MapsLeadToSessions, OneAtATime
  <2>6. asking[r].judge \in SUBSET byId'
      BY <1>1, <2>2, OfRequest
  <2>7. \A s \in VideoRequests \ {r} : asking[s].judge = {}
      BY <2>1, OfRequest
  <2>8. me.pc = "redir" => byKey'[me.key] = NoSession
      BY <1>1, <1>2, <1>3, OfRequest DEF VideoInv, VideoTypes
  <2> QED
      BY <1>1, <1>2, <1>4, <2>1, <2>2, <2>3, <2>4, <2>5, <2>6, <2>7, <2>8 DEF VideoInv, OneAtATime
<1> QED
    BY <1>5, <1>6, <1>7, <1>8 DEF VideoInv

\* A new session: its id is in no map, and nobody looks at it.
LEMMA InsertSteps ==
    ASSUME VideoInv, NEW r \in VideoRequests, InsertSession(r)
    PROVE VideoInv'
<1>1. PICK i \in SessionIds :
         /\ ~Exists(i)
         /\ byId' = byId \cup {i} /\ byKey' = [byKey EXCEPT ![asking[r].key] = i]
         /\ session' = [session EXCEPT ![i] = [NoRecord EXCEPT !.state = "pending", !.key = asking[r].key]]
    BY DEF InsertSession, Exists
<1> DEFINE K == asking[r].key
           rec == [NoRecord EXCEPT !.state = "pending", !.key = asking[r].key]
<1>2. /\ asking[r].pc = "insert" /\ asking' = [asking EXCEPT ![r] = NotAsking] /\ overlapped' = overlapped
      /\ K \in VideoKeys
    BY OfRequest DEF InsertSession, AskEnd
<1>3. /\ NotAsking \in AskingState /\ NotAsking.pc = "new" /\ NotAsking.op = "none" /\ NotAsking.judge = {}
    BY DEF NotAsking, AskingState, AskingPCs
<1>4. /\ rec \in SessionRecord /\ rec.state = "pending" /\ rec.key = K /\ rec.expired = FALSE
    BY <1>2 DEF NoRecord, SessionRecord
<1> HIDE DEF rec
<1>5. session'[i] = rec /\ \A j \in SessionIds \ {i} : session'[j] = session[j]
    BY <1>1 DEF rec, VideoInv, VideoTypes
<1>6. asking'[r] = NotAsking /\ \A s \in VideoRequests \ {r} : asking'[s] = asking[s]
    BY <1>2 DEF VideoInv, VideoTypes
<1>7. i \notin byId /\ \A k \in VideoKeys : byKey[k] # i
    BY <1>1, SessionAssumption DEF VideoInv, VideoTypes, MapsLeadToSessions
<1>8. VideoTypes'
    BY <1>1, <1>2, <1>3, <1>4 DEF rec, VideoInv, VideoTypes
<1>9. MapsLeadToSessions'
  <2>1. \A j \in byId' : Exists(j)'
      BY <1>1, <1>4, <1>5 DEF VideoInv, VideoTypes, MapsLeadToSessions, Exists
  <2>2. \A k \in VideoKeys : byKey'[k] # NoSession => Exists(byKey[k])' /\ session'[byKey'[k]].key = k
      BY <1>1, <1>2, <1>4, <1>5, <1>7 DEF VideoInv, VideoTypes, MapsLeadToSessions, Exists
  <2>3. \A j \in SessionIds : Exists(j)' => session'[j].key \in VideoKeys
      BY <1>2, <1>4, <1>5 DEF VideoInv, MapsLeadToSessions, Exists
  <2>4. \A j \in SessionIds : session'[j].state = "pending" => j \in byId'
      BY <1>1, <1>5 DEF VideoInv, MapsLeadToSessions
  <2>5. \A j \in SessionIds : ~(session'[j].expired /\ session'[j].touched)
      BY <1>4, <1>5 DEF VideoInv, MapsLeadToSessions
  <2> QED
      BY <2>1, <2>2, <2>3, <2>4, <2>5 DEF MapsLeadToSessions
<1>10. RequestsKnow'
  <2> SUFFICES ASSUME NEW s \in VideoRequests, s # r PROVE
        LET you == asking[s] IN
        /\ you.pc = "new" => you.judge = {}
        /\ \A j \in you.judge : Exists(j)'
        /\ you.pc \in {"look", "replace", "redir", "count", "insert"} => you.key \in VideoKeys
        /\ you.op = "ensure" => you.key \in VideoKeys
        /\ you.op = "asset" => you.id \in SessionIds
        /\ you.pc = "look" => you.victim \in SessionIds /\ session'[you.victim].state # "none"
        /\ you.pc \in {"remove", "rmdir", "replace", "redir"} =>
               you.victim \in SessionIds /\ session'[you.victim].state \in {"ready", "failed"}
      BY <1>3, <1>6 DEF RequestsKnow, Exists, Over
  <2>1. asking[s] \in AskingState /\ \A j \in SessionIds : (Exists(j) => Exists(j)') /\ (Over(j) => Over(j)')
      BY <1>1, <1>4, <1>5 DEF VideoInv, VideoTypes, Exists, Over
  <2>2. \A j \in asking[s].judge : Exists(j)'
      BY <2>1, OfRequest DEF AskingState
  <2>3. /\ asking[s].pc = "look" => session'[asking[s].victim].state # "none"
        /\ asking[s].pc \in {"remove", "rmdir", "replace", "redir"} =>
               session'[asking[s].victim].state \in {"ready", "failed"}
      BY <2>1, OfRequest DEF Exists, Over
  <2> QED
      BY <2>1, <2>2, <2>3, OfRequest
<1>11. OneAtATime'
  <2> SUFFICES ASSUME ~overlapped PROVE OneAtATime'
      BY <1>2 DEF OneAtATime
  <2>1. \A s \in VideoRequests : asking'[s].pc = "new" /\ asking'[s].judge = {}
      BY <1>2, <1>3, <1>6, OfRequest
  <2>2. byKey[K] = NoSession /\ SlotFree
      BY <1>2, OfRequest
  <2>3. \A j \in byId : session[j].key # K
      BY <2>2, SessionAssumption DEF VideoInv, VideoTypes, OneAtATime
  <2>4. \A j \in byId' : byKey'[session'[j].key] = j
      BY <1>1, <1>2, <1>4, <1>5, <2>3 DEF VideoInv, VideoTypes, MapsLeadToSessions, OneAtATime
  <2>5. \A k \in VideoKeys : byKey'[k] # NoSession => byKey'[k] \in byId'
      BY <1>1, <1>2 DEF VideoInv, VideoTypes, OneAtATime
  <2>6. PendingSessions' = PendingSessions \cup {i}
      BY <1>1, <1>4, <1>5, <1>7 DEF PendingSessions, VideoInv, VideoTypes
  <2>7. Cardinality(PendingSessions') <= MaxTasks
    <3>1. Cardinality(PendingSessions) \in Nat /\ Cardinality(PendingSessions \cup {i}) \in Nat
          /\ Cardinality(PendingSessions \cup {i}) <= Cardinality(PendingSessions) + 1
        BY Counting DEF VideoInv
    <3> QED
        BY <2>2, <2>6, <3>1, SessionAssumption DEF SlotFree
  <2> QED
      BY <2>1, <2>4, <2>5, <2>7 DEF OneAtATime
<1> QED
    BY <1>8, <1>9, <1>10, <1>11 DEF VideoInv

\* The jobs and the clock: a session that was pending is over, or one lapses.
LEMMA JobSteps ==
    ASSUME VideoInv, NEW i \in SessionIds, EndTranscoding(i) \/ FailTranscoding(i) \/ PassTimeToLive(i)
    PROVE VideoInv'
<1>1. UNCHANGED <<byId, byKey, asking, overlapped>> /\ session[i] \in SessionRecord
    BY DEF EndTranscoding, FailTranscoding, PassTimeToLive, VideoInv, VideoTypes
<1>2. PICK rec \in SessionRecord :
         /\ session' = [session EXCEPT ![i] = rec] /\ rec.key = session[i].key /\ ~(rec.expired /\ rec.touched)
         /\ \/ rec.state = session[i].state
            \/ session[i].state = "pending" /\ rec.state \in {"ready", "failed"}
  <2>1. CASE EndTranscoding(i)
    <3> DEFINE rec == [session[i] EXCEPT !.expired = FALSE, !.touched = TRUE, !.state = "ready", !.dir = TRUE]
    <3>1. session' = [session EXCEPT ![i] = rec]
        BY <2>1 DEF EndTranscoding, ReadyRecord, WithTouch, VideoInv, VideoTypes
    <3>2. rec \in SessionRecord /\ rec.key = session[i].key /\ rec.expired = FALSE /\ rec.state = "ready"
        BY <1>1 DEF SessionRecord
    <3> HIDE DEF rec
    <3> QED
        BY <2>1, <3>1, <3>2 DEF EndTranscoding
  <2>2. CASE FailTranscoding(i)
    <3> DEFINE rec == [session[i] EXCEPT !.state = "failed", !.dir = TRUE]
    <3>1. session' = [session EXCEPT ![i] = rec]
        BY <2>2 DEF FailTranscoding, VideoInv, VideoTypes
    <3>2. rec \in SessionRecord /\ rec.key = session[i].key /\ rec.state = "failed"
          /\ rec.expired = session[i].expired /\ rec.touched = session[i].touched
        BY <1>1 DEF SessionRecord
    <3> HIDE DEF rec
    <3> QED
        BY <2>2, <3>1, <3>2 DEF FailTranscoding, VideoInv, MapsLeadToSessions
  <2>3. CASE PassTimeToLive(i)
    <3> DEFINE rec == [session[i] EXCEPT !.expired = TRUE, !.touched = FALSE]
    <3>1. session' = [session EXCEPT ![i] = rec]
        BY <2>3 DEF PassTimeToLive, VideoInv, VideoTypes
    <3>2. rec \in SessionRecord /\ rec.key = session[i].key /\ rec.touched = FALSE /\ rec.state = session[i].state
        BY <1>1 DEF SessionRecord
    <3> HIDE DEF rec
    <3> QED
        BY <3>1, <3>2
  <2> QED
      BY <2>1, <2>2, <2>3
<1>3. session'[i] = rec /\ \A j \in SessionIds \ {i} : session'[j] = session[j]
    BY <1>2 DEF VideoInv, VideoTypes
<1>4. /\ PendingSessions' \in SUBSET PendingSessions
      /\ \A j \in SessionIds : Exists(j)' = Exists(j) /\ (Over(j) => Over(j)') /\ session'[j].key = session[j].key
    BY <1>1, <1>2, <1>3 DEF PendingSessions, Exists, Over, VideoInv, VideoTypes
<1>5. VideoTypes'
    BY <1>1, <1>2 DEF VideoInv, VideoTypes
<1>6. MapsLeadToSessions'
  <2>1. \A j \in byId' : Exists(j)'
      BY <1>1, <1>4 DEF VideoInv, VideoTypes, MapsLeadToSessions
  <2>2. \A k \in VideoKeys : byKey'[k] # NoSession => Exists(byKey[k])' /\ session'[byKey'[k]].key = k
    <3> SUFFICES ASSUME NEW k \in VideoKeys, byKey[k] # NoSession, NEW j, j = byKey[k]
                 PROVE session'[j].state # "none" /\ session'[j].key = k
        BY <1>1 DEF Exists
    <3> QED
        BY <1>4 DEF VideoInv, VideoTypes, MapsLeadToSessions, Exists
  <2>3. \A j \in SessionIds : Exists(j)' => session'[j].key \in VideoKeys
      BY <1>4 DEF VideoInv, MapsLeadToSessions
  <2>4. \A j \in SessionIds : session'[j].state = "pending" => j \in byId'
      BY <1>1, <1>2, <1>3 DEF VideoInv, MapsLeadToSessions
  <2>5. \A j \in SessionIds : ~(session'[j].expired /\ session'[j].touched)
      BY <1>2, <1>3 DEF VideoInv, MapsLeadToSessions
  <2> QED
      BY <2>1, <2>2, <2>3, <2>4, <2>5 DEF MapsLeadToSessions
<1>7. RequestsKnow'
  <2> SUFFICES ASSUME NEW s \in VideoRequests PROVE
        LET you == asking[s] IN
        /\ you.pc = "new" => you.judge = {}
        /\ \A j \in you.judge : Exists(j)'
        /\ you.pc \in {"look", "replace", "redir", "count", "insert"} => you.key \in VideoKeys
        /\ you.op = "ensure" => you.key \in VideoKeys
        /\ you.op = "asset" => you.id \in SessionIds
        /\ you.pc = "look" => you.victim \in SessionIds /\ session'[you.victim].state # "none"
        /\ you.pc \in {"remove", "rmdir", "replace", "redir"} =>
               you.victim \in SessionIds /\ session'[you.victim].state \in {"ready", "failed"}
      BY <1>1 DEF RequestsKnow, Exists, Over
  <2>1. asking[s] \in AskingState
      BY DEF VideoInv, VideoTypes
  <2>2. \A j \in asking[s].judge : Exists(j)'
      BY <1>4, <2>1, OfRequest DEF AskingState
  <2>3. /\ asking[s].pc = "look" => session'[asking[s].victim].state # "none"
        /\ asking[s].pc \in {"remove", "rmdir", "replace", "redir"} =>
               session'[asking[s].victim].state \in {"ready", "failed"}
      BY <1>4, OfRequest DEF Exists, Over
  <2> QED
      BY <1>4, <2>2, <2>3, OfRequest
<1>8. OneAtATime'
  <2> SUFFICES ASSUME ~overlapped PROVE OneAtATime'
      BY <1>1 DEF OneAtATime
  <2>1. Cardinality(PendingSessions') \in Nat /\ Cardinality(PendingSessions) \in Nat
        /\ Cardinality(PendingSessions') <= Cardinality(PendingSessions)
      BY <1>4, Counting DEF VideoInv
  <2>2. Cardinality(PendingSessions') <= MaxTasks /\ (SlotFree => SlotFree')
      BY <2>1, SessionAssumption DEF VideoInv, OneAtATime, SlotFree
  <2>3. \A j \in byId : session'[j].key = session[j].key
      BY <1>4 DEF VideoInv, VideoTypes
  <2>4. \A s \in VideoRequests :
           asking[s].pc \in {"look", "replace"} => session'[asking[s].victim].key = session[asking[s].victim].key
      BY <1>4, OfRequest DEF Exists, Over
  <2> QED
      BY <1>1, <2>2, <2>3, <2>4 DEF VideoInv, OneAtATime
<1> QED
    BY <1>5, <1>6, <1>7, <1>8 DEF VideoInv

LEMMA VideoInductive == VideoInv /\ [Next]_storageVars => VideoInv'
<1> SUFFICES ASSUME VideoInv, VideosMoves \/ UNCHANGED sessionVars PROVE VideoInv'
    BY VideoSteps
<1>1. CASE UNCHANGED sessionVars
    BY <1>1 DEF sessionVars, VideoInv, VideoTypes, MapsLeadToSessions, RequestsKnow, OneAtATime, Exists, Over,
                PendingSessions, SlotFree
<1>2. ASSUME NEW r \in VideoRequests,
             RemoveSession(r) \/ RemoveDirectory(r) \/ FindSession(r) \/ LookAtSession(r) \/ CountJobs(r)
             \/ InsertSession(r) \/ ServeAsset(r)
      PROVE VideoInv'
    BY <1>2, RemoveSteps, DirectorySteps, FindSteps, LookSteps, InsertSteps, ServeSteps
<1>3. CASE VideosMoves
    BY <1>2, <1>3, BeginSteps, JudgeSteps, JobSteps DEF VideosMoves
<1> QED
    BY <1>1, <1>3

LEMMA VideoInvariant == Spec => []VideoInv
    BY VideoInit, VideoInductive, PTL DEF Spec

-----------------------------------------------------------------------------
(* The theorems                                                             *)

\* The limit on jobs and the one session of a key (ensure_web_video_hls_session), with
\* any number of requests that come one at a time, and jobs that end whenever they end.
THEOREM OneSession == Spec => []OneSessionPerKey
<1>1. VideoInv => OneSessionPerKey
    BY DEF VideoInv, MapsLeadToSessions, OneAtATime, OneSessionPerKey
<1> QED
    BY <1>1, VideoInvariant, PTL

\* What is cleaned up or replaced (cleanup_expired_video_sessions and the look at the
\* manifest), however many requests are under way at once.
THEOREM TouchedStay == Spec => TouchedSessionsStay
<1> DEFINE Stay == \A r \in VideoRequests : LET i == asking'[r].victim IN
          /\ asking[r].pc # "remove" /\ asking'[r].pc = "remove" => ~session[i].touched
          /\ asking[r].pc # "replace" /\ asking'[r].pc = "replace" => session[i].state = "failed" \/ ~session[i].dir
<1>1. VideoInv /\ [Next]_storageVars => [Stay]_sessionVars
  <2> SUFFICES ASSUME VideoInv, VideosMoves PROVE Stay
      BY VideoSteps
  <2> SUFFICES ASSUME NEW r \in VideoRequests, asking[r].pc # asking'[r].pc,
                      asking'[r].pc \in {"remove", "replace"}
               PROVE LET i == asking'[r].victim IN
                     /\ asking'[r].pc = "remove" => ~session[i].touched
                     /\ asking'[r].pc = "replace" => session[i].state = "failed" \/ ~session[i].dir
      OBVIOUS
  <2>1. asking \in [VideoRequests -> AskingState] /\ asking[r] \in AskingState
      BY DEF VideoInv, VideoTypes
  <2>2. ASSUME NEW o \in VideoRequests, NEW to \in {"rmdir", "redir", "count", "insert"}, NEW from, AskStep(o, from, to)
        PROVE FALSE
      BY <2>1, <2>2 DEF AskStep, AskingState
  <2>3. ASSUME NEW o \in VideoRequests, NEW from, AskEnd(o, from)
        PROVE FALSE
      BY <2>1, <2>3 DEF AskEnd, NotAsking, AskingState
  <2>4. ASSUME NEW o \in VideoRequests, NEW i \in SessionIds, JudgeSession(o, i)
        PROVE o = r /\ asking'[r].pc = "remove" /\ asking'[r].victim = i /\ TimeIsUp(i)
    <3>1. asking[o] \in AskingState /\ o = r
        BY <2>1, <2>4 DEF JudgeSession, VideoInv, VideoTypes
    <3> QED
        BY <2>1, <2>4, <3>1 DEF JudgeSession, AskingState
  <2>5. ASSUME NEW o \in VideoRequests, LookAtSession(o)
        PROVE /\ asking'[r].pc = "replace" /\ asking'[r].victim \in SessionIds /\ Exists(asking[r].victim)
              /\ asking'[r].victim = asking[r].victim
              /\ session[asking[r].victim].state # "pending"
              /\ session[asking[r].victim].state = "ready" => ~session[asking[r].victim].dir
    <3>1. AskStep(o, "look", "replace") /\ o = r
        BY <2>1, <2>3, <2>5 DEF LookAtSession, AskStep
    <3>2. asking'[r] = [asking[r] EXCEPT !.pc = "replace"] /\ asking[r].pc = "look"
        BY <2>1, <3>1 DEF AskStep
    <3>3. asking'[r].pc = "replace" /\ asking'[r].victim = asking[r].victim
        BY <2>1, <3>2 DEF AskingState
    <3>4. ~AskEnd(o, "look")
        BY <2>3
    <3> QED
        BY <2>5, <3>1, <3>2, <3>3, <3>4, OfRequest DEF LookAtSession
  <2>6. ASSUME NEW o \in VideoRequests, RemoveDirectory(o)
        PROVE FALSE
    <3>1. asking[o] \in AskingState /\ o = r
        BY <2>1, <2>6 DEF RemoveDirectory, VideoInv, VideoTypes
    <3> QED
        BY <2>1, <2>6, <3>1 DEF RemoveDirectory, AskingState
  <2>7. ASSUME NEW o \in VideoRequests, FindSession(o)
        PROVE FALSE
    <3>1. asking[o] \in AskingState /\ o = r
        BY <2>1, <2>7 DEF FindSession, AskStep, VideoInv, VideoTypes
    <3> QED
        BY <2>1, <2>7, <3>1 DEF FindSession, AskStep, AskingState
  <2>8. ASSUME NEW o \in VideoRequests, NEW fields, fields \in AskingState, BeginAsking(o, fields)
        PROVE FALSE
      BY <2>1, <2>8 DEF BeginAsking, AskingState
  <2>9. /\ \A k \in VideoKeys : [NotAsking EXCEPT !.op = "ensure", !.key = k] \in AskingState
        /\ \A i \in SessionIds : [NotAsking EXCEPT !.op = "asset", !.id = i] \in AskingState
      BY DEF NotAsking, AskingState, AskingPCs
  <2>10. \/ \E i \in SessionIds : JudgeSession(r, i) /\ asking'[r].pc = "remove" /\ asking'[r].victim = i /\ TimeIsUp(i)
         \/ LookAtSession(r)
    <3>1. \A o \in VideoRequests : ~RemoveSession(o) /\ ~CountJobs(o) /\ ~InsertSession(o) /\ ~ServeAsset(o)
        BY <2>2, <2>3 DEF RemoveSession, CountJobs, InsertSession, ServeAsset
    <3>2. \A o \in VideoRequests : /\ \A k \in VideoKeys : ~BeginEnsureSession(o, k)
                                   /\ \A i \in SessionIds : ~BeginResolveAsset(o, i)
        BY <2>8, <2>9 DEF BeginEnsureSession, BeginResolveAsset
    <3>3. \A i \in SessionIds : ~EndTranscoding(i) /\ ~FailTranscoding(i) /\ ~PassTimeToLive(i)
        BY DEF EndTranscoding, FailTranscoding, PassTimeToLive
    <3>4. ASSUME NEW o \in VideoRequests, LookAtSession(o) PROVE o = r
        BY <2>1, <2>3, <3>4 DEF LookAtSession, AskStep
    <3> QED
        BY <2>4, <2>6, <2>7, <3>1, <3>2, <3>3, <3>4 DEF VideosMoves
  <2>11. CASE LookAtSession(r)
    <3>1. Exists(asking[r].victim) /\ session[asking[r].victim] \in SessionRecord
        BY <2>5, <2>11 DEF VideoInv, VideoTypes
    <3> QED
        BY <2>5, <2>11, <3>1 DEF Exists, SessionRecord
  <2>12. ASSUME NEW i \in SessionIds, TimeIsUp(i) PROVE ~session[i].touched
      BY <2>12 DEF TimeIsUp, VideoInv, MapsLeadToSessions
  <2> QED
      BY <2>10, <2>11, <2>12
<1> QED
    BY <1>1, VideoInvariant, PTL DEF Spec, TouchedSessionsStay

-----------------------------------------------------------------------------
(* Thumbnails and their files                                               *)

\* A step of Storage either is one of the thumbnails' or leaves them alone.
LEMMA ThumbSteps == [Next]_storageVars => ThumbsMoves \/ UNCHANGED thumbVars
    BY DEF Next, storageVars, ReadsMoves, UsageMoves, BinMoves, PoolMoves, VaultMoves, RouteMoves, ConfigMoves,
           RenderMoves, VideosMoves, BatchesMoves, MountsMoves, BesideReads, BesideUsage, BesideBin, BesidePool,
           BesideVault, BesideRoute, BesideConfig, BesideRender, BesideVideos, BesideBatches, BesideMounts

JobFields == {"pc", "at", "to", "got", "late"}
ShowPCs == {"render", "rendering", "store"}
MendPCs == {"remove", "move", "copy", "put", "drop"}
\* A request is about one path, and a move about two.
JobFits(j) ==
    /\ DOMAIN j = JobFields /\ j = [x \in JobFields |-> j[x]]
    /\ j.pc \in {"new", "markers", "download"} \cup ShowPCs \cup MendPCs
    /\ j.late \in BOOLEAN
    /\ j.pc # "new" => j.at \in Pictures
    /\ j.pc \in {"move", "copy", "put", "drop"} => j.to \in Pictures /\ j.at # j.to
    /\ j.pc \notin {"move", "copy", "put", "drop"} => j.to = NoContent
ThumbTypes ==
    /\ job = [r \in ThumbRequests |-> job[r]]
    /\ picture = [x \in Pictures |-> picture[x]]
    /\ thumb = [x \in Pictures |-> thumb[x]]
    /\ \A x \in Pictures : DOMAIN thumb[x] = {"of", "excused"} /\ thumb[x] = [y \in {"of", "excused"} |-> thumb[x][y]]
    /\ \A x \in Pictures : thumb[x].excused \in BOOLEAN
    /\ \A r \in ThumbRequests : JobFits(job[r])

\* What is rendered, or copied, is what its file holds, or a change has overtaken it.
ShowFits(j, here) == j.pc \in ShowPCs => j.late \/ j.got = here
PutFits(j, there) == j.pc = "put" => j.late \/ j.got = there
\* No call that j is in changes the thumbnail of x, nor that of y but to store a new one.
Clear(j, x, y) == Pending(j, {x, y}) => j.pc \in ShowPCs /\ j.at = y
\* A thumbnail that is to be moved is one of the file that has been moved, which nothing
\* else works on, or a change has overtaken the move.
MoveFits(r) ==
    job[r].pc \in {"move", "copy"} /\ ~job[r].late =>
        /\ picture[job[r].at] = NoContent
        /\ ~HasThumb(job[r].at) \/ thumb[job[r].at].excused \/ thumb[job[r].at].of = picture[job[r].to]
        /\ \A s \in ThumbRequests \ {r} : Clear(job[s], job[r].at, job[r].to)
Right(x) == ~HasThumb(x) \/ thumb[x].excused \/ thumb[x].of = picture[x]
\* A call that will set the thumbnail of x right; one that has put the thumbnail at its
\* target has only to drop the source.
Mends(j, x) == \/ j.pc \in {"remove", "move", "copy", "put"} /\ x \in {j.at, j.to}
               \/ j.pc = "drop" /\ x = j.at
Mended(x) == Right(x) \/ \E r \in ThumbRequests : Mends(job[r], x)
ThumbInv ==
    /\ ThumbTypes
    /\ \A r \in ThumbRequests : ShowFits(job[r], picture[job[r].at]) /\ PutFits(job[r], picture[job[r].to])
    /\ \A r \in ThumbRequests : MoveFits(r)
    /\ \A x \in Pictures : Mended(x)

LEMMA ThumbStarts == Init => ThumbInv
<1> SUFFICES ASSUME ThumbInit PROVE ThumbInv
    BY DEF Init
<1>1. JobFits(NewJob) /\ NewJob.pc = "new"
    BY DEF NewJob, JobFits, JobFields
<1>2. /\ job = [r \in ThumbRequests |-> NewJob] /\ thumb = [x \in Pictures |-> NoThumb]
      /\ picture = [x \in Pictures |-> picture[x]]
    BY DEF ThumbInit
<1>3. NoThumb.excused = FALSE /\ DOMAIN NoThumb = {"of", "excused"} /\ NoThumb = [y \in {"of", "excused"} |-> NoThumb[y]]
    BY DEF NoThumb
<1>4. ThumbTypes
    BY <1>1, <1>2, <1>3 DEF ThumbTypes
<1>5. \A r \in ThumbRequests :
         ShowFits(job[r], picture[job[r].at]) /\ PutFits(job[r], picture[job[r].to]) /\ MoveFits(r)
    BY <1>1, <1>2 DEF ShowFits, PutFits, MoveFits, ShowPCs
<1>6. \A x \in Pictures : Mended(x)
    BY <1>2 DEF Mended, Right, HasThumb
<1> QED
    BY <1>4, <1>5, <1>6 DEF ThumbInv

\* What one request does next, while no file changes.
LEMMA JobMoves ==
    ASSUME ThumbInv, NEW r \in ThumbRequests, NEW me, job' = [job EXCEPT ![r] = me],
           UNCHANGED <<cacheMode, picture>>, JobFits(me),
           ShowFits(me, picture[me.at]), PutFits(me, picture[me.to]),
           thumb' = [x \in Pictures |-> thumb'[x]],
           \A x \in Pictures : /\ DOMAIN thumb'[x] = {"of", "excused"}
                               /\ thumb'[x] = [y \in {"of", "excused"} |-> thumb'[x][y]]
                               /\ thumb'[x].excused \in BOOLEAN,
           \A x \in Pictures : \/ thumb'[x] = thumb[x] /\ (Mends(job[r], x) => Mends(me, x))
                               \/ cacheMode = "none" \/ thumb'[x] = NoThumb
                               \/ thumb'[x].excused \/ thumb'[x].of = picture[x],
           \A x \in Pictures : thumb'[x] = thumb[x] \/ thumb'[x] = NoThumb \/ Pending(job[r], {x}),
           me.pc \in {"move", "copy"} => /\ UNCHANGED thumb /\ job[r].pc = "move"
                                         /\ me.at = job[r].at /\ me.to = job[r].to /\ (job[r].late => me.late),
           \/ me.pc \notin ShowPCs \cup MendPCs
           \/ me.pc \in ShowPCs /\ picture[me.at] # NoContent
           \/ /\ me.at = job[r].at /\ me.to = job[r].to
              /\ (me.pc \in ShowPCs /\ job[r].pc \in ShowPCs) \/ (me.pc \in MendPCs /\ job[r].pc \in MendPCs)
    PROVE ThumbInv'
<1>1. /\ ThumbTypes /\ job'[r] = me /\ \A s \in ThumbRequests \ {r} : job'[s] = job[s]
    BY DEF ThumbInv, ThumbTypes
<1>2. ThumbTypes'
    BY <1>1 DEF ThumbTypes
<1>3. ASSUME NEW s \in ThumbRequests PROVE (ShowFits(job[s], picture[job[s].at]) /\ PutFits(job[s], picture[job[s].to]))'
    BY <1>1 DEF ThumbInv
<1>4. ASSUME NEW x \in Pictures PROVE Mended(x)'
  <2>1. CASE cacheMode = "none" \/ thumb'[x] = NoThumb \/ thumb'[x].excused \/ thumb'[x].of = picture[x]
      BY <2>1 DEF Mended, Right, HasThumb
  <2>2. CASE thumb'[x] = thumb[x] /\ (Mends(job[r], x) => Mends(me, x))
    <3>1. CASE Right(x)
        BY <2>2, <3>1 DEF Mended, Right, HasThumb
    <3>2. CASE \E s \in ThumbRequests : Mends(job[s], x)
      <4>1. PICK s \in ThumbRequests : Mends(job[s], x)
          BY <3>2
      <4>2. Mends(job'[s], x)
          BY <1>1, <2>2, <4>1
      <4> QED
          BY <4>2 DEF Mended
    <3> QED
        BY <3>1, <3>2 DEF ThumbInv, Mended
  <2> QED
      BY <2>1, <2>2
<1>5. ASSUME NEW s \in ThumbRequests PROVE MoveFits(s)'
  <2> SUFFICES ASSUME job'[s].pc \in {"move", "copy"}, ~job'[s].late
               PROVE /\ picture[job'[s].at] = NoContent
                     /\ \/ cacheMode = "none" \/ thumb'[job'[s].at] = NoThumb
                        \/ thumb'[job'[s].at].excused \/ thumb'[job'[s].at].of = picture[job'[s].to]
                     /\ \A q \in ThumbRequests \ {s} : Clear(job'[q], job'[s].at, job'[s].to)
      BY DEF MoveFits, HasThumb
  <2>1. CASE s = r
    <3>1. /\ UNCHANGED thumb /\ me.at = job[r].at /\ me.to = job[r].to /\ MoveFits(r)
          /\ job[r].pc = "move" /\ ~job[r].late
        BY <1>1, <2>1 DEF ThumbInv
    <3> QED
        BY <1>1, <2>1, <3>1 DEF MoveFits, HasThumb
  <2>2. CASE s # r
    <3> DEFINE x == job[s].at
               y == job[s].to
    <3>1. /\ job'[s] = job[s] /\ x \in Pictures /\ y \in Pictures /\ x # y
        BY <1>1, <2>2 DEF ThumbTypes, JobFits
    <3>2. /\ picture[x] = NoContent
          /\ ~HasThumb(x) \/ thumb[x].excused \/ thumb[x].of = picture[y]
          /\ \A q \in ThumbRequests \ {s} : Clear(job[q], x, y)
        BY <3>1 DEF ThumbInv, MoveFits
    <3>3. Clear(job[r], x, y)
        BY <2>2, <3>2
    <3> HIDE DEF x, y
    <3>4. thumb'[x] = thumb[x] \/ thumb'[x] = NoThumb
      <4>1. ~Pending(job[r], {x})
          BY <1>1, <3>1, <3>3, ThumbAssumption DEF Clear, Pending, ThumbTypes, JobFits, ShowPCs, MendPCs
      <4> QED
          BY <3>1, <4>1
    <3>5. Clear(me, x, y)
      <4>1. CASE me.pc \notin ShowPCs \cup MendPCs
          BY <4>1 DEF Clear, Pending, ShowPCs, MendPCs
      <4>2. CASE me.pc \in ShowPCs /\ picture[me.at] # NoContent
        <5>1. me.to = NoContent
            BY <4>2 DEF JobFits, ShowPCs
        <5> QED
            BY <3>1, <3>2, <4>2, <5>1, ThumbAssumption DEF Clear, Pending
      <4>3. CASE /\ me.at = job[r].at /\ me.to = job[r].to
                 /\ (me.pc \in ShowPCs /\ job[r].pc \in ShowPCs) \/ (me.pc \in MendPCs /\ job[r].pc \in MendPCs)
          BY <3>3, <4>3 DEF Clear, Pending, ShowPCs, MendPCs
      <4> QED
          BY <4>1, <4>2, <4>3
    <3>6. \A q \in ThumbRequests \ {s} : Clear(job'[q], x, y)
        BY <1>1, <3>2, <3>5
    <3>7. cacheMode = "none" \/ thumb'[x] = NoThumb \/ thumb'[x].excused \/ thumb'[x].of = picture[y]
        BY <3>2, <3>4 DEF HasThumb
    <3> QED
        BY <3>1, <3>2, <3>6, <3>7 DEF x, y
  <2> QED
      BY <2>1, <2>2
<1> QED
    BY <1>2, <1>3, <1>4, <1>5 DEF ThumbInv

\* A request that ends, having set right what it was to set right.
LEMMA JobEnds ==
    ASSUME ThumbInv, NEW r \in ThumbRequests, job' = [job EXCEPT ![r] = NewJob],
           UNCHANGED <<cacheMode, picture>>,
           thumb' = [x \in Pictures |-> thumb'[x]],
           \A x \in Pictures : /\ DOMAIN thumb'[x] = {"of", "excused"}
                               /\ thumb'[x] = [y \in {"of", "excused"} |-> thumb'[x][y]]
                               /\ thumb'[x].excused \in BOOLEAN,
           \A x \in Pictures : \/ thumb'[x] = thumb[x] /\ ~Mends(job[r], x)
                               \/ cacheMode = "none" \/ thumb'[x] = NoThumb
                               \/ thumb'[x].excused \/ thumb'[x].of = picture[x],
           \A x \in Pictures : thumb'[x] = thumb[x] \/ thumb'[x] = NoThumb \/ Pending(job[r], {x})
    PROVE ThumbInv'
<1>1. JobFits(NewJob) /\ NewJob.pc = "new"
    BY DEF NewJob, JobFits, JobFields
<1>2. ShowFits(NewJob, picture[NewJob.at]) /\ PutFits(NewJob, picture[NewJob.to])
    BY <1>1 DEF ShowFits, PutFits, ShowPCs
<1>3. NewJob.pc \notin ShowPCs \cup MendPCs
    BY <1>1 DEF ShowPCs, MendPCs
<1>4. ~(NewJob.pc \in {"move", "copy"})
    BY <1>1
<1> QED
    BY <1>1, <1>2, <1>3, <1>4, JobMoves

\* Steps that leave the thumbnails as they are.
LEMMA JobMovesOnly ==
    ASSUME ThumbInv, NEW r \in ThumbRequests, NEW me, job' = [job EXCEPT ![r] = me],
           UNCHANGED <<cacheMode, picture, thumb>>, JobFits(me),
           ShowFits(me, picture[me.at]), PutFits(me, picture[me.to]),
           \A x \in Pictures : Mends(job[r], x) => Mends(me, x),
           me.pc \in {"move", "copy"} => /\ job[r].pc = "move"
                                         /\ me.at = job[r].at /\ me.to = job[r].to /\ (job[r].late => me.late),
           \/ me.pc \notin ShowPCs \cup MendPCs
           \/ me.pc \in ShowPCs /\ picture[me.at] # NoContent
           \/ /\ me.at = job[r].at /\ me.to = job[r].to
              /\ (me.pc \in ShowPCs /\ job[r].pc \in ShowPCs) \/ (me.pc \in MendPCs /\ job[r].pc \in MendPCs)
    PROVE ThumbInv'
<1>1. /\ thumb' = [x \in Pictures |-> thumb'[x]] /\ thumb' = thumb
      /\ \A x \in Pictures : /\ DOMAIN thumb'[x] = {"of", "excused"}
                             /\ thumb'[x] = [y \in {"of", "excused"} |-> thumb'[x][y]]
                             /\ thumb'[x].excused \in BOOLEAN
    BY DEF ThumbInv, ThumbTypes
<1> QED
    BY <1>1, JobMoves

\* Thumbnails that are replaced have the fields of thumbnails.
LEMMA ThumbFields ==
    ASSUME ThumbTypes
    PROVE /\ \A x \in Pictures : /\ DOMAIN thumb[x] = {"of", "excused"}
                                 /\ thumb[x] = [y \in {"of", "excused"} |-> thumb[x][y]]
                                 /\ thumb[x].excused \in BOOLEAN
          /\ thumb = [x \in Pictures |-> thumb[x]]
          /\ NoThumb.excused = FALSE /\ DOMAIN NoThumb = {"of", "excused"}
          /\ NoThumb = [y \in {"of", "excused"} |-> NoThumb[y]]
    BY DEF ThumbTypes, NoThumb

\* A thumbnail is asked for.
LEMMA ShowsAreRight ==
    ASSUME ThumbInv, NEW r \in ThumbRequests,
           \/ \E x \in Pictures : BeginShow(r, x)
           \/ CheckMarkers(r) \/ Download(r) \/ StartRender(r) \/ EndRender(r) \/ StoreThumb(r)
    PROVE ThumbInv'
<1>1. /\ ThumbTypes /\ JobFits(job[r]) /\ ShowFits(job[r], picture[job[r].at]) /\ job = [q \in ThumbRequests |-> job[q]]
    BY DEF ThumbInv, ThumbTypes
<1>2. ASSUME job[r].pc \notin MendPCs PROVE \A x \in Pictures : ~Mends(job[r], x)
    BY <1>2 DEF Mends, MendPCs
<1>3. ASSUME job' = [job EXCEPT ![r] = NewJob], UNCHANGED <<cacheMode, picture, thumb>>, job[r].pc \notin MendPCs
      PROVE ThumbInv'
    BY <1>1, <1>2, <1>3, ThumbFields, JobEnds
<1>4. ASSUME NEW me, job' = [job EXCEPT ![r] = me], UNCHANGED <<cacheMode, picture, thumb>>,
             job[r].pc \notin MendPCs, JobFits(me), me.pc \in {"markers", "download"}
      PROVE ThumbInv'
  <2>1. /\ ShowFits(me, picture[me.at]) /\ PutFits(me, picture[me.to]) /\ me.pc \notin ShowPCs \cup MendPCs
        /\ me.pc \notin {"move", "copy"}
      BY <1>4 DEF ShowFits, PutFits, ShowPCs, MendPCs
  <2> QED
      BY <1>2, <1>4, <2>1, JobMovesOnly
<1>5. ASSUME NEW me, job' = [job EXCEPT ![r] = me], UNCHANGED <<cacheMode, picture, thumb>>,
             job[r].pc \notin MendPCs, JobFits(me), me.pc \in ShowPCs, me.at = job[r].at,
             me.late \/ me.got = picture[me.at],
             picture[me.at] # NoContent \/ (me.to = job[r].to /\ job[r].pc \in ShowPCs)
      PROVE ThumbInv'
  <2>1. /\ ShowFits(me, picture[me.at]) /\ PutFits(me, picture[me.to]) /\ me.pc \notin {"move", "copy"}
      BY <1>5 DEF ShowFits, PutFits, ShowPCs
  <2> QED
      BY <1>2, <1>5, <2>1, JobMovesOnly
<1>6. ASSUME NEW x \in Pictures, BeginShow(r, x) PROVE ThumbInv'
  <2> DEFINE me == [[[job[r] EXCEPT !.pc = "markers"] EXCEPT !.at = x] EXCEPT !.got = picture[x]]
  <2>1. job' = [job EXCEPT ![r] = me] /\ job[r].pc = "new" /\ UNCHANGED <<cacheMode, picture, thumb>>
      BY <1>1, <1>6 DEF BeginShow
  <2>2. JobFits(me) /\ me.pc = "markers"
      BY <1>1, <2>1 DEF JobFits, JobFields, ShowPCs, MendPCs
  <2> QED
      BY <1>4, <2>1, <2>2 DEF MendPCs
<1>7. CASE CheckMarkers(r)
  <2>1. job[r].pc = "markers" /\ UNCHANGED <<cacheMode, picture, thumb>>
      BY <1>7 DEF CheckMarkers, ThumbOnly
  <2>2. CASE job' = [job EXCEPT ![r] = NewJob]
      BY <1>3, <2>1, <2>2 DEF MendPCs
  <2>3. CASE job' = [job EXCEPT ![r].pc = "download"]
    <3>1. job' = [job EXCEPT ![r] = [job[r] EXCEPT !.pc = "download"]]
        BY <1>1, <2>3
    <3>2. JobFits([job[r] EXCEPT !.pc = "download"]) /\ [job[r] EXCEPT !.pc = "download"].pc = "download"
        BY <1>1, <2>1 DEF JobFits, JobFields, ShowPCs, MendPCs
    <3> QED
        BY <1>4, <2>1, <3>1, <3>2 DEF MendPCs
  <2> QED
      BY <1>7, <2>2, <2>3 DEF CheckMarkers, ThumbEnd, ThumbStep
<1>8. CASE Download(r)
  <2>1. job[r].pc = "download" /\ UNCHANGED <<cacheMode, picture, thumb>>
      BY <1>8 DEF Download, ThumbOnly
  <2>2. CASE job' = [job EXCEPT ![r] = NewJob]
      BY <1>3, <2>1, <2>2 DEF MendPCs
  <2>3. CASE picture[job[r].at] # NoContent /\ job' = [job EXCEPT ![r].pc = "render", ![r].got = picture[job[r].at]]
    <3> DEFINE me == [[job[r] EXCEPT !.pc = "render"] EXCEPT !.got = picture[job[r].at]]
    <3>1. job' = [job EXCEPT ![r] = me]
        BY <1>1, <2>3
    <3>2. JobFits(me) /\ me.pc \in ShowPCs /\ me.at = job[r].at /\ me.got = picture[me.at]
        BY <1>1, <2>1 DEF JobFits, JobFields, ShowPCs, MendPCs
    <3> HIDE DEF me
    <3> QED
        BY <1>5, <2>1, <2>3, <3>1, <3>2 DEF MendPCs
  <2> QED
      BY <1>8, <2>2, <2>3 DEF Download, ThumbEnd
<1>9. CASE StartRender(r)
  <2>1. /\ job[r].pc = "render" /\ UNCHANGED <<cacheMode, picture, thumb>>
        /\ job' = [job EXCEPT ![r] = [job[r] EXCEPT !.pc = "rendering"]]
      BY <1>9 DEF StartRender, ThumbOnly, ThumbStep
  <2>2. LET me == [job[r] EXCEPT !.pc = "rendering"] IN
        /\ JobFits(me) /\ me.pc \in ShowPCs /\ me.at = job[r].at /\ me.to = job[r].to
        /\ me.late \/ me.got = picture[me.at]
      BY <1>1, <2>1 DEF JobFits, JobFields, ShowPCs, MendPCs, ShowFits
  <2> QED
      BY <1>5, <2>1, <2>2 DEF MendPCs, ShowPCs
<1>10. CASE EndRender(r)
  <2>1. job[r].pc = "rendering" /\ UNCHANGED <<cacheMode, picture, thumb>>
      BY <1>10 DEF EndRender
  <2>2. CASE job' = [job EXCEPT ![r] = NewJob]
      BY <1>3, <2>1, <2>2 DEF MendPCs
  <2> DEFINE source == IF job[r].at \in TextFiles THEN picture[job[r].at] ELSE job[r].got
             me == [[[job[r] EXCEPT !.pc = "store"] EXCEPT !.got = source]
                                    EXCEPT !.late = (job[r].late /\ job[r].at \notin TextFiles)]
  <2>3. CASE job' = [job EXCEPT ![r].pc = "store", ![r].got = source, ![r].late = @ /\ job[r].at \notin TextFiles]
    <3>1. job' = [job EXCEPT ![r] = me]
        BY <1>1, <2>3 DEF JobFits, JobFields
    <3>2. /\ DOMAIN me = JobFields /\ me = [x \in JobFields |-> me[x]]
          /\ me.pc = "store" /\ me.at = job[r].at /\ me.to = job[r].to /\ me.got = source
          /\ me.late = (job[r].late /\ job[r].at \notin TextFiles)
        BY <1>1 DEF JobFits, JobFields
    <3> HIDE DEF me
    <3>3. me.late \in BOOLEAN
        BY <3>2
    <3>4. JobFits(me) /\ me.pc \in ShowPCs
        BY <1>1, <2>1, <3>2, <3>3 DEF JobFits, ShowPCs, MendPCs
    <3>5. me.late \/ me.got = picture[me.at]
        BY <1>1, <2>1, <3>2 DEF ShowFits, ShowPCs
    <3> QED
        BY <1>5, <2>1, <3>1, <3>2, <3>4, <3>5 DEF MendPCs, ShowPCs
  <2> QED
      BY <1>10, <2>2, <2>3 DEF EndRender, ThumbEnd, ThumbFail
<1>11. CASE StoreThumb(r)
  <2>1. job[r].pc = "store" /\ UNCHANGED <<cacheMode, picture>> /\ job' = [job EXCEPT ![r] = NewJob]
      BY <1>11 DEF StoreThumb, ThumbEnd, ThumbFail
  <2>2. CASE UNCHANGED thumb
      BY <1>3, <2>1, <2>2 DEF MendPCs
  <2>3. CASE thumb' = [thumb EXCEPT ![job[r].at] = [of |-> job[r].got, excused |-> job[r].late]]
    <3>1. job[r].at \in Pictures /\ job[r].late \in BOOLEAN /\ (job[r].late \/ job[r].got = picture[job[r].at])
        BY <1>1, <2>1 DEF JobFits, ShowFits, ShowPCs
    <3>2. thumb'[job[r].at] = [of |-> job[r].got, excused |-> job[r].late]
          /\ \A x \in Pictures \ {job[r].at} : thumb'[x] = thumb[x]
        BY <1>1, <2>3, <3>1, ThumbFields
    <3>3. thumb' = [x \in Pictures |-> thumb'[x]]
        BY <1>1, <2>3, ThumbFields
    <3>4. Pending(job[r], {job[r].at})
        BY <2>1 DEF Pending
    <3>5. \A x \in Pictures : ~Mends(job[r], x)
        BY <1>2, <2>1 DEF MendPCs
    <3>6. \A x \in Pictures : /\ DOMAIN thumb'[x] = {"of", "excused"}
                              /\ thumb'[x] = [y \in {"of", "excused"} |-> thumb'[x][y]]
                              /\ thumb'[x].excused \in BOOLEAN
        BY <1>1, <3>1, <3>2, ThumbFields
    <3>7. \A x \in Pictures : \/ thumb'[x] = thumb[x] /\ ~Mends(job[r], x)
                              \/ thumb'[x] = NoThumb \/ thumb'[x].excused \/ thumb'[x].of = picture[x]
        BY <3>1, <3>2, <3>5
    <3>8. \A x \in Pictures : thumb'[x] = thumb[x] \/ thumb'[x] = NoThumb \/ Pending(job[r], {x})
        BY <3>2, <3>4
    <3> QED
        BY <2>1, <3>3, <3>6, <3>7, <3>8, JobEnds
  <2> QED
      BY <1>11, <2>2, <2>3 DEF StoreThumb
<1> QED
    BY <1>6, <1>7, <1>8, <1>9, <1>10, <1>11

\* A thumbnail that is left where it is, with the excuse that it could not be removed or
\* that no other came in its place.
LEMMA Excusing ==
    ASSUME ThumbTypes, NEW x \in Pictures, NEW y \in Pictures,
           thumb' = [thumb EXCEPT ![x].excused = HasThumb(x)]
    PROVE /\ thumb' = [z \in Pictures |-> thumb'[z]]
          /\ DOMAIN thumb'[y] = {"of", "excused"} /\ thumb'[y] = [z \in {"of", "excused"} |-> thumb'[y][z]]
          /\ thumb'[y].excused \in BOOLEAN
          /\ y # x => thumb'[y] = thumb[y]
          /\ y = x => cacheMode = "none" \/ thumb'[y] = NoThumb \/ thumb'[y].excused
<1>1. thumb = [z \in Pictures |-> thumb[z]]
    BY ThumbFields
<1>2. thumb' = [thumb EXCEPT ![x] = [thumb[x] EXCEPT !.excused = HasThumb(x)]]
    BY <1>1
<1>3. /\ thumb' = [z \in Pictures |-> thumb'[z]] /\ thumb'[x] = [thumb[x] EXCEPT !.excused = HasThumb(x)]
      /\ \A z \in Pictures \ {x} : thumb'[z] = thumb[z]
    BY <1>1, <1>2
<1>4. /\ DOMAIN thumb'[x] = {"of", "excused"} /\ thumb'[x] = [z \in {"of", "excused"} |-> thumb'[x][z]]
      /\ thumb'[x].of = thumb[x].of /\ thumb'[x].excused = HasThumb(x)
    BY <1>3, ThumbFields
<1>5. HasThumb(x) \in BOOLEAN
    BY DEF HasThumb
<1>6. CASE y # x
    BY <1>3, <1>6, ThumbFields
<1>7. CASE y = x
  <2>1. thumb'[y].excused \in BOOLEAN
      BY <1>4, <1>5, <1>7
  <2>2. CASE HasThumb(x)
      BY <1>3, <1>4, <1>7, <2>1, <2>2
  <2>3. CASE thumb[x] = NoThumb /\ ~HasThumb(x)
    <3>1. thumb'[x].of = NoThumb.of /\ thumb'[x].excused = NoThumb.excused
        BY <1>4, <1>5, <2>3, ThumbFields
    <3>2. thumb'[x] = NoThumb
        BY <1>4, <3>1, ThumbFields
    <3> QED
        BY <1>3, <1>4, <1>7, <2>1, <3>2
  <2>4. CASE cacheMode = "none"
      BY <1>3, <1>4, <1>7, <2>1, <2>4
  <2> QED
      BY <2>2, <2>3, <2>4 DEF HasThumb
<1> QED
    BY <1>6, <1>7

\* A thumbnail is removed or moved.
LEMMA MendsAreRight ==
    ASSUME ThumbInv, NEW r \in ThumbRequests,
           RemoveThumb(r) \/ MoveThumb(r) \/ CopyThumb(r) \/ PutThumb(r) \/ DropThumb(r)
    PROVE ThumbInv'
<1>1. /\ ThumbTypes /\ JobFits(job[r]) /\ PutFits(job[r], picture[job[r].to]) /\ MoveFits(r)
      /\ job = [q \in ThumbRequests |-> job[q]]
    BY DEF ThumbInv, ThumbTypes
<1>2. job[r].pc \in MendPCs
    BY DEF RemoveThumb, MoveThumb, CopyThumb, PutThumb, DropThumb, ThumbEnd, ThumbStep, ThumbFail, ThumbOnly, MendPCs
<1>3. UNCHANGED <<cacheMode, picture>>
    BY DEF RemoveThumb, MoveThumb, CopyThumb, PutThumb, DropThumb, ThumbOnly
<1> DEFINE x == job[r].at
           y == job[r].to
<1>4. x \in Pictures
    BY <1>1, <1>2 DEF JobFits, MendPCs
<1>5. \A z \in Pictures : Mends(job[r], z) \/ z = x \/ z = y <=> z = x \/ z = y
    BY DEF Mends
<1>6. \A z \in {x, y} : Pending(job[r], {z})
    BY <1>2 DEF Pending, MendPCs
<1>7. job[r].pc # "remove" => y \in Pictures /\ y # x
    BY <1>1, <1>2 DEF JobFits, MendPCs
<1>8. job[r].pc = "remove" => y \notin Pictures
    BY <1>1, ThumbAssumption DEF JobFits
<1> HIDE DEF x, y
\* An end, after the thumbnail of z has been excused or removed.
<1>9. ASSUME job' = [job EXCEPT ![r] = NewJob], NEW z \in {x, y} \cap Pictures,
             thumb' = [thumb EXCEPT ![z].excused = HasThumb(z)],
             \A w \in {x, y} \cap Pictures : w = z \/ ~HasThumb(w)
      PROVE ThumbInv'
  <2>1. /\ thumb' = [w \in Pictures |-> thumb'[w]]
        /\ \A w \in Pictures : /\ DOMAIN thumb'[w] = {"of", "excused"}
                               /\ thumb'[w] = [v \in {"of", "excused"} |-> thumb'[w][v]]
                               /\ thumb'[w].excused \in BOOLEAN
                               /\ w # z => thumb'[w] = thumb[w]
                               /\ w = z => cacheMode = "none" \/ thumb'[w] = NoThumb \/ thumb'[w].excused
      BY <1>1, <1>9, Excusing
  <2>2. \A w \in Pictures : \/ thumb'[w] = thumb[w] /\ ~Mends(job[r], w)
                            \/ cacheMode = "none" \/ thumb'[w] = NoThumb
                            \/ thumb'[w].excused \/ thumb'[w].of = picture[w]
      BY <1>5, <1>9, <2>1 DEF HasThumb
  <2>3. \A w \in Pictures : thumb'[w] = thumb[w] \/ thumb'[w] = NoThumb \/ Pending(job[r], {w})
      BY <1>6, <2>1
  <2> QED
      BY <1>3, <1>9, <2>1, <2>2, <2>3, JobEnds
<1>10. ASSUME job' = [job EXCEPT ![r] = NewJob], thumb' = [thumb EXCEPT ![x] = NoThumb],
              \A w \in Pictures : Mends(job[r], w) => w = x
       PROVE ThumbInv'
  <2>1. /\ thumb' = [w \in Pictures |-> thumb'[w]] /\ thumb'[x] = NoThumb
        /\ \A w \in Pictures \ {x} : thumb'[w] = thumb[w]
      BY <1>1, <1>4, <1>10, ThumbFields
  <2>2. \A w \in Pictures : /\ DOMAIN thumb'[w] = {"of", "excused"}
                            /\ thumb'[w] = [v \in {"of", "excused"} |-> thumb'[w][v]]
                            /\ thumb'[w].excused \in BOOLEAN
      BY <1>1, <2>1, ThumbFields
  <2> QED
      BY <1>3, <1>10, <2>1, <2>2, JobEnds
<1>11. CASE RemoveThumb(r)
  <2>1. job[r].pc = "remove" /\ job' = [job EXCEPT ![r] = NewJob]
        /\ (thumb' = [thumb EXCEPT ![x] = NoThumb] \/ thumb' = [thumb EXCEPT ![x].excused = HasThumb(x)])
      BY <1>11 DEF RemoveThumb, ThumbEnd, ThumbFail, x
  <2>2. \A w \in Pictures : Mends(job[r], w) => w = x
      BY <1>8, <2>1 DEF Mends, x, y
  <2> QED
      BY <1>4, <1>8, <1>9, <1>10, <2>1, <2>2
<1>12. CASE MoveThumb(r)
  <2>1. job[r].pc = "move"
      BY <1>12 DEF MoveThumb
  <2>2. CASE /\ ~HasThumb(x) /\ job' = [job EXCEPT ![r] = NewJob]
             /\ thumb' = [thumb EXCEPT ![y].excused = HasThumb(y)]
      BY <1>7, <1>9, <2>1, <2>2
  <2>3. CASE /\ HasThumb(x) /\ job' = [job EXCEPT ![r] = NewJob]
             /\ thumb' = [thumb EXCEPT ![x] = NoThumb, ![y] = Moved(thumb[x], job[r].late)]
    <3>1. /\ thumb' = [w \in Pictures |-> thumb'[w]] /\ thumb'[x] = NoThumb
          /\ thumb'[y] = [thumb[x] EXCEPT !.excused = thumb[x].excused \/ job[r].late]
          /\ \A w \in Pictures \ {x, y} : thumb'[w] = thumb[w]
        BY <1>1, <1>4, <1>7, <2>1, <2>3, ThumbFields DEF Moved
    <3>2. /\ DOMAIN thumb'[y] = {"of", "excused"} /\ thumb'[y] = [v \in {"of", "excused"} |-> thumb'[y][v]]
          /\ thumb'[y].of = thumb[x].of /\ thumb'[y].excused = (thumb[x].excused \/ job[r].late)
        BY <1>1, <1>4, <3>1, ThumbFields
    <3>3. thumb'[y].excused \in BOOLEAN
        BY <3>2
    <3>4. \A w \in Pictures : /\ DOMAIN thumb'[w] = {"of", "excused"}
                              /\ thumb'[w] = [v \in {"of", "excused"} |-> thumb'[w][v]]
                              /\ thumb'[w].excused \in BOOLEAN
        BY <1>1, <3>1, <3>2, <3>3, ThumbFields
    <3>5. job[r].late \/ thumb[x].excused \/ thumb[x].of = picture[y]
        BY <1>1, <2>1, <2>3 DEF MoveFits, x, y
    <3>6. \A w \in Pictures : \/ thumb'[w] = thumb[w] /\ ~Mends(job[r], w)
                              \/ cacheMode = "none" \/ thumb'[w] = NoThumb
                              \/ thumb'[w].excused \/ thumb'[w].of = picture[w]
        BY <1>5, <3>1, <3>2, <3>5
    <3>7. \A w \in Pictures : thumb'[w] = thumb[w] \/ thumb'[w] = NoThumb \/ Pending(job[r], {w})
        BY <1>6, <3>1
    <3> QED
        BY <1>3, <2>3, <3>1, <3>4, <3>6, <3>7, JobEnds
  <2>4. CASE UNCHANGED thumb /\ job' = [job EXCEPT ![r].pc = "copy"]
    <3> DEFINE me == [job[r] EXCEPT !.pc = "copy"]
    <3>1. job' = [job EXCEPT ![r] = me]
        BY <1>1, <2>4
    <3>2. /\ JobFits(me) /\ me.pc = "copy" /\ me.at = job[r].at /\ me.to = job[r].to /\ (job[r].late => me.late)
        BY <1>1, <2>1 DEF JobFits, JobFields, ShowPCs, MendPCs
    <3> HIDE DEF me
    <3>3. /\ ShowFits(me, picture[me.at]) /\ PutFits(me, picture[me.to])
          /\ \A z \in Pictures : Mends(job[r], z) => Mends(me, z)
          /\ me.pc \in MendPCs
        BY <2>1, <3>2 DEF ShowFits, PutFits, Mends, ShowPCs, MendPCs
    <3> QED
        BY <1>2, <1>3, <2>1, <2>4, <3>1, <3>2, <3>3, JobMovesOnly
  <2> QED
      BY <1>12, <2>2, <2>3, <2>4 DEF MoveThumb, ThumbEnd, ThumbStep, x, y
<1>13. CASE CopyThumb(r)
  <2>1. job[r].pc = "copy"
      BY <1>13 DEF CopyThumb, ThumbOnly
  <2>2. CASE /\ ~HasThumb(x) /\ job' = [job EXCEPT ![r] = NewJob]
             /\ thumb' = [thumb EXCEPT ![y].excused = HasThumb(y)]
      BY <1>7, <1>9, <2>1, <2>2
  <2>3. CASE /\ HasThumb(x) /\ UNCHANGED thumb
             /\ job' = [job EXCEPT ![r].pc = "put", ![r].got = thumb[x].of, ![r].late = @ \/ thumb[x].excused]
    <3> DEFINE me == [[[job[r] EXCEPT !.pc = "put"] EXCEPT !.got = thumb[x].of]
                           EXCEPT !.late = (job[r].late \/ thumb[x].excused)]
    <3>1. job' = [job EXCEPT ![r] = me]
        BY <1>1, <2>3 DEF JobFits, JobFields
    <3>2. /\ DOMAIN me = JobFields /\ me = [v \in JobFields |-> me[v]]
          /\ me.pc = "put" /\ me.at = job[r].at /\ me.to = job[r].to /\ me.got = thumb[x].of
          /\ me.late = (job[r].late \/ thumb[x].excused)
        BY <1>1 DEF JobFits, JobFields
    <3> HIDE DEF me
    <3>3. me.late \in BOOLEAN
        BY <3>2
    <3>4. JobFits(me)
        BY <1>1, <2>1, <3>2, <3>3 DEF JobFits, ShowPCs, MendPCs
    <3>5. job[r].late \/ thumb[x].excused \/ thumb[x].of = picture[y]
        BY <1>1, <2>1, <2>3 DEF MoveFits, x, y
    <3>6. PutFits(me, picture[me.to])
        BY <3>2, <3>5 DEF PutFits, y
    <3>7. /\ ShowFits(me, picture[me.at])
          /\ \A z \in Pictures : Mends(job[r], z) => Mends(me, z)
          /\ me.pc \in MendPCs /\ ~(me.pc \in {"move", "copy"})
        BY <2>1, <3>2 DEF ShowFits, Mends, ShowPCs, MendPCs
    <3> QED
        BY <1>2, <1>3, <2>3, <3>1, <3>2, <3>4, <3>6, <3>7, JobMovesOnly
  <2> QED
      BY <1>13, <2>2, <2>3 DEF CopyThumb, ThumbEnd, x, y
<1>14. CASE PutThumb(r)
  <2>1. /\ job[r].pc = "put" /\ job' = [job EXCEPT ![r] = [job[r] EXCEPT !.pc = "drop"]]
        /\ thumb' = [thumb EXCEPT ![y] = [of |-> job[r].got, excused |-> job[r].late]]
      BY <1>14 DEF PutThumb, ThumbStep, y
  <2> DEFINE me == [job[r] EXCEPT !.pc = "drop"]
  <2>2. JobFits(me) /\ me.pc = "drop" /\ me.at = job[r].at /\ me.to = job[r].to
      BY <1>1, <2>1 DEF JobFits, JobFields, ShowPCs, MendPCs
  <2>3. job' = [job EXCEPT ![r] = me]
      BY <2>1
  <2> HIDE DEF me
  <2>4. /\ ShowFits(me, picture[me.at]) /\ PutFits(me, picture[me.to])
        /\ me.pc \in MendPCs /\ ~(me.pc \in {"move", "copy"})
        /\ \A z \in Pictures : Mends(job[r], z) => Mends(me, z) \/ z = y
      BY <2>1, <2>2 DEF ShowFits, PutFits, Mends, ShowPCs, MendPCs, y
  <2>5. /\ thumb' = [w \in Pictures |-> thumb'[w]] /\ thumb'[y] = [of |-> job[r].got, excused |-> job[r].late]
        /\ \A w \in Pictures \ {y} : thumb'[w] = thumb[w]
      BY <1>1, <1>7, <2>1, ThumbFields
  <2>6. job[r].late \in BOOLEAN /\ (job[r].late \/ job[r].got = picture[y])
      BY <1>1, <2>1 DEF JobFits, PutFits, y
  <2>7. \A w \in Pictures : /\ DOMAIN thumb'[w] = {"of", "excused"}
                            /\ thumb'[w] = [v \in {"of", "excused"} |-> thumb'[w][v]]
                            /\ thumb'[w].excused \in BOOLEAN
      BY <1>1, <2>5, <2>6, ThumbFields
  <2>8. \A w \in Pictures : \/ thumb'[w] = thumb[w] /\ (Mends(job[r], w) => Mends(me, w))
                            \/ cacheMode = "none" \/ thumb'[w] = NoThumb
                            \/ thumb'[w].excused \/ thumb'[w].of = picture[w]
      BY <2>4, <2>5, <2>6
  <2>9. \A w \in Pictures : thumb'[w] = thumb[w] \/ thumb'[w] = NoThumb \/ Pending(job[r], {w})
      BY <1>6, <2>5
  <2> QED
      BY <1>2, <1>3, <2>2, <2>3, <2>4, <2>5, <2>7, <2>8, <2>9, JobMoves
<1>15. CASE DropThumb(r)
  <2>1. job[r].pc = "drop" /\ job' = [job EXCEPT ![r] = NewJob] /\ thumb' = [thumb EXCEPT ![x] = NoThumb]
      BY <1>15 DEF DropThumb, ThumbEnd, ThumbOnly, x
  <2>2. \A w \in Pictures : Mends(job[r], w) => w = x
      BY <2>1 DEF Mends, x
  <2> QED
      BY <1>10, <2>1, <2>2
<1> QED
    BY <1>11, <1>12, <1>13, <1>14, <1>15

\* Thumbnails are cleared.
LEMMA ClearingIsRight ==
    ASSUME ThumbInv, NEW r \in ThumbRequests, NEW scope, ClearThumbs(r, scope)
    PROVE ThumbInv'
<1>1. /\ ThumbTypes /\ JobFits(job[r]) /\ job = [q \in ThumbRequests |-> job[q]]
      /\ job[r].pc = "new" /\ job' = job /\ UNCHANGED <<cacheMode, picture>>
    BY DEF ThumbInv, ThumbTypes, ClearThumbs
<1>2. PICK gone : thumb' = [x \in Pictures |-> IF x \in gone THEN NoThumb ELSE thumb[x]]
    BY DEF ClearThumbs
<1>3. /\ thumb' = [x \in Pictures |-> thumb'[x]]
      /\ \A x \in Pictures : thumb'[x] = thumb[x] \/ thumb'[x] = NoThumb
    BY <1>2
<1>4. \A x \in Pictures : /\ DOMAIN thumb'[x] = {"of", "excused"}
                          /\ thumb'[x] = [y \in {"of", "excused"} |-> thumb'[x][y]]
                          /\ thumb'[x].excused \in BOOLEAN
    BY <1>1, <1>3, ThumbFields
<1>5. job' = [job EXCEPT ![r] = job[r]]
    BY <1>1
<1>6. /\ ShowFits(job[r], picture[job[r].at]) /\ PutFits(job[r], picture[job[r].to])
      /\ job[r].pc \notin ShowPCs \cup MendPCs /\ ~(job[r].pc \in {"move", "copy"})
    BY <1>1 DEF ShowFits, PutFits, ShowPCs, MendPCs
<1> QED
    BY <1>1, <1>3, <1>4, <1>5, <1>6, JobMoves

\* Some files change, and a request takes it on itself to set their thumbnails right.
LEMMA ChangesAreMended ==
    ASSUME ThumbInv, NEW r \in ThumbRequests, job[r].pc = "new", NEW me, NEW xs \in SUBSET Pictures,
           job' = [OutOfDate(xs) EXCEPT ![r] = me],
           UNCHANGED <<cacheMode, thumb>>,
           picture' = [x \in Pictures |-> picture'[x]], \A x \in Pictures \ xs : picture'[x] = picture[x],
           JobFits(me), me.pc \in {"remove", "move"}, me.at \in xs, me.to \in xs \cup {NoContent},
           \A x \in xs : Mends(me, x),
           MoveFits(r)'
    PROVE ThumbInv'
<1>1. ThumbTypes /\ job'[r] = me /\ job' = [q \in ThumbRequests |-> job'[q]]
    BY DEF ThumbInv, ThumbTypes, OutOfDate
<1>2. ASSUME NEW s \in ThumbRequests, s # r
      PROVE /\ job'[s].pc = job[s].pc /\ job'[s].at = job[s].at /\ job'[s].to = job[s].to
            /\ job'[s].got = job[s].got /\ job'[s].late = (job[s].late \/ Pending(job[s], xs))
            /\ JobFits(job[s]) /\ JobFits(job'[s])
  <2>1. job'[s] = [job[s] EXCEPT !.late = job[s].late \/ Pending(job[s], xs)] /\ JobFits(job[s])
      BY <1>1, <1>2 DEF OutOfDate, ThumbTypes, JobFits, JobFields
  <2>2. /\ DOMAIN job'[s] = JobFields /\ job'[s] = [x \in JobFields |-> job'[s][x]]
        /\ job'[s].pc = job[s].pc /\ job'[s].at = job[s].at /\ job'[s].to = job[s].to
        /\ job'[s].got = job[s].got /\ job'[s].late = (job[s].late \/ Pending(job[s], xs))
      BY <2>1 DEF JobFits, JobFields
  <2>3. job'[s].late \in BOOLEAN
      BY <2>2
  <2> QED
      BY <2>1, <2>2, <2>3 DEF JobFits
<1>3. ASSUME NEW s \in ThumbRequests PROVE JobFits(job'[s])
    BY <1>1, <1>2
<1>4. ThumbTypes'
    BY <1>1, <1>3 DEF ThumbTypes
<1>5. ASSUME NEW s \in ThumbRequests PROVE (ShowFits(job[s], picture[job[s].at]) /\ PutFits(job[s], picture[job[s].to]))'
  <2>1. CASE s = r
      BY <1>1, <2>1 DEF ShowFits, PutFits, ShowPCs
  <2>2. CASE s # r
    <3>1. job[s].pc \in ShowPCs => Pending(job[s], xs) \/ picture'[job[s].at] = picture[job[s].at]
        BY <1>2, <2>2 DEF JobFits, ShowPCs, Pending
    <3>2. job[s].pc = "put" => Pending(job[s], xs) \/ picture'[job[s].to] = picture[job[s].to]
        BY <1>2, <2>2 DEF JobFits, Pending
    <3>3. ShowFits(job[s], picture[job[s].at]) /\ PutFits(job[s], picture[job[s].to])
        BY DEF ThumbInv
    <3> QED
        BY <1>2, <2>2, <3>1, <3>2, <3>3 DEF ShowFits, PutFits
  <2> QED
      BY <2>1, <2>2
<1>6. ASSUME NEW x \in Pictures PROVE Mended(x)'
  <2>1. CASE x \in xs
      BY <1>1, <2>1 DEF Mended
  <2>2. CASE x \notin xs /\ Right(x)
      BY <2>2 DEF Mended, Right, HasThumb
  <2>3. ASSUME NEW s \in ThumbRequests, Mends(job[s], x) PROVE Mended(x)'
    <3>1. s # r
        BY <2>3 DEF Mends
    <3>2. Mends(job'[s], x)
        BY <1>2, <2>3, <3>1 DEF Mends
    <3> QED
        BY <3>2 DEF Mended
  <2> QED
      BY <2>1, <2>2, <2>3 DEF ThumbInv, Mended
<1>7. ASSUME NEW s \in ThumbRequests, s # r PROVE MoveFits(s)'
  <2> DEFINE x == job[s].at
             y == job[s].to
  <2> SUFFICES ASSUME job[s].pc \in {"move", "copy"}, ~job[s].late, ~Pending(job[s], xs)
               PROVE /\ picture'[x] = NoContent
                     /\ ~HasThumb(x) \/ thumb[x].excused \/ thumb[x].of = picture'[y]
                     /\ \A q \in ThumbRequests \ {s} : Clear(job'[q], x, y)
      BY <1>2, <1>7 DEF MoveFits, HasThumb
  <2>1. x \in Pictures \ xs /\ y \in Pictures \ xs
      BY <1>2, <1>7 DEF JobFits, Pending
  <2>2. MoveFits(s)
      BY DEF ThumbInv
  <2>3. /\ picture[x] = NoContent
        /\ ~HasThumb(x) \/ thumb[x].excused \/ thumb[x].of = picture[y]
        /\ \A q \in ThumbRequests \ {s} : Clear(job[q], x, y)
      BY <2>2 DEF MoveFits
  <2> HIDE DEF x, y
  <2>4. ASSUME NEW q \in ThumbRequests \ {s} PROVE Clear(job'[q], x, y)
    <3>1. CASE q = r
        BY <1>1, <2>1, <3>1, ThumbAssumption DEF Clear, Pending
    <3>2. CASE q # r
        BY <1>2, <2>3, <3>2 DEF Clear, Pending
    <3> QED
        BY <3>1, <3>2
  <2> QED
      BY <2>1, <2>3, <2>4
<1> QED
    BY <1>4, <1>5, <1>6, <1>7 DEF ThumbInv

\* A file is changed or moved.
LEMMA ChangesAreRight ==
    ASSUME ThumbInv, NEW r \in ThumbRequests, NEW x \in Pictures,
           \/ \E content : BeginThumbChange(r, x, content)
           \/ \E y \in Pictures : BeginThumbMove(r, x, y)
    PROVE ThumbInv'
<1>1. /\ ThumbTypes /\ JobFits(job[r]) /\ job = [q \in ThumbRequests |-> job[q]]
      /\ picture = [z \in Pictures |-> picture[z]]
    BY DEF ThumbInv, ThumbTypes
<1>2. job[r].pc = "new" /\ UNCHANGED <<cacheMode, thumb>>
    BY DEF BeginThumbChange, BeginThumbMove
<1>4. ASSUME NEW xs \in SUBSET Pictures
      PROVE /\ OutOfDate(xs) = [q \in ThumbRequests |-> OutOfDate(xs)[q]]
            /\ DOMAIN OutOfDate(xs)[r] = JobFields /\ OutOfDate(xs)[r] = [f \in JobFields |-> OutOfDate(xs)[r][f]]
            /\ OutOfDate(xs)[r].pc = "new" /\ OutOfDate(xs)[r].to = NoContent /\ OutOfDate(xs)[r].late \in BOOLEAN
    BY <1>1, <1>2 DEF OutOfDate, JobFits, JobFields, Pending
<1>5. ASSUME NEW content, BeginThumbChange(r, x, content) PROVE ThumbInv'
  <2> DEFINE mine == OutOfDate({x})[r]
             me == [[mine EXCEPT !.pc = "remove"] EXCEPT !.at = x]
  <2>1. job' = [OutOfDate({x}) EXCEPT ![r] = me]
      BY <1>4, <1>5 DEF BeginThumbChange
  <2>2. /\ picture' = [z \in Pictures |-> picture'[z]] /\ \A z \in Pictures \ {x} : picture'[z] = picture[z]
      BY <1>1, <1>5 DEF BeginThumbChange
  <2>3. /\ DOMAIN me = JobFields /\ me = [f \in JobFields |-> me[f]]
        /\ me.pc = "remove" /\ me.at = x /\ me.to = NoContent /\ me.late \in BOOLEAN
      BY <1>4 DEF JobFields
  <2> HIDE DEF me
  <2>4. JobFits(me) /\ \A z \in {x} : Mends(me, z)
      BY <2>3 DEF JobFits, Mends, MendPCs
  <2>5. job'[r] = me
      BY <1>4, <2>1
  <2>6. MoveFits(r)'
      BY <2>3, <2>5 DEF MoveFits
  <2> QED
      BY <1>2, <2>1, <2>2, <2>3, <2>4, <2>6, ChangesAreMended, SMTT(60)
<1>6. ASSUME NEW y \in Pictures, BeginThumbMove(r, x, y) PROVE ThumbInv'
  <2> DEFINE late == \E s \in ThumbRequests : Pending(job[s], {x, y})
             mine == OutOfDate({x, y})[r]
             me == [[[[mine EXCEPT !.pc = "move"] EXCEPT !.at = x] EXCEPT !.to = y] EXCEPT !.late = late]
  <2>1. /\ job' = [OutOfDate({x, y}) EXCEPT ![r].pc = "move", ![r].at = x, ![r].to = y, ![r].late = late]
        /\ x # y /\ picture' = [picture EXCEPT ![x] = NoContent, ![y] = picture[x]] /\ late \in BOOLEAN
      BY <1>6 DEF BeginThumbMove
  <2>2. late \/ \A s \in ThumbRequests : ~Pending(job[s], {x, y})
      OBVIOUS
  <2> HIDE DEF late
  <2>3. job' = [OutOfDate({x, y}) EXCEPT ![r] = me]
      BY <1>4, <2>1 DEF JobFields
  <2>4. /\ picture' = [z \in Pictures |-> picture'[z]] /\ \A z \in Pictures \ {x, y} : picture'[z] = picture[z]
        /\ picture'[x] = NoContent /\ picture'[y] = picture[x]
      BY <1>1, <2>1
  <2>5. /\ DOMAIN me = JobFields /\ me = [f \in JobFields |-> me[f]]
        /\ me.pc = "move" /\ me.at = x /\ me.to = y /\ me.late = late
      BY <1>4 DEF JobFields
  <2> HIDE DEF me
  <2>6. me.late \in BOOLEAN
      BY <2>1, <2>5
  <2>7. JobFits(me) /\ \A z \in {x, y} : Mends(me, z)
      BY <2>1, <2>5, <2>6 DEF JobFits, Mends, MendPCs
  <2>8. job'[r] = me /\ \A s \in ThumbRequests \ {r} : job'[s] = OutOfDate({x, y})[s]
      BY <1>4, <2>3
  <2>9. MoveFits(r)'
    <3> SUFFICES ASSUME ~late
                 PROVE /\ ~HasThumb(x) \/ thumb[x].excused \/ thumb[x].of = picture[x]
                       /\ \A s \in ThumbRequests \ {r} : Clear(job'[s], x, y)
        BY <1>2, <2>4, <2>5, <2>8 DEF MoveFits, HasThumb
    <3>1. \A s \in ThumbRequests : ~Pending(job[s], {x, y}) /\ ~Mends(job[s], x)
        BY <2>2 DEF Mends, Pending
    <3>2. Right(x)
        BY <3>1 DEF ThumbInv, Mended
    <3>3. ASSUME NEW s \in ThumbRequests \ {r} PROVE Clear(job'[s], x, y)
      <4>1. job'[s] = [job[s] EXCEPT !.late = @ \/ Pending(job[s], {x, y})]
          BY <2>8 DEF OutOfDate
      <4>2. job'[s].pc = job[s].pc /\ job'[s].at = job[s].at /\ job'[s].to = job[s].to
          BY <1>1, <4>1 DEF ThumbTypes, JobFits, JobFields
      <4> QED
          BY <3>1, <4>2 DEF Clear, Pending
    <3> QED
        BY <3>2, <3>3 DEF Right
  <2> QED
      BY <1>2, <2>3, <2>4, <2>5, <2>7, <2>9, ChangesAreMended, SMTT(60)
<1> QED
    BY <1>5, <1>6

LEMMA ThumbKeeps == ThumbInv /\ [Next]_storageVars => ThumbInv'
<1> SUFFICES ASSUME ThumbInv, ThumbsMoves \/ UNCHANGED thumbVars PROVE ThumbInv'
    BY ThumbSteps
<1>1. CASE UNCHANGED thumbVars
    BY <1>1 DEF ThumbInv, ThumbTypes, MoveFits, Mended, Right, HasThumb, thumbVars
<1>2. ASSUME NEW r \in ThumbRequests, NEW h \in ThumbFolders, NEW disabled \in BOOLEAN,
             SetThumbnailDisabled(r, h, disabled)
      PROVE ThumbInv'
    BY <1>2 DEF SetThumbnailDisabled, ThumbInv, ThumbTypes, MoveFits, Mended, Right, HasThumb
<1> QED
    BY <1>1, <1>2, ShowsAreRight, MendsAreRight, ChangesAreRight, ClearingIsRight DEF ThumbsMoves

LEMMA ThumbInvariant == Spec => []ThumbInv
<1> QED
    BY ThumbStarts, ThumbKeeps, PTL DEF Spec

\* A stored thumbnail is of what its file holds (and of a file that exists), or a call
\* that will remove or move it is under way, unless a change overtook its rendering or
\* its move, a failed call left it behind, or a file without one was moved onto its path:
\* what every caller that changes a file and then its thumbnail relies on, for any number
\* of requests, changes and failures.
THEOREM ThumbnailsFollow == Spec => []ThumbsFollowFiles
<1>1. ThumbInv => ThumbsFollowFiles
  <2> SUFFICES ASSUME ThumbInv, NEW x \in Pictures, ~Right(x)
               PROVE \E r \in ThumbRequests : Pending(job[r], {x}) /\ job[r].pc \notin {"render", "rendering", "store"}
      BY DEF ThumbsFollowFiles, Right
  <2>1. PICK r \in ThumbRequests : Mends(job[r], x)
      BY DEF ThumbInv, Mended
  <2> QED
      BY <2>1 DEF Mends, Pending
<1> QED
    BY <1>1, ThumbInvariant, PTL

-----------------------------------------------------------------------------
(* The tools of a thumbnail, one after another (Rendering)                  *)

\* A step of Storage either is one of the rendering's or leaves it alone.
LEMMA RenderSteps == [Next]_storageVars => RenderMoves \/ UNCHANGED renderVars
    BY DEF Next, storageVars, ReadsMoves, UsageMoves, BinMoves, PoolMoves, VaultMoves, RouteMoves, ConfigMoves,
           ThumbsMoves, VideosMoves, BatchesMoves, MountsMoves, BesideReads, BesideUsage, BesideBin, BesidePool,
           BesideVault, BesideRoute, BesideConfig, BesideThumbs, BesideVideos, BesideBatches, BesideMounts

\* The tools that run before a maker, or are it.
UpTo(t) ==
    CASE t = "vips" -> {"builtin", "latexmk", "libreoffice", "vips"}
      [] t = "magick" -> {"builtin", "latexmk", "libreoffice", "vips", "magick"}
      [] t = "ffmpeg" -> {"hardware", "ffmpeg"}
      [] OTHER -> {t}
\* Why a maker that did not run need not have.
NeedNotRun(t) ==
    \/ ~Prepared
    \/ t = "magick" /\ format \in {"image", "text"} /\ ran[t] = "no"
    \/ format = "latex" /\ ran["vips"] = "no" /\ ran["magick"] = "no"
    \/ t \in {"vips", "magick"} /\ ran["builtin"] = "exit"
    \/ t = "ffmpeg" /\ ran["hardware"] = "exit"

RenderTypes ==
    /\ format \in Formats
    /\ equipped \in SUBSET RenderTools
    /\ equipped \subseteq OptionalTools(format) \cup NeverMissing(format)
    /\ running \in RenderTools \cup {"made", "none", "error"}
    /\ ran \in [RenderTools -> Endings \cup {"no"}]
\* The tool that runs next has not run, nor has one that comes after it.
NotYetRun ==
    /\ \A t \in RenderTools : running = t => ran[t] = "no"
    /\ running = "latexmk" => format = "latex" /\ ran["vips"] = "no" /\ ran["magick"] = "no"
    /\ running = "libreoffice" => format = "office"
    /\ running \in {"builtin", "latexmk", "libreoffice"} => ran["vips"] = "no" /\ ran["magick"] = "no"
    /\ running = "vips" => ran["magick"] = "no"
    /\ running = "magick" => ran["vips"] # "no" \/ "vips" \notin equipped
    /\ running = "hardware" => ran["ffmpeg"] = "no"
\* While the thumbnail is not made, a maker runs, is still to run, has failed or is excused.
MakersTried ==
    \A t \in Makers : running = "made" \/ running \in UpTo(t) \/ ran[t] \notin {"no", "ok"} \/ NeedNotRun(t)
RenderInv == RenderTypes /\ NotYetRun /\ MakersTried

LEMMA RenderStarts == Init => RenderInv
<1> SUFFICES ASSUME RenderInit PROVE RenderInv
    BY DEF Init
<1>1. RenderTypes
    BY DEF RenderInit, RenderTypes, FirstTool, OptionalTools, NeverMissing, Formats, RenderTools
<1>2. NotYetRun
    BY DEF RenderInit, NotYetRun, RenderTools, FirstTool, OptionalTools, NeverMissing, Formats
<1>3. MakersTried
    BY <1>1 DEF RenderTypes, RenderInit, MakersTried, Makers, FirstTool, OptionalTools, NeverMissing, Formats, RenderTools,
           UpTo, NeedNotRun, Prepared
<1> QED
    BY <1>1, <1>2, <1>3 DEF RenderInv

\* A tool ends, and the next one runs.
LEMMA ToolEnds ==
    ASSUME RenderInv, NEW tool \in RenderTools, NEW ending \in Endings, NEW next, Ends(tool, ending, next)
    PROVE /\ running = tool /\ ran[tool] = "no" /\ running' = next
          /\ ran' \in [RenderTools -> Endings \cup {"no"}] /\ ran'[tool] = ending
          /\ \A t \in RenderTools \ {tool} : ran'[t] = ran[t]
          /\ format' = format /\ equipped' = equipped
    BY DEF Ends, RenderInv, RenderTypes, NotYetRun

LEMMA BuiltinSteps == ASSUME RenderInv, NEW e \in Endings, RunBuiltin(e) PROVE RenderInv'
<1> DEFINE next == IF e = "ok" THEN "made" ELSE IF e = "error" /\ {"vips", "magick"} \cap equipped # {} THEN "vips" ELSE "error"
<1>1. e # "hollow" /\ Ends("builtin", e, next) /\ "builtin" \in RenderTools
    BY DEF RunBuiltin, RenderTools
<1> HIDE DEF next
<1>2. /\ running = "builtin" /\ ran["builtin"] = "no" /\ running' = next
      /\ ran' \in [RenderTools -> Endings \cup {"no"}] /\ ran'["builtin"] = e
      /\ \A t \in RenderTools \ {"builtin"} : ran'[t] = ran[t]
      /\ format' = format /\ equipped' = equipped
    BY <1>1, ToolEnds
<1>3. RenderTypes'
    BY <1>2 DEF next, RenderInv, RenderTypes, RenderTools
<1>4. NotYetRun'
    BY <1>2 DEF next, RenderInv, NotYetRun, RenderTools
<1>5. MakersTried'
    BY <1>1, <1>2 DEF next, RenderInv, RenderTypes, NotYetRun, MakersTried, Makers, Endings, RenderTools, UpTo, NeedNotRun, Prepared
<1> QED
    BY <1>3, <1>4, <1>5 DEF RenderInv

LEMMA FormatMakers ==
    ASSUME RenderTypes, NEW t \in Makers
    PROVE t \in RenderTools /\ (format \in {"latex", "office", "pdf"} => t \in {"vips", "magick"})
    BY DEF RenderTypes, Makers, OptionalTools, NeverMissing, Formats

LEMMA VipsSteps == ASSUME RenderInv, NEW e \in Endings, RunVips(e) PROVE RenderInv'
<1> DEFINE next == AfterVips(e)
<1>1. Ends("vips", e, next) /\ "vips" \in RenderTools
    BY DEF RunVips, RenderTools
<1> HIDE DEF next
<1>2. /\ running = "vips" /\ ran["vips"] = "no" /\ running' = next
      /\ ran' \in [RenderTools -> Endings \cup {"no"}] /\ ran'["vips"] = e
      /\ \A t \in RenderTools \ {"vips"} : ran'[t] = ran[t]
      /\ format' = format /\ equipped' = equipped
    BY <1>1, ToolEnds
<1>3. RenderTypes'
    BY <1>2 DEF next, AfterVips, RenderInv, RenderTypes, RenderTools
<1>4. NotYetRun'
    BY <1>2 DEF next, AfterVips, RenderInv, NotYetRun, RenderTools, Endings
<1>5. MakersTried'
  <2> SUFFICES ASSUME NEW t \in Makers, next # "made", next \notin UpTo(t), ran'[t] \in {"no", "ok"}
               PROVE NeedNotRun(t)'
      BY <1>2 DEF MakersTried, Makers
  <2>1. t \in RenderTools /\ running # "made" /\ (format \in {"latex", "office"} => t \in {"vips", "magick"})
      BY <1>2, FormatMakers DEF Makers, RenderInv
  <2>2. running \in UpTo(t) \/ ran[t] \notin {"no", "ok"} \/ NeedNotRun(t)
      BY <2>1 DEF RenderInv, MakersTried
  <2>3. t # "vips" => ran'[t] = ran[t]
      BY <1>2, <2>1
  <2> QED
      BY <1>1, <1>2, <2>1, <2>2, <2>3 DEF next, AfterVips, RenderInv, NotYetRun, Makers, Endings, RenderTools, UpTo, NeedNotRun, Prepared
<1> QED
    BY <1>3, <1>4, <1>5 DEF RenderInv

LEMMA MagickSteps == ASSUME RenderInv, NEW e \in Endings, RunMagick(e) PROVE RenderInv'
<1> DEFINE next == CASE e \in {"ok", "hollow"} -> "made" [] e = "exit" -> "none" [] OTHER -> "error"
<1>1. Ends("magick", e, next) /\ "magick" \in RenderTools
    BY DEF RunMagick, RenderTools
<1> HIDE DEF next
<1>2. /\ running = "magick" /\ ran["magick"] = "no" /\ running' = next
      /\ ran' \in [RenderTools -> Endings \cup {"no"}] /\ ran'["magick"] = e
      /\ \A t \in RenderTools \ {"magick"} : ran'[t] = ran[t]
      /\ format' = format /\ equipped' = equipped
    BY <1>1, ToolEnds
<1>3. RenderTypes'
    BY <1>2 DEF next, RenderInv, RenderTypes, RenderTools
<1>4. NotYetRun'
    BY <1>2 DEF next, RenderInv, NotYetRun, RenderTools, Endings
<1>5. MakersTried'
  <2> SUFFICES ASSUME NEW t \in Makers, next # "made", next \notin UpTo(t), ran'[t] \in {"no", "ok"}
               PROVE NeedNotRun(t)'
      BY <1>2 DEF MakersTried, Makers
  <2>1. t \in RenderTools /\ running # "made" /\ (format \in {"latex", "office"} => t \in {"vips", "magick"})
      BY <1>2, FormatMakers DEF Makers, RenderInv
  <2>2. running \in UpTo(t) \/ ran[t] \notin {"no", "ok"} \/ NeedNotRun(t)
      BY <2>1 DEF RenderInv, MakersTried
  <2>3. t # "magick" => ran'[t] = ran[t]
      BY <1>2, <2>1
  <2> QED
      BY <1>1, <1>2, <2>1, <2>2, <2>3 DEF next, RenderInv, NotYetRun, Makers, Endings, RenderTools, UpTo, NeedNotRun, Prepared
<1> QED
    BY <1>3, <1>4, <1>5 DEF RenderInv

LEMMA LibreOfficeSteps == ASSUME RenderInv, NEW e \in Endings, RunLibreOffice(e) PROVE RenderInv'
<1> DEFINE next == CASE e = "ok" -> "vips" [] e = "error" -> "error" [] OTHER -> "none"
<1>1. Ends("libreoffice", e, next) /\ "libreoffice" \in RenderTools
    BY DEF RunLibreOffice, RenderTools
<1> HIDE DEF next
<1>2. /\ running = "libreoffice" /\ ran["libreoffice"] = "no" /\ running' = next
      /\ ran' \in [RenderTools -> Endings \cup {"no"}] /\ ran'["libreoffice"] = e
      /\ \A t \in RenderTools \ {"libreoffice"} : ran'[t] = ran[t]
      /\ format' = format /\ equipped' = equipped
    BY <1>1, ToolEnds
<1>3. RenderTypes'
    BY <1>2 DEF next, RenderInv, RenderTypes, RenderTools
<1>4. NotYetRun'
    BY <1>2 DEF next, RenderInv, NotYetRun, RenderTools, Endings
<1>5. MakersTried'
  <2> SUFFICES ASSUME NEW t \in Makers, next # "made", next \notin UpTo(t), ran'[t] \in {"no", "ok"}
               PROVE NeedNotRun(t)'
      BY <1>2 DEF MakersTried, Makers
  <2>1. t \in RenderTools /\ running # "made" /\ (format \in {"latex", "office"} => t \in {"vips", "magick"})
      BY <1>2, FormatMakers DEF Makers, RenderInv
  <2>2. running \in UpTo(t) \/ ran[t] \notin {"no", "ok"} \/ NeedNotRun(t)
      BY <2>1 DEF RenderInv, MakersTried
  <2>3. t # "libreoffice" => ran'[t] = ran[t]
      BY <1>2, <2>1
  <2> QED
      BY <1>1, <1>2, <2>1, <2>2, <2>3 DEF next, RenderInv, NotYetRun, Makers, Endings, RenderTools, UpTo, NeedNotRun, Prepared
<1> QED
    BY <1>3, <1>4, <1>5 DEF RenderInv

LEMMA BlenderSteps == ASSUME RenderInv, NEW e \in Endings, RunBlender(e) PROVE RenderInv'
<1> DEFINE next == CASE e = "ok" -> "made" [] e = "hollow" -> "none" [] OTHER -> "error"
<1>1. Ends("blender", e, next) /\ "blender" \in RenderTools
    BY DEF RunBlender, RenderTools
<1> HIDE DEF next
<1>2. /\ running = "blender" /\ ran["blender"] = "no" /\ running' = next
      /\ ran' \in [RenderTools -> Endings \cup {"no"}] /\ ran'["blender"] = e
      /\ \A t \in RenderTools \ {"blender"} : ran'[t] = ran[t]
      /\ format' = format /\ equipped' = equipped
    BY <1>1, ToolEnds
<1>3. RenderTypes'
    BY <1>2 DEF next, RenderInv, RenderTypes, RenderTools
<1>4. NotYetRun'
    BY <1>2 DEF next, RenderInv, NotYetRun, RenderTools, Endings
<1>5. MakersTried'
  <2> SUFFICES ASSUME NEW t \in Makers, next # "made", next \notin UpTo(t), ran'[t] \in {"no", "ok"}
               PROVE NeedNotRun(t)'
      BY <1>2 DEF MakersTried, Makers
  <2>1. t \in RenderTools /\ running # "made" /\ (format \in {"latex", "office"} => t \in {"vips", "magick"})
      BY <1>2, FormatMakers DEF Makers, RenderInv
  <2>2. running \in UpTo(t) \/ ran[t] \notin {"no", "ok"} \/ NeedNotRun(t)
      BY <2>1 DEF RenderInv, MakersTried
  <2>3. t # "blender" => ran'[t] = ran[t]
      BY <1>2, <2>1
  <2> QED
      BY <1>1, <1>2, <2>1, <2>2, <2>3 DEF next, RenderInv, NotYetRun, Makers, Endings, RenderTools, UpTo, NeedNotRun, Prepared
<1> QED
    BY <1>3, <1>4, <1>5 DEF RenderInv

LEMMA HardwareSteps == ASSUME RenderInv, NEW e \in Endings, RunHardware(e) PROVE RenderInv'
<1> DEFINE next == AfterHardware(e)
<1>1. Ends("hardware", e, next) /\ "hardware" \in RenderTools
    BY DEF RunHardware, RenderTools
<1> HIDE DEF next
<1>2. /\ running = "hardware" /\ ran["hardware"] = "no" /\ running' = next
      /\ ran' \in [RenderTools -> Endings \cup {"no"}] /\ ran'["hardware"] = e
      /\ \A t \in RenderTools \ {"hardware"} : ran'[t] = ran[t]
      /\ format' = format /\ equipped' = equipped
    BY <1>1, ToolEnds
<1>3. RenderTypes'
    BY <1>2 DEF next, AfterHardware, RenderInv, RenderTypes, RenderTools
<1>4. NotYetRun'
    BY <1>2 DEF next, AfterHardware, RenderInv, NotYetRun, RenderTools, Endings
<1>5. MakersTried'
  <2> SUFFICES ASSUME NEW t \in Makers, next # "made", next \notin UpTo(t), ran'[t] \in {"no", "ok"}
               PROVE NeedNotRun(t)'
      BY <1>2 DEF MakersTried, Makers
  <2>1. t \in RenderTools /\ running # "made" /\ (format \in {"latex", "office"} => t \in {"vips", "magick"})
      BY <1>2, FormatMakers DEF Makers, RenderInv
  <2>2. running \in UpTo(t) \/ ran[t] \notin {"no", "ok"} \/ NeedNotRun(t)
      BY <2>1 DEF RenderInv, MakersTried
  <2>3. t # "hardware" => ran'[t] = ran[t]
      BY <1>2, <2>1
  <2> QED
      BY <1>1, <1>2, <2>1, <2>2, <2>3 DEF next, AfterHardware, RenderInv, NotYetRun, Makers, Endings, RenderTools, UpTo, NeedNotRun, Prepared
<1> QED
    BY <1>3, <1>4, <1>5 DEF RenderInv

LEMMA FfmpegSteps == ASSUME RenderInv, NEW e \in Endings, RunFfmpeg(e) PROVE RenderInv'
<1> DEFINE next == CASE e \in {"ok", "hollow"} -> "made" [] e = "exit" -> "none" [] OTHER -> "error"
<1>1. Ends("ffmpeg", e, next) /\ "ffmpeg" \in RenderTools
    BY DEF RunFfmpeg, RenderTools
<1> HIDE DEF next
<1>2. /\ running = "ffmpeg" /\ ran["ffmpeg"] = "no" /\ running' = next
      /\ ran' \in [RenderTools -> Endings \cup {"no"}] /\ ran'["ffmpeg"] = e
      /\ \A t \in RenderTools \ {"ffmpeg"} : ran'[t] = ran[t]
      /\ format' = format /\ equipped' = equipped
    BY <1>1, ToolEnds
<1>3. RenderTypes'
    BY <1>2 DEF next, RenderInv, RenderTypes, RenderTools
<1>4. NotYetRun'
    BY <1>2 DEF next, RenderInv, NotYetRun, RenderTools, Endings
<1>5. MakersTried'
  <2> SUFFICES ASSUME NEW t \in Makers, next # "made", next \notin UpTo(t), ran'[t] \in {"no", "ok"}
               PROVE NeedNotRun(t)'
      BY <1>2 DEF MakersTried, Makers
  <2>1. t \in RenderTools /\ running # "made" /\ (format \in {"latex", "office"} => t \in {"vips", "magick"})
      BY <1>2, FormatMakers DEF Makers, RenderInv
  <2>2. running \in UpTo(t) \/ ran[t] \notin {"no", "ok"} \/ NeedNotRun(t)
      BY <2>1 DEF RenderInv, MakersTried
  <2>3. t # "ffmpeg" => ran'[t] = ran[t]
      BY <1>2, <2>1
  <2> QED
      BY <1>1, <1>2, <2>1, <2>2, <2>3 DEF next, RenderInv, NotYetRun, Makers, Endings, RenderTools, UpTo, NeedNotRun, Prepared
<1> QED
    BY <1>3, <1>4, <1>5 DEF RenderInv

LEMMA LatexmkSteps == ASSUME RenderInv, NEW e \in Endings, NEW large \in BOOLEAN, RunLatexmk(e, large) PROVE RenderInv'
<1> DEFINE next == CASE e = "ok" -> IF large THEN "none" ELSE "vips" [] e = "exit" -> "none" [] OTHER -> "error"
<1>1. Ends("latexmk", e, next) /\ "latexmk" \in RenderTools
    BY DEF RunLatexmk, RenderTools
<1> HIDE DEF next
<1>2. /\ running = "latexmk" /\ ran["latexmk"] = "no" /\ running' = next
      /\ ran' \in [RenderTools -> Endings \cup {"no"}] /\ ran'["latexmk"] = e
      /\ \A t \in RenderTools \ {"latexmk"} : ran'[t] = ran[t]
      /\ format' = format /\ equipped' = equipped
    BY <1>1, ToolEnds
<1>3. RenderTypes'
    BY <1>2 DEF next, RenderInv, RenderTypes, RenderTools
<1>4. NotYetRun'
    BY <1>2 DEF next, RenderInv, NotYetRun, RenderTools, Endings
<1>5. MakersTried'
  <2> SUFFICES ASSUME NEW t \in Makers, next # "made", next \notin UpTo(t), ran'[t] \in {"no", "ok"}
               PROVE NeedNotRun(t)'
      BY <1>2 DEF MakersTried, Makers
  <2>1. t \in RenderTools /\ running # "made" /\ (format \in {"latex", "office"} => t \in {"vips", "magick"})
      BY <1>2, FormatMakers DEF Makers, RenderInv
  <2>2. running \in UpTo(t) \/ ran[t] \notin {"no", "ok"} \/ NeedNotRun(t)
      BY <2>1 DEF RenderInv, MakersTried
  <2>3. t # "latexmk" => ran'[t] = ran[t]
      BY <1>2, <2>1
  <2> QED
      BY <1>1, <1>2, <2>1, <2>2, <2>3 DEF next, RenderInv, NotYetRun, Makers, Endings, RenderTools, UpTo, NeedNotRun, Prepared
<1> QED
    BY <1>3, <1>4, <1>5 DEF RenderInv

\* A tool that is not configured, or not given the file, is passed over.
LEMMA PassedOver == ASSUME RenderInv, WithoutVips \/ WithoutMagick PROVE RenderInv'
<1>1. /\ ran' = ran /\ format' = format /\ equipped' = equipped
      /\ \/ running = "vips" /\ running' = "magick" /\ "vips" \notin equipped
         \/ running = "magick" /\ running' \in {"none", "error"} /\ ("magick" \notin equipped \/ format \in {"image", "text"})
    BY DEF WithoutVips, WithoutMagick
<1>2. RenderTypes'
    BY <1>1 DEF RenderInv, RenderTypes, RenderTools
<1>3. NotYetRun'
    BY <1>1 DEF RenderInv, NotYetRun, RenderTools
<1>4. MakersTried'
    BY <1>1 DEF RenderInv, RenderTypes, NotYetRun, MakersTried, Makers, Endings, RenderTools, UpTo, NeedNotRun, Prepared
<1> QED
    BY <1>2, <1>3, <1>4 DEF RenderInv

LEMMA RenderKeeps == RenderInv /\ [Next]_storageVars => RenderInv'
<1> SUFFICES ASSUME RenderInv, RenderMoves \/ UNCHANGED renderVars PROVE RenderInv'
    BY RenderSteps
<1>1. CASE UNCHANGED renderVars
    BY <1>1 DEF renderVars, RenderInv, RenderTypes, NotYetRun, MakersTried, Makers, NeedNotRun, Prepared
<1>2. CASE RenderMoves
    BY <1>2, BuiltinSteps, VipsSteps, MagickSteps, LibreOfficeSteps, BlenderSteps, HardwareSteps, FfmpegSteps,
       LatexmkSteps, PassedOver DEF RenderMoves
<1> QED
    BY <1>1, <1>2

LEMMA RenderInvariant == Spec => []RenderInv
<1> QED
    BY RenderStarts, RenderKeeps, PTL DEF Spec

\* A rendering that fails has tried every tool it has, and none of them has made an output,
\* but for the exceptions FailsOnlyAfterAll names: for every kind of file, every set of
\* tools and every way in which they end.
THEOREM AllToolsTried == Spec => []FailsOnlyAfterAll
<1>1. RenderInv => FailsOnlyAfterAll
  <2> SUFFICES ASSUME RenderInv, running \in {"none", "error"}, Prepared, NEW t \in Makers
               PROVE \/ ran[t] \notin {"no", "ok"}
                     \/ t = "magick" /\ format \in {"image", "text"} /\ ran[t] = "no"
                     \/ format = "latex" /\ ran["vips"] = "no" /\ ran["magick"] = "no"
                     \/ t \in {"vips", "magick"} /\ ran["builtin"] = "exit"
                     \/ t = "ffmpeg" /\ ran["hardware"] = "exit"
      BY DEF FailsOnlyAfterAll
  <2>1. running \notin UpTo(t)
      BY DEF UpTo, Makers
  <2> QED
      BY <2>1 DEF RenderInv, MakersTried, NeedNotRun
<1> QED
    BY <1>1, RenderInvariant, PTL

-----------------------------------------------------------------------------
(* The configuration (Configuration)                                        *)

LEMMA ConfigSteps == [Next]_storageVars => ConfigMoves \/ UNCHANGED confVars
    BY DEF Next, storageVars, ReadsMoves, UsageMoves, BinMoves, PoolMoves, VaultMoves, RouteMoves, ThumbsMoves,
           RenderMoves, VideosMoves, BatchesMoves, MountsMoves, BesideReads, BesideUsage, BesideBin, BesidePool,
           BesideVault, BesideRoute, BesideThumbs, BesideRender, BesideVideos, BesideBatches, BesideMounts

Reading == {"good", "missing", "wrong"}
PoolState == [name : WrittenNames, primary : WrittenNames, backup : WrittenNames \cup {<<>>, EmptyName}, cached : BOOLEAN]
ConfState == [faults : SUBSET Faults, gone : SUBSET Sections, kinds : SUBSET Kinds, builtin : BOOLEAN,
              tools : SUBSET Tools, seekMode : {"auto", "ratio", "seconds", "unknown"}, ratio : Reading, seconds : Reading,
              connectors : Seq(WrittenNames), default : WrittenNames, policy : WrittenNames, pools : Seq(PoolState)]
\* What is in use has been validated; a hub that did not start could not.
ConfInv ==
    /\ conf \in ConfState
    /\ stage \in {"edit", "accepted", "refused", "running", "failed", "answers"}
    /\ stage \in {"accepted", "running", "failed", "answers"} => Valid
    /\ stage = "failed" => ~HubStarts

\* Validation mentions every field that can be missing, but for the sizes of thumbnails.
LEMMA NothingUnchecked ==
    ASSUME NEW s \in Sections, NEW f \in DOMAIN Checks[s], "missing" \notin Rejected(Checks[s][f])
    PROVE <<s, f>> \in Unchecked
<1>1. Checks[s][f] = "unchecked"
    BY DEF Rejected
<1>2. Sections = {"temp_file", "read_cache", "write_cache", "batch_operation", "file_compress", "file_index",
                  "thumbnail", "image", "video", "pdf", "office", "text", "model3d", "media_transcoding",
                  "transcoding_video", "hardware", "protected_storage", "obfuscation", "encrypt", "file_share", "maintenance"}
    BY DEF Sections, Checks
<1>3. CASE s \in {"temp_file", "read_cache", "write_cache"}
  <2>1. Checks["temp_file"] = [dir |-> "text", max_age |-> "text"] /\ Checks["read_cache"] = ReadCacheChecks
        /\ Checks["write_cache"] = WriteCacheChecks
      BY DEF Checks
  <2> QED
      BY <1>1, <1>3, <2>1 DEF ReadCacheChecks, WriteCacheChecks
<1>4. CASE s \in {"batch_operation", "file_compress", "file_index"}
  <2>1. Checks["batch_operation"] = BatchChecks /\ Checks["file_compress"] = CompressChecks
        /\ Checks["file_index"] = IndexChecks
      BY DEF Checks
  <2> QED
      BY <1>1, <1>4, <2>1 DEF BatchChecks, CompressChecks, IndexChecks
<1>5. CASE s \in {"thumbnail", "media_transcoding", "transcoding_video", "hardware"}
  <2>1. Checks["thumbnail"] = ThumbnailChecks /\ Checks["media_transcoding"] = TranscodingChecks
        /\ Checks["transcoding_video"] = TranscodingVideoChecks /\ Checks["hardware"] = HardwareChecks
      BY DEF Checks
  <2> QED
      BY <1>1, <1>5, <2>1 DEF ThumbnailChecks, TranscodingChecks, TranscodingVideoChecks, HardwareChecks
<1>6. CASE s \in {"protected_storage", "obfuscation", "encrypt", "file_share", "maintenance"}
  <2>1. Checks["protected_storage"] = ProtectedChecks /\ Checks["obfuscation"] = ObfuscationChecks
        /\ Checks["encrypt"] = EncryptChecks /\ Checks["file_share"] = ShareChecks
        /\ Checks["maintenance"] = MaintenanceChecks
      BY DEF Checks
  <2> QED
      BY <1>1, <1>6, <2>1 DEF ProtectedChecks, ObfuscationChecks, EncryptChecks, ShareChecks, MaintenanceChecks
<1>7. CASE s = "image"
  <2>1. Checks["image"] = ImageChecks
      BY DEF Checks
  <2> QED
      BY <1>1, <1>7, <2>1 DEF ImageChecks, Unchecked
<1>8. CASE s \in {"video", "pdf", "office", "text", "model3d"}
  <2>1. \A d \in {"video", "pdf", "office", "text", "model3d"} : Checks[d] = DocChecks
      BY DEF Checks
  <2>2. Checks[s] = DocChecks
      BY <1>8, <2>1
  <2>3. f = "imagemagick_max_mb"
      BY <1>1, <2>2 DEF DocChecks
  <2> QED
      BY <1>8, <2>3 DEF Unchecked
<1> QED
    BY <1>2, <1>3, <1>4, <1>5, <1>6, <1>7, <1>8

\* No getter finds nothing where validation has been.
LEMMA ValidAnswers ==
    ASSUME conf \in ConfState, Valid, NEW profile \in Profiles
    PROVE Panics(profile) \subseteq Unchecked
<1> SUFFICES ASSUME NEW s \in Sections, NEW f \in Getters(profile)[s], s \in conf.gone \/ <<s, f, "missing">> \in conf.faults
             PROVE <<s, f>> \in Unchecked
    BY DEF Panics
<1>1. <<s, f, "missing">> \in conf.faults
    BY DEF Valid
<1>2. <<s, f, "missing">> \in Faults
    BY <1>1 DEF ConfState
<1>3. PICK t \in Sections : <<s, f, "missing">> \in {t} \X (DOMAIN Checks[t]) \X {"missing", "empty", "wrong"}
    BY <1>2 DEF Faults
<1>4. f \in DOMAIN Checks[s]
    BY <1>3
<1>5. AcceptedField(<<s, f, "missing">>)
    BY <1>1 DEF Valid
<1>6. "missing" \notin Rejected(Checks[s][f])
    BY <1>5 DEF AcceptedField
<1> QED
    BY <1>4, <1>6, NothingUnchecked

\* A name with nothing around it is what is left of it.
LEMMA PlainNames ==
    /\ \A m, n \in WrittenNames : m[2] = "plain" /\ n[2] = "plain" /\ Trimmed(m) = Trimmed(n) => m = n
    /\ \A m, n \in WrittenNames : m[2] = "plain" /\ n[2] = "plain" /\ m[1] = n[1] => m = n
    /\ One \in WrittenNames /\ <<>> \notin WrittenNames /\ EmptyName \notin WrittenNames
<1>1. \A m \in WrittenNames : m = <<m[1], m[2]>>
    BY DEF WrittenNames
<1>2. One \in WrittenNames
    BY DEF WrittenNames, One
<1>3. <<>> \notin WrittenNames
  <2>1. \A m \in WrittenNames : Len(m) = 2
      BY DEF WrittenNames
  <2>2. Len(<<>>) = 0
      OBVIOUS
  <2> QED
      BY <2>1, <2>2
<1>4. EmptyName \notin WrittenNames
  <2>1. \A m \in WrittenNames : m[1] # ""
      BY DEF WrittenNames
  <2>2. EmptyName[1] = ""
      BY DEF EmptyName
  <2> QED
      BY <2>1, <2>2
<1> QED
    BY <1>1, <1>2, <1>3, <1>4 DEF Trimmed

\* The names a configuration has written down are without blanks.
PlainlyWritten ==
    /\ \A i \in DOMAIN conf.connectors : conf.connectors[i][2] = "plain"
    /\ conf.default[2] = "plain" /\ conf.policy[2] = "plain"
    /\ \A i \in DOMAIN conf.pools : /\ conf.pools[i].name[2] = "plain" /\ conf.pools[i].primary[2] = "plain"
                                    /\ conf.pools[i].backup \in WrittenNames => conf.pools[i].backup[2] = "plain"

\* Then validation and the hub find the same.
LEMMA ValidStarts == ASSUME conf \in ConfState, Valid, PlainlyWritten PROVE HubStarts /\ RoutesFound
<1>1. /\ conf.connectors \in Seq(WrittenNames) /\ conf.pools \in Seq(PoolState)
      /\ conf.default \in WrittenNames /\ conf.policy \in WrittenNames
    BY DEF ConfState
<1>2. \A i \in DOMAIN conf.connectors : conf.connectors[i] \in WrittenNames
    BY <1>1
<1>3. \A i \in DOMAIN conf.pools : conf.pools[i] \in PoolState
    BY <1>1
<1>4. /\ conf.connectors # <<>> /\ conf.pools # <<>>
      /\ \A i \in DOMAIN conf.pools : ~PoolError(conf.pools[i])
      /\ Trimmed(conf.default) \in PoolNames /\ Trimmed(conf.policy) \in PoolNames
    BY DEF Valid, HubErrors
<1>5. \A n \in WrittenNames : n[2] = "plain" /\ Trimmed(n) \in Connectors => n \in Built
    BY <1>2, PlainNames DEF Connectors, Built, PlainlyWritten
<1>6. ASSUME NEW i \in DOMAIN conf.pools
      PROVE /\ ~conf.pools[i].cached /\ conf.pools[i].primary \in Built
            /\ conf.pools[i].backup \in {<<>>, EmptyName, conf.pools[i].primary} \cup Built
  <2>1. PICK pool : pool = conf.pools[i]
      OBVIOUS
  <2>2. pool \in PoolState /\ ~PoolError(pool) /\ pool.primary[2] = "plain"
        /\ (pool.backup \in WrittenNames => pool.backup[2] = "plain")
      BY <1>3, <1>4, <2>1 DEF PlainlyWritten
  <2>3. ~pool.cached /\ Trimmed(pool.primary) \in Connectors /\ (pool.backup # <<>> => pool.backup[1] \in Connectors)
      BY <2>2 DEF PoolError
  <2>4. pool.primary \in WrittenNames /\ pool.backup \in WrittenNames \cup {<<>>, EmptyName}
      BY <2>2 DEF PoolState
  <2>5. pool.primary \in Built
      BY <1>5, <2>2, <2>3, <2>4
  <2>6. pool.backup \in {<<>>, EmptyName} \cup Built
      BY <1>5, <2>2, <2>3, <2>4, PlainNames DEF Trimmed
  <2> QED
      BY <2>1, <2>3, <2>5, <2>6
<1>7. HubStarts
    BY <1>4, <1>6 DEF HubStarts
<1>8. \A n \in WrittenNames : n[2] = "plain" /\ Trimmed(n) \in PoolNames => \E i \in DOMAIN conf.pools : n = conf.pools[i].name
  <2>1. \A i \in DOMAIN conf.pools : conf.pools[i].name \in WrittenNames /\ conf.pools[i].name[2] = "plain"
      BY <1>3 DEF PlainlyWritten, PoolState
  <2> QED
      BY <2>1, PlainNames DEF PoolNames
<1>9. RoutesFound
    BY <1>1, <1>4, <1>8 DEF RoutesFound, PolicyPools, PlainlyWritten
<1> QED
    BY <1>7, <1>9

\* What validation lets pass has the tools it needs.
LEMMA ValidRenders ==
    ASSUME conf \in ConfState, Valid
    PROVE /\ \A kind \in conf.kinds : \A group \in NeededTools(kind) : group \cap conf.tools # {}
          /\ "video" \in conf.kinds => ~SeekFails
<1>1. ~ToolErrors /\ ~SeekErrors
    BY DEF Valid
<1>2. "video" \in conf.kinds => ~SeekFails
    BY <1>1 DEF SeekErrors, SeekFails
<1>3. ASSUME NEW kind \in conf.kinds, NEW group \in NeededTools(kind) PROVE group \cap conf.tools # {}
  <2>1. kind \in Kinds
      BY <1>3 DEF ConfState
  <2>2. CASE kind \in {"image", "pdf"}
      BY <1>1, <1>3, <2>2 DEF ToolErrors, NeededTools, Raster
  <2>3. CASE kind = "office"
      BY <1>1, <1>3, <2>3 DEF ToolErrors, NeededTools, Raster
  <2>4. CASE kind \in {"video", "transcoding"}
      BY <1>1, <1>3, <2>4 DEF ToolErrors, NeededTools, Ffmpeg
  <2>5. CASE kind \in {"text", "model3d"}
      BY <1>1, <1>3, <2>5 DEF ToolErrors, NeededTools
  <2> QED
      BY <2>1, <2>2, <2>3, <2>4, <2>5 DEF Kinds
<1> QED
    BY <1>2, <1>3

LEMMA ConfStarts == Init => ConfInv
<1> SUFFICES ASSUME ConfInit PROVE ConfInv
    BY DEF Init
<1>1. <<[name |-> One, primary |-> One, backup |-> <<>>, cached |-> FALSE]>> \in Seq(PoolState)
    BY PlainNames DEF PoolState
<1>2. <<One>> \in Seq(WrittenNames)
    BY PlainNames
<1>3. conf \in ConfState
    BY <1>1, <1>2, PlainNames DEF ConfInit, ConfState, Reading
<1> QED
    BY <1>3 DEF ConfInv, ConfInit

\* An edit of the configuration is made before it is validated, and leaves its types.
LEMMA Edited == ASSUME NEW changed \in ConfState, Edit(changed) PROVE ConfInv'
    BY DEF Edit, ConfInv

LEMMA ThumbnailsEdited == ASSUME ConfInv, EditThumbnails PROVE ConfInv'
<1>1. conf \in ConfState
    BY DEF ConfInv
<1>2. ASSUME NEW k, Edit([conf EXCEPT !.kinds = @ \ {k}]) PROVE ConfInv'
  <2>1. [conf EXCEPT !.kinds = @ \ {k}] \in ConfState
      BY <1>1 DEF ConfState
  <2> QED
      BY <1>2, <2>1, Edited
<1>3. ASSUME NEW t, Edit([conf EXCEPT !.tools = @ \ {t}]) PROVE ConfInv'
  <2>1. [conf EXCEPT !.tools = @ \ {t}] \in ConfState
      BY <1>1 DEF ConfState
  <2> QED
      BY <1>3, <2>1, Edited
<1>4. ASSUME Edit([conf EXCEPT !.builtin = TRUE]) PROVE ConfInv'
  <2>1. [conf EXCEPT !.builtin = TRUE] \in ConfState
      BY <1>1 DEF ConfState
  <2> QED
      BY <1>4, <2>1, Edited
<1> QED
    BY <1>2, <1>3, <1>4 DEF EditThumbnails

LEMMA SeekEdited == ASSUME ConfInv, EditSeek PROVE ConfInv'
<1>1. conf \in ConfState
    BY DEF ConfInv
<1>2. ASSUME NEW mode \in {"ratio", "seconds", "unknown"}, Edit([conf EXCEPT !.seekMode = mode]) PROVE ConfInv'
  <2>1. [conf EXCEPT !.seekMode = mode] \in ConfState
      BY <1>1 DEF ConfState
  <2> QED
      BY <1>2, <2>1, Edited
<1>3. ASSUME NEW v \in Reading, Edit([conf EXCEPT !.ratio = v]) PROVE ConfInv'
  <2>1. [conf EXCEPT !.ratio = v] \in ConfState
      BY <1>1 DEF ConfState
  <2> QED
      BY <1>3, <2>1, Edited
<1>4. ASSUME NEW v \in Reading, Edit([conf EXCEPT !.seconds = v]) PROVE ConfInv'
  <2>1. [conf EXCEPT !.seconds = v] \in ConfState
      BY <1>1 DEF ConfState
  <2> QED
      BY <1>4, <2>1, Edited
<1> QED
    BY <1>2, <1>3, <1>4 DEF EditSeek, Reading

LEMMA ConnectorsEdited == ASSUME ConfInv, EditConnectors PROVE ConfInv'
<1>1. conf \in ConfState /\ conf.connectors \in Seq(WrittenNames)
    BY DEF ConfInv, ConfState
<1>2. ASSUME NEW names \in Seq(WrittenNames), Edit([conf EXCEPT !.connectors = names]) PROVE ConfInv'
  <2>1. [conf EXCEPT !.connectors = names] \in ConfState
      BY <1>1 DEF ConfState
  <2> QED
      BY <1>2, <2>1, Edited
<1>3. ASSUME NEW name \in WrittenNames, Edit([conf EXCEPT !.connectors = Append(@, name)]) PROVE ConfInv'
  <2>1. Append(conf.connectors, name) \in Seq(WrittenNames)
      BY <1>1
  <2> QED
      BY <1>2, <1>3, <2>1
<1>4. ASSUME NEW name \in WrittenNames, conf.connectors # <<>>, Edit([conf EXCEPT !.connectors[1] = name]) PROVE ConfInv'
  <2>1. 1 \in DOMAIN conf.connectors
      BY <1>1, <1>4
  <2>2. [conf.connectors EXCEPT ![1] = name] \in Seq(WrittenNames)
      BY <1>1, <2>1
  <2> QED
      BY <1>2, <1>4, <2>2
<1>5. <<>> \in Seq(WrittenNames)
    OBVIOUS
<1> QED
    BY <1>2, <1>3, <1>4, <1>5 DEF EditConnectors

LEMMA PoolsEdited == ASSUME ConfInv, EditPools PROVE ConfInv'
<1>1. conf \in ConfState /\ conf.pools \in Seq(PoolState)
    BY DEF ConfInv, ConfState
<1>2. ASSUME NEW pools \in Seq(PoolState), Edit([conf EXCEPT !.pools = pools]) PROVE ConfInv'
  <2>1. [conf EXCEPT !.pools = pools] \in ConfState
      BY <1>1 DEF ConfState
  <2> QED
      BY <1>2, <2>1, Edited
<1>3. ASSUME conf.pools # <<>> PROVE conf.pools[1] \in PoolState /\ 1 \in DOMAIN conf.pools
    BY <1>1, <1>3
<1>4. ASSUME NEW pool \in PoolState, conf.pools # <<>> PROVE [conf.pools EXCEPT ![1] = pool] \in Seq(PoolState)
    BY <1>1, <1>3, <1>4
<1>5. ASSUME NEW name \in WrittenNames, conf.pools # <<>>,
             Edit([conf EXCEPT !.pools = Append(@, [@[1] EXCEPT !.name = name])])
      PROVE ConfInv'
  <2>1. [conf.pools[1] EXCEPT !.name = name] \in PoolState
      BY <1>3, <1>5 DEF PoolState
  <2>2. Append(conf.pools, [conf.pools[1] EXCEPT !.name = name]) \in Seq(PoolState)
      BY <1>1, <2>1
  <2> QED
      BY <1>2, <1>5, <2>2
<1>6. ASSUME NEW name \in WrittenNames, NEW f \in {"name", "primary", "backup"}, conf.pools # <<>>,
             Edit([conf EXCEPT !.pools[1][f] = name])
      PROVE ConfInv'
  <2>1. [conf.pools[1] EXCEPT ![f] = name] \in PoolState
      BY <1>3, <1>6 DEF PoolState
  <2> QED
      BY <1>2, <1>4, <1>6, <2>1
<1>7. ASSUME conf.pools # <<>>, Edit([conf EXCEPT !.pools[1].backup = EmptyName]) PROVE ConfInv'
  <2>1. [conf.pools[1] EXCEPT !.backup = EmptyName] \in PoolState
      BY <1>3, <1>7 DEF PoolState
  <2> QED
      BY <1>2, <1>4, <1>7, <2>1
<1>8. ASSUME conf.pools # <<>>, Edit([conf EXCEPT !.pools[1].cached = TRUE]) PROVE ConfInv'
  <2>1. [conf.pools[1] EXCEPT !.cached = TRUE] \in PoolState
      BY <1>3, <1>8 DEF PoolState
  <2> QED
      BY <1>2, <1>4, <1>8, <2>1
<1>9. <<>> \in Seq(PoolState)
    OBVIOUS
<1> QED
    BY <1>2, <1>5, <1>6, <1>7, <1>8, <1>9 DEF EditPools

LEMMA RoutesEdited == ASSUME ConfInv, EditRoutes PROVE ConfInv'
<1>1. conf \in ConfState
    BY DEF ConfInv
<1>2. ASSUME NEW name \in WrittenNames, Edit([conf EXCEPT !.default = name]) PROVE ConfInv'
  <2>1. [conf EXCEPT !.default = name] \in ConfState
      BY <1>1 DEF ConfState
  <2> QED
      BY <1>2, <2>1, Edited
<1>3. ASSUME NEW name \in WrittenNames, Edit([conf EXCEPT !.policy = name]) PROVE ConfInv'
  <2>1. [conf EXCEPT !.policy = name] \in ConfState
      BY <1>1 DEF ConfState
  <2> QED
      BY <1>3, <2>1, Edited
<1> QED
    BY <1>2, <1>3 DEF EditRoutes

\* The predicates of the configuration say the same of the same configuration.
LEMMA SameConf == ASSUME UNCHANGED conf PROVE (Valid' <=> Valid) /\ (HubStarts' <=> HubStarts)
<1>1. Valid' <=> Valid
    BY DEF Valid, ToolErrors, SeekErrors, HubErrors, Raster, Ffmpeg, Connectors, PoolNames, Repeats, PoolError
<1>2. HubStarts' <=> HubStarts
    BY DEF HubStarts, Built
<1> QED
    BY <1>1, <1>2

LEMMA ConfKeeps == ConfInv /\ [Next]_storageVars => ConfInv'
<1> SUFFICES ASSUME ConfInv, [Next]_storageVars PROVE ConfInv'
    OBVIOUS
<1>1. CASE UNCHANGED confVars
    BY <1>1, SameConf DEF confVars, ConfInv
<1>2. CASE BreakField
  <2>1. PICK fault \in Faults : conf' = [conf EXCEPT !.faults = {fault}]
      BY <1>2 DEF BreakField
  <2>2. conf' \in ConfState
      BY <2>1 DEF ConfInv, ConfState
  <2> QED
      BY <1>2, <2>2 DEF BreakField, ConfInv
<1>3. CASE RemoveSection
  <2>1. PICK s \in Sections : conf' = [conf EXCEPT !.gone = {s}]
      BY <1>3 DEF RemoveSection
  <2>2. conf' \in ConfState
      BY <2>1 DEF ConfInv, ConfState
  <2> QED
      BY <1>3, <2>2 DEF RemoveSection, ConfInv
<1>4. CASE Validate
    BY <1>4, SameConf DEF Validate, ConfInv
<1>5. CASE StartHub
    BY <1>5, SameConf DEF StartHub, ConfInv
<1>6. CASE UseSettings
  <2>1. \A profile \in Profiles : Panics(profile) \subseteq Unchecked
      BY <1>6, ValidAnswers DEF UseSettings, ConfInv
  <2> QED
      BY <1>6, <2>1, SameConf DEF UseSettings, ConfInv
<1> QED
    BY <1>1, <1>2, <1>3, <1>4, <1>5, <1>6, ConfigSteps, ThumbnailsEdited, SeekEdited, ConnectorsEdited, PoolsEdited,
       RoutesEdited DEF ConfigMoves

\* What VfsStorageHubConfig::validate accepts works: no getter panics on it, the hub starts
\* and the pools of its routes are found, and what it enables can be rendered.
THEOREM AcceptedConfigurationWorks == Spec => []AcceptedWorks
<1>1. ASSUME ConfInv PROVE AcceptedWorks
  <2> DEFINE written == Built \cup {conf.default, conf.policy}
                   \cup UNION {{conf.pools[i].name, conf.pools[i].primary} \cup
                               (IF conf.pools[i].backup = <<>> THEN {} ELSE {conf.pools[i].backup})
                               : i \in DOMAIN conf.pools}
  <2>1. stage # "panics"
      BY <1>1 DEF ConfInv
  <2>2. ASSUME \A name \in written : name[2] = "plain" PROVE stage # "failed" /\ (stage = "running" => RoutesFound)
    <3>1. \A i \in DOMAIN conf.connectors : conf.connectors[i] \in written
        BY DEF Built
    <3>2. conf.default \in written /\ conf.policy \in written
        OBVIOUS
    <3>3. \A i \in DOMAIN conf.pools : /\ conf.pools[i].name \in written /\ conf.pools[i].primary \in written
                                       /\ conf.pools[i].backup # <<>> => conf.pools[i].backup \in written
        OBVIOUS
    <3> HIDE DEF written
    <3>4. PlainlyWritten
        BY <2>2, <3>1, <3>2, <3>3, PlainNames DEF PlainlyWritten
    <3> QED
        BY <1>1, <3>4, ValidStarts DEF ConfInv
  <2>3. ASSUME stage \in {"accepted", "running"}
        PROVE /\ \A kind \in conf.kinds : \A group \in NeededTools(kind) : group \cap conf.tools # {}
              /\ "video" \in conf.kinds => ~SeekFails
      BY <1>1, <2>3, ValidRenders DEF ConfInv
  <2> QED
      BY <2>1, <2>2, <2>3 DEF AcceptedWorks
<1> QED
    BY <1>1, ConfStarts, ConfKeeps, PTL DEF Spec
=============================================================================
