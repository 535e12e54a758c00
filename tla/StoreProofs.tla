----------------------------- MODULE StoreProofs -----------------------------
(***************************************************************************)
(* What lies in the stores: what the read cache holds of them (ReadCache)  *)
(* and files of a pool as streams write them (Pool), for any number of     *)
(* requests, failing calls, restarts and crashes.                          *)
(***************************************************************************)
EXTENDS Storage, Sums

\* A step of Storage either is one of the pool's or leaves it alone.
LEMMA PoolSteps == [Next]_storageVars => PoolMoves \/ UNCHANGED poolVars
    BY DEF Next, storageVars, ReadsMoves, UsageMoves, BinMoves, VaultMoves, RouteMoves, ConfigMoves,
           ThumbsMoves, RenderMoves, VideosMoves, BatchesMoves, MountsMoves, BesideReads, BesideUsage, BesideBin,
           BesideVault, BesideRoute, BesideConfig, BesideThumbs, BesideRender, BesideVideos, BesideBatches, BesideMounts

-----------------------------------------------------------------------------
(* Streams and trees in a pool                                              *)

CallFields == {"pc", "kind", "path", "left", "handle", "first", "second", "met", "hurt", "ok"}
\* A request does what its kind says, at the path it was asked for; only a stream writes
\* through a handle.
CallFits(q) ==
    /\ DOMAIN q = CallFields /\ q = [x \in CallFields |-> q[x]]
    /\ q.kind \in {"read", "write", "delete", "tree", "stream"}
    /\ q.pc \in {"first", "second"} => q.kind = "read"
    /\ q.pc = "write" => q.kind = "write"
    /\ q.pc \in {"find", "delete"} => q.kind = "delete"
    /\ q.pc = "stat" => q.kind \in {"write", "stream"}
    /\ q.pc \in {"list", "removing"} <=> q.kind = "tree" /\ q.pc \notin {"new", "end"}
    /\ q.pc \in {"open", "chunk", "chunk2", "rename"} => q.kind = "stream"
    /\ q.pc \in {"new", "end", "first", "second", "write", "stat", "find", "delete", "list", "removing",
                 "open", "chunk", "chunk2", "rename"}
    /\ q.kind = "tree" => q.path \in PoolDirs /\ q.left \in SUBSET Within[q.path]
    /\ q.kind = "stream" => q.path = Streamed
    /\ q.kind \in {"read", "write", "delete"} => q.path \in PoolFiles \ {TmpFile}
    /\ q.handle \in {Missing, TmpFile, Streamed}
    /\ q.handle # Missing => q.kind = "stream"
PoolTypes ==
    /\ kept = [p \in PoolPaths |-> kept[p]]
    /\ call = [r \in PoolRequests |-> call[r]]
    /\ poolFaults \in Nat
    /\ \A r \in PoolRequests : CallFits(call[r])

Working(q) == q.pc \notin {"new", "end"}
Streams(q) == Working(q) /\ q.kind = "stream"
\* What a stream has written is in the temporary file, if that is where its handle leads;
\* else there is no temporary file.
StreamFits(q, r, tmp) ==
    q.pc \in {"chunk", "chunk2", "rename"} =>
        \/ q.handle = Missing /\ tmp = Missing
        \/ /\ q.handle = TmpFile
           /\ q.pc = "chunk" => tmp = <<>>
           /\ q.pc = "chunk2" => tmp = <<r>>
           /\ q.pc = "rename" => tmp = Chunks(r)
StreamsAlone ==
    ~mixed =>
        /\ \A r, s \in PoolRequests : Streams(call[r]) /\ Streams(call[s]) => r = s
        /\ \A r \in PoolRequests : StreamFits(call[r], r, kept[TmpFile])

\* Two requests that share a path.
Meet(q, s) == Touched(q.kind, q.path) \cap Touched(s.kind, s.path) # {}
\* A removal that no other request meets, and no call of which has failed, has still to
\* remove all that is there.
TreesAlone ==
    \A r \in PoolRequests :
        Working(call[r]) /\ call[r].kind = "tree" /\ ~call[r].met =>
            /\ \A q \in PoolRequests : q # r /\ Working(call[q]) => ~Meet(call[q], call[r])
            /\ ~call[r].hurt /\ call[r].pc = "removing" =>
                 call[r].left = {p \in Within[call[r].path] : Has(p)}
PoolInv == PoolTypes /\ StreamsAlone /\ StreamedIsWhole /\ TreesAlone

LEMMA TouchedPaths ==
    \A p : /\ Touched("tree", p) = {p} \cup Within[p] /\ Touched("stream", p) = {p, TmpFile}
           /\ Touched("read", p) = {p} /\ Touched("write", p) = {p} /\ Touched("delete", p) = {p}
    BY DEF Touched

LEMMA PoolStarts == Init => PoolInv
<1> SUFFICES ASSUME PoolInit PROVE PoolInv
    BY DEF Init
<1>1. CallFits(NewCall) /\ NewCall.pc = "new"
    BY PoolAssumption DEF NewCall, CallFits, CallFields
<1>2. /\ call = [r \in PoolRequests |-> NewCall] /\ poolFaults = 0
      /\ kept = [p \in PoolPaths |-> kept[p]] /\ kept[Streamed] = Chunks(Initial)
    BY PoolAssumption DEF PoolInit, PoolPaths
<1>3. PoolTypes
    BY <1>1, <1>2 DEF PoolTypes
<1>4. StreamsAlone /\ TreesAlone
    BY <1>1, <1>2 DEF StreamsAlone, TreesAlone, Working, Streams, StreamFits
<1>5. StreamedIsWhole
    BY <1>2 DEF StreamedIsWhole
<1> QED
    BY <1>3, <1>4, <1>5 DEF PoolInv

\* A request begins.
LEMMA PoolBegin == ASSUME PoolInv, NEW r \in PoolRequests, BeginCall(r) PROVE PoolInv'
<1> DEFINE meets(kind, p) == {q \in PoolRequests : Calling(q) /\ Touched(call[q].kind, call[q].path) \cap Touched(kind, p) # {}}
           begun(kind) == CASE kind = "read" -> "first" [] kind = "delete" -> "find" [] kind = "tree" -> "list"
                            [] kind = "stream" -> "open" [] OTHER -> "write"
           mine(kind, p) == [NewCall EXCEPT !.kind = kind, !.path = p, !.met = meets(kind, p) # {}, !.pc = begun(kind)]
<1>1. PICK kind \in {"read", "write", "delete", "tree", "stream"} :
      \E p \in IF kind = "tree" THEN PoolDirs ELSE IF kind = "stream" THEN {Streamed} ELSE PoolFiles \ {TmpFile} :
        /\ call' = [q \in PoolRequests |-> IF q = r THEN mine(kind, p)
                                           ELSE [call[q] EXCEPT !.met = @ \/ q \in meets(kind, p)]]
        /\ mixed' = (mixed \/ (kind = "stream" /\ \E q \in meets(kind, p) : call[q].kind = "stream"))
    BY Zenon DEF BeginCall
<1>2. PICK p \in IF kind = "tree" THEN PoolDirs ELSE IF kind = "stream" THEN {Streamed} ELSE PoolFiles \ {TmpFile} :
        /\ call' = [q \in PoolRequests |-> IF q = r THEN mine(kind, p)
                                           ELSE [call[q] EXCEPT !.met = @ \/ q \in meets(kind, p)]]
        /\ mixed' = (mixed \/ (kind = "stream" /\ \E q \in meets(kind, p) : call[q].kind = "stream"))
    BY <1>1
<1> DEFINE near == meets(kind, p)
           me == mine(kind, p)
<1>3. PoolTypes /\ AtCall(r, "new") /\ UNCHANGED <<kept, poolFaults>>
    BY DEF BeginCall, PoolInv
<1>4. /\ begun(kind) \in {"first", "find", "list", "open", "write"}
      /\ begun(kind) = "first" => kind = "read"
      /\ begun(kind) = "find" => kind = "delete"
      /\ begun(kind) = "list" <=> kind = "tree"
      /\ begun(kind) = "open" <=> kind = "stream"
      /\ begun(kind) = "write" => kind = "write"
    OBVIOUS
<1> HIDE DEF begun
<1>5. /\ me.pc = begun(kind) /\ me.kind = kind /\ me.path = p /\ me.met = (near # {}) /\ me.left = {}
      /\ me.handle = Missing /\ DOMAIN me = CallFields /\ me = [x \in CallFields |-> me[x]]
    BY DEF NewCall, CallFields
<1>6. call' = [q \in PoolRequests |-> IF q = r THEN me ELSE [call[q] EXCEPT !.met = @ \/ q \in near]]
    BY <1>2
<1>7. mixed' = (mixed \/ (kind = "stream" /\ \E q \in near : call[q].kind = "stream"))
    BY <1>2
<1> HIDE DEF mine
<1>8. CallFits(me)
    BY <1>4, <1>5, PoolAssumption DEF CallFits
<1>9. ASSUME NEW q \in PoolRequests, q # r
      PROVE /\ CallFits(call'[q])
            /\ call'[q].pc = call[q].pc /\ call'[q].kind = call[q].kind /\ call'[q].path = call[q].path
            /\ call'[q].left = call[q].left /\ call'[q].handle = call[q].handle /\ call'[q].hurt = call[q].hurt
            /\ ~call'[q].met => ~call[q].met /\ q \notin near
  <2>1. call'[q] = [call[q] EXCEPT !.met = @ \/ q \in near] /\ CallFits(call[q])
      BY <1>3, <1>6, <1>9 DEF PoolTypes
  <2> HIDE DEF meets
  <2> QED
      BY <2>1 DEF CallFits, CallFields
<1>10. call'[r] = me
    BY <1>6
<1>11. PoolTypes'
    BY <1>3, <1>6, <1>8, <1>9, <1>10 DEF PoolTypes
<1> HIDE DEF me
<1>12. \A q \in PoolRequests : q \in near <=> Working(call[q]) /\ Touched(call[q].kind, call[q].path) \cap Touched(kind, p) # {}
    BY DEF Calling, Working
<1> HIDE DEF meets
<1>13. StreamsAlone'
  <2> SUFFICES ASSUME ~mixed'
               PROVE /\ \A s, t \in PoolRequests : Streams(call'[s]) /\ Streams(call'[t]) => s = t
                     /\ \A s \in PoolRequests : StreamFits(call'[s], s, kept'[TmpFile])
      BY DEF StreamsAlone
  <2>1. ~mixed /\ StreamsAlone
      BY <1>7 DEF PoolInv
  <2>2. ASSUME NEW s \in PoolRequests, s # r, Streams(call[s]) PROVE kind # "stream"
    <3>1. call[s].path = Streamed
        BY <1>3, <2>2 DEF PoolTypes, CallFits, Streams
    <3>2. s \notin near \/ kind # "stream"
        BY <1>7, <2>2 DEF Streams
    <3> QED
      <4>1. Working(call[s]) /\ TmpFile \in Touched(call[s].kind, call[s].path)
          BY <2>2, TouchedPaths DEF Streams
      <4>2. kind = "stream" => TmpFile \in Touched(kind, p)
          BY TouchedPaths
      <4>3. kind = "stream" => s \in near
          BY <1>12, <4>1, <4>2
      <4> QED
          BY <3>2, <4>3
  <2>3. \A s, t \in PoolRequests : Streams(call'[s]) /\ Streams(call'[t]) => s = t
      BY <2>1, <2>2, <1>5, <1>9, <1>10 DEF StreamsAlone, Streams, Working
  <2>4. ASSUME NEW s \in PoolRequests PROVE StreamFits(call'[s], s, kept'[TmpFile])
    <3>1. CASE s = r
        BY <3>1, <1>4, <1>5, <1>10 DEF StreamFits
    <3>2. CASE s # r
        BY <3>2, <1>3, <1>9, <2>1 DEF StreamsAlone, StreamFits
    <3> QED
        BY <3>1, <3>2
  <2> QED
      BY <2>3, <2>4
<1>14. TreesAlone'
  <2> SUFFICES ASSUME NEW s \in PoolRequests, Working(call'[s]), call'[s].kind = "tree", ~call'[s].met
               PROVE /\ \A q \in PoolRequests : q # s /\ Working(call'[q]) => ~Meet(call'[q], call'[s])
                     /\ ~call'[s].hurt /\ call'[s].pc = "removing" =>
                          call'[s].left = {x \in Within[call'[s].path] : kept'[x] # Missing}
      BY DEF TreesAlone, Has
  <2>1. ~Working(call[r])
      BY <1>3 DEF AtCall, Working
  <2>2. CASE s = r
    <3>1. near = {}
        BY <2>2, <1>5, <1>10
    <3>2. \A q \in PoolRequests : Working(call[q]) => Touched(call[q].kind, call[q].path) \cap Touched(kind, p) = {}
        BY <3>1, <1>12
    <3>3. \A q \in PoolRequests : q # r /\ Working(call'[q]) => ~Meet(call'[q], call'[r])
        BY <3>2, <1>5, <1>9, <1>10 DEF Meet, Working
    <3> QED
        BY <2>2, <3>3, <1>4, <1>5, <1>10
  <2>3. CASE s # r
    <3>1. s \notin near /\ Working(call[s]) /\ call[s].kind = "tree" /\ ~call[s].met
        BY <2>3, <1>9 DEF Working
    <3>2. /\ \A q \in PoolRequests : q # s /\ Working(call[q]) => ~Meet(call[q], call[s])
          /\ ~call[s].hurt /\ call[s].pc = "removing" => call[s].left = {x \in Within[call[s].path] : kept[x] # Missing}
        BY <3>1 DEF PoolInv, TreesAlone, Has
    <3>3. ~Meet(me, call[s])
        BY <3>1, <1>5, <1>12 DEF Meet
    <3>4. ASSUME NEW q \in PoolRequests, q # s, Working(call'[q]) PROVE ~Meet(call'[q], call'[s])
      <4>1. CASE q = r
          BY <4>1, <3>3, <1>9, <1>10, <2>3 DEF Meet
      <4>2. CASE q # r
          BY <4>2, <3>2, <3>4, <1>9, <2>3 DEF Meet, Working
      <4> QED
          BY <4>1, <4>2
    <3> QED
        BY <3>2, <3>4, <1>3, <1>9, <2>3
  <2> QED
      BY <2>2, <2>3
<1>15. StreamedIsWhole'
    BY <1>3, <1>7 DEF PoolInv, StreamedIsWhole
<1> QED
    BY <1>11, <1>13, <1>14, <1>15 DEF PoolInv

\* What a step of r leaves as it is: the other requests, but for the file a handle leads
\* to; what r is about; and every path that r neither touches nor makes as a parent.
CallFrame(r) ==
    /\ \A q \in PoolRequests \ {r} :
         /\ call'[q].pc = call[q].pc /\ call'[q].kind = call[q].kind /\ call'[q].path = call[q].path
         /\ call'[q].left = call[q].left /\ call'[q].hurt = call[q].hurt /\ call'[q].met = call[q].met
    /\ call'[r].kind = call[r].kind /\ call'[r].path = call[r].path /\ call'[r].met = call[r].met
    /\ call[r].hurt => call'[r].hurt
PathFrame(r) ==
    /\ UNCHANGED mixed /\ Working(call[r])
    /\ \A k \in PoolPaths :
         \/ kept'[k] = kept[k]
         \/ \E p \in Touched(call[r].kind, call[r].path) : k = p \/ k \in Above(p)

\* A step that changes the request itself and the handles of others.
LEMMA CallMoves ==
    ASSUME PoolTypes, NEW r \in PoolRequests, NEW me, NEW others, CallFits(me),
           me.kind = call[r].kind, me.path = call[r].path, me.met = call[r].met, call[r].hurt => me.hurt,
           call' = [others EXCEPT ![r] = me],
           others = [q \in PoolRequests |-> others[q]],
           \A q \in PoolRequests \ {r} :
              \/ others[q] = call[q]
              \/ call[q].handle # Missing /\ others[q] \in {[call[q] EXCEPT !.handle = h] : h \in {Missing, Streamed}},
           kept' = [p \in PoolPaths |-> kept'[p]], poolFaults' \in Nat
    PROVE PoolTypes' /\ CallFrame(r)
<1>1. call'[r] = me
    OBVIOUS
<1>2. ASSUME NEW q \in PoolRequests \ {r}
      PROVE /\ CallFits(call'[q])
            /\ call'[q].pc = call[q].pc /\ call'[q].kind = call[q].kind /\ call'[q].path = call[q].path
            /\ call'[q].left = call[q].left /\ call'[q].hurt = call[q].hurt /\ call'[q].met = call[q].met
  <2>1. CallFits(call[q]) /\ call'[q] = others[q]
      BY DEF PoolTypes
  <2>2. CASE others[q] = call[q]
      BY <2>1, <2>2
  <2>3. CASE \E h \in {Missing, Streamed} : call[q].handle # Missing /\ others[q] = [call[q] EXCEPT !.handle = h]
    <3>1. PICK h \in {Missing, Streamed} : call[q].handle # Missing /\ others[q] = [call[q] EXCEPT !.handle = h]
        BY <2>3
    <3> QED
        BY <2>1, <3>1 DEF CallFits, CallFields
  <2> QED
      BY <2>2, <2>3
<1>3. PoolTypes'
    BY <1>1, <1>2 DEF PoolTypes
<1>4. CallFrame(r)
    BY <1>1, <1>2 DEF CallFrame
<1> QED
    BY <1>3, <1>4

LEMMA OneCallMoves ==
    ASSUME PoolTypes, NEW r \in PoolRequests, NEW me, CallFits(me),
           me.kind = call[r].kind, me.path = call[r].path, me.met = call[r].met, call[r].hurt => me.hurt,
           call' = [call EXCEPT ![r] = me], kept' = [p \in PoolPaths |-> kept'[p]], poolFaults' \in Nat
    PROVE PoolTypes' /\ CallFrame(r)
<1>1. call = [q \in PoolRequests |-> call[q]]
    BY DEF PoolTypes
<1> QED
    BY <1>1, CallMoves

\* The common ways a request goes on.
LEMMA CallGoes ==
    ASSUME PoolTypes, NEW r \in PoolRequests, NEW pc, GoCall(r, pc),
           CallFits([call[r] EXCEPT !.pc = pc]), kept' = [p \in PoolPaths |-> kept'[p]], poolFaults' \in Nat
    PROVE PoolTypes' /\ CallFrame(r) /\ call'[r].pc = pc
<1>1. CallFits(call[r]) /\ call' = [call EXCEPT ![r] = [call[r] EXCEPT !.pc = pc]]
    BY DEF PoolTypes, GoCall
<1>2. LET me == [call[r] EXCEPT !.pc = pc] IN
      /\ me.kind = call[r].kind /\ me.path = call[r].path /\ me.met = call[r].met /\ me.hurt = call[r].hurt
      /\ me.pc = pc
    BY <1>1 DEF CallFits, CallFields
<1>3. call'[r] = [call[r] EXCEPT !.pc = pc]
    BY <1>1 DEF PoolTypes
<1> QED
    BY <1>1, <1>2, <1>3, OneCallMoves
\* How a request ends.
LEMMA CallEnds ==
    ASSUME PoolTypes, NEW r \in PoolRequests, EndCall(r),
           kept' = [p \in PoolPaths |-> kept'[p]], poolFaults' \in Nat
    PROVE PoolTypes' /\ CallFrame(r) /\ call'[r].pc = "end"
<1>1. CallFits(call[r]) /\ call' = [call EXCEPT ![r] = [[call[r] EXCEPT !.pc = "end"] EXCEPT !.ok = TRUE]]
    BY DEF PoolTypes, EndCall
<1>2. LET me == [[call[r] EXCEPT !.pc = "end"] EXCEPT !.ok = TRUE] IN
      /\ me.kind = call[r].kind /\ me.path = call[r].path /\ me.met = call[r].met /\ me.hurt = call[r].hurt
      /\ me.pc = "end" /\ CallFits(me)
    BY <1>1 DEF CallFits, CallFields
<1>3. call'[r] = [[call[r] EXCEPT !.pc = "end"] EXCEPT !.ok = TRUE]
    BY <1>1 DEF PoolTypes
<1> QED
    BY <1>1, <1>2, <1>3, OneCallMoves
LEMMA CallFails ==
    ASSUME PoolTypes, NEW r \in PoolRequests, FailCall(r),
           kept' = [p \in PoolPaths |-> kept'[p]], poolFaults' \in Nat
    PROVE PoolTypes' /\ CallFrame(r) /\ call'[r].pc = "end"
<1>1. CallFits(call[r]) /\ call' = [call EXCEPT ![r] = [[call[r] EXCEPT !.pc = "end"] EXCEPT !.hurt = TRUE]]
    BY DEF PoolTypes, FailCall
<1>2. LET me == [[call[r] EXCEPT !.pc = "end"] EXCEPT !.hurt = TRUE] IN
      /\ me.kind = call[r].kind /\ me.path = call[r].path /\ me.met = call[r].met /\ me.hurt
      /\ me.pc = "end" /\ CallFits(me)
    BY <1>1 DEF CallFits, CallFields
<1>3. call'[r] = [[call[r] EXCEPT !.pc = "end"] EXCEPT !.hurt = TRUE]
    BY <1>1 DEF PoolTypes
<1> QED
    BY <1>1, <1>2, <1>3, OneCallMoves

\* A step of a request that has begun.
Proceeds(r) ==
    \/ ReadFirst(r) \/ ReadSecond(r) \/ WriteWhole(r) \/ StatWritten(r) \/ FindDeleted(r) \/ DeleteFile(r)
    \/ ListTree(r) \/ RemoveEntry(r) \/ OpenTmp(r) \/ WriteChunk(r) \/ RenameTmp(r)

LEMMA ProceedsInFrame ==
    ASSUME PoolTypes, NEW r \in PoolRequests, Proceeds(r) PROVE PoolTypes' /\ CallFrame(r) /\ PathFrame(r)
<1>1. /\ CallFits(call[r]) /\ kept = [p \in PoolPaths |-> kept[p]] /\ poolFaults \in Nat
      /\ call = [q \in PoolRequests |-> call[q]]
    BY DEF PoolTypes
<1>2. UNCHANGED mixed /\ Working(call[r]) /\ poolFaults' \in Nat
  <2>1. UNCHANGED mixed
      BY DEF Proceeds, ReadFirst, ReadSecond, WriteWhole, StatWritten, FindDeleted, DeleteFile, ListTree,
             RemoveEntry, OpenTmp, WriteChunk, RenameTmp
  <2>2. Working(call[r])
      BY DEF Proceeds, ReadFirst, ReadSecond, WriteWhole, StatWritten, FindDeleted, DeleteFile, ListTree,
             RemoveEntry, OpenTmp, WriteChunk, RenameTmp, AtCall, Working
  <2>3. UNCHANGED poolFaults \/ poolFaults' = poolFaults + 1
      BY Zenon DEF Proceeds, ReadFirst, ReadSecond, WriteWhole, StatWritten, FindDeleted, DeleteFile, ListTree,
             RemoveEntry, OpenTmp, WriteChunk, RenameTmp, PoolFault
  <2> QED
      BY <1>1, <2>1, <2>2, <2>3
<1>3. UNCHANGED kept => PathFrame(r) /\ kept' = [p \in PoolPaths |-> kept'[p]]
    BY <1>1, <1>2 DEF PathFrame
<1>4. ASSUME NEW p \in Touched(call[r].kind, call[r].path) \cap PoolPaths, NEW c,
             kept' = Written(p, c) \/ kept' = [kept EXCEPT ![p] = c]
      PROVE PathFrame(r) /\ kept' = [k \in PoolPaths |-> kept'[k]]
  <2>1. kept' = [k \in PoolPaths |-> kept'[k]]
      BY <1>1, <1>4 DEF Written
  <2>2. ASSUME NEW k \in PoolPaths PROVE kept'[k] = kept[k] \/ k = p \/ k \in Above(p)
      BY <1>1, <1>4 DEF Written
  <2>3. \A k \in PoolPaths : \/ kept'[k] = kept[k]
                             \/ \E t \in Touched(call[r].kind, call[r].path) : k = t \/ k \in Above(t)
      BY <2>2
  <2> QED
      BY <1>2, <2>1, <2>3 DEF PathFrame
<1>5. ASSUME UNCHANGED kept, EndCall(r) \/ FailCall(r) PROVE PoolTypes' /\ CallFrame(r) /\ PathFrame(r)
    BY <1>2, <1>3, <1>5, CallEnds, CallFails
<1>6. Streamed \in PoolPaths /\ TmpFile \in PoolPaths
    BY PoolAssumption DEF PoolPaths
<1>7. CASE ReadFirst(r)
  <2>1. UNCHANGED kept
      BY <1>7 DEF ReadFirst
  <2>2. CASE FailCall(r)
      BY <2>1, <2>2, <1>5
  <2>3. CASE call' = [call EXCEPT ![r].first = kept[call[r].path], ![r].pc = "second"]
    <3>1. call' = [call EXCEPT ![r] = [[call[r] EXCEPT !.first = kept[call[r].path]] EXCEPT !.pc = "second"]]
        BY <1>1, <2>3
    <3>2. LET me == [[call[r] EXCEPT !.first = kept[call[r].path]] EXCEPT !.pc = "second"] IN
          /\ me.kind = call[r].kind /\ me.path = call[r].path /\ me.met = call[r].met /\ me.hurt = call[r].hurt
          /\ CallFits(me)
        BY <1>1, <1>7 DEF ReadFirst, AtCall, CallFits, CallFields
    <3> QED
        BY <1>2, <1>3, <2>1, <3>1, <3>2, OneCallMoves
  <2>4. CASE call' = [call EXCEPT ![r].first = Chunks(Backup), ![r].second = Chunks(Backup),
                                  ![r].pc = "end", ![r].ok = TRUE]
    <3> DEFINE me == [[[[call[r] EXCEPT !.first = Chunks(Backup)] EXCEPT !.second = Chunks(Backup)]
                                  EXCEPT !.pc = "end"] EXCEPT !.ok = TRUE]
    <3>1. call' = [call EXCEPT ![r] = me]
        BY <1>1, <2>4
    <3>2. /\ me.kind = call[r].kind /\ me.path = call[r].path /\ me.met = call[r].met /\ me.hurt = call[r].hurt
          /\ CallFits(me)
        BY <1>1 DEF CallFits, CallFields
    <3> QED
        BY <1>2, <1>3, <2>1, <3>1, <3>2, OneCallMoves
  <2> QED
      BY <1>7, <2>2, <2>3, <2>4 DEF ReadFirst
<1>8. CASE ReadSecond(r)
  <2>1. UNCHANGED kept
      BY <1>8 DEF ReadSecond
  <2>2. CASE FailCall(r)
      BY <2>1, <2>2, <1>5
  <2>3. CASE call' = [call EXCEPT ![r].second = kept[call[r].path], ![r].pc = "end", ![r].ok = TRUE]
    <3> DEFINE me == [[[call[r] EXCEPT !.second = kept[call[r].path]] EXCEPT !.pc = "end"] EXCEPT !.ok = TRUE]
    <3>1. call' = [call EXCEPT ![r] = me]
        BY <1>1, <2>3
    <3>2. /\ me.kind = call[r].kind /\ me.path = call[r].path /\ me.met = call[r].met /\ me.hurt = call[r].hurt
          /\ CallFits(me)
        BY <1>1 DEF CallFits, CallFields
    <3> QED
        BY <1>2, <1>3, <2>1, <3>1, <3>2, OneCallMoves
  <2> QED
      BY <1>8, <2>2, <2>3 DEF ReadSecond
<1>9. CASE WriteWhole(r)
  <2>1. CASE FailCall(r) /\ UNCHANGED kept
      BY <2>1, <1>5
  <2>2. CASE kept' = Written(call[r].path, Chunks(r)) /\ GoCall(r, "stat")
    <3>1. call[r].kind = "write" /\ call[r].path \in PoolPaths
        BY <1>1, <1>9 DEF WriteWhole, AtCall, CallFits, PoolPaths
    <3>2. PathFrame(r) /\ kept' = [p \in PoolPaths |-> kept'[p]]
        BY <1>4, <2>2, <3>1, TouchedPaths
    <3>3. CallFits([call[r] EXCEPT !.pc = "stat"])
        BY <1>1, <3>1 DEF CallFits, CallFields
    <3> QED
        BY <1>2, <2>2, <3>2, <3>3, CallGoes
  <2> QED
      BY <1>9, <2>1, <2>2 DEF WriteWhole
<1>10. CASE StatWritten(r)
    BY <1>10, <1>5 DEF StatWritten
<1>11. CASE FindDeleted(r)
  <2>1. UNCHANGED kept
      BY <1>11 DEF FindDeleted
  <2>2. CASE GoCall(r, "delete")
    <3>1. CallFits([call[r] EXCEPT !.pc = "delete"])
        BY <1>1, <1>11 DEF FindDeleted, AtCall, CallFits, CallFields
    <3> QED
        BY <1>2, <1>3, <2>1, <2>2, <3>1, CallGoes
  <2> QED
      BY <1>11, <1>5, <2>1, <2>2 DEF FindDeleted
<1>12. ASSUME NEW p, NEW me, CallFits(me), me.kind = call[r].kind, me.path = call[r].path, me.met = call[r].met,
              call[r].hurt => me.hurt, call' = [Follow(p, Missing) EXCEPT ![r] = me],
              kept' = [k \in PoolPaths |-> kept'[k]], p # Missing
       PROVE PoolTypes' /\ CallFrame(r)
  <2>1. Follow(p, Missing) = [q \in PoolRequests |-> Follow(p, Missing)[q]]
      BY DEF Follow
  <2>2. ASSUME NEW q \in PoolRequests \ {r}
        PROVE \/ Follow(p, Missing)[q] = call[q]
              \/ /\ call[q].handle # Missing
                 /\ Follow(p, Missing)[q] \in {[call[q] EXCEPT !.handle = h] : h \in {Missing, Streamed}}
      BY <1>12 DEF Follow
  <2> QED
      BY <1>2, <1>12, <2>1, <2>2, CallMoves
<1>13. Missing \notin PoolPaths /\ Missing \notin PoolFiles /\ Missing \notin PoolDirs
    BY PoolAssumption DEF PoolPaths
<1>14. CASE DeleteFile(r)
  <2>1. CASE FailCall(r) /\ UNCHANGED kept
      BY <2>1, <1>5
  <2>2. CASE /\ kept' = [kept EXCEPT ![call[r].path] = Missing]
             /\ call' = [Follow(call[r].path, Missing) EXCEPT ![r].pc = "end", ![r].ok = TRUE]
    <3>1. call[r].kind = "delete" /\ call[r].path \in PoolPaths /\ call[r].handle = Missing /\ call[r].path # Missing
        BY <1>1, <1>13, <1>14 DEF DeleteFile, AtCall, CallFits, PoolPaths
    <3>2. PathFrame(r) /\ kept' = [p \in PoolPaths |-> kept'[p]]
        BY <1>4, <2>2, <3>1, TouchedPaths
    <3> DEFINE me == [[call[r] EXCEPT !.pc = "end"] EXCEPT !.ok = TRUE]
    <3>3. Follow(call[r].path, Missing)[r] = call[r]
        BY <3>1 DEF Follow
    <3>4. call' = [Follow(call[r].path, Missing) EXCEPT ![r] = me]
        BY <2>2, <3>3 DEF Follow
    <3>5. /\ me.kind = call[r].kind /\ me.path = call[r].path /\ me.met = call[r].met /\ me.hurt = call[r].hurt
          /\ CallFits(me)
        BY <1>1 DEF CallFits, CallFields
    <3> HIDE DEF me
    <3> QED
        BY <1>12, <3>1, <3>2, <3>4, <3>5
  <2> QED
      BY <1>14, <2>1, <2>2 DEF DeleteFile
<1>15. CASE ListTree(r)
  <2>1. UNCHANGED kept /\ call[r].kind = "tree" /\ call[r].pc = "list"
      BY <1>1, <1>15 DEF ListTree, AtCall, CallFits
  <2>2. CASE call' = [call EXCEPT ![r].pc = "removing", ![r].left = {p \in Within[call[r].path] : Has(p)}]
    <3> DEFINE me == [[call[r] EXCEPT !.pc = "removing"] EXCEPT !.left = {p \in Within[call[r].path] : Has(p)}]
    <3>1. call' = [call EXCEPT ![r] = me]
        BY <1>1, <2>2
    <3>2. /\ me.kind = call[r].kind /\ me.path = call[r].path /\ me.met = call[r].met /\ me.hurt = call[r].hurt
          /\ CallFits(me)
        BY <1>1, <2>1 DEF CallFits, CallFields
    <3> HIDE DEF me
    <3> QED
        BY <1>2, <1>3, <2>1, <3>1, <3>2, OneCallMoves
  <2>3. CASE call' = [call EXCEPT ![r].pc = "removing", ![r].hurt = TRUE, ![r].left = Within[call[r].path] \cap InBackup]
    <3> DEFINE me == [[[call[r] EXCEPT !.pc = "removing"] EXCEPT !.hurt = TRUE]
                          EXCEPT !.left = Within[call[r].path] \cap InBackup]
    <3>1. call' = [call EXCEPT ![r] = me]
        BY <1>1, <2>3
    <3>2. /\ me.kind = call[r].kind /\ me.path = call[r].path /\ me.met = call[r].met /\ me.hurt
          /\ CallFits(me)
        BY <1>1, <2>1 DEF CallFits, CallFields
    <3> HIDE DEF me
    <3> QED
        BY <1>2, <1>3, <2>1, <3>1, <3>2, OneCallMoves
  <2> QED
      BY <1>15, <2>2, <2>3 DEF ListTree
<1>16. CASE RemoveEntry(r)
  <2>1. call[r].kind = "tree" /\ call[r].pc = "removing" /\ call[r].handle = Missing
        /\ call[r].path \in PoolDirs /\ call[r].left \in SUBSET Within[call[r].path]
      BY <1>1, <1>16 DEF RemoveEntry, AtCall, CallFits
  <2>2. CASE FailCall(r) /\ UNCHANGED kept
      BY <2>2, <1>5
  <2>3. CASE \E p \in {call[r].path} \cup call[r].left :
               /\ kept' = [kept EXCEPT ![p] = Missing]
               /\ call' = [Follow(p, Missing) EXCEPT ![r].left = @ \ {p}, ![r].ok = (call[r].left = {}),
                              ![r].pc = IF call[r].left = {} THEN "end" ELSE "removing"]
    <3>1. PICK p \in {call[r].path} \cup call[r].left :
               /\ kept' = [kept EXCEPT ![p] = Missing]
               /\ call' = [Follow(p, Missing) EXCEPT ![r].left = @ \ {p}, ![r].ok = (call[r].left = {}),
                              ![r].pc = IF call[r].left = {} THEN "end" ELSE "removing"]
        BY <2>3
    <3>2. p \in Touched(call[r].kind, call[r].path) \cap PoolPaths /\ p # Missing
      <4>1. Within[call[r].path] \in SUBSET PoolPaths /\ call[r].path \in PoolPaths
          BY <2>1, PoolAssumption DEF PoolPaths
      <4>2. p \in {call[r].path} \cup Within[call[r].path] /\ p \in PoolPaths
          BY <2>1, <4>1
      <4> QED
          BY <1>13, <2>1, <4>2, TouchedPaths
    <3>3. PathFrame(r) /\ kept' = [k \in PoolPaths |-> kept'[k]]
        BY <1>4, <3>1, <3>2
    <3> DEFINE me == [[[call[r] EXCEPT !.left = call[r].left \ {p}] EXCEPT !.ok = (call[r].left = {})]
                          EXCEPT !.pc = IF call[r].left = {} THEN "end" ELSE "removing"]
    <3>4. Follow(p, Missing)[r] = call[r]
        BY <2>1, <3>2 DEF Follow
    <3>5. call' = [Follow(p, Missing) EXCEPT ![r] = me]
      <4>1. CallFits(Follow(p, Missing)[r]) /\ Follow(p, Missing) = [q \in PoolRequests |-> Follow(p, Missing)[q]]
          BY <1>1, <3>4 DEF Follow
      <4> QED
          BY <3>1, <3>4, <4>1 DEF CallFits, CallFields
    <3>6. /\ me.kind = call[r].kind /\ me.path = call[r].path /\ me.met = call[r].met /\ me.hurt = call[r].hurt
          /\ CallFits(me)
        BY <1>1, <2>1 DEF CallFits, CallFields
    <3> HIDE DEF me
    <3> QED
        BY <1>12, <3>2, <3>3, <3>5, <3>6
  <2>4. Longest(call[r].left) \in SUBSET call[r].left
      BY DEF Longest
  <2> QED
      BY <1>16, <2>2, <2>3, <2>4 DEF RemoveEntry
<1>17. CASE OpenTmp(r)
  <2>1. call[r].kind = "stream" /\ call[r].path = Streamed /\ kept' = Written(TmpFile, <<>>)
      BY <1>1, <1>17 DEF OpenTmp, AtCall, CallFits
  <2>2. PathFrame(r) /\ kept' = [k \in PoolPaths |-> kept'[k]]
      BY <1>4, <1>6, <2>1, TouchedPaths
  <2> DEFINE me == [[call[r] EXCEPT !.handle = TmpFile] EXCEPT !.pc = "chunk"]
  <2>3. call' = [call EXCEPT ![r] = me]
      BY <1>1, <1>17 DEF OpenTmp
  <2>4. /\ me.kind = call[r].kind /\ me.path = call[r].path /\ me.met = call[r].met /\ me.hurt = call[r].hurt
        /\ CallFits(me)
      BY <1>1, <2>1 DEF CallFits, CallFields
  <2> HIDE DEF me
  <2> QED
      BY <1>2, <2>2, <2>3, <2>4, OneCallMoves
<1>18. CASE WriteChunk(r)
  <2>1. call[r].kind = "stream" /\ call[r].path = Streamed /\ call[r].handle \in {Missing, TmpFile, Streamed}
      BY <1>1, <1>18 DEF WriteChunk, AtCall, CallFits
  <2>2. CASE FailCall(r) /\ UNCHANGED kept
      BY <2>2, <1>5
  <2>3. CASE GoCall(r, "chunk2") \/ GoCall(r, "rename")
    <3>1. UNCHANGED kept \/ (call[r].handle # Missing /\ \E c : kept' = [kept EXCEPT ![call[r].handle] = c])
      <4>1. \/ UNCHANGED kept
            \/ \E c : kept' = IF call[r].handle = Missing THEN kept ELSE [kept EXCEPT ![call[r].handle] = c]
          BY <1>18, Zenon DEF WriteChunk
      <4>2. CASE call[r].handle = Missing
          BY <4>1, <4>2
      <4>3. CASE call[r].handle # Missing
          BY <4>1, <4>3, Zenon
      <4> QED
          BY <4>2, <4>3
    <3>2. call[r].handle # Missing => call[r].handle \in Touched(call[r].kind, call[r].path) \cap PoolPaths
        BY <1>6, <2>1, TouchedPaths
    <3>3. PathFrame(r) /\ kept' = [k \in PoolPaths |-> kept'[k]]
        BY <1>3, <1>4, <3>1, <3>2
    <3>4. CallFits([call[r] EXCEPT !.pc = "chunk2"]) /\ CallFits([call[r] EXCEPT !.pc = "rename"])
        BY <1>1, <2>1 DEF CallFits, CallFields
    <3> QED
        BY <1>2, <2>3, <3>3, <3>4, CallGoes
  <2> QED
      BY <1>18, <2>2, <2>3 DEF WriteChunk
<1>19. CASE RenameTmp(r)
  <2>1. call[r].kind = "stream" /\ call[r].path = Streamed
      BY <1>1, <1>19 DEF RenameTmp, AtCall, CallFits
  <2>2. CASE FailCall(r) /\ UNCHANGED kept
      BY <2>2, <1>5
  <2> DEFINE others == [q \in PoolRequests |->
               [call[q] EXCEPT !.handle = IF @ = TmpFile THEN Streamed ELSE IF @ = Streamed THEN Missing ELSE @]]
             me == [[call[r] EXCEPT !.pc = "stat"] EXCEPT !.handle = Missing]
  <2>3. CASE /\ kept' = [Written(Streamed, kept[TmpFile]) EXCEPT ![TmpFile] = Missing]
             /\ call' = [q \in PoolRequests |->
                   IF q = r THEN [call[q] EXCEPT !.pc = "stat", !.handle = Missing]
                   ELSE [call[q] EXCEPT !.handle = IF @ = TmpFile THEN Streamed
                                                   ELSE IF @ = Streamed THEN Missing ELSE @]]
    <3>1. kept' = [k \in PoolPaths |-> kept'[k]]
        BY <2>3 DEF Written
    <3>2. ASSUME NEW k \in PoolPaths
          PROVE kept'[k] = kept[k] \/ k = TmpFile \/ k = Streamed \/ k \in Above(Streamed)
        BY <2>3 DEF Written
    <3>3. PathFrame(r)
      <4>1. Streamed \in Touched(call[r].kind, call[r].path) /\ TmpFile \in Touched(call[r].kind, call[r].path)
          BY <2>1, TouchedPaths
      <4> QED
          BY <1>2, <3>2, <4>1 DEF PathFrame
    <3>4. call' = [others EXCEPT ![r] = me]
        BY <1>1, <2>3
    <3>5. /\ me.kind = call[r].kind /\ me.path = call[r].path /\ me.met = call[r].met /\ me.hurt = call[r].hurt
          /\ CallFits(me)
        BY <1>1, <2>1 DEF CallFits, CallFields
    <3>6. ASSUME NEW q \in PoolRequests \ {r}
          PROVE \/ others[q] = call[q]
                \/ /\ call[q].handle # Missing
                   /\ others[q] \in {[call[q] EXCEPT !.handle = h] : h \in {Missing, Streamed}}
      <4>1. CallFits(call[q])
          BY DEF PoolTypes
      <4>2. CASE call[q].handle \in {TmpFile, Streamed}
          BY <1>6, <1>13, <4>2 DEF PoolPaths
      <4>3. CASE call[q].handle = Missing
          BY <1>6, <1>13, <4>1, <4>3 DEF CallFits
      <4> QED
          BY <4>1, <4>2, <4>3 DEF CallFits
    <3> HIDE DEF me, others
    <3>7. others = [q \in PoolRequests |-> others[q]]
        BY DEF others
    <3> QED
        BY <1>2, <3>1, <3>3, <3>4, <3>5, <3>6, <3>7, CallMoves
  <2> QED
      BY <1>19, <2>2, <2>3 DEF RenameTmp
<1> QED
    BY <1>7, <1>8, <1>9, <1>10, <1>11, <1>14, <1>15, <1>16, <1>17, <1>18, <1>19 DEF Proceeds

\* What a request that shares no path with r changes is not below r's directory.
LEMMA ApartFromTrees ==
    ASSUME PoolTypes, NEW r \in PoolRequests, NEW s \in PoolRequests, PathFrame(r),
           call[s].kind = "tree", ~Meet(call[r], call[s])
    PROVE \A k \in Within[call[s].path] : kept'[k] = kept[k]
<1>1. call[s].path \in PoolDirs
    BY DEF PoolTypes, CallFits
<1>2. Touched(call[s].kind, call[s].path) = {call[s].path} \cup Within[call[s].path]
    BY TouchedPaths
<1> SUFFICES ASSUME NEW k \in Within[call[s].path], kept'[k] # kept[k] PROVE FALSE
    OBVIOUS
<1>3. k \in PoolPaths
    BY <1>1, PoolAssumption DEF PoolPaths
<1>4. PICK p \in Touched(call[r].kind, call[r].path) : k = p \/ k \in Above(p)
    BY <1>3 DEF PathFrame
<1>5. p \in Within[call[s].path]
  <2>1. CASE k \in Above(p)
    <3>1. k \in PoolDirs /\ p \in Within[k]
        BY <2>1 DEF Above
    <3> QED
        BY <1>1, <3>1, PoolAssumption
  <2> QED
      BY <1>4, <2>1
<1> QED
    BY <1>2, <1>4, <1>5 DEF Meet

\* A removal which lists, and one which removes.
LEMMA TreeLists ==
    ASSUME PoolTypes, NEW r \in PoolRequests, ListTree(r)
    PROVE /\ UNCHANGED kept /\ call'[r].pc = "removing"
          /\ \/ call'[r].hurt
             \/ call'[r].left = {p \in Within[call[r].path] : Has(p)}
<1>1. CallFits(call[r]) /\ call = [q \in PoolRequests |-> call[q]] /\ UNCHANGED kept
    BY DEF PoolTypes, ListTree
<1>2. CASE call' = [call EXCEPT ![r].pc = "removing", ![r].left = {p \in Within[call[r].path] : Has(p)}]
  <2>1. call'[r] = [[call[r] EXCEPT !.pc = "removing"] EXCEPT !.left = {p \in Within[call[r].path] : Has(p)}]
      BY <1>1, <1>2
  <2> QED
      BY <1>1, <2>1 DEF CallFits, CallFields
<1>3. CASE call' = [call EXCEPT ![r].pc = "removing", ![r].hurt = TRUE, ![r].left = Within[call[r].path] \cap InBackup]
  <2>1. call'[r] = [[[call[r] EXCEPT !.pc = "removing"] EXCEPT !.hurt = TRUE]
                                     EXCEPT !.left = Within[call[r].path] \cap InBackup]
      BY <1>1, <1>3
  <2> QED
      BY <1>1, <2>1 DEF CallFits, CallFields
<1> QED
    BY <1>2, <1>3 DEF ListTree
LEMMA TreeRemoves ==
    ASSUME PoolTypes, NEW r \in PoolRequests, RemoveEntry(r)
    PROVE \E p \in IF call[r].left = {} THEN {call[r].path} ELSE Longest(call[r].left) :
            LET full == p \in PoolDirs /\ \E k \in Within[p] : Has(k) IN
            \/ /\ ~full /\ kept' = [kept EXCEPT ![p] = Missing]
               /\ call'[r].left = call[r].left \ {p} /\ call'[r].hurt = call[r].hurt
               /\ call'[r].ok = (call[r].left = {})
               /\ call[r].left # {} => call'[r].pc = "removing"
            \/ UNCHANGED kept /\ call'[r].pc = "end" /\ (full \/ poolFaults' = poolFaults + 1)
<1>1. CallFits(call[r]) /\ call = [q \in PoolRequests |-> call[q]]
    BY DEF PoolTypes
<1>2. PICK p \in IF call[r].left = {} THEN {call[r].path} ELSE Longest(call[r].left) :
         \/ /\ ~(p \in PoolDirs /\ \E k \in Within[p] : Has(k))
            /\ kept' = [kept EXCEPT ![p] = Missing]
            /\ call' = [Follow(p, Missing) EXCEPT
                 ![r].left = @ \ {p}, ![r].ok = (call[r].left = {}),
                 ![r].pc = IF call[r].left = {} THEN "end" ELSE "removing"]
         \/ /\ FailCall(r) /\ UNCHANGED kept
            /\ ((p \in PoolDirs /\ \E k \in Within[p] : Has(k)) \/ PoolFault)
    BY Zenon DEF RemoveEntry
<1>3. ASSUME FailCall(r) PROVE call'[r].pc = "end"
  <2>1. call'[r] = [[call[r] EXCEPT !.pc = "end"] EXCEPT !.hurt = TRUE]
      BY <1>1, <1>3 DEF FailCall
  <2> QED
      BY <1>1, <2>1 DEF CallFits, CallFields
<1>4. ASSUME call' = [Follow(p, Missing) EXCEPT
                 ![r].left = @ \ {p}, ![r].ok = (call[r].left = {}),
                 ![r].pc = IF call[r].left = {} THEN "end" ELSE "removing"]
      PROVE /\ call'[r].left = call[r].left \ {p} /\ call'[r].hurt = call[r].hurt
            /\ call'[r].ok = (call[r].left = {})
            /\ call[r].left # {} => call'[r].pc = "removing"
  <2> DEFINE x == Follow(p, Missing)[r]
  <2>1. DOMAIN x = CallFields /\ x.left = call[r].left /\ x.hurt = call[r].hurt
      BY <1>1 DEF Follow, CallFits, CallFields
  <2>2. Follow(p, Missing) = [q \in PoolRequests |-> Follow(p, Missing)[q]]
      BY DEF Follow
  <2>3. call'[r] = [[[x EXCEPT !.left = x.left \ {p}] EXCEPT !.ok = (call[r].left = {})]
                        EXCEPT !.pc = IF call[r].left = {} THEN "end" ELSE "removing"]
      BY <1>4, <2>1, <2>2 DEF CallFields
  <2> HIDE DEF x
  <2> QED
      BY <2>1, <2>3 DEF CallFields
<1>5. CASE /\ ~(p \in PoolDirs /\ \E k \in Within[p] : Has(k))
           /\ kept' = [kept EXCEPT ![p] = Missing]
           /\ call' = [Follow(p, Missing) EXCEPT
                 ![r].left = @ \ {p}, ![r].ok = (call[r].left = {}),
                 ![r].pc = IF call[r].left = {} THEN "end" ELSE "removing"]
    BY <1>4, <1>5
<1>6. CASE /\ FailCall(r) /\ UNCHANGED kept
           /\ ((p \in PoolDirs /\ \E k \in Within[p] : Has(k)) \/ PoolFault)
    BY <1>3, <1>6 DEF PoolFault
<1> QED
    BY <1>2, <1>5, <1>6

\* The step of a request leaves the others' trees alone, and its own as it should be.
LEMMA TreesStayAlone == ASSUME PoolInv, NEW r \in PoolRequests, Proceeds(r) PROVE TreesAlone'
<1>1. PoolTypes /\ PoolTypes' /\ CallFrame(r) /\ PathFrame(r) /\ TreesAlone
    BY ProceedsInFrame DEF PoolInv
<1> SUFFICES ASSUME NEW s \in PoolRequests, Working(call'[s]), call'[s].kind = "tree", ~call'[s].met
             PROVE /\ \A q \in PoolRequests : q # s /\ Working(call'[q]) => ~Meet(call'[q], call'[s])
                   /\ ~call'[s].hurt /\ call'[s].pc = "removing" =>
                        call'[s].left = {p \in Within[call'[s].path] : kept'[p] # Missing}
    BY DEF TreesAlone, Has
<1>2. \A q \in PoolRequests : /\ Working(call'[q]) => Working(call[q])
                              /\ call'[q].kind = call[q].kind /\ call'[q].path = call[q].path
                              /\ call'[q].met = call[q].met
    BY <1>1 DEF CallFrame, PathFrame, Working
<1>3. Working(call[s]) /\ call[s].kind = "tree" /\ ~call[s].met
    BY <1>2
<1>4. /\ \A q \in PoolRequests : q # s /\ Working(call[q]) => ~Meet(call[q], call[s])
      /\ ~call[s].hurt /\ call[s].pc = "removing" => call[s].left = {p \in Within[call[s].path] : kept[p] # Missing}
    BY <1>1, <1>3 DEF TreesAlone, Has
<1>5. \A q \in PoolRequests : q # s /\ Working(call'[q]) => ~Meet(call'[q], call'[s])
    BY <1>2, <1>4 DEF Meet
<1>6. ASSUME ~call'[s].hurt, call'[s].pc = "removing"
      PROVE call'[s].left = {p \in Within[call'[s].path] : kept'[p] # Missing}
  <2>1. CASE s # r
    <3>1. call'[s].left = call[s].left /\ ~call[s].hurt /\ call[s].pc = "removing"
        BY <1>1, <1>6, <2>1 DEF CallFrame
    <3>2. \A k \in Within[call[s].path] : kept'[k] = kept[k]
        BY <1>1, <1>3, <1>4, <2>1, ApartFromTrees DEF PathFrame
    <3> QED
        BY <1>2, <1>4, <3>1, <3>2
  <2>2. CASE s = r
    <3>1. ListTree(r) \/ RemoveEntry(r)
      <4>1. call[r].pc \in {"list", "removing"}
          BY <1>1, <1>3, <2>2 DEF PoolTypes, CallFits, Working
      <4> QED
          BY <4>1 DEF Proceeds, ReadFirst, ReadSecond, WriteWhole, StatWritten, FindDeleted, DeleteFile,
                      OpenTmp, WriteChunk, RenameTmp, AtCall
    <3>2. CASE ListTree(r)
        BY <1>1, <1>2, <1>6, <2>2, <3>2, TreeLists DEF Has
    <3>3. CASE RemoveEntry(r)
      <4>1. PICK p \in IF call[r].left = {} THEN {call[r].path} ELSE Longest(call[r].left) :
              \/ /\ kept' = [kept EXCEPT ![p] = Missing]
                 /\ call'[r].left = call[r].left \ {p} /\ call'[r].hurt = call[r].hurt
                 /\ call[r].left # {} => call'[r].pc = "removing"
              \/ call'[r].pc = "end"
          BY <1>1, <3>3, TreeRemoves
      <4>2. /\ kept' = [kept EXCEPT ![p] = Missing] /\ call'[r].left = call[r].left \ {p}
            /\ call'[r].hurt = call[r].hurt
          BY <1>6, <2>2, <4>1
      <4>3. call[r].pc = "removing"
          BY <3>3 DEF RemoveEntry, AtCall
      <4>4. call[r].left = {k \in Within[call[r].path] : kept[k] # Missing}
          BY <1>4, <1>6, <2>2, <4>2, <4>3
      <4>5. /\ kept = [k \in PoolPaths |-> kept[k]]
            /\ Within[call[r].path] \in SUBSET PoolPaths
          BY <1>1, <1>3, <2>2, PoolAssumption DEF PoolTypes, CallFits, PoolPaths
      <4> QED
          BY <1>2, <2>2, <4>2, <4>4, <4>5
    <3> QED
        BY <3>1, <3>2, <3>3
  <2> QED
      BY <2>1, <2>2
<1> QED
    BY <1>5, <1>6

\* No step of a request leaves a part of a stream where the file is.
LEMMA StreamsStayWhole ==
    ASSUME PoolInv, NEW r \in PoolRequests, Proceeds(r) PROVE StreamsAlone' /\ StreamedIsWhole'
<1>1. PoolTypes /\ PoolTypes' /\ CallFrame(r) /\ PathFrame(r) /\ StreamsAlone /\ StreamedIsWhole
    BY ProceedsInFrame DEF PoolInv
<1> SUFFICES ASSUME ~mixed
             PROVE /\ \A s \in PoolRequests : StreamFits(call'[s], s, kept'[TmpFile])
                   /\ kept'[Streamed] = kept[Streamed] \/ kept'[Streamed] = Missing \/ kept'[Streamed] = Chunks(r)
  <2>1. mixed' = mixed
      BY <1>1 DEF PathFrame
  <2>2. \A s, t \in PoolRequests : Streams(call'[s]) /\ Streams(call'[t]) => Streams(call[s]) /\ Streams(call[t])
      BY <1>1 DEF CallFrame, PathFrame, Streams, Working
  <2>3. ~mixed => \A s, t \in PoolRequests : Streams(call'[s]) /\ Streams(call'[t]) => s = t
      BY <1>1, <2>2 DEF StreamsAlone
  <2> SUFFICES ASSUME ~mixed'
               PROVE /\ \A s \in PoolRequests : StreamFits(call'[s], s, kept'[TmpFile])
                     /\ \/ kept'[Streamed] = Missing
                        \/ \E w \in PoolRequests \cup {Initial} : kept'[Streamed] = Chunks(w)
      BY <2>1, <2>3 DEF StreamsAlone, StreamedIsWhole
  <2> QED
      BY <1>1, <2>1 DEF StreamedIsWhole
<1>2. /\ kept = [p \in PoolPaths |-> kept[p]] /\ call = [q \in PoolRequests |-> call[q]]
      /\ \A q \in PoolRequests : CallFits(call[q]) /\ CallFits(call'[q]) /\ StreamFits(call[q], q, kept[TmpFile])
    BY <1>1 DEF PoolTypes, StreamsAlone
<1>3. /\ Streamed \in PoolPaths /\ TmpFile \in PoolPaths /\ Streamed # TmpFile /\ Missing \notin PoolPaths
      /\ Streamed \notin PoolDirs /\ TmpFile \notin PoolDirs
    BY PoolAssumption DEF PoolPaths
<1>4. \A p, c : kept' = Written(p, c) => /\ kept'[Streamed] = (IF Streamed = p THEN c ELSE kept[Streamed])
                                         /\ kept'[TmpFile] = (IF TmpFile = p THEN c ELSE kept[TmpFile])
    BY <1>3 DEF Written, Above
\* Steps of what is no stream
<1>5. ASSUME call[r].kind # "stream" PROVE StreamFits(call'[r], r, kept'[TmpFile])
    BY <1>1, <1>2, <1>5 DEF CallFrame, CallFits, StreamFits
<1>6. ASSUME call[r].kind # "stream", \A s \in PoolRequests \ {r} : call'[s].handle = call[s].handle,
             kept'[TmpFile] = kept[TmpFile]
      PROVE \A s \in PoolRequests : StreamFits(call'[s], s, kept'[TmpFile])
    BY <1>1, <1>2, <1>5, <1>6 DEF CallFrame, StreamFits
\* Steps of a stream: there is no other.
<1>7. ASSUME call[r].kind = "stream", NEW s \in PoolRequests \ {r} PROVE StreamFits(call'[s], s, kept'[TmpFile])
  <2>1. ~Streams(call[s])
      BY <1>1, <1>7 DEF PathFrame, StreamsAlone, Streams
  <2>2. call[s].pc \notin {"chunk", "chunk2", "rename"}
      BY <1>2, <2>1 DEF CallFits, Streams, Working
  <2> QED
      BY <1>1, <2>2 DEF CallFrame, StreamFits
<1>8. ASSUME FailCall(r), UNCHANGED kept
      PROVE /\ \A s \in PoolRequests : StreamFits(call'[s], s, kept'[TmpFile])
            /\ kept'[Streamed] = kept[Streamed]
  <2>1. call'[r] = [[call[r] EXCEPT !.pc = "end"] EXCEPT !.hurt = TRUE]
        /\ \A s \in PoolRequests \ {r} : call'[s] = call[s]
      BY <1>2, <1>8 DEF FailCall
  <2>2. call'[r].pc = "end"
      BY <1>2, <2>1 DEF CallFits, CallFields
  <2> QED
      BY <1>2, <1>8, <2>1, <2>2 DEF StreamFits
<1>9. CASE ReadFirst(r) \/ ReadSecond(r) \/ StatWritten(r) \/ FindDeleted(r) \/ ListTree(r)
  <2>1. UNCHANGED kept
      BY <1>9 DEF ReadFirst, ReadSecond, StatWritten, FindDeleted, ListTree
  <2>2. call[r].pc \in {"first", "second", "stat", "find", "list"}
      BY <1>9 DEF ReadFirst, ReadSecond, StatWritten, FindDeleted, ListTree, AtCall
  <2>3. \A s \in PoolRequests \ {r} : call'[s] = call[s]
      BY <1>2, <1>9 DEF ReadFirst, ReadSecond, StatWritten, FindDeleted, ListTree, EndCall, FailCall, GoCall
  <2>4. CASE call[r].kind # "stream"
      BY <1>6, <2>1, <2>3, <2>4
  <2>5. CASE call[r].kind = "stream"
    <3>1. StatWritten(r)
        BY <1>2, <1>9, <2>2, <2>5 DEF CallFits, ReadFirst, ReadSecond, FindDeleted, ListTree, AtCall
    <3>2. call'[r].pc = "end"
        BY <1>1, <2>1, <3>1, CallEnds, CallFails DEF StatWritten, PoolTypes
    <3> QED
        BY <1>7, <2>1, <2>5, <3>2 DEF StreamFits
  <2> QED
      BY <2>4, <2>5
<1>10. CASE WriteWhole(r)
  <2>1. call[r].kind = "write" /\ call[r].path # TmpFile
      BY <1>2, <1>10 DEF WriteWhole, AtCall, CallFits
  <2>2. CASE FailCall(r) /\ UNCHANGED kept
      BY <1>8, <2>2
  <2>3. CASE kept' = Written(call[r].path, Chunks(r)) /\ GoCall(r, "stat")
    <3>1. \A s \in PoolRequests \ {r} : call'[s] = call[s]
        BY <1>2, <2>3 DEF GoCall
    <3> QED
        BY <1>4, <1>6, <2>1, <2>3, <3>1
  <2> QED
      BY <1>10, <2>2, <2>3 DEF WriteWhole
<1>11. CASE DeleteFile(r)
  <2>1. call[r].kind = "delete" /\ call[r].path # TmpFile /\ call[r].path \in PoolFiles
      BY <1>2, <1>11 DEF DeleteFile, AtCall, CallFits
  <2>2. CASE FailCall(r) /\ UNCHANGED kept
      BY <1>8, <2>2
  <2>3. CASE /\ kept' = [kept EXCEPT ![call[r].path] = Missing]
             /\ call' = [Follow(call[r].path, Missing) EXCEPT ![r].pc = "end", ![r].ok = TRUE]
    <3>1. kept'[TmpFile] = kept[TmpFile] /\ (kept'[Streamed] = kept[Streamed] \/ kept'[Streamed] = Missing)
        BY <1>2, <1>3, <2>1, <2>3
    <3>2. ASSUME NEW s \in PoolRequests \ {r} PROVE StreamFits(call'[s], s, kept'[TmpFile])
      <4>1. call'[s] = IF call[s].handle = call[r].path THEN [call[s] EXCEPT !.handle = Missing] ELSE call[s]
          BY <2>3 DEF Follow
      <4>2. CASE call[s].handle # call[r].path
          BY <1>2, <3>1, <4>1, <4>2
      <4>3. CASE call[s].handle = call[r].path
        <5>1. call[s].handle # TmpFile /\ call[s].handle # Missing
            BY <1>3, <2>1, <4>3 DEF PoolPaths
        <5>2. call[s].pc \notin {"chunk", "chunk2", "rename"}
            BY <1>2, <5>1 DEF StreamFits
        <5> QED
            BY <1>1, <5>2 DEF CallFrame, StreamFits
      <4> QED
          BY <4>2, <4>3
    <3> QED
        BY <1>5, <2>1, <3>1, <3>2
  <2> QED
      BY <1>11, <2>2, <2>3 DEF DeleteFile
<1>12. CASE RemoveEntry(r)
  <2>1. call[r].kind = "tree"
      BY <1>2, <1>12 DEF RemoveEntry, AtCall, CallFits
  <2>2. CASE FailCall(r) /\ UNCHANGED kept
      BY <1>8, <2>2
  <2>3. CASE \E p : /\ kept' = [kept EXCEPT ![p] = Missing]
                    /\ \A s \in PoolRequests \ {r} :
                         call'[s] = IF call[s].handle = p THEN [call[s] EXCEPT !.handle = Missing] ELSE call[s]
    <3>1. PICK p : /\ kept' = [kept EXCEPT ![p] = Missing]
                   /\ \A s \in PoolRequests \ {r} :
                         call'[s] = IF call[s].handle = p THEN [call[s] EXCEPT !.handle = Missing] ELSE call[s]
        BY <2>3
    <3>2. /\ kept'[Streamed] = kept[Streamed] \/ kept'[Streamed] = Missing
          /\ kept'[TmpFile] = (IF p = TmpFile THEN Missing ELSE kept[TmpFile])
        BY <1>2, <1>3, <3>1
    <3>3. ASSUME NEW s \in PoolRequests \ {r} PROVE StreamFits(call'[s], s, kept'[TmpFile])
      <4>1. CASE p = TmpFile
        <5>1. call'[s].handle = Missing \/ (call'[s] = call[s] /\ call[s].handle # TmpFile)
            BY <1>2, <3>1, <4>1 DEF CallFits, CallFields
        <5> QED
            BY <1>2, <3>2, <4>1, <5>1 DEF StreamFits
      <4>2. CASE p # TmpFile /\ call[s].handle = p /\ p # Missing
        <5>1. call[s].pc \notin {"chunk", "chunk2", "rename"}
            BY <1>2, <4>2 DEF StreamFits
        <5> QED
            BY <1>1, <5>1 DEF CallFrame, StreamFits
      <4>3. CASE p # TmpFile /\ (call[s].handle # p \/ p = Missing)
        <5>1. call'[s].handle = call[s].handle
          <6>1. DOMAIN call[s] = CallFields
              BY <1>2 DEF CallFits
          <6>2. CASE call[s].handle # p
              BY <3>1, <6>2
          <6>3. CASE call[s].handle = p /\ p = Missing
            <7>1. call'[s] = [call[s] EXCEPT !.handle = Missing]
                BY <3>1, <6>3
            <7> QED
                BY <6>1, <6>3, <7>1 DEF CallFields
          <6> QED
              BY <4>3, <6>2, <6>3
        <5> QED
            BY <1>1, <1>2, <3>2, <4>3, <5>1 DEF CallFrame, StreamFits
      <4> QED
          BY <4>1, <4>2, <4>3
    <3> QED
        BY <1>5, <2>1, <3>2, <3>3
  <2>4. ASSUME NEW p,
               call' = [Follow(p, Missing) EXCEPT ![r].left = @ \ {p}, ![r].ok = (call[r].left = {}),
                              ![r].pc = IF call[r].left = {} THEN "end" ELSE "removing"]
        PROVE \A s \in PoolRequests \ {r} :
                 call'[s] = IF call[s].handle = p THEN [call[s] EXCEPT !.handle = Missing] ELSE call[s]
      BY <2>4 DEF Follow
  <2>5. \/ FailCall(r) /\ UNCHANGED kept
        \/ \E p : /\ kept' = [kept EXCEPT ![p] = Missing]
                  /\ call' = [Follow(p, Missing) EXCEPT ![r].left = @ \ {p}, ![r].ok = (call[r].left = {}),
                              ![r].pc = IF call[r].left = {} THEN "end" ELSE "removing"]
      BY <1>12, Zenon DEF RemoveEntry
  <2>6. ASSUME NEW p, kept' = [kept EXCEPT ![p] = Missing],
               call' = [Follow(p, Missing) EXCEPT ![r].left = @ \ {p}, ![r].ok = (call[r].left = {}),
                              ![r].pc = IF call[r].left = {} THEN "end" ELSE "removing"]
        PROVE \E x : /\ kept' = [kept EXCEPT ![x] = Missing]
                     /\ \A s \in PoolRequests \ {r} :
                          call'[s] = IF call[s].handle = x THEN [call[s] EXCEPT !.handle = Missing] ELSE call[s]
      BY <2>4, <2>6
  <2> QED
      BY <2>2, <2>3, <2>5, <2>6
<1>13. CASE OpenTmp(r)
  <2>1. call[r].kind = "stream" /\ kept' = Written(TmpFile, <<>>)
      BY <1>2, <1>13 DEF OpenTmp, AtCall, CallFits
  <2>2. call'[r] = [[call[r] EXCEPT !.handle = TmpFile] EXCEPT !.pc = "chunk"]
      BY <1>2, <1>13 DEF OpenTmp
  <2>3. call'[r].handle = TmpFile /\ call'[r].pc = "chunk"
      BY <1>2, <2>2 DEF CallFits, CallFields
  <2>4. StreamFits(call'[r], r, kept'[TmpFile])
      BY <1>4, <2>1, <2>3 DEF StreamFits
  <2> QED
      BY <1>3, <1>4, <1>7, <2>1, <2>4
<1>14. CASE WriteChunk(r)
  <2>1. call[r].kind = "stream" /\ call[r].pc \in {"chunk", "chunk2"}
      BY <1>2, <1>14 DEF WriteChunk, AtCall, CallFits
  <2>2. CASE FailCall(r) /\ UNCHANGED kept
      BY <1>8, <2>2
  <2> DEFINE f == call[r].handle
             i == IF call[r].pc = "chunk" THEN 1 ELSE 2
             put == [j \in 1..(IF i > Len(kept[f]) THEN i ELSE Len(kept[f])) |->
                       IF j = i THEN r ELSE IF j <= Len(kept[f]) THEN kept[f][j] ELSE Missing]
  <2>3. CASE /\ kept' = IF f = Missing THEN kept ELSE [kept EXCEPT ![f] = put]
             /\ GoCall(r, IF i = 1 THEN "chunk2" ELSE "rename")
    <3>1. \/ f = Missing /\ kept[TmpFile] = Missing
          \/ f = TmpFile /\ call[r].pc = "chunk" /\ kept[TmpFile] = <<>>
          \/ f = TmpFile /\ call[r].pc = "chunk2" /\ kept[TmpFile] = <<r>>
        BY <1>2, <2>1 DEF StreamFits
    <3>2. call'[r] = [call[r] EXCEPT !.pc = IF i = 1 THEN "chunk2" ELSE "rename"]
        BY <1>2, <2>3 DEF GoCall
    <3>3. /\ call'[r].handle = f
          /\ call[r].pc = "chunk" => call'[r].pc = "chunk2"
          /\ call[r].pc = "chunk2" => call'[r].pc = "rename"
        BY <1>2, <3>2 DEF CallFits, CallFields
    <3>4. CASE f = Missing /\ kept[TmpFile] = Missing
        BY <1>7, <2>1, <2>3, <3>3, <3>4 DEF StreamFits
    <3>5. CASE f = TmpFile /\ call[r].pc = "chunk" /\ kept[TmpFile] = <<>>
      <4>1. put = <<r>>
          BY <3>5
      <4>2. kept'[TmpFile] = <<r>> /\ kept'[Streamed] = kept[Streamed]
          BY <1>2, <1>3, <2>3, <3>5, <4>1
      <4> QED
          BY <1>3, <1>7, <2>1, <3>3, <3>5, <4>2 DEF StreamFits
    <3>6. CASE f = TmpFile /\ call[r].pc = "chunk2" /\ kept[TmpFile] = <<r>>
      <4>1. put = Chunks(r)
          BY <3>6 DEF Chunks
      <4>2. kept'[TmpFile] = Chunks(r) /\ kept'[Streamed] = kept[Streamed]
          BY <1>2, <1>3, <2>3, <3>6, <4>1
      <4> QED
          BY <1>3, <1>7, <2>1, <3>3, <3>6, <4>2 DEF StreamFits
    <3> QED
        BY <3>1, <3>4, <3>5, <3>6
  <2>4. \/ FailCall(r) /\ UNCHANGED kept
        \/ /\ kept' = IF f = Missing THEN kept ELSE [kept EXCEPT ![f] = put]
           /\ GoCall(r, IF i = 1 THEN "chunk2" ELSE "rename")
      BY <1>14, Zenon DEF WriteChunk, AtCall
  <2> QED
      BY <2>2, <2>3, <2>4
<1>15. CASE RenameTmp(r)
  <2>1. call[r].kind = "stream" /\ call[r].pc = "rename"
      BY <1>2, <1>15 DEF RenameTmp, AtCall, CallFits
  <2>2. CASE FailCall(r) /\ UNCHANGED kept
      BY <1>8, <2>2
  <2>3. CASE /\ Has(TmpFile)
             /\ kept' = [Written(Streamed, kept[TmpFile]) EXCEPT ![TmpFile] = Missing]
             /\ call' = [q \in PoolRequests |->
                   IF q = r THEN [call[q] EXCEPT !.pc = "stat", !.handle = Missing]
                   ELSE [call[q] EXCEPT !.handle = IF @ = TmpFile THEN Streamed
                                                   ELSE IF @ = Streamed THEN Missing ELSE @]]
    <3>1. kept[TmpFile] = Chunks(r)
        BY <1>2, <2>1, <2>3 DEF StreamFits, Has
    <3>2. kept'[Streamed] = Chunks(r)
        BY <1>3, <2>3, <3>1 DEF Written
    <3>3. call'[r] = [[call[r] EXCEPT !.pc = "stat"] EXCEPT !.handle = Missing]
        BY <2>3
    <3>4. call'[r].pc = "stat"
        BY <1>2, <3>3 DEF CallFits, CallFields
    <3> QED
        BY <1>7, <2>1, <3>2, <3>4 DEF StreamFits
  <2> QED
      BY <1>15, <2>2, <2>3 DEF RenameTmp
<1> QED
    BY <1>9, <1>10, <1>11, <1>12, <1>13, <1>14, <1>15 DEF Proceeds

LEMMA PoolKeeps == PoolInv /\ [Next]_storageVars => PoolInv'
<1>1. ASSUME PoolInv, NEW r \in PoolRequests, Proceeds(r) PROVE PoolInv'
    BY <1>1, ProceedsInFrame, TreesStayAlone, StreamsStayWhole DEF PoolInv
<1>2. ASSUME PoolInv, PoolMoves PROVE PoolInv'
    BY <1>1, <1>2, PoolBegin DEF PoolMoves, Proceeds
<1>3. ASSUME PoolInv, UNCHANGED poolVars PROVE PoolInv'
    BY <1>3 DEF PoolInv, PoolTypes, StreamsAlone, StreamedIsWhole, TreesAlone, Has, poolVars
<1> QED
    BY <1>2, <1>3, PoolSteps

\* Unless two streams of a file have run at once, the file is missing or whole: a stream
\* writes it through the temporary file (write_stream), which nothing else writes.
THEOREM StreamsAreWhole == Spec => []StreamedIsWhole
<1>1. PoolInv => StreamedIsWhole
    BY DEF PoolInv
<1> QED
    BY <1>1, PoolStarts, PoolKeeps, PTL DEF Spec

\* A removal of a tree (remove_tree) which meets no other request and no failing call
\* removes all that was there.
THEOREM TreesAreGone == Spec => TreeIsGone
<1>1. ASSUME PoolInv, NEW r \in PoolRequests, call[r].kind = "tree", Calling(r), ~Calling(r)', ~call[r].met,
             ~call[r].hurt, poolFaults' = poolFaults, PoolMoves
      PROVE call'[r].ok /\ \A p \in Within[call[r].path] : kept'[p] = Missing
  <2>1. PoolTypes /\ TreesAlone /\ CallFits(call[r]) /\ poolFaults \in Nat
      BY <1>1 DEF PoolInv, PoolTypes
  <2>2. ASSUME NEW q \in PoolRequests, BeginCall(q) PROVE FALSE
    <3>1. q # r
        BY <1>1, <2>2 DEF BeginCall, AtCall, Calling
    <3>2. \E met : call'[r] = [call[r] EXCEPT !.met = met]
        BY <2>2, <3>1, Zenon DEF BeginCall
    <3>3. call'[r].pc = call[r].pc
        BY <2>1, <3>2 DEF CallFits, CallFields
    <3> QED
        BY <1>1, <3>3 DEF Calling
  <2>3. ASSUME NEW q \in PoolRequests \ {r}, Proceeds(q) PROVE FALSE
      BY <1>1, <2>1, <2>3, ProceedsInFrame DEF CallFrame, Calling
  <2>4. Proceeds(r)
      BY <1>1, <2>2, <2>3 DEF PoolMoves, Proceeds
  <2>5. call[r].pc \in {"list", "removing"}
      BY <1>1, <2>1 DEF CallFits, Calling
  <2>6. ListTree(r) \/ RemoveEntry(r)
      BY <2>4, <2>5 DEF Proceeds, ReadFirst, ReadSecond, WriteWhole, StatWritten, FindDeleted, DeleteFile,
                  OpenTmp, WriteChunk, RenameTmp, AtCall
  <2>7. RemoveEntry(r) /\ call[r].pc = "removing"
      BY <1>1, <2>1, <2>6, TreeLists DEF Calling, RemoveEntry, AtCall
  <2>8. call[r].left = {p \in Within[call[r].path] : kept[p] # Missing}
      BY <1>1, <2>1, <2>7 DEF TreesAlone, Working, Calling, Has
  <2>9. PICK p \in IF call[r].left = {} THEN {call[r].path} ELSE Longest(call[r].left) :
            LET full == p \in PoolDirs /\ \E k \in Within[p] : Has(k) IN
            \/ /\ kept' = [kept EXCEPT ![p] = Missing]
               /\ call'[r].ok = (call[r].left = {})
               /\ call[r].left # {} => call'[r].pc = "removing"
            \/ full \/ poolFaults' = poolFaults + 1
      BY <2>1, <2>7, TreeRemoves
  <2>10. ~(p \in PoolDirs /\ \E k \in Within[p] : Has(k))
    <3> SUFFICES ASSUME p \in PoolDirs, NEW k \in Within[p], kept[k] # Missing PROVE FALSE
        BY DEF Has
    <3>1. call[r].path \in PoolDirs
        BY <1>1, <2>1 DEF CallFits
    <3>2. CASE call[r].left = {}
        BY <2>8, <2>9, <3>2
    <3>3. CASE call[r].left # {}
      <4>1. p \in call[r].left /\ Within[p] \cap call[r].left = {}
          BY <2>9, <3>3 DEF Longest
      <4>2. k \in Within[call[r].path]
          BY <2>8, <3>1, <4>1, PoolAssumption
      <4> QED
          BY <2>8, <4>1, <4>2
    <3> QED
        BY <3>2, <3>3
  <2>11. /\ kept' = [kept EXCEPT ![p] = Missing]
         /\ call'[r].ok = (call[r].left = {})
         /\ call[r].left # {} => call'[r].pc = "removing"
      BY <1>1, <2>1, <2>9, <2>10
  <2>12. call[r].left = {}
      BY <1>1, <2>11 DEF Calling
  <2>13. \A k \in Within[call[r].path] : kept[k] = Missing
      BY <2>8, <2>12
  <2>14. kept = [k \in PoolPaths |-> kept[k]] /\ Within[call[r].path] \in SUBSET PoolPaths
      BY <1>1, <2>1, PoolAssumption DEF PoolTypes, CallFits, PoolPaths
  <2> QED
      BY <2>11, <2>12, <2>13, <2>14
<1>2. PoolInv /\ [Next]_storageVars
      => [\A r \in PoolRequests :
         /\ call[r].kind = "tree" /\ Calling(r) /\ ~Calling(r)' /\ ~call[r].met
         /\ ~call[r].hurt /\ poolFaults' = poolFaults
         => /\ call'[r].ok
            /\ \A p \in Within[call[r].path] : ~Has(p)']_poolVars
    BY <1>1, PoolSteps DEF Has
<1> QED
    BY <1>2, PoolStarts, PoolKeeps, PTL DEF Spec, TreeIsGone

-----------------------------------------------------------------------------
(* Cached reads                                                             *)

\* A step of Storage either is one of the read cache's or leaves it alone.
LEMMA CacheSteps == [Next]_storageVars => ReadsMoves \/ UNCHANGED readVars
    BY DEF Next, storageVars, PoolMoves, UsageMoves, BinMoves, VaultMoves, RouteMoves, ConfigMoves,
           ThumbsMoves, RenderMoves, VideosMoves, BatchesMoves, MountsMoves, BesidePool, BesideUsage, BesideBin,
           BesideVault, BesideRoute, BesideConfig, BesideThumbs, BesideRender, BesideVideos, BesideBatches, BesideMounts

AskFields == {"pc", "kind", "key", "data", "info", "victim", "next", "met", "twin"}
PutPCs == {"put", "room", "bin", "json", "insert"}
ChangePCs == {"enqueue", "change", "flush", "flushed"}
ReadPCs == {"new", "end", "pending", "get", "blob", "fetch", "stat", "drop", "rmBin", "rmJson"} \cup PutPCs \cup ChangePCs
Told == Readings \cup {Old, Absent}
AskFits(q) ==
    /\ DOMAIN q = AskFields /\ q = [x \in AskFields |-> q[x]]
    /\ q.pc \in ReadPCs /\ q.kind \in ReadKinds /\ (q.pc # "new" => q.key \in Keys)
    /\ q.data \in Told /\ q.info \in Told /\ q.met \in BOOLEAN
    /\ q.pc \in ChangePCs \cup {"drop"} => q.kind # "read"
    /\ q.pc \in {"rmBin", "rmJson"} => /\ q.victim \in Keys
                                       /\ q.next \in {"fetch", "room", "end", "change", "enqueue"}
                                       /\ q.next \in {"change", "enqueue"} => q.kind # "read"
    /\ q.pc \notin {"rmBin", "rmJson"} => q.victim = Absent
\* Something that is cached is by a request that has begun.
ByFits(x) == x # Absent => x.by \in Readings /\ reading[x.by].pc # "new"
ReadTypes ==
    /\ reading = [t \in Readings |-> reading[t]] /\ \A t \in Readings : AskFits(reading[t])
    /\ primary = [k \in Keys |-> primary[k]] /\ pending = [k \in Keys |-> pending[k]]
    /\ entry = [k \in Keys |-> entry[k]] /\ bin = [k \in Keys |-> bin[k]] /\ json = [k \in Keys |-> json[k]]
    /\ \A k \in Keys : primary[k] \in Told /\ entry[k] \in Held \cup {Absent} /\ (json[k] # Absent => json[k].info \in Told)
    /\ \A k \in Keys : ByFits(entry[k]) /\ ByFits(bin[k]) /\ ByFits(json[k])
    /\ \A k \in Keys : pending[k] \in Readings => reading[pending[k]].pc # "new"

\* Nothing, or by a request that a change of its key, or a restart, has overtaken.
Excused(x) == x = Absent \/ reading[x.by].met
\* The files of a key are being removed.
Removing(k) == \E t \in Readings : reading[t].pc \in {"rmBin", "rmJson"} /\ reading[t].victim = k
\* Nothing of a key that was cached before the last change of it is there to be answered.
Cleared(k) ==
    /\ Excused(entry[k])
    /\ Excused(json[k]) \/ Removing(k)
    /\ \A t \in Readings : KeyOf(t) = k /\ reading[t].pc \in {"json", "insert"} => reading[t].met
\* A change that has dropped the entry of its key.
Dropped(t) == \/ reading[t].pc \in ChangePCs
              \/ reading[t].pc \in {"rmBin", "rmJson"} /\ reading[t].next \in {"change", "enqueue"}
\* A request that will cache what it has read or flushed.
HasData(t) == \/ reading[t].pc \in {"put", "room", "bin", "json", "insert", "stat"}
              \/ reading[t].pc \in {"rmBin", "rmJson"} /\ reading[t].next = "room"

EntryFits(k) == Excused(entry[k]) \/ entry[k].info = primary[k]
BinFits(k) == Excused(bin[k]) \/ bin[k].data = primary[k] \/ Cleared(k)
JsonFits(k) == Excused(json[k]) \/ json[k].info = primary[k] \/ Removing(k)
\* A json without an entry is one that is being removed or about to be inserted.
JsonHeld(k) == \/ json[k] = Absent \/ entry[k] # Absent \/ Removing(k)
               \/ reading[json[k].by].pc = "insert" /\ KeyOf(json[k].by) = k
DataFits(t) == HasData(t) /\ ~reading[t].met => /\ reading[t].data = primary[KeyOf(t)]
                                                /\ reading[t].pc # "stat" => reading[t].info = primary[KeyOf(t)]
FlushFits(t) == /\ reading[t].pc = "flushed" => primary[KeyOf(t)] = t
                /\ Going(t) /\ pending[KeyOf(t)] = t => reading[t].pc \in {"flush", "flushed"}
\* What goes on beside a change of a key has met it, and is no other change.
Beside(t, u) == t # u /\ Going(t) /\ Changing(u) /\ KeyOf(t) = KeyOf(u) => reading[t].met /\ ~Changing(t)
ReadInv ==
    /\ ReadTypes
    /\ \A t, u \in Readings : Beside(t, u)
    /\ \A k \in Keys : EntryFits(k) /\ BinFits(k) /\ JsonFits(k) /\ JsonHeld(k)
    /\ \A t \in Readings : DataFits(t) /\ FlushFits(t)
    /\ \A t \in Readings : Dropped(t) => Cleared(KeyOf(t))

LEMMA CacheStarts == Init => ReadInv
<1> SUFFICES ASSUME ReadInit PROVE ReadInv
    BY DEF Init
<1>1. /\ Fresh.pc = "new" /\ Fresh.kind = "read" /\ DOMAIN Fresh = AskFields /\ Fresh = [x \in AskFields |-> Fresh[x]]
      /\ Fresh.data = Absent /\ Fresh.info = Absent /\ Fresh.met = FALSE /\ Fresh.victim = Absent
    BY DEF Fresh, AskFields
<1>2. AskFits(Fresh)
    BY <1>1 DEF AskFits, ReadPCs, ChangePCs, ReadKinds, Told
<1>3. /\ reading = [t \in Readings |-> Fresh] /\ primary = [k \in Keys |-> Old] /\ pending = [k \in Keys |-> Absent]
      /\ entry = [k \in Keys |-> Absent] /\ bin = entry /\ json = entry
    BY DEF ReadInit
<1>4. ReadTypes
    BY <1>2, <1>3, ReadAssumption DEF ReadTypes, ByFits, Told
<1>5. \A t, u \in Readings : Beside(t, u)
    BY <1>1, <1>3 DEF Beside, Going
<1>6. \A k \in Keys : EntryFits(k) /\ BinFits(k) /\ JsonFits(k) /\ JsonHeld(k)
    BY <1>3 DEF EntryFits, BinFits, JsonFits, JsonHeld, Excused
<1>7. \A t \in Readings : DataFits(t) /\ FlushFits(t) /\ ~Dropped(t)
    BY <1>1, <1>3 DEF DataFits, FlushFits, HasData, Dropped, Going, ChangePCs
<1> QED
    BY <1>4, <1>5, <1>6, <1>7 DEF ReadInv

\* What one request does next: it may change its key, if it has dropped the entry of it,
\* remove what is cached, and cache what its key holds.
LEMMA CacheMoves ==
    ASSUME ReadInv, NEW t \in Readings, NEW me, reading' = [reading EXCEPT ![t] = me],
           Going(t), me.pc # "new", AskFits(me),
           me.key = KeyOf(t), me.kind = reading[t].kind, me.met = reading[t].met,
           primary' = [k \in Keys |-> primary'[k]], pending' = [k \in Keys |-> pending'[k]],
           entry' = [k \in Keys |-> entry'[k]], bin' = [k \in Keys |-> bin'[k]], json' = [k \in Keys |-> json'[k]],
           \A k \in Keys : /\ primary'[k] \in Told /\ entry'[k] \in Held \cup {Absent}
                           /\ json'[k] # Absent => json'[k].info \in Told,
           \A k \in Keys : primary'[k] = primary[k] \/ (k = KeyOf(t) /\ Dropped(t)),
           \A k \in Keys : pending'[k] \in {pending[k], Absent} \/ (k = KeyOf(t) /\ pending'[k] = t),
           \A k \in Keys : \/ entry'[k] = entry[k]
                           \/ entry'[k] = Absent /\ Removing(k)'
                           \/ /\ k = KeyOf(t) /\ reading[t].pc = "insert"
                              /\ entry'[k] # Absent /\ entry'[k].by = t
                              /\ me.met \/ entry'[k].info = primary'[k],
           \A k \in Keys : \/ bin'[k] = bin[k] \/ bin'[k] = Absent
                           \/ bin'[k].by = t /\ (me.met \/ bin'[k].data = primary'[k]),
           \A k \in Keys : \/ json'[k] = json[k] \/ json'[k] = Absent
                           \/ /\ k = KeyOf(t) /\ reading[t].pc = "json" /\ me.pc = "insert"
                              /\ json'[k].by = t /\ (me.met \/ json'[k].info = primary'[k]),
           \A k \in Keys : Removing(k) => Removing(k)' \/ json'[k] = Absent,
           reading[t].pc = "insert" => entry'[KeyOf(t)] # Absent,
           \/ me.pc \notin {"json", "insert"} \/ reading[t].pc \in {"json", "insert"}
           \/ bin'[KeyOf(t)].by = t /\ (me.met \/ bin'[KeyOf(t)].data = primary'[KeyOf(t)]),
           DataFits(t)', FlushFits(t)',
           Dropped(t)' => Dropped(t) \/ Cleared(KeyOf(t))'
    PROVE ReadInv'
<1> DEFINE key == KeyOf(t)
<1>1. /\ ReadTypes /\ reading'[t] = me /\ \A u \in Readings \ {t} : reading'[u] = reading[u]
      /\ \A u \in Readings : /\ reading'[u].met = reading[u].met /\ reading'[u].key = reading[u].key
                             /\ reading'[u].kind = reading[u].kind
      /\ \A u \in Readings : reading[u].pc # "new" => reading'[u].pc # "new"
      /\ \A u \in Readings : AskFits(reading[u]) /\ AskFits(reading'[u])
    BY DEF ReadInv, ReadTypes, KeyOf
<1>2. /\ \A k \in Keys : entry[k] # Absent => entry[k].by \in Readings
      /\ \A k \in Keys : bin[k] # Absent => bin[k].by \in Readings
      /\ \A k \in Keys : json[k] # Absent => json[k].by \in Readings
    BY <1>1 DEF ReadTypes, ByFits
<1>3. ReadTypes'
  <2>1. \A k \in Keys : ByFits(entry[k])' /\ ByFits(bin[k])' /\ ByFits(json[k])'
      BY <1>1 DEF ReadTypes, ByFits
  <2>2. \A k \in Keys : pending'[k] \in Readings => reading'[pending'[k]].pc # "new"
      BY <1>1, ReadAssumption DEF ReadTypes
  <2>3. reading' = [u \in Readings |-> reading'[u]]
      BY <1>1 DEF ReadTypes
  <2> QED
      BY <1>1, <2>1, <2>2, <2>3 DEF ReadTypes
<1>4. ASSUME NEW u \in Readings, NEW w \in Readings PROVE Beside(u, w)'
  <2>1. (Going(u)' => Going(u)) /\ (Changing(w)' => Changing(w)) /\ (Changing(u)' => Changing(u))
      BY <1>1 DEF Going, Changing
  <2>2. Beside(u, w)
      BY DEF ReadInv
  <2> QED
      BY <1>1, <2>1, <2>2 DEF Beside, KeyOf
<1>5. ASSUME NEW k \in Keys, Cleared(k),
             key = k /\ me.pc \in {"json", "insert"} => me.met \/ reading[t].pc \in {"json", "insert"}
      PROVE Cleared(k)'
  <2>1. Excused(entry[k])'
      BY <1>1, <1>2, <1>5 DEF Cleared, Excused
  <2>2. Excused(json[k])' \/ Removing(k)'
      BY <1>1, <1>2, <1>5 DEF Cleared, Excused
  <2>3. \A u \in Readings : (KeyOf(u) = k /\ reading[u].pc \in {"json", "insert"} => reading[u].met)'
      BY <1>1, <1>5 DEF Cleared, KeyOf
  <2> QED
      BY <2>1, <2>2, <2>3 DEF Cleared
<1>6. ASSUME NEW u \in Readings \ {t}, Dropped(t), Going(u), KeyOf(u) = key PROVE reading[u].met /\ ~Changing(u)
  <2>1. Changing(t)
      BY <1>1, <1>6 DEF Dropped, Changing, AskFits, ChangePCs
  <2> QED
      BY <1>6, <2>1 DEF ReadInv, Beside
<1>7. Dropped(t) => Cleared(key)
    BY DEF ReadInv
<1>8. key \in Keys
    BY <1>1 DEF AskFits, KeyOf, Going
<1>9. ASSUME NEW k \in Keys PROVE EntryFits(k)'
    BY <1>1, <1>2, <1>7 DEF ReadInv, EntryFits, Excused, Cleared
<1>10. ASSUME NEW k \in Keys PROVE JsonFits(k)'
    BY <1>1, <1>2, <1>7 DEF ReadInv, JsonFits, Excused, Cleared
<1>11. ASSUME NEW k \in Keys PROVE BinFits(k)'
  <2>1. BinFits(k)
      BY DEF ReadInv
  <2>2. CASE bin'[k] = Absent \/ (bin'[k].by = t /\ (me.met \/ bin'[k].data = primary'[k]))
      BY <1>1, <2>2 DEF BinFits, Excused
  <2>3. CASE /\ bin'[k] = bin[k]
             /\ key = k /\ me.pc \in {"json", "insert"} => me.met \/ reading[t].pc \in {"json", "insert"}
    <3>1. Cleared(k) => Cleared(k)'
        BY <1>5, <2>3
    <3> QED
        BY <1>1, <1>2, <1>7, <2>1, <2>3, <3>1 DEF BinFits, Excused
  <2> QED
      BY <2>2, <2>3
<1>12. ASSUME NEW k \in Keys PROVE JsonHeld(k)'
  <2>1. JsonHeld(k)
      BY DEF ReadInv
  <2>2. CASE json'[k] = Absent \/ (k = key /\ me.pc = "insert" /\ json'[k].by = t)
      BY <1>1, <2>2 DEF JsonHeld, KeyOf
  <2>3. CASE json'[k] = json[k] /\ json[k] # Absent
    <3>1. CASE entry[k] # Absent
        BY <2>3, <3>1 DEF JsonHeld
    <3>2. CASE Removing(k)
        BY <2>3, <3>2 DEF JsonHeld
    <3>3. CASE reading[json[k].by].pc = "insert" /\ KeyOf(json[k].by) = k
        BY <1>1, <1>2, <2>3, <3>3 DEF JsonHeld, KeyOf
    <3> QED
        BY <2>1, <2>3, <3>1, <3>2, <3>3 DEF JsonHeld
  <2> QED
      BY <2>2, <2>3
<1>13. ASSUME NEW u \in Readings \ {t} PROVE DataFits(u)' /\ FlushFits(u)'
  <2>1. reading'[u] = reading[u] /\ DataFits(u) /\ FlushFits(u) /\ AskFits(reading[u])
      BY <1>1 DEF ReadInv
  <2>2. HasData(u) => Going(u)
      BY DEF HasData, Going
  <2>3. Going(u) => KeyOf(u) \in Keys /\ (primary'[KeyOf(u)] = primary[KeyOf(u)] \/ (reading[u].met /\ ~Changing(u)))
      BY <1>6, <2>1 DEF AskFits, KeyOf, Going
  <2>4. DataFits(u)'
      BY <2>1, <2>2, <2>3 DEF DataFits, HasData, KeyOf
  <2>5. reading[u].pc = "flushed" => Changing(u)
      BY <2>1 DEF AskFits, Changing, Going, ChangePCs
  <2>6. Going(u) => (pending'[KeyOf(u)] = u => pending[KeyOf(u)] = u)
      BY <2>3, ReadAssumption
  <2> QED
      BY <2>1, <2>3, <2>4, <2>5, <2>6 DEF FlushFits, KeyOf, Going, Changing
<1>14. ASSUME NEW u \in Readings, Dropped(u)' PROVE Cleared(KeyOf(u))'
  <2>1. CASE u # t
    <3>1. Dropped(u) /\ KeyOf(u)' = KeyOf(u) /\ AskFits(reading[u])
        BY <1>1, <1>14, <2>1 DEF Dropped, KeyOf
    <3>2. Changing(u) /\ KeyOf(u) \in Keys
        BY <3>1 DEF Dropped, AskFits, KeyOf, Changing, Going, ChangePCs
    <3>3. Cleared(KeyOf(u)) /\ (KeyOf(u) = key => me.met)
        BY <2>1, <3>1, <3>2 DEF ReadInv, Beside
    <3>4. ASSUME NEW k \in Keys, k = KeyOf(u) PROVE Cleared(k)'
        BY <1>5, <3>3, <3>4
    <3> QED
        BY <3>1, <3>2, <3>4
  <2>2. CASE u = t
    <3>1. KeyOf(u)' = key
        BY <1>1, <2>2 DEF KeyOf
    <3>2. Dropped(t) => me.pc \notin {"json", "insert"}
        BY <1>1, <1>14, <2>2 DEF Dropped, ChangePCs
    <3> QED
        BY <1>5, <1>7, <1>8, <1>14, <2>2, <3>1, <3>2
  <2> QED
      BY <2>1, <2>2
<1> QED
    BY <1>3, <1>4, <1>9, <1>10, <1>11, <1>12, <1>13, <1>14 DEF ReadInv

\* Steps that leave the store and what is cached as they are.
LEMMA AsksOnly ==
    ASSUME ReadInv, NEW t \in Readings, NEW me, reading' = [reading EXCEPT ![t] = me],
           reading[t].pc \notin {"new", "end", "rmBin", "rmJson", "insert", "flush", "flushed"},
           AskFits(me), me.pc \notin {"new", "json", "insert", "flush", "flushed"},
           me.key = KeyOf(t), me.kind = reading[t].kind, me.met = reading[t].met,
           UNCHANGED <<primary, pending, entry, bin, json>>,
           ~me.met /\ (me.pc \in {"stat", "put", "room", "bin"} \/ (me.pc \in {"rmBin", "rmJson"} /\ me.next = "room"))
              => me.data = primary[KeyOf(t)] /\ (me.pc # "stat" => me.info = primary[KeyOf(t)]),
           me.pc \in {"enqueue", "change"} \/ (me.pc \in {"rmBin", "rmJson"} /\ me.next \in {"change", "enqueue"})
              => Cleared(KeyOf(t))
    PROVE ReadInv'
<1>1. /\ ReadTypes /\ reading'[t] = me /\ \A u \in Readings \ {t} : reading'[u] = reading[u]
      /\ Going(t) /\ KeyOf(t)' = KeyOf(t) /\ FlushFits(t)
    BY DEF ReadInv, ReadTypes, Going, KeyOf
<1>2. /\ primary' = [k \in Keys |-> primary'[k]] /\ pending' = [k \in Keys |-> pending'[k]]
      /\ entry' = [k \in Keys |-> entry'[k]] /\ bin' = [k \in Keys |-> bin'[k]] /\ json' = [k \in Keys |-> json'[k]]
      /\ \A k \in Keys : /\ primary'[k] \in Told /\ entry'[k] \in Held \cup {Absent}
                         /\ json'[k] # Absent => json'[k].info \in Told
    BY <1>1 DEF ReadTypes
<1>3. \A k \in Keys : Removing(k) => Removing(k)'
    BY <1>1 DEF Removing
<1>4. DataFits(t)'
    BY <1>1 DEF DataFits, HasData
<1>5. FlushFits(t)'
    BY <1>1 DEF FlushFits
<1>6. KeyOf(t) \in Keys
    BY <1>1 DEF ReadTypes, AskFits, KeyOf
<1>7. ASSUME Dropped(t)' PROVE Cleared(KeyOf(t))'
  <2>1. Cleared(KeyOf(t))
      BY <1>1, <1>7 DEF Dropped, ChangePCs
  <2>2. /\ entry[KeyOf(t)] # Absent => entry[KeyOf(t)].by \in Readings
        /\ json[KeyOf(t)] # Absent => json[KeyOf(t)].by \in Readings
      BY <1>1, <1>6 DEF ReadTypes, ByFits
  <2>3. \A u \in Readings : reading'[u].met = reading[u].met
      BY <1>1
  <2>4. Excused(entry[KeyOf(t)])'
      BY <1>1, <2>1, <2>2, <2>3 DEF Cleared, Excused
  <2>5. Excused(json[KeyOf(t)])' \/ Removing(KeyOf(t))'
      BY <1>1, <1>3, <1>6, <2>1, <2>2, <2>3 DEF Cleared, Excused
  <2>6. \A u \in Readings : (KeyOf(u) = KeyOf(t) /\ reading[u].pc \in {"json", "insert"} => reading[u].met)'
      BY <1>1, <2>1 DEF Cleared, KeyOf
  <2> QED
      BY <2>4, <2>5, <2>6 DEF Cleared
<1> QED
    BY <1>1, <1>2, <1>3, <1>4, <1>5, <1>7, CacheMoves

\* A change finds nothing of its key that was cached before but what is being removed.
LEMMA DropsWhatIsHeld ==
    ASSUME ReadInv, NEW t \in Readings, reading[t].pc = "drop"
    PROVE /\ \A u \in Readings : KeyOf(u) = KeyOf(t) /\ reading[u].pc \in {"json", "insert"} => reading[u].met
          /\ entry[KeyOf(t)] = Absent => Cleared(KeyOf(t))
<1>1. Changing(t) /\ KeyOf(t) \in Keys
    BY DEF ReadInv, ReadTypes, AskFits, Changing, Going, KeyOf
<1>2. ASSUME NEW u \in Readings, KeyOf(u) = KeyOf(t), reading[u].pc \in {"json", "insert"} PROVE reading[u].met
    BY <1>1, <1>2 DEF ReadInv, Beside, Going
<1>3. json[KeyOf(t)] # Absent => json[KeyOf(t)].by \in Readings
    BY <1>1 DEF ReadInv, ReadTypes, ByFits
<1>4. JsonHeld(KeyOf(t))
    BY <1>1 DEF ReadInv
<1> QED
    BY <1>2, <1>3, <1>4 DEF Cleared, Excused, JsonHeld

\* The entry of a key leaves the map.
LEMMA Unmapping ==
    ASSUME ReadInv, NEW t \in Readings, NEW k \in Keys, NEW next, Unmap(t, k, next),
           UNCHANGED <<primary, pending, bin, json>>,
           \/ reading[t].pc \in {"get", "blob"} /\ next = "fetch"
           \/ reading[t].pc \in {"put", "room"} /\ next = "room"
           \/ reading[t].pc = "drop" /\ next \in {"change", "enqueue"} /\ k = KeyOf(t)
    PROVE ReadInv'
<1>1. /\ ReadTypes /\ AskFits(reading[t]) /\ DataFits(t) /\ Going(t)
      /\ reading[t].pc \notin {"new", "end", "rmBin", "rmJson", "json", "insert", "flush", "flushed"}
      /\ KeyOf(t) = reading[t].key /\ KeyOf(t) \in Keys
    BY DEF ReadInv, ReadTypes, AskFits, Going, KeyOf
<1>2. next = "room" /\ ~reading[t].met => reading[t].data = primary[KeyOf(t)] /\ reading[t].info = primary[KeyOf(t)]
    BY <1>1 DEF DataFits, HasData
<1>3. CASE entry[k] = Absent /\ reading' = [reading EXCEPT ![t].pc = next] /\ UNCHANGED entry
  <2> DEFINE me == [reading[t] EXCEPT !.pc = next]
  <2>1. reading' = [reading EXCEPT ![t] = me]
      BY <1>1, <1>3 DEF ReadTypes
  <2>2. /\ DOMAIN me = AskFields /\ me = [x \in AskFields |-> me[x]] /\ me.pc = next
        /\ me.kind = reading[t].kind /\ me.key = reading[t].key /\ me.data = reading[t].data
        /\ me.info = reading[t].info /\ me.met = reading[t].met /\ me.victim = reading[t].victim
      BY <1>1 DEF AskFits, AskFields
  <2> HIDE DEF me
  <2>3. AskFits(me)
      BY <1>1, <2>2 DEF AskFits, ReadPCs, PutPCs, ChangePCs
  <2>4. next \in {"change", "enqueue"} => Cleared(KeyOf(t))
      BY <1>3, DropsWhatIsHeld
  <2>5. me.pc \notin {"new", "json", "insert", "flush", "flushed", "rmBin", "rmJson", "stat"}
      BY <2>2
  <2> QED
      BY <1>1, <1>2, <1>3, <2>1, <2>2, <2>3, <2>4, <2>5, AsksOnly
<1>4. CASE /\ entry' = [entry EXCEPT ![k] = Absent]
           /\ reading' = [reading EXCEPT ![t].pc = "rmBin", ![t].victim = k, ![t].next = next]
  <2> DEFINE me == [[[reading[t] EXCEPT !.pc = "rmBin"] EXCEPT !.victim = k] EXCEPT !.next = next]
  <2>1. reading' = [reading EXCEPT ![t] = me]
      BY <1>1, <1>4 DEF ReadTypes
  <2>2. /\ DOMAIN me = AskFields /\ me = [x \in AskFields |-> me[x]] /\ me.pc = "rmBin" /\ me.next = next
        /\ me.kind = reading[t].kind /\ me.key = reading[t].key /\ me.data = reading[t].data
        /\ me.info = reading[t].info /\ me.met = reading[t].met /\ me.victim = k
      BY <1>1 DEF AskFits, AskFields
  <2> HIDE DEF me
  <2>3. AskFits(me)
      BY <1>1, <2>2 DEF AskFits, ReadPCs, PutPCs, ChangePCs
  <2>4. /\ reading'[t] = me /\ \A u \in Readings \ {t} : reading'[u] = reading[u]
      BY <1>1, <2>1 DEF ReadTypes
  <2>5. /\ entry' = [x \in Keys |-> entry'[x]] /\ entry'[k] = Absent
        /\ \A x \in Keys \ {k} : entry'[x] = entry[x]
      BY <1>1, <1>4 DEF ReadTypes
  <2>6. Removing(k)' /\ \A x \in Keys : Removing(x) => Removing(x)'
      BY <1>1, <2>2, <2>4 DEF Removing
  <2>7. /\ primary' = [x \in Keys |-> primary'[x]] /\ pending' = [x \in Keys |-> pending'[x]]
        /\ bin' = [x \in Keys |-> bin'[x]] /\ json' = [x \in Keys |-> json'[x]]
        /\ \A x \in Keys : /\ primary'[x] \in Told /\ entry'[x] \in Held \cup {Absent}
                           /\ json'[x] # Absent => json'[x].info \in Told
      BY <1>1, <2>5 DEF ReadTypes
  <2>8. DataFits(t)'
      BY <1>1, <1>2, <2>2, <2>4 DEF DataFits, HasData, KeyOf
  <2>9. FlushFits(t)'
    <3>1. FlushFits(t)
        BY DEF ReadInv
    <3> QED
        BY <1>1, <2>2, <2>4, <3>1 DEF FlushFits, KeyOf
  <2>10. ASSUME Dropped(t)' PROVE Cleared(KeyOf(t))'
    <3>1. reading[t].pc = "drop" /\ k = KeyOf(t) /\ KeyOf(t)' = KeyOf(t)
        BY <1>1, <2>2, <2>4, <2>10 DEF Dropped, ChangePCs, KeyOf
    <3>2. \A u \in Readings : KeyOf(u) = k /\ reading[u].pc \in {"json", "insert"} => reading[u].met
        BY <3>1, DropsWhatIsHeld
    <3>3. \A u \in Readings : (KeyOf(u) = k /\ reading[u].pc \in {"json", "insert"} => reading[u].met)'
        BY <2>2, <2>4, <3>2 DEF KeyOf
    <3> QED
        BY <2>5, <2>6, <3>1, <3>3 DEF Cleared, Excused
  <2> QED
      BY <1>1, <2>1, <2>2, <2>3, <2>5, <2>6, <2>7, <2>8, <2>9, <2>10, CacheMoves
<1> QED
    BY <1>3, <1>4 DEF Unmap, Step

\* What remains the same of a request, and of the rest, when it only goes on.
LEMMA GoesOn ==
    ASSUME ReadTypes, NEW t \in Readings, NEW p, NEW me, me = [reading[t] EXCEPT !.pc = p]
    PROVE /\ Step(t, p) => reading' = [reading EXCEPT ![t] = me]
          /\ DOMAIN me = AskFields /\ me = [x \in AskFields |-> me[x]] /\ me.pc = p
          /\ me.kind = reading[t].kind /\ me.key = reading[t].key /\ me.data = reading[t].data
          /\ me.info = reading[t].info /\ me.met = reading[t].met /\ me.victim = reading[t].victim
          /\ me.next = reading[t].next /\ AskFits(reading[t]) /\ KeyOf(t) = reading[t].key
    BY DEF ReadTypes, AskFits, AskFields, Step, KeyOf

LEMMA Stepping ==
    ASSUME ReadInv, NEW t \in Readings, NEW p, Step(t, p),
           reading[t].pc \notin {"new", "end", "rmBin", "rmJson", "insert", "flush", "flushed"},
           p \in {"end", "get", "fetch", "blob"} \/ (reading[t].pc = "room" /\ p = "bin"),
           UNCHANGED <<primary, pending, entry, bin, json>>
    PROVE ReadInv'
<1> DEFINE me == [reading[t] EXCEPT !.pc = p]
<1>1. ReadTypes /\ DataFits(t)
    BY DEF ReadInv
<1>2. /\ reading' = [reading EXCEPT ![t] = me]
      /\ DOMAIN me = AskFields /\ me = [x \in AskFields |-> me[x]] /\ me.pc = p
      /\ me.kind = reading[t].kind /\ me.key = reading[t].key /\ me.data = reading[t].data
      /\ me.info = reading[t].info /\ me.met = reading[t].met /\ me.victim = reading[t].victim
      /\ AskFits(reading[t]) /\ KeyOf(t) = reading[t].key
    BY <1>1, GoesOn
<1> HIDE DEF me
<1>3. AskFits(me)
    BY <1>2 DEF AskFits, ReadPCs, PutPCs, ChangePCs
<1>4. p = "bin" /\ ~reading[t].met => reading[t].data = primary[KeyOf(t)] /\ reading[t].info = primary[KeyOf(t)]
    BY <1>1 DEF DataFits, HasData
<1>5. me.pc \notin {"new", "json", "insert", "flush", "flushed", "rmBin", "rmJson", "stat", "enqueue", "change", "put", "room"}
    BY <1>2
<1> QED
    BY <1>2, <1>3, <1>4, <1>5, AsksOnly

\* A read that asks the caches and then the store.
LEMMA LookingIsRight ==
    ASSUME ReadInv, NEW t \in Readings,
           AskWriteCache(t) \/ Get(t) \/ ReadBlobFile(t) \/ Fetch(t) \/ StatFetched(t)
    PROVE ReadInv'
<1>1. ReadTypes /\ DataFits(t) /\ AskFits(reading[t]) /\ KeyOf(t) = reading[t].key
    BY DEF ReadInv, ReadTypes, KeyOf
<1>2. reading[t].pc # "new" => KeyOf(t) \in Keys
    BY <1>1 DEF AskFits
<1>3. CASE AskWriteCache(t)
    BY <1>3, Stepping DEF AskWriteCache, AtRead
<1>4. CASE Get(t)
    BY <1>2, <1>4, Stepping, Unmapping DEF Get, AtRead
<1>5. CASE ReadBlobFile(t)
    BY <1>2, <1>5, Stepping, Unmapping DEF ReadBlobFile, AtRead
<1>6. ASSUME reading[t].pc = "fetch", UNCHANGED <<primary, pending, entry, bin, json>>,
             reading' = [reading EXCEPT ![t].pc = "stat", ![t].data = primary[KeyOf(t)]]
      PROVE ReadInv'
  <2> DEFINE me == [[reading[t] EXCEPT !.pc = "stat"] EXCEPT !.data = primary[KeyOf(t)]]
  <2>1. reading' = [reading EXCEPT ![t] = me]
      BY <1>1, <1>6 DEF ReadTypes
  <2>2. /\ DOMAIN me = AskFields /\ me = [x \in AskFields |-> me[x]] /\ me.pc = "stat"
        /\ me.kind = reading[t].kind /\ me.key = reading[t].key /\ me.data = primary[KeyOf(t)]
        /\ me.info = reading[t].info /\ me.met = reading[t].met /\ me.victim = reading[t].victim
      BY <1>1 DEF AskFits, AskFields
  <2> HIDE DEF me
  <2>3. primary[KeyOf(t)] \in Told
      BY <1>1, <1>2, <1>6 DEF ReadTypes
  <2>4. AskFits(me)
      BY <1>1, <1>6, <2>2, <2>3 DEF AskFits, ReadPCs, PutPCs, ChangePCs
  <2>5. me.pc \notin {"new", "json", "insert", "flush", "flushed", "rmBin", "rmJson", "enqueue", "change"}
      BY <2>2
  <2> QED
      BY <1>1, <1>6, <2>1, <2>2, <2>4, <2>5, AsksOnly
<1>7. CASE Fetch(t)
    BY <1>6, <1>7, Stepping DEF Fetch, AtRead
<1>8. ASSUME reading[t].pc = "stat", UNCHANGED <<primary, pending, entry, bin, json>>,
             reading' = [reading EXCEPT ![t].pc = "put", ![t].info = primary[KeyOf(t)]]
      PROVE ReadInv'
  <2> DEFINE me == [[reading[t] EXCEPT !.pc = "put"] EXCEPT !.info = primary[KeyOf(t)]]
  <2>1. reading' = [reading EXCEPT ![t] = me]
      BY <1>1, <1>8 DEF ReadTypes
  <2>2. /\ DOMAIN me = AskFields /\ me = [x \in AskFields |-> me[x]] /\ me.pc = "put"
        /\ me.kind = reading[t].kind /\ me.key = reading[t].key /\ me.data = reading[t].data
        /\ me.info = primary[KeyOf(t)] /\ me.met = reading[t].met /\ me.victim = reading[t].victim
      BY <1>1 DEF AskFits, AskFields
  <2> HIDE DEF me
  <2>3. primary[KeyOf(t)] \in Told
      BY <1>1, <1>2, <1>8 DEF ReadTypes
  <2>4. AskFits(me)
      BY <1>1, <1>8, <2>2, <2>3 DEF AskFits, ReadPCs, PutPCs, ChangePCs
  <2>5. me.pc \notin {"new", "json", "insert", "flush", "flushed", "rmBin", "rmJson", "enqueue", "change"}
      BY <2>2
  <2>6. ~reading[t].met => reading[t].data = primary[KeyOf(t)]
      BY <1>1, <1>8 DEF DataFits, HasData
  <2> QED
      BY <1>1, <1>8, <2>1, <2>2, <2>4, <2>5, <2>6, AsksOnly
<1>9. CASE StatFetched(t)
    BY <1>8, <1>9, Stepping DEF StatFetched, AtRead
<1> QED
    BY <1>3, <1>4, <1>5, <1>7, <1>9

\* The entry of a key is dropped before it changes, and room is made before it is cached.
LEMMA DroppingIsRight ==
    ASSUME ReadInv, NEW t \in Readings, DropEntry(t) \/ PutRemove(t) \/ MakeRoom(t)
    PROVE ReadInv'
<1>1. ReadTypes /\ AskFits(reading[t]) /\ KeyOf(t) = reading[t].key
    BY DEF ReadInv, ReadTypes, KeyOf
<1>2. reading[t].pc # "new" => KeyOf(t) \in Keys
    BY <1>1 DEF AskFits
<1>3. CASE DropEntry(t)
    BY <1>2, <1>3, Unmapping DEF DropEntry, AtRead
<1>4. CASE PutRemove(t)
    BY <1>2, <1>4, Stepping, Unmapping DEF PutRemove, AtRead
<1>5. CASE MakeRoom(t)
    BY <1>2, <1>5, Stepping, Unmapping DEF MakeRoom, AtRead
<1> QED
    BY <1>3, <1>4, <1>5

\* What is where no request has changed it.
LEMMA CachesAreMaps ==
    ASSUME ReadTypes
    PROVE /\ primary = [k \in Keys |-> primary[k]] /\ pending = [k \in Keys |-> pending[k]]
          /\ entry = [k \in Keys |-> entry[k]] /\ bin = [k \in Keys |-> bin[k]] /\ json = [k \in Keys |-> json[k]]
          /\ \A k \in Keys : /\ primary[k] \in Told /\ entry[k] \in Held \cup {Absent}
                             /\ json[k] # Absent => json[k].info \in Told
    BY DEF ReadTypes

\* The files of a key are removed.
LEMMA RemovingIsRight ==
    ASSUME ReadInv, NEW t \in Readings, RemoveBin(t) \/ RemoveJson(t)
    PROVE ReadInv'
<1>1. /\ ReadTypes /\ DataFits(t) /\ FlushFits(t) /\ AskFits(reading[t]) /\ KeyOf(t) = reading[t].key
      /\ reading[t].pc \in {"rmBin", "rmJson"}
    BY DEF ReadInv, ReadTypes, KeyOf, RemoveBin, RemoveJson, AtRead
<1>2. /\ Going(t) /\ KeyOf(t) \in Keys /\ reading[t].victim \in Keys
      /\ reading[t].next \in {"fetch", "room", "end", "change", "enqueue"}
      /\ reading[t].next \in {"change", "enqueue"} => reading[t].kind # "read"
    BY <1>1 DEF Going, AskFits
<1>3. CASE RemoveBin(t)
  <2> DEFINE me == [reading[t] EXCEPT !.pc = "rmJson"]
  <2>1. /\ bin' = [bin EXCEPT ![reading[t].victim] = Absent] /\ reading[t].pc = "rmBin"
        /\ UNCHANGED <<primary, pending, entry, json>>
      BY <1>3 DEF RemoveBin, AtRead
  <2>2. /\ reading' = [reading EXCEPT ![t] = me]
        /\ DOMAIN me = AskFields /\ me = [x \in AskFields |-> me[x]] /\ me.pc = "rmJson"
        /\ me.kind = reading[t].kind /\ me.key = reading[t].key /\ me.data = reading[t].data
        /\ me.info = reading[t].info /\ me.met = reading[t].met /\ me.victim = reading[t].victim
        /\ me.next = reading[t].next
      BY <1>1, <1>3, GoesOn DEF RemoveBin
  <2> HIDE DEF me
  <2>3. AskFits(me)
      BY <1>1, <1>2, <2>2 DEF AskFits, ReadPCs, ChangePCs
  <2>4. /\ reading'[t] = me /\ \A u \in Readings \ {t} : reading'[u] = reading[u]
      BY <1>1, <2>2 DEF ReadTypes
  <2>5. /\ bin' = [k \in Keys |-> bin'[k]] /\ \A k \in Keys : bin'[k] = bin[k] \/ bin'[k] = Absent
      BY <1>1, <2>1, CachesAreMaps
  <2>6. \A k \in Keys : Removing(k) => Removing(k)'
      BY <2>1, <2>2, <2>4 DEF Removing
  <2>7. DataFits(t)' /\ FlushFits(t)' /\ (Dropped(t)' => Dropped(t))
      BY <1>1, <1>2, <2>1, <2>2, <2>4 DEF DataFits, HasData, FlushFits, Dropped, ChangePCs, KeyOf, Going
  <2> QED
      BY <1>1, <1>2, <2>1, <2>2, <2>3, <2>5, <2>6, <2>7, CachesAreMaps, CacheMoves
<1>4. CASE RemoveJson(t)
  <2> DEFINE me == [[reading[t] EXCEPT !.pc = reading[t].next] EXCEPT !.victim = Absent]
  <2>1. /\ json' = [json EXCEPT ![reading[t].victim] = Absent] /\ reading[t].pc = "rmJson"
        /\ UNCHANGED <<primary, pending, entry, bin>>
      BY <1>4 DEF RemoveJson, AtRead
  <2>2. /\ reading' = [reading EXCEPT ![t] = me]
        /\ DOMAIN me = AskFields /\ me = [x \in AskFields |-> me[x]] /\ me.pc = reading[t].next
        /\ me.kind = reading[t].kind /\ me.key = reading[t].key /\ me.data = reading[t].data
        /\ me.info = reading[t].info /\ me.met = reading[t].met /\ me.victim = Absent
      BY <1>1, <1>4 DEF RemoveJson, ReadTypes, AskFits, AskFields
  <2> HIDE DEF me
  <2>3. AskFits(me)
      BY <1>1, <1>2, <2>2 DEF AskFits, ReadPCs, PutPCs, ChangePCs
  <2>4. /\ reading'[t] = me /\ \A u \in Readings \ {t} : reading'[u] = reading[u]
      BY <1>1, <2>2 DEF ReadTypes
  <2>5. /\ json' = [k \in Keys |-> json'[k]] /\ json'[reading[t].victim] = Absent
        /\ \A k \in Keys : json'[k] = json[k] \/ json'[k] = Absent
      BY <1>1, <1>2, <2>1, CachesAreMaps
  <2>6. \A k \in Keys : Removing(k) => Removing(k)' \/ json'[k] = Absent
      BY <2>4, <2>5 DEF Removing
  <2>7. DataFits(t)' /\ FlushFits(t)' /\ (Dropped(t)' => Dropped(t))
      BY <1>1, <1>2, <2>1, <2>2, <2>4 DEF DataFits, HasData, FlushFits, Dropped, ChangePCs, KeyOf, Going
  <2>8. \A k \in Keys : /\ primary'[k] \in Told /\ entry'[k] \in Held \cup {Absent}
                        /\ json'[k] # Absent => json'[k].info \in Told
      BY <1>1, <2>1, <2>5, CachesAreMaps
  <2> QED
      BY <1>1, <1>2, <2>1, <2>2, <2>3, <2>5, <2>6, <2>7, <2>8, CachesAreMaps, CacheMoves
<1> QED
    BY <1>3, <1>4

\* The store and the write cache change.
LEMMA ChangingIsRight ==
    ASSUME ReadInv, NEW t \in Readings,
           ChangePrimary(t) \/ Enqueue(t) \/ FlushPending(t) \/ DropPending(t)
    PROVE ReadInv'
<1>1. /\ ReadTypes /\ FlushFits(t) /\ AskFits(reading[t]) /\ KeyOf(t) = reading[t].key
      /\ reading[t].pc \in ChangePCs
    BY DEF ReadInv, ReadTypes, KeyOf, ChangePrimary, Enqueue, FlushPending, DropPending, AtRead, ChangePCs
<1>2. Going(t) /\ KeyOf(t) \in Keys /\ Dropped(t) /\ reading[t].kind # "read"
    BY <1>1 DEF Going, AskFits, ChangePCs, Dropped
<1>3. UNCHANGED <<entry, bin, json>>
    BY DEF ChangePrimary, Enqueue, FlushPending, DropPending
<1>4. ASSUME NEW me, reading' = [reading EXCEPT ![t] = me], AskFits(me),
             me.pc \in {"end", "flush", "flushed", "put"},
             me.key = KeyOf(t), me.kind = reading[t].kind, me.met = reading[t].met,
             primary' = [k \in Keys |-> primary'[k]], pending' = [k \in Keys |-> pending'[k]],
             \A k \in Keys : primary'[k] \in Told /\ (primary'[k] = primary[k] \/ k = KeyOf(t)),
             \A k \in Keys : pending'[k] \in {pending[k], Absent} \/ (k = KeyOf(t) /\ pending'[k] = t),
             me.pc = "put" => /\ me.data = primary'[KeyOf(t)] /\ me.info = primary'[KeyOf(t)]
                              /\ pending'[KeyOf(t)] = Absent,
             me.pc = "flushed" => primary'[KeyOf(t)] = t
      PROVE ReadInv'
  <2>1. /\ reading'[t] = me /\ \A u \in Readings \ {t} : reading'[u] = reading[u]
      BY <1>1, <1>4 DEF ReadTypes
  <2>2. \A k \in Keys : Removing(k) => Removing(k)'
      BY <1>1, <2>1 DEF Removing, ChangePCs
  <2>3. DataFits(t)'
      BY <1>1, <1>4, <2>1 DEF DataFits, HasData, KeyOf
  <2>4. FlushFits(t)'
      BY <1>1, <1>2, <1>4, <2>1, ReadAssumption DEF FlushFits, KeyOf, Going
  <2>5. \A k \in Keys : /\ primary'[k] \in Told /\ entry'[k] \in Held \cup {Absent}
                        /\ json'[k] # Absent => json'[k].info \in Told
      BY <1>1, <1>3, <1>4, CachesAreMaps
  <2>6. reading[t].pc # "insert" /\ me.pc \notin {"new", "json", "insert"}
      BY <1>1, <1>4 DEF ChangePCs
  <2> QED
      BY <1>1, <1>2, <1>3, <1>4, <2>2, <2>3, <2>4, <2>5, <2>6, CachesAreMaps, CacheMoves
<1>5. ASSUME NEW p \in {"end", "flush", "flushed"}, Step(t, p),
             primary' = [k \in Keys |-> primary'[k]], pending' = [k \in Keys |-> pending'[k]],
             \A k \in Keys : primary'[k] \in Told /\ (primary'[k] = primary[k] \/ k = KeyOf(t)),
             \A k \in Keys : pending'[k] \in {pending[k], Absent} \/ (k = KeyOf(t) /\ pending'[k] = t),
             p = "flushed" => primary'[KeyOf(t)] = t
      PROVE ReadInv'
  <2> DEFINE me == [reading[t] EXCEPT !.pc = p]
  <2>1. /\ reading' = [reading EXCEPT ![t] = me]
        /\ DOMAIN me = AskFields /\ me = [x \in AskFields |-> me[x]] /\ me.pc = p
        /\ me.kind = reading[t].kind /\ me.key = reading[t].key /\ me.data = reading[t].data
        /\ me.info = reading[t].info /\ me.met = reading[t].met /\ me.victim = reading[t].victim
      BY <1>1, <1>5, GoesOn
  <2> HIDE DEF me
  <2>2. AskFits(me)
      BY <1>1, <1>2, <2>1 DEF AskFits, ReadPCs, ChangePCs
  <2>3. me.pc \in {"end", "flush", "flushed", "put"} /\ me.pc # "put"
      BY <2>1
  <2> QED
      BY <1>1, <1>4, <1>5, <2>1, <2>2, <2>3
<1>6. t \in Told /\ Absent \in Told
    BY DEF Told
<1>7. CASE ChangePrimary(t)
  <2>1. Step(t, "end") /\ UNCHANGED pending
        /\ (primary' = primary \/ \E x \in {Absent, t} : primary' = [primary EXCEPT ![KeyOf(t)] = x])
      BY <1>7 DEF ChangePrimary
  <2> QED
      BY <1>1, <1>5, <1>6, <2>1, CachesAreMaps
<1>8. CASE Enqueue(t)
    BY <1>1, <1>5, <1>8, CachesAreMaps DEF Enqueue
<1>9. CASE FlushPending(t)
    BY <1>1, <1>2, <1>5, <1>6, <1>9, CachesAreMaps DEF FlushPending
<1>10. CASE DropPending(t)
  <2> DEFINE me == [[[reading[t] EXCEPT !.pc = "put"] EXCEPT !.data = t] EXCEPT !.info = t]
  <2>1. /\ reading' = [reading EXCEPT ![t] = me] /\ reading[t].pc = "flushed"
        /\ pending' = [pending EXCEPT ![KeyOf(t)] = Absent] /\ UNCHANGED primary
      BY <1>1, <1>10 DEF DropPending, AtRead, ReadTypes
  <2>2. /\ DOMAIN me = AskFields /\ me = [x \in AskFields |-> me[x]] /\ me.pc = "put"
        /\ me.kind = reading[t].kind /\ me.key = reading[t].key /\ me.data = t
        /\ me.info = t /\ me.met = reading[t].met /\ me.victim = reading[t].victim
      BY <1>1 DEF AskFits, AskFields
  <2> HIDE DEF me
  <2>3. AskFits(me)
      BY <1>1, <1>2, <1>6, <2>1, <2>2 DEF AskFits, ReadPCs, PutPCs, ChangePCs
  <2>4. primary'[KeyOf(t)] = t
      BY <1>1, <2>1 DEF FlushFits
  <2>5. /\ pending' = [k \in Keys |-> pending'[k]] /\ pending'[KeyOf(t)] = Absent
        /\ \A k \in Keys : pending'[k] \in {pending[k], Absent}
      BY <1>1, <1>2, <2>1, CachesAreMaps
  <2> QED
      BY <1>1, <1>4, <2>1, <2>2, <2>3, <2>4, <2>5, CachesAreMaps
<1> QED
    BY <1>7, <1>8, <1>9, <1>10

\* What has been read or flushed is cached: the blob, its json, the entry.
LEMMA CachingIsRight ==
    ASSUME ReadInv, NEW t \in Readings, WriteBin(t) \/ WriteJson(t) \/ InsertEntry(t)
    PROVE ReadInv'
<1>1. /\ ReadTypes /\ DataFits(t) /\ FlushFits(t) /\ AskFits(reading[t]) /\ KeyOf(t) = reading[t].key
      /\ reading[t].pc \in {"bin", "json", "insert"}
    BY DEF ReadInv, ReadTypes, KeyOf, WriteBin, WriteJson, InsertEntry, AtRead
<1>2. /\ Going(t) /\ KeyOf(t) \in Keys /\ reading[t].victim = Absent
      /\ reading[t].info \in Told /\ reading[t].met \in BOOLEAN
    BY <1>1 DEF Going, AskFits
<1>3. ~reading[t].met => reading[t].data = primary[KeyOf(t)] /\ reading[t].info = primary[KeyOf(t)]
    BY <1>1 DEF DataFits, HasData
<1>4. ASSUME reading[t].pc \in {"bin", "json"}, UNCHANGED <<primary, pending, entry, bin, json>>,
             reading' = [reading EXCEPT ![t].pc = "rmBin", ![t].victim = KeyOf(t), ![t].next = "end"]
      PROVE ReadInv'
  <2> DEFINE me == [[[reading[t] EXCEPT !.pc = "rmBin"] EXCEPT !.victim = KeyOf(t)] EXCEPT !.next = "end"]
  <2>1. reading' = [reading EXCEPT ![t] = me]
      BY <1>1, <1>4 DEF ReadTypes
  <2>2. /\ DOMAIN me = AskFields /\ me = [x \in AskFields |-> me[x]] /\ me.pc = "rmBin" /\ me.next = "end"
        /\ me.kind = reading[t].kind /\ me.key = reading[t].key /\ me.data = reading[t].data
        /\ me.info = reading[t].info /\ me.met = reading[t].met /\ me.victim = KeyOf(t)
      BY <1>1 DEF AskFits, AskFields
  <2> HIDE DEF me
  <2>3. AskFits(me)
      BY <1>1, <1>2, <2>2 DEF AskFits, ReadPCs, ChangePCs
  <2> QED
      BY <1>1, <1>4, <2>1, <2>2, <2>3, AsksOnly
<1>5. ASSUME NEW p \in {"json", "insert", "end"}, Step(t, p), UNCHANGED <<primary, pending>>,
             entry' = [k \in Keys |-> entry'[k]], bin' = [k \in Keys |-> bin'[k]], json' = [k \in Keys |-> json'[k]],
             \A k \in Keys : entry'[k] \in Held \cup {Absent} /\ (json'[k] # Absent => json'[k].info \in Told),
             \A k \in Keys : \/ entry'[k] = entry[k]
                             \/ /\ k = KeyOf(t) /\ reading[t].pc = "insert"
                                /\ entry'[k] # Absent /\ entry'[k].by = t /\ entry'[k].info = reading[t].info,
             \A k \in Keys : \/ bin'[k] = bin[k]
                             \/ k = KeyOf(t) /\ bin'[k].by = t /\ bin'[k].data = reading[t].data,
             \A k \in Keys : \/ json'[k] = json[k]
                             \/ /\ k = KeyOf(t) /\ reading[t].pc = "json" /\ p = "insert"
                                /\ json'[k].by = t /\ json'[k].info = reading[t].info,
             reading[t].pc = "insert" => entry'[KeyOf(t)] # Absent,
             \/ p = "end" \/ reading[t].pc \in {"json", "insert"}
             \/ bin'[KeyOf(t)].by = t /\ bin'[KeyOf(t)].data = reading[t].data
      PROVE ReadInv'
  <2> DEFINE me == [reading[t] EXCEPT !.pc = p]
  <2>1. /\ reading' = [reading EXCEPT ![t] = me]
        /\ DOMAIN me = AskFields /\ me = [x \in AskFields |-> me[x]] /\ me.pc = p
        /\ me.kind = reading[t].kind /\ me.key = reading[t].key /\ me.data = reading[t].data
        /\ me.info = reading[t].info /\ me.met = reading[t].met /\ me.victim = reading[t].victim
      BY <1>1, <1>5, GoesOn
  <2> HIDE DEF me
  <2>2. AskFits(me) /\ me.pc # "new"
      BY <1>1, <1>2, <2>1 DEF AskFits, ReadPCs, PutPCs, ChangePCs
  <2>3. /\ reading'[t] = me /\ \A u \in Readings \ {t} : reading'[u] = reading[u]
      BY <1>1, <2>1 DEF ReadTypes
  <2>4. \A k \in Keys : Removing(k) => Removing(k)'
      BY <1>1, <2>3 DEF Removing
  <2>5. DataFits(t)'
      BY <1>1, <1>3, <1>5, <2>1, <2>3 DEF DataFits, HasData, KeyOf
  <2>6. FlushFits(t)' /\ ~(Dropped(t)')
      BY <1>1, <1>2, <1>5, <2>1, <2>3 DEF FlushFits, KeyOf, Going, Dropped, ChangePCs
  <2>7. \A k \in Keys : primary'[k] \in Told /\ primary'[k] = primary[k] /\ pending'[k] = pending[k]
      BY <1>1, <1>5, CachesAreMaps
  <2>8. /\ primary' = [k \in Keys |-> primary'[k]] /\ pending' = [k \in Keys |-> pending'[k]]
      BY <1>1, <1>5, CachesAreMaps
  <2>9. \A k \in Keys : \/ bin'[k] = bin[k] \/ bin'[k] = Absent
                        \/ bin'[k].by = t /\ (me.met \/ bin'[k].data = primary'[k])
      BY <1>3, <1>5, <2>1
  <2>10. \A k \in Keys : \/ entry'[k] = entry[k]
                         \/ /\ k = KeyOf(t) /\ reading[t].pc = "insert"
                            /\ entry'[k] # Absent /\ entry'[k].by = t
                            /\ me.met \/ entry'[k].info = primary'[k]
      BY <1>3, <1>5, <2>1
  <2>11. \A k \in Keys : \/ json'[k] = json[k]
                         \/ /\ k = KeyOf(t) /\ reading[t].pc = "json" /\ me.pc = "insert"
                            /\ json'[k].by = t /\ (me.met \/ json'[k].info = primary'[k])
      BY <1>3, <1>5, <2>1
  <2>12. \/ me.pc \notin {"json", "insert"} \/ reading[t].pc \in {"json", "insert"}
         \/ bin'[KeyOf(t)].by = t /\ (me.met \/ bin'[KeyOf(t)].data = primary'[KeyOf(t)])
      BY <1>3, <1>5, <2>1
  <2>13. \A k \in Keys : /\ primary'[k] \in Told /\ entry'[k] \in Held \cup {Absent}
                         /\ json'[k] # Absent => json'[k].info \in Told
      BY <1>5, <2>7
  <2> QED
      BY <1>1, <1>2, <1>5, <2>1, <2>2, <2>4, <2>5, <2>6, <2>7, <2>8, <2>9, <2>10, <2>11, <2>12, <2>13, CacheMoves, ZenonT(60)
<1>6. CASE WriteBin(t)
  <2>1. reading[t].pc = "bin" /\ UNCHANGED <<primary, pending, entry, json>>
      BY <1>6 DEF WriteBin, AtRead
  <2>2. CASE Step(t, "json") /\ bin' = [bin EXCEPT ![KeyOf(t)] = [data |-> reading[t].data, by |-> t]]
    <3>1. /\ bin' = [k \in Keys |-> bin'[k]] /\ bin'[KeyOf(t)].by = t /\ bin'[KeyOf(t)].data = reading[t].data
          /\ \A k \in Keys \ {KeyOf(t)} : bin'[k] = bin[k]
        BY <1>1, <1>2, <2>2, CachesAreMaps
    <3> QED
        BY <1>1, <1>5, <2>1, <2>2, <3>1, CachesAreMaps
  <2> QED
      BY <1>4, <1>6, <2>1, <2>2 DEF WriteBin
<1>7. CASE WriteJson(t)
  <2>1. reading[t].pc = "json" /\ UNCHANGED <<primary, pending, entry, bin>>
      BY <1>7 DEF WriteJson, AtRead
  <2>2. CASE Step(t, "insert") /\ json' = [json EXCEPT ![KeyOf(t)] = [info |-> reading[t].info, by |-> t]]
    <3>1. /\ json' = [k \in Keys |-> json'[k]] /\ json'[KeyOf(t)].by = t /\ json'[KeyOf(t)].info = reading[t].info
          /\ \A k \in Keys \ {KeyOf(t)} : json'[k] = json[k]
        BY <1>1, <1>2, <2>2, CachesAreMaps
    <3>2. \A k \in Keys : json'[k] # Absent => json'[k].info \in Told
        BY <1>1, <1>2, <3>1, CachesAreMaps
    <3> QED
        BY <1>1, <1>5, <2>1, <2>2, <3>1, <3>2, CachesAreMaps
  <2> QED
      BY <1>4, <1>7, <2>1, <2>2 DEF WriteJson
<1>8. CASE InsertEntry(t)
  <2> DEFINE new == [info |-> reading[t].info, by |-> t, expired |-> FALSE]
  <2>1. /\ reading[t].pc = "insert" /\ Step(t, "end") /\ entry' = [entry EXCEPT ![KeyOf(t)] = new]
        /\ UNCHANGED <<primary, pending, bin, json>>
      BY <1>8 DEF InsertEntry, AtRead
  <2>2. new \in Held /\ new.by = t /\ new.info = reading[t].info
      BY <1>2 DEF Held, Told
  <2>3. new # Absent
      BY <2>2, ReadAssumption
  <2> HIDE DEF new
  <2>4. /\ entry' = [k \in Keys |-> entry'[k]] /\ entry'[KeyOf(t)] = new
        /\ \A k \in Keys \ {KeyOf(t)} : entry'[k] = entry[k]
      BY <1>1, <1>2, <2>1, CachesAreMaps
  <2>5. \A k \in Keys : entry'[k] \in Held \cup {Absent}
      BY <1>1, <2>2, <2>4, CachesAreMaps
  <2> QED
      BY <1>1, <1>5, <2>1, <2>2, <2>3, <2>4, <2>5, CachesAreMaps
<1> QED
    BY <1>6, <1>7, <1>8

LEMMA ExpiryIsRight == ASSUME ReadInv, NEW k \in Keys, Expire(k) PROVE ReadInv'
<1>1. /\ ReadTypes /\ entry[k] \in Held /\ entry' = [entry EXCEPT ![k] = [entry[k] EXCEPT !.expired = TRUE]]
      /\ UNCHANGED <<primary, pending, bin, json, reading>>
    BY DEF ReadInv, ReadTypes, Expire
<1>2. /\ entry' = [x \in Keys |-> entry'[x]] /\ entry'[k] \in Held
      /\ entry'[k].by = entry[k].by /\ entry'[k].info = entry[k].info
      /\ \A x \in Keys \ {k} : entry'[x] = entry[x]
    BY <1>1 DEF ReadTypes, Held
<1>3. entry[k] # Absent /\ entry'[k] # Absent
    BY <1>1, <1>2, ReadAssumption
<1>4. \A x \in Keys : /\ Excused(entry[x])' <=> Excused(entry[x])
                      /\ Excused(bin[x])' <=> Excused(bin[x])
                      /\ Excused(json[x])' <=> Excused(json[x])
                      /\ Removing(x)' <=> Removing(x)
    BY <1>1, <1>2, <1>3 DEF Excused, Removing
<1>5. \A x \in Keys : Cleared(x)' <=> Cleared(x)
    BY <1>1, <1>4 DEF Cleared, KeyOf
<1>6. ReadTypes'
    BY <1>1, <1>2, <1>3 DEF ReadTypes, ByFits
<1>7. ASSUME NEW x \in Keys PROVE EntryFits(x)' /\ BinFits(x)' /\ JsonFits(x)' /\ JsonHeld(x)'
  <2>1. EntryFits(x) /\ BinFits(x) /\ JsonFits(x) /\ JsonHeld(x)
      BY DEF ReadInv
  <2>2. entry'[x].info = entry[x].info /\ (entry[x] # Absent => entry'[x] # Absent)
      BY <1>2, <1>3
  <2>3. EntryFits(x)'
      BY <1>1, <1>4, <2>1, <2>2 DEF EntryFits
  <2>4. BinFits(x)'
      BY <1>1, <1>4, <1>5, <2>1 DEF BinFits
  <2>5. JsonFits(x)'
      BY <1>1, <1>4, <2>1 DEF JsonFits
  <2>6. JsonHeld(x)'
      BY <1>1, <1>4, <2>1, <2>2 DEF JsonHeld, KeyOf
  <2> QED
      BY <2>3, <2>4, <2>5, <2>6
<1>8. \A t, u \in Readings : Beside(t, u)'
    BY <1>1 DEF ReadInv, Beside, Going, Changing, KeyOf
<1>9. \A t \in Readings : DataFits(t)' /\ FlushFits(t)'
    BY <1>1 DEF ReadInv, DataFits, FlushFits, HasData, KeyOf, Going
<1>10. ASSUME NEW t \in Readings, Dropped(t)' PROVE Cleared(KeyOf(t))'
  <2>1. Dropped(t) /\ KeyOf(t)' = KeyOf(t) /\ AskFits(reading[t])
      BY <1>1, <1>10 DEF Dropped, KeyOf, ReadTypes
  <2>2. KeyOf(t) \in Keys /\ Cleared(KeyOf(t))
      BY <2>1 DEF ReadInv, AskFits, KeyOf, Dropped, ChangePCs
  <2> QED
      BY <1>5, <2>1, <2>2
<1> QED
    BY <1>6, <1>7, <1>8, <1>9, <1>10 DEF ReadInv

\* A request begins: what it meets, and what meets it, is noted.
LEMMA BeginningIsRight == ASSUME ReadInv, NEW t \in Readings, BeginReading(t) PROVE ReadInv'
<1>1. ReadTypes /\ reading[t].pc = "new" /\ UNCHANGED <<primary, pending, entry, bin, json>>
    BY DEF ReadInv, BeginReading, AtRead
<1>2. PICK kind \in ReadKinds, k \in Keys :
         /\ kind # "read" => \A u \in Readings : Changing(u) => KeyOf(u) # k
         /\ LET beside == {u \in Readings : Going(u) /\ KeyOf(u) = k}
                caches == {u \in beside : kind \in Caching /\ reading[u].kind \in Caching}
                meets == {u \in beside : kind # "read" \/ Changing(u)}
            IN reading' = [u \in Readings |->
                 IF u = t THEN [Fresh EXCEPT !.pc = IF kind = "read" THEN "pending" ELSE "drop",
                                             !.kind = kind, !.key = k, !.data = t, !.info = t,
                                             !.met = meets # {}, !.twin = caches # {}]
                 ELSE [reading[u] EXCEPT !.met = @ \/ (u \in meets /\ kind # "read"),
                                         !.twin = @ \/ u \in caches]]
    BY DEF BeginReading
<1> DEFINE Crosses(u) == Going(u) /\ KeyOf(u) = k /\ (kind # "read" \/ Changing(u))
<1>3. /\ DOMAIN reading'[t] = AskFields /\ reading'[t] = [x \in AskFields |-> reading'[t][x]]
      /\ reading'[t].pc = (IF kind = "read" THEN "pending" ELSE "drop")
      /\ reading'[t].kind = kind /\ reading'[t].key = k /\ reading'[t].data = t /\ reading'[t].info = t
      /\ reading'[t].victim = Absent
      /\ reading'[t].met = (\E u \in Readings : Crosses(u))
    BY <1>2 DEF Fresh, AskFields
<1>4. ASSUME NEW u \in Readings \ {t}
      PROVE /\ DOMAIN reading'[u] = AskFields /\ reading'[u] = [x \in AskFields |-> reading'[u][x]]
            /\ reading'[u].pc = reading[u].pc /\ reading'[u].kind = reading[u].kind
            /\ reading'[u].key = reading[u].key /\ reading'[u].data = reading[u].data
            /\ reading'[u].info = reading[u].info /\ reading'[u].victim = reading[u].victim
            /\ reading'[u].next = reading[u].next
            /\ reading'[u].met = (reading[u].met \/ (Crosses(u) /\ kind # "read"))
            /\ AskFits(reading[u])
    BY <1>1, <1>2 DEF ReadTypes, AskFits, AskFields
<1> HIDE DEF Crosses
<1>5. \A u \in Readings : AskFits(reading'[u])
  <2>1. AskFits(reading'[t])
    <3>1. reading'[t].met \in BOOLEAN /\ t \in Told
        BY <1>3 DEF Told
    <3> QED
        BY <1>3, <3>1 DEF AskFits, ReadPCs, ChangePCs, ReadKinds
  <2>2. ASSUME NEW u \in Readings \ {t} PROVE AskFits(reading'[u])
    <3>1. reading'[u].met \in BOOLEAN
        BY <1>4
    <3> QED
        BY <1>4, <3>1 DEF AskFits
  <2> QED
      BY <2>1, <2>2
<1>6. ReadTypes'
  <2>1. reading' = [u \in Readings |-> reading'[u]]
      BY <1>2
  <2>2. \A u \in Readings : reading[u].pc # "new" => reading'[u].pc # "new"
      BY <1>1, <1>4
  <2>3. \A x \in Keys : ByFits(entry[x])' /\ ByFits(bin[x])' /\ ByFits(json[x])'
      BY <1>1, <2>2 DEF ReadTypes, ByFits
  <2>4. \A x \in Keys : pending'[x] \in Readings => reading'[pending'[x]].pc # "new"
      BY <1>1, <2>2 DEF ReadTypes
  <2> QED
      BY <1>1, <1>5, <2>1, <2>3, <2>4 DEF ReadTypes
\* Nothing that is cached is by the request, so that nothing is excused less.
<1>7. ASSUME NEW x \in Keys
      PROVE /\ Excused(entry[x]) => Excused(entry[x])'
            /\ Excused(bin[x]) => Excused(bin[x])'
            /\ Excused(json[x]) => Excused(json[x])'
            /\ Removing(x) => Removing(x)'
  <2>1. ByFits(entry[x]) /\ ByFits(bin[x]) /\ ByFits(json[x])
      BY <1>1 DEF ReadTypes
  <2>2. \A u \in Readings : reading[u].pc # "new" /\ reading[u].met => reading'[u].met
      BY <1>1, <1>4
  <2>3. Removing(x) => Removing(x)'
      BY <1>1, <1>4 DEF Removing
  <2> QED
      BY <1>1, <2>1, <2>2, <2>3 DEF ByFits, Excused
<1>8. ASSUME NEW x \in Keys, Cleared(x) PROVE Cleared(x)'
  <2>1. \A u \in Readings : (KeyOf(u) = x /\ reading[u].pc \in {"json", "insert"} => reading[u].met)'
      BY <1>3, <1>4, <1>8 DEF Cleared, KeyOf
  <2> QED
      BY <1>7, <1>8, <2>1 DEF Cleared
<1>9. ASSUME NEW x \in Keys PROVE EntryFits(x)' /\ BinFits(x)' /\ JsonFits(x)' /\ JsonHeld(x)'
  <2>1. EntryFits(x) /\ BinFits(x) /\ JsonFits(x) /\ JsonHeld(x) /\ ByFits(json[x])
      BY <1>1 DEF ReadInv, ReadTypes
  <2>2. EntryFits(x)' /\ JsonFits(x)'
      BY <1>1, <1>7, <2>1 DEF EntryFits, JsonFits
  <2>3. BinFits(x)'
      BY <1>1, <1>7, <1>8, <2>1 DEF BinFits
  <2>4. JsonHeld(x)'
      BY <1>1, <1>4, <1>7, <2>1 DEF JsonHeld, ByFits, KeyOf
  <2> QED
      BY <2>2, <2>3, <2>4
<1>10. ASSUME NEW u \in Readings PROVE DataFits(u)' /\ FlushFits(u)' /\ (Dropped(u)' => Cleared(KeyOf(u))')
  <2>1. CASE u = t
    <3>1. ~(HasData(u)') /\ ~(Dropped(u)') /\ reading'[u].pc # "flushed"
        BY <1>3, <2>1 DEF HasData, Dropped, ChangePCs
    <3>2. pending'[KeyOf(u)'] # u
        BY <1>1, <1>3, <2>1 DEF ReadTypes, KeyOf
    <3> QED
        BY <3>1, <3>2 DEF DataFits, FlushFits
  <2>2. CASE u # t
    <3>1. /\ KeyOf(u)' = KeyOf(u) /\ (HasData(u)' => HasData(u)) /\ (Dropped(u)' => Dropped(u))
          /\ (Going(u)' => Going(u)) /\ DataFits(u) /\ FlushFits(u) /\ AskFits(reading[u])
          /\ (reading[u].met => reading'[u].met)
        BY <1>4, <2>2 DEF KeyOf, HasData, Dropped, Going, ReadInv
    <3>2. DataFits(u)'
        BY <1>1, <1>4, <2>2, <3>1 DEF DataFits, KeyOf
    <3>3. FlushFits(u)'
        BY <1>1, <1>4, <2>2, <3>1 DEF FlushFits, KeyOf
    <3>4. Dropped(u) => Cleared(KeyOf(u)) /\ KeyOf(u) \in Keys
        BY <3>1 DEF ReadInv, AskFits, Dropped, KeyOf, ChangePCs
    <3>5. ASSUME NEW x \in Keys, x = KeyOf(u), Dropped(u) PROVE Cleared(x)'
        BY <1>8, <3>4, <3>5
    <3> QED
        BY <3>1, <3>2, <3>3, <3>4, <3>5
  <2> QED
      BY <2>1, <2>2
<1>11. ASSUME NEW u \in Readings, NEW w \in Readings PROVE Beside(u, w)'
  <2> SUFFICES ASSUME u # w, Going(u)', Changing(w)', (KeyOf(u) = KeyOf(w))'
               PROVE reading'[u].met /\ ~(Changing(u)')
      BY DEF Beside
  <2>1. CASE u = t
    <3>1. Changing(w) /\ KeyOf(w) = k /\ Going(w)
        BY <1>3, <1>4, <2>1 DEF Changing, Going, KeyOf
    <3>2. kind = "read" /\ Crosses(w)
        BY <1>2, <3>1 DEF Crosses
    <3> QED
        BY <1>3, <2>1, <3>2 DEF Changing
  <2>2. CASE w = t
    <3>1. Going(u) /\ KeyOf(u) = k /\ kind # "read"
        BY <1>3, <1>4, <2>2 DEF Changing, Going, KeyOf
    <3>2. ~Changing(u) /\ Crosses(u)
        BY <1>2, <3>1 DEF Crosses
    <3> QED
        BY <1>4, <2>2, <3>1, <3>2 DEF Changing, Going
  <2>3. CASE u # t /\ w # t
    <3>1. Going(u) /\ Changing(w) /\ KeyOf(u) = KeyOf(w) /\ Beside(u, w)
        BY <1>4, <2>3 DEF Changing, Going, KeyOf, ReadInv
    <3> QED
        BY <1>4, <2>3, <3>1 DEF Beside, Changing, Going
  <2> QED
      BY <2>1, <2>2, <2>3
<1> QED
    BY <1>6, <1>9, <1>10, <1>11 DEF ReadInv

\* A restart: what was removed only in part counts as overtaken, and of a request that
\* had not ended only the flush is done again.
LEMMA RestartIsRight == ASSUME ReadInv, RestartPool PROVE ReadInv'
<1>1. ReadTypes /\ UNCHANGED <<primary, pending>>
    BY DEF ReadInv, RestartPool
<1>2. PICK dead \in SUBSET {k \in Keys : json[k] # Absent} :
         LET loaded == {k \in Keys \ dead : json[k] # Absent /\ bin[k] # Absent}
         IN /\ entry' = [k \in Keys |->
                  IF k \in loaded
                  THEN [info |-> json[k].info, by |-> json[k].by, expired |-> FALSE]
                  ELSE Absent]
            /\ json' = [k \in Keys |-> IF k \in loaded THEN json[k] ELSE Absent]
            /\ bin' = [k \in Keys |-> IF k \in dead THEN Absent ELSE bin[k]]
    BY DEF RestartPool
<1>3. /\ entry' = [k \in Keys |-> entry'[k]] /\ json' = [k \in Keys |-> json'[k]] /\ bin' = [k \in Keys |-> bin'[k]]
    BY <1>2
<1>4. ASSUME NEW k \in Keys
      PROVE /\ bin'[k] \in {bin[k], Absent}
            /\ \/ entry'[k] = Absent /\ json'[k] = Absent
               \/ /\ json[k] # Absent /\ json'[k] = json[k]
                  /\ entry'[k] = [info |-> json[k].info, by |-> json[k].by, expired |-> FALSE]
    BY <1>2
<1>5. ASSUME NEW k \in Keys
      PROVE /\ bin'[k] = bin[k] \/ bin'[k] = Absent
            /\ \/ entry'[k] = Absent /\ json'[k] = Absent
               \/ /\ json[k] # Absent /\ json'[k] = json[k] /\ entry'[k] # Absent /\ entry'[k] \in Held
                  /\ entry'[k].info = json[k].info /\ entry'[k].by = json[k].by
  <2>1. json[k] # Absent => json[k].info \in Told /\ json[k].by \in Readings
      BY <1>1 DEF ReadTypes, ByFits
  <2>2. CASE entry'[k] = Absent /\ json'[k] = Absent
      BY <1>4, <2>2
  <2>3. CASE /\ json[k] # Absent /\ json'[k] = json[k]
             /\ entry'[k] = [info |-> json[k].info, by |-> json[k].by, expired |-> FALSE]
    <3>1. entry'[k] \in Held
        BY <2>1, <2>3 DEF Held, Told
    <3> QED
        BY <1>4, <2>3, <3>1, ReadAssumption
  <2> QED
      BY <1>4, <2>2, <2>3
<1>6. ASSUME NEW u \in Readings
      PROVE /\ DOMAIN reading'[u] = AskFields /\ reading'[u] = [x \in AskFields |-> reading'[u][x]]
            /\ reading'[u].pc = (IF ~Going(u) THEN reading[u].pc ELSE IF pending[KeyOf(u)] = u THEN "flush" ELSE "end")
            /\ reading'[u].kind = reading[u].kind /\ reading'[u].key = reading[u].key
            /\ reading'[u].data = reading[u].data /\ reading'[u].info = reading[u].info
            /\ reading'[u].victim = Absent
            /\ reading'[u].met = (reading[u].met
                                  \/ \E w \in Readings : reading[w].victim # Absent /\ Wrote(u, reading[w].victim))
            /\ AskFits(reading[u])
    BY <1>1 DEF RestartPool, ReadTypes, AskFits, AskFields
<1>7. ASSUME NEW u \in Readings
      PROVE /\ reading'[u].pc \in {reading[u].pc, "flush", "end"} /\ reading'[u].pc \in {"new", "flush", "end"}
            /\ reading[u].pc # "new" <=> reading'[u].pc # "new"
            /\ Going(u)' => reading'[u].pc = "flush" /\ Going(u) /\ pending[KeyOf(u)] = u
            /\ reading'[u].pc = "flush" => Going(u) /\ pending[KeyOf(u)] = u
    BY <1>6 DEF Going
<1>8. ASSUME NEW u \in Readings, reading'[u].pc = "flush"
      PROVE Dropped(u) /\ Changing(u) /\ reading[u].kind # "read" /\ KeyOf(u) \in Keys /\ Cleared(KeyOf(u))
  <2>1. reading[u].pc \in {"flush", "flushed"}
    <3>1. Going(u) /\ pending[KeyOf(u)] = u
        BY <1>7, <1>8
    <3> QED
        BY <3>1 DEF ReadInv, FlushFits
  <2> QED
      BY <1>6, <2>1 DEF ReadInv, Dropped, Changing, Going, AskFits, KeyOf, ChangePCs
<1>9. \A u \in Readings : AskFits(reading'[u])
  <2> SUFFICES ASSUME NEW u \in Readings PROVE AskFits(reading'[u])
      OBVIOUS
  <2>1. reading'[u].met \in BOOLEAN /\ reading'[u].pc \in {"new", "flush", "end"}
      BY <1>6, <1>7 DEF AskFits
  <2>2. reading'[u].pc # "new" => reading'[u].key \in Keys
      BY <1>6, <1>7 DEF AskFits
  <2>3. reading'[u].pc = "flush" => reading'[u].kind # "read"
      BY <1>6, <1>8
  <2>4. /\ DOMAIN reading'[u] = AskFields /\ reading'[u] = [x \in AskFields |-> reading'[u][x]]
        /\ reading'[u].kind \in ReadKinds /\ reading'[u].data \in Told /\ reading'[u].info \in Told
        /\ reading'[u].victim = Absent
      BY <1>6 DEF AskFits
  <2> QED
      BY <2>1, <2>2, <2>3, <2>4 DEF AskFits, ReadPCs, ChangePCs
<1>10. ReadTypes'
  <2>1. reading' = [u \in Readings |-> reading'[u]]
      BY DEF RestartPool
  <2>2. \A x \in Keys : ByFits(entry[x])' /\ ByFits(bin[x])' /\ ByFits(json[x])'
    <3> SUFFICES ASSUME NEW x \in Keys PROVE ByFits(entry[x])' /\ ByFits(bin[x])' /\ ByFits(json[x])'
        OBVIOUS
    <3>1. ByFits(entry[x]) /\ ByFits(bin[x]) /\ ByFits(json[x])
        BY <1>1 DEF ReadTypes
    <3> QED
        BY <1>5, <1>7, <3>1 DEF ByFits
  <2>3. \A x \in Keys : pending'[x] \in Readings => reading'[pending'[x]].pc # "new"
      BY <1>1, <1>7 DEF ReadTypes
  <2>4. \A x \in Keys : /\ primary'[x] \in Told /\ entry'[x] \in Held \cup {Absent}
                        /\ json'[x] # Absent => json'[x].info \in Told
      BY <1>1, <1>5 DEF ReadTypes
  <2> QED
      BY <1>1, <1>3, <1>9, <2>1, <2>2, <2>3, <2>4 DEF ReadTypes
\* Who wrote the files of a key that were being removed is excused.
<1>11. ASSUME NEW x \in Keys, Removing(x)
       PROVE /\ bin[x] # Absent => reading'[bin[x].by].met
             /\ json[x] # Absent => reading'[json[x].by].met
  <2>1. PICK w \in Readings : reading[w].pc \in {"rmBin", "rmJson"} /\ reading[w].victim = x
      BY <1>11 DEF Removing
  <2>2. reading[w].victim # Absent
      BY <2>1, ReadAssumption
  <2>3. /\ bin[x] # Absent => bin[x].by \in Readings
        /\ json[x] # Absent => json[x].by \in Readings
      BY <1>1 DEF ReadTypes, ByFits
  <2>4. bin[x] # Absent => Wrote(bin[x].by, reading[w].victim)
      BY <2>1 DEF Wrote
  <2>5. json[x] # Absent => Wrote(json[x].by, reading[w].victim)
      BY <2>1 DEF Wrote
  <2> QED
      BY <1>6, <2>2, <2>3, <2>4, <2>5
<1>12. ASSUME NEW x \in Keys
       PROVE /\ bin[x] # Absent /\ reading[bin[x].by].met => reading'[bin[x].by].met
             /\ json[x] # Absent /\ reading[json[x].by].met => reading'[json[x].by].met
    BY <1>1, <1>6 DEF ReadTypes, ByFits
<1>13. ASSUME NEW x \in Keys, Cleared(x) PROVE Cleared(x)'
  <2>1. json[x] # Absent => reading'[json[x].by].met
      BY <1>11, <1>12, <1>13 DEF Cleared, Excused
  <2>2. \A u \in Readings : reading'[u].pc \notin {"json", "insert"}
      BY <1>7
  <2> QED
      BY <1>5, <2>1, <2>2 DEF Cleared, Excused
<1>14. ASSUME NEW x \in Keys PROVE EntryFits(x)' /\ BinFits(x)' /\ JsonFits(x)' /\ JsonHeld(x)'
  <2>1. BinFits(x) /\ JsonFits(x)
      BY DEF ReadInv
  <2>2. json'[x] = Absent \/ json[x].info = primary[x] \/ reading'[json[x].by].met
      BY <1>5, <1>11, <1>12, <2>1 DEF JsonFits, Excused
  <2>3. EntryFits(x)' /\ JsonFits(x)' /\ JsonHeld(x)'
      BY <1>1, <1>5, <2>2 DEF EntryFits, JsonFits, JsonHeld, Excused
  <2>4. BinFits(x)'
      BY <1>1, <1>5, <1>12, <1>13, <2>1 DEF BinFits, Excused
  <2> QED
      BY <2>3, <2>4
<1>15. ASSUME NEW u \in Readings PROVE DataFits(u)' /\ FlushFits(u)' /\ (Dropped(u)' => Cleared(KeyOf(u))')
  <2>1. ~(HasData(u)') /\ reading'[u].pc # "flushed" /\ (Dropped(u)' => reading'[u].pc = "flush")
      BY <1>7 DEF HasData, Dropped, ChangePCs
  <2>2. KeyOf(u)' = KeyOf(u)
      BY <1>6 DEF KeyOf
  <2>3. ASSUME NEW x \in Keys, reading'[u].pc = "flush", x = KeyOf(u) PROVE Cleared(x)'
      BY <1>8, <1>13, <2>3
  <2>4. Dropped(u)' => Cleared(KeyOf(u))'
      BY <1>8, <2>1, <2>2, <2>3
  <2> QED
      BY <1>7, <2>1, <2>4 DEF DataFits, FlushFits
<1>16. ASSUME NEW u \in Readings, NEW w \in Readings PROVE Beside(u, w)'
  <2> SUFFICES ASSUME u # w, Going(u)', Changing(w)', (KeyOf(u) = KeyOf(w))' PROVE FALSE
      BY DEF Beside
  <2>1. reading'[u].pc = "flush" /\ reading'[w].pc = "flush"
      BY <1>7 DEF Changing
  <2>2. Changing(u) /\ Changing(w) /\ KeyOf(u) = KeyOf(w)
      BY <1>6, <1>8, <2>1 DEF KeyOf
  <2> QED
      BY <2>2 DEF ReadInv, Beside, Changing
<1> QED
    BY <1>10, <1>14, <1>15, <1>16 DEF ReadInv

LEMMA CacheKeeps == ReadInv /\ [Next]_storageVars => ReadInv'
<1> SUFFICES ASSUME ReadInv, ReadsMoves \/ UNCHANGED readVars PROVE ReadInv'
    BY CacheSteps
<1>1. CASE UNCHANGED readVars
  <2>1. UNCHANGED <<primary, pending, entry, bin, json, reading>>
      BY <1>1 DEF readVars
  <2>2. ReadTypes' /\ \A t, u \in Readings : Beside(t, u)'
      BY <2>1 DEF ReadInv, ReadTypes, ByFits, Beside, Going, Changing, KeyOf
  <2>3. \A k \in Keys : (Cleared(k)' <=> Cleared(k)) /\ (Removing(k)' <=> Removing(k))
      BY <2>1 DEF Cleared, Excused, Removing, KeyOf
  <2>4. \A k \in Keys : EntryFits(k)' /\ BinFits(k)' /\ JsonFits(k)' /\ JsonHeld(k)'
      BY <2>1, <2>3 DEF ReadInv, EntryFits, BinFits, JsonFits, JsonHeld, Excused, KeyOf
  <2>5. \A t \in Readings : DataFits(t)' /\ FlushFits(t)'
      BY <2>1 DEF ReadInv, DataFits, FlushFits, HasData, KeyOf, Going
  <2>6. \A t \in Readings : Dropped(t)' => Cleared(KeyOf(t))'
      BY <2>1 DEF ReadInv, Dropped, Cleared, Excused, Removing, KeyOf
  <2> QED
      BY <2>2, <2>4, <2>5, <2>6 DEF ReadInv
<1> QED
    BY <1>1, BeginningIsRight, LookingIsRight, DroppingIsRight, ChangingIsRight, CachingIsRight, RemovingIsRight,
       ExpiryIsRight, RestartIsRight DEF ReadsMoves

\* What the read cache holds of a key, the blob and its metadata, is what the store holds:
\* however many requests look it up, fill, evict, expire and drop it side by side, and
\* through failures and restarts, unless a change of the key ran beside the request that
\* cached it or a restart cut the removal of its files short.
THEOREM StaleOnlyBeside == Spec => []StaleOnlyFromOverlap
<1>1. ReadInv => StaleOnlyFromOverlap
    BY DEF ReadInv, StaleOnlyFromOverlap, EntryFits, BinFits, Cleared, Excused
<1> QED
    BY <1>1, CacheStarts, CacheKeeps, PTL DEF Spec

-----------------------------------------------------------------------------
(* The bytes of the read cache                                              *)

\* A request that has made room, or is making it, for what it will cache.
Putting(q) == \/ q.pc \in {"room", "bin", "json", "insert"}
              \/ q.pc \in {"rmBin", "rmJson"} /\ q.next = "room"
\* Who comes where may cache what its key holds.
ByKind(q) ==
    /\ q.pc \in {"pending", "get", "blob", "fetch", "stat"} \cup PutPCs => q.kind \in Caching
    /\ q.pc \in {"enqueue", "flush", "flushed"} => q.kind = "cached"
    /\ q.pc \in {"rmBin", "rmJson"} => /\ q.next \in {"fetch", "room"} => q.kind \in Caching
                                       /\ q.next = "enqueue" => q.kind = "cached"
    /\ q.pc = "new" => ~q.twin
\* Two that may cache one key know of each other.
Twins(t, u) == /\ t # u /\ Going(t) /\ Going(u) /\ KeyOf(t) = KeyOf(u)
               /\ reading[t].kind \in Caching /\ reading[u].kind \in Caching
NoTwins == \A t \in Readings : ~reading[t].twin

Mapped == {k \in Keys : entry[k] # Absent}
BytesInv ==
    /\ \A t \in Readings : ByKind(reading[t])
    /\ \A t, u \in Readings : Twins(t, u) => reading[t].twin
    /\ accounted \in Int /\ Used <= accounted
    /\ NoTwins => /\ accounted = Used
                  /\ \A t \in Readings : Putting(reading[t]) => entry[KeyOf(t)] = Absent

LEMMA UsedIsSum == Used = SumOf(KeySize, Mapped) /\ Used' = SumOf(KeySize, Mapped')
    BY DEF Used, Mapped, SumOf, MapThenSumSet, MapThenFoldSet

LEMMA MappedIsFinite == /\ Mapped \in SUBSET Keys /\ IsFiniteSet(Mapped) /\ IsFiniteSet(Mapped')
                        /\ \A k \in Keys : KeySize[k] \in Nat
<1>1. Mapped \in SUBSET Keys /\ Mapped' \in SUBSET Keys
    BY DEF Mapped
<1> QED
    BY <1>1, ReadAssumption, FS_Subset

LEMMA UsedIsNumber == Used \in Nat /\ Used' \in Nat
<1>1. Mapped \in SUBSET Keys /\ Mapped' \in SUBSET Keys
    BY DEF Mapped
<1> QED
    BY <1>1, UsedIsSum, MappedIsFinite, SumsOfParts, ReadAssumption

\* An entry that comes or goes makes its difference.
LEMMA UsedChanges ==
    ASSUME NEW k \in Keys, \A x \in Keys \ {k} : entry'[x] = entry[x]
    PROVE /\ entry[k] # Absent /\ entry'[k] = Absent => Used' = Used - KeySize[k]
          /\ entry[k] = Absent /\ entry'[k] # Absent => Used' = Used + KeySize[k]
          /\ (entry[k] = Absent) = (entry'[k] = Absent) => Used' = Used
<1>1. CASE entry[k] # Absent /\ entry'[k] = Absent
  <2>1. k \in Mapped /\ Mapped' = Mapped \ {k}
      BY <1>1 DEF Mapped
  <2>2. SumOf(KeySize, Mapped) = KeySize[k] + SumOf(KeySize, Mapped')
      BY <2>1, MappedIsFinite, SumOfOneMore
  <2> QED
      BY <1>1, <2>2, UsedIsSum, UsedIsNumber, MappedIsFinite
<1>2. CASE entry[k] = Absent /\ entry'[k] # Absent
  <2>1. k \in Mapped' /\ Mapped = Mapped' \ {k} /\ Mapped' \in SUBSET Keys
      BY <1>2 DEF Mapped
  <2>2. SumOf(KeySize, Mapped') = KeySize[k] + SumOf(KeySize, Mapped)
      BY <2>1, MappedIsFinite, SumOfOneMore
  <2> QED
      BY <1>2, <2>2, UsedIsSum, UsedIsNumber, MappedIsFinite
<1>3. CASE (entry[k] = Absent) = (entry'[k] = Absent)
  <2>1. Mapped' = Mapped
      BY <1>3 DEF Mapped
  <2> QED
      BY <1>3, <2>1, UsedIsSum
<1> QED
    BY <1>1, <1>2, <1>3

\* What one request does next: it takes an entry away, or inserts the one it made room for.
LEMMA BytesMove ==
    ASSUME ReadTypes, BytesInv, NEW t \in Readings, NEW me, reading' = [reading EXCEPT ![t] = me],
           Going(t), me.pc # "new", ByKind(me),
           me.key = KeyOf(t), me.kind = reading[t].kind, me.twin = reading[t].twin,
           Putting(me) => Putting(reading[t]) \/ entry'[KeyOf(t)] = Absent,
           \/ UNCHANGED <<entry, accounted>>
           \/ \E k \in Keys : /\ entry[k] # Absent /\ entry' = [entry EXCEPT ![k] = Absent]
                              /\ accounted' = accounted - KeySize[k]
           \/ /\ reading[t].pc = "insert" /\ me.pc = "end" /\ accounted' = accounted + KeySize[KeyOf(t)]
              /\ \E e : e # Absent /\ entry' = [entry EXCEPT ![KeyOf(t)] = e]
    PROVE BytesInv'
<1>1. /\ reading'[t] = me /\ \A u \in Readings \ {t} : reading'[u] = reading[u]
      /\ \A u \in Readings : /\ reading'[u].twin = reading[u].twin /\ KeyOf(u)' = KeyOf(u)
                             /\ reading'[u].kind = reading[u].kind /\ (Going(u)' => Going(u))
    BY DEF ReadTypes, KeyOf, Going
<1>2. \A u \in Readings : ByKind(reading'[u])
    BY <1>1 DEF BytesInv
<1>3. \A u, w \in Readings : Twins(u, w)' => reading'[u].twin
    BY <1>1 DEF BytesInv, Twins
<1>4. (NoTwins' => NoTwins) /\ KeyOf(t) \in Keys
    BY <1>1 DEF NoTwins, ReadTypes, AskFits, KeyOf, Going
<1>5. entry = [k \in Keys |-> entry[k]] /\ Used \in Nat /\ accounted \in Int /\ \A k \in Keys : KeySize[k] \in Nat
    BY UsedIsNumber, MappedIsFinite DEF ReadTypes, BytesInv
<1>6. CASE UNCHANGED <<entry, accounted>>
  <2>1. Used' = Used
      BY <1>4, <1>6, UsedChanges
  <2>2. NoTwins => \A u \in Readings : Putting(reading'[u]) => entry'[KeyOf(u)'] = Absent
      BY <1>1, <1>6 DEF BytesInv
  <2> QED
      BY <1>2, <1>3, <1>4, <1>6, <2>1, <2>2 DEF BytesInv
<1>7. ASSUME NEW k \in Keys, entry[k] # Absent, entry' = [entry EXCEPT ![k] = Absent], accounted' = accounted - KeySize[k]
      PROVE BytesInv'
  <2>1. entry'[k] = Absent /\ \A x \in Keys \ {k} : entry'[x] = entry[x]
      BY <1>5, <1>7
  <2>2. Used' = Used - KeySize[k]
      BY <1>7, <2>1, UsedChanges
  <2>3. NoTwins => \A u \in Readings : Putting(reading'[u]) => entry'[KeyOf(u)'] = Absent
    <3>1. \A u \in Readings : Putting(reading[u]) => KeyOf(u) \in Keys
        BY DEF ReadTypes, AskFits, KeyOf, Putting
    <3> QED
        BY <1>1, <1>4, <2>1, <3>1 DEF BytesInv
  <2> QED
      BY <1>2, <1>3, <1>4, <1>5, <1>7, <2>2, <2>3 DEF BytesInv
<1>8. ASSUME reading[t].pc = "insert", me.pc = "end", accounted' = accounted + KeySize[KeyOf(t)],
             NEW e, e # Absent, entry' = [entry EXCEPT ![KeyOf(t)] = e]
      PROVE BytesInv'
  <2> DEFINE k == KeyOf(t)
  <2>1. entry'[k] = e /\ \A x \in Keys \ {k} : entry'[x] = entry[x]
      BY <1>4, <1>5, <1>8
  <2>2. Used' = IF entry[k] = Absent THEN Used + KeySize[k] ELSE Used
      BY <1>4, <1>8, <2>1, UsedChanges
  <2>3. NoTwins => entry[k] = Absent
      BY <1>8 DEF BytesInv, Putting
  <2>4. ASSUME NoTwins, NEW u \in Readings, Putting(reading'[u]) PROVE entry'[KeyOf(u)'] = Absent
    <3>1. u # t /\ reading'[u] = reading[u] /\ Putting(reading[u])
        BY <1>1, <1>8, <2>4 DEF Putting
    <3>2. reading[u].kind \in Caching /\ reading[t].kind \in Caching /\ Going(u) /\ KeyOf(u) \in Keys
        BY <1>8, <3>1 DEF BytesInv, ByKind, Putting, PutPCs, Going, ReadTypes, AskFits, KeyOf
    <3>3. KeyOf(u) # k
        BY <2>4, <3>1, <3>2 DEF BytesInv, Twins, NoTwins
    <3> QED
        BY <1>1, <2>1, <2>4, <3>1, <3>2, <3>3 DEF BytesInv
  <2> QED
      BY <1>2, <1>3, <1>4, <1>5, <1>8, <2>2, <2>3, <2>4 DEF BytesInv
<1> QED
    BY <1>6, <1>7, <1>8

\* A request goes on, and the entries remain.
LEMMA BytesStay ==
    ASSUME ReadTypes, BytesInv, NEW t \in Readings, NEW p, Step(t, p), UNCHANGED <<entry, accounted>>,
           Going(t), p \notin {"new", "rmBin", "rmJson"},
           p \in {"room", "bin", "json", "insert"} => Putting(reading[t]) \/ entry[KeyOf(t)] = Absent,
           p \in {"pending", "get", "blob", "fetch", "stat"} \cup PutPCs => reading[t].kind \in Caching,
           p \in {"enqueue", "flush", "flushed"} => reading[t].kind = "cached"
    PROVE BytesInv'
<1> DEFINE me == [reading[t] EXCEPT !.pc = p]
<1>1. reading' = [reading EXCEPT ![t] = me]
    BY DEF Step, ReadTypes
<1>2. me.pc = p /\ me.key = KeyOf(t) /\ me.kind = reading[t].kind /\ me.twin = reading[t].twin
    BY DEF ReadTypes, AskFits, AskFields, KeyOf
<1> HIDE DEF me
<1>3. ByKind(me)
    BY <1>2 DEF ByKind
<1>4. Putting(me) => Putting(reading[t]) \/ entry'[KeyOf(t)] = Absent
    BY <1>2 DEF Putting
<1> QED
    BY <1>1, <1>2, <1>3, <1>4, BytesMove

\* An entry leaves the map, if there is one, and its bytes are given back.
LEMMA BytesReturn ==
    ASSUME ReadTypes, BytesInv, NEW t \in Readings, NEW k \in Keys, NEW next, Unmap(t, k, next),
           Going(t), next \in {"fetch", "room", "change", "enqueue"},
           next = "room" => Putting(reading[t]) \/ k = KeyOf(t),
           next \in {"fetch", "room"} => reading[t].kind \in Caching,
           next = "enqueue" => reading[t].kind = "cached"
    PROVE BytesInv'
<1>1. CASE entry[k] = Absent
    BY <1>1, BytesStay DEF Unmap, PutPCs
<1>2. CASE entry[k] # Absent
  <2> DEFINE me == [[[reading[t] EXCEPT !.pc = "rmBin"] EXCEPT !.victim = k] EXCEPT !.next = next]
  <2>1. /\ reading' = [reading EXCEPT ![t] = me] /\ entry' = [entry EXCEPT ![k] = Absent]
        /\ accounted' = accounted - KeySize[k]
      BY <1>2 DEF Unmap, ReadTypes
  <2>2. /\ me.pc = "rmBin" /\ me.next = next /\ me.key = KeyOf(t) /\ me.kind = reading[t].kind
        /\ me.twin = reading[t].twin
      BY DEF ReadTypes, AskFits, AskFields, KeyOf
  <2> HIDE DEF me
  <2>3. ByKind(me)
      BY <2>2 DEF ByKind, PutPCs
  <2>4. entry'[k] = Absent
      BY <2>1 DEF ReadTypes
  <2>5. Putting(me) => Putting(reading[t]) \/ entry'[KeyOf(t)] = Absent
      BY <2>2, <2>4 DEF Putting
  <2> QED
      BY <1>2, <2>1, <2>2, <2>3, <2>5, BytesMove
<1> QED
    BY <1>1, <1>2

\* A request goes on and notes something.
LEMMA BytesNoted ==
    ASSUME ReadTypes, BytesInv, NEW t \in Readings, NEW p, NEW me, UNCHANGED <<entry, accounted>>, Going(t),
           reading' = [reading EXCEPT ![t] = me], me.pc = p, me.key = KeyOf(t), me.kind = reading[t].kind,
           me.twin = reading[t].twin,
           \/ p \in {"stat", "put"} /\ reading[t].kind \in Caching
           \/ p = "rmBin" /\ me.next = "end"
           \/ reading[t].pc = "rmJson" /\ p = reading[t].next
    PROVE BytesInv'
<1>1. AskFits(reading[t]) /\ ByKind(reading[t])
    BY DEF ReadTypes, BytesInv
<1>2. p # "new" /\ ByKind(me)
    BY <1>1 DEF AskFits, ByKind, PutPCs
<1>3. Putting(me) => Putting(reading[t])
    BY <1>1 DEF AskFits, Putting
<1> QED
    BY <1>2, <1>3, BytesMove

LEMMA BytesOfReads ==
    ASSUME ReadTypes, BytesInv, NEW t \in Readings,
           AskWriteCache(t) \/ Get(t) \/ ReadBlobFile(t) \/ Fetch(t) \/ StatFetched(t)
    PROVE BytesInv'
<1>1. AskFits(reading[t]) /\ ByKind(reading[t]) /\ KeyOf(t) = reading[t].key
    BY DEF ReadTypes, BytesInv, KeyOf
<1>2. Going(t) /\ KeyOf(t) \in Keys /\ reading[t].kind \in Caching /\ reading = [u \in Readings |-> reading[u]]
    BY <1>1 DEF AskWriteCache, Get, ReadBlobFile, Fetch, StatFetched, AtRead, Going, AskFits, ByKind, ReadTypes
<1>3. CASE AskWriteCache(t)
    BY <1>2, <1>3, BytesStay DEF AskWriteCache, PutPCs
<1>4. CASE Get(t)
    BY <1>2, <1>4, BytesStay, BytesReturn DEF Get, PutPCs
<1>5. CASE ReadBlobFile(t)
    BY <1>2, <1>5, BytesStay, BytesReturn DEF ReadBlobFile, PutPCs
<1>6. CASE Fetch(t)
  <2>1. CASE Step(t, "end")
      BY <1>2, <1>6, <2>1, BytesStay DEF Fetch, PutPCs
  <2>2. CASE reading' = [reading EXCEPT ![t].pc = "stat", ![t].data = primary[KeyOf(t)]]
    <3> DEFINE me == [[reading[t] EXCEPT !.pc = "stat"] EXCEPT !.data = primary[KeyOf(t)]]
    <3>1. reading' = [reading EXCEPT ![t] = me]
        BY <1>2, <2>2
    <3>2. me.pc = "stat" /\ me.key = KeyOf(t) /\ me.kind = reading[t].kind /\ me.twin = reading[t].twin
        BY <1>1 DEF AskFits, AskFields
    <3> HIDE DEF me
    <3> QED
        BY <1>2, <1>6, <3>1, <3>2, BytesNoted DEF Fetch
  <2> QED
      BY <1>6, <2>1, <2>2 DEF Fetch
<1>7. CASE StatFetched(t)
  <2>1. CASE Step(t, "end")
      BY <1>2, <1>7, <2>1, BytesStay DEF StatFetched, PutPCs
  <2>2. CASE reading' = [reading EXCEPT ![t].pc = "put", ![t].info = primary[KeyOf(t)]]
    <3> DEFINE me == [[reading[t] EXCEPT !.pc = "put"] EXCEPT !.info = primary[KeyOf(t)]]
    <3>1. reading' = [reading EXCEPT ![t] = me]
        BY <1>2, <2>2
    <3>2. me.pc = "put" /\ me.key = KeyOf(t) /\ me.kind = reading[t].kind /\ me.twin = reading[t].twin
        BY <1>1 DEF AskFits, AskFields
    <3> HIDE DEF me
    <3> QED
        BY <1>2, <1>7, <3>1, <3>2, BytesNoted DEF StatFetched
  <2> QED
      BY <1>7, <2>1, <2>2 DEF StatFetched
<1> QED
    BY <1>3, <1>4, <1>5, <1>6, <1>7

\* A change of a key.
LEMMA BytesOfChanges ==
    ASSUME ReadTypes, BytesInv, NEW t \in Readings,
           DropEntry(t) \/ ChangePrimary(t) \/ Enqueue(t) \/ FlushPending(t) \/ DropPending(t)
    PROVE BytesInv'
<1>1. AskFits(reading[t]) /\ ByKind(reading[t]) /\ KeyOf(t) = reading[t].key
    BY DEF ReadTypes, BytesInv, KeyOf
<1>2. Going(t) /\ KeyOf(t) \in Keys /\ reading = [u \in Readings |-> reading[u]]
    BY <1>1 DEF DropEntry, ChangePrimary, Enqueue, FlushPending, DropPending, AtRead, Going, AskFits, ReadTypes
<1>3. CASE DropEntry(t)
    BY <1>2, <1>3, BytesReturn DEF DropEntry
<1>4. CASE ChangePrimary(t)
    BY <1>2, <1>4, BytesStay DEF ChangePrimary, PutPCs
<1>5. CASE Enqueue(t)
    BY <1>1, <1>2, <1>5, BytesStay DEF Enqueue, PutPCs, AtRead, ByKind
<1>6. CASE FlushPending(t)
    BY <1>1, <1>2, <1>6, BytesStay DEF FlushPending, PutPCs, AtRead, ByKind
<1>7. CASE DropPending(t)
  <2> DEFINE me == [[[reading[t] EXCEPT !.pc = "put"] EXCEPT !.data = t] EXCEPT !.info = t]
  <2>1. reading' = [reading EXCEPT ![t] = me]
      BY <1>2, <1>7 DEF DropPending
  <2>2. me.pc = "put" /\ me.key = KeyOf(t) /\ me.kind = reading[t].kind /\ me.twin = reading[t].twin
      BY <1>1 DEF AskFits, AskFields
  <2>3. reading[t].kind \in Caching
      BY <1>1, <1>7 DEF DropPending, AtRead, ByKind, Caching
  <2> HIDE DEF me
  <2> QED
      BY <1>2, <1>7, <2>1, <2>2, <2>3, BytesNoted DEF DropPending
<1> QED
    BY <1>3, <1>4, <1>5, <1>6, <1>7

\* What is cached, and the removal of files.
LEMMA BytesOfPuts ==
    ASSUME ReadTypes, BytesInv, NEW t \in Readings,
           PutRemove(t) \/ MakeRoom(t) \/ WriteBin(t) \/ WriteJson(t) \/ InsertEntry(t) \/ RemoveBin(t) \/ RemoveJson(t)
    PROVE BytesInv'
<1>1. AskFits(reading[t]) /\ ByKind(reading[t]) /\ KeyOf(t) = reading[t].key
    BY DEF ReadTypes, BytesInv, KeyOf
<1>2. Going(t) /\ KeyOf(t) \in Keys /\ reading = [u \in Readings |-> reading[u]]
    BY <1>1 DEF PutRemove, MakeRoom, WriteBin, WriteJson, InsertEntry, RemoveBin, RemoveJson, AtRead, Going, AskFits,
                ReadTypes
<1>3. CASE PutRemove(t)
    BY <1>1, <1>2, <1>3, BytesStay, BytesReturn DEF PutRemove, PutPCs, AtRead, ByKind
<1>4. CASE MakeRoom(t)
  <2>1. Putting(reading[t]) /\ reading[t].kind \in Caching
      BY <1>1, <1>4 DEF MakeRoom, AtRead, Putting, ByKind, PutPCs
  <2> QED
      BY <1>2, <1>4, <2>1, BytesStay, BytesReturn DEF MakeRoom, PutPCs
<1>5. CASE WriteBin(t) \/ WriteJson(t)
  <2>1. Putting(reading[t]) /\ reading[t].kind \in Caching
      BY <1>1, <1>5 DEF WriteBin, WriteJson, AtRead, Putting, ByKind, PutPCs
  <2>2. CASE Step(t, "json") \/ Step(t, "insert")
      BY <1>2, <1>5, <2>1, <2>2, BytesStay DEF WriteBin, WriteJson, PutPCs
  <2>3. CASE reading' = [reading EXCEPT ![t].pc = "rmBin", ![t].victim = KeyOf(t), ![t].next = "end"]
    <3> DEFINE me == [[[reading[t] EXCEPT !.pc = "rmBin"] EXCEPT !.victim = KeyOf(t)] EXCEPT !.next = "end"]
    <3>1. reading' = [reading EXCEPT ![t] = me]
        BY <1>2, <2>3
    <3>2. /\ me.pc = "rmBin" /\ me.key = KeyOf(t) /\ me.kind = reading[t].kind /\ me.twin = reading[t].twin
          /\ me.next = "end"
        BY <1>1 DEF AskFits, AskFields
    <3> HIDE DEF me
    <3> QED
        BY <1>2, <1>5, <3>1, <3>2, BytesNoted DEF WriteBin, WriteJson
  <2> QED
      BY <1>5, <2>2, <2>3 DEF WriteBin, WriteJson
<1>6. CASE InsertEntry(t)
  <2> DEFINE me == [reading[t] EXCEPT !.pc = "end"]
             e == [info |-> reading[t].info, by |-> t, expired |-> FALSE]
  <2>1. /\ reading' = [reading EXCEPT ![t] = me] /\ accounted' = accounted + KeySize[KeyOf(t)]
        /\ entry' = [entry EXCEPT ![KeyOf(t)] = e]
      BY <1>2, <1>6 DEF InsertEntry, Step
  <2>2. me.pc = "end" /\ me.key = KeyOf(t) /\ me.kind = reading[t].kind /\ me.twin = reading[t].twin
      BY <1>1 DEF AskFits, AskFields
  <2>3. e # Absent
    <3>1. e \in Held
        BY <1>1 DEF AskFits, Held, Told
    <3> QED
        BY <3>1, ReadAssumption
  <2> HIDE DEF me, e
  <2>4. ByKind(me) /\ ~Putting(me)
      BY <2>2 DEF ByKind, PutPCs, Putting
  <2> QED
      BY <1>2, <1>6, <2>1, <2>2, <2>3, <2>4, BytesMove DEF InsertEntry, AtRead
<1>7. CASE RemoveBin(t)
  <2> DEFINE me == [reading[t] EXCEPT !.pc = "rmJson"]
  <2>1. reading' = [reading EXCEPT ![t] = me] /\ reading[t].pc = "rmBin"
      BY <1>2, <1>7 DEF RemoveBin, Step, AtRead
  <2>2. /\ me.pc = "rmJson" /\ me.key = KeyOf(t) /\ me.kind = reading[t].kind /\ me.twin = reading[t].twin
        /\ me.next = reading[t].next
      BY <1>1 DEF AskFits, AskFields
  <2> HIDE DEF me
  <2>3. ByKind(me) /\ (Putting(me) => Putting(reading[t]))
      BY <1>1, <2>1, <2>2 DEF ByKind, PutPCs, Putting
  <2> QED
      BY <1>2, <1>7, <2>1, <2>2, <2>3, BytesMove DEF RemoveBin
<1>8. CASE RemoveJson(t)
  <2> DEFINE me == [[reading[t] EXCEPT !.pc = reading[t].next] EXCEPT !.victim = Absent]
  <2>1. reading' = [reading EXCEPT ![t] = me] /\ reading[t].pc = "rmJson"
      BY <1>2, <1>8 DEF RemoveJson, AtRead
  <2>2. me.pc = reading[t].next /\ me.key = KeyOf(t) /\ me.kind = reading[t].kind /\ me.twin = reading[t].twin
      BY <1>1 DEF AskFits, AskFields
  <2> HIDE DEF me
  <2> QED
      BY <1>2, <1>8, <2>1, <2>2, BytesNoted DEF RemoveJson
<1> QED
    BY <1>3, <1>4, <1>5, <1>6, <1>7, <1>8

LEMMA BytesOfExpiry == ASSUME ReadTypes, BytesInv, NEW k \in Keys, Expire(k) PROVE BytesInv'
<1>1. /\ entry[k] # Absent /\ entry[k] \in Held /\ entry' = [entry EXCEPT ![k] = [entry[k] EXCEPT !.expired = TRUE]]
      /\ accounted' = accounted /\ reading' = reading
    BY DEF Expire, ReadTypes
<1>2. entry'[k] # Absent /\ \A x \in Keys \ {k} : entry'[x] = entry[x]
  <2>1. [entry[k] EXCEPT !.expired = TRUE] \in Held
      BY <1>1 DEF Held
  <2> QED
      BY <1>1, <2>1, ReadAssumption DEF ReadTypes
<1>3. Used' = Used
    BY <1>1, <1>2, UsedChanges
<1>4. \A x \in Keys : entry[x] = Absent => entry'[x] = Absent
    BY <1>1, <1>2
<1>5. \A t \in Readings : Putting(reading[t]) => KeyOf(t) \in Keys
    BY DEF ReadTypes, AskFits, KeyOf, Putting
<1> QED
    BY <1>1, <1>3, <1>4, <1>5 DEF BytesInv, Twins, NoTwins, Going, KeyOf

LEMMA BytesOfBeginnings == ASSUME ReadTypes, BytesInv, NEW t \in Readings, BeginReading(t) PROVE BytesInv'
<1>1. PICK kind \in ReadKinds, k \in Keys :
        LET beside == {u \in Readings : Going(u) /\ KeyOf(u) = k}
            caches == {u \in beside : kind \in Caching /\ reading[u].kind \in Caching}
            meets == {u \in beside : kind # "read" \/ Changing(u)}
        IN reading' = [u \in Readings |->
             IF u = t THEN [Fresh EXCEPT !.pc = IF kind = "read" THEN "pending" ELSE "drop",
                                         !.kind = kind, !.key = k, !.data = t, !.info = t,
                                         !.met = meets # {}, !.twin = caches # {}]
             ELSE [reading[u] EXCEPT !.met = @ \/ (u \in meets /\ kind # "read"),
                                     !.twin = @ \/ u \in caches]]
    BY DEF BeginReading
<1> DEFINE beside == {u \in Readings : Going(u) /\ KeyOf(u) = k}
           caches == {u \in beside : kind \in Caching /\ reading[u].kind \in Caching}
<1>2. /\ reading'[t].pc = (IF kind = "read" THEN "pending" ELSE "drop")
      /\ reading'[t].kind = kind /\ reading'[t].key = k /\ reading'[t].twin = (caches # {})
    BY <1>1 DEF Fresh
<1>3. ASSUME NEW u \in Readings \ {t}
      PROVE /\ reading'[u].pc = reading[u].pc /\ reading'[u].kind = reading[u].kind
            /\ reading'[u].key = reading[u].key /\ reading'[u].next = reading[u].next
            /\ reading'[u].twin = (reading[u].twin \/ u \in caches)
  <2>1. DOMAIN reading[u] = AskFields
      BY DEF ReadTypes, AskFits
  <2> DEFINE met == reading[u].met \/ (u \in {w \in beside : kind # "read" \/ Changing(w)} /\ kind # "read")
             twin == reading[u].twin \/ u \in caches
  <2>2. reading'[u] = [[reading[u] EXCEPT !.met = met] EXCEPT !.twin = twin]
      BY <1>1
  <2> HIDE DEF met, caches
  <2> QED
      BY <2>1, <2>2 DEF AskFields
<1> HIDE DEF caches
<1>4. UNCHANGED <<entry, accounted>> /\ AtRead(t, "new")
    BY DEF BeginReading
<1>5. \A u \in Readings : ByKind(reading'[u])
  <2>1. ByKind(reading'[t])
      BY <1>2 DEF ByKind, PutPCs, Caching
  <2>2. ASSUME NEW u \in Readings \ {t} PROVE ByKind(reading'[u])
    <3>1. reading[u].pc = "new" => u \notin caches
        BY DEF caches, Going
    <3> QED
        BY <1>3, <3>1 DEF BytesInv, ByKind
  <2> QED
      BY <2>1, <2>2
<1>6. ASSUME NEW u \in Readings, NEW w \in Readings, Twins(u, w)' PROVE reading'[u].twin
  <2>1. CASE u # t /\ w # t
      BY <1>3, <1>6, <2>1 DEF BytesInv, Twins, Going, KeyOf
  <2>2. CASE u = t
    <3>1. w \in caches
        BY <1>2, <1>3, <1>6, <2>2 DEF Twins, Going, KeyOf, caches
    <3> QED
        BY <1>2, <2>2, <3>1
  <2>3. CASE w = t
    <3>1. u # t
        BY <1>6, <2>3 DEF Twins
    <3>2. u \in caches
        BY <1>2, <1>3, <1>6, <2>3, <3>1 DEF Twins, Going, KeyOf, caches
    <3> QED
        BY <1>3, <3>1, <3>2
  <2> QED
      BY <2>1, <2>2, <2>3
<1>7. NoTwins' => NoTwins
  <2> SUFFICES ASSUME NoTwins', NEW u \in Readings, reading[u].twin PROVE FALSE
      BY DEF NoTwins
  <2>1. CASE u # t
      BY <1>3, <2>1 DEF NoTwins
  <2>2. CASE u = t
      BY <1>4, <2>2 DEF BytesInv, ByKind, AtRead
  <2> QED
      BY <2>1, <2>2
<1>8. ASSUME NEW u \in Readings, Putting(reading'[u])
      PROVE u # t /\ Putting(reading[u]) /\ KeyOf(u)' = KeyOf(u)
    BY <1>2, <1>3, <1>8 DEF Putting, KeyOf
<1>9. Used' = Used
    BY <1>1, <1>4, UsedChanges
<1> QED
    BY <1>4, <1>5, <1>6, <1>7, <1>8, <1>9 DEF BytesInv

LEMMA BytesOfRestarts == ASSUME ReadInv, BytesInv, RestartPool PROVE BytesInv'
<1>1. ReadTypes /\ \A t \in Readings : FlushFits(t) /\ AskFits(reading[t])
    BY DEF ReadInv, ReadTypes
<1>2. PICK loaded \in SUBSET Keys :
        /\ \A k \in Keys : (entry'[k] # Absent) = (k \in loaded)
        /\ accounted' = MapThenSumSet(LAMBDA k : KeySize[k], loaded)
  <2>1. PICK dead \in SUBSET {k \in Keys : json[k] # Absent} :
          LET loaded == {k \in Keys \ dead : json[k] # Absent /\ bin[k] # Absent}
          IN /\ entry' = [k \in Keys |->
                   IF k \in loaded
                   THEN [info |-> json[k].info, by |-> json[k].by, expired |-> FALSE]
                   ELSE Absent]
             /\ accounted' = MapThenSumSet(LAMBDA k : KeySize[k], loaded)
      BY DEF RestartPool
  <2> DEFINE loaded == {k \in Keys \ dead : json[k] # Absent /\ bin[k] # Absent}
  <2>2. ASSUME NEW k \in loaded PROVE [info |-> json[k].info, by |-> json[k].by, expired |-> FALSE] # Absent
    <3>1. [info |-> json[k].info, by |-> json[k].by, expired |-> FALSE] \in Held
        BY <1>1 DEF ReadTypes, ByFits, Held, Told
    <3> QED
        BY <3>1, ReadAssumption
  <2>3. \A k \in Keys : (entry'[k] # Absent) = (k \in loaded)
      BY <2>1, <2>2
  <2>4. accounted' = MapThenSumSet(LAMBDA k : KeySize[k], loaded)
      BY <2>1
  <2> QED
      BY <2>3, <2>4
<1>3. accounted' = SumOf(KeySize, loaded)
    BY <1>2 DEF SumOf, MapThenSumSet, MapThenFoldSet
<1>4. Mapped' = loaded
    BY <1>2 DEF Mapped
<1>5. accounted' = Used' /\ Used' \in Nat
    BY <1>3, <1>4, UsedIsSum, UsedIsNumber
<1>6. ASSUME NEW t \in Readings
      PROVE /\ reading'[t].pc = (IF ~Going(t) THEN reading[t].pc ELSE IF pending[KeyOf(t)] = t THEN "flush" ELSE "end")
            /\ reading'[t].kind = reading[t].kind /\ reading'[t].key = reading[t].key /\ reading'[t].twin = FALSE
  <2> DEFINE pc == IF ~Going(t) THEN reading[t].pc ELSE IF pending[KeyOf(t)] = t THEN "flush" ELSE "end"
             met == reading[t].met \/ \E u \in Readings : reading[u].victim # Absent /\ Wrote(t, reading[u].victim)
  <2>1. DOMAIN reading[t] = AskFields
      BY <1>1 DEF AskFits
  <2>2. reading'[t] = [[[[reading[t] EXCEPT !.pc = pc] EXCEPT !.victim = Absent] EXCEPT !.twin = FALSE] EXCEPT !.met = met]
      BY DEF RestartPool
  <2> HIDE DEF pc, met
  <2>3. /\ reading'[t].pc = pc /\ reading'[t].kind = reading[t].kind /\ reading'[t].key = reading[t].key
        /\ reading'[t].twin = FALSE
      BY <2>1, <2>2 DEF AskFields
  <2> QED
      BY <2>3 DEF pc
<1>7. \A t \in Readings : reading'[t].pc \in {"new", "end", "flush"} /\ (Going(t)' => Going(t) /\ pending[KeyOf(t)] = t)
    BY <1>6 DEF Going
<1>8. ASSUME NEW t \in Readings PROVE ByKind(reading'[t])
  <2>1. CASE reading'[t].pc \in {"new", "end"}
      BY <1>6, <2>1 DEF ByKind, PutPCs
  <2>2. CASE reading'[t].pc = "flush"
    <3>1. Going(t) /\ pending[KeyOf(t)] = t
        BY <1>7, <2>2 DEF Going
    <3>2. reading[t].kind = "cached"
        BY <1>1, <3>1 DEF FlushFits, BytesInv, ByKind
    <3> QED
        BY <1>6, <2>2, <3>2 DEF ByKind, PutPCs
  <2> QED
      BY <1>7, <2>1, <2>2
<1>9. ASSUME NEW t \in Readings, NEW u \in Readings PROVE ~(Twins(t, u)')
  <2>1. KeyOf(t)' = KeyOf(t) /\ KeyOf(u)' = KeyOf(u)
      BY <1>6 DEF KeyOf
  <2>2. Twins(t, u)' => pending[KeyOf(t)] = t /\ pending[KeyOf(u)] = u /\ t # u /\ KeyOf(t) = KeyOf(u)
      BY <1>7, <2>1 DEF Twins
  <2> QED
      BY <2>2
<1>10. \A t \in Readings : ~Putting(reading'[t])
    BY <1>7 DEF Putting
<1> QED
    BY <1>5, <1>8, <1>9, <1>10 DEF BytesInv

LEMMA BytesStart == Init => BytesInv
<1> SUFFICES ASSUME ReadInit PROVE BytesInv
    BY DEF Init
<1>1. Fresh.pc = "new" /\ Fresh.kind = "read" /\ ~Fresh.twin /\ reading = [t \in Readings |-> Fresh]
    BY DEF Fresh, ReadInit
<1>2. Mapped = {} /\ accounted = 0
    BY DEF ReadInit, Mapped
<1>3. Used = 0
    BY <1>2, UsedIsSum, SumOfNothing
<1>4. ByKind(Fresh) /\ ~Putting(Fresh)
    BY <1>1 DEF ByKind, PutPCs, Putting
<1>5. \A t \in Readings : reading[t] = Fresh /\ ~Going(t)
    BY <1>1 DEF Going
<1> QED
    BY <1>2, <1>3, <1>4, <1>5 DEF BytesInv, Twins

LEMMA BytesKept == ReadInv /\ BytesInv /\ [Next]_storageVars => BytesInv'
<1> SUFFICES ASSUME ReadInv, BytesInv, ReadsMoves \/ UNCHANGED readVars PROVE BytesInv'
    BY CacheSteps
<1>1. CASE UNCHANGED readVars
  <2>1. UNCHANGED <<entry, accounted, reading>> /\ Mapped' = Mapped
      BY <1>1 DEF readVars, Mapped
  <2>2. Used' = Used
      BY <2>1, UsedIsSum
  <2> QED
      BY <2>1, <2>2 DEF BytesInv, Twins, NoTwins, Going, KeyOf
<1>2. ReadTypes
    BY DEF ReadInv
<1> QED
    BY <1>1, <1>2, BytesOfBeginnings, BytesOfReads, BytesOfChanges, BytesOfPuts, BytesOfExpiry, BytesOfRestarts
    DEF ReadsMoves

\* The bytes that the read cache accounts for (accounted_bytes) are never fewer than those
\* of its entries, so that the counter never wraps below zero, and they are exactly these
\* as long as no two requests which may cache one key run side by side: through expiry,
\* eviction, changes, failures and restarts, for whatever keys and sizes.
THEOREM BytesAreExact == Spec => []CacheBytesAreExact
<1>1. BytesInv => CacheBytesAreExact
    BY UsedIsNumber DEF BytesInv, CacheBytesAreExact, NoTwins
<1> QED
    BY <1>1, BytesStart, BytesKept, CacheStarts, CacheKeeps, PTL DEF Spec
=============================================================================
