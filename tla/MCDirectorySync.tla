--------------------------- MODULE MCDirectorySync ---------------------------
(* Instances of DirectorySync for TLC.                                      *)
EXTENDS DirectorySync, TLC
CONSTANTS m, n, r, s, u, w, d, e, x, y, z

\* One move beside two background requests for its source, a write of a new file
\* and a delete there.
MoveAndOthers == m :> "move" @@ r :> "background" @@ s :> "background" @@ w :> "write" @@ u :> "delete"
MoveAndOthersFrom ==
    m :> <<d, x>> @@ r :> <<d, x>> @@ s :> <<d, x>> @@ w :> <<d, z>> @@ u :> <<d, y>>
MoveAndOthersTo == [MoveAndOthersFrom EXCEPT ![m] = <<e, x>>]
BothNames == {<<d, x>>, <<d, y>>}
Twins == Permutations(Mutexes) \cup Permutations({r, s})

\* Moves in both directions beside a blocking sync.
BothWays == m :> "move" @@ n :> "move" @@ s :> "blocking"
BothWaysFrom == m :> <<d, x>> @@ n :> <<e, y>> @@ s :> <<d, x>>
BothWaysTo == m :> <<e, x>> @@ n :> <<d, y>> @@ s :> <<d, x>>
OneEach == {<<d, x>>, <<e, y>>}

OtherName == {<<d, y>>}
\* A write of a new file, a delete and a sync of one directory.
Unguarding == w :> "write" @@ u :> "delete" @@ s :> "explicit"
UnguardedPaths == w :> <<d, x>> @@ u :> <<d, y>> @@ s :> <<d, x>>
=============================================================================
