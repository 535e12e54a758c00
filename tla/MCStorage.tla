----------------------------- MODULE MCStorage -----------------------------
(***************************************************************************)
(* The requests of every part are ra, rb (and rc), so that one             *)
(* permutation serves all of them.                                         *)
(***************************************************************************)
EXTENDS Storage, TLC
CONSTANTS ra, rb, rc
\* ReadCache
CONSTANTS kp, kq
Sizes == kp :> 1 @@ kq :> 2
\* Usage
CONSTANTS f1, f2
OneFile == f1 :> 0 @@ f2 :> 2
\* RecycleBin
CONSTANTS fd, pg, ph, e0, e1, e2
\* Pool
CONSTANTS topd, subd, fl, tmpf, nl
Subtree == topd :> {subd, fl, tmpf, nl} @@ subd :> {nl}
\* Protected
CONSTANTS v1, v2, n1, n2
\* Routing
CONSTANTS p1, p2, NoPool
TwoConfigs ==
    {[role |-> p1, default |-> NoPool, quota |-> 1, mode |-> "encrypt"],
     [role |-> NoPool, default |-> p2, quota |-> 2, mode |-> "obfuscate"]}
SomeChanges == {<<"pool", p2>>, <<"pool", NoPool>>, <<"quota", 3>>, <<"mode", "encrypt">>}
\* Thumbnails
CONSTANTS t1, t2, c1, c2, c3, top1, sub1
HomeFolders == t1 :> sub1 @@ t2 :> top1
ContentSizes == c1 :> "fits" @@ c2 :> "small" @@ c3 :> "large"
\* Transcoding
CONSTANTS k1, k2
\* Mounts
SizesByEdit == <<1, 1, 2, 1>>

Sym == Permutations({ra, rb})
=============================================================================
