---------------------------- MODULE MCWriteCache ----------------------------
(* Instances of WriteCache for TLC.                                         *)
EXTENDS WriteCache, TLC
CONSTANTS a, b, c, e, p, q

\* Two writes to two paths that together exceed the capacity.
OwnPath == a :> p @@ b :> q
Writes == [r \in Requests |-> "write"]
SizeTwoOne == a :> 2 @@ b :> 1

\* Two more writes and a delete race on the second path.
Neighbours == [r \in Requests |-> IF r = a THEN p ELSE q]
OneDelete == [r \in Requests |-> IF r = e THEN "delete" ELSE "write"]
NeighbourSizes == a :> 2 @@ b :> 2 @@ c :> 1 @@ e :> 0
=============================================================================
