------------------------- MODULE MCWriteCacheRaces -------------------------
(* Instances of WriteCacheRaces for TLC: all requests name one path.        *)
EXTENDS WriteCacheRaces, TLC
CONSTANTS a, b, c, p

OnePath == [r \in Requests |-> p]
Writes == [r \in Requests |-> "write"]
TwoWritesOneDelete == a :> "write" @@ b :> "write" @@ c :> "delete"
TwoOneTwo == [r \in Requests |-> IF r = b THEN 1 ELSE 2]
=============================================================================
