------------------------------ MODULE MCUsage ------------------------------
EXTENDS Usage, TLC
CONSTANTS f1, f2, r1
StoredFiles == f1 :> 1 @@ f2 :> 2
=============================================================================
