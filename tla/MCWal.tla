------------------------------- MODULE MCWal -------------------------------
(* Instances of Wal for TLC.                                                *)
EXTENDS Wal, TLC
CONSTANTS o1, o2, p, q

Request(kind, from, to) == [kind |-> kind, from |-> from, to |-> to]
SmallWrite == Request("write", p, p)

\* Every kind of operation, on two paths that get into each other's way.
Everything == {SmallWrite, Request("delete", p, p), Request("mkdir", p, p),
               Request("mkdir", q, q), Request("copy", p, q), Request("move", p, q),
               Request("trash", p, q), Request("restore", q, p)}
MaySkip == {SmallWrite}

WriteOrDelete == {SmallWrite, Request("delete", p, p)}

Symmetry == Permutations({o1, o2})
=============================================================================
