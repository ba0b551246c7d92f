---------------------------- MODULE MCRunControl ----------------------------
(* Instances of RunControl for TLC: three or four requests. *)
EXTENDS RunControl, TLC

CONSTANTS p, q, s, t, old, new

Symmetric == Permutations(Requests)
=============================================================================
