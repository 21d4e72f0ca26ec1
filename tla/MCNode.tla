------------------------------- MODULE MCNode -------------------------------
(***************************************************************************)
(* Instances of Node for TLC: two volumes, each with its two directories.  *)
(***************************************************************************)
EXTENDS Node, TLC

CONSTANTS c1, c2, v1, v2, s1, s2, t1, t2

MCStaging == (v1 :> s1) @@ (v2 :> s2)
MCTarget == (v1 :> t1) @@ (v2 :> t2)

OneStaging == (v1 :> s1)
OneTarget == (v1 :> t1)

Interchangeable == Permutations(Call)
=============================================================================
