----------------------------- MODULE MCLifecycle -----------------------------
(***************************************************************************)
(* An instance of Lifecycle for TLC: two slots for volumed, so that a new  *)
(* process meets an old one that drains, and one for each other daemon.    *)
(***************************************************************************)
EXTENDS Lifecycle, TLC

CONSTANTS a1, a2, b1, m1, n1

MCRuns ==
    (a1 :> "volumed") @@ (a2 :> "volumed") @@ (b1 :> "controller")
        @@ (m1 :> "mountd") @@ (n1 :> "node")
=============================================================================
