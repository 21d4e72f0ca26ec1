------------------------------ MODULE MCQueries ------------------------------
(***************************************************************************)
(* Instances of ControllerQueries for TLC, with the units of MCController. *)
(***************************************************************************)
EXTENDS ControllerQueries

CONSTANTS l1, l2, l3, u1, u2, u3

(* Restrictions below, at and above the number of volumes, and a wrong one. *)
MCMaxEntries == {-1, 0, 1, 2}
=============================================================================
