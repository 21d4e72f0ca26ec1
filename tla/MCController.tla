---------------------------- MODULE MCController ----------------------------
(***************************************************************************)
(* Instances of Controller for TLC.  Sizes are counted in units of which   *)
(* an extent has four, a sector two and the smallest volume four.          *)
(***************************************************************************)
EXTENDS Controller, TLC

CONSTANTS c1, c2, u1, u2, u3, l1, l2, n1, n2

MCHash == (n1 :> l1) @@ (n2 :> l2)

Create(n, range) == [op |-> "create", name |-> n, caps |-> TRUE, range |-> range]
Bytes(required) == [required |-> required, limit |-> 0]
Limited(required, limit) == [required |-> required, limit |-> limit]
Deletes == [op : {"delete"}, id : Uuid]

(* Retried and conflicting sizes for one name beside a second name, a size *)
(* that LVM rounds up beyond its limit, one that fills the group; and what *)
(* the handlers turn away: no name, no capabilities, a negative size or    *)
(* limit, a size too small, too large or not of whole sectors, and no id.  *)
SafetyRequests ==
    {Create(n1, NoRange), Create(n1, Limited(6, 6)), Create(n2, NoRange),
     Create(n2, Bytes(12)), Create(NoName, NoRange),
     [Create(n1, NoRange) EXCEPT !.caps = FALSE],
     Create(n1, Bytes(-1)), Create(n1, Limited(4, -1)),
     Create(n1, Bytes(2)), Create(n1, Bytes(5)), Create(n1, Bytes(14)),
     [op |-> "delete", id |-> NoId]} \cup Deletes

(* Two volumes that fit together, beside a size for the second name that   *)
(* LVM rounds up to the other one.                                         *)
RetryRequests ==
    {Create(n1, NoRange), Create(n2, Bytes(8)), Create(n2, Bytes(6))}

(* A size that is no whole number of extents, asked for again and again.   *)
OddSize == {Create(n1, Bytes(6))}

OneVolume == {Create(n1, NoRange)}
OneName == {Create(n1, NoRange)} \cup Deletes
TwoNames == {Create(n1, Bytes(8)), Create(n2, Bytes(8))}

Interchangeable == Permutations(Call) \cup Permutations(Uuid)
=============================================================================
