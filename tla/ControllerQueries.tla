-------------------------- MODULE ControllerQueries --------------------------
(***************************************************************************)
(* The CSI controller's queries: ListVolumes, GetCapacity and              *)
(* ValidateVolumeCapabilities.  Each asks volumed once and answers from    *)
(* that; what they have to withstand is that the group changes between two *)
(* of them, by the creations and deletions of other calls.                 *)
(*                                                                         *)
(* The CO lists volumes page by page: it goes on with the next_token it is *)
(* given until it is given none.  It has one query at a time: a query      *)
(* changes nothing, so two of them could not tell of each other.           *)
(***************************************************************************)
EXTENDS Volumed, SequencesExt

CONSTANTS
    MaxEntries,   \* the max_entries the CO may ask with
    Tokens,       \* the tokens the CO may begin with
    Sizes,        \* sizes of volumes that others create
    MaxVolumes,   \* bound: volumes ever created in a behaviour
    NoToken, BadToken, NoQuery

ASSUME QueriesAssumption ==
    /\ MaxEntries \subseteq Int
    /\ Tokens \subseteq Nat \cup {NoToken, BadToken}
    /\ Sizes \subseteq Nat
    /\ MaxVolumes \in Nat
    /\ NoToken # BadToken /\ {NoToken, BadToken} \cap Nat = {}

VARIABLES
    query   \* the query the CO has under way, or the last one

vars == <<vgVars, query>>

ListStatus == {"None", "Ok", "InvalidArgument", "Aborted", "Internal"}

(* shown: the volumes of all pages read.  at: those that existed when the  *)
(* listing began.                                                          *)
Listing ==
    [of : {"list"}, max : MaxEntries, token : Nat \cup {NoToken, BadToken}, status : ListStatus,
     read : BOOLEAN, shown : SUBSET Volume, at : SUBSET Volume]

Host == {"any", "own", "other"}

(* at: the volumes that existed when the capacity was asked for.           *)
CapacityAnswer ==
    [of : {"capacity"}, host : Host, multi : BOOLEAN, bytes : Nat, at : SUBSET Volume]

ValidateAnswer ==
    [of : {"validate"}, status : {"Ok", "NotFound", "InvalidArgument"}]

QueriesTypeOK ==
    /\ VolumeGroupTypeOK
    /\ query \in Listing \cup CapacityAnswer \cup ValidateAnswer \cup {NoQuery}

Init ==
    /\ VolumeGroupInit
    /\ query = NoQuery

-----------------------------------------------------------------------------
(* get_lv_list: all volumes of the group, in whatever order LVM has them.  *)
GetLvList == {all \in [1..Cardinality(lvs) -> lvs] : ToSet(all) = lvs}

(* Mutant: no restriction is a page of no entries.                         *)
EntriesUpTo(all, max) == SubSeq(all, 1, Min({max, Len(all)}))

(* The first max_entries volumes, all of them for zero; start is not used. *)
Entries(all, max) == IF max = 0 THEN all ELSE SubSeq(all, 1, Min({max, Len(all)}))

(* There are more if the page reaches beyond its end, counted from start.  *)
NextToken(start, max, length) == IF start + max < length THEN start + max ELSE NoToken

Of(kind) == query # NoQuery /\ query.of = kind

InListing == Of("list") /\ query.status = "None"

BeginListing(max, token) ==
    /\ ~InListing
    /\ query' = [of |-> "list", max |-> max, token |-> token, status |-> "None",
                   read |-> FALSE, shown |-> {}, at |-> lvs]
    /\ UNCHANGED vgVars

ListRefused ==
    /\ InListing
    /\ query.max < 0 \/ query.token = BadToken
    /\ query' = [query EXCEPT
                   !.status = IF query.max < 0 THEN "InvalidArgument" ELSE "Aborted"]
    /\ UNCHANGED vgVars

ListVolumes ==
    /\ InListing
    /\ query.max >= 0 /\ query.token # BadToken
    /\ \E all \in GetLvList :
         LET start == IF query.token = NoToken THEN 0 ELSE query.token
             page == Entries(all, query.max)
             next == NextToken(start, query.max, Len(page))
         IN  query' = [query EXCEPT
                 !.token = next,
                 !.status = IF next = NoToken THEN "Ok" ELSE "None",
                 !.read = TRUE,
                 !.shown = @ \cup ToSet(page)]
    /\ UNCHANGED vgVars

ListFails ==
    /\ InListing
    /\ query.max >= 0 /\ query.token # BadToken
    /\ query' = [query EXCEPT !.status = "Internal"]
    /\ UNCHANGED vgVars

(***************************************************************************)
(* get_capacity: nothing for multi-node modes, and nothing for the         *)
(* controller's own host.  Its failure answers nothing the CO could use.   *)
(* Mutant: what the group could hold, whatever it holds already.           *)
(***************************************************************************)
GetCapacityOfGroup(host, multi) ==
    IF multi \/ host = "own" THEN 0 ELSE VgSize - Spare

GetCapacity(host, multi) == IF multi \/ host = "own" THEN 0 ELSE GetFreeBytes

AskCapacity(host, multi) ==
    /\ ~InListing
    /\ query' = [of |-> "capacity", host |-> host, multi |-> multi,
                  bytes |-> GetCapacity(host, multi), at |-> lvs]
    /\ UNCHANGED vgVars

(* validate_volume_capabilities: every failed lookup is a missing volume.  *)
Validated(status) ==
    /\ ~InListing
    /\ query' = [of |-> "validate", status |-> status]
    /\ UNCHANGED vgVars

Validate(u) == Validated(IF GetLogicalVolumeByUuid(u) = {} THEN "NotFound" ELSE "Ok")

ValidateRefused == Validated("InvalidArgument")

ValidateFails == Validated("NotFound")

-----------------------------------------------------------------------------
(* What other calls do to the group meanwhile.                             *)
Create(n, size) ==
    /\ Cardinality(born) < MaxVolumes
    /\ \E u \in Uuid :
         CreateLogicalVolume(n, size, [uuid |-> u, name |-> n, size |-> RoundUp(size)])
    /\ UNCHANGED query

Delete(n) ==
    /\ DeleteLogicalVolume(n)
    /\ UNCHANGED query

Next ==
    \/ \E max \in MaxEntries, token \in Tokens : BeginListing(max, token)
    \/ ListRefused
    \/ ListVolumes
    \/ ListFails
    \/ \E host \in Host, multi \in BOOLEAN : AskCapacity(host, multi)
    \/ \E u \in Uuid : Validate(u)
    \/ ValidateRefused
    \/ ValidateFails
    \/ \E n \in LvName : Delete(n) \/ \E size \in Sizes : Create(n, size)

Spec == Init /\ [][Next]_vars

-----------------------------------------------------------------------------
(***************************************************************************)
(* An unrestricted listing misses no volume that existed all the while,    *)
(* whatever is created and deleted between its pages.                      *)
(***************************************************************************)
UnrestrictedShowsAll ==
    Of("list") /\ query.max = 0 /\ query.read
        => query.at \cap lvs \subseteq query.shown

(***************************************************************************)
(* If the group reports unallocated bytes, a volume as large as the        *)
(* capacity that was reported can be created, under every name that is     *)
(* free, as long as no volume has been added since.                        *)
(***************************************************************************)
OfferStaysUsable ==
    ReportsFree /\ Of("capacity")
        => (lvs \subseteq query.at /\ query.bytes % Sector = 0
              => \A n \in LvName : Named(n) = {} => CanAddLv(n, query.bytes))
=============================================================================
