---------------------------- MODULE QueriesProofs ----------------------------
(***************************************************************************)
(* Proofs about ControllerQueries, for any volumes, names, sizes and any   *)
(* number of pages.                                                        *)
(*                                                                         *)
(* A volume that is created while a listing is under way was not there     *)
(* when it began, because LVM never uses a uuid twice: that is why the     *)
(* first invariant carries what ever existed.  The second one adds the     *)
(* space: an offer of get_capacity is compared with what the volumes that  *)
(* existed at the time used, and those of them that are left use no more.  *)
(***************************************************************************)
EXTENDS ControllerQueries, GroupProofs

(* A listing under way, field by field, and the volumes it began with.     *)
ListingKnows ==
    /\ query = [of |-> "list", max |-> query.max, token |-> query.token,
                status |-> query.status, read |-> query.read, shown |-> query.shown,
                at |-> query.at]
    /\ query.at \subseteq born

IInv ==
    /\ lvs \subseteq born
    /\ Of("list") => ListingKnows
    /\ UnrestrictedShowsAll

(* No volumes, no query.                                                   *)
THEOREM InitIInv == Init => IInv
  BY DEF Init, VolumeGroupInit, IInv, UnrestrictedShowsAll, Of

-----------------------------------------------------------------------------
(* The query after a page of a listing was answered.                       *)
LEMMA PageAnswer ==
  ASSUME ListingKnows, ListVolumes
  PROVE  \E all, next, code :
           /\ all \in GetLvList
           /\ next = NextToken(IF query.token = NoToken THEN 0 ELSE query.token, query.max,
                               Len(Entries(all, query.max)))
           /\ code = IF next = NoToken THEN "Ok" ELSE "None"
           /\ query' = [of |-> "list", max |-> query.max, token |-> next, status |-> code,
                        read |-> TRUE,
                        shown |-> query.shown \cup ToSet(Entries(all, query.max)),
                        at |-> query.at]
<1> DEFINE Start == IF query.token = NoToken THEN 0 ELSE query.token
           Following(all) == NextToken(Start, query.max, Len(Entries(all, query.max)))
           Code(all) == IF Following(all) = NoToken THEN "Ok" ELSE "None"
<1>1. PICK all \in GetLvList :
        query' = [query EXCEPT !.token = Following(all), !.status = Code(all), !.read = TRUE,
                               !.shown = @ \cup ToSet(Entries(all, query.max))]
  BY Zenon DEF ListVolumes
<1>2. PICK next, code : next = Following(all) /\ code = Code(all)
  OBVIOUS
<1>3. code = IF next = NoToken THEN "Ok" ELSE "None"
  BY <1>2
<1> HIDE DEF Following, Code
<1> PICK page : page = ToSet(Entries(all, query.max))
  OBVIOUS
<1>4. PICK m, t, st, r, sh, begun :
        query = [of |-> "list", max |-> m, token |-> t, status |-> st, read |-> r,
                 shown |-> sh, at |-> begun]
  BY Zenon DEF ListingKnows
<1>5. query.max = m /\ query.shown = sh /\ query.at = begun
  BY <1>4
<1>6. query' = [query EXCEPT !.token = next, !.status = code, !.read = TRUE,
                             !.shown = sh \cup page]
  BY <1>1, <1>2, <1>5
<1>7. query' = [of |-> "list", max |-> m, token |-> next, status |-> code,
                read |-> TRUE, shown |-> sh \cup page, at |-> begun]
  BY <1>4, <1>6
<1>8. query' = [of |-> "list", max |-> query.max, token |-> next, status |-> code,
                read |-> TRUE, shown |-> query.shown \cup ToSet(Entries(all, query.max)),
                at |-> query.at]
  BY <1>5, <1>7
<1>9. next = NextToken(IF query.token = NoToken THEN 0 ELSE query.token, query.max,
                       Len(Entries(all, query.max)))
  BY <1>2 DEF Following
<1> QED
  BY <1>3, <1>8, <1>9, Zenon

(* A query changes nothing in the group, and only a listing shows volumes. *)
LEMMA ListingStep ==
  ASSUME IInv, ListRefused \/ ListVolumes \/ ListFails
  PROVE  IInv'
<1>1. Of("list") /\ ListingKnows /\ lvs' = lvs /\ born' = born
  BY DEF IInv, ListRefused, ListVolumes, ListFails, InListing, vgVars
<1>2. CASE ListRefused \/ ListFails
  <2>1. PICK code : query' = [query EXCEPT !.status = code]
    BY <1>2 DEF ListRefused, ListFails
  <2>2. query' = [of |-> "list", max |-> query.max, token |-> query.token,
                  status |-> code, read |-> query.read, shown |-> query.shown,
                  at |-> query.at]
    BY <1>1, <2>1 DEF ListingKnows
  <2> QED
    BY <1>1, <2>2 DEF IInv, ListingKnows, UnrestrictedShowsAll, Of
<1>3. CASE ListVolumes
  <2>1. PICK all, next, code :
          /\ all \in GetLvList
          /\ query' = [of |-> "list", max |-> query.max, token |-> next, status |-> code,
                       read |-> TRUE,
                       shown |-> query.shown \cup ToSet(Entries(all, query.max)),
                       at |-> query.at]
    BY <1>1, <1>3, PageAnswer
  <2>2. query.max = 0 => ToSet(Entries(all, query.max)) = lvs
    BY <2>1 DEF Entries, GetLvList
  <2> QED
    BY <1>1, <2>1, <2>2 DEF IInv, ListingKnows, UnrestrictedShowsAll, Of
<1> QED
  BY <1>2, <1>3

LEMMA OtherQueryStep ==
  ASSUME IInv,
         \/ \E max \in MaxEntries, token \in Tokens : BeginListing(max, token)
         \/ \E host \in Host, multi \in BOOLEAN : AskCapacity(host, multi)
         \/ \E status : Validated(status)
  PROVE  IInv'
<1>1. CASE \E max \in MaxEntries, token \in Tokens : BeginListing(max, token)
  BY <1>1 DEF BeginListing, vgVars, IInv, ListingKnows, UnrestrictedShowsAll, Of
<1>2. CASE \E host \in Host, multi \in BOOLEAN : AskCapacity(host, multi)
  BY <1>2 DEF AskCapacity, vgVars, IInv, UnrestrictedShowsAll, Of
<1>3. CASE \E status : Validated(status)
  BY <1>3 DEF Validated, vgVars, IInv, UnrestrictedShowsAll, Of
<1> QED
  BY <1>1, <1>2, <1>3

(* A new volume is none of those that existed when the listing began.      *)
LEMMA CreateStep ==
  ASSUME IInv, NEW n \in LvName, NEW size \in Sizes, Create(n, size)
  PROVE  IInv'
<1>1. PICK v : AddLv(v)
  BY DEF Create, CreateLogicalVolume
<1>2. v \notin born /\ lvs' = lvs \cup {v} /\ born' = born \cup {v} /\ query' = query
  BY <1>1 DEF AddLv, Create
<1> QED
  BY <1>2 DEF IInv, ListingKnows, UnrestrictedShowsAll, Of

LEMMA DeleteStep ==
  ASSUME IInv, NEW n \in LvName, Delete(n)
  PROVE  IInv'
<1>1. lvs' \subseteq lvs /\ born' = born /\ query' = query
  BY DEF Delete, DeleteLogicalVolume, RemoveLv
<1> QED
  BY <1>1 DEF IInv, ListingKnows, UnrestrictedShowsAll, Of

(* Every query, creation and deletion keeps it.                            *)
THEOREM NextIInv == IInv /\ [Next]_vars => IInv'
<1> SUFFICES ASSUME IInv, [Next]_vars PROVE IInv'
  OBVIOUS
<1>1. CASE UNCHANGED vars
  BY <1>1 DEF vars, vgVars, IInv, ListingKnows, UnrestrictedShowsAll, Of
<1>2. CASE (\E u \in Uuid : Validate(u)) \/ ValidateRefused \/ ValidateFails
  BY <1>2, OtherQueryStep DEF Validate, ValidateRefused, ValidateFails
<1> QED
  BY <1>1, <1>2, ListingStep, OtherQueryStep, CreateStep, DeleteStep DEF Next

(***************************************************************************)
(* An unrestricted listing misses no volume that existed all the while,    *)
(* whatever is created and deleted between its pages.                      *)
(***************************************************************************)
THEOREM NothingMissed == Spec => []UnrestrictedShowsAll
<1>1. IInv => UnrestrictedShowsAll
  BY DEF IInv
<1> QED
  BY <1>1, InitIInv, NextIInv, PTL DEF Spec

-----------------------------------------------------------------------------
(***************************************************************************)
(* The answers, and what they rest on.  A capacity offered is none, or was *)
(* free beside the volumes that existed then.                              *)
(***************************************************************************)
Query == Listing \cup CapacityAnswer \cup ValidateAnswer \cup {NoQuery}

OfferKnows ==
    ReportsFree /\ Of("capacity") =>
        /\ query.at \subseteq born
        /\ query.bytes = 0 \/ query.bytes <= VgSize - Used(query.at)

(***************************************************************************)
(* list_volumes compares the end of a page with the length of the page,    *)
(* not of the list: a listing restricted to max entries never goes on to a *)
(* second page, however many volumes there are.                            *)
(***************************************************************************)
OnlyOnePage ==
    Of("list") /\ query.max # 0 /\ query.read => query.status # "None"

SpaceInv ==
    /\ GroupSound
    /\ query \in Query
    /\ OfferKnows
    /\ OnlyOnePage

(* The kind of an answer tells its fields.                                 *)
LEMMA ListIsListing ==
  ASSUME query \in Query, Of("list")
  PROVE  query \in Listing
  BY DEF Query, Of, Listing, CapacityAnswer, ValidateAnswer

(* get_free_bytes never goes below zero, and never above what is free.     *)
LEMMA FreeBytesType ==
  ASSUME GroupSound
  PROVE  /\ GetFreeBytes \in Nat
         /\ ReportsFree => GetFreeBytes = 0 \/ GetFreeBytes <= VgSize - Used(lvs)
  BY SoundFacts, VolumeGroupAssumption, VolumedAssumption DEF GetFreeBytes

(* A page shows volumes of the group, and no more than it may.             *)
LEMMA PageFacts ==
  ASSUME GroupSound, NEW all \in GetLvList, NEW max \in Nat
  PROVE  /\ ToSet(Entries(all, max)) \subseteq lvs
         /\ max # 0 => Len(Entries(all, max)) \in 0..max
<1>1. Cardinality(lvs) \in Nat
  BY SoundFacts, FS_CardinalityType
<1>2. all \in Seq(lvs) /\ Len(all) \in Nat /\ ToSet(all) = lvs
  BY <1>1 DEF GetLvList
<1>3. CASE max = 0
  BY <1>2, <1>3 DEF Entries
<1>4. CASE max # 0
  <2> DEFINE n == Min({max, Len(all)})
  <2>1. n \in 0..max /\ n <= Len(all)
    BY <1>2 DEF Min
  <2> HIDE DEF n
  <2>2. Entries(all, max) = SubSeq(all, 1, n)
    BY <1>4 DEF Entries, n
  <2>3. Len(SubSeq(all, 1, n)) = n /\ \A i \in 1..n : SubSeq(all, 1, n)[i] = all[i]
    BY <1>2, <2>1
  <2>4. DOMAIN SubSeq(all, 1, n) = 1..n
    BY <1>2, <2>1
  <2>5. \A i \in 1..n : all[i] \in lvs
    BY <1>2, <2>1
  <2> QED
    BY <2>1, <2>2, <2>3, <2>4, <2>5 DEF ToSet
<1> QED
  BY <1>3, <1>4

(* An empty group with no answer given.                                    *)
LEMMA InitSpace == Init => SpaceInv
  BY InitSound DEF Init, SpaceInv, Query, OfferKnows, OnlyOnePage, Of

(* A page of a listing: what is restricted ends with it.                   *)
LEMMA SpaceListing ==
  ASSUME IInv, SpaceInv, ListRefused \/ ListVolumes \/ ListFails
  PROVE  SpaceInv'
<1>1. /\ Of("list") /\ ListingKnows /\ query \in Listing
      /\ query.status = "None"
      /\ VolumeGroupTypeOK' /\ lvs' = lvs /\ born' = born
  BY ListIsListing
  DEF IInv, SpaceInv, GroupSound, VolumeGroupTypeOK, ListRefused, ListVolumes, ListFails,
      InListing, vgVars
<1>2. GroupSound'
  BY <1>1, SameKeepsSound DEF SpaceInv
<1>3. /\ query.max \in MaxEntries /\ query.max \in Int
      /\ query.token \in Nat \cup {NoToken, BadToken}
      /\ query.read \in BOOLEAN /\ query.shown \subseteq Volume /\ query.at \subseteq Volume
  BY <1>1, QueriesAssumption DEF Listing
<1>4. CASE ListRefused \/ ListFails
  <2>1. PICK code \in ListStatus \ {"None"} : query' = [query EXCEPT !.status = code]
    BY <1>4 DEF ListRefused, ListFails, ListStatus
  <2>2. query' = [of |-> "list", max |-> query.max, token |-> query.token,
                  status |-> code, read |-> query.read, shown |-> query.shown,
                  at |-> query.at]
    BY <1>1, <2>1 DEF ListingKnows
  <2> QED
    BY <1>2, <1>3, <2>2 DEF SpaceInv, Query, Listing, OfferKnows, OnlyOnePage, Of
<1>5. CASE ListVolumes
  <2>1. PICK all, next, code :
           /\ all \in GetLvList
           /\ next = NextToken(IF query.token = NoToken THEN 0 ELSE query.token, query.max,
                               Len(Entries(all, query.max)))
           /\ code = IF next = NoToken THEN "Ok" ELSE "None"
           /\ query' = [of |-> "list", max |-> query.max, token |-> next, status |-> code,
                        read |-> TRUE,
                        shown |-> query.shown \cup ToSet(Entries(all, query.max)),
                        at |-> query.at]
    BY <1>1, <1>5, PageAnswer
  <2>2. PICK start \in Nat : start = IF query.token = NoToken THEN 0 ELSE query.token
    BY <1>3, <1>5, QueriesAssumption DEF ListVolumes
  <2>3. query.max \in Nat
    <3>1. query.max >= 0
      BY <1>5, Zenon DEF ListVolumes
    <3> QED
      BY <1>3, <3>1
  <2>4. /\ ToSet(Entries(all, query.max)) \subseteq Volume
        /\ query.max # 0 => Len(Entries(all, query.max)) \in 0..query.max
    BY <2>1, <2>3, PageFacts DEF SpaceInv, GroupSound, VolumeGroupTypeOK
  <2>5. next \in Nat \cup {NoToken} /\ (query.max # 0 => next = NoToken)
    BY <2>1, <2>2, <2>3, <2>4 DEF NextToken
  <2>6. code \in ListStatus /\ (query.max # 0 => code # "None")
    BY <2>1, <2>5 DEF ListStatus
  <2>7. query.shown \cup ToSet(Entries(all, query.max)) \in SUBSET Volume
    BY <1>3, <2>4
  <2>8. query' \in Listing
    BY <1>3, <2>1, <2>5, <2>6, <2>7 DEF Listing
  <2> QED
    BY <1>2, <2>1, <2>6, <2>8 DEF SpaceInv, Query, OfferKnows, OnlyOnePage, Of
<1> QED
  BY <1>4, <1>5

(* Queries that are answered at once.                                      *)
LEMMA SpaceOther ==
  ASSUME SpaceInv,
         \/ \E max \in MaxEntries, token \in Tokens : BeginListing(max, token)
         \/ \E host \in Host, multi \in BOOLEAN : AskCapacity(host, multi)
         \/ \E status \in {"Ok", "NotFound", "InvalidArgument"} : Validated(status)
  PROVE  SpaceInv'
<1>1. VolumeGroupTypeOK' /\ lvs' = lvs /\ born' = born
  BY DEF SpaceInv, GroupSound, VolumeGroupTypeOK, BeginListing, AskCapacity, Validated, vgVars
<1>2. GroupSound'
  BY <1>1, SameKeepsSound DEF SpaceInv
<1>3. lvs \subseteq Volume /\ lvs \subseteq born
  BY DEF SpaceInv, GroupSound, VolumeGroupTypeOK
<1>4. CASE \E max \in MaxEntries, token \in Tokens : BeginListing(max, token)
  BY <1>2, <1>3, <1>4, QueriesAssumption
  DEF BeginListing, SpaceInv, Query, Listing, ListStatus, OfferKnows, OnlyOnePage, Of
<1>5. CASE \E host \in Host, multi \in BOOLEAN : AskCapacity(host, multi)
  <2>1. PICK host \in Host, multi \in BOOLEAN : AskCapacity(host, multi)
    BY <1>5
  <2>2. PICK n \in Nat : /\ n = GetCapacity(host, multi)
                         /\ ReportsFree => n = 0 \/ n <= VgSize - Used(lvs)
    BY FreeBytesType DEF SpaceInv, GetCapacity
  <2>3. query' = [of |-> "capacity", host |-> host, multi |-> multi, bytes |-> n, at |-> lvs]
    BY <2>1, <2>2 DEF AskCapacity
  <2>4. query' \in CapacityAnswer
    BY <1>3, <2>3 DEF CapacityAnswer
  <2> QED
    BY <1>1, <1>2, <1>3, <2>2, <2>3, <2>4 DEF SpaceInv, Query, OfferKnows, OnlyOnePage, Of
<1>6. CASE \E status \in {"Ok", "NotFound", "InvalidArgument"} : Validated(status)
  BY <1>2, <1>6 DEF Validated, SpaceInv, Query, ValidateAnswer, OfferKnows, OnlyOnePage, Of
<1> QED
  BY <1>4, <1>5, <1>6

(* Volumes come and go; the answer already given stays what it was.        *)
LEMMA SpaceGroup ==
  ASSUME SpaceInv,
         \E n \in LvName : Delete(n) \/ \E size \in Sizes : Create(n, size)
  PROVE  SpaceInv'
<1>1. GroupSound' /\ born \subseteq born' /\ query' = query
  <2>1. ASSUME NEW n \in LvName, Delete(n)
        PROVE  GroupSound' /\ born \subseteq born' /\ query' = query
    <3>1. PICK v \in lvs : RemoveLv(v)
      BY <2>1 DEF Delete, DeleteLogicalVolume, Named
    <3> QED
      BY <2>1, <3>1, RemoveKeepsSound DEF SpaceInv, RemoveLv, Delete
  <2>2. ASSUME NEW n \in LvName, NEW size \in Sizes, Create(n, size)
        PROVE  GroupSound' /\ born \subseteq born' /\ query' = query
    <3>1. PICK u \in Uuid :
            CreateLogicalVolume(n, size, [uuid |-> u, name |-> n, size |-> RoundUp(size)])
      BY <2>2 DEF Create
    <3>2. size \in Nat
      BY QueriesAssumption
    <3>3. PICK v \in Volume : v.size = RoundUp(size) /\ AddLv(v)
      BY <3>1, <3>2, RoundUpWhole DEF CreateLogicalVolume, Volume
    <3>4. v.size % Extent = 0 /\ v.size <= VgFree
      BY <3>1, <3>2, <3>3, RoundUpWhole DEF CreateLogicalVolume, CanAddLv
    <3> QED
      BY <2>2, <3>3, <3>4, AddKeepsSound DEF SpaceInv, AddLv, Create
  <2> QED
    BY <2>1, <2>2
<1> QED
  BY <1>1 DEF SpaceInv, OfferKnows, OnlyOnePage, Of

(* Every query, creation and deletion keeps the space accounted for.       *)
LEMMA NextSpace == IInv /\ SpaceInv /\ [Next]_vars => SpaceInv'
<1> SUFFICES ASSUME IInv, SpaceInv, [Next]_vars PROVE SpaceInv'
  OBVIOUS
<1>1. CASE UNCHANGED vars
  <2>1. GroupSound'
    BY <1>1 DEF vars, vgVars, SpaceInv, GroupSound, VolumeGroupTypeOK
  <2> QED
    BY <1>1, <2>1 DEF vars, vgVars, SpaceInv, OfferKnows, OnlyOnePage, Of
<1>2. CASE (\E u \in Uuid : Validate(u)) \/ ValidateRefused \/ ValidateFails
  BY <1>2, SpaceOther DEF Validate, ValidateRefused, ValidateFails
<1> QED
  BY <1>1, <1>2, SpaceListing, SpaceOther, SpaceGroup DEF Next

(* Both invariants hold in every state.                                    *)
THEOREM Space == Spec => [](IInv /\ SpaceInv)
  BY InitIInv, NextIInv, InitSpace, NextSpace, PTL DEF Spec

(***************************************************************************)
(* Type correctness: no query answers with a negative number of bytes, an  *)
(* impossible token or a volume that never existed.                        *)
(***************************************************************************)
THEOREM QueriesTypeCorrect == Spec => []QueriesTypeOK
<1>1. SpaceInv => QueriesTypeOK
  BY DEF SpaceInv, GroupSound, QueriesTypeOK, Query
<1> QED
  BY <1>1, Space, PTL

(***************************************************************************)
(* A capacity that get_capacity reported can still be had in one volume as *)
(* long as nothing was added: the bytes are those the group had free,      *)
(* rounding up to extents included, whatever was deleted since.            *)
(***************************************************************************)
THEOREM OfferUsable == Spec => []OfferStaysUsable
<1>1. SpaceInv => OfferStaysUsable
  <2> SUFFICES ASSUME SpaceInv, ReportsFree, Of("capacity"), lvs \subseteq query.at,
                      NEW n \in LvName, Named(n) = {}
               PROVE  CanAddLv(n, query.bytes)
    BY DEF OfferStaysUsable
  <2>1. query.bytes \in Nat
    BY DEF SpaceInv, Query, Of, Listing, CapacityAnswer, ValidateAnswer
  <2>2. /\ query.at \subseteq born /\ IsFiniteSet(query.at)
        /\ \A v \in query.at : v.size \in Nat
    BY SoundFacts, FS_Subset DEF SpaceInv, OfferKnows, GroupSound
  <2>3. Used(lvs) <= Used(query.at) /\ Used(query.at) \in Nat
    BY <2>2, UsedMonotone, UsedType
  <2>4. query.bytes <= VgFree /\ VgFree \in Nat /\ VgFree % Extent = 0
    BY <2>1, <2>3, SoundFacts, VolumeGroupAssumption DEF SpaceInv, OfferKnows
  <2>5. RoundUp(query.bytes) <= VgFree
    BY <2>1, <2>4, RoundUpFits
  <2> QED
    BY <2>5 DEF CanAddLv
<1> QED
  BY <1>1, Space, PTL

(***************************************************************************)
(* list_volumes compares the end of a page with the length of the page, so *)
(* a restricted listing always ends with its first page, in a group of any *)
(* size: it never shows more than max_entries volumes, although            *)
(* csi.proto:854 wants a next_token when there are more.                   *)
(***************************************************************************)
THEOREM RestrictedReadsOnce == Spec => []OnlyOnePage
<1>1. SpaceInv => OnlyOnePage
  BY DEF SpaceInv
<1> QED
  BY <1>1, Space, PTL
=============================================================================
