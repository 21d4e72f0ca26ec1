------------------------ MODULE ControllerExclusion ------------------------
(***************************************************************************)
(* What the controller promises a CO that keeps its calls apart.           *)
(*                                                                         *)
(* Two of the things that go wrong when calls cross (finding_stale_delete  *)
(* and finding_reserve) are left to the CO by the CSI specification, which *)
(* asks it to have no more than one call in flight for a volume.  Here it  *)
(* is proved that this is enough, and how much of it is needed.  A call    *)
(* that was abandoned is in flight until volumed is done with it: a CO     *)
(* that has given up on a call has not yet kept the rule.                  *)
(***************************************************************************)
EXTENDS ControllerProofs, GroupProofs

(* The names, in the volume group, that a call in flight is about.         *)
Concerns(c) ==
    {n \in LvName :
        \/ pc[c] \in CreateStage /\ n = SafeName(req[c])
        \/ pc[c] \in DeleteStage /\ \E b \in born : b.uuid = req[c].id /\ b.name = n}

Exclusive == \A c, d \in Call : c # d => Concerns(c) \cap Concerns(d) = {}

(* Only one call at a time creates a volume, of whatever name.             *)
OneCreates ==
    \A c, d \in Call : pc[c] \in CreateStage /\ pc[d] \in CreateStage => c = d

-----------------------------------------------------------------------------
(* The stages in which a handler acts on a volume it has learned of.       *)
Holding == {"format", "mkfs", "remove"}

HeldExists == \A c \in Call : pc[c] \in Holding => vol[c] \in lvs

(* A handler learns of a volume that exists at that moment.                *)
LEMMA Learns ==
  ASSUME IInv, [Next]_vars, NEW c \in Call, pc'[c] \in Holding
  PROVE  (pc[c] \in Holding /\ vol'[c] = vol[c]) \/ vol'[c] \in lvs'
<1> DEFINE P == (pc[c] \in Holding /\ vol'[c] = vol[c]) \/ vol'[c] \in lvs'
<1> USE DEF IInv, TypeOK, Holding
<1>1. ASSUME NEW d \in Call, NEW r \in Request, Invoke(d, r) PROVE P
  BY <1>1 DEF Invoke
<1>2. ASSUME NEW d \in Call, CreateStep(d) PROVE P
  <2>1. CASE CheckCapacity(d) \/ FoundNone(d)
    BY <2>1 DEF CheckCapacity, FoundNone, Answer, Await
  <2>2. CASE FoundExisting(d)
    BY <2>2 DEF FoundExisting, GetLogicalVolumeByName, Named, Answer, Await, vgVars
  <2>3. CASE CreateLv(d)
    BY <2>3 DEF CreateLv, CreateLogicalVolume, AddLv, Await
  <2>4. CASE CreateLvRefused(d) \/ FormatRefused(d) \/ FormatEnd(d)
    BY <2>4 DEF CreateLvRefused, FormatRefused, FormatEnd, Answer
  <2>5. CASE FormatBegin(d)
    BY <2>5 DEF FormatBegin
  <2> QED
    BY <1>2, <2>1, <2>2, <2>3, <2>4, <2>5 DEF CreateStep
<1>3. ASSUME NEW d \in Call, DeleteStep(d) PROVE P
  BY <1>3
  DEF DeleteStep, FindTarget, FindNoTarget, RemoveTarget, RemoveRefused, Answer, Await,
      GetLogicalVolumeByUuid, WithUuid, vgVars
<1>4. ASSUME NEW d \in Call, FaultStep(d) PROVE P
  BY <1>4 DEF FaultStep, RpcFails, MkfsFails, Abandon, Dropped, Answer
<1>5. ASSUME NEW v \in lvs, Use(v) \/ Release(v) PROVE P
  BY <1>5 DEF Use, Release
<1>6. CASE UNCHANGED vars
  BY <1>6 DEF vars
<1> QED
  BY <1>1, <1>2, <1>3, <1>4, <1>5, <1>6 DEF Next

(* The name of the volume a handler acts on is one its call is about.      *)
LEMMA HeldConcerns ==
  ASSUME IInv, NEW c \in Call, pc[c] \in Holding
  PROVE  vol[c] \in born /\ vol[c].name \in Concerns(c)
<1>1. vol[c] \in born
  BY DEF IInv, CallInv, CallKnows, CreateKnows, DeleteKnows, Holding, CreateStage, DeleteStage
<1>2. vol[c].name \in LvName
  BY <1>1 DEF IInv, TypeOK, VolumeGroupTypeOK, Volume
<1> QED
  BY <1>1, <1>2
  DEF IInv, CallInv, CallKnows, CreateKnows, DeleteKnows, Holding, CreateStage,
      DeleteStage, Concerns

(* What a step removes is named as the volume its delete_volume found.     *)
LEMMA RemovedBy ==
  ASSUME [Next]_vars, NEW v \in lvs, v \notin lvs'
  PROVE  \E c \in Call : RemoveTarget(c) /\ v.name = vol[c].name
<1>1. PICK c \in Call : RemoveTarget(c)
  BY QuietOtherwise
  DEF CreateLv, CreateLogicalVolume, AddLv, FormatEnd, FormatLogicalVolumeEnd, EndMkfs
<1> QED
  BY <1>1 DEF RemoveTarget, DeleteLogicalVolume, RemoveLv, Named

(***************************************************************************)
(* No volume goes away under a handler that acts on it: the call that      *)
(* removed it would be about the same name.                                *)
(***************************************************************************)
LEMMA HeldStays ==
  ASSUME IInv, Exclusive, HeldExists, [Next]_vars
  PROVE  HeldExists'
<1> SUFFICES ASSUME NEW c \in Call, pc'[c] \in Holding PROVE vol'[c] \in lvs'
  BY DEF HeldExists
<1>1. CASE vol'[c] \in lvs'
  BY <1>1
<1>2. CASE pc[c] \in Holding /\ vol'[c] = vol[c]
  <2>1. vol[c] \in lvs /\ vol[c].name \in Concerns(c)
    BY <1>2, HeldConcerns DEF HeldExists
  <2> SUFFICES ASSUME vol[c] \notin lvs' PROVE FALSE
    BY <1>2
  <2>2. PICK d \in Call : RemoveTarget(d) /\ vol[c].name = vol[d].name
    BY <2>1, RemovedBy
  <2>3. d # c
    BY <2>2 DEF RemoveTarget, Answer, IInv, TypeOK, Holding
  <2>4. vol[d].name \in Concerns(d)
    BY <2>2, HeldConcerns DEF RemoveTarget, Holding
  <2> QED
    BY <2>1, <2>2, <2>3, <2>4 DEF Exclusive
<1> QED
  BY <1>1, <1>2, Learns

(* So it is from the start, and for ever.                                  *)
LEMMA Holds == Spec /\ []Exclusive => []HeldExists
<1>1. Init => HeldExists
  BY DEF Init, HeldExists, Holding
<1> QED
  BY <1>1, HeldStays, Invariance, PTL DEF Spec

(***************************************************************************)
(* delete_volume deletes by a name it looked up before an await, and still *)
(* removes only the volume it was asked to remove, if no other call is     *)
(* about that name meanwhile.                                              *)
(***************************************************************************)
THEOREM ExclusiveDeletes == Spec /\ []Exclusive => DeletesOnlyItsTarget
<1>1. ASSUME IInv, HeldExists, Next, NEW v \in lvs \ lvs'
      PROVE  \E c \in Call : pc[c] = "remove" /\ req[c].id = v.uuid
  <2>1. PICK c \in Call : RemoveTarget(c) /\ v.name = vol[c].name
    BY <1>1, RemovedBy
  <2>2. pc[c] = "remove" /\ vol[c] \in lvs /\ vol[c].uuid = req[c].id
    BY <1>1, <2>1
    DEF RemoveTarget, HeldExists, Holding, IInv, CallInv, CallKnows, DeleteKnows, DeleteStage
  <2>3. v = vol[c]
    BY <1>1, <2>1, <2>2 DEF IInv, GroupInv
  <2> QED
    BY <2>2, <2>3
<1>2. IInv /\ HeldExists /\ [Next]_vars =>
        [\A v \in lvs \ lvs' : \E c \in Call :
            pc[c] = "remove" /\ req[c].id = v.uuid]_vars
  BY <1>1
<1> QED
  BY <1>2, Invariance, Holds, PTL DEF Spec, DeletesOnlyItsTarget

(***************************************************************************)
(* create_volume answers with the volume it learned of two awaits before:  *)
(* under the same rule that volume exists when the CO is given it, and has *)
(* just been formatted.                                                    *)
(***************************************************************************)
GivenExists ==
    [][\A t \in told' \ told : t.vol \in lvs' /\ fs'[t.vol.uuid] = "xfs"]_vars

(* create_volume never gives a volume that a crossing delete removed.      *)
THEOREM ExclusiveGives == Spec /\ []Exclusive => GivenExists
<1>1. ASSUME IInv, HeldExists, Next, NEW t \in told' \ told
      PROVE  t.vol \in lvs' /\ fs'[t.vol.uuid] = "xfs"
  <2>1. PICK c \in Call : FormatEnd(c)
    BY <1>1, QuietOtherwise DEF CreateLv, RemoveTarget
  <2>2. pc[c] = "mkfs" /\ t.vol = vol[c] /\ vol[c] \in lvs /\ vol[c].name = SafeName(req[c])
    BY <1>1, <2>1
    DEF FormatEnd, HeldExists, Holding, IInv, CallInv, CallKnows, CreateKnows, CreateStage
  <2>3. PICK w \in Named(SafeName(req[c])) : EndMkfs(w)
    BY <2>1 DEF FormatEnd, FormatLogicalVolumeEnd
  <2>4. w = vol[c] /\ w.uuid \in Uuid
    BY <1>1, <2>2, <2>3 DEF Named, IInv, GroupInv, TypeOK, VolumeGroupTypeOK, Volume
  <2> QED
    BY <1>1, <2>2, <2>3, <2>4 DEF EndMkfs, IInv, TypeOK, VolumeGroupTypeOK
<1>2. IInv /\ HeldExists /\ [Next]_vars =>
        [\A t \in told' \ told : t.vol \in lvs' /\ fs'[t.vol.uuid] = "xfs"]_vars
  BY <1>1
<1> QED
  BY <1>2, Invariance, Holds, PTL DEF Spec, GivenExists

-----------------------------------------------------------------------------
(***************************************************************************)
(* The reserve.  Between get_free_bytes and create_logical_volume a call   *)
(* relies on the space it has seen.                                        *)
(***************************************************************************)
Relying == {"lookup", "create"}

Reserves(c) == Capacity(req[c]) = 0 \/ Capacity(req[c]) <= VgFree - Spare

ReserveInv ==
    /\ GroupSound
    /\ \A c \in Call : pc[c] \in Relying => Reserves(c)
    /\ VgFree > Spare - Extent
    /\ Spare % Extent = 0 => ReserveKept

(* A call that comes to rely on the space has compared it just now.        *)
LEMMA Relies ==
  ASSUME IInv, [Next]_vars, NEW c \in Call, pc'[c] \in Relying
  PROVE  /\ req'[c] = req[c]
         /\ \/ pc[c] \in Relying
            \/ pc[c] = "free" /\ Capacity(req[c]) <= GetFreeBytes /\ lvs' = lvs
<1> DEFINE P == /\ req'[c] = req[c]
                /\ \/ pc[c] \in Relying
                   \/ pc[c] = "free" /\ Capacity(req[c]) <= GetFreeBytes /\ lvs' = lvs
<1> USE DEF IInv, TypeOK, Relying
<1>1. ASSUME NEW d \in Call, NEW r \in Request, Invoke(d, r) PROVE P
  BY <1>1 DEF Invoke
<1>2. ASSUME NEW d \in Call, CreateStep(d) PROVE P
  <2>1. CASE CheckCapacity(d)
    BY <2>1 DEF CheckCapacity, Answer, Await, vgVars
  <2>2. CASE FoundExisting(d) \/ FoundNone(d) \/ CreateLv(d)
    BY <2>2 DEF FoundExisting, FoundNone, CreateLv, Answer, Await
  <2>3. CASE CreateLvRefused(d) \/ FormatRefused(d) \/ FormatEnd(d) \/ FormatBegin(d)
    BY <2>3 DEF CreateLvRefused, FormatRefused, FormatEnd, FormatBegin, Answer
  <2> QED
    BY <1>2, <2>1, <2>2, <2>3 DEF CreateStep
<1>3. ASSUME NEW d \in Call, DeleteStep(d) PROVE P
  BY <1>3
  DEF DeleteStep, FindTarget, FindNoTarget, RemoveTarget, RemoveRefused, Answer, Await
<1>4. ASSUME NEW d \in Call, FaultStep(d) PROVE P
  BY <1>4 DEF FaultStep, RpcFails, MkfsFails, Abandon, Dropped, Answer
<1>5. ASSUME NEW v \in lvs, Use(v) \/ Release(v) PROVE P
  BY <1>5 DEF Use, Release
<1>6. CASE UNCHANGED vars
  BY <1>6 DEF vars
<1> QED
  BY <1>1, <1>2, <1>3, <1>4, <1>5, <1>6 DEF Next

(* A call that relies asks for a whole number of bytes.                    *)
LEMMA AsksForBytes ==
  ASSUME IInv, NEW c \in Call, pc[c] \in CreateStage
  PROVE  Capacity(req[c]) \in Nat /\ SafeName(req[c]) \in LvName
  BY CreateAsks DEF IInv, CallInv, CallKnows, CreateKnows

(* The free space and the reserve are whole numbers.                       *)
LEMMA NumbersOf ==
  ASSUME GroupSound
  PROVE  VgFree \in Nat /\ VgFree % Extent = 0 /\ Spare \in Nat /\ Extent \in Nat \ {0}
  BY SoundFacts, VolumeGroupAssumption, VolumedAssumption

(* lvcreate takes what the call has reserved, rounded up.                  *)
LEMMA ReserveCreateLv ==
  ASSUME IInv, OneCreates, ReserveInv, NEW c \in Call, CreateLv(c), [Next]_vars
  PROVE  ReserveInv'
<1> DEFINE cap == Capacity(req[c])
<1>1. cap \in Nat /\ SafeName(req[c]) \in LvName /\ pc[c] = "create"
  BY AsksForBytes DEF CreateLv, CreateStage
<1>2. PICK u \in Uuid : CreateLogicalVolume(SafeName(req[c]), cap,
        [uuid |-> u, name |-> SafeName(req[c]), size |-> RoundUp(cap)])
  BY DEF CreateLv
<1>3. PICK v \in Volume : v.size = RoundUp(cap) /\ AddLv(v)
  BY <1>1, <1>2, RoundUpWhole DEF CreateLogicalVolume, Volume
<1>4. RoundUp(cap) \in Nat /\ RoundUp(cap) \in cap..(cap + Extent - 1) /\ RoundUp(cap) % Extent = 0
  BY <1>1, RoundUpWhole
<1>5. GroupSound' /\ VgFree' = VgFree - RoundUp(cap)
  BY <1>2, <1>3, <1>4, AddKeepsSound DEF ReserveInv, CreateLogicalVolume, CanAddLv
<1>6. cap = 0 \/ cap <= VgFree - Spare
  BY <1>1 DEF ReserveInv, Relying, Reserves
<1>7. cap = 0 => RoundUp(cap) = 0
  <2>1. 0 % Extent = 0
    BY VolumeGroupAssumption
  <2> QED
    BY <1>4, <2>1, RoundUpFits
<1> HIDE DEF cap
<1>8. VgFree' > Spare - Extent
  BY <1>1, <1>4, <1>5, <1>6, <1>7, NumbersOf DEF ReserveInv
<1>9. Spare % Extent = 0 => VgFree' >= Spare
  <2> SUFFICES ASSUME Spare % Extent = 0 PROVE VgFree' >= Spare
    OBVIOUS
  <2>1. CASE cap = 0
    BY <1>4, <1>5, <1>7, <2>1, NumbersOf DEF ReserveInv, ReserveKept
  <2>2. CASE cap # 0
    <3>1. (VgFree - Spare) % Extent = 0 /\ VgFree - Spare \in Int
      <4>1. /\ VgFree \in Int /\ VgFree % Extent = 0
            /\ Spare \in Int /\ Spare % Extent = 0
        BY NumbersOf DEF ReserveInv
      <4> QED
        BY <4>1, WholeSum
    <3>2. RoundUp(cap) <= VgFree - Spare
      BY <1>1, <1>6, <2>2, <3>1, RoundUpFits
    <3> QED
      BY <1>4, <1>5, <3>2, NumbersOf DEF ReserveInv
  <2> QED
    BY <2>1, <2>2
<1>10. \A d \in Call : pc'[d] \notin Relying
  BY <1>1 DEF CreateLv, Await, OneCreates, IInv, TypeOK, Relying, CreateStage
<1> QED
  BY <1>5, <1>8, <1>9, <1>10 DEF ReserveInv, ReserveKept

(* No other step leaves less space.                                        *)
LEMMA ReserveOther ==
  ASSUME IInv, VolumeGroupTypeOK', ReserveInv, [Next]_vars, ReportsFree,
         \A c \in Call : ~CreateLv(c)
  PROVE  ReserveInv'
<1>1. GroupSound' /\ VgFree' \in Nat /\ VgFree' >= VgFree
  <2>1. ASSUME NEW c \in Call, RemoveTarget(c)
        PROVE  GroupSound' /\ VgFree' \in Nat /\ VgFree' >= VgFree
    <3>1. PICK w \in lvs : RemoveLv(w)
      BY <2>1 DEF RemoveTarget, DeleteLogicalVolume, Named
    <3>2. w.size \in Nat
      BY DEF ReserveInv, GroupSound, VolumeGroupTypeOK, Volume
    <3> QED
      BY <3>1, <3>2, RemoveKeepsSound, NumbersOf DEF ReserveInv
  <2>2. CASE lvs' = lvs /\ born' = born
    BY <2>2, SameKeepsSound, NumbersOf DEF ReserveInv
  <2>3. ASSUME NEW c \in Call, FormatEnd(c) PROVE lvs' = lvs /\ born' = born
    BY <2>3 DEF FormatEnd, FormatLogicalVolumeEnd, EndMkfs
  <2> QED
    BY <2>1, <2>2, <2>3, QuietOtherwise
<1>2. VgFree \in Nat /\ Spare \in Nat /\ Extent \in Nat
  BY NumbersOf DEF ReserveInv
<1>3. ASSUME NEW c \in Call, pc'[c] \in Relying
      PROVE  Capacity(req[c]) = 0 \/ Capacity(req[c]) <= VgFree' - Spare
  <2>1. CASE pc[c] \in Relying
    <3>1. Capacity(req[c]) \in Nat
      BY <2>1, AsksForBytes DEF Relying, CreateStage
    <3> QED
      BY <1>1, <1>2, <2>1, <3>1 DEF ReserveInv, Reserves
  <2>2. CASE pc[c] = "free" /\ Capacity(req[c]) <= GetFreeBytes
    <3>1. Capacity(req[c]) \in Nat
      BY <2>2, AsksForBytes DEF CreateStage
    <3> QED
      BY <1>1, <1>2, <2>2, <3>1 DEF GetFreeBytes
  <2> QED
    BY <1>3, <2>1, <2>2, Relies
<1>4. \A c \in Call : pc'[c] \in Relying => Reserves(c)'
  BY <1>3, Relies DEF Reserves, Capacity
<1> QED
  BY <1>1, <1>2, <1>4 DEF ReserveInv, ReserveKept

(***************************************************************************)
(* With one creation at a time, deletions, faults and workloads beside it  *)
(* at will, spare_bytes is kept but for less than an extent, which rounding *)
(* up may take; if spare_bytes is a whole number of extents, it is kept.   *)
(* get_free_bytes must report unallocated bytes: otherwise the reserve is  *)
(* compared with the size of the group and nothing keeps it.               *)
(***************************************************************************)
LEMMA ReserveInvariance == ASSUME ReportsFree PROVE Spec /\ []OneCreates => []ReserveInv
<1>1. Init => ReserveInv
  <2> SUFFICES ASSUME Init PROVE ReserveInv
    OBVIOUS
  <2>1. GroupSound /\ Used(lvs) = 0
    BY InitSound, UsedEmpty DEF Init, VolumeGroupInit
  <2>2. VgFree = VgSize
    BY <2>1, SoundFacts, VolumeGroupAssumption
  <2> QED
    BY <2>1, <2>2, VolumeGroupAssumption, VolumedAssumption
    DEF Init, ReserveInv, ReserveKept, Relying
<1>2. ASSUME IInv, IInv', OneCreates, ReserveInv, [Next]_vars PROVE ReserveInv'
  BY <1>2, ReserveCreateLv, ReserveOther DEF IInv, TypeOK
<1> QED
  BY <1>1, <1>2, Invariance, PTL DEF Spec

(* create_volume keeps spare_bytes free, if they are whole extents.        *)
THEOREM SerialReserve ==
  ASSUME ReportsFree, Spare % Extent = 0
  PROVE  Spec /\ []OneCreates => []ReserveKept
<1>1. ReserveInv => ReserveKept
  BY DEF ReserveInv
<1> QED
  BY <1>1, ReserveInvariance, PTL

(* Without that, less than an extent of the reserve may be taken.          *)
ReserveNearlyKept == VgFree > Spare - Extent

(* Otherwise it takes less than an extent of them.                         *)
THEOREM SerialReserveNearly ==
  ASSUME ReportsFree
  PROVE  Spec /\ []OneCreates => []ReserveNearlyKept
<1>1. ReserveInv => ReserveNearlyKept
  BY DEF ReserveInv, ReserveNearlyKept
<1> QED
  BY <1>1, ReserveInvariance, PTL
=============================================================================
