-------------------------- MODULE ControllerProofs --------------------------
(***************************************************************************)
(* Proofs about Controller, for any number of calls, names, volumes and    *)
(* requests and any sizes.  The properties follow from an inductive        *)
(* invariant that says what a handler knows while it waits.                *)
(***************************************************************************)
EXTENDS Controller, TLAPS

(***************************************************************************)
(* The volume group: a uuid or, among the existing, a name is that of one  *)
(* volume only.                                                            *)
(***************************************************************************)
GroupInv ==
    /\ lvs \subseteq born
    /\ \A v, w \in born : v.uuid = w.uuid => v = w
    /\ \A v, w \in lvs : v.name = w.name => v = w

(***************************************************************************)
(* A handler: which request it serves, and what it knows of the volume it  *)
(* has learned of, which may have gone and been replaced since.            *)
(***************************************************************************)
SizeFits(c) ==
    vol[c].size \in Capacity(req[c])..(Capacity(req[c]) + Extent - 1)

CreateKnows(c) ==
    /\ req[c] \in CreateRequest
    /\ WellFormed(req[c])
    /\ pc[c] \in {"format", "mkfs"} =>
         /\ vol[c] \in born
         /\ vol[c].name = SafeName(req[c])
         /\ SizeFits(c)

DeleteKnows(c) ==
    /\ req[c] \in DeleteRequest
    /\ pc[c] = "find" => vol[c] = NoVolume
    /\ pc[c] = "remove" => vol[c] \in born /\ vol[c].uuid = req[c].id

CallKnows(c) ==
    /\ pc[c] \in CreateStage => CreateKnows(c)
    /\ pc[c] \in DeleteStage => DeleteKnows(c)
    /\ InFlight(c) => status[c] # "Ok"
    /\ vol[c] \in born \cup {NoVolume}
    /\ pc[c] = "done" /\ status[c] = "Ok" /\ req[c].op = "delete"
         => vol[c] \notin lvs
    /\ pc[c] = "done" /\ status[c] = "Ok" /\ req[c].op = "create"
         => SizeFits(c)

CallInv == \A c \in Call : CallKnows(c)

(* The ledger: what was given existed, under the hash of its name.         *)
LedgerInv ==
    \A t \in told : t.vol \in born /\ t.vol.name = Hash[t.name]

IInv ==
    /\ TypeOK
    /\ GroupInv
    /\ CallInv
    /\ LedgerInv

-----------------------------------------------------------------------------
(* A size rounded up to extents is a size, larger by less than an extent.  *)
LEMMA RoundUpType ==
  ASSUME NEW s \in Nat
  PROVE  RoundUp(s) \in Nat /\ RoundUp(s) \in s..(s + Extent - 1)
  BY VolumeGroupAssumption DEF RoundUp

(* What a request that is being served asks for.                           *)
LEMMA CreateAsks ==
  ASSUME NEW r \in CreateRequest, WellFormed(r)
  PROVE  SafeName(r) \in LvName /\ Capacity(r) \in Nat /\ r.name \in Name
  BY ControllerAssumption DEF CreateRequest, WellFormed, SafeName, Capacity

-----------------------------------------------------------------------------
(* Before the first call everything is known, because nothing is.          *)
THEOREM InitIInv == Init => IInv
  BY ControllerAssumption
  DEF Init, IInv, TypeOK, VolumeGroupInit, VolumeGroupTypeOK, GroupInv, CallInv,
      CallKnows, SizeFits, Capacity, LedgerInv, InFlight, CreateStage, DeleteStage,
      Stage, Status, Content

-----------------------------------------------------------------------------
(***************************************************************************)
(* What each operation on the volume group keeps: its types, the           *)
(* uniqueness of uuids and names, and that a volume once gone stays gone.  *)
(***************************************************************************)
GroupKept ==
    /\ VolumeGroupTypeOK'
    /\ GroupInv'
    /\ born \subseteq born'
    /\ lvs' \cap born \subseteq lvs

LEMMA QuietKeeps ==
  ASSUME VolumeGroupTypeOK, GroupInv, UNCHANGED vgVars
  PROVE  GroupKept
  BY DEF VolumeGroupTypeOK, GroupInv, GroupKept, vgVars

LEMMA AddLvKeeps ==
  ASSUME VolumeGroupTypeOK, GroupInv, NEW v \in Volume, Named(v.name) = {}, AddLv(v)
  PROVE  GroupKept /\ v \in born' /\ v \notin born
  BY DEF VolumeGroupTypeOK, GroupInv, GroupKept, AddLv, Named, Volume

LEMMA RemoveLvKeeps ==
  ASSUME VolumeGroupTypeOK, GroupInv, NEW v \in lvs, RemoveLv(v)
  PROVE  GroupKept /\ lvs' = lvs \ {v}
  BY DEF VolumeGroupTypeOK, GroupInv, GroupKept, RemoveLv, Volume, Content

LEMMA DeviceKeeps ==
  ASSUME VolumeGroupTypeOK, GroupInv, NEW v \in lvs,
         BeginMkfs(v) \/ EndMkfs(v) \/ KillMkfs(v) \/ Attach(v) \/ Detach(v)
  PROVE  GroupKept
  BY DEF VolumeGroupTypeOK, GroupInv, GroupKept, BeginMkfs, EndMkfs, KillMkfs,
         Attach, Detach, Volume, Content

(***************************************************************************)
(* A step of one call disturbs no other call, and if it leaves the group   *)
(* and the ledger alone only the call itself has to be looked at.          *)
(***************************************************************************)
OnlyCall(c) ==
    \A d \in Call \ {c} :
        pc'[d] = pc[d] /\ req'[d] = req[d] /\ vol'[d] = vol[d] /\ status'[d] = status[d]

LEMMA OthersKeep ==
  ASSUME TypeOK, CallInv, GroupKept, NEW c \in Call, OnlyCall(c), CallKnows(c)'
  PROVE  CallInv'
<1> SUFFICES ASSUME NEW d \in Call, d # c PROVE CallKnows(d)'
  BY DEF CallInv
<1> QED
  BY ControllerAssumption
  DEF TypeOK, VolumeGroupTypeOK, CallInv, CallKnows, SizeFits, Capacity, CreateKnows,
      DeleteKnows, GroupKept, OnlyCall, InFlight, WellFormed, SafeName

LEMMA CallStep ==
  ASSUME IInv, NEW c \in Call, GroupKept, UNCHANGED told,
         TypeOK', OnlyCall(c), CallKnows(c)'
  PROVE  IInv'
<1>1. CallInv'
  BY OthersKeep DEF IInv
<1> QED
  BY <1>1 DEF IInv, GroupKept, LedgerInv

LEMMA QuietStep ==
  ASSUME IInv, NEW c \in Call, UNCHANGED <<vgVars, told>>,
         TypeOK', OnlyCall(c), CallKnows(c)'
  PROVE  IInv'
  BY QuietKeeps, CallStep DEF IInv, TypeOK

-----------------------------------------------------------------------------
(* A call arrives.                                                         *)
LEMMA InvokeStep ==
  ASSUME IInv, NEW c \in Call, NEW r \in Request, Invoke(c, r)
  PROVE  IInv'
<1>1. TypeOK'
  BY DEF IInv, TypeOK, VolumeGroupTypeOK, Invoke, vgVars, Stage, CreateStage,
         DeleteStage, Status
<1>2. OnlyCall(c)
  BY DEF IInv, TypeOK, Invoke, OnlyCall
<1>3. CallKnows(c)'
  <2>1. r \in CreateRequest \/ r \in DeleteRequest
    BY ControllerAssumption
  <2> QED
    BY <2>1
    DEF IInv, TypeOK, Invoke, CallKnows, SizeFits, Capacity, CreateKnows, DeleteKnows,
        InFlight, WellFormed, CreateRequest, DeleteRequest, CreateStage, DeleteStage
<1> QED
  BY <1>1, <1>2, <1>3, QuietStep DEF Invoke

(* The steps of create_volume that leave the volume group alone.           *)
LEMMA QuietCreateStep ==
  ASSUME IInv, NEW c \in Call,
         \/ CheckCapacity(c) \/ FoundExisting(c) \/ FoundNone(c)
         \/ CreateLvRefused(c) \/ FormatRefused(c)
  PROVE  IInv'
<1> USE DEF IInv, CallInv
<1>1. TypeOK' /\ OnlyCall(c)
  BY DEF TypeOK, VolumeGroupTypeOK, OnlyCall, CheckCapacity, FoundExisting, FoundNone,
         CreateLvRefused, FormatRefused, CreateLogicalVolumeRefused,
         FormatLogicalVolumeRefused, GetLogicalVolumeByName, Named, Answer, Await,
         vgVars, Stage, CreateStage, DeleteStage, Status
<1>2. req[c] \in CreateRequest /\ WellFormed(req[c]) /\ Capacity(req[c]) \in Nat
  BY CreateAsks
  DEF CallKnows, CreateKnows, CheckCapacity, FoundExisting, FoundNone,
      CreateLvRefused, FormatRefused, CreateStage
<1>3. CallKnows(c)'
  <2> USE DEF TypeOK, GroupInv, CallKnows, CreateKnows, DeleteKnows, SizeFits, Answer,
              Await, vgVars, InFlight, SafeName, Capacity, WellFormed, CreateRequest,
              CreateStage, DeleteStage
  <2>1. CASE CheckCapacity(c) \/ FoundNone(c)
    BY <1>2, <2>1 DEF CheckCapacity, FoundNone
  <2>2. CASE FoundExisting(c)
    BY <1>2, <2>2, VolumeGroupAssumption
    DEF FoundExisting, GetLogicalVolumeByName, Named
  <2>3. CASE CreateLvRefused(c) \/ FormatRefused(c)
    BY <1>2, <2>3
    DEF CreateLvRefused, FormatRefused, CreateLogicalVolumeRefused,
        FormatLogicalVolumeRefused
  <2> QED BY <2>1, <2>2, <2>3
<1> QED
  BY <1>1, <1>3, QuietStep
  DEF CheckCapacity, FoundExisting, FoundNone, CreateLvRefused, FormatRefused,
      CreateLogicalVolumeRefused, FormatLogicalVolumeRefused

LEMMA CreateLvStep ==
  ASSUME IInv, NEW c \in Call, CreateLv(c)
  PROVE  IInv'
<1>1. PICK v \in Volume :
        /\ v.name = SafeName(req[c])
        /\ v.size \in Capacity(req[c])..(Capacity(req[c]) + Extent - 1)
        /\ CreateLogicalVolume(SafeName(req[c]), Capacity(req[c]), v)
        /\ vol' = [vol EXCEPT ![c] = v]
  <2>1. WellFormed(req[c]) /\ req[c] \in CreateRequest
    BY DEF IInv, CallInv, CallKnows, SizeFits, Capacity, CreateKnows, CreateLv,
           CreateStage
  <2>2. /\ SafeName(req[c]) \in LvName
        /\ RoundUp(Capacity(req[c])) \in Nat
        /\ RoundUp(Capacity(req[c])) \in
             Capacity(req[c])..(Capacity(req[c]) + Extent - 1)
    BY <2>1, CreateAsks, RoundUpType
  <2> QED
    BY <2>2 DEF CreateLv, Volume
<1>2. GroupKept /\ v \in born' /\ v \notin born
  BY <1>1, AddLvKeeps DEF CreateLogicalVolume, CanAddLv, IInv, TypeOK
<1>3. TypeOK' /\ OnlyCall(c)
  BY <1>1, <1>2
  DEF IInv, TypeOK, OnlyCall, GroupKept, CreateLv, Await, Stage, CreateStage
<1>4. CallKnows(c)'
  BY <1>1, <1>2
  DEF IInv, TypeOK, CallInv, CallKnows, CreateKnows, SizeFits, CreateLv, Await,
      InFlight, WellFormed, SafeName, Capacity, CreateRequest, CreateStage, DeleteStage
<1> QED
  BY <1>2, <1>3, <1>4, CallStep DEF CreateLv

LEMMA FormatBeginStep ==
  ASSUME IInv, NEW c \in Call, FormatBegin(c)
  PROVE  IInv'
<1>1. GroupKept
  BY DeviceKeeps
  DEF IInv, TypeOK, FormatBegin, FormatLogicalVolumeBegin, Named
<1>2. TypeOK' /\ OnlyCall(c)
  BY <1>1 DEF IInv, TypeOK, OnlyCall, GroupKept, FormatBegin, Stage, CreateStage
<1>3. CallKnows(c)'
  BY <1>1
  DEF IInv, TypeOK, CallInv, CallKnows, SizeFits, Capacity, CreateKnows, GroupKept,
      FormatBegin, InFlight, WellFormed, SafeName, CreateStage, DeleteStage
<1> QED
  BY <1>1, <1>2, <1>3, CallStep DEF FormatBegin

(* The step that enters a volume in the ledger.                            *)
LEMMA FormatEndStep ==
  ASSUME IInv, NEW c \in Call, FormatEnd(c)
  PROVE  IInv'
<1>1. PICK w \in Named(SafeName(req[c])) : EndMkfs(w)
  BY DEF FormatEnd, FormatLogicalVolumeEnd
<1>2. GroupKept
  BY <1>1, DeviceKeeps DEF IInv, TypeOK, Named
<1>3. /\ req[c].name \in Name
      /\ vol[c] \in born
      /\ vol[c].name = SafeName(req[c])
      /\ req[c].op = "create"
  BY CreateAsks
  DEF IInv, CallInv, CallKnows, SizeFits, Capacity, CreateKnows, FormatEnd, CreateStage,
      CreateRequest
<1>5. TypeOK' /\ OnlyCall(c)
  BY <1>2, <1>3
  DEF IInv, TypeOK, VolumeGroupTypeOK, OnlyCall, GroupKept, FormatEnd, Answer,
      Stage, Status, Ledger
<1>6. CallKnows(c)'
  BY <1>2, <1>3
  DEF IInv, TypeOK, CallInv, CallKnows, CreateKnows, SizeFits, GroupKept, FormatEnd,
      Answer, InFlight, Capacity, CreateStage, DeleteStage
<1>7. CallInv'
  BY <1>2, <1>5, <1>6, OthersKeep DEF IInv
<1>8. LedgerInv'
  BY <1>2, <1>3 DEF IInv, LedgerInv, GroupKept, FormatEnd, SafeName
<1> QED
  BY <1>2, <1>5, <1>7, <1>8 DEF IInv, GroupKept

(* The steps of delete_volume that leave the volume group alone.           *)
LEMMA QuietDeleteStep ==
  ASSUME IInv, NEW c \in Call,
         FindTarget(c) \/ FindNoTarget(c) \/ RemoveRefused(c)
  PROVE  IInv'
<1> USE DEF IInv, CallInv
<1>1. TypeOK' /\ OnlyCall(c)
  BY DEF TypeOK, VolumeGroupTypeOK, OnlyCall, FindTarget, FindNoTarget, RemoveRefused,
         DeleteLogicalVolumeRefused, GetLogicalVolumeByUuid, WithUuid, Answer, Await,
         vgVars, Stage, DeleteStage, Status
<1>2. CallKnows(c)'
  BY ControllerAssumption
  DEF TypeOK, VolumeGroupTypeOK, GroupInv, CallKnows, SizeFits, Capacity, DeleteKnows,
      FindTarget, FindNoTarget, RemoveRefused, DeleteLogicalVolumeRefused,
      GetLogicalVolumeByUuid, WithUuid, Answer, Await, vgVars, InFlight, WellFormed,
      DeleteRequest, CreateStage, DeleteStage
<1> QED
  BY <1>1, <1>2, QuietStep
  DEF FindTarget, FindNoTarget, RemoveRefused, DeleteLogicalVolumeRefused

(***************************************************************************)
(* The removal.  It removes the volume that bears the name now, so the one *)
(* that was found is gone: removed here, or it was gone already.           *)
(***************************************************************************)
LEMMA RemoveTargetStep ==
  ASSUME IInv, NEW c \in Call, RemoveTarget(c)
  PROVE  IInv'
<1>1. PICK w \in Named(vol[c].name) : RemoveLv(w)
  BY DEF RemoveTarget, DeleteLogicalVolume
<1>2. GroupKept /\ lvs' = lvs \ {w}
  BY <1>1, RemoveLvKeeps DEF IInv, TypeOK, Named
<1>3. vol[c] \notin lvs'
  BY <1>1, <1>2 DEF IInv, GroupInv, Named
<1>4. TypeOK' /\ OnlyCall(c)
  BY <1>2
  DEF IInv, TypeOK, OnlyCall, GroupKept, RemoveTarget, Answer, Stage, Status
<1>5. CallKnows(c)'
  BY <1>2, <1>3
  DEF IInv, TypeOK, CallInv, CallKnows, DeleteKnows, GroupKept, RemoveTarget, Answer,
      InFlight, DeleteRequest, CreateStage, DeleteStage
<1> QED
  BY <1>2, <1>4, <1>5, CallStep DEF RemoveTarget

(* Faults without effect on the volume group.                              *)
LEMMA QuietFaultStep ==
  ASSUME IInv, NEW c \in Call, RpcFails(c) \/ Abandon(c) \/ Dropped(c)
  PROVE  IInv'
<1> USE DEF IInv, CallInv
<1>1. TypeOK' /\ OnlyCall(c)
  <2> USE DEF TypeOK, VolumeGroupTypeOK, OnlyCall, Fault, vgVars, Stage, Status
  <2>1. CASE RpcFails(c)
    BY <2>1, ControllerAssumption DEF RpcFails, Answer
  <2>2. CASE Abandon(c)
    BY <2>2, ControllerAssumption DEF Abandon
  <2>3. CASE Dropped(c)
    BY <2>3 DEF Dropped
  <2> QED BY <2>1, <2>2, <2>3
<1>2. CallKnows(c)'
  BY ControllerAssumption
  DEF TypeOK, VolumeGroupTypeOK, CallKnows, CreateKnows, DeleteKnows, SizeFits,
      RpcFails, Abandon, Dropped, Answer, vgVars, InFlight, WellFormed, SafeName,
      Capacity, DeleteRequest, CreateStage, DeleteStage
<1> QED
  BY <1>1, <1>2, QuietStep DEF RpcFails, Abandon, Dropped

LEMMA MkfsFailsStep ==
  ASSUME IInv, NEW c \in Call, MkfsFails(c)
  PROVE  IInv'
<1>1. GroupKept
  BY DeviceKeeps
  DEF IInv, TypeOK, MkfsFails, FormatLogicalVolumeKilled, Named
<1>2. TypeOK' /\ OnlyCall(c)
  BY <1>1, ControllerAssumption
  DEF IInv, TypeOK, OnlyCall, GroupKept, MkfsFails, Fault, Answer, Stage, Status
<1>3. CallKnows(c)'
  BY <1>1
  DEF IInv, TypeOK, CallInv, CallKnows, SizeFits, Capacity, CreateKnows, GroupKept,
      MkfsFails, Answer, InFlight, CreateRequest, CreateStage, DeleteStage
<1> QED
  BY <1>1, <1>2, <1>3, CallStep DEF MkfsFails

(* The workloads, and steps of others.                                     *)
LEMMA WorkloadStep ==
  ASSUME IInv, NEW v \in lvs, Use(v) \/ Release(v)
  PROVE  IInv'
<1>1. GroupKept
  BY DeviceKeeps DEF IInv, TypeOK, Use, Release
<1>2. TypeOK'
  BY <1>1 DEF IInv, TypeOK, GroupKept, Use, Release
<1>3. CallInv'
  BY <1>1, ControllerAssumption
  DEF IInv, TypeOK, VolumeGroupTypeOK, CallInv, CallKnows, SizeFits, Capacity,
      CreateKnows, DeleteKnows, GroupKept, Use, Release, InFlight, WellFormed, SafeName
<1> QED
  BY <1>1, <1>2, <1>3
  DEF IInv, GroupKept, LedgerInv, Use, Release

-----------------------------------------------------------------------------
(* Every step of the calls, the faults and the workloads keeps it.         *)
THEOREM NextIInv == IInv /\ [Next]_vars => IInv'
<1> SUFFICES ASSUME IInv, [Next]_vars PROVE IInv'
  OBVIOUS
<1>1. ASSUME NEW c \in Call, NEW r \in Request, Invoke(c, r) PROVE IInv'
  BY <1>1, InvokeStep
<1>2. ASSUME NEW c \in Call, CreateStep(c) PROVE IInv'
  BY <1>2, QuietCreateStep, CreateLvStep, FormatBeginStep, FormatEndStep
  DEF CreateStep
<1>3. ASSUME NEW c \in Call, DeleteStep(c) PROVE IInv'
  BY <1>3, QuietDeleteStep, RemoveTargetStep DEF DeleteStep
<1>4. ASSUME NEW c \in Call, FaultStep(c) PROVE IInv'
  BY <1>4, QuietFaultStep, MkfsFailsStep DEF FaultStep
<1>5. ASSUME NEW v \in lvs, Use(v) \/ Release(v) PROVE IInv'
  BY <1>5, WorkloadStep
<1>6. CASE UNCHANGED vars
  BY <1>6
  DEF vars, vgVars, IInv, TypeOK, VolumeGroupTypeOK, GroupInv, CallInv, CallKnows,
      SizeFits, Capacity, CreateKnows, DeleteKnows, LedgerInv, InFlight, WellFormed, SafeName
<1> QED
  BY <1>1, <1>2, <1>3, <1>4, <1>5, <1>6 DEF Next

(* What a handler knows while it waits is true in every state.             *)
THEOREM Invariance == Spec => []IInv
  BY InitIInv, NextIInv, PTL DEF Spec

-----------------------------------------------------------------------------
(* Every state is of its type.                                             *)
THEOREM TypeCorrect == Spec => []TypeOK
  BY Invariance, PTL DEF IInv

(* A volume that create_volume answered with has the size asked for.       *)
THEOREM Sized == Spec => []SizeHonoured
<1>1. IInv => SizeHonoured
  BY DEF IInv, CallInv, CallKnows, SizeFits, SizeHonoured
<1> QED
  BY <1>1, Invariance, PTL

(* A delete_volume answered OK leaves the volume it had found gone.        *)
THEOREM Deleted == Spec => []FoundIsDeleted
<1>1. IInv => FoundIsDeleted
  BY DEF IInv, CallInv, CallKnows, FoundIsDeleted
<1> QED
  BY <1>1, Invariance, PTL

(* create_volume never gives two volumes of one name that exist together.  *)
LEMMA OnePerNameInv == IInv => OneVolumePerName
  BY DEF IInv, GroupInv, LedgerInv, OneVolumePerName

(* So in every state: retries and crossing calls make no second volume.    *)
THEOREM OnePerName == Spec => []OneVolumePerName
  BY OnePerNameInv, Invariance, PTL

-----------------------------------------------------------------------------
(***************************************************************************)
(* Which steps change the existing volumes, the volumes ever created and   *)
(* the ledger: lvcreate, lvremove and the end of a format.                 *)
(***************************************************************************)
LEMMA QuietOtherwise ==
  ASSUME [Next]_vars
  PROVE  \/ \E c \in Call : CreateLv(c) \/ RemoveTarget(c) \/ FormatEnd(c)
         \/ UNCHANGED <<lvs, born, told>>
<1>1. ASSUME NEW c \in Call, NEW r \in Request, Invoke(c, r)
      PROVE  UNCHANGED <<lvs, born, told>>
  BY <1>1 DEF Invoke, vgVars
<1>2. ASSUME NEW c \in Call, CreateStep(c), ~CreateLv(c), ~FormatEnd(c)
      PROVE  UNCHANGED <<lvs, born, told>>
  BY <1>2
  DEF CreateStep, CheckCapacity, FoundExisting, FoundNone, CreateLvRefused,
      CreateLogicalVolumeRefused, FormatBegin, FormatLogicalVolumeBegin, BeginMkfs,
      FormatRefused, FormatLogicalVolumeRefused, vgVars
<1>3. ASSUME NEW c \in Call, DeleteStep(c), ~RemoveTarget(c)
      PROVE  UNCHANGED <<lvs, born, told>>
  BY <1>3
  DEF DeleteStep, FindTarget, FindNoTarget, RemoveRefused,
      DeleteLogicalVolumeRefused, vgVars
<1>4. ASSUME NEW c \in Call, FaultStep(c)
      PROVE  UNCHANGED <<lvs, born, told>>
  BY <1>4
  DEF FaultStep, RpcFails, MkfsFails, FormatLogicalVolumeKilled, KillMkfs, Abandon,
      Dropped, vgVars
<1>5. ASSUME NEW v \in lvs, Use(v) \/ Release(v)
      PROVE  UNCHANGED <<lvs, born, told>>
  BY <1>5 DEF Use, Release, Attach, Detach
<1>6. CASE UNCHANGED vars
  BY <1>6 DEF vars, vgVars
<1> QED
  BY <1>1, <1>2, <1>3, <1>4, <1>5, <1>6 DEF Next

(***************************************************************************)
(* delete_logical_volume removes no volume whose name differs from that of *)
(* the volume delete_volume was asked to delete.                           *)
(***************************************************************************)
THEOREM Confined == Spec => RemovalConfined
<1>1. ASSUME IInv, Next, NEW v \in lvs \ lvs'
      PROVE  \E c \in Call :
               /\ pc[c] = "remove"
               /\ \A t \in told : t.vol.uuid = req[c].id => Hash[t.name] = v.name
  <2>1. PICK c \in Call : RemoveTarget(c)
    BY <1>1, QuietOtherwise
    DEF CreateLv, CreateLogicalVolume, AddLv, FormatEnd, FormatLogicalVolumeEnd, EndMkfs
  <2>2. v.name = vol[c].name
    BY <1>1, <2>1 DEF RemoveTarget, DeleteLogicalVolume, RemoveLv, Named
  <2>3. pc[c] = "remove" /\ vol[c] \in born /\ vol[c].uuid = req[c].id
    BY <1>1, <2>1
    DEF RemoveTarget, IInv, CallInv, CallKnows, DeleteKnows, DeleteStage
  <2>4. ASSUME NEW t \in told, t.vol.uuid = req[c].id PROVE Hash[t.name] = v.name
    BY <1>1, <2>2, <2>3, <2>4 DEF IInv, LedgerInv, GroupInv
  <2> QED
    BY <2>3, <2>4
<1>2. IInv /\ [Next]_vars =>
        [\A v \in lvs \ lvs' : \E c \in Call :
            /\ pc[c] = "remove"
            /\ \A t \in told : t.vol.uuid = req[c].id => Hash[t.name] = v.name]_vars
  BY <1>1
<1> QED
  BY <1>2, Invariance, PTL DEF Spec, RemovalConfined

-----------------------------------------------------------------------------
(***************************************************************************)
(* A uuid that existed and is not among the volumes is gone for ever, and  *)
(* the CO asks for the deletion of such that existed.                      *)
(***************************************************************************)
WasBorn(u) == \E b \in born : b.uuid = u

GoneForEver(u) == WasBorn(u) /\ WithUuid(u) = {}

TargetKnows(c) ==
    /\ pc[c] \in DeleteStage => WasBorn(req[c].id)
    /\ faults = 0 /\ pc[c] = "done" /\ status[c] = "Ok" /\ req[c].op = "delete"
         => GoneForEver(req[c].id)

TargetInv == \A c \in Call : TargetKnows(c)

LEMMA GoneStays ==
  ASSUME [Next]_vars, NEW u
  PROVE  (WasBorn(u) => WasBorn(u)') /\ (GoneForEver(u) => GoneForEver(u)')
<1>1. CASE UNCHANGED <<lvs, born, told>>
  BY <1>1 DEF WasBorn, GoneForEver, WithUuid
<1>2. ASSUME NEW c \in Call, CreateLv(c)
      PROVE  (WasBorn(u) => WasBorn(u)') /\ (GoneForEver(u) => GoneForEver(u)')
  BY <1>2 DEF CreateLv, CreateLogicalVolume, AddLv, WasBorn, GoneForEver, WithUuid
<1>3. ASSUME NEW c \in Call, RemoveTarget(c)
      PROVE  (WasBorn(u) => WasBorn(u)') /\ (GoneForEver(u) => GoneForEver(u)')
  BY <1>3 DEF RemoveTarget, DeleteLogicalVolume, RemoveLv, WasBorn, GoneForEver, WithUuid
<1>4. ASSUME NEW c \in Call, FormatEnd(c)
      PROVE  (WasBorn(u) => WasBorn(u)') /\ (GoneForEver(u) => GoneForEver(u)')
  BY <1>4
  DEF FormatEnd, FormatLogicalVolumeEnd, EndMkfs, WasBorn, GoneForEver, WithUuid
<1> QED
  BY <1>1, <1>2, <1>3, <1>4, QuietOtherwise

LEMMA TargetOthersKeep ==
  ASSUME TargetInv, [Next]_vars, NEW c \in Call, OnlyCall(c), TargetKnows(c)',
         faults' = 0 => faults = 0
  PROVE  TargetInv'
<1> SUFFICES ASSUME NEW d \in Call, d # c PROVE TargetKnows(d)'
  BY DEF TargetInv
<1>1. pc'[d] = pc[d] /\ req'[d] = req[d] /\ status'[d] = status[d] /\ TargetKnows(d)
  BY DEF OnlyCall, TargetInv
<1> QED
  BY <1>1, GoneStays DEF TargetKnows

(* The calls that change nothing the target depends on.                    *)
LEMMA TargetCreateStep ==
  ASSUME IInv, TargetInv, Next, NEW c \in Call, CreateStep(c)
  PROVE  TargetInv'
<1> USE DEF CreateStep, CheckCapacity, FoundExisting, FoundNone, CreateLv, CreateLvRefused,
            FormatBegin, FormatRefused, FormatEnd, Answer, Await
<1>1. OnlyCall(c) /\ faults' = faults
  BY DEF IInv, TypeOK, OnlyCall
<1>2. /\ pc[c] \in CreateStage /\ req' = req
      /\ pc'[c] \in CreateStage \cup {"done"}
  BY DEF IInv, TypeOK, CreateStage
<1>3. req[c].op = "create"
  BY <1>2 DEF IInv, CallInv, CallKnows, CreateKnows, CreateRequest
<1>4. TargetKnows(c)'
  BY <1>2, <1>3 DEF TargetKnows, CreateStage, DeleteStage
<1> QED
  BY <1>1, <1>4, TargetOthersKeep

LEMMA TargetDeleteStep ==
  ASSUME IInv, IInv', TargetInv, Next, NEW c \in Call, DeleteStep(c)
  PROVE  TargetInv'
<1>1. OnlyCall(c) /\ faults' = faults /\ req' = req /\ pc[c] \in DeleteStage
  BY DEF DeleteStep, FindTarget, FindNoTarget, RemoveTarget, RemoveRefused, Answer, Await,
         IInv, TypeOK, OnlyCall, DeleteStage
<1>2. WasBorn(req[c].id) /\ WasBorn(req[c].id)' /\ status[c] # "Ok"
  BY <1>1, GoneStays
  DEF TargetInv, TargetKnows, IInv, CallInv, CallKnows, InFlight
<1>3. CASE FindTarget(c) \/ RemoveRefused(c)
  <2>1. status'[c] # "Ok"
    BY <1>2, <1>3 DEF FindTarget, RemoveRefused, Answer, Await, IInv, TypeOK
  <2> QED
    BY <1>1, <1>2, <2>1, TargetOthersKeep DEF TargetKnows
<1>4. CASE FindNoTarget(c)
  <2>1. GoneForEver(req[c].id)'
    BY <1>1, <1>2, <1>4, GoneStays DEF FindNoTarget, GetLogicalVolumeByUuid, GoneForEver
  <2> QED
    BY <1>1, <1>2, <2>1, TargetOthersKeep DEF TargetKnows
<1>5. CASE RemoveTarget(c)
  <2>1. vol' = vol /\ vol[c] \in born /\ vol[c].uuid = req[c].id
    BY <1>5 DEF RemoveTarget, IInv, CallInv, CallKnows, DeleteKnows, DeleteStage
  <2>2. PICK w \in Named(vol[c].name) : RemoveLv(w)
    BY <1>5 DEF RemoveTarget, DeleteLogicalVolume
  <2>3. vol[c] \notin lvs' /\ lvs' \subseteq born /\ born' = born
    BY <2>2 DEF RemoveLv, Named, IInv, GroupInv
  <2>4. GoneForEver(req[c].id)'
    BY <1>1, <1>2, <2>1, <2>3 DEF GoneForEver, WithUuid, IInv, GroupInv
  <2> QED
    BY <1>1, <1>2, <2>4, TargetOthersKeep DEF TargetKnows
<1> QED
  BY <1>3, <1>4, <1>5 DEF DeleteStep

LEMMA TargetInvokeStep ==
  ASSUME IInv, TargetInv, Next, NEW c \in Call, NEW r \in Request, Invoke(c, r)
  PROVE  TargetInv'
<1>1. OnlyCall(c) /\ faults' = faults /\ req'[c] = r /\ born' = born
  BY DEF Invoke, IInv, TypeOK, OnlyCall, vgVars
<1>2. status'[c] # "Ok"
  BY DEF Invoke, IInv, TypeOK
<1>3. pc'[c] \in DeleteStage => WasBorn(r.id)
  BY ControllerAssumption
  DEF Invoke, IInv, TypeOK, WellFormed, DeleteStage, WasBorn, CreateRequest, DeleteRequest
<1>4. TargetKnows(c)'
  BY <1>1, <1>2, <1>3 DEF TargetKnows, WasBorn
<1> QED
  BY <1>1, <1>4, TargetOthersKeep

LEMMA TargetFaultStep ==
  ASSUME IInv, TargetInv, Next, NEW c \in Call, FaultStep(c)
  PROVE  TargetInv'
<1> USE DEF FaultStep, RpcFails, MkfsFails, Abandon, Dropped, Answer
<1>1. OnlyCall(c) /\ req' = req /\ InFlight(c)
  BY DEF IInv, TypeOK, OnlyCall, InFlight, CreateStage
<1>2. faults' = 0 => faults = 0 /\ Dropped(c)
  BY DEF Fault, IInv, TypeOK
<1>3. pc'[c] \in DeleteStage => pc[c] \in DeleteStage
  BY DEF IInv, TypeOK, DeleteStage
<1>4. Dropped(c) => status'[c] # "Ok"
  BY <1>1 DEF IInv, CallInv, CallKnows
<1>5. TargetKnows(c)'
  <2>1. WasBorn(req[c].id) => WasBorn(req[c].id)'
    BY GoneStays
  <2> QED
    BY <1>1, <1>2, <1>3, <1>4, <2>1 DEF TargetInv, TargetKnows
<1> QED
  BY <1>1, <1>2, <1>5, TargetOthersKeep

(***************************************************************************)
(* As long as nothing has failed, a delete_volume answered OK leaves no    *)
(* volume of its id.                                                       *)
(***************************************************************************)
THEOREM GoneUnlessFailed == Spec => []DeletedIsGone
<1>1. Init => TargetInv
  BY DEF Init, TargetInv, TargetKnows, DeleteStage
<1>2. ASSUME IInv, IInv', TargetInv, [Next]_vars
      PROVE  TargetInv'
  <2>1. CASE UNCHANGED vars
    BY <1>2, <2>1
    DEF vars, vgVars, TargetInv, TargetKnows, WasBorn, GoneForEver, WithUuid
  <2>2. ASSUME NEW v \in lvs, Use(v) \/ Release(v), Next
        PROVE  TargetInv'
    BY <1>2, <2>2, GoneStays DEF Use, Release, TargetInv, TargetKnows
  <2> QED
    BY <1>2, <2>1, <2>2, TargetInvokeStep, TargetCreateStep, TargetDeleteStep,
       TargetFaultStep
    DEF Next
<1>3. TargetInv => DeletedIsGone
  BY DEF TargetInv, TargetKnows, GoneForEver, DeletedIsGone
<1> QED
  BY <1>1, <1>2, <1>3, Invariance, PTL DEF Spec

-----------------------------------------------------------------------------
(* Which steps touch what is on a device, and which make a call end in OK. *)
LEMMA DevicesOtherwise ==
  ASSUME [Next]_vars
  PROVE  \/ \E c \in Call : RemoveTarget(c) \/ FormatBegin(c) \/ FormatEnd(c)
         \/ \E v \in lvs : Use(v)
         \/ UNCHANGED fs
<1>1. ASSUME NEW c \in Call, NEW r \in Request, Invoke(c, r) PROVE UNCHANGED fs
  BY <1>1 DEF Invoke, vgVars
<1>2. ASSUME NEW c \in Call, CreateStep(c), ~FormatBegin(c), ~FormatEnd(c)
      PROVE  UNCHANGED fs
  BY <1>2
  DEF CreateStep, CheckCapacity, FoundExisting, FoundNone, CreateLv, CreateLogicalVolume,
      AddLv, CreateLvRefused, CreateLogicalVolumeRefused, FormatRefused,
      FormatLogicalVolumeRefused, vgVars
<1>3. ASSUME NEW c \in Call, DeleteStep(c), ~RemoveTarget(c) PROVE UNCHANGED fs
  BY <1>3
  DEF DeleteStep, FindTarget, FindNoTarget, RemoveRefused, DeleteLogicalVolumeRefused,
      vgVars
<1>4. ASSUME NEW c \in Call, FaultStep(c) PROVE UNCHANGED fs
  BY <1>4
  DEF FaultStep, RpcFails, MkfsFails, FormatLogicalVolumeKilled, KillMkfs, Abandon,
      Dropped, vgVars
<1>5. ASSUME NEW v \in lvs, Release(v) PROVE UNCHANGED fs
  BY <1>5 DEF Release, Detach
<1>6. CASE UNCHANGED vars
  BY <1>6 DEF vars, vgVars
<1> QED
  BY <1>1, <1>2, <1>3, <1>4, <1>5, <1>6 DEF Next

LEMMA CreateOkIsFormatEnd ==
  ASSUME IInv, [Next]_vars, NEW c \in Call, InFlight(c), req[c].op = "create",
         status'[c] = "Ok"
  PROVE  FormatEnd(c)
<1> USE DEF IInv, TypeOK
<1>1. status[c] # "Ok" /\ pc[c] \in CreateStage
  BY DEF CallInv, CallKnows, DeleteKnows, DeleteRequest, InFlight
<1>2. ASSUME NEW d \in Call, NEW r \in Request, Invoke(d, r) PROVE FALSE
  BY <1>1, <1>2 DEF Invoke
<1>3. ASSUME NEW d \in Call, CreateStep(d), ~FormatEnd(c) PROVE FALSE
  BY <1>1, <1>3
  DEF CreateStep, CheckCapacity, FoundExisting, FoundNone, CreateLv, CreateLvRefused,
      FormatBegin, FormatRefused, FormatEnd, Answer, Await
<1>4. ASSUME NEW d \in Call, DeleteStep(d) PROVE FALSE
  BY <1>1, <1>4
  DEF DeleteStep, FindTarget, FindNoTarget, RemoveTarget, RemoveRefused, Answer, Await,
      CreateStage
<1>5. ASSUME NEW d \in Call, FaultStep(d) PROVE FALSE
  BY <1>1, <1>5
  DEF FaultStep, RpcFails, MkfsFails, Abandon, Dropped, Answer, CreateStage
<1>6. ASSUME NEW v \in lvs, Use(v) \/ Release(v) PROVE FALSE
  BY <1>1, <1>6 DEF Use, Release
<1>7. CASE UNCHANGED vars
  BY <1>1, <1>7 DEF vars
<1> QED
  BY <1>2, <1>3, <1>4, <1>5, <1>6, <1>7 DEF Next

(***************************************************************************)
(* The volume formatted is the one that bears the name now; if the volume  *)
(* answered with exists, it is that one.                                   *)
(***************************************************************************)
LEMMA FormatsWhatIsGiven ==
  ASSUME IInv, NEW c \in Call, FormatEnd(c), vol'[c] \in lvs'
  PROVE  fs'[vol'[c].uuid] = "xfs"
<1>1. PICK w \in Named(SafeName(req[c])) : EndMkfs(w)
  BY DEF FormatEnd, FormatLogicalVolumeEnd
<1>2. vol' = vol /\ lvs' = lvs /\ vol[c].name = SafeName(req[c])
  BY <1>1
  DEF FormatEnd, EndMkfs, IInv, CallInv, CallKnows, CreateKnows, CreateStage
<1>3. vol[c] = w /\ w.uuid \in Uuid
  BY <1>1, <1>2
  DEF Named, IInv, GroupInv, TypeOK, VolumeGroupTypeOK, Volume
<1> QED
  BY <1>1, <1>2, <1>3 DEF EndMkfs, IInv, TypeOK, VolumeGroupTypeOK

(* On a volume that stays, only the beginning of a mkfs undoes a complete  *)
(* filesystem: lvremove clears the device of the volume it removes.        *)
LEMMA CompleteStays ==
  ASSUME IInv, [Next]_vars, NEW v \in lvs \cap lvs', fs[v.uuid] \in Complete,
         v.uuid \notin formatting' \ formatting
  PROVE  fs'[v.uuid] \in Complete
<1>0. v.uuid \in Uuid /\ fs \in [Uuid -> Content]
  BY DEF IInv, TypeOK, VolumeGroupTypeOK, Volume
<1>1. ASSUME NEW c \in Call, RemoveTarget(c) PROVE fs'[v.uuid] \in Complete
  <2>1. PICK w \in lvs : RemoveLv(w)
    BY <1>1 DEF RemoveTarget, DeleteLogicalVolume, Named
  <2>2. w.uuid # v.uuid
    BY <2>1 DEF RemoveLv, IInv, GroupInv
  <2> QED
    BY <1>0, <2>1, <2>2 DEF RemoveLv
<1>2. ASSUME NEW c \in Call, FormatBegin(c) PROVE fs'[v.uuid] \in Complete
  <2>1. PICK w \in lvs : BeginMkfs(w)
    BY <1>2 DEF FormatBegin, FormatLogicalVolumeBegin, Named
  <2> QED
    BY <1>0, <2>1 DEF BeginMkfs, Held
<1>3. ASSUME NEW c \in Call, FormatEnd(c) PROVE fs'[v.uuid] \in Complete
  BY <1>0, <1>3 DEF FormatEnd, FormatLogicalVolumeEnd, EndMkfs, Complete
<1>4. ASSUME NEW w \in lvs, Use(w) PROVE fs'[v.uuid] \in Complete
  BY <1>0, <1>4 DEF Use, Attach, Complete
<1> QED
  BY <1>1, <1>2, <1>3, <1>4, DevicesOtherwise

(***************************************************************************)
(* A volume that create_volume answers with carries a complete filesystem, *)
(* whoever created it and whatever was abandoned meanwhile, and keeps one  *)
(* until format_logical_volume begins a mkfs on it once more.              *)
(***************************************************************************)
THEOREM Formatted == Spec => KnownIsFormatted
<1> DEFINE A == /\ \A c \in Call :
                      /\ InFlight(c) /\ req[c].op = "create" /\ status'[c] = "Ok"
                      /\ vol'[c] \in lvs'
                      => fs'[vol'[c].uuid] = "xfs"
                /\ \A t \in told :
                      /\ t.vol \in lvs \cap lvs' /\ fs[t.vol.uuid] \in Complete
                      /\ t.vol.uuid \notin formatting' \ formatting
                      => fs'[t.vol.uuid] \in Complete
<1>1. ASSUME IInv, [Next]_vars PROVE A
  BY <1>1, CreateOkIsFormatEnd, FormatsWhatIsGiven, CompleteStays
<1>2. IInv /\ [Next]_vars => [A]_vars
  BY <1>1
<1> QED
  BY <1>2, Invariance, PTL DEF Spec, KnownIsFormatted

-----------------------------------------------------------------------------
(***************************************************************************)
(* hash_resource is 64 bits of a keyless hash of the name.  What follows   *)
(* needs that the names of a cluster do not collide under it.              *)
(***************************************************************************)
HashInjective == \A m, n \in Name : Hash[m] = Hash[n] => m = n

(* create_volume never answers with one volume for two names.              *)
THEOREM NoSharing == ASSUME HashInjective PROVE Spec => []NoSharedVolume
<1>1. IInv => NoSharedVolume
  BY DEF HashInjective, IInv, TypeOK, Ledger, GroupInv, LedgerInv, NoSharedVolume
<1> QED
  BY <1>1, Invariance, PTL

(***************************************************************************)
(* The controller on volumed implements the abstract volume service.       *)
(***************************************************************************)
LEMMA GiveStep ==
  ASSUME HashInjective, IInv, NEW c \in Call, FormatEnd(c)
  PROVE  \/ UNCHANGED <<lvs, born, told>>
         \/ \E g \in told' : Service!Give(g.name, g.vol)
<1>1. UNCHANGED <<lvs, born>>
  BY DEF FormatEnd, FormatLogicalVolumeEnd, EndMkfs
<1>2. CASE gone[c]
  BY <1>1, <1>2 DEF FormatEnd
<1>3. CASE ~gone[c]
  <2> DEFINE g == [name |-> req[c].name, vol |-> vol[c]]
  <2>1. told' = told \cup {g}
    BY <1>3 DEF FormatEnd
  <2>2. g.name \in Name /\ g.vol \in born /\ g.vol.name = Hash[g.name]
    BY CreateAsks
    DEF IInv, CallInv, CallKnows, CreateKnows, FormatEnd, CreateStage, SafeName
  <2>3. \A t \in told : IdOf(t.vol) = IdOf(g.vol) => t.name = g.name
    BY <2>2 DEF IdOf, HashInjective, IInv, TypeOK, Ledger, GroupInv, LedgerInv
  <2>4. \A t \in told :
          t.name = g.name /\ {t.vol, g.vol} \subseteq lvs => t.vol = g.vol
    BY <2>2 DEF IInv, GroupInv, LedgerInv
  <2>5. Service!Give(g.name, g.vol)
    BY <1>1, <2>1, <2>2, <2>3, <2>4 DEF Service!Give
  <2> QED
    BY <2>1, <2>5
<1> QED
  BY <1>2, <1>3

(* create_volume and delete_volume, step by step, against VolumeService.   *)
THEOREM Refinement == ASSUME HashInjective PROVE Spec => ImplementsService
<1>1. Init => Service!ServiceInit
  BY DEF Init, VolumeGroupInit, Service!ServiceInit
<1>2. ASSUME IInv, [Next]_vars
      PROVE  [Service!ServiceNext]_<<lvs, born, told>>
  <2>1. ASSUME NEW c \in Call, CreateLv(c)
        PROVE  \E v \in lvs' : Service!Appear(v)
    BY <2>1
    DEF CreateLv, CreateLogicalVolume, AddLv, Service!Appear, IdOf
  <2>2. ASSUME NEW c \in Call, RemoveTarget(c)
        PROVE  \E v \in lvs : Service!Disappear(v)
    BY <2>2
    DEF RemoveTarget, DeleteLogicalVolume, RemoveLv, Named, Service!Disappear
  <2> QED
    BY <1>2, <2>1, <2>2, QuietOtherwise, GiveStep DEF Service!ServiceNext
<1> QED
  BY <1>1, <1>2, Invariance, PTL
  DEF Spec, ImplementsService, Service!ServiceSpec, Service!serviceVars
=============================================================================
