------------------------------- MODULE Volumed -------------------------------
(***************************************************************************)
(* The volumed daemon: a stateless gRPC server in front of one LVM volume  *)
(* group.  Each RPC is first intercepted to look the group up again        *)
(* (vg_injector) and then runs LVM commands to completion; the handlers    *)
(* have no await in them, but the runtime runs several at once.            *)
(*                                                                         *)
(* An RPC is an operator that relates the state before the call, the state *)
(* after it and the part of the reply its caller looks at.  Every RPC may  *)
(* also fail without any effect: that is the caller's RpcFails.            *)
(***************************************************************************)
EXTENDS VolumeGroup

CONSTANTS
    Sector,       \* capacities are whole numbers of it (512 bytes)
    Spare,        \* spare_bytes of the configuration
    ReportsFree   \* what lvm2_cmd reports as the capacity_bytes of a group:
                  \* its unallocated bytes (TRUE) or its size (FALSE)

(* The daemon refuses to start unless the group is larger than the reserve. *)
ASSUME VolumedAssumption ==
    /\ Sector \in Nat \ {0}
    /\ Spare \in Nat
    /\ Spare < VgSize
    /\ ReportsFree \in BOOLEAN

(* Mutant: the reserve is subtracted as it is.                             *)
GetFreeBytesUnchecked == (IF ReportsFree THEN VgFree ELSE VgSize) - Spare

(* get_free_bytes: capacity_bytes.checked_sub(spare_bytes).unwrap_or(0).   *)
GetFreeBytes ==
    LET capacity == IF ReportsFree THEN VgFree ELSE VgSize
    IN  IF capacity >= Spare THEN capacity - Spare ELSE 0

(* Mutant: the uuid does not select.                                       *)
GetLogicalVolumeOfAnyUuid(u) == lvs

(* get_logical_volume: the volumes it may answer with; {} is NotFound.     *)
GetLogicalVolumeByName(n) == Named(n)
GetLogicalVolumeByUuid(u) == WithUuid(u)

(***************************************************************************)
(* create_logical_volume answers with the new volume v, whose size is the  *)
(* capacity rounded up to extents, or refuses.                             *)
(***************************************************************************)
CreateLogicalVolume(n, capacity, v) ==
    /\ capacity % Sector = 0
    /\ CanAddLv(n, capacity)
    /\ v.name = n
    /\ v.size = RoundUp(capacity)
    /\ AddLv(v)

CreateLogicalVolumeRefused(n, capacity) ==
    /\ capacity % Sector # 0 \/ ~CanAddLv(n, capacity)
    /\ UNCHANGED vgVars

(* delete_logical_volume removes the volume that bears the name now.       *)
DeleteLogicalVolume(n) == \E v \in Named(n) : RemoveLv(v)

DeleteLogicalVolumeRefused(n) ==
    /\ \A v \in Named(n) : v.uuid \in Held
    /\ UNCHANGED vgVars

(***************************************************************************)
(* format_logical_volume looks the name up and runs mkfs.xfs -f on the     *)
(* device path, which is made of the same name.                            *)
(***************************************************************************)
FormatLogicalVolumeBegin(n) == \E v \in Named(n) : BeginMkfs(v)

FormatLogicalVolumeEnd(n) ==
    \E v \in Named(n) : v.uuid \in formatting /\ EndMkfs(v)

FormatLogicalVolumeKilled(n) ==
    \E v \in Named(n) : v.uuid \in formatting /\ KillMkfs(v)

FormatLogicalVolumeRefused(n) ==
    /\ \A v \in Named(n) : v.uuid \in Held
    /\ UNCHANGED vgVars
=============================================================================
