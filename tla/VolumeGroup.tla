----------------------------- MODULE VolumeGroup -----------------------------
(***************************************************************************)
(* The LVM2 volume group a volumed daemon manages, and the block devices   *)
(* of its logical volumes.  None of this is code of the repository: it is  *)
(* the lvm2_cmd crate, LVM2 itself, mkfs.xfs and the kernel's exclusive    *)
(* opens of a block device, modelled from the way volumed and mountd call  *)
(* them.                                                                   *)
(*                                                                         *)
(* LVM serialises the commands of one volume group with its own lock, so a *)
(* command is one step.  mkfs.xfs is long, so it is two: while it runs it  *)
(* holds the device exclusively, as a mount does, and a held device can    *)
(* neither be removed nor be formatted by a second mkfs.                   *)
(***************************************************************************)
EXTENDS Integers, FiniteSetsExt

CONSTANTS
    LvName,     \* names a logical volume may have (validated resource names)
    Uuid,       \* the uuids LVM draws from; it never draws one twice
    VgSize,     \* bytes of the volume group
    Extent      \* bytes of one physical extent: lvcreate rounds up to it

ASSUME VolumeGroupAssumption ==
    /\ VgSize \in Nat
    /\ Extent \in Nat \ {0}
    /\ VgSize % Extent = 0

VARIABLES
    lvs,        \* the logical volumes that exist
    born,       \* every logical volume that ever existed
    fs,         \* what is on each device
    attached,   \* uuids whose device is mounted by a consumer
    formatting  \* uuids whose device a running mkfs.xfs holds

vgVars == <<lvs, born, fs, attached, formatting>>

Volume == [uuid : Uuid, name : LvName, size : Nat]

(***************************************************************************)
(* "none": no mkfs has completed yet.  "torn": a later mkfs has begun and  *)
(* has not completed, so that the filesystem that was there is no more.    *)
(* "xfs": a filesystem without data.  "data": a filesystem on which a      *)
(* consumer has written.  Only the last two are filesystems one can mount. *)
(***************************************************************************)
Content == {"none", "torn", "xfs", "data"}
Complete == {"xfs", "data"}

VolumeGroupTypeOK ==
    /\ lvs \subseteq Volume
    /\ born \subseteq Volume
    /\ fs \in [Uuid -> Content]
    /\ attached \subseteq Uuid
    /\ formatting \subseteq Uuid

VolumeGroupInit ==
    /\ lvs = {}
    /\ born = {}
    /\ fs = [u \in Uuid |-> "none"]
    /\ attached = {}
    /\ formatting = {}

-----------------------------------------------------------------------------
SizeOf(v) == v.size

VgFree == VgSize - MapThenSumSet(SizeOf, lvs)

RoundUp(size) == size + ((-size) % Extent)

Named(n) == {v \in lvs : v.name = n}
WithUuid(u) == {v \in lvs : v.uuid = u}

Held == attached \cup formatting

-----------------------------------------------------------------------------
(* lvcreate.                                                               *)
CanAddLv(n, size) == Named(n) = {} /\ RoundUp(size) <= VgFree

AddLv(v) ==
    /\ \A b \in born : b.uuid # v.uuid
    /\ lvs' = lvs \cup {v}
    /\ born' = born \cup {v}
    /\ UNCHANGED <<fs, attached, formatting>>

(* lvremove, which refuses a device that is open.                          *)
RemoveLv(v) ==
    /\ v.uuid \notin Held
    /\ lvs' = lvs \ {v}
    /\ fs' = [fs EXCEPT ![v.uuid] = "none"]
    /\ UNCHANGED <<born, attached, formatting>>

(***************************************************************************)
(* mkfs.xfs -f: it opens the device exclusively, overwrites whatever is    *)
(* there, and releases the device when it ends, complete or not.           *)
(***************************************************************************)
BeginMkfs(v) ==
    /\ v.uuid \notin Held
    /\ formatting' = formatting \cup {v.uuid}
    /\ fs' = [fs EXCEPT ![v.uuid] = IF @ = "none" THEN "none" ELSE "torn"]
    /\ UNCHANGED <<lvs, born, attached>>

EndMkfs(v) ==
    /\ formatting' = formatting \ {v.uuid}
    /\ fs' = [fs EXCEPT ![v.uuid] = "xfs"]
    /\ UNCHANGED <<lvs, born, attached>>

KillMkfs(v) ==
    /\ formatting' = formatting \ {v.uuid}
    /\ UNCHANGED <<lvs, born, fs, attached>>

(***************************************************************************)
(* A consumer of the volume mounts it, writes to it, and unmounts it.      *)
(***************************************************************************)
Attach(v) ==
    /\ v.uuid \notin Held
    /\ fs[v.uuid] \in Complete
    /\ attached' = attached \cup {v.uuid}
    /\ fs' = [fs EXCEPT ![v.uuid] = "data"]
    /\ UNCHANGED <<lvs, born, formatting>>

Detach(v) ==
    /\ v.uuid \in attached
    /\ attached' = attached \ {v.uuid}
    /\ UNCHANGED <<lvs, born, fs, formatting>>
=============================================================================
