------------------------------- MODULE Mountd -------------------------------
(***************************************************************************)
(* The mountd daemon: a stateless gRPC server that mounts and unmounts on  *)
(* behalf of the node.  Its handlers do not await, but several run at      *)
(* once, and each of them first reads the whole mount table and decides on *)
(* that reading later: "seen" is whether the path was mounted when it was  *)
(* read.                                                                   *)
(*                                                                         *)
(* An operator is what one handler does after it has read the table, up to *)
(* a system call, and relates the state before and after it.               *)
(***************************************************************************)
EXTENDS MountTable

CONSTANT
    Whitelist,   \* directories, and volumes for their devices, under a glob
    NoWrite      \* what has no write permission bit

ASSUME MountdAssumption ==
    /\ Whitelist \subseteq Root
    /\ NoWrite \subseteq Root

Exists(x) == x \in dirs \cup present

(***************************************************************************)
(* Config::ensure_interactable.  A volume stands for its device, whose     *)
(* owner is not the configured user.                                       *)
(***************************************************************************)
EnsureInteractable(x, readonly) ==
    /\ Exists(x)
    /\ ~(readonly /\ x \in Path /\ Shows(x) \in NoWrite)
    /\ x \in Whitelist \/ (x \in Path /\ Shows(x) \in owned)

MayMount(src, dst, readonly) ==
    EnsureInteractable(src, FALSE) /\ EnsureInteractable(dst, readonly)

(* mount: refused by the checks, or short out if the path was seen mounted. *)
MountRefused(src, dst, readonly) ==
    ~MayMount(src, dst, readonly) /\ UNCHANGED mtVars

MountSkipped(src, dst, readonly, seen) ==
    MayMount(src, dst, readonly) /\ seen /\ UNCHANGED mtVars

(* Mutant: an endpoint that is already mounted is mounted again.           *)
MountDoneAgain(src, dst, readonly, seen) ==
    /\ MayMount(src, dst, readonly)
    /\ IF src \in Vol THEN MountVolume(src, dst) ELSE BindMount(src, dst)

MountDone(src, dst, readonly, seen) ==
    /\ MayMount(src, dst, readonly) /\ ~seen
    /\ IF src \in Vol THEN MountVolume(src, dst) ELSE BindMount(src, dst)

MountFailed(src, dst, readonly, seen) ==
    /\ MayMount(src, dst, readonly) /\ ~seen
    /\ src \in Vol /\ MountBusy(src, dst)

(* Mutants: the check for a mounted path is turned round; a path that is   *)
(* no longer mounted is never answered.                                    *)
UnmountSkippedIfSeen(seen) == seen /\ UNCHANGED mtVars

UnmountRefusedByChecks(p, seen) ==
    /\ seen /\ ~EnsureInteractable(p, FALSE)
    /\ UNCHANGED mtVars

(* unmount: short out if the path was not seen mounted, else check and act. *)
UnmountSkipped(seen) == ~seen /\ UNCHANGED mtVars

UnmountDone(p, seen) == seen /\ EnsureInteractable(p, FALSE) /\ Unmount(p)

UnmountRefused(p, seen) ==
    /\ seen /\ ~(EnsureInteractable(p, FALSE) /\ IsMounted(p))
    /\ UNCHANGED mtVars
=============================================================================
