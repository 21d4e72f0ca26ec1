----------------------------- MODULE Controller -----------------------------
(***************************************************************************)
(* The CSI controller service: CreateVolume and DeleteVolume, each a       *)
(* sequence of volumed RPCs with an await between any two of them, run by  *)
(* a stateless process for a container orchestrator (the CO) that may have *)
(* several calls in flight, retries what was not answered, and keeps a     *)
(* ledger of the volumes it was given.                                     *)
(*                                                                         *)
(* A call occupies a slot.  pc is the RPC the call is waiting for: the     *)
(* step that performs the RPC also runs the handler up to its next await,  *)
(* as nothing a handler does in between touches shared state.              *)
(*                                                                         *)
(* A call may be abandoned: its deadline passes, its connection breaks, or *)
(* a daemon on its way restarts.  Its handler is dropped at the await it   *)
(* had reached, but the RPC it waited for is still in volumed's hands and  *)
(* may be executed, at any later time, or not at all.                      *)
(***************************************************************************)
EXTENDS Volumed

CONSTANTS
    Call,        \* slots for calls in flight
    Request,     \* the requests the CO may make
    Name,        \* names the CO gives to its volumes
    Hash,        \* hash_resource: the logical volume's name for a CO name
    MinSize,     \* MIN_VOLUME_SIZE_BYTES
    MaxFaults,   \* bound: abandoned calls and failed commands in a behaviour
    MaxVolumes,  \* bound: volumes ever created in a behaviour
    NoName, NoRange, NoId,  \* fields a request leaves out
    NoVolume, NoRequest

(* caps: whether the request has any volume_capabilities.                  *)
CreateRequest ==
    [op : {"create"}, name : Name \cup {NoName}, caps : BOOLEAN,
     range : [required : Int, limit : Int] \cup {NoRange}]

DeleteRequest == [op : {"delete"}, id : Uuid \cup {NoId}]

ASSUME ControllerAssumption ==
    /\ Request \subseteq CreateRequest \cup DeleteRequest
    /\ Hash \in [Name -> LvName]
    /\ MinSize \in Nat
    /\ MaxFaults \in Nat
    /\ MaxVolumes \in Nat
    /\ NoName \notin Name
    /\ NoRange \notin [required : Int, limit : Int]
    /\ NoId \notin Uuid
    /\ NoVolume \notin Volume
    /\ NoRequest \notin Request

VARIABLES
    pc,       \* the RPC each call waits for
    req,      \* the request of each call
    vol,      \* the volume the handler of each call has learned of
    status,   \* the answer the CO has for each call
    gone,     \* whether the handler of each call has been dropped
    told,     \* the CO's ledger: the volumes it was given, and for which name
    faults    \* faults so far

vars == <<vgVars, pc, req, vol, status, gone, told, faults>>

CreateStage == {"free", "lookup", "create", "format", "mkfs"}
DeleteStage == {"find", "remove"}
Stage == {"idle", "done"} \cup CreateStage \cup DeleteStage

Status == {"None", "Ok", "InvalidArgument", "OutOfRange", "AlreadyExists",
           "NotFound", "Internal", "Unavailable"}

Ledger == [name : Name, vol : Volume]

TypeOK ==
    /\ VolumeGroupTypeOK
    /\ pc \in [Call -> Stage]
    /\ req \in [Call -> Request \cup {NoRequest}]
    /\ vol \in [Call -> Volume \cup {NoVolume}]
    /\ status \in [Call -> Status]
    /\ gone \in [Call -> BOOLEAN]
    /\ told \subseteq Ledger
    /\ faults \in 0..MaxFaults

Init ==
    /\ VolumeGroupInit
    /\ pc = [c \in Call |-> "idle"]
    /\ req = [c \in Call |-> NoRequest]
    /\ vol = [c \in Call |-> NoVolume]
    /\ status = [c \in Call |-> "None"]
    /\ gone = [c \in Call |-> FALSE]
    /\ told = {}
    /\ faults = 0

-----------------------------------------------------------------------------
(***************************************************************************)
(* What the handlers derive from a request.                                *)
(***************************************************************************)
WellFormed(r) ==
    IF r.op = "create"
    THEN /\ r.name # NoName
         /\ r.caps
         /\ r.range # NoRange => r.range.required >= 0 /\ r.range.limit >= 0
    ELSE r.id # NoId

Capacity(r) == IF r.range = NoRange THEN MinSize ELSE r.range.required

(* Mutants: every name has one hash; the hash covers the capacity as well.  *)
SafeNameOfAny(r) == Hash[CHOOSE n \in Name : TRUE]

SafeNameOfSize(r) ==
    IF Capacity(r) = MinSize THEN Hash[r.name]
    ELSE CHOOSE l \in LvName : l # Hash[r.name]

SafeName(r) == Hash[r.name]

InFlight(c) == pc[c] \in CreateStage \cup DeleteStage

(***************************************************************************)
(* How a step leaves the handler: with an answer for the CO, or waiting    *)
(* for the next RPC.  A dropped handler does neither.                      *)
(***************************************************************************)
Answer(c, code) ==
    /\ pc' = [pc EXCEPT ![c] = "done"]
    /\ status' = [status EXCEPT ![c] = IF gone[c] THEN @ ELSE code]

Await(c, stage) ==
    /\ pc' = [pc EXCEPT ![c] = IF gone[c] THEN "done" ELSE stage]
    /\ UNCHANGED status

(***************************************************************************)
(* A call arrives and its arguments are validated.  The CO deletes volumes *)
(* that exist or existed; it creates while MaxVolumes leaves room for all  *)
(* the calls that may be creating one.                                     *)
(***************************************************************************)
RoomForVolume ==
    Cardinality(born) + Cardinality({c \in Call : pc[c] \in CreateStage}) < MaxVolumes

Invoke(c, r) ==
    /\ pc[c] \in {"idle", "done"}
    /\ r.op = "create" => RoomForVolume
    /\ r.op = "delete" => r.id = NoId \/ \E b \in born : b.uuid = r.id
    /\ req' = [req EXCEPT ![c] = r]
    /\ vol' = [vol EXCEPT ![c] = NoVolume]
    /\ gone' = [gone EXCEPT ![c] = FALSE]
    /\ pc' = [pc EXCEPT ![c] = IF ~WellFormed(r) THEN "done"
                               ELSE IF r.op = "create" THEN "free" ELSE "find"]
    /\ status' = [status EXCEPT ![c] =
                    IF WellFormed(r) THEN "None" ELSE "InvalidArgument"]
    /\ UNCHANGED <<vgVars, told, faults>>

(***************************************************************************)
(* create_volume.                                                          *)
(***************************************************************************)
CheckCapacity(c) ==
    /\ pc[c] = "free"
    /\ IF MinSize <= Capacity(req[c]) /\ Capacity(req[c]) <= GetFreeBytes
       THEN Await(c, "lookup")
       ELSE Answer(c, "OutOfRange")
    /\ UNCHANGED <<vgVars, req, vol, gone, told, faults>>

(***************************************************************************)
(* Mutants: an existing volume is answered with at once; its size is not   *)
(* compared; its identity is not kept; it is always a conflict.            *)
(***************************************************************************)
FoundExistingShortOut(c) ==
    /\ pc[c] = "lookup" /\ ~gone[c]
    /\ \E v \in GetLogicalVolumeByName(SafeName(req[c])) :
         /\ v.size = Capacity(req[c])
         /\ Answer(c, "Ok")
         /\ vol' = [vol EXCEPT ![c] = v]
         /\ told' = told \cup {[name |-> req[c].name, vol |-> v]}
    /\ UNCHANGED <<vgVars, req, gone, faults>>

FoundExistingOfAnySize(c) ==
    /\ pc[c] = "lookup"
    /\ \E v \in GetLogicalVolumeByName(SafeName(req[c])) :
         vol' = [vol EXCEPT ![c] = v]
    /\ Await(c, "format")
    /\ UNCHANGED <<vgVars, req, gone, told, faults>>

FoundExistingForgotten(c) ==
    /\ pc[c] = "lookup"
    /\ GetLogicalVolumeByName(SafeName(req[c])) # {}
    /\ Await(c, "format")
    /\ UNCHANGED <<vgVars, req, vol, gone, told, faults>>

FoundExistingIsConflict(c) ==
    /\ pc[c] = "lookup"
    /\ GetLogicalVolumeByName(SafeName(req[c])) # {}
    /\ Answer(c, "AlreadyExists")
    /\ UNCHANGED <<vgVars, req, vol, gone, told, faults>>

FoundExisting(c) ==
    /\ pc[c] = "lookup"
    /\ \E v \in GetLogicalVolumeByName(SafeName(req[c])) :
         IF v.size = Capacity(req[c])
         THEN /\ Await(c, "format")
              /\ vol' = [vol EXCEPT ![c] = v]
         ELSE /\ Answer(c, "AlreadyExists")
              /\ UNCHANGED vol
    /\ UNCHANGED <<vgVars, req, gone, told, faults>>

FoundNone(c) ==
    /\ pc[c] = "lookup"
    /\ GetLogicalVolumeByName(SafeName(req[c])) = {}
    /\ Await(c, "create")
    /\ UNCHANGED <<vgVars, req, vol, gone, told, faults>>

CreateLv(c) ==
    /\ pc[c] = "create"
    /\ \E u \in Uuid :
         LET v == [uuid |-> u, name |-> SafeName(req[c]),
                   size |-> RoundUp(Capacity(req[c]))]
         IN  /\ CreateLogicalVolume(SafeName(req[c]), Capacity(req[c]), v)
             /\ vol' = [vol EXCEPT ![c] = v]
    /\ Await(c, "format")
    /\ UNCHANGED <<req, gone, told, faults>>

(* Mutant: a name that is taken meanwhile is never answered.               *)
CreateLvRefusedForSize(c) ==
    /\ pc[c] = "create"
    /\ RoundUp(Capacity(req[c])) > VgFree
    /\ CreateLogicalVolumeRefused(SafeName(req[c]), Capacity(req[c]))
    /\ Answer(c, "InvalidArgument")
    /\ UNCHANGED <<req, vol, gone, told, faults>>

CreateLvRefused(c) ==
    /\ pc[c] = "create"
    /\ CreateLogicalVolumeRefused(SafeName(req[c]), Capacity(req[c]))
    /\ Answer(c, "InvalidArgument")
    /\ UNCHANGED <<req, vol, gone, told, faults>>

(* mkfs.xfs is under way in volumed whether or not the handler still waits. *)
FormatBegin(c) ==
    /\ pc[c] = "format"
    /\ FormatLogicalVolumeBegin(SafeName(req[c]))
    /\ pc' = [pc EXCEPT ![c] = "mkfs"]
    /\ UNCHANGED <<req, vol, status, gone, told, faults>>

FormatRefused(c) ==
    /\ pc[c] = "format"
    /\ FormatLogicalVolumeRefused(SafeName(req[c]))
    /\ Answer(c, IF Named(SafeName(req[c])) = {} THEN "NotFound" ELSE "Internal")
    /\ UNCHANGED <<req, vol, gone, told, faults>>

FormatEnd(c) ==
    /\ pc[c] = "mkfs"
    /\ FormatLogicalVolumeEnd(SafeName(req[c]))
    /\ Answer(c, "Ok")
    /\ told' = IF gone[c] THEN told
               ELSE told \cup {[name |-> req[c].name, vol |-> vol[c]]}
    /\ UNCHANGED <<req, vol, gone, faults>>

(***************************************************************************)
(* delete_volume.  It looks the uuid up, and then deletes by name; a       *)
(* lookup that fails, for whatever reason, counts as an absent volume.     *)
(***************************************************************************)
FindTarget(c) ==
    /\ pc[c] = "find"
    /\ \E v \in GetLogicalVolumeByUuid(req[c].id) :
         vol' = [vol EXCEPT ![c] = v]
    /\ Await(c, "remove")
    /\ UNCHANGED <<vgVars, req, gone, told, faults>>

(* Mutant: a volume that is in use counts as absent.                       *)
FindNoTargetFree(c) ==
    /\ pc[c] = "find"
    /\ \A v \in GetLogicalVolumeByUuid(req[c].id) : v.uuid \in Held
    /\ Answer(c, "Ok")
    /\ UNCHANGED <<vgVars, req, vol, gone, told, faults>>

FindNoTarget(c) ==
    /\ pc[c] = "find"
    /\ GetLogicalVolumeByUuid(req[c].id) = {}
    /\ Answer(c, "Ok")
    /\ UNCHANGED <<vgVars, req, vol, gone, told, faults>>

RemoveTarget(c) ==
    /\ pc[c] = "remove"
    /\ DeleteLogicalVolume(vol[c].name)
    /\ Answer(c, "Ok")
    /\ UNCHANGED <<req, vol, gone, told, faults>>

(* Mutant: a removal that was refused is ignored, like a failed lookup.    *)
RemoveRefusedIgnored(c) ==
    /\ pc[c] = "remove"
    /\ DeleteLogicalVolumeRefused(vol[c].name)
    /\ Answer(c, "Ok")
    /\ UNCHANGED <<req, vol, gone, told, faults>>

RemoveRefused(c) ==
    /\ pc[c] = "remove"
    /\ DeleteLogicalVolumeRefused(vol[c].name)
    /\ Answer(c, IF Named(vol[c].name) = {} THEN "NotFound" ELSE "InvalidArgument")
    /\ UNCHANGED <<req, vol, gone, told, faults>>

-----------------------------------------------------------------------------
(***************************************************************************)
(* Faults.  RpcFails: the interceptor or an LVM command fails, or volumed  *)
(* is not there.  MkfsFails: mkfs.xfs stops half-way.  Abandon: the CO     *)
(* gives up on the call, or the controller restarts; Dropped: volumed      *)
(* never executes what an abandoned call had asked for.                    *)
(***************************************************************************)
Fault == faults < MaxFaults /\ faults' = faults + 1

RpcFails(c) ==
    /\ InFlight(c) /\ pc[c] # "mkfs"
    /\ Fault
    /\ Answer(c, IF pc[c] = "find" THEN "Ok" ELSE "Internal")
    /\ UNCHANGED <<vgVars, req, vol, gone, told>>

MkfsFails(c) ==
    /\ pc[c] = "mkfs"
    /\ Fault
    /\ FormatLogicalVolumeKilled(SafeName(req[c]))
    /\ Answer(c, "Internal")
    /\ UNCHANGED <<req, vol, gone, told>>

Abandon(c) ==
    /\ InFlight(c) /\ ~gone[c]
    /\ Fault
    /\ gone' = [gone EXCEPT ![c] = TRUE]
    /\ status' = [status EXCEPT ![c] = "Unavailable"]
    /\ UNCHANGED <<vgVars, pc, req, vol, told>>

Dropped(c) ==
    /\ InFlight(c) /\ pc[c] # "mkfs"
    /\ gone[c]
    /\ pc' = [pc EXCEPT ![c] = "done"]
    /\ UNCHANGED <<vgVars, req, vol, status, gone, told, faults>>

(***************************************************************************)
(* The workloads of the CO use the volumes in its ledger.                  *)
(***************************************************************************)
Use(v) ==
    /\ \E t \in told : t.vol = v
    /\ Attach(v)
    /\ UNCHANGED <<pc, req, vol, status, gone, told, faults>>

Release(v) ==
    /\ Detach(v)
    /\ UNCHANGED <<pc, req, vol, status, gone, told, faults>>

-----------------------------------------------------------------------------
CreateStep(c) ==
    \/ CheckCapacity(c)
    \/ FoundExisting(c)
    \/ FoundNone(c)
    \/ CreateLv(c)
    \/ CreateLvRefused(c)
    \/ FormatBegin(c)
    \/ FormatRefused(c)
    \/ FormatEnd(c)

DeleteStep(c) ==
    \/ FindTarget(c)
    \/ FindNoTarget(c)
    \/ RemoveTarget(c)
    \/ RemoveRefused(c)

FaultStep(c) ==
    \/ RpcFails(c)
    \/ MkfsFails(c)
    \/ Abandon(c)
    \/ Dropped(c)

Next ==
    \/ \E c \in Call : \/ \E r \in Request : Invoke(c, r)
                       \/ CreateStep(c)
                       \/ DeleteStep(c)
                       \/ FaultStep(c)
    \/ \E v \in lvs : Use(v) \/ Release(v)

Spec == Init /\ [][Next]_vars

(***************************************************************************)
(* Every daemon runs the handlers it has accepted, an LVM command and a    *)
(* mkfs end, and the CO asks again for what it wants.  No fault is fair.   *)
(***************************************************************************)
FairSpec ==
    /\ Spec
    /\ \A c \in Call : WF_vars(CreateStep(c)) /\ WF_vars(DeleteStep(c))
    /\ \A c \in Call, r \in Request : SF_vars(Invoke(c, r))

-----------------------------------------------------------------------------
(***************************************************************************)
(* The controller on top of volumed implements the abstract service: every *)
(* volume it gives was created for that name and is the only one the name  *)
(* has, in spite of abandoned calls, crossing deletes and retries.         *)
(***************************************************************************)
IdOf(v) == v.uuid

Service == INSTANCE VolumeService WITH
    Id <- IdOf, existing <- lvs, ever <- born, given <- told

ImplementsService == Service!ServiceSpec

(***************************************************************************)
(* Whenever CreateVolume answers OK, for a new volume, for one it found or *)
(* for one that another call has created and not formatted, the volume, if *)
(* it still exists, carries a complete filesystem; and every volume the CO *)
(* was given keeps a complete filesystem until a later mkfs begins on it.  *)
(* (That one does begin is finding_reformat's matter.)                     *)
(***************************************************************************)
KnownIsFormatted ==
    [][/\ \A c \in Call :
             /\ InFlight(c) /\ req[c].op = "create" /\ status'[c] = "Ok"
             /\ vol'[c] \in lvs'
             => fs'[vol'[c].uuid] = "xfs"
       /\ \A t \in told :
             /\ t.vol \in lvs \cap lvs' /\ fs[t.vol.uuid] \in Complete
             /\ t.vol.uuid \notin formatting' \ formatting
             => fs'[t.vol.uuid] \in Complete]_vars

(***************************************************************************)
(* No two names of the CO are ever served by the same volume: the volume   *)
(* is found, created and formatted under hash_resource(name) throughout.   *)
(***************************************************************************)
NoSharedVolume ==
    \A s, t \in told : s.vol.uuid = t.vol.uuid => s.name = t.name

(***************************************************************************)
(* However many CreateVolume calls for one name are retried, abandoned or  *)
(* run side by side, no two volumes they answered with exist together.     *)
(***************************************************************************)
OneVolumePerName ==
    \A s, t \in told :
        s.name = t.name /\ {s.vol, t.vol} \subseteq lvs => s.vol = t.vol

(***************************************************************************)
(* A CreateVolume answered OK gave a volume at least as large as asked and *)
(* less than one extent larger, found or created.                          *)
(***************************************************************************)
SizeHonoured ==
    \A c \in Call :
        pc[c] = "done" /\ status[c] = "Ok" /\ req[c].op = "create"
            => vol[c].size \in Capacity(req[c])..(Capacity(req[c]) + Extent - 1)

(***************************************************************************)
(* A DeleteVolume that found its volume and was answered OK leaves that    *)
(* volume gone, although it deletes by a name looked up before an await    *)
(* and other calls may have deleted and created under the name since.      *)
(***************************************************************************)
FoundIsDeleted ==
    \A c \in Call :
        pc[c] = "done" /\ status[c] = "Ok" /\ req[c].op = "delete"
            => vol[c] \notin lvs

(***************************************************************************)
(* As long as nothing has failed, a DeleteVolume answered OK leaves no     *)
(* volume of its id, now and for ever.  A lookup that failed is the one    *)
(* way to an OK for a volume that is still there: then this says nothing.  *)
(***************************************************************************)
DeletedIsGone ==
    faults = 0 =>
        \A c \in Call :
            pc[c] = "done" /\ status[c] = "Ok" /\ req[c].op = "delete"
                => WithUuid(req[c].id) = {}

(***************************************************************************)
(* A volume disappears only by a delete_logical_volume that a DeleteVolume *)
(* waits for, and then its name is that of the volume the CO asked to      *)
(* delete: volumes of other names are never touched.                       *)
(***************************************************************************)
RemovalConfined ==
    [][\A v \in lvs \ lvs' : \E c \in Call :
          /\ pc[c] = "remove"
          /\ \A t \in told : t.vol.uuid = req[c].id => Hash[t.name] = v.name]_vars

(***************************************************************************)
(* Every call that reached a handler is over at some time: with an answer, *)
(* or, abandoned, with nothing left of it in volumed.                      *)
(***************************************************************************)
EveryCallEnds == \A c \in Call : InFlight(c) ~> pc[c] = "done"

(***************************************************************************)
(* A CO that keeps asking for a volume is given it, whatever was lost on   *)
(* the way, if from some time on the volume of that name is absent and     *)
(* fits, or is there in exactly the size asked for, and the size is within *)
(* what get_free_bytes answers even then: a volume created by a call that  *)
(* was abandoned, or whose format failed, is found by a later call and     *)
(* formatted.  RepeatIsServed, below, says it without these conditions.    *)
(***************************************************************************)
Open(r) ==
    LET found == Named(SafeName(r))
    IN  /\ MinSize <= Capacity(r) /\ Capacity(r) <= GetFreeBytes
        /\ Capacity(r) % Sector = 0
        /\ \/ found = {} /\ CanAddLv(SafeName(r), Capacity(r))
           \/ \E v \in found : v.size = Capacity(r)

Creates == {r \in Request : r.op = "create" /\ WellFormed(r)}

RetryProvisions ==
    \A r \in Creates : <>[]Open(r) => <>(\E t \in told : t.name = r.name)

-----------------------------------------------------------------------------
(***************************************************************************)
(* What the repository says of the program and the code does not do.       *)
(***************************************************************************)

(***************************************************************************)
(* controller.rs:305, "Short out if we have already created the volume     *)
(* before": CreateVolume leaves an existing volume's data alone.           *)
(***************************************************************************)
ExistingVolumeLeftAlone ==
    [][\A v \in lvs \cap lvs' :
          fs[v.uuid] = "data" => fs'[v.uuid] = "data"]_vars

(***************************************************************************)
(* csi.proto:490, a volume_id uniquely identifies a volume: DeleteVolume   *)
(* removes the volume it was asked to remove and no other.                 *)
(***************************************************************************)
DeletesOnlyItsTarget ==
    [][\A v \in lvs \ lvs' : \E c \in Call :
          pc[c] = "remove" /\ req[c].id = v.uuid]_vars

(***************************************************************************)
(* volumed lib.rs:14, spare_bytes is "the optional amount of bytes to      *)
(* reserve free".                                                          *)
(***************************************************************************)
ReserveKept == VgFree >= Spare

(***************************************************************************)
(* csi.proto:281, a CO that is uncertain whether a volume was provisioned  *)
(* "MAY call `CreateVolume` again, with the same name, to ensure the       *)
(* volume exists": asking again for a volume that the group has room for   *)
(* obtains it in the end.                                                  *)
(***************************************************************************)
RepeatIsServed ==
    \A r \in Creates :
        Open(r) => <>(\E t \in told : t.name = r.name)
=============================================================================
