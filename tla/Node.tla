-------------------------------- MODULE Node --------------------------------
(***************************************************************************)
(* The CSI node service: stage, unstage, publish and unpublish, each a     *)
(* sequence of mountd RPCs and file operations with an await between any   *)
(* two of them, run by a stateless process for a container orchestrator    *)
(* (the CO) that takes every volume through its life on this host in the   *)
(* order CSI prescribes and repeats what was not answered OK.              *)
(*                                                                         *)
(* A call occupies a slot and pc is the step it waits for, inside mountd   *)
(* too: reading the mount table, the system call and the chown that        *)
(* follows it are three steps of one RPC.  A call may be abandoned: its    *)
(* handler is dropped, but the RPC or the file operation it waited for may *)
(* still be executed, at any later time.  That is the only way in which    *)
(* two calls for one volume come to overlap.                               *)
(***************************************************************************)
EXTENDS Mountd

CONSTANTS
    Call,        \* slots for calls in flight
    Staging,     \* the staging directory of each volume
    Target,      \* the target directory of each volume
    MaxFaults,   \* bound: abandoned calls and failed operations in a behaviour
    NoRequest

ASSUME NodeAssumption ==
    /\ Staging \in [Vol -> Path]
    /\ Target \in [Vol -> Path]
    /\ \A v, w \in Vol : Staging[v] # Target[w]
    /\ \A v, w \in Vol : v # w => Staging[v] # Staging[w] /\ Target[v] # Target[w]
    /\ MaxFaults \in Nat

VARIABLES
    pc,      \* the step each call waits for
    req,     \* the request of each call
    seen,    \* whether the call's path was mounted when mountd read the table
    gone,    \* whether the handler of each call has been dropped
    phase,   \* where the CO believes each volume to be
    late,    \* volumes of which a call was abandoned
    unowned, \* volumes whose chown failed after they were staged
    faults   \* faults so far

callVars == <<pc, req, seen, gone>>
coVars == <<phase, late, unowned, faults>>
vars == <<mtVars, callVars, coVars>>

Op == {"stage", "publish", "unpublish", "unstage"}
Request == [op : Op, vol : Vol]

MountStage == {"read", "mount", "chown"}
UnmountStage == {"unread", "unmount"}
Stage == {"idle", "done", "lookup", "mkdir", "rmdir"} \cup MountStage \cup UnmountStage

Phase == {"detached", "staging", "staged", "publishing", "published",
          "unpublishing", "unstaging"}

NodeTypeOK ==
    /\ MountTableTypeOK
    /\ pc \in [Call -> Stage]
    /\ req \in [Call -> Request \cup {NoRequest}]
    /\ seen \in [Call -> BOOLEAN]
    /\ gone \in [Call -> BOOLEAN]
    /\ phase \in [Vol -> Phase]
    /\ late \subseteq Vol
    /\ unowned \subseteq Vol
    /\ faults \in 0..MaxFaults

Init ==
    /\ present = Vol
    /\ dirs = {Staging[v] : v \in Vol}
    /\ stack = [p \in Path |-> <<>>]
    /\ owned = {}
    /\ pc = [c \in Call |-> "idle"]
    /\ req = [c \in Call |-> NoRequest]
    /\ seen = [c \in Call |-> FALSE]
    /\ gone = [c \in Call |-> FALSE]
    /\ phase = [v \in Vol |-> "detached"]
    /\ late = {}
    /\ unowned = {}
    /\ faults = 0

-----------------------------------------------------------------------------
InFlight(c) == pc[c] \notin {"idle", "done"}

Volume(c) == req[c].vol

(* The path a call mounts at or unmounts, and what it mounts there.        *)
At(c) == IF req[c].op \in {"stage", "unstage"} THEN Staging[Volume(c)]
         ELSE Target[Volume(c)]

(* Mutant: publish binds its target onto itself.                           *)
SourceIsTarget(c) == IF req[c].op = "stage" THEN Volume(c) ELSE Target[Volume(c)]

Source(c) == IF req[c].op = "stage" THEN Volume(c) ELSE Staging[Volume(c)]

Readonly(c) == Volume(c) \in ReaderOnly

(* What the CO makes of a call answered OK.                                *)
Reached(op) ==
    CASE op = "stage" -> "staged"
      [] op = "publish" -> "published"
      [] op = "unpublish" -> "staged"
      [] op = "unstage" -> "detached"

Succeed(c) ==
    /\ pc' = [pc EXCEPT ![c] = "done"]
    /\ phase' = IF gone[c] THEN phase
                ELSE [phase EXCEPT ![Volume(c)] = Reached(req[c].op)]
    /\ UNCHANGED <<req, seen, gone, late, unowned, faults>>

Fail(c) ==
    /\ pc' = [pc EXCEPT ![c] = "done"]
    /\ UNCHANGED <<req, seen, gone, phase, late>>

Refuse(c) == Fail(c) /\ UNCHANGED <<unowned, faults>>

(* On to the next await of the handler, unless it has been dropped.        *)
Await(c, stage) ==
    /\ pc' = [pc EXCEPT ![c] = IF gone[c] THEN "done" ELSE stage]
    /\ UNCHANGED <<req, seen, gone, coVars>>

(* On to the next step inside mountd, which nobody can drop.               *)
Continue(c, stage) ==
    /\ pc' = [pc EXCEPT ![c] = stage]
    /\ UNCHANGED <<req, gone, coVars>>

-----------------------------------------------------------------------------
(***************************************************************************)
(* The CO.  It begins an operation, repeats it, or gives up what it has    *)
(* begun and takes it back, one call at a time for a volume as far as it   *)
(* knows.                                                                  *)
(***************************************************************************)
From(op) ==
    CASE op = "stage" -> {"detached", "staging"}
      [] op = "publish" -> {"staged", "publishing"}
      [] op = "unpublish" -> {"publishing", "published", "unpublishing"}
      [] op = "unstage" -> {"staging", "staged", "unstaging"}

Begun(op) ==
    CASE op = "stage" -> "staging"
      [] op = "publish" -> "publishing"
      [] op = "unpublish" -> "unpublishing"
      [] op = "unstage" -> "unstaging"

Waiting(v) == \E c \in Call : InFlight(c) /\ ~gone[c] /\ Volume(c) = v

Invoke(c, r) ==
    /\ ~InFlight(c)
    /\ phase[r.vol] \in From(r.op)
    /\ r.vol \in present
    /\ ~Waiting(r.vol)
    /\ pc' = [pc EXCEPT ![c] = "lookup"]
    /\ req' = [req EXCEPT ![c] = r]
    /\ seen' = [seen EXCEPT ![c] = FALSE]
    /\ gone' = [gone EXCEPT ![c] = FALSE]
    /\ phase' = [phase EXCEPT ![r.vol] = Begun(r.op)]
    /\ UNCHANGED <<mtVars, late, unowned, faults>>

(* The CO deletes a volume that is on no host as far as it knows.          *)
Delete(v) ==
    /\ phase[v] = "detached"
    /\ v \in present
    /\ RemoveVolume(v)
    /\ UNCHANGED <<callVars, coVars>>

-----------------------------------------------------------------------------
(***************************************************************************)
(* get_lvm_block_path, and the handler's checks up to its next await.      *)
(* Unlike its kin, stage needs its directory to exist already.             *)
(***************************************************************************)
Found(c, op) ==
    /\ pc[c] = "lookup"
    /\ req[c].op = op
    /\ Volume(c) \in present
    /\ UNCHANGED mtVars

StageLookup(c) == Found(c, "stage") /\ Exists(At(c)) /\ Await(c, "read")

PublishLookup(c) == Found(c, "publish") /\ Await(c, "mkdir")

UnpublishLookup(c) == Found(c, "unpublish") /\ Await(c, "unread")

UnstageLookup(c) == Found(c, "unstage") /\ Await(c, "unread")

LookupRefused(c) ==
    /\ pc[c] = "lookup"
    /\ Volume(c) \notin present \/ (req[c].op = "stage" /\ ~Exists(At(c)))
    /\ Refuse(c)
    /\ UNCHANGED mtVars

(* publish makes its target, and then looks whether its source exists.     *)
MakeTarget(c) ==
    /\ pc[c] = "mkdir"
    /\ MakeDir(At(c))
    /\ IF Exists(Source(c)) THEN Await(c, "read") ELSE Refuse(c)

(* mountd reads the mount table.                                           *)
ReadMounts(c) ==
    /\ seen' = [seen EXCEPT ![c] = IsMounted(At(c))]
    /\ UNCHANGED mtVars

MountBegins(c) == pc[c] = "read" /\ ReadMounts(c) /\ Continue(c, "mount")

UnmountBegins(c) == pc[c] = "unread" /\ ReadMounts(c) /\ Continue(c, "unmount")

(* The rest of mount: it ends the handlers of stage and publish.           *)
Mount(c) ==
    /\ pc[c] = "mount"
    /\ \/ MountDone(Source(c), At(c), Readonly(c), seen[c])
          /\ Continue(c, "chown") /\ UNCHANGED seen
       \/ MountSkipped(Source(c), At(c), Readonly(c), seen[c]) /\ Succeed(c)
       \/ MountRefused(Source(c), At(c), Readonly(c)) /\ Refuse(c)
       \/ MountFailed(Source(c), At(c), Readonly(c), seen[c]) /\ Refuse(c)

(* Mutant: the directory below the mount is owned, not what it shows.      *)
OwnBelow(c) ==
    /\ pc[c] = "chown"
    /\ owned' = owned \cup {At(c)}
    /\ Succeed(c)
    /\ UNCHANGED <<present, dirs, stack>>

Own(c) ==
    /\ pc[c] = "chown"
    /\ \/ Chown(At(c)) /\ Succeed(c)
       \/ ~CanChown(At(c)) /\ Refuse(c) /\ UNCHANGED mtVars

(* Mutant: unpublish replies without removing its target.                  *)
UnmountedReplies(c) == IF req[c].op = "unstage" THEN Succeed(c) ELSE Await(c, "reply")

(* The rest of unmount: unstage is over, unpublish removes its target.     *)
Unmounted(c) == IF req[c].op = "unstage" THEN Succeed(c) ELSE Await(c, "rmdir")

(* Mutant: the error of unmount is dropped, as that of remove_dir is.      *)
UnmountingOrNot(c) ==
    /\ pc[c] = "unmount"
    /\ \/ UnmountSkipped(seen[c]) /\ Unmounted(c)
       \/ UnmountDone(At(c), seen[c]) /\ Unmounted(c)
       \/ UnmountRefused(At(c), seen[c]) /\ Unmounted(c)

Unmounting(c) ==
    /\ pc[c] = "unmount"
    /\ \/ UnmountSkipped(seen[c]) /\ Unmounted(c)
       \/ UnmountDone(At(c), seen[c]) /\ Unmounted(c)
       \/ UnmountRefused(At(c), seen[c]) /\ Refuse(c)

(* Whether the directory could be removed or not.                          *)
RemoveTarget(c) ==
    /\ pc[c] = "rmdir"
    /\ RemoveDir(At(c))
    /\ Succeed(c)

-----------------------------------------------------------------------------
(***************************************************************************)
(* Faults.  OperationFails: an RPC or a system call fails, or mountd dies, *)
(* also between the mount and its chown.  ReplyLost: mountd did all it was *)
(* asked, and its caller gets an error.  Abandon: the CO gives up on a     *)
(* call, or the node restarts; Dropped: nobody executes what an abandoned  *)
(* call had asked for.                                                     *)
(***************************************************************************)
Fault == faults < MaxFaults /\ faults' = faults + 1

OperationFails(c) ==
    /\ InFlight(c) /\ pc[c] # "rmdir"
    /\ Fault
    /\ Fail(c)
    /\ unowned' = IF pc[c] = "chown" /\ req[c].op = "stage"
                  THEN unowned \cup {Volume(c)} ELSE unowned
    /\ UNCHANGED mtVars

ReplyLost(c) ==
    /\ \/ pc[c] = "chown" /\ Chown(At(c))
       \/ pc[c] = "unmount" /\ UnmountDone(At(c), seen[c])
    /\ Fault
    /\ Fail(c)
    /\ UNCHANGED unowned

RemoveTargetFails(c) ==
    /\ pc[c] = "rmdir"
    /\ Fault
    /\ pc' = [pc EXCEPT ![c] = "done"]
    /\ phase' = IF gone[c] THEN phase ELSE [phase EXCEPT ![Volume(c)] = "staged"]
    /\ UNCHANGED <<mtVars, req, seen, gone, late, unowned>>

Abandon(c) ==
    /\ InFlight(c) /\ ~gone[c]
    /\ Fault
    /\ gone' = [gone EXCEPT ![c] = TRUE]
    /\ late' = late \cup {Volume(c)}
    /\ UNCHANGED <<mtVars, pc, req, seen, phase, unowned>>

Dropped(c) ==
    /\ gone[c] /\ pc[c] \in {"lookup", "mkdir", "read", "unread"}
    /\ Refuse(c)
    /\ UNCHANGED mtVars

-----------------------------------------------------------------------------
CallStep(c) ==
    \/ StageLookup(c)
    \/ PublishLookup(c)
    \/ UnpublishLookup(c)
    \/ UnstageLookup(c)
    \/ LookupRefused(c)
    \/ MakeTarget(c)
    \/ MountBegins(c)
    \/ UnmountBegins(c)
    \/ Mount(c)
    \/ Own(c)
    \/ Unmounting(c)
    \/ RemoveTarget(c)

FaultStep(c) ==
    \/ OperationFails(c)
    \/ ReplyLost(c)
    \/ RemoveTargetFails(c)
    \/ Abandon(c)
    \/ Dropped(c)

Next ==
    \/ \E c \in Call : \/ \E r \in Request : Invoke(c, r)
                       \/ CallStep(c)
                       \/ FaultStep(c)
    \/ \E v \in Vol : Delete(v)

Spec == Init /\ [][Next]_vars

(***************************************************************************)
(* Everything that was begun goes on, and the CO repeats what it has begun *)
(* until it is answered OK.  No fault is fair.                             *)
(***************************************************************************)
Repeat(v) ==
    \E c \in Call, r \in Request :
        r.vol = v /\ Begun(r.op) = phase[v] /\ Invoke(c, r)

FairSpec ==
    /\ Spec
    /\ \A c \in Call : WF_vars(CallStep(c))
    /\ \A v \in Vol : SF_vars(Repeat(v))

-----------------------------------------------------------------------------
(***************************************************************************)
(* The node on top of mountd implements the abstract service: whatever     *)
(* fails, is repeated or is done to other volumes, a volume whose calls    *)
(* were all waited for goes only where it was last asked to go, by whole   *)
(* steps, and is there when the CO is answered.                            *)
(***************************************************************************)
PlaceOf(v) ==
    CASE v \in late -> "unknown"
      [] v \notin late /\ stack[Staging[v]] = <<>> /\ stack[Target[v]] = <<>> -> "detached"
      [] v \notin late /\ stack[Staging[v]] = <<v>> /\ stack[Target[v]] = <<>> -> "staged"
      [] v \notin late /\ stack[Staging[v]] = <<v>> /\ stack[Target[v]] = <<v>> -> "published"
      [] OTHER -> "broken"

ToldOf(v) == IF v \in late THEN "unknown" ELSE phase[v]

Places == [v \in Vol |-> PlaceOf(v)]
Beliefs == [v \in Vol |-> ToldOf(v)]

Service == INSTANCE NodeService WITH place <- Places, told <- Beliefs

ImplementsNodeService == Service!ServiceSpec

(***************************************************************************)
(* As long as no call for a volume was abandoned, the CO believing it      *)
(* staged or published means that its directories show it, through exactly *)
(* one mount each, whatever failed on the way and whatever is done to      *)
(* other volumes meanwhile.                                                *)
(***************************************************************************)
BelievedIsMounted ==
    \A v \in Vol \ late :
        /\ phase[v] \in {"staged", "publishing", "published", "unpublishing"}
             => stack[Staging[v]] = <<v>>
        /\ phase[v] = "published" => stack[Target[v]] = <<v>>

(***************************************************************************)
(* And the CO believing it unpublished or unstaged means that nothing is   *)
(* mounted there any more, after failed and half-done attempts too.        *)
(***************************************************************************)
BelievedIsUnmounted ==
    \A v \in Vol \ late :
        /\ phase[v] \in {"detached", "staging", "staged", "unstaging"}
             => stack[Target[v]] = <<>>
        /\ phase[v] = "detached" => stack[Staging[v]] = <<>>

(***************************************************************************)
(* A late call harms its own volume only: what shows at the directories of *)
(* a volume is the volume or a bare directory of its own.                  *)
(***************************************************************************)
NoOtherShows ==
    \A v \in Vol :
        /\ ToSet(stack[Staging[v]]) \subseteq {v}
        /\ ToSet(stack[Target[v]]) \subseteq {v, Staging[v]}

(***************************************************************************)
(* Stage answers OK, without a chown, for a path it finds mounted, also    *)
(* when the abandoned call that mounted it has not come to its chown yet.  *)
(* The volume gets its owner all the same: wherever one that can be        *)
(* written to is mounted for staging it is owned, or the call that mounted *)
(* it is about to chown it; and it is owned once the CO, having abandoned  *)
(* no call for it, is told that it is staged.  A chown that failed is the  *)
(* only way to another end.                                                *)
(***************************************************************************)
ToBeOwned(v) ==
    \E c \in Call : pc[c] = "chown" /\ req[c].op = "stage" /\ Volume(c) = v

OwnedUnlessFailed ==
    \A v \in Vol \ (ReaderOnly \cup unowned) :
        /\ IsMounted(Staging[v]) => v \in owned \/ ToBeOwned(v)
        /\ v \notin late
           /\ phase[v] \in {"staged", "publishing", "published", "unpublishing"}
             => v \in owned

(***************************************************************************)
(* mountd's own checks never stop unpublish or unstage of such a volume,   *)
(* whatever else has failed, if none of its calls was abandoned: what      *)
(* mount found allowed, and mounted, unmount finds allowed too, although   *)
(* it sees the volume's root where mount saw the bare directory.           *)
(***************************************************************************)
TakeDownAllowed ==
    \A c \in Call :
        /\ pc[c] = "unmount" /\ seen[c]
        /\ Volume(c) \notin ReaderOnly \cup unowned \cup late
        => EnsureInteractable(At(c), FALSE)

(***************************************************************************)
(* A CO that repeats unpublish or unstage is answered OK, late calls or    *)
(* not.  The volume is down by then, its directory mounted no more, if     *)
(* there was a time at which the call had not read the mount table yet, no *)
(* abandoned call for the volume was about and at most one mount was       *)
(* there: calls abandoned before that, or while taking it down, do not     *)
(* matter.                                                                 *)
(***************************************************************************)
Unread(v) ==
    \A c \in Call : InFlight(c) /\ Volume(c) = v => pc[c] = "lookup" /\ ~gone[c]

TakenDown ==
    \A v \in Vol :
        /\ phase[v] = "unpublishing" ~> phase[v] # "unpublishing"
        /\ phase[v] = "unstaging" ~> phase[v] # "unstaging"
        /\ phase[v] = "unpublishing" /\ Unread(v) /\ Len(stack[Target[v]]) <= 1
             ~> phase[v] # "unpublishing" /\ ~IsMounted(Target[v])
        /\ phase[v] = "unstaging" /\ Unread(v) /\ Len(stack[Staging[v]]) <= 1
             ~> phase[v] # "unstaging" /\ ~IsMounted(Staging[v])

-----------------------------------------------------------------------------
(***************************************************************************)
(* What the repository says of the program and the code does not do.       *)
(***************************************************************************)

(***************************************************************************)
(* csi.proto:1397, "The SP MUST delete the file or directory it created at *)
(* this path": once unpublish is answered OK nothing can be mounted there. *)
(***************************************************************************)
UnpublishedIsUnmounted ==
    \A v \in Vol : phase[v] = "staged" => ~IsMounted(Target[v])

(***************************************************************************)
(* mountd server.rs:150, "Own the mounted folder for the specified user /  *)
(* group": a volume that is staged belongs to the configured user.         *)
(***************************************************************************)
StagedIsOwned ==
    \A v \in Vol : phase[v] = "staged" => v \in owned
=============================================================================
