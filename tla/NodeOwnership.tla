---------------------------- MODULE NodeOwnership ----------------------------
(***************************************************************************)
(* Proofs about who owns what the node mounts, for any number of calls,    *)
(* volumes and directories and any faults.  A mounted directory exists,    *)
(* because rmdir refuses a mountpoint; and a staging directory on which a  *)
(* volume is mounted shows a root that has been chowned, unless the call   *)
(* that mounted it is on its way to do so or its chown failed.  NodeProofs *)
(* says what is mounted where, and that a call that was waited for is then *)
(* the only one for its volume.                                            *)
(***************************************************************************)
EXTENDS NodeProofs

OwnInv ==
    /\ \A v \in Vol : Staging[v] \in dirs
    /\ \A p \in Path : IsMounted(p) => p \in dirs
    /\ \A v \in Vol \ (ReaderOnly \cup unowned) :
          IsMounted(Staging[v]) => v \in owned \/ ToBeOwned(v)

(* Nothing is mounted, and the staging directories exist.                  *)
LEMMA InitOwn == Init => OwnInv
  BY NodeAssumption DEF Init, OwnInv, IsMounted

(***************************************************************************)
(* A step that mounts nothing, and after which every chown that was to be  *)
(* done still is, is done, or is known to have failed.                     *)
(***************************************************************************)
LEMMA OwnKept ==
  ASSUME OwnInv, dirs \subseteq dirs', owned \subseteq owned', unowned \subseteq unowned',
         \A p \in Path : IsMounted(p)' => IsMounted(p),
         \A c \in Call : pc[c] = "chown" =>
             \/ pc'[c] = "chown" /\ req'[c] = req[c]
             \/ req[c].op = "stage" => Volume(c) \in unowned'
  PROVE  OwnInv'
<1>1. \A v \in Vol : ToBeOwned(v) => ToBeOwned(v)' \/ v \in unowned'
  BY DEF ToBeOwned, Volume
<1>2. \A v \in Vol : Staging[v] \in Path
  BY NodeAssumption
<1> QED
  BY <1>1, <1>2 DEF OwnInv

(* A staging directory that is mounted shows its volume, late calls or not. *)
LEMMA StagingShows ==
  ASSUME IInv, NEW v \in Vol, IsMounted(Staging[v])
  PROVE  Shows(Staging[v]) = v
<1> PICK p \in Path : p = Staging[v]
  BY NodeAssumption
<1>1. stack[p] \in Seq(Root) /\ stack[p] # <<>> /\ ToSet(stack[p]) \subseteq {v}
  BY DEF IInv, NodeTypeOK, MountTableTypeOK, IsMounted, ShowsOwn
<1>2. Shows(p) = stack[p][Len(stack[p])] /\ Len(stack[p]) \in DOMAIN stack[p]
  BY <1>1 DEF Shows, IsMounted, Last
<1> QED
  BY <1>1, <1>2 DEF ToSet

-----------------------------------------------------------------------------
(* The mount system call leaves the chown to be done.                      *)
LEMMA OwnMount ==
  ASSUME IInv, OwnInv, NEW c \in Call, Mount(c)
  PROVE  OwnInv'
<1>1. pc[c] = "mount" /\ InFlight(c) /\ req[c] \in Request /\ req' = req /\ OpFitsStage(c)
  BY DEF Mount, Continue, Succeed, Refuse, Fail, IInv, CallKnows, InFlight
<1>2. \A d \in Call \ {c} : pc'[d] = pc[d]
  BY DEF Mount, Continue, Succeed, Refuse, Fail, IInv, NodeTypeOK
<1>3. unowned' = unowned
  BY DEF Mount, Continue, Succeed, Refuse, Fail, coVars
<1>4. CASE UNCHANGED mtVars
  BY <1>1, <1>2, <1>3, <1>4, OwnKept DEF mtVars, IsMounted
<1>5. CASE MountDone(Source(c), At(c), Readonly(c), seen[c]) /\ Continue(c, "chown")
  <2>1. At(c) \in Path /\ At(c) \in dirs
    BY <1>1, <1>5, AtType, NodeAssumption, MountTableAssumption
    DEF MountDone, MayMount, EnsureInteractable, Exists, IInv, NodeTypeOK, MountTableTypeOK
  <2>2. /\ dirs' = dirs /\ owned' = owned
        /\ \A p \in Path \ {At(c)} : stack'[p] = stack[p]
    BY <1>5, <2>1
    DEF MountDone, MountVolume, BindMount, Push, IInv, NodeTypeOK, MountTableTypeOK
  <2>3. pc'[c] = "chown"
    BY <1>5 DEF Continue, IInv, NodeTypeOK
  <2>4. \A v \in Vol : ToBeOwned(v) => ToBeOwned(v)'
    BY <1>1, <1>2 DEF ToBeOwned, Volume
  <2>5. \A p \in Path : IsMounted(p)' => p \in dirs'
    BY <2>1, <2>2 DEF OwnInv, IsMounted
  <2>6. ASSUME NEW v \in Vol, IsMounted(Staging[v])', ~IsMounted(Staging[v])
        PROVE  ToBeOwned(v)'
    <3>1. Staging[v] = At(c)
      BY <2>2, <2>6, NodeAssumption DEF IsMounted
    <3>2. v = Volume(c) /\ req[c].op = "stage"
      BY <1>1, <3>1, AtType, NodeAssumption DEF At, OpFitsStage, MountStage
    <3> QED
      BY <1>1, <2>3, <3>2 DEF ToBeOwned, Volume
  <2> QED
    BY <1>3, <2>2, <2>4, <2>5, <2>6 DEF OwnInv
<1> QED
  BY <1>4, <1>5 DEF Mount, MountSkipped, MountRefused, MountFailed, MountBusy

(* The chown, with its reply or without: unless something fails it is      *)
(* refused for a volume for readers only.                                  *)
LEMMA OwnOwn ==
  ASSUME IInv, OwnInv, NEW c \in Call, Own(c) \/ (ReplyLost(c) /\ pc[c] = "chown")
  PROVE  OwnInv'
<1>1. /\ pc[c] = "chown" /\ InFlight(c) /\ req' = req
      /\ dirs' = dirs /\ stack' = stack /\ unowned' = unowned
      /\ owned \subseteq owned'
  BY DEF Own, ReplyLost, Chown, Succeed, Refuse, Fail, mtVars, InFlight
<1>2. \A d \in Call \ {c} : pc'[d] = pc[d]
  BY DEF Own, ReplyLost, Succeed, Refuse, Fail, IInv, NodeTypeOK
<1>3. ASSUME NEW v \in Vol \ ReaderOnly, IsMounted(Staging[v]),
             req[c].op = "stage", Volume(c) = v
      PROVE  v \in owned'
  <2>1. At(c) = Staging[v] /\ Staging[v] \in dirs
    BY <1>3 DEF At, OwnInv
  <2>2. Shows(At(c)) = v
    BY <1>3, <2>1, StagingShows
  <2> QED
    BY <1>1, <1>3, <2>1, <2>2 DEF Own, ReplyLost, CanChown, Chown
<1>4. ASSUME NEW v \in Vol, ToBeOwned(v)
      PROVE  ToBeOwned(v)' \/ (req[c].op = "stage" /\ Volume(c) = v)
  BY <1>1, <1>2, <1>4 DEF ToBeOwned, Volume
<1> QED
  BY <1>1, <1>3, <1>4 DEF OwnInv, IsMounted

(* unmount, with its reply or without.                                     *)
LEMMA OwnUnmount ==
  ASSUME IInv, OwnInv, NEW c \in Call, Unmounting(c) \/ (ReplyLost(c) /\ pc[c] = "unmount")
  PROVE  OwnInv'
<1>1. /\ pc[c] = "unmount" /\ req' = req /\ dirs' = dirs /\ owned' = owned
      /\ unowned' = unowned /\ InFlight(c)
  BY DEF Unmounting, ReplyLost, UnmountSkipped, UnmountDone, UnmountRefused, Unmount,
         Unmounted, Succeed, Await, Refuse, Fail, mtVars, coVars, InFlight
<1>2. \A d \in Call \ {c} : pc'[d] = pc[d]
  BY DEF Unmounting, ReplyLost, Unmounted, Succeed, Await, Refuse, Fail, IInv, NodeTypeOK
<1>3. At(c) \in Path
  BY <1>1, AtType DEF IInv, CallKnows
<1>4. \A p \in Path : IsMounted(p)' => IsMounted(p)
  BY <1>1, <1>3
  DEF Unmounting, ReplyLost, UnmountSkipped, UnmountDone, UnmountRefused, Unmount, IsMounted, mtVars,
      IInv, NodeTypeOK, MountTableTypeOK
<1> QED
  BY <1>1, <1>2, <1>4, OwnKept

(* rmdir leaves a directory that is mounted, and is for targets only.      *)
LEMMA OwnRemoveTarget ==
  ASSUME IInv, OwnInv, NEW c \in Call, RemoveTarget(c)
  PROVE  OwnInv'
<1>1. /\ pc[c] = "rmdir" /\ req' = req /\ owned' = owned /\ stack' = stack
      /\ unowned' = unowned /\ InFlight(c)
  BY DEF RemoveTarget, RemoveDir, Succeed, InFlight
<1>2. \A d \in Call \ {c} : pc'[d] = pc[d]
  BY DEF RemoveTarget, Succeed, IInv, NodeTypeOK
<1>3. \A v \in Vol : Staging[v] # At(c)
  BY <1>1, NodeAssumption, AtType DEF IInv, CallKnows, OpFitsStage, At
<1>4. dirs \ {At(c)} \subseteq dirs' /\ (IsMounted(At(c)) => dirs' = dirs)
  BY DEF RemoveTarget, RemoveDir
<1>5. \A v \in Vol : ToBeOwned(v) => ToBeOwned(v)'
  BY <1>1, <1>2 DEF ToBeOwned, Volume
<1> QED
  BY <1>1, <1>3, <1>4, <1>5 DEF OwnInv, IsMounted

(* Every step keeps it.                                                    *)
LEMMA NextOwn == IInv /\ OwnInv /\ [Next]_vars => OwnInv'
<1> SUFFICES ASSUME IInv, OwnInv, [Next]_vars PROVE OwnInv'
  OBVIOUS
<1> USE DEF IInv, NodeTypeOK, IsMounted
<1>1. ASSUME NEW c \in Call, NEW r \in Request, Invoke(c, r) PROVE OwnInv'
  BY <1>1, OwnKept DEF Invoke, InFlight, mtVars
<1>2. ASSUME NEW c \in Call, CallStep(c) PROVE OwnInv'
  <2>1. CASE StageLookup(c) \/ PublishLookup(c) \/ UnpublishLookup(c) \/ UnstageLookup(c)
    BY <2>1, OwnKept
    DEF StageLookup, PublishLookup, UnpublishLookup, UnstageLookup, Found, Await, mtVars,
        coVars
  <2>2. CASE LookupRefused(c) \/ MakeTarget(c)
    BY <2>2, OwnKept DEF LookupRefused, MakeTarget, MakeDir, Await, Refuse, Fail, mtVars, coVars
  <2>3. CASE MountBegins(c) \/ UnmountBegins(c)
    BY <2>3, OwnKept DEF MountBegins, UnmountBegins, ReadMounts, Continue, mtVars, coVars
  <2> QED
    BY <1>2, <2>1, <2>2, <2>3, OwnMount, OwnOwn, OwnUnmount, OwnRemoveTarget DEF CallStep
<1>3. ASSUME NEW c \in Call, FaultStep(c) PROVE OwnInv'
  <2>1. CASE Dropped(c)
    BY <2>1, OwnKept DEF Dropped, Refuse, Fail, mtVars
  <2>2. CASE OperationFails(c)
    <3>1. UNCHANGED mtVars /\ req' = req /\ \A d \in Call \ {c} : pc'[d] = pc[d]
      BY <2>2 DEF OperationFails, Fail
    <3>2. unowned \subseteq unowned'
      BY <2>2 DEF OperationFails
    <3>3. pc[c] = "chown" => (req[c].op = "stage" => Volume(c) \in unowned')
      BY <2>2 DEF OperationFails
    <3> QED
      BY <3>1, <3>2, <3>3, OwnKept DEF mtVars
  <2>3. CASE RemoveTargetFails(c) \/ Abandon(c)
    BY <2>3, OwnKept DEF RemoveTargetFails, Abandon, mtVars
  <2>4. CASE ReplyLost(c)
    BY <2>4, OwnOwn, OwnUnmount DEF ReplyLost
  <2> QED
    BY <1>3, <2>1, <2>2, <2>3, <2>4 DEF FaultStep
<1>4. ASSUME NEW v \in Vol, Delete(v) PROVE OwnInv'
  BY <1>4, OwnKept DEF Delete, RemoveVolume, callVars, coVars
<1>5. CASE UNCHANGED vars
  BY <1>5, OwnKept DEF vars, mtVars, callVars, coVars
<1> QED
  BY <1>1, <1>2, <1>3, <1>4, <1>5 DEF Next

(* It holds in every state.                                                *)
LEMMA OwnInvariance == Spec => [](IInv /\ OwnInv)
  BY InitOwn, NextOwn, Invariance, PTL DEF Spec

-----------------------------------------------------------------------------
(* No stage is on its way to its chown when the CO, which has abandoned no *)
(* call for the volume, has gone further.                                  *)
LEMMA OwnedBeyondStaging ==
  ASSUME IInv, OwnInv, NEW v \in Vol \ (ReaderOnly \cup unowned), v \notin late,
         IsMounted(Staging[v]), phase[v] # "staging"
  PROVE  v \in owned
<1> SUFFICES ASSUME NEW c \in Call, pc[c] = "chown", req[c].op = "stage", Volume(c) = v
             PROVE  FALSE
  BY DEF OwnInv, ToBeOwned
<1>1. InFlight(c)
  BY DEF InFlight
<1> QED
  BY <1>1, CallContext DEF Begun

(***************************************************************************)
(* stage answers OK for a path that it found mounted without a chown, and  *)
(* still a volume that is mounted for staging is owned, or the call that   *)
(* mounted it is about to chown it, unless its chown failed.               *)
(***************************************************************************)
THEOREM OwnedWhenStaged == Spec => []OwnedUnlessFailed
<1>1. IInv /\ OwnInv => OwnedUnlessFailed
  <2> SUFFICES ASSUME IInv, OwnInv, NEW v \in Vol \ (ReaderOnly \cup unowned), v \notin late,
                      phase[v] \in {"staged", "publishing", "published", "unpublishing"}
               PROVE  v \in owned
    BY DEF OwnedUnlessFailed, OwnInv
  <2>1. stack[Staging[v]] = <<v>>
    BY DEF IInv, Settled
  <2> QED
    BY <2>1, OwnedBeyondStaging DEF IsMounted
<1> QED
  BY <1>1, OwnInvariance, PTL

(***************************************************************************)
(* ensure_interactable never stops the unmount of what mount has mounted,  *)
(* whatever else failed, of a volume whose chown did not fail and whose    *)
(* calls were all waited for.                                              *)
(***************************************************************************)
THEOREM UnmountAllowed == Spec => []TakeDownAllowed
<1>1. IInv /\ OwnInv => TakeDownAllowed
  <2> SUFFICES ASSUME IInv, OwnInv, NEW c \in Call, pc[c] = "unmount", seen[c],
                      Volume(c) \notin ReaderOnly \cup unowned, Volume(c) \notin late
               PROVE  EnsureInteractable(At(c), FALSE)
    BY DEF TakeDownAllowed
  <2> DEFINE v == Volume(c)
  <2>1. InFlight(c)
    BY DEF InFlight
  <2>2. /\ v \in Vol /\ v \in Root /\ At(c) \in Path /\ IsMounted(At(c)) /\ Settled(v)
        /\ phase[v] = Begun(req[c].op) /\ req[c].op \in {"unpublish", "unstage"}
    BY <2>1, CallContext DEF TableKnown, OpFitsStage, UnmountStage, Root
  <2>3. phase[v] # "staging"
    BY <2>2 DEF Begun
  <2>4. IsMounted(Staging[v])
    BY <2>2 DEF At, Begun, Settled, IsMounted
  <2>5. stack[At(c)] = <<v>>
    BY <2>1, <2>2, CallContext, AtType DEF Settled, IsMounted
  <2>6. At(c) \in dirs /\ Shows(At(c)) = v
    BY <2>2, <2>5, ShowsType DEF OwnInv, IInv, NodeTypeOK
  <2>7. v \in owned
    BY <2>2, <2>3, <2>4, OwnedBeyondStaging
  <2> QED
    BY <2>2, <2>6, <2>7 DEF EnsureInteractable, Exists
<1> QED
  BY <1>1, OwnInvariance, PTL
=============================================================================
