--------------------------- MODULE NodeRefinement ---------------------------
(***************************************************************************)
(* The node on top of mountd implements NodeService, for any number of     *)
(* calls, volumes and directories and any faults.  The inductive invariant *)
(* of NodeProofs says what the directories of a volume hold in each phase; *)
(* what is left to show is that no step of a call takes its volume back.   *)
(***************************************************************************)
EXTENDS NodeProofs

(* A step of a call leaves other volumes alone and takes its own, if none  *)
(* of its calls was abandoned, only where the call is to take it.          *)
Forward(c) ==
    /\ \A w \in Vol \ {Volume(c)} :
          /\ phase'[w] = phase[w]
          /\ stack'[Staging[w]] = stack[Staging[w]]
          /\ stack'[Target[w]] = stack[Target[w]]
    /\ late \subseteq late' /\ late' \subseteq late \cup {Volume(c)}
    /\ Volume(c) \notin late => phase'[Volume(c)] \in {phase[Volume(c)], Reached(req[c].op)}
    /\ Volume(c) \notin late /\ req[c].op \in {"stage", "publish"} /\ stack[At(c)] # <<>>
          => stack'[At(c)] # <<>>
    /\ Volume(c) \notin late /\ req[c].op \in {"unpublish", "unstage"} /\ stack[At(c)] = <<>>
          => stack'[At(c)] = <<>>

(* Steps that mount and unmount nothing.                                   *)
LEMMA QuietForward ==
  ASSUME IInv, NEW c \in Call, InFlight(c), stack' = stack,
         late \subseteq late', late' \subseteq late \cup {Volume(c)},
         phase' \in {phase, [phase EXCEPT ![Volume(c)] = Reached(req[c].op)]}
  PROVE  Forward(c)
<1>1. Volume(c) \in Vol
  BY CallContext
<1> QED
  BY <1>1 DEF IInv, NodeTypeOK, Forward

LEMMA StillStep ==
  ASSUME IInv, NEW c \in Call,
         \/ StageLookup(c) \/ PublishLookup(c) \/ UnpublishLookup(c) \/ UnstageLookup(c)
         \/ LookupRefused(c) \/ MakeTarget(c) \/ MountBegins(c) \/ UnmountBegins(c)
         \/ OperationFails(c) \/ Abandon(c) \/ Dropped(c)
  PROVE  Forward(c)
<1>1. InFlight(c) /\ stack' = stack /\ phase' = phase
  BY DEF StageLookup, PublishLookup, UnpublishLookup, UnstageLookup, LookupRefused,
         MakeTarget, MountBegins, UnmountBegins, OperationFails, Abandon, Dropped,
         Found, Await, Refuse, Fail, MakeDir, ReadMounts, Continue, mtVars, coVars, InFlight
<1>2. late' \in {late, late \cup {Volume(c)}}
  BY DEF StageLookup, PublishLookup, UnpublishLookup, UnstageLookup, LookupRefused,
         MakeTarget, MountBegins, UnmountBegins, OperationFails, Abandon, Dropped,
         Found, Await, Refuse, Fail, Continue, coVars
<1> QED
  BY <1>1, <1>2, QuietForward

LEMMA MountForward ==
  ASSUME IInv, NEW c \in Call,
         Mount(c) \/ Own(c) \/ (ReplyLost(c) /\ pc[c] = "chown")
  PROVE  Forward(c)
<1>1. InFlight(c)
  BY DEF Mount, Own, ReplyLost, InFlight
<1>2. CASE /\ pc[c] = "mount"
           /\ MountDone(Source(c), At(c), Readonly(c), seen[c]) /\ Continue(c, "chown")
  <2>1. /\ \A p \in Path \ {At(c)} : stack'[p] = stack[p]
        /\ stack'[At(c)] # <<>>
    BY <1>2, MountPushes
  <2>2. req[c] \in Request /\ req[c].op \in {"stage", "publish"}
    BY <1>1, <1>2, CallContext DEF OpFitsStage, MountStage
  <2>3. phase' = phase /\ late' = late
    BY <1>2 DEF Continue, coVars
  <2> QED
    BY <2>1, <2>2, <2>3, DirectoriesApart DEF Forward
<1>3. CASE stack' = stack /\ (Succeed(c) \/ Fail(c))
  <2>1. late' = late /\ phase' \in {phase, [phase EXCEPT ![Volume(c)] = Reached(req[c].op)]}
    BY <1>3 DEF Succeed, Fail
  <2> QED
    BY <1>1, <1>3, <2>1, QuietForward
<1> QED
  BY <1>2, <1>3
  DEF Mount, Own, ReplyLost, MountSkipped, MountRefused, MountFailed, MountBusy, Chown,
      Refuse, mtVars

LEMMA UnmountForward ==
  ASSUME IInv, NEW c \in Call,
         \/ Unmounting(c) \/ RemoveTarget(c) \/ RemoveTargetFails(c)
         \/ ReplyLost(c) /\ pc[c] = "unmount"
  PROVE  Forward(c)
<1>1. InFlight(c)
  BY DEF Unmounting, RemoveTarget, RemoveTargetFails, ReplyLost, InFlight
<1>2. CASE /\ pc[c] = "unmount"
           /\ UnmountDone(At(c), seen[c]) /\ (Unmounted(c) \/ Fail(c))
  <2>1. /\ req[c] \in Request /\ req[c].op \in {"unpublish", "unstage"}
        /\ At(c) \in Path /\ Volume(c) \in Vol
        /\ Volume(c) \notin late => stack[At(c)] # <<>>
    BY <1>1, <1>2, CallContext
    DEF OpFitsStage, UnmountStage, TableKnown, IsMounted, UnmountDone
  <2> PICK p \in Path : p = At(c)
    BY <2>1
  <2>2. Unmount(p) /\ MountTableTypeOK
    BY <1>2 DEF UnmountDone, Unmount, IInv, NodeTypeOK
  <2>3. \A q \in Path \ {At(c)} : stack'[q] = stack[q]
    BY <2>2, UnmountPops
  <2>4. late' = late /\ phase' \in {phase, [phase EXCEPT ![Volume(c)] = Reached(req[c].op)]}
    BY <1>2 DEF Unmounted, Succeed, Await, Fail, coVars
  <2>5. phase'[Volume(c)] \in {phase[Volume(c)], Reached(req[c].op)}
    BY <2>1, <2>4 DEF IInv, NodeTypeOK
  <2>6. \A w \in Vol \ {Volume(c)} : phase'[w] = phase[w]
    BY <2>4 DEF IInv, NodeTypeOK
  <2> QED
    BY <2>1, <2>3, <2>4, <2>5, <2>6, DirectoriesApart DEF Forward
<1>3. CASE stack' = stack /\ (Unmounted(c) \/ Refuse(c) \/ RemoveTarget(c) \/ RemoveTargetFails(c))
  <2>1. (RemoveTarget(c) \/ RemoveTargetFails(c)) => Reached(req[c].op) = "staged"
    BY <1>1, CallContext DEF RemoveTarget, RemoveTargetFails, OpFitsStage, Reached
  <2>2. late' = late /\ phase' \in {phase, [phase EXCEPT ![Volume(c)] = Reached(req[c].op)]}
    BY <1>3, <2>1
    DEF Unmounted, Succeed, Await, coVars, Refuse, Fail, RemoveTarget, RemoveTargetFails
  <2> QED
    BY <1>1, <1>3, <2>2, QuietForward
<1> QED
  BY <1>2, <1>3
  DEF Unmounting, ReplyLost, UnmountSkipped, UnmountRefused, RemoveTarget,
      RemoveTargetFails, RemoveDir, mtVars

-----------------------------------------------------------------------------
(* Where a volume is, by its phase.                                        *)
Placed(v) ==
    /\ v \in late => PlaceOf(v) = "unknown" /\ ToldOf(v) = "unknown"
    /\ v \notin late =>
         /\ ToldOf(v) = phase[v]
         /\ phase[v] \in {"detached", "staged", "published"} => PlaceOf(v) = phase[v]
         /\ phase[v] \in {"staging", "unstaging"} =>
              PlaceOf(v) = IF stack[Staging[v]] = <<>> THEN "detached" ELSE "staged"
         /\ phase[v] \in {"publishing", "unpublishing"} =>
              PlaceOf(v) = IF stack[Target[v]] = <<>> THEN "staged" ELSE "published"

LEMMA PlaceByPhase == IInv => \A v \in Vol : Placed(v)
<1> SUFFICES ASSUME IInv, NEW v \in Vol PROVE Placed(v)
  OBVIOUS
<1>1. <<v>> # <<>>
  OBVIOUS
<1>2. CASE v \in late
  BY <1>2 DEF Placed, PlaceOf, ToldOf
<1>3. CASE v \notin late
  <2>1. Settled(v)
    BY <1>3 DEF IInv
  <2> QED
    BY <1>1, <1>3, <2>1 DEF Settled, Placed, PlaceOf, ToldOf
<1> QED
  BY <1>2, <1>3

LEMMA PlaceByPhaseNext == IInv' => (\A v \in Vol : Placed(v))'
  BY PlaceByPhase, PTL

(* A step after which all volumes but one are where they were.             *)
LEMMA OneVolume ==
  ASSUME NEW v \in Vol,
         \A w \in Vol \ {v} : PlaceOf(w)' = PlaceOf(w) /\ ToldOf(w)' = ToldOf(w)
  PROVE  /\ Places' = [Places EXCEPT ![v] = PlaceOf(v)']
         /\ Beliefs' = [Beliefs EXCEPT ![v] = ToldOf(v)']
         /\ Places[v] = PlaceOf(v) /\ Beliefs[v] = ToldOf(v)
         /\ PlaceOf(v)' = PlaceOf(v) => Places' = Places
         /\ ToldOf(v)' = ToldOf(v) => Beliefs' = Beliefs
  BY DEF Places, Beliefs

LEMMA CallRefines ==
  ASSUME IInv, IInv', NEW c \in Call, InFlight(c), Forward(c)
  PROVE  [Service!ServiceNext]_<<Places, Beliefs>>
<1> PICK v \in Vol : v = Volume(c)
  BY CallContext
<1> USE DEF Service!Goal, Service!Start, Service!Asked
<1>1. \A w \in Vol \ {v} : PlaceOf(w)' = PlaceOf(w) /\ ToldOf(w)' = ToldOf(w)
  <2> TAKE w \in Vol \ {v}
  <2>1. /\ w \in late' <=> w \in late
        /\ phase'[w] = phase[w]
        /\ stack'[Staging[w]] = stack[Staging[w]]
        /\ stack'[Target[w]] = stack[Target[w]]
    BY DEF Forward
  <2> QED
    BY <2>1 DEF PlaceOf, ToldOf
<1>2. CASE v \in late'
  <2>1. PlaceOf(v)' = "unknown" /\ ToldOf(v)' = "unknown"
    BY <1>2 DEF PlaceOf, ToldOf
  <2> QED
    BY <1>1, <2>1, OneVolume DEF Service!ServiceNext, Service!Lose
<1>3. CASE v \notin late'
  <2> DEFINE o == req[c].op
  <2>1. v \notin late /\ phase[v] = Begun(o) /\ o \in Op /\ phase'[v] \in {Begun(o), Reached(o)}
    BY <1>3, CallContext DEF Forward
  <2>2. /\ o = "stage" => Begun(o) = "staging" /\ Reached(o) = "staged" /\ At(c) = Staging[v]
        /\ o = "publish" => Begun(o) = "publishing" /\ Reached(o) = "published" /\ At(c) = Target[v]
        /\ o = "unpublish" => Begun(o) = "unpublishing" /\ Reached(o) = "staged" /\ At(c) = Target[v]
        /\ o = "unstage" => Begun(o) = "unstaging" /\ Reached(o) = "detached" /\ At(c) = Staging[v]
    BY DEF Begun, Reached, At
  <2>3. ToldOf(v) = Begun(o) /\ ToldOf(v)' = phase'[v]
    BY <1>3, <2>1 DEF ToldOf
  <2>4. CASE phase'[v] = Reached(o)
    <3>1. PlaceOf(v)' = Reached(o)
      BY <1>3, <2>1, <2>2, <2>4, PlaceByPhaseNext DEF Op, Placed
    <3>2. Begun(o) \in Service!Asked /\ Service!Goal[Begun(o)] = Reached(o)
      BY <2>1, <2>2 DEF Op
    <3>3. Service!Answer(v)
      BY <1>1, <2>3, <2>4, <3>1, <3>2, OneVolume DEF Service!Answer
    <3> QED
      BY <3>3 DEF Service!ServiceNext
  <2>5. CASE phase'[v] = Begun(o)
    <3>1. PlaceOf(v)' \in {PlaceOf(v), Reached(o)}
      BY <1>3, <2>1, <2>2, <2>5, PlaceByPhase, PlaceByPhaseNext DEF Op, Placed, Forward
    <3>2. Begun(o) \in Service!Asked /\ Service!Goal[Begun(o)] = Reached(o)
      BY <2>1, <2>2 DEF Op
    <3>3. CASE PlaceOf(v)' = PlaceOf(v)
      BY <1>1, <2>3, <2>5, <3>3, OneVolume
    <3>4. CASE PlaceOf(v)' = Reached(o)
      <4>1. Service!Move(v)
        BY <1>1, <2>3, <2>5, <3>2, <3>4, OneVolume DEF Service!Move
      <4> QED
        BY <4>1 DEF Service!ServiceNext
    <3> QED
      BY <3>1, <3>3, <3>4
  <2> QED
    BY <2>1, <2>4, <2>5
<1> QED
  BY <1>2, <1>3

(* The CO asks: whatever it may ask for, the volume is at one of the ends. *)
LEMMA InvokeRefines ==
  ASSUME IInv, NEW c \in Call, NEW r \in Request, Invoke(c, r)
  PROVE  [Service!ServiceNext]_<<Places, Beliefs>>
<1> PICK v \in Vol : v = r.vol
  BY DEF Request
<1> DEFINE o == r.op
<1> USE DEF Service!Goal, Service!Start, Service!Asked
<1>1. /\ stack' = stack /\ late' = late /\ o \in Op
      /\ phase'[v] = Begun(o) /\ phase[v] \in From(o)
      /\ \A w \in Vol \ {v} : phase'[w] = phase[w]
  BY DEF Invoke, mtVars, Request, IInv, NodeTypeOK
<1>2. PlaceOf(v)' = PlaceOf(v)
      /\ \A w \in Vol \ {v} : PlaceOf(w)' = PlaceOf(w) /\ ToldOf(w)' = ToldOf(w)
  BY <1>1 DEF PlaceOf, ToldOf
<1>3. CASE v \in late
  <2>1. ToldOf(v)' = ToldOf(v)
    BY <1>1, <1>3 DEF ToldOf
  <2> QED
    BY <1>2, <2>1, OneVolume
<1>4. CASE v \notin late
  <2>1. ToldOf(v)' = Begun(o)
    BY <1>1, <1>4 DEF ToldOf
  <2>2. /\ o = "stage" => Begun(o) = "staging" /\ From(o) = {"detached", "staging"}
        /\ o = "publish" => Begun(o) = "publishing" /\ From(o) = {"staged", "publishing"}
        /\ o = "unpublish" => /\ Begun(o) = "unpublishing"
                              /\ From(o) = {"publishing", "published", "unpublishing"}
        /\ o = "unstage" => /\ Begun(o) = "unstaging"
                            /\ From(o) = {"staging", "staged", "unstaging"}
    BY DEF Begun, From
  <2>3. /\ Begun(o) \in Service!Asked
        /\ PlaceOf(v) \in {Service!Start[Begun(o)], Service!Goal[Begun(o)]}
    BY <1>1, <1>4, <2>2, PlaceByPhase DEF Op, Placed
  <2>4. Service!Ask(v, Begun(o))
    BY <1>2, <2>1, <2>3, OneVolume DEF Service!Ask
  <2> QED
    BY <2>3, <2>4 DEF Service!ServiceNext
<1> QED
  BY <1>3, <1>4

(***************************************************************************)
(* The node on top of mountd implements the abstract service: a volume     *)
(* whose calls were all waited for goes only where it was last asked to    *)
(* go, and is there when the CO is answered.                               *)
(***************************************************************************)
THEOREM NodeImplementsService == Spec => ImplementsNodeService
<1>1. Init => Service!ServiceInit
  <2> SUFFICES ASSUME Init PROVE Service!ServiceInit
    OBVIOUS
  <2>1. \A v \in Vol : phase[v] = "detached" /\ v \notin late
    BY DEF Init
  <2>2. \A v \in Vol : PlaceOf(v) = "detached" /\ ToldOf(v) = "detached"
    BY <2>1, InitIInv, PlaceByPhase DEF Placed
  <2> QED
    BY <2>2 DEF Service!ServiceInit, Places, Beliefs
<1>2. ASSUME IInv, IInv', [Next]_vars
      PROVE  [Service!ServiceNext]_<<Places, Beliefs>>
  <2>1. ASSUME NEW c \in Call, CallStep(c) \/ FaultStep(c)
        PROVE  InFlight(c) /\ Forward(c)
    <3>1. InFlight(c)
      BY <2>1
      DEF CallStep, FaultStep, StageLookup, PublishLookup, UnpublishLookup, UnstageLookup,
          LookupRefused, MakeTarget, MountBegins, UnmountBegins, Mount, Own, Unmounting,
          RemoveTarget, OperationFails, ReplyLost, RemoveTargetFails, Abandon, Dropped, Found,
          InFlight
    <3>2. ReplyLost(c) => pc[c] \in {"chown", "unmount"}
      BY DEF ReplyLost
    <3> QED
      BY <1>2, <2>1, <3>1, <3>2, StillStep, MountForward, UnmountForward
      DEF CallStep, FaultStep
  <2>2. ASSUME NEW v \in Vol, Delete(v)
        PROVE  UNCHANGED <<Places, Beliefs>>
    BY <2>2 DEF Delete, RemoveVolume, coVars, Places, Beliefs, PlaceOf, ToldOf
  <2>3. CASE UNCHANGED vars
    BY <2>3 DEF vars, mtVars, coVars, Places, Beliefs, PlaceOf, ToldOf
  <2> QED
    BY <1>2, <2>1, <2>2, <2>3, CallRefines, InvokeRefines DEF Next
<1> QED
  BY <1>1, <1>2, Invariance, PTL
  DEF Spec, ImplementsNodeService, Service!ServiceSpec, Service!serviceVars
=============================================================================
