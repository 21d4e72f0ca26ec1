----------------------------- MODULE NodeProofs -----------------------------
(***************************************************************************)
(* Proofs about Node, for any number of calls, volumes and directories and *)
(* any faults.  The inductive invariant says what a call knows at each     *)
(* step, how far the stacks of a volume's directories may have grown in    *)
(* each phase, and that a call still waited for is alone with its volume.  *)
(***************************************************************************)
EXTENDS Node, TLAPS

(* Which operations pass through a step.                                   *)
OpFitsStage(c) ==
    /\ pc[c] = "mkdir" => req[c].op = "publish"
    /\ pc[c] = "rmdir" => req[c].op = "unpublish"
    /\ pc[c] \in MountStage => req[c].op \in {"stage", "publish"}
    /\ pc[c] \in UnmountStage => req[c].op \in {"unpublish", "unstage"}

(* What a call that no late call interferes with knows of its directory.   *)
TableKnown(c) ==
    /\ pc[c] \in {"mount", "unmount"} => seen[c] = IsMounted(At(c))
    /\ pc[c] = "chown" => IsMounted(At(c))
    /\ pc[c] = "rmdir" => ~IsMounted(At(c))

CallKnows(c) ==
    InFlight(c) =>
        /\ req[c] \in Request
        /\ OpFitsStage(c)
        /\ gone[c] => Volume(c) \in late
        /\ ~gone[c] => phase[Volume(c)] = Begun(req[c].op)
        /\ Volume(c) \notin late => TableKnown(c)

(* Two calls for one volume are never both waited for.                     *)
Alone ==
    \A c, d \in Call :
        /\ InFlight(c) /\ ~gone[c]
        /\ InFlight(d) /\ ~gone[d]
        /\ Volume(c) = Volume(d)
        => c = d

(* The directories of a volume, phase by phase.                            *)
Settled(v) ==
    /\ stack[Staging[v]] \in {<<>>, <<v>>}
    /\ stack[Target[v]] \in {<<>>, <<v>>}
    /\ phase[v] = "detached" => stack[Staging[v]] = <<>>
    /\ phase[v] \in {"staged", "publishing", "published", "unpublishing"}
         => stack[Staging[v]] = <<v>>
    /\ phase[v] \in {"detached", "staging", "staged", "unstaging"}
         => stack[Target[v]] = <<>>
    /\ phase[v] = "published" => stack[Target[v]] = <<v>>

ShowsOwn(v) ==
    /\ ToSet(stack[Staging[v]]) \subseteq {v}
    /\ ToSet(stack[Target[v]]) \subseteq {v, Staging[v]}

IInv ==
    /\ NodeTypeOK
    /\ \A c \in Call : CallKnows(c)
    /\ Alone
    /\ \A v \in Vol \ late : Settled(v)
    /\ \A v \in Vol : ShowsOwn(v)

-----------------------------------------------------------------------------
(* What is mounted at a path, shown there, mounted over it or removed.     *)
LEMMA ShowsType ==
  ASSUME MountTableTypeOK, NEW p \in Path
  PROVE  /\ Shows(p) \in Root
         /\ Shows(p) \in ToSet(stack[p]) \cup {p}
         /\ \A root \in Root : stack[p] = <<root>> => Shows(p) = root
<1>1. CASE ~IsMounted(p)
  BY <1>1 DEF Shows, IsMounted, Root
<1>2. CASE IsMounted(p)
  <2>1. stack[p] \in Seq(Root) /\ stack[p] # <<>>
    BY <1>2 DEF MountTableTypeOK, IsMounted
  <2>2. Len(stack[p]) \in DOMAIN stack[p] /\ Shows(p) = stack[p][Len(stack[p])]
    BY <1>2, <2>1 DEF Shows, Last
  <2> QED
    BY <2>1, <2>2 DEF ToSet
<1> QED
  BY <1>1, <1>2

LEMMA PushStacks ==
  ASSUME MountTableTypeOK, NEW p \in Path, NEW root \in Root, Push(p, root)
  PROVE  /\ MountTableTypeOK'
         /\ \A q \in Path \ {p} : stack'[q] = stack[q]
         /\ stack[p] = <<>> => stack'[p] = <<root>>
         /\ ToSet(stack'[p]) \subseteq ToSet(stack[p]) \cup {root}
         /\ IsMounted(p)'
<1> DEFINE s == stack[p]
<1>1. s \in Seq(Root) /\ stack'[p] = Append(s, root)
  BY DEF MountTableTypeOK, Push
<1>2. MountTableTypeOK' /\ \A q \in Path \ {p} : stack'[q] = stack[q]
  BY <1>1 DEF MountTableTypeOK, Push
<1> HIDE DEF s
<1>3. s = <<>> => stack'[p] = <<root>>
  BY <1>1
<1>4. Len(stack'[p]) = Len(s) + 1
  BY <1>1
<1>5. ToSet(stack'[p]) \subseteq ToSet(s) \cup {root}
  BY <1>1 DEF ToSet
<1> QED
  BY <1>1, <1>2, <1>3, <1>4, <1>5 DEF IsMounted, s

LEMMA UnmountPops ==
  ASSUME MountTableTypeOK, NEW p \in Path, Unmount(p)
  PROVE  /\ MountTableTypeOK'
         /\ \A q \in Path \ {p} : stack'[q] = stack[q]
         /\ \A root \in Root : stack[p] = <<root>> => stack'[p] = <<>>
         /\ ToSet(stack'[p]) \subseteq ToSet(stack[p])
  BY DEF MountTableTypeOK, Unmount, IsMounted, Front, ToSet

-----------------------------------------------------------------------------
(* No call, nothing mounted.                                               *)
THEOREM InitIInv == Init => IInv
<1> SUFFICES ASSUME Init PROVE IInv
  OBVIOUS
<1>1. NodeTypeOK
  <2>1. stack \in [Path -> Seq(Root)]
    BY DEF Init
  <2> QED
    BY <2>1, NodeAssumption
    DEF Init, NodeTypeOK, MountTableTypeOK, Stage, Phase
<1>2. \A c \in Call : ~InFlight(c)
  BY DEF Init, InFlight
<1>3. \A v \in Vol : Settled(v)
  BY NodeAssumption DEF Init, Settled
<1>4. \A v \in Vol : ShowsOwn(v)
  BY NodeAssumption DEF Init, ShowsOwn, ToSet
<1> QED
  BY <1>1, <1>2, <1>3, <1>4 DEF IInv, CallKnows, Alone

-----------------------------------------------------------------------------
(***************************************************************************)
(* A step of one call touches no other call, no directory but the one the  *)
(* call is for, and no other volume; what a dropped handler waited for     *)
(* tells the CO nothing.  So only the call and its volume need looking at. *)
(***************************************************************************)
OnlyCall(c) ==
    /\ req' = req
    /\ \A d \in Call \ {c} :
          pc'[d] = pc[d] /\ seen'[d] = seen[d] /\ gone'[d] = gone[d]
    /\ gone[c] => gone'[c]
    /\ \A p \in Path \ {At(c)} : stack'[p] = stack[p]
    /\ \A v \in Vol \ {Volume(c)} : phase'[v] = phase[v]
    /\ gone[c] => phase' = phase
    /\ late \subseteq late'

(* The directory of a call belongs to its volume.                          *)
LEMMA AtType ==
  ASSUME NEW c \in Call, req[c] \in Request
  PROVE  /\ Volume(c) \in Vol
         /\ At(c) \in {Staging[Volume(c)], Target[Volume(c)]}
         /\ At(c) \in Path
         /\ Source(c) \in Root
  BY NodeAssumption DEF Request, Volume, At, Source, Root

LEMMA DirectoriesApart ==
  ASSUME NEW c \in Call, req[c] \in Request, NEW v \in Vol, v # Volume(c)
  PROVE  /\ Staging[v] \in Path /\ Staging[v] # At(c)
         /\ Target[v] \in Path /\ Target[v] # At(c)
  BY AtType, NodeAssumption

LEMMA CallStepKeeps ==
  ASSUME IInv, NEW c \in Call, InFlight(c), OnlyCall(c), NodeTypeOK', CallKnows(c)',
         Volume(c) \notin late' => Settled(Volume(c))', ShowsOwn(Volume(c))'
  PROVE  IInv'
<1> DEFINE v == Volume(c)
<1>1. req[c] \in Request /\ v \in Vol /\ Volume(c)' = v
  BY AtType DEF IInv, CallKnows, OnlyCall, Volume
<1>2. ASSUME NEW w \in Vol, w # v
      PROVE  /\ stack'[Staging[w]] = stack[Staging[w]]
             /\ stack'[Target[w]] = stack[Target[w]]
             /\ phase'[w] = phase[w]
  BY <1>1, <1>2, DirectoriesApart DEF OnlyCall
<1>3. \A w \in Vol : ShowsOwn(w)'
  BY <1>1, <1>2 DEF IInv, ShowsOwn
<1>4. \A w \in Vol \ late' : Settled(w)'
  BY <1>1, <1>2 DEF IInv, Settled, OnlyCall
<1>5. Alone'
  BY DEF IInv, Alone, OnlyCall, InFlight, Volume, NodeTypeOK
<1>6. ASSUME NEW d \in Call, d # c PROVE CallKnows(d)'
  <2> SUFFICES ASSUME InFlight(d)' PROVE CallKnows(d)'
    BY DEF CallKnows
  <2>1. /\ InFlight(d) /\ pc'[d] = pc[d] /\ seen'[d] = seen[d] /\ gone'[d] = gone[d]
        /\ req'[d] = req[d] /\ Volume(d)' = Volume(d) /\ At(d)' = At(d)
    BY <1>6 DEF OnlyCall, InFlight, Volume, At
  <2>2. req[d] \in Request /\ OpFitsStage(d)'
    BY <2>1 DEF IInv, CallKnows, OpFitsStage
  <2>3. gone'[d] => Volume(d)' \in late'
    BY <2>1 DEF IInv, CallKnows, OnlyCall
  <2>4. ~gone'[d] => phase'[Volume(d)'] = Begun(req'[d].op)
    BY <1>6, <2>1, <2>2, AtType DEF IInv, CallKnows, OnlyCall, Alone
  <2>5. Volume(d) \notin late' => Volume(d) # v
    BY <1>6, <2>1 DEF IInv, CallKnows, OnlyCall, Alone
  <2>6. Volume(d)' \notin late' => TableKnown(d)'
    <3> SUFFICES ASSUME Volume(d) \notin late' PROVE TableKnown(d)'
      BY <2>1
    <3>1. stack'[At(d)] = stack[At(d)]
      BY <1>2, <2>2, <2>5, AtType
    <3>2. TableKnown(d)
      BY <2>1 DEF IInv, CallKnows, OnlyCall
    <3> QED
      BY <2>1, <3>1, <3>2 DEF TableKnown, IsMounted
  <2> QED
    BY <2>1, <2>2, <2>3, <2>4, <2>6 DEF CallKnows
<1> QED
  BY <1>3, <1>4, <1>5, <1>6 DEF IInv

(* A step that mounts, unmounts and answers nothing.                       *)
LEMMA QuietStepKeeps ==
  ASSUME IInv, NEW c \in Call, InFlight(c), OnlyCall(c), NodeTypeOK', CallKnows(c)',
         stack' = stack, phase' = phase
  PROVE  IInv'
<1>1. Volume(c) \in Vol
  BY AtType DEF IInv, CallKnows
<1>2. Volume(c) \notin late' => Settled(Volume(c))'
  BY <1>1 DEF IInv, Settled, OnlyCall, Volume
<1>3. ShowsOwn(Volume(c))'
  BY <1>1 DEF IInv, ShowsOwn, OnlyCall, Volume
<1> QED
  BY <1>2, <1>3, CallStepKeeps

-----------------------------------------------------------------------------
(* The CO begins or repeats an operation.                                  *)
LEMMA InvokeStep ==
  ASSUME IInv, NEW c \in Call, NEW r \in Request, Invoke(c, r)
  PROVE  IInv'
<1> DEFINE v == r.vol
<1>1. r.op \in Op /\ v \in Vol
  BY DEF Request
<1>2. NodeTypeOK'
  BY <1>1 DEF IInv, NodeTypeOK, MountTableTypeOK, Invoke, mtVars, Stage, Phase, Begun, Op
<1>3. /\ \A d \in Call \ {c} :
            /\ pc'[d] = pc[d] /\ req'[d] = req[d]
            /\ seen'[d] = seen[d] /\ gone'[d] = gone[d]
      /\ pc'[c] = "lookup" /\ req'[c] = r /\ gone'[c] = FALSE
      /\ phase'[v] = Begun(r.op) /\ \A w \in Vol \ {v} : phase'[w] = phase[w]
      /\ stack' = stack /\ late' = late
  BY <1>1 DEF IInv, NodeTypeOK, Invoke, mtVars
<1>4. \A d \in Call : InFlight(d) /\ ~gone[d] => Volume(d) # v
  BY DEF Invoke, Waiting
<1>5. CallKnows(c)'
  BY <1>3 DEF CallKnows, OpFitsStage, TableKnown, Volume, MountStage, UnmountStage
<1>6. ASSUME NEW d \in Call, d # c PROVE CallKnows(d)'
  <2> SUFFICES ASSUME InFlight(d)' PROVE CallKnows(d)'
    BY DEF CallKnows
  <2>1. InFlight(d) /\ Volume(d)' = Volume(d) /\ At(d)' = At(d) /\ req[d] \in Request
    BY <1>3, <1>6 DEF InFlight, Volume, At, IInv, CallKnows
  <2>2. OpFitsStage(d)' /\ (Volume(d) \notin late => TableKnown(d)')
    BY <1>3, <1>6, <2>1 DEF IInv, CallKnows, OpFitsStage, TableKnown, IsMounted
  <2>3. ~gone[d] => phase'[Volume(d)] = phase[Volume(d)]
    BY <1>3, <1>4, <2>1, AtType
  <2> QED
    BY <1>3, <1>6, <2>1, <2>2, <2>3 DEF IInv, CallKnows
<1>7. Alone'
  BY <1>3, <1>4 DEF IInv, Alone, InFlight, Volume
<1>8. ASSUME NEW w \in Vol \ late' PROVE Settled(w)'
  <2>1. CASE w # v
    BY <1>3, <1>8, <2>1 DEF IInv, Settled
  <2>2. CASE w = v
    BY <1>1, <1>3, <1>8, <2>2 DEF IInv, Settled, Invoke, From, Begun, Op
  <2> QED
    BY <2>1, <2>2
<1>9. \A w \in Vol : ShowsOwn(w)'
  BY <1>3 DEF IInv, ShowsOwn
<1> QED
  BY <1>2, <1>5, <1>6, <1>7, <1>8, <1>9 DEF IInv

(* The CO deletes a volume.                                                *)
LEMMA DeleteStep ==
  ASSUME IInv, NEW v \in Vol, Delete(v)
  PROVE  IInv'
<1>1. NodeTypeOK'
  BY DEF IInv, NodeTypeOK, MountTableTypeOK, Delete, RemoveVolume, callVars, coVars
<1> QED
  BY <1>1
  DEF IInv, Delete, RemoveVolume, callVars, coVars, CallKnows, OpFitsStage, TableKnown,
      IsMounted, At, Volume, InFlight, Alone, Settled, ShowsOwn

-----------------------------------------------------------------------------
(* Looking the volume up, making the target and reading the mount table.   *)
LEMMA LookupStep ==
  ASSUME IInv, NEW c \in Call,
         \/ StageLookup(c) \/ PublishLookup(c) \/ UnpublishLookup(c)
         \/ UnstageLookup(c) \/ LookupRefused(c)
  PROVE  IInv'
<1> USE DEF StageLookup, PublishLookup, UnpublishLookup, UnstageLookup, LookupRefused,
            Found, Await, Refuse, Fail, mtVars, coVars
<1>1. InFlight(c) /\ CallKnows(c) /\ stack' = stack /\ phase' = phase
  BY DEF IInv, InFlight
<1>2. NodeTypeOK'
  BY DEF IInv, NodeTypeOK, MountTableTypeOK, Stage, MountStage, UnmountStage
<1>3. OnlyCall(c)
  BY DEF IInv, NodeTypeOK, OnlyCall
<1>4. CallKnows(c)'
  BY <1>1
  DEF IInv, NodeTypeOK, CallKnows, OpFitsStage, TableKnown, Volume, InFlight,
      MountStage, UnmountStage
<1> QED
  BY <1>1, <1>2, <1>3, <1>4, QuietStepKeeps

LEMMA MakeTargetStep ==
  ASSUME IInv, NEW c \in Call, MakeTarget(c)
  PROVE  IInv'
<1> USE DEF MakeTarget, MakeDir, Await, Refuse, Fail, coVars
<1>1. InFlight(c) /\ CallKnows(c) /\ stack' = stack /\ phase' = phase
  BY DEF IInv, InFlight
<1>2. NodeTypeOK'
  BY <1>1, AtType
  DEF IInv, CallKnows, NodeTypeOK, MountTableTypeOK, Stage, MountStage, Root
<1>3. OnlyCall(c)
  BY DEF IInv, NodeTypeOK, OnlyCall
<1>4. CallKnows(c)'
  BY <1>1
  DEF IInv, NodeTypeOK, CallKnows, OpFitsStage, TableKnown, Volume, InFlight,
      MountStage, UnmountStage
<1> QED
  BY <1>1, <1>2, <1>3, <1>4, QuietStepKeeps

LEMMA ReadStep ==
  ASSUME IInv, NEW c \in Call, MountBegins(c) \/ UnmountBegins(c)
  PROVE  IInv'
<1> USE DEF MountBegins, UnmountBegins, ReadMounts, Continue, mtVars, coVars
<1>1. InFlight(c) /\ CallKnows(c) /\ stack' = stack /\ phase' = phase
  BY DEF IInv, InFlight
<1>2. NodeTypeOK'
  BY DEF IInv, NodeTypeOK, MountTableTypeOK, Stage, MountStage, UnmountStage, IsMounted
<1>3. OnlyCall(c)
  BY DEF IInv, NodeTypeOK, OnlyCall
<1>4. CallKnows(c)'
  BY <1>1
  DEF IInv, NodeTypeOK, CallKnows, OpFitsStage, TableKnown, Volume, InFlight, At,
      IsMounted, MountStage, UnmountStage
<1> QED
  BY <1>1, <1>2, <1>3, <1>4, QuietStepKeeps

(* The faults that leave the directories and the CO's belief alone.        *)
LEMMA QuietFaultStep ==
  ASSUME IInv, NEW c \in Call, OperationFails(c) \/ Abandon(c) \/ Dropped(c)
  PROVE  IInv'
<1> USE DEF OperationFails, Abandon, Dropped, Fault, Refuse, Fail, mtVars
<1>1. InFlight(c) /\ CallKnows(c) /\ stack' = stack /\ phase' = phase
  BY DEF IInv, InFlight
<1>2. NodeTypeOK'
  <2> USE DEF IInv, NodeTypeOK, MountTableTypeOK, Stage
  <2>1. CASE OperationFails(c) \/ Abandon(c)
    <3>1. faults' \in 0..MaxFaults
      BY <2>1, NodeAssumption
    <3>2. Volume(c) \in Vol
      BY <1>1, AtType DEF CallKnows
    <3> QED
      BY <2>1, <3>1, <3>2
  <2>2. CASE Dropped(c)
    BY <2>2
  <2> QED
    BY <2>1, <2>2
<1>3. OnlyCall(c)
  BY DEF IInv, NodeTypeOK, OnlyCall
<1>4. CallKnows(c)'
  BY <1>1
  DEF IInv, NodeTypeOK, CallKnows, OpFitsStage, Volume, InFlight
<1> QED
  BY <1>1, <1>2, <1>3, <1>4, QuietStepKeeps

-----------------------------------------------------------------------------
(* What a call in flight works on, and what it knows if nothing late       *)
(* interferes.                                                             *)
LEMMA CallContext ==
  ASSUME IInv, NEW c \in Call, InFlight(c)
  PROVE  /\ req[c] \in Request /\ req[c].op \in Op
         /\ Volume(c) \in Vol /\ At(c) \in Path /\ Source(c) \in Root
         /\ OpFitsStage(c) /\ ShowsOwn(Volume(c))
         /\ Volume(c) \notin late =>
              /\ ~gone[c] /\ phase[Volume(c)] = Begun(req[c].op)
              /\ TableKnown(c) /\ Settled(Volume(c))
  BY AtType DEF IInv, CallKnows, Request

(* An answer: the stacks of its volume have to fit the phase reached.      *)
LEMMA SucceedKeeps ==
  ASSUME IInv, NEW c \in Call, InFlight(c), Succeed(c), MountTableTypeOK',
         \A p \in Path \ {At(c)} : stack'[p] = stack[p],
         Volume(c) \notin late => Settled(Volume(c))', ShowsOwn(Volume(c))'
  PROVE  IInv'
<1>1. Volume(c) \in Vol /\ req[c].op \in Op
  BY CallContext
<1>2. NodeTypeOK'
  <2>1. Reached(req[c].op) \in Phase
    BY <1>1 DEF Reached, Phase, Op
  <2> QED
    BY <1>1, <2>1 DEF IInv, NodeTypeOK, Succeed, Stage
<1>3. OnlyCall(c)
  BY <1>1 DEF IInv, NodeTypeOK, Succeed, OnlyCall
<1>4. CallKnows(c)'
  BY DEF IInv, NodeTypeOK, Succeed, CallKnows, InFlight
<1>5. Volume(c) \notin late' => Settled(Volume(c))'
  BY DEF Succeed
<1> QED
  BY <1>2, <1>3, <1>4, <1>5, CallStepKeeps

(* An error that leaves everything else as it was.                         *)
LEMMA RefuseKeeps ==
  ASSUME IInv, NEW c \in Call, InFlight(c), Refuse(c), UNCHANGED mtVars
  PROVE  IInv'
<1> USE DEF Refuse, Fail, mtVars
<1>1. NodeTypeOK'
  BY DEF IInv, NodeTypeOK, MountTableTypeOK, Stage
<1>2. OnlyCall(c)
  BY DEF IInv, NodeTypeOK, OnlyCall
<1>3. CallKnows(c)'
  BY DEF IInv, NodeTypeOK, CallKnows, InFlight
<1> QED
  BY <1>1, <1>2, <1>3, QuietStepKeeps

(* A mount pushes, on the directory of the call, the volume or what shows  *)
(* at its staging directory: at most that directory itself.                *)
LEMMA MountPushes ==
  ASSUME IInv, NEW c \in Call, pc[c] = "mount",
         MountDone(Source(c), At(c), Readonly(c), seen[c])
  PROVE  /\ MountTableTypeOK'
         /\ \A p \in Path \ {At(c)} : stack'[p] = stack[p]
         /\ stack'[At(c)] # <<>>
         /\ ToSet(stack'[At(c)]) \subseteq ToSet(stack[At(c)]) \cup
               IF req[c].op = "stage" THEN {Volume(c)} ELSE {Volume(c), Staging[Volume(c)]}
         /\ Volume(c) \notin late => stack'[At(c)] = <<Volume(c)>>
<1> DEFINE v == Volume(c)
<1>1. InFlight(c)
  BY DEF InFlight
<1>2. /\ v \in Vol /\ v \in Root /\ At(c) \in Path /\ ~seen[c] /\ MountTableTypeOK
      /\ Staging[v] \in Path /\ v \notin Path
  BY <1>1, CallContext, NodeAssumption, MountTableAssumption
  DEF MountDone, IInv, NodeTypeOK, Root
<1>3. v \notin late => stack[At(c)] = <<>>
  BY <1>1, <1>2, CallContext DEF TableKnown, IsMounted
<1>4. req[c].op \in {"stage", "publish"}
  BY <1>1, CallContext DEF OpFitsStage, MountStage
<1> PICK p \in Path : p = At(c)
  BY <1>2
<1>5. CASE req[c].op = "stage"
  <2> PICK root \in Root : root = v
    BY <1>2
  <2>1. Push(p, root)
    BY <1>2, <1>5 DEF MountDone, MountVolume, Source, Push
  <2> HIDE DEF v
  <2>2. /\ MountTableTypeOK' /\ IsMounted(p)'
        /\ \A q \in Path \ {p} : stack'[q] = stack[q]
        /\ stack[At(c)] = <<>> => stack'[At(c)] = <<v>>
        /\ ToSet(stack'[At(c)]) \subseteq ToSet(stack[At(c)]) \cup {v}
    BY <1>2, <2>1, PushStacks
  <2> QED
    BY <1>3, <1>5, <2>2 DEF v, IsMounted
<1>6. CASE req[c].op = "publish"
  <2>2. Shows(Staging[v]) \in Root /\ Shows(Staging[v]) \in {v, Staging[v]}
    BY <1>1, <1>2, ShowsType, CallContext DEF ShowsOwn
  <2> PICK root \in Root : root = Shows(Staging[v])
    BY <2>2
  <2>1. Push(p, root)
    BY <1>2, <1>6, MountTableAssumption DEF MountDone, BindMount, Source, Push
  <2>3. v \notin late => stack[Staging[v]] = <<v>>
    BY <1>1, <1>6, CallContext DEF Settled, Begun
  <2>4. v \notin late => Shows(Staging[v]) = v
    BY <1>2, <2>3, ShowsType
  <2> HIDE DEF v
  <2>5. /\ MountTableTypeOK' /\ IsMounted(p)'
        /\ \A q \in Path \ {p} : stack'[q] = stack[q]
        /\ stack[At(c)] = <<>> => stack'[At(c)] = <<Shows(Staging[v])>>
        /\ ToSet(stack'[At(c)]) \subseteq ToSet(stack[At(c)]) \cup {Shows(Staging[v])}
    BY <1>2, <2>1, <2>2, PushStacks
  <2> QED
    BY <1>3, <1>6, <2>2, <2>4, <2>5 DEF v, IsMounted
<1> QED
  BY <1>4, <1>5, <1>6

(* The rest of the mount RPC.                                              *)
LEMMA MountStep ==
  ASSUME IInv, NEW c \in Call, Mount(c)
  PROVE  IInv'
<1> DEFINE v == Volume(c)
<1>1. InFlight(c) /\ pc[c] = "mount" /\ req[c].op \in {"stage", "publish"}
  BY CallContext DEF Mount, InFlight, OpFitsStage, MountStage
<1>2. v \in Vol /\ Staging[v] # Target[v]
  BY <1>1, CallContext, NodeAssumption
<1>3. CASE /\ MountDone(Source(c), At(c), Readonly(c), seen[c])
           /\ Continue(c, "chown") /\ UNCHANGED seen
  <2>1. NodeTypeOK'
    BY <1>1, <1>3, MountPushes
    DEF IInv, NodeTypeOK, Continue, coVars, Stage, MountStage
  <2>2. OnlyCall(c)
    BY <1>1, <1>3, MountPushes DEF IInv, NodeTypeOK, Continue, coVars, OnlyCall
  <2>3. At(c)' = At(c) /\ Volume(c)' = v
    BY <1>3 DEF Continue, At, Volume
  <2>4. CallKnows(c)'
    BY <1>1, <1>3, <2>3, MountPushes
    DEF IInv, NodeTypeOK, Continue, coVars, CallKnows, OpFitsStage, TableKnown,
        InFlight, IsMounted, MountStage, UnmountStage
  <2>5. /\ req[c].op = "stage" => At(c) = Staging[v] /\ stack'[Target[v]] = stack[Target[v]]
        /\ req[c].op = "publish" => At(c) = Target[v] /\ stack'[Staging[v]] = stack[Staging[v]]
    BY <1>1, <1>2, <1>3, MountPushes, NodeAssumption DEF At
  <2>6. v \notin late' => Settled(v)'
    <3> SUFFICES ASSUME v \notin late PROVE Settled(v)'
      BY <1>3, <2>3 DEF Continue, coVars
    <3>1. stack'[At(c)] = <<v>>
      BY <1>1, <1>3, MountPushes
    <3>2. Settled(v) /\ phase'[v] = phase[v] /\ phase[v] = Begun(req[c].op)
      BY <1>1, <1>3, CallContext DEF Continue, coVars
    <3> QED
      BY <1>1, <2>3, <2>5, <3>1, <3>2 DEF Settled, Begun
  <2>7. ShowsOwn(v)'
    <3>1. ShowsOwn(v) /\ ToSet(stack'[At(c)]) \subseteq ToSet(stack[At(c)]) \cup
               IF req[c].op = "stage" THEN {v} ELSE {v, Staging[v]}
      BY <1>1, <1>3, CallContext, MountPushes
    <3> QED
      BY <1>1, <2>3, <2>5, <3>1 DEF ShowsOwn
  <2> QED
    BY <1>1, <2>1, <2>2, <2>3, <2>4, <2>6, <2>7, CallStepKeeps
<1>4. CASE MountSkipped(Source(c), At(c), Readonly(c), seen[c]) /\ Succeed(c)
  <2>1. stack' = stack /\ seen[c] /\ MountTableTypeOK' /\ Volume(c)' = v
    BY <1>4
    DEF MountSkipped, mtVars, IInv, NodeTypeOK, MountTableTypeOK, Succeed, Volume
  <2>2. v \notin late => Settled(v)'
    BY <1>1, <1>2, <1>4, <2>1, CallContext
    DEF IInv, NodeTypeOK, Settled, Succeed, TableKnown, IsMounted, At, Begun, Reached
  <2>3. ShowsOwn(v)'
    BY <1>1, <2>1, CallContext DEF ShowsOwn
  <2> QED
    BY <1>1, <1>4, <2>1, <2>2, <2>3, SucceedKeeps
<1>5. CASE \/ MountRefused(Source(c), At(c), Readonly(c)) /\ Refuse(c)
           \/ MountFailed(Source(c), At(c), Readonly(c), seen[c]) /\ Refuse(c)
  BY <1>1, <1>5, RefuseKeeps DEF MountRefused, MountFailed, MountBusy
<1> QED
  BY <1>3, <1>4, <1>5 DEF Mount

(* chown ends a mount.                                                     *)
LEMMA OwnStep ==
  ASSUME IInv, NEW c \in Call, Own(c)
  PROVE  IInv'
<1> DEFINE v == Volume(c)
<1>1. InFlight(c) /\ pc[c] = "chown" /\ req[c].op \in {"stage", "publish"}
  BY CallContext DEF Own, InFlight, OpFitsStage, MountStage
<1>2. CASE Chown(At(c)) /\ Succeed(c)
  <2>1. stack' = stack /\ Volume(c)' = v
    BY <1>2 DEF Chown, Succeed, Volume
  <2>2. MountTableTypeOK'
    BY <1>1, <1>2, CallContext, ShowsType DEF Chown, IInv, NodeTypeOK, MountTableTypeOK
  <2>3. v \notin late => Settled(v)'
    BY <1>1, <1>2, <2>1, CallContext
    DEF IInv, NodeTypeOK, Settled, Succeed, TableKnown, IsMounted, At, Begun, Reached
  <2>4. ShowsOwn(v)'
    BY <1>1, <2>1, CallContext DEF ShowsOwn
  <2> QED
    BY <1>1, <1>2, <2>1, <2>2, <2>3, <2>4, SucceedKeeps
<1>3. CASE ~CanChown(At(c)) /\ Refuse(c) /\ UNCHANGED mtVars
  BY <1>1, <1>3, RefuseKeeps
<1> QED
  BY <1>2, <1>3 DEF Own

-----------------------------------------------------------------------------
(* Once nothing is mounted at its directory, unstage is over and unpublish *)
(* goes on to remove its target.                                           *)
LEMMA UnmountedKeeps ==
  ASSUME IInv, NEW c \in Call, pc[c] = "unmount", Unmounted(c), MountTableTypeOK',
         \A p \in Path \ {At(c)} : stack'[p] = stack[p],
         ToSet(stack'[At(c)]) \subseteq ToSet(stack[At(c)]),
         Volume(c) \notin late => stack'[At(c)] = <<>>
  PROVE  IInv'
<1> DEFINE v == Volume(c)
<1>1. /\ InFlight(c) /\ req[c].op \in {"unpublish", "unstage"}
      /\ Volume(c)' = v /\ At(c)' = At(c)
  BY CallContext
  DEF InFlight, OpFitsStage, UnmountStage, Unmounted, Succeed, Await, Volume, At
<1>2. /\ v \in Vol
      /\ req[c].op = "unstage" => At(c) = Staging[v] /\ stack'[Target[v]] = stack[Target[v]]
      /\ req[c].op = "unpublish" => At(c) = Target[v] /\ stack'[Staging[v]] = stack[Staging[v]]
  BY <1>1, CallContext, NodeAssumption DEF At
<1>3. ShowsOwn(v)'
  BY <1>1, <1>2, CallContext DEF ShowsOwn
<1>4. v \notin late => Settled(v) /\ phase[v] = Begun(req[c].op) /\ ~gone[c]
  BY <1>1, CallContext
<1>5. CASE req[c].op = "unstage"
  <2>1. Succeed(c)
    BY <1>5 DEF Unmounted
  <2>2. v \notin late => phase'[v] = "detached"
    BY <1>2, <1>4, <1>5, <2>1 DEF IInv, NodeTypeOK, Succeed, Reached
  <2>3. v \notin late => Settled(v)'
    BY <1>1, <1>2, <1>4, <1>5, <2>2 DEF Settled, Begun
  <2> QED
    BY <1>1, <1>3, <2>1, <2>3, SucceedKeeps
<1>6. CASE req[c].op = "unpublish"
  <2>1. Await(c, "rmdir")
    BY <1>6 DEF Unmounted
  <2>2. NodeTypeOK'
    BY <2>1 DEF IInv, NodeTypeOK, Await, coVars, Stage
  <2>3. OnlyCall(c)
    BY <2>1 DEF IInv, NodeTypeOK, Await, coVars, OnlyCall
  <2>4. CallKnows(c)'
    BY <1>1, <1>6, <2>1
    DEF IInv, NodeTypeOK, Await, coVars, CallKnows, OpFitsStage, TableKnown, InFlight,
        IsMounted, MountStage, UnmountStage
  <2>5. v \notin late' => Settled(v)'
    BY <1>1, <1>2, <1>4, <1>6, <2>1 DEF Settled, Begun, Await, coVars
  <2> QED
    BY <1>1, <1>3, <2>2, <2>3, <2>4, <2>5, CallStepKeeps
<1> QED
  BY <1>1, <1>5, <1>6

LEMMA UnmountingStep ==
  ASSUME IInv, NEW c \in Call, Unmounting(c)
  PROVE  IInv'
<1>1. InFlight(c) /\ pc[c] = "unmount" /\ MountTableTypeOK
  BY DEF Unmounting, InFlight, IInv, NodeTypeOK
<1>2. At(c) \in Path /\ Volume(c) \in Root
  BY <1>1, CallContext DEF Root
<1>3. Volume(c) \notin late =>
        /\ seen[c] = (stack[At(c)] # <<>>)
        /\ stack[At(c)] \in {<<>>, <<Volume(c)>>}
  BY <1>1, CallContext, AtType DEF TableKnown, IsMounted, Settled
<1>4. CASE UnmountSkipped(seen[c]) /\ Unmounted(c)
  <2>1. stack' = stack /\ MountTableTypeOK' /\ ~seen[c]
    BY <1>1, <1>4 DEF UnmountSkipped, mtVars, MountTableTypeOK
  <2> QED
    BY <1>1, <1>3, <1>4, <2>1, UnmountedKeeps
<1>5. CASE UnmountDone(At(c), seen[c]) /\ Unmounted(c)
  <2> PICK p \in Path : p = At(c)
    BY <1>2
  <2>1. Unmount(p) /\ seen[c]
    BY <1>5 DEF UnmountDone, Unmount
  <2>2. /\ MountTableTypeOK' /\ \A q \in Path \ {p} : stack'[q] = stack[q]
        /\ \A root \in Root : stack[p] = <<root>> => stack'[p] = <<>>
        /\ ToSet(stack'[p]) \subseteq ToSet(stack[p])
    BY <1>1, <2>1, UnmountPops
  <2> QED
    BY <1>1, <1>2, <1>3, <1>5, <2>1, <2>2, UnmountedKeeps
<1>6. CASE UnmountRefused(At(c), seen[c]) /\ Refuse(c)
  BY <1>1, <1>6, RefuseKeeps DEF UnmountRefused
<1> QED
  BY <1>4, <1>5, <1>6 DEF Unmounting

(* mountd owned or unmounted what it was asked to, and the call fails: the *)
(* phase it has begun allows the directory mounted and not mounted.        *)
LEMMA ReplyLostStep ==
  ASSUME IInv, NEW c \in Call, ReplyLost(c)
  PROVE  IInv'
<1> DEFINE v == Volume(c)
<1>1. InFlight(c) /\ MountTableTypeOK /\ v \in Vol /\ v \in Root /\ At(c) \in Path
  BY CallContext DEF ReplyLost, InFlight, IInv, NodeTypeOK, Root
<1>2. /\ pc' = [pc EXCEPT ![c] = "done"] /\ unowned' = unowned
      /\ req' = req /\ seen' = seen /\ gone' = gone /\ phase' = phase /\ late' = late
      /\ faults' \in 0..MaxFaults /\ Volume(c)' = v
  BY NodeAssumption DEF ReplyLost, Fail, Fault, Volume, IInv, NodeTypeOK
<1>3. /\ MountTableTypeOK' /\ \A p \in Path \ {At(c)} : stack'[p] = stack[p]
      /\ ToSet(stack'[At(c)]) \subseteq ToSet(stack[At(c)])
      /\ stack'[At(c)] # stack[At(c)] => pc[c] = "unmount"
      /\ v \notin late => stack'[At(c)] \in {stack[At(c)], <<>>}
  <2>1. CASE pc[c] = "chown" /\ Chown(At(c))
    BY <1>1, <2>1, ShowsType DEF Chown, MountTableTypeOK
  <2>2. CASE pc[c] = "unmount" /\ UnmountDone(At(c), seen[c])
    <3> PICK p \in Path : p = At(c)
      BY <1>1
    <3>1. Unmount(p) /\ IsMounted(p)
      BY <2>2 DEF UnmountDone, Unmount
    <3>2. /\ MountTableTypeOK' /\ \A q \in Path \ {p} : stack'[q] = stack[q]
          /\ \A root \in Root : stack[p] = <<root>> => stack'[p] = <<>>
          /\ ToSet(stack'[p]) \subseteq ToSet(stack[p])
      BY <1>1, <3>1, UnmountPops
    <3>3. v \notin late => stack[p] = <<v>>
      BY <1>1, <3>1, CallContext, AtType DEF Settled, IsMounted
    <3> QED
      BY <1>1, <2>2, <3>2, <3>3
  <2> QED
    BY <2>1, <2>2 DEF ReplyLost
<1>4. NodeTypeOK'
  BY <1>2, <1>3 DEF IInv, NodeTypeOK, Stage
<1>5. OnlyCall(c)
  BY <1>2, <1>3 DEF IInv, NodeTypeOK, OnlyCall
<1>6. CallKnows(c)'
  BY <1>2 DEF IInv, NodeTypeOK, CallKnows, InFlight
<1>7. v \notin late' => Settled(v)'
  <2> SUFFICES ASSUME v \notin late PROVE Settled(v)'
    BY <1>2
  <2>1. Settled(v) /\ phase[v] = Begun(req[c].op)
    BY <1>1, CallContext
  <2>2. CASE stack'[At(c)] = stack[At(c)]
    BY <1>1, <1>2, <1>3, <2>1, <2>2, NodeAssumption DEF Settled
  <2>3. CASE stack'[At(c)] # stack[At(c)]
    <3>1. stack'[At(c)] = <<>> /\ req[c].op \in {"unpublish", "unstage"}
      BY <1>1, <1>3, <2>3, CallContext DEF OpFitsStage, UnmountStage
    <3>2. /\ req[c].op = "unstage" => At(c) = Staging[v] /\ stack'[Target[v]] = stack[Target[v]]
          /\ req[c].op = "unpublish" => At(c) = Target[v] /\ stack'[Staging[v]] = stack[Staging[v]]
      BY <1>1, <1>3, <3>1, NodeAssumption DEF At
    <3> QED
      BY <1>2, <2>1, <3>1, <3>2 DEF Settled, Begun
  <2> QED
    BY <2>2, <2>3
<1>8. ShowsOwn(v)'
  BY <1>1, <1>2, <1>3, CallContext, NodeAssumption DEF ShowsOwn
<1> QED
  BY <1>1, <1>2, <1>4, <1>5, <1>6, <1>7, <1>8, CallStepKeeps

(* Unpublish removes its target, or fails to, and is over.                 *)
LEMMA RemoveTargetStep ==
  ASSUME IInv, NEW c \in Call, RemoveTarget(c) \/ RemoveTargetFails(c)
  PROVE  IInv'
<1> DEFINE v == Volume(c)
<1>1. InFlight(c) /\ pc[c] = "rmdir" /\ req[c].op = "unpublish" /\ v \in Vol
  BY CallContext DEF RemoveTarget, RemoveTargetFails, InFlight, OpFitsStage
<1>2. /\ stack' = stack /\ MountTableTypeOK' /\ Volume(c)' = v
      /\ late' = late /\ unowned' = unowned
      /\ phase' = IF gone[c] THEN phase ELSE [phase EXCEPT ![v] = "staged"]
      /\ pc' = [pc EXCEPT ![c] = "done"] /\ UNCHANGED <<req, seen, gone>>
  BY <1>1
  DEF RemoveTarget, RemoveTargetFails, RemoveDir, Succeed, Reached, mtVars, IInv,
      NodeTypeOK, MountTableTypeOK, Volume
<1>3. faults' \in 0..MaxFaults
  BY NodeAssumption
  DEF IInv, NodeTypeOK, RemoveTarget, RemoveTargetFails, Succeed, Fault
<1>4. NodeTypeOK'
  BY <1>1, <1>2, <1>3 DEF IInv, NodeTypeOK, Stage, Phase
<1>5. OnlyCall(c)
  BY <1>1, <1>2 DEF IInv, NodeTypeOK, OnlyCall
<1>6. CallKnows(c)'
  BY <1>2 DEF IInv, NodeTypeOK, CallKnows, InFlight
<1>7. v \notin late' => Settled(v)'
  BY <1>1, <1>2, CallContext
  DEF IInv, NodeTypeOK, Settled, TableKnown, IsMounted, At, Begun
<1>8. ShowsOwn(v)'
  BY <1>1, <1>2, CallContext DEF ShowsOwn
<1> QED
  BY <1>1, <1>2, <1>4, <1>5, <1>6, <1>7, <1>8, CallStepKeeps

-----------------------------------------------------------------------------
(* Every step of the CO, the node, mountd and the faults keeps it.         *)
THEOREM NextIInv == IInv /\ [Next]_vars => IInv'
<1> SUFFICES ASSUME IInv, [Next]_vars PROVE IInv'
  OBVIOUS
<1>1. ASSUME NEW c \in Call, NEW r \in Request, Invoke(c, r) PROVE IInv'
  BY <1>1, InvokeStep
<1>2. ASSUME NEW c \in Call, CallStep(c) PROVE IInv'
  BY <1>2, LookupStep, MakeTargetStep, ReadStep, MountStep, OwnStep, UnmountingStep,
     RemoveTargetStep
  DEF CallStep
<1>3. ASSUME NEW c \in Call, FaultStep(c) PROVE IInv'
  BY <1>3, QuietFaultStep, ReplyLostStep, RemoveTargetStep DEF FaultStep
<1>4. ASSUME NEW v \in Vol, Delete(v) PROVE IInv'
  BY <1>4, DeleteStep
<1>5. CASE UNCHANGED vars
  BY <1>5
  DEF vars, mtVars, callVars, coVars, IInv, NodeTypeOK, MountTableTypeOK, CallKnows,
      OpFitsStage, TableKnown, InFlight, Volume, At, IsMounted, Alone, Settled, ShowsOwn
<1> QED
  BY <1>1, <1>2, <1>3, <1>4, <1>5 DEF Next

(* What the calls know of the mount table is true in every state.          *)
THEOREM Invariance == Spec => []IInv
  BY InitIInv, NextIInv, PTL DEF Spec

(***************************************************************************)
(* The node and mountd keep to their types, whatever calls cross and fail. *)
(***************************************************************************)
THEOREM TypeCorrect == Spec => []NodeTypeOK
<1>1. IInv => NodeTypeOK
  BY DEF IInv
<1> QED
  BY <1>1, Invariance, PTL

(***************************************************************************)
(* As long as no call for a volume was abandoned, a volume that the CO     *)
(* believes staged or published shows at its directories, through one      *)
(* mount each.                                                             *)
(***************************************************************************)
THEOREM MountedAsBelieved == Spec => []BelievedIsMounted
<1>1. IInv => BelievedIsMounted
  BY DEF IInv, Settled, BelievedIsMounted
<1> QED
  BY <1>1, Invariance, PTL

(***************************************************************************)
(* And a volume that it believes unpublished or unstaged is mounted there  *)
(* no more.                                                                *)
(***************************************************************************)
THEOREM UnmountedAsBelieved == Spec => []BelievedIsUnmounted
<1>1. IInv => BelievedIsUnmounted
  BY DEF IInv, Settled, BelievedIsUnmounted
<1> QED
  BY <1>1, Invariance, PTL

(***************************************************************************)
(* Late calls or not, what shows at the directories of a volume is the     *)
(* volume or a bare directory of its own.                                  *)
(***************************************************************************)
THEOREM OwnVolumesShow == Spec => []NoOtherShows
<1>1. IInv => NoOtherShows
  BY DEF IInv, ShowsOwn, NoOtherShows
<1> QED
  BY <1>1, Invariance, PTL
=============================================================================
