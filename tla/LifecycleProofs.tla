--------------------------- MODULE LifecycleProofs ---------------------------
(***************************************************************************)
(* Proofs about Lifecycle, for any number of processes of each daemon and  *)
(* any crashes and signals.                                                *)
(*                                                                         *)
(* That a process which owns its socket stands behind its file is          *)
(* inductive together with the types: bind needs the file to be absent, so *)
(* that no process of the daemon owns it, and whoever removes the file is  *)
(* the owner itself or has seen that nobody stands behind it.              *)
(***************************************************************************)
EXTENDS Lifecycle, TLAPS

IInv == LifecycleTypeOK /\ ServesAtItsSocket

(* No process, no socket file.                                             *)
THEOREM InitIInv == Init => IInv
  BY LifecycleAssumption
  DEF Init, IInv, LifecycleTypeOK, ServesAtItsSocket, Place, Owning, Listening, Daemon, Client

-----------------------------------------------------------------------------
(* A process goes on or ends, and leaves all socket files alone.           *)
LEMMA FilesKept ==
  ASSUME IInv, NEW s \in Slot, NEW place \in Place, Goes(s, place), file' = file,
         place \in Owning => at[s] \in Owning
  PROVE  ServesAtItsSocket'
  BY DEF IInv, LifecycleTypeOK, ServesAtItsSocket, Goes

(* A process of the daemon d removes the file, or finds it removed by the  *)
(* operator: nobody else owned it.                                         *)
LEMMA OwnerUnique ==
  ASSUME IInv, NEW s \in Slot, NEW t \in Slot, Runs[s] = Runs[t],
         at[s] \in Owning, at[t] \in Owning
  PROVE  s = t
  BY DEF IInv, ServesAtItsSocket

LEMMA TypeStep ==
  ASSUME LifecycleTypeOK, Next
  PROVE  LifecycleTypeOK'
<1> USE LifecycleAssumption
    DEF LifecycleTypeOK, Place, Owning, Listening, Daemon, Client
<1>1. ASSUME NEW s \in Slot, Start(s) \/ Proceed(s)
      PROVE  LifecycleTypeOK'
  <2>1. at' \in [Slot -> Place] /\ faults' = faults /\ stops' = stops /\ ready' = ready
    BY <1>1
    DEF Start, Proceed, Bind, BindFails, SetHandler, Serve, ConnectFails, Drain, CleanUp,
        Goes, Ends
  <2>2. sigint' \in {sigint, [sigint EXCEPT ![s] = FALSE]}
    BY <1>1
    DEF Start, Proceed, Bind, BindFails, SetHandler, Serve, ConnectFails, Drain, CleanUp, Ends
  <2>3. file' \in {file, [file EXCEPT ![Runs[s]] = s], [file EXCEPT ![Runs[s]] = NoSlot]}
    BY <1>1
    DEF Start, Proceed, Bind, BindFails, SetHandler, Serve, ConnectFails, Drain, CleanUp
  <2>4. sigint' \in [Slot -> BOOLEAN]
    BY <2>2
  <2>5. file' \in [Daemon -> Slot \cup {NoSlot}]
    BY <2>3
  <2> QED
    BY <2>1, <2>4, <2>5
<1>2. ASSUME NEW s \in Slot, CheckFails(s) \/ Sigint(s) \/ Crash(s)
      PROVE  LifecycleTypeOK'
  <2>1. at' \in [Slot -> Place] /\ file' = file /\ ready' = ready
    BY <1>2 DEF CheckFails, Sigint, Crash, Goes, Ends
  <2>2. sigint' \in {[sigint EXCEPT ![s] = TRUE], [sigint EXCEPT ![s] = FALSE]}
    BY <1>2 DEF CheckFails, Sigint, Crash, Ends
  <2>3. faults' \in 0..MaxFaults /\ stops' \in 0..MaxStops
    BY <1>2 DEF CheckFails, Sigint, Crash, Fault
  <2> QED
    BY <2>1, <2>2, <2>3
<1>3. ASSUME NEW d \in Daemon, RemoveStale(d)
      PROVE  LifecycleTypeOK'
  BY <1>3 DEF RemoveStale
<1>4. ASSUME NEW d \in Client, Probe(d) \/ ProbeUnanswered(d) \/ ProbeRefused(d)
      PROVE  LifecycleTypeOK'
  BY <1>4 DEF Probe, ProbeUnanswered, ProbeRefused, Told, Fault
<1> QED
  BY <1>1, <1>2, <1>3, <1>4 DEF Next

(* Every step of main, every signal and every crash keeps it.              *)
THEOREM NextIInv == IInv /\ [Next]_vars => IInv'
<1> SUFFICES ASSUME IInv, [Next]_vars PROVE IInv'
  OBVIOUS
<1>1. CASE Next
  <2>1. LifecycleTypeOK'
    BY <1>1, TypeStep DEF IInv
  <2>2. ASSUME NEW s \in Slot, Bind(s)
        PROVE  ServesAtItsSocket'
    <3>1. \A t \in Slot : Runs[t] = Runs[s] => at[t] \notin Owning
      BY <2>2, LifecycleAssumption DEF IInv, ServesAtItsSocket, Bind
    <3>2. /\ \A t \in Slot \ {s} : at'[t] = at[t]
          /\ file'[Runs[s]] = s
          /\ \A d \in Daemon \ {Runs[s]} : file'[d] = file[d]
      BY <2>2, LifecycleAssumption DEF IInv, LifecycleTypeOK, Bind, Goes
    <3> QED
      BY <3>1, <3>2, LifecycleAssumption DEF IInv, ServesAtItsSocket
  <2>3. ASSUME NEW s \in Slot, CleanUp(s)
        PROVE  ServesAtItsSocket'
    <3>1. \A t \in Slot \ {s} : at[t] \in Owning => Runs[t] # Runs[s]
      BY <2>3, OwnerUnique DEF CleanUp, Owning
    <3>2. /\ \A t \in Slot \ {s} : at'[t] = at[t]
          /\ at'[s] = "down"
          /\ \A d \in Daemon \ {Runs[s]} : file'[d] = file[d]
      BY <2>3, LifecycleAssumption DEF IInv, LifecycleTypeOK, CleanUp, Ends, Goes
    <3> QED
      BY <3>1, <3>2, LifecycleAssumption DEF IInv, ServesAtItsSocket, Owning, Listening
  <2>4. ASSUME NEW d \in Daemon, RemoveStale(d)
        PROVE  ServesAtItsSocket'
    BY <2>4, LifecycleAssumption
    DEF IInv, LifecycleTypeOK, ServesAtItsSocket, RemoveStale, Stale
  <2>5. ASSUME NEW s \in Slot,
               \/ Start(s) \/ CheckFails(s) \/ BindFails(s) \/ SetHandler(s) \/ Serve(s)
               \/ ConnectFails(s) \/ Sigint(s) \/ Drain(s) \/ Crash(s)
        PROVE  ServesAtItsSocket'
    <3>1. /\ file' = file
          /\ \/ at' = at
             \/ \E place \in Place : /\ Goes(s, place)
                                     /\ place \in Owning => at[s] \in Owning
      BY <2>5
      DEF Start, CheckFails, BindFails, SetHandler, Serve, ConnectFails, Sigint, Drain,
          Crash, Ends, Goes, Place, Owning, Listening
    <3> QED
      BY <3>1, FilesKept DEF IInv, ServesAtItsSocket
  <2>6. ASSUME NEW d \in Client, Probe(d) \/ ProbeUnanswered(d) \/ ProbeRefused(d)
        PROVE  ServesAtItsSocket'
    BY <2>6 DEF Probe, ProbeUnanswered, ProbeRefused, Told, IInv, ServesAtItsSocket
  <2> QED
    BY <1>1, <2>1, <2>2, <2>3, <2>4, <2>5, <2>6 DEF Next, Proceed, IInv
<1>2. CASE UNCHANGED vars
  BY <1>2 DEF vars, IInv, LifecycleTypeOK, ServesAtItsSocket
<1> QED
  BY <1>1, <1>2

(* Every state of the daemons is of its type, and their sockets served.    *)
THEOREM Invariance == Spec => []IInv
  BY InitIInv, NextIInv, PTL DEF Spec

(***************************************************************************)
(* The daemons keep to their types, in whatever order they start, crash    *)
(* and stop.                                                               *)
(***************************************************************************)
THEOREM LifecycleTypeCorrect == Spec => []LifecycleTypeOK
<1>1. IInv => LifecycleTypeOK
  BY DEF IInv
<1> QED
  BY <1>1, Invariance, PTL

(***************************************************************************)
(* A process that has bound its socket and not ended stands behind its     *)
(* daemon's socket file: however restarts overlap, nobody removes the file *)
(* of a process that serves.                                               *)
(***************************************************************************)
THEOREM SocketServed == Spec => []ServesAtItsSocket
<1>1. IInv => ServesAtItsSocket
  BY DEF IInv
<1> QED
  BY <1>1, Invariance, PTL

-----------------------------------------------------------------------------
(***************************************************************************)
(* Once signals and faults have ceased, a daemon that serves goes on to.   *)
(* This is the part of Recovers that needs no fairness.  Of the processes  *)
(* of one daemon the one that serves is the only one to own the socket, so *)
(* that no other can be about to remove its file.                          *)
(***************************************************************************)
THEOREM OnceUpStaysUp == Spec => StaysUp
<1>1. ASSUME IInv, Next, Calm, NEW d \in Daemon, Up(d)
      PROVE  Up(d)'
  <2> DEFINE s == file[d]
  <2>1. s \in Slot /\ at[s] = "serving" /\ ~sigint[s] /\ s # NoSlot
    BY <1>1, LifecycleAssumption DEF Up, Reaches, IInv, LifecycleTypeOK
  <2>2. ~Fault
    BY <1>1, LifecycleAssumption DEF Calm, Fault, IInv, LifecycleTypeOK
  <2>3. SUFFICES at'[s] = at[s] /\ sigint'[s] = sigint[s] /\ file'[d] = s
    BY <2>1 DEF Up, Reaches
  <2> HIDE DEF s
  <2>4. ASSUME NEW t \in Slot, Start(t) \/ CheckFails(t) \/ Sigint(t) \/ Crash(t)
        PROVE  at'[s] = at[s] /\ sigint'[s] = sigint[s] /\ file'[d] = file[d]
    <3>1. Start(t)
      BY <1>1, <2>2, <2>4, LifecycleAssumption
      DEF CheckFails, Sigint, Crash, Calm, IInv, LifecycleTypeOK
    <3> QED
      BY <1>1, <2>1, <3>1 DEF Start, Goes, IInv, LifecycleTypeOK
  <2>5. ASSUME NEW t \in Slot, Proceed(t)
        PROVE  at'[s] = at[s] /\ sigint'[s] = sigint[s] /\ file'[d] = file[d]
    <3>1. t # s
      BY <1>1, <2>1, <2>5
      DEF Proceed, Bind, BindFails, SetHandler, Serve, ConnectFails, Drain, CleanUp
    <3>2. at'[s] = at[s] /\ sigint'[s] = sigint[s]
      BY <1>1, <2>1, <2>5, <3>1
      DEF Proceed, Bind, BindFails, SetHandler, Serve, ConnectFails, Drain, CleanUp, Goes,
          Ends, IInv, LifecycleTypeOK
    <3>3. CASE Bind(t)
      BY <1>1, <2>1, <3>2, <3>3, LifecycleAssumption DEF Bind, IInv, LifecycleTypeOK, s
    <3>4. CASE CleanUp(t)
      <4>1. file[Runs[t]] = t
        BY <1>1, <3>4 DEF CleanUp, IInv, ServesAtItsSocket, Owning
      <4> QED
        BY <1>1, <3>1, <3>2, <3>4, <4>1 DEF CleanUp, IInv, LifecycleTypeOK, s
    <3>5. CASE ~Bind(t) /\ ~CleanUp(t)
      BY <2>5, <3>2, <3>5 DEF Proceed, BindFails, SetHandler, Serve, ConnectFails, Drain
    <3> QED
      BY <3>2, <3>3, <3>4, <3>5
  <2>6. ASSUME NEW e \in Daemon, RemoveStale(e)
        PROVE  at'[s] = at[s] /\ sigint'[s] = sigint[s] /\ file'[d] = file[d]
    BY <1>1, <2>1, <2>6
    DEF RemoveStale, Stale, Owning, Listening, IInv, LifecycleTypeOK, s
  <2>7. ASSUME NEW e \in Client, Probe(e) \/ ProbeUnanswered(e) \/ ProbeRefused(e)
        PROVE  at'[s] = at[s] /\ sigint'[s] = sigint[s] /\ file'[d] = file[d]
    BY <2>7 DEF Probe, ProbeUnanswered, ProbeRefused, Told
  <2> QED
    BY <1>1, <2>4, <2>5, <2>6, <2>7 DEF Next, s
<1>2. IInv /\ [Next]_vars => [\A d \in Daemon : Calm /\ Up(d) => Up(d)']_vars
  BY <1>1
<1> QED
  BY <1>2, Invariance, PTL DEF Spec, StaysUp
=============================================================================
