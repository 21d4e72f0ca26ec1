------------------------------ MODULE Lifecycle ------------------------------
(***************************************************************************)
(* The four main functions, and the probe of the identity service: how the *)
(* daemons of a driver are started, bind their sockets, connect to the     *)
(* daemon below, serve, and stop.  controller is a client of volumed and   *)
(* node of mountd.                                                         *)
(*                                                                         *)
(* A slot holds one process of its daemon at a time.  Two slots for one    *)
(* daemon let a new process start while an old one is still stopping.      *)
(* Nothing but the socket file outlives a process: bind creates it, fails  *)
(* if it is there, and only the last lines of main remove it.              *)
(***************************************************************************)
EXTENDS Integers

CONSTANTS
    Slot,        \* slots for processes
    Runs,        \* the daemon of each slot
    NoSlot,
    MaxFaults,   \* bound: crashes, failed checks and lookups in a behaviour
    MaxStops     \* bound: SIGINTs in a behaviour

Daemon == {"volumed", "mountd", "controller", "node"}
Client == {"controller", "node"}
Below == [d \in Client |-> IF d = "controller" THEN "volumed" ELSE "mountd"]

ASSUME LifecycleAssumption ==
    /\ Runs \in [Slot -> Daemon]
    /\ NoSlot \notin Slot
    /\ MaxFaults \in Nat
    /\ MaxStops \in Nat

VARIABLES
    at,       \* where the process of each slot has got to
    sigint,   \* whether the channel of each process holds a SIGINT
    file,     \* the slot whose process created the daemon's socket file
    ready,    \* the last answer to a probe of each client
    faults,   \* faults so far
    stops     \* SIGINTs so far

vars == <<at, sigint, file, ready, faults, stops>>

(***************************************************************************)
(* "boot": before bind.  "bound": the socket exists and SIGINT still       *)
(* kills.  "handled": the handler is set.  "serving".  "draining": the     *)
(* listener is closed, calls in flight are finished.                       *)
(***************************************************************************)
Listening == {"bound", "handled", "serving"}
Owning == Listening \cup {"draining"}
Place == {"down", "boot"} \cup Owning

LifecycleTypeOK ==
    /\ at \in [Slot -> Place]
    /\ sigint \in [Slot -> BOOLEAN]
    /\ file \in [Daemon -> Slot \cup {NoSlot}]
    /\ ready \in [Client -> {"unasked", "true", "absent"}]
    /\ faults \in 0..MaxFaults
    /\ stops \in 0..MaxStops

Init ==
    /\ at = [s \in Slot |-> "down"]
    /\ sigint = [s \in Slot |-> FALSE]
    /\ file = [d \in Daemon |-> NoSlot]
    /\ ready = [d \in Client |-> "unasked"]
    /\ faults = 0
    /\ stops = 0

-----------------------------------------------------------------------------
(* A connect or a call to a daemon goes to whoever created its socket file. *)
Reaches(d, places) == file[d] # NoSlot /\ at[file[d]] \in places

Goes(s, place) == at' = [at EXCEPT ![s] = place]

(* A process ends, and with it its signal channel.                         *)
Ends(s) == Goes(s, "down") /\ sigint' = [sigint EXCEPT ![s] = FALSE]

Fault == faults < MaxFaults /\ faults' = faults + 1

(* The supervisor starts a process.                                        *)
Start(s) ==
    /\ at[s] = "down"
    /\ Goes(s, "boot")
    /\ UNCHANGED <<sigint, file, ready, faults, stops>>

(* The configuration, the volume group or the reserve is not as it should. *)
CheckFails(s) ==
    /\ at[s] = "boot" /\ Runs[s] \notin Client
    /\ Fault
    /\ Ends(s)
    /\ UNCHANGED <<file, ready, stops>>

(* Mutant: a file that is in the way is removed, as daemons often do.      *)
BindAnyway(s) ==
    /\ at[s] = "boot"
    /\ file' = [file EXCEPT ![Runs[s]] = s]
    /\ Goes(s, "bound")
    /\ UNCHANGED <<sigint, ready, faults, stops>>

Bind(s) ==
    /\ at[s] = "boot" /\ file[Runs[s]] = NoSlot
    /\ file' = [file EXCEPT ![Runs[s]] = s]
    /\ Goes(s, "bound")
    /\ UNCHANGED <<sigint, ready, faults, stops>>

BindFails(s) ==
    /\ at[s] = "boot" /\ file[Runs[s]] # NoSlot
    /\ Ends(s)
    /\ UNCHANGED <<file, ready, faults, stops>>

SetHandler(s) ==
    /\ at[s] = "bound"
    /\ Goes(s, "handled")
    /\ UNCHANGED <<sigint, file, ready, faults, stops>>

(***************************************************************************)
(* A client connects before it serves; the kernel completes a connect as   *)
(* soon as somebody listens.  If nobody does, the client panics and leaves *)
(* the socket file it has just created.                                    *)
(* Mutant: the signal channel is set up when the server starts.            *)
(***************************************************************************)
ServeWithNewChannel(s) ==
    /\ at[s] = "handled"
    /\ Runs[s] \in Client => Reaches(Below[Runs[s]], Listening)
    /\ Goes(s, "serving")
    /\ sigint' = [sigint EXCEPT ![s] = FALSE]
    /\ UNCHANGED <<file, ready, faults, stops>>

Serve(s) ==
    /\ at[s] = "handled"
    /\ Runs[s] \in Client => Reaches(Below[Runs[s]], Listening)
    /\ Goes(s, "serving")
    /\ UNCHANGED <<sigint, file, ready, faults, stops>>

(* Mutant: a client whose server goes away ends, as at its start.          *)
ConnectFailsAnyTime(s) ==
    /\ at[s] \in {"handled", "serving"} /\ Runs[s] \in Client
    /\ ~Reaches(Below[Runs[s]], Listening)
    /\ Ends(s)
    /\ UNCHANGED <<file, ready, faults, stops>>

ConnectFails(s) ==
    /\ at[s] = "handled" /\ Runs[s] \in Client
    /\ ~Reaches(Below[Runs[s]], Listening)
    /\ Ends(s)
    /\ UNCHANGED <<file, ready, faults, stops>>

(* A SIGINT ends the process, or waits in the channel for the server.      *)
Sigint(s) ==
    /\ at[s] # "down" /\ stops < MaxStops
    /\ IF at[s] \in {"boot", "bound"} THEN Ends(s)
       ELSE sigint' = [sigint EXCEPT ![s] = TRUE] /\ UNCHANGED at
    /\ stops' = stops + 1
    /\ UNCHANGED <<file, ready, faults>>

Drain(s) ==
    /\ at[s] = "serving" /\ sigint[s]
    /\ Goes(s, "draining")
    /\ sigint' = [sigint EXCEPT ![s] = FALSE]
    /\ UNCHANGED <<file, ready, faults, stops>>

(* Mutants: the server waits for its clients to disconnect; the end of the *)
(* process is not noticed.                                                 *)
CleanUpWhenIdle(s) ==
    /\ at[s] = "draining"
    /\ \A c \in Slot : at[c] = "serving" /\ Runs[c] \in Client => Below[Runs[c]] # Runs[s]
    /\ file' = [file EXCEPT ![Runs[s]] = NoSlot]
    /\ Ends(s)
    /\ UNCHANGED <<ready, faults, stops>>

CleanUpUnnoticed(s) ==
    /\ at[s] = "draining"
    /\ file' = [file EXCEPT ![Runs[s]] = NoSlot]
    /\ Goes(s, "exited")
    /\ UNCHANGED <<sigint, ready, faults, stops>>

(* The last lines of main remove whatever is at the path.                  *)
CleanUp(s) ==
    /\ at[s] = "draining"
    /\ file' = [file EXCEPT ![Runs[s]] = NoSlot]
    /\ Ends(s)
    /\ UNCHANGED <<ready, faults, stops>>

(* A panic, an error of the server, SIGTERM or SIGKILL.                    *)
Crash(s) ==
    /\ at[s] # "down"
    /\ Fault
    /\ Ends(s)
    /\ UNCHANGED <<file, ready, stops>>

(* The operator removes a socket file that no process stands behind.       *)
Stale(d) == file[d] # NoSlot /\ at[file[d]] \notin Owning

RemoveStale(d) ==
    /\ Stale(d)
    /\ file' = [file EXCEPT ![d] = NoSlot]
    /\ UNCHANGED <<at, sigint, ready, faults, stops>>

(***************************************************************************)
(* probe.  The controller asks volumed for its free bytes, over a channel  *)
(* that connects again when it has to, and says nothing of a failure; the  *)
(* node asks nobody.  A call to a daemon that has bound and does not serve *)
(* yet waits.                                                              *)
(***************************************************************************)
Told(d, answer) ==
    /\ Reaches(d, {"serving"})
    /\ ready' = [ready EXCEPT ![d] = answer]
    /\ UNCHANGED <<at, sigint, file, stops>>

(* Mutant: a channel that has failed once stays failed.                    *)
ProbeOfOneChannel(d) ==
    /\ d = "controller" => Reaches(Below[d], {"serving"}) /\ ready[d] # "absent"
    /\ Told(d, "true") /\ UNCHANGED faults

Probe(d) ==
    /\ d = "controller" => Reaches(Below[d], {"serving"})
    /\ Told(d, "true") /\ UNCHANGED faults

ProbeUnanswered(d) ==
    /\ d = "controller" /\ ~Reaches(Below[d], Listening)
    /\ Told(d, "absent") /\ UNCHANGED faults

(* volumed serves, but does not find its volume group.                     *)
ProbeRefused(d) ==
    /\ d = "controller" /\ Reaches(Below[d], {"serving"})
    /\ Fault
    /\ Told(d, "absent")

-----------------------------------------------------------------------------
Proceed(s) ==
    \/ Bind(s)
    \/ BindFails(s)
    \/ SetHandler(s)
    \/ Serve(s)
    \/ ConnectFails(s)
    \/ Drain(s)
    \/ CleanUp(s)

Next ==
    \/ \E s \in Slot : Start(s) \/ Proceed(s) \/ CheckFails(s) \/ Sigint(s) \/ Crash(s)
    \/ \E d \in Daemon : RemoveStale(d)
    \/ \E d \in Client : Probe(d) \/ ProbeUnanswered(d) \/ ProbeRefused(d)

Spec == Init /\ [][Next]_vars

(***************************************************************************)
(* Processes go on, the supervisor restarts what is down, the operator     *)
(* removes stale socket files and the CO probes.  No fault and no signal   *)
(* is fair.                                                                *)
(***************************************************************************)
FairSpec ==
    /\ Spec
    /\ \A s \in Slot : WF_vars(Start(s)) /\ WF_vars(Proceed(s))
    /\ \A d \in Daemon : WF_vars(RemoveStale(d))
    /\ \A d \in Client : WF_vars(Probe(d))

-----------------------------------------------------------------------------
(***************************************************************************)
(* A process that has bound its socket and not ended stands behind its     *)
(* daemon's socket file: no two processes of a daemon serve side by side,  *)
(* and the old one, however long it drains, removes no file of a new one.  *)
(***************************************************************************)
ServesAtItsSocket ==
    \A s \in Slot : at[s] \in Owning => file[Runs[s]] = s

(***************************************************************************)
(* Once signals and faults have ceased a daemon that serves goes on to,    *)
(* whatever the others do: a second process of its own that comes up or    *)
(* drains, an operator who removes socket files, a client or a server that *)
(* goes away.                                                              *)
(***************************************************************************)
Calm == faults = MaxFaults /\ stops = MaxStops

Up(d) == Reaches(d, {"serving"}) /\ ~sigint[file[d]]

StaysUp == [][\A d \in Daemon : Calm /\ Up(d) => Up(d)']_vars

(***************************************************************************)
(* A SIGINT that reached the handler is heeded, also one that came before  *)
(* the server polled for it: the process ends.                             *)
(***************************************************************************)
SigintHeeded == \A s \in Slot : sigint[s] ~> at[s] = "down"

(***************************************************************************)
(* Once signals and faults have ceased the driver is up for good: every    *)
(* daemon serves, whatever they left behind and in whatever order the      *)
(* daemons were started.                                                   *)
(***************************************************************************)
Recovers == <>[](\A d \in Daemon : Reaches(d, {"serving"}))

(***************************************************************************)
(* And the CO's probes say so in the end: a controller that had lost its   *)
(* volumed finds the next one over the channel it has, without a restart.  *)
(***************************************************************************)
ReadyAgain == <>[](\A d \in Client : ready[d] = "true")
=============================================================================
