----------------------------- MODULE NodeService -----------------------------
(***************************************************************************)
(* What the node service promises a container orchestrator, without        *)
(* daemons, mount tables or directories: a volume is detached, staged or   *)
(* published on the host, moves only to where it was last asked to go, and *)
(* an answer tells where it is (csi.proto, the life of a volume).          *)
(*                                                                         *)
(* A volume of which the orchestrator has given up a call is lost: the     *)
(* service promises nothing of it any more, nor takes anything back.       *)
(***************************************************************************)
CONSTANT Vol

VARIABLES
    place,   \* where each volume is
    told     \* where each volume was last told to be, or asked to go

serviceVars == <<place, told>>

Start == [staging |-> "detached", publishing |-> "staged",
          unpublishing |-> "published", unstaging |-> "staged"]

Goal == [staging |-> "staged", publishing |-> "published",
         unpublishing |-> "staged", unstaging |-> "detached"]

Asked == DOMAIN Goal

ServiceInit ==
    /\ place = [v \in Vol |-> "detached"]
    /\ told = [v \in Vol |-> "detached"]

(* A volume may be asked to go on, or back where it came from.             *)
Ask(v, g) ==
    /\ place[v] \in {Start[g], Goal[g]}
    /\ told' = [told EXCEPT ![v] = g]
    /\ UNCHANGED place

(* The volume gets there, and the orchestrator does not know it yet.       *)
Move(v) ==
    /\ told[v] \in Asked
    /\ place' = [place EXCEPT ![v] = Goal[told[v]]]
    /\ UNCHANGED told

Answer(v) ==
    /\ told[v] \in Asked
    /\ place' = [place EXCEPT ![v] = Goal[told[v]]]
    /\ told' = [told EXCEPT ![v] = Goal[told[v]]]

Lose(v) ==
    /\ place' = [place EXCEPT ![v] = "unknown"]
    /\ told' = [told EXCEPT ![v] = "unknown"]

ServiceNext ==
    \E v \in Vol : \/ \E g \in Asked : Ask(v, g)
                   \/ Move(v)
                   \/ Answer(v)
                   \/ Lose(v)

ServiceSpec == ServiceInit /\ [][ServiceNext]_serviceVars
=============================================================================
