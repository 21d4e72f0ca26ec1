---------------------------- MODULE VolumeService ----------------------------
(***************************************************************************)
(* What CreateVolume and DeleteVolume promise a container orchestrator,    *)
(* without daemons, volume groups or hashes: volumes come into being and   *)
(* disappear, and the orchestrator is given volumes for names.             *)
(*                                                                         *)
(* A volume is never given for two names, and a name never has two         *)
(* existing volumes (csi.proto, the idempotency of CreateVolume by name).  *)
(* A volume given has existed; it may be gone when a delete crosses.       *)
(***************************************************************************)
CONSTANT Id(_)   \* the identity of a volume

VARIABLES
    existing,    \* the volumes that exist
    ever,        \* the volumes that ever existed
    given        \* the pairs of a name and the volume given for it

serviceVars == <<existing, ever, given>>

ServiceInit ==
    /\ existing = {}
    /\ ever = {}
    /\ given = {}

(* A volume comes into being, under an identity never used before.         *)
Appear(v) ==
    /\ \A e \in ever : Id(e) # Id(v)
    /\ existing' = existing \cup {v}
    /\ ever' = ever \cup {v}
    /\ UNCHANGED given

Disappear(v) ==
    /\ existing' = existing \ {v}
    /\ UNCHANGED <<ever, given>>

Give(n, v) ==
    /\ v \in ever
    /\ \A g \in given : Id(g.vol) = Id(v) => g.name = n
    /\ \A g \in given : g.name = n /\ {g.vol, v} \subseteq existing => g.vol = v
    /\ given' = given \cup {[name |-> n, vol |-> v]}
    /\ UNCHANGED <<existing, ever>>

(* Volumes and names are any values: which ones, the next state tells.     *)
ServiceNext ==
    \/ \E v \in existing' : Appear(v)
    \/ \E v \in existing : Disappear(v)
    \/ \E g \in given' : Give(g.name, g.vol)

ServiceSpec == ServiceInit /\ [][ServiceNext]_serviceVars
=============================================================================
