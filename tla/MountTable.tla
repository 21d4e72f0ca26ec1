----------------------------- MODULE MountTable -----------------------------
(***************************************************************************)
(* The kernel's mount table of a host, the directories mounts happen at,   *)
(* and who owns what they show.  None of this is code of the repository:   *)
(* it is the kernel, modelled from the way mountd and the node call it.    *)
(*                                                                         *)
(* Mounts on one directory stack.  A directory shows the root of the       *)
(* volume mounted last, or itself; a bind mount shows what its source      *)
(* showed when it was made.  The kernel refuses to mount a volume where    *)
(* its root already shows, but not to bind it there.                       *)
(***************************************************************************)
EXTENDS SequencesExt

CONSTANTS
    Vol,         \* logical volumes, each with a filesystem
    Path,        \* directories
    ReaderOnly   \* volumes used with SINGLE_NODE_READER_ONLY

Root == Vol \cup Path

ASSUME MountTableAssumption ==
    /\ Vol \cap Path = {}
    /\ ReaderOnly \subseteq Vol

VARIABLES
    present,   \* volumes that exist and are active
    dirs,      \* directories that exist
    stack,     \* what is mounted on each directory, the last on top
    owned      \* volume roots and directories owned by the configured user

mtVars == <<present, dirs, stack, owned>>

MountTableTypeOK ==
    /\ present \subseteq Vol
    /\ dirs \subseteq Path
    /\ stack \in [Path -> Seq(Root)]
    /\ owned \subseteq Root

IsMounted(p) == stack[p] # <<>>

Shows(p) == IF IsMounted(p) THEN Last(stack[p]) ELSE p

Held(v) == \E p \in Path : Contains(stack[p], v)

-----------------------------------------------------------------------------
Push(p, root) ==
    /\ stack' = [stack EXCEPT ![p] = Append(@, root)]
    /\ UNCHANGED <<present, dirs, owned>>

MountVolume(v, p) == Shows(p) # v /\ Push(p, v)

MountBusy(v, p) == Shows(p) = v /\ UNCHANGED mtVars

BindMount(s, t) == Push(t, Shows(s))

Unmount(p) ==
    /\ IsMounted(p)
    /\ stack' = [stack EXCEPT ![p] = Front(@)]
    /\ UNCHANGED <<present, dirs, owned>>

(* chown follows the path to what it shows; a read-only mount refuses it.  *)
CanChown(p) == p \in dirs /\ Shows(p) \notin ReaderOnly

Chown(p) ==
    /\ CanChown(p)
    /\ owned' = owned \cup {Shows(p)}
    /\ UNCHANGED <<present, dirs, stack>>

(* The node process makes the directory; it is assumed to run as the user  *)
(* and group mountd is configured for, so that the directory is theirs.    *)
MakeDir(p) ==
    /\ dirs' = dirs \cup {p}
    /\ owned' = IF p \in dirs THEN owned ELSE owned \cup {p}
    /\ UNCHANGED <<present, stack>>

(* rmdir refuses a mountpoint, and finds nothing where there is nothing.   *)
RemoveDir(p) ==
    /\ dirs' = IF IsMounted(p) THEN dirs ELSE dirs \ {p}
    /\ UNCHANGED <<present, stack, owned>>

(* lvremove refuses a volume that is mounted somewhere.                    *)
RemoveVolume(v) ==
    /\ ~Held(v)
    /\ present' = present \ {v}
    /\ UNCHANGED <<dirs, stack, owned>>
=============================================================================
