# A TLA+ development of rlvm

rlvm is a CSI driver for one LVM volume group per host. This directory holds its
specifications, the TLC configurations that check them, and proofs that tlapm
checks. Paths are relative to the repository.

## 1. The system

A container orchestrator (the CO) talks CSI to two daemons; each of them talks gRPC,
over a unix socket, to a privileged one that runs LVM commands or mounts. All four are
stateless tokio processes: what persists is LVM's metadata, the contents of the
devices, the kernel's mount table, directories and socket files. Every handler starts
from nothing, so a restart is the loss of the calls in flight and no more.

| component | source | state | operations |
|---|---|---|---|
| volumed | `crates/volumed/src/{main,server,lib}.rs` | none; LVM volumes and their devices | list, free bytes, create, delete, format (`mkfs.xfs -f`), get by name or uuid |
| controller | `crates/csi/src/controller.rs` | none; a handler per call in flight | CreateVolume, DeleteVolume; the queries ListVolumes, GetCapacity, ValidateVolumeCapabilities |
| mountd | `crates/mountd/src/{server,lib}.rs` | none; mount table, owners of directories | device path of a uuid, mount, unmount |
| node | `crates/csi/src/node.rs` | none; target directories | stage, unstage, publish, unpublish |
| identity | `crates/csi/src/identity.rs` | none | info, capabilities, probe |
| four `main` functions | `crates/*/src/{main,bin/*}.rs` | socket files | bind, connect, serve, remove the socket on SIGINT |
| configuration | `crates/volumed/src/lib.rs`, `crates/mountd/src/lib.rs` | none | YAML, user and group lookup |

How they interact:

* CreateVolume is `get_free_bytes`, `get_logical_volume` by the hash of the name,
  perhaps `create_logical_volume`, then always `format_logical_volume`. DeleteVolume is
  `get_logical_volume` by uuid and `delete_logical_volume` by name. Each is an await, and
  calls for the same or other volumes run in between.
* Every volumed RPC first passes `vg_injector`, which looks the group up again and may fail.
* Stage is `get_lvm_block_path`, file checks, `mount` of the device; publish is
  `get_lvm_block_path`, `create_dir_all`, `mount` with BIND of the staging directory;
  unpublish is `get_lvm_block_path`, `unmount`, `remove_dir` (its error dropped); unstage is
  `get_lvm_block_path` and `unmount`.
* mountd's `mount` and `unmount` read the whole mount table first and act on that
  reading later; `mount` ends with a `chown`.
* A CSI call may be given up by the CO. tonic then drops the handler at its await, while
  the RPC it waited for is already with volumed or mountd and may run at any later time.

Which behaviours are hard, and what correctness means:

| component | hard to test | correct if |
|---|---|---|
| controller on volumed | two creates for one name; a create crossing a delete; a call given up between create and format and retried; names re-used between lookup and delete; free bytes read two awaits before they are used; sizes rounded up by LVM | one volume per name and one name per volume; nothing handed out without a complete filesystem or of another size; deletes remove what was found and only volumes of that name; retries succeed; data of existing volumes survives |
| node on mountd | a late mount or unmount of a call given up; a failure between mount and chown; retries of half-done operations; stacked mounts | what the CO believes and the mount table agree; one mount per directory; no volume shows at another's directories; a volume taken down gets down |
| queries | a group that changes between two pages or after a capacity was reported; pagination that ignores its start; the topology test turned round | an unrestricted listing misses nothing, a reported capacity can be used as long as nothing was added |
| `main` functions, probe | a crash or SIGTERM that leaves the socket file; a start before the daemon below has bound; a new process beside one that still drains; SIGINT before the server polls for it; volumed restarting under a running controller | one process per socket, SIGINT is heeded, after faults every daemon serves again and probes say so |

`PROJECT.json` lists each hazard at its line, with the properties aimed at it.

## 2. Modules

```
VolumeGroup (LVM, mkfs; external)        MountTable (kernel; external)   Lifecycle
  |      \                                    |                            |    \
  |    GroupProofs                          Mountd                MCLifecycle  LifecycleProofs
Volumed                                       |
  |   \                                     Node --implements--> NodeService
  |  ControllerQueries                       |    \
  |     |        \                        MCNode  NodeProofs
  |  MCQueries  QueriesProofs                       |       \
  |              (on GroupProofs)           NodeRefinement  NodeOwnership
  |
Controller --implements--> VolumeService
  |        \
MCController  ControllerProofs
                    |
              ControllerExclusion (on GroupProofs)
```

**VolumeGroup** is what volumed's commands work on: the set `lvs` of existing volumes
(uuid, name, size), `born` for all that ever existed, `fs` for what each device holds (nothing;
an mkfs that has begun and not ended, "torn"; an empty filesystem; one with data: the last two
are `Complete`),
`attached` and `formatting` for devices held open by a mount or an mkfs. LVM locks the
group, so an LVM command is one step. mkfs is long, so it is two steps, `BeginMkfs` and
`EndMkfs` or `KillMkfs`; it opens the device exclusively. `AddLv` draws a fresh uuid;
`RoundUp` is lvcreate's rounding to extents, of which the group has a whole number.

**Volumed** has one operator per RPC and outcome (`server.rs`): create refuses sizes that
the crate's capacity type does not take (those that are no whole number of sectors: a
property of lvm2_cmd, external) and what LVM refuses; delete and format act on whichever volume bears the name at that moment.
`get_free_bytes` is `capacity_bytes - spare_bytes`; whether the crate's `capacity_bytes`
is the free or the total size of the group is not visible in the repository, so it is the
constant `ReportsFree`, and the proofs hold for both.

**Controller** has a slot per call: `pc` (the RPC awaited), `req`, `vol` (the volume the
handler has learned of), `status` (the answer), `gone` (handler dropped). An action is one
RPC and the code up to the next await. The CO's ledger `told` is the history of answers.
A request has whether capabilities were given (what they are is never looked at), and a range
with its limit, which the handler parses and ignores. `Invoke` is argument validation; `CheckCapacity` .. `FormatEnd` are `create_volume`,
`FindTarget` .. `RemoveRefused` are `delete_volume`. `RpcFails`, `MkfsFails`, `Abandon`
and `Dropped` are the faults. `Use` and `Release` are workloads that mount and write on
volumes they were given.

**VolumeService** is the abstract specification: volumes appear under fresh identities,
disappear, and are given for names, never one for two names nor two existing ones for one
name. It has no calls, daemons or hashes. A volume given has existed, but may be gone:
CreateVolume can answer with a volume that a crossing DeleteVolume removed before the
format ended, and the specification says so.

**ControllerQueries** has the queries of `controller.rs` over the same group, which other
calls change meanwhile (`Create`, `Delete`). A query awaits volumed once, so it is one step;
the CO's record `query` of the one under way keeps the pages shown so far and the volumes
that existed when it began. `Entries` and `NextToken` are the arithmetic of `list_volumes`
as written: the start is not applied, and the end of the page is compared with the length
of the page. `GetCapacity` keeps the host test as written, `ValidateFails` the mapping of
every failed lookup to NotFound.

**MountTable** is the kernel: a stack of mounts per directory, what a directory shows,
bind mounts of what the source shows, EBUSY, chown (refused on a read-only filesystem),
rmdir (refused on a mountpoint), lvremove (refused while mounted). `owned` is what belongs to the
user and group mountd is configured for. `MakeDir` puts a new target there: the node process, which
makes it (`node.rs`), is assumed to run as that user and group. With another one
`ensure_interactable` (`mountd/src/lib.rs:81`) would refuse every publish to a new target that the
whitelist does not cover.

**Mountd** has the handlers of `server.rs` after they have read the table, with `seen` for
that reading, and `ensure_interactable` of `lib.rs` as it is written, its test for
read-only destinations included.

**Node** has a slot per call as Controller has; `pc` also stands for the steps inside
mountd: reading the table (`MountBegins`, `UnmountBegins`), the system call (`Mount`,
`Unmounting`), the chown (`Own`). The CO keeps `phase` for each volume and follows CSI's
order: it begins, repeats, or takes back what it has begun, one call per volume as far as
it knows. Only `Abandon` makes two calls for one volume overlap; `late` remembers the
volumes it happened to. Two other faults leave the handler alive: `OperationFails` (an RPC or
system call that has no effect) and `ReplyLost` (mountd has chowned or unmounted, and the error
that the handler sees is the lost answer; mount and chown are one RPC with one answer). `unowned` is the history of the volumes whose chown failed while
they were staged.

**NodeService** is the abstract specification of the node: a volume is detached, staged or
published, moves only where it was last asked to go (`Ask`, `Move`), an answer tells where it is
(`Answer`), and a volume of which a call was given up is lost (`Lose`): nothing is promised of
it. It has no calls, mount tables or directories. `PlaceOf` and `ToldOf` in Node are the
refinement mapping: the place is read off the stacks of the volume's two directories, what is
told is the CO's phase.

**Lifecycle** is the four `main` functions and `probe` of `identity.rs`. A slot holds one
process of its daemon; `at` says how far its `main` has got: `Bind` (fails on an existing
file), `SetHandler`, `Serve` (a client connects first, and panics if nobody listens:
`ConnectFails`), `Drain` on SIGINT, `CleanUp`. `file` is the process that created the socket
file, the only thing that outlives it. `Sigint` kills before the handler is set and waits in
the channel after. `Start` is the supervisor, `RemoveStale` the operator, `Crash` a panic,
SIGTERM or SIGKILL, `CheckFails` a daemon that does not find its configuration or group.

Definitions named "Mutant" in a comment are plausible bugs. No specification uses
them; each is put in place of the definition it varies, to see that a property notices.

## 3. Runs

| run | bounds | shows |
|---|---|---|
| `controller_safety` | 2 calls, 2 names, 3 uuids, requests on each side of every check, a group that fills up, deletes, 1 fault | the invariants (`SizeHonoured` and `DeletedIsGone` among them), `KnownIsFormatted`, `RemovalConfined` and `ImplementsService`, with every early return taken |
| `controller_live` | 2 calls, 2 names that fit together, two sizes for one of them that LVM rounds to the same, free bytes as they are, a reserve, 1 fault, no deletes | `EveryCallEnds`, `RetryProvisions` |
| `node_safety` | 2 volumes (one read-only), their 4 directories, 2 calls, 2 faults | belief and mount table agree (`BelievedIsMounted`, `BelievedIsUnmounted`); `NoOtherShows` even with late calls; `OwnedUnlessFailed` and `TakeDownAllowed` for volumes whose chown did not fail; `ImplementsNodeService` |
| `node_live` | 1 read-only volume, 2 calls, 2 faults, directories whitelisted | `TakenDown` |
| `queries` | 3 names, 3 uuids, sizes 4 and 6 in a group of 16, `max_entries` -1 to 2, tokens none, malformed and 1 | `UnrestrictedShowsAll`, `OfferStaysUsable` while the group changes |
| `lifecycle` | 2 slots for volumed, 1 for each other daemon, 1 fault, 1 SIGINT | `ServesAtItsSocket`, `StaysUp`, `SigintHeeded`, `Recovers`, `ReadyAgain` |
| `finding_*` | the smallest instance that shows it | see section 5 |

Why the bounds are enough: the races are between two calls for one volume, or one name;
a third call in flight repeats one of the two roles. Three uuids let a volume be created,
deleted and created again under its name while another name lives on. One fault is what
separates a call from its retry; two let a call be given up and its retry fail as well.
Sizes count in units with an extent of four and a sector of two, so that rounding,
a size off the sector and a full group all occur. Three volumes against pages of one and two
are fewer than, as many as and more than a page. Two slots for volumed are an old process and
its successor; a third would meet the same file. The proofs lift these bounds for the safety properties.

What the two conditional liveness properties ask for. `RetryProvisions` is about requests that
are `Open` from some time on: the volume is absent and fits, or is there in exactly the size asked
for, and the size is within `get_free_bytes` even then. `RepeatIsServed` drops this and is refuted
(`finding_retry`). `controller_live` has no deletes, as `MaxVolumes` would end the creations and
not the CO. `TakenDown` has two parts: the CO is answered OK in any case; and the directory is
mounted no more by then if there was a time in between at which no call for the volume had read the
mount table, none of the abandoned ones was left and at most one mount was there. Without that
condition the mount can stay (`finding_unpublished`).

Bounds that exist for TLC only: `MaxFaults`, `MaxVolumes` (in the CO's `Invoke`),
`Uuid`, `MaxStops` (SIGINTs), and the sets of requests. `node_*` do not check deadlock: the CO may delete its
volumes, and then nothing is left to do.

**Fairness.** `Controller!FairSpec`: each call's handler, LVM command and mkfs goes on
(WF: the runtime polls a ready handler and the RPCs have no lock among themselves), and the
CO asks again (SF on `Invoke`, as its slot is now and then occupied). `Node!FairSpec`: the
same for handlers and mountd's steps, and the CO repeats the operation it has begun, as CSI
asks it to. No fault is fair, no fault is bound to end except by `MaxFaults`, and no CO is
assumed to begin anything.
`Lifecycle!FairSpec`: processes go on, and, from outside the repository, a supervisor starts
what is down, an operator removes a socket file no process stands behind, and the CO probes.
Without the operator `Recovers` is false, as a stale file makes every bind fail. `TakenDown` needs the whitelist to cover the directories:
otherwise `ensure_interactable` may deny the unmount of a volume whose chown never
happened, and unmount is refused for ever.

## 4. Proofs

Eight modules hold proofs: `GroupProofs`, `ControllerProofs`, `ControllerExclusion`,
`QueriesProofs`, `NodeProofs`, `NodeRefinement`, `NodeOwnership` and `LifecycleProofs`. They are for every number of calls, names, volumes,
requests, sizes, processes and faults. They assume what the modules' ASSUMEs say of the
constants, and no more unless stated.

*Volume group.* What the volumes use is a sum over a set, defined by recursion in the
library. `GroupProofs` shows that the recursion has exactly one solution (`SumExists`,
`SumUnique`), so that the sum grows by the size of a volume added and shrinks by that of one
removed (`UsedAdd`, `UsedSplit`), is monotonic, and is a whole number of extents if the sizes
are. An induction over the set is not available, so each argument takes a smallest
counterexample instead: strict inclusion is well-founded on the subsets of a finite set
(`Smallest`), and the recursion leads from the smallest set for which a claim fails to a
smaller one. `GroupSound` (finitely many volumes, of whole extents, that fit into the group) is
kept by every operation on the group; the queries and the reserve rest on it.

*Controller.* None of the properties is inductive: that a volume handed out is formatted
depends on what a handler waiting for mkfs knows of its volume. `IInv` is type correctness,
`GroupInv` (uuids are unique among all volumes ever, names among those existing),
`CallInv` (per step: while it formats, `vol` once existed under the hash of the request's
name with the size asked for; while it deletes, `vol` has the uuid asked for; a deleted
volume stays away) and `LedgerInv` (what was given existed under its name's hash). The step
lemmas go by what an operation keeps of the group (`GroupKept`: nothing born is forgotten,
nothing gone returns) and by the fact that a step touches one call (`OthersKeep`).

`Formatted` (`KnownIsFormatted`) is an action property with two halves. An OK is given only where
mkfs ends (`CreateOkIsFormatEnd`), and mkfs ends for the volume that bears the name *now*; if that
is not `vol`, then `vol` is gone and never returns (`FormatsWhatIsGiven`). And a complete
filesystem is lost only to an mkfs that begins on it: one that fails does so on a device that its
beginning has already torn, and every other step leaves devices alone or adds one
(`DevicesOtherwise`, `CompleteStays`). That a repeated CreateVolume begins such an mkfs is
`finding_reformat`, and if it fails then, the volume given to the CO is left torn.

`TypeCorrect`, `Sized`, `Deleted`, `OnePerName` and `Confined` follow from `IInv`.
`GoneUnlessFailed` (`DeletedIsGone`) adds `TargetInv` on top of `IInv`: a delete
under way asks for a uuid that was born; one answered OK while nothing has failed has a uuid
that was born and is absent; and a born uuid that is absent stays absent.
`NoSharing` and `Refinement` also assume `HashInjective`: `hash_resource` is 64 bits, a
collision would share a volume, and the code has no defence against one.

*Controller, with calls kept apart.* `finding_stale_delete` and `finding_reserve` are races
between two calls, and CSI asks the CO to have one call in flight per volume. Whether that is
enough is not obvious, since a call the CO has given up still acts. `ControllerExclusion` states
the rule for the calls volumed is not done with, abandoned ones included: `Exclusive`, no two of
them concern the same name. The theorems are of the form "if the rule holds all along, then";
any CO that waits for a call to end, and for abandoned ones to drain, keeps it.

* `ExclusiveDeletes`: `DeletesOnlyItsTarget` holds. The invariant is `HeldExists`: a volume a
  handler acts on exists until that handler is done, because what removes it would be a call
  about the same name.
* `ExclusiveGives`: a volume CreateVolume answers with exists at that moment, formatted, although
  `VolumeService` in general only promises that it once did.
* `SerialReserve`: `ReserveKept` holds if one call creates at a time, of whatever name
  (`OneCreates`), `get_free_bytes` reports free bytes and `spare_bytes` are whole extents.
  `Exclusive` is neither needed nor enough. The invariant says that the room that the creating
  call has checked is still there when it creates, as deletes only add to it; rounding up does
  not eat the reserve, because both the group and the volumes are whole extents.
* `SerialReserveNearly`: for any reserve, less than an extent of it is taken. The handler checks
  the size that was asked for, and lvcreate rounds it up afterwards.

*Node.* `IInv` has, per call, which operations pass through its step, that a call still
waited for has its volume in the phase it began, and what it knows of its directory
(`TableKnown`: for a volume that no late call touches, the reading of the mount table is
still true when it is acted on); per volume the stacks of its directories by phase
(`Settled`); that two calls for one volume are never both waited for (`Alone`); and
`ShowsOwn`, which needs none of this and holds with late calls too. `TypeCorrect`,
`MountedAsBelieved`, `UnmountedAsBelieved` and `OwnVolumesShow` follow. `TableKnown` is
where `late` matters: mountd's check-then-act is sound exactly as long as no abandoned call
is around.

`NodeImplementsService` shows that every step of Node maps to a step of NodeService or a
stutter. `PlaceByPhase` reads from `Settled` where a volume can be in each phase. The lemma
that carries the proof is `Forward`: a step of a call for a volume without late calls leaves
the volume where it is or takes it to the goal of its phase, never back; abandoned calls only
touch volumes that are already lost.

`NodeOwnership` proves `OwnedWhenStaged` and `UnmountAllowed`. Both are about volumes that can be
written to (the kernel refuses the chown of the others) and whose chown has not failed; any other
failure may have happened. `OwnInv` adds to `IInv` that a mounted directory exists, that a volume
mounted for staging is owned or a call is about to chown it (`ToBeOwned`). It is then owned once
the CO, having abandoned no call for it, is told that it is staged, for no other call is about to
act on it (`Alone`). The case at issue is a call that
finds the path mounted and answers OK without a chown: it can only be one that an abandoned or
failed call has mounted, and then either that call is still about to chown, or its chown was done
and only the answer was lost, or the chown failed and the volume is in `unowned`. `UnmountAllowed`
uses the same invariant where `ensure_interactable` judges the mounted root, which is not the
directory it judged for the mount; it leaves out volumes with abandoned calls, as an unmount that
overtakes the pending chown may be refused.

*Queries.* `IInv`: existing volumes were born, and so were those a listing began with.
`NothingMissed` follows because a uuid drawn is fresh: a volume that existed at the beginning
and exists now has existed at every page, and an unrestricted page is the whole group.
`SpaceInv` is `GroupSound`, the type of each answer and `OfferKnows`: the bytes offered were free
beside the volumes there were, `query.at`. From it follow `QueriesTypeCorrect` and `OfferUsable`:
while the volumes are a subset of `query.at` they use no more than those did, and as both the
group and its volumes are whole extents what is offered fits after rounding up.
`RestrictedReadsOnce`: a restricted listing never reads a second page, whatever the group; it is
why such a listing does not show what is beyond its first one.

*Lifecycle.* `LifecycleTypeOK` and `ServesAtItsSocket` are inductive together: only `Bind`
makes a process the owner and only onto a path that is free, so `CleanUp`, which removes
whatever is at the path, can only meet its own file. `OnceUpStaysUp` (`StaysUp`) is the half of
`Recovers` that needs no fairness: without faults and signals a process leaves `serving` only
for a SIGINT it has, and nobody else owns the file, to clean it up.

Only model-checked: the liveness properties (`EveryCallEnds`, `RetryProvisions`, `TakenDown`,
`SigintHeeded`, `Recovers`, `ReadyAgain`: fairness is outside what tlapm
proves), and the findings, which are counterexamples. Every invariant and action property of a
passing run is a theorem.

## 5. Disagreements between code and text

Each is a run that checks one property and finds a counterexample. Section 4 says in general
what `finding_stale_delete` and `finding_reserve` need (`ExclusiveDeletes`, `SerialReserve`:
crossing calls), and that `finding_unowned` needs a chown that failed (`OwnedWhenStaged`).

| run | the text | the code |
|---|---|---|
| `finding_reformat` | "Short out if we have already created the volume before" (`controller.rs:305`) | a repeated CreateVolume formats the volume again, data and all, if it is not mounted at that moment |
| `finding_stale_delete` | a volume_id uniquely identifies a volume (`csi.proto:490`) | DeleteVolume deletes by a name looked up before an await |
| `finding_reserve` | spare_bytes are reserved free (`volumed/src/lib.rs:14`) | checked only against free bytes read earlier; two creates eat the reserve |
| `finding_retry` | a CO that does not know whether its volume was provisioned may call CreateVolume again, with the same name, to obtain it (`csi.proto:281`) | the size found is compared for equality with the size asked for, and LVM rounds up (`controller.rs:318`): if the first answer is lost the repetition is refused AlreadyExists for ever |
| `finding_unpublished` | the target MUST be deleted (`csi.proto:1397`) | a crossing late mount is left in place and unpublish answers OK |
| `finding_unowned` | "Own the mounted folder" (`mountd/src/server.rs:150`) | a chown that failed is never repeated |

Seen while modelling, each a matter of one line or of the environment and so without a run
of its own: if `capacity_bytes` is the free size, as `volumed.proto:57` has it, the retry is also
refused OutOfRange when its own volume has used the space up (`controller.rs:298`: `RepeatIsServed`
fails for that reason too with whole extents, `ReportsFree = TRUE` and a volume that does not fit
twice); `limit_bytes` is ignored, so that a size rounded up may exceed it (`controller.rs:262`,
`csi.proto:474`); a listing of more than `max_entries` volumes sets no `next_token` after its first
page, although it "MUST" (`csi.proto:854`), and never shows the rest (`RestrictedReadsOnce`); a failed lookup in DeleteVolume is answered OK
(`controller.rs:373`); ValidateVolumeCapabilities answers NotFound for every failure
(`controller.rs:416`); GetCapacity answers zero for the controller's own host
(`controller.rs:203`); an unrestricted listing is given the token "0" each time
(`controller.rs:158`), so a CO that follows it never ends; a probe says nothing when volumed is away, which CSI reads as ready
(`identity.rs:33`, `csi.proto:260`), and the node's probe asks nobody (`identity.rs:43`).

## 6. Abstractions

* A handler of volumed or mountd has no await; volumed's are one step each (mkfs two),
  mountd's are cut at the reading of the table and at the system calls. The checks of
  `ensure_interactable` and the system call after them are one step, as are the lookup
  inside `format_logical_volume` and the start of mkfs.
* `from_uuid` searches every group of the host; the model has one group.
* `get_lv_list` has any order, a new one each time. A token is a number, absent or malformed;
  those the CO goes on with come from the controller, so `start + max_entries` does not
  overflow. Two queries change nothing and do not meet: the CO has one at a time.
* A connect succeeds as soon as somebody listens on the file's socket; a call to a process
  that has bound and does not serve yet waits.
* Tags, contexts and messages are left out. Validation of a node's arguments
  is left out: a CO that follows CSI fills them in.
* A bind mount is read-only if the stage was: the access mode of a volume is constant.
  Mount propagation and reboots of the host are left out, and so are inactive volumes.
* Staging directories always exist: CSI has the CO make them.
* Workloads in Controller stand for the whole node side (`Use` mounts the device and
  writes). The composition of both sides is in the plan.

## 7. Not modelled, and the plan

Done: VolumeGroup, Volumed, Controller, VolumeService and their proofs; MountTable, Mountd,
Node, NodeService and their proofs; ControllerQueries and Lifecycle and their proofs; what
the controller promises a CO that keeps its calls apart. The
order followed the damage an error does: data first, mounts second, answers and restarts last.

Next:

1. `Driver`: Controller and Node over one group, so that the CO's order and mounted devices
   replace `Use` and `Release`; `ExistingVolumeLeftAlone` between unpublish and publish. Its
   run can take the place of `finding_reformat`.
2. A fault model of the host: reboots, which empty the mount table and leave LVM's
   metadata, and inactive volumes.
3. Proofs: what a CO that keeps calls for one volume apart can rely on at the node after a
   call was abandoned and has drained, as `ControllerExclusion` has it for the controller
   (`UnpublishedIsUnmounted` under such a rule).

Left out for good: reading YAML, users and groups, and command lines (pure input);
`node_get_volume_stats` and `node_expand_volume`, which are `todo!()`; capability and info
replies, which are constants.
