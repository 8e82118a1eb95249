# ndctl, daxctl, cxl: a TLA+ verification project

The repository holds three command line tools and their libraries for
non-volatile and CXL memory on Linux. Almost everything they do is a sequence
of reads and writes of kernel objects (sysfs attributes, ioctls, mappings of a
raw device) that other actors change at the same time: the kernel drivers,
udev, the system administrator, a second invocation of the tool, a power
failure. This project models those sequences and what they promise.

## Parts of the system

| Part | Source | Modules |
|------|--------|---------|
| BTT check and repair (`ndctl check-namespace`) | `ndctl/check.c` | `BttArena`, `SectorStore`, `BttArenaProofs`, `MCBttWrites`, `MCBttFaults` |
| Namespace lifecycle (enable, disable, create, destroy, check, clear-errors, info blocks) | `ndctl/namespace.c`, `ndctl/check.c`, `ndctl/lib/libndctl.c` | `Namespace`, `MCNamespace` |
| BTT info blocks: discovery and recovery over several arenas | `ndctl/check.c` | planned, 1 |
| DIMM labels (index blocks, validate, init, zero, read, write) | `ndctl/lib/dimm.c`, `ndctl/dimm.c` | planned, 2 |
| DIMM firmware update and activation | `ndctl/dimm.c`, `ndctl/bus.c`, `ndctl/lib/firmware.c` | `FirmwareUpdate`, `FirmwareUpdateProofs`, `MCFirmwareUpdate` |
| DIMM security, keys, overwrite | `ndctl/keys.c`, `ndctl/load-keys.c`, `ndctl/lib/dimm.c` | planned, 3 |
| Scrub of a bus | `ndctl/bus.c`, `ndctl/lib/libndctl.c`, `ndctl/lib/ars.c` | planned, 4 |
| daxctl devices and memory | `daxctl/device.c`, `daxctl/lib/libdaxctl.c` | planned, 5 |
| CXL regions | `cxl/region.c`, `cxl/lib/libcxl.c` | planned, 6 |
| CXL memory devices | `cxl/memdev.c`, `cxl/lib/libcxl.c` | planned, 7 |
| `ndctl monitor` | `ndctl/monitor.c` | planned, 8 |
| Error injection, badblock list | `ndctl/inject-error.c`, `ndctl/lib/inject.c` | planned, 9 |
| Region enable and disable; CXL ports and buses | `ndctl/region.c`, `cxl/port.c`, `cxl/bus.c` | planned, as compositions |
| `cxl monitor` | `cxl/monitor.c`, `util/event_trace.c` | no: one loop around libtracefs |
| libndctl, libcxl, libdaxctl object model | `*/lib/lib*.c` | no: parsing of sysfs and accessors, except the operations above |
| DSM back ends | `ndctl/lib/{intel,hpe1,msft,hyperv,papr,nfit}.c` | no: layouts of ioctl buffers |
| ACPI splitting, model migration, SMART and CXL injection | `daxctl/acpi.c`, `daxctl/migrate.c`, `ndctl/inject-smart.c`, `cxl/inject-error.c` | no: one pass, one write |
| Lists, filters, JSON, options, dispatch, built-in tests | the rest | no: text in and out |

`PROJECT.json` lists the parts with their files and, under `hazards`, the lines
where each can go wrong.

The parts meet at three places. A namespace in sector mode is a BTT: what
`Namespace` treats as one raw window of `check-namespace` is the whole of
`BttArena`. `ndctl_namespace_disable_safe()` is what region disable and
destroy are made of. A devdax namespace is a daxctl device, whose memory must
be offline before it is disabled.

## BTT check and repair

### The system

A BTT (block translation table) gives a persistent memory namespace atomic
sectors. An arena of it holds, on media, a *map* from logical to internal
blocks, a *log* with one group of four slots for each of `nfree` lanes, the
data blocks, an *info block* and its copy at the end of the arena (*info2*). A
write goes to the free block of a lane; the log entry `(lba, old_map, new_map,
seq)` is stored next, then the map entry. After a power failure the newest log
entry of a lane says whether the map entry is still missing.

`ndctl check-namespace` opens the namespace in raw mode and exclusively, finds
the arenas, deduces which two of the four slots are in use (old kernels use 0
and 2, kernels from 4.15 on 0 and 1), checks the log and the map, with
`--repair` stores the missing map entries and a bad info2, checks that map and
lanes divide the internal blocks among them, and with `--rewrite-log` rewrites
every group as a fresh one.

### The model

`BttArena` has the media as the variables `map`, `log`, `data`, `info`,
`info2`; the kernel driver as `kern` and `lanes`; the checker as `chk` (step,
lane, options, remembered error, result) and `log_index`. A step of the checker
is a stretch of its code with at most one store to media, so a power failure
(`Crash`) falls between any two stores. The driver is not in the repository
and is marked external: three actions for the three stores of a write,
`KernelFlog` under the lock of the map entry, and recovery when it attaches.

`log_set_indices()` is a loop with five pieces of state; `LogIndex(lg, s)` is
the relation it computes. `btt_log_get_old()` keeps its comparison of sequence
numbers that run 1, 2, 3, 1. `btt_check_log_entries()` keeps the order of its
tests, because the first one decides which error is reported.

Environment and its limits:

* Power failure and SIGBUS at every step; an msync in `btt_map_write()` that
  fails, in which case the store may or may not have reached the media and the
  loop over the lanes goes on; an msync in `btt_copy_to_info2()`, or a read,
  write or fsync of an info block in `btt_discover_arenas()`, that fails and
  ends the check, with the block on media or not.
* `btt_rewrite_log()` stores the groups in lane order and never calls msync, so
  `RewriteLog` lets them reach the media in any order: an interruption leaves
  any set of lanes rewritten, and `RewriteDone` waits until all are. A group
  store that is torn (`RewriteTorn`) may leave a log nothing can recover, which
  the code announces to the user, so it counts as a fault.
* Media faults: any one map entry or log slot replaced by one of the entries
  listed in `MCBttFaults`, a wiped info block or copy.
* The driver attaches only to metadata no fault has touched since a check
  returned 0, and to a log whose newest entries have a sequence number. A log
  whose newest entry has sequence number 0 passes `btt_check_log_entries()`;
  what a driver makes of it is not this program's behaviour.
* Flag bits in a log entry's `old_map`, which a driver sets for a block that
  was trimmed or had an error, are not modelled.

`SectorStore` is the abstract specification: sectors change only by a commit
of a value announced before. `ImplementsSectorStore` maps a sector to the data
of the block the map names, and an announced value to a pending log entry.

### Runs

| Run | Bounds | Shows |
|-----|--------|-------|
| `btt_writes` | 2 blocks, 2 lanes, 1 value, 3 writes, no fault | `TrustedPartition`, `RepairRestores`, `PendingIsLogged`, `CheckTerminates` |
| `btt_atomic` | as above, 2 values, 2 writes | `ImplementsSectorStore` |
| `btt_faults` | 1 write, 1 fault | `TypeOK`, `TrustedPartition`, `RepairedNeedsNoRepair`, `CheckOnlyReads` |

Two lanes and two logical blocks give both conflicts that exist: two lanes
writing one block, and a block freed by one lane reused by the other. Three
writes let one lane go through the wrap of its sequence number. The bound on
faults is one since trust is defined as "no fault since the last clean check":
more faults in a row reach nothing that one fault of a larger set would not.

`CheckTerminates` assumes weak fairness of the checker. Once
`namespace_check()` has the device open it runs loops over lanes and blocks and
waits for nobody.

`RepairRestores` speaks of checks with `--repair` only. The comment at
`ndctl/check.c:605` says the bitmap test follows `btt_check_log_map()` so that
pending log updates "have been performed" and it gives no false positive;
without `--repair` `btt_map_write()` reports and returns 0, and an arena with an
interrupted write is reported as a bitmap error.

### Proofs

`BttArenaProofs` proves for every number of blocks, lanes, values, writes and
faults:

* `TypeCorrect`: `Spec => []TypeOK`;
* `TrustedIsPartition`: `Spec => []TrustedPartition`;
* `PendingAreLogged`: `Spec => []PendingIsLogged`;
* `RepairIsComplete`: `Spec => []RepairedNeedsNoRepair`;
* `NoRepairNoStore`: `Spec => CheckOnlyReads`;
* `RepairRecovers`: `Spec => []RepairRestores`;
* `AtomicSectors`: `Spec => ImplementsSectorStore`, when `MaxFaults = 0`.

`TrustedPartition` is not inductive: while a write is between its stores the
partition depends on what the log says about it, and the check establishes it
only step by step. The invariant is `IInv == TypeOK /\ MetaInv /\ KernInv /\
CheckInv`.

* `MetaInv`: when the metadata is trusted, and while the checker rewrites the
  log, the slots in use are where `log_index` says and the metadata is *good*.
  With `Ents` the newest entry of each lane and `Look` the map, `Good(Ents,
  Look)` says that the blocks `Look` names and the lanes' free blocks are a
  partition, that entries are in bounds, and that no two lanes have a pending
  write to the same sector.
* `KernInv`: the driver is attached only to trusted metadata, with the checker
  idle and newest sequence numbers that are not 0; lanes are idle otherwise; a
  lane has logged its write exactly when its entry is pending, and then the
  entry is about the sector the lane writes.
* `CheckInv`: what the checker's position has established: the slots in use
  once the log entries are looked at, their bounds from the map check on, the
  bounds of the map from the log/map check on.

The lemmas `RollForwardGood`, `FlogGood`, `BitmapGood` and `SameGood` say what
each kind of store does to *good*; `FlogGroup`, `FreshGroupRead`, `IndexChange`
and `IndexLayout` what it does to the reading of a group. The assumptions are
those of `BttArena` on its constants.

`RepairInv` adds to `IInv` what the stages of a repair have settled: the info
block is good once the slots are looked for, its copy from the bitmap test on,
and nothing is pending once that test has passed, because the block a pending
entry would replace is in the map and free at the same time (`FullIsSettled`).
`RecoverInv` is about an arena
without faults: its metadata is good all along (`Lived`), so each test of the
checker passes, and the lemmas `IndexExists`, `GoodPasses` and `GoodIsFull` say
so of the slots, the log and map tests and the bitmap. `AtomicSectors` shows
that each step of the arena is a commit, an announcement or a withdrawal of
`SectorStore`, or leaves its variables alone (`StepKinds`). It needs
`MaxFaults = 0`, as the run does: a media fault changes what a sector reads as.

Termination is model-checked only: it needs fairness, which this prover does
not handle.

## Namespace lifecycle

### The system

A namespace is a range of persistent memory. The kernel binds it to one of its
personalities: raw, or a btt, pfn (fsdax) or dax (devdax) that *claims* it. On
media there is a label (class, size), absent for a legacy namespace, and an
info block that makes the kernel's probe choose the personality. The tool
changes them by sysfs writes, each of which may fail, and for the info block by
a *raw window*: raw mode on, enable, exclusive open, read or write, raw mode
off, disable.

### The model

`Namespace` has one namespace with its label, info block, claim, raw mode and
enabled state, the filesystem or system-ram use of its device, the badblocks,
and one running command with its options and position. `Start` chooses a
command and applies the checks it makes before its first call; every further
action is one call that changes kernel or media state together with the code up
to the next such call. A call may fail (`MaxFails`), and `Kill` ends the
command between any two calls. `Mount`, `Umount`, `OnlineRam` and `Poison` are
other actors. `DisableSafe` keeps the exclusive open until `Invalidate` is done.

The media are `info`, what the place of the info block holds, and `info2`,
whether a copy of a BTT info block is at the end. The work in the raw window is
an action for each command: `ZeroInfo`, `ReadInfoblock`, `WriteInfoblock`, and
`CheckInfo`, which with `--repair` restores a missing info block from its copy,
in place of whatever else is there. `check --force --repair` therefore turns a
namespace that was in sector mode before, and kept its uuid, back into a btt
when it is brought up again. An info block names the uuid of its namespace:
`SetLabel` writes either the old uuid (`KeepUuid`, `--uuid`) or a new one
(`NewUuid`), after which neither the probe nor `btt_info_verify()` takes the
old block for one of this namespace.

What the kernel does is not in the repository. The model assumes: the probe
takes the class from the info block, unless raw mode is on or the label's class
forbids it (`Probe`); a seed of one class cannot claim a namespace of another;
a size of 0 is refused while the namespace is claimed or enabled.

The model leaves out read-only regions, enabling labels on a legacy region,
sizes and alignments (`reconfigure` is without `--size`), several namespaces
and the loop over `all`, two commands at once, allocation failures, and what a
filesystem writes to a raw device or over the copy of an info block. The info
blocks of all personalities are taken to be at one place (a BTT 2.0 block is at
offset 0, the others at 4K). `--rewrite-log` is part of `BttArena` only.

### Runs

| Run | Bounds | Shows |
|-----|--------|-------|
| `ns_labelled` | 2 failed calls or kills | `TypeOK`, `CheckIsTransparent`, `RefusedIsUntouched`, `DestroyedIsGone`, `SoundBetweenCommands`, `DaxRecovers`, `MountSurvives` |
| `ns_legacy` | no label, 1 failed call or kill | `RefusedIsUntouched`, `DestroyedIsGone` |
| `ns_recover_sector` | one failed call, sector mode | `CreateRecovers` is violated |
| `ns_mount_race` | no failure, mounts in the raw window | `MountSurvives` is violated |
| `ns_clear` | one failed call | `ClearedMeansClear` is violated |

Two failures are enough for a failure during the recovery from a failure, and
for a command that starts from what a killed one left. Without labels there is
less to recover and one is enough. Deadlock is checked in every run.

Some of the properties carry a condition without which they are false of the
code, and which the runs made explicit:

* `MountSurvives` speaks of commands none of whose calls failed.
  `disable_safe()` ignores the result of `disable_invalidate()`: the unbind
  fails, the exclusive open is closed, a mount succeeds, and the command goes on
  to pull the device. It also excludes mounts in the raw window, which
  `ns_mount_race` shows.
* `CheckIsTransparent` speaks of checks none of whose calls failed, on a
  namespace that would come up again as what it is enabled as. Raw mode may be
  on, left by a command that was killed: the check leaves it on. With
  `--repair` it may change one thing, the missing info block of a btt, and then
  an enabled namespace is brought up as what it is now.
* `RefusedIsUntouched` speaks of commands that start from a sound state, not
  raw: after a kill raw mode may still be on, and a command that finds it so
  turns it off even when it ends with `EBUSY` later.
* `DestroyedIsGone` says of every destroy reported as done, whatever calls of
  it failed, that no label is gone while the namespace is enabled or claimed:
  `Delete` is refused then, which is what makes ignoring the result of
  `disable_invalidate()` harmless. That the rest is gone as well (raw mode,
  class, info block) is said of a destroy none of whose own calls failed. When
  the open in `zero_info_block()` fails rc is still 0, documented at
  `ndctl/namespace.c:1054` as "Successfully cleared the info block", and a
  legacy namespace counts as destroyed with its info block in place; when the
  read fails, an uninitialised buffer decides.

`DaxRecovers` is `CreateRecovers` where `setup_namespace()` makes a pfn or dax
device, for one failed call. Where it makes none (raw mode, and fsdax on a legacy
namespace with `--map=mem`, see `do_setup_pfn`) a stale info block brings up the
personality it names, which `setup_namespace()` takes for an error it cannot
clean up after; in sector mode see `ns_recover_sector`.

`clear-errors` enables a namespace that was disabled before; this is what the
code does and no property forbids it.

Nothing about `Namespace` is proved yet.

## DIMM firmware update and activation

### The system

`ndctl update-firmware` uploads one file to each of several DIMMs in turn. A
start command opens a context in the device, sends carry the file in chunks, a
finish has the device verify what it got, a query is repeated until it says how
that ended or a time limit is reached. A DIMM that is busy with another upload
is refused, or with `--force` aborted and tried again, three times in all. An
updated DIMM is armed for activation; arming one DIMM more than the platform
can activate is undone. `ndctl activate-firmware` forbids platform idling,
activates what is armed and allows idling again.

### The model

`FirmwareUpdate` has for each DIMM the context its device holds (`dev`: who
opened it and the chunks received), the armed DIMMs, the noidle attribute, the
position `f_pos` of the one open file, and the running command `cmd` with the
DIMM at work. An action is one command to a device with the code up to the next
one; a send is one chunk. `took` is a history variable: the DIMMs that accepted
what was last sent to them. The device is external: it has one context, rejects
a command of a context that is not open, and accepts the whole image only.
`Other` and `OtherEnd` are a second process that updates the same DIMMs or
aborts our upload. Each command may fail and `Kill` may end the tool between
any two (`MaxFails`). A time limit is a number of queries (`MaxQueries`).

Left out: DIMMs without support for updates or activation (a call that fails
stands for them), the methods of activation, a file that changes while it is
read or whose size is not a multiple of the send length, and an allocation
failure before a chunk is read. A start or a finish whose submission fails may
have taken effect all the same; a failed send leads to an abort either way.
A running scrub is a refusal that may always happen without `--force`.

### Runs

| Run | Bounds | Shows |
|-----|--------|-------|
| `fw_upload` | 2 DIMMs, 2 chunks, 3 steps of the other process, 2 failures | `TypeOK`, `FinishedIsWhole`, `OthersSurvive`, `ForcedReclaims`, `QueryIsConclusive`, `CommandEnds` |
| `fw_arm` | 2 DIMMs, 1 may be armed, 1 failure | `OverflowIsTransient`, `IdleRestored` |
| `fw_counted` | 1 failure | `CountedIsUpdated` is violated |
| `fw_rewind` | 1 failure | `SendStartsAtBeginning` is violated |

Two DIMMs are what it takes for one upload to disturb the next, two chunks for
a file left in its middle, three steps of the other process for three attempts
that all find the DIMM busy. DIMMs are symmetric in the runs that check
invariants only. `CommandEnds` assumes weak fairness of the tool's own steps: it
waits for a device only by repeating a query, and its clock goes on.
`OverflowIsTransient` is about commands without `--force`.

When all three attempts find the DIMM busy `update_firmware()` goes on to send
data although `uctx->start` is NULL, and the tool dies of it: `SendFirmware` and
`Abort` end the command there. `CommandEnds` counts this as an end;
`ForcedReclaims` says that it takes another process, or a call that fails, to
get there.

A context may stay open in a device after the tool has ended: after a kill, an
abort that failed, a start that failed to say it took effect, or a finish that
the device rejects, for `submit_finish_firmware()` then returns what the
submission returned, the query fails and nothing aborts. `ForcedReclaims` is
what makes this bearable. A later update with `--force` that nobody disturbs
(`Undisturbed`: no other process has a context when it starts, and no call
fails and no other process acts until it ends) leaves each DIMM with an image
it accepted or is still verifying. Without `--force` such a DIMM is refused.

### Proofs

`FirmwareUpdateProofs` proves for any set of DIMMs and any size of the image:

* `TypeCorrect`: `Spec => []TypeOK`;
* `FinishedHasImage`: `Spec => []FinishedIsWhole`;
* `OthersAreLeftAlone`: `Spec => OthersSurvive`;
* `ForcedUpdatesReclaim`: `Spec => ForcedReclaims`.

`FinishedIsWhole` is worth a proof because the file is not always at its
beginning when an upload starts (`fw_rewind`). It holds all the same: `IInv`
says that an open context of ours holds as many chunks as were sent, the last
ones read (`SentIsRead`), and that no more were sent than read. All chunks sent
then means that the reading began at the first. `OthersSurvive` rests on
`ForcedAbort`: the step that aborts a context in the way is only reached with
`--force`. `ForcedReclaims` is about a whole command, so its invariant `RInv`
follows an undisturbed forced update through its positions: the DIMMs it is
through with are updated or finishing, the context of the DIMM at work is its
own from the start to the finish, the file is at the chunk sent last, and the
start is tried again at most once, since nobody opens a context after the
abort. The assumptions are those on the constants.

## Disagreements between code and documentation

Each is a run with `expect: violation` and an entry under `findings`.

* `ns_recover_sector`: a failed creation is cleaned up, except when a btt does
  not come up: it keeps its claim, so the label cannot be deleted.
* `ns_mount_race`: a mounted namespace is not destroyed, except when the mount
  comes while `zero_info_block()` has it enabled.
* `ns_clear`: `clear-errors` succeeds with badblocks left, when clearing one of
  them failed and the enable after it did not.
* `fw_counted`: a DIMM whose upload failed and was aborted counts as updated.
* `fw_rewind`: the file is not rewound after a failed upload; the next DIMM's
  upload starts in its middle and fails.

## Plan

1. `BttInfo`: `btt_discover_arenas()`, `btt_info_verify()` and the three
   attempts of `btt_recover_first_sb()` over two arenas, composed with a wiped
   or damaged block at each place. Recovery never returns an info block of
   another arena; a repaired chain is found again.
2. `LabelIndex`: two index blocks, `inc_seq()`, `best_seq()`,
   `label_validate()`, `init_labels()` with a crash between its writes, and
   the kernel's own update of the blocks. The abstract specification is one
   atomic register; refinement is model-checked, and proved for the choice of
   the current block.
3. `DimmKeys`: keyring, blob files and the DIMM's passphrase under setup,
   update, remove, erase and overwrite with failures and crashes. Whatever
   happens a key file for the current passphrase exists.
4. `Scrub`: the wait loop against a kernel that finishes at any time; no lost
   wakeup under fairness, and the countdown of the time limit.
5. `DaxMemory`: memory blocks onlined one by one against another agent; a
   device is not unbound with memory online, and blocks end in the zone asked
   for. Composed with `Namespace`'s `OnlineRam`.
6. `CxlRegion`: decoders, DPA and targets of create, enable, disable, destroy
   with a failure at each call; a failed create leaves no allocation.
7. `CxlMemdev`: reserve, free, partition arithmetic with its widths, disable
   against regions.
8. `Monitor`: the epoll loop; every health event of a selected DIMM is
   reported.
9. `BadblockList`: `bb_add_record()` against a set of blocks, with recursive
    functions; injection that stops half way.

Proofs to follow: `TypeOK`, `SoundBetweenCommands` and `MountSurvives` of
`Namespace`; `OverflowIsTransient` of `FirmwareUpdate`; the safety invariants of 2, 3 and 5, where a proof covers any number
of blocks, files or DIMMs. Bounds for 1 to 9 are two devices, two blocks each
and one or two failures, which is where the conflicts named above first occur.
