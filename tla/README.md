# A verification project for NanoChronometer

TLA+ models of the parts of NanoChronometer whose correctness rests on order:
what is on disk when the power goes, who still refers to a block that is about
to be freed, what a bit that flipped in memory may have been copied into, what
the next caller finds where the last one was stopped, whose answer a wait on a
shared ring is given. The models are checked
with TLC on small instances; the central results are proved with TLAPS for
every instance. `PROJECT.json` maps every definition to the lines it models.

All paths below are relative to `src/`; `core/` stands for
`crates/nanochrono-core/src/` and `metal/` for `crates/nanochrono-baremetal/src/`.

## 1. Inventory

NanoChronometer is a high-resolution timing system of about 114,000 lines of
Rust: a `no_std` core crate; a bare-metal kernel with a desktop, drivers and
user programs; front ends (FFI, CLI, GUI, Android, benchmarks); Linux and
Windows kernel drivers; and tools for its filesystem and its packages.

| component | state it keeps | operations | interacts with | what is hard | what makes it correct |
|---|---|---|---|---|---|
| package transaction `core/ncpkg/{manager,journal,fs}.rs` | files, `db.json`, `db.json.new`, journal, lock, stage, backups | lock, recover, execute, undo, finish | planner (a plan in), a filesystem (`Fs`), perhaps NCFS | power cut or error between any two filesystem calls, recovery included | a transaction happens whole or not at all; recovery ends; nothing is left behind |
| package database, planner `core/ncpkg/{db,manager}.rs` | packages, libraries with users and counts | install, upgrade, downgrade, remove, recount | transaction (plan out) | long sequences of legal operations; shared copies; `--force` | counts, users and disk agree; every user gets a version it accepts; a plan can be executed |
| package formats `core/ncpkg/{meta,sig,version,path,...}.rs` | none | parse, verify, compare | planner | hostile or odd input | parsers, tested directly |
| NCFS commit `core/ncfs/{write,read,format}.rs`, `tools/ncfs/src/dev.rs` | two superblocks, trees, reference counts, free, fresh and pinned blocks | open, store, release, commit | block device | the device reorders, drops and tears writes | a power cut leaves a whole commit; the last commit's blocks are never overwritten |
| NCFS sharing `core/ncfs/write.rs` | reference counts, dedup index, subvolumes | write, drop, snapshot, delete, roll back, reopen | commit | shared nodes and extents, full volume | counts are exact; subvolumes are isolated |
| NCFS files `core/ncfs/write.rs` | sizes, buffered windows, dirty bytes, window read last, extents | write, read, truncate, unlink, flush | sharing, commit | a flush that fails half-way; tails of cut windows; a stale decoded window | a byte reads as it was last written |
| NCFS checker, seals, package volumes `core/ncfs/{check,seal,pkgfs}.rs` | none beyond the volume | walk, seal, map `Fs` calls | writer, transaction | | section 5 |
| protected words `core/redundancy.rs` | value, check byte, two replicas | new, set, verify, vote | space mode, timers | several flips between two checks | one flip is corrected, two are repaired or reported |
| timers and space mode `core/space_mode.rs`, `metal/gui_frame.rs` | protected words, mode, latch, scrub time | toggle, lap, reset, adjust, draw, scrub | protected words, counter, screen | flips between any two operations | nothing wrong is stored as good; damage is repaired in time; a loss is reported |
| page allocator `core/frames.rs`, `metal/palloc.rs` | table of free ranges, bytes dropped, bytes in use | add, reserve, alloc, free | drivers, surfaces, frame buffer | table full; overlapping map entries; wrong lengths | no memory has two owners; losses are counted |
| random number generator `core/rng/`, `metal/rng.rs` | pool state, jitter state, XDRBG, key, nonce, events, busy flag | start, self-test, fill, stir, wipe, recover | jitter, RDSEED, embedder, plugins | a source fails in mid-seed; a fault stops the caller | output from a credited, fresh seed; a key serves once; failure is final |
| xHCI, USB storage `metal/{xhci,usb_storage}.rs` | command, event and transfer rings with cycle bits | commands, transfers, polling | keyboard, mouse, stick, crash dump | time-outs with late answers; one event ring for all devices | an answer is matched with its question; rings are never overrun |
| power confirmation, re-probe `core/{power_confirm,reprobe,hypervisor}.rs` | code, window, misses, lockout; last probe, cooldown | request, digit, cancel, tick; probe, switch | four screens; threads; clock | late digits, a new request during a lockout; a clock read before the lock | only the code carries out an action; wrong codes cost more and more time; probes are paced |
| core stopwatch, clocks `core/{stopwatch,context,clock,kvmclock,...}.rs` | accumulated ticks, calibration | start, stop, lap, read | counter, hypervisor | seqlock of kvmclock, counter moving between cores | readings never go back |
| driver framework `metal/ncdri.rs` | modules, drivers, devices, windows, DMA runs | load, main, register, probe, attach, fail, release | page allocator, drivers | a main or an attach that fails half-way; full tables; indices used again | who is held is there; every run taken has an owner that gives it back |
| plugins and system calls `metal/{ncplu,ring3}.rs`, `core/nccall/` | header, arena length, granted capabilities, context, user pages, heap map, flags | load, card, call, mmap, end, contain | shell, desktop, random pool | a plugin that is refused, cancelled or stopped by a fault, and what the next one finds | a call reaches only what was granted and the plugin's own memory; the reported reason is the true one |
| input `metal/{input,kbd,i2c_hid,...}.rs` | key state, queues | poll | xHCI, I2C, 8042 | release events of a serial keyboard | no key stays down |
| crash dumps `metal/{crashdump,panic}.rs` | storage tier, dump | write | xHCI, USB storage | a panic inside a transfer | the dump never makes it worse |
| desktop, shell, boot, interrupts, probing, codecs, front ends, kernel drivers, tools | | | | drawing, straight-line or pure code | listed with reasons in `PROJECT.json` |

The hazards behind the fourth and fifth columns are listed, each at its line, in
`PROJECT.json`; every property below is there because of one of them.

## 2. Modules

| module | models | abstract specification | theorems |
|---|---|---|---|
| `NcpkgTx` | a transaction, one action per mutation of `Fs`, and recovery | `NcpkgAtomic` | `NcpkgTxProofs` |
| `NcpkgDb` | planner and database; a plan takes effect in one step | | `StoresProofs` |
| `NcfsCommit` | blocks, superblocks, barriers, loss of power and of the writer | `NcfsAtomic` | `NcfsCommitProofs` |
| `NcfsRefs` | trees, extents, snapshots, deduplication; a commit is one step | `NcfsSubvols` | `StoresProofs` |
| `NcfsFiles` | the bytes of files: buffered windows, extents, holes, truncation | a sequence of bytes, as `FilesTrue` | `StoresProofs` |
| `Redundancy` | the code, the replicas and the vote, bit by bit | | `KernelProofs` |
| `SpaceTimers` | stopwatch, timer, scrub policy over protected words | | `SpaceTimersProofs` |
| `Frames` | the page allocator | | `KernelProofs` |
| `RngPool` | the entropy pool and its kernel side | | `RngPoolProofs` |
| `Rings` | a ring shared by driver and controller: cycle bits, link, both cursors | | |
| `Xhci` | enumeration of the ports and polling, over `Rings` | a queue, as `RingsInOrder` | `UsbProofs` |
| `UsbDump` | bulk transport, block access, `CRASH.DMP` and the dump, over `Rings` | | `UsbProofs` |
| `PowerConfirm` | the confirmation policy and the four screens that use it | | `KernelProofs` |
| `Reprobe` | the cooldown of the hypervisor probe, and the threads that race for it | | `KernelProofs` |
| `Ncdri` | driver modules, drivers, devices and what they hold | | `NcdriProofs`, `KernelProofs` |
| `Plugins` | plugins of both tiers from load to end, and the calls they make | | `KernelProofs` |

The instances TLC checks are the `MC` modules. `MCNcpkgTx`, `MCNcfsCommit`,
`MCSpaceTimers` and `MCRngPool` give one module its constants;
`MCNcpkgReplace` lets the first choose between two kinds of plan. `MCStores`
(`NcpkgDb`, `NcfsRefs`, `NcfsFiles`), `MCKernel` (`Frames`, `Redundancy`, `PowerConfirm`,
`Reprobe`, `Ncdri`, `Plugins`) and `MCUsb` (`Xhci`, `UsbDump`) hold several parts
that share no variable. A behaviour of these is a behaviour of one part, chosen
at the start, while the others stay in their first state: every behaviour of
every part is checked, and none of their products, which would say nothing more.

Operators whose name begins with `Mut` are plausible mistakes; putting one in
the place of the definition it follows makes TLC report the property named in
`PROJECT.json`. Names are the source's where TLA+ allows it.

**NcpkgTx.** Variables for what is durable (`files`, `dirs`, `stage`, `backup`,
`journal`, `tmp`, `db`, `next`, `lock`) and for what the process holds (`pc`,
`todo`, `j`, `ndb`, `ctx`). `Begin` is `lock`, `Recover` is `ncpkg recover`,
`RecoverLocked` to `Decide` are `recover_locked`, then `Undo*`/`Finish*`;
`StageDirs` to `Commit` are `execute`. `Crash` may strike before each action and
inside a create (`TornCreate`), `Fault` makes a call fail without effect,
`LateError` makes a replace fail after its rename took effect. Contents are model values; paths
in one journal group may be handled in any order, which covers the plan's order.

**NcpkgDb.** Versions are numbers, requirements sets of versions. `Install` and
`Remove` are the planner (`PlanInstall`, `PlanRemove`: admission, version rule,
release of the old references, the choice between sharing, replacing and
keeping private, conflicts) followed by the transaction as one step.

**NcfsCommit.** `queued` and `newSb` are the writes since the last barrier; a
`PowerCut` keeps, drops or tears each one. `Store`, `Release`, `BeginCommit`,
`FlushTrees`, `WriteSuper`, `FlushSuper` are the code's order; `StoreFails`,
`CommitFails`, `SuperFails` its errors; `Kill` loses the writer and not the cache.

**NcfsRefs.** The writer `w` is a record of trees in memory and on disk,
counts, free, fresh and pinned sets and the dedup index. Each operation returns
the writer it leaves, or fails for want of space at the allocation that fails,
keeping what was done up to there, as the code does. Outside a commit an error of
the device does not stop the writer either: a block that could not be written
(`WriteFails`), or an extent that is stored and finds its root or leaf unreadable
(`LinkFails`), stays counted with nothing pointing at it until the next mount counts
afresh. `leaked` is the history of these. The code counts one pointer
at a time; here `Pointers` is the set of all of them and `Release` takes several
away at once, which comes to the same since no order among them is visible.
`Committed` says where the nodes in memory go (`Place`) and what is written there
(`Content`), rather than in which order the code visits them.

**NcfsFiles.** `Write`, `Read`, `Lengthen` and `Shorten` (the two halves of
`truncate`), `Destroy`, `Commit` and `Reopen` over the map of buffered windows,
the window decoded last and the extents. A flush takes all windows and stops at
the first it cannot store. `truth` is what each file was given, `lost` the
windows a failed flush dropped.

**Redundancy.** A copy is the set of its one bits. `Decode` is the whole
decoder, its syndrome the set of the parities that differ, so that flips in
data, parities and overall parity are all covered.

**SpaceTimers.** A protected word is its good value, the flipped bits and
whether the replicas agree; `truth` is what it would hold without flips.
`Frame` is one iteration of the run loop: scrub if due, read, draw. A benchmark that
was asked for (`AskBench`, `Toggle` on its tab) runs inside the iteration, after the
clock was read and before the scrub is decided by that reading: `RunBench` begins
such an iteration, keys wait and time passes meanwhile, and its `Frame` then scrubs by
the clock as it was (`looked`) and draws by the clock as it is. `waived` is the
history of a reset of the stopwatch that cleared the latch.

**Frames.** `Insert` and `Remove` are the table's two primitives, with the
overflow rule; `Add`, `Reserve`, `Alloc`, `Free` the callers'. `FreeWrong` is a
free whose length is not the allocated one.

**RngPool.** A call is a sequence of steps (`Selftest`, `StartJitter`,
`CollectJitter`, `Sources`, `Condition`, `Rekey`, `Round`, `GenerateTrue` or
`FoldEvents`/`GenerateFast`/`Erase`), since `Abort` (`recover_after_abort`) may
stop it between any two. A seed is the number of bits credited to it. `Abort`
is the kernel's, the embedder's source the hosted library's: the model has
both, so it covers each.

**Rings.** Entries with a cycle bit, a producer's and a consumer's cursor. The
last entry is the link, past which both sides use the other bit. The producer
never looks where the consumer is: that it does not overrun it has to follow
from how the driver uses the ring.

**Xhci.** `Driver` is `bring_up` port by port (`NextPort`, `Issue`, `Answer`,
`Skip`, `GiveUp`, `Unit`) and the polling after it (`Poll`, `DrainEvent`,
`TakeReport`); `Controller` takes commands, control transfers and interrupt
reads from the rings when it likes and posts events. Every wait is a bounded
spin, so the driver may go on without an answer that still comes (`GiveUp`); the
next wait may then meet it. A control transfer is one entry here.

**UsbDump.** A command block with its tag, a data stage and a status, each
waited for on the event ring. A command works on a copy of the
stick's slot and stores it back at the end, so `Panic`, which enters the
controller again for the dump, may find buffers in use and the slot as it was
before. Keys that are pressed post events on the same ring (`HidReport`). The
blocks of the file come from the chain in the FAT, found at boot.

**PowerConfirm.** `Ask`, `Digit`, `WalkAway`, `Frame` and `Tick` on four
screens. The classic interface and the stop screen carry out what the policy
returns; desktop and shell keep the action they asked for in a variable of their
own, which is where the two can part. `Renew` is another screen that takes over with
a policy of its own: a terminal opened again, a session switched, the machine stopped.

**Reprobe.** Each thread goes through `cached`, `latest` or `reprobe` step by
step: the clock is read before the gate is locked and the detection runs after
it is released, so time and other threads may come between. `Switch` is the
switch that lifts the cooldown.

**Ncdri.** Loading a module (`Enter`, `MainOk`, `MainFails`), the services a
driver calls from main, probe and attach, and the offer of each device to each
driver (`Offer`, `Probe`, `Choose`, `AttachOk`, `AttachFails`). Tables are
bounded and slots are used again; a failure releases what the code releases.

**Plugins.** `Load`, then the launch card (`Cancel`, `Confirm`); while the
plugin runs, `Serve` and `Answer` are a system call with its check of the
capability and of the memory named, `Mmap` and `Munmap` the heap. It ends at a
call (`EndedRing3`), at a fault (`ContainRing3`, `ContainKernel`), at the stack
protector, or by returning (`Finish`); a fault the kernel does not contain is
`Crash`. Everything the code resets is reset where the code does it, so what a
plugin leaves behind is there for the next one.

## 3. Runs

| run | what it asks | bounds, and why they are enough |
|---|---|---|
| `ncpkg_tx` | a transaction is atomic (`Atomicity`), leaves nothing behind (`NoLeftovers`), its undo is never stuck (`UndoCanProceed`) and recovery ends (`Recovers`) | two files in one directory the installer makes and removes, two contents, two transactions (a second one meets what the first left); plans that add and remove with three troubles (an error, a crash in the undo it starts, a crash in the recovery of that), plans that replace with one (with two, `ncpkg_tx_undo_twice`) |
| `stores` | packages: `DbCheck`, `NeedsMet`, `DiskMatches`, `EveryPlanExecutable`; volume: `RefsExact`, `Isolation`; files: `FilesTrue` | packages: five ids over two libraries, chosen so that each branch of the choice (share, replace, private, conflict) and each refusal occurs, and stray files; all sequences, since the state space is finite. Volume: two positions, three subvolumes (a snapshot of a snapshot), ten blocks (full during the longer behaviours), five operations, one block leaked by failed writes between two mounts (`MaxLeaks`): it stays counted among those that are shared, freed and committed. Files: two files of up to two windows of two bytes, so that the end falls into a window or between two; a flush after three bytes; five operations: write, commit, shorten, commit, lengthen brings a tail back if anything does |
| `ncfs_commit` | mountable (`CanMount`), the last commit untouched, blocks accounted, atomicity | three blocks: one committed, one being replaced, one to spare or to run out of; three generations use both slots and return to the first; blocks and contents are symmetric |
| `space_timers` | nothing wrong is banked (`BankedTrusted`), damage that can be repaired is gone by the first frame whose clock reads a scrub interval after it was done (`ScrubbedInTime`), Emergency exact (`EmergencyReadsExact`) | words of two bits, strikes of up to two bits, scrub interval of one; two sessions on the stopwatch and one on the timer with two strikes each (a word beyond repair, or two words) at one word or several, over two or three instants, so that a strike meets every key, the interval and the end of Emergency; one on timer, clock and benchmarks with one strike and three instants, so that a benchmark outlasts an interval; one between stopwatch and timer with one strike and two instants, enough for a loss that is latched, cleared on the other instrument and then banked |
| `rng_pool` | output credited and fresh, keys serve once, failure final (`OutOfService`), calls return (`Completes`) | a seed of three RDSEED words or two and the embedder's source; one retune; an interval that is no multiple of the chunk; three nonces, so that they run out; buffers of none, one and two chunks |
| `kernel` | memory never shared and losses counted (`NeverShared`, `Accounted`) | a table of two ranges, so that it overflows; three map entries, unaligned bases and lengths, a ceiling inside a page, one wrong free |
| | a flipped word is repaired or reported (`FlipsNeverBelieved`, `RepairsWhole`) | three data bits, all parities, a syndrome that names nothing; four flips: two in the working copy and one in each replica |
| | only the code carries out an action, guesses cost time (`OnlyByCode`, `GuessesSlow`) | codes of two digits of two, a window of two, lockouts of one to three: they double, reach the maximum and outlast the window; screens that replace each other without a bound |
| | detections are paced (`ProbesPaced`) | two threads, a cooldown of two in a time of six, the switch used once |
| | who is held is there, runs have an owner (`HoldersLive`, `RunsOwned`) | tables of two, so that each fills up and its slots are used again; two driver files, three devices, four runs |
| | calls stay within the grant, reasons are true (`WithinGrants`, `ReasonTrue`) | three capabilities (a call without a buffer, one that reads a buffer, one that writes it from the random pool), arenas of one and two, a heap of two pages; plugins of both tiers one after another, without a bound |
| `usb` | slots come back (`SlotsReturned`), what is queued is waited for (`QueuedIsPending`), rings are taken in order (`RingsInOrder`) | two ports, so that a device index is used again; rings of six entries, which wrap; one late answer and one error; two reports |
| | a dump that is reported is on the stick (`DumpTrue`), only the blocks of the file change (`OnlyCrashFile`), waits end (`WaitsEnd`) | a whole chain, a fragmented one and a short one; dumps of two blocks, two reads before it, two late answers, one error, two input devices |

`kernel`, `usb` and `plugins_cancelled` switch the deadlock check off: with
nothing left to allocate, to attach or to dump in the bounded instance, or with
the machine stopped or restarted, there is nothing to do.

**Fairness.** `ncpkg_tx` assumes that a process that runs goes on running and
that somebody runs `recover` after a crash (`WF(Step)`, `WF(Recover)`). The
first is what "no crash" means, the second is what the package manager itself
does at the start of every command; the troubles are bounded, so it is not
assumed that they stop. `rng_pool` assumes that a call goes on (`WF(Step)`): the
kernel has one thread and masks interrupts. No fairness is assumed of the
sources; that calls return rests on the bound of the oversampling rate. `usb`
assumes that the driver goes on, since each of its waits is a bounded spin, and
that controller and stick go on taking what they were given; it does not assume
that they do so before the driver gives up.

### Disagreements between the code and what is said of it

Five runs expect TLC to find a violation.

- `ncpkg_tx_first_install`: before the first install there is no `db.json`. A
  crash after `db.json.new` is written is taken for a replace cut in two,
  `recover_locked` promotes it and runs `finish`, which deletes the stage: the
  database then records files that were never placed.
- `ncpkg_tx_undo_twice`: undo of an upgrade puts the old file back and then
  removes the stage. After a crash between the two, the second undo sees the
  destination present and the stage entry gone, takes the old file for a placed
  one, moves it to the stage and deletes it.
- `ncfs_reopen`: `Writer::open` takes a superblock that is in the page cache for
  durable. After the loss of a writer between superblock and barrier, the next
  one reuses the blocks of the previous commit; a power cut can then leave no
  commit whole.
- `usb_dump_lost`: `wait_event` takes the transfer event of any slot for the
  answer it waits for. A key pressed while the dump is written completes the
  keyboard's read on the same ring; the dump is given up although the stick
  answered everything in time.
- `plugins_cancelled`: `ncplu::run` calls `ring3::prepare` before it places the
  plugin and shows the card, and undoes it neither when placing fails nor when
  the user cancels. The arena length that is left makes `plugin_owns` check the
  next plugin of the kernel tier against the memory of a ring-3 one.

Others were met while modelling. Those down to *A wrong length* can be seen
by changing a constant, a line of a cfg, or the conjunct that is named; the rest were
read off the code.

- *Late error of the journal rename.* With `Overlap = TRUE` and
  `LateErrors = TRUE`, `UndoCanProceed` fails: `StdFs::replace` renames and then
  syncs the directory; if the sync fails, the journal is there although
  `write_atomic` reports an error, `execute` removes the stage, and every later
  recovery fails to put a file into it. The comment in `execute` says a failure
  there "only needs that directory gone".
- *A global copy is downgraded.* `NeverDowngraded` of `NcpkgDb`, on `stores`: the only user
  of a library, upgraded to a version with an older copy of it, replaces the
  global one. `docs/NCPKG.md` says a global copy is never downgraded by an install.
- *A failed flush loses what was acknowledged.* `FilesTrue` without `lost`:
  `flush_windows` takes every buffered window and returns at the first it cannot
  store. Those after it are gone, those of other files too; a window that was
  only cut in memory is back with its tail, which a longer size then shows. If a
  write met the error and not a commit, the writer goes on, and the next commit
  succeeds without them.
- *A timer expires early.* `ExpiredAtZero`, with `target_ns` struck in a timer
  session: `remaining_ns` compares plain loads, scrubs afterwards and does not
  compare again.
- *A flipped target is re-encoded.* `TargetTrusted`, in the same session:
  `adjust` loads the target without verifying it and stores the sum. The policy
  of `space_mode.rs` asks for a check at every transition that stores a value.
- *One latch for two instruments.* `BankedTrusted` without `waived`: `Z` on the
  stopwatch clears the latch whichever instrument lost a value, with the comment
  that "the damaged state is gone" (gui_frame.rs:1562); the timer's is still there,
  and a pause of the timer banks it with nothing reported.
- *A benchmark holds up the scrub.* `ScrubbedInTime` with `drawn` for `looked`: a
  frame decides the scrub by the clock it read before it ran a benchmark
  (gui_frame.rs:1345, 1377, 1390). After a long run that decision may come out
  against a scrub that has become due; the next frame makes up for it. Unless the
  frame happens to scrub, repairable damage can so outlive its interval by as long as
  the benchmark ran.
- *A failed write leaks space.* `RefsExact` without `leaked`: `store_region` counts the
  block before it writes it, and gives it back neither when the device refuses nor
  when the tree cannot be changed afterwards (write.rs:1867-1871, 1817). The next
  mount frees it.
- *A new screen forgets the misses.* `GuessesSlow` says what it says of one screen.
  Each shell, desktop and classic session makes its own policy, so whoever closes a
  terminal and opens another one (`Alt-F4`, `Ctrl-Alt-T`: keys a script has too), or
  switches the session, starts with no miss and no lockout.
  `power_confirm.rs:14-17` says that the lockouts make walking through the codes
  blind take "hours rather than seconds". `Renew` without its resets of `streak` and
  `due` shows it.
- *A wrong length is not refused.* `NeverShared` without its proviso:
  `Frames::free` accepts every page-aligned run that overlaps no free memory, so
  a length that is too large frees a neighbour. `palloc::free` says the wrong
  length returns `false`.
- *A permanent jitter failure.* `core/rng/mod.rs` says that it takes the pool
  out of service; `reseed` records it only if no other source can credit the
  seed, and otherwise goes on degraded (`CollectJitter`, `Sources`).
- *Faults that are never contained.* `ncplu.rs` says at line 1407 that NMI,
  double fault and machine check are never contained; `ring3::contain` contains
  whatever vector arrives while ring 3 runs.
- *USB.* `configure_endpoint` gives the interrupt endpoint the ring's base, which
  a device index that is used again finds with the entries of the last device; a
  stalled interrupt endpoint is armed again and never reset; the late completion
  of one command can answer the next; a chain that loops makes the dump write
  some blocks twice.
- *Drivers.* Windows and DMA runs a probe took are kept when nobody offers or
  the softc cannot be had. Unregistering a driver that has offered, from the
  probe of another, leaves the winner without an attach. `index_of` says a stale
  handle "is refused, not followed"; a slot that was used again is followed. A
  device that is being probed names driver 0, so unregistering driver 0 is
  refused with `EBUSY`. `docs/NCDRI.md` says a failed attach gets back even what
  the driver forgot to undo; memory and mutexes are not taken back.
- *Re-probing.* The gate bounds how many detections there are in a stretch of
  time, and `ProbesPaced` says that. Two of them may be closer than the cooldown,
  since each begins after its lock is released, and the older one may store
  its result last.

## 4. Proofs

| theorem | assumes | states |
|---|---|---|
| `NcpkgTxProofs!TypeCorrect` | | types, every instance |
| `NothingLeft` | | `NoLeftovers` of `ncpkg_tx`, for every instance: upgrades and systems without a database included |
| `FilesNeverLost`, `UndoNeverStuck`, `ParentsAlwaysExist`, `Atomic` | `~Fresh`, `Overlap => MaxTroubles <= 1 /\ ~LateErrors` | the other safety properties of `ncpkg_tx`, what they rest on, and the refinement of `NcpkgAtomic`, for any paths, directories, contents and transactions, and any number of troubles if plans replace no file |
| `StoresProofs!DbAlwaysChecks`, `NeedsAlwaysMet`, `DiskAlwaysMatches`, `PlansAlwaysExecutable` | `ManifestsConsistent` | `DbCheck`, `NeedsMet`, `DiskMatches`, `EveryPlanExecutable` of `stores`, for any catalogue, policy and sequence of operations |
| `StoresProofs!RefsAlwaysExact` | `StoresConstants` | `RefsExact` of `stores`, for any number of blocks, positions, contents, subvolumes and operations |
| `SubvolumesIsolated` | `StoresConstants` | `Isolation` of `stores`, the refinement of `NcfsSubvols`, for the same |
| `StoresProofs!FilesAlwaysTrue` | `StoresConstants` | `FilesTrue` of `stores`, for any window, size, flush limit, writes and number of operations |
| `NcfsCommitProofs!TypeCorrect` | | types |
| `AlwaysMounts`, `NeverOverwritten`, `SpaceSound`, `CommitAtomic` | `ReopenUnflushed = "no"` | the properties of `ncfs_commit` and the refinement of `NcfsAtomic`, for any volume and any number of commits |
| `RngPoolProofs!TypeCorrect`, `OutputAlwaysCredited`, `SeedAlwaysFresh`, `KeysServeOnce`, `NeverPartial`, `FailureIsFinal` | `RngAssumption` | for any seed size, credits, interval, chunk and number of nonces |
| `SpaceTimersProofs!AlwaysScrubbed`, `ReadoutsExact`, `NothingBadBanked` | `SpaceAssumption` | `ScrubbedInTime`, `EmergencyReadsExact` and `BankedTrusted`, for any width, calibration, interval, laps, sessions and number of strikes |
| `KernelProofs!WordNeverMisread`, `RepairsAlwaysWhole` | `KernelConstants` | `FlipsNeverBelieved` and `RepairsWhole` of `kernel`, for every codeword that seven parities can number and any number of flips |
| `CodeBeforeAction`, `GuessesPaced` | `KernelConstants` | `OnlyByCode`, `GuessesSlow`, for any digits, code length, window and lockouts, and any number of screens one after another |
| `ProbesAlwaysPaced` | `KernelConstants` | `ProbesPaced`, for any set of threads, cooldown and use of the switch |
| `PluginsWithinGrants`, `PluginReasonsTrue` | `KernelConstants` | `WithinGrants`, `ReasonTrue`, for any capabilities, arenas and heap, and any number of plugins one after another |
| `NcdriProofs!HoldersAlwaysLive`, `EveryRunOwned`; `KernelProofs!KernelHoldersLive`, `KernelRunsOwned` | `NcdriConstants`; `KernelConstants` | `HoldersLive`, `RunsOwned`, for any size of the tables, any files, devices and descriptors |
| `RangesApart`, `MemoryNeverShared`, `MemoryAccounted` | `FramesAssumption` | `NeverShared` and `Accounted` of `kernel`, for any table, page size, ceiling and map |
| `UsbProofs!EventsTakenInOrder` | `XhciAssumption` | the event ring's part of `RingsInOrder`, for a ring of any length and any number of late answers |
| `CommandsTakenInOrder` | `XhciAssumption`, `MaxLate + 2 <= RING_LEN` | the command ring's safety part of `RingsInOrder`, for a ring of any length that is longer than what may lag on it |
| `SlotsAlwaysReturned` | `XhciAssumption` | `SlotsReturned` of `usb`, for any number of ports, slots, devices and refusals |
| `QueuedAlwaysPending` | `XhciAssumption`, `RING_LEN > 10` | `QueuedIsPending` of `usb`, for any number of ports, slots, devices, refusals and reports, and a transfer ring longer than what may lag on it |
| `DumpAlwaysTrue`, `OnlyCrashFileWritten` | `DumpAssumption` | `DumpTrue` and `OnlyCrashFile` of `usb`, for any FAT in which no cluster is reached twice, any length of the dump and of the rings, and any number of late answers, errors and reports |

These assumptions exclude what section 3 lists as disagreements: `~Fresh` (a
database exists) and `Overlap => MaxTroubles <= 1 /\ ~LateErrors` (plans that
replace files meet one trouble and no late error: what the replacing half of
`ncpkg_tx` checks; the other half has no such bound); `ReopenUnflushed = "no"` (no
writer reopens over an unflushed superblock).
`ManifestsConsistent` is what `Meta::parse` makes sure of before the planner sees
a manifest: a copy that is shipped is one the package itself accepts, and a
library shares what it ships. The others say what kind of thing the constants
are (windows and sizes are positive, writes are not empty, map entries lie in
the address space, rings have two entries or more). All but
the Boolean switches are named in the modules and evaluated by TLC in the runs.

**NcpkgTx.** The property speaks of moments without a journal; the invariant
must say what is true with one. `Control` says what the process knows at each
`pc` (loops run over what the journal lists, the stage is complete before
anything moves); the second part says, for every file, where its old and its
new content are, before and after the commit, and that recovery's question "is
`last_tx` mine" has the right answer. A replaced file is in two of three places:
its new content staged and its old one in place, or set aside, or set aside with
the new one placed. This is how undo tells how far the steps got (`Undoable`), and
it is only true while nothing of the stage is removed before the undo has ended;
hence `Interrupted`, which says that the one trouble allowed is spent by then. The
refinement maps an interrupted
transaction to what recovery will leave (`ShownFiles`, `ShownDirs`), so that
each step but the commit is a stutter. `NothingLeft` needs much less, and so
holds where atomicity does not: `Swept` says that `db.json.new` and the
transaction's directory go before the journal does.

**NcpkgDb.** `Registered` and `Counted` say that users and uses of a shared copy
name each other; `Apart` that no two packages own a path. What the planner needs
beyond them is `Provided`: the provider of a copy is one of its users, so
that removing it finds the library among those it uses. The four theorems are
about the same invariant, since a plan is right only for a table that is.

**NcfsFiles.** A byte past the end of a file must read as zero when the file is
lengthened later, so the invariant is about whole windows: each, as buffered or as
stored, matches its file byte by byte and is zero past the end (`Reads`). The
window decoded last is that of the tree (`LastTrue`), and the same is kept of
what the last commit made durable (`SyncedTrue`), which the next mount finds.

**NcfsRefs.** That the counts are exact is not inductive: a node on disk counts
its pointers once, however many point at it, so a step is only right about them if
the trees are what it takes them for. `Shaped` says so: every pointer leads to a
block of the kind that belongs there, and no block is a root here and a leaf
there. `Sound` adds the tables and the counts, with room for one extent that is
stored and not yet in a tree, and for those a failed write left so (`leaked`); each primitive keeps it, and an operation is a
sequence of these: each lemma compares the pointers before and after (which ones
go, which ones come), and the number of those that name a block follows. A commit
moves every node from memory to a block, so it maps pointers to pointers one to
one. `SavedSound` says the same of what the superblock leads to: none of those
blocks is free or written since, so `Reopen` finds a volume as good as the one that
was lost. The last part of `VolumeInv`, that a volume without changes has no fresh
blocks, is what makes a commit of nothing right.

The refinement of `NcfsSubvols` rests on the same invariant. `Holds` is what a
position reads, wherever its leaf and its root are; each primitive keeps all of it
(`SameFiles`) but `Replace`, which changes one position (`FileBecomes`), and this
is where sharing could go wrong: a block that is written must be nobody's, which is
what the exact counts say. `SavedKept` says that a mount finds the same after any
write, since what it reads is neither free nor fresh. `VolumeReads` lists what a step can
be to a reader, and `VolumeReadsImplement` maps each case to an action of the abstract
specification: a rollback to a stutter, a mount to the loss of what was not
committed, and the first commit of a snapshot or a deletion that then fails to a
commit.

**NcfsCommit.** `Safe` says where each generation is: the durable best slot
names blocks that hold their contents and that no queued write touches; the
slot being written is the other one; a queued superblock's blocks are durable.
Two lemmas carry the argument: `NewestWins` (the barrier makes the new
superblock the best) and `TornSlotHarmless` (a torn one leaves the old best).

**RngPool.** The properties speak of the moment output is made. `Stages` says
what each earlier step leaves behind (a seed that is being conditioned has its
credit, and the jitter source in it where that is required); `Generator` that a
pool holds a generator and a key only while both go back to such a seed, that a
ready pool has both, and that a key that has served is only there until it is
erased; `Counters` that the code's count and the history agree and that used
nonces are behind the counter. An abort keeps all three by erasing generator
and key, and for no other reason: `MutAbort` breaks `KeyServesOnce`.

**SpaceTimers.** `Paced` says that the last frame drawn read its clock less than an
interval after the last scrub and that damage that can be repaired was done since
that scrub; the property about damage and frames follows. `Kept` says that what the
stopwatch holds is right or a loss is latched. `SpentKept` says the same of the
timer as long as no reset of the stopwatch has taken a reported loss back
(`waived`); only the steps that put `spent` to zero end that, and they make it right.

**Redundancy.** Nothing is assumed of the flips, so the invariant is only that
the copies are words. The weight is in the lemmas about the code: one flip
changes the overall parity and names itself, two leave the parity and not the
syndrome, since no two positions are the same binary number.

**PowerConfirm.** `Typed` ties the policy's pending request to the prompt that
is shown: the digits counted are the keys pressed since it came up and the
beginning of its code, and a screen that keeps its own copy of the action keeps
the same one. `Paced` says that what a run of wrong codes has cost so far is
behind the lockout, and that no prompt comes up before the lockout is over.

**Reprobe.** `FirstProbe` says who may initialise the cache and that everybody
past the clock finds it done; `Clocks` that a time somebody read lies between
the first probe and now, though others may have read the clock since. `Paid`
counts the detections begun and those granted and still to begin against the
last grant: a thread held up between gate and probe has paid already.

**Plugins.** `PluginSetup` says what each stage of `run` has set up for the tier
of the plugin, `PluginCall` that a call being served was checked against that,
`PluginReason` that the flags read at the end are this plugin's, whatever an
earlier one of the other tier left in the others.

**Ncdri.** `Places` says what may be there at each phase: no device while
modules load, nothing held by a device that is being probed, a best offer of a
driver that is registered. With it `HoldersLive` and `RunsOwned` are inductive;
the failures keep them because they release by owner, whatever was taken.

**Frames.** The ranges, the runs handed out and the reservations are proper
intervals and apart. `MergedApart`, `InsertSound` and `RemoveSound` say what the
two primitives do to any interval outside them; every action is an instance.
For the account, `Lost` is the memory that is neither free, handed out nor
reserved; each primitive adds at most as many bytes to it as to `dropped`.

**Xhci.** `EventQueue` says that the entries between the two cursors are the
events not taken yet, numbered from the one after the last, and that their cycle
bits are the ones the driver looks for; `PostKeeps` and `ConsumeKeeps` are the
two ends. `CommandRing` says the same of the commands, with a last entry that is
kept for the link and a producer that does not look at the consumer: `PutKeeps`
needs a place that is free, `TakeKeeps` is the controller's end. That there is a
place is `LateInv`: the commands not taken and the answers not taken are no more
than the waits that ended too early, and one more during a wait. Each early end
leaves at most one command behind, so `MaxLate` of them fit if
`MaxLate + 2 <= RING_LEN`. The code has rings of 16 entries and no bound on the
waits: the theorem covers up to 14 that end too early. `LateInv` itself needs the
bound, as TLC shows for `RING_LEN = 4` and `MaxLate = 3`, where the producer
catches up with a controller that has taken nothing. `ScanInv` is about the time
in which nothing was given up on too early: `Placed` says, by where the driver
is, which slot beyond those of the devices kept is enabled: none, the one in
hand, or, while a command is on its way, what the one answer under way will say
(`Asked`, `Answered`). A wait for a command that ends without an answer ended
too early, since the command or its answer was there.

`PollInv` is about the same time and the rings of the devices. The interrupt
endpoint begins at the base of a ring that the control endpoint has used, so
what it finds there first are the requests of the enumeration, with the cycle
bit of the first pass: `Held` and `Spare` say how many requests the ring of the
device in hand has, those of an earlier device at the same index included.
`Behind` says how far the endpoint lags: four requests, one more for every
completion of the control endpoint that was drained as if it were a read's (at
most five), and the read itself. A ring longer than these ten entries never has
its producer catch up with its consumer. The code has 16; on one of 5 with enough
reports TLC finds a read that is queued and never heard of.

**UsbDump.** The two rings of the stick are queues in the sense of the command
ring (`RingPut`, `RingTake`), but the driver's cursors may be those of the copy a
command works on or those from before it, as the fault finds them. `WritesOwn`
and `FollowsFat` are enough for `OnlyCrashFile`. For `DumpTrue`, `Tagged` and
`Reading` say that the status a read accepts is that of its own command, since
an entry left behind by one that failed is taken for an earlier tag; `Stepping`
that as long as nothing failed driver and stick are in step. The dump starts from
one of three places: in step (`Fresh`), or after a read cut short whose command
the stick has not taken (`Back`) or has (`Gone`). `Course` follows a write from
each: it is in step (`Writes`), or the ring in has too few entries for its status
to come (`ShortIn`, `Starved`), or the stick stalls at a command left over
(`Stalls`). Only the first can be reported as written, and by then the blocks are
in the file (`Dumped`).

**MCKernel, MCStores, MCUsb.** Each part's steps leave the variables of the others
alone, so what is inductive for a part is an invariant of the composition; for
the drivers the composition implements `Ncdri` (`DriversRefine`), whose theorems
then hold of it. `FramesRefine` and `ScanRefine` do the same for the page allocator
and for the scan of the USB ports. So every theorem about these runs is about the
specification that the run checks. `MCNcpkgReplace` chooses between two instances
of `NcpkgTx`, and the theorems hold of both.

**Model-checked only.**

- Liveness: `Recovers`, `Completes`, `WaitsEnd`, and that every command is carried
  out in `RingsInOrder`, are outside the prover's reach.
- Every safety property of the passing runs is stated by a theorem, under the
  assumptions of the table. These hold in the runs, but for the length of the ring
  in `QueuedAlwaysPending`: `usb` has shorter rings, so that they wrap, and fewer
  reports.

## 5. Two models that meet

`core/ncfs/pkgfs.rs` gives the package manager an NCFS volume for its `Fs`:
`create` and `sync` commit the volume; `rename`, `replace`, removals and
directory operations are batched into the next commit. By `NcfsCommit` a crash
returns the volume to its last commit. So after a crash the package manager
finds the state of `NcpkgTx` as it was at some earlier mutation, the last one
that committed, never a mixture. The states a crash leaves on NCFS are therefore
a subset of the prefixes of the sequence of mutations, and `NcpkgTx` allows a
crash after every prefix.

Batching only makes some of these prefixes impossible; it never reorders. The
journal's own `replace` is committed by the creation of `db.json.new` and the
`sync` after it, before the first step (manager.rs:718-719); the steps by the
`sync` before the database replace (726), and that replace by the `sync` after
it, before the clean-up (729). The undo and the clean-up sync before and after
dropping the journal. This argument is made here in words; a module that
composes the two models is planned.

## 6. Not modelled

Parsers, codecs, hashes, ciphers and statistics are functions of one input and
are tested against vectors. Drawing, layout and wording keep no state a property
could be about. Firmware tables and CPU probing run once. The front ends are
thin layers over the core.

Inside the modelled parts:

- NCFS: node splits, directories, times and modes of inodes; errors of the device
  while a snapshot or a deletion changes the tree of subvolumes or takes a tree apart,
  while nodes are rebalanced, and between the change of an item and the release of
  what it replaced. Each leaves blocks counted that nothing points at, like the ones
  modelled. ncpkg: the confirmation prompt and messages.
- Timers: what a benchmark measures, and its report. While it runs the model lets
  time pass and bits flip.
- Random numbers: counters and flags that are only displayed; health-test
  cutoffs, whose verdicts are nondeterministic here.
- USB: reset, ownership and scratchpads of the controller, descriptors, the
  directory of the FAT volume, the text of the dump.
- Drivers: register access, mutexes, the screen a driver sets up.
- Plugins: the format and the signature of a file, the assembly of the trap, the
  boot self-test that borrows ring 3; `vfs.rs`.
- Power confirmation: several terminals at once, each with a policy of its own; a
  behaviour follows one screen and then the next. The count of misses saturates at 2^32 in the code and is
  bounded by the clock here. Re-probing: the bare-metal variant of
  `hypervisor.rs`, which has one thread.

## 7. Plan

1. `NcpkgOnNcfs`: the composition of section 5.
2. `Kvmclock` and the core stopwatch: the seqlock, readings that do not go back.
3. `vfs.rs`: handles of user programs; the key release queue of the serial
   keyboard; the perf events of the Linux driver, read while they are rebuilt.
4. `Ncdri` composed with `Frames`, the DMA runs being runs of the allocator.
5. Proofs: `QueuedAlwaysPending` for shorter rings and a bound on the reports.
