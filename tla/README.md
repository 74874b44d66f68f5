# TLA+ models of the Xen components in this repository

The repository holds twenty files: components of Xen and Mini-OS, cut down to
single files and annotated for the VCC verifier. VCC looks at one function at
a time, from annotations that assume thread locality. The modules here look at
what that leaves out: several threads, CPUs or vCPUs at once, sequences of calls,
failures half way, and what must eventually happen.

## 1. The system

### Inventory

| component (file) | state | operations | what is hard | correct means |
|---|---|---|---|---|
| Mini-OS locks (`lock_verified.c`) | `busy`; `owner`, `count`; the CPU's interrupt flag | init, acquire, try_acquire, release, plain and recursive | preemption between test and set; `count` changed with interrupts on; spinning | mutual exclusion, exact nesting count, caller's interrupt flag restored, progress |
| 8259A driver (`irq_verified.c`) | `cached_irq_mask`, `i8259A_lock`, `irq_trigger`; the controllers' mask, in-service, trigger and register-select state | enable, disable, pending, mask, unmask, mask-and-ack, end, init, suspend, resume | several CPUs, load and write of a mask byte, shared register selection, a disable racing a handler | the controller ends up with the mask the cache says; a disabled line stays masked; the right register is read |
| Per-CPU areas (`percpu_verified.c`) | `__per_cpu_offset`, one `free_info` | init/free area, RCU callback, hotplug notifier | deferred frees, failed or cancelled bring-up, parking | running and parked CPUs own an area; nothing leaks; removed CPUs' areas are reclaimed |
| VM events (`vm_event_verified.c`) | per vCPU: `arch_vm_event` (pending writes, emulation flags and data), single-step, next-interrupt flags; per domain: `mem_access_emulate_each_rep` | init/cleanup domain, register write resume, emulate check, toggles, segment register packing | repeated or late answers, several events per exit, allocation failing half way | denied writes are not made, others are; data a monitor supplied is used; no NULL or leaked structure |
| Monitor domctl (`monitor_verified.c`) | `d->arch.monitor` settings, MSR bitmaps | init/cleanup, one request per event kind | early returns while the domain is paused; settings written one by one | the domain is unpaused on every path; settings change as a whole; requests have the effect their result says |
| FPU, extended state (`i387_verified.c`, `xstate_verified.c`) | per vCPU: dirtied/initialised/nonlazy flags, save area; CR0.TS; `xcr0` | lazy/eager restore, save, init, destroy, XSETBV checks | one register file shared by all vCPUs over many context switches | no vCPU ever computes with another's registers; dirty state is saved before it is lost |
| Microcode (`intel_verified.c`, `microcode_amd_verified.c`) | cached patch per CPU, the update buffer and an offset in it | scan container, match, sanity check, apply, resume | lengths read from the buffer being scanned, replacement of a cached patch | the scan ends; the newest matching patch is kept and applied; nothing freed is used |
| NUMA tables (`srat_verified.c`) | proximity-domain to node map, node memory ranges, hot-plug mask | SRAT/SLIT entries, lookup, coverage, conflicts | table entries in any order, node 0 used for "none" | each domain has one node; ranges do not overlap; memory is covered |
| String library (`string_verified.c`) | none | memcmp, memcpy, strncmp, strcpy, ..., ffs | signed characters, shifts of negative numbers, missing padding | each returns what its comment says |
| Platform time (`time_verified.c`) | TSC check maximum, calibration data | read counters, tsc_check master/slave, scaling | all CPUs update one maximum; counters wrap | a TSC is called reliable only if it never went back |
| Page references (`mm_verified.c`) | page type and count words, TLB-flush timestamps | get/put page type, timestamps, l1 checks | a clock that wraps, two counts in one word | flush decisions never miss a stale mapping |
| Local APIC (`apic_verified.c`) | APIC registers | LVT set-up, version and mode queries | order of register writes | as the manual prescribes |
| Trace (`trace_verified.c`) | per-call record | format and emit records | none left | layout |
| QEMU map cache (`mapcache_verified.c`) | bucket size | size round-up | arithmetic | size covers request |
| Mini-OS threads (`sched_verified.c`) | stack of a new thread | create thread | none left | stack layout |
| GDB stub (`gdbstub_verified.c`, `gdstub.c`) | register frames | copy registers | none left | order of registers |

### Interaction

The files do not call each other: each was extracted with the declarations it
needs and empty stand-ins for the rest. What a component meets at run time is
therefore outside the repository, and the models contain an explicit
environment, marked external in `PROJECT.json`: callers of the locks, the
interrupt flag and scheduler of Mini-OS, the 8259A chips and the generic interrupt
code, the hotplug core with RCU and the heap, the trap code, event ring and
pausing of vCPUs, and the switching of vCPUs between CPUs. The environment does what the functions expect of it and no
less: it interleaves freely, repeats answers and gives them any flags, runs callbacks late, cancels, lets allocations fail.
The recursive lock and the FPU exist in two layers: the code, and the abstract `Mutex` or
`RegisterFiles` it implements.

## 2. Modules

| module | models | state and actions |
|---|---|---|
| `Mutex` | what the recursive lock promises | `depth[t]`; `Enter`, `Leave` |
| `LocalIrq` | interrupt flag of one CPU (external) | `irqOff` names the thread that runs with interrupts masked, and so cannot be preempted; `flags[t]` is the local a thread saved the flag in |
| `PlainLock` | `___lock_*` (lines 47-151) | one action per statement that reads or writes shared state; `pc[t]` says which is next |
| `RecursiveLock` | `___lock_*_recursive` (156-266) | the same, `count++` and `--count` as a load and a store; `BUG_ON` leads to the control point `bug` |
| `MCLocks` | | both locks for TLC |
| `I8259A`, `MCI8259A` | `irq_verified.c` (76-434) | sets of lines stand for masks; per CPU a record with the control point, the function, the loaded byte; a mask byte is loaded (`LoadByte`) and written (`OutByte`) in two steps |
| `Percpu` | `percpu_verified.c` | `__per_cpu_offset`, `heap`, the single `f` (`free_info`), `queued`, the number of callbacks RCU has still to run; one action per hotplug event and one for the callback |
| `VmEvent` | `vm_event_verified.c` (262-516) | one action per turn of the init and cleanup loops (the call is part of the first turn, the return of the last), per function called for an answer, and per step of the external vCPU (`Trap`, `Stop`, `Resume`) |
| `SegmentRegister` | `vm_event_verified.c` (519-658) | `seg`, the register fetched last as hardware, hypervisor and monitor see it; attributes are sets of flags, limits keep their 20 and 32 bits |
| `Monitor` | `monitor_verified.c` (264-685) | one action per statement of `arch_monitor_domctl_event`; the seven events with one setting share actions |
| `MCVmEvent` | | the three above for TLC |
| `RegisterFiles` | what the FPU code promises | a register file per vCPU; `Write`, `Read`, `Create` |
| `Fpu` | `i387_verified.c` (49-270), `set_xcr0` | per CPU: `cur`, `ts`, `regs`, `xen`; per vCPU: save area and the two flags; the functions are called by the external switches, traps and Xen's own use of the FPU; `File` maps to `RegisterFiles`: a dirty vCPU's registers are in the CPU it runs on, else in its save area |
| `MicrocodeIntel` | `intel_verified.c` (133-512) | per request: `size`, `offset`, `mc`, `matched`, and `buf`, the headers read so far (an offset read again holds what it held); one action per function the scan calls |
| `AmdContainer` | `container_fast_forward` (572-608 of `microcode_amd_verified.c`) | one action per turn of the loop; sizes wrap at `Width` bits; a header is read at `HeaderAt`, four times the offset |
| `MCCpus` | | microcode of both vendors, per-CPU areas and FPU for TLC |
| `NumaMap` | `srat_verified.c` (127-208, 264-277, 324-406, 634-648) | `pxm2node`, `nodes_found`, `acpi_numa`; `setup_node` and the rejection of the SRAT are actions, the lookups operators |
| `NumaRanges` | `srat_verified.c` (210-262, 480-523) | `cutoff_node` and `conflicting_memblks` as operators on ranges; `ranges`, a table filled with any of them; `cover`, the locals of `nodes_cover_memory`: one action per entry of the memory map, per pass and per node |
| `MiniOsString` | `string_verified.c` | a memory of bytes; one operator per function, one turn of its loop per recursive call; the callers pick any arguments that meet the functions' preconditions |
| `MCStringNuma` | | the three above for TLC |
| `PlainLockProofs`, `RecursiveLockProofs`, `I8259AProofs`, `PercpuProofs`, `MonitorProofs`, `VmEventProofs` (with the segments), `FpuProofs`, `FirmwareProofs` (microcode of both vendors, NUMA map and ranges) | | inductive invariants and theorems |

The modules put together in an `MC` module share no state. Its variable `part` chooses, at the start of each
behaviour, whose behaviour it is; the others stay as they were initialised.

History variables (`caller`, `held`, `drifted`, `atSuspend`, `overlapped`, `asked`, `denied`, `leftover`, `supplied`,
`settled`, `reply`, `event`, and `ram` and `full` of `cover`) record what a property compares
with; no guard that models code reads them, only guards of the environment do
(`held` of the lock's callers, `asked` of the trap code). Definitions headed
"Mutant" are plausible mistakes in the definition that follows them; they are not
part of any specification, and each makes TLC report the property named with it
in `PROJECT.json`.

Choices that need a word:

* `NR_CPUS` is 1 and `park_offline_cpus` is 1 in the annotated
  `percpu_verified.c`; both are parameters of `Percpu`, as in Xen.
* Stand-ins without a body or with a body that cannot be meant
  (`local_irq_save`, `domain_pause`, `xzalloc_array`, which always returns 0) are
  modelled by what their callers rely on; the outcome of the stand-in is always among
  those of the model. `unlikely` in `monitor_verified.c` has no return
  statement, so the two checks that use it may go either way.
* `monitor_ctrlreg_bitmask` is declared with a `bool` parameter, so CR3, CR4 and
  XCR0 share a bit of the three control register settings. The model keeps this.
* `___lock_init_recursive` leaves `count` as it was. The constant `InitCounts` says what it may hold: with zeroed
  memory the properties hold, and `recursive_lock_uninit` shows what another value does to the lock.
* `malloc` in `vm_event_init_domain` leaves whatever was there (line 309; the `xzalloc` in line 308 is a comment).
  The constant `Fresh` is the set of contents a new structure may have, without restriction. Bits left in `do_write`
  look like trapped writes; `leftover` keeps track of them, and `vm_event_malloc` shows that a vCPU makes writes it never
  asked for. After its first exit a vCPU's structure is as if it had been zeroed.
* Nothing in `vm_event_verified.c` checks that the flags of an answer fit its event. Answers come with any flags in
  `AnswerFlags`, to any event that is open, and again to register writes answered before, any number of times. What is kept
  is therefore stated from the monitor's side: `supplied` is the data that came with the answer in force, and
  `EmulDataKept` says that it is there and announced until it is replaced or used. An answer may announce
  data it does not supply; the union then holds something else, and nothing here promises more.
* RCU runs a callback any time after it was queued. Nothing in `percpu_verified.c` waits for it: a CPU may
  come back, and others may go, while frees are queued, and all callbacks find their CPU in one `free_info` (line 97, although
  line 70 has one per CPU). `overlapped` names the CPUs to which that happens: whose free was still queued when the CPU was
  prepared again, or when another free overwrote `free_info`. `RunningHasArea` and `Reclaimed` promise nothing to them;
  `NoLeak` is unconditional. Each CPU leaves the set when it is freed or prepared undisturbed.
* In `intel_verified.c` the allocations, the MSR accesses and the address of the table of
  extended signatures are commented out, so the code goes on with values nobody wrote. The
  model lets each be anything: memory may be missing, the revision read back may be the new
  one or not, an update with extended signatures may be refused, ignored or matched.
* `cpu_request_microcode` has lost the statement that reports an error of
  `get_next_ucode_from_buffer` (line 498: the `if` before it now guards it, and the two
  conditions exclude each other). A container that is cut short therefore counts as scanned.
* In `i387_verified.c` `XSTATE_LAZY` is 0 and the other masks are 1, and so they are in `Fpu`. The registers of a vCPU
  without nonlazy state are therefore neither saved by `xsave` nor loaded by `xrstor`, and `ASSERT(mask)` in line 208
  fails (`fpu_assert`; the model goes on with the empty mask). What the code can still keep apart are the registers of vCPUs
  with nonlazy state: `ImplementsRegisterFiles` is about those. `UsableMeansRestored` and `DirtyIsLoaded`, about
  flags and TS, are about all. `xsave` and `xrstor` are empty and are modelled as the instructions.
  `cpu_has_xsave` in `_vcpu_save_fpu` is a ghost without a value: the registers may be saved either way. Nothing in the
  file loads the registers of a vCPU with nonlazy state, although saving relies on it; `Loaded` does so when it
  enters the guest (external). `xcr0_accum` and `nonlazy_xstate_used` are only read, hence constants.
* The loops over `pxm2node` run to `sizeof(pxm2node)`, which counts bytes: beyond the table. `NumaMap`
  has `TableSize` slots; those behind `MAX_NUMNODES` stand for zeroed memory nobody else uses.
  All three affinity handlers compare the size of the header field with that of the whole entry,
  so each entry makes them call `bad_srat`; what follows is never reached and domains enter the
  table by CPU hot-add only. For the same reason the functions on ranges are checked on arbitrary
  tables.
* The inner loop of `nodes_cover_memory` runs to `memory_nodes_parsed`, a local that is declared anew in each
  pass (line 497) and never set. Each pass of the model goes through any number of nodes, up to
  the whole table; reading behind it is not modelled. RAM reported as covered is covered whatever the bounds
  were; that covered RAM is also reported so holds only if they were the table's length (`full`).
  An entry of the memory map that wraps around the address space is not among the inputs.
* `container_fast_forward` adds lengths in bytes to `*offset` and then adds `*offset` to a pointer to 32-bit words
  (line 586). Behind the first patch it looks for a header four times as far on as its counts say, which may be behind
  the file. The model keeps both: `offset` counts bytes, `HeaderAt` is where the pointer looks, and what is found there may
  be anything, the same each time one place is read.
* `memcmp`, `strncmp` and `strcmp` assign a difference of characters to a signed char. `CompareAgrees` says exactly what comes
  out, for every pair of strings: the first difference modulo 256, as a number from -128 to 127. What the
  comments say of its sign is another matter (`memcmp_order`).
* `wake_up` in the locks wakes nobody, because no function of this version
  sleeps, and is left out.

## 3. Runs

| run | module | expects | shows |
|---|---|---|---|
| `locks` | `MCLocks` | pass | plain lock, three threads: mutual exclusion, interrupt flag restored, try and release return, progress. Recursive lock, two threads, nesting two deep, zeroed `count`: the owner keeps the lock, `count` is exact, interrupt flag restored, progress, refinement of `Mutex` |
| `recursive_lock_uninit` | `RecursiveLock` | violation | a `count` nobody initialised leaves a released lock owned |
| `i8259a` | `MCI8259A` | pass | two CPUs, three lines, one suspend: see the properties in `I8259A.tla` |
| `i8259a_ack` | `I8259A` | violation | an acknowledgement masks nothing at the controller and sends no EOI, against the comment above it |
| `vm_monitor` | `MCVmEvent` | pass | two vCPUs, any memory from malloc, answers with flags that fit and that do not: writes are made as answered, structures accounted for, supplied data kept. Segments read back as they are. Requests of every kind: pauses balance, a running domain never sees half-written settings |
| `vm_event_malloc` | `MCVmEvent` | violation | a vCPU makes a register write that malloc left in its structure |
| `monitor_exists` | `Monitor` | violation | the test for EEXIST is inverted: a request is refused exactly when it would change something |
| `cpus` | `MCCpus` | pass | Intel microcode: what is applied fits and is newer; scans end where sizes exceed offsets. AMD: skipping patches ends with its counts in order, whatever is read. Areas, three CPUs, with and without parking: owned, accounted for, reclaimed. FPU, two vCPUs on two CPUs, one with nonlazy state: usable registers have been restored, dirty ones are loaded; refinement of `RegisterFiles` |
| `fpu_assert` | `Fpu` | violation | what a switch would save now has an empty mask |
| `string_numa` | `MCStringNuma` | pass | every call of every string function but `ffs` on every content of six bytes, and the range functions on every table of up to three ranges, agree with reference definitions; domains keep their nodes and nodes lead back to their domains |
| `ffs_zero_bits` | `MiniOsString` | violation | the wide find-first-set functions count one more than the trailing zeros |
| `memcmp_order` | `MiniOsString` | violation | strings whose first difference does not fit a signed char are ordered the wrong way round |

The type invariants are proved rather than checked (section 4).

### Bounds

* Threads: three for the plain lock (one inside, one spinning, one trying); two for
  the recursive lock, with two levels of nesting, so that an inner and an outer
  release both occur. The theorems have no such bound.
* 8259A: lines 5, 7 and 8 - two on one controller, so that a stale byte of one line
  can spoil the other; 7, which can be spurious; 8, on the other controller and
  reserved in the trigger register. Two CPUs are symmetric and suffice for every pair of
  accesses; the lock admits one at a time. `MaxSuspends` is one cycle.
* Per-CPU: the boot CPU and two others, the fewest whose frees can collide;
  three blocks, one more than two CPUs need, so that one may be lost and noticed; up to three callbacks at once
  (`MaxQueued`): one CPU freed twice and another in between.
* VM events: two vCPUs, the fewest for which init can fail half way; at most two
  events under way (`MaxEvents`), in one exit or in two. Of memory, one that is not zeroed in any field that matters; zeroed
  structures occur when a vCPU has resumed. Of flags, none, a denial, and emulation with either kind of data
  or with none: each fits some events and not others. The theorems hold for all sets of both.
* Monitor: CR0, and CR3 and CR4, which share a bit; an MSR with a bitmap and one
  without; masks 0 and 1.
* Strings: six bytes hold two strings of two characters, or one in another. The bytes 0 and 200, and as
  signed characters 127 and 200, differ by more than a signed char holds. Four-bit ints make both halves of the wide
  functions small.
* FPU: two CPUs, so that a vCPU can come back elsewhere; two vCPUs, of which one has nonlazy
  state; the component of `XSTATE_FP_SSE` and another, of the accumulated state only; two values, enough to tell a register's own content from
  another's.
* NUMA: four nodes and a table of five slots, with domains that have a slot of their own, none, or
  one that another domain holds; six numbers handed out, so that they run out. Ranges between the
  addresses 0 and 3, three to a table: touching, nested, overlapping, empty, in any order, and memory maps of
  any number of entries between the same addresses (the states with a history of the same RAM coincide).
* Segments: limits at the edges of 20 bits and of a page.
* AMD: ints of seven bits, with lengths just below the wrap, and bytes left around the sizes of a
  header and of a patch.
* Microcode, Intel: containers of up to three units, in which the offset can rise, stay and fall; three
  revisions, so that a match can be replaced by a newer and by an older one.

### Fairness

* Locks: strong fairness of each thread's steps. Other threads mask interrupts
  again and again, so a thread is not continuously able to run; that a thread able
  to run infinitely often does run is what Mini-OS's round-robin scheduler gives. That
  callers give the lock back and do not keep interrupts masked for ever is their obligation
  (strong fairness of `CallRelease` and `Unmask`). No fairness is assumed for
  starting calls. `Progress` says that somebody gets a wanted lock; a particular
  thread may starve, because acquire spins without a queue.
* Per-CPU: weak fairness of the RCU callback - grace periods end.
* Microcode: weak fairness of the steps of a request, Intel or AMD, which is straight-line code
  that waits for nothing. None for starting one.
* The other modules state safety only.

`MCLocks` and `MCCpus` state these conditions for the combined system: `PlainLock` and `RecursiveLock` have one per thread, the
same for both, so one condition serves whichever lock a behaviour is about.

### Deadlock

TLC checks for deadlock in every run. None of the models stops; in `string_numa`, whose tables are
bounded, `Done` marks the ends.

## 4. Proofs

All theorems hold for every value of the constants that satisfies the named
assumptions (`NoThreadAssumption`: the null thread is no thread; `CpusAssumption`,
`AreaAssumption`, `QueuedAssumption`: there is a CPU, the two special areas are not heap blocks, and the bound on callbacks is a
number;
`MasksAssumption`: 0 is a mask; `HeadersAssumption`, `RevsAssumption`,
`DefaultDataAssumption`: headers have the fields of the struct, revisions and sizes are natural
numbers; `VmEvent`: there is a vCPU, malloc leaves contents of the right type
(`FreshAssumption`) and answers have sets of flags (`FlagsAssumption`), both any; `Fpu`: the component of the source's masks is among the
components (`ComponentsAssumption`), the null vCPU is no vCPU;
`NumaMap`: the table has a slot for every node; `NumaRanges`: addresses and the size of the table are natural
numbers; `I8259A`: lines are among 0 to 15, the null CPU is no CPU; `SegmentRegister`: limits have 32 bits;
`AmdContainer`: lengths and sizes are unsigned ints of `Width` bits). Type correctness is proved
along the way: `TypeCorrect` for the locks, the 8259A, the per-CPU areas and the monitor, together with `NeverNull`,
`RestoredWhenUsable` and `NodesLeadBack`, and inside `RangesInv` and `AmdInv`.

**`PlainLockProofs`.** `MutualExclusion` is not inductive: it says nothing of
what a thread saw. `IInv` adds `SectionMasked` (between save and restore a thread
runs with interrupts masked, so at most one is there), `StillFree` (a thread that
found the lock free and has not set it still finds it free - because of the
first), `BusyIffHeld`, and `FlagsAreCallers` (the saved flag is the one the caller had).
From it follow `LockExcludes` and `LockRestoresIrq`.

**`RecursiveLockProofs`.** With `InitCounts = {0}`. The first test of `owner` and
both changes of `count` run with interrupts on, so masking alone does not carry the
proof: `OwnerAtWork` says that whoever is past the test or holds the lock is the
owner, hence nobody else writes `count`; `HeldAt` ties the control point to what
the caller has been granted; `CountExact` gives `count`, and the loaded copy of it,
at every control point. `LockOwned`, `LockCounts`, `LockFreed`, `LockRestoresIrq`
and `LockRefines` follow. `recursive_lock_uninit` shows that the hypothesis on
`InitCounts` is needed.

**`I8259AProofs`.** The lock admits one CPU (`Exclusion`), but most properties speak of what several
functions leave behind for each other. `Shape` ties, for each CPU, the control point to the function, its
line and the writes still to be made; `Phases` says that `init_8259A` runs alone at boot and nothing while suspended.
`Loaded` (a byte loaded is still the cache's: `cached_irq_mask` changes only inside the lock) and `Written` (the
controllers a function has written show the cache) give `WritesCorrect`. `Fresh` strengthens
`EnabledReachesHardware` to the moments inside a function: a controller that masks an enabled line is one that is
about to be written. `Selected` says exactly when the in-service register is selected - while
`i8259A_irq_real` reads it, on that controller only - which gives `ReadsRight`, and with `InService`
`GenuineKept`. `DescExclusive`, `EnablesEnabled` and `DisableReaches` are about the descriptors: a line marked disabled
is masked or its disable is on the way, and no enable of it is, because both hold its descriptor; hence
`DisabledMasked`. `TriggerSaved` gives `TriggerRestored`. TLC has checked the invariant on two CPUs with lines 7 and 8.

**`PercpuProofs`.** For callbacks that run at any time and any number of them. All queued callbacks are about the CPU noted last
(`Named`). `AreaSafe` says that a CPU in use is never that one, unless it is in `overlapped`; `NotBoot` and
`BootKeeps` that CPU 0 and its static area are out of it; `Distinct` that no area has two CPUs, which also makes a
free of the wrong CPU take the right block off the heap (`NoLeak`). `AreasStay` and `AreasAccounted`
follow. `AreasStay` is not about CPUs in `overlapped`, and cannot be: see "Noticed on the way".

**`MonitorProofs`.** `SettledWhileRunning` speaks of the moments when the domain is not
paused; the work is done in between. `SettledAt` says that at every statement of a
request the rest of the request completes the settings `Applied` makes of it at once,
`WrittenAt` which settings already have their final value, `RequestAt` which request is at
which statement. `PausesBalance` and `RunningSettled` follow.

**`FirmwareProofs`, Intel microcode.** `AppliesFitting` speaks of the moment before the update is written;
what it relies on happened turns of the loop, or requests, earlier. `KeptSound` says that
whatever is kept passed the check, also if its request failed later; `Examined` that the update
in hand has reached the check or passed it; `MatchedFits` that from the first match on the
update kept fits the CPU, because a later match replaces it by another that does. `FittingApplied`
follows.

**`VmEventProofs`.** For any memory from malloc and any flags. `Domain` says that events are enabled only while every vCPU has a
structure, in the middle of `vm_event_init_domain` too; `Paused` that a vCPU is paused once for each event without an
answer; `Answered` that an answer in progress is for an open event or late. `Writes` strengthens `WritesAsAnswered` to vCPUs
in the guest, whose structure may be fresh from malloc: `leftover` is then all there is to be written. `Emulation`
says of every vCPU that data in force is in the union and announced; each branch of `vm_event_emulate_check` sets
both, clears both or leaves both alone. `NeverNull`, `NeverLeaks`, `WritesRight` and `EmulationKept` follow, and
`LateAnswersDoNothing`: a denial is honoured only while `pause_count` is not 0.

**`FpuProofs`.** With the masks of the source. `OnePlace` (a vCPU runs on one CPU), `DirtyIsLoaded`
(a dirty vCPU runs, and its CPU is not used by Xen at the moment), `DirtyInitialised` and `TsWhenIdle` (a CPU
without a vCPU has TS set, so the next one traps) make `UsableMeansRestored` inductive: `RestoredWhenUsable` and
`DirtyWhereLoaded`. Both are about flags and TS; with `XSTATE_LAZY` 0 restoring transfers nothing. `NonlazyLoaded` (registers of a
vCPU with nonlazy state that will be saved without having been used hold what the save area holds) is what
`FpuRefines` needs: for vCPUs with nonlazy state, only guest accesses and the creation of a vCPU change `File`.

**`FirmwareProofs`, proximity domains.** `NodesUsed` and `NodesDistinct` (nodes in the table were handed out, and not twice)
give `NodesLeadBack`; `Placed` (a domain is in a foreign slot only if its own and all before are taken) is what `LookupsStable` needs: a new
entry never precedes the one a lookup finds.

**`FirmwareProofs`, ranges.** `CoverAgrees` compares the return value with sets of addresses, the loop only moves two
ends. `LeftOver` is the invariant of the `do` loop: every address of the entry outside what is left is covered.
`RamSoFar` says the same of the entries before; `PassSoFar` that in a pass in which nothing was found no node gone
through trims anything. When a complete pass finds nothing and something is left, its first address lies in no node -
a node that held it would have trimmed it - so 0 is the right answer (`Answered`). `CutRight` and
`ConflictRight` are about the two operators, for any table. Together they are `RangesRight`. The functions are
proved right for any number of nodes, entries and passes; that the loop ends is not part of it.

**`FirmwareProofs`, AMD containers.** `AmdInv`: offset and bytes left add up to the file, which is smaller than
`2^Width`, so the additions that could wrap do not: only the size of a patch can, and the wrapped size is both
checked and skipped. `ForwardAccounted` is the safety half of `FastForward`. It is about the counts: success is
reported at the header of a container where the pointer looked for it, which is not where the counts say. `ForwardProgress`, that
each turn takes at least the shortest patch off the bytes left, is the reason for its liveness half.

**`VmEventProofs`, segments.** Nothing is needed about the states before: `FetchedRight` says that after
`hvm_get_segment_register` the granularity flag of a present segment says whether the limit has more than 20 bits, and
`LimitSurvives` that packing with that flag and unpacking is the identity on limits a descriptor can express.
`SegmentsPacked` follows for every 32-bit limit.

Only model-checked: every liveness property (`Progress`, `NonBlocking`,
`Reclaimed`, `ScanEnds`, `FastForward`), which is outside the prover's reach; and the string
functions, whose loops are recursive operators over data, about which the prover has no induction.

## 5. Disagreements between code and comments

1. `lock_verified.c:164` - `count` is never initialised (`recursive_lock_uninit`).
2. `irq_verified.c:287` - mask-and-ack neither masks nor acknowledges
   (`i8259a_ack`); the comment calls the order of exactly these writes essential.
3. `monitor_verified.c:489` and eight more lines - EEXIST when the status is *not* there
   (`monitor_exists`).
4. `string_verified.c:36` - `__ffsti2` returns one more than the number of trailing zero bits its comment, and those of
   `__ffsdi2`, `ffsl` and `ffsll`, promise (`ffs_zero_bits`).
5. `string_verified.c:123` - `memcmp`, and `strncmp` and `strcmp` with it, give the wrong sign for characters that differ by more
   than a signed char holds (`memcmp_order`).
6. `i387_verified.c:208` - with `XSTATE_LAZY` 0, `ASSERT(mask)` fails for a vCPU that has used the FPU and
   has no nonlazy state (`fpu_assert`).
7. `vm_event_verified.c:309` - `malloc` in place of `xzalloc` leaves `do_write` unset, and the vCPU makes the writes it finds there
   (`vm_event_malloc`).

## 6. Not modelled

* `make_8259A_irq` (routing bit and handler pointer), the once-per-line message about
  spurious interrupts, and delivery of slave interrupts through line 2.
* In `vm_event_verified.c`: single stepping, `set_registers`,
  `monitor_next_interrupt` and `mem_access_emulate_each_rep` (each sets a flag or copies a value nothing in the repository reads).
  Repeated answers are to register writes only; they may change emulation flags and data too, and do so between
  two steps of the vCPU.
* In `monitor_verified.c`: `hvm_update_guest_cr`, called with an uninitialised vCPU
  pointer, and `hvm_set_icebp_interception`; both are empty declarations.
* In `intel_verified.c`, the memory that replaced updates occupied (every `xfree` is commented out).
  In `microcode_amd_verified.c`, all but the skipping of containers: with its allocations and MSR
  accesses commented out, a request never stores a patch (`applied_offset` stays 0 and `save_error` 1),
  `install_equiv_cpu_table` and `get_ucode_from_buffer_amd` fill locals, and
  `microcode_resume_match` frees the old patch and does not store the new one.
* In `srat_verified.c`: what follows the size checks of the affinity handlers, the SLIT (a copy), and
  `acpi_scan_nodes`, which works on what the handlers would have stored. In
  `xstate_verified.c`: everything but `set_xcr0`; `xstate_set_init` has no effect, and the rest checks or
  sets up constants.
* `time`: what CPUs share in Xen (the TSC maximum, calibration stamps) are locals here. `mm`: counts and
  types go to stubs and ghosts without a contract. `apic`, `trace`, `mapcache`, `sched`, `gdbstub`: no
  state over several steps is left in these files.

## 7. Plan

1. The string loops as state machines, as `nodes_cover_memory` is one now: then their invariants can be proved
   without induction over data.
2. The conditions under which the progress properties hold, as ranking steps like `ForwardProgress`: for
   the scan of Intel containers, that the offset grows where sizes exceed offsets; for
   `nodes_cover_memory`, that a pass that finds something shortens what is left.

### Noticed on the way

No run is devoted to these.

* `percpu_verified.c:97` keeps the CPU to be freed in one `free_info`, where the commented declaration (line 70) has one per CPU.
  When two CPUs are freed before RCU has run, both callbacks free the second one's area: the first one's stays allocated until
  that CPU comes back (`Reclaimed` leaves it out), and the second callback frees an area that is no longer there
  (modelled as freeing nothing).
* A CPU prepared again while its free is queued keeps the area (line 49), and the callback then takes it away while the CPU runs.
* `microcode_amd_verified.c:586` takes a byte offset for words (section 2).
* An answer without `EMULATE` clears `emulate_flags` (`vm_event_verified.c:479`), also when another answer of the same exit asked for
  emulation. An answer may announce data of a kind its event does not supply (lines 499-510).
* The first proximity domain is given node 0, which is also "no node", and so is never found; a domain kept in a foreign
  slot is given another node each time it is set up (`LookupStable` says that lookups do not change).
* Two Intel updates of one size make the scan return to the same offset for ever (`ScanEnds` says when it does end),
  and of two matching updates the later is kept even if it is older.
