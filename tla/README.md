# Verification of tyu

tyu is a stack language for small machines: a compiler, native and
microcontroller run-time systems, a loader for signed modules, and a REPL that
runs in the browser.  This directory holds TLA+ models of the parts whose
correctness depends on order, failure or limits, TLC configurations that check
them on small instances, and TLAPS proofs, for all values of the constants, of
the safety of scheduler, channels, rings, loader, boot, REPL session, build,
deploy, test runner and of the range checks that the word compiler leaves out.

Paths below are relative to the repository root.  `PROJECT.json` maps every
definition to the lines it stands for.

## 1. Inventory

| Component | State | Operations | What is hard |
|---|---|---|---|
| Task scheduler, x86-64 (`runtime/x86_64-unknown-none/concurrency.asm`, copies in `runtime/linux-x86_64-hosted.asm` and `crates/codegen-x86_64/src/task.rs`) | task states, current task, 4 worker rings, global ring | spawn, yield, sleep, join, exit | switches inside yield, reuse of slots, fall-back between rings, starvation |
| Channels, x86-64 (`crates/codegen-x86_64/src/channel.rs`) | per channel a ring of values and two wait lists | make, send, receive | lost wake-ups, retry after wake-up, deadlock detection |
| Rings of both | head and tail counters that never reset | put, take, fill test | wrap-around of the counters |
| Task scheduler, microcontrollers (`runtime/riscv32-unknown-none`, `runtime/armv7m-unknown-none`) | the same, 16 slots (riscv32) or 6 (armv7m) | the same | layout of the first frame |
| Module loader (`crates/loader-core`) | symbol map, aperture registry, loaded set, arena cursor, trust tier | `load_module` | a dozen failure points between the table updates |
| Device boot (`boot.rs`, `modpack.rs`) | modpack position, containers, phase | scan, parse, load, call `main`, reset and trap | failure half-way through an image |
| REPL session (`crates/wasm-repl/src/session.rs`) | source buffer, artifact, stack, heap, suspended phrase, output | submit, step, reset | transactions, resumption after fuel exhaustion |
| REPL heap and journal (`heap.rs`, `journal.rs`) | arena, region slots, live ranges, undo journal | create, alloc, reset, destroy, store, scoped regions, undo | exact reversal, slot and arena limits |
| REPL engine (`engine.rs`, `builtins.rs`, `fuel.rs`) | fuel, operand stack, output | one operation per unit of fuel | stopping between any two operations |
| Container tools (`lmod`, `lmod-pack`, `lmod-sign`, `lmod-encrypt`) | none | encode, decode, sign, seal | byte layouts |
| Front end (`frontend`, `langc`) | per compilation | lex, parse | algorithms on text |
| Word compiler (`semantics/src/typecheck/irgen`) | abstract state per block, typed stack, emitted code | emit, if, while, loop, cast, needs, ensures | which checks may be left out |
| Interval interpreter (`verifier/src/interval.rs`, `interp.rs`) | intervals with origins per slot | transfer, join, widen, judge | overflow, unreachable values, loops |
| Rest of semantics and IR, code generators (`ir`, `codegen-*`) | per word | check, lower, emit | instruction selection |
| Build and cache (`tyu/src/build.rs`, `cache.rs`, `verify.rs`, `vm_summary.rs`) | out-dir: objects, obligations, verdict slots, `build.json`; per build its plan | hash, look up, compile, record, prune, link, report | two builds in one directory, crashes, stale hits |
| Deploy and certification (`tyu/src/deploy.rs`, `cert.rs`) | container, image, package with index, digest and signature | build, pack, encrypt, sign, assemble, verify | a crash between two writes, leftovers of other deploys |
| Test runner and remote debugging (`tyu/src/test_cmd.rs`, `runner.rs`, `debug_escalate.rs`, `harness-core`, `rsp-client`) | child processes, pipes, debugger connection, report | spawn, poll, kill, read, judge, escalate, aggregate | hanging guests, late answers, killed children |
| Rest of the project tool (`proof.rs`, `doctor.rs`, `args.rs`, ...) | package lock | install, diagnose, parse | lock recovery |

Interactions.  Compiled words call the scheduler directly; the channel code is
emitted inline and shares the scheduler's tables and its global ring.  The
boot path drives the loader, and modules call each other through the addresses
that the loader writes into them.  The REPL session owns the heap and lends it
to the engine for one phrase; the engine reports an outcome which `settle`
turns into a commit, a rollback, or a rollback that keeps the phrase for
`step`.  The word compiler drives the interval interpreter operation by
operation and reads its state at every range check.  Builds meet in the out-dir
only; a deploy starts with a build and ends with the package beside the image,
which an auditor checks later.  The test runner starts one child of itself per
platform, the child starts QEMU, and a failed run is started again under the
debugger stub.

What makes each part correct:

* scheduler: a task is queued exactly when it is ready; one task runs; a slot
  is freed only through its own handle; ready tasks run and joins return;
* channels: no wake-up is lost or doubled, blocked means waiting, the deadlock
  trap means deadlock, the overflow trap never happens;
* rings: they are bounded FIFO queues;
* loader: a refused load leaves the tables as they were; one address per hash;
  one owner per aperture; every bound import points at a loaded module; nothing
  unsigned runs where signatures are required;
* boot: it ends, and `main` runs only when every module found was loaded;
* REPL: a rolled-back phrase leaves the heap and stack of its entry; ranges
  never overlap; a suspension belongs to the present surface; each output
  byte is handed out once;
* word compiler: a check that is left out would never have fired, a site
  recorded as always failing always fails, a predicate leaves its subjects alone;
* build: what is linked was compiled from the present sources; the report
  quotes the echo of the linked object; a crash costs time and nothing else;
* deploy: a package that verifies is the package of the image beside it, and
  the policy of the deploy holds for what it ships;
* test runner: a pass is earned, a diagnosis is made of the right answers, no
  process is left behind, the run ends.

## 2. Modules

| Module | Models | State | Actions |
|---|---|---|---|
| `TaskScheduler` | x86-64 scheduler | `state`, `current`, `worker`, `queue`, `halt`, `joining` (+ history `inc`, `spent`) | `Spawn`, `SpawnFail`, `Yield`, `Join`, `JoinAgain`, `JoinInvalid`, `Exit`, `MainReturn` |
| `SchedulerProofs` | theorems about it and about `Channels` | | |
| `RingQueueProofs` | theorems about `RingQueue` | | |
| `LoaderProofs` | theorems about `Loader` and `DeviceBoot` | | |
| `Channels` (extends the scheduler) | channel code | `inuse`, `chanNext`, `buf`, wait lists, `pending` | make, send, receive: with their traps, first try and retry |
| `RequestReply` (extends `Channels`) | one program: main, a worker, two channels | the same | the fixed program's calls |
| `BoundedFifo`, `RingQueue` | abstract queue and ring buffer | contents; counters and cells | put, take |
| `McuTasks` | riscv32 scheduler | states, rings, stack words | spawn, yield, join, exit |
| `Loader` | `load_module` | tables, arena cursor, locals of the load | one per stage of the load |
| `DeviceBoot` (extends `Loader`) | `__lang_load_and_run` | modpack position, containers, phase | scan, parse, load, reset and trap, call |
| `Intervals` | interval domain and three-valued logic | pure functions | |
| `Discharge` (extends `Intervals`) | word compiler, and the machine that runs the word | abstract stack, typed stack, open constructs, code; machine stack | one per construct compiled, `Start`, `Exec` |
| `DischargeProofs` | theorems about both | | |
| `BuildStore` | `tyu build` over a shared out-dir | sources, environment, files, records; per build its progress | hash, look up, compile, record, prune, link, report, edit, crash |
| `Deploy` | `tyu deploy` and the audit | out-dir, deploy directory, package; per deploy its progress | one per file written, checks B1 to B4, edit, crash |
| `BuildStoreProofs`, `DeployProofs`, `TestRunProofs` | theorems about the modules of those names | | |
| `TestRun` | `tyu test --all-platforms` | guest, buffers, debugger session, child, parent | see the module's `Tool` and `Environment` |
| `RegionHeap` | REPL heap as pure functions, journal and undo | | |
| `ReplSession` (extends `RegionHeap`) | session and drive loop | buffer, artifact, heap, stack, run, suspension, output | submit, operations, outcomes, step, reset |
| `ReplProofs` | theorems about both | | |

`MC*` modules give the constants that a `.cfg` cannot write.

How the abstraction goes:

* **Scheduler.**  Control changes hands only inside `__task_yield`.  An action
  is what a task executes from one resumption to its next yield or to the end
  of the operation.  `YieldFrom` is the whole of `__task_yield`: re-queue the
  caller (own ring, else global), pick (own ring, global, first victim), switch
  or, with nothing to pick, go on, trap or fall through to `exit(0)`.  A join
  that yields continues in `JoinAgain`.  `inc` numbers the tasks a slot has
  held, so that handles which are equal in the code can be told apart in
  properties; no guard of the code reads it.  The hosted start code marks main
  running, the freestanding one leaves it in state 0: `Init` has both.
* **Channels.**  A blocked send or receive is recorded in `pending` and tried
  again from the start when its task is switched to.  Wake-ups go to the global
  ring.
* **Rings.**  Other modules use sequences; `RingQueue` shows that wrapping
  counters, mask and fill test implement them.
* **Loader.**  A container is a record of what the checks see: identity,
  signature, encryption, aperture uses, sections, relocations, exports, init
  and a set of `faults`, each naming one check that fails.  The order of checks
  is the code's.  Any refusal drops both rollback guards.  `live`, `links`,
  `inited` and `entryCursor` are history.
* **Boot.**  A modpack is a sequence of blobs with a sound or unsound length
  prefix that parse or do not.
* **REPL.**  Source is counted in definitions, the stack by depth, memory in
  8-byte words.  A phrase is any sequence of operations, one unit of fuel each.
  Every effect appends its compensation to the journal, as the engine does.
* **Discharge.**  TLC first chooses a word token by token, and the compiler
  actions emit code while the abstract state follows; then the emitted code
  runs on every input.  Machine integers have `2 * IntMax + 2` values and wrap.
  A range check is emitted as `check`, or as `elided` when its verdict is
  `DefTrue`.  `havoc` stands for an operation the interpreter does not follow.
  The ghost `exact` is false once a loop's body ends outside the state its head
  was analysed from, or an `as?` has narrowed a slot: for those words the
  properties fail (section 4).  That the back edge widens nothing is not
  enough: the code compares the body's end with the header block's state after
  the condition's operations, which is not the state the head began with.  So
  the ghost `entry` of a frame keeps the latter.
* **Build.**  Content is a version number per module; a fingerprint is the tuple
  of what is hashed, so that two are equal exactly when their inputs are.  Every file
  write is a step of its own, in the order of the code, and a crash may come
  between any two.  An object or an echo is named by the sources and settings it
  was compiled from, which the code does not see.
* **Deploy.**  Encryption and signing are constructors; B1 to B4 compare what
  the code compares.  One of the two programs has a library, the other a file
  name that is not its module's.
* **Test runner.**  Output is the summary that the record parser arrives at.
  Requests and answers travel in two queues; the stub answers when it likes.
  Every timeout is a step that may come at any time.

## 3. Passing runs

| Run | Bounds | What it shows |
|---|---|---|
| `sched` | 4 slots, 2 workers with rings of 2, global ring of 4, 2 tasks per slot, each handle joined once | `ReadyQueuesExact`, `OneRunning`, `FreedByOwnHandle`; `ReadyRuns` and `JoinReturns` under fairness |
| `channels` | 4 tasks, 2 channels of 2 cells, wait lists of 2 | wake-ups, blocking, traps |
| `ring` | 4 cells, counters modulo 16, 2 values | `RingIsFifo` (refinement of `BoundedFifo`) |
| `loader` | thirty-odd containers, 5 symbols, 2 modules, 3 apertures, 4 units of arena, tiers 0 to 2 | five invariants over any order of loads |
| `boot` | images of up to 4 blobs, 3 admitted | `MainRunsOnWholeImage`, `BootEnds` |
| `repl` | 2 region slots, 3 words of arena, 1 definition, fuel 2, steps of 1, 2 commits, 2 journalled effects, 1 output byte | `RollbackExact`, `HeapSound`, `SuspensionMatchesSurface`, `OutputOnce` |
| `discharge` | words of up to 6 tokens over 4 operations (`swap`, `add`, `lt`, one unmodelled), casts, a literal and one construct, 1 input, 6 machine integers | `ElisionSound`, `FailingSound`, `AbstractCovers`, `NeedsKeepsInputs` |
| `build` | 2 builders, 3 builds of 2 programs whose roots are both called `Main`, one with a library, 1 edit or change of environment, crashes | `LinkedFresh`, `EchoOfImage`, `SoloNeverFails`, `RebuildIsCached` |
| `deploy` | 3 deploys of 2 programs, static or dynamic, edits of library and root, 2 policies, encryption and signing on or off, crashes | `PackageBinds`, `ShipsOwnPolicy`, `ShippedIsAuditable` |
| `testrun` | 3 packs (QEMU, hosted, tools missing) with 4 fixtures, 2 assertions, 1 killed child | `PassIsGenuine`, `RegistersMatch`, `NoOrphan`, `AggregateSound`; `RunEnds` under fairness |

Why the bounds are enough.  Each limit of the code is reached: worker rings
fill and spill into the global one, slots run out, wait lists and channels
fill (so the traps fire), the symbol map, loaded set, registry and arena all
overflow, the modpack holds one blob too many, regions and memory run out,
and fuel runs out before, between and after effects.  Three tasks beside main
are the fewest with a waking task, a woken one and a third that takes the value
first.  Two tenants per slot are needed for a stale handle.  Ring counters
modulo 16 over 4 cells wrap several times.  Two journalled effects are the
fewest whose order matters, and a third word lets a destroyed slot be reused.
Six integers have an overflow at each end and a subrange with values on both
sides; six tokens are a construct with a condition, a body, an operation
before and a check after it, among them a loop whose condition changes the
state that its back edge is compared with.  Three builds are the fewest with a hit on what a crashed one
left while another is under way.  Two programs whose roots have one module name
compete for objects, slots and containers.  Six registers, requests that fail at each
position and a first read that is answered late are all reached in `testrun`.
`TypeOK`, `ChanTypeOK`, `LoaderTypeOK` and `ReplTypeOK` give the types of the
variables; only the first is checked in a run.

Fairness.  `Spec` and `ProgramSpec` have weak fairness of the whole next-state
relation, `BootSpec` of the boot steps: the processor keeps executing, and a
task that computes comes back to the scheduler, as cooperative tasks must.  No
fairness is assumed between tasks; whether a ready task is picked is for the
rings to decide.  `ReadyRuns` and `JoinReturns` speak of tasks in the worker's
own ring: with overflow into the global ring a task that re-queues itself can
win for ever (section 4).  `TestRun` has weak fairness of the tool's steps and
of its pipe readers, which are threads of the tool that the system schedules;
none of guest, stub or clock order is assumed, so `RunEnds` rests on the tool's
own timeouts.

Conditions.  `RollbackExact` and `HeapSound` are stated for heaps where a free
slot was found for every region (`SlotsSufficed`); the other case is
`TailUnreachable` below.  `ElisionSound`, `FailingSound` and `AbstractCovers` are
stated while `exact` holds; the other case is `discharge_loop`.  Their theorems add
`Fits`, that the word stays within the abstract stack, as all words of the run do
(section 4 has the other case).  `JoinReturns` is
checked with each handle joined once; otherwise a second join of a reaped slot
never returns (section 4).

## 4. Where the code and its documentation differ

Each of these runs checks one statement of a doc, comment or test, and TLC
finds a behaviour of the code that contradicts it.

| Run | Statement | Behaviour |
|---|---|---|
| `discharge_loop` | widening never discharges a loop-carried value (`soundness_differential.rs:648`) | the body of a loop is compiled, and its checks are judged, before the loop is widened: in `1 while ... as Sub 1 +` the cast sees only the 1 of the first iteration and its trap is elided; nor does a back edge that widens nothing tell that the body's end fits, since it is compared with what the condition left |
| `mcu_first_switch` | the new frame holds the trampoline and 3 registers | the switch restores 5 registers and returns through the sixth word |

### Other differences

These are stated in the modules and refuted by TLC when they replace the
properties of the configuration named; they have no run of their own.

| Definition | Configuration | Statement | Behaviour |
|---|---|---|---|
| `StuckIsDeadlock` | `MCDeadlockExit.cfg` | `docs/book/appendix-b-error-registry.md:69`: DEADLOCK is "all tasks blocked and nothing is runnable" | the exit of the last runnable task ends the program with status 0 although others are blocked |
| `JoinGetsItsWorker` | `MCRequestReply.cfg` | `docs/book/ch12-tasks-and-channels.md:62-63`: `join` "may block until the worker finishes" | a woken worker waits in the global ring; main re-queues itself in its own ring, which is looked at first, and picks itself for ever |
| `RefusalFreesMemory` | `MCLoaderMemory.cfg` | `load.rs:755-757`: "any allocated memory is released via the platform" | nothing is released |
| `TailUnreachable` | `MCReplTail.cfg` | `heap.rs:434-437`: "every live range in the span was already dropped, so the tail is unreachable" | with all slots alive `region_create` overwrites slot 0 (heap.rs:158), and a rollback then leaves a live range past the end |
| `NoStaleEcho` | `MCBuildEcho.cfg` | `build.rs:1297-1300`: an unusable slot is a miss, "self-healing, never a stale-echo report" | `ensure_verdicts_cache_file` puts a valid empty document in the slot before langc runs; after a crash the next build takes it for the echo and reports no emitted checks, and so does every later one |
| `OneDecisionPerImage` | `MCBuildModes.cfg` | `build.rs:255`: "One decision for the whole image (FR-11 per-image atomicity)" | the key holds the requested elision, not the decision, so a library object without guards is a hit for an image that keeps them |
| `JoinReturns` | `MCTaskScheduler.cfg`, `CopyHandles = TRUE` | `docs/book/ch12-tasks-and-channels.md:61-63`: a handle is "a copyable doorway", join "may block until the worker finishes" | a second join of a reaped slot yields for ever |
| `PolicyBeforeAllocation` | `MCLoader.cfg` | `platform.rs:227`: "Enforcement happens before any allocation" | the scratch region of an encrypted container is allocated first |
| `RefusedNeverRan` | `MCLoader.cfg` | `load.rs:6-7`: "failure atomicity" | the init word runs before three checks that may still refuse |
| `ConflictIsReported` | `MCLoader.cfg` | `symbols.rs:8`: a duplicate name is `E_SYMBOL_CONFLICT` | `From<u32>` makes it `BadContainer` |
| `EachExportItsAddress` | `MCLoader.cfg` | `symbols.rs:36`: "Address (or offset) of the symbol" | all exports of a module get the address of its code |
| `ElisionSound` | `MCDischarge.cfg`, `MaxSlots = 2`, `Control = {}`, `Names = {"drop", "swap"}`, `MaxTokens = 7` | `interp.rs:166-168`: on a full abstract stack "soundness is unaffected" | a push on a full abstract stack replaces its top slot; after a drop the slot below stands for another value than the machine's, and a trap that would fire is left out.  The code has 64 slots and the type checker allows 256 |
| `MalformedPackTraps` | `MCDeviceBoot.cfg` | `boot.rs:485-487`: "An empty or malformed modpack yields nothing" | it yields the blobs before the malformed one |
| `FaultLeavesNoTrace` | `MCRepl.cfg` | `session.rs:3-6`: any fault rolls the heap back | the literals of the phrase stay in the arena |
| `WordCapRefusal` | `MCRepl.cfg` | `session.rs:420-422`: the cap refuses "the definition that would exceed the cap" | after a phrase the cap counts the synthetic phrase word |
| `TraceOfLastSubmission` | `MCRepl.cfg` | `session.rs:332`: "`None` when the last submission had no phrase" | a refused submission keeps the previous trace |

Met while modelling, outside what the models can express:

* Intervals: `as?` narrows the abstract value on both outcomes
  (`names.rs:440-512`).  E3312 on `ensures` does not see `swap` or `1 +`
  on two unknown outputs (`prologue.rs:147-155`).
* Build: object and slot names do not contain the settings, so builds with
  other settings overwrite each other's objects; the policy `proven` and the
  verification tool are not part of the key; `prune_out_dir` says that a
  concurrent build's artifact can never be deleted, but a newer build deletes
  those of an older one; slots of modules outside the build are pruned; a lost
  `build.json` makes other programs' objects prunable; `.def` interfaces are not
  hashed; a source edited between hash and compile is filed under the old hash;
  a missing obligations file counts as no obligations (`verify.rs:435`); langc
  looks for `<Module>.obl.json` while the files are `<Module>-<fp>.obl.json`;
  E6410 comes after manifests that declare the policy were written.
* Deploy: `find_obl_artifact` (`cert.rs:1341`) wants a suffix of 20 characters
  and the files have 25, so obligations never enter a package; the candidates of
  a manifest are always 0, so `--proven-no-candidates` never refuses; harvested
  documents are written below the project root and read from the out-dir;
  the package says that callee modules are linked into the root image, but only
  the root's object is packed, so nothing binds what the index says of callees;
  a dynamic deploy finds its container by file stem while packing names it by
  module; concurrent deploys share `signed.lmod`.  The package lock of
  `proof.rs:1840-1906` counts an empty lock file as dead and its `Drop` removes
  whoever's lock is there.
* Test runner: the comment in `runner.rs:161-163` says that the parser resyncs
  on record markers; it stops at the first truncated record and `truncated` is
  never looked at, and output that does not begin with `V` is parsed by the
  legacy scan; poison trap codes are matched as substrings ("code 1" in
  "code 13"); a failed escalation turns an expected trap into a failure; a
  process left behind by the guest keeps the reader joins waiting (`runner.rs:223`;
  `toolchain.rs` kills the process group); every `classify_hang` uses port 1235;
  `parse_packet` counts from `$` while the buffer is drained from its start.
* Loader and REPL: `release_owner` is keyed by a hash that all modules of a build share
  (`apertures.rs:109`; it has no caller); an aperture at base 0 counts as
  unresolved (`load.rs:630`); phrases intern their literals again and again
  (`engine.rs:284`).
* riscv32: `.join_done` falls through into the trap (`concurrency.asm:368`), and
  ring tails are used as indices without a mask (`:109`).

## 5. Proofs

Every theorem holds for all values of the constants that satisfy the named
assumption of the model and the hypotheses in its statement.  A proof of an
invariant has the same shape everywhere: an inductive invariant, a conjunction
of named parts; a lemma that the initial states satisfy it; a lemma per action
or per kind of step; and the temporal step at the end.

### Scheduler (`SchedulerProofs`)

From `SchedulerAssumption`: all sizes positive and `NTasks <= GlobalCap`, as 16
and 16 in the code.

| Theorem | Statement |
|---|---|
| `SchedulerInvariant` | `Spec => []SchedInv` |
| `SchedulerTypeOK` | `Spec => []TypeOK` |
| `ReadyQueuesAreExact` | `Spec => []ReadyQueuesExact` |
| `OneTaskRuns` | `Spec => []OneRunning` |
| `WorkStealingIsIdle` | `Spec => []OnlyWorkerZero` |
| `QueuesNeverOverflow` | `Spec => []NoOverflow` |
| `StaleHandlesReapNothing` | `Spec => []FreedByOwnHandle` when handles are not copied (`CopyHandles = FALSE`) |

The inductive invariant `SchedInv` is the conjunction of the type invariant,
`OneRunning`, `ReadyQueuesExact`, `OnlyWorkerZero`, `NoOverflow`,
`NobodyRunnable` and `MainNeverDone`.  None of the first four is inductive by
itself.  That an enqueue always finds room, which `ReadyQueuesExact` needs,
follows from counting: a queue that holds distinct ready tasks, none of which
is the current one, is shorter than the task table, hence shorter than the
global ring.  That counting argument is a lemma on injective sequences, which
needs `QueuedOnce` and `OneRunning` of the same state.  `OnlyWorkerZero` makes
the steal path void, and `MainNeverDone` keeps main's initial state 0 from
coming back through a join.  The step proof goes through one lemma on
`YieldFrom`, entered with the current task's state unchanged, done or blocked,
which covers yield, join and exit alike.  `StaleHandlesReapNothing` adds that a
join in progress holds the handle of the task it waits for.

### Channels (`SchedulerProofs`)

| Theorem | Statement |
|---|---|
| `ChannelInvariant` | `ChanSpec => []ChanInv` |
| `WakeupsKeepQueuesExact` | `ReadyQueuesExact` with channels |
| `WaitListsExact` | `BlockedIffWaiting` |
| `RecvWakeupsNotLost`, `SendWakeupsNotLost` | `NoLostRecvWakeup`, `NoLostSendWakeup` |
| `DeadlockTrapIsReal` | `DeadlockIsReal` |

`ChanInv` adds to `SchedInv` the bounds of buffers and lists, that a task is in
one list of one channel and there once, and that while tasks wait on a channel
there are as many woken tasks of that kind as values or free cells.  The count is
what makes it inductive: "some woken task" would survive one try but not two.
Send and receive are mirror images, so the lemmas speak of two kinds of
operation `K` and `L` with their lists and are used in both orders.

### Rings (`RingQueueProofs`)

`RingImplementsFifo`: `Spec => RingIsFifo`, the refinement of `BoundedFifo`,
from `RingAssumption`: the number of cells divides the modulus of the
counters, as powers of two do.  `RingInvariant` bounds the fill.  The mapping
reads the cells from head to tail; that a take shifts it and a put extends it
rests on the uniqueness of quotient and remainder.

### Loader and boot (`LoaderProofs`)

| Theorem | Statement | Hypothesis |
|---|---|---|
| `LoaderCore` | `LoaderSpec => []Core` | |
| `RefusedLoadsLeaveNoTrace` | `LoadsAreAtomic` | |
| `HashesStayUnique` | `OneAddressPerHash` | |
| `AperturesStayExclusive` | `ApertureExclusive` | |
| `BasesTellLoads` | `LoaderSpec => []OnceInv` | `HasCode` |
| `LoadedModulesInitOnce` | `LoadedOnce` | `HasCode` |
| `ImportsPointToLoaded` | `LinksPointToLoaded` | `HasCode` |
| `MainSeesWholeImage` | `MainRunsOnWholeImage`, over `BootSpec` | `HasCode` |

The invariant behind the first four says that the tables are those made by the
finished loads (`live`), followed by the part the load under way has added, and
that the marks of the two rollback guards lie at the boundary: so whichever
check fails, dropping the guards leaves what was there.  `HasCode` says that the
code section of every module has a positive size.  It is needed because a load
is told by the base of its code: two modules of size 0 share one.  The
compiler emits at least a return for every word; with the hypothesis, regions do
not overlap (`BelowCursor`, `BaseNamesModule`).  The boot proof adds that the
finished loads are a prefix of the admitted containers and that the init calls
made so far are theirs, in order.

### Build (`BuildStoreProofs`)

| Theorem | Statement | Hypothesis |
|---|---|---|
| `StoreInvariant`, `SoloInvariant` | the two inductive invariants | `TornIsNoCache` |
| `ImagesAreFresh` | `LinkedFresh` | `TornIsNoCache` |
| `EchoesTellImages` | `EchoOfImage` | `TornIsNoCache`, `OneDecision` |
| `AloneBuildsSurvive` | `SoloNeverFails` | `TornIsNoCache` |
| `RebuildsAreCached` | `RebuildIsCached` | `TornIsNoCache` |

`StoreInv` says what each name in the directory promises (an object under a
fingerprint came from that fingerprint, or is torn), and for each build what it
has fixed at its place in the sequence of steps; `SoloInv` adds that, while nobody
else builds, what it has found or written is still there.  `TornIsNoCache` says
that a half-written `build.json` is not the text of a whole one (the model
value `Torn` is not a set of records): the parser tells them apart.
`OneDecision` says that all builds in the directory decide alike on elision; without it
the statement is false (`OneDecisionPerImage`, section 4).

### Deploy (`DeployProofs`)

`DeployInvariant` and, from it, `AcceptedPackagesBind` (`PackageBinds`),
`DeploysShipTheirPolicy` (`ShipsOwnPolicy`) and `ShippedPackagesPass`
(`ShippedIsAuditable`).  Hypotheses: `OneDeployer`, one deploy at a time, as
the files are not locked; and `StemsNameRoots`, that the stem of a root's
source is not the name of another module, since a dynamic deploy looks for the
container by stem (section 4).  `DeployInv` says which of the files in the deploy directory belong to the
deploy under way at each of its steps, and what the files of crashed deploys can
still hold; the audit accepts only when index, digest and image agree, which
after a crash they do only if one deploy wrote them all.

### Test run (`TestRunProofs`)

| Theorem | Statement |
|---|---|
| `TestTypesHold`, `RunInvariant` | types; lifetimes of child, guest and debugger |
| `NothingIsOrphaned` | `NoOrphan` |
| `PassesAreGenuine` | `PassIsGenuine` |
| `AggregateIsSound` | `AggregateSound` |
| `RegistersAnswerTheirReads` | `RegistersMatch` |

For any packs, fixtures and assertions, and without hypothesis.  `RegistersMatch`
needs `Exchange`: at each phase of the debugger session, which requests and
answers may be in the two queues.  The first read can be answered late, so
the invariant counts the answers due and not only those received.

### REPL session (`ReplProofs`)

From `RegionAssumption` and `SessionAssumption`, which only say that the limits are
naturals and that there is a region slot:

| Theorem | Statement |
|---|---|
| `SessionInvariant` | `Spec => []SessionInv` |
| `SessionTypesHold` | `ReplTypeOK` |
| `RollbacksAreExact` | `RollbackExact` |
| `HeapsStaySound` | `HeapSound` |
| `SuspensionsMatch` | `SuspensionMatchesSurface` |
| `OutputCountedOnce` | `OutputOnce` |

`RollbackExact` compares a heap with one many steps earlier, so the invariant
carries a promise of the journal (`Undoable`): undone from its last effect, it
gives the heap of the checkpoint.  Three facts keep the promise.

* `UndoLast`: undoing a journal that grew by one effect is to compensate that
  effect and undo the rest.  `Undo` is a recursive function over the journal
  (`Replay`), and the lemma is an induction over its length, from the least element
  of a set of naturals.
* `Effective`, one lemma per operation of the heap: the compensation of the
  effect, applied to the heap the operation leaves, gives the heap it found.  That
  is false of heaps in general: giving storage back is exact only when the
  range lies at the end of the arena, and dropping the ranges that start at an
  address only when no other does.
* So `Sound` strengthens `HeapSound`: every range is non-empty, inside the arena
  and apart from the others; live regions have different bases and own a range; a dead
  slot holds nothing.  Each operation keeps it.

Both hold while no create has moved the bump counter (`SlotsSufficed`): with all
slots taken, `region_create` overwrites slot 0 (section 4).  The counter never goes
back, so nothing is claimed of a session once it has moved, and a create
that moves it and then fails is a step of its own (`BumpedRollback`).

A phrase kept for `step` makes the same promise, and undoing its journal
gives the surface: a submission that changes the surface drops the suspension,
and while a phrase runs none is kept, so that when it settles the surface is free
to change.

### Intervals and left-out checks (`DischargeProofs`)

For every `IntMax`, the domain is sound against wrapping machine arithmetic:

| Theorem | Statement |
|---|---|
| `AddSound`, `SubSound`, `MulSound` | the result interval holds the wrapped sum, difference, product of any values of the arguments |
| `LatticeSound` | join covers both, intersection is exact, inclusion is inclusion |
| `VerdictSound` | a definite range verdict holds of every value of the interval |
| `ComparisonSound` | a definite comparison holds of every pair of values |
| `FlagsSound` | the three-valued connectives and their encoding agree with the booleans |

A bound computation that leaves the machine range yields `Top`; otherwise the
exact result lies between the bounds, is itself in range, and wrapping changes
nothing (`WrapIdentity`).  The product needs that it lies between two of the four corner
products, which is two applications of the monotonicity of multiplication by a
number of fixed sign (`FourCorners`).

On top of it, for words of any length and nesting, any inputs and all operations
of the model, the compiler's verdicts are sound:

| Theorem | Statement | Hypothesis |
|---|---|---|
| `AlwaysDescribed` | `Spec => []DischargeInv` | `[]Fits` |
| `ElisionAlwaysSound` | `ElisionSound` | `[]Fits` |
| `FailingAlwaysSound` | `FailingSound` | `[]Fits` |
| `AbstractAlwaysCovers` | `AbstractCovers` | `[]Fits` |
| `NeedsAlwaysKeepsInputs` | `NeedsKeepsInputs` | `[]Fits` |

The compiler keeps one abstract state, that of the position it is at, while the
machine may be anywhere.  So the invariant supposes a note for every position
of the code: the abstract state and the types there when it was compiled.  A note
describes a machine stack (`Held`) when every value lies in its slot's interval
and every flag is 0 or 1.  Three things make it inductive:

* `StepOK`: an instruction judges every described stack rightly (`Judged`: an elided
  check would pass, one that always fails would trap) and leads it to a position
  whose note describes the result.  The lemmas `TransferSound` and
  `CastFacts` say so of the single operations, from the lattice theorems.
* `Building`: while a word is compiled `StepOK` holds of all instructions
  except the branches whose target is still open.  `FrameInv` says what each of
  those will need when its construct is closed: that the state kept in
  the frame describes what arrives along the branch.  `Extend` and `Landed` are the two
  ways in which code grows: by an instruction that goes on to the next position, and
  by a position where an open branch lands.  A position where two paths meet gets a
  weaker note, and everything said of it before still holds (`Weaker`).
* `Built`: the epilogue closes the last position, and from then on the code and
  its notes stay while the machine runs from described stack to described stack.

A loop goes back to a position whose note was fixed before its body was compiled.
That the body's end is covered by it is what `exact` records; without it the
invariant fails, as `discharge_loop` shows.  `Fits` says that the
typed stack has at most `MaxSlots` values.  It is needed because a push on a full
abstract stack replaces the wrong slot (section 4), and the code does not enforce it
up to 256 values.

`NeedsAlwaysKeepsInputs` has an invariant of its own (`NeedsInv`), because an interval does
not say which input a value is.  E3312 compares the origins of the slots, so the
notes here are sets of machine stacks, and what bounds them is that a
slot whose origin is input `k` holds input `k` (`Told`).  `exact` is not a hypothesis:
origins never depend on what a loop's body was judged on.

* While the predicate is compiled (`Traced`), every instruction leads from the
  stacks of its position to those of the next (`Leads`), or is a branch whose target
  is still open, of which its frame promises what it will bring (`Promised`).
* The check at the end of the predicate compares the abstract state below the
  flag with the snapshot of the inputs.  With `Traced` it means that every stack
  at the trap has the inputs below its flag (`Prefix`, `Checked`).
* The body adds code and patches its own branches and loop heads, all beyond the
  trap's position (`Beyond`), so the predicate's code stays as it was checked.
* The machine is therefore within the predicate, on a stack of its position, or
  past it and never back (`AtPrefix`).

### Only model-checked

* `ReadyRuns`, `JoinReturns`, `BootEnds`, `RunEnds`: liveness under fairness,
  which the prover does not treat.
* `McuTasks` and `RequestReply`, whose runs state a violation or one program.

## 6. Not modelled

* Stack pointers, registers and data stacks of x86-64 tasks: no branch of the
  scheduler reads them.
* Memory behind an overrun ring index on microcontrollers.
* Instruction encoding of relocations and re-derivation of stack bounds: their
  verdicts are `faults` of a container.
* Byte layouts of containers and cryptography: verdicts as well.
* Firmware symbol registration at boot that itself fails, and the call veneers.
* The REPL's splitter, effect inference, trace contents and page boundary.
* Of `Discharge`: calls, matches, memory, regions, boolean locals beyond the
  inputs, and `run_cfg`, the second engine that only tests use.
* Of the build: the linker, the assembler, the runtime units and the dynamic
  image; an edit in the middle of a build.  Of the deploy: two at a time, key
  files, flashing.  Of the test run: building fixtures, the device runner,
  packet and record framing, a `waitpid` error, QEMU processes of a killed child.
* Parser, type and borrow checking, IR, code generation, the verifier's codecs,
  the proof-package manager, `doctor`, argument and manifest parsing.  These are
  most of the repository's lines: sequential functions from text or trees to
  text, bytes or trees, whose correctness is agreement with a grammar, a file
  format or an instruction set.  A model of them would repeat the code line by
  line and TLC would see only a sliver of their inputs.  The mapped lines are
  therefore a small share of the repository, and hold most of its state,
  concurrency and failure handling.  The Lean development under `verification/`
  covers the core calculus.

## 7. Plan

1. Extend the model: the native regions of `codegen-x86_64/src/region.rs` as a
   second instance of `RegionHeap`; the package lock of `proof.rs`; the module
   graph's ordering and the borrow context of `semantics` as pure operators
   against reference definitions; calls in `Discharge`; firmware symbol
   registration at boot.
2. Compose: channels over `McuTasks`; boot over an arena shared with the
   program; `Deploy` over `BuildStore` with two deployers.
3. Prove: the safety of `McuTasks`.
