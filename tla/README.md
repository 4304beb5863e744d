# A TLA+ model of bunnyhopfix

`bunnyhopfix` patches a running Counter-Strike: Source. On Windows a controller
process injects `bhopfix.dll`, whose worker thread hooks functions of the game
and patches its code; the controller itself patches the client's prediction
code from outside. On Linux a launcher preloads a library with the hooks and
patches the prediction code through ptrace. Everything that matters happens in
memory shared with a program that keeps running: threads come and go while they
are being stopped, callbacks run while they are being removed, every system call
may fail half way, and the controller may die at any moment.

This directory models the transactions on the game's code and the life of the
DLL on Windows, and, for both platforms, the stopping of the game's threads, the
prediction patch, the work of the hooks on the game's main thread (mouse, demos,
console), the installation of maps and the record lookups. Paths below are under `src/crates/`; `hook/` is
`bhopfix-hook/src/`, `ctl/` is `bunnyhopfix/src/`, `core/` is
`bhopfix-core/src/`.

## 1. The system

| component | state it keeps | operations | talks to |
|---|---|---|---|
| thread guards: `hook/windows/hook.rs`, `ctl/windows.rs` | the suspended threads of one guard; Windows' suspend counts | `suspend_others`, `RemoteThreadGuard::suspend`, both `drop`s | the game's threads; each other, unknowingly |
| patches: `Patch`, `PointerHook`, `write_code` in `hook/windows/hook.rs` | original and replacement bytes, page protection, `tainted` | prepare, install, apply, restore, drop | thread guard |
| `viewpunch`, `fullscreen` in `hook/windows/` | a list of patches, `enabled`, static `DIRTY` | install, toggle, restore, `is_quiescent` | patches; `run()` |
| callback hooks: `rawinput`, `fastdl` and `InlineHook` in `hook/windows/` | the entry or slot, the trampoline, `ORIGINAL_*`, `ACTIVE_CALLBACKS`, `DIRTY` | install, the callbacks, restore, `is_quiescent` | game threads; control block |
| worker: `hook/windows/mod.rs` | what is installed, the verdict | `run()`: open, wait, install, toggle, restore, judge | control block; all features |
| control block: `core/control.rs`, `hook/windows/control.rs` | state, stop, error, `unload_safe`; the log ring | `set_state`, `fail`, `push_log`, `read_log` | both processes |
| controller: `ctl/windows/inject.rs`, `main` of `ctl/windows.rs` | the session, `on`, the prediction sites | inject, wait, serve keys, patch, shut down, unload | game, worker |
| raw-input ring: `hook/windows/rawinput.rs`, `hook/rawinput.rs` | ring of mouse events, `SAMPLE_REMAINING`, `LAST_SERVE`, forced mode | push, drain at tick time, countdown, mode switch | engine callbacks |
| `hook/sourcejump.rs` | one worker, inflight and pending map | show, schedule, fetch, shutdown | fastdl, network |
| map install: `hook/windows/fastdl.rs`, `hook/fastdl.rs`, `core/pakfix.rs` | files, sidecars, cached checksums, `WATCHING` | look up, download, verify, rename, note, watch, extract | game's loader and downloader, launcher |
| engine: `hook/windows/engine.rs`, `hook/engine.rs` | command queue, `PENDING_DEMO` | arm, queue, pump, poll downloads | game's main thread, lookup thread |
| Linux start: `hook/lib.rs`, `hook/vtable.rs` | replaced slots, `ORIG_*` | hook one function after the other | game's main thread, running |
| Linux controller: `ctl/linux.rs` | ptrace attachments, prediction sites, `on` | attach, apply, main loop, sweep | game |
| `core/sig.rs`, `elf.rs`, `pe.rs`, `hook/windows/module.rs` | none | parse headers, scan patterns, demand uniqueness | install |

What is hard about each, and what makes it correct:

- **Thread guards.** No call of Windows stops a whole process: a thread may be
  created or may end between a listing and the suspension. The worker shares the
  heap with those it suspends. Correct when a stop that is answered is total,
  so that the two patchers never write together, and when acquisition ends.
- **Patches.** Three system calls surround each write, and each may fail after
  the bytes have changed. Correct when an answer never claims more than what is
  in memory, the protection comes back, and foreign bytes are not destroyed.
- **Switched features.** Several patches, a loop and a rollback loop. Correct
  when `DIRTY` is down only over a restored game.
- **Callback hooks.** Game threads are inside the DLL at any instruction.
  Correct when whatever the worker frees is not under any of them.
- **Life of the DLL.** Two processes, timeouts in each wait, late answers,
  killed controllers, restarted controllers. Correct when the DLL is unloaded
  only from a game that no longer refers to it, and when the worker always ends.
- **Prediction patch.** Correct when the game's threads see all sites switched
  or none, and when the controller's idea of the game is true.
- **SourceJump.** A request may arrive just as the lookup thread gives up, or
  just as the lookups are shut down. Correct when there is one thread at most,
  no request waits for a thread that is gone, the map one lands on wins, and
  nothing works on after the shutdown.
- **Mouse.** One thread pushes while another drains, and what is served is what
  happened before the tick. On Windows the same motion also reaches the game's own
  accumulators, and the mode decides which of the two is used. Correct when no
  motion is lost or doubled, by either way, and none is served that belongs to the
  next tick; the exceptions are in section 4.
- **Demos and console.** A bounded queue that several threads fill and one
  empties; a command that does not get in is dropped without a word. Correct when
  each demo begins at its own `record` and the game records what was announced.
- **Map install.** Files outlive crashes; a map and its sidecar are two files; the
  game, the watcher threads and the launcher's sweep extract the same entries.
  Correct when a sidecar that is believed is true, loose files appear whole, and
  a watcher ends and has done its work.
- **Linux start.** The game calls the first hooks while the others are still being
  installed. Correct when a hooked call reaches the game.
- **Log ring.** Written under a lock, read without. Correct when what is printed
  is one record and nothing disappears in silence.

`PROJECT.json` lists the hazards line by line with the properties on guard.

## 2. The modules

| module | models | lines of code it stands for |
|---|---|---|
| `ThreadStop` | the guards against a changing set of game threads | `hook.rs` `ThreadGuard` and helpers; `windows.rs` `RemoteThreadGuard`; `linux.rs` `PtraceGuard` |
| `CodePatch` | one `Patch` or `PointerHook` | `hook.rs` `write_code`, `Patch`, `PointerHook` |
| `SwitchedPatches` | a toggled list of patches | `viewpunch.rs`, `fullscreen.rs` |
| `AtomicSwitch` | abstract: what a prediction transaction promises | |
| `Prediction` | `apply`, the writes, `main`, on both platforms | `windows.rs`, `linux.rs` |
| `CallbackDrain` | one hooked function, its callers and its removal | `rawinput.rs`, `fastdl.rs`, `hook.rs`, `mod.rs`, `control.rs` |
| `HookLifecycle` | controller and worker sessions | `inject.rs`, `mod.rs`, `control.rs` |
| `SourceJump` | the record lookups, on both platforms | `sourcejump.rs` |
| `LogRing` | the log ring | `core/control.rs`, `inject.rs` |
| `PakFix` | the case fix by several fixers at once | `core/pakfix.rs` |
| `MapInstall` | a server info message, the map, its sidecar, the watchers; extends `PakFix` | both `fastdl.rs`, `linux.rs` (sweep) |
| `RawInput` | the ring of mouse events and the countdown of the tick | both `rawinput.rs` |
| `EngineQueue` | console commands and demos | both `engine.rs` |
| `GameThread` | the hooks on the main thread, Linux' installation under them; extends `RawInput` and `EngineQueue` | `hook/lib.rs`, both `rawinput.rs`, `engine.rs`, `fastdl.rs` |
| `PatchingProofs` (of `ThreadStop` and `CodePatch`), `SwitchedPatchesProofs`, `CallbackDrainProofs`, `SourceJumpProofs`, `PredictionProofs`, `HookLifecycleProofs` (of `HookLifecycle` and `LogRing`), `MapInstallProofs`, `GameThreadProofs` | theorems | |
| `MCCallbackDrain` | symmetry for TLC | |
| `MCMapInstall` | packs and earlier versions for TLC | |

The modules are layered by what an operation of one is in the next. `CodePatch`
takes a granted stop as one step, and writes between stop and resumption as
undisturbed, which is what `ThreadStop` shows. `SwitchedPatches` takes
`Patch::apply` and `Patch::restore` as one step each, with the outcomes that
`CodePatch`'s `AnswersAreTrue` leaves open. `HookLifecycle` sees a feature only
as live or not, its `DIRTY` and its switch, with the combinations that
`SwitchedPatches` (`QuiescentMeansRestored`) and `CallbackDrain` (a drained
counter) allow. The layering is by reading; only `Prediction`'s implementation
of `AtomicSwitch` is a refinement, checked and proved. `MapInstall` and
`GameThread` are compositions: they extend the modules of their parts and say who
takes which step of a part, and when.

### ThreadStop

`Worker` and `Controller` each run the same program text: `Begin`,
`ListThreads`, `Open`/`OpenGone`, `Suspend`/`SuspendGone`, `EndPass`, `Verify`,
`Fail`, `Resume`, `Unwound`, `Wake`, `Release`, `Released`. `Classify` holds
their difference: `classify_thread_failure` in the hook, a comparison with
`ERROR_INVALID_PARAMETER` in the controller. `guard` per patcher is the suspend
count: a thread runs when no guard holds it. The worker is a thread of the
target and may be suspended by the controller at each of its steps. `heap` is
the process heap's lock, which every listing and every error string of the
worker needs. Game threads `Spawn` (also under the id of an
ended thread nobody holds open), `Exit`, `LockHeap` and `UnlockHeap`.
`Expire` is the end of the two-second retry window.

On Linux the controller's text is that of `PtraceGuard`: passes over
`/proc/<pid>/task` (`ListThreads`), an attach that may find the thread gone
(`OpenGone`, `SuspendGone`), a confirmed stop (`Suspend`), a pass that found
nobody new (`EndPass`, `Verify`), the churn failure, and the detaching drop. It
has no worker beside it, which is the model's case of a worker that never begins.

### CodePatch

`op` is the call, `at` its step. `WriteCode` is the relation between memory and
answer of `write_code`: refused before the bytes changed, or done with flushing
and protecting each failing or not. `RestoreReturns` and `ApplyReturns` are the
three callers of `restore` and the two of `apply`. `Foreign` is another program
in the process (an overlay) that rewrites the same bytes; the code has branches
for it ("refusing blind restore"). `fault` and `raced` are history: a system
call failed in this call; somebody wrote after the call's check.

### SwitchedPatches

`Toggle` asks for the other side of the switch, `Restore` for off (`restore()`
returns at once when `enabled` is down). Both are `SetEnabled`: the early return
and the raising of `DIRTY`. `ApplyNext` and
`RestoreNext` are one round of `apply_all` and `restore_all`, forward or as
rollback. `fullscreen`'s pair is `N = 2`; viewpunch has as many patches as
`select_punch_sites` finds.

### Prediction and AtomicSwitch

`want`, `at`, `i` are `apply`'s argument, place and loop index; `undone` whether
the rollback worked. `view` is the memory as the running game last saw it:
`Resume` sets it when the guard is dropped. `main` is `Start`, `Toggle` (F5,
SIGUSR1, Scroll Lock), `Quit`, `Answered`, `Leave`; `Killed` is the closed
console or the lost tracer. The refinement mapping is `seen <- Seen`, the class
of `view`.

`os` is chosen at the start. The two programs run the same transaction and
differ in `Write` (`WriteRuns` has page protections, `WriteMem` goes through
`/proc/<pid>/mem` and reads back), in what a death of the controller leaves (a
stopped game on Windows, a running one on Linux, since the kernel detaches a
dead tracer), and in the exit: on Linux a restoration that failed is tried again
by `Patcher::drop` (`DropPatcher`), which is also all that restores anything
when the launcher ends before the game (`LauncherGone`).

### CallbackDrain

A game thread moves from `game` through `entered`, `counted`, `loaded`,
`trampoline`, `original`, `returned`, `leaving`; it is counted in
`ACTIVE_CALLBACKS` only in the middle. `TakeBlock`/`UseBlock` are the two halves
of every use of the control block's address. The worker's steps are those of
install (with its clean and its dirty failures), restore, drain, release, clear,
verdict, and what `run()`'s return drops. `overlooked` is history: threads that
were in the hook, unseen, when the worker decided that nobody was (a poll that
found zero, a verdict, or a clean error, which does not poll).

### HookLifecycle

The worker is `OpenFails`, `Open`, `WaitModules`, `InstallEngine`, `Install`,
`Ready`, `Toggle`, `Stopping`, `Restore`, `Judge`, `Drop`, in `run()`'s order;
`CleanupAfter`, `JudgedAfter` and `FailCode` are the lists of its failure
branches. The controller is `Refuse`, `Inject`, `StartWorker`, `WaitReady`,
`Shutdown`, `WaitWorker`, `Free`; `LateLoad` and `LateFree` are remote threads
that answer after their wait timed out; `Killed` and `Again` are another life of
the controller on the same game.

### SourceJump

`caller` is the game's thread in `show_wr`, `th` the lookup threads (the thread
spawned for the n-th request is n), `sd` the hook worker in `shutdown`. Each
section under STATE is one step; the lock of WORKER is a variable because
`show_wr` keeps it from the test of STOP to the new handle. `refused` and
`fetched` are history. `HookLifecycle` has the same thread as `sj`.

### LogRing

Each store of `push_log` and each load of `flush_logs`/`read_log` that a reader
could tell apart is a step. A record is its sequence number; head (level,
length) and body (bytes) of a slot are two words.

### PakFix and MapInstall

A fixer (the game's thread, a watcher per map, the launcher's sweep) is `fix[x]`:
its step, its map, the entries to do. `Check` is `dest.exists()`, `Create` and
`Write` the two halves of `fs::write` on the temporary file, `Rename` the step
that makes it visible; `Refuse`, `Stop` and `Abandon` are the ways an entry fails.
A loose file's content is the map it was taken from, so that two maps which pack
the same name are told apart.

`main` is the game's thread in `on_serverinfo`: `ServerInfo` (the cached
checksums, refreshed or not), `Ensure` (the sidecar, the download and its
verification), `Install`, the sidecar's write (`CutSidecar`/`WriteSidecar` on
Linux, where `fs::write` empties the file first; `ReplaceSidecar` on Windows,
which renames a temporary one over it), `Fix...`, `Watch`, `Spawn`.
`watcher[m]` is a watcher thread: `PollTarget` and `PollOwn` are the two
candidates of one round, `Look` compares the size with that of the round before,
`GiveUp` and `Cleanup` are its end. `Grow` is the game's own download, `Delete` a
player, `SweepFile` the launcher, `Crash` the end of the game at any step.
`lost` and `spoilt` are history: maps that were replaced and not yet noted, and
entries an extraction of which failed.

### RawInput, EngineQueue and GameThread

`RawInput` has `ring_push` as three steps on Windows (`PushBegin`, `PushFill`,
`PushPublish`), where a full ring refuses the new event, and as one on Linux
(`PushOver`), where it takes the place of the oldest; `ring_drain` is `Take` and
`Advance` per event, up to the `Limit` of the mode; `SetSample` starts a tick's
countdown and `ServeBegin` takes the elapsed time off it. An event is told by its
number, and `fate` counts what has become of it in the ring.

On Windows an event has a second way. After `ring_push` the window procedure
passes it to the original (`passing`, `PassOn`), which adds its motion to the
game's accumulators (`stock`). `hooked_get_raw` calls the original in both modes,
which reads and clears them (`ServeBegin`). With mode 1 that motion is the answer
(`given`) and the sum of the ring is thrown away; with mode 2 it is the other way
round (`Outcome`). A change of the mode (`Switch`) and the removal of the hooks
(`ClearGlobals`, a part of `GameThread`'s `Shutdown`) may find an event of which
one way has ended and the other has not (`HalfWay`); `parted` remembers those.

`EngineQueue` has `ArmDemo`, `TakeDemo`, `QueueStop`, `QueueRecord`, `Pump` and
`Run` (the game's console, one command at a time), and another thread's
`EchoCheck`/`EchoPush`. `full` remembers that a command of the last demo found the
queue full.

`GameThread` puts both on the main thread: `PollEvent`/`WindowProc`, `GetRaw`,
`TickBegins` (CreateMove, `SetSample`), `ForceMode`, `StartDemo`, `PumpCommands`,
`ServerInfo`, in the order the two platforms call them; on Linux `InstallStep` is
`init_thread`, hook by hook, while the game calls what is hooked already. `missed`
is history: a call that found no original.

## 3. The runs

| run | bounds | shows |
|---|---|---|
| `ThreadStop` | 2 threads, 2 passes, each patcher acquires once; 138,477 states | `StopIsTotal`; under fairness `EndsUnlessHeapHeld` |
| `ThreadStopExit` | same | finding 1 |
| `CodePatch` | 2 foreign writes; 4,379 states | `ProtectionReturned`, `AnswersAreTrue`, `ForeignBytesRespected`, `RestoreHeals` |
| `SwitchedPatches` | 3 patches, 3 calls, 1 foreign write; 5,675 states | `QuiescentMeansRestored`, `OkMeansUniform` |
| `Prediction` | 2 sites, 3 toggles, 1 foreign write; 7,837 states | `MixedHasCause`, `FlagIsTrue`, refinement of `AtomicSwitch` |
| `HookLifecycle` | 2 sessions, 2 toggles; 51,593 states | `UnloadSafeMeansQuiet`, `FreedOnlyWhenQuiet`, `StartsFresh`; under fairness `WorkerEnds` |
| `CallbackDrain` | 3 threads, symmetric; 14,677 states | `OnlyOverlookedAtRisk`, `OnlyOverlookedSwallowed`, `BlockOutlivesCallbacks` |
| `SourceJump` | 2 maps, 4 requests; 13,737 states | `OneWorker`, `PendingIsServed`, `StoppedForGood` |
| `SourceJumpLanding` | same | finding 2 |
| `LogRing` | 2 writers, 2 slots, 5 records; 158,472 states | `EmittedWhole`, `PresentIsEmitted` |
| `MapInstall` | 2 maps that pack the same asset, 2 versions, 4 fixers; 272,724 states | `MapAsAsked`, `LooseFilesSafe`; under fairness `WatchersFinish` |
| `GameThread` | ring of 2, 3 events, queue of 2, 1 map, 1 line of the lookup, clock to 2; 5.6 million states | `MotionServed`, `DemosAsAnnounced`, `OriginalReached` |

Each run also has its module's type invariant, `TypeOK` (`PatchTypeOK` in
`CodePatch` and `LogTypeOK` in `LogRing`, whose initial states, steps and
specifications carry the same prefixes, so that one module of proofs can extend
them beside another).

**Why the bounds are enough to be interesting.** `ThreadStop`: two passes are
the least in which a second pass sees what the first missed; two threads let one
hold the heap while the other is created, ends, or is held by the other patcher,
and, since the ids of ended threads are used again, are enough for new threads
to be listed after the last pass (the churn failure);
the safety properties are proved for all values. `CodePatch` has no bound but
foreign writes: calls repeat for ever. `SwitchedPatches`: with three patches a
failure has patches before and behind it; three calls give off, on, off after a
failure. `Prediction`: the code has two sites. `HookLifecycle`: two sessions are
one predecessor and one heir; a third would only repeat the second, since the
state left behind is the same; two toggles reach both switches, or one switch
twice. `CallbackDrain`: one hook has two threads at most that matter to each
other through the counter; three leave one over. `SourceJump`: two maps are what
a coalesced request and a refused one differ by, and four requests lead to a
third thread after two changes of mind. `LogRing`: five records go round two
slots twice. `MapInstall`: two maps with one asset in common are what concurrent
extractions collide over; two versions are what a stale sidecar confuses; one
entry of `WATCHING` makes the second watcher be refused; two polls without
progress let a file change once in between; two requests or deletions, and one
crash or swept file, give install, crash, and a join that trusts what is left.
`GameThread`: three events overfill a ring of two and go round it; a queue of two
is the least that takes `stop` and `record`, and one other command fills it; the
sample is one unit long and the clock goes from 1 to 2, so that a countdown is
served from before its end and at it. Within these bounds the mode changes with an
event half-way, in both directions: an event that is doubled, one that is thrown
away twice, and one that a removal drops are all reached, and are why `parted` is
in the property.

**Deadlock checking is off everywhere.** All modules describe programs that end,
or that run for a bounded number of calls. The one wait that may have no end,
the worker's for the heap, is what `EndsUnlessHeapHeld` is about.

**Fairness.** `ThreadStop!FairSpec`: weak fairness of the controller's steps, of
leaving the heap's lock and of the clock; strong fairness of the worker's steps,
because its allocation is enabled again and again rather than throughout while
the game's threads take turns on the heap's lock (a lock that is handed out
fairly enough that nobody starves), and it may be suspended and resumed by the
controller. `HookLifecycle!FairSpec`: weak fairness of the worker and of the
controller, whose waits all have timeouts or poll. No fairness for key presses,
kills, restarts, or game threads creating and ending. `MapInstall!Spec`: weak
fairness of each watcher thread and of the fixer it runs, which sleep and poll and
wait for nobody; none of the joins, the game's download, its thread, the sweep or
the crash. The other modules state safety only.

## 4. Findings

1. `ThreadStopExit`: the CHANGELOG's tolerance of thread exit "during Windows
   patch transactions" is that of the hook's guard only. In the controller a
   thread that ends between `OpenThread` and `SuspendThread` fails the
   transaction (`ctl/windows.rs:674`).
2. `SourceJumpLanding`: map A, then B, then A again while A is looked up. The
   second A is refused because A is marked as shown, B stays pending, and the
   records printed last are B's.

**Limits the properties name.** These are exceptions written into properties that
hold, or consequences of what the code does not do:

- The callback counter cannot show a thread in the first and last instructions of
  a callback. Only such a thread is at risk when the DLL goes (`OnlyOverlookedAtRisk`).
- An overrun of the log ring while it is being drained is not reported.
- A game that ends between the rename of a map and the write of its sidecar, or a
  sidecar that cannot be written, leaves a sidecar that names the map before; it
  is believed when that version is asked for again (`MapAsAsked`, `lost`).
- Between the patch of ProcessServerInfo and the store of its original, a call
  jumps to address zero (`OriginalReached`). CreateMove's is published first.
- A full command queue drops `record`, and the recording is announced all the same
  (`DemosAsAnnounced`, `full`).
- `pakfix.rs` says that it never overwrites an existing file. A file that appears
  between its check and its rename is replaced; in this system by another whole
  extraction of the same name (`LooseFilesSafe`).
- `restore()` of a switched feature answers Ok without looking when `enabled` is
  down, also after an enable whose rollback failed and left the bytes mixed
  (`viewpunch.rs:170-172`). `DIRTY` is up then and the DLL stays (`OkMeansUniform`).
- On Linux the countdown of a new tick goes on from the serve before it, since
  `rawinput.rs:273` sets `SAMPLE_REMAINING` and not `LAST_SERVE_WALL`. What is
  served may belong to the next tick by up to the time between that serve and the
  tick's start, contrary to the boundary that `rawinput.rs:222-225` describes.
  `OldEnough` states the boundary of each platform (`CountedFrom`).
- On Windows an event that is half-way, in the ring or in the accumulators only,
  when `m_rawinput` changes or the hooks are removed may be lost or given twice
  (`GivenOnce`, `parted`). From 1 to 2 nothing is doubled of what the accumulators
  gave before, because mode 1 drains the ring as well.
- A full ring loses an event: the newest on Windows (with mode 2; with mode 1 the
  accumulators have it), the oldest on Linux.
- A download of the game that is there in part when the server is joined is taken
  for the map: the fix is tried on it at once and fails, and no watcher starts.
- The first stop after `PTRACE_ATTACH` may be that of another signal; the pending
  `SIGSTOP` then arrives after the detach. The models take a confirmed stop as
  that of the attach.

## 5. The proofs

TLAPS checks the following for all values of the constants, from the named
assumptions of the modules only (the kinds of actor are distinct, bounds are
natural numbers, at least one pass, one patch, one site, one slot; file contents
and sizes are told from "no file", and packs hold assets; the set of game threads is finite
in `CallbackDrain`; samples are natural numbers, and the time that does not come
is after the clock's bound). Every invariant, action
property and refinement that a passing run checks is stated by a theorem; what
is left to TLC is at the end of this section. `CodePatch` is proved about beside
`ThreadStop`, whose stop its writes rely on, and `LogRing` beside `HookLifecycle`,
which it serves; the pairs share no variable and no proof.

- **`PatchingProofs`**, `ThreadStop`: `TypeCorrect`, `TotalStop`.
  `StopIsTotal` is not inductive: that no thread *runs* now says nothing of the
  next step, where one might be created or released by the other patcher. The
  invariant adds `HoldsAll`: while a patcher is stopped, its own guard holds
  every other live thread. A new thread needs a running parent, and there is
  none; the other patcher's `Resume` does not touch this guard. `HasOpened` (a
  patcher about to suspend has a thread to suspend) is what the types need.
- **`PatchingProofs`**, `CodePatch`: `PatchTyped`, `ProtectionKept`,
  `HonestAnswers`, `ForeignRespected`, `RestoreDoesHeal`. The invariant says which
  steps belong to which call (`Course`); that the protection every write puts back
  is the first one (`FirstKept`), so that a failure in between cannot make the
  writable one permanent without tainting (`WritableIsTainted`); what a check has
  seen and what foreign code may have done to it since (`Checked`); and that
  `apply` restores or rolls back only what is tainted (`Unsettled`). The four
  properties are then about single steps from such states.
- **`SwitchedPatchesProofs`**: `Quiescence`, `TypeCorrect`, `OkIsUniform`. The
  invariant says that `DIRTY` is up during a call (`DirtyWhileWorking`), that an
  enabling call started from a switch that was off (`EnableFromOff`), and that the
  patches the restoring loop has already passed without an error are quiet
  (`BehindIsQuiet`); at the end of the loop these are all. For the answers of calls that worked, the
  applying loop leaves no original bytes behind either (`BehindIsApplied`). Only a
  restore that finds the switch off answers at once (`EarlyOk`); it has done nothing,
  and with `DIRTY` down no byte differs from off. With `DIRTY` up some may, which is
  the exception `OkMeansUniform` names.
- **`CallbackDrainProofs`**: `FreedUnderOverlookedOnly`,
  `SwallowedOverlookedOnly`, `BlockOutlives`, `CallbackDrainTyped`. The invariant
  ties the counter to the number of threads between the increment and the
  decrement (`CountIsExact`, with the theorems on finite sets), so that zero means
  none and the unsigned counter never wraps; says of each step of the worker what
  holds there (`Working`); and that from the poll on, every thread still inside
  was recorded as overlooked (`Accounted`). No thread can enter once the entry is
  restored, which closes the argument.
- **`SourceJumpProofs`**: `SingleLookup`, `NoLostRequest`, `ShutdownIsFinal`,
  `SourceJumpTyped`. `inflight` is a token (`OneOwner`): it is held by the one
  thread that looks or by the caller about to spawn it, and a token that is up has
  an owner. `shutdown` lowers it without being the owner, which is sound because
  the thread it joins is the one that looks (`HandleKept`) and because the lock of
  WORKER keeps a spawn from following STOP (`LockOwned`).
- **`PredictionProofs`**: `TypeCorrect`, `MixedExplained`, `FlagBelieved`, and the
  refinement `SwitchIsAtomic`. While the game is stopped, what it has seen is
  either what is written (before the first write) or one side of the switch
  (`StopHolds`, `Loops`): the sites behind the writing loop are switched, those
  behind the rollback are back. `Answers` says what Ok and Err leave when the stop
  ends, so that `Resume` is one step of `AtomicSwitch` or none. `Switched` and
  `Believed` carry main's flag from the toggle to the answer. Each step is then
  shown to be `SeesOneStep`, which is `AtomicSwitch`'s next-state relation.
- **`HookLifecycleProofs`**: `VerdictHolds`, `UnloadedWhenQuiet`, `FreshStart`,
  `LifecycleTyped`. Three arguments meet. References: a controller at work, and
  every FreeLibrary nobody waits for, has a load of its own (`References`), and
  whenever the last may go nothing is hooked (`GoneIsQuiet`). Features: DIRTY is
  up over whatever is left until a restore fails (`Linked`); what has not had its
  turn is not there (`Untried`); a failure path judges everything that may be left
  (`Restoring`, with the lists of `run()` one by one). And the lookups are shut
  down before the verdict. `SafeIsQuiet` puts them together. For the types, each
  session loads the DLL at most once, at once or late (`Counted`), which bounds
  the load count by the number of sessions.
- **`HookLifecycleProofs`**, `LogRing`: `LogTyped`, `RecordsWhole`,
  `NoRecordSkipped`. Two records share a slot only if they are a whole ring apart
  (`SlotShared`). One writer is past the lock, with the last number
  (`OneWrites`), and stores invalidation, body, head and number in this order
  (`InOrder`), so that a number in a slot is that of a whole record
  (`PublishedWhole`), and a record that is not in its slot has been overwritten or
  is still being written (`Present`). The reader's argument is `Snapshot`: as long
  as the number it started from is still there, what it has copied is that record;
  the recheck asks exactly this.
- **`MapInstallProofs`**: `BelievedIsTrue`, `WholeAndKept`, `MapInstallTyped`,
  `WatchersServe`.
  `SidecarTrue`: a sidecar names the map's version, or there is no map, or the map
  is in `lost`; between rename and sidecar the map is the one asked for. For the
  loose files: the temporary name belongs to one fixer (`PartWhole`), and from its
  check on the entry is not the player's (`NotPlayers`), because other fixers only
  ever put maps' files there. `WatchTyped` counts the watchers.
  `WatchersServe` is the safe half of `WatchersFinish` (`ServedAtEnd`). What a
  fixer has behind it is settled (`Progress`). A whole download stays whole and is
  looked at once more (`SeenWhole`). A map that appears while it is watched was
  put there by the game's thread, which extracts its entries itself (`Handed`)
  before the player can delete it (`SeenThere`): so a watcher that saw a map and
  lost it has nothing left to do. That holds for any number of joins and
  deletions; two of them in the run would be too few to install, see and delete.
- **`GameThreadProofs`**, the installation: `OriginalFound`, by what each stage
  has published (`MovePublished`, `InfoStored`, `PollFirst`).
- **`GameThreadProofs`**, the mouse: `MotionAccounted`. `RingInv` says that each
  event seen so far has one fate, or is in the window between the two indices and
  has none (`Accounted`); the window's slots hold different events (`Queued`);
  the one being pushed has a free slot that the reader will not reach
  (`Pushing`); the one being served is still the oldest, also when Linux takes
  the oldest's slot for a new event (`Serving`). Indices only grow and slots are
  taken modulo the capacity; that two indices of one window never meet in a slot
  is `SameRemainder` (`FreeSlot`). `WaysInv` follows an event through both ways of
  Windows: it goes into the accumulators once and after the ring (`Once`); a drain
  of mode 1 has no limit, so it leaves nothing in the ring of what the accumulators
  gave (`Whole`); and so an event that no change parted is served from one of the
  two and ends in the other, or both are still to come (`Ways`). Linux has the ring
  alone (`RingOnly`). A change of the mode keeps this because it is about events
  that are not half-way (`NotHalfWay`). `AgeInv` is about time: the rest of the
  tick and the last serve add up to the end of the tick at least, counted from
  where the platform starts it (`Countdown`), so that a serve's threshold is before
  the rest of the tick (`Threshold`).
- **`GameThreadProofs`**, the demos: `DemosRecorded`. `DemoInv` speaks about
  the commands that are to be run next, the batch while `pump` runs one and the
  queue otherwise (`Coming`): in them each `record` follows a `stop` that nothing but plain
  commands separates from it (`InOrder`), the demo being queued has its `stop` in
  the queue or the queue is full (`StopQueued`), and running it all through ends
  with the announced demo unless the queue was full (`Ends`). `InTurn` is what the
  main thread's order gives: a demo is queued in one go.
- `GameThreadTyped` puts the types of these invariants together.

Before a proof, each strengthening was checked by TLC as an invariant of the
run of its module.

**Only model-checked**: the liveness properties (`EndsUnlessHeapHeld`,
`WorkerEnds`, and the first conjunct of `WatchersFinish`; the second is proved).
Liveness and `ENABLED` are out of the prover's reach, and so is what a recursive
definition computes by induction over data, of which there is none here. The two
runs that expect a violation are counterexamples and have nothing to prove.

## 6. What the models leave out

- `SuspendThread` is taken to be effective when it returns. It is asynchronous;
  Windows guarantees it only after `GetThreadContext`, which neither guard calls.
- Where the stopped threads stand. A thread may be stopped inside the bytes that
  are about to be replaced; the code does not look.
- `LogRing` keeps program order of loads and of stores, as on x86-64. Its 32-bit
  sequence is not wrapped; `read_log`'s handling of zero after 2^32 records is
  not exercised.
- A lookup thread whose handle was overwritten (Windows) may still be returning
  when `shutdown` ends. `SourceJump` shows that it does nothing else; whether it
  has left the DLL's code is not known to anybody. `HookLifecycle` counts it as
  gone. Poisoned locks (a panic) are not modelled.
- Key presses are edges; the clock is a nondeterministic timeout, except in
  `RawInput`, where time is a number.
- The Linux ring of mouse events is taken as used by one thread, which is what its
  file says of it; its stores are one step.
- Motion is not added up: an event is served or not. `GameThread` compares time
  stamps, not sums of counts. The game's accumulators, its window procedure and
  its console variable are the game's: they are modelled by what the hooks call.
- `detect_mapname`, which searches the message's memory for the map's name;
  `MapInstall` starts from the right one. HTTP and its retries are one answer:
  the right file, another, or none.
- `poll_downloads` reads the game's download manager to log progress and to flash
  the window; nothing depends on it.
- The viewpunch patch of Linux (one write at the start, never undone), the waits
  for the game's modules and for `client.so`, and the byte-by-byte replacement of
  ProcessServerInfo on Linux.
- A player who replaces a map or puts loose files there while the game runs.
- Signatures and headers (`sig.rs`, `elf.rs`, `pe.rs`, `module.rs`): decoding of
  fixed layouts and searches, whose results are compared again before any write.
- Logging, Win32 declarations, Steam, display and window manager handling.

## 7. What is left

The twelve runs and the eight modules of theorems are as many as are kept here,
so that a full check stays within minutes; a new part would join an existing one.

1. The choice of sites: `select_punch_sites` and the uniqueness that `sig.rs`
   demands, as functions against reference definitions over small inputs, in the
   place of `CodePatch`'s or `SwitchedPatches`' given sites.
2. The answers of `CodePatch` as a relation that `SwitchedPatches` instantiates,
   so that the layering is checked and not read.
