---------------------------- MODULE HookLifecycle ----------------------------
(***************************************************************************)
(* The life of the hook DLL in the game: the controller injects it and     *)
(* starts its worker (inject.rs, main of windows.rs), the worker installs  *)
(* the features, serves, restores them and publishes what became of it     *)
(* through the shared control block (hook windows/mod.rs, control.rs), and *)
(* the controller unloads the DLL, or leaves it in a game that has to be   *)
(* restarted.  The two share nothing but the block; either's waits may     *)
(* time out, every system call may fail and the controller may be killed   *)
(* at any moment and started again.                                        *)
(*                                                                         *)
(* A feature is seen from outside: whether bytes of the game still point   *)
(* into the DLL or are patched (live), what its DIRTY says, and its        *)
(* switch.  What one install, toggle or restore may leave behind is what   *)
(* CodePatch, SwitchedPatches and CallbackDrain establish.                 *)
(***************************************************************************)
EXTENDS Naturals, Sequences

CONSTANTS
  MaxToggles,   \* bound: F6 and F7 presses
  MaxSessions   \* bound: runs of the controller against one game

ASSUME BoundsAssumption == MaxToggles \in Nat /\ MaxSessions \in Nat \ {0}

Features == {"fullscreen", "rawinput", "viewpunch", "fastdl"}
Switched == {"fullscreen", "viewpunch"}    \* with a key and an `enabled` flag

VARIABLES
  \* the game process
  refs,        \* load count of the DLL
  loaders,     \* LoadLibrary threads a controller gave up on
  freers,      \* FreeLibrary threads a controller gave up on
  live,        \* per feature: the game's memory refers to it
  dirty,       \* per feature: its static DIRTY
  enabled,     \* per feature: Hooks.enabled (TRUE throughout for the others)
  engine,      \* engine::Integration is ready
  sj,          \* sourcejump: "off", "on", or "busy" with its worker thread
  \* the control block
  state, stop, unloadSafe, error,
  \* the worker thread
  worker,      \* where run() is
  installed,   \* how many features of InstallOrder are installed
  todo,        \* restores still to do
  judged,      \* the features whose is_quiescent decides
  cleanupOk,   \* no restore has failed
  code,        \* the code to fail with, 0 on the way of a stop
  exitCode,
  owner,       \* the session whose controller it watches
  toggles,
  \* the controller
  ctl,         \* where it is
  result,      \* what it concluded: "none", "unloaded" or "remains"
  sessions

block == <<state, stop, unloadSafe, error>>
hooks == <<live, dirty, enabled>>
run == <<installed, todo, judged, cleanupOk, code>>
game == <<refs, loaders, freers>>
controller == <<ctl, result, sessions>>
worker_side == <<hooks, engine, sj, run, exitCode, owner, toggles>>
vars == <<game, worker_side, worker, block, controller>>

InstallOrder == <<"fullscreen", "rawinput", "viewpunch", "fastdl">>

\* What run() restores when the n-th install fails, and at the end.
CleanupAfter == << <<>>, <<>>, <<"rawinput">>, <<"viewpunch", "rawinput">> >>
ShutdownOrder == <<"fastdl", "fullscreen", "viewpunch", "rawinput">>

\* The is_quiescent calls that decide after the n-th install failed.
JudgedAfter == << {}, {"rawinput", "fullscreen"},
                  {"rawinput", "viewpunch", "fullscreen"}, Features >>

FailCode == <<6, 7, 8, 9>>

Init ==
  /\ refs = 0 /\ loaders = 0 /\ freers = 0
  /\ live = [f \in Features |-> FALSE]
  /\ dirty = [f \in Features |-> FALSE]
  /\ enabled = [f \in Features |-> f \notin Switched]
  /\ engine = FALSE /\ sj = "off"
  /\ state = "none" /\ stop = FALSE /\ unloadSafe = FALSE /\ error = 0
  /\ worker = "none"
  /\ installed = 0 /\ todo = <<>> /\ judged = {} /\ cleanupOk = TRUE
  /\ code = 0 /\ exitCode = 0 /\ owner = 0 /\ toggles = 0
  /\ ctl = "inject" /\ result = "none" /\ sessions = 1

-----------------------------------------------------------------------------
(* What the operations of a feature may do.                                *)

Set(f, l, d, e) ==
  /\ live' = [live EXCEPT ![f] = l]
  /\ dirty' = [dirty EXCEPT ![f] = d]
  /\ enabled' = [enabled EXCEPT ![f] = e]

\* Hooks::install: the fullscreen patches are only prepared, and so are the
\* viewpunch patches when the user keeps viewpunch; an error either undid
\* everything or leaves DIRTY up.
InstallFeature(f, ok) ==
  \/ f = "fullscreen" /\ Set(f, FALSE, FALSE, FALSE)
  \/ f = "viewpunch" /\ ok /\ \E initial \in BOOLEAN : Set(f, initial, initial, initial)
  \/ f \notin Switched /\ ok /\ Set(f, TRUE, TRUE, TRUE)
  \/ /\ f # "fullscreen" /\ ~ok
     /\ \/ Set(f, FALSE, FALSE, enabled[f])
        \/ \E l \in BOOLEAN : Set(f, l, TRUE, enabled[f])

\* restore: nothing to do for a switch that is off; otherwise Ok means undone
\* (and the callbacks drained), an error leaves DIRTY as it is.
RestoreFeature(f, ok) ==
  IF ~enabled[f]
  THEN ok /\ UNCHANGED hooks
  ELSE \/ ok /\ Set(f, FALSE, FALSE, f \notin Switched)
       \/ ~ok /\ \E l \in BOOLEAN : Set(f, l, dirty[f], TRUE)

\* toggle (SwitchedPatches).
ToggleFeature(f) ==
  \/ ~enabled[f] /\ Set(f, TRUE, TRUE, TRUE)
  \/ ~enabled[f] /\ Set(f, FALSE, FALSE, FALSE)
  \/ enabled[f] /\ Set(f, FALSE, FALSE, FALSE)
  \/ \E l \in BOOLEAN : Set(f, l, TRUE, enabled[f])

-----------------------------------------------------------------------------
(* The worker: run().                                                      *)

\* The process of the controller that started the worker is gone; its handle
\* of that process is signaled, whoever has been started since.
Orphan == owner # sessions \/ ctl \in {"dead", "done"}

\* Mutation: a controller that dies is not noticed.
ShouldStopWhenTold == stop

ShouldStop == stop \/ Orphan

\* fail(): the error, unload_safe and features first, the state last.
FailWith(c, safe) ==
  /\ error' = c
  /\ unloadSafe' = (unloadSafe \/ safe)
  /\ state' = "failed"
  /\ worker' = "drop" /\ exitCode' = c
  /\ UNCHANGED stop

StoppedCleanly ==
  /\ unloadSafe' = TRUE /\ state' = "stopped"
  /\ worker' = "drop" /\ exitCode' = 0
  /\ UNCHANGED <<stop, error>>

\* Session::open fails and nothing is published.
OpenFails ==
  /\ worker = "open"
  /\ worker' = "exited" /\ exitCode' = 1
  /\ UNCHANGED <<game, hooks, engine, sj, block, run, owner, toggles, controller>>

\* The block is new, and -insecure is on the command line or not.
Open ==
  /\ worker = "open" /\ state = "created" /\ ~Orphan
  /\ \/ /\ state' = "starting" /\ worker' = "modules"
        /\ UNCHANGED <<stop, unloadSafe, error, exitCode>>
     \/ FailWith(3, TRUE)
  /\ UNCHANGED <<game, hooks, engine, sj, run, owner, toggles, controller>>

\* wait_for_modules ends: found, stopped, or after 30 seconds.
WaitModules ==
  /\ worker = "modules"
  /\ \/ /\ worker' = "engine"
        /\ UNCHANGED <<block, exitCode>>
     \/ IF ShouldStop THEN StoppedCleanly ELSE FailWith(4, TRUE)
  /\ UNCHANGED <<game, hooks, engine, sj, run, owner, toggles, controller>>

InstallEngine ==
  /\ worker = "engine"
  /\ \/ /\ worker' = "install" /\ engine' = TRUE
        /\ UNCHANGED <<block, exitCode>>
     \/ /\ FailWith(5, TRUE)
        /\ UNCHANGED engine
  /\ UNCHANGED <<game, hooks, sj, run, owner, toggles, controller>>

\* The next feature; sourcejump starts just before fastdl.
Install ==
  /\ worker = "install" /\ installed < 4
  /\ LET n == installed + 1 IN
       \E ok \in BOOLEAN :
         /\ InstallFeature(InstallOrder[n], ok)
         /\ installed' = IF ok THEN n ELSE installed
         /\ sj' = CASE n = 4 /\ ~ok -> "off"
                    [] n = 3 /\ ok -> "on"
                    [] OTHER -> sj
         /\ \/ /\ ok
               /\ UNCHANGED <<worker, todo, judged, code>>
            \/ /\ ~ok
               /\ worker' = "restore"
               /\ todo' = CleanupAfter[n]
               /\ judged' = JudgedAfter[n]
               /\ code' = FailCode[n]
  /\ UNCHANGED <<game, engine, block, cleanupOk, exitCode, owner, toggles,
                 controller>>

Ready ==
  /\ worker = "install" /\ installed = 4
  /\ worker' = "loop" /\ state' = "ready"
  /\ UNCHANGED <<game, hooks, engine, sj, stop, unloadSafe, error, run,
                 exitCode, owner, toggles, controller>>

\* F6 and F7.
Toggle ==
  /\ worker = "loop" /\ toggles < MaxToggles
  /\ toggles' = toggles + 1
  /\ \E f \in Switched : ToggleFeature(f)
  /\ UNCHANGED <<game, engine, sj, block, worker, run, exitCode, owner,
                 controller>>

\* A map load seen by the fastdl hook asks sourcejump for a record, which
\* may keep a thread of the DLL busy for a while.
ShowRecord ==
  /\ \/ live["fastdl"] /\ sj = "on" /\ sj' = "busy"
     \/ sj = "busy" /\ sj' = "on"
  /\ UNCHANGED <<game, hooks, engine, block, worker, run, exitCode, owner,
                 toggles, controller>>

Stopping ==
  /\ worker = "loop" /\ ShouldStop
  /\ worker' = "restore" /\ state' = "stopping"
  /\ todo' = ShutdownOrder /\ judged' = Features /\ code' = 0
  /\ UNCHANGED <<game, hooks, engine, sj, stop, unloadSafe, error, installed,
                 cleanupOk, exitCode, owner, toggles,
                 controller>>

\* The next restore; sourcejump is shut down and joined after fastdl.
Restore ==
  /\ worker = "restore" /\ todo # <<>>
  /\ \E ok \in BOOLEAN :
       /\ RestoreFeature(Head(todo), ok)
       /\ cleanupOk' = (cleanupOk /\ ok)
  /\ sj' = IF Head(todo) = "fastdl" THEN "off" ELSE sj
  /\ todo' = Tail(todo)
  /\ UNCHANGED <<game, engine, block, worker, installed, judged, code,
                 exitCode, owner, toggles, controller>>

\* Mutation: the verdict trusts the restores.
VerdictOnErrors(busy) == cleanupOk

\* engine.shutdown, then the verdict.  A callback that has just been counted
\* makes rawinput and fastdl not quiescent although their DIRTY is down.
Verdict(busy) ==
  /\ cleanupOk
  /\ \A f \in judged : ~dirty[f]
  /\ judged \cap {"rawinput", "fastdl"} # {} => ~busy

Judge ==
  /\ worker = "restore" /\ todo = <<>>
  /\ engine' = FALSE
  /\ \E busy \in BOOLEAN :
       \/ code # 0 /\ FailWith(code, Verdict(busy))
       \/ code = 0 /\ Verdict(busy) /\ StoppedCleanly
       \/ code = 0 /\ ~Verdict(busy) /\ FailWith(10, FALSE)
  /\ UNCHANGED <<game, hooks, sj, run, owner, toggles, controller>>

\* run() returns: what it still owns is dropped, and each Patch tries to
\* restore once more.  Objects leaked as dirty are not touched.  Then the
\* thread ends.
Drop ==
  /\ worker = "drop"
  /\ \E gone \in SUBSET {f \in Features : live[f]} :
       live' = [f \in Features |-> live[f] /\ f \notin gone]
  /\ engine' = FALSE
  /\ worker' = "exited"
  /\ UNCHANGED <<game, dirty, enabled, sj, block, run, exitCode, owner,
                 toggles, controller>>

-----------------------------------------------------------------------------
(* The controller.                                                         *)

\* Mutation: nobody looks whether the DLL is there.
LoadedUnchecked == FALSE

\* Nobody injects into a game that has the DLL already.
Loaded == refs > 0

Refuse ==
  /\ ctl = "inject" /\ Loaded
  /\ ctl' = "done" /\ result' = "remains"
  /\ UNCHANGED <<game, worker_side, worker, block, sessions>>

\* The statics of a DLL that has just been loaded.
FreshDll ==
  /\ live' = [f \in Features |-> FALSE]
  /\ dirty' = [f \in Features |-> FALSE]
  /\ enabled' = [f \in Features |-> f \notin Switched]
  /\ engine' = FALSE /\ sj' = "off"

\* LoadLibrary of a DLL that is there only counts.
LoadLibrary ==
  /\ refs' = refs + 1
  /\ IF refs = 0 THEN FreshDll ELSE UNCHANGED <<hooks, engine, sj>>

\* Mapping::create publishes a new block, then a remote thread loads the DLL.
\* A loader that does not answer in 15 seconds is given up, not stopped.
Inject ==
  /\ ctl = "inject" /\ ~Loaded
  /\ state' = "created" /\ stop' = FALSE /\ unloadSafe' = FALSE /\ error' = 0
  /\ worker' = "none"
  /\ installed' = 0 /\ todo' = <<>> /\ judged' = {} /\ cleanupOk' = TRUE
  /\ code' = 0 /\ exitCode' = 0
  /\ \/ /\ ctl' = "start"
        /\ LoadLibrary
        /\ UNCHANGED <<loaders, result>>
     \/ /\ ctl' = "done" /\ result' = "remains"
        /\ loaders' = loaders + 1
        /\ UNCHANGED <<refs, hooks, engine, sj>>
  /\ UNCHANGED <<freers, owner, toggles, sessions>>

\* A loader nobody waits for finishes.
LateLoad ==
  /\ loaders > 0
  /\ loaders' = loaders - 1
  /\ LoadLibrary
  /\ UNCHANGED <<freers, run, exitCode, owner, toggles, worker, block, controller>>

\* start_remote(bhopfix_start).
StartWorker ==
  /\ ctl = "start"
  /\ \/ /\ worker' = "open" /\ owner' = sessions /\ ctl' = "waitReady"
     \/ /\ ctl' = "free"
        /\ UNCHANGED <<worker, owner>>
  /\ UNCHANGED <<game, hooks, engine, sj, run, exitCode, toggles, block, result,
                 sessions>>

\* wait_ready: ready; failed, ended or 30 seconds over.
WaitReady ==
  /\ ctl = "waitReady"
  /\ \/ /\ state = "ready" /\ ctl' = "running"
        /\ UNCHANGED stop
     \/ /\ state # "ready" \/ worker = "exited"
        /\ ctl' = "startupFailure" /\ stop' = TRUE
  /\ UNCHANGED <<game, worker_side, worker, state, unloadSafe, error, result,
                 sessions>>

\* Ctrl+C, or the first prediction transaction failed.
Shutdown ==
  /\ ctl = "running"
  /\ ctl' = "shutdown" /\ stop' = TRUE
  /\ UNCHANGED <<game, worker_side, worker, state, unloadSafe, error, result,
                 sessions>>

\* Mutation: the worker's end is enough.
MayFreeAnyway == worker = "exited"

\* wait_thread ends with the worker's exit, or gives up.
MayFree ==
  /\ worker = "exited" /\ unloadSafe
  /\ ctl = "shutdown" => state = "stopped" /\ exitCode = 0

WaitWorker ==
  /\ ctl \in {"startupFailure", "shutdown"}
  /\ \/ /\ worker = "exited" /\ MayFree
        /\ ctl' = "free"
        /\ UNCHANGED result
     \/ /\ ~MayFree
        /\ ctl' = "done" /\ result' = "remains"
  /\ UNCHANGED <<game, worker_side, worker, block, sessions>>

\* Mutation: a FreeLibrary that timed out is tried again.
FreeAgain ==
  /\ ctl = "free"
  /\ \/ refs' = refs - 1 /\ ctl' = "done" /\ UNCHANGED freers
     \/ freers' = freers + 1 /\ UNCHANGED <<refs, ctl>>
  /\ UNCHANGED <<loaders, worker_side, worker, block, sessions, result>>

\* free_remote_library: the load count goes down and the module list says
\* whether that was the last; or no FreeLibrary runs, or not within its ten
\* seconds.
Free ==
  /\ ctl = "free"
  /\ \/ /\ refs' = refs - 1
        /\ result' = IF refs' = 0 THEN "unloaded" ELSE "remains"
        /\ UNCHANGED freers
     \/ /\ result' = "remains"
        /\ freers' \in {freers, freers + 1}
        /\ UNCHANGED refs
  /\ ctl' = "done"
  /\ UNCHANGED <<loaders, worker_side, worker, block, sessions>>

\* A FreeLibrary nobody waits for finishes.
LateFree ==
  /\ freers > 0
  /\ freers' = freers - 1 /\ refs' = refs - 1
  /\ UNCHANGED <<loaders, worker_side, worker, block, controller>>

\* The controller is killed, between any two of its steps.
Killed ==
  /\ ctl \notin {"dead", "done"}
  /\ ctl' = "dead"
  /\ UNCHANGED <<game, worker_side, worker, block, result, sessions>>

\* Somebody starts it again on the same game.
Again ==
  /\ ctl \in {"dead", "done"} /\ sessions < MaxSessions
  /\ sessions' = sessions + 1
  /\ ctl' = "inject" /\ result' = "none"
  /\ UNCHANGED <<game, worker_side, worker, block>>

Worker == OpenFails \/ Open \/ WaitModules \/ InstallEngine \/ Install \/ Ready
          \/ Stopping \/ Restore \/ Judge \/ Drop
Controller == Refuse \/ Inject \/ StartWorker \/ WaitReady \/ WaitWorker \/ Free

Next == Worker \/ Controller \/ Toggle \/ ShowRecord \/ Shutdown \/ LateLoad
        \/ LateFree \/ Killed \/ Again

Spec == Init /\ [][Next]_vars

\* The worker's loops and the controller's waits go on; nobody has to press a
\* key, stop, kill or restart anything.
FairSpec == Spec /\ WF_vars(Worker) /\ WF_vars(Controller)

-----------------------------------------------------------------------------
(* Properties.                                                             *)

WorkerStates == {"none", "open", "modules", "engine", "install", "loop",
                 "restore", "drop", "exited"}
ControllerStates == {"inject", "start", "waitReady", "running", "shutdown",
                     "startupFailure", "free", "done", "dead"}

\* The variables stay in their ranges.
TypeOK ==
  /\ refs \in 0..MaxSessions /\ loaders \in 0..MaxSessions
  /\ freers \in 0..MaxSessions
  /\ live \in [Features -> BOOLEAN] /\ dirty \in [Features -> BOOLEAN]
  /\ enabled \in [Features -> BOOLEAN]
  /\ engine \in BOOLEAN /\ sj \in {"off", "on", "busy"}
  /\ state \in {"none", "created", "starting", "ready", "stopping", "stopped",
                "failed"}
  /\ stop \in BOOLEAN /\ unloadSafe \in BOOLEAN /\ error \in 0..10
  /\ worker \in WorkerStates /\ installed \in 0..4
  /\ judged \in SUBSET Features /\ cleanupOk \in BOOLEAN
  /\ code \in 0..10 /\ exitCode \in 0..10
  /\ owner \in 0..MaxSessions /\ toggles \in 0..MaxToggles
  /\ ctl \in ControllerStates
  /\ result \in {"none", "unloaded", "remains"} /\ sessions \in 1..MaxSessions

\* Nothing of the game refers to the DLL and none of its threads but the
\* worker is in it.
Quiet == ~engine /\ sj = "off" /\ \A f \in Features : ~live[f]

\* unload_safe is published only over a game that is as it was, whichever
\* install, toggle or restore failed before, and stays true of it.
UnloadSafeMeansQuiet == unloadSafe => Quiet

\* The DLL is gone only from a game that is as it was and whose worker has
\* ended, across controllers that time out, are killed and started again
\* ("bhopfix.dll is unloaded only after hooks are restored", README.md).
FreedOnlyWhenQuiet == refs = 0 => Quiet /\ worker \in {"none", "exited"}

\* A worker starts in a DLL whose statics are new, never in what an earlier
\* session left behind: its DIRTY flags are about its own hooks.
StartsFresh == worker = "open" => Quiet /\ \A f \in Features : ~dirty[f]

\* A worker that is told to stop, or whose controller has died, ends.
WorkerEnds ==
  worker # "none" /\ (stop \/ Orphan) ~> worker \in {"none", "exited"}
=============================================================================
