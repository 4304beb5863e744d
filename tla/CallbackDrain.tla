---------------------------- MODULE CallbackDrain ----------------------------
(***************************************************************************)
(* How the hook worker leaves a game whose threads may be inside the DLL   *)
(* (bhopfix-hook/src/windows: rawinput.rs, fastdl.rs, hook.rs, mod.rs,     *)
(* control.rs).  One hooked function is modelled, either                   *)
(*                                                                         *)
(*   - "inline": its first bytes jump into the DLL and a trampoline runs   *)
(*     the bytes that were there (CInputSystem::WindowProc), or            *)
(*   - "pointer": its vtable slot holds the DLL's function (the raw-input, *)
(*     sample-time and server-info hooks).                                 *)
(*                                                                         *)
(* A game thread that calls it jumps into the DLL, counts itself in        *)
(* ACTIVE_CALLBACKS, calls the function's original through ORIGINAL_*,     *)
(* counts itself out and returns.  The worker restores the function, polls *)
(* the counter, frees the trampoline, clears ORIGINAL_*, declares itself   *)
(* quiescent and ends; the controller then unloads the DLL.                *)
(*                                                                         *)
(* Patch writes happen with all threads stopped (ThreadStop), so each is   *)
(* one step here; threads stop wherever they are.                          *)
(***************************************************************************)
EXTENDS Naturals, FiniteSets

CONSTANT Threads   \* the game's threads

ASSUME ThreadsAssumption == IsFiniteSet(Threads)

VARIABLES
  kind,        \* "inline" or "pointer"
  live,        \* the function's entry leads into the DLL
  published,   \* ORIGINAL_* is not zero
  tramp,       \* the trampoline: "none", "allocated" or "freed"
  active,      \* ACTIVE_CALLBACKS
  dirty,       \* DIRTY
  at,          \* per game thread: where it is
  using,       \* per game thread: it has taken the block's address
  block,       \* control::ACTIVE and its view: "mapped", "null", "unmapped"
  worker,      \* where the worker is
  unloadSafe,  \* ControlBlock.unload_safe
  dll,         \* "loaded" or "unloaded"
  overlooked,  \* history: threads in our code when it was declared unused
  swallowed    \* history: threads whose call never reached the original

code == <<kind, live, published, tramp, dirty>>
threads == <<active, at, using, swallowed>>
session == <<block, worker, unloadSafe, dll>>
vars == <<code, threads, session, overlooked>>

Init ==
  /\ kind \in {"inline", "pointer"}
  /\ live = FALSE /\ published = FALSE /\ tramp = "none" /\ dirty = FALSE
  /\ active = 0
  /\ at = [t \in Threads |-> "game"]
  /\ using = [t \in Threads |-> FALSE]
  /\ block = "mapped" /\ worker = "install"
  /\ unloadSafe = FALSE /\ dll = "loaded"
  /\ overlooked = {} /\ swallowed = {}

-----------------------------------------------------------------------------
(* A call of the hooked function by a game thread.                         *)

Move(t, from, to) ==
  /\ at[t] = from /\ ~using[t]
  /\ at' = [at EXCEPT ![t] = to]

\* The entry's jump or the slot's new value: in the DLL, not yet counted.
Enter(t) ==
  /\ live
  /\ Move(t, "game", "entered")
  /\ UNCHANGED <<code, active, using, swallowed, session, overlooked>>

\* Mutation: the callback is not counted.
CountInMissing(t) ==
  /\ Move(t, "entered", "counted")
  /\ UNCHANGED <<code, active, using, swallowed, session, overlooked>>

\* CallbackGuard::enter.
CountIn(t) ==
  /\ Move(t, "entered", "counted")
  /\ active' = active + 1
  /\ UNCHANGED <<code, using, swallowed, session, overlooked>>

\* ORIGINAL_*.load, and the early return when it is zero.
LoadOriginal(t) ==
  /\ Move(t, "counted", IF published THEN "loaded" ELSE "returned")
  /\ swallowed' = IF published THEN swallowed ELSE swallowed \cup {t}
  /\ UNCHANGED <<code, active, using, session, overlooked>>

\* The call through it: an inline hook's goes through the trampoline first.
CallOriginal(t) ==
  /\ Move(t, "loaded", IF kind = "inline" THEN "trampoline" ELSE "original")
  /\ UNCHANGED <<code, active, using, swallowed, session, overlooked>>

ThroughTrampoline(t) ==
  /\ Move(t, "trampoline", "original")
  /\ UNCHANGED <<code, active, using, swallowed, session, overlooked>>

OriginalReturns(t) ==
  /\ Move(t, "original", "returned")
  /\ UNCHANGED <<code, active, using, swallowed, session, overlooked>>

\* CallbackGuard::drop; the epilogue of the function is still to run.
CountOut(t) ==
  /\ Move(t, "returned", "leaving")
  /\ active' = active - 1
  /\ UNCHANGED <<code, using, swallowed, session, overlooked>>

Leave(t) ==
  /\ Move(t, "leaving", "game")
  /\ UNCHANGED <<code, active, using, swallowed, session, overlooked>>

\* record_raw_event, record_raw_serve, flags, emit: the block's address is
\* loaded first and the block used after.
TakeBlock(t) ==
  /\ at[t] \in {"counted", "returned"} /\ ~using[t] /\ block = "mapped"
  /\ using' = [using EXCEPT ![t] = TRUE]
  /\ UNCHANGED <<code, active, at, swallowed, session, overlooked>>

UseBlock(t) ==
  /\ using[t]
  /\ using' = [using EXCEPT ![t] = FALSE]
  /\ UNCHANGED <<code, active, at, swallowed, session, overlooked>>

-----------------------------------------------------------------------------
(* The worker.                                                             *)

Inside(t) == at[t] # "game"
Uncounted(t) == at[t] \in {"entered", "leaving"}

Goto(step) == worker' = step

\* Mutation: ORIGINAL_* is not set before the entry leads into the DLL.
PrepareUnpublished ==
  /\ worker = "install"
  /\ tramp' = IF kind = "inline" THEN "allocated" ELSE tramp
  /\ dirty' = TRUE
  /\ Goto("patch")
  /\ UNCHANGED <<kind, live, published, threads, block, unloadSafe, dll, overlooked>>

\* The trampoline, ORIGINAL_* and DIRTY are there before the first byte.
Prepare ==
  /\ worker = "install"
  /\ tramp' = IF kind = "inline" THEN "allocated" ELSE tramp
  /\ published' = TRUE /\ dirty' = TRUE
  /\ Goto("patch")
  /\ UNCHANGED <<kind, live, threads, block, unloadSafe, dll, overlooked>>

\* What follows a clean install error: nothing but the withdrawal of what was
\* prepared or, for the pointers of rawinput (but not fastdl's), cleanup_hooks.
AfterCleanError ==
  IF kind = "pointer" THEN {"withdraw", "drain"} ELSE {"withdraw"}

\* Patch::install or PointerHook::install (CodePatch): in place; never in
\* place; or in place and, the rollback having failed too, to be restored.
Patch ==
  /\ worker = "patch"
  /\ \/ live' = TRUE /\ Goto("serve")
     \/ live' = FALSE /\ worker' \in AfterCleanError
     \/ live' = TRUE /\ Goto("recover")
  /\ UNCHANGED <<kind, published, tramp, dirty, threads, block, unloadSafe, dll,
                 overlooked>>

\* install's own restore: the error is clean if it succeeds.
Recover ==
  /\ worker = "recover"
  /\ \/ live' = FALSE /\ worker' \in AfterCleanError
     \/ live' \in BOOLEAN /\ Goto("drop")
  /\ UNCHANGED <<kind, published, tramp, dirty, threads, block,
                 unloadSafe, dll, overlooked>>

\* A clean install error: ORIGINAL_* is cleared and the trampoline freed at
\* once, then DIRTY goes down.
Withdraw ==
  /\ worker = "withdraw" /\ published
  /\ published' = FALSE
  /\ overlooked' = overlooked \cup {t \in Threads : Inside(t)}
  /\ UNCHANGED <<kind, live, tramp, dirty, threads, session>>

Discard ==
  /\ worker = "withdraw" /\ ~published
  /\ tramp' = IF tramp = "allocated" THEN "freed" ELSE tramp
  /\ dirty' = FALSE
  /\ Goto("judge")
  /\ UNCHANGED <<kind, live, published, threads, block, unloadSafe, dll,
                 overlooked>>

\* restore: the entry is the game's again, or this is an error.
Restore ==
  /\ worker = "serve"
  /\ \/ live' = FALSE /\ Goto("drain")
     \/ live' \in BOOLEAN /\ Goto("drop")
  /\ UNCHANGED <<kind, published, tramp, dirty, threads, block, unloadSafe, dll,
                 overlooked>>

\* Mutation: nobody waits for the callbacks.
DrainedUnpolled ==
  /\ worker = "drain"
  /\ overlooked' = overlooked \cup {t \in Threads : Uncounted(t)}
  /\ Goto(IF kind = "inline" THEN "release" ELSE "clear")
  /\ UNCHANGED <<code, threads, block, unloadSafe, dll>>

\* The poll of ACTIVE_CALLBACKS, and its end after ten (fastdl: 45) seconds.
Drained ==
  /\ worker = "drain" /\ active = 0
  /\ overlooked' = overlooked \cup {t \in Threads : Uncounted(t)}
  /\ Goto(IF kind = "inline" THEN "release" ELSE "clear")
  /\ UNCHANGED <<code, threads, block, unloadSafe, dll>>

DrainTimeout ==
  /\ worker = "drain" /\ active # 0
  /\ Goto("drop")
  /\ UNCHANGED <<code, threads, block, unloadSafe, dll, overlooked>>

\* release_trampoline.
Release ==
  /\ worker = "release"
  /\ \/ tramp' = "freed" /\ Goto("clear")
     \/ tramp' = tramp /\ Goto("drop")
  /\ UNCHANGED <<kind, live, published, dirty, threads, block, unloadSafe, dll,
                 overlooked>>

\* clear_globals, then DIRTY.
Clear ==
  /\ worker = "clear" /\ published
  /\ published' = FALSE
  /\ UNCHANGED <<kind, live, tramp, dirty, threads, session, overlooked>>

Settle ==
  /\ worker = "clear" /\ ~published
  /\ dirty' = FALSE
  /\ Goto("judge")
  /\ UNCHANGED <<kind, live, published, tramp, threads, block,
                 unloadSafe, dll, overlooked>>

\* is_quiescent and the verdict.  A failed install counts as clean here when
\* nothing of it is left.
Judge ==
  /\ worker = "judge"
  /\ unloadSafe' = (~dirty /\ active = 0)
  /\ overlooked' = IF unloadSafe'
                   THEN overlooked \cup {t \in Threads : Uncounted(t)}
                   ELSE overlooked
  /\ Goto("drop")
  /\ UNCHANGED <<code, threads, block, dll>>

\* run() returns.  A hook it still owns tries its restore once more and keeps
\* its trampoline; then Session::drop withdraws the address and unmaps the
\* view.
DropHooks ==
  /\ worker = "drop" /\ block = "mapped"
  /\ live' \in {live, FALSE}
  /\ block' = "null"
  /\ UNCHANGED <<kind, published, tramp, dirty, threads, worker, unloadSafe, dll,
                 overlooked>>

DropSession ==
  /\ worker = "drop" /\ block = "null"
  /\ block' = "unmapped"
  /\ Goto("exited")
  /\ UNCHANGED <<code, threads, unloadSafe, dll, overlooked>>

\* The controller has seen the worker end and unload_safe set.
Unload ==
  /\ worker = "exited" /\ unloadSafe /\ dll = "loaded"
  /\ dll' = "unloaded"
  /\ UNCHANGED <<code, threads, block, worker, unloadSafe, overlooked>>

GameThread(t) ==
  \/ Enter(t) \/ CountIn(t) \/ LoadOriginal(t) \/ CallOriginal(t)
  \/ ThroughTrampoline(t) \/ OriginalReturns(t) \/ CountOut(t) \/ Leave(t)
  \/ TakeBlock(t) \/ UseBlock(t)

Worker ==
  \/ Prepare \/ Patch \/ Recover \/ Withdraw \/ Discard \/ Restore
  \/ Drained \/ DrainTimeout \/ Release \/ Clear \/ Settle \/ Judge
  \/ DropHooks \/ DropSession

Next == Worker \/ Unload \/ \E t \in Threads : GameThread(t)

Spec == Init /\ [][Next]_vars

-----------------------------------------------------------------------------
(* Properties.                                                             *)

Places == {"game", "entered", "counted", "loaded", "trampoline", "original",
           "returned", "leaving"}
Steps == {"install", "patch", "serve", "recover", "withdraw", "drain",
          "release", "clear", "judge", "drop", "exited"}

\* The variables stay in their ranges.
TypeOK ==
  /\ kind \in {"inline", "pointer"}
  /\ live \in BOOLEAN /\ published \in BOOLEAN /\ dirty \in BOOLEAN
  /\ tramp \in {"none", "allocated", "freed"}
  /\ active \in 0..Cardinality(Threads)
  /\ at \in [Threads -> Places] /\ using \in [Threads -> BOOLEAN]
  /\ block \in {"mapped", "null", "unmapped"}
  /\ worker \in Steps
  /\ unloadSafe \in BOOLEAN /\ dll \in {"loaded", "unloaded"}
  /\ overlooked \subseteq Threads /\ swallowed \subseteq Threads

InDll(t) == at[t] \in {"entered", "counted", "loaded", "returned", "leaving"}

InFreedCode(t) ==
  \/ dll = "unloaded" /\ InDll(t)
  \/ tramp = "freed" /\ at[t] = "trampoline"

\* The count does its work: code is freed under a thread only if the worker
\* could not see the thread, because it was in the few instructions before it
\* counts itself or after it has counted itself out when the poll found zero,
\* or because a clean install error frees without a poll.
OnlyOverlookedAtRisk == \A t \in Threads : InFreedCode(t) => t \in overlooked

\* The same of the game's own call: it is dropped (the hook returns without
\* calling the original) for such threads only.
OnlyOverlookedSwallowed == swallowed \subseteq overlooked

\* When the worker has declared the DLL unused, the control block outlives
\* every callback it could see: none still uses the address after the view is
\* unmapped.
BlockOutlivesCallbacks ==
  \A t \in Threads :
    using[t] /\ block = "unmapped" /\ unloadSafe => t \in overlooked
=============================================================================
