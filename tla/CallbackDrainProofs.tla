------------------------- MODULE CallbackDrainProofs -------------------------
(***************************************************************************)
(* The callback count does its work, for any finite set of game threads:   *)
(* only threads the worker could not see are ever in freed code, lose      *)
(* their call or use the control block after it is unmapped.               *)
(*                                                                         *)
(* The three properties have one reason, Accounted: from the moment        *)
(* anything is taken away - ORIGINAL_* cleared, the trampoline freed, the  *)
(* DLL declared safe to unload - the entry leads to the game again and     *)
(* every thread that is still inside has been overlooked.  The poll        *)
(* establishes it because ACTIVE_CALLBACKS is the number of counted        *)
(* threads (CountIsExact).                                                 *)
(***************************************************************************)
EXTENDS CallbackDrain, FiniteSetTheorems, TLAPS

CountedPlaces == {"counted", "loaded", "trampoline", "original", "returned"}
Counted == {t \in Threads : at[t] \in CountedPlaces}

Ranges ==
  /\ at \in [Threads -> Places] /\ using \in [Threads -> BOOLEAN]
  /\ live \in BOOLEAN /\ published \in BOOLEAN /\ unloadSafe \in BOOLEAN
  /\ overlooked \subseteq Threads /\ swallowed \subseteq Threads

CountIsExact == active = Cardinality(Counted)

UsersAreInside == \A t \in Threads : using[t] => at[t] \in {"counted", "returned"}

\* While the hook works nothing has been taken away.
Working ==
  /\ worker \in {"install", "patch", "serve", "recover", "withdraw", "drain"} =>
       tramp # "freed" /\ ~unloadSafe
  /\ worker \in {"patch", "serve", "recover", "drain"} => published
  /\ worker \in {"install", "withdraw", "drain"} => ~live

TakenAway ==
  \/ ~published \/ tramp = "freed" \/ unloadSafe
  \/ worker \in {"release", "clear", "judge"}

Accounted ==
  TakenAway => ~live /\ \A t \in Threads : Inside(t) => t \in overlooked

UnloadedWhenSafe == dll = "unloaded" => unloadSafe /\ worker = "exited"

IInv ==
  /\ Ranges /\ CountIsExact /\ UsersAreInside /\ Working /\ Accounted
  /\ UnloadedWhenSafe /\ OnlyOverlookedSwallowed

LEMMA InitInv == Init => IInv
<1> SUFFICES ASSUME Init PROVE IInv
  OBVIOUS
<1>1. Ranges
  BY DEF Init, Ranges, Places
<1>2. CountIsExact
  <2>1. Counted = {}
    BY DEF Init, Counted, CountedPlaces
  <2>. QED
    BY <2>1, FS_EmptySet DEF Init, CountIsExact
<1>3. UsersAreInside /\ Working /\ UnloadedWhenSafe /\ OnlyOverlookedSwallowed
  BY DEF Init, UsersAreInside, Working, UnloadedWhenSafe, OnlyOverlookedSwallowed
<1>4. Accounted
  BY DEF Init, Accounted, Inside
<1>. QED
  BY <1>1, <1>2, <1>3, <1>4 DEF IInv

\* A thread that moves between uncounted places, or between counted ones,
\* leaves the count exact.
LEMMA CountUnchanged ==
  ASSUME CountIsExact, active' = active, Counted' = Counted
  PROVE  CountIsExact'
BY DEF CountIsExact

LEMMA CountedInFinite == IsFiniteSet(Counted)
BY ThreadsAssumption, FS_Subset DEF Counted

\* A poll that finds zero has seen every counted thread.
LEMMA ZeroMeansNone ==
  ASSUME IInv, active = 0, NEW t \in Threads, Inside(t)
  PROVE  Uncounted(t)
<1>1. Counted = {}
  BY CountedInFinite, FS_EmptySet DEF IInv, CountIsExact
<1>2. at[t] \in Places /\ at[t] \notin CountedPlaces
  BY <1>1 DEF IInv, Ranges, Counted
<1>. QED
  BY <1>2 DEF Inside, Uncounted, Places, CountedPlaces

\* What a step of a game thread preserves, whatever it is.
GameFrame(t) ==
  /\ UNCHANGED <<code, session, overlooked>>
  /\ \A u \in Threads \ {t} : at'[u] = at[u] /\ using'[u] = using[u]
  /\ Inside(t)' => Inside(t) \/ live

LEMMA GameStepFrame ==
  ASSUME IInv, NEW t \in Threads, GameThread(t)
  PROVE  GameFrame(t)
BY DEF IInv, Ranges, GameThread, GameFrame, Enter, CountIn, LoadOriginal,
   CallOriginal, ThroughTrampoline, OriginalReturns, CountOut, Leave, TakeBlock,
   UseBlock, Move, Inside

\* A step of a game thread.
LEMMA GameStep ==
  ASSUME IInv, NEW t \in Threads, GameThread(t)
  PROVE  IInv'
<1>1. GameFrame(t)
  BY GameStepFrame
<1>2. Ranges'
  <2>1. at' \in [Threads -> Places] /\ using' \in [Threads -> BOOLEAN]
    BY DEF IInv, Ranges, GameThread, Enter, CountIn, LoadOriginal, CallOriginal,
       ThroughTrampoline, OriginalReturns, CountOut, Leave, TakeBlock, UseBlock,
       Move, Places
  <2>2. swallowed' \subseteq Threads
    BY DEF IInv, Ranges, GameThread, Enter, CountIn, LoadOriginal, CallOriginal,
       ThroughTrampoline, OriginalReturns, CountOut, Leave, TakeBlock, UseBlock
  <2>. QED
    BY <1>1, <2>1, <2>2 DEF IInv, Ranges, GameFrame, code, session
<1>3. CountIsExact'
  <2>1. CASE CountIn(t)
    <3>1. Counted' = Counted \cup {t} /\ t \notin Counted
      BY <2>1 DEF IInv, Ranges, CountIn, Move, Counted, CountedPlaces
    <3>2. Cardinality(Counted') = Cardinality(Counted) + 1
      BY <3>1, CountedInFinite, FS_AddElement
    <3>. QED
      BY <2>1, <3>2 DEF IInv, CountIn, CountIsExact
  <2>2. CASE CountOut(t)
    <3>1. Counted' = Counted \ {t} /\ t \in Counted
      BY <2>2 DEF IInv, Ranges, CountOut, Move, Counted, CountedPlaces
    <3>2. Cardinality(Counted') = Cardinality(Counted) - 1
      BY <3>1, CountedInFinite, FS_RemoveElement
    <3>. QED
      BY <2>2, <3>2 DEF IInv, CountOut, CountIsExact
  <2>3. CASE ~CountIn(t) /\ ~CountOut(t)
    <3>1. active' = active
      BY <2>3 DEF GameThread, Enter, LoadOriginal, CallOriginal,
         ThroughTrampoline, OriginalReturns, Leave, TakeBlock, UseBlock
    <3>2. Counted' = Counted
      BY <2>3 DEF IInv, Ranges, GameThread, Enter, LoadOriginal, CallOriginal,
         ThroughTrampoline, OriginalReturns, Leave, TakeBlock, UseBlock, Move,
         Counted, CountedPlaces
    <3>. QED
      BY <3>1, <3>2, CountUnchanged DEF IInv
  <2>. QED
    BY <2>1, <2>2, <2>3
<1>4. UsersAreInside'
  BY DEF IInv, Ranges, UsersAreInside, GameThread, Enter, CountIn, LoadOriginal,
     CallOriginal, ThroughTrampoline, OriginalReturns, CountOut, Leave,
     TakeBlock, UseBlock, Move
<1>5. Working' /\ UnloadedWhenSafe'
  BY <1>1 DEF IInv, Working, UnloadedWhenSafe, GameFrame, code, session
<1>6. Accounted'
  BY <1>1 DEF IInv, Accounted, TakenAway, GameFrame, code, session, Inside
<1>7. OnlyOverlookedSwallowed'
  <2>1. CASE LoadOriginal(t) /\ ~published
    <3>1. t \in overlooked
      BY <2>1 DEF IInv, Accounted, TakenAway, LoadOriginal, Move, Inside
    <3>. QED
      BY <2>1, <3>1 DEF IInv, OnlyOverlookedSwallowed, LoadOriginal
  <2>2. CASE ~LoadOriginal(t) \/ published
    <3>1. swallowed' = swallowed
      BY <2>2 DEF GameThread, Enter, CountIn, LoadOriginal, CallOriginal,
         ThroughTrampoline, OriginalReturns, CountOut, Leave, TakeBlock, UseBlock
    <3>. QED
      BY <1>1, <3>1 DEF IInv, OnlyOverlookedSwallowed, GameFrame
  <2>. QED
    BY <2>1, <2>2
<1>. QED
  BY <1>2, <1>3, <1>4, <1>5, <1>6, <1>7 DEF IInv

\* A step of the worker or of the controller moves no game thread and only adds
\* to the overlooked ones.
LEMMA WorkerFrame ==
  ASSUME IInv, Worker \/ Unload
  PROVE  /\ UNCHANGED <<active, at, using, swallowed>>
         /\ overlooked \subseteq overlooked' /\ overlooked' \subseteq Threads
BY DEF IInv, Ranges, Worker, Unload, Prepare, Patch, Recover, Withdraw, Discard,
   Restore, Drained, DrainTimeout, Release, Clear, Settle, Judge, DropHooks,
   DropSession, threads, session, code

\* The poll and Withdraw account for every thread inside; the others keep what
\* is accounted for.
LEMMA WorkerAccounts ==
  ASSUME IInv, Worker \/ Unload
  PROVE  Accounted'
<1>1. /\ \A t \in Threads : Inside(t)' <=> Inside(t)
      /\ overlooked \subseteq overlooked'
  BY WorkerFrame DEF Inside
<1>2. CASE Drained
  <2>1. \A t \in Threads : Inside(t) => t \in overlooked'
    BY <1>2, ZeroMeansNone DEF Drained
  <2>. QED
    BY <1>1, <1>2, <2>1 DEF IInv, Working, Accounted, Drained, code
<1>3. CASE Withdraw
  BY <1>1, <1>3 DEF IInv, Working, Accounted, Withdraw
<1>4. CASE Prepare \/ Patch \/ Recover \/ Restore \/ DrainTimeout
  <2>1. ~TakenAway'
    BY <1>4 DEF IInv, Working, TakenAway, Prepare, Patch, Recover,
       AfterCleanError, Restore, DrainTimeout, Goto, code
  <2>. QED
    BY <2>1 DEF Accounted
<1>5. CASE Discard \/ Release \/ Clear \/ Settle \/ Judge
  <2>1. TakenAway /\ live' = live
    BY <1>5 DEF IInv, TakenAway, Discard, Release, Clear, Settle, Judge, code
  <2>. QED
    BY <1>1, <2>1 DEF IInv, Accounted
<1>6. CASE DropHooks
  <2>1. TakenAway' => TakenAway
    BY <1>6 DEF TakenAway, DropHooks
  <2>2. ~live => ~live'
    BY <1>6 DEF IInv, Ranges, DropHooks
  <2>. QED
    BY <1>1, <2>1, <2>2 DEF IInv, Accounted
<1>7. CASE DropSession \/ Unload
  <2>1. (TakenAway' => TakenAway) /\ live' = live
    BY <1>7 DEF TakenAway, DropSession, Unload, Goto, code
  <2>. QED
    BY <1>1, <2>1 DEF IInv, Accounted
<1>. QED
  BY <1>2, <1>3, <1>4, <1>5, <1>6, <1>7 DEF Worker

\* The worker's place in its program tells what it has done.
LEMMA WorkerWorks ==
  ASSUME IInv, Worker \/ Unload
  PROVE  Working' /\ UnloadedWhenSafe'
<1>1. CASE Prepare \/ Patch \/ Recover \/ Withdraw \/ Discard \/ Restore
  BY <1>1 DEF IInv, Ranges, Working, UnloadedWhenSafe, Prepare, Patch, Recover,
     AfterCleanError, Withdraw, Discard, Restore, Goto, session
<1>2. CASE Drained \/ DrainTimeout \/ Release \/ Clear \/ Settle
  BY <1>2 DEF IInv, Ranges, Working, UnloadedWhenSafe, Drained, DrainTimeout,
     Release, Clear, Settle, Goto, session
<1>3. CASE Judge \/ DropHooks \/ DropSession \/ Unload
  <2>1. worker' \in {"drop", "exited"}
    BY <1>3 DEF Judge, DropHooks, DropSession, Unload, Goto
  <2>2. Working'
    BY <2>1 DEF Working
  <2>3. UnloadedWhenSafe'
    BY <1>3 DEF IInv, UnloadedWhenSafe, Judge, DropHooks, DropSession, Unload,
       Goto
  <2>. QED
    BY <2>2, <2>3
<1>. QED
  BY <1>1, <1>2, <1>3 DEF Worker

LEMMA WorkerStep ==
  ASSUME IInv, Worker \/ Unload
  PROVE  IInv'
<1>1. /\ UNCHANGED <<active, at, using, swallowed>>
      /\ overlooked \subseteq overlooked' /\ overlooked' \subseteq Threads
  BY WorkerFrame
<1>2. Ranges'
  <2>1. live' \in BOOLEAN /\ published' \in BOOLEAN /\ unloadSafe' \in BOOLEAN
    BY DEF IInv, Ranges, Worker, Unload, Prepare, Patch, Recover, Withdraw,
       Discard, Restore, Drained, DrainTimeout, Release, Clear, Settle, Judge,
       DropHooks, DropSession, session, code
  <2>. QED
    BY <1>1, <2>1 DEF IInv, Ranges
<1>3. CountIsExact'
  <2>1. Counted' = Counted
    BY <1>1 DEF Counted
  <2>. QED
    BY <1>1, <2>1, CountUnchanged DEF IInv
<1>4. UsersAreInside' /\ OnlyOverlookedSwallowed'
  BY <1>1 DEF IInv, UsersAreInside, OnlyOverlookedSwallowed
<1>. QED
  BY <1>2, <1>3, <1>4, WorkerAccounts, WorkerWorks DEF IInv

LEMMA StutterStep ==
  ASSUME IInv, UNCHANGED vars
  PROVE  IInv'
<1>1. Counted' = Counted
  BY DEF Counted, vars, threads
<1>2. CountIsExact'
  BY <1>1, CountUnchanged DEF IInv, vars, threads
<1>. QED
  BY <1>2 DEF IInv, Ranges, UsersAreInside, Working, Accounted, TakenAway,
     Inside, UnloadedWhenSafe, OnlyOverlookedSwallowed, vars, code, threads,
     session

LEMMA InductiveInv == Spec => []IInv
<1>1. IInv /\ [Next]_vars => IInv'
  BY GameStep, WorkerStep, StutterStep DEF Next
<1>. QED
  BY InitInv, <1>1, PTL DEF Spec

-----------------------------------------------------------------------------

\* Whatever the threads do, one that is in freed code (the freed trampoline, or
\* the unloaded DLL) had been overlooked: it was within the instructions before
\* it counts itself in or after it counts itself out when the poll of
\* ACTIVE_CALLBACKS found zero, or a failed install withdrew its hook.
THEOREM FreedUnderOverlookedOnly == Spec => []OnlyOverlookedAtRisk
<1>1. IInv => OnlyOverlookedAtRisk
  <2> SUFFICES ASSUME IInv, NEW t \in Threads, InFreedCode(t)
               PROVE  t \in overlooked
    BY DEF OnlyOverlookedAtRisk
  <2>1. TakenAway
    BY DEF IInv, UnloadedWhenSafe, InFreedCode, TakenAway
  <2>2. Inside(t)
    BY DEF InFreedCode, InDll, Inside
  <2>. QED
    BY <2>1, <2>2 DEF IInv, Accounted
<1>. QED
  BY InductiveInv, <1>1, PTL

\* A hook that finds ORIGINAL_* zero, and so returns without calling the
\* game's function, runs in an overlooked thread.
THEOREM SwallowedOverlookedOnly == Spec => []OnlyOverlookedSwallowed
<1>1. IInv => OnlyOverlookedSwallowed
  BY DEF IInv
<1>. QED
  BY InductiveInv, <1>1, PTL

\* After a verdict of unload_safe, a thread that still uses the control block
\* when Session::drop has unmapped it is an overlooked one.
THEOREM BlockOutlives == Spec => []BlockOutlivesCallbacks
<1>1. IInv => BlockOutlivesCallbacks
  BY DEF IInv, UsersAreInside, Accounted, TakenAway, Inside,
     BlockOutlivesCallbacks
<1>. QED
  BY InductiveInv, <1>1, PTL

-----------------------------------------------------------------------------
(* Types.  The count is a number of threads because it is exact.           *)

HookTypes ==
  /\ kind \in {"inline", "pointer"} /\ dirty \in BOOLEAN
  /\ tramp \in {"none", "allocated", "freed"}

SessionTypes ==
  /\ block \in {"mapped", "null", "unmapped"} /\ dll \in {"loaded", "unloaded"}
  /\ worker \in Steps

LEMMA RestTypedInitially == Init => HookTypes /\ SessionTypes
<1>1. Init => HookTypes
  BY DEF Init, HookTypes
<1>2. Init => SessionTypes
  BY DEF Init, SessionTypes, Steps
<1> QED BY <1>1, <1>2

LEMMA HookTypesKept == HookTypes /\ [Next]_vars => HookTypes'
<1> SUFFICES ASSUME HookTypes, [Next]_vars PROVE HookTypes'
  OBVIOUS
<1>1. CASE Prepare \/ Discard \/ Release \/ Settle
  BY <1>1 DEF HookTypes, Prepare, Discard, Release, Settle
<1>2. CASE \/ Patch \/ Recover \/ Withdraw \/ Restore \/ Drained \/ DrainTimeout \/ Clear \/ Judge
           \/ DropHooks \/ DropSession \/ Unload \/ UNCHANGED vars
  <2>1. UNCHANGED <<kind, tramp, dirty>>
    BY <1>2 DEF Patch, Recover, Withdraw, Restore, Drained, DrainTimeout, Clear, Judge, DropHooks,
       DropSession, Unload, vars, code
  <2> QED BY <2>1 DEF HookTypes
<1>3. ASSUME NEW t \in Threads, GameThread(t) PROVE HookTypes'
  <2>1. UNCHANGED code
    BY <1>3 DEF GameThread, Enter, CountIn, LoadOriginal, CallOriginal, ThroughTrampoline,
       OriginalReturns, CountOut, Leave, TakeBlock, UseBlock
  <2> QED BY <2>1 DEF code, HookTypes
<1> QED BY <1>1, <1>2, <1>3 DEF Next, Worker

LEMMA SessionTypesKept == SessionTypes /\ [Next]_vars => SessionTypes'
<1> SUFFICES ASSUME SessionTypes, [Next]_vars PROVE SessionTypes'
  OBVIOUS
<1>1. CASE Worker
  <2>1. dll' = dll /\ block' \in {block, "null", "unmapped"}
    BY <1>1 DEF Worker, Prepare, Patch, Recover, Withdraw, Discard, Restore, Drained, DrainTimeout,
       Release, Clear, Settle, Judge, DropHooks, DropSession, session
  <2>2. worker' = worker \/ worker' \in Steps
    BY <1>1 DEF Worker, Prepare, Patch, Recover, AfterCleanError, Withdraw, Discard, Restore, Drained,
       DrainTimeout, Release, Clear, Settle, Judge, DropHooks, DropSession, Goto, session, Steps
  <2> QED BY <2>1, <2>2 DEF SessionTypes
<1>2. CASE Unload
  BY <1>2 DEF Unload, SessionTypes
<1>3. CASE UNCHANGED vars \/ \E t \in Threads : GameThread(t)
  <2>1. UNCHANGED session
    BY <1>3 DEF GameThread, Enter, CountIn, LoadOriginal, CallOriginal, ThroughTrampoline,
       OriginalReturns, CountOut, Leave, TakeBlock, UseBlock, vars
  <2> QED BY <2>1 DEF session, SessionTypes
<1> QED BY <1>1, <1>2, <1>3 DEF Next

\* TypeOK: in particular ACTIVE_CALLBACKS, an unsigned atomic, never wraps below
\* zero nor counts a thread twice, however the calls and the drain interleave.
THEOREM CallbackDrainTyped == Spec => []TypeOK
<1>1. IInv /\ HookTypes /\ SessionTypes => TypeOK
  <2> SUFFICES ASSUME IInv, HookTypes, SessionTypes PROVE TypeOK
    OBVIOUS
  <2>1. active \in 0 .. Cardinality(Threads)
    <3>1. Counted \subseteq Threads
      BY DEF Counted
    <3>2. Cardinality(Counted) <= Cardinality(Threads)
      BY <3>1, ThreadsAssumption, FS_Subset
    <3>3. Cardinality(Counted) \in Nat /\ Cardinality(Threads) \in Nat
      BY CountedInFinite, ThreadsAssumption, FS_CardinalityType
    <3> QED BY <3>2, <3>3 DEF IInv, CountIsExact
  <2> QED BY <2>1 DEF IInv, Ranges, HookTypes, SessionTypes, TypeOK
<1> QED BY <1>1, InductiveInv, RestTypedInitially, HookTypesKept, SessionTypesKept, PTL DEF Spec
=============================================================================
