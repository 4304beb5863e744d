----------------------------- MODULE GameThread -----------------------------
(***************************************************************************)
(* The hook library on the game's main thread: the functions of the game   *)
(* it replaces, what each of them does with the mouse events (RawInput)    *)
(* and the console (EngineQueue), and, on Linux, the thread of             *)
(* bhopfix-hook/src/lib.rs that installs them one after the other while    *)
(* the game already calls them.                                            *)
(*                                                                         *)
(* On Windows the hooks are there from the start, and their installation   *)
(* and removal under running calls are in CallbackDrain.                   *)
(***************************************************************************)
EXTENDS RawInput, EngineQueue, FiniteSets

CONSTANTS MaxTime, MaxTimeLinux   \* bounds of the clock

ASSUME TimeAssumption ==
  /\ MaxTime \in Nat /\ MaxTime < Forever
  /\ MaxTimeLinux \in Nat /\ MaxTimeLinux < Forever

VARIABLES
  main,      \* the main thread's step in a hook
  forced,    \* FORCED, RAWINPUT_FORCED
  stage,     \* the installing thread's step (Linux)
  hooked,    \* the slots and functions that lead into the library
  origMove,  \* ORIG_CREATEMOVE is set
  origInfo,  \* ORIG is set
  missed     \* history: a hook that found no original, and the stage then

install == <<stage, hooked, origMove, origInfo>>
vars == <<os, raw, engine, main, forced, install, missed>>

Moves == {"move1", "move2"}   \* CInput's and CCSInput's slots
Hooks == {"poll", "getraw", "info"} \cup Moves
Stages == {"poll", "getraw", "publish", "move1", "move2", "withdraw", "patch", "orig",
           "engine", "done"}

TypeOK ==
  /\ RawTypeOK /\ EngineTypeOK
  /\ main \in {"idle", "force", "demo", "pump", "run", "info"}
  /\ forced \in BOOLEAN
  /\ stage \in Stages /\ hooked \subseteq Hooks
  /\ {origMove, origInfo} \subseteq BOOLEAN
  /\ missed \subseteq Hooks \X Stages

Init ==
  /\ RawInit /\ EngineInit
  /\ main = "idle" /\ forced = FALSE /\ missed = {}
  /\ \/ /\ os = "windows" /\ ready = TRUE
        /\ stage = "done" /\ hooked = Hooks
        /\ origMove = TRUE /\ origInfo = TRUE
     \/ /\ os = "linux" /\ ready = FALSE
        /\ stage = "poll" /\ hooked = {}
        /\ origMove = FALSE /\ origInfo = FALSE

-----------------------------------------------------------------------------
(* init_thread.  Each hook may fail: its slot holds something else.        *)

Installing(here, next) ==
  /\ stage = here
  /\ stage' = next
  /\ UNCHANGED <<os, raw, engine, main, forced, missed>>

Hook(h) == hooked' \in {hooked, hooked \cup {h}}

InstallPoll ==
  /\ stage = "poll"
  /\ Hook("poll")
  /\ Installing("poll", IF "poll" \in hooked' THEN "getraw" ELSE "publish")
  /\ UNCHANGED <<origMove, origInfo>>

InstallGetRaw ==
  /\ Installing("getraw", "publish")
  /\ Hook("getraw")
  /\ UNCHANGED <<origMove, origInfo>>

\* "Publish the original first."
PublishMove ==
  /\ Installing("publish", "move1")
  /\ origMove' = TRUE
  /\ UNCHANGED <<hooked, origInfo>>

InstallMove1 ==
  /\ Installing("move1", "move2")
  /\ Hook("move1")
  /\ UNCHANGED <<origMove, origInfo>>

InstallMove2 ==
  /\ Installing("move2", "withdraw")
  /\ Hook("move2")
  /\ UNCHANGED <<origMove, origInfo>>

\* Mutation: one slot that failed withdraws the original.
NotAllMovesHooked == ~(Moves \subseteq hooked)

NoMoveHooked == Moves \cap hooked = {}

Withdraw ==
  /\ Installing("withdraw", "patch")
  /\ origMove' = ~NoMoveHooked
  /\ UNCHANGED <<hooked, origInfo>>

\* ProcessServerInfo is patched ...
PatchInfo ==
  /\ stage = "patch"
  /\ Hook("info")
  /\ Installing("patch", IF "info" \in hooked' THEN "orig" ELSE "engine")
  /\ UNCHANGED <<origMove, origInfo>>

\* ... and then the trampoline's address is stored.
StoreOrig ==
  /\ Installing("orig", "engine")
  /\ origInfo' = TRUE
  /\ UNCHANGED <<hooked, origMove>>

EngineReady ==
  /\ stage = "engine"
  /\ stage' = "done"
  /\ ready' \in BOOLEAN
  /\ UNCHANGED <<os, raw, queue, pending, demo, batch, echo, lines, recording, announced,
                 full, clash, main, forced, hooked, origMove, origInfo, missed>>

InstallStep ==
  \/ InstallPoll \/ InstallGetRaw \/ PublishMove \/ InstallMove1 \/ InstallMove2
  \/ Withdraw \/ PatchInfo \/ StoreOrig \/ EngineReady

-----------------------------------------------------------------------------
(* The hooks.                                                              *)

At(step) == main = step /\ serve = NoServe
Miss(h) == missed' = missed \cup {<<h, stage>>}

\* SDL_PollEvent, with a mouse event or another one.
PollEvent ==
  /\ os = "linux" /\ At("idle") /\ "poll" \in hooked
  /\ PushOver \/ UNCHANGED raw
  /\ main' = "pump"
  /\ UNCHANGED <<os, engine, forced, install, missed>>

\* A WM_INPUT message.
WindowProc ==
  /\ os = "windows" /\ "poll" \in hooked
  /\ PushBegin
  /\ UNCHANGED <<os, engine, main, forced, install, missed>>

\* The game asks for the mouse's motion, on Linux also from the original of
\* CreateMove.
GetRaw ==
  /\ At("idle") \/ (os = "linux" /\ At("force"))
  /\ "getraw" \in hooked
  /\ ServeBegin
  /\ UNCHANGED <<os, engine, main, forced, install, missed>>

Drain ==
  /\ Take \/ Advance
  /\ UNCHANGED <<os, engine, main, forced, install, missed>>

FinishPush ==
  /\ PushFill \/ PushPublish \/ PassOn
  /\ UNCHANGED <<os, engine, main, forced, install, missed>>

\* CreateMove, or SetSample on Windows: a tick begins.
TickBegins(slot, s) ==
  /\ At("idle") /\ slot \in hooked \cap Moves
  /\ SetSample(s)
  /\ IF origMove THEN UNCHANGED missed ELSE Miss(slot)
  /\ main' = "force"
  /\ UNCHANGED <<os, now, mode, ring, producer, serve, events, fate, game, engine, forced,
                 install>>

\* m_rawinput is set to 2, once, and its console command queued.
ForceMode ==
  /\ At("force")
  /\ main' = "demo"
  /\ forced' = TRUE
  /\ IF forced THEN UNCHANGED <<mode, game, queue>> ELSE Switch(2) /\ QueueCommand(Mode2)
  /\ UNCHANGED <<os, now, ring, producer, serve, timing, events, fate, ready, pending, demo,
                 batch, echo, lines, recording, announced, full, clash, install, missed>>

\* Windows empties the queue at the end of the tick, Linux at the next poll.
AfterDemo == IF os = "windows" THEN "pump" ELSE "idle"

StartDemo ==
  /\ At("demo")
  /\ \/ demo = NoDemo /\ TakeDemo /\ UNCHANGED main
     \/ demo = NoDemo /\ pending = NoMap /\ main' = AfterDemo /\ UNCHANGED engine
     \/ QueueStop /\ UNCHANGED main
     \/ QueueRecord /\ main' = AfterDemo
  /\ UNCHANGED <<os, raw, forced, install, missed>>

PumpCommands ==
  /\ At("pump")
  /\ Pump
  /\ main' = "run"
  /\ UNCHANGED <<os, raw, forced, install, missed>>

RunCommand ==
  /\ At("run")
  /\ IF batch = <<>>
       THEN main' = "idle" /\ UNCHANGED <<engine, mode, game>>
       ELSE /\ Run
            /\ IF Head(batch) = Mode2 THEN Switch(2) ELSE UNCHANGED <<mode, game>>
            /\ UNCHANGED main
  /\ UNCHANGED <<os, now, ring, producer, serve, timing, events, fate, forced, install, missed>>

\* ProcessServerInfo: the library's work, then the original.
ServerInfo(m) ==
  /\ At("idle") /\ "info" \in hooked
  /\ ArmDemo(m)
  /\ main' = "info"
  /\ UNCHANGED <<os, raw, forced, install, missed>>

InfoOriginal ==
  /\ At("info")
  /\ IF origInfo THEN UNCHANGED missed ELSE Miss("info")
  /\ main' = "idle"
  /\ UNCHANGED <<os, raw, engine, forced, install>>

-----------------------------------------------------------------------------
(* Other threads, the player and the clock.                                *)

EchoStep ==
  /\ EchoCheck \/ EchoPush
  /\ UNCHANGED <<os, raw, main, forced, install, missed>>

SetMode(n) ==
  /\ At("idle")
  /\ mode # n /\ Switch(n)
  /\ UNCHANGED <<os, now, ring, producer, serve, timing, events, fate, engine, main, forced,
                 install, missed>>

\* Windows: the worker has restored the hooks, seen the callbacks drain and
\* joined the lookups; it clears the mouse's state, and the integration goes last.
Shutdown ==
  /\ os = "windows" /\ ready
  /\ At("idle") /\ producer = NoPush /\ passing = 0 /\ echo = "idle"
  /\ hooked' = {}
  /\ ClearGlobals /\ forced' = FALSE
  /\ ready' = FALSE /\ queue' = <<>> /\ pending' = NoMap
  /\ UNCHANGED <<os, demo, batch, echo, lines, recording, announced, full, clash, main,
                 stage, origMove, origInfo, missed>>

Clock ==
  /\ At("idle") /\ now < IF os = "linux" THEN MaxTimeLinux ELSE MaxTime
  /\ now' = now + 1
  /\ UNCHANGED <<os, mode, ring, producer, serve, timing, events, fate, game, engine, main,
                 forced, install, missed>>

-----------------------------------------------------------------------------

Next ==
  \/ InstallStep
  \/ PollEvent \/ WindowProc \/ GetRaw \/ Drain \/ FinishPush
  \/ \E slot \in Moves, s \in Samples : TickBegins(slot, s)
  \/ ForceMode \/ StartDemo \/ PumpCommands \/ RunCommand
  \/ \E m \in DemoMaps : ServerInfo(m)
  \/ InfoOriginal \/ EchoStep
  \/ \E n \in {1, 2} : SetMode(n)
  \/ Shutdown \/ Clock

Spec == Init /\ [][Next]_vars

-----------------------------------------------------------------------------

\* The game is given the motion of every mouse event once, from the ring or from
\* its own accumulators, through concurrent pushes and serves and on both
\* platforms, except for a full ring and, on Windows, for an event that is
\* half-way when the mode changes or the hooks go.  And rawinput2 gives it none
\* before its tick, which Windows counts from the tick's start and Linux from
\* the serve before: there the next tick's motion comes early by up to that time.
MotionServed == Accounted /\ GivenOnce /\ OldEnough

\* A call that comes through a hook reaches the function of the game, at any
\* moment of the installation, except ProcessServerInfo between the patch
\* and the store of its original; and the mouse is not served from a ring
\* nobody fills.
OriginalReached ==
  /\ missed \subseteq {<<"info", "orig">>}
  /\ "getraw" \in hooked => "poll" \in hooked
=============================================================================
