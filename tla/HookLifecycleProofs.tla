------------------------ MODULE HookLifecycleProofs ------------------------
(***************************************************************************)
(* For any number of controllers, one after the other, and of toggles: the *)
(* verdict of the worker is true, and the DLL leaves only a game that no   *)
(* longer refers to it.  And for any number of writers, slots and records  *)
(* of the log ring between the two: what the controller prints is whole,   *)
(* and it skips nothing that is still there.                               *)
(***************************************************************************)
EXTENDS HookLifecycle, LogRing, SequenceTheorems, TLAPS

Types ==
  /\ refs \in Nat /\ loaders \in Nat /\ freers \in Nat
  /\ live \in [Features -> BOOLEAN] /\ dirty \in [Features -> BOOLEAN]
  /\ enabled \in [Features -> BOOLEAN]
  /\ installed \in 0..4 /\ judged \in SUBSET Features
  /\ engine \in BOOLEAN /\ unloadSafe \in BOOLEAN /\ cleanupOk \in BOOLEAN

\* A controller that has loaded the DLL counts on a reference of its own, and
\* so does each FreeLibrary nobody waits for.
Held == {"start", "waitReady", "running", "shutdown", "startupFailure", "free"}
References ==
  /\ refs >= freers
  /\ ctl \in Held => refs > 0 /\ freers = 0

Idle == worker \in {"none", "exited"}
NoDirty == \A f \in Features : ~dirty[f]

\* Whenever the DLL may go, or a worker is yet to start, nothing is hooked.
GoneIsQuiet ==
  refs = 0 \/ freers > 0 \/ ctl \in {"start", "free"} => Quiet /\ Idle

\* What the controller has made ready for the worker it starts.
Prepared ==
  ctl = "start" =>
    worker = "none" /\ NoDirty /\ ~unloadSafe /\ installed = 0 /\ cleanupOk

Early ==
  worker \in {"open", "modules", "engine"} =>
    Quiet /\ NoDirty /\ installed = 0 /\ cleanupOk

\* Features whose turn has not come are not in the game.
Untried ==
  worker = "install" =>
    /\ cleanupOk
    /\ installed < 1 => ~live["fullscreen"]
    /\ installed < 2 => ~live["rawinput"]
    /\ installed < 3 => ~live["viewpunch"] /\ sj = "off"
    /\ installed < 4 => ~live["fastdl"]

\* A restoring worker judges all that may be left, and sourcejump is to be
\* shut down first if it runs.
Restoring ==
  worker = "restore" =>
    /\ todo \in Seq(judged)
    /\ \A f \in Features \ judged : ~live[f]
    /\ sj = "off" \/ (todo # <<>> /\ Head(todo) = "fastdl")

\* DIRTY is up over whatever is left, until a restore fails.
Linked == cleanupOk => \A f \in Features : live[f] => dirty[f]

SafeIsQuiet == unloadSafe => Quiet /\ worker \in {"drop", "exited"}

Inv ==
  /\ Types /\ References /\ GoneIsQuiet /\ Prepared /\ Early /\ Untried
  /\ Restoring /\ Linked /\ SafeIsQuiet

LEMMA Initially == Init => Inv
<1> SUFFICES ASSUME Init PROVE Inv
  OBVIOUS
<1>1. /\ live \in [Features -> BOOLEAN] /\ dirty \in [Features -> BOOLEAN]
      /\ enabled \in [Features -> BOOLEAN]
      /\ \A f \in Features : ~live[f]
  BY DEF Init
<1>2. Types
  <2>1. refs \in Nat /\ loaders \in Nat /\ freers \in Nat /\ installed \in 0..4
    BY DEF Init
  <2>2. judged \in SUBSET Features
    BY DEF Init
  <2>3. engine \in BOOLEAN /\ unloadSafe \in BOOLEAN /\ cleanupOk \in BOOLEAN
    BY DEF Init
  <2> QED BY <1>1, <2>1, <2>2, <2>3 DEF Types
<1>3. Quiet
  BY <1>1 DEF Init, Quiet
<1>4. References /\ GoneIsQuiet /\ Prepared /\ Early /\ Untried /\ Restoring /\ SafeIsQuiet
  BY <1>3 DEF Init, References, GoneIsQuiet, Prepared, Early, Untried, Restoring, SafeIsQuiet,
     Held, Idle
<1>5. Linked
  BY <1>1 DEF Linked
<1> QED BY <1>2, <1>4, <1>5 DEF Inv

\* A step of a worker that is at work while the DLL is held.
LEMMA AtWorkIsHeld ==
  ASSUME Inv, ~Idle
  PROVE  /\ ~(refs = 0 \/ freers > 0 \/ ctl \in {"start", "free"})
         /\ worker # "drop" => ~unloadSafe
  BY DEF Inv, GoneIsQuiet, SafeIsQuiet, Idle

-----------------------------------------------------------------------------
(* What the operations of a feature leave behind.                          *)

LEMMA SetKeepsTypes ==
  ASSUME Types, NEW f \in Features, NEW l \in BOOLEAN, NEW d \in BOOLEAN, NEW e \in BOOLEAN,
         Set(f, l, d, e)
  PROVE  /\ live' \in [Features -> BOOLEAN] /\ dirty' \in [Features -> BOOLEAN]
         /\ enabled' \in [Features -> BOOLEAN]
         /\ live'[f] = l /\ dirty'[f] = d
         /\ \A g \in Features \ {f} : live'[g] = live[g] /\ dirty'[g] = dirty[g]
  BY DEF Types, Set

\* An install, whatever its answer: one feature changes and DIRTY is up over
\* what it leaves.
LEMMA InstallLeaves ==
  ASSUME Types, NEW f \in Features, NEW ok \in BOOLEAN, InstallFeature(f, ok)
  PROVE  \E l, d, e \in BOOLEAN :
           Set(f, l, d, e) /\ (l => d) /\ (f = "fullscreen" => ~l)
<1>1. enabled[f] \in BOOLEAN
  BY DEF Types
<1>2. CASE f = "fullscreen" /\ Set(f, FALSE, FALSE, FALSE)
  BY <1>2
<1>3. ASSUME NEW initial \in BOOLEAN, f = "viewpunch", Set(f, initial, initial, initial)
      PROVE  \E l, d, e \in BOOLEAN : Set(f, l, d, e) /\ (l => d) /\ (f = "fullscreen" => ~l)
  BY <1>3
<1>4. CASE f \notin Switched /\ Set(f, TRUE, TRUE, TRUE)
  BY <1>4 DEF Switched
<1>5. CASE f # "fullscreen" /\ Set(f, FALSE, FALSE, enabled[f])
  BY <1>1, <1>5
<1>6. ASSUME NEW l \in BOOLEAN, f # "fullscreen", Set(f, l, TRUE, enabled[f])
      PROVE  \E k, d, e \in BOOLEAN : Set(f, k, d, e) /\ (k => d) /\ (f = "fullscreen" => ~k)
  BY <1>1, <1>6
<1> QED BY <1>2, <1>3, <1>4, <1>5, <1>6 DEF InstallFeature

LEMMA ToggleLeaves ==
  ASSUME Types, NEW f \in Features, ToggleFeature(f)
  PROVE  \E l, d, e \in BOOLEAN : Set(f, l, d, e) /\ (l => d)
<1>1. enabled[f] \in BOOLEAN
  BY DEF Types
<1> QED BY <1>1 DEF ToggleFeature

\* A restore that answers Ok leaves nothing new.
LEMMA RestoreLeaves ==
  ASSUME Types, NEW f \in Features, NEW ok \in BOOLEAN, RestoreFeature(f, ok)
  PROVE  \/ UNCHANGED hooks
         \/ \E l, d, e \in BOOLEAN : Set(f, l, d, e) /\ (ok => ~l)
<1>1. dirty[f] \in BOOLEAN /\ (f \notin Switched) \in BOOLEAN
  BY DEF Types
<1> QED BY <1>1 DEF RestoreFeature

LEMMA SetKeepsLinked ==
  ASSUME Types, Linked, NEW f \in Features, NEW l \in BOOLEAN, NEW d \in BOOLEAN,
         NEW e \in BOOLEAN, Set(f, l, d, e), l => d, cleanupOk' => cleanupOk
  PROVE  Linked'
  BY SetKeepsTypes DEF Linked

-----------------------------------------------------------------------------
(* The worker.                                                             *)

\* The worker goes on, the controller and the DLL's references stay.
LEMMA WorkerRest ==
  ASSUME Inv, ~Idle, UNCHANGED <<game, ctl>>
  PROVE  References' /\ GoneIsQuiet' /\ Prepared'
  BY AtWorkIsHeld DEF Inv, References, GoneIsQuiet, Prepared, game

LEMMA StartingKeeps ==
  ASSUME Inv, OpenFails \/ Open \/ WaitModules \/ InstallEngine
  PROVE  Inv'
<1>1. worker \in {"open", "modules", "engine"} /\ ~Idle
  BY DEF OpenFails, Open, WaitModules, InstallEngine, Idle
<1>2. Quiet /\ NoDirty /\ installed = 0 /\ cleanupOk /\ ~unloadSafe
  BY <1>1, AtWorkIsHeld DEF Inv, Early
<1>3. References' /\ GoneIsQuiet' /\ Prepared'
  BY <1>1, WorkerRest DEF OpenFails, Open, WaitModules, InstallEngine, controller
<1>4. /\ UNCHANGED <<game, hooks, sj, run>>
      /\ worker' \in {"modules", "engine", "install", "drop", "exited"}
      /\ worker' # "install" => engine' = engine
      /\ engine' \in BOOLEAN
      /\ unloadSafe' = unloadSafe \/ (unloadSafe' = TRUE /\ worker' = "drop")
  <2>1. CASE OpenFails
    BY <2>1 DEF OpenFails, block, Inv, Types
  <2>2. CASE Open
    BY <2>2 DEF Open, FailWith, Inv, Types
  <2>3. CASE WaitModules
    BY <2>3 DEF WaitModules, FailWith, StoppedCleanly, block, Inv, Types
  <2>4. CASE InstallEngine
    BY <2>4 DEF InstallEngine, FailWith, block, Inv, Types
  <2> QED BY <2>1, <2>2, <2>3, <2>4
<1>5. Types'
  BY <1>4 DEF Inv, Types, game, hooks, run
<1>6. worker' # "install" => Quiet'
  BY <1>2, <1>4 DEF Quiet, hooks
<1>7. Early' /\ Restoring' /\ Linked' /\ SafeIsQuiet'
  BY <1>2, <1>4, <1>6 DEF Early, Restoring, Linked, SafeIsQuiet, NoDirty, hooks, run, Quiet
<1>8. Untried'
  BY <1>2, <1>4 DEF Untried, Quiet, Features, hooks, run
<1> QED BY <1>3, <1>5, <1>7, <1>8 DEF Inv

\* The n-th feature's turn.
LEMMA OneInstall ==
  ASSUME Inv, Install
  PROVE  \E n \in 1..4, ok \in BOOLEAN :
           /\ n = installed + 1
           /\ InstallFeature(InstallOrder[n], ok)
           /\ installed' = IF ok THEN n ELSE installed
           /\ ~ok /\ n = 4 => sj' = "off"
           /\ (IF ok THEN n < 3 ELSE n < 4) => sj' = sj
           /\ \/ ok /\ UNCHANGED <<worker, todo, judged, code>>
              \/ /\ ~ok /\ worker' = "restore"
                 /\ todo' = CleanupAfter[n] /\ judged' = JudgedAfter[n]
<1>1. installed \in 0..3
  BY DEF Install, Inv, Types
<1>2. PICK ok \in BOOLEAN :
        /\ InstallFeature(InstallOrder[installed + 1], ok)
        /\ installed' = IF ok THEN installed + 1 ELSE installed
        /\ sj' = CASE installed + 1 = 4 /\ ~ok -> "off"
                   [] installed + 1 = 3 /\ ok -> "on"
                   [] OTHER -> sj
        /\ \/ ok /\ UNCHANGED <<worker, todo, judged, code>>
           \/ /\ ~ok /\ worker' = "restore"
              /\ todo' = CleanupAfter[installed + 1]
              /\ judged' = JudgedAfter[installed + 1]
  BY DEF Install
<1>3. /\ ~ok /\ installed + 1 = 4 => sj' = "off"
      /\ (IF ok THEN installed + 1 < 3 ELSE installed + 1 < 4) => sj' = sj
  BY <1>1, <1>2
<1>4. installed + 1 \in 1..4
  BY <1>1
<1> QED BY <1>2, <1>3, <1>4

\* What a failed install leaves to restore and to judge.
LEMMA Judgement ==
  ASSUME NEW n \in 1..4
  PROVE  /\ InstallOrder[n] \in Features
         /\ JudgedAfter[n] \subseteq Features
         /\ CleanupAfter[n] \in Seq(JudgedAfter[n])
         /\ n > 1 => InstallOrder[n] \in JudgedAfter[n] /\ "fullscreen" \in JudgedAfter[n]
         /\ n > 2 => "rawinput" \in JudgedAfter[n]
         /\ n > 3 => "viewpunch" \in JudgedAfter[n]
         /\ InstallOrder[n] = "fullscreen" => n = 1
         /\ n = 1 => InstallOrder[n] = "fullscreen"
         /\ n = 2 => InstallOrder[n] = "rawinput"
         /\ n = 3 => InstallOrder[n] = "viewpunch"
         /\ n = 4 => InstallOrder[n] = "fastdl"
<1>1. CASE n = 1
  BY <1>1 DEF InstallOrder, JudgedAfter, CleanupAfter, Features
<1>2. CASE n = 2
  BY <1>2 DEF InstallOrder, JudgedAfter, CleanupAfter, Features
<1>3. CASE n = 3
  BY <1>3 DEF InstallOrder, JudgedAfter, CleanupAfter, Features
<1>4. CASE n = 4
  BY <1>4 DEF InstallOrder, JudgedAfter, CleanupAfter, Features
<1> QED BY <1>1, <1>2, <1>3, <1>4

LEMMA InstallKeeps == ASSUME Inv, Install PROVE Inv'
<1>1. PICK n \in 1..4, ok \in BOOLEAN :
        /\ n = installed + 1
        /\ InstallFeature(InstallOrder[n], ok)
        /\ installed' = IF ok THEN n ELSE installed
        /\ ~ok /\ n = 4 => sj' = "off"
        /\ (IF ok THEN n < 3 ELSE n < 4) => sj' = sj
        /\ \/ ok /\ UNCHANGED <<worker, todo, judged, code>>
           \/ /\ ~ok /\ worker' = "restore"
              /\ todo' = CleanupAfter[n] /\ judged' = JudgedAfter[n]
  BY OneInstall
<1>2. /\ worker = "install" /\ ~Idle
      /\ UNCHANGED <<game, engine, block, cleanupOk, exitCode, owner, toggles, controller>>
  BY DEF Install, Idle
<1>3. Types /\ Linked /\ cleanupOk
  BY <1>2 DEF Inv, Untried
<1> DEFINE f == InstallOrder[n]
<1>4. f \in Features
  BY Judgement
<1>5. PICK l, d, e \in BOOLEAN : Set(f, l, d, e) /\ (l => d) /\ (f = "fullscreen" => ~l)
  BY <1>1, <1>3, <1>4, InstallLeaves
<1>6. /\ live' \in [Features -> BOOLEAN] /\ dirty' \in [Features -> BOOLEAN]
      /\ enabled' \in [Features -> BOOLEAN]
      /\ live'[f] = l
      /\ \A g \in Features \ {f} : live'[g] = live[g]
  BY <1>3, <1>4, <1>5, SetKeepsTypes
<1>7. Linked'
  BY <1>2, <1>3, <1>4, <1>5, SetKeepsLinked
<1>8. References' /\ GoneIsQuiet' /\ Prepared'
  BY <1>2, WorkerRest DEF controller
<1>9. ~unloadSafe'
  BY <1>2, AtWorkIsHeld DEF block
<1>10. Types'
  BY <1>1, <1>2, <1>3, <1>6, Judgement DEF Types, game, block
<1>11. worker' \in {"install", "restore"}
  BY <1>1, <1>2
<1>12. Early' /\ SafeIsQuiet'
  BY <1>9, <1>11 DEF Early, SafeIsQuiet
<1>13. Untried'
  <2>1. CASE ok
    <3>1. /\ cleanupOk' /\ installed' = n
          /\ installed < 2 => ~live["rawinput"]
          /\ installed < 3 => ~live["viewpunch"] /\ sj = "off"
          /\ installed < 4 => ~live["fastdl"]
      BY <1>1, <1>2, <1>3, <2>1 DEF Inv, Untried
    <3> installed \in Nat
      BY <1>3 DEF Types
    <3>2. n < 2 => ~live'["rawinput"]
      BY <1>1, <1>6, <3>1, Judgement DEF Features
    <3>3. n < 3 => ~live'["viewpunch"]
      BY <1>1, <1>6, <3>1, Judgement DEF Features
    <3>4. n < 4 => ~live'["fastdl"]
      BY <1>1, <1>6, <3>1, Judgement DEF Features
    <3>5. n < 3 => sj' = "off"
      BY <1>1, <2>1, <3>1
    <3> QED BY <3>1, <3>2, <3>3, <3>4, <3>5 DEF Untried
  <2>2. CASE ~ok
    BY <1>1, <2>2 DEF Untried
  <2> QED BY <2>1, <2>2
<1>14. Restoring'
  <2> SUFFICES ASSUME worker' = "restore" PROVE Restoring'
    BY DEF Restoring
  <2>1. ~ok /\ todo' = CleanupAfter[n] /\ judged' = JudgedAfter[n]
    BY <1>1, <1>2
  <2>2. todo' \in Seq(judged')
    BY <2>1, Judgement
  <2>3. sj' = "off"
    BY <1>1, <1>2, <2>1 DEF Inv, Untried
  <2>4. ASSUME NEW g \in Features \ JudgedAfter[n] PROVE ~live'[g]
    <3>1. CASE n = 1
      BY <1>1, <1>2, <1>5, <1>6, <3>1, Judgement DEF Inv, Untried, Features
    <3>2. CASE n > 1
      <4>1. g # f /\ live'[g] = live[g]
        BY <1>6, <3>2, Judgement
      <4>2. ~live[g]
        <5>1. /\ installed = n - 1 /\ worker = "install"
              /\ g \in Features /\ g \notin JudgedAfter[n]
          BY <1>1, <1>2, <1>3, <3>2, Judgement DEF Types
        <5>2. /\ n < 3 => ~live["viewpunch"]
              /\ n < 5 => ~live["fastdl"]
          BY <1>2, <5>1 DEF Inv, Untried, Features
        <5>3. CASE n = 2
          BY <5>1, <5>2, <5>3, Judgement DEF Features
        <5>4. CASE n = 3
          BY <5>1, <5>2, <5>4, Judgement DEF Features
        <5>5. CASE n = 4
          BY <5>1, <5>2, <5>5, Judgement DEF Features
        <5> QED BY <3>2, <5>3, <5>4, <5>5
      <4> QED BY <4>1, <4>2
    <3> QED BY <3>1, <3>2
  <2> QED BY <2>1, <2>2, <2>3, <2>4 DEF Restoring
<1> QED BY <1>7, <1>8, <1>10, <1>12, <1>13, <1>14 DEF Inv

LEMMA ReadyKeeps == ASSUME Inv, Ready PROVE Inv'
<1>1. worker = "install" /\ ~Idle /\ worker' = "loop"
  BY DEF Ready, Idle
<1>2. References' /\ GoneIsQuiet' /\ Prepared'
  BY <1>1, WorkerRest DEF Ready, controller
<1>3. Types' /\ Early' /\ Untried' /\ Restoring' /\ Linked' /\ SafeIsQuiet'
  BY <1>1, AtWorkIsHeld DEF Ready, game, hooks, run, controller, Inv, Types, Early, Untried,
     Restoring, Linked, SafeIsQuiet
<1> QED BY <1>2, <1>3 DEF Inv

LEMMA ToggleKeeps == ASSUME Inv, Toggle PROVE Inv'
<1>1. /\ worker = "loop" /\ ~Idle /\ worker' = worker /\ cleanupOk' = cleanupOk
      /\ UNCHANGED <<game, ctl, installed, judged, engine, unloadSafe, sj, todo>>
  BY DEF Toggle, Idle, controller, block, run
<1>2. PICK f \in Features : ToggleFeature(f)
  BY DEF Toggle, Switched, Features
<1>3. Types /\ Linked
  BY DEF Inv
<1>4. PICK l, d, e \in BOOLEAN : Set(f, l, d, e) /\ (l => d)
  BY <1>2, <1>3, ToggleLeaves
<1>5. Linked'
  BY <1>1, <1>3, <1>4, SetKeepsLinked
<1>6. Types'
  BY <1>1, <1>3, <1>4, SetKeepsTypes DEF Types, game
<1>7. References' /\ GoneIsQuiet' /\ Prepared'
  BY <1>1, WorkerRest
<1>8. Early' /\ Untried' /\ Restoring' /\ SafeIsQuiet'
  BY <1>1, AtWorkIsHeld DEF Early, Untried, Restoring, SafeIsQuiet
<1> QED BY <1>5, <1>6, <1>7, <1>8 DEF Inv

\* A lookup runs only where sourcejump is up.
LEMMA ShowRecordKeeps == ASSUME Inv, ShowRecord PROVE Inv'
<1>1. /\ sj # "off"
      /\ UNCHANGED <<game, hooks, engine, block, worker, run, controller>>
  BY DEF ShowRecord
<1>2. ~Quiet
  BY <1>1 DEF Quiet
<1>3. Types' /\ References' /\ Linked'
  BY <1>1 DEF Inv, Types, References, Linked, game, hooks, block, run, controller
<1>4. GoneIsQuiet' /\ Prepared' /\ Early' /\ SafeIsQuiet'
  BY <1>1, <1>2 DEF Inv, GoneIsQuiet, Prepared, Early, SafeIsQuiet, game, hooks, block, run,
     controller
<1>5. Untried' /\ Restoring'
  BY <1>1 DEF Inv, Untried, Restoring, hooks, run
<1> QED BY <1>3, <1>4, <1>5 DEF Inv

LEMMA StoppingKeeps == ASSUME Inv, Stopping PROVE Inv'
<1>1. /\ worker = "loop" /\ ~Idle /\ worker' = "restore"
      /\ todo' = ShutdownOrder /\ judged' = Features
      /\ UNCHANGED <<game, hooks, engine, sj, unloadSafe, installed, cleanupOk, controller>>
  BY DEF Stopping, Idle
<1>2. ShutdownOrder \in Seq(Features) /\ ShutdownOrder # <<>> /\ Head(ShutdownOrder) = "fastdl"
  BY DEF ShutdownOrder, Features
<1>3. References' /\ GoneIsQuiet' /\ Prepared'
  BY <1>1, WorkerRest DEF controller
<1>4. Types' /\ Early' /\ Untried' /\ Linked' /\ SafeIsQuiet'
  BY <1>1, AtWorkIsHeld DEF game, hooks, Inv, Types, Early, Untried, Linked, SafeIsQuiet
<1>5. Restoring'
  BY <1>1, <1>2 DEF Restoring
<1> QED BY <1>3, <1>4, <1>5 DEF Inv

LEMMA RestoreKeeps == ASSUME Inv, Restore PROVE Inv'
<1>1. /\ worker = "restore" /\ ~Idle /\ worker' = worker /\ todo # <<>>
      /\ sj' = IF Head(todo) = "fastdl" THEN "off" ELSE sj
      /\ todo' = Tail(todo)
      /\ UNCHANGED <<game, engine, block, installed, judged, controller>>
  BY DEF Restore, Idle
<1>2. PICK ok \in BOOLEAN : RestoreFeature(Head(todo), ok) /\ cleanupOk' = (cleanupOk /\ ok)
  BY DEF Restore
<1>3. todo \in Seq(judged) /\ judged \subseteq Features
  BY <1>1 DEF Inv, Restoring, Types
<1>4. Head(todo) \in judged /\ Tail(todo) \in Seq(judged)
  BY <1>1, <1>3, HeadTailProperties
<1> DEFINE f == Head(todo)
<1>5. f \in Features /\ Types /\ Linked
  BY <1>3, <1>4 DEF Inv
<1>6. cleanupOk' \in BOOLEAN /\ (cleanupOk' => cleanupOk /\ ok)
  BY <1>2, <1>5 DEF Types
<1>7. /\ live' \in [Features -> BOOLEAN] /\ dirty' \in [Features -> BOOLEAN]
      /\ enabled' \in [Features -> BOOLEAN]
      /\ \A g \in Features \ {f} : live'[g] = live[g] /\ dirty'[g] = dirty[g]
      /\ ok => UNCHANGED hooks \/ ~live'[f]
  <2>1. CASE UNCHANGED hooks
    BY <1>5, <2>1 DEF hooks, Types
  <2>2. ASSUME NEW l \in BOOLEAN, NEW d \in BOOLEAN, NEW e \in BOOLEAN, Set(f, l, d, e), ok => ~l
        PROVE  /\ live' \in [Features -> BOOLEAN] /\ dirty' \in [Features -> BOOLEAN]
               /\ enabled' \in [Features -> BOOLEAN]
               /\ \A g \in Features \ {f} : live'[g] = live[g] /\ dirty'[g] = dirty[g]
               /\ ok => ~live'[f]
    BY <1>5, <2>2, SetKeepsTypes
  <2> QED BY <1>2, <1>5, <2>1, <2>2, RestoreLeaves
<1>8. Linked'
  BY <1>5, <1>6, <1>7 DEF Linked, hooks
<1>9. Types'
  BY <1>1, <1>5, <1>6, <1>7 DEF Types, game, block
<1>10. References' /\ GoneIsQuiet' /\ Prepared'
  BY <1>1, WorkerRest DEF controller
<1>11. Early' /\ Untried' /\ SafeIsQuiet'
  BY <1>1, AtWorkIsHeld DEF Early, Untried, SafeIsQuiet, block
<1>12. Restoring'
  <2>1. \A g \in Features \ judged : ~live'[g]
    BY <1>1, <1>4, <1>7 DEF Inv, Restoring
  <2>2. sj' = "off"
    BY <1>1 DEF Inv, Restoring
  <2> QED BY <1>1, <1>4, <2>1, <2>2 DEF Restoring
<1> QED BY <1>8, <1>9, <1>10, <1>11, <1>12 DEF Inv

\* The verdict is favourable only over a quiet game.
LEMMA VerdictIsTrue ==
  ASSUME Inv, worker = "restore", todo = <<>>, NEW busy \in BOOLEAN, Verdict(busy)
  PROVE  sj = "off" /\ \A f \in Features : ~live[f]
  BY DEF Inv, Restoring, Verdict, Linked, Types

LEMMA JudgeKeeps == ASSUME Inv, Judge PROVE Inv'
<1>1. /\ worker = "restore" /\ todo = <<>> /\ ~Idle /\ ~engine' /\ engine' = FALSE
      /\ UNCHANGED <<game, hooks, sj, run, controller>>
  BY DEF Judge, Idle
<1>2. ~unloadSafe
  BY <1>1, AtWorkIsHeld
<1>3. PICK busy \in BOOLEAN :
        \/ code # 0 /\ FailWith(code, Verdict(busy))
        \/ code = 0 /\ Verdict(busy) /\ StoppedCleanly
        \/ code = 0 /\ ~Verdict(busy) /\ FailWith(10, FALSE)
  BY DEF Judge
<1>4. worker' = "drop" /\ unloadSafe' \in BOOLEAN
  BY <1>3 DEF FailWith, StoppedCleanly
<1>5. unloadSafe' => Verdict(busy)
  BY <1>2, <1>3 DEF FailWith, StoppedCleanly
<1>6. unloadSafe' => Quiet'
  BY <1>1, <1>5, VerdictIsTrue DEF Quiet, hooks
<1>7. References' /\ GoneIsQuiet' /\ Prepared'
  BY <1>1, WorkerRest DEF controller
<1>8. Types' /\ Early' /\ Untried' /\ Restoring' /\ Linked' /\ SafeIsQuiet'
  BY <1>1, <1>4, <1>6 DEF game, hooks, run, Inv, Types, Early, Untried, Restoring, Linked,
     SafeIsQuiet
<1> QED BY <1>7, <1>8 DEF Inv

LEMMA DropKeeps == ASSUME Inv, Drop PROVE Inv'
<1>1. /\ worker = "drop" /\ ~Idle /\ worker' = "exited" /\ engine' = FALSE
      /\ UNCHANGED <<game, dirty, enabled, sj, unloadSafe, run, controller>>
      /\ \E gone : live' = [f \in Features |-> live[f] /\ f \notin gone]
  BY DEF Drop, Idle, block
<1>2. live' \in [Features -> BOOLEAN] /\ \A f \in Features : live'[f] => live[f]
  BY <1>1
<1>3. Types' /\ Early' /\ Untried' /\ Restoring' /\ Linked'
  BY <1>1, <1>2 DEF game, run, Inv, Types, Early, Untried, Restoring, Linked
<1>4. Quiet => Quiet'
  BY <1>1, <1>2 DEF Quiet
<1>5. SafeIsQuiet'
  BY <1>1, <1>4 DEF Inv, SafeIsQuiet
<1>6. References' /\ GoneIsQuiet' /\ Prepared'
  BY <1>1, WorkerRest DEF controller
<1> QED BY <1>3, <1>5, <1>6 DEF Inv

-----------------------------------------------------------------------------
(* The controller.                                                         *)

LEMMA FreshIsQuiet ==
  ASSUME FreshDll
  PROVE  /\ Quiet' /\ NoDirty' /\ engine' = FALSE
         /\ live' \in [Features -> BOOLEAN] /\ dirty' \in [Features -> BOOLEAN]
         /\ enabled' \in [Features -> BOOLEAN]
  BY DEF FreshDll, Quiet, NoDirty

\* A new block for a game without the DLL.
LEMMA InjectKeeps == ASSUME Inv, Inject PROVE Inv'
<1>1. /\ refs = 0 /\ freers = 0 /\ Quiet
      /\ worker' = "none" /\ unloadSafe' = FALSE /\ installed' = 0 /\ judged' = {}
      /\ cleanupOk' = TRUE /\ freers' = freers
  BY DEF Inject, Loaded, Inv, Types, References, GoneIsQuiet
<1>a. judged' \in SUBSET Features /\ installed' \in 0..4
  BY <1>1
<1>b. unloadSafe' \in BOOLEAN /\ cleanupOk' \in BOOLEAN
  BY <1>1
<1>2. CASE ctl' = "start" /\ LoadLibrary /\ UNCHANGED <<loaders, result>>
  <2>1. FreshDll /\ refs' = 1
    BY <1>1, <1>2 DEF LoadLibrary
  <2>2. Quiet' /\ NoDirty'
    BY <2>1, FreshIsQuiet
  <2>3. Types'
    <3>1. engine' \in BOOLEAN /\ live' \in [Features -> BOOLEAN]
          /\ dirty' \in [Features -> BOOLEAN] /\ enabled' \in [Features -> BOOLEAN]
      BY <2>1, FreshIsQuiet
    <3>2. refs' \in Nat /\ loaders' \in Nat /\ freers' \in Nat
      BY <1>1, <1>2, <2>1 DEF Inv, Types
    <3> QED BY <1>a, <1>b, <3>1, <3>2 DEF Types
  <2>4. Linked'
    BY <2>2 DEF Linked, Quiet
  <2>5. References' /\ GoneIsQuiet' /\ Prepared' /\ Early' /\ Untried' /\ Restoring' /\ SafeIsQuiet'
    BY <1>1, <1>2, <2>1, <2>2 DEF References, GoneIsQuiet, Prepared, Early, Untried, Restoring,
       SafeIsQuiet, Idle
  <2> QED BY <2>3, <2>4, <2>5 DEF Inv
<1>3. CASE /\ ctl' = "done" /\ result' = "remains" /\ loaders' = loaders + 1
           /\ UNCHANGED <<refs, hooks, engine, sj>>
  <2>1. Types' /\ Quiet'
    <3>1. refs' \in Nat /\ loaders' \in Nat /\ freers' \in Nat
      BY <1>1, <1>3 DEF Inv, Types
    <3>2. Quiet'
      BY <1>1, <1>3 DEF hooks, Quiet
    <3> QED BY <1>3, <1>a, <1>b, <3>1, <3>2 DEF Inv, Types, hooks
  <2>2. Linked'
    BY <2>1 DEF Linked, Quiet
  <2>3. References' /\ GoneIsQuiet' /\ Prepared' /\ Early' /\ Untried' /\ Restoring' /\ SafeIsQuiet'
    BY <1>1, <1>3, <2>1 DEF References, GoneIsQuiet, Prepared, Early, Untried, Restoring,
       SafeIsQuiet, Idle, Held
  <2> QED BY <2>1, <2>2, <2>3 DEF Inv
<1> QED BY <1>2, <1>3 DEF Inject

\* A loader that comes late finds a game without the DLL, or only counts.
LEMMA LateLoadKeeps == ASSUME Inv, LateLoad PROVE Inv'
<1>1. /\ refs' = refs + 1 /\ loaders' = loaders - 1 /\ loaders > 0
      /\ UNCHANGED <<freers, run, worker, block, controller>>
  BY DEF LateLoad, LoadLibrary
<1>2. CASE refs = 0
  <2>1. FreshDll /\ Idle /\ Quiet
    BY <1>2 DEF LateLoad, LoadLibrary, Inv, GoneIsQuiet
  <2>2. Quiet' /\ NoDirty'
    BY <2>1, FreshIsQuiet
  <2>3. Types'
    BY <1>1, <2>1, FreshIsQuiet DEF Inv, Types, run, block
  <2>4. Linked'
    BY <2>2 DEF Linked, Quiet
  <2>5. References' /\ GoneIsQuiet' /\ Prepared' /\ Early' /\ Untried' /\ Restoring' /\ SafeIsQuiet'
    BY <1>1, <1>2, <2>1, <2>2 DEF Inv, Types, References, GoneIsQuiet, Prepared, Early, Untried,
       Restoring, SafeIsQuiet, Idle, run, block, controller
  <2> QED BY <2>3, <2>4, <2>5 DEF Inv
<1>3. CASE refs # 0
  <2>1. UNCHANGED <<hooks, engine, sj>>
    BY <1>3 DEF LateLoad, LoadLibrary
  <2>2. Quiet' = Quiet /\ NoDirty' = NoDirty /\ Idle' = Idle
    BY <1>1, <2>1 DEF Quiet, NoDirty, Idle, hooks
  <2>3. Types' /\ Linked' /\ References'
    BY <1>1, <2>1 DEF Inv, Types, Linked, References, hooks, run, block, controller
  <2>4. GoneIsQuiet' /\ Prepared' /\ Early' /\ SafeIsQuiet'
    BY <1>1, <1>3, <2>2 DEF Inv, Types, GoneIsQuiet, Prepared, Early, SafeIsQuiet, run, block,
       controller
  <2>5. Untried' /\ Restoring'
    BY <1>1, <2>1 DEF Inv, Untried, Restoring, hooks, run
  <2> QED BY <2>3, <2>4, <2>5 DEF Inv
<1> QED BY <1>2, <1>3

\* Steps of the controller between its injection and its end.
LEMMA SessionKeeps ==
  ASSUME Inv,
         Refuse \/ StartWorker \/ WaitReady \/ Shutdown \/ WaitWorker \/ Killed \/ Again
  PROVE  Inv'
<1>1. /\ UNCHANGED <<game, hooks, engine, sj, run, unloadSafe>>
  BY DEF Refuse, StartWorker, WaitReady, Shutdown, WaitWorker, Killed, Again, worker_side, block
<1>2. Types' /\ Linked' /\ Quiet' = Quiet /\ NoDirty' = NoDirty
  BY <1>1 DEF Inv, Types, Linked, Quiet, NoDirty, game, hooks, run
<1>3. CASE StartWorker
  <2>1. worker = "none" /\ NoDirty /\ ~unloadSafe /\ installed = 0 /\ cleanupOk /\ Quiet
        /\ refs > 0 /\ freers = 0
    BY <1>3 DEF StartWorker, Inv, Prepared, GoneIsQuiet, References, Held
  <2>2. \/ worker' = "open" /\ ctl' = "waitReady"
        \/ worker' = worker /\ ctl' = "free"
    BY <1>3 DEF StartWorker
  <2> QED BY <1>1, <1>2, <2>1, <2>2 DEF Inv, References, GoneIsQuiet, Prepared, Early, Untried,
        Restoring, SafeIsQuiet, Held, Idle, game, run
<1>4. CASE Refuse \/ WaitReady \/ Shutdown \/ WaitWorker \/ Killed \/ Again
  <2>1. worker' = worker
    BY <1>4 DEF Refuse, WaitReady, Shutdown, WaitWorker, Killed, Again
  <2>2. Early' /\ Untried' /\ Restoring' /\ SafeIsQuiet'
    BY <1>1, <1>2, <2>1 DEF Inv, Early, Untried, Restoring, SafeIsQuiet, hooks, run
  <2>3. /\ ctl' # "start"
        /\ ctl' \in Held => ctl \in Held
        /\ ctl' = "free" => worker = "exited" /\ unloadSafe
    BY <1>4 DEF Refuse, WaitReady, Shutdown, WaitWorker, MayFree, Killed, Again, Held
  <2>4. References' /\ GoneIsQuiet' /\ Prepared'
    BY <1>1, <1>2, <2>1, <2>3 DEF Inv, References, GoneIsQuiet, Prepared, SafeIsQuiet, Idle, game
  <2> QED BY <1>2, <2>2, <2>4 DEF Inv
<1> QED BY <1>3, <1>4

\* The DLL goes: its user has seen to it that nothing refers to it.
LEMMA FreeingKeeps == ASSUME Inv, Free \/ LateFree PROVE Inv'
<1>1. UNCHANGED <<worker_side, worker, block>> /\ loaders' = loaders
  BY DEF Free, LateFree
<1>2. Quiet /\ Idle
  BY DEF Free, LateFree, Inv, GoneIsQuiet
<1>3. Quiet' /\ Idle' /\ Linked' /\ Early' /\ Untried' /\ Restoring' /\ SafeIsQuiet'
  BY <1>1, <1>2 DEF Inv, Linked, Early, Untried, Restoring, SafeIsQuiet, Idle, Quiet, NoDirty,
     worker_side, hooks, run, block
<1>4. refs' \in Nat /\ freers' \in Nat /\ References' /\ ctl' # "start"
  <2>1. CASE Free
    BY <2>1 DEF Free, Inv, Types, References, Held
  <2>2. CASE LateFree
    BY <2>2 DEF LateFree, Inv, Types, References, Held, controller
  <2> QED BY <2>1, <2>2
<1>5. Types'
  BY <1>1, <1>4 DEF Inv, Types, worker_side, hooks, run, block
<1> QED BY <1>3, <1>4, <1>5 DEF Inv, GoneIsQuiet, Prepared

-----------------------------------------------------------------------------

LEMMA UnchangedKeeps == ASSUME Inv, UNCHANGED vars PROVE Inv'
  BY DEF vars, game, worker_side, hooks, run, block, controller, Inv, Types, References,
     GoneIsQuiet, Prepared, Early, Untried, Restoring, Linked, SafeIsQuiet, Idle, Quiet, NoDirty

LEMMA NextKeeps == Inv /\ [Next]_vars => Inv'
<1> SUFFICES ASSUME Inv, [Next]_vars PROVE Inv'
  OBVIOUS
<1>1. CASE Worker
  BY <1>1, StartingKeeps, InstallKeeps, ReadyKeeps, StoppingKeeps, RestoreKeeps, JudgeKeeps,
     DropKeeps DEF Worker
<1>2. CASE Controller
  BY <1>2, InjectKeeps, SessionKeeps, FreeingKeeps DEF Controller
<1>3. CASE Toggle \/ ShowRecord \/ Shutdown \/ LateLoad \/ LateFree \/ Killed \/ Again
  BY <1>3, ToggleKeeps, ShowRecordKeeps, SessionKeeps, LateLoadKeeps, FreeingKeeps
<1>4. CASE UNCHANGED vars
  BY <1>4, UnchangedKeeps
<1> QED BY <1>1, <1>2, <1>3, <1>4 DEF Next

LEMMA InvHolds == Spec => []Inv
  BY Initially, NextKeeps, PTL DEF Spec

\* UnloadSafeMeansQuiet: run()'s verdict is true of the game, whichever
\* install, toggle or restore failed before it.
THEOREM VerdictHolds == Spec => []UnloadSafeMeansQuiet
<1>1. Inv => UnloadSafeMeansQuiet
  BY DEF Inv, SafeIsQuiet, UnloadSafeMeansQuiet
<1> QED BY <1>1, InvHolds, PTL

\* FreedOnlyWhenQuiet: the DLL is unloaded only after hooks are restored,
\* across controllers that time out, die and are started again.
THEOREM UnloadedWhenQuiet == Spec => []FreedOnlyWhenQuiet
<1>1. Inv => FreedOnlyWhenQuiet
  BY DEF Inv, GoneIsQuiet, Idle, FreedOnlyWhenQuiet
<1> QED BY <1>1, InvHolds, PTL

\* StartsFresh: no worker inherits what an earlier session left.
THEOREM FreshStart == Spec => []StartsFresh
<1>1. Inv => StartsFresh
  BY DEF Inv, Early, NoDirty, StartsFresh
<1> QED BY <1>1, InvHolds, PTL

-----------------------------------------------------------------------------
(* Types.  Each session loads the DLL at most once, at once or late, which *)
(* bounds the load count and those that still wait to change it.           *)

Counted ==
  /\ sessions \in 1 .. MaxSessions
  /\ refs + loaders + (IF ctl = "inject" THEN 1 ELSE 0) <= sessions

BlockTypes ==
  /\ state \in {"none", "created", "starting", "ready", "stopping", "stopped", "failed"}
  /\ stop \in BOOLEAN /\ error \in 0 .. 10

WorkerTypes ==
  /\ worker \in WorkerStates /\ sj \in {"off", "on", "busy"}
  /\ code \in 0 .. 10 /\ exitCode \in 0 .. 10 /\ toggles \in 0 .. MaxToggles

ControllerTypes ==
  /\ ctl \in ControllerStates /\ result \in {"none", "unloaded", "remains"}
  /\ owner \in 0 .. MaxSessions

LEMMA CountedInitially == Init => Counted /\ BlockTypes /\ WorkerTypes /\ ControllerTypes
<1> SUFFICES ASSUME Init PROVE Counted /\ BlockTypes /\ WorkerTypes /\ ControllerTypes
  OBVIOUS
<1>1. Counted
  BY BoundsAssumption DEF Init, Counted
<1>2. BlockTypes
  <2>1. state = "none" /\ error = 0
    BY DEF Init
  <2>2. stop \in BOOLEAN
    BY DEF Init
  <2> QED BY <2>1, <2>2 DEF BlockTypes
<1>3. WorkerTypes
  BY BoundsAssumption DEF Init, WorkerTypes, WorkerStates
<1>4. ControllerTypes
  BY BoundsAssumption DEF Init, ControllerTypes, ControllerStates
<1> QED BY <1>1, <1>2, <1>3, <1>4

LEMMA CountedKept == Types /\ Counted /\ [Next]_vars => Counted'
<1> SUFFICES ASSUME Types, Counted, [Next]_vars PROVE Counted'
  OBVIOUS
<1> USE DEF Types, Counted
<1>1. CASE Inject
  <2>1. ctl = "inject" /\ ctl' # "inject" /\ UNCHANGED sessions
        /\ ((refs' = refs + 1 /\ loaders' = loaders) \/ (refs' = refs /\ loaders' = loaders + 1))
    BY <1>1 DEF Inject, LoadLibrary
  <2> QED BY <2>1
<1>2. CASE LateLoad
  <2>1. loaders > 0 /\ loaders' = loaders - 1 /\ refs' = refs + 1 /\ UNCHANGED <<ctl, sessions>>
    BY <1>2 DEF LateLoad, LoadLibrary, controller
  <2> QED BY <2>1
<1>3. CASE Free
  <2>1. /\ ctl = "free" /\ ctl' = "done" /\ UNCHANGED <<loaders, sessions>>
        /\ refs' = refs - 1 \/ refs' = refs
    BY <1>3 DEF Free
  <2> QED BY <2>1
<1>4. CASE LateFree
  <2>1. refs' = refs - 1 /\ UNCHANGED <<loaders, ctl, sessions>>
    BY <1>4 DEF LateFree, controller
  <2> QED BY <2>1
<1>5. CASE Again
  <2>1. /\ ctl \in {"dead", "done"} /\ ctl' = "inject" /\ sessions < MaxSessions
        /\ sessions' = sessions + 1 /\ UNCHANGED <<refs, loaders>>
    BY <1>5 DEF Again, game
  <2> QED BY <2>1, BoundsAssumption
<1>6. CASE Refuse \/ StartWorker \/ WaitReady \/ WaitWorker \/ Shutdown \/ Killed
  <2>1. ctl' # "inject" /\ UNCHANGED <<refs, loaders, sessions>>
    BY <1>6 DEF Refuse, StartWorker, WaitReady, WaitWorker, Shutdown, Killed, game
  <2> QED BY <2>1
<1>7. CASE Worker \/ Toggle \/ ShowRecord \/ UNCHANGED vars
  <2>1. UNCHANGED <<game, controller>>
    BY <1>7 DEF Worker, OpenFails, Open, WaitModules, InstallEngine, Install, Ready, Stopping, Restore,
       Judge, Drop, Toggle, ShowRecord, vars
  <2> QED BY <2>1 DEF game, controller
<1> QED BY <1>1, <1>2, <1>3, <1>4, <1>5, <1>6, <1>7 DEF Next, Controller

\* The steps of the worker that may end with a verdict.
LEMMA VerdictGiven ==
  ASSUME WorkerTypes, Open \/ WaitModules \/ InstallEngine \/ Judge
  PROVE  \/ /\ state' \in {"failed", "stopped"} /\ stop' = stop
            /\ error' \in {error} \cup 1 .. 10
            /\ worker' = "drop" /\ exitCode' \in 0 .. 10
         \/ /\ state' \in {state, "starting"} /\ stop' = stop /\ error' = error
            /\ worker' \in {"modules", "engine", "install"} /\ exitCode' = exitCode
<1>1. CASE Open
  BY <1>1 DEF Open, FailWith
<1>2. CASE WaitModules
  BY <1>2 DEF WaitModules, block, FailWith, StoppedCleanly
<1>3. CASE InstallEngine
  BY <1>3 DEF InstallEngine, block, FailWith
<1>4. CASE Judge
  <2>1. code # 0 => code \in 1 .. 10
    BY DEF WorkerTypes
  <2> QED BY <1>4, <2>1 DEF Judge, FailWith, StoppedCleanly
<1> QED BY <1>1, <1>2, <1>3, <1>4

LEMMA BlockKept == BlockTypes /\ WorkerTypes /\ [Next]_vars => BlockTypes'
<1> SUFFICES ASSUME BlockTypes, WorkerTypes, [Next]_vars PROVE BlockTypes'
  OBVIOUS
<1>1. CASE Open \/ WaitModules \/ InstallEngine \/ Judge
  BY <1>1, VerdictGiven DEF BlockTypes
<1>2. CASE Inject
  <2>1. state' = "created" /\ error' = 0
    BY <1>2 DEF Inject
  <2>2. stop' \in BOOLEAN
    BY <1>2 DEF Inject
  <2> QED BY <2>1, <2>2 DEF BlockTypes
<1>4. CASE Ready \/ Stopping
  <2>1. state' \in {"ready", "stopping"} /\ error' = error /\ stop' = stop
    BY <1>4 DEF Ready, Stopping
  <2> QED BY <2>1 DEF BlockTypes
<1>5. CASE WaitReady \/ Shutdown
  <2>1. state' = state /\ error' = error
    BY <1>5 DEF WaitReady, Shutdown
  <2>2. stop' \in BOOLEAN
    <3>1. stop' = stop \/ stop' = TRUE
      BY <1>5, Zenon DEF WaitReady, Shutdown
    <3> QED BY <3>1 DEF BlockTypes
  <2> QED BY <2>1, <2>2 DEF BlockTypes
<1>3. CASE \/ OpenFails \/ Install \/ Restore \/ Drop \/ Toggle \/ ShowRecord
           \/ Refuse \/ StartWorker \/ WaitWorker \/ Free \/ LateLoad \/ LateFree \/ Killed \/ Again
           \/ UNCHANGED vars
  <2>1. UNCHANGED block
    BY <1>3 DEF OpenFails, Install, Restore, Drop, Toggle, ShowRecord, Refuse, StartWorker, WaitWorker,
       Free, LateLoad, LateFree, Killed, Again, vars
  <2> QED BY <2>1 DEF block, BlockTypes
<1> QED BY <1>1, <1>2, <1>3, <1>4, <1>5 DEF Next, Worker, Controller

LEMMA WorkerKept == BlockTypes /\ WorkerTypes /\ Types /\ [Next]_vars => WorkerTypes'
<1> SUFFICES ASSUME BlockTypes, WorkerTypes, Types, [Next]_vars PROVE WorkerTypes'
  OBVIOUS
<1>1. CASE Open \/ WaitModules \/ InstallEngine \/ Judge
  <2>1. UNCHANGED <<sj, code, toggles>>
    BY <1>1 DEF Open, WaitModules, InstallEngine, Judge, run
  <2>2. worker' \in WorkerStates /\ exitCode' \in 0 .. 10
    BY <1>1, VerdictGiven DEF WorkerTypes, WorkerStates
  <2> QED BY <2>1, <2>2 DEF WorkerTypes
<1>2. CASE Install
  <2>1. PICK ok \in BOOLEAN :
          /\ sj' = CASE installed + 1 = 4 /\ ~ok -> "off"
                     [] installed + 1 = 3 /\ ok -> "on"
                     [] OTHER -> sj
          /\ \/ ok /\ UNCHANGED <<worker, todo, judged, code>>
             \/ ~ok /\ worker' = "restore" /\ code' = FailCode[installed + 1]
    BY <1>2 DEF Install
  <2>2. sj' \in {"off", "on", "busy"}
    BY <2>1 DEF WorkerTypes
  <2>3. FailCode[installed + 1] \in 0 .. 10
    BY <1>2 DEF Install, FailCode, Types
  <2>4. worker' \in WorkerStates /\ code' \in 0 .. 10
    BY <2>1, <2>3 DEF WorkerTypes, WorkerStates
  <2> QED BY <1>2, <2>2, <2>4 DEF Install, WorkerTypes
<1>3. CASE OpenFails
  BY <1>3 DEF OpenFails, run, WorkerTypes, WorkerStates
<1>4. CASE Ready \/ Stopping \/ Restore \/ Drop
  BY <1>4 DEF Ready, Stopping, Restore, Drop, run, WorkerTypes, WorkerStates
<1>5. CASE Toggle
  <2>1. toggles' \in 0 .. MaxToggles
    BY <1>5, BoundsAssumption DEF Toggle, WorkerTypes
  <2> QED BY <1>5, <2>1 DEF Toggle, run, WorkerTypes
<1>6. CASE ShowRecord
  BY <1>6 DEF ShowRecord, run, WorkerTypes
<1>7. CASE Inject \/ LateLoad
  <2>1. sj' \in {"off", "on", "busy"}
    BY <1>7 DEF Inject, LateLoad, LoadLibrary, FreshDll, WorkerTypes
  <2> QED BY <1>7, <2>1 DEF Inject, LateLoad, run, WorkerTypes, WorkerStates
<1>8. CASE \/ Refuse \/ StartWorker \/ WaitReady \/ WaitWorker \/ Shutdown \/ Free \/ LateFree \/ Killed
           \/ Again \/ UNCHANGED vars
  BY <1>8 DEF Refuse, StartWorker, WaitReady, WaitWorker, Shutdown, Free, LateFree, Killed, Again, vars,
     worker_side, run, WorkerTypes, WorkerStates
<1> QED BY <1>1, <1>2, <1>3, <1>4, <1>5, <1>6, <1>7, <1>8 DEF Next, Worker, Controller

LEMMA ControllerKept == Counted /\ ControllerTypes /\ [Next]_vars => ControllerTypes'
<1> SUFFICES ASSUME Counted, ControllerTypes, [Next]_vars PROVE ControllerTypes'
  OBVIOUS
<1>1. sessions \in 0 .. MaxSessions
  BY BoundsAssumption DEF Counted
<1>2. CASE Controller \/ Shutdown \/ Killed \/ Again
  BY <1>1, <1>2 DEF Controller, Refuse, Inject, StartWorker, WaitReady, WaitWorker, Free, Shutdown,
     Killed, Again, worker_side, ControllerTypes, ControllerStates
<1>3. CASE Worker \/ Toggle \/ ShowRecord \/ LateLoad \/ LateFree \/ UNCHANGED vars
  BY <1>3 DEF Worker, OpenFails, Open, WaitModules, InstallEngine, Install, Ready, Stopping, Restore,
     Judge, Drop, Toggle, ShowRecord, LateLoad, LateFree, vars, worker_side, controller, ControllerTypes
<1> QED BY <1>2, <1>3 DEF Next

\* TypeOK: the load count and the sessions that still wait to change it stay
\* within the number of sessions, and the rest in its ranges.
THEOREM LifecycleTyped == Spec => []TypeOK
<1>1. Types /\ Counted /\ BlockTypes /\ WorkerTypes /\ ControllerTypes /\ References => TypeOK
  <2> SUFFICES ASSUME Types, Counted, BlockTypes, WorkerTypes, ControllerTypes, References PROVE TypeOK
    OBVIOUS
  <2>1. refs \in 0 .. MaxSessions /\ loaders \in 0 .. MaxSessions /\ freers \in 0 .. MaxSessions
    BY BoundsAssumption DEF Types, Counted, References
  <2> QED BY <2>1 DEF Types, Counted, BlockTypes, WorkerTypes, ControllerTypes, TypeOK
<1>2. Inv => Types /\ References
  BY DEF Inv
<1> QED BY <1>1, <1>2, InvHolds, CountedInitially, CountedKept, BlockKept, WorkerKept, ControllerKept,
           PTL DEF Spec

-----------------------------------------------------------------------------
(* The records the hook leaves for its controller: LogRing.                *)

\* A number is its quotient and its remainder.
LEMMA DivMod ==
  ASSUME NEW s \in Nat \ {0}, NEW n \in Int
  PROVE  n \div s \in Int /\ n = s * (n \div s) + (n % s)
<1>1. n \div s \in Int
  OBVIOUS
<1>2. n = s * (n \div s) + (n % s)
  BY Z3
<1> QED BY <1>1, <1>2

\* Two numbers with the same remainder are at least the divisor apart.
LEMMA SameRemainder ==
  ASSUME NEW s \in Nat \ {0}, NEW m \in Int, NEW n \in Int, m % s = n % s, m > n
  PROVE  m >= n + s
<1> DEFINE a == m \div s
           b == n \div s
<1>1. a \in Int /\ b \in Int /\ m = s * a + (m % s) /\ n = s * b + (n % s)
  BY DivMod
<1>2. m % s \in Int /\ n % s \in Int
  OBVIOUS
<1> HIDE DEF a, b
<1>3. m - n = s * (a - b)
  BY <1>1, <1>2
<1>4. a - b >= 1
  <2> SUFFICES ASSUME a - b <= 0 PROVE FALSE
    BY <1>1
  <2>1. s * (a - b) <= 0
    BY <1>1
  <2> QED BY <1>3, <2>1
<1>5. s * (a - b) >= s
  BY <1>1, <1>4
<1> QED BY <1>3, <1>5

\* The assumptions of LogRing.
LogBounds == NoWriter \notin Writers /\ Slots \in Nat \ {0} /\ MaxRecords \in Nat

LEMMA LogBounded == LogBounds
  BY WritersAssumption, SlotsAssumption DEF LogBounds

\* A record has a slot, and shares it only with records a whole ring away.
LEMMA SlotRange == ASSUME LogBounds, NEW n \in Nat, n >= 1 PROVE SlotOf(n) \in Ring
  BY DEF LogBounds, SlotOf, Ring

LEMMA SlotShared ==
  ASSUME LogBounds, NEW m \in Nat, NEW n \in Nat, SlotOf(m) = SlotOf(n), m > n
  PROVE  m >= n + Slots
<1>1. /\ Slots \in Nat \ {0} /\ m - 1 \in Int /\ n - 1 \in Int /\ m - 1 > n - 1
      /\ (m - 1) % Slots = (n - 1) % Slots
  BY DEF LogBounds, SlotOf
<1> HIDE DEF SlotOf
<1>2. m - 1 >= (n - 1) + Slots
  BY <1>1, SameRemainder
<1> QED BY <1>1, <1>2

-----------------------------------------------------------------------------

Stored == {"invalidate", "body", "head", "publish"}

\* The spin lock: one writer at a time is past it, and the record it writes
\* is the last one allocated.
OneWrites ==
  \A w \in Writers :
    /\ step[w] \notin {"idle", "spin"} => lock = w
    /\ step[w] \in Stored => mine[w] = logWrite /\ logWrite >= 1

\* A number in a slot is that of a whole record, published before the one
\* that is being written.
PublishedWhole ==
  \A k \in Ring :
    /\ sequence[k] # 0 => head[k] = sequence[k] /\ body[k] = sequence[k]
    /\ sequence[k] <= logWrite
    /\ \A w \in Writers : step[w] \in Stored => sequence[k] < mine[w]

\* The writer goes through its slot in order.
InOrder ==
  \A w \in Writers :
    LET k == SlotOf(mine[w]) IN
      /\ step[w] \in {"body", "head", "publish"} => sequence[k] = 0
      /\ step[w] \in {"head", "publish"} => body[k] = mine[w]
      /\ step[w] = "publish" => head[k] = mine[w]

\* Every record is in its slot, overwritten, or still being written.
Present ==
  \A n \in 1 .. logWrite :
    sequence[SlotOf(n)] = n \/ logWrite >= n + Slots \/ Unpublished(n)

\* The controller copies a record that has been published; as long as its
\* number is there, what was copied is that record.
Snapshot ==
  /\ latest <= logWrite /\ reported < next
  /\ at \in {"head", "body", "recheck"} => next <= latest /\ ~Unpublished(next)
  /\ at \in {"body", "recheck"} /\ Holds(next) => copied.head = next
  /\ at = "recheck" /\ Holds(next) => copied.body = next

LogInv ==
  /\ LogBounds /\ LogTypeOK /\ OneWrites /\ PublishedWhole /\ InOrder /\ Present /\ Snapshot /\ EmittedWhole

LEMMA LogInitially == LogInit => LogInv
<1> SUFFICES ASSUME LogInit PROVE LogInv
  OBVIOUS
<1>0. LogBounds
  BY LogBounded
<1> USE <1>0 DEF LogBounds, LogInit
<1>1. LogTypeOK
  <2>1. 0 \in Record /\ 1 \in 1 .. (MaxRecords + 1)
    BY DEF Record
  <2> QED BY <2>1 DEF LogTypeOK, Nothing
<1>2. OneWrites /\ InOrder
  BY DEF OneWrites, InOrder, Stored
<1>3. PublishedWhole
  BY DEF PublishedWhole, Stored
<1>5. Present
  <2>1. 1 .. logWrite = {}
    OBVIOUS
  <2> QED BY <2>1 DEF Present
<1>4. Snapshot /\ EmittedWhole
  BY DEF Snapshot, EmittedWhole, Nothing
<1> QED BY <1>1, <1>2, <1>3, <1>4, <1>5 DEF LogInv

\* What a step of one writer leaves to the others.
LEMMA Others ==
  ASSUME LogInv, NEW w \in Writers, step[w] \in Stored
  PROVE  \A v \in Writers \ {w} : step[v] \in {"idle", "spin"}
  BY DEF LogInv, LogTypeOK, OneWrites, Stored

USE DEF Stored

LEMMA WriteStep == ASSUME LogInv, NEW w \in Writers, Call(w) \/ Lock(w) \/ Unlock(w) PROVE LogInv'
<1> USE DEF Go, LogInv, LogTypeOK
<1>1. LogTypeOK'
  BY DEF Call, Lock, Unlock, slots, reading
<1>2. OneWrites'
  BY DEF LogBounds, OneWrites, Call, Lock, Unlock, slots, reading
<1>3. \A v \in Writers : (step'[v] \in Stored <=> step[v] \in Stored) /\ (step[v] \in Stored => step'[v] = step[v])
  BY DEF Call, Lock, Unlock
<1>4. UNCHANGED <<mine, logWrite, slots, reading>>
  BY DEF Call, Lock, Unlock
<1>5. PublishedWhole'
  BY <1>3, <1>4 DEF PublishedWhole, slots
<1>6. InOrder'
  BY <1>3, <1>4 DEF InOrder, slots
<1>7. \A n : Unpublished(n)' <=> Unpublished(n)
  BY <1>3, <1>4 DEF Unpublished
<1>8. Present'
  BY <1>4, <1>7 DEF Present, slots
<1>9. Snapshot' /\ EmittedWhole'
  BY <1>4, <1>7 DEF Snapshot, slots, reading, EmittedWhole, Holds
<1> QED BY <1>1, <1>2, <1>5, <1>6, <1>8, <1>9

\* The writer that has the lock, and the slot it writes.
LEMMA Holder ==
  ASSUME LogInv, NEW w \in Writers, step[w] \in Stored
  PROVE  /\ mine[w] = logWrite /\ mine[w] \in Nat /\ mine[w] >= 1
         /\ SlotOf(mine[w]) \in Ring
         /\ \A n : Unpublished(n) <=> n = mine[w]
<1>1. mine[w] = logWrite /\ mine[w] \in Nat /\ mine[w] >= 1
  BY DEF LogBounds, LogInv, LogTypeOK, OneWrites, Record
<1>2. \A n : Unpublished(n) <=> n = mine[w]
  BY Others DEF Unpublished
<1>3. LogBounds
  BY DEF LogInv
<1> QED BY <1>1, <1>2, <1>3, SlotRange

LEMMA AllocateStep == ASSUME LogInv, NEW w \in Writers, Allocate(w) PROVE LogInv'
<1> USE DEF LogBounds, Go, LogInv, LogTypeOK, Record
<1>1. /\ step[w] = "allocate" /\ step' = [step EXCEPT ![w] = "invalidate"]
      /\ logWrite' = logWrite + 1 /\ logWrite < MaxRecords
      /\ mine' = [mine EXCEPT ![w] = logWrite + 1]
      /\ UNCHANGED <<lock, slots, reading>>
  BY DEF Allocate
<1>2. \A v \in Writers \ {w} : step[v] \in {"idle", "spin"}
  BY <1>1 DEF OneWrites
<1>3. LogTypeOK'
  BY <1>1 DEF slots, reading
<1>4. OneWrites'
  BY <1>1, <1>2 DEF OneWrites
<1>5. PublishedWhole'
  BY <1>1, <1>2 DEF PublishedWhole, slots
<1>6. InOrder'
  BY <1>1, <1>2 DEF InOrder, slots
<1>7. \A n : ~Unpublished(n) /\ (Unpublished(n)' <=> n = logWrite + 1)
  BY <1>1, <1>2 DEF Unpublished
<1>8. Present'
  <2> SUFFICES ASSUME NEW n \in 1 .. logWrite', n # logWrite + 1
               PROVE  sequence'[SlotOf(n)] = n \/ logWrite' >= n + Slots
    BY <1>7 DEF Present
  <2>1. n \in 1 .. logWrite
    BY <1>1
  <2> QED BY <1>1, <1>7, <2>1 DEF Present, slots
<1>9. Snapshot' /\ EmittedWhole'
  BY <1>1, <1>7 DEF Snapshot, slots, reading, EmittedWhole, Holds
<1> QED BY <1>3, <1>4, <1>5, <1>6, <1>8, <1>9

\* Up to the publication the slot has no number.
LEMMA StoreStep ==
  ASSUME LogInv, NEW w \in Writers, Invalidate(w) \/ StoreBody(w) \/ StoreHead(w)
  PROVE  LogInv'
<1> USE DEF LogBounds, LogInv
<1> DEFINE m == mine[w]
           k == SlotOf(m)
<1>1. step[w] \in Stored /\ step'[w] \in Stored
  BY DEF Invalidate, StoreBody, StoreHead, Go, LogTypeOK
<1>2. /\ m = logWrite /\ m \in Nat /\ m >= 1 /\ k \in Ring
      /\ \A n : Unpublished(n) <=> n = m
  BY <1>1, Holder
<1> HIDE DEF k
<1>3. /\ \A v \in Writers \ {w} : step[v] \in {"idle", "spin"} /\ step'[v] = step[v]
      /\ UNCHANGED <<lock, mine, logWrite, reading>>
  BY <1>1, Others DEF Invalidate, StoreBody, StoreHead, Go, LogTypeOK
<1>4. \/ /\ step' = [step EXCEPT ![w] = "body"]
         /\ sequence' = [sequence EXCEPT ![k] = 0]
         /\ UNCHANGED <<head, body>>
      \/ /\ step[w] = "body" /\ step' = [step EXCEPT ![w] = "head"]
         /\ body' = [body EXCEPT ![k] = m]
         /\ UNCHANGED <<sequence, head>>
      \/ /\ step[w] = "head" /\ step' = [step EXCEPT ![w] = "publish"]
         /\ head' = [head EXCEPT ![k] = m]
         /\ UNCHANGED <<sequence, body>>
  BY DEF Invalidate, StoreBody, StoreHead, Go, k
<1>5. LogTypeOK'
  BY <1>2, <1>3, <1>4 DEF LogTypeOK, reading, Record
<1>6. OneWrites'
  BY <1>1, <1>3, <1>4 DEF OneWrites, LogTypeOK
<1>7. /\ sequence'[k] = 0
      /\ \A j \in Ring \ {k} : sequence'[j] = sequence[j] /\ head'[j] = head[j] /\ body'[j] = body[j]
  BY <1>2, <1>4 DEF InOrder, LogTypeOK, k
<1>8. PublishedWhole'
  BY <1>1, <1>2, <1>3, <1>7 DEF PublishedWhole, LogTypeOK, Record
<1>9. InOrder'
  <2> SUFFICES ASSUME NEW v \in Writers, step'[v] \in Stored
               PROVE  LET j == SlotOf(mine'[v]) IN
                        /\ step'[v] \in {"body", "head", "publish"} => sequence'[j] = 0
                        /\ step'[v] \in {"head", "publish"} => body'[j] = mine'[v]
                        /\ step'[v] = "publish" => head'[j] = mine'[v]
    BY DEF InOrder
  <2>1. v = w /\ mine'[v] = m /\ SlotOf(mine'[v]) = k
    BY <1>3 DEF k
  <2>2. step[w] \in {"head", "publish"} => body[k] = m
    BY DEF InOrder, k
  <2> QED BY <1>2, <1>4, <1>7, <2>1, <2>2 DEF LogTypeOK
<1>10. \A n : Unpublished(n)' <=> n = m
  BY <1>1, <1>3 DEF Unpublished
<1>11. Present'
  <2> SUFFICES ASSUME NEW n \in 1 .. logWrite, n # m, ~(logWrite >= n + Slots)
               PROVE  sequence'[SlotOf(n)] = n
    BY <1>3, <1>10 DEF Present
  <2>1. sequence[SlotOf(n)] = n
    BY <1>2 DEF Present
  <2>2. SlotOf(n) # k
    BY <1>2, SlotShared DEF k, LogTypeOK, Record
  <2> QED BY <1>7, <2>1, <2>2, SlotRange DEF LogTypeOK, Record
<1>12. Snapshot'
  <2>1. at \in {"head", "body", "recheck"} => next # m /\ ~Unpublished(next)'
    BY <1>2, <1>3, <1>10 DEF Snapshot, reading
  <2>2. at \in {"head", "body", "recheck"} /\ Holds(next)' => Holds(next)
    BY <1>2, <1>3, <1>7, SlotRange DEF Snapshot, Holds, LogTypeOK, Record, reading
  <2> QED BY <1>3, <2>1, <2>2 DEF Snapshot, reading
<1> QED BY <1>3, <1>5, <1>6, <1>8, <1>9, <1>11, <1>12 DEF EmittedWhole, reading

LEMMA PublishStep == ASSUME LogInv, NEW w \in Writers, Publish(w) PROVE LogInv'
<1> USE DEF LogBounds, LogInv
<1> DEFINE m == mine[w]
           k == SlotOf(m)
<1>1. step[w] = "publish"
  BY DEF Publish, Go
<1>2. /\ m = logWrite /\ m \in Nat /\ m >= 1 /\ k \in Ring
      /\ \A n : Unpublished(n) <=> n = m
  BY <1>1, Holder
<1>3. body[k] = m /\ head[k] = m
  BY <1>1 DEF InOrder
<1> HIDE DEF k
<1>4. /\ step' = [step EXCEPT ![w] = "unlock"]
      /\ sequence' = [sequence EXCEPT ![k] = m]
      /\ UNCHANGED <<lock, mine, logWrite, head, body, reading>>
  BY DEF Publish, Go, k
<1>5. \A v \in Writers : step'[v] \notin Stored
  BY <1>1, <1>4, Others DEF LogTypeOK
<1>6. LogTypeOK'
  BY <1>2, <1>4 DEF LogTypeOK, reading, Record
<1>7. OneWrites' /\ InOrder'
  BY <1>1, <1>4, <1>5 DEF OneWrites, InOrder, LogTypeOK
<1>8. PublishedWhole'
  BY <1>2, <1>3, <1>4, <1>5 DEF PublishedWhole, LogTypeOK, Record
<1>9. \A n : ~Unpublished(n)'
  BY <1>5 DEF Unpublished
<1>10. Present'
  <2> SUFFICES ASSUME NEW n \in 1 .. logWrite, ~(logWrite >= n + Slots)
               PROVE  sequence'[SlotOf(n)] = n
    BY <1>4 DEF Present
  <2>1. CASE n = m
    BY <1>2, <1>4, <2>1 DEF k, LogTypeOK
  <2>2. CASE n # m
    <3>1. sequence[SlotOf(n)] = n
      BY <1>2, <2>2 DEF Present
    <3>2. SlotOf(n) # k
      BY <1>2, <2>2, SlotShared DEF k, LogTypeOK, Record
    <3> QED BY <1>4, <3>1, <3>2 DEF LogTypeOK
  <2> QED BY <2>1, <2>2
<1>11. Snapshot'
  <2>1. at \in {"head", "body", "recheck"} => next # m
    BY <1>2 DEF Snapshot
  <2>2. at \in {"head", "body", "recheck"} /\ Holds(next)' => Holds(next)
    BY <1>2, <1>4, <2>1 DEF Holds, LogTypeOK, reading
  <2> QED BY <1>4, <1>9, <2>2 DEF Snapshot, reading
<1> QED BY <1>4, <1>6, <1>7, <1>8, <1>10, <1>11 DEF EmittedWhole, reading

\* The controller.
LEMMA ReadStep == ASSUME LogInv, Begin \/ Flush PROVE LogInv'
<1> USE DEF LogBounds, LogInv, LogTypeOK, Record
<1>1. UNCHANGED <<writing, slots>>
  BY DEF Begin, Flush, End, Found, Missing, CopyHead, CopyBody, Emit, Advance
<1>2. OneWrites' /\ PublishedWhole' /\ InOrder' /\ Present' /\ \A n : Unpublished(n)' <=> Unpublished(n)
  BY <1>1 DEF writing, slots, OneWrites, PublishedWhole, InOrder, Present, Unpublished
<1>3. \A n : Holds(n)' <=> Holds(n)
  BY <1>1 DEF slots, Holds
<1>4. LogTypeOK' /\ Snapshot' /\ EmittedWhole'
  <2> USE <1>1, <1>2, <1>3 DEF writing, slots, Snapshot, EmittedWhole
  <2>1. CASE Begin
    BY <2>1 DEF Begin
  <2>2. CASE End
    BY <2>2 DEF End
  <2>3. CASE Found
    <3>1. ~Unpublished(next)
      BY <2>3, SlotRange DEF Found, Holds, Unpublished, PublishedWhole
    <3> QED BY <2>3, <3>1 DEF Found, More
  <2>4. CASE Missing
    BY <2>4 DEF Missing, Advance, More
  <2>5. CASE CopyHead
    <3>1. Holds(next) => head[SlotOf(next)] = next
      BY SlotRange DEF Holds, PublishedWhole
    <3> QED BY <2>5, <3>1, SlotRange DEF CopyHead
  <2>6. CASE CopyBody
    <3>1. Holds(next) => body[SlotOf(next)] = next
      BY SlotRange DEF Holds, PublishedWhole
    <3> QED BY <2>6, <3>1, SlotRange DEF CopyBody
  <2>7. CASE Emit
    BY <2>7 DEF Emit, Advance
  <2> QED BY <2>1, <2>2, <2>3, <2>4, <2>5, <2>6, <2>7 DEF Flush
<1> QED BY <1>2, <1>4

LEMMA LogPreserved == LogInv /\ [LogNext]_logVars => LogInv'
<1> SUFFICES ASSUME LogInv, [LogNext]_logVars PROVE LogInv'
  OBVIOUS
<1>1. CASE UNCHANGED logVars
  BY <1>1 DEF logVars, writing, slots, reading, LogInv, LogTypeOK, OneWrites, PublishedWhole, InOrder, Present,
     Snapshot, EmittedWhole, Unpublished, Holds
<1>2. CASE LogNext
  BY <1>2, WriteStep, AllocateStep, StoreStep, PublishStep, ReadStep DEF LogNext, Write
<1> QED BY <1>1, <1>2

\* TypeOK of LogRing: the numbers and slots stay in their ranges.
THEOREM LogTyped == LogSpec => []LogTypeOK
<1>1. LogInv => LogTypeOK
  BY DEF LogInv
<1> QED BY <1>1, LogInitially, LogPreserved, PTL DEF LogSpec

\* EmittedWhole: no printed record is mixed from two, for any number of
\* writers and any size of the ring.
THEOREM RecordsWhole == LogSpec => []EmittedWhole
<1>1. LogInv => EmittedWhole
  BY DEF LogInv
<1> QED BY <1>1, LogInitially, LogPreserved, PTL DEF LogSpec

\* PresentIsEmitted: flush_logs passes over a record only when it has been
\* overwritten or is still being written.
THEOREM NoRecordSkipped == LogSpec => PresentIsEmitted
<1> DEFINE Kept == \A n \in next .. next' - 1 :
                     emitted'.seq = n \/ logWrite >= n + Slots \/ Unpublished(n)
<1>1. ASSUME LogInv, [LogNext]_logVars PROVE [Kept]_logVars
  <2>0. next \in Nat /\ logWrite \in Nat /\ Slots \in Nat
    BY <1>1 DEF LogBounds, LogInv, LogTypeOK, Record
  <2>1. CASE next' = next
    BY <2>0, <2>1
  <2>2. CASE Begin
    <3>1. next' = next \/ next' - 1 = logWrite - Slots
      BY <2>0, <2>2 DEF Begin
    <3>2. CASE next' - 1 = logWrite - Slots
      BY <2>0, <3>2
    <3> QED BY <2>1, <3>1, <3>2
  <2>3. CASE Missing
    <3>1. next \in 1 .. logWrite /\ ~Holds(next) /\ next' = next + 1
      BY <1>1, <2>3 DEF Missing, More, Snapshot, Advance, LogInv, LogTypeOK, Record
    <3>2. logWrite >= next + Slots \/ Unpublished(next)
      BY <1>1, <3>1 DEF LogInv, Present, Holds
    <3>3. next .. next' - 1 = {next}
      BY <2>0, <3>1
    <3> QED BY <3>2, <3>3
  <2>4. CASE Emit
    <3>1. next' = next + 1 /\ emitted'.seq = next
      BY <2>4 DEF Emit, Advance
    <3>2. next .. next' - 1 = {next}
      BY <2>0, <3>1
    <3> QED BY <3>1, <3>2
  <2>5. next' = next \/ Begin \/ Missing \/ Emit
    <3>1. CASE UNCHANGED logVars
      BY <3>1 DEF logVars, reading
    <3>2. CASE Flush
      BY <3>2 DEF Flush, End, Found, CopyHead, CopyBody
    <3>3. ASSUME NEW w \in Writers, Call(w) \/ Write(w) PROVE next' = next
      BY <3>3 DEF Write, Call, Lock, Allocate, Invalidate, StoreBody, StoreHead, Publish, Unlock, reading
    <3> QED BY <1>1, <3>1, <3>2, <3>3 DEF LogNext
  <2> QED BY <2>1, <2>2, <2>3, <2>4, <2>5
<1> QED BY <1>1, LogInitially, LogPreserved, PTL DEF LogSpec, PresentIsEmitted
=============================================================================
