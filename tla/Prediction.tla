------------------------------ MODULE Prediction ------------------------------
(***************************************************************************)
(* The controller's prediction patch (bunnyhopfix/src/windows.rs and       *)
(* linux.rs): apply switches all sites inside one stop of the game,        *)
(* undoing what it wrote when a write fails; main runs it at the start, at *)
(* every F5 (SIGUSR1, Scroll Lock) and at the exit.  Each site keeps its   *)
(* bytes and, on Windows, whether its page has the protection that was     *)
(* discovered.  On Linux the stop is ptrace's, which ends with the tracer, *)
(* and the restoration is tried again when Patcher is dropped.             *)
(***************************************************************************)
EXTENDS Naturals

CONSTANTS
  N,           \* number of sites (find_sites demands a fixed count)
  MaxToggles,  \* bound: presses of F5
  MaxForeign   \* bound: rewrites of a site by other code of the game

ASSUME SitesAssumption == N \in Nat \ {0}
ASSUME BoundsAssumption == MaxToggles \in Nat /\ MaxForeign \in Nat

Sites == 1..N

VARIABLES
  os,        \* "windows" or "linux"
  mem,       \* per site: "original", "replacement", "torn" or "foreign"
  prot,      \* per site: its page has the discovered protection
  view,      \* the bytes the game's threads last ran with
  stopped,   \* the controller holds the game's threads
  want,      \* apply's argument
  at,        \* the step of apply, "idle" outside
  i,         \* the site being written or undone
  undone,    \* no rollback write has failed
  on,        \* main's flag
  stage,     \* main: "start", "loop", "exit", "drop", "shutdown" or "dead"
  report,    \* what the exit printed: "none", "restored" or "failed"
  toggles, foreign

vars == <<os, mem, prot, view, stopped, want, at, i, undone, on, stage, report,
          toggles, foreign>>

Bytes == {"original", "replacement", "torn", "foreign"}

Init ==
  /\ os \in {"windows", "linux"}
  /\ mem = [s \in Sites |-> "original"]
  /\ prot = [s \in Sites |-> TRUE]
  /\ view = mem
  /\ stopped = FALSE
  /\ want = TRUE /\ at = "idle" /\ i = 1 /\ undone = TRUE
  /\ on = FALSE /\ stage = "start" /\ report = "none"
  /\ toggles = 0 /\ foreign = 0

Prior == IF want THEN "original" ELSE "replacement"
Desired == IF want THEN "replacement" ELSE "original"

-----------------------------------------------------------------------------
(* Process::write and write_mem.                                           *)

\* VirtualProtectEx fails; or the protection is not the discovered one, this
\* is no repair, and it is left as it was found.
WriteRefused == UNCHANGED <<mem, prot>>

\* The write runs, whole, in part or not at all; it is verified only when all
\* bytes arrived, the cache was flushed and the protection is back.
WriteRuns(s, bytes, repair, ok) ==
  /\ prot[s] \/ repair
  /\ \E arrived \in {bytes, "torn", mem[s]}, flushed, protected \in BOOLEAN :
       /\ mem' = [mem EXCEPT ![s] = arrived]
       /\ prot' = [prot EXCEPT ![s] = protected]
       /\ ok = (arrived = bytes /\ flushed /\ protected)

\* write_mem: through /proc/<pid>/mem, past any protection, and read back.
WriteMem(s, bytes, ok) ==
  \E arrived \in {bytes, "torn", mem[s]}, readBack \in BOOLEAN :
    /\ mem' = [mem EXCEPT ![s] = arrived]
    /\ ok = (arrived = bytes /\ readBack)
    /\ UNCHANGED prot

Write(s, bytes, repair, ok) ==
  \/ ~ok /\ WriteRefused
  \/ os = "windows" /\ WriteRuns(s, bytes, repair, ok)
  \/ os = "linux" /\ WriteMem(s, bytes, ok)

-----------------------------------------------------------------------------
(* apply.                                                                  *)

main == <<os, on, stage, report, toggles>>

Begin(enabled) ==
  /\ at = "idle"
  /\ want' = enabled
  /\ at' = "stop"

\* RemoteThreadGuard::suspend, PtraceGuard::attach: the game stands still until apply returns.
Stop ==
  /\ at = "stop"
  /\ at' = "check" /\ stopped' = TRUE
  /\ UNCHANGED <<mem, prot, view, want, i, undone, main, foreign>>

\* Mutation: only the first site is looked at.
RecognisedFirst == mem[1] = Prior /\ prot[1]

\* Every site is checked before the first one is written.
Recognised == \A s \in Sites : mem[s] = Prior /\ prot[s]

Check ==
  /\ at = "check" /\ Recognised
  /\ at' = "write" /\ i' = 1 /\ undone' = TRUE
  /\ UNCHANGED <<mem, prot, view, stopped, want, main, foreign>>

\* Mutation: the rollback leaves out the site that failed.
WriteSiteSkips ==
  /\ at = "write"
  /\ \E ok \in BOOLEAN :
       /\ Write(i, Desired, FALSE, ok)
       /\ at' = CASE ok /\ i < N -> "write" [] ok /\ i = N -> "ok"
                  [] ~ok /\ i > 1 -> "undo" [] OTHER -> "err"
       /\ i' = CASE ok /\ i < N -> i + 1 [] ~ok /\ i > 1 -> i - 1 [] OTHER -> i
  /\ UNCHANGED <<view, stopped, want, undone, main, foreign>>

WriteSite ==
  /\ at = "write"
  /\ \E ok \in BOOLEAN :
       /\ Write(i, Desired, FALSE, ok)
       /\ at' = IF ~ok THEN "undo" ELSE IF i < N THEN "write" ELSE "ok"
       /\ i' = IF ok /\ i < N THEN i + 1 ELSE i
  /\ UNCHANGED <<view, stopped, want, undone, main, foreign>>

\* Mutation: the loop runs below the first site.
UndoSiteBelow ==
  /\ at = "undo"
  /\ UNCHANGED <<mem, prot, undone, view, stopped, want, main, foreign>>
  /\ at' = IF i > 0 THEN "undo" ELSE "err"
  /\ i' = IF i > 0 THEN i - 1 ELSE i

\* sites[..=index] backwards, the failing one included, repairing protections.
UndoSite ==
  /\ at = "undo"
  /\ \E ok \in BOOLEAN :
       /\ Write(i, Prior, TRUE, ok)
       /\ undone' = (undone /\ ok)
  /\ at' = IF i > 1 THEN "undo" ELSE "err"
  /\ i' = IF i > 1 THEN i - 1 ELSE i
  /\ UNCHANGED <<view, stopped, want, main, foreign>>

\* The process is another one, the stop is refused, or a site or a protection is not recognised.
Refuse ==
  /\ \/ at = "stop"
     \/ at = "check" /\ ~Recognised
  /\ at' = "err"
  /\ UNCHANGED <<mem, prot, view, stopped, want, i, undone, main, foreign>>

\* apply returns: its guard is dropped and the game runs on.
Resume ==
  /\ at \in {"ok", "err"} /\ stopped
  /\ stopped' = FALSE /\ view' = mem
  /\ UNCHANGED <<mem, prot, want, at, i, undone, main, foreign>>

-----------------------------------------------------------------------------
(* main.                                                                   *)

data == <<os, mem, prot, view, stopped, i, undone, foreign>>

\* apply(&proc, &sites, true) before the loop, an F5 edge inside it, and the
\* restoration after it, which is skipped when `on` is down.
Start ==
  /\ stage = "start" /\ Begin(TRUE)
  /\ UNCHANGED <<data, main>>

Toggle ==
  /\ stage = "loop" /\ toggles < MaxToggles /\ Begin(~on)
  /\ toggles' = toggles + 1
  /\ UNCHANGED <<data, on, stage, report>>

Quit ==
  /\ stage = "loop" /\ at = "idle"
  /\ stage' = "exit"
  /\ IF on THEN Begin(FALSE) /\ UNCHANGED report
           ELSE report' = "restored" /\ UNCHANGED <<at, want>>
  /\ UNCHANGED <<data, on, toggles>>

\* Patcher::drop: a last apply(false) while the flag is up.
DropPatcher ==
  IF on THEN stage' = "drop" /\ Begin(FALSE)
        ELSE stage' = "shutdown" /\ UNCHANGED <<at, want>>

\* Linux: the launcher has ended, perhaps without the game.
LauncherGone ==
  /\ os = "linux" /\ stage = "loop" /\ at = "idle"
  /\ DropPatcher
  /\ UNCHANGED <<data, on, report, toggles>>

\* Mutation: the flag follows the key, not the answer.
AnsweredAlways(ok) ==
  /\ at = (IF ok THEN "ok" ELSE "err") /\ ~stopped
  /\ at' = "idle"
  /\ \/ /\ stage = "start"
        /\ stage' = IF ok THEN "loop" ELSE "shutdown"
        /\ on' = ok
        /\ UNCHANGED report
     \/ /\ stage = "loop"
        /\ on' = want
        /\ UNCHANGED <<stage, report>>
     \/ /\ stage = "exit"
        /\ report' = IF ok THEN "restored" ELSE "failed"
        /\ on' = (on /\ ~(ok /\ os = "linux"))
        /\ UNCHANGED stage
     \/ /\ stage = "drop"
        /\ stage' = "shutdown"
        /\ UNCHANGED <<on, report>>
  /\ UNCHANGED <<data, want, toggles>>

\* What main does with apply's answer.
Answered(ok) ==
  /\ at = (IF ok THEN "ok" ELSE "err") /\ ~stopped
  /\ at' = "idle"
  /\ \/ /\ stage = "start"
        /\ stage' = IF ok THEN "loop" ELSE "shutdown"
        /\ on' = ok
        /\ UNCHANGED report
     \/ /\ stage = "loop"
        /\ on' = IF ok THEN want ELSE on
        /\ UNCHANGED <<stage, report>>
     \/ /\ stage = "exit"
        /\ report' = IF ok THEN "restored" ELSE "failed"
        /\ on' = (on /\ ~(ok /\ os = "linux"))
        /\ UNCHANGED stage
     \/ /\ stage = "drop"
        /\ stage' = "shutdown"
        /\ UNCHANGED <<on, report>>
  /\ UNCHANGED <<data, want, toggles>>

\* main returns: hook.shutdown follows on Windows (HookLifecycle), the drop of
\* the Patcher on Linux.
Leave ==
  /\ stage = "exit" /\ at = "idle" /\ report # "none"
  /\ IF os = "linux" THEN DropPatcher
     ELSE stage' = "shutdown" /\ UNCHANGED <<at, want>>
  /\ UNCHANGED <<data, on, report, toggles>>

\* The game is gone and main returns, or the controller is killed: nothing
\* restores the bytes.  On Windows nothing resumes the threads it holds (the
\* console's handler knows Ctrl+C and Ctrl+Break only); on Linux the kernel
\* detaches them.
Killed ==
  /\ stage \notin {"dead", "shutdown"}
  /\ stage' = "dead" /\ at' = "dead"
  /\ IF os = "linux" THEN stopped' = FALSE /\ view' = mem
                     ELSE UNCHANGED <<stopped, view>>
  /\ UNCHANGED <<os, mem, prot, i, undone, foreign, want, on, report, toggles>>

\* Other code of the game rewrites a site while the game runs.
Foreign ==
  /\ ~stopped /\ foreign < MaxForeign
  /\ foreign' = foreign + 1
  /\ \E s \in Sites : mem' = [mem EXCEPT ![s] = "foreign"]
  /\ view' = mem'
  /\ UNCHANGED <<prot, stopped, want, at, i, undone, main>>

Apply == Stop \/ Check \/ WriteSite \/ UndoSite \/ Refuse \/ Resume
Main == Start \/ Toggle \/ Quit \/ LauncherGone \/ Leave \/ \E ok \in BOOLEAN : Answered(ok)

Next == Apply \/ Main \/ Killed \/ Foreign

Spec == Init /\ [][Next]_vars

-----------------------------------------------------------------------------
(* Properties.                                                             *)

\* The variables stay in their ranges.
TypeOK ==
  /\ os \in {"windows", "linux"}
  /\ mem \in [Sites -> Bytes] /\ view \in [Sites -> Bytes]
  /\ prot \in [Sites -> BOOLEAN]
  /\ stopped \in BOOLEAN /\ want \in BOOLEAN /\ undone \in BOOLEAN
  /\ on \in BOOLEAN
  /\ at \in {"idle", "stop", "check", "write", "undo", "ok", "err", "dead"}
  /\ i \in Sites
  /\ stage \in {"start", "loop", "exit", "drop", "shutdown", "dead"}
  /\ report \in {"none", "restored", "failed"}
  /\ toggles \in 0..MaxToggles /\ foreign \in 0..MaxForeign

All(bytes, value) == \A s \in Sites : bytes[s] = value

\* What a thread runs that meets these bytes.
Class(bytes) == CASE All(bytes, "original") -> "off"
                  [] All(bytes, "replacement") -> "on"
                  [] OTHER -> "mixed"

\* What the game's threads run with.
Seen == Class(view)

\* The game sees each transaction as one step or not at all, and a game left
\* mixed is never written again: every refinement step of AtomicSwitch.
Abstract == INSTANCE AtomicSwitch WITH seen <- Seen
ImplementsAtomicSwitch == Abstract!Spec

\* A running game is mixed only after a rollback failed, other code wrote or
\* the Linux controller was killed.
MixedHasCause ==
  ~stopped /\ Seen = "mixed" =>
    ~undone \/ foreign > 0 \/ (os = "linux" /\ stage = "dead")

\* Between transactions main's flag says what the game runs, unless a rollback
\* failed or other code wrote.
FlagIsTrue ==
  at = "idle" /\ stage = "loop" =>
    Seen = (IF on THEN "on" ELSE "off") \/ ~undone \/ foreign > 0
=============================================================================
