-------------------------- MODULE PredictionProofs --------------------------
(***************************************************************************)
(* For any number of sites, toggles and foreign writes: the game sees each *)
(* prediction transaction as one step, main's flag is true and a mixed     *)
(* game has a cause.                                                       *)
(***************************************************************************)
EXTENDS Prediction, TLAPS

\* What the flag's value means to the game.
Meaning(flag) == IF flag THEN "on" ELSE "off"

\* The stop lasts from the check to the end of apply, or to the end of the
\* controller; outside it the game sees what is written.
StopHolds ==
  /\ at \in {"idle", "stop"} => ~stopped
  /\ at \in {"check", "write", "undo"} => stopped
  /\ ~stopped \/ at = "check" => view = mem

\* Inside the loops the game has seen the bytes the check recognised; sites
\* behind the writing loop are switched, sites behind the rollback are back.
Loops ==
  /\ at \in {"write", "undo"} => All(view, Prior)
  /\ at = "write" => /\ \A s \in Sites : s < i => mem[s] = Desired
                     /\ \A s \in Sites : s >= i => mem[s] = Prior
  /\ at = "undo" /\ undone => \A s \in Sites : s > i => mem[s] = Prior

\* What apply's answer means while the game is still stopped.
Answers ==
  /\ at = "ok" /\ stopped => All(view, Prior) /\ All(mem, Desired)
  /\ at = "err" /\ stopped => view = mem \/ (All(view, Prior) /\ ~undone)

\* main asks for the opposite of what it believes, and at the end for the
\* original.
Asked ==
  /\ at \notin {"idle", "dead"} => stage \in {"start", "loop", "exit", "drop"}
  /\ at = "dead" => stage = "dead"
  /\ stage = "start" => ~on
  /\ stage \in {"start", "loop"} /\ at # "idle" => want = ~on
  /\ stage \in {"exit", "drop"} /\ at # "idle" => ~want

\* An apply that has succeeded has switched the game, unless other code wrote.
Switched ==
  at = "ok" /\ ~stopped => Seen = Meaning(want) \/ (Seen = "mixed" /\ foreign > 0)

\* Before that the game runs what main believes, or there is a cause.
Believed ==
  stage \in {"start", "loop"} /\ ~(at = "ok" /\ ~stopped) =>
    Seen = Meaning(on) \/ ~undone \/ foreign > 0

Cause ==
  Seen = "mixed" => ~undone \/ foreign > 0 \/ (os = "linux" /\ stage = "dead")

Inv ==
  /\ TypeOK /\ StopHolds /\ Loops /\ Answers
  /\ Asked /\ Switched /\ Believed /\ Cause

LEMMA SiteOne == 1 \in Sites /\ N \in Nat /\ N >= 1
  BY SitesAssumption DEF Sites

LEMMA ClassIs ==
  ASSUME NEW bytes
  PROVE  /\ Class(bytes) \in {"off", "on", "mixed"}
         /\ Class(bytes) = "off" <=> All(bytes, "original")
         /\ Class(bytes) = "on" <=> All(bytes, "replacement")
  BY SiteOne DEF Class, All

\* The classes of the bytes of a transaction.
LEMMA ClassOfTransaction ==
  ASSUME want \in BOOLEAN, NEW bytes
  PROVE  /\ All(bytes, Prior) => Class(bytes) = Meaning(~want)
         /\ All(bytes, Desired) => Class(bytes) = Meaning(want)
  BY ClassIs DEF Prior, Desired, Meaning

LEMMA WriteEffect ==
  ASSUME TypeOK, NEW s \in Sites, NEW bytes \in Bytes, NEW repair \in BOOLEAN,
         NEW ok \in BOOLEAN, Write(s, bytes, repair, ok)
  PROVE  /\ mem' \in [Sites -> Bytes] /\ prot' \in [Sites -> BOOLEAN]
         /\ \A t \in Sites : t # s => mem'[t] = mem[t]
         /\ ok => mem'[s] = bytes
<1>1. CASE ~ok /\ WriteRefused
  BY <1>1 DEF WriteRefused, TypeOK
<1>2. CASE WriteRuns(s, bytes, repair, ok)
  BY <1>2 DEF WriteRuns, TypeOK, Bytes
<1>3. CASE WriteMem(s, bytes, ok)
  BY <1>3 DEF WriteMem, TypeOK, Bytes
<1> QED BY <1>1, <1>2, <1>3 DEF Write

LEMMA Initially == Init => Inv
<1> SUFFICES ASSUME Init PROVE Inv
  OBVIOUS
<1>1. TypeOK
  <2>1. /\ mem \in [Sites -> Bytes] /\ view \in [Sites -> Bytes]
        /\ prot \in [Sites -> BOOLEAN]
    BY DEF Init, Bytes
  <2>2. i \in Sites /\ toggles \in 0..MaxToggles /\ foreign \in 0..MaxForeign
    BY SiteOne, BoundsAssumption DEF Init
  <2> QED BY <2>1, <2>2 DEF Init, TypeOK
<1>2. Seen = "off"
  BY ClassIs DEF Init, Seen, All
<1>3. StopHolds /\ Loops /\ Answers /\ Asked /\ Switched /\ Believed /\ Cause
  BY <1>2 DEF Init, StopHolds, Loops, Answers, Asked, Switched, Believed, Cause, Meaning
<1> QED BY <1>1, <1>3 DEF Inv

-----------------------------------------------------------------------------
(* apply.                                                                  *)

LEMMA StopKeeps == ASSUME Inv, Stop PROVE Inv'
<1>1. TypeOK'
  BY DEF Inv, Stop, main, TypeOK
<1>2. StopHolds' /\ Loops' /\ Answers' /\ Asked' /\ Switched' /\ Believed' /\ Cause'
  BY DEF Inv, Stop, main, StopHolds, Loops, Answers, Asked, Switched, Believed, Cause, Seen
<1> QED BY <1>1, <1>2 DEF Inv

LEMMA RefuseKeeps == ASSUME Inv, Refuse PROVE Inv'
<1>1. TypeOK'
  BY DEF Inv, Refuse, main, TypeOK
<1>2. StopHolds' /\ Loops' /\ Answers' /\ Asked' /\ Switched' /\ Believed' /\ Cause'
  BY DEF Inv, Refuse, main, StopHolds, Loops, Answers, Asked, Switched, Believed, Cause, Seen
<1> QED BY <1>1, <1>2 DEF Inv

\* All sites are as the last transaction left them, so that an earlier
\* rollback's failure is made good.
LEMMA CheckKeeps == ASSUME Inv, Check PROVE Inv'
<1>1. TypeOK'
  BY SiteOne DEF Inv, Check, main, TypeOK
<1>2. All(mem, Prior) /\ view = mem /\ stopped
  BY DEF Inv, Check, Recognised, All, StopHolds
<1>3. Seen = Meaning(~want) /\ Seen # "mixed"
  BY <1>2, ClassOfTransaction DEF Inv, TypeOK, Seen, Meaning
<1>4. StopHolds' /\ Loops' /\ Answers'
  BY <1>2, SiteOne DEF Inv, Check, main, StopHolds, Loops, Answers, All, Prior, Sites
<1>5. Asked' /\ Switched' /\ Cause'
  BY <1>3 DEF Inv, Check, main, Asked, Switched, Cause, Seen
<1>6. Believed'
  BY <1>3 DEF Inv, TypeOK, Check, main, Asked, Believed, Seen, Meaning
<1> QED BY <1>1, <1>4, <1>5, <1>6 DEF Inv

LEMMA WriteSiteKeeps == ASSUME Inv, WriteSite PROVE Inv'
<1>1. PICK ok \in BOOLEAN :
        /\ Write(i, Desired, FALSE, ok)
        /\ at' = IF ~ok THEN "undo" ELSE IF i < N THEN "write" ELSE "ok"
        /\ i' = IF ok /\ i < N THEN i + 1 ELSE i
  BY DEF WriteSite
<1>2. TypeOK /\ i \in Sites /\ Desired \in Bytes
  BY DEF Inv, TypeOK, Desired, Bytes
<1>3. /\ mem' \in [Sites -> Bytes] /\ prot' \in [Sites -> BOOLEAN]
      /\ \A t \in Sites : t # i => mem'[t] = mem[t]
      /\ ok => mem'[i] = Desired
  BY <1>1, <1>2, WriteEffect
<1>4. /\ at = "write" /\ stopped
      /\ UNCHANGED <<view, stopped, want, undone, os, on, stage, report, toggles, foreign>>
      /\ Prior' = Prior /\ Desired' = Desired
  BY DEF WriteSite, main, Inv, StopHolds, Prior, Desired
<1>5. i' \in Sites
  BY <1>1, <1>2, SiteOne DEF Sites
<1>6. TypeOK'
  BY <1>1, <1>2, <1>3, <1>4, <1>5 DEF TypeOK
<1>7. StopHolds'
  BY <1>1, <1>4 DEF Inv, StopHolds
<1>8. Loops'
  <2>1. All(view, Prior)
    BY <1>4 DEF Inv, Loops
  <2>2. at' = "write" => /\ \A s \in Sites : s < i' => mem'[s] = Desired
                        /\ \A s \in Sites : s >= i' => mem'[s] = Prior
    BY <1>1, <1>2, <1>3, <1>4 DEF Inv, Loops, Sites
  <2>3. at' = "undo" => \A s \in Sites : s > i' => mem'[s] = Prior
    BY <1>1, <1>2, <1>3, <1>4 DEF Inv, Loops, Sites
  <2> QED BY <1>4, <2>1, <2>2, <2>3 DEF Loops, All
<1>9. Answers'
  <2>1. All(view, Prior)
    BY <1>4 DEF Inv, Loops
  <2>2. at' = "ok" => \A s \in Sites : mem'[s] = Desired
    BY <1>1, <1>2, <1>3, <1>4, SiteOne DEF Inv, Loops, Sites
  <2>3. at' # "err"
    BY <1>1
  <2> QED BY <1>4, <2>1, <2>2, <2>3 DEF Answers, All
<1>10. Asked' /\ Switched' /\ Believed' /\ Cause'
  BY <1>1, <1>4 DEF Inv, Asked, Switched, Believed, Cause, Seen
<1> QED BY <1>6, <1>7, <1>8, <1>9, <1>10 DEF Inv

LEMMA UndoSiteKeeps == ASSUME Inv, UndoSite PROVE Inv'
<1>1. PICK ok \in BOOLEAN :
        /\ Write(i, Prior, TRUE, ok)
        /\ undone' = (undone /\ ok)
  BY DEF UndoSite
<1>2. TypeOK /\ i \in Sites /\ Prior \in Bytes
  BY DEF Inv, TypeOK, Prior, Bytes
<1>3. /\ mem' \in [Sites -> Bytes] /\ prot' \in [Sites -> BOOLEAN]
      /\ \A t \in Sites : t # i => mem'[t] = mem[t]
      /\ ok => mem'[i] = Prior
  BY <1>1, <1>2, WriteEffect
<1>4. /\ at = "undo" /\ stopped
      /\ at' = IF i > 1 THEN "undo" ELSE "err"
      /\ i' = IF i > 1 THEN i - 1 ELSE i
      /\ UNCHANGED <<view, stopped, want, os, on, stage, report, toggles, foreign>>
      /\ Prior' = Prior /\ Desired' = Desired
  BY DEF UndoSite, main, Inv, StopHolds, Prior, Desired
<1>5. i' \in Sites
  BY <1>2, <1>4, SiteOne DEF Sites
<1>6. undone' \in BOOLEAN /\ (undone' => undone /\ ok)
  BY <1>1, <1>2 DEF TypeOK
<1>7. TypeOK'
  BY <1>2, <1>3, <1>4, <1>5, <1>6 DEF TypeOK
<1>8. StopHolds'
  BY <1>4 DEF Inv, StopHolds
<1>9. undone' => \A s \in Sites : s >= i => mem'[s] = Prior
  BY <1>2, <1>3, <1>4, <1>6 DEF Inv, Loops, Sites
<1>10. All(view, Prior)
  BY <1>4 DEF Inv, Loops
<1>11. Loops'
  BY <1>2, <1>4, <1>9, <1>10 DEF Loops, All, Sites
<1>12. Answers'
  <2>1. undone' /\ at' = "err" => All(mem', Prior)
    BY <1>2, <1>4, <1>9 DEF All, Sites
  <2>2. undone' /\ at' = "err" => view = mem'
    BY <1>2, <1>3, <1>10, <2>1 DEF All, TypeOK
  <2> QED BY <1>4, <1>10, <2>2 DEF Answers, All
<1>13. Asked' /\ Switched' /\ Believed' /\ Cause'
  BY <1>4, <1>6 DEF Inv, Asked, Switched, Believed, Cause, Seen
<1> QED BY <1>7, <1>8, <1>11, <1>12, <1>13 DEF Inv

\* The game runs on, with what it has seen before, with all sites switched,
\* or after a rollback that failed.
LEMMA ResumeKeeps == ASSUME Inv, Resume PROVE Inv'
<1>1. /\ at \in {"ok", "err"} /\ stopped /\ stopped' = FALSE /\ view' = mem
      /\ UNCHANGED <<mem, prot, want, at, i, undone, os, on, stage, report, toggles, foreign>>
  BY DEF Resume, main
<1>2. TypeOK' /\ TypeOK
  BY <1>1 DEF Inv, TypeOK
<1>3. StopHolds' /\ Loops' /\ Answers' /\ Asked'
  BY <1>1 DEF Inv, StopHolds, Loops, Answers, Asked
<1>4. CASE at = "ok"
  <2>1. Seen' = Meaning(want)
    BY <1>1, <1>2, <1>4, ClassOfTransaction DEF Inv, Answers, Seen, TypeOK
  <2>2. Switched' /\ Believed' /\ Cause'
    BY <1>1, <1>4, <2>1 DEF Switched, Believed, Cause, Meaning
  <2> QED BY <1>2, <1>3, <2>2 DEF Inv
<1>5. CASE at = "err"
  <2>1. Seen' = Seen \/ ~undone
    BY <1>1, <1>5 DEF Inv, Answers, Seen
  <2>2. Switched' /\ Believed' /\ Cause'
    BY <1>1, <1>5, <2>1 DEF Inv, Switched, Believed, Cause
  <2> QED BY <1>2, <1>3, <2>2 DEF Inv
<1> QED BY <1>1, <1>4, <1>5

-----------------------------------------------------------------------------
(* main.                                                                   *)

\* Steps that leave the game and apply's data alone.
LEMMA MainKeeps == ASSUME Inv, Main PROVE Inv'
<1>1. CASE Start
  <2>1. TypeOK'
    BY <1>1 DEF Inv, Start, Begin, data, main, TypeOK
  <2> QED BY <1>1, <2>1 DEF Inv, Start, Begin, data, main, StopHolds, Loops, Answers, Asked,
        Switched, Believed, Cause, Seen
<1>2. CASE Toggle
  <2>1. TypeOK'
    BY <1>2, BoundsAssumption DEF Inv, Toggle, Begin, data, TypeOK
  <2> QED BY <1>2, <2>1 DEF Inv, Toggle, Begin, data, StopHolds, Loops, Answers, Asked,
        Switched, Believed, Cause, Seen
<1>3. CASE Quit
  <2>1. TypeOK'
    BY <1>3 DEF Inv, Quit, Begin, data, TypeOK
  <2> QED BY <1>3, <2>1 DEF Inv, Quit, Begin, data, StopHolds, Loops, Answers, Asked,
        Switched, Believed, Cause, Seen
<1>4. CASE LauncherGone \/ Leave
  <2>1. TypeOK'
    BY <1>4 DEF Inv, LauncherGone, Leave, DropPatcher, Begin, data, TypeOK
  <2> QED BY <1>4, <2>1 DEF Inv, LauncherGone, Leave, DropPatcher, Begin, data, StopHolds,
        Loops, Answers, Asked, Switched, Believed, Cause, Seen
<1>5. ASSUME NEW ok \in BOOLEAN, Answered(ok) PROVE Inv'
  <2>1. TypeOK'
    BY <1>5 DEF Inv, Answered, data, TypeOK
  <2>2. StopHolds' /\ Loops' /\ Answers' /\ Asked' /\ Switched' /\ Cause'
    BY <1>5 DEF Inv, Answered, data, StopHolds, Loops, Answers, Asked, Switched, Cause, Seen,
       TypeOK
  <2>3. Believed'
    BY <1>5 DEF Inv, Answered, data, Asked, Switched, Believed, Seen, TypeOK, Meaning
  <2> QED BY <2>1, <2>2, <2>3 DEF Inv
<1> QED BY <1>1, <1>2, <1>3, <1>4, <1>5 DEF Main

LEMMA KilledKeeps == ASSUME Inv, Killed PROVE Inv'
<1>1. TypeOK'
  BY DEF Inv, Killed, TypeOK
<1>2. StopHolds' /\ Loops' /\ Answers' /\ Asked' /\ Switched' /\ Believed'
  BY DEF Inv, Killed, StopHolds, Loops, Answers, Asked, Switched, Believed
<1>3. Cause'
  BY DEF Inv, Killed, Cause, Seen, TypeOK
<1> QED BY <1>1, <1>2, <1>3 DEF Inv

LEMMA ForeignSeen == ASSUME Inv, Foreign PROVE Seen' = "mixed" /\ view' = mem'
<1>1. PICK s \in Sites : mem' = [mem EXCEPT ![s] = "foreign"]
  BY DEF Foreign
<1>2. view' = mem' /\ view'[s] = "foreign"
  BY <1>1 DEF Foreign, Inv, TypeOK
<1> QED BY <1>2, ClassIs DEF Seen, All

LEMMA ForeignKeeps == ASSUME Inv, Foreign PROVE Inv'
<1>1. TypeOK'
  <2>1. mem' \in [Sites -> Bytes] /\ view' = mem'
    BY DEF Foreign, Inv, TypeOK, Bytes
  <2>2. foreign' \in 0..MaxForeign
    BY BoundsAssumption DEF Foreign, Inv, TypeOK
  <2> QED BY <2>1, <2>2 DEF Foreign, main, Inv, TypeOK
<1>2. foreign' > 0
  BY BoundsAssumption DEF Foreign, Inv, TypeOK
<1>3. ~stopped /\ ~stopped' /\ UNCHANGED <<at, stage, on, want>>
  BY DEF Foreign, main
<1>4. StopHolds' /\ Loops' /\ Answers' /\ Asked' /\ Switched' /\ Believed' /\ Cause'
  BY <1>2, <1>3, ForeignSeen DEF Inv, StopHolds, Loops, Answers, Asked, Switched, Believed, Cause
<1> QED BY <1>1, <1>4 DEF Inv

LEMMA UnchangedKeeps == ASSUME Inv, UNCHANGED vars PROVE Inv'
  BY DEF vars, Inv, TypeOK, StopHolds, Loops, Answers, Asked, Switched, Believed, Cause, Seen,
     Prior, Desired

LEMMA NextKeeps == Inv /\ [Next]_vars => Inv'
  BY StopKeeps, RefuseKeeps, CheckKeeps, WriteSiteKeeps, UndoSiteKeeps, ResumeKeeps, MainKeeps,
     KilledKeeps, ForeignKeeps, UnchangedKeeps DEF Next, Apply

LEMMA InvHolds == Spec => []Inv
  BY Initially, NextKeeps, PTL DEF Spec

\* TypeOK: all variables of the transaction and of main stay in their ranges.
THEOREM TypeCorrect == Spec => []TypeOK
<1>1. Inv => TypeOK
  BY DEF Inv
<1> QED BY <1>1, InvHolds, PTL

\* MixedHasCause: a running game is mixed only after a rollback failed, other
\* code wrote or the Linux controller was killed inside apply.
THEOREM MixedExplained == Spec => []MixedHasCause
<1>1. Inv => MixedHasCause
  BY DEF Inv, Cause, MixedHasCause
<1> QED BY <1>1, InvHolds, PTL

\* FlagIsTrue: between transactions main's flag says what the game runs,
\* unless a rollback failed or other code wrote.
THEOREM FlagBelieved == Spec => []FlagIsTrue
<1>1. Inv => FlagIsTrue
  BY DEF Inv, Believed, FlagIsTrue, Meaning
<1> QED BY <1>1, InvHolds, PTL

-----------------------------------------------------------------------------
(* The refinement.                                                         *)

\* A step that lets the game see other bytes starts from a game that is on or
\* off; a step that moves the flag moves it to what the game runs.
SeesOneStep ==
  \/ Seen' = Seen /\ on' = on
  \/ Seen \in {"off", "on"} /\ Seen' # Seen /\ on' = on
  \/ Seen' = Seen /\ on' = ~on /\ (Seen = Meaning(on') \/ Seen = "mixed")

LEMMA StoppedIsKnown ==
  ASSUME Inv, stopped
  PROVE  view = mem \/ Seen \in {"off", "on"} \/ at = "dead"
<1>1. at \in {"check", "write", "undo", "ok", "err", "dead"}
  BY DEF Inv, TypeOK, StopHolds
<1>2. All(view, Prior) => Seen \in {"off", "on"}
  BY ClassOfTransaction DEF Inv, TypeOK, Seen, Meaning
<1> QED BY <1>1, <1>2 DEF Inv, StopHolds, Loops, Answers

LEMMA AnswersLearn ==
  ASSUME Inv, NEW ok \in BOOLEAN, Answered(ok)
  PROVE  SeesOneStep
<1>1. Seen' = Seen /\ on' \in BOOLEAN /\ on \in BOOLEAN
  BY DEF Answered, data, Seen, Inv, TypeOK
<1>2. on' # on => ok /\ on' = want
  BY DEF Answered, Inv, TypeOK, Asked
<1>3. ok => Seen = Meaning(want) \/ Seen = "mixed"
  BY DEF Answered, Inv, Switched
<1> QED BY <1>1, <1>2, <1>3 DEF SeesOneStep

LEMMA NextIsOneStep == ASSUME Inv, [Next]_vars PROVE SeesOneStep
<1> USE DEF SeesOneStep
<1>1. CASE UNCHANGED vars \/ Stop \/ Check \/ WriteSite \/ UndoSite \/ Refuse
  BY <1>1 DEF vars, Stop, Check, WriteSite, UndoSite, Refuse, main, Seen
<1>2. CASE Start \/ Toggle \/ Quit \/ LauncherGone \/ Leave
  BY <1>2 DEF Start, Toggle, Quit, LauncherGone, Leave, data, main, Seen
<1>3. ASSUME NEW ok \in BOOLEAN, Answered(ok) PROVE SeesOneStep
  BY <1>3, AnswersLearn
<1>4. CASE Resume
  BY <1>4, StoppedIsKnown DEF Resume, main, Seen
<1>5. CASE Killed
  <2>1. CASE view' = view
    BY <1>5, <2>1 DEF Killed, Seen
  <2>2. CASE view' = mem
    BY <1>5, <2>2, StoppedIsKnown DEF Killed, Seen, Inv, StopHolds, Asked
  <2> QED BY <1>5, <2>1, <2>2 DEF Killed
<1>6. CASE Foreign
  BY <1>6, ForeignSeen, ClassIs DEF Foreign, main, Seen
<1> QED BY <1>1, <1>2, <1>3, <1>4, <1>5, <1>6 DEF Next, Apply, Main

\* ImplementsAtomicSwitch: the game sees a transaction as one step, and a
\* mixed game is never written again.
THEOREM SwitchIsAtomic == Spec => ImplementsAtomicSwitch
<1>1. Init => Abstract!Init
  BY ClassIs DEF Init, Abstract!Init, Seen, All
<1>2. Inv /\ [Next]_vars => [Abstract!Next]_(Abstract!vars)
  <2> SUFFICES ASSUME Inv, [Next]_vars PROVE [Abstract!Next]_(Abstract!vars)
    OBVIOUS
  <2>1. SeesOneStep
    BY NextIsOneStep
  <2>2. Seen' \in {"off", "on", "mixed"}
    BY ClassIs DEF Seen
  <2> QED BY <2>1, <2>2 DEF SeesOneStep, Meaning, Abstract!Next, Abstract!vars,
        Abstract!Switch, Abstract!Break, Abstract!Learn
<1> QED BY <1>1, <1>2, InvHolds, PTL DEF Spec, ImplementsAtomicSwitch, Abstract!Spec
=============================================================================
