--------------------------- MODULE PatchingProofs ---------------------------
(***************************************************************************)
(* For any set of threads and any bounds: a patcher that has stopped the   *)
(* game is the only one that can run in it.  And for a patch of either     *)
(* kind, under any number of foreign writes: the protection is put back,   *)
(* the answers are true, foreign bytes are respected and a restore heals.  *)
(***************************************************************************)
EXTENDS ThreadStop, CodePatch, TLAPS

\* The strengthening: a stopped patcher holds every other live thread itself.
\* StopIsTotal alone is not inductive: a thread it leaves to the other
\* patcher's guard would run again when that guard is dropped.
HoldsAll ==
  \A s \in Stoppers : pc[s] = "stopped" => Alive \ {s} \subseteq guard[s]

\* And a patcher about to suspend has a thread of the game in its hand.
HasOpened == \A s \in Stoppers : pc[s] = "suspend" => cur[s] \in Target

IInv == TypeOK /\ HasOpened /\ HoldsAll

\* The initial states satisfy the invariant (ThreadStop starts idle).
LEMMA InitInv == Init => IInv
<1> SUFFICES ASSUME Init PROVE IInv
  OBVIOUS
<1>1. TypeOK
  <2>1. life \in [Target -> {"unborn", "alive", "exited"}]
    BY DEF Init
  <2>2. /\ pass \in [Stoppers -> 1..MaxPasses]
        /\ stops \in [Stoppers -> 0..MaxStops]
    BY PassesAssumption, StopsAssumption DEF Init
  <2>3. /\ guard \in [Stoppers -> SUBSET Target]
        /\ todo \in [Stoppers -> SUBSET Target]
        /\ cur \in [Stoppers -> Target \cup {NoThread}]
        /\ pc \in [Stoppers -> Phases]
        /\ cause \in [Stoppers -> Causes]
        /\ heap \in Threads \cup {NoThread}
    BY DEF Init, Phases, Causes
  <2>4. expired \in BOOLEAN
    BY DEF Init
  <2> QED BY <2>1, <2>2, <2>3, <2>4 DEF TypeOK
<1>2. HoldsAll
  BY DEF Init, HoldsAll, Stoppers
<1>3. HasOpened
  BY DEF Init, HasOpened, Stoppers
<1> QED BY <1>1, <1>2, <1>3 DEF IInv

\* Every step keeps the variables in their ranges.
LEMMA TypeStep == TypeOK /\ HasOpened /\ [Next]_vars => TypeOK'
<1> SUFFICES ASSUME TypeOK, HasOpened, [Next]_vars PROVE TypeOK'
  OBVIOUS
<1> USE PassesAssumption, StopsAssumption DEF TypeOK, Phases, Causes
<1>1. ASSUME NEW t \in Threads, NEW u \in Threads, Spawn(t, u) PROVE TypeOK'
  BY <1>1 DEF Spawn, patchers, Target
<1>2. ASSUME NEW t \in Threads, Exit(t) \/ LockHeap(t) \/ UnlockHeap(t)
      PROVE TypeOK'
  BY <1>2 DEF Exit, LockHeap, UnlockHeap, patchers
<1>3. ASSUME NEW s \in Stoppers, Begin(s) PROVE TypeOK'
  BY <1>3 DEF Begin, Goto
<1>4. ASSUME NEW s \in Stoppers, Acquire(s) PROVE TypeOK'
  <2>1. CASE ListThreads(s)
    BY <2>1 DEF ListThreads, Goto, Listing, Alive
  <2>2. CASE Open(s)
    BY <2>2 DEF Open, Goto
  <2>9. CASE OpenGone(s)
    <3>1. PICK t \in todo[s] : todo' = [todo EXCEPT ![s] = @ \ {t}]
      BY <2>9 DEF OpenGone
    <3> QED BY <2>9, <3>1 DEF OpenGone
  <2>3. CASE Suspend(s)
    <3>1. cur[s] \in Target
      BY <2>3 DEF Suspend, HasOpened
    <3> QED BY <2>3, <3>1 DEF Suspend, Goto
  <2>4. CASE SuspendGone(s) \/ EndPass(s) \/ Release(s) \/ Released(s)
    BY <2>4 DEF SuspendGone, EndPass, Release, Released, Goto
  <2>5. CASE Verify(s)
    BY <2>5 DEF Verify, Goto
  <2>6. CASE Fail(s)
    BY <2>6 DEF Fail, Goto
  <2>7. CASE Resume(s)
    BY <2>7 DEF Resume
  <2>8. CASE Unwound(s) \/ Wake(s)
    BY <2>8 DEF Unwound, Wake, Goto
  <2> QED
    BY <1>4, <2>1, <2>2, <2>3, <2>4, <2>5, <2>6, <2>7, <2>8, <2>9
    DEF Acquire
<1>5. CASE Expire
  BY <1>5 DEF Expire
<1>6. CASE UNCHANGED vars
  BY <1>6 DEF vars
<1> QED BY <1>1, <1>2, <1>3, <1>4, <1>5, <1>6 DEF Next

\* Only Open leads to "suspend", and it opens a listed thread.
LEMMA HasOpenedStep == TypeOK /\ HasOpened /\ [Next]_vars => HasOpened'
<1> SUFFICES ASSUME TypeOK, HasOpened, [Next]_vars,
                    NEW p \in Stoppers, pc'[p] = "suspend"
             PROVE  cur'[p] \in Target
  BY DEF HasOpened
<1>1. ASSUME NEW s \in Stoppers, Begin(s) \/ Acquire(s)
      PROVE  cur'[p] \in Target
  <2>1. CASE Open(s)
    BY <2>1 DEF Open, Goto, TypeOK, HasOpened
  <2>2. CASE s # p
    BY <1>1, <2>2 DEF Begin, Acquire, ListThreads, Open, OpenGone, Suspend,
       SuspendGone, EndPass, Verify, Fail, Resume, Release, Released,
       Unwound, Wake, Goto, TypeOK, HasOpened
  <2>3. CASE s = p /\ ~Open(s)
    BY <1>1, <2>3 DEF Begin, Acquire, ListThreads, OpenGone, Suspend,
       SuspendGone, EndPass, Verify, Fail, Resume, Release, Released,
       Unwound, Wake, Goto, TypeOK, HasOpened
  <2> QED BY <2>1, <2>2, <2>3
<1>2. CASE ~ \E s \in Stoppers : Begin(s) \/ Acquire(s)
  <2>1. pc' = pc /\ cur' = cur
    BY <1>2 DEF Next, vars, Spawn, Exit, LockHeap, UnlockHeap, Expire, patchers
  <2> QED BY <2>1 DEF HasOpened
<1> QED BY <1>1, <1>2

\* No step can start a thread, or let go of one, while a patcher is stopped.
LEMMA HoldsAllStep == IInv /\ [Next]_vars => HoldsAll'
<1> SUFFICES ASSUME IInv, [Next]_vars,
                    NEW p \in Stoppers, pc'[p] = "stopped"
             PROVE  Alive' \ {p} \subseteq guard'[p]
  BY DEF HoldsAll
<1> USE DEF IInv
<1>1. ASSUME NEW t \in Threads, NEW u \in Threads, Spawn(t, u)
      PROVE  Alive' \ {p} \subseteq guard'[p]
  <2>1. pc[p] = "stopped" /\ guard' = guard
    BY <1>1 DEF Spawn, patchers
  <2>2. t \in Alive /\ t \notin guard[p] /\ t # p
    BY <1>1, ActorsAssumption DEF Spawn, Running, Suspended, Stoppers
  <2> QED BY <2>1, <2>2 DEF HoldsAll
<1>2. ASSUME NEW t \in Threads, Exit(t) \/ LockHeap(t) \/ UnlockHeap(t)
      PROVE  Alive' \ {p} \subseteq guard'[p]
  <2>1. pc[p] = "stopped" /\ guard' = guard
    BY <1>2 DEF Exit, LockHeap, UnlockHeap, patchers
  <2>2. Alive' \subseteq Alive
    BY <1>2 DEF Exit, LockHeap, UnlockHeap, Alive, TypeOK
  <2> QED BY <2>1, <2>2 DEF HoldsAll
<1>3. ASSUME NEW s \in Stoppers, Begin(s) \/ Acquire(s)
      PROVE  Alive' \ {p} \subseteq guard'[p]
  <2>1. Alive' = Alive
    BY <1>3 DEF Begin, Acquire, ListThreads, Open, OpenGone, Suspend,
       SuspendGone, EndPass, Verify, Fail, Resume, Release, Released,
       Unwound, Wake, Alive
  <2>2. CASE pc[p] = "stopped"
    <3>1. Alive \ {p} \subseteq guard[p]
      BY <2>2 DEF HoldsAll
    <3>2. CASE Suspend(s)
      BY <2>1, <3>1, <3>2 DEF Suspend, TypeOK
    <3>3. CASE Resume(s)
      BY <2>1, <2>2, <3>1, <3>3 DEF Resume, TypeOK
    <3>4. CASE ~Suspend(s) /\ ~Resume(s)
      <4>1. guard' = guard
        BY <1>3, <3>4 DEF Begin, Acquire, ListThreads, Open, OpenGone,
           SuspendGone, EndPass, Verify, Fail, Release, Released,
           Unwound, Wake
      <4> QED BY <2>1, <3>1, <4>1
    <3> QED BY <3>2, <3>3, <3>4
  <2>3. CASE pc[p] # "stopped"
    <3>1. Verify(s) /\ s = p
      BY <1>3, <2>3 DEF TypeOK, Begin, Acquire, ListThreads, Open, OpenGone,
         Suspend, SuspendGone, EndPass, Verify, Fail, Resume, Release,
         Released, Unwound, Wake, Goto
    <3> QED BY <2>1, <2>3, <3>1 DEF Verify, Listing, Goto, TypeOK
  <2> QED BY <2>2, <2>3
<1>4. CASE Expire
  BY <1>4 DEF Expire, HoldsAll, Alive
<1>5. CASE UNCHANGED vars
  BY <1>5 DEF vars, HoldsAll, Alive
<1> QED BY <1>1, <1>2, <1>3, <1>4, <1>5 DEF Next

\* TypeOK is an invariant, with the strengthening, for every value of the
\* constants.
LEMMA InductiveInv == Spec => []IInv
<1>1. IInv /\ [Next]_vars => IInv'
  BY TypeStep, HasOpenedStep, HoldsAllStep DEF IInv
<1> QED BY InitInv, <1>1, PTL DEF Spec

\* The variables stay in their ranges (the type invariant of ThreadStop).
THEOREM TypeCorrect == Spec => []TypeOK
<1>1. IInv => TypeOK
  BY DEF IInv
<1> QED BY InductiveInv, <1>1, PTL

\* Whatever threads come and go, once suspend_others or
\* RemoteThreadGuard::suspend has returned Ok nothing else runs in the game.
THEOREM TotalStop == Spec => []StopIsTotal
<1>1. IInv => StopIsTotal
  BY DEF IInv, HoldsAll, StopIsTotal, Running, Suspended, Alive
<1> QED BY InductiveInv, <1>1, PTL

-----------------------------------------------------------------------------
(* The writes that are made under the stop: CodePatch.                     *)

\* Which steps belong to which call.
Course ==
  /\ at = "idle" <=> op = "none"
  /\ at = "prepare" => op \in {"prepare", "install"} /\ object = "none"
  /\ at \in {"apply", "applyStop", "applyWrite", "rollBack"} => op \in {"install", "apply"}
  /\ at \in {"restore", "restoreStop", "restoreWrite"} =>
       op \in Calls \ {"prepare"}
  /\ op \in {"apply", "restore", "drop"} => object = "held"

\* Every write puts the first protection back.
FirstKept == KeptProtection = prot0

\* A protection that could not be put back is not forgotten.
WritableIsTainted == ~tainted => prot = prot0

\* Before the first write there is nothing of ours.
Untouched == object = "none" /\ at \in {"idle", "prepare"} => mem # "replacement" /\ ~tainted

\* What the check has seen, as far as it still holds when the write begins.
Checked ==
  /\ at \in {"applyStop", "applyWrite"} =>
       mem # "replacement" /\ ~tainted /\ (mem = "foreign" => raced)
  /\ at \in {"restoreStop", "restoreWrite"} /\ mem = "foreign" => tainted \/ raced

\* Apply restores only what is tainted, and rolls back only what it tainted.
Unsettled ==
  /\ at \in {"restore", "restoreStop", "restoreWrite"} /\ op = "apply" => tainted
  /\ at = "rollBack" => tainted

PatchInv ==
  /\ MaxForeign \in Nat /\ PatchTypeOK
  /\ Course /\ FirstKept /\ WritableIsTainted /\ Untouched /\ Checked /\ Unsettled

USE DEF PatchTypeOK, Protections, Bytes, Calls, Steps

LEMMA PatchInitially == PatchInit => PatchInv
<1> SUFFICES ASSUME PatchInit PROVE PatchInv
  OBVIOUS
<1>1. PatchTypeOK
  <2>1. mem \in Bytes /\ kind \in {"code", "pointer"} /\ prot \in Protections /\ prot0 \in Protections
    BY DEF PatchInit
  <2>2. saved \in Protections \cup {"none"} /\ object \in {"none", "held", "forgotten", "dropped"}
    BY DEF PatchInit
  <2>3. op \in Calls \cup {"none"} /\ at \in Steps
    BY DEF PatchInit
  <2>4. answer.op \in Calls \cup {"none"} /\ answer.r \in {"none", "ok", "err", "clean", "dirty"}
    BY DEF PatchInit
  <2>5. tainted \in BOOLEAN /\ raced \in BOOLEAN /\ fault \in BOOLEAN
    BY DEF PatchInit
  <2>6. foreign \in 0..MaxForeign
    BY ForeignAssumption DEF PatchInit
  <2> QED BY <2>1, <2>2, <2>3, <2>4, <2>5, <2>6
<1>2. Course
  BY DEF PatchInit, Course
<1>4. Checked /\ Unsettled
  BY DEF PatchInit, Checked, Unsettled
<1>5. Untouched
  BY DEF PatchInit, Untouched
<1>3. FirstKept /\ WritableIsTainted
  BY DEF PatchInit, FirstKept, KeptProtection, WritableIsTainted
<1> QED BY <1>1, <1>2, <1>3, <1>4, <1>5, ForeignAssumption DEF PatchInv

\* What write_code leaves behind.
LEMMA WriteCodeLeaves ==
  ASSUME PatchInv, NEW bytes \in {"original", "replacement"}, NEW ok \in BOOLEAN, WriteCode(bytes, ok)
  PROVE  /\ mem' \in {mem, bytes} /\ prot' \in Protections /\ saved' \in Protections \cup {"none"}
         /\ ok => mem' = bytes /\ prot' = prot0
         /\ (prot0' = prot0) => FirstKept'
<1> USE DEF PatchInv, FirstKept, KeptProtection
<1>1. CASE WriteRefused /\ ~ok
  BY <1>1 DEF WriteRefused
<1>2. ASSUME NEW flushed \in BOOLEAN, NEW protected \in BOOLEAN, WriteDone(bytes, flushed, protected),
             ok = (flushed /\ protected)
      PROVE  /\ mem' = bytes /\ prot' \in Protections /\ saved' = prot0
             /\ ok => prot' = prot0
  BY <1>2 DEF WriteDone
<1> QED BY <1>1, <1>2 DEF WriteCode

\* A call that returns leaves no object only if it neither made nor ended one.
LEMMA FinishLeaves ==
  ASSUME PatchInv, NEW r \in {"ok", "err", "clean", "dirty"}, Finish(r), op # "none"
  PROVE  /\ at' = "idle" /\ op' = "none"
         /\ answer'.op = op /\ answer'.r = r
         /\ object' \in {"none", "held", "forgotten", "dropped"}
         /\ object' = "none" => object = "none" /\ op \in {"prepare", "install"} /\ r = "err"
<1>1. at' = "idle" /\ op' = "none" /\ answer'.op = op /\ answer'.r = r
  BY DEF Finish
<1>2. object' = CASE op \in {"prepare", "install"} /\ r = "ok" -> "held"
                 [] r = "dirty" -> "forgotten"
                 [] r = "clean" -> "dropped"
                 [] op = "drop" -> "dropped"
                 [] OTHER -> object
  BY DEF Finish
<1> QED BY <1>1, <1>2 DEF PatchInv, Course

LEMMA CallStep == ASSUME PatchInv, NEW c \in Calls, Call(c) PROVE PatchInv'
<1>1. PatchTypeOK'
  <2>1. at' \in Steps
    BY DEF Call
  <2>2. op' \in Calls
    BY DEF Call
  <2>3. fault' \in BOOLEAN
    BY DEF Call
  <2> QED BY <2>1, <2>2, <2>3 DEF Call, PatchInv
<1>2. Course'
  BY DEF Call, PatchInv, Course
<1>3. FirstKept' /\ WritableIsTainted'
  BY DEF Call, PatchInv, FirstKept, KeptProtection, WritableIsTainted
<1>4. at = "idle" /\ at' \in {"prepare", "apply", "restore"}
  BY DEF Call, PatchInv, Course
<1>5. Untouched' /\ Checked' /\ Unsettled'
  <2>1. at' = "prepare" => object = "none"
    BY DEF Call
  <2>2. at' = "restore" /\ op' = "apply" => tainted'
    BY DEF Call
  <2> QED BY <1>4, <2>1, <2>2 DEF PatchInv, Call, Untouched, Checked, Unsettled
<1> QED BY <1>1, <1>2, <1>3, <1>5 DEF PatchInv

LEMMA ForeignStep == ASSUME PatchInv, Foreign PROVE PatchInv'
<1>1. PatchTypeOK'
  BY DEF Foreign, PatchInv
<1>2. Course' /\ FirstKept' /\ WritableIsTainted' /\ Unsettled'
  BY DEF Foreign, PatchInv, Course, FirstKept, KeptProtection, WritableIsTainted, Unsettled
<1>3. Untouched' /\ Checked'
  BY DEF Foreign, PatchInv, Untouched, Checked
<1> QED BY <1>1, <1>2, <1>3 DEF PatchInv

\* The bytes and the protection rest; the call goes on or returns.
Rests == UNCHANGED <<kind, mem, prot, prot0, saved, tainted, foreign>>

\* A call that goes on to a step that is in its course.
LEMMA GoesOn ==
  ASSUME PatchInv, Rests, UNCHANGED raced, fault' \in BOOLEAN, UNCHANGED <<op, answer, object>>,
         op # "none",
         \/ at' = "apply" /\ op \in {"install", "apply"}
         \/ at' = "restore" /\ op \in Calls \ {"prepare"} /\ (op = "apply" => tainted)
  PROVE  PatchInv'
<1>1. PatchTypeOK'
  BY DEF PatchInv, Rests
<1>2. Course'
  BY DEF PatchInv, Course
<1>3. FirstKept' /\ WritableIsTainted'
  BY DEF PatchInv, Rests, FirstKept, KeptProtection, WritableIsTainted
<1>4. Untouched' /\ Checked' /\ Unsettled'
  BY DEF Rests, Untouched, Checked, Unsettled
<1> QED BY <1>1, <1>2, <1>3, <1>4 DEF PatchInv

\* A call that returns: what is left is what it kept all along.
LEMMA Returns ==
  ASSUME PatchInv, NEW r \in {"ok", "err", "clean", "dirty"}, Finish(r), op # "none",
         op \in {"prepare", "install"} => r # "err",
         UNCHANGED <<kind, prot0, foreign>>, fault' \in BOOLEAN, raced' \in BOOLEAN, tainted' \in BOOLEAN,
         mem' \in Bytes, prot' \in Protections, saved' \in Protections \cup {"none"},
         FirstKept', WritableIsTainted'
  PROVE  PatchInv'
<1>1. /\ at' = "idle" /\ op' = "none"
      /\ answer'.op = op /\ answer'.r = r
      /\ object' \in {"held", "forgotten", "dropped"}
  BY FinishLeaves
<1>2. PatchTypeOK'
  <2>1. at' \in Steps /\ op' \in Calls \cup {"none"} /\ object' \in {"none", "held", "forgotten", "dropped"}
    BY <1>1
  <2>2. answer'.op \in Calls \cup {"none"} /\ answer'.r \in {"none", "ok", "err", "clean", "dirty"}
    BY <1>1 DEF PatchInv
  <2> QED BY <2>1, <2>2 DEF PatchInv
<1>3. Course'
  BY <1>1 DEF Course
<1>4. Untouched' /\ Checked' /\ Unsettled'
  BY <1>1 DEF Untouched, Checked, Unsettled
<1> QED BY <1>2, <1>3, <1>4 DEF PatchInv

\* Nothing is written: the promise about the protection stands.
LEMMA RestsKeepProtection == PatchInv /\ Rests => FirstKept' /\ WritableIsTainted'
  BY DEF PatchInv, Rests, FirstKept, KeptProtection, WritableIsTainted

LEMMA RestsReturns ==
  ASSUME PatchInv, NEW r \in {"ok", "err", "clean", "dirty"}, Finish(r), op # "none",
         op \in {"prepare", "install"} => r # "err",
         Rests, fault' \in BOOLEAN, raced' \in BOOLEAN
  PROVE  PatchInv'
<1>1. /\ UNCHANGED <<kind, prot0, foreign>> /\ tainted' \in BOOLEAN
      /\ mem' \in Bytes /\ prot' \in Protections /\ saved' \in Protections \cup {"none"}
  BY DEF Rests, PatchInv
<1> QED BY <1>1, RestsKeepProtection, Returns

LEMMA PrepareStep == ASSUME PatchInv, Prepare PROVE PatchInv'
<1>1. /\ op \in {"prepare", "install"} /\ op # "none" /\ Rests /\ UNCHANGED <<raced, fault>>
      /\ fault' \in BOOLEAN /\ raced' \in BOOLEAN
  BY DEF Prepare, PatchInv, Course, Rests
<1>2. CASE Proceed("apply") /\ op # "prepare"
  BY <1>1, <1>2, GoesOn DEF Proceed
<1>3. ASSUME NEW r \in {"ok", "clean"}, Finish(r) PROVE PatchInv'
  BY <1>1, <1>3, RestsReturns
<1>4. Finish("clean") \/ Finish("ok") \/ (Proceed("apply") /\ op # "prepare")
  BY DEF Prepare
<1> QED BY <1>2, <1>3, <1>4

\* To whom apply and restore return.
LEMMA ApplyReturnsTo ==
  ASSUME op \in {"install", "apply"}, NEW r \in {"ok", "err"}, ApplyReturns(r)
  PROVE  \/ op = "install" /\ r = "err" /\ Proceed("restore")
         \/ Finish(r) /\ (op = "install" => r = "ok")
  BY DEF ApplyReturns

LEMMA RestoreReturnsTo ==
  ASSUME op \in Calls \ {"prepare"}, NEW r \in {"ok", "err"}, RestoreReturns(r)
  PROVE  \/ op = "apply" /\ r = "ok" /\ Proceed("apply")
         \/ op = "apply" /\ r = "err" /\ Finish("err")
         \/ op = "install" /\ r = "ok" /\ ~tainted' /\ mem' = "original" /\ Finish("clean")
         \/ op = "install" /\ Finish("dirty")
         \/ op \in {"restore", "drop"} /\ Finish(r)
<1>1. CASE op = "apply"
  BY <1>1 DEF RestoreReturns
<1>2. CASE op = "install"
  BY <1>2 DEF RestoreReturns
<1>3. CASE op \in {"restore", "drop"}
  BY <1>3 DEF RestoreReturns
<1> QED BY <1>1, <1>2, <1>3

\* Returned without a write.
LEMMA ApplyRests ==
  ASSUME PatchInv, op \in {"install", "apply"}, NEW r \in {"ok", "err"}, ApplyReturns(r),
         Rests, fault' \in BOOLEAN, raced' \in BOOLEAN
  PROVE  PatchInv'
<1>1. CASE op = "install" /\ r = "err" /\ Proceed("restore")
  <2>1. PatchTypeOK'
    BY <1>1 DEF PatchInv, Rests, Proceed
  <2>2. Course' /\ Untouched' /\ Checked' /\ Unsettled'
    BY <1>1 DEF PatchInv, Course, Untouched, Checked, Unsettled, Proceed
  <2> QED BY <2>1, <2>2, RestsKeepProtection DEF PatchInv
<1>2. CASE Finish(r) /\ (op = "install" => r = "ok")
  BY <1>2, RestsReturns
<1> QED BY <1>1, <1>2, ApplyReturnsTo

LEMMA RestoreRests ==
  ASSUME PatchInv, op \in Calls \ {"prepare"}, NEW r \in {"ok", "err"}, RestoreReturns(r),
         Rests, fault' \in BOOLEAN, raced' \in BOOLEAN
  PROVE  PatchInv'
<1>1. CASE op = "apply" /\ Proceed("apply")
  <2>1. PatchTypeOK'
    BY <1>1 DEF PatchInv, Rests, Proceed
  <2>2. Course' /\ Untouched' /\ Checked' /\ Unsettled'
    BY <1>1 DEF PatchInv, Course, Untouched, Checked, Unsettled, Proceed
  <2> QED BY <2>1, <2>2, RestsKeepProtection DEF PatchInv
<1>2. ASSUME NEW q \in {"ok", "err", "clean", "dirty"}, Finish(q), op = "install" => q # "err" PROVE PatchInv'
  BY <1>2, RestsReturns
<1> QED BY <1>1, <1>2, RestoreReturnsTo

LEMMA ApplyCheckStep == ASSUME PatchInv, ApplyCheck PROVE PatchInv'
<1>1. /\ op \in {"install", "apply"} /\ at = "apply" /\ Rests
      /\ raced' = FALSE /\ fault' = fault /\ fault' \in BOOLEAN /\ raced' \in BOOLEAN
  BY DEF ApplyCheck, PatchInv, Course, Rests
<1>2. CASE mem = "original" /\ ~tainted /\ Proceed("applyStop")
  <2>1. PatchTypeOK'
    BY <1>1, <1>2 DEF PatchInv, Rests, Proceed
  <2>2. Course' /\ Untouched'
    BY <1>1, <1>2 DEF PatchInv, Course, Untouched, Proceed
  <2>3. Checked' /\ Unsettled'
    BY <1>1, <1>2 DEF PatchInv, Checked, Unsettled, Proceed, Rests
  <2> QED BY <1>1, <2>1, <2>2, <2>3, RestsKeepProtection DEF PatchInv
<1>3. ApplyReturns("ok") \/ ApplyReturns("err") \/ (mem = "original" /\ ~tainted /\ Proceed("applyStop"))
  BY DEF ApplyCheck
<1> QED BY <1>1, <1>2, <1>3, ApplyRests

LEMMA RestoreCheckStep == ASSUME PatchInv, RestoreCheck PROVE PatchInv'
<1>1. /\ op \in Calls \ {"prepare"} /\ at = "restore" /\ Rests
      /\ raced' = FALSE /\ fault' = fault /\ fault' \in BOOLEAN /\ raced' \in BOOLEAN
  BY DEF RestoreCheck, PatchInv, Course, Rests
<1>2. CASE ~(mem = "foreign" /\ ~tainted) /\ Proceed("restoreStop")
  <2>1. PatchTypeOK'
    BY <1>1, <1>2 DEF PatchInv, Rests, Proceed
  <2>2. Course' /\ Untouched'
    BY <1>1, <1>2 DEF PatchInv, Course, Untouched, Proceed
  <2>3. Checked'
    BY <1>1, <1>2 DEF PatchInv, Checked, Proceed, Rests
  <2>4. Unsettled'
    BY <1>1, <1>2 DEF PatchInv, Unsettled, Proceed, Rests
  <2> QED BY <1>1, <2>1, <2>2, <2>3, <2>4, RestsKeepProtection DEF PatchInv
<1>3. \/ RestoreReturns("ok") \/ RestoreReturns("err")
      \/ ~(mem = "foreign" /\ ~tainted) /\ Proceed("restoreStop")
  BY DEF RestoreCheck
<1> QED BY <1>1, <1>2, <1>3, RestoreRests

LEMMA StopStep == ASSUME PatchInv, Stop \/ StopFails PROVE PatchInv'
<1>1. /\ at = "applyStop" => op \in {"install", "apply"}
      /\ at = "restoreStop" => op \in Calls \ {"prepare"}
  BY DEF PatchInv, Course
<1>2. CASE StopFails
  <2>1. Rests /\ fault' \in BOOLEAN /\ raced' \in BOOLEAN
    BY <1>2 DEF StopFails, Rests, PatchInv
  <2> QED BY <1>1, <1>2, <2>1, ApplyRests, RestoreRests DEF StopFails
<1>3. CASE Stop
  <2>1. /\ Rests /\ UNCHANGED <<raced, fault, op, answer, object>>
        /\ \/ at = "applyStop" /\ at' = "applyWrite"
           \/ at = "restoreStop" /\ at' = "restoreWrite"
    BY <1>3 DEF Stop, Proceed, Rests
  <2>2. PatchTypeOK'
    BY <2>1 DEF PatchInv, Rests
  <2>3. Course' /\ Untouched' /\ Unsettled'
    BY <1>1, <2>1 DEF PatchInv, Course, Untouched, Unsettled, Rests
  <2>4. Checked'
    BY <2>1 DEF PatchInv, Checked, Rests
  <2> QED BY <2>1, <2>2, <2>3, <2>4, RestsKeepProtection DEF PatchInv
<1> QED BY <1>2, <1>3

\* After a write: either it is complete, or the patch is tainted.
LEMMA Written ==
  ASSUME PatchInv, NEW bytes \in {"original", "replacement"}, NEW ok \in BOOLEAN, WriteCode(bytes, ok),
         tainted' = ~ok, prot0' = prot0
  PROVE  /\ FirstKept' /\ WritableIsTainted' /\ tainted' \in BOOLEAN
         /\ mem' \in Bytes /\ prot' \in Protections /\ saved' \in Protections \cup {"none"}
<1>1. WritableIsTainted'
  BY WriteCodeLeaves DEF WritableIsTainted
<1> QED BY <1>1, WriteCodeLeaves DEF PatchInv

LEMMA ApplyWriteStep == ASSUME PatchInv, ApplyWrite PROVE PatchInv'
<1>1. PICK ok \in BOOLEAN :
        /\ WriteCode("replacement", ok)
        /\ tainted' = ~ok
        /\ fault' = (fault \/ ~ok)
        /\ IF ok THEN ApplyReturns("ok") ELSE Proceed("rollBack")
  BY DEF ApplyWrite
<1>2. op \in {"install", "apply"} /\ op # "none" /\ UNCHANGED <<kind, prot0, raced, foreign>>
  BY DEF ApplyWrite, PatchInv, Course
<1>3. /\ FirstKept' /\ WritableIsTainted' /\ tainted' \in BOOLEAN /\ fault' \in BOOLEAN /\ raced' \in BOOLEAN
      /\ mem' \in Bytes /\ prot' \in Protections /\ saved' \in Protections \cup {"none"}
  BY <1>1, <1>2, Written DEF PatchInv
<1>4. CASE ok
  BY <1>1, <1>2, <1>3, <1>4, ApplyReturnsTo, Returns
<1>5. CASE ~ok
  <2>1. at' = "rollBack" /\ tainted' /\ UNCHANGED <<op, answer, object>>
    BY <1>1, <1>5 DEF Proceed
  <2>2. PatchTypeOK'
    BY <1>2, <1>3, <2>1 DEF PatchInv
  <2>3. Course' /\ Untouched' /\ Checked' /\ Unsettled'
    BY <1>2, <2>1 DEF PatchInv, Course, Untouched, Checked, Unsettled
  <2> QED BY <1>3, <2>2, <2>3 DEF PatchInv
<1> QED BY <1>4, <1>5

LEMMA RollBackStep == ASSUME PatchInv, RollBack PROVE PatchInv'
<1>1. PICK ok \in BOOLEAN : WriteCode("original", ok) /\ tainted' = ~ok
  BY DEF RollBack
<1>2. /\ op \in {"install", "apply"} /\ op # "none" /\ UNCHANGED <<kind, prot0, raced, fault, foreign>>
      /\ ApplyReturns("err")
  BY DEF RollBack, PatchInv, Course
<1>3. /\ FirstKept' /\ WritableIsTainted' /\ tainted' \in BOOLEAN /\ fault' \in BOOLEAN /\ raced' \in BOOLEAN
      /\ mem' \in Bytes /\ prot' \in Protections /\ saved' \in Protections \cup {"none"}
  BY <1>1, <1>2, Written DEF PatchInv
<1>4. CASE op = "install" /\ Proceed("restore")
  <2>1. PatchTypeOK'
    BY <1>2, <1>3, <1>4 DEF PatchInv, Proceed
  <2>2. Course' /\ Untouched' /\ Checked' /\ Unsettled'
    BY <1>4 DEF PatchInv, Course, Untouched, Checked, Unsettled, Proceed
  <2> QED BY <1>3, <2>1, <2>2 DEF PatchInv
<1>5. CASE Finish("err") /\ op # "install"
  BY <1>2, <1>3, <1>5, Returns
<1> QED BY <1>2, <1>4, <1>5, ApplyReturnsTo

LEMMA RestoreWriteStep == ASSUME PatchInv, RestoreWrite PROVE PatchInv'
<1>1. PICK ok \in BOOLEAN :
        /\ WriteCode("original", ok)
        /\ tainted' = ~ok
        /\ fault' = (fault \/ ~ok)
        /\ RestoreReturns(IF ok THEN "ok" ELSE "err")
  BY DEF RestoreWrite
<1>2. op \in Calls \ {"prepare"} /\ op # "none" /\ UNCHANGED <<kind, prot0, raced, foreign>>
  BY DEF RestoreWrite, PatchInv, Course
<1>3. /\ FirstKept' /\ WritableIsTainted' /\ tainted' \in BOOLEAN /\ fault' \in BOOLEAN /\ raced' \in BOOLEAN
      /\ mem' \in Bytes /\ prot' \in Protections /\ saved' \in Protections \cup {"none"}
  BY <1>1, <1>2, Written DEF PatchInv
<1>4. CASE op = "apply" /\ Proceed("apply")
  <2>1. PatchTypeOK'
    BY <1>2, <1>3, <1>4 DEF PatchInv, Proceed
  <2>2. Course' /\ Untouched' /\ Checked' /\ Unsettled'
    BY <1>4 DEF PatchInv, Course, Untouched, Checked, Unsettled, Proceed
  <2> QED BY <1>3, <2>1, <2>2 DEF PatchInv
<1>5. ASSUME NEW q \in {"ok", "err", "clean", "dirty"}, Finish(q), op = "install" => q # "err" PROVE PatchInv'
  BY <1>2, <1>3, <1>5, Returns
<1>6. RestoreReturns("ok") \/ RestoreReturns("err")
  BY <1>1
<1> QED BY <1>2, <1>4, <1>5, <1>6, RestoreReturnsTo

LEMMA PatchPreserved == PatchInv /\ [PatchNext]_patchVars => PatchInv'
<1> SUFFICES ASSUME PatchInv, [PatchNext]_patchVars PROVE PatchInv'
  OBVIOUS
<1>1. CASE UNCHANGED patchVars
  BY <1>1 DEF patchVars, PatchInv, Course, FirstKept, KeptProtection, WritableIsTainted, Untouched, Checked, Unsettled
<1>2. CASE PatchNext
  BY <1>2, CallStep, PrepareStep, ApplyCheckStep, RestoreCheckStep, StopStep, ApplyWriteStep,
     RollBackStep, RestoreWriteStep, ForeignStep DEF PatchNext, Step
<1> QED BY <1>1, <1>2

\* TypeOK of CodePatch: every call of a patch takes the steps of its course.
THEOREM PatchTyped == PatchSpec => []PatchTypeOK
<1>1. PatchInv => PatchTypeOK
  BY DEF PatchInv
<1> QED BY <1>1, PatchInitially, PatchPreserved, PTL DEF PatchSpec

\* ProtectionReturned: bytes that are settled have the protection they had
\* before the first write, whatever failed in between.
THEOREM ProtectionKept == PatchSpec => []ProtectionReturned
<1>1. PatchInv => ProtectionReturned
  BY DEF PatchInv, WritableIsTainted, ProtectionReturned
<1> QED BY <1>1, PatchInitially, PatchPreserved, PTL DEF PatchSpec

-----------------------------------------------------------------------------

\* What a call that returns r has to have seen to for its answer to be true.
Truth(r) ==
  /\ r = "ok" => ~tainted' /\ prot' = prot0
  /\ r = "ok" /\ op \in {"install", "apply"} => mem' = "replacement"
  /\ r = "ok" /\ op \in {"prepare", "restore", "drop"} => mem' = "original"
  /\ r = "clean" => mem' # "replacement" /\ ~tainted' /\ prot' = prot0
  /\ r = "err" /\ op \in {"install", "apply"} => tainted' \/ mem' # "replacement"

LEMMA TruthTold ==
  ASSUME NEW r, Finish(r), Truth(r)
  PROVE  AnswerTrue
<1>1. answer'.op = op /\ answer'.r = r
  BY DEF Finish
<1> QED BY <1>1 DEF Truth, AnswerTrue

\* To its caller apply tells the truth; restore too, and so does install.
LEMMA ApplyTells ==
  ASSUME op \in {"install", "apply"}, NEW r \in {"ok", "err"}, ApplyReturns(r), op' = "none", Truth(r)
  PROVE  AnswerTrue
<1>1. ~Proceed("restore")
  BY DEF Proceed
<1> QED BY <1>1, ApplyReturnsTo, TruthTold

LEMMA RestoreTells ==
  ASSUME op \in Calls \ {"prepare"}, NEW r \in {"ok", "err"}, RestoreReturns(r), op' = "none",
         r = "ok" => mem' = "original" /\ ~tainted' /\ prot' = prot0,
         r = "err" /\ op = "apply" => tainted' \/ mem' # "replacement"
  PROVE  AnswerTrue
<1>1. ~Proceed("apply")
  BY DEF Proceed
<1>2. CASE op = "apply" /\ r = "err" /\ Finish("err")
  BY <1>2, TruthTold DEF Truth
<1>3. CASE op = "install" /\ r = "ok" /\ Finish("clean")
  BY <1>3, TruthTold DEF Truth
<1>4. CASE op = "install" /\ Finish("dirty")
  BY <1>4, TruthTold DEF Truth
<1>5. CASE op \in {"restore", "drop"} /\ Finish(r)
  BY <1>5, TruthTold DEF Truth
<1> QED BY <1>1, <1>2, <1>3, <1>4, <1>5, RestoreReturnsTo

LEMMA AnswersHold == ASSUME PatchInv, PatchNext, op # "none", op' = "none" PROVE AnswerTrue
<1>1. CASE Prepare
  <2>1. op \in {"prepare", "install"} /\ mem # "replacement" /\ ~tainted /\ prot = prot0
    BY <1>1 DEF Prepare, PatchInv, Course, Untouched, WritableIsTainted
  <2>2. UNCHANGED <<mem, tainted, prot, prot0>>
    BY <1>1 DEF Prepare
  <2>3. ~Proceed("apply")
    BY DEF Proceed
  <2>4. Finish("clean") \/ (Finish("ok") /\ op = "prepare" /\ mem = "original")
    BY <1>1, <2>3 DEF Prepare
  <2> QED BY <2>1, <2>2, <2>4, TruthTold DEF Truth
<1>2. CASE ApplyCheck
  <2>1. op \in {"install", "apply"} /\ UNCHANGED <<mem, tainted, prot, prot0>> /\ (~tainted => prot = prot0)
    BY <1>2 DEF ApplyCheck, PatchInv, Course, WritableIsTainted
  <2>2. \/ ApplyReturns("ok") /\ mem = "replacement" /\ ~tainted
        \/ ApplyReturns("err") /\ (mem # "replacement" \/ tainted)
    BY <1>2 DEF ApplyCheck, Proceed
  <2> QED BY <2>1, <2>2, ApplyTells DEF Truth
<1>3. CASE RestoreCheck
  <2>1. /\ op \in Calls \ {"prepare"} /\ UNCHANGED <<mem, tainted, prot, prot0>>
        /\ ~tainted => prot = prot0
    BY <1>3 DEF RestoreCheck, PatchInv, Course, WritableIsTainted
  <2>2. \/ RestoreReturns("ok") /\ mem = "original" /\ ~tainted
        \/ RestoreReturns("err") /\ mem = "foreign"
    BY <1>3 DEF RestoreCheck, Proceed
  <2> QED BY <2>1, <2>2, RestoreTells
<1>4. CASE StopFails
  <2>1. UNCHANGED <<mem, tainted, prot, prot0>>
    BY <1>4 DEF StopFails
  <2>2. CASE at = "applyStop"
    <3>1. op \in {"install", "apply"} /\ mem # "replacement" /\ ApplyReturns("err")
      BY <1>4, <2>2 DEF StopFails, PatchInv, Course, Checked
    <3> QED BY <2>1, <3>1, ApplyTells DEF Truth
  <2>3. CASE at = "restoreStop"
    <3>1. op \in Calls \ {"prepare"} /\ (op = "apply" => tainted) /\ RestoreReturns("err")
      BY <1>4, <2>3 DEF StopFails, PatchInv, Course, Unsettled
    <3> QED BY <2>1, <3>1, RestoreTells
  <2> QED BY <1>4, <2>2, <2>3 DEF StopFails
<1>5. CASE ApplyWrite
  <2>1. op \in {"install", "apply"}
    BY <1>5 DEF ApplyWrite, PatchInv, Course
  <2>2. WriteCode("replacement", TRUE) /\ tainted' = FALSE /\ ApplyReturns("ok")
    BY <1>5 DEF ApplyWrite, Proceed
  <2>3. mem' = "replacement" /\ prot' = prot0
    BY <2>2, WriteCodeLeaves
  <2> QED BY <2>1, <2>2, <2>3, ApplyTells DEF Truth
<1>6. CASE RollBack
  <2>1. op \in {"install", "apply"} /\ ApplyReturns("err")
    BY <1>6 DEF RollBack, PatchInv, Course
  <2>2. PICK ok \in BOOLEAN : WriteCode("original", ok) /\ tainted' = ~ok
    BY <1>6 DEF RollBack
  <2>3. tainted' \/ mem' = "original"
    BY <2>2, WriteCodeLeaves
  <2> QED BY <2>1, <2>3, ApplyTells DEF Truth
<1>7. CASE RestoreWrite
  <2>1. op \in Calls \ {"prepare"}
    BY <1>7 DEF RestoreWrite, PatchInv, Course
  <2>2. PICK ok \in BOOLEAN :
          WriteCode("original", ok) /\ tainted' = ~ok /\ RestoreReturns(IF ok THEN "ok" ELSE "err")
    BY <1>7 DEF RestoreWrite
  <2>3. ok => mem' = "original" /\ prot' = prot0
    BY <2>2, WriteCodeLeaves
  <2>4. CASE ok
    <3>1. RestoreReturns("ok")
      BY <2>2, <2>4
    <3>2. ~tainted'
      BY <2>2, <2>4
    <3> QED BY <2>1, <2>3, <2>4, <3>1, <3>2, RestoreTells
  <2>5. CASE ~ok
    <3>1. RestoreReturns("err")
      BY <2>2, <2>5
    <3>2. tainted'
      BY <2>2, <2>5
    <3> QED BY <2>1, <3>1, <3>2, RestoreTells
  <2> QED BY <2>4, <2>5
<1>8. CASE Stop \/ Foreign \/ \E c \in Calls : Call(c)
  BY <1>8 DEF Stop, Foreign, Call, Proceed
<1> QED BY <1>1, <1>2, <1>3, <1>4, <1>5, <1>6, <1>7, <1>8 DEF PatchNext, Step

\* AnswersAreTrue: what a call of a patch returns is what it leaves in the game.
THEOREM HonestAnswers == PatchSpec => AnswersAreTrue
<1>1. PatchInv /\ [PatchNext]_patchVars => [op # "none" /\ op' = "none" => AnswerTrue]_patchVars
  <2>1. UNCHANGED patchVars => op' = op
    BY DEF patchVars
  <2> QED BY <2>1, AnswersHold
<1> QED BY <1>1, PatchInitially, PatchPreserved, PTL DEF PatchSpec, AnswersAreTrue

\* ForeignBytesRespected: other code's bytes are not overwritten, unless they
\* came in between the check and the write, or a failed write is being undone.
THEOREM ForeignRespected == PatchSpec => ForeignBytesRespected
<1>1. PatchInv /\ [PatchNext]_patchVars => [at' # at /\ mem = "foreign" /\ mem' # "foreign" => tainted \/ raced]_patchVars
  <2> SUFFICES ASSUME PatchInv, PatchNext, at' # at, mem = "foreign", mem' # "foreign" PROVE tainted \/ raced
    OBVIOUS
  <2>1. CASE ApplyWrite \/ RollBack \/ RestoreWrite
    BY <2>1 DEF ApplyWrite, RollBack, RestoreWrite, PatchInv, Checked, Unsettled
  <2>2. ~(ApplyWrite \/ RollBack \/ RestoreWrite) => mem' = mem \/ at' = at
    BY DEF PatchNext, Step, Call, Prepare, ApplyCheck, RestoreCheck, Stop, StopFails, Foreign
  <2> QED BY <2>1, <2>2
<1> QED BY <1>1, PatchInitially, PatchPreserved, PTL DEF PatchSpec, ForeignBytesRespected

\* RestoreHeals: a restore or a drop fails only over a failing system call or
\* foreign bytes.
THEOREM RestoreDoesHeal == PatchSpec => RestoreHeals
<1>1. PatchInv /\ [PatchNext]_patchVars =>
        [answer'.r = "err" /\ op' = "none" /\ op \in {"restore", "drop"} =>
           fault' \/ (mem = "foreign" /\ ~tainted)]_patchVars
  <2> SUFFICES ASSUME PatchInv, PatchNext, answer'.r = "err", op' = "none", op \in {"restore", "drop"}
               PROVE  fault' \/ (mem = "foreign" /\ ~tainted)
    OBVIOUS
  <2>0. at \in {"restore", "restoreStop", "restoreWrite"}
    BY DEF PatchInv, Course
  <2>1. CASE RestoreCheck
    BY <2>1 DEF RestoreCheck, RestoreReturns, Finish, Proceed
  <2>2. CASE StopFails
    BY <2>2 DEF StopFails
  <2>3. CASE RestoreWrite
    <3>1. PICK ok \in BOOLEAN :
            fault' = (fault \/ ~ok) /\ RestoreReturns(IF ok THEN "ok" ELSE "err")
      BY <2>3 DEF RestoreWrite
    <3>2. CASE ok
      <4>1. RestoreReturns("ok")
        BY <3>1, <3>2
      <4> QED BY <4>1 DEF RestoreReturns, Finish
    <3>3. CASE ~ok
      BY <3>1, <3>3
    <3> QED BY <3>2, <3>3
  <2>4. CASE Stop \/ Foreign \/ \E c \in Calls : Call(c)
    BY <2>4 DEF Stop, Foreign, Call, Proceed
  <2> QED BY <2>0, <2>1, <2>2, <2>3, <2>4 DEF PatchNext, Step, Prepare, ApplyCheck, ApplyWrite, RollBack
<1> QED BY <1>1, PatchInitially, PatchPreserved, PTL DEF PatchSpec, RestoreHeals
=============================================================================
