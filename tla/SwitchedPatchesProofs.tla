------------------------ MODULE SwitchedPatchesProofs ------------------------
(***************************************************************************)
(* QuiescentMeansRestored and OkMeansUniform for every number of patches   *)
(* and any number of calls and foreign writes.                             *)
(*                                                                         *)
(* The invariant says why DIRTY may go down at the end of a restore_all:   *)
(* while no error has been collected, every patch behind the loop is       *)
(* quiet; and why it is up whenever a byte of ours may be in the game: it  *)
(* is raised before the first write and while the switch is on.            *)
(***************************************************************************)
EXTENDS SwitchedPatches, TLAPS

DirtyWhileWorking == (op # "none" \/ enabled) => dirty
EnableFromOff == op = "enable" => ~enabled
BehindIsQuiet == Restoring /\ ~errors => \A p \in Patches : p > i => Quiet(p)

IInv ==
  /\ TypeOK
  /\ DirtyWhileWorking
  /\ EnableFromOff
  /\ BehindIsQuiet
  /\ QuiescentMeansRestored

LEMMA InitInv == Init => IInv
<1> USE CountAssumption, BoundsAssumption
<1>1. Init => TypeOK
  <2> SUFFICES ASSUME Init PROVE TypeOK
    OBVIOUS
  <2>1. mem \in [Patches -> Bytes] /\ tainted \in [Patches -> BOOLEAN]
    BY DEF Init, Bytes
  <2>2. i \in Patches
    BY DEF Init, Patches
  <2>3. /\ enabled \in BOOLEAN /\ dirty \in BOOLEAN /\ errors \in BOOLEAN
        /\ op \in {"none", "enable", "disable"}
        /\ phase \in {"forward", "undo"}
        /\ answer \in {"none", "ok", "err"}
    BY DEF Init
  <2>4. calls \in 0..MaxCalls /\ foreign \in 0..MaxForeign
    BY DEF Init
  <2>. QED
    BY <2>1, <2>2, <2>3, <2>4 DEF TypeOK
<1>2. Init => DirtyWhileWorking /\ EnableFromOff /\ BehindIsQuiet
  BY DEF Init, DirtyWhileWorking, EnableFromOff, BehindIsQuiet, Restoring
<1>3. Init => QuiescentMeansRestored
  BY DEF Init, QuiescentMeansRestored, Quiet
<1>. QED
  BY <1>1, <1>2, <1>3 DEF IInv

\* A patch operation touches its own patch only, and an Ok of restore leaves it
\* quiet.
LEMMA ApplyTouchesOne ==
  ASSUME TypeOK, NEW p \in Patches, NEW ok \in BOOLEAN, ApplyPatch(p, ok)
  PROVE  /\ mem' \in [Patches -> Bytes] /\ tainted' \in [Patches -> BOOLEAN]
         /\ \A q \in Patches \ {p} : mem'[q] = mem[q] /\ tainted'[q] = tainted[q]
  BY DEF TypeOK, ApplyPatch, Becomes, Bytes

LEMMA RestoreTouchesOne ==
  ASSUME TypeOK, NEW p \in Patches, NEW ok \in BOOLEAN, RestorePatch(p, ok)
  PROVE  /\ mem' \in [Patches -> Bytes] /\ tainted' \in [Patches -> BOOLEAN]
         /\ \A q \in Patches \ {p} : mem'[q] = mem[q] /\ tainted'[q] = tainted[q]
         /\ ok => mem'[p] = "original" /\ tainted'[p] = FALSE
  BY DEF TypeOK, RestorePatch, Becomes, Bytes

\* A call begins, or finds nothing to do.
LEMMA SetEnabledStep ==
  ASSUME IInv, NEW want \in BOOLEAN, SetEnabled(want)
  PROVE  IInv'
<1> USE CountAssumption, BoundsAssumption
<1>1. TypeOK'
  BY DEF IInv, TypeOK, SetEnabled, Patches
<1>2. DirtyWhileWorking' /\ EnableFromOff'
  BY DEF IInv, TypeOK, SetEnabled, DirtyWhileWorking, EnableFromOff
<1>3. BehindIsQuiet'
  <2>1. CASE enabled = want
    BY <2>1 DEF IInv, TypeOK, SetEnabled, BehindIsQuiet, Restoring
  <2>2. CASE enabled # want
    <3>1. want => ~Restoring'
      BY <2>2 DEF SetEnabled, Restoring
    <3>2. ~want => i' = N
      BY <2>2 DEF SetEnabled
    <3>. QED
      BY <3>1, <3>2 DEF BehindIsQuiet, Patches
  <2>. QED
    BY <2>1, <2>2
<1>4. QuiescentMeansRestored'
  BY DEF IInv, TypeOK, SetEnabled, QuiescentMeansRestored, Quiet
<1>. QED
  BY <1>1, <1>2, <1>3, <1>4 DEF IInv

\* While patches are applied DIRTY is up and stays so.
LEMMA ApplyStep ==
  ASSUME IInv, ApplyNext
  PROVE  IInv'
<1> USE CountAssumption, BoundsAssumption
<1>1. PICK ok \in BOOLEAN : ApplyPatch(i, ok)
  BY DEF ApplyNext
<1>2. i \in Patches /\ dirty /\ dirty' = dirty /\ op # "none"
  BY DEF IInv, TypeOK, DirtyWhileWorking, ApplyNext, Applying
<1>3. mem' \in [Patches -> Bytes] /\ tainted' \in [Patches -> BOOLEAN]
  BY <1>1, <1>2, ApplyTouchesOne DEF IInv
<1>4. /\ i' \in Patches /\ op' \in {"none", "enable", "disable"}
      /\ phase' \in {"forward", "undo"}
  BY <1>2 DEF IInv, TypeOK, ApplyNext, Return, Patches
<1>5. /\ enabled' \in BOOLEAN /\ errors' \in BOOLEAN
      /\ answer' \in {"none", "ok", "err"}
      /\ calls' \in 0..MaxCalls /\ foreign' \in 0..MaxForeign
  BY DEF IInv, TypeOK, ApplyNext, Return
<1>6. TypeOK'
  BY <1>2, <1>3, <1>4, <1>5 DEF IInv, TypeOK
<1>7. DirtyWhileWorking' /\ QuiescentMeansRestored'
  BY <1>2 DEF DirtyWhileWorking, QuiescentMeansRestored
<1>8. EnableFromOff'
  BY DEF IInv, EnableFromOff, ApplyNext, Return
<1>9. BehindIsQuiet'
  <2>1. Restoring' => i' = N
    BY DEF ApplyNext, Applying, Restoring, Return
  <2>. QED
    BY <2>1 DEF BehindIsQuiet, Patches
<1>. QED
  BY <1>6, <1>7, <1>8, <1>9 DEF IInv

\* The loop of restore_all leaves quiet patches behind as long as it has no
\* error, and takes DIRTY down only with all of them behind it.
LEMMA RestoreStep ==
  ASSUME IInv, RestoreNext
  PROVE  IInv'
<1> USE CountAssumption, BoundsAssumption
<1>1. PICK ok \in BOOLEAN :
        /\ RestorePatch(i, ok)
        /\ \/ /\ i > 1
              /\ i' = i - 1 /\ errors' = (errors \/ ~ok)
              /\ UNCHANGED <<op, phase, answer, enabled, dirty>>
           \/ /\ i = 1 /\ op = "disable" /\ ~(errors \/ ~ok)
              /\ enabled' = FALSE /\ dirty' = FALSE
              /\ Return("ok")
           \/ /\ i = 1 /\ op = "disable" /\ (errors \/ ~ok)
              /\ phase' = "undo" /\ i' = 1 /\ errors' = FALSE
              /\ UNCHANGED <<op, answer, enabled, dirty>>
           \/ /\ i = 1 /\ op = "enable"
              /\ dirty' = (errors \/ ~ok)
              /\ Return("err")
              /\ UNCHANGED enabled
  BY DEF RestoreNext
<1>2. i \in Patches /\ dirty /\ op # "none" /\ Restoring
  BY DEF IInv, TypeOK, DirtyWhileWorking, RestoreNext, Restoring
<1>3. /\ mem' \in [Patches -> Bytes] /\ tainted' \in [Patches -> BOOLEAN]
      /\ \A q \in Patches \ {i} : mem'[q] = mem[q] /\ tainted'[q] = tainted[q]
      /\ ok => mem'[i] = "original" /\ tainted'[i] = FALSE
  BY <1>1, <1>2, RestoreTouchesOne DEF IInv
<1>4. ~(errors \/ ~ok) => \A p \in Patches : p >= i => Quiet(p)'
  BY <1>2, <1>3 DEF IInv, BehindIsQuiet, Quiet, Patches
<1>5. TypeOK'
  <2>1. i' \in Patches
    <3>1. (i' = i - 1 /\ i > 1) \/ i' = 1
      BY <1>1 DEF Return
    <3>. QED
      BY <1>2, <3>1 DEF Patches
  <2>4. op' \in {"none", "enable", "disable"} /\ phase' \in {"forward", "undo"}
    <3>1. op' \in {op, "none"} /\ phase' \in {phase, "forward", "undo"}
      BY <1>1 DEF Return
    <3>. QED
      BY <3>1 DEF IInv, TypeOK
  <2>2. /\ enabled' \in BOOLEAN /\ errors' \in BOOLEAN /\ dirty' \in BOOLEAN
        /\ answer' \in {"none", "ok", "err"}
    BY <1>1 DEF IInv, TypeOK, Return
  <2>3. calls' \in 0..MaxCalls /\ foreign' \in 0..MaxForeign
    BY DEF IInv, TypeOK, RestoreNext
  <2>. QED
    BY <1>3, <2>1, <2>2, <2>3, <2>4 DEF TypeOK
<1>6. DirtyWhileWorking' /\ EnableFromOff'
  <2>1. CASE dirty' = dirty /\ enabled' = enabled /\ op' = op
    BY <1>2, <2>1 DEF IInv, DirtyWhileWorking, EnableFromOff
  <2>2. CASE op' = "none" /\ enabled' = FALSE
    BY <2>2 DEF DirtyWhileWorking, EnableFromOff
  <2>3. CASE op = "enable" /\ op' = "none" /\ enabled' = enabled
    BY <2>3 DEF IInv, DirtyWhileWorking, EnableFromOff
  <2>. QED
    BY <1>1, <2>1, <2>2, <2>3 DEF Return
<1>7. BehindIsQuiet'
  <2>1. CASE i > 1 /\ i' = i - 1 /\ errors' = (errors \/ ~ok)
    <3>1. ~errors' => \A p \in Patches : p > i' => Quiet(p)'
      <4> SUFFICES ASSUME ~errors', NEW p \in Patches, p > i' PROVE Quiet(p)'
        OBVIOUS
      <4>1. p >= i
        BY <1>2, <2>1 DEF Patches
      <4>2. ~(errors \/ ~ok)
        BY <2>1
      <4>. QED
        BY <1>4, <4>1, <4>2
    <3>. QED
      BY <3>1 DEF BehindIsQuiet
  <2>2. CASE op' = "none" \/ (op = "disable" /\ op' = op /\ phase' = "undo")
    BY <2>2 DEF BehindIsQuiet, Restoring
  <2>. QED
    BY <1>1, <2>1, <2>2 DEF Return
<1>8. QuiescentMeansRestored'
  <2>1. CASE dirty'
    BY <2>1 DEF QuiescentMeansRestored
  <2>2. CASE ~dirty'
    <3>1. i = 1 /\ ~(errors \/ ~ok)
      BY <1>1, <1>2, <2>2
    <3>. QED
      BY <1>4, <3>1 DEF QuiescentMeansRestored, Patches
  <2>. QED
    BY <2>1, <2>2
<1>. QED
  BY <1>5, <1>6, <1>7, <1>8 DEF IInv

\* Foreign bytes are not ours.
LEMMA ForeignStep ==
  ASSUME IInv, Foreign
  PROVE  IInv'
<1>1. PICK p \in Patches : mem' = [mem EXCEPT ![p] = "foreign"]
  BY DEF Foreign
<1>2. \A q \in Patches : Quiet(q) => Quiet(q)'
  BY <1>1 DEF IInv, TypeOK, Foreign, Quiet
<1>3. TypeOK'
  BY <1>1, BoundsAssumption DEF IInv, TypeOK, Foreign, Bytes
<1>. QED
  BY <1>2, <1>3 DEF IInv, Foreign, DirtyWhileWorking, EnableFromOff,
     BehindIsQuiet, Restoring, QuiescentMeansRestored

LEMMA NextStep == IInv /\ [Next]_vars => IInv'
<1> SUFFICES ASSUME IInv, [Next]_vars PROVE IInv'
  OBVIOUS
<1>1. CASE Toggle \/ Restore
  <2>1. (~enabled) \in BOOLEAN
    BY DEF IInv, TypeOK
  <2> QED BY <1>1, <2>1, SetEnabledStep DEF Toggle, Restore
<1>2. CASE ApplyNext \/ RestoreNext \/ Foreign
  BY <1>2, ApplyStep, RestoreStep, ForeignStep
<1>3. CASE UNCHANGED vars
  BY <1>3 DEF vars, IInv, TypeOK, DirtyWhileWorking, EnableFromOff,
     BehindIsQuiet, Restoring, QuiescentMeansRestored, Quiet
<1>. QED
  BY <1>1, <1>2, <1>3 DEF Next

\* Whatever fails on the way, and however many patches there are, DIRTY is
\* down only when no byte of ours is in the game and no write of ours is
\* unsettled (is_quiescent of viewpunch.rs and fullscreen.rs).
THEOREM Quiescence == Spec => []QuiescentMeansRestored
<1>1. IInv => QuiescentMeansRestored
  BY DEF IInv
<1>. QED
  BY <1>1, InitInv, NextStep, PTL DEF Spec

\* The type invariant, for every number of patches.
THEOREM TypeCorrect == Spec => []TypeOK
<1>1. IInv => TypeOK
  BY DEF IInv
<1>. QED
  BY <1>1, InitInv, NextStep, PTL DEF Spec

-----------------------------------------------------------------------------
(* OkMeansUniform needs the other loop too: a patch that apply_all has     *)
(* passed on its way to Ok keeps no original bytes, whoever writes since.  *)

BehindIsApplied ==
  op = "enable" /\ phase = "forward" => \A p \in Patches : p < i => mem[p] # "original"

LEMMA AppliedInitially == Init => BehindIsApplied
  BY DEF Init, BehindIsApplied

LEMMA AppliedKept == IInv /\ BehindIsApplied /\ [Next]_vars => BehindIsApplied'
<1> SUFFICES ASSUME IInv, BehindIsApplied, [Next]_vars PROVE BehindIsApplied'
  OBVIOUS
<1> USE CountAssumption, BoundsAssumption
<1>1. ASSUME NEW want \in BOOLEAN, SetEnabled(want) PROVE BehindIsApplied'
  <2>1. CASE enabled = want
    BY <1>1, <2>1 DEF SetEnabled, BehindIsApplied
  <2>2. CASE enabled # want /\ want
    <3>1. i' = 1
      BY <1>1, <2>2 DEF SetEnabled
    <3> QED BY <3>1 DEF BehindIsApplied, Patches
  <2>3. CASE enabled # want /\ ~want
    <3>1. op' = "disable"
      BY <1>1, <2>3 DEF SetEnabled
    <3> QED BY <3>1 DEF BehindIsApplied
  <2> QED BY <2>1, <2>2, <2>3
<1>2. CASE ApplyNext
  <2>1. PICK ok \in BOOLEAN :
          /\ ApplyPatch(i, ok)
          /\ \/ ok /\ i' = i + 1 /\ UNCHANGED <<op, phase>>
             \/ op' = "none"
             \/ phase' = "undo"
    BY <1>2 DEF ApplyNext, Return
  <2>2. CASE ok /\ i' = i + 1 /\ UNCHANGED <<op, phase>>
    <3> SUFFICES ASSUME op' = "enable", phase' = "forward", NEW p \in Patches, p < i'
                 PROVE  mem'[p] # "original"
      BY DEF BehindIsApplied
    <3>1. i \in Patches /\ mem' \in [Patches -> Bytes]
          /\ \A q \in Patches \ {i} : mem'[q] = mem[q]
      BY <2>1, ApplyTouchesOne DEF IInv, TypeOK
    <3>2. mem'[i] = "replacement"
      BY <2>1, <2>2, <3>1 DEF IInv, TypeOK, ApplyPatch, Becomes
    <3>3. p = i \/ p < i
      BY <2>2, <3>1 DEF Patches
    <3> QED BY <2>2, <3>1, <3>2, <3>3 DEF BehindIsApplied
  <2>3. CASE op' = "none" \/ phase' = "undo"
    BY <2>3 DEF BehindIsApplied
  <2> QED BY <2>1, <2>2, <2>3
<1>3. CASE RestoreNext
  <2>1. op' = "none" \/ op' = "disable" \/ phase' = "undo"
    BY <1>3 DEF RestoreNext, Restoring, Return
  <2> QED BY <2>1 DEF BehindIsApplied
<1>4. CASE Foreign
  <2>1. PICK p \in Patches : mem' = [mem EXCEPT ![p] = "foreign"]
    BY <1>4 DEF Foreign
  <2>2. \A q \in Patches : mem[q] # "original" => mem'[q] # "original"
    BY <2>1 DEF IInv, TypeOK
  <2> QED BY <1>4, <2>2 DEF Foreign, BehindIsApplied
<1>5. CASE UNCHANGED vars
  BY <1>5 DEF vars, BehindIsApplied
<1>6. (~enabled) \in BOOLEAN
  BY DEF IInv, TypeOK
<1> QED BY <1>1, <1>2, <1>3, <1>4, <1>5, <1>6 DEF Next, Toggle, Restore

\* What an Ok says at the end of a call that worked.
LEMMA WorkedOk ==
  ASSUME IInv, BehindIsApplied, ApplyNext \/ RestoreNext, answer' = "ok", op' = "none"
  PROVE  Uniform'
<1> USE CountAssumption
<1>0. op # "none"
  BY DEF ApplyNext, Applying, RestoreNext, Restoring
<1>1. CASE ApplyNext
  <2>1. PICK ok \in BOOLEAN :
          /\ ApplyPatch(i, ok)
          /\ ok /\ i = N /\ op = "enable" /\ enabled' = TRUE
    BY <1>0, <1>1 DEF ApplyNext, Return
  <2>2. phase = "forward" /\ i \in Patches
    BY <1>1, <2>1 DEF ApplyNext, Applying, IInv, TypeOK
  <2>3. mem' \in [Patches -> Bytes] /\ \A q \in Patches \ {i} : mem'[q] = mem[q]
    BY <2>1, <2>2, ApplyTouchesOne DEF IInv
  <2>4. mem'[i] = "replacement"
    BY <2>1, <2>2 DEF IInv, TypeOK, ApplyPatch, Becomes
  <2>5. \A q \in Patches \ {i} : q < i
    BY <2>1 DEF Patches
  <2>6. \A q \in Patches : mem'[q] \in Bytes /\ mem'[q] # "original"
    BY <2>1, <2>2, <2>3, <2>4, <2>5 DEF BehindIsApplied
  <2> QED BY <2>1, <2>6 DEF Bytes, Uniform
<1>2. CASE RestoreNext
  <2>1. PICK ok \in BOOLEAN :
          /\ RestorePatch(i, ok)
          /\ i = 1 /\ op = "disable" /\ ~(errors \/ ~ok) /\ enabled' = FALSE
    BY <1>0, <1>2 DEF RestoreNext, Return
  <2>2. i \in Patches /\ Restoring /\ ~errors /\ ok
    BY <1>2, <2>1 DEF RestoreNext, IInv, TypeOK
  <2>3. /\ mem' \in [Patches -> Bytes] /\ mem'[i] = "original"
        /\ \A q \in Patches \ {i} : mem'[q] = mem[q]
    BY <2>1, <2>2, RestoreTouchesOne DEF IInv
  <2>4. \A q \in Patches \ {i} : q > i
    BY <2>1 DEF Patches
  <2>5. \A q \in Patches : mem'[q] \in Bytes /\ mem'[q] # "replacement"
    BY <2>2, <2>3, <2>4 DEF IInv, BehindIsQuiet, Quiet
  <2> QED BY <2>1, <2>5 DEF Bytes, Uniform
<1> QED BY <1>1, <1>2

\* And at once: with DIRTY down nothing of ours is left to differ from off.
LEMMA EarlyOk ==
  ASSUME IInv, Toggle \/ Restore, op' = "none"
  PROVE  op = "none" /\ ~enabled' /\ (~dirty' => Uniform')
<1>1. op = "none" /\ enabled = FALSE /\ UNCHANGED <<mem, enabled, dirty>>
  <2>1. PICK want \in {~enabled, FALSE} : SetEnabled(want)
    BY DEF Toggle, Restore
  <2>2. op = "none" /\ enabled = want /\ UNCHANGED <<mem, enabled, dirty>>
    BY <2>1 DEF SetEnabled
  <2> QED BY <2>2
<1>2. ~dirty => \A p \in Patches : mem[p] \in {"foreign", "original"}
  BY DEF IInv, TypeOK, Bytes, QuiescentMeansRestored, Quiet
<1> QED BY <1>1, <1>2 DEF Uniform

\* OkMeansUniform: a toggle or restore that answers Ok, with or without having
\* worked, leaves every patch on the side of the flag, after any failures,
\* rollbacks and foreign writes; except the Ok of a restore that finds the
\* switch off over a failed rollback, and then DIRTY is up (set_enabled of
\* viewpunch.rs and fullscreen.rs).
THEOREM OkIsUniform == Spec => OkMeansUniform
<1>1. IInv /\ BehindIsApplied /\ [Next]_vars =>
        [(op # "none" \/ calls' # calls) /\ op' = "none" /\ answer' = "ok" =>
           \/ Uniform'
           \/ op = "none" /\ ~enabled' /\ dirty']_vars
  <2> SUFFICES ASSUME IInv, BehindIsApplied, Next,
                      op # "none" \/ calls' # calls, op' = "none", answer' = "ok"
               PROVE  Uniform' \/ (op = "none" /\ ~enabled' /\ dirty')
    OBVIOUS
  <2>1. CASE Toggle \/ Restore
    BY <2>1, EarlyOk
  <2>2. CASE ApplyNext \/ RestoreNext
    BY <2>2, WorkedOk
  <2>3. ~Foreign
    BY DEF Foreign
  <2> QED BY <2>1, <2>2, <2>3 DEF Next
<1> QED BY <1>1, InitInv, NextStep, AppliedInitially, AppliedKept, PTL DEF Spec, OkMeansUniform
=============================================================================
