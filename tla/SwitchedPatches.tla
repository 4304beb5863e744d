--------------------------- MODULE SwitchedPatches ---------------------------
(***************************************************************************)
(* A feature switched on and off by a key: a list of patches that are all  *)
(* applied or all restored (viewpunch::Hooks over its adds, F7, and        *)
(* fullscreen::Hooks over its pair, F6; bhopfix-hook/src/windows).         *)
(*                                                                         *)
(* Each step is one Patch::apply or Patch::restore; what one may do and    *)
(* answer is what CodePatch shows of it (AnswersAreTrue).  DIRTY is what   *)
(* the worker asks before it lets the controller unload the DLL.           *)
(***************************************************************************)
EXTENDS Naturals

CONSTANTS
  N,          \* number of patches
  MaxCalls,   \* bound: toggles and restores
  MaxForeign  \* bound: rewrites by other code of the process

ASSUME CountAssumption == N \in Nat \ {0}
ASSUME BoundsAssumption == MaxCalls \in Nat /\ MaxForeign \in Nat

Patches == 1..N

VARIABLES
  mem,       \* per patch: the bytes in the game
  tainted,   \* per patch: a write of ours is unsettled
  enabled,   \* Hooks.enabled
  dirty,     \* the module's static DIRTY
  op,        \* "none", or what set_enabled is doing: "enable" or "disable"
  phase,     \* "forward", or "undo" after the forward direction failed
  i,         \* the next patch of the loop
  errors,    \* restore_all has collected an error
  answer,    \* "none", "ok" or "err"
  calls,     \* calls so far
  foreign    \* rewrites by others so far

vars == <<mem, tainted, enabled, dirty, op, phase, i, errors, answer, calls,
          foreign>>

Bytes == {"original", "replacement", "foreign"}

\* install: every patch is prepared over its original bytes; the switch is off.
Init ==
  /\ mem = [p \in Patches |-> "original"]
  /\ tainted = [p \in Patches |-> FALSE]
  /\ enabled = FALSE /\ dirty = FALSE
  /\ op = "none" /\ phase = "forward" /\ i = 1
  /\ errors = FALSE /\ answer = "none"
  /\ calls = 0 /\ foreign = 0

-----------------------------------------------------------------------------
(* What one patch operation may do, as CodePatch promises it.              *)

Becomes(p, bytes, taint) ==
  /\ mem' = [mem EXCEPT ![p] = bytes]
  /\ tainted' = [tainted EXCEPT ![p] = taint]

\* Patch::apply: Ok means the replacement; an error changed nothing, or rolled
\* back, or left the patch tainted.
ApplyPatch(p, ok) ==
  \/ ok /\ (mem[p] # "foreign" \/ tainted[p]) /\ Becomes(p, "replacement", FALSE)
  \/ ~ok /\ UNCHANGED <<mem, tainted>>
  \/ /\ ~ok
     /\ mem[p] = "original" \/ tainted[p]
     /\ \/ Becomes(p, "original", FALSE)
        \/ \E bytes \in {"original", "replacement"} : Becomes(p, bytes, TRUE)

\* Patch::restore: Ok means the original; an error changed nothing or tainted.
RestorePatch(p, ok) ==
  \/ /\ ok /\ (mem[p] # "foreign" \/ tainted[p])
     /\ Becomes(p, "original", FALSE)
  \/ /\ ~ok /\ (mem[p] # "original" \/ tainted[p])
     /\ UNCHANGED <<mem, tainted>>
  \/ /\ ~ok /\ (mem[p] = "replacement" \/ tainted[p])
     /\ \E bytes \in {mem[p], "original"} : Becomes(p, bytes, TRUE)

-----------------------------------------------------------------------------
(* set_enabled.                                                            *)

Return(r) ==
  /\ op' = "none" /\ phase' = "forward" /\ i' = 1 /\ errors' = FALSE
  /\ answer' = r

\* Mutation: DIRTY is not raised before the first write.
SetEnabledQuietly(want) ==
  /\ op = "none" /\ calls < MaxCalls
  /\ calls' = calls + 1
  /\ \/ /\ enabled = want
        /\ answer' = "ok"
        /\ UNCHANGED <<op, phase, i, dirty>>
     \/ /\ enabled # want
        /\ op' = IF want THEN "enable" ELSE "disable"
        /\ phase' = "forward"
        /\ i' = IF want THEN 1 ELSE N
        /\ dirty' = dirty
        /\ UNCHANGED answer
  /\ UNCHANGED <<mem, tainted, enabled, errors, foreign>>

\* Mutation: the loop counts from zero.
SetEnabledFromZero(want) ==
  /\ op = "none" /\ calls < MaxCalls
  /\ calls' = calls + 1
  /\ \/ /\ enabled = want
        /\ answer' = "ok"
        /\ UNCHANGED <<op, phase, i, dirty>>
     \/ /\ enabled # want
        /\ op' = IF want THEN "enable" ELSE "disable"
        /\ phase' = "forward"
        /\ i' = IF want THEN 0 ELSE N - 1
        /\ dirty' = (dirty \/ want)
        /\ UNCHANGED answer
  /\ UNCHANGED <<mem, tainted, enabled, errors, foreign>>

\* Nothing to do is Ok; DIRTY goes up before the first byte of the game changes.
SetEnabled(want) ==
  /\ op = "none" /\ calls < MaxCalls
  /\ calls' = calls + 1
  /\ \/ /\ enabled = want
        /\ answer' = "ok"
        /\ UNCHANGED <<op, phase, i, dirty>>
     \/ /\ enabled # want
        /\ op' = IF want THEN "enable" ELSE "disable"
        /\ phase' = "forward"
        /\ i' = IF want THEN 1 ELSE N
        /\ dirty' = (dirty \/ want)
        /\ UNCHANGED answer
  /\ UNCHANGED <<mem, tainted, enabled, errors, foreign>>

Toggle == SetEnabled(~enabled)
Restore == SetEnabled(FALSE)

Applying == <<op, phase>> \in {<<"enable", "forward">>, <<"disable", "undo">>}
Restoring == <<op, phase>> \in {<<"disable", "forward">>, <<"enable", "undo">>}

\* apply_all stops at the first error: enable then restores everything,
\* disable gives up (the state before could not be put back).
ApplyNext ==
  /\ Applying
  /\ \E ok \in BOOLEAN :
       /\ ApplyPatch(i, ok)
       /\ \/ /\ ok /\ i < N
             /\ i' = i + 1
             /\ UNCHANGED <<op, phase, errors, answer, enabled>>
          \/ /\ ok /\ i = N
             /\ enabled' = TRUE
             /\ Return(IF op = "enable" THEN "ok" ELSE "err")
          \/ /\ ~ok /\ op = "enable"
             /\ phase' = "undo" /\ i' = N
             /\ UNCHANGED <<op, errors, answer, enabled>>
          \/ /\ ~ok /\ op = "disable"
             /\ Return("err")
             /\ UNCHANGED enabled
  /\ UNCHANGED <<dirty, calls, foreign>>

\* Mutation: only the last patch's error counts.
RestoreNextForgetful ==
  /\ Restoring
  /\ \E ok \in BOOLEAN :
       LET failed == ~ok
       IN  /\ RestorePatch(i, ok)
           /\ \/ /\ i > 1
                 /\ i' = i - 1 /\ errors' = failed
                 /\ UNCHANGED <<op, phase, answer, enabled, dirty>>
              \/ /\ i = 1 /\ op = "disable" /\ ~failed
                 /\ enabled' = FALSE /\ dirty' = FALSE
                 /\ Return("ok")
              \/ /\ i = 1 /\ op = "disable" /\ failed
                 /\ phase' = "undo" /\ i' = 1 /\ errors' = FALSE
                 /\ UNCHANGED <<op, answer, enabled, dirty>>
              \/ /\ i = 1 /\ op = "enable"
                 /\ dirty' = failed
                 /\ Return("err")
                 /\ UNCHANGED enabled
  /\ UNCHANGED <<calls, foreign>>

\* restore_all tries every patch, last one first; DIRTY goes down only when
\* each of them answered Ok.
RestoreNext ==
  /\ Restoring
  /\ \E ok \in BOOLEAN :
       LET failed == errors \/ ~ok
       IN  /\ RestorePatch(i, ok)
           /\ \/ /\ i > 1
                 /\ i' = i - 1 /\ errors' = failed
                 /\ UNCHANGED <<op, phase, answer, enabled, dirty>>
              \/ /\ i = 1 /\ op = "disable" /\ ~failed
                 /\ enabled' = FALSE /\ dirty' = FALSE
                 /\ Return("ok")
              \/ /\ i = 1 /\ op = "disable" /\ failed
                 /\ phase' = "undo" /\ i' = 1 /\ errors' = FALSE
                 /\ UNCHANGED <<op, answer, enabled, dirty>>
              \/ /\ i = 1 /\ op = "enable"
                 /\ dirty' = failed
                 /\ Return("err")
                 /\ UNCHANGED enabled
  /\ UNCHANGED <<calls, foreign>>

\* Other code of the process rewrites a patched place.
Foreign ==
  /\ foreign < MaxForeign
  /\ foreign' = foreign + 1
  /\ \E p \in Patches : mem' = [mem EXCEPT ![p] = "foreign"]
  /\ UNCHANGED <<tainted, enabled, dirty, op, phase, i, errors, answer, calls>>

Next ==
  \/ Toggle \/ Restore
  \/ ApplyNext \/ RestoreNext \/ Foreign

Spec == Init /\ [][Next]_vars

-----------------------------------------------------------------------------
(* Properties.                                                             *)

\* The variables stay in their ranges.
TypeOK ==
  /\ mem \in [Patches -> Bytes]
  /\ tainted \in [Patches -> BOOLEAN]
  /\ enabled \in BOOLEAN /\ dirty \in BOOLEAN /\ errors \in BOOLEAN
  /\ op \in {"none", "enable", "disable"}
  /\ phase \in {"forward", "undo"}
  /\ i \in Patches
  /\ answer \in {"none", "ok", "err"}
  /\ calls \in 0..MaxCalls /\ foreign \in 0..MaxForeign

\* is_quiescent: when DIRTY is down no byte of ours is in the game and no
\* write of ours is unsettled, whatever failed on the way; the worker
\* releases the DLL on it.
Quiet(p) == mem[p] # "replacement" /\ ~tainted[p]
QuiescentMeansRestored == ~dirty => \A p \in Patches : Quiet(p)

Uniform == \A p \in Patches : mem[p] \in {"foreign", IF enabled THEN "replacement" ELSE "original"}

\* Every call that answers Ok, also one that returns at once because the flag
\* already says what was asked for, leaves all patches on the flag's side.  The
\* exception is the early Ok of restore() over an enable whose rollback failed:
\* it has done nothing, the bytes may be mixed, and then DIRTY is still up, so
\* that the worker does not call the DLL safe to unload.
OkMeansUniform ==
  [][(op # "none" \/ calls' # calls) /\ op' = "none" /\ answer' = "ok" =>
       \/ Uniform'
       \/ op = "none" /\ ~enabled' /\ dirty']_vars
=============================================================================
