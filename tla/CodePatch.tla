------------------------------ MODULE CodePatch ------------------------------
(***************************************************************************)
(* One reversible patch of the game's memory (Patch and PointerHook in     *)
(* bhopfix-hook/src/windows/hook.rs): install, apply, restore and drop,    *)
(* each made of a check of the bytes, the stop of the other threads        *)
(* (ThreadStop) and a write whose system calls may fail one by one.        *)
(*                                                                         *)
(* Bytes are "original", "replacement" or "foreign"; the page protection   *)
(* is the one found at the start or "rwx".  Other code in the process may  *)
(* change the bytes while its threads run, that is at any time but between *)
(* the stop and the end of the write.                                      *)
(***************************************************************************)
EXTENDS Naturals

CONSTANT MaxForeign   \* bound: writes by other code in the process

ASSUME ForeignAssumption == MaxForeign \in Nat

VARIABLES
  kind,      \* "code" for a Patch, "pointer" for a PointerHook
  mem,       \* the bytes at the patched address
  prot,      \* the protection of their page
  prot0,     \* the protection the page had at the start
  saved,     \* original_protection: "none" until the first write
  tainted,   \* a write of ours did not complete, or is under way
  object,    \* "none", "held", "forgotten" (leaked dirty) or "dropped"
  op,        \* the call in progress, or "none"
  at,        \* its next step
  answer,    \* what the last call returned: [op, r]
  raced,     \* other code wrote after the bytes were last checked
  fault,     \* a system call failed during this call
  foreign    \* writes by other code so far

patchVars == <<kind, mem, prot, prot0, saved, tainted, object, op, at, answer,
               raced, fault, foreign>>

Protections == {"rx", "rwx"}
Bytes == {"original", "replacement", "foreign"}
Calls == {"prepare", "install", "apply", "restore", "drop"}
Steps == {"idle", "prepare", "apply", "applyStop", "applyWrite", "rollBack",
          "restore", "restoreStop", "restoreWrite"}

PatchInit ==
  /\ kind \in {"code", "pointer"}
  /\ mem \in {"original", "foreign"}
  /\ prot \in Protections /\ prot0 = prot
  /\ saved = "none" /\ tainted = FALSE
  /\ object = "none"
  /\ op = "none" /\ at = "idle" /\ answer = [op |-> "none", r |-> "none"]
  /\ raced = FALSE /\ fault = FALSE /\ foreign = 0

-----------------------------------------------------------------------------
(* write_code: unprotect, copy, flush, protect again, verify.              *)

\* Mutations: the protection found by each write; the one of the first write,
\* which the first write has not found yet.
LastProtection == prot
UnsetProtection == saved

\* The protection every write puts back: the first one ever found.
KeptProtection == IF saved = "none" THEN prot ELSE saved

\* The page cannot be made writable: nothing has happened.
WriteRefused == UNCHANGED <<mem, prot, saved>>

\* The bytes are in place; flushing and protecting again may each fail, and
\* either failure makes the write an error.
WriteDone(bytes, flushed, protected) ==
  /\ mem' = bytes
  /\ saved' = KeptProtection
  /\ prot' = IF protected THEN KeptProtection ELSE "rwx"

\* Mutation: a protection that could not be put back is no error.
WriteCodeUnprotected(bytes, ok) ==
  \/ WriteRefused /\ ~ok
  \/ \E flushed, protected \in BOOLEAN :
       WriteDone(bytes, flushed, protected) /\ ok = flushed

\* write_code as a relation between the states and its answer.
WriteCode(bytes, ok) ==
  \/ WriteRefused /\ ~ok
  \/ \E flushed, protected \in BOOLEAN :
       /\ WriteDone(bytes, flushed, protected)
       /\ ok = (flushed /\ protected)

-----------------------------------------------------------------------------
(* The steps of a call.                                                    *)

\* The call returns r; an install that failed leaves no object behind, or
\* forgets it on purpose so that nothing is freed under a live patch.
Finish(r) ==
  /\ op' = "none" /\ at' = "idle"
  /\ answer' = [op |-> op, r |-> r]
  /\ object' = CASE op \in {"prepare", "install"} /\ r = "ok" -> "held"
                 [] r = "dirty" -> "forgotten"
                 [] r = "clean" -> "dropped"
                 [] op = "drop" -> "dropped"
                 [] OTHER -> object

Proceed(step) == at' = step /\ UNCHANGED <<op, answer, object>>

\* apply returned r: install cleans up after an error.
ApplyReturns(r) ==
  IF op = "install" /\ r = "err" THEN Proceed("restore") ELSE Finish(r)

\* restore returned r, to apply (which goes on), to install (which tells its
\* caller whether anything may be left) or to the owner.
RestoreReturns(r) ==
  CASE op = "apply" -> IF r = "ok" THEN Proceed("apply") ELSE Finish("err")
    [] op = "install" ->
         Finish(IF r = "ok" /\ ~tainted' /\ mem' = "original"
                THEN "clean" ELSE "dirty")
    [] OTHER -> Finish(r)

Call(c) ==
  /\ op = "none"
  /\ IF c \in {"prepare", "install"} THEN object = "none" ELSE object = "held"
  /\ c = "prepare" => kind = "code"
  /\ op' = c
  /\ at' = CASE c \in {"prepare", "install"} -> "prepare"
             [] c = "apply" -> IF tainted /\ kind = "code"
                               THEN "restore" ELSE "apply"
             [] OTHER -> "restore"
  /\ fault' = FALSE
  /\ UNCHANGED <<kind, mem, prot, prot0, saved, tainted, object, answer,
                 raced, foreign>>

\* prepare refuses an address that does not hold the expected bytes.
Prepare ==
  /\ at = "prepare"
  /\ \/ mem # "original" /\ Finish("clean")
     \/ mem = "original" /\ op = "prepare" /\ Finish("ok")
     \/ mem = "original" /\ op # "prepare" /\ Proceed("apply")
  /\ UNCHANGED <<kind, mem, prot, prot0, saved, tainted, raced, fault, foreign>>

\* The check at the head of apply.  A PointerHook refuses while tainted.
ApplyCheck ==
  /\ at = "apply"
  /\ raced' = FALSE
  /\ CASE mem = "replacement" /\ ~tainted -> ApplyReturns("ok")
       [] mem = "original" /\ ~tainted -> Proceed("applyStop")
       [] OTHER -> ApplyReturns("err")
  /\ UNCHANGED <<kind, mem, prot, prot0, saved, tainted, fault, foreign>>

\* Mutation: whatever is there is overwritten.
RestoreCheckBlind ==
  /\ at = "restore"
  /\ UNCHANGED <<kind, mem, prot, prot0, saved, tainted, fault, foreign>>
  /\ raced' = FALSE
  /\ CASE mem = "original" /\ ~tainted -> RestoreReturns("ok")
       [] OTHER -> Proceed("restoreStop")

\* Mutation: even a torn write of our own is left alone.
RestoreCheckTimid ==
  /\ at = "restore"
  /\ UNCHANGED <<kind, mem, prot, prot0, saved, tainted, fault, foreign>>
  /\ raced' = FALSE
  /\ CASE mem = "original" /\ ~tainted -> RestoreReturns("ok")
       [] mem = "foreign" -> RestoreReturns("err")
       [] OTHER -> Proceed("restoreStop")

\* The check at the head of restore: bytes nobody knows are left alone, unless
\* they are the remains of a write of our own.
RestoreCheck ==
  /\ at = "restore"
  /\ UNCHANGED <<kind, mem, prot, prot0, saved, tainted, fault, foreign>>
  /\ raced' = FALSE
  /\ CASE mem = "original" /\ ~tainted -> RestoreReturns("ok")
       [] mem = "foreign" /\ ~tainted -> RestoreReturns("err")
       [] OTHER -> Proceed("restoreStop")

\* ThreadGuard::suspend_others, after the check.
Stop ==
  /\ at \in {"applyStop", "restoreStop"}
  /\ Proceed(IF at = "applyStop" THEN "applyWrite" ELSE "restoreWrite")
  /\ UNCHANGED <<kind, mem, prot, prot0, saved, tainted, raced, fault, foreign>>

StopFails ==
  /\ at \in {"applyStop", "restoreStop"}
  /\ UNCHANGED <<kind, mem, prot, prot0, saved, tainted, raced, foreign>>
  /\ fault' = TRUE
  /\ IF at = "applyStop" THEN ApplyReturns("err") ELSE RestoreReturns("err")

\* The threads are stopped: write the replacement.  An error leaves the patch
\* tainted and force_original follows with the threads still stopped.
ApplyWrite ==
  /\ at = "applyWrite"
  /\ \E ok \in BOOLEAN :
       /\ WriteCode("replacement", ok)
       /\ tainted' = ~ok
       /\ fault' = (fault \/ ~ok)
       /\ IF ok THEN ApplyReturns("ok") ELSE Proceed("rollBack")
  /\ UNCHANGED <<kind, prot0, raced, foreign>>

\* force_original on behalf of apply: an error either way.
RollBack ==
  /\ at = "rollBack"
  /\ \E ok \in BOOLEAN :
       /\ WriteCode("original", ok)
       /\ tainted' = ~ok
  /\ ApplyReturns("err")
  /\ UNCHANGED <<kind, prot0, raced, fault, foreign>>

\* force_original on behalf of restore.
RestoreWrite ==
  /\ at = "restoreWrite"
  /\ UNCHANGED <<kind, prot0, raced, foreign>>
  /\ \E ok \in BOOLEAN :
       /\ WriteCode("original", ok)
       /\ tainted' = ~ok
       /\ fault' = (fault \/ ~ok)
       /\ RestoreReturns(IF ok THEN "ok" ELSE "err")

\* Other code of the process (an overlay's own hook) rewrites the bytes.
Stopped == at \in {"applyWrite", "rollBack", "restoreWrite"}

Foreign ==
  /\ ~Stopped /\ foreign < MaxForeign
  /\ \E bytes \in {"foreign", "original"} \ {mem} : mem' = bytes
  /\ raced' = TRUE
  /\ foreign' = foreign + 1
  /\ UNCHANGED <<kind, prot, prot0, saved, tainted, object, op, at, answer, fault>>

Step == Prepare \/ ApplyCheck \/ RestoreCheck \/ Stop \/ StopFails
        \/ ApplyWrite \/ RollBack \/ RestoreWrite

PatchNext == (\E c \in Calls : Call(c)) \/ Step \/ Foreign

PatchSpec == PatchInit /\ [][PatchNext]_patchVars

-----------------------------------------------------------------------------
(* Properties.                                                             *)

\* The variables stay in their ranges.
PatchTypeOK ==
  /\ kind \in {"code", "pointer"}
  /\ mem \in Bytes /\ prot \in Protections /\ prot0 \in Protections
  /\ saved \in Protections \cup {"none"}
  /\ tainted \in BOOLEAN /\ raced \in BOOLEAN /\ fault \in BOOLEAN
  /\ object \in {"none", "held", "forgotten", "dropped"}
  /\ op \in Calls \cup {"none"} /\ at \in Steps
  /\ answer.op \in Calls \cup {"none"}
  /\ answer.r \in {"none", "ok", "err", "clean", "dirty"}
  /\ foreign \in 0..MaxForeign

\* A patch that is not tainted has its page protected as it was found: a
\* failed write, and any number of writes after it, never makes the
\* temporary "rwx" permanent without saying so.
ProtectionReturned == ~tainted /\ ~Stopped => prot = prot0

\* What an answer tells the caller is true when it is given: Ok of install and
\* apply means the replacement is in place, Ok of restore that the original
\* is, a clean install error that nothing of ours is left (the caller frees
\* the trampoline on it), and an error that leaves the replacement in place
\* has tainted the patch or changed nothing.
AnswerTrue ==
  LET ours == answer'.op \in {"install", "apply"}
  IN  /\ answer'.r = "ok" => ~tainted' /\ prot' = prot0
      /\ answer'.r = "ok" /\ ours => mem' = "replacement"
      /\ answer'.r = "ok" /\ answer'.op \in {"prepare", "restore", "drop"} =>
           mem' = "original"
      /\ answer'.r = "clean" => mem' # "replacement" /\ ~tainted' /\ prot' = prot0
      /\ answer'.r = "err" /\ ours => tainted' \/ mem' # "replacement"

AnswersAreTrue == [][op # "none" /\ op' = "none" => AnswerTrue]_patchVars

\* Bytes somebody else put there are overwritten only to undo a failed write
\* of ours, or when they appeared after this call's own check ("refusing
\* blind restore"): the check precedes the stop of the other threads.
ForeignBytesRespected ==
  [][at' # at /\ mem = "foreign" /\ mem' # "foreign" => tainted \/ raced]_patchVars

\* A tainted patch is not lost: a restore during which no system call fails
\* and which finds no bytes of others puts the original back.
RestoreHeals ==
  [][answer'.r = "err" /\ op' = "none" /\ op \in {"restore", "drop"} =>
       fault' \/ (mem = "foreign" /\ ~tainted)]_patchVars
=============================================================================
