----------------------------- MODULE ThreadStop -----------------------------
(***************************************************************************)
(* How the patchers stop the game before they write its code.  On Windows: *)
(*                                                                         *)
(*   - the hook worker, a thread of the game process, uses                 *)
(*     ThreadGuard::suspend_others (bhopfix-hook/src/windows/hook.rs);     *)
(*   - the controller, a process of its own, uses                          *)
(*     RemoteThreadGuard::suspend (bunnyhopfix/src/windows.rs).            *)
(*                                                                         *)
(* Both list the threads, suspend the ones they do not hold yet, list      *)
(* again and are done when a fresh listing names only threads they hold.   *)
(* Windows keeps a suspend count per thread, so both may hold the same     *)
(* thread; the controller may also suspend the worker in the middle of its *)
(* own acquisition.  The worker shares the process heap with the threads   *)
(* it suspends, and every listing and every error message allocates.       *)
(*                                                                         *)
(* PtraceGuard of the Linux controller (bunnyhopfix/src/linux.rs) is the   *)
(* same text as RemoteThreadGuard: Open is PTRACE_ATTACH, Suspend the stop *)
(* that waitpid confirms, Resume PTRACE_DETACH.  Its behaviours are those  *)
(* in which the worker, which Linux has not, never begins.                 *)
(*                                                                         *)
(* SuspendThread is taken to be effective when it returns.                 *)
(***************************************************************************)
EXTENDS Naturals

CONSTANTS
  Threads,      \* the game's own threads, born and unborn
  Worker,       \* the hook worker, also a thread of the game process
  Controller,   \* the controller process
  NoThread,     \* "nobody": the heap lock is free, no thread is being opened
  MaxPasses,    \* passes of one acquisition (16 in both programs)
  MaxStops      \* bound: acquisitions started by each of the two patchers

ASSUME ActorsAssumption ==
  /\ Worker \notin Threads
  /\ Controller \notin Threads \cup {Worker}
  /\ NoThread \notin Threads \cup {Worker, Controller}
ASSUME PassesAssumption == MaxPasses \in Nat \ {0}
ASSUME StopsAssumption == MaxStops \in Nat

Stoppers == {Worker, Controller}
Target == Threads \cup {Worker}

VARIABLES
  life,     \* each thread of the target: "unborn", "alive" or "exited"
  guard,    \* per patcher: the threads its guard has suspended
  todo,     \* per patcher: listed threads this pass has still to suspend
  cur,      \* per patcher: the thread opened and not yet suspended
  pc,       \* per patcher: where its acquisition is
  pass,     \* per patcher: the pass it is in
  cause,    \* per patcher: why its last attempt failed
  expired,  \* the worker's two-second retry window is over
  stops,    \* per patcher: acquisitions started (bounded by MaxStops)
  heap      \* the thread inside the process heap's lock

vars == <<life, guard, todo, cur, pc, pass, cause, expired, stops, heap>>

Phases == {"idle", "list", "take", "suspend", "verify", "stopped",
           "release", "unwind", "sleep"}
Causes == {"none", "exited", "retry", "fatal"}
Errors == {"invalid", "denied", "other"}

Init ==
  /\ life \in [Target -> {"unborn", "alive"}]
  /\ life[Worker] = "alive"
  /\ guard = [s \in Stoppers |-> {}]
  /\ todo = [s \in Stoppers |-> {}]
  /\ cur = [s \in Stoppers |-> NoThread]
  /\ pc = [s \in Stoppers |-> "idle"]
  /\ pass = [s \in Stoppers |-> 1]
  /\ cause = [s \in Stoppers |-> "none"]
  /\ expired = FALSE
  /\ stops = [s \in Stoppers |-> 0]
  /\ heap = NoThread

-----------------------------------------------------------------------------
(* What the operating system lets happen.                                  *)

Alive == {t \in Target : life[t] = "alive"}
Suspended(t) == \E s \in Stoppers : t \in guard[s]
Running(t) == t \in Alive /\ ~Suspended(t)

\* A snapshot of the process: thread_ids leaves the caller out, and the
\* controller is no thread of the target.
Listing(s) == Alive \ {s}

\* The controller runs unless it waits; the worker only while nobody has
\* suspended it.
CanStep(s) == s = Controller \/ Running(s)

\* The controller allocates from its own heap; the worker from the heap the
\* game's threads use.
CanAllocate(s) == s = Controller \/ heap = NoThread

-----------------------------------------------------------------------------
(* The game's threads.                                                     *)

patchers == <<guard, todo, cur, pc, pass, cause, expired, stops>>

\* Windows gives the id of an ended thread to a new one once no handle of it
\* is open: a listed id may name another thread when it is opened.
Spawn(t, u) ==
  /\ Running(t) /\ life[u] # "alive"
  /\ \A s \in Stoppers : cur[s] # u
  /\ life' = [life EXCEPT ![u] = "alive"]
  /\ UNCHANGED <<patchers, heap>>

Exit(t) ==
  /\ Running(t) /\ heap # t
  /\ life' = [life EXCEPT ![t] = "exited"]
  /\ UNCHANGED <<patchers, heap>>

LockHeap(t) ==
  /\ Running(t) /\ heap = NoThread
  /\ heap' = t
  /\ UNCHANGED <<patchers, life>>

UnlockHeap(t) ==
  /\ Running(t) /\ heap = t
  /\ heap' = NoThread
  /\ UNCHANGED <<patchers, life>>

-----------------------------------------------------------------------------
(* One acquisition.                                                        *)

Goto(s, phase) == pc' = [pc EXCEPT ![s] = phase]

Begin(s) ==
  /\ pc[s] = "idle" /\ CanStep(s) /\ stops[s] < MaxStops
  /\ Goto(s, "list")
  /\ pass' = [pass EXCEPT ![s] = 1]
  /\ cause' = [cause EXCEPT ![s] = "none"]
  /\ stops' = [stops EXCEPT ![s] = @ + 1]
  /\ expired' = (s # Worker /\ expired)
  /\ UNCHANGED <<life, guard, todo, cur, heap>>

\* thread_ids, and the threads of it the guard does not hold already.
ListThreads(s) ==
  /\ pc[s] = "list" /\ CanStep(s) /\ CanAllocate(s)
  /\ todo' = [todo EXCEPT ![s] = Listing(s) \ guard[s]]
  /\ Goto(s, "take")
  /\ UNCHANGED <<life, guard, cur, pass, cause, expired, stops, heap>>

\* classify_thread_failure for the worker; the controller skips a thread only
\* on ERROR_INVALID_PARAMETER and knows no transient failure.
Classify(s, error, terminated) ==
  CASE error = "invalid" \/ (s = Worker /\ terminated) -> "gone"
    [] error = "denied" /\ s = Worker /\ ~terminated -> "retry"
    [] OTHER -> "fatal"

\* OpenThread: an ended thread may be unknown already, a live one may be
\* refused.  There is no handle to ask about termination yet.
OpenError(t, error) ==
  \/ error = "invalid" /\ life[t] = "exited"
  \/ error \in {"denied", "other"} /\ life[t] = "alive"

Open(s) ==
  /\ pc[s] = "take" /\ CanStep(s)
  /\ \E t \in todo[s] :
       /\ cur' = [cur EXCEPT ![s] = t]
       /\ todo' = [todo EXCEPT ![s] = @ \ {t}]
  /\ Goto(s, "suspend")
  /\ UNCHANGED <<life, guard, pass, cause, expired, stops, heap>>

OpenGone(s) ==
  /\ pc[s] = "take" /\ CanStep(s)
  /\ \E t \in todo[s], error \in Errors :
       /\ OpenError(t, error) /\ Classify(s, error, FALSE) = "gone"
       /\ todo' = [todo EXCEPT ![s] = @ \ {t}]
  /\ UNCHANGED <<life, guard, cur, pc, pass, cause, expired, stops, heap>>

\* SuspendThread succeeds and the handle is pushed on the guard (whose growth
\* allocates too; a worker that would wait there waits at its next listing).
Suspend(s) ==
  /\ pc[s] = "suspend" /\ CanStep(s) /\ life[cur[s]] = "alive"
  /\ guard' = [guard EXCEPT ![s] = @ \cup {cur[s]}]
  /\ cur' = [cur EXCEPT ![s] = NoThread]
  /\ Goto(s, "take")
  /\ UNCHANGED <<life, todo, pass, cause, expired, stops, heap>>

\* SuspendThread on a thread that has ended answers ERROR_ACCESS_DENIED.
SuspendError(t, error) ==
  \/ error = "denied"
  \/ error = "other" /\ life[t] = "alive"

SuspendGone(s) ==
  /\ pc[s] = "suspend" /\ CanStep(s)
  /\ \E error \in Errors :
       /\ SuspendError(cur[s], error)
       /\ Classify(s, error, life[cur[s]] = "exited") = "gone"
  /\ cur' = [cur EXCEPT ![s] = NoThread]
  /\ Goto(s, "take")
  /\ UNCHANGED <<life, guard, todo, pass, cause, expired, stops, heap>>

\* Mutation: the first pass is believed, without a fresh listing.
EndPassUnverified(s) ==
  /\ pc[s] = "take" /\ CanStep(s) /\ todo[s] = {}
  /\ Goto(s, "stopped")
  /\ UNCHANGED <<life, guard, todo, cur, pass, cause, expired, stops, heap>>

EndPass(s) ==
  /\ pc[s] = "take" /\ CanStep(s) /\ todo[s] = {}
  /\ Goto(s, "verify")
  /\ UNCHANGED <<life, guard, todo, cur, pass, cause, expired, stops, heap>>

\* Mutation: one pass too many.
VerifyOnceMore(s) ==
  /\ pc[s] = "verify" /\ CanStep(s) /\ CanAllocate(s)
  /\ ~(Listing(s) \subseteq guard[s]) /\ pass[s] <= MaxPasses
  /\ pass' = [pass EXCEPT ![s] = @ + 1]
  /\ Goto(s, "list")
  /\ UNCHANGED <<life, guard, todo, cur, cause, expired, stops, heap>>

\* The fresh listing at the end of a pass: stop, or go round again.
Verify(s) ==
  /\ pc[s] = "verify" /\ CanStep(s) /\ CanAllocate(s)
  /\ \/ /\ Listing(s) \subseteq guard[s]
        /\ Goto(s, "stopped")
        /\ UNCHANGED pass
     \/ /\ ~(Listing(s) \subseteq guard[s])
        /\ pass[s] < MaxPasses
        /\ pass' = [pass EXCEPT ![s] = @ + 1]
        /\ Goto(s, "list")
  /\ UNCHANGED <<life, guard, todo, cur, cause, expired, stops, heap>>

\* An error that is not "gone" leaves the attempt; the kind decides whether
\* suspend_others retries, and "exited" remembers that the thread had ended.
OpenFailure(s, why) ==
  /\ pc[s] = "take"
  /\ \E t \in todo[s], error \in Errors :
       OpenError(t, error) /\ why = Classify(s, error, FALSE)

SuspendFailure(s, why) ==
  /\ pc[s] = "suspend"
  /\ \E error \in Errors :
       /\ SuspendError(cur[s], error)
       /\ Classify(s, error, life[cur[s]] = "exited") # "gone"
       /\ why = IF life[cur[s]] = "exited" THEN "exited"
                ELSE Classify(s, error, FALSE)

SnapshotFailure(s, why) == pc[s] \in {"list", "verify"} /\ why = "fatal"

ChurnFailure(s, why) ==
  /\ pc[s] = "verify" /\ pass[s] = MaxPasses
  /\ ~(Listing(s) \subseteq guard[s])
  /\ why = "retry"

\* Building the error message allocates, and only then is the guard dropped.
Fail(s) ==
  /\ CanStep(s) /\ CanAllocate(s)
  /\ \E why \in Causes \ {"none"} :
       /\ \/ OpenFailure(s, why) \/ SuspendFailure(s, why)
          \/ SnapshotFailure(s, why) \/ ChurnFailure(s, why)
       /\ cause' = [cause EXCEPT ![s] = why]
  /\ Goto(s, "unwind")
  /\ todo' = [todo EXCEPT ![s] = {}]
  /\ cur' = [cur EXCEPT ![s] = NoThread]
  /\ UNCHANGED <<life, guard, pass, expired, stops, heap>>

\* ThreadGuard::drop and RemoteThreadGuard::drop: one ResumeThread at a time.
Resume(s) ==
  /\ pc[s] \in {"unwind", "release"} /\ CanStep(s)
  /\ \E t \in guard[s] : guard' = [guard EXCEPT ![s] = @ \ {t}]
  /\ UNCHANGED <<life, todo, cur, pc, pass, cause, expired, stops, heap>>

\* The caller has written its bytes and drops the guard.
Release(s) ==
  /\ pc[s] = "stopped" /\ CanStep(s)
  /\ Goto(s, "release")
  /\ UNCHANGED <<life, guard, todo, cur, pass, cause, expired, stops, heap>>

Released(s) ==
  /\ pc[s] = "release" /\ CanStep(s) /\ guard[s] = {}
  /\ Goto(s, "idle")
  /\ UNCHANGED <<life, guard, todo, cur, pass, cause, expired, stops, heap>>

\* Mutation: the retries have no end.
RetriesForever(s) == s = Worker /\ cause[s] = "retry"

\* suspend_others retries a transient failure inside its window; every other
\* failure, and each failure of the controller, is returned to the caller.
Retries(s) == s = Worker /\ cause[s] = "retry" /\ ~expired

Unwound(s) ==
  /\ pc[s] = "unwind" /\ CanStep(s) /\ guard[s] = {}
  /\ Goto(s, IF Retries(s) THEN "sleep" ELSE "idle")
  /\ UNCHANGED <<life, guard, todo, cur, pass, cause, expired, stops, heap>>

Wake(s) ==
  /\ pc[s] = "sleep" /\ CanStep(s)
  /\ Goto(s, "list")
  /\ pass' = [pass EXCEPT ![s] = 1]
  /\ UNCHANGED <<life, guard, todo, cur, cause, expired, stops, heap>>

Expire ==
  /\ pc[Worker] # "idle" /\ ~expired
  /\ expired' = TRUE
  /\ UNCHANGED <<life, guard, todo, cur, pc, pass, cause, stops, heap>>

Acquire(s) ==
  \/ ListThreads(s) \/ Open(s) \/ OpenGone(s) \/ Suspend(s) \/ SuspendGone(s)
  \/ EndPass(s) \/ Verify(s) \/ Fail(s) \/ Resume(s) \/ Release(s)
  \/ Released(s) \/ Unwound(s) \/ Wake(s)

Next ==
  \/ \E t, u \in Threads : Spawn(t, u)
  \/ \E t \in Threads : Exit(t) \/ LockHeap(t) \/ UnlockHeap(t)
  \/ \E s \in Stoppers : Begin(s) \/ Acquire(s)
  \/ Expire

Spec == Init /\ [][Next]_vars

\* A patcher that has begun goes on; a running thread leaves the heap and the
\* heap's lock is granted to the worker in the end (SF: game threads may take
\* it again and again meanwhile); time passes.  Nothing obliges the game to
\* create or end a thread, or anybody to begin.
Fairness ==
  /\ SF_vars(Acquire(Worker))
  /\ WF_vars(Acquire(Controller))
  /\ \A t \in Threads : WF_vars(UnlockHeap(t))
  /\ WF_vars(Expire)

FairSpec == Spec /\ Fairness

-----------------------------------------------------------------------------
(* Properties.                                                             *)

\* The variables stay in their ranges.
TypeOK ==
  /\ life \in [Target -> {"unborn", "alive", "exited"}]
  /\ guard \in [Stoppers -> SUBSET Target]
  /\ todo \in [Stoppers -> SUBSET Target]
  /\ cur \in [Stoppers -> Target \cup {NoThread}]
  /\ pc \in [Stoppers -> Phases]
  /\ pass \in [Stoppers -> 1..MaxPasses]
  /\ cause \in [Stoppers -> Causes]
  /\ expired \in BOOLEAN
  /\ stops \in [Stoppers -> 0..MaxStops]
  /\ heap \in Threads \cup {NoThread}

\* While a patcher writes code no other thread of the game runs, however many
\* were created, ended or held by the other patcher on the way there
\* (try_suspend_others returns Ok only on a listing it holds completely).
StopIsTotal ==
  \A s \in Stoppers : pc[s] = "stopped" =>
    \A t \in Target \ {s} : ~Running(t)

\* A thread that ends between its listing and its suspension never fails an
\* acquisition of the controller.  The worker asks whether the thread has
\* ended (classify_thread_failure); the CHANGELOG promises it for "Windows
\* patch transactions" as a whole.
ControllerToleratesExit == cause[Controller] # "exited"

\* Every acquisition of the worker ends, stopped or refused, unless it has
\* suspended a thread inside the heap it allocates from.
EndsUnlessHeapHeld ==
  pc[Worker] = "list" ~>
    (pc[Worker] \in {"stopped", "idle"} \/ heap \in guard[Worker])
=============================================================================
