------------------------------ MODULE SourceJump ------------------------------
(***************************************************************************)
(* Record lookups (bhopfix-hook/src/sourcejump.rs): the hook on the        *)
(* server's info message asks for the records of the map being entered;    *)
(* one thread at a time fetches and prints them, maps asked for meanwhile  *)
(* are coalesced to the last one, and a map already shown is not fetched   *)
(* again.  On Windows the hook worker shuts it down before the DLL may be  *)
(* unloaded; on Unix it is never shut down.                                *)
(*                                                                         *)
(* Each section under the lock of STATE is one step.  The lock of WORKER   *)
(* is held over several and is a variable.  Locks are never poisoned.      *)
(***************************************************************************)
EXTENDS Naturals

CONSTANTS
  Maps,        \* names the validation of show_wr lets through
  NoMap,       \* the empty string, or None
  MaxRequests  \* bound: server info messages, and so threads

ASSUME MapsAssumption == NoMap \notin Maps
ASSUME RequestsAssumption == MaxRequests \in Nat

Threads == 1..MaxRequests   \* the thread spawned for the n-th request is n
NoThread == 0

VARIABLES
  os,        \* "windows" or "unix"
  shown, inflight, pending,   \* STATE
  stop,      \* STOP
  handle,    \* WORKER: the thread whose JoinHandle it keeps
  lock,      \* who holds the lock of WORKER: "nobody", "show" or "shutdown"
  caller,    \* where the game's thread is in show_wr
  asked,     \* show_wr's argument
  requests,  \* calls of show_wr
  th,        \* per thread: where it is
  doing,     \* per thread: the map it fetches
  sd,        \* where shutdown is
  joining,   \* the thread shutdown waits for
  refused,   \* history: a thread could not be spawned, and none since
  fetched    \* history: the map whose records were fetched last

state == <<shown, inflight, pending>>
calling == <<caller, asked, requests>>
closing == <<sd, joining, stop>>
vars == <<os, state, closing, handle, lock, calling, th, doing, refused, fetched>>

Init ==
  /\ os \in {"windows", "unix"}
  /\ shown = NoMap /\ inflight = FALSE /\ pending = NoMap
  /\ stop = FALSE /\ handle = NoThread /\ lock = "nobody"
  /\ caller = "idle" /\ asked = NoMap /\ requests = 0
  /\ th = [t \in Threads |-> "unborn"]
  /\ doing = [t \in Threads |-> NoMap]
  /\ sd = "no" /\ joining = NoThread
  /\ refused = FALSE /\ fetched = NoMap

-----------------------------------------------------------------------------
(* show_wr, called by the game's thread.                                   *)

Show(m) ==
  /\ caller = "idle" /\ requests < MaxRequests
  /\ caller' = "enter" /\ asked' = m /\ requests' = requests + 1
  /\ UNCHANGED <<os, state, closing, handle, lock, th, doing, refused, fetched>>

\* The lock, STOP, and the join of a thread that has ended; none of it on Unix.
Enter ==
  /\ caller = "enter" /\ lock = "nobody"
  /\ \/ /\ os = "unix"
        /\ caller' = "schedule"
        /\ UNCHANGED <<lock, handle>>
     \/ /\ os = "windows" /\ stop
        /\ caller' = "idle"
        /\ UNCHANGED <<lock, handle>>
     \/ /\ os = "windows" /\ ~stop
        /\ caller' = "schedule" /\ lock' = "show"
        /\ handle' = IF handle # NoThread /\ th[handle] = "gone"
                     THEN NoThread ELSE handle
  /\ UNCHANGED <<os, state, closing, asked, requests, th, doing, refused, fetched>>

\* show_wr returns and lets go of the lock.
Done == caller' = "idle" /\ lock' = "nobody"

\* Mutation: a second thread although one is there.
ScheduleAnother ==
  /\ caller = "schedule" /\ shown # asked
  /\ pending' = asked /\ inflight' = TRUE /\ caller' = "spawn"
  /\ UNCHANGED <<os, shown, closing, handle, lock, asked, requests, th, doing,
                 refused, fetched>>

\* schedule: refuse what is shown; leave the map for the thread that runs, or
\* start one.
Schedule ==
  /\ caller = "schedule"
  /\ \/ /\ shown = asked
        /\ Done
        /\ UNCHANGED <<pending, inflight>>
     \/ /\ shown # asked /\ inflight
        /\ pending' = asked
        /\ Done
        /\ UNCHANGED inflight
     \/ /\ shown # asked /\ ~inflight
        /\ pending' = asked /\ inflight' = TRUE
        /\ caller' = "spawn"
        /\ UNCHANGED lock
  /\ UNCHANGED <<os, shown, closing, handle, asked, requests, th, doing, refused,
                 fetched>>

\* On Windows the new handle replaces whatever is kept: a thread that has
\* released `inflight` and not ended yet is detached.
Spawn ==
  /\ caller = "spawn"
  /\ th' = [th EXCEPT ![requests] = "top"]
  /\ handle' = IF os = "windows" THEN requests ELSE handle
  /\ refused' = FALSE
  /\ Done
  /\ UNCHANGED <<os, state, closing, asked, requests, doing, fetched>>

\* The spawn fails and reset_inflight follows; `pending` stays.
SpawnFails ==
  /\ caller = "spawn"
  /\ inflight' = FALSE /\ refused' = TRUE
  /\ Done
  /\ UNCHANGED <<os, shown, pending, closing, handle, asked, requests, th,
                 doing, fetched>>

-----------------------------------------------------------------------------
(* worker_main.                                                            *)

At(t, from, to) == th[t] = from /\ th' = [th EXCEPT ![t] = to]

Top(t) ==
  /\ At(t, "top", IF stop THEN "ending" ELSE "take")
  /\ UNCHANGED <<os, state, closing, handle, lock, calling, doing, refused, fetched>>

\* Mutation: an empty `pending` is taken for a map.
TakeBlind(t) ==
  /\ IF pending # shown
     THEN /\ At(t, "take", "fetch")
          /\ shown' = pending /\ doing' = [doing EXCEPT ![t] = pending]
          /\ UNCHANGED inflight
     ELSE /\ At(t, "take", "ending")
          /\ inflight' = FALSE
          /\ UNCHANGED <<shown, doing>>
  /\ pending' = NoMap
  /\ UNCHANGED <<os, closing, handle, lock, calling, refused, fetched>>

\* Mutation: the thread returns and does not give up `inflight`.
TakeKeeping(t) ==
  /\ IF pending \notin {NoMap, shown}
     THEN /\ At(t, "take", "fetch")
          /\ shown' = pending /\ doing' = [doing EXCEPT ![t] = pending]
     ELSE At(t, "take", "ending") /\ UNCHANGED <<shown, doing>>
  /\ pending' = NoMap
  /\ UNCHANGED <<os, inflight, closing, handle, lock, calling, refused, fetched>>

\* Take the pending map and mark it as shown, or give up `inflight` in the
\* same section and return.
Take(t) ==
  /\ IF pending \notin {NoMap, shown}
     THEN /\ At(t, "take", "fetch")
          /\ shown' = pending /\ doing' = [doing EXCEPT ![t] = pending]
          /\ UNCHANGED inflight
     ELSE /\ At(t, "take", "ending")
          /\ inflight' = FALSE
          /\ UNCHANGED <<shown, doing>>
  /\ pending' = NoMap
  /\ UNCHANGED <<os, closing, handle, lock, calling, refused, fetched>>

\* fetch_and_print, which curl bounds to ten seconds.
Fetch(t) ==
  /\ At(t, "fetch", "top")
  /\ fetched' = doing[t]
  /\ UNCHANGED <<os, state, closing, handle, lock, calling, doing, refused>>

\* worker_main has returned; the thread ends.
End(t) ==
  /\ At(t, "ending", "gone")
  /\ UNCHANGED <<os, state, closing, handle, lock, calling, doing, refused, fetched>>

-----------------------------------------------------------------------------
(* shutdown, by the hook worker.                                           *)

Shutdown ==
  /\ os = "windows" /\ sd = "no" /\ lock = "nobody"
  /\ lock' = "shutdown" /\ stop' = TRUE /\ sd' = "stopped"
  /\ UNCHANGED <<os, state, handle, calling, th, doing, joining, refused, fetched>>

TakeHandle ==
  /\ sd = "stopped"
  /\ pending' = NoMap
  /\ joining' = handle /\ handle' = NoThread
  /\ lock' = "nobody" /\ sd' = "join"
  /\ UNCHANGED <<os, shown, inflight, stop, calling, th, doing, refused, fetched>>

\* Mutation: the thread is told to stop but not waited for.
JoinNobody ==
  /\ sd = "join"
  /\ inflight' = FALSE /\ pending' = NoMap /\ sd' = "done"
  /\ UNCHANGED <<os, shown, stop, handle, lock, calling, th, doing, joining,
                 refused, fetched>>

Join ==
  /\ sd = "join" /\ (joining # NoThread => th[joining] = "gone")
  /\ inflight' = FALSE /\ pending' = NoMap /\ sd' = "done"
  /\ UNCHANGED <<os, shown, stop, handle, lock, calling, th, doing, joining,
                 refused, fetched>>

Lookup(t) == Top(t) \/ Take(t) \/ Fetch(t) \/ End(t)
Close == Shutdown \/ TakeHandle \/ Join

Next ==
  \/ \E m \in Maps : Show(m)
  \/ Enter \/ Schedule \/ Spawn \/ SpawnFails
  \/ \E t \in Threads : Lookup(t)
  \/ Close

Spec == Init /\ [][Next]_vars

-----------------------------------------------------------------------------
(* Properties.                                                             *)

\* The variables stay in their ranges; a thread that fetches has a map.
TypeOK ==
  /\ os \in {"windows", "unix"}
  /\ shown \in Maps \cup {NoMap} /\ pending \in Maps \cup {NoMap}
  /\ inflight \in BOOLEAN /\ stop \in BOOLEAN /\ refused \in BOOLEAN
  /\ handle \in Threads \cup {NoThread} /\ joining \in Threads \cup {NoThread}
  /\ lock \in {"nobody", "show", "shutdown"}
  /\ caller \in {"idle", "enter", "schedule", "spawn"}
  /\ asked \in Maps \cup {NoMap} /\ fetched \in Maps \cup {NoMap}
  /\ requests \in 0..MaxRequests
  /\ th \in [Threads -> {"unborn", "top", "take", "fetch", "ending", "gone"}]
  /\ doing \in [Threads -> Maps \cup {NoMap}]
  /\ \A t \in Threads : th[t] = "fetch" => doing[t] \in Maps
  /\ sd \in {"no", "stopped", "join", "done"}

Looking(t) == th[t] \in {"top", "take", "fetch"}

\* "at most one worker thread": two never fetch side by side, across threads
\* that end just when a map is asked for and spawns that fail.
OneWorker == \A t, u \in Threads : Looking(t) /\ Looking(u) => t = u

\* No lost wakeup: a map left in `pending` has a thread that will look there
\* again, or is about to get one, unless its thread could not be spawned or
\* the lookups are being shut down.
PendingIsServed ==
  pending # NoMap =>
    (\E t \in Threads : Looking(t)) \/ caller = "spawn" \/ refused \/ stop

\* When shutdown has returned no thread fetches, prints or takes a lock any
\* more, and none starts: a thread it did not join has only to return.
StoppedForGood == sd = "done" => caller # "spawn" /\ \A t \in Threads : ~Looking(t)

\* "coalescing rapid map changes to the most recent map so the one you
\* actually land on wins" (sourcejump.rs): when all is quiet the records
\* fetched last are those of the map asked for last.
LandedOnWins ==
  caller = "idle" /\ pending = NoMap /\ ~inflight /\ ~stop =>
    fetched = asked \/ refused
=============================================================================
