--------------------------- MODULE SourceJumpProofs ---------------------------
(***************************************************************************)
(* Proofs about SourceJump for any maps and any number of requests: one    *)
(* thread looks up at a time, no request is forgotten, and nothing of it   *)
(* works on after shutdown.                                                *)
(***************************************************************************)
EXTENDS SourceJump, TLAPS

\* Who holds the lock of WORKER, and what STOP says of shutdown.
LockOwned ==
  /\ lock = "show" <=> os = "windows" /\ caller \in {"schedule", "spawn"}
  /\ lock = "shutdown" <=> sd = "stopped"
  /\ stop <=> sd # "no"
  /\ sd # "no" => os = "windows"
  /\ lock = "show" => ~stop
  /\ caller # "idle" => requests > 0

\* `inflight` belongs to the one thread that looks, or to the caller that is
\* about to spawn it, never to both; and once taken it has an owner.
OneOwner ==
  /\ \A t \in Threads : Looking(t) => inflight /\ caller # "spawn"
  /\ caller = "spawn" => inflight
  /\ inflight => (\E t \in Threads : Looking(t)) \/ caller = "spawn" \/ stop

\* On Windows the thread that looks is the one whose handle is kept, or which
\* shutdown has taken to join.
HandleKept ==
  os = "windows" => \A t \in Threads : Looking(t) =>
    IF sd \in {"join", "done"} THEN joining = t ELSE handle = t

IInv ==
  TypeOK /\ LockOwned /\ OneOwner /\ OneWorker /\ HandleKept
  /\ StoppedForGood /\ PendingIsServed

\* Nothing has been asked for.
LEMMA InitInv == Init => IInv
<1> USE MapsAssumption, RequestsAssumption
<1> SUFFICES ASSUME Init PROVE IInv
  OBVIOUS
<1>1. \A t \in Threads : ~Looking(t)
  BY DEF Init, Looking
<1>2. TypeOK
  <2>1. requests \in 0..MaxRequests
    BY DEF Init
  <2>2. /\ th \in [Threads -> {"unborn", "top", "take", "fetch", "ending", "gone"}]
        /\ doing \in [Threads -> Maps \cup {NoMap}]
        /\ \A t \in Threads : th[t] # "fetch"
    BY DEF Init
  <2> QED
    BY <2>1, <2>2 DEF Init, TypeOK
<1> QED
  BY <1>1, <1>2 DEF Init, IInv, LockOwned, OneOwner, OneWorker, HandleKept,
     StoppedForGood, PendingIsServed

\* The types are kept by each step.
LEMMA TypeStep == TypeOK /\ LockOwned /\ [Next]_vars => TypeOK'
<1> SUFFICES ASSUME TypeOK, LockOwned, [Next]_vars PROVE TypeOK'
  OBVIOUS
<1> USE MapsAssumption, RequestsAssumption
    DEF TypeOK, Threads, NoThread, state, closing, calling
<1>1. ASSUME NEW m \in Maps, Show(m) PROVE TypeOK'
  BY <1>1 DEF Show
<1>2. CASE Enter
  BY <1>2 DEF Enter
<1>3. CASE Schedule
  <2>1. /\ pending' \in Maps \cup {NoMap} /\ inflight' \in BOOLEAN
        /\ lock' \in {"nobody", "show", "shutdown"}
        /\ caller' \in {"idle", "spawn"}
    BY <1>3 DEF Schedule, Done
  <2>2. UNCHANGED <<os, shown, sd, joining, stop, handle, asked, requests, th,
                    doing, refused, fetched>>
    BY <1>3 DEF Schedule
  <2> QED BY <2>1, <2>2
<1>4. CASE Spawn
  <2>1. requests \in Threads
    BY <1>4 DEF Spawn, LockOwned
  <2>2. /\ th' \in [Threads -> {"unborn", "top", "take", "fetch", "ending", "gone"}]
        /\ \A t \in Threads : th'[t] = "fetch" => doing'[t] \in Maps
    BY <1>4, <2>1 DEF Spawn
  <2>3. handle' \in Threads \cup {NoThread}
    BY <1>4, <2>1 DEF Spawn
  <2> QED BY <1>4, <2>2, <2>3 DEF Spawn, Done
<1>5. CASE SpawnFails
  BY <1>5 DEF SpawnFails, Done
<1>6. ASSUME NEW t \in Threads, Lookup(t) PROVE TypeOK'
  <2>1. CASE Top(t) BY <2>1 DEF Top, At
  <2>2. CASE Take(t)
    <3>1. th' \in [Threads -> {"unborn", "top", "take", "fetch", "ending", "gone"}]
      BY <2>2 DEF Take, At
    <3>2. CASE pending \notin {NoMap, shown}
      <4>1. /\ pending \in Maps /\ shown' = pending /\ inflight' = inflight
            /\ doing' = [doing EXCEPT ![t] = pending]
            /\ th' = [th EXCEPT ![t] = "fetch"]
        BY <2>2, <3>2 DEF Take, At
      <4>2. /\ doing' \in [Threads -> Maps \cup {NoMap}]
            /\ \A u \in Threads : th'[u] = "fetch" => doing'[u] \in Maps
        BY <4>1
      <4> QED BY <2>2, <3>1, <4>1, <4>2 DEF Take
    <3>3. CASE pending \in {NoMap, shown}
      <4>1. \A u \in Threads : th'[u] = "fetch" => th[u] = "fetch"
        BY <2>2, <3>3 DEF Take, At
      <4>2. inflight' \in BOOLEAN /\ UNCHANGED <<shown, doing>>
        BY <2>2, <3>3 DEF Take
      <4>3. pending' = NoMap /\ UNCHANGED <<os, sd, joining, stop, handle, lock,
              caller, asked, requests, refused, fetched>>
        BY <2>2 DEF Take
      <4> QED BY <3>1, <4>1, <4>2, <4>3
    <3> QED BY <3>2, <3>3
  <2>3. CASE Fetch(t) BY <2>3 DEF Fetch, At
  <2>4. CASE End(t) BY <2>4 DEF End, At
  <2> QED BY <1>6, <2>1, <2>2, <2>3, <2>4 DEF Lookup
<1>7. CASE Close
  BY <1>7 DEF Close, Shutdown, TakeHandle, Join
<1>8. CASE UNCHANGED vars
  BY <1>8 DEF vars
<1> QED
  BY <1>1, <1>2, <1>3, <1>4, <1>5, <1>6, <1>7, <1>8 DEF Next

\* The lock changes hands only over "nobody".
LEMMA LockStep == IInv /\ [Next]_vars => LockOwned'
<1> SUFFICES ASSUME IInv, [Next]_vars PROVE LockOwned'
  OBVIOUS
<1> USE DEF IInv, TypeOK, LockOwned, state, closing, calling, Threads
<1>1. ASSUME NEW m \in Maps, Show(m) PROVE LockOwned'
  BY <1>1 DEF Show
<1>2. CASE Enter \/ Schedule \/ Spawn \/ SpawnFails
  BY <1>2 DEF Enter, Schedule, Spawn, SpawnFails, Done
<1>3. ASSUME NEW t \in Threads, Lookup(t) PROVE LockOwned'
  BY <1>3 DEF Lookup, Top, Take, Fetch, End
<1>4. CASE Close
  BY <1>4 DEF Close, Shutdown, TakeHandle, Join
<1>5. CASE UNCHANGED vars
  BY <1>5 DEF vars
<1> QED BY <1>1, <1>2, <1>3, <1>4, <1>5 DEF Next

Work ==
  OneOwner /\ OneWorker /\ HandleKept /\ StoppedForGood /\ PendingIsServed

\* A step of one thread: it is the only one that looks, before and after.
LEMMA LookupWorks ==
  ASSUME IInv, NEW t \in Threads, Lookup(t), LockOwned' PROVE Work'
<1> USE DEF IInv, TypeOK, LockOwned, state, closing, calling
<1>1. CASE Top(t) \/ Fetch(t)
  <2>1. /\ UNCHANGED <<os, state, closing, handle, lock, calling, refused>>
        /\ Looking(t) /\ \A u \in Threads \ {t} : Looking(u)' <=> Looking(u)
        /\ Looking(t)' \/ stop
    BY <1>1 DEF Top, Fetch, At, Looking
  <2> QED
    BY <2>1 DEF Work, OneOwner, OneWorker, HandleKept, StoppedForGood,
       PendingIsServed
<1>2. CASE Take(t)
  <2>1. /\ UNCHANGED <<os, closing, handle, lock, calling, refused>>
        /\ pending' = NoMap /\ Looking(t)
        /\ \A u \in Threads \ {t} : Looking(u)' <=> Looking(u)
        /\ \/ Looking(t)' /\ inflight' = inflight
           \/ ~Looking(t)' /\ inflight' = FALSE
    BY <1>2 DEF Take, At, Looking
  <2> QED
    BY <2>1 DEF Work, OneOwner, OneWorker, HandleKept, StoppedForGood,
       PendingIsServed
<1>3. CASE End(t)
  <2>1. /\ UNCHANGED <<os, state, closing, handle, lock, calling, refused>>
        /\ \A u \in Threads : Looking(u)' <=> Looking(u)
    BY <1>3 DEF End, At, Looking
  <2> QED
    BY <2>1 DEF Work, OneOwner, OneWorker, HandleKept, StoppedForGood,
       PendingIsServed
<1> QED BY <1>1, <1>2, <1>3 DEF Lookup

\* The caller starts a thread only when none looks.
LEMMA CallerWorks ==
  ASSUME IInv, LockOwned',
         (\E m \in Maps : Show(m)) \/ Enter \/ Schedule \/ Spawn \/ SpawnFails
  PROVE  Work'
<1> USE DEF IInv, TypeOK, LockOwned, state, closing, calling
<1>1. ASSUME NEW m \in Maps, Show(m) PROVE Work'
  BY <1>1 DEF Show, Work, OneOwner, OneWorker, HandleKept, StoppedForGood,
     PendingIsServed, Looking
<1>2. CASE Enter
  <2>1. /\ UNCHANGED <<os, state, closing, th, refused>>
        /\ caller # "spawn" /\ caller' # "spawn"
        /\ \A u \in Threads : Looking(u)' <=> Looking(u)
        /\ \A u \in Threads : Looking(u) /\ handle = u => handle' = u
    BY <1>2 DEF Enter, Looking
  <2> QED
    BY <2>1 DEF Work, OneOwner, OneWorker, HandleKept, StoppedForGood,
       PendingIsServed
<1>3. CASE Schedule
  <2>1. /\ UNCHANGED <<os, closing, handle, th, refused>> /\ caller # "spawn"
        /\ \A u \in Threads : Looking(u)' <=> Looking(u)
    BY <1>3 DEF Schedule, Looking
  <2>2. \/ caller' # "spawn" /\ UNCHANGED <<inflight, pending>>
        \/ caller' # "spawn" /\ inflight /\ UNCHANGED inflight
        \/ caller' = "spawn" /\ ~inflight /\ inflight'
    BY <1>3 DEF Schedule, Done
  <2>3. caller' = "spawn" => sd # "done"
    BY <1>3 DEF Schedule, Done
  <2> QED
    BY <2>1, <2>2, <2>3 DEF Work, OneOwner, OneWorker, HandleKept,
       StoppedForGood, PendingIsServed
<1>4. CASE Spawn
  <2>1. requests \in Threads /\ \A u \in Threads : ~Looking(u)
    BY <1>4 DEF Spawn, OneOwner, Threads
  <2>2. /\ UNCHANGED <<os, state, closing>> /\ caller' # "spawn"
        /\ Looking(requests)'
        /\ \A u \in Threads \ {requests} : ~Looking(u)'
        /\ os = "windows" => handle' = requests /\ ~stop
    BY <1>4, <2>1 DEF Spawn, Done, Looking
  <2> QED
    BY <1>4, <2>1, <2>2 DEF Spawn, Work, OneOwner, OneWorker, HandleKept,
       StoppedForGood, PendingIsServed
<1>5. CASE SpawnFails
  <2>1. /\ UNCHANGED <<os, closing, handle, th>> /\ caller' # "spawn"
        /\ refused' /\ ~inflight'
        /\ \A u \in Threads : ~Looking(u)'
    BY <1>5 DEF SpawnFails, Done, OneOwner, Looking
  <2> QED
    BY <2>1 DEF Work, OneOwner, OneWorker, HandleKept, StoppedForGood,
       PendingIsServed
<1> QED BY <1>1, <1>2, <1>3, <1>4, <1>5

\* shutdown gives up `inflight` only when the thread that owned it is gone.
LEMMA CloseWorks == ASSUME IInv, LockOwned', Close PROVE Work'
<1> USE DEF IInv, TypeOK, LockOwned, state, closing, calling
<1>1. \A u \in Threads : Looking(u)' <=> Looking(u)
  BY DEF Close, Shutdown, TakeHandle, Join, Looking
<1>2. CASE Shutdown \/ TakeHandle
  BY <1>1, <1>2 DEF Shutdown, TakeHandle, Work, OneOwner, OneWorker,
     HandleKept, StoppedForGood, PendingIsServed
<1>3. CASE Join
  <2>1. \A u \in Threads : ~Looking(u)
    BY <1>3 DEF Join, HandleKept, Looking, Threads, NoThread
  <2>2. caller # "spawn"
    BY <1>3 DEF Join
  <2> QED
    BY <1>1, <1>3, <2>1, <2>2 DEF Join, Work, OneOwner, OneWorker,
       HandleKept, StoppedForGood, PendingIsServed
<1> QED BY <1>2, <1>3 DEF Close

LEMMA StutterWorks == ASSUME IInv, UNCHANGED vars PROVE Work'
  BY DEF vars, IInv, Work, OneOwner, OneWorker, HandleKept, StoppedForGood,
     PendingIsServed, Looking, state, closing, calling

LEMMA InductiveInv == Spec => []IInv
<1>1. IInv /\ [Next]_vars => IInv'
  <2> SUFFICES ASSUME IInv, [Next]_vars PROVE IInv'
    OBVIOUS
  <2>1. TypeOK' /\ LockOwned'
    BY TypeStep, LockStep DEF IInv
  <2>2. Work'
    BY <2>1, LookupWorks, CallerWorks, CloseWorks, StutterWorks DEF Next
  <2> QED BY <2>1, <2>2 DEF IInv, Work
<1> QED BY InitInv, <1>1, PTL DEF Spec

\* At most one thread looks records up ("at most one worker thread").
THEOREM SingleLookup == Spec => []OneWorker
<1>1. IInv => OneWorker BY DEF IInv
<1> QED BY InductiveInv, <1>1, PTL

\* A map waiting in `pending` is always about to be looked at.
THEOREM NoLostRequest == Spec => []PendingIsServed
<1>1. IInv => PendingIsServed BY DEF IInv
<1> QED BY InductiveInv, <1>1, PTL

\* Nothing of sourcejump works on in a DLL that is about to be unloaded.
THEOREM ShutdownIsFinal == Spec => []StoppedForGood
<1>1. IInv => StoppedForGood BY DEF IInv
<1> QED BY InductiveInv, <1>1, PTL

\* TypeOK: in particular a thread that fetches has a map, and the kept handle
\* is that of a thread that was spawned.
THEOREM SourceJumpTyped == Spec => []TypeOK
<1>1. IInv => TypeOK BY DEF IInv
<1> QED BY InductiveInv, <1>1, PTL
=============================================================================
