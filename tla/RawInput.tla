------------------------------ MODULE RawInput ------------------------------
(***************************************************************************)
(* Tick-aligned mouse input: the ring of mouse events and its draining     *)
(* (bhopfix-hook/src/windows/rawinput.rs and rawinput.rs).  GameThread     *)
(* says when the game calls the hooks.                                     *)
(*                                                                         *)
(* On Windows a push and a drain are taken step by step, as by two         *)
(* threads, which is what the atomics of that file are written for.  On    *)
(* Linux both run on the game's main thread and a push is one step.  The   *)
(* clock counts units of time; 0 stands for the zero bits of "never".      *)
(*                                                                         *)
(* On Windows the motion of an event goes two ways: into the ring, and,    *)
(* through the original window procedure, into the accumulators of the     *)
(* game.  One of the two is served and the other thrown away, by the mode  *)
(* at the time of each.  Linux replaces the accumulators altogether.       *)
(***************************************************************************)
EXTENDS Integers

CONSTANTS
  Cap,        \* slots of the ring
  Samples,    \* sample times the game passes to a tick
  MaxEvents,  \* bound: mouse events
  Forever     \* a time that does not come: the infinite threshold

ASSUME CapAssumption == Cap \in Nat \ {0} /\ MaxEvents \in Nat
ASSUME SamplesAssumption == Samples \subseteq Nat /\ Samples # {} /\ Forever \in Nat \ {0, 1}

VARIABLES
  os,         \* the platform
  now,        \* the clock
  mode,       \* m_rawinput
  slots,      \* RING: the event of each slot and its time stamp
  write,      \* WRITE_INDEX, W_IDX
  read,       \* READ_INDEX, R_IDX
  producer,   \* the window procedure in ring_push (Windows)
  serve,      \* the game's thread in ring_drain
  remaining,  \* SAMPLE_REMAINING
  lastServe,  \* LAST_SERVE, LAST_SERVE_WALL
  tick,       \* history: when the tick's sample began, the last serve before
              \* that, and how long the sample is
  passing,    \* the event the window procedure has yet to pass to the original
  stock,      \* the events in the game's own accumulators (Windows)
  events,     \* mouse events so far; an event is told by its number
  fate,       \* history: per event, what has become of it in the ring, each time
  given,      \* history: the events the game was given from its accumulators
  parted      \* history: the events with one way ended and one not at a change
              \* of the mode or the removal of the hooks

ring == <<slots, write, read>>
timing == <<remaining, lastServe, tick>>
game == <<passing, stock, given, parted>>
raw == <<now, mode, ring, producer, serve, timing, events, fate, game>>

Empty == [id |-> 0, stamp |-> 0]
NoPush == [at |-> "idle", event |-> Empty]
NoServe == [at |-> "idle", mode |-> 1, time |-> 0, threshold |-> 0, event |-> Empty]
NoTick == [at |-> 0, before |-> 0, length |-> 0]
Events == 1 .. MaxEvents
Stamped == [id : 0 .. MaxEvents, stamp : Nat]
Fates == {"served", "discarded", "dropped"}

RawTypeOK ==
  /\ os \in {"linux", "windows"}
  /\ now \in Nat \ {0} /\ now < Forever
  /\ mode \in {1, 2}
  /\ slots \in [0 .. Cap - 1 -> Stamped]
  /\ read \in Nat /\ write \in Nat /\ read <= write /\ write - read <= Cap
  /\ producer \in [at : {"idle", "fill", "publish"}, event : Stamped]
  /\ serve \in [at : {"idle", "take", "advance"}, mode : {1, 2}, time : Nat,
                threshold : Int, event : Stamped]
  /\ remaining \in Nat /\ lastServe \in 0 .. now
  /\ tick \in [at : 0 .. now, before : 0 .. now, length : Nat]
  /\ events \in 0 .. MaxEvents
  /\ fate \in [Events -> [Fates -> Nat]]
  /\ passing \in 0 .. MaxEvents
  /\ stock \subseteq Events /\ given \subseteq Events /\ parted \subseteq Events

RawInit ==
  /\ now = 1 /\ mode = 1
  /\ slots = [k \in 0 .. Cap - 1 |-> Empty]
  /\ write = 0 /\ read = 0
  /\ producer = NoPush /\ serve = NoServe
  /\ remaining = 0 /\ lastServe = 0 /\ tick = NoTick
  /\ events = 0 /\ fate = [e \in Events |-> [f \in Fates |-> 0]]
  /\ passing = 0 /\ stock = {} /\ given = {} /\ parted = {}

AtLeastZero(n) == IF n < 0 THEN 0 ELSE n
SlotAt(index) == slots[index % Cap]

\* The history: these events have met this fate, once more.
Met(set, f) == fate' = [e \in Events |-> IF e \in set THEN [fate[e] EXCEPT ![f] = @ + 1] ELSE fate[e]]

\* How often the event is in the ring or on its way into it.
InFlight(e) ==
  IF \/ \E k \in read .. write - 1 : SlotAt(k).id = e
     \/ producer.event.id = e
  THEN 1 ELSE 0

\* The event is in the game's accumulators, or will be.
StockDue(e) == e \in stock \/ passing = e \/ producer.event.id = e

\* One of the event's two ways has ended and the other has not (Windows).  While
\* the accumulators are served it can only be the ring's that has: the drain
\* that follows leaves nothing in the ring of what they held.
HalfWay(e) ==
  /\ os = "windows" /\ fate[e]["dropped"] = 0
  /\ \/ InFlight(e) = 0 /\ StockDue(e)
     \/ InFlight(e) = 1 /\ ~StockDue(e) /\ mode = 2

\* The history: which events a change parts.
Part == parted' = parted \cup {e \in 1 .. events : HalfWay(e)}

\* m_rawinput is set.
Switch(n) ==
  /\ mode' = n
  /\ IF n = mode THEN UNCHANGED parted ELSE Part
  /\ UNCHANGED <<passing, stock, given>>

-----------------------------------------------------------------------------
(* ring_push, and the original that follows it.                            *)

\* Windows: a full ring refuses the new event.
PushBegin ==
  /\ producer.at = "idle" /\ passing = 0 /\ events < MaxEvents
  /\ events' = events + 1
  /\ IF write - read >= Cap
       THEN /\ Met({events'}, "dropped")
            /\ passing' = events'
            /\ UNCHANGED producer
       ELSE /\ producer' = [at |-> "fill", event |-> [id |-> events', stamp |-> now]]
            /\ UNCHANGED <<fate, passing>>
  /\ UNCHANGED <<now, mode, ring, serve, timing, stock, given, parted>>

PushFill ==
  /\ producer.at = "fill"
  /\ slots' = [slots EXCEPT ![write % Cap] = producer.event]
  /\ producer' = [producer EXCEPT !.at = "publish"]
  /\ UNCHANGED <<now, mode, write, read, serve, timing, events, fate, game>>

PushPublish ==
  /\ producer.at = "publish"
  /\ write' = write + 1
  /\ producer' = NoPush
  /\ passing' = producer.event.id
  /\ UNCHANGED <<now, mode, slots, read, serve, timing, events, fate, stock, given, parted>>

\* The original window procedure adds the motion to the game's accumulators.
PassOn ==
  /\ passing # 0
  /\ stock' = stock \cup {passing}
  /\ passing' = 0
  /\ UNCHANGED <<now, mode, ring, producer, serve, timing, events, fate, given, parted>>

\* Linux: the new event takes the place of the oldest.
PushOver ==
  /\ events < MaxEvents
  /\ events' = events + 1
  /\ write' = write + 1
  /\ slots' = [slots EXCEPT ![write % Cap] = [id |-> events', stamp |-> now]]
  /\ IF write - read >= Cap
       THEN read' = write + 1 - Cap /\ Met({SlotAt(read).id}, "dropped")
       ELSE UNCHANGED <<read, fate>>
  /\ UNCHANGED <<now, mode, producer, serve, timing, game>>

-----------------------------------------------------------------------------
(* hooked_get_raw and ring_drain.                                          *)

\* What is left of the tick, by the time since the last serve or its start.
Left == IF lastServe = 0 THEN remaining ELSE AtLeastZero(remaining - (now - lastServe))

\* Mutation: without rawinput2 the drain stops at the tick as well.
LimitByTick == now - Left

\* How old an event must be: without rawinput2 the ring is emptied.
Limit == IF mode = 2 THEN now - Left ELSE Forever

\* The original reads and clears the game's accumulators; what it has read is
\* served, or with rawinput2 thrown away.
ServeBegin ==
  /\ serve.at = "idle"
  /\ stock' = {}
  /\ given' = IF mode = 2 THEN given ELSE given \cup stock
  /\ remaining' = Left
  /\ lastServe' = now
  /\ serve' = [at |-> "take", mode |-> mode, time |-> now, event |-> Empty,
               threshold |-> Limit]
  /\ UNCHANGED <<now, mode, ring, producer, tick, events, fate, passing, parted>>

\* The oldest event, unless the ring is empty or the event too young.
Take ==
  /\ serve.at = "take"
  /\ serve' = IF read # write /\ SlotAt(read).stamp <= serve.threshold
                THEN [serve EXCEPT !.at = "advance", !.event = SlotAt(read)]
                ELSE NoServe
  /\ UNCHANGED <<now, mode, ring, producer, timing, events, fate, game>>

\* Its motion is summed up.  Without rawinput2 Windows throws the sum away
\* and serves what ServeBegin took from the game; Linux serves it.
Outcome == IF serve.mode = 2 \/ os = "linux" THEN "served" ELSE "discarded"

Advance ==
  /\ serve.at = "advance"
  /\ read' = read + 1
  /\ Met({serve.event.id}, Outcome)
  /\ serve' = [serve EXCEPT !.at = "take", !.event = Empty]
  /\ UNCHANGED <<now, mode, slots, write, producer, timing, events, game>>

-----------------------------------------------------------------------------
(* hooked_set_sample and hooked_create_move.                               *)

\* Mutation: the countdown goes on from the serve before.
StampedByServe == lastServe

\* Where the countdown of the new tick starts: Windows takes the time of the
\* tick, Linux keeps that of the last serve.
CountsFrom == IF os = "windows" THEN now ELSE lastServe

SetSample(s) ==
  /\ remaining' = s
  /\ lastServe' = CountsFrom
  /\ tick' = [at |-> now, before |-> lastServe, length |-> s]

-----------------------------------------------------------------------------
(* clear_globals: what is left in the ring is dropped.                     *)

ClearGlobals ==
  /\ read' = write
  /\ Met({SlotAt(k).id : k \in read .. write - 1}, "discarded")
  /\ remaining' = 0 /\ lastServe' = 0 /\ tick' = NoTick
  /\ Part
  /\ UNCHANGED <<now, mode, slots, write, producer, serve, passing, stock, given, events>>

-----------------------------------------------------------------------------

\* In the ring every event is queued, or was served, discarded or dropped, and
\* only one of these, once.
Accounted ==
  \A e \in 1 .. events :
    fate[e]["served"] + fate[e]["discarded"] + fate[e]["dropped"] + InFlight(e) = 1

\* How often the game was given the motion of the event.
TimesGiven(e) == fate[e]["served"] + IF e \in given THEN 1 ELSE 0

\* Whichever way it took, the game gets the motion of an event once, or it is
\* still to come.  A full ring may lose it, and on Windows a change of the mode
\* may lose or double it when it finds the event half-way.
GivenOnce ==
  \A e \in 1 .. events \ parted :
    /\ TimesGiven(e) <= 1
    /\ TimesGiven(e) = 1 \/ InFlight(e) = 1 \/ StockDue(e) \/ fate[e]["dropped"] = 1

\* Where the rest of the tick is counted from: on Windows its start.  Linux
\* stamps no start and goes on from the serve before it.
CountedFrom == IF os = "windows" THEN tick.at ELSE tick.before

\* What rawinput2 serves is at least as old as the rest of the tick is long.
OldEnough ==
  serve.at = "advance" /\ serve.mode = 2 =>
    serve.event.stamp <= serve.time - AtLeastZero(CountedFrom + tick.length - serve.time)
=============================================================================
