-------------------------- MODULE GameThreadProofs --------------------------
(***************************************************************************)
(* For every size of the ring and of the queue, every number of events and *)
(* every time: a call through a hook finds the function of the game, but   *)
(* for ProcessServerInfo while it is being installed; the motion of the    *)
(* mouse reaches the game once, by the ring or by its own accumulators,    *)
(* but for a full ring and a change of the mode on Windows, and not before *)
(* its time; and the game records the demo that was announced.  The        *)
(* installation, the ring with its ages, the two ways of the motion and    *)
(* the demos have an inductive invariant each; the type invariant follows  *)
(* from all of them.                                                       *)
(***************************************************************************)
EXTENDS GameThread, TLAPS

\* The original of CreateMove is published before a slot leads to the hook,
\* and withdrawn only when none does.
MovePublished ==
  /\ stage \in {"move1", "move2", "withdraw"} => origMove
  /\ hooked \cap Moves # {} => origMove

\* The original of ProcessServerInfo is missing for one step only, and a
\* thread in the hook is there through the patch.
InfoStored ==
  /\ "info" \in hooked /\ stage # "orig" => origInfo
  /\ main = "info" => "info" \in hooked

\* The mouse is taken over after the events are.
PollFirst ==
  /\ stage = "getraw" => "poll" \in hooked
  /\ "getraw" \in hooked => "poll" \in hooked

\* Only Linux installs while the game runs; Windows removes at the end.
WindowsDone == os = "windows" => stage = "done"

OnlyInfoMissed == missed \subseteq {<<"info", "orig">>}

Inv ==
  /\ stage \in Stages
  /\ MovePublished /\ InfoStored /\ PollFirst /\ WindowsDone /\ OnlyInfoMissed

LEMMA InvInitially == Init => Inv
  BY DEF Init, Inv, Stages, Moves, Hooks, MovePublished, InfoStored, PollFirst, WindowsDone, OnlyInfoMissed

\* The installing thread: one step after the other.
LEMMA InstallKeeps == Inv /\ InstallStep => Inv'
<1> SUFFICES ASSUME Inv, InstallStep PROVE Inv'
  OBVIOUS
<1> USE DEF Inv, Stages, Moves, MovePublished, InfoStored, PollFirst, WindowsDone, OnlyInfoMissed,
            Installing, Hook
<1>1. CASE InstallPoll
  BY <1>1 DEF InstallPoll
<1>2. CASE InstallGetRaw
  BY <1>2 DEF InstallGetRaw
<1>3. CASE PublishMove
  BY <1>3 DEF PublishMove
<1>4. CASE InstallMove1
  BY <1>4 DEF InstallMove1
<1>5. CASE InstallMove2
  BY <1>5 DEF InstallMove2
<1>6. CASE Withdraw
  BY <1>6 DEF Withdraw, NoMoveHooked
<1>7. CASE PatchInfo
  BY <1>7 DEF PatchInfo
<1>8. CASE StoreOrig
  BY <1>8 DEF StoreOrig
<1>9. CASE EngineReady
  BY <1>9 DEF EngineReady
<1> QED BY <1>1, <1>2, <1>3, <1>4, <1>5, <1>6, <1>7, <1>8, <1>9 DEF InstallStep

\* A step that neither installs nor calls an original.
Apart == UNCHANGED <<os, install, missed>> /\ (main' = main \/ main' # "info")

LEMMA ApartKeeps == Inv /\ Apart => Inv'
  BY DEF Inv, Apart, install, MovePublished, InfoStored, PollFirst, WindowsDone, OnlyInfoMissed

\* The hooks that reach the game, and their removal.
LEMMA HooksKeep ==
  ASSUME Inv,
         \/ \E slot \in Moves, s \in Samples : TickBegins(slot, s)
         \/ \E m \in DemoMaps : ServerInfo(m)
         \/ InfoOriginal
         \/ Shutdown
  PROVE  Inv'
<1> USE DEF Inv, MovePublished, InfoStored, PollFirst, WindowsDone, OnlyInfoMissed, install, Miss, At
<1>1. ASSUME NEW slot \in Moves, NEW s \in Samples, TickBegins(slot, s) PROVE Inv'
  BY <1>1 DEF TickBegins
<1>2. ASSUME NEW m \in DemoMaps, ServerInfo(m) PROVE Inv'
  BY <1>2 DEF ServerInfo
<1>3. CASE InfoOriginal
  BY <1>3 DEF InfoOriginal
<1>4. CASE Shutdown
  BY <1>4 DEF Shutdown
<1> QED BY <1>1, <1>2, <1>3, <1>4

\* Everything else stays apart.
LEMMA OthersApart ==
  ASSUME Next,
         ~InstallStep,
         ~\E slot \in Moves, s \in Samples : TickBegins(slot, s),
         ~\E m \in DemoMaps : ServerInfo(m),
         ~InfoOriginal, ~Shutdown
  PROVE  Apart
<1> USE DEF Apart
<1>1. CASE PollEvent \/ WindowProc \/ GetRaw \/ Drain \/ FinishPush
  BY <1>1 DEF PollEvent, WindowProc, GetRaw, Drain, FinishPush
<1>2. CASE ForceMode \/ StartDemo
  BY <1>2 DEF ForceMode, StartDemo, At, AfterDemo
<1>3. CASE PumpCommands \/ RunCommand
  BY <1>3 DEF PumpCommands, RunCommand
<1>4. CASE EchoStep \/ Clock \/ \E n \in {1, 2} : SetMode(n)
  BY <1>4 DEF EchoStep, Clock, SetMode
<1> QED BY <1>1, <1>2, <1>3, <1>4 DEF Next

LEMMA InvPreserved == Inv /\ [Next]_vars => Inv'
<1>1. CASE UNCHANGED vars
  BY <1>1, ApartKeeps DEF vars, Apart
<1>2. CASE Next
  BY <1>2, InstallKeeps, HooksKeep, OthersApart, ApartKeeps
<1> QED BY <1>1, <1>2

\* OriginalReached: the order of installation in lib.rs and engine.rs lets no
\* call through a hook without an original, except in ProcessServerInfo.
THEOREM OriginalFound == Spec => []OriginalReached
<1>1. Inv => OriginalReached
  BY DEF Inv, OnlyInfoMissed, PollFirst, OriginalReached
<1> QED BY <1>1, InvInitially, InvPreserved, PTL DEF Spec

-----------------------------------------------------------------------------
(* Arithmetic of the ring's index.                                         *)

\* A number is its quotient and its remainder.
LEMMA DivMod ==
  ASSUME NEW s \in Nat \ {0}, NEW n \in Int
  PROVE  n \div s \in Int /\ n = s * (n \div s) + (n % s)
<1>1. n \div s \in Int
  OBVIOUS
<1>2. n = s * (n \div s) + (n % s)
  BY Z3
<1> QED BY <1>1, <1>2

\* Two numbers with the same remainder are at least the divisor apart.
LEMMA SameRemainder ==
  ASSUME NEW s \in Nat \ {0}, NEW m \in Int, NEW n \in Int, m % s = n % s, m > n
  PROVE  m >= n + s
<1> DEFINE a == m \div s
           b == n \div s
<1>1. a \in Int /\ b \in Int /\ m = s * a + (m % s) /\ n = s * b + (n % s)
  BY DivMod
<1>2. m % s \in Int /\ n % s \in Int
  OBVIOUS
<1> HIDE DEF a, b
<1>3. m - n = s * (a - b)
  BY <1>1, <1>2
<1>4. a - b >= 1
  <2> SUFFICES ASSUME a - b <= 0 PROVE FALSE
    BY <1>1
  <2>1. s * (a - b) <= 0
    BY <1>1
  <2> QED BY <1>3, <2>1
<1>5. s * (a - b) >= s
  BY <1>1, <1>4
<1> QED BY <1>3, <1>5

-----------------------------------------------------------------------------
(* The ring.                                                               *)

\* The type invariant in parts.
ClockTypes ==
  /\ os \in {"linux", "windows"} /\ now \in Nat \ {0} /\ now < Forever /\ mode \in {1, 2}
  /\ remaining \in Nat /\ lastServe \in 0 .. now
  /\ tick \in [at : 0 .. now, before : 0 .. now, length : Nat]
RingTypes ==
  /\ slots \in [0 .. Cap - 1 -> Stamped]
  /\ read \in Nat /\ write \in Nat /\ read <= write /\ write - read <= Cap
PushTypes == producer \in [at : {"idle", "fill", "publish"}, event : Stamped]
ServeTypes ==
  serve \in [at : {"idle", "take", "advance"}, mode : {1, 2}, time : Nat, threshold : Int, event : Stamped]
EventTypes == events \in 0 .. MaxEvents /\ fate \in [Events -> [Fates -> Nat]]
GameTypes ==
  /\ passing \in 0 .. MaxEvents
  /\ stock \subseteq Events /\ given \subseteq Events /\ parted \subseteq Events

LEMMA RawTypes ==
  RawTypeOK <=> ClockTypes /\ RingTypes /\ PushTypes /\ ServeTypes /\ EventTypes /\ GameTypes
  BY DEF RawTypeOK, ClockTypes, RingTypes, PushTypes, ServeTypes, EventTypes, GameTypes

Window == read .. write - 1

\* The events in the ring are different ones that have been seen.
Queued ==
  /\ \A k \in Window : SlotAt(k).id \in 1 .. events
  /\ \A j, k \in Window : SlotAt(j).id = SlotAt(k).id => j = k

\* The event being pushed is the last one seen, and has a free slot.
Pushing ==
  /\ producer.at = "idle" => producer = NoPush
  /\ producer.at # "idle" =>
       /\ os = "windows" /\ write - read < Cap
       /\ producer.event.id = events /\ events >= 1
       /\ \A k \in Window : SlotAt(k).id # events
  /\ producer.at = "publish" => slots[write % Cap] = producer.event

\* The event being served is still the oldest.
Serving ==
  serve.at = "advance" => read < write /\ serve.event = SlotAt(read)

\* Nothing has become of an event that has not been seen.
Unseen == \A e \in Events : e > events => \A f \in Fates : fate[e][f] = 0

RingInv ==
  /\ ClockTypes /\ RingTypes /\ PushTypes /\ ServeTypes /\ EventTypes
  /\ Queued /\ Pushing /\ Serving /\ Unseen /\ Accounted

\* The slot to be written is not one of the window, unless the ring is full
\* and it is the oldest.
LEMMA FreeSlot ==
  ASSUME RingTypes, NEW k \in Window, k % Cap = write % Cap
  PROVE  k = read /\ write = read + Cap
<1>1. Cap \in Nat \ {0} /\ k \in Int /\ write \in Int /\ read \in Int /\ write > k /\ k >= read
  BY CapAssumption DEF RingTypes, Window
<1>2. write >= k + Cap
  BY <1>1, SameRemainder
<1> QED BY <1>1, <1>2 DEF RingTypes

LEMMA SlotIndex == ASSUME NEW k \in Int PROVE k % Cap \in 0 .. Cap - 1
  BY CapAssumption

\* The three fates of an event, and their sum.
Total(e) == fate[e]["served"] + fate[e]["discarded"] + fate[e]["dropped"]

LEMMA MetCounts ==
  ASSUME fate \in [Events -> [Fates -> Nat]], NEW S, NEW f \in Fates, Met(S, f)
  PROVE  /\ fate' \in [Events -> [Fates -> Nat]]
         /\ \A e \in Events : e \notin S => fate'[e] = fate[e]
         /\ \A e \in Events : e \in S => Total(e)' = Total(e) + 1
         /\ \A e \in Events : Total(e) \in Nat
<1>1. \A e \in Events : fate'[e] = IF e \in S THEN [fate[e] EXCEPT ![f] = @ + 1] ELSE fate[e]
  BY DEF Met
<1>2. fate' \in [Events -> [Fates -> Nat]]
  BY DEF Met
<1>3. ASSUME NEW e \in Events PROVE Total(e) \in Nat /\ (e \in S => Total(e)' = Total(e) + 1)
  <2>1. fate[e] \in [Fates -> Nat]
    OBVIOUS
  <2>2. Total(e) \in Nat
    BY <2>1 DEF Total, Fates
  <2>3. CASE e \in S
    <3>1. fate'[e] = [fate[e] EXCEPT ![f] = @ + 1]
      BY <1>1, <2>3
    <3> QED BY <2>1, <2>2, <3>1 DEF Total, Fates
  <2> QED BY <2>2, <2>3
<1> QED BY <1>1, <1>2, <1>3

\* Accounted, with the sum named.
InRing(e) == \E k \in Window : SlotAt(k).id = e
Placed(e) == IF InRing(e) \/ producer.event.id = e THEN 1 ELSE 0
LEMMA AccountedAs ==
  /\ Accounted <=> \A e \in 1 .. events : Total(e) + Placed(e) = 1
  /\ Accounted' <=> \A e \in 1 .. events' : Total(e)' + Placed(e)' = 1
<1>1. Accounted <=> \A e \in 1 .. events : Total(e) + Placed(e) = 1
  BY DEF Accounted, InFlight, Total, Placed, InRing, Window
<1>2. Accounted' <=> \A e \in 1 .. events' : Total(e)' + Placed(e)' = 1
  BY DEF Accounted, InFlight, Total, Placed, InRing, Window
<1> QED BY <1>1, <1>2

LEMMA PushBeginStep == ASSUME RingInv, os = "windows", os' = os, PushBegin PROVE RingInv'
<1> USE DEF RingInv
<1>0. PICK n \in 1 .. MaxEvents : n = events + 1
  BY CapAssumption DEF PushBegin, EventTypes
<1>1. /\ producer.at = "idle" /\ events < MaxEvents /\ events' = n
      /\ UNCHANGED <<now, mode, slots, write, read, serve, remaining, lastServe, tick>>
  BY <1>0 DEF PushBegin, ring, timing
<1>2. /\ producer = NoPush /\ producer.event.id = 0
      /\ events \in Nat /\ n \in 1 .. MaxEvents /\ n \in Events /\ n > events /\ MaxEvents \in Nat
  BY <1>0, <1>1, CapAssumption DEF EventTypes, Pushing, NoPush, Empty, Events
<1>3. Window' = Window /\ \A k : SlotAt(k)' = SlotAt(k)
  BY <1>1 DEF Window, SlotAt
<1>4. ClockTypes' /\ RingTypes' /\ ServeTypes'
  BY <1>1 DEF ClockTypes, RingTypes, ServeTypes
<1>5. Queued'
  BY <1>1, <1>2, <1>3 DEF Queued
<1>6. Serving'
  BY <1>1, <1>3 DEF Serving
<1>7. \A k \in Window : SlotAt(k).id # n
  BY <1>0, <1>2 DEF Queued
<1>8. Total(n) = 0
  BY <1>2 DEF Unseen, Total, Fates
<1>9. \A e \in 1 .. n : e \in Events /\ (e # n => e \in 1 .. events)
  BY <1>0, <1>2 DEF Events
<1>10. \A e : InRing(e)' <=> InRing(e)
  BY <1>3 DEF InRing
<1>11. CASE write - read >= Cap
  <2>1. Met({n}, "dropped") /\ producer' = producer
    BY <1>1, <1>11 DEF PushBegin
  <2>2. /\ fate' \in [Events -> [Fates -> Nat]]
        /\ \A e \in Events : e # n => fate'[e] = fate[e]
        /\ Total(n)' = Total(n) + 1
    BY <1>2, <2>1, MetCounts DEF EventTypes, Fates
  <2>3. EventTypes' /\ PushTypes'
    BY <1>1, <1>2, <2>1, <2>2 DEF EventTypes, PushTypes
  <2>4. Pushing'
    BY <1>1, <2>1 DEF Pushing
  <2>5. Unseen'
    <3> SUFFICES ASSUME NEW e \in Events, e > n, NEW f \in Fates PROVE fate'[e][f] = 0
      BY <1>1 DEF Unseen
    <3>1. e > events /\ e # n
      BY <1>2 DEF Events
    <3> QED BY <2>2, <3>1 DEF Unseen
  <2>6. Accounted'
    <3> SUFFICES ASSUME NEW e \in 1 .. n PROVE Total(e)' + Placed(e)' = 1
      BY <1>1, AccountedAs
    <3>1. CASE e = n
      <4>1. ~InRing(e)
        BY <1>7, <3>1 DEF InRing
      <4>2. Placed(e)' = 0
        BY <1>2, <1>10, <2>1, <3>1, <4>1 DEF Placed
      <4> QED BY <1>8, <2>2, <3>1, <4>2
    <3>2. CASE e # n
      <4>1. Total(e)' = Total(e) /\ Placed(e)' = Placed(e)
        BY <1>9, <1>10, <2>1, <2>2, <3>2 DEF Total, Placed
      <4> QED BY <1>9, <3>2, <4>1, AccountedAs
    <3> QED BY <3>1, <3>2
  <2> QED BY <1>4, <1>5, <1>6, <2>3, <2>4, <2>5, <2>6
<1>12. CASE ~(write - read >= Cap)
  <2>1. producer' = [at |-> "fill", event |-> [id |-> n, stamp |-> now]] /\ fate' = fate
    BY <1>1, <1>12 DEF PushBegin
  <2>2. EventTypes' /\ PushTypes'
    BY <1>1, <1>2, <2>1 DEF EventTypes, PushTypes, ClockTypes, Stamped
  <2>3. Pushing'
    <3>1. write - read < Cap
      BY <1>12, CapAssumption DEF RingTypes
    <3> QED BY <1>1, <1>2, <1>3, <1>7, <2>1, <3>1 DEF Pushing
  <2>4. Unseen'
    BY <1>1, <1>2, <2>1 DEF Unseen, Events
  <2>5. Accounted'
    <3> SUFFICES ASSUME NEW e \in 1 .. n PROVE Total(e)' + Placed(e)' = 1
      BY <1>1, AccountedAs
    <3>1. Total(e)' = Total(e)
      BY <2>1 DEF Total
    <3>2. CASE e = n
      BY <1>8, <2>1, <3>1, <3>2 DEF Placed
    <3>3. CASE e # n
      <4>1. Placed(e)' = Placed(e)
        BY <1>2, <1>10, <2>1, <3>3 DEF Placed
      <4> QED BY <1>9, <3>1, <3>3, <4>1, AccountedAs
    <3> QED BY <3>2, <3>3
  <2> QED BY <1>4, <1>5, <1>6, <2>2, <2>3, <2>4, <2>5
<1> QED BY <1>11, <1>12

LEMMA PushFillStep == ASSUME RingInv, os' = os, PushFill PROVE RingInv'
<1> USE DEF RingInv
<1>1. /\ producer.at = "fill" /\ producer' = [producer EXCEPT !.at = "publish"]
      /\ slots' = [slots EXCEPT ![write % Cap] = producer.event]
      /\ UNCHANGED <<now, mode, write, read, serve, timing, events, fate>>
  BY DEF PushFill
<1>2. write - read < Cap
  BY <1>1 DEF Pushing
<1>3. write % Cap \in 0 .. Cap - 1 /\ write \in Int /\ read \in Int
  BY SlotIndex DEF RingTypes
<1>4. Window' = Window /\ producer'.event = producer.event /\ producer'.at = "publish"
  BY <1>1 DEF Window, PushTypes
<1>5. producer.event \in Stamped
  BY DEF PushTypes
<1>6. ASSUME NEW k \in Window PROVE SlotAt(k)' = SlotAt(k)
  <2>1. k % Cap # write % Cap
    BY <1>2, <1>3, FreeSlot, CapAssumption
  <2>2. k % Cap \in 0 .. Cap - 1
    BY <1>3, SlotIndex DEF Window
  <2> QED BY <1>1, <2>1, <2>2 DEF SlotAt, RingTypes
<1>7. ClockTypes' /\ ServeTypes' /\ EventTypes'
  BY <1>1 DEF ClockTypes, ServeTypes, EventTypes, timing
<1>8. RingTypes' /\ PushTypes'
  BY <1>1, <1>3, <1>5 DEF RingTypes, PushTypes
<1>9. Queued' /\ Unseen'
  BY <1>1, <1>4, <1>6 DEF Queued, Unseen
<1>10. Serving'
  <2>1. serve.at = "advance" => read \in Window
    BY <1>3 DEF Serving, Window
  <2> QED BY <1>1, <1>6, <2>1 DEF Serving
<1>11. Pushing'
  <2>1. slots'[write % Cap] = producer.event
    BY <1>1, <1>3 DEF RingTypes
  <2> QED BY <1>1, <1>4, <1>6, <2>1 DEF Pushing
<1>12. Accounted'
  <2>1. \A e : Placed(e)' = Placed(e) /\ Total(e)' = Total(e)
    BY <1>1, <1>4, <1>6 DEF Placed, InRing, Total
  <2> QED BY <1>1, <2>1, AccountedAs
<1> QED BY <1>7, <1>8, <1>9, <1>10, <1>11, <1>12

LEMMA PushPublishStep == ASSUME RingInv, os' = os, PushPublish PROVE RingInv'
<1> USE DEF RingInv
<1>1. /\ producer.at = "publish" /\ producer' = NoPush /\ write' = write + 1
      /\ UNCHANGED <<now, mode, slots, read, serve, timing, events, fate>>
  BY DEF PushPublish
<1>2. /\ write - read < Cap /\ SlotAt(write) = producer.event
      /\ producer.event.id = events /\ events >= 1
      /\ \A k \in Window : SlotAt(k).id # events
  BY <1>1 DEF Pushing, SlotAt
<1>3. write \in Nat /\ read \in Nat /\ read <= write /\ events \in Nat
  BY CapAssumption DEF RingTypes, EventTypes
<1>4. Window' = Window \cup {write} /\ write \notin Window
  BY <1>1, <1>3 DEF Window
<1>5. \A k : SlotAt(k)' = SlotAt(k)
  BY <1>1 DEF SlotAt
<1>6. ClockTypes' /\ ServeTypes' /\ EventTypes'
  BY <1>1 DEF ClockTypes, ServeTypes, EventTypes, timing
<1>7. RingTypes'
  BY <1>1, <1>2, <1>3, CapAssumption DEF RingTypes
<1>8. PushTypes'
  BY <1>1, CapAssumption DEF PushTypes, NoPush, Empty, Stamped
<1>9. Queued'
  BY <1>1, <1>2, <1>3, <1>4, <1>5 DEF Queued
<1>10. Pushing' /\ Unseen'
  BY <1>1 DEF Pushing, Unseen, NoPush
<1>11. Serving'
  BY <1>1, <1>3, <1>5 DEF Serving
<1>12. Accounted'
  <2> SUFFICES ASSUME NEW e \in 1 .. events PROVE Total(e)' + Placed(e)' = 1
    BY <1>1, AccountedAs
  <2>1. Total(e)' = Total(e) /\ producer'.event.id # e
    BY <1>1, <1>3 DEF Total, NoPush, Empty
  <2>2. InRing(e)' <=> InRing(e) \/ producer.event.id = e
    BY <1>2, <1>4, <1>5 DEF InRing
  <2>3. Placed(e)' = Placed(e)
    BY <2>1, <2>2 DEF Placed
  <2> QED BY <2>1, <2>3, AccountedAs
<1> QED BY <1>6, <1>7, <1>8, <1>9, <1>10, <1>11, <1>12

LEMMA PushOverStep ==
  ASSUME RingInv, os = "linux", os' = os, serve = NoServe, PushOver
  PROVE  RingInv'
<1> USE DEF RingInv
<1>0. PICK n \in 1 .. MaxEvents, w \in Nat : n = events + 1 /\ w = write
  BY CapAssumption DEF PushOver, EventTypes, RingTypes
<1> DEFINE new == [id |-> n, stamp |-> now]
<1>1. /\ events' = n /\ write' = w + 1
      /\ slots' = [slots EXCEPT ![w % Cap] = new]
      /\ UNCHANGED <<now, mode, producer, serve, remaining, lastServe, tick>>
  BY <1>0 DEF PushOver, timing
<1>2. /\ w = write /\ read \in Nat /\ read <= w /\ w - read <= Cap /\ Cap \in Nat \ {0}
      /\ w % Cap \in 0 .. Cap - 1
  <2>1. w \in Int /\ w % Cap \in 0 .. Cap - 1
    BY SlotIndex
  <2> QED BY <1>0, <2>1, CapAssumption DEF RingTypes
<1>3. events \in Nat /\ n \in Events /\ n > events /\ MaxEvents \in Nat /\ new \in Stamped
  BY <1>0, CapAssumption DEF EventTypes, Events, Stamped, ClockTypes
<1>4. producer = NoPush /\ producer.event.id = 0
  <2>1. producer.at = "idle"
    BY DEF Pushing, PushTypes
  <2> QED BY <2>1 DEF Pushing, NoPush, Empty
<1>5. /\ SlotAt(w)' = new
      /\ \A k \in Window : k % Cap # w % Cap => SlotAt(k)' = SlotAt(k)
  BY <1>1, <1>2, SlotIndex DEF RingTypes, Window, SlotAt
<1>6. ClockTypes' /\ ServeTypes' /\ PushTypes'
  BY <1>1 DEF ClockTypes, ServeTypes, PushTypes
<1>7. Pushing' /\ Serving'
  BY <1>1, <1>4 DEF Pushing, Serving, NoPush, NoServe
<1>8. \A k \in Window : SlotAt(k).id # n
  BY <1>0, <1>3 DEF Queued
<1>9. Total(n) = 0
  BY <1>3 DEF Unseen, Total, Fates
<1>10. \A e \in 1 .. n : e \in Events /\ (e # n => e \in 1 .. events)
  BY <1>0, <1>3 DEF Events
<1>11. /\ slots' \in [0 .. Cap - 1 -> Stamped]
       /\ events' \in 0 .. MaxEvents
  BY <1>1, <1>2, <1>3 DEF RingTypes
<1>12. CASE write - read >= Cap
  <2>1. PICK d \in 1 .. events, r \in Nat :
          /\ r = read /\ SlotAt(r).id = d /\ d \in Events /\ d # n
          /\ w = r + Cap /\ read' = r + 1 /\ Met({d}, "dropped")
    <3>1. write = read + Cap /\ read' = read + 1 /\ Met({SlotAt(read).id}, "dropped")
      BY <1>2, <1>12 DEF PushOver
    <3>2. read \in Window
      BY <1>2, <3>1 DEF Window
    <3>3. SlotAt(read).id \in 1 .. events
      BY <3>2 DEF Queued
    <3>4. SlotAt(read).id \in Events /\ SlotAt(read).id # n
      BY <1>0, <1>3, <3>3 DEF Events
    <3>5. read \in Nat /\ w = read + Cap
      BY <1>2, <3>1
    <3> QED BY <3>1, <3>3, <3>4, <3>5
  <2>2. Window' = (Window \ {r}) \cup {w} /\ r \in Window /\ w \notin Window
    BY <1>1, <1>2, <2>1 DEF Window
  <2>3. \A k \in Window \ {r} : SlotAt(k)' = SlotAt(k)
    BY <1>2, <1>5, <2>1, FreeSlot
  <2>4. \A k \in Window \ {r} : SlotAt(k).id # d
    BY <2>1, <2>2 DEF Queued
  <2>5. /\ fate' \in [Events -> [Fates -> Nat]]
        /\ \A e \in Events : e # d => fate'[e] = fate[e]
        /\ Total(d)' = Total(d) + 1
    BY <2>1, MetCounts DEF EventTypes, Fates
  <2>6. RingTypes' /\ EventTypes'
    <3>1. r + 1 <= w + 1 /\ (w + 1) - (r + 1) <= Cap /\ r + 1 \in Nat /\ w + 1 \in Nat
      BY <1>2, <2>1
    <3> QED BY <1>1, <1>11, <2>1, <2>5, <3>1 DEF RingTypes, EventTypes
  <2>7. Queued'
    <3>1. \A k \in Window' : SlotAt(k)'.id \in 1 .. n
      BY <1>3, <1>5, <1>10, <1>0, <2>2, <2>3 DEF Queued
    <3>2. ASSUME NEW j \in Window', NEW k \in Window', SlotAt(j)'.id = SlotAt(k)'.id PROVE j = k
      BY <1>5, <1>8, <2>2, <2>3, <3>2 DEF Queued
    <3> QED BY <1>1, <3>1, <3>2 DEF Queued
  <2>8. Unseen'
    <3> SUFFICES ASSUME NEW e \in Events, e > n, NEW f \in Fates PROVE fate'[e][f] = 0
      BY <1>1 DEF Unseen
    <3>1. e > events /\ e # d
      BY <1>3, <2>1 DEF Events
    <3> QED BY <2>5, <3>1 DEF Unseen
  <2>9. Accounted'
    <3> SUFFICES ASSUME NEW e \in 1 .. n PROVE Total(e)' + Placed(e)' = 1
      BY <1>1, AccountedAs
    <3>1. CASE e = n
      <4>1. Placed(e)' = 1
        BY <1>5, <2>2, <3>1 DEF Placed, InRing
      <4>2. Total(e)' = Total(e)
        BY <1>3, <2>1, <2>5, <3>1 DEF Total
      <4> QED BY <1>9, <3>1, <4>1, <4>2
    <3>2. CASE e = d
      <4>1. Placed(e) = 1
        BY <2>1, <2>2, <3>2 DEF Placed, InRing
      <4>2. ~InRing(e)'
        BY <1>5, <2>1, <2>2, <2>3, <2>4, <3>2 DEF InRing
      <4>3. Placed(e)' = 0
        BY <1>1, <1>4, <3>2, <4>2 DEF Placed
      <4> QED BY <2>1, <2>5, <3>2, <4>1, <4>3, <1>3, MetCounts, AccountedAs DEF EventTypes, Fates
    <3>3. CASE e # n /\ e # d
      <4>1. Total(e)' = Total(e)
        BY <1>10, <2>5, <3>3 DEF Total
      <4>2. InRing(e)' <=> InRing(e)
        BY <1>5, <2>1, <2>2, <2>3, <3>3 DEF InRing
      <4>3. Placed(e)' = Placed(e)
        BY <1>1, <4>2 DEF Placed
      <4> QED BY <1>10, <3>3, <4>1, <4>3, AccountedAs
    <3> QED BY <3>1, <3>2, <3>3
  <2> QED BY <1>6, <1>7, <2>6, <2>7, <2>8, <2>9
<1>13. CASE ~(write - read >= Cap)
  <2>1. read' = read /\ fate' = fate
    BY <1>13 DEF PushOver
  <2>2. Window' = Window \cup {w} /\ w \notin Window
    BY <1>1, <1>2, <2>1 DEF Window
  <2>3. \A k \in Window : SlotAt(k)' = SlotAt(k)
    BY <1>2, <1>5, <1>13, FreeSlot
  <2>4. RingTypes' /\ EventTypes'
    BY <1>1, <1>2, <1>11, <1>13, <2>1 DEF RingTypes, EventTypes
  <2>5. Queued'
    <3>1. \A k \in Window' : SlotAt(k)'.id \in 1 .. n
      BY <1>3, <1>5, <1>10, <1>0, <2>2, <2>3 DEF Queued
    <3>2. ASSUME NEW j \in Window', NEW k \in Window', SlotAt(j)'.id = SlotAt(k)'.id PROVE j = k
      BY <1>5, <1>8, <2>2, <2>3, <3>2 DEF Queued
    <3> QED BY <1>1, <3>1, <3>2 DEF Queued
  <2>6. Unseen'
    BY <1>1, <1>3, <2>1 DEF Unseen, Events
  <2>7. Accounted'
    <3> SUFFICES ASSUME NEW e \in 1 .. n PROVE Total(e)' + Placed(e)' = 1
      BY <1>1, AccountedAs
    <3>1. Total(e)' = Total(e)
      BY <2>1 DEF Total
    <3>2. CASE e = n
      <4>1. Placed(e)' = 1
        BY <1>5, <2>2, <3>2 DEF Placed, InRing
      <4> QED BY <1>9, <3>1, <3>2, <4>1
    <3>3. CASE e # n
      <4>1. InRing(e)' <=> InRing(e)
        BY <1>5, <2>2, <2>3, <3>3 DEF InRing
      <4>2. Placed(e)' = Placed(e)
        BY <1>1, <4>1 DEF Placed
      <4> QED BY <1>10, <3>1, <3>3, <4>2, AccountedAs
    <3> QED BY <3>2, <3>3
  <2> QED BY <1>6, <1>7, <2>4, <2>5, <2>6, <2>7
<1> QED BY <1>12, <1>13

LEMMA AdvanceStep == ASSUME RingInv, os' = os, Advance PROVE RingInv'
<1> USE DEF RingInv
<1>1. /\ serve.at = "advance" /\ serve' = [serve EXCEPT !.at = "take", !.event = Empty]
      /\ UNCHANGED <<now, mode, slots, write, producer, remaining, lastServe, tick, events>>
  BY DEF Advance, timing
<1>2. PICK d \in 1 .. events, r \in Nat :
        /\ r = read /\ r < write /\ SlotAt(r).id = d /\ d \in Events
        /\ read' = r + 1 /\ Met({d}, Outcome)
  <2>1. read \in Nat /\ read < write /\ write \in Nat /\ serve.event = SlotAt(read)
    BY <1>1 DEF Serving, RingTypes
  <2>2. read \in Window
    BY <2>1 DEF Window
  <2>3. SlotAt(read).id \in 1 .. events /\ SlotAt(read).id \in Events
    BY <2>2, CapAssumption DEF Queued, Events, EventTypes
  <2>4. read' = read + 1 /\ Met({SlotAt(read).id}, Outcome)
    BY <2>1 DEF Advance
  <2> QED BY <2>1, <2>3, <2>4
<1>3. Window' = Window \ {r} /\ r \in Window
  BY <1>1, <1>2 DEF Window, RingTypes
<1>4. \A k : SlotAt(k)' = SlotAt(k)
  BY <1>1 DEF SlotAt
<1>5. \A k \in Window \ {r} : SlotAt(k).id # d
  BY <1>2, <1>3 DEF Queued
<1>6. /\ fate' \in [Events -> [Fates -> Nat]]
      /\ \A e \in Events : e # d => fate'[e] = fate[e]
      /\ Total(d)' = Total(d) + 1 /\ Total(d) \in Nat
  <2>1. Outcome \in Fates
    BY DEF Outcome, Fates
  <2> QED BY <1>2, <2>1, MetCounts DEF EventTypes
<1>7. ClockTypes' /\ PushTypes' /\ EventTypes'
  BY <1>1, <1>6 DEF ClockTypes, PushTypes, EventTypes
<1>8. ServeTypes'
  <2>1. Empty \in Stamped
    BY CapAssumption DEF Empty, Stamped
  <2> QED BY <1>1, <2>1 DEF ServeTypes
<1>9. RingTypes'
  BY <1>1, <1>2, CapAssumption DEF RingTypes
<1>10. Queued' /\ Serving'
  BY <1>1, <1>3, <1>4 DEF Queued, Serving, ServeTypes
<1>11. Pushing'
  <2>1. write - read < Cap => write' - read' < Cap
    BY <1>1, <1>2, CapAssumption DEF RingTypes
  <2> QED BY <1>1, <1>3, <1>4, <2>1 DEF Pushing
<1>12. Unseen'
  <2> SUFFICES ASSUME NEW e \in Events, e > events, NEW f \in Fates PROVE fate'[e][f] = 0
    BY <1>1 DEF Unseen
  <2>1. e # d
    BY <1>2 DEF EventTypes
  <2> QED BY <1>6, <2>1 DEF Unseen
<1>13. Accounted'
  <2> SUFFICES ASSUME NEW e \in 1 .. events PROVE Total(e)' + Placed(e)' = 1
    BY <1>1, AccountedAs
  <2>1. e \in Events
    BY CapAssumption DEF Events, EventTypes
  <2>2. CASE e = d
    <3>1. Placed(e) = 1
      BY <1>2, <1>3, <2>2 DEF Placed, InRing
    <3>2. ~InRing(e)'
      BY <1>3, <1>4, <1>5, <2>2 DEF InRing
    <3>3. producer.event.id # e
      <4>1. CASE producer.at = "idle"
        BY <1>2, <2>2, <4>1 DEF Pushing, NoPush, Empty
      <4>2. CASE producer.at # "idle"
        BY <1>2, <1>3, <2>2, <4>2 DEF Pushing
      <4> QED BY <4>1, <4>2
    <3>4. Placed(e)' = 0
      BY <1>1, <3>2, <3>3 DEF Placed
    <3>5. Total(e) + 1 = 1
      BY <3>1, AccountedAs
    <3> QED BY <1>6, <2>2, <3>4, <3>5
  <2>3. CASE e # d
    <3>1. InRing(e)' <=> InRing(e)
      BY <1>2, <1>3, <1>4, <2>3 DEF InRing
    <3>2. Placed(e)' = Placed(e) /\ Total(e)' = Total(e)
      BY <1>1, <1>6, <2>1, <2>3, <3>1 DEF Placed, Total
    <3> QED BY <3>2, AccountedAs
  <2> QED BY <2>2, <2>3
<1> QED BY <1>7, <1>8, <1>9, <1>10, <1>11, <1>12, <1>13

\* A step that leaves the ring, the events and their fates alone: what it
\* does to the clock and to the serve decides.
LEMMA RingApart ==
  ASSUME RingInv, os' = os, UNCHANGED <<slots, write, read, producer, events, fate>>,
         ClockTypes', ServeTypes', serve'.at = "advance" => serve'.event = SlotAt(read) /\ read < write
  PROVE  RingInv'
<1> USE DEF RingInv
<1>1. Window' = Window /\ (\A k : SlotAt(k)' = SlotAt(k)) /\ \A e : Total(e)' = Total(e)
  BY DEF Window, SlotAt, Total
<1>2. RingTypes' /\ PushTypes' /\ EventTypes'
  BY DEF RingTypes, PushTypes, EventTypes
<1>3. Queued' /\ Unseen'
  BY <1>1 DEF Queued, Unseen
<1>4. Pushing'
  BY <1>1 DEF Pushing
<1>5. Serving'
  BY <1>1 DEF Serving, SlotAt
<1>6. Accounted'
  <2>1. \A e : Placed(e)' = Placed(e)
    BY <1>1 DEF Placed, InRing
  <2> QED BY <1>1, <2>1, AccountedAs
<1> QED BY <1>2, <1>3, <1>4, <1>5, <1>6

LEMMA ServeBeginStep == ASSUME RingInv, os' = os, ServeBegin PROVE RingInv'
<1> USE DEF RingInv
<1>1. Left \in Nat
  BY DEF Left, AtLeastZero, ClockTypes
<1>2. ClockTypes'
  BY <1>1 DEF ServeBegin, ClockTypes
<1>3. ServeTypes'
  <2>1. Empty \in Stamped /\ Forever \in Nat /\ now - Left \in Int
    BY <1>1, CapAssumption, SamplesAssumption DEF Empty, Stamped, ClockTypes
  <2>2. now \in Nat /\ mode \in {1, 2}
    BY DEF ClockTypes
  <2> QED BY <2>1, <2>2 DEF ServeBegin, Limit, ServeTypes
<1>4. serve'.at # "advance"
  BY DEF ServeBegin
<1> QED BY <1>2, <1>3, <1>4, RingApart DEF ServeBegin, ring

LEMMA TakeStep == ASSUME RingInv, os' = os, Take PROVE RingInv'
<1> USE DEF RingInv
<1>1. ClockTypes'
  BY DEF Take, ClockTypes, timing
<1>2. CASE read # write /\ SlotAt(read).stamp <= serve.threshold
  <2>1. serve' = [serve EXCEPT !.at = "advance", !.event = SlotAt(read)]
    BY <1>2 DEF Take
  <2>2. read < write /\ SlotAt(read) \in Stamped
    BY <1>2, SlotIndex DEF RingTypes, SlotAt
  <2>3. ServeTypes' /\ serve'.event = SlotAt(read)
    BY <2>1, <2>2 DEF ServeTypes
  <2> QED BY <1>1, <2>2, <2>3, RingApart DEF Take, ring
<1>3. CASE ~(read # write /\ SlotAt(read).stamp <= serve.threshold)
  <2>1. serve' = NoServe
    BY <1>3 DEF Take
  <2>2. ServeTypes' /\ serve'.at # "advance"
    BY <2>1, CapAssumption DEF ServeTypes, NoServe, Empty, Stamped
  <2> QED BY <1>1, <2>2, RingApart DEF Take, ring
<1> QED BY <1>2, <1>3

LEMMA SetSampleStep ==
  ASSUME RingInv, os' = os, NEW s \in Samples, SetSample(s),
         UNCHANGED <<now, mode, ring, producer, serve, events, fate>>
  PROVE  RingInv'
<1>1. ClockTypes'
  BY SamplesAssumption DEF RingInv, ClockTypes, SetSample, CountsFrom
<1> QED BY <1>1, RingApart DEF RingInv, ServeTypes, Serving, ring

LEMMA ModeStep ==
  ASSUME RingInv, os' = os, mode' \in {1, 2},
         UNCHANGED <<now, ring, producer, serve, timing, events, fate>>
  PROVE  RingInv'
<1>1. ClockTypes'
  BY DEF RingInv, ClockTypes, timing
<1> QED BY <1>1, RingApart DEF RingInv, ServeTypes, Serving, ring

LEMMA ClockStep ==
  ASSUME RingInv, os' = os, now < Forever - 1, now' = now + 1,
         UNCHANGED <<mode, ring, producer, serve, timing, events, fate>>
  PROVE  RingInv'
<1>1. ClockTypes'
  BY SamplesAssumption DEF RingInv, ClockTypes, timing
<1> QED BY <1>1, RingApart DEF RingInv, ServeTypes, Serving, ring

\* The removal: what was in the ring is discarded.
LEMMA ShutdownStep == ASSUME RingInv, Shutdown PROVE RingInv'
<1> USE DEF RingInv
<1> DEFINE S == {SlotAt(k).id : k \in Window}
<1>1. /\ producer = NoPush /\ serve = NoServe /\ read' = write
      /\ Met(S, "discarded") /\ remaining' = 0 /\ lastServe' = 0 /\ tick' = NoTick
      /\ UNCHANGED <<os, now, mode, slots, write, producer, serve, events>>
  BY DEF Shutdown, At, ClearGlobals, Window
<1>2. S \subseteq 1 .. events /\ \A e : e \in S <=> InRing(e)
  BY DEF Queued, InRing
<1> HIDE DEF S
<1>3. /\ fate' \in [Events -> [Fates -> Nat]]
      /\ \A e \in Events : e \notin S => fate'[e] = fate[e]
      /\ \A e \in Events : e \in S => Total(e)' = Total(e) + 1
      /\ \A e \in Events : Total(e) \in Nat
  BY <1>1, MetCounts DEF EventTypes, Fates
<1>4. Window' = {}
  BY <1>1 DEF Window, RingTypes
<1>5. ClockTypes'
  BY <1>1 DEF ClockTypes, NoTick
<1>6. RingTypes' /\ PushTypes' /\ ServeTypes' /\ EventTypes'
  BY <1>1, <1>3, CapAssumption DEF RingTypes, PushTypes, ServeTypes, EventTypes
<1>7. Queued' /\ Pushing' /\ Serving'
  BY <1>1, <1>4 DEF Queued, Pushing, Serving, NoPush, NoServe
<1>8. Unseen'
  <2> SUFFICES ASSUME NEW e \in Events, e > events, NEW f \in Fates PROVE fate'[e][f] = 0
    BY <1>1 DEF Unseen
  <2>1. \A d \in S : d <= events
    BY <1>2
  <2>2. e \notin S
    BY <2>1, CapAssumption DEF Events, EventTypes
  <2> QED BY <1>3, <2>2 DEF Unseen
<1>9. Accounted'
  <2> SUFFICES ASSUME NEW e \in 1 .. events PROVE Total(e)' + Placed(e)' = 1
    BY <1>1, AccountedAs
  <2>1. e \in Events /\ Total(e) + Placed(e) = 1
    BY CapAssumption, AccountedAs DEF Events, EventTypes
  <2>2. producer.event.id = 0 /\ producer'.event.id = 0
    BY <1>1 DEF NoPush, Empty
  <2>3. Placed(e)' = 0
    BY <1>4, <2>2 DEF Placed, InRing
  <2>4. Placed(e) = IF e \in S THEN 1 ELSE 0
    BY <1>2, <2>2 DEF Placed
  <2>5. e \notin S => Total(e)' = Total(e)
    BY <1>3, <2>1 DEF Total
  <2> QED BY <1>3, <2>1, <2>3, <2>4, <2>5
<1> QED BY <1>5, <1>6, <1>7, <1>8, <1>9

-----------------------------------------------------------------------------
(* The age of what is served.                                              *)

\* What is left of the tick covers it to its end.
Countdown == remaining + lastServe >= CountedFrom + tick.length

\* A serve takes nothing younger than its threshold, and rawinput2's
\* threshold is before the rest of the tick.
Threshold ==
  /\ serve.at = "advance" => serve.event.stamp <= serve.threshold
  /\ serve.at # "idle" /\ serve.mode = 2 =>
       serve.threshold <= serve.time - AtLeastZero(CountedFrom + tick.length - serve.time)

AgeInv == ClockTypes /\ ServeTypes /\ Countdown /\ Threshold

LEMMA ServeBeginAges == ASSUME AgeInv, RingInv', os' = os, ServeBegin PROVE AgeInv'
<1> USE DEF AgeInv
<1>1. Left \in Nat /\ Left + now >= CountedFrom + tick.length
  BY DEF Left, AtLeastZero, ClockTypes, Countdown, CountedFrom
<1>2. ClockTypes' /\ ServeTypes'
  BY DEF RingInv
<1>3. Countdown'
  BY <1>1 DEF ServeBegin, Countdown, CountedFrom
<1>4. Threshold'
  <2>1. serve'.at = "take" /\ serve'.time = now /\ serve'.mode = mode /\ tick' = tick
    BY DEF ServeBegin
  <2>2. ASSUME mode = 2 PROVE serve'.threshold = now - Left
    BY <2>2 DEF ServeBegin, Limit
  <2>3. now - Left <= now - AtLeastZero(CountedFrom + tick.length - now)
    BY <1>1 DEF ClockTypes, AtLeastZero, CountedFrom
  <2> QED BY <2>1, <2>2, <2>3 DEF Threshold, AtLeastZero, CountedFrom
<1> QED BY <1>2, <1>3, <1>4

LEMMA TakeAges == ASSUME AgeInv, RingInv', os' = os, Take PROVE AgeInv'
<1> USE DEF AgeInv
<1>1. ClockTypes' /\ ServeTypes'
  BY DEF RingInv
<1>2. Countdown'
  BY DEF Take, timing, Countdown, CountedFrom
<1>3. Threshold'
  <2>1. CASE read # write /\ SlotAt(read).stamp <= serve.threshold
    <3>1. serve' = [serve EXCEPT !.at = "advance", !.event = SlotAt(read)] /\ serve.at = "take" /\ tick' = tick
      BY <2>1 DEF Take, timing
    <3>2. /\ serve'.at = "advance" /\ serve'.event = SlotAt(read) /\ serve'.threshold = serve.threshold
          /\ serve'.mode = serve.mode /\ serve'.time = serve.time
      BY <3>1 DEF ServeTypes
    <3> QED BY <2>1, <3>1, <3>2 DEF Threshold, AtLeastZero, CountedFrom
  <2>2. CASE ~(read # write /\ SlotAt(read).stamp <= serve.threshold)
    BY <2>2 DEF Take, Threshold, NoServe
  <2> QED BY <2>1, <2>2
<1> QED BY <1>1, <1>2, <1>3

LEMMA AdvanceAges == ASSUME AgeInv, RingInv', os' = os, Advance PROVE AgeInv'
<1> USE DEF AgeInv
<1>1. ClockTypes' /\ ServeTypes'
  BY DEF RingInv
<1>2. Countdown'
  BY DEF Advance, timing, Countdown, CountedFrom
<1>3. serve' = [serve EXCEPT !.at = "take", !.event = Empty] /\ serve.at = "advance" /\ tick' = tick
  BY DEF Advance, timing
<1>4. /\ serve'.at = "take" /\ serve'.threshold = serve.threshold
      /\ serve'.mode = serve.mode /\ serve'.time = serve.time
  BY <1>3 DEF ServeTypes
<1>5. Threshold'
  BY <1>3, <1>4 DEF Threshold, AtLeastZero, CountedFrom
<1> QED BY <1>1, <1>2, <1>5

LEMMA SetSampleAges ==
  ASSUME AgeInv, RingInv', os' = os, NEW s \in Samples, SetSample(s), serve = NoServe, serve' = serve
  PROVE  AgeInv'
<1>1. Countdown'
  BY SamplesAssumption DEF SetSample, CountsFrom, Countdown, CountedFrom, AgeInv, ClockTypes
<1>2. Threshold'
  BY DEF Threshold, NoServe
<1> QED BY <1>1, <1>2 DEF AgeInv, RingInv

LEMMA AgeApart ==
  ASSUME AgeInv, RingInv', os' = os, UNCHANGED <<serve, remaining, lastServe, tick>>
  PROVE  AgeInv'
  BY DEF AgeInv, RingInv, Countdown, Threshold, AtLeastZero, CountedFrom

LEMMA ShutdownAges == ASSUME RingInv', Shutdown PROVE AgeInv'
<1>1. remaining' = 0 /\ lastServe' = 0 /\ tick' = NoTick /\ serve' = NoServe
  BY DEF Shutdown, At, ClearGlobals
<1>2. Countdown' /\ Threshold'
  BY <1>1 DEF Countdown, CountedFrom, Threshold, NoTick, NoServe
<1> QED BY <1>2 DEF AgeInv, RingInv

-----------------------------------------------------------------------------
(* Every step of the game's thread and of the others.                      *)

MotionInv == RingInv /\ AgeInv

LEMMA MotionInitially == Init => MotionInv
<1> SUFFICES ASSUME Init PROVE MotionInv
  OBVIOUS
<1> USE DEF Init, RawInit
<1>1. Empty \in Stamped /\ NoPush.event = Empty /\ NoServe.event = Empty
  BY CapAssumption DEF Empty, Stamped, NoPush, NoServe
<1>2. ClockTypes
  BY SamplesAssumption DEF ClockTypes, NoTick
<1>3. RingTypes
  BY <1>1, CapAssumption DEF RingTypes
<1>4. PushTypes
  BY <1>1 DEF PushTypes, NoPush
<1>5. ServeTypes
  BY <1>1 DEF ServeTypes, NoServe
<1>6. EventTypes
  BY CapAssumption DEF EventTypes
<1>7. Window = {}
  BY DEF Window
<1>8. Queued /\ Pushing /\ Serving /\ Unseen /\ Accounted
  BY <1>7 DEF Queued, Pushing, Serving, Unseen, Accounted, NoPush, NoServe
<1>9. AgeInv
  BY <1>2, <1>5 DEF AgeInv, Countdown, CountedFrom, Threshold, NoServe, NoTick
<1> QED BY <1>2, <1>3, <1>4, <1>5, <1>6, <1>8, <1>9 DEF MotionInv, RingInv

LEMMA RawApart == MotionInv /\ UNCHANGED <<os, raw>> => MotionInv'
<1> SUFFICES ASSUME MotionInv, UNCHANGED <<os, raw>> PROVE MotionInv'
  OBVIOUS
<1>1. RingInv'
  <2>1. ClockTypes' /\ ServeTypes' /\ (serve'.at = "advance" => serve'.event = SlotAt(read) /\ read < write)
    BY DEF MotionInv, RingInv, raw, ring, timing, ClockTypes, ServeTypes, Serving
  <2> QED BY <2>1, RingApart DEF MotionInv, raw, ring
<1> QED BY <1>1, AgeApart DEF MotionInv, raw, timing

LEMMA DrainAndPush ==
  ASSUME MotionInv, WindowProc \/ GetRaw \/ Drain \/ FinishPush \/ PollEvent
  PROVE  MotionInv'
<1> USE DEF MotionInv
<1>1. CASE WindowProc
  <2>1. PushBegin /\ os = "windows" /\ os' = os
    BY <1>1 DEF WindowProc
  <2>2. RingInv'
    BY <2>1, PushBeginStep
  <2> QED BY <2>1, <2>2, AgeApart DEF PushBegin, timing
<1>2. CASE GetRaw
  <2>1. ServeBegin /\ os' = os
    BY <1>2 DEF GetRaw
  <2> QED BY <2>1, ServeBeginStep, ServeBeginAges
<1>3. CASE Drain
  <2>1. (Take \/ Advance) /\ os' = os
    BY <1>3 DEF Drain
  <2> QED BY <2>1, TakeStep, TakeAges, AdvanceStep, AdvanceAges
<1>4. CASE FinishPush
  <2>1. os' = os
    BY <1>4 DEF FinishPush
  <2>2. CASE PushFill \/ PushPublish
    <3>1. RingInv'
      BY <2>1, <2>2, PushFillStep, PushPublishStep
    <3> QED BY <2>1, <2>2, <3>1, AgeApart DEF PushFill, PushPublish, timing
  <2>3. CASE PassOn
    <3>1. UNCHANGED <<now, mode, ring, producer, serve, timing, events, fate>>
      BY <2>3 DEF PassOn
    <3>2. RingInv'
      BY <2>1, <3>1, ModeStep DEF RingInv, ClockTypes
    <3> QED BY <2>1, <3>1, <3>2, AgeApart DEF timing
  <2> QED BY <1>4, <2>2, <2>3 DEF FinishPush
<1>5. CASE PollEvent
  <2>1. /\ PushOver \/ UNCHANGED raw
        /\ os = "linux" /\ os' = os /\ serve = NoServe
    BY <1>5 DEF PollEvent, At
  <2>2. CASE PushOver
    <3>1. RingInv'
      BY <2>1, <2>2, PushOverStep
    <3> QED BY <2>1, <2>2, <3>1, AgeApart DEF PushOver, timing
  <2>3. CASE UNCHANGED raw
    BY <2>1, <2>3, RawApart
  <2> QED BY <2>1, <2>2, <2>3
<1> QED BY <1>1, <1>2, <1>3, <1>4, <1>5

\* The steps that set the clock, the tick or the mode.
LEMMA ClockAndMode ==
  ASSUME MotionInv,
         \/ \E slot \in Moves, s \in Samples : TickBegins(slot, s)
         \/ \E n \in {1, 2} : SetMode(n)
         \/ ForceMode \/ RunCommand \/ Clock
  PROVE  MotionInv'
<1> USE DEF MotionInv
<1>1. ASSUME NEW slot \in Moves, NEW s \in Samples, TickBegins(slot, s) PROVE MotionInv'
  <2>1. /\ SetSample(s) /\ serve = NoServe /\ os' = os
        /\ UNCHANGED <<now, mode, ring, producer, serve, events, fate>>
    BY <1>1 DEF TickBegins, At
  <2> QED BY <2>1, SetSampleStep, SetSampleAges
<1>2. CASE ForceMode \/ RunCommand \/ \E n \in {1, 2} : SetMode(n)
  <2>1. mode \in {1, 2}
    BY DEF RingInv, ClockTypes
  <2>2. mode' \in {1, 2} /\ UNCHANGED <<os, now, ring, producer, serve, timing, events, fate>>
    BY <1>2, <2>1 DEF ForceMode, RunCommand, SetMode, Switch
  <2>3. RingInv'
    BY <2>2, ModeStep
  <2> QED BY <2>2, <2>3, AgeApart DEF timing
<1>3. CASE Clock
  <2>1. now < Forever - 1 /\ now' = now + 1 /\ os' = os
    BY <1>3, TimeAssumption, SamplesAssumption DEF Clock, RingInv, ClockTypes
  <2>2. RingInv'
    BY <1>3, <2>1, ClockStep DEF Clock
  <2> QED BY <1>3, <2>1, <2>2, AgeApart DEF Clock, timing
<1> QED BY <1>1, <1>2, <1>3

LEMMA MotionPreserved == MotionInv /\ [Next]_vars => MotionInv'
<1> SUFFICES ASSUME MotionInv, [Next]_vars PROVE MotionInv'
  OBVIOUS
<1>1. CASE UNCHANGED vars
  BY <1>1, RawApart DEF vars
<1>2. CASE InstallStep
  BY <1>2, RawApart DEF InstallStep, InstallPoll, InstallGetRaw, PublishMove, InstallMove1,
     InstallMove2, Withdraw, PatchInfo, StoreOrig, EngineReady, Installing
<1>3. CASE PollEvent \/ WindowProc \/ GetRaw \/ Drain \/ FinishPush
  BY <1>3, DrainAndPush
<1>4. CASE \/ \E slot \in Moves, s \in Samples : TickBegins(slot, s)
           \/ \E n \in {1, 2} : SetMode(n)
           \/ ForceMode \/ RunCommand \/ Clock
  BY <1>4, ClockAndMode
<1>5. CASE StartDemo \/ PumpCommands \/ InfoOriginal \/ EchoStep \/ \E m \in DemoMaps : ServerInfo(m)
  BY <1>5, RawApart DEF StartDemo, PumpCommands, InfoOriginal, EchoStep, ServerInfo
<1>6. CASE Shutdown
  BY <1>6, ShutdownStep, ShutdownAges DEF MotionInv
<1> QED BY <1>1, <1>2, <1>3, <1>4, <1>5, <1>6 DEF Next

-----------------------------------------------------------------------------
(* The two ways of the motion.                                             *)

Flying(e) == InRing(e) \/ producer.event.id = e

LEMMA FlyingIs ==
  /\ \A e : InFlight(e) = 1 <=> Flying(e)
  /\ \A e : InFlight(e)' = 1 <=> Flying(e)'
  BY DEF InFlight, Flying, InRing, Window

\* Of an event that is not parted: the ring serves it to the game where the
\* accumulators do not, and what one of the two has given away the other has not.
WayOf(e) ==
  /\ fate[e]["served"] # 0 => e \notin given
  /\ fate[e]["served"] # 0 /\ StockDue(e) => mode = 2
  /\ fate[e]["discarded"] # 0 /\ StockDue(e) => mode = 1 \/ hooked = {}
  /\ fate[e]["discarded"] # 0 /\ ~StockDue(e) => e \in given
  /\ Flying(e) /\ ~StockDue(e) /\ e \notin given => mode = 2
  /\ Flying(e) /\ e \in given => serve.at # "idle" /\ serve.mode = 1

Ways == \A e \in 1 .. events : e \notin parted => WayOf(e)

\* An event goes into the accumulators once, after the ring.
Once ==
  /\ passing \in 0 .. events /\ stock \subseteq 1 .. events /\ given \subseteq 1 .. events
  /\ passing # 0 => producer = NoPush
  /\ passing \notin stock /\ producer.event.id \notin stock
  /\ \A e \in given : ~StockDue(e)

\* Without rawinput2 a drain leaves nothing in the ring.
Whole ==
  /\ serve.at # "idle" => serve.mode = mode
  /\ serve.at # "idle" /\ serve.mode = 1 => serve.threshold = Forever
  /\ \A k \in Window : SlotAt(k).stamp <= now
  /\ producer.event.stamp <= now

\* Linux has the ring alone.
RingOnly ==
  /\ passing = 0 /\ stock = {} /\ given = {}
  /\ \A e \in Events : fate[e]["discarded"] = 0

WaysInv ==
  /\ parted \subseteq 1 .. events
  /\ os = "windows" => Ways /\ Once /\ Whole
  /\ os = "linux" => RingOnly

\* What has become of an event in the ring.
LEMMA OneFate ==
  ASSUME RingInv, NEW e \in 1 .. events
  PROVE  /\ e \in Events
         /\ fate[e]["served"] \in {0, 1} /\ fate[e]["discarded"] \in {0, 1}
         /\ fate[e]["dropped"] \in {0, 1}
         /\ Flying(e) => fate[e]["served"] = 0 /\ fate[e]["discarded"] = 0 /\ fate[e]["dropped"] = 0
         /\ fate[e]["dropped"] # 0 => fate[e]["served"] = 0 /\ fate[e]["discarded"] = 0
         /\ fate[e]["served"] = 1 => fate[e]["discarded"] = 0
         /\ ~Flying(e) => \/ fate[e]["served"] = 1 \/ fate[e]["discarded"] = 1
                          \/ fate[e]["dropped"] = 1
<1>1. e \in Events
  BY CapAssumption DEF RingInv, Events, EventTypes
<1>2. Total(e) + Placed(e) = 1
  BY AccountedAs DEF RingInv
<1>3. fate[e]["served"] \in Nat /\ fate[e]["discarded"] \in Nat /\ fate[e]["dropped"] \in Nat
  BY <1>1 DEF RingInv, EventTypes, Fates
<1>4. Placed(e) = IF Flying(e) THEN 1 ELSE 0
  BY DEF Placed, Flying
<1>5. fate[e]["served"] + fate[e]["discarded"] + fate[e]["dropped"] = IF Flying(e) THEN 0 ELSE 1
  BY <1>2, <1>3, <1>4 DEF Total
<1>6. PICK s \in Nat, d \in Nat, r \in Nat :
        fate[e]["served"] = s /\ fate[e]["discarded"] = d /\ fate[e]["dropped"] = r
  BY <1>3
<1>7. CASE Flying(e)
  <2>1. s + d + r = 0
    BY <1>5, <1>6, <1>7
  <2>2. s = 0 /\ d = 0 /\ r = 0
    BY <2>1
  <2> QED BY <1>1, <1>6, <1>7, <2>2
<1>8. CASE ~Flying(e)
  <2>1. s + d + r = 1
    BY <1>5, <1>6, <1>8
  <2>2. \/ s = 1 /\ d = 0 /\ r = 0
        \/ s = 0 /\ d = 1 /\ r = 0
        \/ s = 0 /\ d = 0 /\ r = 1
    BY <2>1
  <2> QED BY <1>1, <1>6, <1>8, <2>2
<1> QED BY <1>7, <1>8

LEMMA WaysInitially == Init => WaysInv
<1> SUFFICES ASSUME Init PROVE WaysInv
  OBVIOUS
<1> USE DEF Init, RawInit
<1>1. Window = {}
  BY DEF Window
<1>2. RingOnly
  BY DEF RingOnly, Fates
<1>3. Ways /\ Once /\ Whole
  BY <1>1 DEF Ways, Once, Whole, NoPush, NoServe, Empty
<1> QED BY <1>2, <1>3 DEF WaysInv

\* The types a step needs.
LEMMA Ranges ==
  ASSUME RingInv
  PROVE  /\ events \in Nat /\ MaxEvents \in Nat /\ read \in Nat /\ write \in Nat /\ now \in Nat
         /\ producer.event.stamp \in Nat /\ producer.event.id \in Nat
         /\ \A k \in Window : SlotAt(k).stamp \in Nat /\ k \in Nat
         /\ producer = NoPush => producer.event.id = 0 /\ producer.event.stamp = 0
<1> USE DEF RingInv
<1>1. producer.event \in Stamped
  BY DEF PushTypes
<1>2. producer.event.stamp \in Nat /\ producer.event.id \in Nat
  BY <1>1, CapAssumption DEF Stamped
<1>3. read \in Nat /\ write \in Nat
  BY CapAssumption DEF RingTypes
<1>4. ASSUME NEW k \in Window PROVE SlotAt(k).stamp \in Nat /\ k \in Nat
  <2>1. k \in Nat
    BY <1>3 DEF Window
  <2>2. SlotAt(k) \in Stamped
    BY <2>1, SlotIndex DEF RingTypes, SlotAt
  <2> QED BY <2>1, <2>2 DEF Stamped
<1> QED BY <1>2, <1>3, <1>4, CapAssumption DEF EventTypes, ClockTypes, NoPush, Empty

\* A step that takes no event along either way.
LEMMA WaysApart ==
  ASSUME RingInv, WaysInv, UNCHANGED <<os, mode, serve, slots, write, read, producer, events, fate, game>>,
         now' \in Nat /\ now' >= now, hooked' = hooked \/ os = "linux"
  PROVE  WaysInv'
<1>1. Window' = Window /\ \A k : SlotAt(k)' = SlotAt(k)
  BY DEF Window, SlotAt
<1>2. \A e : Flying(e)' <=> Flying(e)
  BY <1>1 DEF Flying, InRing
<1>3. \A e : StockDue(e)' <=> StockDue(e)
  BY DEF StockDue, game
<1>4. UNCHANGED <<passing, stock, given, parted>>
  BY DEF game
<1>5. CASE os = "windows"
  <2>1. Ways'
    BY <1>2, <1>3, <1>4, <1>5 DEF WaysInv, Ways, WayOf
  <2>2. Once'
    BY <1>3, <1>4, <1>5 DEF WaysInv, Once
  <2>3. Whole'
    <3>1. /\ producer.event.stamp \in Nat /\ now \in Nat
          /\ \A k \in Window : SlotAt(k).stamp \in Nat
      BY Ranges
    <3>2. producer.event.stamp <= now' /\ \A k \in Window : SlotAt(k).stamp <= now'
      BY <1>5, <3>1 DEF WaysInv, Whole
    <3> QED BY <1>1, <1>5, <3>2 DEF WaysInv, Whole
  <2> QED BY <1>4, <1>5, <2>1, <2>2, <2>3 DEF WaysInv
<1>6. CASE os = "linux"
  BY <1>4, <1>6 DEF WaysInv, RingOnly
<1> QED BY <1>4, <1>5, <1>6 DEF RingInv, ClockTypes

\* Filling a slot touches none of the window.
LEMMA FilledApart == ASSUME RingInv, PushFill PROVE \A k \in Window : SlotAt(k)' = SlotAt(k)
<1> SUFFICES ASSUME NEW k \in Window PROVE SlotAt(k)' = SlotAt(k)
  OBVIOUS
<1>1. /\ producer.at = "fill" /\ slots' = [slots EXCEPT ![write % Cap] = producer.event]
      /\ write - read < Cap /\ read \in Int /\ write \in Int
  BY CapAssumption DEF PushFill, RingInv, Pushing, RingTypes
<1>2. k % Cap # write % Cap
  BY <1>1, FreeSlot, CapAssumption DEF RingInv
<1>3. k % Cap \in 0 .. Cap - 1
  BY <1>1, SlotIndex DEF Window
<1> QED BY <1>1, <1>2, <1>3 DEF SlotAt, RingInv, RingTypes

LEMMA PushBeginWays ==
  ASSUME RingInv, WaysInv, os = "windows", os' = os, hooked' = hooked, PushBegin
  PROVE  WaysInv'
<1>0. PICK n \in 1 .. MaxEvents : n = events + 1
  BY CapAssumption DEF PushBegin, RingInv, EventTypes
<1>1. /\ producer.at = "idle" /\ passing = 0 /\ events' = n
      /\ UNCHANGED <<now, mode, slots, write, read, serve, stock, given, parted>>
  BY <1>0 DEF PushBegin, ring
<1>2. /\ producer = NoPush /\ producer.event.id = 0 /\ events \in Nat
      /\ n \in Events /\ n > events /\ Ways /\ Once /\ Whole /\ parted \subseteq 1 .. events
  BY <1>0, <1>1, Ranges DEF RingInv, Pushing, Events, WaysInv
<1>3. Window' = Window /\ \A k : SlotAt(k)' = SlotAt(k)
  BY <1>1 DEF Window, SlotAt
<1>4. \A e : InRing(e)' <=> InRing(e)
  BY <1>3 DEF InRing
<1>5. \A e \in 1 .. n : e # n => e \in 1 .. events /\ e \in Events
  BY <1>0, <1>2, CapAssumption DEF Events
<1>6. fate[n]["served"] = 0 /\ fate[n]["discarded"] = 0 /\ n \notin stock /\ n \notin given /\ ~InRing(n)
  BY <1>2 DEF RingInv, Unseen, Fates, Once, Queued, InRing
<1>7. parted' \subseteq 1 .. n /\ stock' \subseteq 1 .. n /\ given' \subseteq 1 .. n /\ now \in Nat
  BY <1>0, <1>1, <1>2, Ranges DEF Once
<1>8. CASE write - read >= Cap
  <2>1. Met({n}, "dropped") /\ producer' = producer /\ passing' = n
    BY <1>1, <1>8 DEF PushBegin
  <2>2. \A e \in Events : e # n => fate'[e] = fate[e]
    BY <2>1 DEF Met
  <2>3. fate'[n]["served"] = 0 /\ fate'[n]["discarded"] = 0
    BY <1>2, <1>6, <2>1 DEF Met, RingInv, EventTypes, Fates
  <2>4. \A e : (Flying(e)' <=> Flying(e)) /\ (e # n /\ e # 0 => (StockDue(e)' <=> StockDue(e)))
    BY <1>1, <1>4, <2>1 DEF Flying, StockDue
  <2>5. Ways'
    <3> SUFFICES ASSUME NEW e \in 1 .. n, e \notin parted PROVE WayOf(e)'
      BY <1>1 DEF Ways
    <3>1. CASE e = n
      BY <1>1, <1>2, <1>6, <2>3, <2>4, <3>1 DEF WayOf, Flying
    <3>2. CASE e # n
      BY <1>1, <1>2, <1>5, <2>2, <2>4, <3>2 DEF Ways, WayOf
    <3> QED BY <3>1, <3>2
  <2>6. Once'
    <3>1. \A e \in given : e # n /\ e # 0
      BY <1>2, <1>6 DEF Once
    <3>2. \A e \in given : ~StockDue(e)'
      BY <1>2, <2>4, <3>1 DEF Once
    <3> QED BY <1>1, <1>2, <1>6, <1>7, <2>1, <3>2 DEF Once
  <2>7. Whole'
    BY <1>1, <1>2, <1>3, <2>1 DEF Whole
  <2> QED BY <1>1, <1>7, <2>5, <2>6, <2>7 DEF WaysInv
<1>9. CASE ~(write - read >= Cap)
  <2>1. producer' = [at |-> "fill", event |-> [id |-> n, stamp |-> now]] /\ fate' = fate /\ passing' = 0
    BY <1>1, <1>9 DEF PushBegin
  <2>2. producer'.event.id = n /\ producer'.event.stamp = now
    BY <2>1
  <2>3. \A e : e # n /\ e # 0 => (Flying(e)' <=> Flying(e)) /\ (StockDue(e)' <=> StockDue(e))
    BY <1>1, <1>2, <1>4, <2>1, <2>2 DEF Flying, StockDue
  <2>4. StockDue(n)'
    BY <2>2 DEF StockDue
  <2>5. Ways'
    <3> SUFFICES ASSUME NEW e \in 1 .. n, e \notin parted PROVE WayOf(e)'
      BY <1>1 DEF Ways
    <3>1. CASE e = n
      BY <1>1, <1>6, <2>1, <2>4, <3>1 DEF WayOf
    <3>2. CASE e # n
      BY <1>1, <1>2, <1>5, <2>1, <2>3, <3>2 DEF Ways, WayOf
    <3> QED BY <3>1, <3>2
  <2>6. Once'
    <3>1. \A e \in given : e # n /\ e # 0
      BY <1>2, <1>6 DEF Once
    <3>2. \A e \in given : ~StockDue(e)'
      BY <1>2, <2>3, <3>1 DEF Once
    <3> QED BY <1>1, <1>2, <1>6, <1>7, <2>1, <2>2, <3>2 DEF Once
  <2>7. Whole'
    BY <1>1, <1>2, <1>3, <1>7, <2>2 DEF Whole
  <2> QED BY <1>1, <1>7, <2>5, <2>6, <2>7 DEF WaysInv
<1> QED BY <1>8, <1>9

\* The event comes nearer to the ring or to the accumulators.
LEMMA FinishPushWays ==
  ASSUME RingInv, WaysInv, os = "windows", os' = os, hooked' = hooked,
         PushFill \/ PushPublish \/ PassOn
  PROVE  WaysInv'
<1>1. Ways /\ Once /\ Whole /\ parted \subseteq 1 .. events /\ events \in Nat
  BY Ranges DEF WaysInv
<1>2. UNCHANGED <<now, mode, read, serve, events, fate, given, parted>>
  BY DEF PushFill, PushPublish, PassOn, game, ring
<1>3. ASSUME NEW e \in 1 .. events PROVE (Flying(e)' <=> Flying(e)) /\ (StockDue(e)' <=> StockDue(e))
  <2>1. CASE PushFill
    <3>1. /\ producer'.event = producer.event /\ Window' = Window
          /\ UNCHANGED <<passing, stock>>
      BY <2>1 DEF PushFill, RingInv, PushTypes, Window, game
    <3>2. \A k \in Window : SlotAt(k)' = SlotAt(k)
      BY <2>1, FilledApart
    <3> QED BY <3>1, <3>2 DEF Flying, InRing, StockDue
  <2>2. CASE PushPublish
    <3>1. producer.at = "publish" /\ producer' = NoPush /\ write' = write + 1
          /\ UNCHANGED <<slots, read, stock>> /\ passing' = producer.event.id
      BY <2>2 DEF PushPublish
    <3>2. SlotAt(write) = producer.event
      BY <3>1 DEF RingInv, Pushing, SlotAt
    <3>3. Window' = Window \cup {write} /\ \A k : SlotAt(k)' = SlotAt(k)
      BY <3>1, CapAssumption DEF RingInv, RingTypes, Window, SlotAt
    <3>4. passing = 0 /\ producer'.event.id = 0
      BY <1>1, <3>1 DEF Once, NoPush, Empty
    <3> QED BY <3>1, <3>2, <3>3, <3>4 DEF Flying, InRing, StockDue
  <2>3. CASE PassOn
    <3>1. UNCHANGED <<slots, write, read, producer>> /\ stock' = stock \cup {passing} /\ passing' = 0
      BY <2>3 DEF PassOn, ring
    <3> QED BY <3>1 DEF Flying, InRing, StockDue, Window, SlotAt
  <2> QED BY <2>1, <2>2, <2>3
<1>4. Ways'
  BY <1>1, <1>2, <1>3 DEF Ways, WayOf
<1>5. Once'
  <2>1. \A e \in given : ~StockDue(e)'
    BY <1>1, <1>3 DEF Once
  <2>2. /\ passing' \in 0 .. events /\ stock' \subseteq 1 .. events
        /\ passing' # 0 => producer' = NoPush
        /\ passing' \notin stock' /\ producer'.event.id \notin stock'
    <3>1. CASE PushFill
      <4>1. producer.at = "fill" /\ producer'.event = producer.event /\ UNCHANGED <<passing, stock>>
        BY <3>1 DEF PushFill, RingInv, PushTypes, game
      <4>2. passing = 0
        BY <1>1, <4>1 DEF Once, NoPush
      <4> QED BY <1>1, <4>1, <4>2 DEF Once
    <3>2. CASE PushPublish
      <4>1. producer.at = "publish" /\ producer' = NoPush /\ stock' = stock /\ passing' = producer.event.id
        BY <3>2 DEF PushPublish
      <4>2. producer.event.id \in 0 .. events /\ producer'.event.id = 0
        BY <1>1, <4>1 DEF RingInv, Pushing, NoPush, Empty
      <4> QED BY <1>1, <4>1, <4>2 DEF Once
    <3>3. CASE PassOn
      <4>1. passing # 0 /\ producer' = producer /\ stock' = stock \cup {passing} /\ passing' = 0
        BY <3>3 DEF PassOn
      <4>2. producer.event.id = 0
        BY <1>1, <4>1, Ranges DEF Once
      <4> QED BY <1>1, <4>1, <4>2 DEF Once
    <3> QED BY <3>1, <3>2, <3>3
  <2> QED BY <1>1, <1>2, <2>1, <2>2 DEF Once
<1>6. Whole'
  <2>1. CASE PushFill
    <3>1. producer'.event = producer.event /\ Window' = Window
      BY <2>1 DEF PushFill, RingInv, PushTypes, Window
    <3>2. \A k \in Window : SlotAt(k)' = SlotAt(k)
      BY <2>1, FilledApart
    <3> QED BY <1>1, <1>2, <3>1, <3>2 DEF Whole
  <2>2. CASE PushPublish
    <3>1. producer.at = "publish" /\ producer' = NoPush /\ write' = write + 1 /\ UNCHANGED <<slots, read>>
      BY <2>2 DEF PushPublish
    <3>2. SlotAt(write) = producer.event
      BY <3>1 DEF RingInv, Pushing, SlotAt
    <3>3. Window' = Window \cup {write} /\ \A k : SlotAt(k)' = SlotAt(k)
      BY <3>1, CapAssumption DEF RingInv, RingTypes, Window, SlotAt
    <3>4. producer'.event.stamp = 0 /\ now \in Nat
      BY <3>1, Ranges DEF NoPush, Empty
    <3> QED BY <1>1, <1>2, <3>2, <3>3, <3>4 DEF Whole
  <2>3. CASE PassOn
    <3>1. UNCHANGED <<slots, write, read, producer>>
      BY <2>3 DEF PassOn, ring
    <3> QED BY <1>1, <1>2, <3>1 DEF Whole, Window, SlotAt
  <2> QED BY <2>1, <2>2, <2>3
<1> QED BY <1>1, <1>2, <1>4, <1>5, <1>6 DEF WaysInv

\* A serve takes all there is in the accumulators, and without rawinput2 the
\* game gets it.
LEMMA ServeBeginWays ==
  ASSUME RingInv, WaysInv, os = "windows", os' = os, hooked' = hooked, hooked # {}, ServeBegin
  PROVE  WaysInv'
<1>1. Ways /\ Once /\ Whole /\ parted \subseteq 1 .. events /\ mode \in {1, 2}
  BY DEF WaysInv, RingInv, ClockTypes
<1>2. /\ serve.at = "idle" /\ stock' = {}
      /\ given' = (IF mode = 2 THEN given ELSE given \cup stock)
      /\ serve'.at = "take" /\ serve'.mode = mode
      /\ UNCHANGED <<now, mode, slots, write, read, producer, events, fate, passing, parted>>
  BY DEF ServeBegin, ring
<1>3. mode = 1 => serve'.threshold = Forever
  BY DEF ServeBegin, Limit
<1>4. Window' = Window /\ (\A k : SlotAt(k)' = SlotAt(k))
  BY <1>2 DEF Window, SlotAt
<1>5. \A e : Flying(e)' <=> Flying(e)
  BY <1>2, <1>4 DEF Flying, InRing
<1>6. \A e : StockDue(e)' <=> passing = e \/ producer.event.id = e
  BY <1>2 DEF StockDue
<1>7. Ways'
  <2> SUFFICES ASSUME NEW e \in 1 .. events, e \notin parted PROVE WayOf(e)'
    BY <1>2 DEF Ways
  <2>1. WayOf(e)
    BY <1>1 DEF Ways
  <2>2. CASE mode = 1
    <3>1. e \in given' <=> e \in given \/ e \in stock
      BY <1>2, <2>2
    <3>2. e \in stock => StockDue(e) /\ ~StockDue(e)'
      BY <1>1, <1>6 DEF StockDue, Once
    <3>3. ~StockDue(e)' /\ StockDue(e) => e \in stock
      BY <1>6 DEF StockDue
    <3>4. StockDue(e)' => StockDue(e)
      BY <1>6 DEF StockDue
    <3> QED BY <1>2, <1>5, <2>1, <2>2, <3>1, <3>2, <3>3, <3>4 DEF WayOf
  <2>3. CASE mode = 2
    <3>1. given' = given /\ (StockDue(e)' => StockDue(e))
      BY <1>2, <1>6, <2>3 DEF StockDue
    <3> QED BY <1>2, <1>5, <2>1, <2>3, <3>1 DEF WayOf
  <2> QED BY <1>1, <2>2, <2>3
<1>8. Once'
  <2>1. \A e \in given' : ~StockDue(e)'
    BY <1>1, <1>2, <1>6 DEF Once, StockDue
  <2> QED BY <1>1, <1>2, <2>1 DEF Once
<1>9. Whole'
  BY <1>1, <1>2, <1>3, <1>4 DEF Whole
<1> QED BY <1>1, <1>2, <1>7, <1>8, <1>9 DEF WaysInv

\* Without rawinput2 the drain goes on to the end of the ring.
LEMMA TakeWays ==
  ASSUME RingInv, WaysInv, os = "windows", os' = os, hooked' = hooked, Take
  PROVE  WaysInv'
<1>1. Ways /\ Once /\ Whole /\ parted \subseteq 1 .. events
  BY DEF WaysInv
<1>2. /\ serve.at = "take"
      /\ UNCHANGED <<now, mode, slots, write, read, producer, events, fate, passing, stock, given, parted>>
  BY DEF Take, ring, game
<1>3. Window' = Window /\ (\A k : SlotAt(k)' = SlotAt(k))
  BY <1>2 DEF Window, SlotAt
<1>4. \A e : (Flying(e)' <=> Flying(e)) /\ (StockDue(e)' <=> StockDue(e))
  BY <1>2, <1>3 DEF Flying, InRing, StockDue
<1>5. Once'
  BY <1>1, <1>2, <1>4 DEF Once
<1>6. CASE read # write /\ SlotAt(read).stamp <= serve.threshold
  <2>1. serve' = [serve EXCEPT !.at = "advance", !.event = SlotAt(read)]
    BY <1>6 DEF Take
  <2>2. serve'.at = "advance" /\ serve'.mode = serve.mode /\ serve'.threshold = serve.threshold
    BY <2>1 DEF RingInv, ServeTypes
  <2>3. Ways'
    BY <1>1, <1>2, <1>4, <2>2 DEF Ways, WayOf
  <2>4. Whole'
    BY <1>1, <1>2, <1>3, <2>2 DEF Whole
  <2> QED BY <1>1, <1>2, <1>5, <2>3, <2>4 DEF WaysInv
<1>7. CASE ~(read # write /\ SlotAt(read).stamp <= serve.threshold)
  <2>1. serve' = NoServe /\ serve'.at = "idle"
    BY <1>7 DEF Take, NoServe
  <2>2. ASSUME serve.mode = 1, NEW e \in given, Flying(e) PROVE FALSE
    <3>1. producer.event.id # e
      BY <1>1 DEF Once, StockDue
    <3>2. PICK k \in Window : SlotAt(k).id = e
      BY <2>2, <3>1 DEF Flying, InRing
    <3>3. read \in Window /\ read # write
      BY <3>2, Ranges DEF Window
    <3>4. SlotAt(read).stamp <= now /\ SlotAt(read).stamp \in Nat /\ serve.threshold = Forever
      BY <1>1, <1>2, <2>2, <3>3, Ranges DEF Whole
    <3> QED BY <1>7, <3>3, <3>4, SamplesAssumption DEF RingInv, ClockTypes
  <2>3. Ways'
    BY <1>1, <1>2, <1>4, <2>2 DEF Ways, WayOf
  <2>4. Whole'
    BY <1>1, <1>2, <1>3, <2>1 DEF Whole
  <2> QED BY <1>1, <1>2, <1>5, <2>3, <2>4 DEF WaysInv
<1> QED BY <1>6, <1>7

\* The oldest event leaves the ring, served or discarded by the mode.
LEMMA AdvanceWays ==
  ASSUME RingInv, WaysInv, os = "windows", os' = os, hooked' = hooked, Advance
  PROVE  WaysInv'
<1>1. Ways /\ Once /\ Whole /\ parted \subseteq 1 .. events /\ mode \in {1, 2}
  BY DEF WaysInv, RingInv, ClockTypes
<1>2. /\ serve.at = "advance" /\ serve' = [serve EXCEPT !.at = "take", !.event = Empty]
      /\ UNCHANGED <<now, mode, slots, write, producer, events, passing, stock, given, parted>>
  BY DEF Advance, game
<1>3. /\ serve'.at = "take" /\ serve'.mode = serve.mode /\ serve'.threshold = serve.threshold
      /\ serve.mode = mode
  BY <1>1, <1>2 DEF RingInv, ServeTypes, Whole
<1>4. PICK d \in 1 .. events, r \in Nat :
        r = read /\ r < write /\ SlotAt(r).id = d /\ read' = r + 1 /\ Met({d}, Outcome)
  <2>1. read \in Nat /\ read < write /\ write \in Nat /\ serve.event = SlotAt(read)
    BY <1>2, Ranges DEF RingInv, Serving
  <2>2. SlotAt(read).id \in 1 .. events
    BY <2>1 DEF RingInv, Queued, Window
  <2>3. read' = read + 1 /\ Met({SlotAt(read).id}, Outcome)
    BY <2>1 DEF Advance
  <2> QED BY <2>1, <2>2, <2>3
<1>5. Window' = Window \ {r} /\ r \in Window /\ \A k : SlotAt(k)' = SlotAt(k)
  BY <1>2, <1>4, Ranges DEF Window, SlotAt
<1>6. Flying(d) /\ ~Flying(d)'
  <2>1. InRing(d) /\ ~InRing(d)'
    BY <1>4, <1>5 DEF InRing, RingInv, Queued
  <2>2. producer'.event.id # d
    <3>1. CASE producer.at = "idle"
      BY <1>2, <3>1 DEF RingInv, Pushing, NoPush, Empty
    <3>2. CASE producer.at # "idle"
      BY <1>2, <1>4, <1>5, <3>2 DEF RingInv, Pushing
    <3> QED BY <3>1, <3>2
  <2> QED BY <2>1, <2>2 DEF Flying
<1>7. \A e : e # d => (Flying(e)' <=> Flying(e))
  BY <1>2, <1>4, <1>5 DEF Flying, InRing
<1>8. \A e : StockDue(e)' <=> StockDue(e)
  BY <1>2 DEF StockDue
<1>9. fate[d]["served"] = 0 /\ fate[d]["discarded"] = 0 /\ d \in Events
  BY <1>6, OneFate
<1>10. \A e \in 1 .. events : e \in Events
  BY OneFate
<1>11. \A e \in Events : e # d => fate'[e] = fate[e]
  BY <1>4 DEF Met
<1>12. fate'[d] = [fate[d] EXCEPT ![Outcome] = @ + 1] /\ fate[d] \in [Fates -> Nat]
  BY <1>4, <1>9 DEF Met, RingInv, EventTypes
<1>13. Ways'
  <2> SUFFICES ASSUME NEW e \in 1 .. events, e \notin parted PROVE WayOf(e)'
    BY <1>2 DEF Ways
  <2>1. WayOf(e)
    BY <1>1 DEF Ways
  <2>2. CASE e # d
    BY <1>2, <1>3, <1>7, <1>8, <1>10, <1>11, <2>1, <2>2 DEF WayOf
  <2>3. CASE e = d /\ mode = 2
    <3>1. fate'[d]["discarded"] = 0
      BY <1>3, <1>9, <1>12, <2>3 DEF Outcome, Fates
    <3>2. e \notin given
      BY <1>3, <1>6, <2>1, <2>3 DEF WayOf
    <3> QED BY <1>2, <1>6, <2>3, <3>1, <3>2 DEF WayOf
  <2>4. CASE e = d /\ mode = 1
    <3>1. fate'[d]["served"] = 0
      BY <1>3, <1>9, <1>12, <2>4 DEF Outcome, Fates
    <3>2. ~StockDue(e) => e \in given
      BY <1>6, <2>1, <2>4 DEF WayOf
    <3> QED BY <1>2, <1>6, <1>8, <2>4, <3>1, <3>2 DEF WayOf
  <2> QED BY <1>1, <2>2, <2>3, <2>4
<1>14. Once'
  BY <1>1, <1>2, <1>8 DEF Once
<1>15. Whole'
  BY <1>1, <1>2, <1>3, <1>5 DEF Whole
<1> QED BY <1>1, <1>2, <1>13, <1>14, <1>15 DEF WaysInv

\* Between serves an event that is not half-way has both ways before it, or
\* neither.
LEMMA NotHalfWay ==
  ASSUME RingInv, os = "windows", serve = NoServe, NEW e \in 1 .. events, WayOf(e), ~HalfWay(e)
  PROVE  fate[e]["dropped"] # 0 \/ (Flying(e) <=> StockDue(e))
<1>1. InFlight(e) \in {0, 1} /\ (InFlight(e) = 1 <=> Flying(e))
  BY FlyingIs DEF InFlight
<1>2. Flying(e) /\ ~StockDue(e) => mode = 2
  BY DEF WayOf, NoServe
<1> QED BY <1>1, <1>2 DEF HalfWay

\* A change of the mode leaves an event that is not parted to the new mode.
LEMMA SwitchWays ==
  ASSUME RingInv, WaysInv, os = "windows", os' = os, hooked' = hooked, NEW n \in {1, 2}, Switch(n),
         serve = NoServe, UNCHANGED <<now, ring, producer, serve, events, fate>>
  PROVE  WaysInv'
<1>1. Ways /\ Once /\ Whole /\ parted \subseteq 1 .. events
  BY DEF WaysInv
<1>2. UNCHANGED <<slots, write, read, passing, stock, given>> /\ mode' = n
  BY DEF Switch, ring
<1>3. Window' = Window /\ (\A k : SlotAt(k)' = SlotAt(k))
  BY <1>2 DEF Window, SlotAt
<1>4. \A e : (Flying(e)' <=> Flying(e)) /\ (StockDue(e)' <=> StockDue(e))
  BY <1>2, <1>3 DEF Flying, InRing, StockDue
<1>5. Once'
  BY <1>1, <1>2, <1>4 DEF Once
<1>6. Whole'
  BY <1>1, <1>2, <1>3 DEF Whole, NoServe
<1>7. CASE n = mode
  <2>1. parted' = parted
    BY <1>7 DEF Switch
  <2>2. Ways'
    BY <1>1, <1>2, <1>4, <1>7, <2>1 DEF Ways, WayOf
  <2> QED BY <1>1, <1>5, <1>6, <2>1, <2>2 DEF WaysInv
<1>8. CASE n # mode
  <2>1. parted' = parted \cup {e \in 1 .. events : HalfWay(e)}
    BY <1>8 DEF Switch, Part
  <2>2. Ways'
    <3> SUFFICES ASSUME NEW e \in 1 .. events, e \notin parted' PROVE WayOf(e)'
      BY DEF Ways
    <3>1. WayOf(e) /\ ~HalfWay(e)
      BY <1>1, <2>1 DEF Ways
    <3>2. fate[e]["dropped"] # 0 \/ (Flying(e) <=> StockDue(e))
      BY <3>1, NotHalfWay
    <3>3. /\ fate[e]["dropped"] # 0 => fate[e]["served"] = 0 /\ fate[e]["discarded"] = 0 /\ ~Flying(e)
          /\ Flying(e) => fate[e]["served"] = 0 /\ fate[e]["discarded"] = 0
      BY OneFate
    <3>4. serve.at = "idle"
      BY DEF NoServe
    <3> QED BY <1>2, <1>4, <3>1, <3>2, <3>3, <3>4 DEF WayOf
  <2>3. parted' \subseteq 1 .. events
    BY <1>1, <2>1
  <2> QED BY <1>5, <1>6, <2>2, <2>3 DEF WaysInv
<1> QED BY <1>7, <1>8

\* After the removal the accumulators give the game what comes later.
LEMMA ShutdownWays == ASSUME RingInv, WaysInv, Shutdown PROVE WaysInv'
<1> DEFINE S == {SlotAt(k).id : k \in Window}
<1>1. /\ os = "windows" /\ os' = os /\ hooked' = {} /\ producer = NoPush /\ passing = 0 /\ serve = NoServe
      /\ read' = write /\ Met(S, "discarded")
      /\ parted' = parted \cup {e \in 1 .. events : HalfWay(e)}
      /\ UNCHANGED <<now, mode, slots, write, producer, serve, events, passing, stock, given>>
  BY DEF Shutdown, At, ClearGlobals, Part, Window
<1>2. S \subseteq 1 .. events /\ \A e : e \in S <=> InRing(e)
  BY DEF RingInv, Queued, InRing
<1> HIDE DEF S
<1>3. Ways /\ Once /\ Whole /\ parted' \subseteq 1 .. events /\ producer.event.id = 0
  BY <1>1, Ranges DEF WaysInv
<1>4. Window' = {} /\ \A e \in 1 .. events : (Flying(e) <=> e \in S) /\ ~Flying(e)' /\ e \in Events
  <2>1. Window' = {}
    BY <1>1, Ranges DEF Window
  <2> QED BY <1>1, <1>2, <1>3, <2>1, OneFate DEF Flying, InRing
<1>5. \A e : StockDue(e)' <=> StockDue(e)
  BY <1>1 DEF StockDue
<1>6. Ways'
  <2> SUFFICES ASSUME NEW e \in 1 .. events, e \notin parted' PROVE WayOf(e)'
    BY <1>1 DEF Ways
  <2>1. WayOf(e) /\ ~HalfWay(e) /\ e \in Events
    BY <1>1, <1>3, <1>4 DEF Ways
  <2>2. fate[e]["dropped"] # 0 \/ (Flying(e) <=> StockDue(e))
    BY <1>1, <2>1, NotHalfWay
  <2>3. /\ fate[e]["dropped"] # 0 => fate[e]["served"] = 0 /\ fate[e]["discarded"] = 0 /\ ~Flying(e)
        /\ Flying(e) => fate[e]["served"] = 0 /\ fate[e]["discarded"] = 0
    BY OneFate
  <2>4. fate[e] \in [Fates -> Nat] /\ "served" \in Fates /\ "discarded" \in Fates
    BY <2>1 DEF RingInv, EventTypes, Fates
  <2>5. fate'[e] = IF e \in S THEN [fate[e] EXCEPT !["discarded"] = @ + 1] ELSE fate[e]
    BY <1>1, <2>1 DEF Met
  <2>6. CASE e \in S
    <3>1. fate'[e]["served"] = 0 /\ StockDue(e) /\ Flying(e)
      BY <1>4, <2>2, <2>3, <2>4, <2>5, <2>6
    <3> QED BY <1>1, <1>4, <1>5, <3>1 DEF WayOf
  <2>7. CASE e \notin S
    BY <1>1, <1>4, <1>5, <2>1, <2>2, <2>3, <2>5, <2>7 DEF WayOf
  <2> QED BY <2>6, <2>7
<1>7. Once'
  BY <1>1, <1>3, <1>5 DEF Once
<1>8. Whole'
  BY <1>1, <1>3, <1>4 DEF Whole, NoServe
<1> QED BY <1>1, <1>3, <1>6, <1>7, <1>8 DEF WaysInv

\* Linux has no accumulators and discards nothing.
LEMMA RingOnlyKept ==
  ASSUME RingInv, WaysInv, os = "linux", [Next]_vars
  PROVE  WaysInv'
<1>1. RingOnly /\ parted \subseteq 1 .. events /\ events \in Nat
  BY Ranges DEF WaysInv
<1>2. producer = NoPush /\ os' = os
  <2>1. producer = NoPush
    BY DEF RingInv, Pushing
  <2>2. os' = os
    BY DEF Next, vars, InstallStep, InstallPoll, InstallGetRaw, PublishMove, InstallMove1, InstallMove2,
       Withdraw, PatchInfo, StoreOrig, EngineReady, Installing, PollEvent, WindowProc, GetRaw, Drain,
       FinishPush, TickBegins, ForceMode, StartDemo, PumpCommands, RunCommand, ServerInfo, InfoOriginal,
       EchoStep, SetMode, Shutdown, Clock
  <2> QED BY <2>1, <2>2
<1>3. {e \in 1 .. events : HalfWay(e)} = {}
  BY DEF HalfWay
<1>4. \/ UNCHANGED <<events, fate, game>>
      \/ PushOver \/ ServeBegin \/ Advance
      \/ \E n \in {1, 2} : Switch(n) /\ UNCHANGED <<events, fate>>
  <2>1. CASE UNCHANGED vars \/ InstallStep
    BY <2>1 DEF vars, raw, InstallStep, InstallPoll, InstallGetRaw, PublishMove, InstallMove1, InstallMove2,
       Withdraw, PatchInfo, StoreOrig, EngineReady, Installing
  <2>2. CASE PollEvent \/ WindowProc \/ GetRaw \/ Drain \/ FinishPush
    BY <1>1, <1>2, <2>2 DEF PollEvent, WindowProc, GetRaw, Drain, FinishPush, raw, Take, PushFill,
       PushPublish, PassOn, NoPush, RingOnly
  <2>3. CASE ForceMode \/ RunCommand \/ \E n \in {1, 2} : SetMode(n)
    BY <2>3 DEF ForceMode, RunCommand, SetMode
  <2>4. CASE \/ \E slot \in Moves, s \in Samples : TickBegins(slot, s)
             \/ StartDemo \/ PumpCommands \/ InfoOriginal \/ EchoStep \/ Shutdown \/ Clock
             \/ \E m \in DemoMaps : ServerInfo(m)
    BY <2>4 DEF TickBegins, StartDemo, PumpCommands, InfoOriginal, EchoStep, Shutdown, Clock, ServerInfo, raw
  <2> QED BY <2>1, <2>2, <2>3, <2>4 DEF Next
<1>5. CASE UNCHANGED <<events, fate, game>>
  BY <1>1, <1>2, <1>5 DEF WaysInv, RingOnly, game
<1>6. CASE PushOver
  <2>1. events' = events + 1 /\ UNCHANGED game
    BY <1>6 DEF PushOver
  <2>2. \A e \in Events : fate'[e]["discarded"] = 0
    BY <1>1, <1>6 DEF PushOver, Met, RingInv, EventTypes, Fates, RingOnly
  <2> QED BY <1>1, <1>2, <2>1, <2>2 DEF WaysInv, RingOnly, game
<1>7. CASE ServeBegin
  BY <1>1, <1>2, <1>7 DEF ServeBegin, WaysInv, RingOnly
<1>8. CASE Advance
  <2>1. UNCHANGED <<events, game>> /\ Outcome = "served"
    BY <1>8 DEF Advance, Outcome
  <2>2. \A e \in Events : fate'[e]["discarded"] = 0
    BY <1>1, <1>8, <2>1 DEF Advance, Met, RingInv, EventTypes, Fates, RingOnly
  <2> QED BY <1>1, <1>2, <2>1, <2>2 DEF WaysInv, RingOnly, game
<1>9. ASSUME NEW n \in {1, 2}, Switch(n), UNCHANGED <<events, fate>> PROVE WaysInv'
  BY <1>1, <1>2, <1>3, <1>9 DEF Switch, Part, WaysInv, RingOnly
<1> QED BY <1>4, <1>5, <1>6, <1>7, <1>8, <1>9

LEMMA WaysPreserved == Inv /\ RingInv /\ WaysInv /\ [Next]_vars => WaysInv'
<1> SUFFICES ASSUME Inv, RingInv, WaysInv, [Next]_vars PROVE WaysInv'
  OBVIOUS
<1>1. os \in {"linux", "windows"} /\ now \in Nat
  BY DEF RingInv, ClockTypes
<1>2. CASE os = "linux"
  BY <1>2, RingOnlyKept
<1>3. CASE os = "windows"
  <2>1. CASE UNCHANGED vars
    <3>1. UNCHANGED <<os, mode, serve, slots, write, read, producer, events, fate, game, now, hooked>>
      BY <2>1 DEF vars, raw, ring, install
    <3> QED BY <1>1, <3>1, WaysApart
  <2>2. CASE InstallStep
    <3>1. stage = "done"
      BY <1>3 DEF Inv, WindowsDone
    <3> QED BY <2>2, <3>1 DEF InstallStep, InstallPoll, InstallGetRaw, PublishMove, InstallMove1,
         InstallMove2, Withdraw, PatchInfo, StoreOrig, EngineReady, Installing
  <2>3. CASE PollEvent \/ WindowProc
    <3>1. PushBegin /\ os' = os /\ hooked' = hooked
      BY <1>3, <2>3 DEF PollEvent, WindowProc, install
    <3> QED BY <1>3, <3>1, PushBeginWays
  <2>4. CASE GetRaw
    <3>1. ServeBegin /\ os' = os /\ hooked' = hooked /\ hooked # {}
      BY <2>4 DEF GetRaw, install
    <3> QED BY <1>3, <3>1, ServeBeginWays
  <2>5. CASE Drain
    <3>1. (Take \/ Advance) /\ os' = os /\ hooked' = hooked
      BY <2>5 DEF Drain, install
    <3> QED BY <1>3, <3>1, TakeWays, AdvanceWays
  <2>6. CASE FinishPush
    <3>1. (PushFill \/ PushPublish \/ PassOn) /\ os' = os /\ hooked' = hooked
      BY <2>6 DEF FinishPush, install
    <3> QED BY <1>3, <3>1, FinishPushWays
  <2>7. CASE ForceMode \/ RunCommand \/ \E n \in {1, 2} : SetMode(n)
    <3>1. /\ serve = NoServe /\ UNCHANGED <<os, now, ring, producer, serve, events, fate, hooked>>
          /\ UNCHANGED <<mode, game>> \/ \E n \in {1, 2} : Switch(n)
      BY <2>7 DEF ForceMode, RunCommand, SetMode, At, install
    <3>2. CASE UNCHANGED <<mode, game>>
      BY <1>1, <3>1, <3>2, WaysApart DEF ring
    <3>3. CASE \E n \in {1, 2} : Switch(n)
      BY <1>3, <3>1, <3>3, SwitchWays
    <3> QED BY <3>1, <3>2, <3>3
  <2>8. CASE Shutdown
    BY <2>8, ShutdownWays
  <2>9. CASE \/ \E slot \in Moves, s \in Samples : TickBegins(slot, s)
             \/ StartDemo \/ PumpCommands \/ InfoOriginal \/ EchoStep \/ Clock
             \/ \E m \in DemoMaps : ServerInfo(m)
    <3>1. UNCHANGED <<os, mode, serve, ring, producer, events, fate, game, hooked>>
      BY <2>9 DEF TickBegins, StartDemo, PumpCommands, InfoOriginal, EchoStep, Clock, ServerInfo, raw, install
    <3>2. now' \in Nat /\ now' >= now
      BY <1>1, <2>9 DEF TickBegins, StartDemo, PumpCommands, InfoOriginal, EchoStep, Clock, ServerInfo, raw
    <3> QED BY <3>1, <3>2, WaysApart DEF ring
  <2> QED BY <2>1, <2>2, <2>3, <2>4, <2>5, <2>6, <2>7, <2>8, <2>9 DEF Next
<1> QED BY <1>1, <1>2, <1>3

LEMMA WaysTypes == ASSUME RingInv, WaysInv PROVE GameTypes
<1>1. events \in 0 .. MaxEvents /\ MaxEvents \in Nat /\ os \in {"linux", "windows"}
  BY CapAssumption DEF RingInv, EventTypes, ClockTypes
<1>2. 1 .. events \subseteq Events /\ 0 .. events \subseteq 0 .. MaxEvents
  BY <1>1 DEF Events
<1>3. /\ passing \in 0 .. events /\ stock \subseteq 1 .. events
      /\ given \subseteq 1 .. events /\ parted \subseteq 1 .. events
  BY <1>1 DEF WaysInv, Once, RingOnly
<1> QED BY <1>2, <1>3 DEF GameTypes

\* Accounted, and the two ways together: the game gets it once.
LEMMA GivenByEitherWay == ASSUME RingInv, WaysInv PROVE GivenOnce
<1> SUFFICES ASSUME NEW e \in 1 .. events, e \notin parted
             PROVE  /\ TimesGiven(e) <= 1
                    /\ \/ TimesGiven(e) = 1 \/ InFlight(e) = 1
                       \/ StockDue(e) \/ fate[e]["dropped"] = 1
  BY DEF GivenOnce
<1>1. /\ fate[e]["served"] \in {0, 1} /\ fate[e]["discarded"] \in {0, 1} /\ e \in Events
      /\ ~Flying(e) => \/ fate[e]["served"] = 1 \/ fate[e]["discarded"] = 1
                       \/ fate[e]["dropped"] = 1
  BY OneFate
<1>2. InFlight(e) = 1 <=> Flying(e)
  BY FlyingIs
<1>3. TimesGiven(e) = fate[e]["served"] + IF e \in given THEN 1 ELSE 0
  BY DEF TimesGiven
<1>4. CASE os = "windows"
  <2>1. WayOf(e)
    BY <1>4 DEF WaysInv, Ways
  <2> QED BY <1>1, <1>2, <1>3, <2>1 DEF WayOf
<1>5. CASE os = "linux"
  <2>1. e \notin given /\ fate[e]["discarded"] = 0
    BY <1>1, <1>5 DEF WaysInv, RingOnly
  <2> QED BY <1>1, <1>2, <1>3, <2>1
<1> QED BY <1>4, <1>5 DEF RingInv, ClockTypes

\* MotionServed: between the ring (ring_push, ring_drain) and the accumulators
\* the game gets the motion of every event once, except for a full ring and
\* for the events that a change of the mode or the removal finds half-way on
\* Windows; and what rawinput2 serves is as old as the rest of the tick is
\* long, counted from its start on Windows and from the serve before on Linux.
THEOREM MotionAccounted == Spec => []MotionServed
<1>1. MotionInv => Accounted /\ OldEnough
  BY DEF MotionInv, RingInv, AgeInv, ClockTypes, ServeTypes, Threshold, Stamped, AtLeastZero, CountedFrom,
     OldEnough
<1>2. MotionInv /\ WaysInv => MotionServed
  BY <1>1, GivenByEitherWay DEF MotionInv, MotionServed
<1>3. MotionInv => RingInv
  BY DEF MotionInv
<1> QED BY <1>2, <1>3, InvInitially, InvPreserved, MotionInitially, MotionPreserved,
           WaysInitially, WaysPreserved, PTL DEF Spec
-----------------------------------------------------------------------------
(* The console's commands in their order.                                  *)

Plain(c) == c.run \notin {"stop", "record"}
AllPlain(S) == \A i \in 1 .. Len(S) : Plain(S[i])

\* The last of the demo commands before place i is a stop.
Stopped(S, i) ==
  \E j \in 1 .. i - 1 : S[j].run = "stop" /\ \A k \in j + 1 .. i - 1 : S[k].run # "record"

\* Run in this order, no record command meets a demo being recorded.
Orderly(S, rec) ==
  \A i \in 1 .. Len(S) : S[i].run = "record" =>
    Stopped(S, i) \/ (rec = NoMap /\ \A k \in 1 .. i - 1 : S[k].run # "record")

\* Once they have run, the demo of m is being recorded.
EndsWith(S, rec, m) ==
  \/ \E i \in 1 .. Len(S) :
       S[i].run = "record" /\ S[i].map = m /\ \A k \in i + 1 .. Len(S) : Plain(S[k])
  \/ AllPlain(S) /\ rec = m

LEMMA Appended ==
  ASSUME NEW S \in Seq(Commands), NEW c \in Commands
  PROVE  /\ Append(S, c) \in Seq(Commands)
         /\ Len(Append(S, c)) = Len(S) + 1 /\ Append(S, c)[Len(S) + 1] = c
         /\ \A i \in 1 .. Len(S) : Append(S, c)[i] = S[i]
         /\ Append(S, c) # S /\ Len(S) \in Nat
<1>1. /\ Append(S, c) \in Seq(Commands)
      /\ Len(Append(S, c)) = Len(S) + 1 /\ Append(S, c)[Len(S) + 1] = c
      /\ \A i \in 1 .. Len(S) : Append(S, c)[i] = S[i]
      /\ Len(S) \in Nat
  OBVIOUS
<1>2. Append(S, c) # S
  BY <1>1
<1> QED BY <1>1, <1>2

LEMMA AppendPlain ==
  ASSUME NEW S \in Seq(Commands), NEW c \in Commands, Plain(c), NEW rec, NEW m
  PROVE  /\ AllPlain(S) => AllPlain(Append(S, c))
         /\ Orderly(S, rec) => Orderly(Append(S, c), rec)
         /\ EndsWith(S, rec, m) => EndsWith(Append(S, c), rec, m)
<1> DEFINE T == Append(S, c)
           n == Len(S)
<1>1. /\ n \in Nat /\ Len(T) = n + 1 /\ T[n + 1] = c
      /\ \A i \in 1 .. n : T[i] = S[i]
  BY Appended
<1> HIDE DEF T, n
<1>2. AllPlain(S) => AllPlain(T)
  BY <1>1 DEF AllPlain, n
<1>3. ASSUME Orderly(S, rec) PROVE Orderly(T, rec)
  <2> SUFFICES ASSUME NEW i \in 1 .. n + 1, T[i].run = "record"
               PROVE  Stopped(T, i) \/ (rec = NoMap /\ \A k \in 1 .. i - 1 : T[k].run # "record")
    BY <1>1 DEF Orderly
  <2>1. i \in 1 .. n /\ S[i].run = "record"
    BY <1>1 DEF Plain
  <2>2. CASE Stopped(S, i)
    BY <1>1, <2>1, <2>2 DEF Stopped
  <2>3. CASE rec = NoMap /\ \A k \in 1 .. i - 1 : S[k].run # "record"
    BY <1>1, <2>1, <2>3
  <2> QED BY <1>3, <2>1, <2>2, <2>3 DEF Orderly, n
<1>4. ASSUME EndsWith(S, rec, m) PROVE EndsWith(T, rec, m)
  <2>1. CASE AllPlain(S) /\ rec = m
    BY <1>2, <2>1 DEF EndsWith
  <2>2. ASSUME NEW i \in 1 .. n, S[i].run = "record", S[i].map = m, \A k \in i + 1 .. n : Plain(S[k])
        PROVE  EndsWith(T, rec, m)
    <3>1. i \in 1 .. n + 1 /\ T[i] = S[i] /\ \A k \in i + 1 .. n + 1 : Plain(T[k])
      BY <1>1, <2>2
    <3> QED BY <1>1, <2>2, <3>1 DEF EndsWith
  <2> QED BY <1>4, <2>1, <2>2 DEF EndsWith, n
<1> QED BY <1>2, <1>3, <1>4 DEF T

LEMMA AppendStop ==
  ASSUME NEW S \in Seq(Commands), NEW rec, Orderly(S, rec)
  PROVE  Orderly(Append(S, Stop), rec) /\ Stopped(Append(S, Stop), Len(Append(S, Stop)) + 1)
<1> DEFINE T == Append(S, Stop)
           n == Len(S)
<1>1. /\ n \in Nat /\ Len(T) = n + 1 /\ T[n + 1] = Stop
      /\ \A i \in 1 .. n : T[i] = S[i]
  BY Appended DEF Commands
<1> HIDE DEF T, n
<1>2. Orderly(T, rec)
  <2> SUFFICES ASSUME NEW i \in 1 .. n + 1, T[i].run = "record"
               PROVE  Stopped(T, i) \/ (rec = NoMap /\ \A k \in 1 .. i - 1 : T[k].run # "record")
    BY <1>1 DEF Orderly
  <2>1. i \in 1 .. n /\ S[i].run = "record"
    BY <1>1 DEF Stop
  <2>2. CASE Stopped(S, i)
    BY <1>1, <2>1, <2>2 DEF Stopped
  <2>3. CASE rec = NoMap /\ \A k \in 1 .. i - 1 : S[k].run # "record"
    BY <1>1, <2>1, <2>3
  <2> QED BY <2>1, <2>2, <2>3 DEF Orderly, n
<1>3. Stopped(T, n + 2)
  BY <1>1 DEF Stopped, Stop
<1> QED BY <1>1, <1>2, <1>3 DEF T

\* A plain command after it changes nothing.
LEMMA StillStopped ==
  ASSUME NEW S \in Seq(Commands), NEW c \in Commands, Plain(c), Stopped(S, Len(S) + 1)
  PROVE  Stopped(Append(S, c), Len(Append(S, c)) + 1)
<1> DEFINE T == Append(S, c)
           n == Len(S)
<1>1. /\ n \in Nat /\ Len(T) = n + 1 /\ T[n + 1] = c
      /\ \A i \in 1 .. n : T[i] = S[i]
  BY Appended
<1> HIDE DEF T, n
<1>2. PICK j \in 1 .. n : S[j].run = "stop" /\ \A k \in j + 1 .. n : S[k].run # "record"
  BY <1>1 DEF Stopped, n
<1>3. \A k \in j + 1 .. n + 1 : T[k].run # "record"
  BY <1>1, <1>2 DEF Plain
<1>4. Stopped(T, n + 2)
  BY <1>1, <1>2, <1>3 DEF Stopped
<1> QED BY <1>1, <1>4 DEF T

LEMMA AppendRecord ==
  ASSUME NEW S \in Seq(Commands), NEW rec, NEW m \in DemoMaps, Orderly(S, rec), Stopped(S, Len(S) + 1)
  PROVE  Orderly(Append(S, Record(m)), rec) /\ EndsWith(Append(S, Record(m)), rec, m)
<1> DEFINE T == Append(S, Record(m))
           n == Len(S)
<1>1. /\ n \in Nat /\ Len(T) = n + 1 /\ T[n + 1] = Record(m)
      /\ \A i \in 1 .. n : T[i] = S[i]
  BY Appended DEF Commands
<1>a. Stopped(S, n + 1)
  OBVIOUS
<1> HIDE DEF T, n
<1>2. Orderly(T, rec)
  <2> SUFFICES ASSUME NEW i \in 1 .. n + 1, T[i].run = "record"
               PROVE  Stopped(T, i) \/ (rec = NoMap /\ \A k \in 1 .. i - 1 : T[k].run # "record")
    BY <1>1 DEF Orderly
  <2>1. CASE i = n + 1
    BY <1>1, <1>a, <2>1 DEF Stopped
  <2>2. CASE i \in 1 .. n
    <3>1. S[i].run = "record"
      BY <1>1, <2>2
    <3>2. CASE Stopped(S, i)
      BY <1>1, <2>2, <3>2 DEF Stopped
    <3>3. CASE rec = NoMap /\ \A k \in 1 .. i - 1 : S[k].run # "record"
      BY <1>1, <2>2, <3>3
    <3> QED BY <2>2, <3>1, <3>2, <3>3 DEF Orderly, n
  <2> QED BY <1>1, <2>1, <2>2
<1>3. EndsWith(T, rec, m)
  BY <1>1 DEF EndsWith, Record
<1> QED BY <1>2, <1>3 DEF T

\* The first command is run: what the game records then.
Heeds(c, rec) ==
  IF c.run = "stop" THEN NoMap ELSE IF c.run = "record" /\ rec = NoMap THEN c.map ELSE rec

LEMMA RunHead ==
  ASSUME NEW S \in Seq(Commands), S # <<>>, NEW rec, NEW m, Orderly(S, rec)
  PROVE  /\ Head(S).run = "record" => rec = NoMap
         /\ Orderly(Tail(S), Heeds(Head(S), rec))
         /\ EndsWith(S, rec, m) => EndsWith(Tail(S), Heeds(Head(S), rec), m)
<1> DEFINE T == Tail(S)
           n == Len(S)
           h == S[1]
           next == Heeds(h, rec)
<1>1. /\ n \in Nat /\ n >= 1 /\ Len(T) = n - 1 /\ Head(S) = h
      /\ \A i \in 1 .. n - 1 : T[i] = S[i + 1]
  OBVIOUS
<1>2. Orderly(S, rec) /\ n = Len(S) /\ h = S[1]
  OBVIOUS
<1>3. /\ h.run = "stop" => next = NoMap
      /\ h.run = "record" /\ rec = NoMap => next = h.map
      /\ h.run \notin {"stop", "record"} => next = rec
  BY DEF Heeds
<1> HIDE DEF T, n, h, next
<1>4. h.run = "record" => rec = NoMap
  BY <1>1, <1>2 DEF Orderly, Stopped
<1>5. Orderly(T, next)
  <2> SUFFICES ASSUME NEW i \in 1 .. n - 1, T[i].run = "record"
               PROVE  Stopped(T, i) \/ (next = NoMap /\ \A k \in 1 .. i - 1 : T[k].run # "record")
    BY <1>1 DEF Orderly
  <2>1. S[i + 1].run = "record" /\ i + 1 \in 1 .. n
    BY <1>1
  <2>2. CASE Stopped(S, i + 1)
    <3>1. PICK j \in 1 .. i : S[j].run = "stop" /\ \A k \in j + 1 .. i : S[k].run # "record"
      BY <2>2 DEF Stopped
    <3>2. CASE j = 1
      <4>1. next = NoMap
        BY <1>2, <1>3, <3>1, <3>2
      <4>2. \A k \in 1 .. i - 1 : T[k].run # "record"
        BY <1>1, <3>1, <3>2
      <4> QED BY <4>1, <4>2
    <3>3. CASE j # 1
      <4>1. j - 1 \in 1 .. i - 1 /\ T[j - 1].run = "stop"
        BY <1>1, <3>1, <3>3
      <4>2. ASSUME NEW k \in (j - 1) + 1 .. i - 1 PROVE T[k].run # "record"
        <5>1. k + 1 \in j + 1 .. i /\ k \in 1 .. n - 1
          BY <1>1, <3>1, <3>3
        <5> QED BY <1>1, <3>1, <5>1
      <4> QED BY <4>1, <4>2 DEF Stopped
    <3> QED BY <3>2, <3>3
  <2>3. CASE rec = NoMap /\ \A k \in 1 .. i : S[k].run # "record"
    <3>1. h.run # "record"
      BY <1>2, <2>3
    <3>2. next = NoMap
      BY <1>3, <2>3, <3>1
    <3>3. \A k \in 1 .. i - 1 : T[k].run # "record"
      BY <1>1, <2>3
    <3> QED BY <3>2, <3>3
  <2> QED BY <1>2, <2>1, <2>2, <2>3 DEF Orderly
<1>6. ASSUME EndsWith(S, rec, m) PROVE EndsWith(T, next, m)
  <2>1. CASE AllPlain(S) /\ rec = m
    <3>1. Plain(h) /\ AllPlain(T)
      BY <1>1, <1>2, <2>1 DEF AllPlain
    <3>2. next = m
      BY <1>3, <2>1, <3>1 DEF Plain
    <3> QED BY <3>1, <3>2 DEF EndsWith
  <2>2. ASSUME NEW i \in 1 .. n, S[i].run = "record", S[i].map = m, \A k \in i + 1 .. n : Plain(S[k])
        PROVE  EndsWith(T, next, m)
    <3>1. CASE i = 1
      <4>1. next = m
        BY <1>2, <1>3, <1>4, <2>2, <3>1
      <4>2. AllPlain(T)
        BY <1>1, <2>2, <3>1 DEF AllPlain
      <4> QED BY <4>1, <4>2 DEF EndsWith
    <3>2. CASE i # 1
      <4>1. i - 1 \in 1 .. n - 1 /\ T[i - 1] = S[i]
        BY <1>1, <3>2
      <4>2. \A k \in (i - 1) + 1 .. n - 1 : Plain(T[k])
        BY <1>1, <2>2, <3>2
      <4> QED BY <1>1, <2>2, <4>1, <4>2 DEF EndsWith
    <3> QED BY <3>1, <3>2
  <2> QED BY <1>2, <1>6, <2>1, <2>2 DEF EndsWith
<1> QED BY <1>1, <1>4, <1>5, <1>6 DEF T, next, n, h

-----------------------------------------------------------------------------
(* The commands on their way, in the queue or already taken from it.       *)

Coming == IF main = "run" THEN batch ELSE queue

EngineTypes ==
  /\ EngineTypeOK /\ (echo = "push" => lines < MaxLines)
  /\ main \in {"idle", "force", "demo", "pump", "run", "info"}

\* Commands are queued only while the integration stands, and on Linux its
\* last step puts it there.
Standing ==
  /\ stage # "done" => ~ready
  /\ ready \/ (pending = NoMap /\ AllPlain(queue))

\* The main thread queues a demo in one go, and what pump has taken is run
\* before the next.
InTurn ==
  /\ demo.at # "idle" => main = "demo" /\ ready /\ demo.map # NoMap
  /\ demo.at = "idle" => demo = NoDemo
  /\ main # "run" => batch = <<>>
  /\ main = "run" => AllPlain(queue)
  /\ os = "windows" /\ main \notin {"demo", "pump"} => AllPlain(queue)

InOrder == Orderly(Coming, recording) /\ ~clash

\* The stop of the demo being queued is in the queue, unless it is full.
StopQueued == demo.at = "record" => ~Room \/ Stopped(queue, Len(queue) + 1)

Ends == demo = NoDemo => full \/ EndsWith(Coming, recording, announced)

DemoInv == EngineTypes /\ Standing /\ InTurn /\ InOrder /\ StopQueued /\ Ends

LEMMA DemoInitially == Init => DemoInv
<1> SUFFICES ASSUME Init PROVE DemoInv
  OBVIOUS
<1> USE DEF Init, EngineInit
<1>1. EngineTypes
  <2>1. /\ queue \in Seq(Commands) /\ Len(queue) = 0 /\ batch \in Seq(Commands)
        /\ 0 <= QueueCap /\ lines \in 0 .. MaxLines
    BY QueueAssumption
  <2>0. ready \in BOOLEAN
    OBVIOUS
  <2>2. demo \in [at : {"idle", "stop", "record"}, map : DemoMaps \cup {NoMap}]
    BY DEF NoDemo
  <2>3. {recording, announced} \subseteq DemoMaps \cup {NoMap} /\ {full, clash} \subseteq BOOLEAN
    OBVIOUS
  <2> QED BY <2>0, <2>1, <2>2, <2>3 DEF EngineTypes, EngineTypeOK
<1>2. Standing /\ InTurn
  BY DEF Standing, InTurn, AllPlain, NoDemo
<1>3. Coming = <<>> /\ Len(Coming) = 0
  BY DEF Coming
<1>4. InOrder /\ StopQueued /\ Ends
  BY <1>3 DEF InOrder, Orderly, StopQueued, NoDemo, Ends, EndsWith, AllPlain
<1> QED BY <1>1, <1>2, <1>4 DEF DemoInv

\* What queue_command does to the queue.
LEMMA QueueCommandAdds ==
  ASSUME EngineTypes, NEW c \in Commands, QueueCommand(c)
  PROVE  /\ queue' \in Seq(Commands) /\ Len(queue') <= QueueCap
         /\ ready /\ Room => queue' = Append(queue, c)
         /\ ~(ready /\ Room) => queue' = queue
         /\ queue' = queue <=> ~(ready /\ Room)
<1>1. queue \in Seq(Commands) /\ Len(queue) <= QueueCap /\ QueueCap \in Nat
  BY QueueAssumption DEF EngineTypes, EngineTypeOK
<1>2. Append(queue, c) # queue /\ Append(queue, c) \in Seq(Commands) /\ Len(Append(queue, c)) = Len(queue) + 1
  BY <1>1, Appended
<1> QED BY <1>1, <1>2 DEF QueueCommand, Room

LEMMA CommandMap == \A c \in Commands : c.map \in DemoMaps \cup {NoMap}
<1> SUFFICES ASSUME NEW c \in Commands PROVE c.map \in DemoMaps \cup {NoMap}
  OBVIOUS
<1>1. CASE c \in {Stop, Mode2, Echo}
  <2>1. Stop.map = NoMap /\ Mode2.map = NoMap /\ Echo.map = NoMap
    BY DEF Stop, Mode2, Echo
  <2> QED BY <1>1, <2>1
<1>2. ASSUME NEW m \in DemoMaps, c = Record(m) PROVE c.map \in DemoMaps \cup {NoMap}
  BY <1>2 DEF Record
<1> QED BY <1>1, <1>2 DEF Commands

\* A step that leaves the console alone, and the main thread outside it.
LEMMA DemoApart ==
  ASSUME DemoInv, UNCHANGED <<engine, os>>, main \notin {"demo", "run", "pump"} \/ main' = main,
         main' \in {"idle", "force", "pump", "info"} \/ main' = main,
         stage' = stage \/ stage # "done"
  PROVE  DemoInv'
<1>1. Coming' = Coming /\ UNCHANGED <<ready, queue, pending, demo, batch, echo, lines, recording, announced, full, clash>>
  BY DEF DemoInv, InTurn, engine, Coming
<1> USE DEF DemoInv
<1>2. EngineTypes'
  BY <1>1 DEF EngineTypes, EngineTypeOK
<1>3. Standing'
  BY <1>1 DEF Standing
<1>4. InTurn'
  BY <1>1 DEF InTurn
<1>5. InOrder' /\ StopQueued' /\ Ends'
  BY <1>1 DEF InOrder, StopQueued, Ends, Room
<1> QED BY <1>2, <1>3, <1>4, <1>5

\* A plain command gets into the queue, or does not.
LEMMA PlainQueued ==
  ASSUME DemoInv, NEW c \in Commands, Plain(c),
         queue' = queue \/ (queue' = Append(queue, c) /\ Room),
         UNCHANGED <<os, stage, ready, pending, demo, batch, recording, announced, full, clash>>,
         echo' \in {"idle", "push"}, lines' \in 0 .. MaxLines, echo' = "push" => lines' < MaxLines,
         main \notin {"demo", "run", "pump"} \/ main' = main,
         main' \in {"idle", "force", "demo", "pump", "info"} \/ main' = main
  PROVE  DemoInv'
<1> USE DEF DemoInv
<1>1. queue \in Seq(Commands) /\ Len(queue) \in Nat /\ QueueCap \in Nat /\ queue' \in Seq(Commands)
  BY Appended, QueueAssumption DEF EngineTypes, EngineTypeOK
<1>2. EngineTypes'
  <2>1. Len(queue') <= QueueCap
    BY <1>1, Appended DEF EngineTypes, EngineTypeOK, Room
  <2> QED BY <1>1, <2>1 DEF EngineTypes, EngineTypeOK
<1>3. AllPlain(queue) => AllPlain(queue')
  BY <1>1, AppendPlain
<1>4. Standing'
  BY <1>3 DEF Standing, AllPlain
<1>5. InTurn'
  BY <1>3 DEF InTurn, AllPlain
<1>6. /\ Orderly(Coming, recording) => Orderly(Coming', recording)
      /\ EndsWith(Coming, recording, announced) => EndsWith(Coming', recording, announced)
  <2>1. CASE main = "run"
    BY <2>1 DEF Coming
  <2>2. CASE main # "run"
    BY <1>1, <2>2, AppendPlain DEF Coming
  <2> QED BY <2>1, <2>2
<1>7. InOrder'
  BY <1>6 DEF InOrder, Orderly, Stopped
<1>8. Ends'
  BY <1>6 DEF Ends, EndsWith, AllPlain
<1>9. StopQueued'
  <2>1. CASE queue' = queue
    BY <2>1 DEF StopQueued, Room
  <2>2. CASE queue' = Append(queue, c) /\ Room
    <3>1. Stopped(queue, Len(queue) + 1) => Stopped(Append(queue, c), Len(Append(queue, c)) + 1)
      BY <1>1, StillStopped
    <3> QED BY <2>2, <3>1 DEF StopQueued, Stopped
  <2> QED BY <2>1, <2>2
<1> QED BY <1>2, <1>4, <1>5, <1>7, <1>8, <1>9

LEMMA ForceModeQueues == ASSUME DemoInv, ForceMode PROVE DemoInv'
<1>1. Mode2 \in Commands /\ Plain(Mode2)
  BY DEF Mode2, Commands, Plain
<1>2. /\ main = "force" /\ main' = "demo"
      /\ UNCHANGED <<os, stage, ready, pending, demo, batch, echo, lines, recording, announced, full, clash>>
  BY DEF ForceMode, At, install
<1>3. queue' = queue \/ (queue' = Append(queue, Mode2) /\ Room)
  BY DEF ForceMode, QueueCommand
<1>4. echo' \in {"idle", "push"} /\ lines' \in 0 .. MaxLines /\ (echo' = "push" => lines' < MaxLines)
  BY <1>2 DEF DemoInv, EngineTypes, EngineTypeOK
<1>5. main \notin {"demo", "run", "pump"} /\ main' \in {"idle", "force", "demo", "pump", "info"}
  BY <1>2
<1> QED BY <1>1, <1>2, <1>3, <1>4, <1>5, PlainQueued

LEMMA EchoQueues == ASSUME DemoInv, EchoStep PROVE DemoInv'
<1>1. Echo \in Commands /\ Plain(Echo)
  BY DEF Echo, Commands, Plain
<1>2. /\ main' = main
      /\ UNCHANGED <<os, stage, ready, pending, demo, batch, recording, announced, full, clash>>
  BY DEF EchoStep, EchoCheck, EchoPush, install
<1>3. queue' = queue \/ (queue' = Append(queue, Echo) /\ Room)
  BY DEF EchoStep, EchoCheck, EchoPush
<1>4. echo' \in {"idle", "push"} /\ lines' \in 0 .. MaxLines /\ (echo' = "push" => lines' < MaxLines)
  <2>1. lines \in 0 .. MaxLines /\ MaxLines \in Nat /\ (echo = "push" => lines < MaxLines)
    BY QueueAssumption DEF DemoInv, EngineTypes, EngineTypeOK
  <2>2. CASE EchoCheck
    <3>1. echo' = "push" /\ lines' = lines /\ lines < MaxLines
      BY <2>2 DEF EchoCheck
    <3> QED BY <2>1, <3>1
  <2>3. CASE EchoPush
    <3>1. echo' = "idle" /\ lines' = lines + 1 /\ echo = "push"
      BY <2>3 DEF EchoPush
    <3> QED BY <2>1, <3>1
  <2> QED BY <2>2, <2>3 DEF EchoStep
<1> QED BY <1>1, <1>2, <1>3, <1>4, PlainQueued

LEMMA ServerInfoArms == ASSUME DemoInv, NEW m \in DemoMaps, ServerInfo(m) PROVE DemoInv'
<1> USE DEF DemoInv
<1>1. /\ main = "idle" /\ main' = "info" /\ pending' = IF ready THEN m ELSE pending
      /\ UNCHANGED <<os, stage, ready, queue, demo, batch, echo, lines, recording, announced, full, clash>>
  BY DEF ServerInfo, ArmDemo, At, install
<1>2. Coming' = Coming
  BY <1>1 DEF Coming
<1>3. EngineTypes'
  BY <1>1 DEF EngineTypes, EngineTypeOK
<1>4. Standing'
  BY <1>1 DEF Standing
<1>5. InTurn'
  BY <1>1 DEF InTurn
<1>6. InOrder' /\ StopQueued' /\ Ends'
  BY <1>1, <1>2 DEF InOrder, StopQueued, Ends, Room
<1> QED BY <1>3, <1>4, <1>5, <1>6

LEMMA StartDemoQueues == ASSUME DemoInv, StartDemo PROVE DemoInv'
<1> USE DEF DemoInv
<1>1. /\ main = "demo" /\ UNCHANGED <<os, stage>> /\ Coming = queue
      /\ queue \in Seq(Commands) /\ batch = <<>>
  BY DEF StartDemo, At, install, Coming, EngineTypes, EngineTypeOK, InTurn
<1>2. CASE demo = NoDemo /\ TakeDemo /\ UNCHANGED main
  <2>1. /\ demo' = [at |-> "stop", map |-> pending] /\ pending # NoMap /\ pending' = NoMap /\ full' = FALSE
        /\ UNCHANGED <<main, ready, queue, batch, echo, lines, recording, announced, clash>>
    BY <1>2 DEF TakeDemo
  <2>2. pending \in DemoMaps /\ ready
    BY <2>1 DEF EngineTypes, EngineTypeOK, Standing
  <2>3. EngineTypes'
    <3>1. demo' \in [at : {"idle", "stop", "record"}, map : DemoMaps \cup {NoMap}]
      BY <2>1, <2>2
    <3>2. {full', clash'} \subseteq BOOLEAN
      BY <2>1 DEF EngineTypes, EngineTypeOK
    <3> QED BY <2>1, <3>1, <3>2 DEF EngineTypes, EngineTypeOK
  <2>4. Standing' /\ StopQueued' /\ Ends'
    BY <1>1, <2>1, <2>2 DEF Standing, StopQueued, Ends, NoDemo
  <2>5. InTurn'
    BY <1>1, <2>1, <2>2 DEF InTurn
  <2>6. InOrder'
    BY <1>1, <2>1 DEF InOrder, Coming
  <2> QED BY <2>3, <2>4, <2>5, <2>6
<1>3. CASE demo = NoDemo /\ pending = NoMap /\ main' = AfterDemo /\ UNCHANGED engine
  <2>1. UNCHANGED <<ready, queue, pending, demo, batch, echo, lines, recording, announced, full, clash>>
    BY <1>3 DEF engine
  <2>2. main' = (IF os = "windows" THEN "pump" ELSE "idle") /\ Coming' = Coming
    BY <1>1, <1>3, <2>1 DEF AfterDemo, Coming
  <2>3. EngineTypes'
    BY <2>1, <2>2 DEF EngineTypes, EngineTypeOK
  <2>4. Standing'
    BY <1>1, <2>1 DEF Standing
  <2>5. InTurn'
    BY <1>1, <1>3, <2>1, <2>2 DEF InTurn, NoDemo
  <2>6. InOrder' /\ StopQueued' /\ Ends'
    BY <2>1, <2>2 DEF InOrder, StopQueued, Ends, Room
  <2> QED BY <2>3, <2>4, <2>5, <2>6
<1>4. CASE QueueStop /\ UNCHANGED main
  <2>1. /\ demo.at = "stop" /\ QueueCommand(Stop) /\ demo' = [demo EXCEPT !.at = "record"]
        /\ UNCHANGED <<main, ready, pending, batch, echo, lines, recording, announced, clash>>
    BY <1>4 DEF QueueStop
  <2>2. demo \in [at : {"idle", "stop", "record"}, map : DemoMaps \cup {NoMap}] /\ ready /\ demo.map # NoMap
    BY <2>1 DEF EngineTypes, EngineTypeOK, InTurn
  <2>3. /\ queue' \in Seq(Commands) /\ Len(queue') <= QueueCap
        /\ Room => queue' = Append(queue, Stop)
        /\ ~Room => queue' = queue
    BY <2>1, <2>2, QueueCommandAdds DEF Commands
  <2>4. demo' \in [at : {"idle", "stop", "record"}, map : DemoMaps \cup {NoMap}]
        /\ demo'.at = "record" /\ demo'.map = demo.map
    BY <2>1, <2>2
  <2>5. EngineTypes'
    <3>1. {full', clash'} \subseteq BOOLEAN
      BY <1>4 DEF QueueStop, EngineTypes, EngineTypeOK
    <3> QED BY <2>1, <2>3, <2>4, <3>1 DEF EngineTypes, EngineTypeOK
  <2>6. Standing'
    BY <1>1, <2>1, <2>2 DEF Standing
  <2>7. InTurn'
    BY <1>1, <2>1, <2>2, <2>4 DEF InTurn
  <2>8. Orderly(queue, recording)
    BY <1>1 DEF InOrder
  <2>9. CASE Room
    <3>1. Orderly(queue', recording) /\ Stopped(queue', Len(queue') + 1)
      BY <1>1, <2>3, <2>8, <2>9, AppendStop
    <3>2. Coming' = queue'
      BY <1>1, <2>1 DEF Coming
    <3>3. InOrder'
      BY <2>1, <3>1, <3>2 DEF InOrder
    <3>4. StopQueued' /\ Ends'
      BY <2>4, <3>1 DEF StopQueued, Ends, NoDemo
    <3> QED BY <2>5, <2>6, <2>7, <3>3, <3>4
  <2>10. CASE ~Room
    <3>1. queue' = queue /\ Coming' = queue /\ ~Room'
      BY <1>1, <2>1, <2>3, <2>10 DEF Coming, Room
    <3>2. InOrder'
      BY <1>1, <2>1, <3>1 DEF InOrder
    <3>3. StopQueued' /\ Ends'
      BY <2>4, <3>1 DEF StopQueued, Ends, NoDemo
    <3> QED BY <2>5, <2>6, <2>7, <3>2, <3>3
  <2> QED BY <2>9, <2>10
<1>5. CASE QueueRecord /\ main' = AfterDemo
  <2>1. PICK m \in DemoMaps : m = demo.map
    BY <1>5 DEF QueueRecord, EngineTypes, EngineTypeOK, InTurn
  <2>2. /\ demo.at = "record" /\ QueueCommand(Record(m)) /\ demo' = NoDemo /\ announced' = m
        /\ UNCHANGED <<ready, pending, batch, echo, lines, recording, clash>>
    BY <1>5, <2>1 DEF QueueRecord
  <2>3. ready /\ main' \in {"pump", "idle"} /\ (os = "windows" => main' = "pump")
    BY <1>5, <2>2 DEF InTurn, AfterDemo
  <2>4. /\ queue' \in Seq(Commands) /\ Len(queue') <= QueueCap
        /\ Room => queue' = Append(queue, Record(m))
        /\ ~Room => queue' = queue
    BY <2>2, <2>3, QueueCommandAdds DEF Commands
  <2>5. EngineTypes'
    <3>1. {full', clash'} \subseteq BOOLEAN
      BY <1>5 DEF QueueRecord, EngineTypes, EngineTypeOK
    <3>2. demo' \in [at : {"idle", "stop", "record"}, map : DemoMaps \cup {NoMap}]
      BY <2>2 DEF NoDemo
    <3> QED BY <2>2, <2>3, <2>4, <3>1, <3>2 DEF EngineTypes, EngineTypeOK
  <2>6. Standing'
    BY <1>1, <2>2, <2>3 DEF Standing
  <2>7. InTurn'
    BY <1>1, <2>2, <2>3 DEF InTurn, NoDemo
  <2>8. StopQueued'
    BY <2>2 DEF StopQueued, NoDemo
  <2>9. Coming' = queue' /\ Orderly(queue, recording)
    BY <1>1, <2>3 DEF Coming, InOrder
  <2>10. CASE Room
    <3>1. Stopped(queue, Len(queue) + 1)
      BY <2>2, <2>10 DEF StopQueued
    <3>2. Orderly(queue', recording) /\ EndsWith(queue', recording, m)
      BY <1>1, <2>4, <2>9, <2>10, <3>1, AppendRecord
    <3>3. InOrder' /\ Ends'
      BY <2>2, <2>9, <3>2 DEF InOrder, Ends
    <3> QED BY <2>5, <2>6, <2>7, <2>8, <3>3
  <2>11. CASE ~Room
    <3>1. queue' = queue /\ full'
      BY <1>5, <2>4, <2>11 DEF QueueRecord
    <3>2. InOrder' /\ Ends'
      BY <1>1, <2>2, <2>9, <3>1 DEF InOrder, Ends
    <3> QED BY <2>5, <2>6, <2>7, <2>8, <3>2
  <2> QED BY <2>10, <2>11
<1> QED BY <1>2, <1>3, <1>4, <1>5 DEF StartDemo

LEMMA PumpTakes == ASSUME DemoInv, PumpCommands PROVE DemoInv'
<1> USE DEF DemoInv
<1>1. /\ main = "pump" /\ main' = "run" /\ batch' = (IF ready THEN queue ELSE <<>>)
      /\ queue' = (IF ready THEN <<>> ELSE queue)
      /\ UNCHANGED <<os, stage, ready, pending, demo, echo, lines, recording, announced, full, clash>>
  BY DEF PumpCommands, Pump, At, install
<1>2. queue \in Seq(Commands) /\ <<>> \in Seq(Commands) /\ Len(<<>>) = 0 /\ AllPlain(<<>>) /\ QueueCap \in Nat
  BY QueueAssumption DEF EngineTypes, EngineTypeOK, AllPlain
<1>3. EngineTypes'
  BY <1>1, <1>2 DEF EngineTypes, EngineTypeOK
<1>4. AllPlain(queue')
  BY <1>1, <1>2 DEF Standing
<1>5. Standing'
  BY <1>1, <1>4 DEF Standing, AllPlain
<1>6. InTurn'
  BY <1>1, <1>4 DEF InTurn, AllPlain
<1>7. StopQueued'
  BY <1>1 DEF StopQueued, InTurn
<1>8. Coming = queue /\ Coming' = batch'
  BY <1>1 DEF Coming
<1>9. CASE ready
  BY <1>1, <1>3, <1>5, <1>6, <1>7, <1>8, <1>9 DEF InOrder, Ends
<1>10. CASE ~ready
  <2>1. AllPlain(queue) /\ Coming' = <<>>
    BY <1>1, <1>8, <1>10 DEF Standing
  <2>2. EndsWith(queue, recording, announced) => recording = announced
    BY <1>2, <2>1 DEF EndsWith, AllPlain, Plain
  <2>3. Ends'
    BY <1>1, <1>2, <1>8, <2>1, <2>2 DEF Ends, EndsWith
  <2>4. InOrder'
    BY <1>1, <1>2, <2>1 DEF InOrder, Orderly
  <2> QED BY <1>3, <1>5, <1>6, <1>7, <2>3, <2>4
<1> QED BY <1>9, <1>10

LEMMA RunRuns == ASSUME DemoInv, RunCommand PROVE DemoInv'
<1> USE DEF DemoInv
<1>1. main = "run" /\ UNCHANGED <<os, stage>> /\ batch \in Seq(Commands) /\ Coming = batch /\ AllPlain(queue)
      /\ queue \in Seq(Commands)
  BY DEF RunCommand, At, install, EngineTypes, EngineTypeOK, Coming, InTurn
<1>2. CASE batch = <<>>
  <2>1. main' = "idle" /\ UNCHANGED <<ready, queue, pending, demo, batch, echo, lines, recording, announced, full, clash>>
    BY <1>2 DEF RunCommand, engine
  <2>2. Coming' = queue
    BY <2>1 DEF Coming
  <2>3. EndsWith(batch, recording, announced) => EndsWith(queue, recording, announced)
    BY <1>1, <1>2 DEF EndsWith
  <2>4. Orderly(queue, recording)
    BY <1>1 DEF Orderly, AllPlain, Plain
  <2>5. InOrder' /\ Ends'
    BY <1>1, <2>1, <2>2, <2>3, <2>4 DEF InOrder, Ends
  <2>6. EngineTypes'
    BY <2>1 DEF EngineTypes, EngineTypeOK
  <2>7. Standing' /\ InTurn'
    BY <1>1, <1>2, <2>1 DEF Standing, InTurn
  <2>8. StopQueued'
    BY <1>1, <2>1 DEF StopQueued, InTurn
  <2> QED BY <2>5, <2>6, <2>7, <2>8
<1>3. CASE batch # <<>>
  <2> DEFINE h == Head(batch)
  <2>1. /\ main' = main /\ batch' = Tail(batch) /\ recording' = Heeds(h, recording)
        /\ clash' = (clash \/ (h.run = "record" /\ recording # NoMap))
        /\ UNCHANGED <<ready, queue, pending, demo, echo, lines, announced, full>>
    BY <1>3 DEF RunCommand, Run, Heeds
  <2>2. /\ h.run = "record" => recording = NoMap
        /\ Orderly(batch', recording')
        /\ EndsWith(batch, recording, announced) => EndsWith(batch', recording', announced)
    BY <1>1, <1>3, <2>1, RunHead DEF InOrder
  <2>3. Coming' = batch'
    BY <1>1, <2>1 DEF Coming
  <2>4. InOrder' /\ Ends'
    BY <1>1, <2>1, <2>2, <2>3 DEF InOrder, Ends
  <2>5. EngineTypes'
    <3>1. h \in Commands /\ Tail(batch) \in Seq(Commands)
      BY <1>1, <1>3
    <3>2. recording' \in DemoMaps \cup {NoMap}
      <4>1. h.map \in DemoMaps \cup {NoMap}
        BY <3>1, CommandMap
      <4>2. recording \in DemoMaps \cup {NoMap}
        BY DEF EngineTypes, EngineTypeOK
      <4> QED BY <2>1, <4>1, <4>2 DEF Heeds
    <3>3. {full', clash'} \subseteq BOOLEAN
      BY <2>1 DEF EngineTypes, EngineTypeOK
    <3> QED BY <2>1, <3>1, <3>2, <3>3 DEF EngineTypes, EngineTypeOK
  <2>6. Standing' /\ InTurn'
    BY <1>1, <2>1 DEF Standing, InTurn
  <2>7. StopQueued'
    BY <2>1 DEF StopQueued, Room
  <2> QED BY <2>4, <2>5, <2>6, <2>7
<1> QED BY <1>2, <1>3

LEMMA ShutdownEmpties == ASSUME DemoInv, Shutdown PROVE DemoInv'
<1> USE DEF DemoInv
<1>1. /\ os = "windows" /\ main = "idle" /\ ready' = FALSE /\ queue' = <<>> /\ pending' = NoMap
      /\ UNCHANGED <<os, main, stage, demo, batch, echo, lines, recording, announced, full, clash>>
  BY DEF Shutdown, At
<1>2. <<>> \in Seq(Commands) /\ Len(<<>>) = 0 /\ AllPlain(<<>>) /\ QueueCap \in Nat
  BY QueueAssumption DEF AllPlain
<1>3. AllPlain(queue) /\ Coming = queue /\ Coming' = <<>> /\ demo.at = "idle" /\ queue \in Seq(Commands)
  BY <1>1 DEF InTurn, Coming, EngineTypes, EngineTypeOK
<1>4. EngineTypes'
  <2>1. ready' \in BOOLEAN
    BY <1>1
  <2> QED BY <1>1, <1>2, <2>1 DEF EngineTypes, EngineTypeOK
<1>5. Standing'
  BY <1>1, <1>2 DEF Standing
<1>6. InTurn'
  BY <1>1, <1>2, <1>3 DEF InTurn
<1>7. EndsWith(queue, recording, announced) => recording = announced
  BY <1>3 DEF EndsWith, AllPlain, Plain
<1>8. InOrder' /\ Ends'
  BY <1>1, <1>2, <1>3, <1>7 DEF InOrder, Orderly, Ends, EndsWith
<1>9. StopQueued'
  BY <1>1, <1>3 DEF StopQueued
<1> QED BY <1>4, <1>5, <1>6, <1>8, <1>9

LEMMA EngineReadyStands == ASSUME DemoInv, EngineReady PROVE DemoInv'
<1> USE DEF DemoInv
<1>1. /\ stage = "engine" /\ stage' = "done" /\ ready' \in BOOLEAN
      /\ UNCHANGED <<os, queue, pending, demo, batch, echo, lines, recording, announced, full, clash, main>>
  BY DEF EngineReady
<1>2. Coming' = Coming /\ ~ready /\ pending = NoMap /\ demo.at = "idle" /\ AllPlain(queue)
  BY <1>1 DEF Coming, Standing, InTurn
<1>3. EngineTypes'
  BY <1>1 DEF EngineTypes, EngineTypeOK
<1>4. Standing'
  BY <1>1, <1>2 DEF Standing
<1>5. InTurn'
  BY <1>1, <1>2 DEF InTurn
<1>6. InOrder' /\ StopQueued' /\ Ends'
  BY <1>1, <1>2 DEF InOrder, StopQueued, Ends
<1> QED BY <1>3, <1>4, <1>5, <1>6

\* Every other step leaves the console alone.
LEMMA DemoPreserved == DemoInv /\ [Next]_vars => DemoInv'
<1> SUFFICES ASSUME DemoInv, [Next]_vars PROVE DemoInv'
  OBVIOUS
<1>1. CASE UNCHANGED vars
  BY <1>1, DemoApart DEF vars, install
<1>2. CASE InstallStep
  <2>1. CASE EngineReady
    BY <2>1, EngineReadyStands
  <2>2. CASE ~EngineReady
    <3>1. stage # "done" /\ UNCHANGED <<os, engine, main>>
      BY <1>2, <2>2 DEF InstallStep, InstallPoll, InstallGetRaw, PublishMove, InstallMove1,
         InstallMove2, Withdraw, PatchInfo, StoreOrig, Installing
    <3> QED BY <3>1, DemoApart
  <2> QED BY <2>1, <2>2
<1>3. CASE PollEvent \/ WindowProc \/ GetRaw \/ Drain \/ FinishPush
  <2>1. UNCHANGED <<os, engine, stage>> /\ (main' = main \/ (main = "idle" /\ main' = "pump"))
    BY <1>3 DEF PollEvent, WindowProc, GetRaw, Drain, FinishPush, At, install
  <2> QED BY <2>1, DemoApart
<1>4. CASE (\E slot \in Moves, s \in Samples : TickBegins(slot, s)) \/ InfoOriginal
           \/ (\E n \in {1, 2} : SetMode(n)) \/ Clock
  <2>1. /\ UNCHANGED <<os, engine, stage>>
        /\ main' = main \/ (main = "idle" /\ main' = "force") \/ (main = "info" /\ main' = "idle")
    BY <1>4 DEF TickBegins, InfoOriginal, SetMode, Clock, At, install
  <2> QED BY <2>1, DemoApart
<1>5. CASE ForceMode \/ StartDemo \/ PumpCommands \/ RunCommand
  BY <1>5, ForceModeQueues, StartDemoQueues, PumpTakes, RunRuns
<1>6. CASE EchoStep \/ Shutdown \/ \E m \in DemoMaps : ServerInfo(m)
  BY <1>6, EchoQueues, ShutdownEmpties, ServerInfoArms
<1> QED BY <1>1, <1>2, <1>3, <1>4, <1>5, <1>6 DEF Next

\* DemosAsAnnounced: a record command follows the stop of the demo before it,
\* through every interleaving with the other commands and any refusal.
THEOREM DemosRecorded == Spec => []DemosAsAnnounced
<1>1. DemoInv => DemosAsAnnounced
  <2> SUFFICES ASSUME DemoInv PROVE DemosAsAnnounced
    OBVIOUS
  <2>1. ~clash
    BY DEF DemoInv, InOrder
  <2>2. ASSUME Settled PROVE recording = announced \/ full
    <3>1. Coming = <<>>
      BY <2>2 DEF Settled, Coming
    <3>2. full \/ EndsWith(<<>>, recording, announced)
      BY <2>2, <3>1 DEF DemoInv, Ends, Settled
    <3> QED BY <3>2 DEF EndsWith
  <2> QED BY <2>1, <2>2 DEF DemosAsAnnounced
<1> QED BY <1>1, DemoInitially, DemoPreserved, PTL DEF Spec

-----------------------------------------------------------------------------
(* Types.                                                                  *)

RestTypes ==
  /\ forced \in BOOLEAN /\ hooked \subseteq Hooks
  /\ origMove \in BOOLEAN /\ origInfo \in BOOLEAN

LEMMA RestInitially == Init => RestTypes
  BY DEF Init, RestTypes

LEMMA RestPreserved == RestTypes /\ [Next]_vars => RestTypes'
<1> SUFFICES ASSUME RestTypes, [Next]_vars PROVE RestTypes'
  OBVIOUS
<1> USE DEF RestTypes
<1>1. CASE InstallStep
  <2>1. hooked' \subseteq Hooks
    BY <1>1 DEF InstallStep, InstallPoll, InstallGetRaw, PublishMove, InstallMove1, InstallMove2,
       Withdraw, PatchInfo, StoreOrig, EngineReady, Hook, Hooks, Moves
  <2>2. forced' = forced
    BY <1>1 DEF InstallStep, InstallPoll, InstallGetRaw, PublishMove, InstallMove1, InstallMove2,
       Withdraw, PatchInfo, StoreOrig, EngineReady, Installing
  <2>3. CASE Withdraw
    BY <2>1, <2>2, <2>3 DEF Withdraw
  <2>4. CASE PublishMove \/ StoreOrig
    BY <2>1, <2>2, <2>4 DEF PublishMove, StoreOrig
  <2>5. CASE ~(Withdraw \/ PublishMove \/ StoreOrig)
    <3>1. UNCHANGED <<origMove, origInfo>>
      BY <1>1, <2>5 DEF InstallStep, InstallPoll, InstallGetRaw, InstallMove1, InstallMove2,
         PatchInfo, EngineReady
    <3> QED BY <2>1, <2>2, <3>1
  <2> QED BY <2>3, <2>4, <2>5
<1>2. CASE ForceMode
  BY <1>2 DEF ForceMode, install
<1>3. CASE Shutdown
  BY <1>3 DEF Shutdown
<1>4. CASE /\ ~InstallStep /\ ~ForceMode /\ ~Shutdown
           /\ Next \/ UNCHANGED vars
  <2>1. UNCHANGED <<forced, install>>
    BY <1>4 DEF Next, vars, PollEvent, WindowProc, GetRaw, Drain, FinishPush, TickBegins,
       StartDemo, PumpCommands, RunCommand, ServerInfo, InfoOriginal, EchoStep, SetMode, Clock
  <2> QED BY <2>1 DEF install
<1> QED BY <1>1, <1>2, <1>3, <1>4 DEF Next

\* TypeOK: the ring's indices, the queue's length and everything else stay
\* what the code takes them to be.
THEOREM GameThreadTyped == Spec => []TypeOK
<1>1. ASSUME Inv, MotionInv, WaysInv, DemoInv, RestTypes PROVE TypeOK
  <2>1. RawTypeOK
    <3>1. RingInv
      BY <1>1 DEF MotionInv
    <3>2. GameTypes
      BY <1>1, <3>1, WaysTypes
    <3> QED BY <3>1, <3>2, RawTypes DEF RingInv
  <2>2. EngineTypeOK /\ main \in {"idle", "force", "demo", "pump", "run", "info"}
    BY <1>1 DEF DemoInv, EngineTypes
  <2>3. missed \subseteq Hooks \X Stages
    BY <1>1 DEF Inv, OnlyInfoMissed, Hooks, Moves, Stages
  <2>4. {origMove, origInfo} \subseteq BOOLEAN
    BY <1>1 DEF RestTypes
  <2> QED BY <1>1, <2>1, <2>2, <2>3, <2>4 DEF TypeOK, Inv, RestTypes
<1>2. MotionInv => RingInv
  BY DEF MotionInv
<1> QED BY <1>1, <1>2, InvInitially, InvPreserved, MotionInitially, MotionPreserved,
           WaysInitially, WaysPreserved, DemoInitially, DemoPreserved,
           RestInitially, RestPreserved, PTL DEF Spec
=============================================================================
