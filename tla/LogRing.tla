------------------------------- MODULE LogRing -------------------------------
(***************************************************************************)
(* The log ring of the shared control block (bhopfix-core/src/control.rs): *)
(* threads of the game write records with push_log under a spin lock, the  *)
(* controller drains them with read_log in flush_logs (bunnyhopfix/src/    *)
(* windows/inject.rs) without any lock.                                    *)
(*                                                                         *)
(* A record is told by its sequence number; a slot holds its head (level   *)
(* and length) and its body (the bytes), which are written and read one    *)
(* after the other.  Stores and loads take effect in program order, as on  *)
(* the x86-64 machines the program is built for.                           *)
(***************************************************************************)
EXTENDS Naturals

CONSTANTS
  Writers,     \* threads that log
  NoWriter,    \* log_writer is zero
  Slots,       \* LOG_SLOTS
  MaxRecords   \* bound: records written

ASSUME WritersAssumption == NoWriter \notin Writers
ASSUME SlotsAssumption == Slots \in Nat \ {0} /\ MaxRecords \in Nat

VARIABLES
  lock,      \* log_writer: the thread that has set it
  step,      \* per writer: its step in push_log
  mine,      \* per writer: the sequence it has allocated
  logWrite,  \* log_write
  sequence,  \* per slot: LogSlot.sequence
  head,      \* per slot: whose level and length it holds
  body,      \* per slot: whose bytes it holds
  at,        \* the controller's step in flush_logs
  latest,    \* latest_log_sequence when this flush began
  next,      \* next_log
  copied,    \* head and body copied out for `next`
  emitted,   \* the record printed last: its number and what it was made of
  reported   \* records reported as dropped

slots == <<sequence, head, body>>
writing == <<lock, step, mine, logWrite>>
reading == <<at, latest, next, copied, emitted, reported>>
logVars == <<writing, slots, reading>>

SlotOf(n) == (n - 1) % Slots
Ring == 0 .. Slots - 1
Nothing == [seq |-> 0, head |-> 0, body |-> 0]

LogInit ==
  /\ lock = NoWriter
  /\ step = [w \in Writers |-> "idle"]
  /\ mine = [w \in Writers |-> 0]
  /\ logWrite = 0
  /\ sequence = [k \in Ring |-> 0]
  /\ head = [k \in Ring |-> 0]
  /\ body = [k \in Ring |-> 0]
  /\ at = "idle" /\ latest = 0 /\ next = 1
  /\ copied = [head |-> 0, body |-> 0]
  /\ emitted = Nothing
  /\ reported = 0

-----------------------------------------------------------------------------
(* push_log.                                                               *)

Go(w, from, to) ==
  /\ step[w] = from
  /\ step' = [step EXCEPT ![w] = to]

Call(w) ==
  /\ Go(w, "idle", "spin")
  /\ UNCHANGED <<lock, mine, logWrite, slots, reading>>

\* compare_exchange_weak(0, 1).
Lock(w) ==
  /\ lock = NoWriter
  /\ Go(w, "spin", "allocate")
  /\ lock' = w
  /\ UNCHANGED <<mine, logWrite, slots, reading>>

Allocate(w) ==
  /\ logWrite < MaxRecords
  /\ Go(w, "allocate", "invalidate")
  /\ logWrite' = logWrite + 1
  /\ mine' = [mine EXCEPT ![w] = logWrite']
  /\ UNCHANGED <<lock, slots, reading>>

Invalidate(w) ==
  /\ Go(w, "invalidate", "body")
  /\ sequence' = [sequence EXCEPT ![SlotOf(mine[w])] = 0]
  /\ UNCHANGED <<lock, mine, logWrite, head, body, reading>>

StoreBody(w) ==
  /\ Go(w, "body", "head")
  /\ body' = [body EXCEPT ![SlotOf(mine[w])] = mine[w]]
  /\ UNCHANGED <<lock, mine, logWrite, sequence, head, reading>>

StoreHead(w) ==
  /\ Go(w, "head", "publish")
  /\ head' = [head EXCEPT ![SlotOf(mine[w])] = mine[w]]
  /\ UNCHANGED <<lock, mine, logWrite, sequence, body, reading>>

Publish(w) ==
  /\ Go(w, "publish", "unlock")
  /\ sequence' = [sequence EXCEPT ![SlotOf(mine[w])] = mine[w]]
  /\ UNCHANGED <<lock, mine, logWrite, head, body, reading>>

Unlock(w) ==
  /\ Go(w, "unlock", "idle")
  /\ lock' = NoWriter
  /\ UNCHANGED <<mine, logWrite, slots, reading>>

-----------------------------------------------------------------------------
(* flush_logs and read_log.                                                *)

\* Mutation: the jump goes one record too far.
BeginTooLate ==
  /\ at = "idle"
  /\ latest' = logWrite
  /\ at' = "check"
  /\ LET oldest == logWrite - Slots + 2
         overrun == logWrite >= next + Slots
     IN  /\ next' = IF overrun THEN oldest ELSE next
         /\ reported' = IF overrun THEN reported + (oldest - next) ELSE reported
  /\ UNCHANGED <<writing, slots, copied, emitted>>

\* The latest sequence, and the jump over what is certainly overwritten.
Begin ==
  /\ at = "idle"
  /\ latest' = logWrite
  /\ at' = "check"
  /\ LET oldest == logWrite - Slots + 1
         overrun == logWrite >= next + Slots
     IN  /\ next' = IF overrun THEN oldest ELSE next
         /\ reported' = IF overrun THEN reported + (oldest - next) ELSE reported
  /\ UNCHANGED <<writing, slots, copied, emitted>>

\* Mutation: the loop reads past the latest record.
MorePastLatest == next <= latest + 1

\* The loop of flush_logs goes on.
More == next <= latest

\* `next` is done with.
Advance ==
  /\ next' = next + 1
  /\ at' = "check"
  /\ UNCHANGED <<writing, slots, latest, reported>>

End ==
  /\ at = "check" /\ ~More
  /\ at' = "idle"
  /\ UNCHANGED <<writing, slots, latest, next, copied, emitted, reported>>

Holds(n) == sequence[SlotOf(n)] = n

\* The first look at the slot's sequence.
Found ==
  /\ at = "check" /\ More /\ Holds(next)
  /\ at' = "head"
  /\ UNCHANGED <<writing, slots, latest, next, copied, emitted, reported>>

Missing ==
  /\ at \in {"check", "recheck"} /\ More /\ ~Holds(next)
  /\ Advance
  /\ UNCHANGED <<copied, emitted>>

CopyHead ==
  /\ at = "head"
  /\ at' = "body"
  /\ copied' = [copied EXCEPT !.head = head[SlotOf(next)]]
  /\ UNCHANGED <<writing, slots, latest, next, emitted, reported>>

CopyBody ==
  /\ at = "body"
  /\ at' = "recheck"
  /\ copied' = [copied EXCEPT !.body = body[SlotOf(next)]]
  /\ UNCHANGED <<writing, slots, latest, next, emitted, reported>>

\* Mutation: there is no second look.
EmitUnchecked ==
  /\ at = "recheck"
  /\ Advance
  /\ emitted' = [seq |-> next, head |-> copied.head, body |-> copied.body]
  /\ UNCHANGED copied

\* The second look: what was copied is this record, whole.
Emit ==
  /\ at = "recheck" /\ Holds(next)
  /\ Advance
  /\ emitted' = [seq |-> next, head |-> copied.head, body |-> copied.body]
  /\ UNCHANGED copied

Write(w) ==
  \/ Lock(w) \/ Allocate(w) \/ Invalidate(w) \/ StoreBody(w) \/ StoreHead(w)
  \/ Publish(w) \/ Unlock(w)

Flush == End \/ Found \/ Missing \/ CopyHead \/ CopyBody \/ Emit

LogNext == Begin \/ Flush \/ \E w \in Writers : Call(w) \/ Write(w)

LogSpec == LogInit /\ [][LogNext]_logVars

-----------------------------------------------------------------------------
(* Properties.                                                             *)

Record == 0..MaxRecords

\* The variables stay in their ranges.
LogTypeOK ==
  /\ lock \in Writers \cup {NoWriter}
  /\ step \in [Writers -> {"idle", "spin", "allocate", "invalidate", "body",
                           "head", "publish", "unlock"}]
  /\ mine \in [Writers -> Record]
  /\ logWrite \in Record /\ latest \in Record /\ next \in 1..(MaxRecords + 1)
  /\ sequence \in [Ring -> Record]
  /\ head \in [Ring -> Record] /\ body \in [Ring -> Record]
  /\ at \in {"idle", "check", "head", "body", "recheck"}
  /\ copied \in [head : Record, body : Record]
  /\ emitted \in [seq : Record, head : Record, body : Record]
  /\ reported \in Record

\* What the controller prints is one record, whole, whatever the writers did
\* to the slot while it was being copied ("The second check rejects that torn
\* snapshot", control.rs).
EmittedWhole == emitted.head = emitted.seq /\ emitted.body = emitted.seq

Unpublished(n) ==
  \E w \in Writers : mine[w] = n /\ step[w] \in {"invalidate", "body", "head", "publish"}

\* A record is passed over, silently or with a report, only if it has been
\* overwritten or is still being written: one that is there is printed.
PresentIsEmitted ==
  [][\A n \in next .. next' - 1 :
       emitted'.seq = n \/ logWrite >= n + Slots \/ Unpublished(n)]_logVars
=============================================================================
