---------------------------- MODULE EngineQueue ----------------------------
(***************************************************************************)
(* Console commands and demos (bhopfix-hook/src/windows/engine.rs and      *)
(* engine.rs): a bounded queue that any thread fills and the game's main   *)
(* thread empties, and the recording of one demo for each map.             *)
(***************************************************************************)
EXTENDS Naturals, Sequences

CONSTANTS
  DemoMaps,   \* maps a demo may be recorded of
  NoMap,
  QueueCap,   \* commands the queue holds
  MaxLines    \* bound: lines the lookup thread prints

ASSUME QueueAssumption == NoMap \notin DemoMaps /\ QueueCap \in Nat /\ MaxLines \in Nat

VARIABLES
  ready,      \* READY, CMD_READY
  queue,      \* COMMANDS, CMD_QUEUE
  pending,    \* PENDING_DEMO
  demo,       \* the main thread in start_demo: its step and the map taken
  batch,      \* commands pump has taken and not yet run
  echo,       \* the SourceJump thread in queue_command: its step
  lines,      \* lines it has printed
  recording,  \* the game: the map of the demo it is recording
  announced,  \* history: the map last announced as being recorded
  full,       \* history: a command of the last demo did not get in
  clash       \* history: a record command met a demo being recorded

engine == <<ready, queue, pending, demo, batch, echo, lines, recording, announced, full, clash>>

Stop == [run |-> "stop", map |-> NoMap]
Record(m) == [run |-> "record", map |-> m]
Mode2 == [run |-> "m_rawinput 2", map |-> NoMap]
Echo == [run |-> "echo", map |-> NoMap]
Commands == {Stop, Mode2, Echo} \cup {Record(m) : m \in DemoMaps}
NoDemo == [at |-> "idle", map |-> NoMap]

EngineTypeOK ==
  /\ ready \in BOOLEAN
  /\ queue \in Seq(Commands) /\ Len(queue) <= QueueCap
  /\ pending \in DemoMaps \cup {NoMap}
  /\ demo \in [at : {"idle", "stop", "record"}, map : DemoMaps \cup {NoMap}]
  /\ batch \in Seq(Commands)
  /\ echo \in {"idle", "push"} /\ lines \in 0 .. MaxLines
  /\ {recording, announced} \subseteq DemoMaps \cup {NoMap}
  /\ {full, clash} \subseteq BOOLEAN

EngineInit ==
  /\ queue = <<>> /\ pending = NoMap /\ demo = NoDemo /\ batch = <<>>
  /\ echo = "idle" /\ lines = 0
  /\ recording = NoMap /\ announced = NoMap
  /\ full = FALSE /\ clash = FALSE

\* Mutation: the limit is one off.
RoomForOneMore == Len(queue) <= QueueCap

Room == Len(queue) < QueueCap

\* A refused command is dropped without a word.
QueueCommand(c) == queue' = IF ready /\ Room THEN Append(queue, c) ELSE queue

-----------------------------------------------------------------------------
(* Demos.                                                                  *)

ArmDemo(m) ==
  /\ pending' = IF ready THEN m ELSE pending
  /\ UNCHANGED <<ready, queue, demo, batch, echo, lines, recording, announced, full, clash>>

TakeDemo ==
  /\ pending # NoMap
  /\ demo' = [at |-> "stop", map |-> pending]
  /\ pending' = NoMap
  /\ full' = FALSE
  /\ UNCHANGED <<ready, queue, batch, echo, lines, recording, announced, clash>>

\* Mutation: the command is queued without its demo being stopped.
QueueRecordAlone ==
  /\ demo.at = "stop"
  /\ QueueCommand(Record(demo.map))
  /\ demo' = NoDemo
  /\ announced' = demo.map
  /\ full' = (full \/ queue' = queue)
  /\ UNCHANGED <<ready, pending, batch, echo, lines, recording, clash>>

QueueStop ==
  /\ demo.at = "stop"
  /\ QueueCommand(Stop)
  /\ demo' = [demo EXCEPT !.at = "record"]
  /\ full' = (full \/ queue' = queue)
  /\ UNCHANGED <<ready, pending, batch, echo, lines, recording, announced, clash>>

\* "recording" is announced whether or not the command got in.
QueueRecord ==
  /\ demo.at = "record"
  /\ QueueCommand(Record(demo.map))
  /\ demo' = NoDemo
  /\ announced' = demo.map
  /\ full' = (full \/ queue' = queue)
  /\ UNCHANGED <<ready, pending, batch, echo, lines, recording, clash>>

-----------------------------------------------------------------------------
(* pump_commands.                                                          *)

Pump ==
  /\ batch' = IF ready THEN queue ELSE <<>>
  /\ queue' = IF ready THEN <<>> ELSE queue
  /\ UNCHANGED <<ready, pending, demo, echo, lines, recording, announced, full, clash>>

\* The game runs the next command of the batch.
Run ==
  /\ batch # <<>>
  /\ batch' = Tail(batch)
  /\ recording' = CASE Head(batch).run = "stop" -> NoMap
                    [] Head(batch).run = "record" /\ recording = NoMap -> Head(batch).map
                    [] OTHER -> recording
  /\ clash' = (clash \/ (Head(batch).run = "record" /\ recording # NoMap))
  /\ UNCHANGED <<ready, queue, pending, demo, echo, lines, announced, full>>

-----------------------------------------------------------------------------
(* Another thread queues a command: the lookup prints its lines.           *)

EchoCheck ==
  /\ echo = "idle" /\ lines < MaxLines /\ ready
  /\ echo' = "push"
  /\ UNCHANGED <<ready, queue, pending, demo, batch, lines, recording, announced, full, clash>>

EchoPush ==
  /\ echo = "push"
  /\ queue' = IF Room THEN Append(queue, Echo) ELSE queue
  /\ echo' = "idle"
  /\ lines' = lines + 1
  /\ UNCHANGED <<ready, pending, demo, batch, recording, announced, full, clash>>

-----------------------------------------------------------------------------

\* Nothing is on its way to the game's console.
Settled == queue = <<>> /\ batch = <<>> /\ demo = NoDemo

\* A demo is recorded from its own start: the record command never meets the
\* demo before.  When all is settled, the game records what was announced,
\* unless the queue was full for it.
DemosAsAnnounced == ~clash /\ (Settled => recording = announced \/ full)
=============================================================================
