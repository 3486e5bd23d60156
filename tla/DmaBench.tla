------------------------------ MODULE DmaBench ------------------------------
(***************************************************************************)
(* The DMA engine alone on its memory: the scheduler's submit and the      *)
(* engine's run_cycle are called in turn, as in System::run_cycle, and any *)
(* of Commands may be submitted, also while the engine still rests from    *)
(* the one before.                                                         *)
(***************************************************************************)
EXTENDS Dma

CONSTANTS
  Commands,    \* the commands that are submitted
  MaxCommands  \* bound: the number of commands of a behaviour

VARIABLES
  turn,        \* "submit" or "run"
  commands,    \* how many commands were taken
  before,      \* the memory when the command at work was taken
  fresh        \* global cycle < work_cycle: submitted in this cycle

vars == <<engine, turn, commands, before, fresh>>

(* Every byte of memory differs at first, so that no two are confused.     *)
BenchInit ==
  /\ Init
  /\ memory = [a \in Address |-> a]
  /\ turn = "submit"
  /\ commands = 0
  /\ before = memory
  /\ fresh = FALSE

(* Nothing is called any more after a crash.                               *)
Turn(from, to) == turn = from /\ turn' = to /\ state # "CRASHED"

Take(command) ==
  /\ Turn("submit", "run")
  /\ commands < MaxCommands /\ commands' = commands + 1
  /\ Submit(command)
  /\ fresh' = TRUE
  /\ before' = memory

NoSubmit ==
  /\ Turn("submit", "run")
  /\ UNCHANGED <<engine, commands, before, fresh>>

Run ==
  /\ Turn("run", "submit")
  /\ RunCycle(fresh)
  /\ fresh' = FALSE
  /\ UNCHANGED <<commands, before>>

Next == (\E command \in Commands : Take(command)) \/ NoSubmit \/ Run

Spec == BenchInit /\ [][Next]_vars

(* The simulator runs the engine in every cycle.                           *)
FairSpec == Spec /\ WF_vars(Next)
-----------------------------------------------------------------------------
Byte == Address \cup {command.value : command \in Commands} \cup {Garbage}

TypeOK ==
  /\ memory \in [Address -> Byte] /\ before \in [Address -> Byte]
  /\ turn \in {"submit", "run"}
  /\ commands \in 0 .. MaxCommands
  /\ fresh \in BOOLEAN
  /\ state \in {"IDLE", "WORKING", "FINISHED", "CRASHED"}
  /\ write_pointer \in Nat \cup {Garbage}
  /\ read_pointer \in Nat \cup {Garbage}
  /\ fetched_writeback_data_valid \in BOOLEAN
  /\ fetched_writeback_data \in [0 .. Width - 1 -> Byte]
  /\ active_buffer_valid \in BOOLEAN
  /\ active_buffer_address \in Nat
  /\ active_buffer_size \in 0 .. 2 * Width
  /\ active_buffer \in [0 .. 2 * Width - 1 -> Byte]

InRange(a) == a \in c.dest .. c.dest + c.length - 1

(* A copy to a higher address that overlaps its source: it reads what it   *)
(* has written.                                                            *)
Smears == c.operation = "COPY" /\ c.dest > c.source /\ InRange(c.source + c.length - 1)

(* What the command is to leave at an address of its destination.          *)
Intended(a) ==
  IF c.operation = "COPY" THEN before[c.source + (a - c.dest)] ELSE c.value

(* When a command has finished its whole destination holds what it is to   *)
(* hold, as the source was when the command was taken, however the two are *)
(* aligned and whatever the command before left in the buffers.  Nothing   *)
(* is said of the bytes of a copy that smears.                             *)
RangeWritten ==
  state = "FINISHED" /\ ~Smears =>
    \A a \in Address : InRange(a) => memory[a] = Intended(a)

(* At no moment is a byte changed that is not of the destination.          *)
NothingElseWritten ==
  state # "IDLE" =>
    \A a \in Address : ~InRange(a) => memory[a] = before[a]

(* A copy keeps to its destination at every moment, also where it merges   *)
(* its bytes into a line.                                                  *)
CopyKeepsToRange == c.operation = "COPY" => NothingElseWritten

(* At no moment is a byte changed outside the lines of the destination,    *)
(* or, if that is empty, the line that it is in.                           *)
OnlyItsLinesWritten ==
  state # "IDLE" =>
    \A a \in Address :
      (\A b \in Address : InRange(b) \/ b = c.dest => LineOf(b) # LineOf(a)) =>
        memory[a] = before[a]

(* A command that was taken is finished, unless it crashes.                *)
CommandFinishes ==
  state = "WORKING" ~> state \in {"FINISHED", "CRASHED"}
=============================================================================
