------------------------------- MODULE System -------------------------------
(***************************************************************************)
(* The whole simulator: src/main.cpp, class System.                        *)
(*                                                                         *)
(* The core, the scheduler, the DMA engine and the blitter on one memory,  *)
(* called in this order in every cycle of run_program until the core has   *)
(* halted.  The core is module ManagerCore, whose scheduler is no longer   *)
(* free to answer as it likes; the scheduler and the shells of the engines *)
(* are the actions of module Scheduler, whose commands no longer take any  *)
(* number of cycles, but what the engines of Dma and Blitter make of them. *)
(* Memory holds the data of the program: instructions are not written.     *)
(***************************************************************************)
EXTENDS ManagerCore, FiniteSets

CONSTANTS
  MemSize, Width, Base, FrameWidth, FrameHeight, FrameAddr,
  QueueSize,
  Garbage,       \* what a field or a buffer holds before it is written
  Values,        \* the register values that programs submit
  BlitterDepth,  \* bound: programs that never queue more blitter commands
  MaxWork        \* bound: the cycles of the longest command

(* The sizes: the frame lies in memory and is a number of whole lines, and *)
(* an address is a word.                                                   *)
ASSUME SystemAssumption ==
  /\ Width \in Nat \ {0} /\ Width % 4 = 0
  /\ MemSize \in Nat \ {0} /\ MemSize % Width = 0
  /\ Base \in Nat \ {0} /\ MemSize < Base * Base * Base * Base
  /\ FrameWidth \in Nat \ {0} /\ FrameHeight \in Nat \ {0}
  /\ FrameAddr \in Nat /\ FrameAddr % Width = 0
  /\ FrameAddr + FrameWidth * FrameHeight * 4 <= MemSize
  /\ (FrameWidth * FrameHeight * 4) % Width = 0

(* What the scheduler assumes: a queue has room for a command, and what    *)
(* nobody has written is not taken for a number.                           *)
ASSUME QueuesAssumption ==
  /\ QueueSize \in Nat \ {0} /\ BlitterDepth \in Nat
  /\ Values \subseteq Nat /\ Garbage \notin Nat

VARIABLES
  turn,          \* the component to be called while phase is "others"
  memory,
  \* the fields of Scheduler, by pipeline:
  frontend, queue, outstanding,
  \* the fields of DMA and Blitter that both have:
  work_cycle, finished_callback_valid,
  \* the fields of DMA and of Blitter:
  dma_state, dma_command, write_pointer, read_pointer,
  fetched_writeback_data_valid, fetched_writeback_data,
  active_buffer_valid, active_buffer_address, active_buffer_size,
  active_buffer, blitter_state, blitter_command,
  \* history:
  promised,      \* memory, if commands were performed when they are accepted
  contested      \* the bytes that two pipelines compete for, or that depend
                 \* on such bytes

D == INSTANCE Dma
       WITH state <- dma_state, working_command <- dma_command
B == INSTANCE Blitter
       WITH state <- blitter_state, working_command <- blitter_command

schedulerVars == <<frontend, queue, outstanding>>
shellVars     == <<work_cycle, finished_callback_valid>>
dmaVars       == <<dma_state, dma_command, write_pointer, read_pointer,
                   fetched_writeback_data_valid, fetched_writeback_data,
                   active_buffer_valid, active_buffer_address,
                   active_buffer_size, active_buffer>>
blitterVars   == <<blitter_state, blitter_command>>
history       == <<promised, contested>>
systemVars    == <<vars, turn, memory, schedulerVars, shellVars, dmaVars,
                   blitterVars, history>>
-----------------------------------------------------------------------------
(* The scheduler's view of the system.  The coordinates of a clear that is *)
(* worked on are its progress, not part of the command.                    *)

SchedulerPhase ==
  CASE phase \in {"flush", "fetch", "decode", "execute"} -> "core"
    [] phase \in {"memory", "writeback", "end"}          -> "check DMA"
    [] phase = "others"                                  -> turn
    [] phase = "halted"                                  -> "stopped"

(* The lines of memory from p on that begin before end.                    *)
Lines(p, end) == {a \in {k * Width : k \in 0 .. MemSize \div Width} :
                    p <= a /\ a < end}

Partial(a, command) ==
  a < command.dest \/ a + Width > command.dest + command.length

(* The cycles the DMA engine still needs: one to read a line of a source,  *)
(* one to write a line, and one to fetch a line that is written in part.   *)
DmaWorkLeft ==
  LET written == Lines(write_pointer, D!DestEnd)
      sources == IF dma_command.operation = "COPY"
                 THEN Lines(read_pointer, D!SourceEnd) ELSE {}
  IN (Cardinality(sources) + Cardinality(written)
      + Cardinality({a \in written : Partial(a, dma_command)}))
     - (IF fetched_writeback_data_valid THEN 1 ELSE 0)

(* A pixel takes one cycle; a clear one for each line, and one to end.     *)
BlitterWorkLeft ==
  IF blitter_command.operation = "PIXEL" THEN 1
  ELSE 1 + Cardinality(Lines(B!NextAddress, FrameAddr + B!FrameBytes))

WorkLeft ==
  [DMA     |-> IF dma_state = "WORKING" THEN DmaWorkLeft ELSE 0,
   BLITTER |-> IF blitter_state = "WORKING" THEN BlitterWorkLeft ELSE 0]

EngineState   == [DMA |-> dma_state, BLITTER |-> blitter_state]
EngineCommand == [DMA |-> dma_command, BLITTER |-> B!Taken(blitter_command)]

S == INSTANCE Scheduler
       WITH phase           <- SchedulerPhase,
            stalled         <- refused,
            retired         <- submitted.op,
            state           <- EngineState,
            working_command <- EngineCommand,
            work_left       <- WorkLeft,
            WorkCycles      <- 1 .. MaxWork,
            Opcodes         <- PipeOps,
            Uninit          <- Garbage
-----------------------------------------------------------------------------
(* What a program is promised.                                             *)

Source(d) == d.source .. d.source + d.length - 1
Target(d) == d.dest .. d.dest + d.length - 1
Drawn(b)  == IF b.operation = "CLEAR"
             THEN FrameAddr .. FrameAddr + B!FrameBytes - 1
             ELSE LET a == B!PixelAddress(b.xpos, b.ypos) IN a .. a + 3

(* Memory after a command that is performed at once.                       *)
Performed(m, command) ==
  CASE command.operation = "COPY" ->
         [a \in DOMAIN m |-> IF a \in Target(command)
                             THEN m[command.source + (a - command.dest)]
                             ELSE m[a]]
    [] command.operation = "SET" ->
         [a \in DOMAIN m |-> IF a \in Target(command) THEN command.value
                                                      ELSE m[a]]
    [] command.operation = "PIXEL" ->
         B!WriteWord(m, B!PixelAddress(command.xpos, command.ypos),
                     command.colour)
    [] command.operation = "CLEAR" ->
         [a \in DOMAIN m |-> IF a \in Drawn(command)
                             THEN B!ByteOf(command.colour, 3 - (a % 4))
                             ELSE m[a]]

(* Where d copies the bytes of area to.                                    *)
CopyOf(d, area) ==
  IF d.operation = "COPY"
  THEN {d.dest + (a - d.source) : a \in area \cap Source(d)} ELSE {}

(* What of the bytes of area, which change while d is to be performed, and *)
(* of what d makes of them, is uncertain: d writes whole lines back.       *)
Disturbed(d, area) ==
  {a \in area : \E t \in Target(d) : D!LineOf(t) = D!LineOf(a)}
  \cup CopyOf(d, area)

(* The command that the core launches.                                     *)
Launched == S!Configured(Command)

LaunchedOn(p) == IF S!PipeOf(Command.op) = p THEN <<Launched>> ELSE << >>

(* Every DMA command that is not performed yet competes with every command *)
(* of the blitter that is not.                                             *)
NewlyContested ==
  LET dma     == S!Pending["DMA"] \o LaunchedOn("DMA")
      blitter == S!Pending["BLITTER"] \o LaunchedOn("BLITTER")
      drawn   == UNION {Drawn(blitter[k]) : k \in DOMAIN blitter}
  IN contested \cup UNION {Disturbed(dma[k], drawn) : k \in DOMAIN dma}

Promise ==
  IF Command.op \in S!Launchers
  THEN promised' = Performed(promised, Launched) /\ contested' = NewlyContested
  ELSE UNCHANGED history
-----------------------------------------------------------------------------
(* core.run_cycle()                                                        *)

(* Everything but a submission.                                            *)
CoreStep ==
  /\ \/ TakeFlush \/ NoFlush \/ StageFetch \/ StageDecode \/ ExecuteAlone
     \/ StageMemory \/ StageWriteback \/ EndCycle
  /\ UNCHANGED <<turn, memory, schedulerVars, shellVars, dmaVars, blitterVars,
                 history>>

SubmissionAccepted ==
  /\ ExecuteAccepted
  /\ UNCHANGED <<turn, memory, shellVars, dmaVars, blitterVars>>
  /\ S!Configure(Command) \/ S!Launch(Command) \/ S!Fence(Command)
  /\ Promise

SubmissionRefused ==
  /\ ExecuteRefused
  /\ UNCHANGED <<turn, memory, shellVars, dmaVars, blitterVars, history>>
  /\ S!RefuseLaunch(Command) \/ S!Fence(Command)
-----------------------------------------------------------------------------
(* scheduler.run_cycle(), dma.run_cycle() and blitter.run_cycle()          *)

Turns(from, to) ==
  /\ phase = "others" /\ turn = from /\ turn' = to
  /\ UNCHANGED vars

CheckPipe(p) ==
  /\ Turns(S!CheckPhase(p), S!AfterCheck(p))
  /\ UNCHANGED <<memory, dmaVars, blitterVars, history>>
  /\ S!NothingToCheck(p) \/ S!PutOff(p)

(* A copy that begins makes copies of what is contested by then.           *)
SubmitDma ==
  LET command == Head(queue["DMA"]).data IN
  /\ Turns("check DMA", "check BLITTER")
  /\ FrontCanRun(queue["DMA"], cycle)
  /\ D!Submit(command)
  /\ contested' = contested \cup CopyOf(command, contested)
  /\ UNCHANGED <<promised, blitterVars>>
  /\ S!Submit("DMA")

SubmitBlitter ==
  /\ Turns("check BLITTER", "run DMA")
  /\ FrontCanRun(queue["BLITTER"], cycle)
  /\ B!Submit(Head(queue["BLITTER"]).data)
  /\ UNCHANGED <<dmaVars, history>>
  /\ S!Submit("BLITTER")

(* Mutant: a command is reported when it has been taken.                   *)
Report_WhenTaken(p, before, after) ==
  /\ S!Callback(p)
  /\ finished_callback_valid' =
       [finished_callback_valid EXCEPT
          ![p] = before = "WORKING" /\ cycle < work_cycle[p]]

(* The callback that is owed is made, and one is owed for a command that   *)
(* has been finished in this cycle.                                        *)
Report(p, before, after) ==
  /\ S!Callback(p)
  /\ finished_callback_valid' =
       [finished_callback_valid EXCEPT
          ![p] = before = "WORKING" /\ after = "FINISHED"]

RunDma ==
  /\ Turns("run DMA", "run BLITTER")
  /\ D!RunCycle(cycle < work_cycle["DMA"])
  /\ Report("DMA", dma_state, dma_state')
  /\ UNCHANGED <<frontend, queue, work_cycle, blitterVars, history>>

RunBlitter ==
  /\ Turns("run BLITTER", "end")
  /\ B!RunCycle(cycle < work_cycle["BLITTER"])
  /\ Report("BLITTER", blitter_state, blitter_state')
  /\ UNCHANGED <<frontend, queue, work_cycle, dmaVars, history>>

(* increment_global_cycle() and check_has_halted()                         *)
EndOfCycle ==
  /\ turn = "end" /\ turn' = "check DMA"
  /\ OthersRun
  /\ UNCHANGED <<memory, schedulerVars, shellVars, dmaVars, blitterVars,
                 history>>
-----------------------------------------------------------------------------
(* Every byte of memory differs from the next Base - 1 at first, so that   *)
(* they are not confused.                                                  *)
SystemInit ==
  /\ Init
  /\ turn = "check DMA"
  /\ memory = [a \in D!Address |-> a % Base]
  /\ D!Init
  /\ B!Init
  /\ frontend = [DMA |-> dma_command, BLITTER |-> blitter_command]
  /\ queue = [p \in S!Pipe |-> << >>]
  /\ outstanding = [p \in S!Pipe |-> 0]
  /\ work_cycle = [p \in S!Pipe |-> 0]
  /\ finished_callback_valid = [p \in S!Pipe |-> FALSE]
  /\ promised = memory
  /\ contested = {}

SystemNext ==
  \/ CoreStep \/ SubmissionAccepted \/ SubmissionRefused
  \/ (\E p \in S!Pipe : CheckPipe(p)) \/ SubmitDma \/ SubmitBlitter
  \/ RunDma \/ RunBlitter
  \/ EndOfCycle

(* One thread runs the cycles; nothing is assumed of the scheduler.        *)
SystemSpec ==
  SystemInit /\ [][SystemNext]_systemVars /\ WF_systemVars(SystemNext)
-----------------------------------------------------------------------------
SystemTypeOK ==
  /\ TypeOK
  /\ S!TypeOK
  /\ memory \in [D!Address -> 0 .. Base - 1]
  /\ promised \in [D!Address -> 0 .. Base - 1]
  /\ contested \subseteq D!Address

(* Memory is as the program was promised, but for the bytes that two       *)
(* pipelines competed for.                                                 *)
KeepsPromise ==
  \A a \in D!Address : a \notin contested => memory[a] = promised[a]

(* A fence is a barrier: when it has left execute memory holds what all    *)
(* commands before it were to do, in their order, whatever registers they  *)
(* were configured from, however long they waited, and whichever of the    *)
(* two pipelines did them.                                                 *)
FenceIsBarrier ==
  phase = "memory" /\ submitted.op = "P_SCH_FNC" => KeepsPromise

(* Whenever no command is outstanding, and so also when the core has       *)
(* halted and memory is dumped, every command has been performed.          *)
SettledMemory ==
  (\A p \in S!Pipe : outstanding[p] = 0) => KeepsPromise

(* The assertions of the engines hold for the commands that the frontends  *)
(* put together from fields that stay set from one command to the next.    *)
EnginesSound ==
  /\ D!AssertionsHold /\ B!AssertionsHold
  /\ dma_state # "CRASHED" /\ blitter_state # "CRASHED"

(* The system implements module Scheduler: commands take as long as their  *)
(* bytes need, and at most MaxWork cycles.                                 *)
ImplementsScheduler == S!Spec
=============================================================================
