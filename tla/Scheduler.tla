----------------------------- MODULE Scheduler ------------------------------
(***************************************************************************)
(* The scheduler and the accelerator pipelines behind it, cycle by cycle:  *)
(* src/scheduler.cpp, and the submit/run_cycle shells of src/dma.cpp and   *)
(* src/blitter.cpp.                                                        *)
(*                                                                         *)
(* System::run_cycle calls the core, the scheduler, the DMA and the        *)
(* blitter in that order on one thread.  Here each call is one step and    *)
(* `phase` says whose turn it is.  The core is represented by what it asks *)
(* of the scheduler: it submits any pipeline instruction, does something   *)
(* else for a cycle, or submits again the instruction that was refused.    *)
(* What a pipeline does to memory is left to other modules: here a command *)
(* takes any number of cycles of WorkCycles.                               *)
(***************************************************************************)
EXTENDS CycleDefer

CONSTANTS
  QueueSize,     \* SCHEDULER_FRONTEND_QUEUE_SIZE
  Base,          \* 2^8: the values of a byte; a register holds Base^4
  Opcodes,       \* the pipeline instructions the program uses
  Values,        \* the register values the program passes
  WorkCycles,    \* the numbers of cycles a command may take
  BlitterDepth,  \* bound: programs that never queue more blitter commands
  Uninit         \* an indeterminate value: a field nobody has written

Setters   == {"P_DMA_DST_R", "P_DMA_SRC_R", "P_DMA_LEN_R", "P_BLI_COL_R"}
Launchers == {"P_DMA_SET_R", "P_DMA_CPY", "P_BLI_PIX_R_R", "P_BLI_CLR"}
FenceOp   == "P_SCH_FNC"

ASSUME SchedulerAssumption ==
  /\ QueueSize \in Nat \ {0}
  /\ Base \in Nat \ {0}
  /\ Opcodes \subseteq Setters \cup Launchers \cup {FenceOp}
  /\ Values \subseteq Nat
  /\ WorkCycles \subseteq Nat \ {0}
  /\ BlitterDepth \in Nat
  /\ Uninit \notin Nat

Pipe == {"DMA", "BLITTER"}

(* vpu::defs::opcode_to_pipe, for the instructions that are not a fence.   *)
PipeOf(op) ==
  IF op \in {"P_BLI_COL_R", "P_BLI_PIX_R_R", "P_BLI_CLR"}
  THEN "BLITTER" ELSE "DMA"

(* An instruction as stage_execute submits it: operands it does not have   *)
(* are 0.                                                                  *)
Instruction ==
  [op : Opcodes \cap {FenceOp, "P_DMA_CPY", "P_BLI_CLR"},
   val1 : {0}, val2 : {0}]
  \cup [op : Opcodes \ {FenceOp, "P_DMA_CPY", "P_BLI_CLR", "P_BLI_PIX_R_R"},
        val1 : Values, val2 : {0}]
  \cup [op : Opcodes \cap {"P_BLI_PIX_R_R"}, val1 : Values, val2 : Values]

NoInstruction == [op |-> "none", val1 |-> 0, val2 |-> 0]

VARIABLES
  cycle,        \* the global cycle counter
  phase,        \* which call of System::run_cycle comes next
  stalled,      \* the refused instruction that execute will submit again
  retired,      \* the opcode that left the execute stage in this cycle
  frontend,     \* core_dma_frontend_state, core_blitter_frontend_state
  queue,        \* dma_frontend_queue, blitter_frontend_queue
  outstanding,  \* dma_outstanding, blitter_outstanding
  \* and the fields of class DMA and of class Blitter:
  state, work_cycle, working_command, finished_callback_valid,
  work_left     \* the cycles of work left in working_command

engine == <<state, work_cycle, working_command, finished_callback_valid,
            work_left>>
vars ==
  <<cycle, phase, stalled, retired, frontend, queue, outstanding, engine>>

Phases == {"core", "check DMA", "check BLITTER", "run DMA", "run BLITTER",
               "end", "stopped"}
CheckPhase(p) == IF p = "DMA" THEN "check DMA" ELSE "check BLITTER"
RunPhase(p)   == IF p = "DMA" THEN "run DMA" ELSE "run BLITTER"
AfterCheck(p) == IF p = "DMA" THEN "check BLITTER" ELSE "run DMA"
AfterRun(p)   == IF p = "DMA" THEN "run BLITTER" ELSE "end"

(* Value in RGB, but colours are RGBA: (val1 << 8) | 0xFF on 32 bits.      *)
Rgba(v) == (v % (Base * Base * Base)) * Base + (Base - 1)

Datum == Values \cup {v % Base : v \in Values} \cup {Rgba(v) : v \in Values}
         \cup {0, Uninit}
DmaCommand == [dest : Datum, source : Datum, length : Datum, value : Datum,
               operation : {"NONE", "COPY", "SET"}]
BlitterCommand == [xpos : Datum, ypos : Datum, colour : Datum,
                   operation : {"NONE", "PIXEL", "CLEAR"}]
Command == DmaCommand \cup BlitterCommand

(* A pipeline's copy of a command: Blitter::submit makes a clear start at  *)
(* the first pixel.                                                        *)
Taken(c) ==
  IF c.operation = "CLEAR" THEN [c EXCEPT !.xpos = 0, !.ypos = 0] ELSE c

Working(p) == state[p] = "WORKING"
-----------------------------------------------------------------------------
(* The frontends: the part of submit_dma and submit_blitter before the     *)
(* queue is looked at.                                                     *)

(* The switch over the opcode.  DMA::Command::value is a uint8_t.          *)
Configured(i) ==
  LET f == frontend[PipeOf(i.op)] IN
  CASE i.op = "P_DMA_DST_R"   -> [f EXCEPT !.dest = i.val1]
    [] i.op = "P_DMA_SRC_R"   -> [f EXCEPT !.source = i.val1]
    [] i.op = "P_DMA_LEN_R"   -> [f EXCEPT !.length = i.val1]
    [] i.op = "P_DMA_SET_R"   -> [f EXCEPT !.value = i.val1 % Base,
                                           !.operation = "SET"]
    [] i.op = "P_DMA_CPY"     -> [f EXCEPT !.operation = "COPY"]
    [] i.op = "P_BLI_COL_R"   -> [f EXCEPT !.colour = Rgba(i.val1)]
    [] i.op = "P_BLI_PIX_R_R" -> [f EXCEPT !.xpos = i.val1, !.ypos = i.val2,
                                           !.operation = "PIXEL"]
    [] i.op = "P_BLI_CLR"     -> [f EXCEPT !.operation = "CLEAR"]

(* Both submit_dma and submit_blitter test the size of the DMA queue.      *)
FrontendFull == Len(queue["DMA"]) >= QueueSize
-----------------------------------------------------------------------------
(* The core's turn: ManagerCore::stage_execute calls core_submit at most   *)
(* once a cycle, and with the same instruction as long as it is refused.   *)

(* Execute holds i: a new instruction, or the one that stalls it.  A       *)
(* program keeps the blitter queue within BlitterDepth.                    *)
Submits(i) ==
  /\ phase = "core"
  /\ stalled \in {NoInstruction, i}
  /\ PipeOf(i.op) = "BLITTER" =>
       (i.op \in Launchers => Len(queue["BLITTER"]) < BlitterDepth)
  /\ phase' = "check DMA"

Accepted(i) == stalled' = NoInstruction /\ retired' = i.op
Refused(i)  == stalled' = i /\ UNCHANGED retired

(* An instruction that sets one field of the command being prepared.       *)
Configure(i) ==
  /\ i.op \in Setters
  /\ Submits(i)
  /\ frontend' = [frontend EXCEPT ![PipeOf(i.op)] = Configured(i)]
  /\ Accepted(i)
  /\ UNCHANGED <<cycle, queue, outstanding, engine>>

(* A command is complete and there is room: copy it into the queue.        *)
Launch(i) ==
  LET p == PipeOf(i.op) IN
  /\ i.op \in Launchers
  /\ Submits(i)
  /\ ~FrontendFull
  /\ queue' = [queue EXCEPT ![p] = Append(@, Deferred(cycle, Configured(i)))]
  /\ outstanding' = [outstanding EXCEPT ![p] = @ + 1]
  /\ frontend' = [frontend EXCEPT
                    ![p] = [Configured(i) EXCEPT !.operation = "NONE"]]
  /\ Accepted(i)
  /\ UNCHANGED <<cycle, engine>>

(* No room: the frontend has changed all the same, and execute stalls.     *)
RefuseLaunch(i) ==
  /\ i.op \in Launchers
  /\ Submits(i)
  /\ FrontendFull
  /\ frontend' = [frontend EXCEPT ![PipeOf(i.op)] = Configured(i)]
  /\ Refused(i)
  /\ UNCHANGED <<cycle, queue, outstanding, engine>>

(* Mutants: a fence that looks at the queues, or at one pipeline only.     *)
FencePasses_QueuesOnly == \A p \in Pipe : queue[p] = << >>
FencePasses_DmaOnly    == outstanding["DMA"] = 0

(* submit_sched, P_SCH_FNC.                                                *)
FencePasses == outstanding["DMA"] = 0 /\ outstanding["BLITTER"] = 0

Fence(i) ==
  /\ i.op = FenceOp
  /\ Submits(i)
  /\ IF FencePasses THEN Accepted(i) ELSE Refused(i)
  /\ UNCHANGED <<cycle, frontend, queue, outstanding, engine>>

(* Execute has no pipeline instruction in this cycle.                      *)
CoreElsewhere ==
  /\ phase = "core"
  /\ stalled = NoInstruction
  /\ phase' = "check DMA"
  /\ UNCHANGED <<cycle, stalled, retired, frontend, queue, outstanding,
                 engine>>
-----------------------------------------------------------------------------
(* The scheduler's turn: check_dma and check_blitter.                      *)

(* Nothing there, or can't run yet.                                        *)
NothingToCheck(p) ==
  /\ phase = CheckPhase(p)
  /\ ~FrontCanRun(queue[p], cycle)
  /\ phase' = AfterCheck(p)
  /\ UNCHANGED <<cycle, stalled, retired, frontend, queue, outstanding,
                 engine>>

(* Mutant: taking a command forgets the callback still owed.               *)
Submit_DropsCallback(p) ==
  /\ phase = CheckPhase(p)
  /\ FrontCanRun(queue[p], cycle)
  /\ ~Working(p)
  /\ queue' = [queue EXCEPT ![p] = Tail(@)]
  /\ state' = [state EXCEPT ![p] = "WORKING"]
  /\ work_cycle' = [work_cycle EXCEPT ![p] = NextCycle(cycle)]
  /\ working_command' =
       [working_command EXCEPT ![p] = Taken(Head(queue[p]).data)]
  /\ \E n \in WorkCycles : work_left' = [work_left EXCEPT ![p] = n]
  /\ finished_callback_valid' = [finished_callback_valid EXCEPT ![p] = FALSE]
  /\ phase' = AfterCheck(p)
  /\ UNCHANGED <<cycle, stalled, retired, frontend, outstanding>>

(* The pipeline takes the command: DMA::submit, Blitter::submit.  It may   *)
(* still owe the callback of the command before.                           *)
Submit(p) ==
  /\ phase = CheckPhase(p)
  /\ FrontCanRun(queue[p], cycle)
  /\ ~Working(p)
  /\ queue' = [queue EXCEPT ![p] = Tail(@)]
  /\ state' = [state EXCEPT ![p] = "WORKING"]
  /\ work_cycle' = [work_cycle EXCEPT ![p] = NextCycle(cycle)]
  /\ working_command' =
       [working_command EXCEPT ![p] = Taken(Head(queue[p]).data)]
  /\ \E n \in WorkCycles : work_left' = [work_left EXCEPT ![p] = n]
  /\ phase' = AfterCheck(p)
  /\ UNCHANGED <<cycle, stalled, retired, frontend, outstanding,
                 finished_callback_valid>>

(* The pipeline is working: every entry of the queue waits a cycle more.   *)
PutOff(p) ==
  /\ phase = CheckPhase(p)
  /\ FrontCanRun(queue[p], cycle)
  /\ Working(p)
  /\ queue' = [queue EXCEPT ![p] = IncrementAll(@)]
  /\ phase' = AfterCheck(p)
  /\ UNCHANGED <<cycle, stalled, retired, frontend, outstanding, engine>>
-----------------------------------------------------------------------------
(* The pipelines' turns: DMA::run_cycle and Blitter::run_cycle.            *)

(* A finished command is reported to the scheduler (dma_complete,          *)
(* blitter_complete) at the start of the following cycle.                  *)
Callback(p) ==
  outstanding' = [outstanding EXCEPT
                    ![p] = IF finished_callback_valid[p] THEN @ - 1 ELSE @]

(* Mutant: a callback that stays valid is made again in every idle cycle.  *)
RestCycle_CallbackRepeated(p) ==
  /\ phase = RunPhase(p)
  /\ Working(p) => cycle < work_cycle[p]
  /\ Callback(p)
  /\ state' = [state EXCEPT ![p] = IF @ = "FINISHED" THEN "IDLE" ELSE @]
  /\ phase' = AfterRun(p)
  /\ UNCHANGED <<cycle, stalled, retired, frontend, queue, work_cycle,
                 working_command, work_left, finished_callback_valid>>

(* Mutant: run_cycle waits for the cycle after the submit, in vain.        *)
RestCycle_Waits(p) ==
  /\ phase = RunPhase(p)
  /\ ~Working(p)
  /\ Callback(p)
  /\ finished_callback_valid' = [finished_callback_valid EXCEPT ![p] = FALSE]
  /\ state' = [state EXCEPT ![p] = "IDLE"]
  /\ phase' = AfterRun(p)
  /\ UNCHANGED <<cycle, stalled, retired, frontend, queue, work_cycle,
                 working_command, work_left>>

(* Idle; or the bubble after a command; or the cycle of the submit.        *)
RestCycle(p) ==
  /\ phase = RunPhase(p)
  /\ Working(p) => cycle < work_cycle[p]
  /\ Callback(p)
  /\ finished_callback_valid' = [finished_callback_valid EXCEPT ![p] = FALSE]
  /\ state' = [state EXCEPT ![p] = IF @ = "FINISHED" THEN "IDLE" ELSE @]
  /\ phase' = AfterRun(p)
  /\ UNCHANGED <<cycle, stalled, retired, frontend, queue, work_cycle,
                 working_command, work_left>>

(* A cycle of work that does not complete the command.                     *)
WorkCycle(p) ==
  /\ phase = RunPhase(p)
  /\ Working(p)
  /\ ~(cycle < work_cycle[p])
  /\ work_left[p] > 1
  /\ Callback(p)
  /\ finished_callback_valid' = [finished_callback_valid EXCEPT ![p] = FALSE]
  /\ work_left' = [work_left EXCEPT ![p] = @ - 1]
  /\ phase' = AfterRun(p)
  /\ UNCHANGED <<cycle, stalled, retired, frontend, queue, state, work_cycle,
                 working_command>>

(* The last cycle of work leaves the callback for the next cycle.          *)
FinishCycle(p) ==
  /\ phase = RunPhase(p)
  /\ Working(p)
  /\ ~(cycle < work_cycle[p])
  /\ work_left[p] = 1
  /\ Callback(p)
  /\ finished_callback_valid' = [finished_callback_valid EXCEPT ![p] = TRUE]
  /\ work_left' = [work_left EXCEPT ![p] = 0]
  /\ state' = [state EXCEPT ![p] = "FINISHED"]
  /\ phase' = AfterRun(p)
  /\ UNCHANGED <<cycle, stalled, retired, frontend, queue, work_cycle,
                 working_command>>
-----------------------------------------------------------------------------
(* System::run_program: increment the cycle, and look if the core halted.  *)

EndCycle ==
  /\ phase = "end"
  /\ cycle' = NextCycle(cycle)
  /\ phase' \in {"core", "stopped"}
  /\ retired' = "none"
  /\ UNCHANGED <<stalled, frontend, queue, outstanding, engine>>

Init ==
  /\ cycle = 0
  /\ phase = "core"
  /\ stalled = NoInstruction
  /\ retired = "none"
  /\ frontend =
       [p \in Pipe |->
          IF p = "DMA"
          THEN [dest |-> Uninit, source |-> Uninit, length |-> Uninit,
                value |-> Uninit, operation |-> "NONE"]
          ELSE [xpos |-> Uninit, ypos |-> Uninit, colour |-> Uninit,
                operation |-> "NONE"]]
  /\ queue = [p \in Pipe |-> << >>]
  /\ outstanding = [p \in Pipe |-> 0]
  /\ state = [p \in Pipe |-> "IDLE"]
  /\ work_cycle = [p \in Pipe |-> 0]
  /\ working_command = frontend
  /\ finished_callback_valid = [p \in Pipe |-> FALSE]
  /\ work_left = [p \in Pipe |-> 0]

CoreCycle ==
  \/ \E i \in Instruction : Configure(i)
  \/ \E i \in Instruction : Launch(i)
  \/ \E i \in Instruction : RefuseLaunch(i)
  \/ \E i \in Instruction : Fence(i)
  \/ CoreElsewhere

SchedulerCycle(p) == NothingToCheck(p) \/ Submit(p) \/ PutOff(p)
EngineCycle(p) == RestCycle(p) \/ WorkCycle(p) \/ FinishCycle(p)

Next ==
  \/ CoreCycle
  \/ \E p \in Pipe : SchedulerCycle(p) \/ EngineCycle(p)
  \/ EndCycle

Spec == Init /\ [][Next]_vars

(* One thread calls every component in turn for as long as it runs.        *)
FairSpec == Spec /\ WF_vars(Next)
-----------------------------------------------------------------------------
TypeOK ==
  /\ cycle \in Cycles
  /\ phase \in Phases
  /\ stalled \in Instruction \cup {NoInstruction}
  /\ retired \in Opcodes \cup {"none"}
  /\ frontend \in [Pipe -> Command]
  /\ queue \in [Pipe -> Seq([cycle : Cycles, data : Command])]
  /\ outstanding \in [Pipe -> Nat]
  /\ state \in [Pipe -> {"IDLE", "WORKING", "FINISHED"}]
  /\ work_cycle \in [Pipe -> Cycles]
  /\ working_command \in [Pipe -> Command]
  /\ finished_callback_valid \in [Pipe -> BOOLEAN]
  /\ work_left \in [Pipe -> Nat]
  /\ frontend["DMA"] \in DmaCommand
  /\ frontend["BLITTER"] \in BlitterCommand

InProgress(p) == IF Working(p) THEN 1 ELSE 0
Owed(p)       == IF finished_callback_valid[p] THEN 1 ELSE 0

(* The outstanding count the fence reads is, at every moment, the commands *)
(* in the queue, the one being worked on and the callback still owed: the  *)
(* increments of submit_* and the decrements of *_complete never drift,    *)
(* though a pipeline may take a command while it owes a callback, and the  *)
(* assertions of *_complete (outstanding > 0) cannot fail.                 *)
OutstandingExact ==
  \A p \in Pipe :
    outstanding[p] = Len(queue[p]) + InProgress(p) + Owed(p)

(* After a fence has left execute, no command submitted before it is still *)
(* queued, worked on or unreported when the scheduler's turn comes.        *)
FenceDrained ==
  phase = "check DMA" /\ retired = FenceOp =>
    \A p \in Pipe :
      queue[p] = << >> /\ ~Working(p) /\ ~finished_callback_valid[p]

(* When a cycle ends no queued command was valid in that cycle: it would   *)
(* never be valid again, and every command behind it would be lost.        *)
NoCommandLeftBehind ==
  phase = "end" =>
    \A p \in Pipe : \A i \in DOMAIN queue[p] : queue[p][i].cycle # cycle

(* The commands a pipeline was given and has not performed: the one at     *)
(* work and those that wait in the queue.                                  *)
InHand(p) == IF Working(p) THEN <<working_command[p]>> ELSE << >>
Waiting(q) == [i \in DOMAIN q |-> Taken(q[i].data)]
Pending == [p \in Pipe |-> InHand(p) \o Waiting(queue[p])]

Service ==
  INSTANCE CommandService
    WITH Command <- {c \in Command : c.operation # "NONE"},
         pending <- Pending

(* The scheduler implements CommandService: every command performed once,  *)
(* in order, and no fence let through while work is left.                  *)
ImplementsService == Service!Spec

(* An instruction that stalls execute does not stall it for ever.          *)
StallEnds ==
  stalled # NoInstruction ~> (stalled = NoInstruction \/ phase = "stopped")
=============================================================================
