---------------------------- MODULE ManagerCore -----------------------------
(***************************************************************************)
(* The management core: src/manager_core.cpp, a five stage pipeline.       *)
(*                                                                         *)
(* ManagerCore::run_cycle calls fetch, decode, execute, memory and         *)
(* writeback in this order on one thread, so a value written by one stage  *)
(* is seen by the stages after it in the same cycle and by the stages      *)
(* before it in the next.  Each call is a step, and `phase` says which     *)
(* comes next.  The core only reads its program, which is chosen at the    *)
(* start and not changed.  The scheduler answers a submission as it likes. *)
(*                                                                         *)
(* The hashes of the predictor are generated, and not in the repository.   *)
(* BtbTag makes get_btb_tag(pc) depend on get_bht_tag(pc): an address that *)
(* is predicted taken has then a target in the btb, which is what the      *)
(* assertion in stage_fetch is about.                                      *)
(***************************************************************************)
EXTENDS CycleDefer, Instructions

CONSTANTS
  Programs,     \* the programs: functions from addresses to instructions
  BhtTag,       \* get_bht_tag, [addresses -> tags]
  BtbTag,       \* get_btb_tag, [tags of the bht -> tags of the btb]
  NoTarget,     \* 0xDEADBEEF, what the btb is filled with
  Uninit        \* the possible contents of a feedback register before it
                \* is written: a set of [held : BOOLEAN, value : Word]

ASSUME ManagerCoreAssumption ==
  /\ \A p \in Programs : DOMAIN p \subseteq Nat /\ p \in [DOMAIN p -> Instruction]
  /\ Uninit \subseteq [held : BOOLEAN, value : Word]
  /\ DOMAIN BtbTag = {BhtTag[a] : a \in DOMAIN BhtTag}

VARIABLES
  program,
  cycle,        \* the global cycle counter
  phase,
  submitted,    \* the command the scheduler accepted in this cycle
  refused,      \* the submission that is refused and stalls the core
  flush_valid, flush_addr,  \* the locals of run_cycle
  \* and the fields of ManagerCore:
  registers, flag, bht, btb, has_halted, frontend_stall, potential_next_pc,
  fetch_seen_hlt, decode_input_queue, execute_input_queue, flush_queue,
  memory_input_queue, writeback_input_queue,
  execute_feedback_reg_held, execute_feedback_reg_value

fetchVars   == <<fetch_seen_hlt, potential_next_pc, decode_input_queue>>
executeVars == <<submitted, refused, flag, bht, btb, frontend_stall,
                 flush_queue, memory_input_queue, execute_feedback_reg_value>>
commitVars  == <<registers, has_halted, execute_feedback_reg_held>>
cycleVars   == <<program, cycle, flush_valid, flush_addr>>
vars == <<phase, fetchVars, executeVars, commitVars, cycleVars,
          execute_input_queue, writeback_input_queue>>

Phases == {"flush", "fetch", "decode", "execute", "memory", "writeback",
           "end", "others", "halted"}
BhtTags   == {BhtTag[a] : a \in DOMAIN BhtTag}
BtbTags   == {BtbTag[t] : t \in BhtTags}
NoCommand == [op |-> "none", val1 |-> 0, val2 |-> 0]

(* The call of stage s is made, and the call of stage n comes next.        *)
Turn(s, n) == phase = s /\ phase' = n

(* Memory beyond the program is zero.                                      *)
Fetched(a) ==
  IF a \in DOMAIN program THEN program[a]
  ELSE [op |-> "NOP", r0 |-> ACC, r1 |-> ACC, imm |-> 0]
-----------------------------------------------------------------------------
(* run_cycle, before the stages: a flush is taken one cycle after execute  *)
(* asked for it.                                                           *)
TakeFlush ==
  /\ Turn("flush", "fetch")
  /\ flush_queue # << >> /\ cycle >= Head(flush_queue).cycle
  /\ flush_valid' = TRUE
  /\ flush_addr' = Head(flush_queue).data
  /\ flush_queue' = Tail(flush_queue)
  /\ UNCHANGED <<program, cycle, fetchVars, commitVars, submitted, refused,
                 flag, bht, btb, frontend_stall, memory_input_queue,
                 execute_feedback_reg_value, execute_input_queue,
                 writeback_input_queue>>

NoFlush ==
  /\ Turn("flush", "fetch")
  /\ ~(flush_queue # << >> /\ cycle >= Head(flush_queue).cycle)
  /\ UNCHANGED <<cycleVars, fetchVars, executeVars, commitVars,
                 execute_input_queue, writeback_input_queue>>
-----------------------------------------------------------------------------
(* stage_fetch *)

(* Mutant: fetch goes on from the PC although execute asked for a flush.   *)
FetchPc_IgnoresFlush == registers[PC]

FetchPc == IF flush_valid THEN flush_addr ELSE registers[PC]

(* The target predicted for the instruction at a.                          *)
Predicted(a) ==
  IF a \in DOMAIN BhtTag /\ bht[BhtTag[a]] THEN btb[BtbTag[BhtTag[a]]]
                                            ELSE a + 1

(* Mutant: a HLT reached by a flush leaves the PC where it was.            *)
StagedPc_NotForHlt(a) ==
  IF Fetched(a).op = "HLT" THEN potential_next_pc ELSE Predicted(a)

(* The PC after the instruction at a is fetched: stage_pc.                 *)
StagedPc(a) == IF Fetched(a).op = "HLT" THEN a ELSE Predicted(a)

(* Mutant: a HLT fetched behind a branch stops fetch for good.             *)
HltSeen_EvenOnFlush == fetch_seen_hlt

(* A HLT has been fetched and no flush has come since.                     *)
HltSeen == fetch_seen_hlt /\ ~flush_valid

FetchWaits ==
  /\ Turn("fetch", "decode")
  /\ HltSeen
  /\ UNCHANGED <<cycleVars, fetchVars, executeVars, commitVars,
                 execute_input_queue, writeback_input_queue>>

(* Nothing is fetched during a stall; nor after the core has halted, but   *)
(* run_program makes no cycle then.                                        *)
FetchStalls ==
  /\ Turn("fetch", "decode")
  /\ ~HltSeen
  /\ has_halted \/ frontend_stall
  /\ fetch_seen_hlt' = FALSE
  /\ UNCHANGED <<cycleVars, executeVars, commitVars, potential_next_pc,
                 decode_input_queue, execute_input_queue,
                 writeback_input_queue>>

Fetch ==
  /\ Turn("fetch", "decode")
  /\ ~HltSeen
  /\ ~has_halted /\ ~frontend_stall
  /\ fetch_seen_hlt' = (Fetched(FetchPc).op = "HLT")
  /\ potential_next_pc' = StagedPc(FetchPc)
  /\ decode_input_queue' =
       Append(decode_input_queue,
              Deferred(cycle, [instruction |-> Fetched(FetchPc),
                               pc |-> FetchPc,
                               next_pc |-> potential_next_pc']))
  /\ UNCHANGED <<cycleVars, executeVars, commitVars, execute_input_queue,
                 writeback_input_queue>>
-----------------------------------------------------------------------------
(* stage_decode *)

(* The operands: registers by number, or the immediate itself.             *)
Dest(i) ==
  CASE i.op \in Immediate24 \cup ShiftByR   -> ACC
    [] i.op \in {"MOV_R_I16", "MOV_R_R"}    -> i.r0
    [] OTHER                                -> PC

Source0(i) ==
  CASE i.op \in Immediate24 \cup Branches \cup {"MOV_R_I16"} -> i.imm
    [] i.op \in {"CMP_R", "P_BLI_PIX_R_R"} \cup ShiftByR \cup PipeOneReg ->
         i.r0
    [] i.op \in {"CMP_R_R", "MOV_R_R"}      -> i.r1
    [] OTHER                                -> 0

Source1(i) ==
  CASE i.op \in (Immediate24 \ Moves) \cup ShiftByR -> ACC
    [] i.op = "CMP_R_R"                     -> i.r0
    [] i.op = "P_BLI_PIX_R_R"               -> i.r1
    [] OTHER                                -> 0

Decodes ==
  /\ Turn("decode", "execute")
  /\ ~flush_valid
  /\ FrontCanRun(decode_input_queue, cycle)

(* No entry is ready, or the stage is not called in the cycle of a flush.  *)
DecodeIdle ==
  /\ Turn("decode", "execute")
  /\ flush_valid \/ ~FrontCanRun(decode_input_queue, cycle)
  /\ UNCHANGED <<cycleVars, fetchVars, executeVars, commitVars,
                 execute_input_queue, writeback_input_queue>>

DecodeSegmentEnd ==
  /\ Decodes
  /\ Head(decode_input_queue).data.instruction.op = "SEGMENT_END"
  /\ has_halted' = TRUE
  /\ UNCHANGED <<cycleVars, fetchVars, executeVars, registers,
                 execute_feedback_reg_held, execute_input_queue,
                 writeback_input_queue>>

(* During a stall the instruction has been pushed already.                 *)
Decode ==
  LET d == Head(decode_input_queue).data
      i == d.instruction
  IN
  /\ Decodes
  /\ i.op # "SEGMENT_END"
  /\ execute_input_queue' =
       IF frontend_stall THEN execute_input_queue
       ELSE Append(execute_input_queue,
                   Deferred(cycle,
                            [opcode |-> i.op, dest |-> Dest(i),
                             source0 |-> Source0(i), source1 |-> Source1(i),
                             pc |-> d.pc, next_pc |-> d.next_pc]))
  /\ UNCHANGED <<cycleVars, fetchVars, executeVars, commitVars,
                 writeback_input_queue>>
-----------------------------------------------------------------------------
(* stage_execute *)

(* The value of register r: the one on its way to writeback, if any.       *)
Effective(r) ==
  IF execute_feedback_reg_held[r] THEN execute_feedback_reg_value[r]
                                  ELSE registers[r]

input == Head(execute_input_queue).data

(* Mutant: an operand is read from the register file only.                 *)
Value0_NoFeedback ==
  IF input.opcode \in Immediate24 \cup Branches \cup PipeNoReg
                      \cup {"MOV_R_I16", "NOP", "HLT"}
  THEN input.source0 ELSE registers[input.source0]

Value0 ==
  IF input.opcode \in Immediate24 \cup Branches \cup PipeNoReg
                      \cup {"MOV_R_I16", "NOP", "HLT"}
  THEN input.source0 ELSE Effective(input.source0)

Value1 ==
  IF input.opcode \in (Immediate24 \ Moves) \cup ShiftByR
                      \cup {"CMP_R_R", "P_BLI_PIX_R_R"}
  THEN Effective(input.source1) ELSE input.source1

Executes(ops) ==
  /\ Turn("execute", "memory")
  /\ ~flush_valid
  /\ FrontCanRun(execute_input_queue, cycle)
  /\ input.opcode \in ops

(* What passes to the memory stage; no write is a write to register 0.     *)
ToMemory(dest, value) ==
  /\ memory_input_queue' =
       Append(memory_input_queue,
              Deferred(cycle, [opcode |-> input.opcode, write |-> dest # PC,
                               dest |-> dest, value |-> value]))
  /\ frontend_stall' = FALSE
  /\ refused' = NoCommand

ExecuteIdle ==
  /\ Turn("execute", "memory")
  /\ flush_valid \/ ~FrontCanRun(execute_input_queue, cycle)
  /\ UNCHANGED <<cycleVars, fetchVars, executeVars, commitVars,
                 execute_input_queue, writeback_input_queue>>

(* Mutant: HLT is applied when it is executed.                             *)
ExecuteNothing_HaltsAtOnce ==
  /\ Executes({"NOP", "HLT"})
  /\ has_halted' = (input.opcode = "HLT")
  /\ ToMemory(PC, 0)
  /\ UNCHANGED <<cycleVars, fetchVars, registers, execute_feedback_reg_held,
                 submitted, flag, bht, btb, flush_queue,
                 execute_feedback_reg_value, execute_input_queue,
                 writeback_input_queue>>

(* HLT is not applied until the last stage.                                *)
ExecuteNothing ==
  /\ Executes({"NOP", "HLT"})
  /\ ToMemory(PC, 0)
  /\ UNCHANGED <<cycleVars, fetchVars, commitVars, submitted, flag, bht, btb,
                 flush_queue, execute_feedback_reg_value,
                 execute_input_queue, writeback_input_queue>>

(* The moves, the addition and the shifts.                                 *)
ExecuteWrite ==
  /\ Executes(Moves \cup Immediate24 \cup ShiftByR)
  /\ \E value \in Results(input.opcode, Value0, Value1) :
       /\ ToMemory(input.dest, value)
       /\ IF input.dest = PC
          THEN UNCHANGED <<execute_feedback_reg_held,
                           execute_feedback_reg_value>>
          ELSE /\ execute_feedback_reg_held' =
                    [execute_feedback_reg_held EXCEPT ![input.dest] = TRUE]
               /\ execute_feedback_reg_value' =
                    [execute_feedback_reg_value EXCEPT ![input.dest] = value]
  /\ UNCHANGED <<cycleVars, fetchVars, registers, has_halted, submitted, flag,
                 bht, btb, flush_queue, execute_input_queue,
                 writeback_input_queue>>

ExecuteCompare ==
  /\ Executes(Compares)
  /\ flag' = (Value0 = Value1)
  /\ ToMemory(PC, 0)
  /\ UNCHANGED <<cycleVars, fetchVars, commitVars, submitted, bht, btb,
                 flush_queue, execute_feedback_reg_value,
                 execute_input_queue, writeback_input_queue>>

(* Where a branch goes on: a branch that is not taken goes where fetch     *)
(* went, which is not always the next instruction.                         *)
BranchTarget ==
  IF input.opcode = "JMP_L" \/ flag THEN Value0 ELSE input.next_pc

ExecuteBranch ==
  LET tag         == BhtTag[input.pc]
      fallthrough == input.next_pc = input.pc + 1
      missed      == input.next_pc # BranchTarget
  IN
  /\ Executes(Branches)
  /\ ToMemory(PC, 0)
  /\ bht' = IF fallthrough THEN [bht EXCEPT ![tag] = missed] ELSE bht
  /\ btb' = IF fallthrough /\ missed
            THEN [btb EXCEPT ![BtbTag[tag]] = BranchTarget] ELSE btb
  /\ flush_queue' = IF missed
                    THEN Append(flush_queue, Deferred(cycle, BranchTarget))
                    ELSE flush_queue
  /\ UNCHANGED <<cycleVars, fetchVars, commitVars, submitted, flag,
                 execute_feedback_reg_value, execute_input_queue,
                 writeback_input_queue>>

Command == [op |-> input.opcode, val1 |-> Value0, val2 |-> Value1]

(* core_submit returns true.                                               *)
ExecuteAccepted ==
  /\ Executes(PipeOps)
  /\ submitted' = Command
  /\ ToMemory(PC, 0)
  /\ UNCHANGED <<cycleVars, fetchVars, commitVars, flag, bht, btb,
                 flush_queue, execute_feedback_reg_value,
                 execute_input_queue, writeback_input_queue>>

(* core_submit returns false.                                              *)
ExecuteRefused ==
  /\ Executes(PipeOps)
  /\ refused' = Command
  /\ frontend_stall' = TRUE
  /\ UNCHANGED <<cycleVars, fetchVars, commitVars, submitted, flag, bht, btb,
                 flush_queue, memory_input_queue, execute_feedback_reg_value,
                 execute_input_queue, writeback_input_queue>>
-----------------------------------------------------------------------------
(* stage_memory *)
MemoryIdle ==
  /\ Turn("memory", "writeback")
  /\ ~FrontCanRun(memory_input_queue, cycle)
  /\ UNCHANGED <<cycleVars, fetchVars, executeVars, commitVars,
                 execute_input_queue, writeback_input_queue>>

Memory ==
  /\ Turn("memory", "writeback")
  /\ FrontCanRun(memory_input_queue, cycle)
  /\ writeback_input_queue' =
       Append(writeback_input_queue,
              Deferred(cycle, Head(memory_input_queue).data))
  /\ UNCHANGED <<cycleVars, fetchVars, executeVars, commitVars,
                 execute_input_queue>>

(* stage_writeback *)
WritebackIdle ==
  /\ Turn("writeback", "end")
  /\ ~FrontCanRun(writeback_input_queue, cycle)
  /\ UNCHANGED <<cycleVars, fetchVars, executeVars, commitVars,
                 execute_input_queue, writeback_input_queue>>

(* Mutant: every write back releases its register.                         *)
Released_Always(w) == TRUE

(* The feedback is released when the value written is the value held, not  *)
(* when the instruction written is the one that set it.                    *)
Released(w) == execute_feedback_reg_value[w.dest] = w.value

Writeback ==
  LET w == Head(writeback_input_queue).data IN
  /\ Turn("writeback", "end")
  /\ FrontCanRun(writeback_input_queue, cycle)
  /\ has_halted' = (has_halted \/ w.opcode = "HLT")
  /\ registers' = IF w.write THEN [registers EXCEPT ![w.dest] = w.value]
                             ELSE registers
  /\ execute_feedback_reg_held' =
       IF Released(w)
       THEN [execute_feedback_reg_held EXCEPT ![w.dest] = FALSE]
       ELSE execute_feedback_reg_held
  /\ UNCHANGED <<cycleVars, fetchVars, executeVars, execute_input_queue,
                 writeback_input_queue>>
-----------------------------------------------------------------------------
(* The end of run_cycle: queues and PC.                                    *)

(* Mutant: the entries a flush skips stay in their queues.                 *)
PopReady_NotInFlush(queue) ==
  IF FrontCanRun(queue, cycle) /\ ~flush_valid THEN Tail(queue) ELSE queue

PopReady(queue) == IF FrontCanRun(queue, cycle) THEN Tail(queue) ELSE queue

EndCycle ==
  /\ Turn("end", "others")
  /\ IF frontend_stall
     THEN /\ decode_input_queue'  = IncrementAll(decode_input_queue)
          /\ execute_input_queue' = IncrementAll(execute_input_queue)
          /\ UNCHANGED registers
     ELSE /\ decode_input_queue'  = PopReady(decode_input_queue)
          /\ execute_input_queue' = PopReady(execute_input_queue)
          /\ registers' = [registers EXCEPT ![PC] = potential_next_pc]
  /\ memory_input_queue'    = PopReady(memory_input_queue)
  /\ writeback_input_queue' = PopReady(writeback_input_queue)
  /\ flush_valid' = FALSE /\ flush_addr' = 0
  /\ UNCHANGED <<program, cycle, submitted, refused, flag, bht, btb,
                 has_halted, frontend_stall, potential_next_pc,
                 fetch_seen_hlt, flush_queue, execute_feedback_reg_held,
                 execute_feedback_reg_value>>

(* System::run_program after the core's run_cycle: the other components    *)
(* have their turn, the cycle ends, and the core may have halted.          *)
OthersRun ==
  /\ phase = "others"
  /\ phase' = IF has_halted THEN "halted" ELSE "flush"
  /\ cycle' = NextCycle(cycle)
  /\ submitted' = NoCommand
  /\ UNCHANGED <<program, flush_valid, flush_addr, fetchVars, refused, flag,
                 bht, btb, frontend_stall, flush_queue, memory_input_queue,
                 execute_feedback_reg_value, commitVars, execute_input_queue,
                 writeback_input_queue>>

(* potential_next_pc is written by the first fetch before it is read.      *)
Init ==
  /\ program \in Programs
  /\ cycle = 0
  /\ phase = "flush"
  /\ submitted = NoCommand
  /\ refused = NoCommand
  /\ flush_valid = FALSE /\ flush_addr = 0
  /\ registers = [r \in Registers |-> 0]
  /\ flag = FALSE
  /\ bht = [t \in BhtTags |-> FALSE]
  /\ btb = [t \in BtbTags |-> NoTarget]
  /\ has_halted = FALSE
  /\ frontend_stall = FALSE
  /\ potential_next_pc = 0
  /\ fetch_seen_hlt = FALSE
  /\ decode_input_queue = << >>
  /\ execute_input_queue = << >>
  /\ flush_queue = << >>
  /\ memory_input_queue = << >>
  /\ writeback_input_queue = << >>
  /\ \E u \in [Registers -> Uninit] :
       /\ execute_feedback_reg_held = [r \in Registers |-> u[r].held]
       /\ execute_feedback_reg_value = [r \in Registers |-> u[r].value]

StageFetch   == FetchWaits \/ FetchStalls \/ Fetch
StageDecode  == DecodeIdle \/ DecodeSegmentEnd \/ Decode
ExecuteAlone == \/ ExecuteIdle \/ ExecuteNothing \/ ExecuteWrite
                \/ ExecuteCompare \/ ExecuteBranch
StageExecute == ExecuteAlone \/ ExecuteAccepted \/ ExecuteRefused
StageMemory    == MemoryIdle \/ Memory
StageWriteback == WritebackIdle \/ Writeback

Next ==
  \/ TakeFlush \/ NoFlush
  \/ StageFetch \/ StageDecode \/ StageExecute
  \/ StageMemory \/ StageWriteback
  \/ EndCycle \/ OthersRun

Spec == Init /\ [][Next]_vars

(* One thread runs the cycles, and the scheduler does not refuse the same  *)
(* submission for ever (StallEnds of module Scheduler).                    *)
FairSpec == Spec /\ WF_vars(Next) /\ SF_vars(ExecuteAccepted)
-----------------------------------------------------------------------------
DecodeEntry  == [instruction : Instruction, pc : Nat, next_pc : Nat]
ExecuteEntry == [opcode : Opcodes, dest : Registers, source0 : Word \cup Registers,
                 source1 : Registers, pc : Nat, next_pc : Nat]
MemoryEntry  == [opcode : Opcodes, write : BOOLEAN, dest : Registers,
                 value : Word]
Commands     == {NoCommand} \cup [op : PipeOps, val1 : Word, val2 : Word]
QueueOf(T)   == Seq([cycle : Cycles, data : T])

TypeOK ==
  /\ cycle \in Cycles
  /\ phase \in Phases
  /\ submitted \in Commands /\ refused \in Commands
  /\ flush_valid \in BOOLEAN /\ flush_addr \in Nat
  /\ registers \in [Registers -> Nat]
  /\ \A r \in GPR : registers[r] \in Word
  /\ flag \in BOOLEAN
  /\ bht \in [BhtTags -> BOOLEAN]
  /\ \A t \in BhtTags : bht[t] => btb[BtbTag[t]] \in Nat
  /\ has_halted \in BOOLEAN
  /\ frontend_stall \in BOOLEAN
  /\ potential_next_pc \in Nat
  /\ fetch_seen_hlt \in BOOLEAN
  /\ decode_input_queue \in QueueOf(DecodeEntry)
  /\ execute_input_queue \in QueueOf(ExecuteEntry)
  /\ flush_queue \in QueueOf(Nat)
  /\ memory_input_queue \in QueueOf(MemoryEntry)
  /\ writeback_input_queue \in QueueOf(MemoryEntry)
  /\ execute_feedback_reg_held \in [Registers -> BOOLEAN]
  /\ execute_feedback_reg_value \in [Registers -> Word]

(* The k-th entry of a queue is taken k - 1 cycles from now: no stall,     *)
(* flush or halt leaves an entry behind the cycle in which it is valid.    *)
EntriesAligned ==
  phase = "flush" =>
    /\ \A q \in {decode_input_queue, execute_input_queue,
                  memory_input_queue, writeback_input_queue} :
         /\ q # << >> => q[1].cycle = cycle
         /\ Len(q) > 1 => Len(q) = 2 /\ q[2].cycle = NextCycle(cycle)
    /\ flush_queue # << >> =>
         Len(flush_queue) = 1 /\ flush_queue[1].cycle = cycle

(* The writes to r that have been executed and not yet left the pipeline,  *)
(* oldest first.                                                           *)
InFlight  == writeback_input_queue \o memory_input_queue
Writes(r) == {k \in DOMAIN InFlight :
                InFlight[k].data.write /\ InFlight[k].data.dest = r}

(* Feedback gives execute the value of the youngest write in flight, and   *)
(* the register itself when there is none: a register stays held until     *)
(* the instruction that holds it is written back.                          *)
FeedbackCurrent ==
  \A r \in GPR :
    /\ Writes(r) = {} => Effective(r) = registers[r]
    /\ \A k \in Writes(r) :
         (\A j \in Writes(r) : j <= k) => Effective(r) = InFlight[k].data.value

(* When the core has halted every register it will dump has its final      *)
(* value: nothing is on its way and nothing is held back.                  *)
HaltedClean ==
  phase = "halted" =>
    /\ memory_input_queue = << >> /\ writeback_input_queue = << >>
    /\ \A r \in GPR : Effective(r) = registers[r]

(* The PC that is dumped is that of the instruction that ended the run.    *)
StopsInPlace ==
  phase = "halted" =>
    /\ registers[PC] \in DOMAIN program
    /\ program[registers[PC]].op \in {"HLT", "SEGMENT_END"}

(* A submission that was refused is made again, and with the same operands,*)
(* whatever is written back in the meantime (module Scheduler relies on    *)
(* this).                                                                  *)
ResubmitsSame ==
  [][phase = "execute" /\ refused # NoCommand =>
       submitted' = refused \/ refused' = refused]_vars
-----------------------------------------------------------------------------
(* The core as an ISA: an instruction is performed when it is executed.    *)

Executed ==
  /\ phase \in {"memory", "writeback", "end"}
  /\ ~flush_valid /\ ~frontend_stall
  /\ FrontCanRun(execute_input_queue, cycle)
Decoded ==
  /\ phase \in {"execute", "memory", "writeback", "end"}
  /\ ~flush_valid
  /\ FrontCanRun(decode_input_queue, cycle)

ToExecute == IF Executed THEN Tail(execute_input_queue)
                         ELSE execute_input_queue
ToDecode  == IF Decoded THEN Tail(decode_input_queue)
                        ELSE decode_input_queue

(* The instruction to execute next is the oldest in the pipeline, unless a *)
(* flush is on its way.                                                    *)
NextToExecute ==
  CASE flush_valid -> flush_addr
    [] ~flush_valid /\ flush_queue # << >> -> Head(flush_queue).data
    [] OTHER ->
       IF ToExecute # << >> THEN Head(ToExecute).data.pc
       ELSE IF ToDecode # << >> THEN Head(ToDecode).data.pc
       ELSE IF phase \in {"others", "flush", "fetch"} THEN registers[PC]
       ELSE potential_next_pc

Halted ==
  \/ has_halted
  \/ \E q \in {memory_input_queue, writeback_input_queue} :
       \E k \in DOMAIN q : q[k].data.opcode = "HLT"

Architecture ==
  INSTANCE ISA WITH
    pc        <- IF Halted THEN -1 ELSE NextToExecute,
    registers <- [r \in GPR |-> Effective(r)],
    halted    <- Halted

(* The pipeline performs the program, one instruction after another: every *)
(* operand current, every misprediction undone, every command given once,  *)
(* and the instructions it fetched behind a branch without effect.         *)
ImplementsISA == Architecture!Spec

(* After an instruction that is not a branch comes the one that follows    *)
(* it, after a branch its target if it is taken: a wrong guess of fetch is *)
(* resolved by a flush.                                                    *)
Successor ==
  IF input.opcode = "JMP_L" \/ (input.opcode = "BRA_L" /\ flag)
  THEN input.source0 ELSE input.pc + 1

PredictionsResolve ==
  [][~Executed /\ Executed' /\ input.opcode # "HLT" =>
       NextToExecute' = Successor]_vars

(* A program without loops comes to its end.                               *)
Halts == <>(phase = "halted")
=============================================================================
