----------------------------- MODULE CoreProofs -----------------------------
(***************************************************************************)
(* Proofs about the management core, for every program, width of words     *)
(* and of the cycle counter, number of registers, predictor tags and       *)
(* whatever the scheduler answers.                                         *)
(***************************************************************************)
EXTENDS ManagerCore, CycleDeferProofs

(* What stage_execute takes as an operand itself, and what as the number   *)
(* of a register.                                                          *)
Direct0 == Immediate24 \cup Branches \cup PipeNoReg
           \cup {"MOV_R_I16", "NOP", "HLT"}
Register1 == (Immediate24 \ Moves) \cup ShiftByR
             \cup {"CMP_R_R", "P_BLI_PIX_R_R"}
Writers == Moves \cup Immediate24 \cup ShiftByR

(* The decoded instructions: an operand that is looked up is a register.   *)
Operation ==
  {e \in ExecuteEntry :
     /\ e.source0 \in IF e.opcode \in PipeNoReg THEN {0}
                      ELSE IF e.opcode \in Direct0 THEN Word ELSE GPR
     /\ e.source1 \in IF e.opcode \in Register1 THEN GPR ELSE {0}}

(* What has been executed: a write to register 0 is none.                  *)
Result == {m \in MemoryEntry : m.write = (m.dest # PC)}

Types ==
  /\ TypeOK
  /\ program \in Programs
  /\ execute_input_queue \in Queue(Operation)
  /\ memory_input_queue \in Queue(Result)
  /\ writeback_input_queue \in Queue(Result)
  /\ DOMAIN btb = BtbTags
-----------------------------------------------------------------------------
LEMMA WordType ==
  /\ Word \subseteq Nat /\ 0 \in Word
  /\ PC \in Registers /\ ACC \in GPR /\ GPR \subseteq Registers
  /\ 2^WordBits \in Nat \ {0} /\ \A n \in Nat : n % 2^WordBits \in Word
<1>1. 2^WordBits \in Nat \ {0}
  BY InstructionsAssumption
<1>2. \A m \in Nat \ {0} : \A n \in Nat : n % m \in 0 .. m - 1
  OBVIOUS
<1>3. \A m \in Nat \ {0} : 0 .. m - 1 \subseteq Nat /\ 0 \in 0 .. m - 1
  OBVIOUS
<1>4. PC \in Registers /\ ACC \in GPR /\ GPR \subseteq Registers
  BY InstructionsAssumption DEF GPR, PC, ACC
<1> QED BY <1>1, <1>2, <1>3, <1>4 DEF Word

(* What is written to a register is a word.                                *)
LEMMA ResultsType ==
  ASSUME NEW op \in Writers, NEW v0 \in Word, NEW v1 \in Word
  PROVE  Results(op, v0, v1) \subseteq Word
<1> DEFINE m == 2^WordBits
           n == 2^v0
<1>1. m \in Nat \ {0} /\ WordBits \in Nat
  BY InstructionsAssumption
<1>2. v0 \in Nat /\ v1 \in Nat /\ v1 < m
  BY <1>1 DEF Word
<1>3. v0 < WordBits => n \in Nat \ {0}
  BY <1>1, <1>2, InstructionsAssumption
<1>4. \A x \in Int : x % m \in Word
  <2>1. \A k \in Nat \ {0} : \A x \in Int : x % k \in 0 .. k - 1
    OBVIOUS
  <2> QED BY <1>1, <2>1 DEF Word
<1>5. ASSUME v0 < WordBits
      PROVE  /\ (Signed(v1) \div n) % m \in Word
             /\ (v1 * n) % m \in Word
             /\ v1 \div n \in Word
  <2>1. Signed(v1) \in Int
    <3>1. m \in Int
      BY <1>1
    <3> QED BY <1>2, <3>1 DEF Signed
  <2>2. \A k \in Nat \ {0} : \A x \in Int : x \div k \in Int
    OBVIOUS
  <2>3. \A k \in Nat \ {0} : \A x \in Nat : x \div k \in Nat /\ x \div k <= x
    OBVIOUS
  <2>4. \A k \in Nat \ {0} : \A x \in Nat : x * k \in Int
    OBVIOUS
  <2>5. n \in Nat \ {0}
    BY <1>3, <1>5
  <2>6. Signed(v1) \div n \in Int /\ v1 * n \in Int
    BY <1>2, <2>1, <2>2, <2>4, <2>5
  <2>7. v1 \div n \in Nat /\ v1 \div n <= v1
    BY <1>2, <2>3, <2>5
  <2>8. v1 \div n \in Word
    <3> HIDE DEF m, n
    <3>1. v1 \div n < m
      BY <1>1, <1>2, <2>7
    <3>2. Word = 0 .. m - 1
      BY DEF Word, m
    <3> QED BY <1>1, <2>7, <3>1, <3>2
  <2> QED BY <1>4, <2>6, <2>8
<1>6. (v0 + v1) % m \in Word
  BY <1>2, <1>4
<1> HIDE DEF m, n
<1>7. CASE op \in Moves
  BY <1>7 DEF Results, Moves
<1>8. CASE op = "ADD_I24"
  BY <1>6, <1>8 DEF Results, Moves, m
<1>9. CASE op \in {"ASR_I24", "ASR_R", "LSR_I24", "LSR_R", "LSL_I24", "LSL_R"}
  <2>1. CASE v0 >= WordBits
    <3>1. ~(v0 < WordBits)
      BY <1>1, <1>2, <2>1
    <3> QED BY <1>9, <2>1, <3>1 DEF Results, Moves
  <2>2. CASE v0 < WordBits
    <3>1. ~(v0 >= WordBits)
      BY <1>1, <1>2, <2>2
    <3>2. /\ (Signed(v1) \div n) % m \in Word
          /\ (v1 * n) % m \in Word
          /\ v1 \div n \in Word
      BY <1>5, <2>2
    <3>3. op \in {"ASR_I24", "ASR_R"} => Results(op, v0, v1) = {(Signed(v1) \div n) % m}
      BY <2>2, <3>1 DEF Results, Moves, m, n
    <3>4. op \in {"LSR_I24", "LSR_R"} => Results(op, v0, v1) = {v1 \div n}
      BY <2>2, <3>1 DEF Results, Moves, m, n
    <3>5. op \in {"LSL_I24", "LSL_R"} => Results(op, v0, v1) = {(v1 * n) % m}
      BY <2>2, <3>1 DEF Results, Moves, m, n
    <3> QED BY <1>9, <3>2, <3>3, <3>4, <3>5
  <2> QED BY <1>1, <1>2, <2>1, <2>2
<1> QED BY <1>7, <1>8, <1>9 DEF Writers, Moves, Immediate24, ShiftByR

(* A decoded instruction.                                                  *)
LEMMA DecodedType ==
  ASSUME NEW i \in Instruction, i.op # "SEGMENT_END",
         NEW p \in Nat, NEW n \in Nat
  PROVE  [opcode |-> i.op, dest |-> Dest(i), source0 |-> Source0(i),
          source1 |-> Source1(i), pc |-> p, next_pc |-> n] \in Operation
<1>1. /\ i.op \in Opcodes /\ i.r0 \in GPR /\ i.r1 \in GPR /\ i.imm \in Word
  BY DEF Instruction
<1>2. Dest(i) \in Registers
  BY <1>1, WordType DEF Dest
<1>3. Source0(i) \in IF i.op \in PipeNoReg THEN {0}
                     ELSE IF i.op \in Direct0 THEN Word ELSE GPR
  <2>1. CASE i.op \in Immediate24 \cup Branches \cup {"MOV_R_I16"}
    BY <1>1, <2>1
       DEF Source0, Direct0, Immediate24, Branches, ShiftByR, PipeOneReg,
           PipeNoReg
  <2>2. CASE i.op \in {"CMP_R", "P_BLI_PIX_R_R"} \cup ShiftByR \cup PipeOneReg
    BY <1>1, <2>2
       DEF Source0, Direct0, Immediate24, Branches, ShiftByR, PipeOneReg,
           PipeNoReg
  <2>3. CASE i.op \in {"CMP_R_R", "MOV_R_R"}
    BY <1>1, <2>3
       DEF Source0, Direct0, Immediate24, Branches, ShiftByR, PipeOneReg,
           PipeNoReg
  <2>4. CASE i.op \in PipeNoReg \cup {"NOP", "HLT"}
    BY <2>4, WordType
       DEF Source0, Direct0, Immediate24, Branches, ShiftByR, PipeOneReg,
           PipeNoReg
  <2> QED
    BY <1>1, <2>1, <2>2, <2>3, <2>4
       DEF Opcodes, PipeOps, Moves, Compares, Immediate24
<1>4. Source1(i) \in IF i.op \in Register1 THEN GPR ELSE {0}
  BY <1>1, WordType
     DEF Source1, Register1, Immediate24, Moves, ShiftByR
<1>5. GPR \subseteq Registers /\ 0 \in Registers /\ GPR \subseteq Nat
  BY WordType, InstructionsAssumption DEF GPR, PC
<1> QED BY <1>1, <1>2, <1>3, <1>4, <1>5 DEF Operation, ExecuteEntry
-----------------------------------------------------------------------------
(* The front of a queue, and queues after one more, one less, a cycle more.*)
LEMMA QueueTypes ==
  ASSUME NEW D, NEW q \in Queue(D)
  PROVE  /\ q # << >> => Head(q).data \in D /\ Tail(q) \in Queue(D)
         /\ \A t \in Cycles : \A d \in D :
              Append(q, Deferred(t, d)) \in Queue(D)
         /\ IncrementAll(q) \in Queue(D)
         /\ PopReady(q) \in Queue(D)
<1>1. q # << >> => Head(q).data \in D /\ Tail(q) \in Queue(D)
  <2> SUFFICES ASSUME q # << >>
               PROVE  Head(q).data \in D /\ Tail(q) \in Queue(D)
    OBVIOUS
  <2>1. Head(q) \in [cycle : Cycles, data : D] /\ Tail(q) \in Queue(D)
    BY HeadTailProperties DEF Queue
  <2> QED BY <2>1
<1>2. \A t \in Cycles : \A d \in D : Append(q, Deferred(t, d)) \in Queue(D)
  BY AppendProperties, NextCycleType DEF Queue, Deferred
<1>3. IncrementAll(q) \in Queue(D)
  BY IncrementAllType DEF Queue
<1> QED BY <1>1, <1>2, <1>3 DEF PopReady, FrontCanRun

LEMMA FetchedType ==
  ASSUME Types, NEW a \in Nat
  PROVE  Fetched(a) \in Instruction /\ Predicted(a) \in Nat
         /\ StagedPc(a) \in Nat
<1>1. program \in [DOMAIN program -> Instruction]
  BY ManagerCoreAssumption DEF Types
<1>2. [op |-> "NOP", r0 |-> ACC, r1 |-> ACC, imm |-> 0] \in Instruction
  BY WordType DEF Instruction, Opcodes
<1>3. Fetched(a) \in Instruction
  BY <1>1, <1>2 DEF Fetched
<1>4. Predicted(a) \in Nat
  BY DEF Predicted, Types, TypeOK, BhtTags
<1> QED BY <1>3, <1>4 DEF StagedPc

LEMMA EffectiveType ==
  ASSUME Types, NEW r \in GPR
  PROVE  Effective(r) \in Word
BY WordType DEF Effective, Types, TypeOK

(* The operands of the instruction that is executed.                       *)
LEMMA OperandTypes ==
  ASSUME Types, FrontCanRun(execute_input_queue, cycle)
  PROVE  /\ input \in Operation /\ input.opcode \in Opcodes
         /\ input.dest \in Registers /\ input.pc \in Nat
         /\ input.next_pc \in Nat
         /\ Value0 \in Word /\ Value1 \in Word
<1>1. input \in Operation
  BY QueueTypes DEF Types, FrontCanRun, input
<1>2. input \in ExecuteEntry
  BY <1>1 DEF Operation
<1>3. Value0 \in Word
  <2>1. CASE input.opcode \in Direct0
    BY <1>1, <2>1, WordType DEF Operation, Value0, Direct0
  <2>2. CASE input.opcode \notin Direct0
    <3>1. Value0 = Effective(input.source0)
      BY <2>2 DEF Value0, Direct0
    <3> QED BY <1>1, <2>2, <3>1, EffectiveType DEF Operation, Direct0
  <2> QED BY <2>1, <2>2
<1>4. Value1 \in Word
  <2>1. CASE input.opcode \in Register1
    <3>1. Value1 = Effective(input.source1)
      BY <2>1 DEF Value1, Register1
    <3> QED BY <1>1, <2>1, <3>1, EffectiveType DEF Operation
  <2>2. CASE input.opcode \notin Register1
    <3>1. Value1 = input.source1
      BY <2>2 DEF Value1, Register1
    <3> QED BY <1>1, <2>2, <3>1, WordType DEF Operation
  <2> QED BY <2>1, <2>2
<1> QED BY <1>1, <1>2, <1>3, <1>4 DEF ExecuteEntry

LEMMA TypesInit == Init => Types
<1> SUFFICES ASSUME Init PROVE Types
  OBVIOUS
<1>1. 0 \in Cycles /\ 0 \in Word /\ 0 \in Nat /\ Word \subseteq Nat
  BY CycleModulusAssumption, WordType DEF Cycles
<1>2. \A T : << >> \in Seq(T)
  BY EmptySeq
<1>3. /\ execute_feedback_reg_held \in [Registers -> BOOLEAN]
      /\ execute_feedback_reg_value \in [Registers -> Word]
  <2>1. PICK u \in [Registers -> Uninit] :
          /\ execute_feedback_reg_held = [r \in Registers |-> u[r].held]
          /\ execute_feedback_reg_value = [r \in Registers |-> u[r].value]
    BY DEF Init
  <2> QED BY <2>1, ManagerCoreAssumption
<1>4. registers \in [Registers -> Nat] /\ \A r \in GPR : registers[r] \in Word
  BY <1>1, WordType DEF Init
<1>5. bht \in [BhtTags -> BOOLEAN] /\ \A t \in BhtTags : ~bht[t]
  BY DEF Init
<1>6. /\ decode_input_queue \in QueueOf(DecodeEntry)
      /\ execute_input_queue \in QueueOf(ExecuteEntry)
      /\ execute_input_queue \in Queue(Operation)
      /\ flush_queue \in QueueOf(Nat)
      /\ memory_input_queue \in QueueOf(MemoryEntry)
      /\ writeback_input_queue \in QueueOf(MemoryEntry)
      /\ memory_input_queue \in Queue(Result)
      /\ writeback_input_queue \in Queue(Result)
  BY <1>2 DEF Init, QueueOf, Queue
<1> QED
  BY <1>1, <1>3, <1>4, <1>5, <1>6
     DEF Init, Types, TypeOK, Phases, Commands

LEMMA TypesExecute ==
  ASSUME Types, StageExecute
  PROVE  Types'
<1>1. phase' \in Phases
  BY DEF StageExecute, ExecuteAlone, ExecuteIdle, ExecuteNothing, ExecuteWrite,
         ExecuteCompare, ExecuteBranch, ExecuteAccepted, ExecuteRefused,
         Executes, Turn, Phases
<1>2. CASE ExecuteIdle
  BY <1>1, <1>2
     DEF ExecuteIdle, Types, TypeOK, cycleVars, fetchVars, executeVars,
         commitVars
<1>3. ASSUME NEW ops, Executes(ops), NEW dest \in Registers, NEW value \in Word,
             ToMemory(dest, value)
      PROVE  /\ memory_input_queue' \in QueueOf(MemoryEntry)
             /\ memory_input_queue' \in Queue(Result)
             /\ frontend_stall' \in BOOLEAN /\ refused' \in Commands
  <2> DEFINE m == [opcode |-> input.opcode, write |-> dest # PC,
                   dest |-> dest, value |-> value]
  <2>1. m \in MemoryEntry /\ m \in Result
    BY <1>3, OperandTypes DEF Executes, MemoryEntry, Result
  <2>2. /\ cycle \in Cycles /\ memory_input_queue \in Queue(MemoryEntry)
        /\ memory_input_queue \in Queue(Result)
        /\ memory_input_queue' = Append(memory_input_queue, Deferred(cycle, m))
    BY <1>3 DEF Types, TypeOK, QueueOf, Queue, ToMemory
  <2> HIDE DEF m
  <2>3. /\ memory_input_queue' \in Queue(MemoryEntry)
        /\ memory_input_queue' \in Queue(Result)
    BY <2>1, <2>2, QueueTypes
  <2> QED BY <1>3, <2>3 DEF ToMemory, QueueOf, Queue, Commands
<1>4. CASE ExecuteNothing
  <2>1. /\ memory_input_queue' \in QueueOf(MemoryEntry)
        /\ memory_input_queue' \in Queue(Result)
        /\ frontend_stall' \in BOOLEAN /\ refused' \in Commands
    BY <1>3, <1>4, WordType DEF ExecuteNothing
  <2> QED
    BY <1>1, <1>4, <2>1
       DEF ExecuteNothing, Types, TypeOK, cycleVars, fetchVars, commitVars
<1>5. CASE ExecuteWrite
  <2>1. /\ Executes(Moves \cup Immediate24 \cup ShiftByR)
        /\ FrontCanRun(execute_input_queue, cycle)
        /\ input.opcode \in Writers
    BY <1>5 DEF ExecuteWrite, Executes, Writers
  <2>2. PICK value \in Results(input.opcode, Value0, Value1) :
          /\ ToMemory(input.dest, value)
          /\ IF input.dest = PC
             THEN UNCHANGED <<execute_feedback_reg_held,
                              execute_feedback_reg_value>>
             ELSE /\ execute_feedback_reg_held' =
                       [execute_feedback_reg_held EXCEPT ![input.dest] = TRUE]
                  /\ execute_feedback_reg_value' =
                       [execute_feedback_reg_value EXCEPT ![input.dest] = value]
    BY <1>5 DEF ExecuteWrite
  <2>3. value \in Word /\ input.dest \in Registers
    BY <2>1, <2>2, OperandTypes, ResultsType
  <2>4. /\ memory_input_queue' \in QueueOf(MemoryEntry)
        /\ memory_input_queue' \in Queue(Result)
        /\ frontend_stall' \in BOOLEAN /\ refused' \in Commands
    BY <1>3, <2>1, <2>2, <2>3
  <2>5. /\ execute_feedback_reg_held' \in [Registers -> BOOLEAN]
        /\ execute_feedback_reg_value' \in [Registers -> Word]
    BY <2>2, <2>3 DEF Types, TypeOK
  <2> QED
    BY <1>1, <1>5, <2>4, <2>5
       DEF ExecuteWrite, Types, TypeOK, cycleVars, fetchVars
<1>6. CASE ExecuteCompare
  <2>1. /\ memory_input_queue' \in QueueOf(MemoryEntry)
        /\ memory_input_queue' \in Queue(Result)
        /\ frontend_stall' \in BOOLEAN /\ refused' \in Commands
    BY <1>3, <1>6, WordType DEF ExecuteCompare
  <2> QED
    BY <1>1, <1>6, <2>1
       DEF ExecuteCompare, Types, TypeOK, cycleVars, fetchVars, commitVars
<1>7. CASE ExecuteBranch
  <2>1. /\ memory_input_queue' \in QueueOf(MemoryEntry)
        /\ memory_input_queue' \in Queue(Result)
        /\ frontend_stall' \in BOOLEAN /\ refused' \in Commands
    BY <1>3, <1>7, WordType DEF ExecuteBranch
  <2>2. BranchTarget \in Nat
    BY <1>7, OperandTypes, WordType DEF ExecuteBranch, Executes, BranchTarget
  <2>3. flush_queue' \in QueueOf(Nat)
    <3>1. cycle \in Cycles /\ flush_queue \in Queue(Nat)
      BY DEF Types, TypeOK, QueueOf, Queue
    <3>2. Append(flush_queue, Deferred(cycle, BranchTarget)) \in Queue(Nat)
      BY <2>2, <3>1, QueueTypes
    <3> QED BY <1>7, <3>1, <3>2 DEF ExecuteBranch, QueueOf, Queue
  <2>4. /\ bht' \in [BhtTags -> BOOLEAN] /\ DOMAIN btb' = BtbTags
        /\ \A t \in BhtTags : bht'[t] => btb'[BtbTag[t]] \in Nat
    <3> DEFINE tag    == BhtTag[input.pc]
               missed == input.next_pc # BranchTarget
    <3>1. /\ bht \in [BhtTags -> BOOLEAN] /\ DOMAIN btb = BtbTags
          /\ \A t \in BhtTags : BtbTag[t] \in BtbTags
          /\ \A t \in BhtTags : bht[t] => btb[BtbTag[t]] \in Nat
      BY DEF Types, TypeOK, BtbTags
    <3>2. \/ UNCHANGED <<bht, btb>>
          \/ /\ bht' = [bht EXCEPT ![tag] = missed]
             /\ btb' = IF missed THEN [btb EXCEPT ![BtbTag[tag]] = BranchTarget]
                                 ELSE btb
      BY <1>7 DEF ExecuteBranch
    <3> HIDE DEF tag, missed
    <3>3. missed \in BOOLEAN
      BY DEF missed
    <3>4. CASE bht' = bht /\ btb' = btb
      BY <3>1, <3>4
    <3>5. CASE missed /\ bht' = [bht EXCEPT ![tag] = TRUE]
                     /\ btb' = [btb EXCEPT ![BtbTag[tag]] = BranchTarget]
      BY <2>2, <3>1, <3>5
    <3>6. CASE bht' = [bht EXCEPT ![tag] = FALSE] /\ btb' = btb
      BY <3>1, <3>6
    <3> QED BY <3>2, <3>3, <3>4, <3>5, <3>6
  <2> QED
    BY <1>1, <1>7, <2>1, <2>3, <2>4
       DEF ExecuteBranch, Types, TypeOK, cycleVars, fetchVars, commitVars
<1>8. ASSUME Executes(PipeOps) PROVE Command \in Commands
  BY <1>8, OperandTypes DEF Executes, Command, Commands
<1>9. CASE ExecuteAccepted
  <2>1. /\ memory_input_queue' \in QueueOf(MemoryEntry)
        /\ memory_input_queue' \in Queue(Result)
        /\ frontend_stall' \in BOOLEAN /\ refused' \in Commands
    BY <1>3, <1>9, WordType DEF ExecuteAccepted
  <2>2. submitted' \in Commands
    BY <1>8, <1>9 DEF ExecuteAccepted
  <2> QED
    BY <1>1, <1>9, <2>1, <2>2
       DEF ExecuteAccepted, Types, TypeOK, cycleVars, fetchVars, commitVars
<1>10. CASE ExecuteRefused
  <2>1. refused' \in Commands
    BY <1>8, <1>10 DEF ExecuteRefused
  <2> QED
    BY <1>1, <1>10, <2>1
       DEF ExecuteRefused, Types, TypeOK, cycleVars, fetchVars, commitVars
<1> QED
  BY <1>2, <1>4, <1>5, <1>6, <1>7, <1>9, <1>10 DEF StageExecute, ExecuteAlone

LEMMA TypesFrontend ==
  ASSUME Types, TakeFlush \/ NoFlush \/ StageFetch \/ StageDecode
  PROVE  Types'
<1>1. CASE TakeFlush
  <2>1. flush_queue \in Queue(Nat) /\ flush_queue # << >>
    BY <1>1 DEF TakeFlush, Types, TypeOK, Queue, QueueOf
  <2>2. Head(flush_queue).data \in Nat /\ Tail(flush_queue) \in QueueOf(Nat)
    BY <2>1, QueueTypes DEF Queue, QueueOf
  <2> QED
    BY <1>1, <2>2
       DEF TakeFlush, Turn, Phases, Types, TypeOK, fetchVars, commitVars
<1>2. CASE NoFlush
  BY <1>2
     DEF NoFlush, Turn, Phases, Types, TypeOK, cycleVars, fetchVars,
         executeVars, commitVars
<1>3. CASE FetchWaits \/ FetchStalls
  BY <1>3
     DEF FetchWaits, FetchStalls, Turn, Phases, Types, TypeOK, cycleVars,
         fetchVars, executeVars, commitVars
<1>4. CASE Fetch
  <2> DEFINE d == [instruction |-> Fetched(FetchPc), pc |-> FetchPc,
                   next_pc |-> potential_next_pc']
  <2>1. FetchPc \in Nat
    BY WordType DEF FetchPc, Types, TypeOK
  <2>2. /\ Fetched(FetchPc) \in Instruction /\ potential_next_pc' \in Nat
        /\ fetch_seen_hlt' \in BOOLEAN
    BY <1>4, <2>1, FetchedType DEF Fetch
  <2>3. d \in DecodeEntry
    BY <2>1, <2>2 DEF DecodeEntry
  <2> HIDE DEF d
  <2>4. cycle \in Cycles /\ decode_input_queue \in Queue(DecodeEntry)
    BY DEF Types, TypeOK, QueueOf, Queue
  <2>5. decode_input_queue' \in QueueOf(DecodeEntry)
    <3>1. decode_input_queue' = Append(decode_input_queue, Deferred(cycle, d))
      BY <1>4 DEF Fetch, d
    <3>2. decode_input_queue' \in Queue(DecodeEntry)
      BY <2>3, <2>4, <3>1, QueueTypes
    <3> QED BY <3>2 DEF QueueOf, Queue
  <2> QED
    BY <1>4, <2>2, <2>5
       DEF Fetch, Turn, Phases, Types, TypeOK, cycleVars, executeVars,
           commitVars
<1>5. CASE DecodeIdle \/ DecodeSegmentEnd
  BY <1>5
     DEF DecodeIdle, DecodeSegmentEnd, Decodes, Turn, Phases, Types, TypeOK,
         cycleVars, fetchVars, executeVars, commitVars
<1>6. CASE Decode
  <2> DEFINE d == Head(decode_input_queue).data
             i == d.instruction
             o == [opcode |-> i.op, dest |-> Dest(i), source0 |-> Source0(i),
                   source1 |-> Source1(i), pc |-> d.pc, next_pc |-> d.next_pc]
  <2>1. /\ decode_input_queue # << >> /\ i.op # "SEGMENT_END"
        /\ execute_input_queue' = IF frontend_stall THEN execute_input_queue
                                  ELSE Append(execute_input_queue,
                                              Deferred(cycle, o))
    BY <1>6 DEF Decode, Decodes, FrontCanRun
  <2>2. d \in DecodeEntry
    <3>1. decode_input_queue \in Queue(DecodeEntry)
      BY DEF Types, TypeOK, QueueOf, Queue
    <3> QED BY <2>1, <3>1, QueueTypes
  <2>3. o \in Operation /\ o \in ExecuteEntry
    <3>1. i \in Instruction /\ d.pc \in Nat /\ d.next_pc \in Nat
      BY <2>2 DEF DecodeEntry
    <3>2. o \in Operation
      BY <2>1, <3>1, DecodedType
    <3> QED BY <3>2 DEF Operation
  <2> HIDE DEF o
  <2>4. /\ execute_input_queue' \in Queue(Operation)
        /\ execute_input_queue' \in Queue(ExecuteEntry)
    <3>1. /\ cycle \in Cycles /\ execute_input_queue \in Queue(Operation)
          /\ execute_input_queue \in Queue(ExecuteEntry)
      BY DEF Types, TypeOK, QueueOf, Queue
    <3> QED BY <2>1, <2>3, <3>1, QueueTypes
  <2>5. execute_input_queue' \in QueueOf(ExecuteEntry)
    BY <2>4 DEF Queue, QueueOf
  <2> QED
    BY <1>6, <2>4, <2>5
       DEF Decode, Decodes, Turn, Phases, Types, TypeOK, cycleVars, fetchVars,
           executeVars, commitVars
<1> QED
  BY <1>1, <1>2, <1>3, <1>4, <1>5, <1>6 DEF StageFetch, StageDecode

LEMMA TypesBackend ==
  ASSUME Types, StageMemory \/ StageWriteback
  PROVE  Types'
<1>1. CASE MemoryIdle \/ WritebackIdle
  BY <1>1
     DEF MemoryIdle, WritebackIdle, Turn, Phases, Types, TypeOK, cycleVars,
         fetchVars, executeVars, commitVars
<1>2. /\ cycle \in Cycles /\ memory_input_queue \in Queue(MemoryEntry)
      /\ writeback_input_queue \in Queue(MemoryEntry)
      /\ memory_input_queue \in Queue(Result)
      /\ writeback_input_queue \in Queue(Result)
  BY DEF Types, TypeOK, QueueOf, Queue
<1>3. CASE Memory
  <2>1. /\ writeback_input_queue' \in QueueOf(MemoryEntry)
        /\ writeback_input_queue' \in Queue(Result)
    BY <1>2, <1>3, QueueTypes DEF Memory, FrontCanRun, Queue, QueueOf
  <2> QED
    BY <1>3, <2>1
       DEF Memory, Turn, Phases, Types, TypeOK, cycleVars, fetchVars,
           executeVars, commitVars
<1>4. CASE Writeback
  <2> DEFINE w == Head(writeback_input_queue).data
  <2>1. w \in MemoryEntry
    BY <1>2, <1>4, QueueTypes DEF Writeback, FrontCanRun
  <2>2. w.dest \in Registers /\ w.value \in Word /\ w.value \in Nat
    BY <2>1, WordType DEF MemoryEntry
  <2>3. /\ registers' = registers
           \/ registers' = [registers EXCEPT ![w.dest] = w.value]
        /\ execute_feedback_reg_held' = execute_feedback_reg_held
           \/ execute_feedback_reg_held' =
                [execute_feedback_reg_held EXCEPT ![w.dest] = FALSE]
        /\ has_halted' \in BOOLEAN
    BY <1>4 DEF Writeback, Types, TypeOK
  <2> HIDE DEF w
  <2>4. /\ registers' \in [Registers -> Nat]
        /\ \A r \in GPR : registers'[r] \in Word
        /\ execute_feedback_reg_held' \in [Registers -> BOOLEAN]
    <3>1. /\ registers \in [Registers -> Nat]
          /\ \A r \in GPR : registers[r] \in Word
          /\ execute_feedback_reg_held \in [Registers -> BOOLEAN]
      BY DEF Types, TypeOK
    <3> QED BY <2>2, <2>3, <3>1, WordType
  <2> QED
    BY <1>4, <2>3, <2>4
       DEF Writeback, Turn, Phases, Types, TypeOK, cycleVars, fetchVars,
           executeVars
<1> QED BY <1>1, <1>3, <1>4 DEF StageMemory, StageWriteback

LEMMA TypesNext == Types /\ [Next]_vars => Types'
<1> SUFFICES ASSUME Types, [Next]_vars PROVE Types'
  OBVIOUS
<1>1. CASE EndCycle
  <2>1. /\ decode_input_queue \in Queue(DecodeEntry)
        /\ execute_input_queue \in Queue(Operation)
        /\ execute_input_queue \in Queue(ExecuteEntry)
        /\ memory_input_queue \in Queue(MemoryEntry)
        /\ writeback_input_queue \in Queue(MemoryEntry)
        /\ memory_input_queue \in Queue(Result)
        /\ writeback_input_queue \in Queue(Result)
    BY DEF Types, TypeOK, QueueOf, Queue
  <2>2. /\ decode_input_queue' \in Queue(DecodeEntry)
        /\ execute_input_queue' \in Queue(Operation)
        /\ execute_input_queue' \in Queue(ExecuteEntry)
        /\ memory_input_queue' \in Queue(MemoryEntry)
        /\ writeback_input_queue' \in Queue(MemoryEntry)
        /\ memory_input_queue' \in Queue(Result)
        /\ writeback_input_queue' \in Queue(Result)
    BY <1>1, <2>1, QueueTypes DEF EndCycle
  <2>3. /\ registers' \in [Registers -> Nat]
        /\ \A r \in GPR : registers'[r] \in Word
    BY <1>1, WordType DEF EndCycle, Types, TypeOK, GPR
  <2> QED
    BY <1>1, <2>2, <2>3
       DEF EndCycle, Turn, Phases, Types, TypeOK, Queue, QueueOf
<1>2. CASE OthersRun
  <2>1. NextCycle(cycle) \in Cycles
    BY NextCycleType DEF Types, TypeOK
  <2> QED
    BY <1>2, <2>1
       DEF OthersRun, Phases, Types, TypeOK, Commands, fetchVars, commitVars
<1>3. CASE UNCHANGED vars
  BY <1>3
     DEF vars, Types, TypeOK, cycleVars, fetchVars, executeVars, commitVars
<1> QED
  BY <1>1, <1>2, <1>3, TypesFrontend, TypesExecute, TypesBackend DEF Next

(* Every variable of the core keeps its type.                              *)
THEOREM CoreTypes == Spec => []TypeOK
<1>1. Types => TypeOK
  BY DEF Types
<1> QED BY <1>1, TypesInit, TypesNext, PTL DEF Spec
-----------------------------------------------------------------------------
(* The queues in step with the cycles.  Up to its turn a stage has nothing *)
(* for the next cycle unless the core is stalled, and the queue that feeds *)
(* decode runs empty before the one that feeds execute only behind a HLT.  *)
Today == IF phase = "others" THEN NextCycle(cycle) ELSE cycle
Ready(q) == FrontCanRun(q, Today)
Next1(q) == Coming(q, Today)

AtRest        == {"others", "flush", "halted"}
BeforeFetch   == AtRest \cup {"fetch"}
BeforeDecode  == BeforeFetch \cup {"decode"}
BeforeExecute == BeforeDecode \cup {"execute"}
BeforeMemory  == BeforeExecute \cup {"memory"}
AfterExecute  == {"memory", "writeback", "end"}

Over == fetch_seen_hlt \/ has_halted

InStep ==
  /\ Orderly(decode_input_queue, Today)
  /\ Orderly(execute_input_queue, Today)
  /\ Orderly(memory_input_queue, Today)
  /\ Orderly(writeback_input_queue, Today)
  /\ Orderly(flush_queue, Today)
  /\ phase \in BeforeFetch /\ ~frontend_stall => ~Next1(decode_input_queue)
  /\ phase \in BeforeDecode /\ ~frontend_stall => ~Next1(execute_input_queue)
  /\ phase \in BeforeExecute => ~Next1(memory_input_queue)
  /\ phase \in BeforeMemory => ~Next1(writeback_input_queue)

Stalls ==
  frontend_stall =>
    /\ ~flush_valid /\ flush_queue = << >>
    /\ Ready(execute_input_queue)
    /\ Next1(decode_input_queue) => Ready(decode_input_queue)

Flushes ==
  /\ flush_valid => phase \notin AtRest
  /\ phase \in AtRest => ~Next1(flush_queue)
  /\ phase \in BeforeExecute \ AtRest => flush_queue = << >>
  /\ phase \in AfterExecute =>
       ~Ready(flush_queue) /\ (flush_valid => flush_queue = << >>)
  /\ flush_valid /\ phase # "fetch" => ~Next1(execute_input_queue)

(* Execute has an instruction for which decode has no successor.           *)
Behind ==
  \/ Ready(execute_input_queue) /\ ~Ready(decode_input_queue)
  \/ Next1(execute_input_queue) /\ ~Next1(decode_input_queue)

Gapless ==
  /\ phase \in BeforeFetch \/ frontend_stall => (Behind => Over)
  /\ phase \in {"decode", "execute"} /\ ~flush_valid /\ ~frontend_stall =>
       /\ ~Next1(decode_input_queue) => fetch_seen_hlt
       /\ Ready(execute_input_queue) /\ ~Ready(decode_input_queue) =>
            ~Next1(decode_input_queue)
  /\ phase \in AfterExecute =>
       (Next1(execute_input_queue) /\ ~Next1(decode_input_queue) => Over)

Ends ==
  /\ has_halted => phase \notin {"flush", "fetch", "decode"}
  /\ phase = "halted" => has_halted

Aligned == InStep /\ Stalls /\ Flushes /\ Gapless /\ Ends

LEMMA AlignedInit == Init => Aligned
<1> SUFFICES ASSUME Init PROVE Aligned
  OBVIOUS
<1>1. \A t : /\ Orderly(<< >>, t) /\ ~FrontCanRun(<< >>, t)
             /\ ~Coming(<< >>, t)
  BY EmptySeq DEF Orderly, FrontCanRun, Coming
<1>2. InStep
  BY <1>1 DEF Init, InStep, Next1
<1> QED
  BY <1>1, <1>2
     DEF Init, Aligned, Stalls, Flushes, Gapless, Ends, Behind, Ready, Next1,
         AtRest, BeforeFetch, BeforeDecode, BeforeExecute, AfterExecute

(* What the proofs below need to know of the types.                        *)
LEMMA QueuesTyped ==
  Types => /\ cycle \in Cycles
           /\ decode_input_queue \in Queue(DecodeEntry)
           /\ execute_input_queue \in Queue(Operation)
           /\ memory_input_queue \in Queue(Result)
           /\ writeback_input_queue \in Queue(Result)
           /\ flush_queue \in Queue(Nat)
BY DEF Types, TypeOK, QueueOf, Queue

LEMMA AlignedFlush ==
  ASSUME Types, Aligned, TakeFlush \/ NoFlush
  PROVE  Aligned'
<1>1. /\ phase = "flush" /\ phase' = "fetch" /\ Today = cycle
      /\ Today' = cycle' /\ cycle' = cycle
  BY DEF TakeFlush, NoFlush, Turn, Today, cycleVars
<1>2. cycle \in Cycles /\ flush_queue \in Queue(Nat) /\ cycle \in Nat
  BY QueuesTyped DEF Cycles
<1>3. Orderly(flush_queue, cycle) /\ ~Coming(flush_queue, cycle)
  BY <1>1 DEF Aligned, InStep, Flushes, Next1, AtRest
<1>4. flush_queue # << >> =>
        /\ Len(flush_queue) = 1 /\ FrontCanRun(flush_queue, cycle)
        /\ Head(flush_queue).cycle = cycle
  BY <1>2, <1>3, Slots
<1>5. flush_queue' = << >> /\ (flush_valid' => flush_queue # << >>)
  <2>1. CASE TakeFlush
    <3>1. flush_queue' = Tail(flush_queue) /\ flush_queue # << >>
      BY <2>1 DEF TakeFlush
    <3>2. Tail(flush_queue) \in Queue(Nat) /\ Len(Tail(flush_queue)) = 0
      BY <1>2, <1>4, <3>1, HeadTailProperties DEF Queue
    <3> QED BY <3>1, <3>2, NotEmpty, EmptySeq DEF Queue
  <2>2. CASE NoFlush
    <3>1. flush_queue = << >>
      BY <1>2, <1>4, <2>2 DEF NoFlush
    <3> QED
      BY <1>1, <2>2, <3>1
         DEF NoFlush, executeVars, cycleVars, Aligned, Flushes, AtRest
  <2> QED BY <2>1, <2>2
<1>6. UNCHANGED <<decode_input_queue, execute_input_queue, memory_input_queue,
                  writeback_input_queue, frontend_stall, fetch_seen_hlt,
                  has_halted>>
  BY DEF TakeFlush, NoFlush, cycleVars, fetchVars, executeVars, commitVars
<1>7. Orderly(<< >>, cycle)
  BY EmptySeq DEF Orderly
<1> QED
  BY <1>1, <1>5, <1>6, <1>7
     DEF Aligned, InStep, Stalls, Flushes, Gapless, Ends, Behind, Over, Ready,
         Next1, AtRest, BeforeFetch, BeforeDecode, BeforeExecute,
         BeforeMemory, AfterExecute

LEMMA AlignedFetch ==
  ASSUME Types, Aligned, StageFetch
  PROVE  Aligned'
<1>1. /\ phase = "fetch" /\ phase' = "decode" /\ Today = cycle
      /\ Today' = cycle' /\ cycle' = cycle
      /\ UNCHANGED <<execute_input_queue, memory_input_queue,
                     writeback_input_queue, flush_queue, flush_valid,
                     frontend_stall, has_halted>>
  BY DEF StageFetch, FetchWaits, FetchStalls, Fetch, Turn, Today, cycleVars,
         fetchVars, executeVars, commitVars
<1>2. /\ FetchWaits => fetch_seen_hlt /\ ~flush_valid
                       /\ UNCHANGED <<decode_input_queue, fetch_seen_hlt>>
      /\ FetchStalls => (has_halted \/ frontend_stall) /\ fetch_seen_hlt' = FALSE
                        /\ UNCHANGED decode_input_queue
                        /\ ~(fetch_seen_hlt /\ ~flush_valid)
      /\ Fetch => ~frontend_stall /\ ~(fetch_seen_hlt /\ ~flush_valid)
  BY DEF FetchWaits, FetchStalls, Fetch, HltSeen, fetchVars
<1>3. CASE Fetch
  <2>1. /\ Orderly(decode_input_queue, cycle)
        /\ ~Coming(decode_input_queue, cycle)
    BY <1>1, <1>2, <1>3 DEF Aligned, InStep, Next1, BeforeFetch
  <2> DEFINE d == [instruction |-> Fetched(FetchPc), pc |-> FetchPc,
                   next_pc |-> potential_next_pc']
  <2>2. d \in DecodeEntry
    <3>1. FetchPc \in Nat
      BY WordType DEF FetchPc, Types, TypeOK
    <3>2. /\ Fetched(FetchPc) \in Instruction /\ potential_next_pc' \in Nat
      BY <1>3, <3>1, FetchedType DEF Fetch
    <3> QED BY <3>1, <3>2 DEF DecodeEntry
  <2>3. decode_input_queue' = Append(decode_input_queue, Deferred(cycle, d))
    BY <1>3 DEF Fetch
  <2> HIDE DEF d
  <2>4. /\ Orderly(decode_input_queue', cycle)
        /\ Coming(decode_input_queue', cycle)
        /\ FrontCanRun(decode_input_queue', cycle)
             <=> FrontCanRun(decode_input_queue, cycle)
    BY <2>1, <2>2, <2>3, Pushed, QueuesTyped
  <2> QED
    BY <1>1, <1>2, <1>3, <2>4
       DEF Aligned, InStep, Stalls, Flushes, Gapless, Ends, Behind, Over,
           Ready, Next1, AtRest, BeforeFetch, BeforeDecode, BeforeExecute,
           BeforeMemory, AfterExecute
<1>4. CASE FetchWaits \/ FetchStalls
  BY <1>1, <1>2, <1>4
     DEF Aligned, InStep, Stalls, Flushes, Gapless, Ends, Behind, Over,
         Ready, Next1, AtRest, BeforeFetch, BeforeDecode, BeforeExecute,
         BeforeMemory, AfterExecute
<1> QED BY <1>3, <1>4 DEF StageFetch

LEMMA AlignedDecode ==
  ASSUME Types, Aligned, StageDecode
  PROVE  Aligned'
<1>1. /\ phase = "decode" /\ phase' = "execute" /\ Today = cycle
      /\ Today' = cycle' /\ cycle' = cycle
      /\ UNCHANGED <<decode_input_queue, memory_input_queue,
                     writeback_input_queue, flush_queue, flush_valid,
                     frontend_stall, fetch_seen_hlt>>
      /\ has_halted' = has_halted \/ has_halted' = TRUE
  BY DEF StageDecode, DecodeIdle, DecodeSegmentEnd, Decode, Decodes, Turn,
         Today, cycleVars, fetchVars, executeVars, commitVars
<1>2. CASE DecodeIdle
  <2>1. /\ UNCHANGED execute_input_queue
        /\ flush_valid \/ ~FrontCanRun(decode_input_queue, cycle)
    BY <1>2 DEF DecodeIdle
  <2> QED
    BY <1>1, <2>1
       DEF Aligned, InStep, Stalls, Flushes, Gapless, Ends, Behind, Over,
           Ready, Next1, AtRest, BeforeFetch, BeforeDecode, BeforeExecute,
           BeforeMemory, AfterExecute
<1>3. CASE DecodeSegmentEnd
  <2>1. UNCHANGED execute_input_queue /\ ~flush_valid /\ has_halted'
    BY <1>3 DEF DecodeSegmentEnd, Decodes
  <2> QED
    BY <1>1, <2>1
       DEF Aligned, InStep, Stalls, Flushes, Gapless, Ends, Behind, Over,
           Ready, Next1, AtRest, BeforeFetch, BeforeDecode, BeforeExecute,
           BeforeMemory, AfterExecute
<1>4. CASE Decode
  <2>1. /\ ~flush_valid /\ FrontCanRun(decode_input_queue, cycle)
        /\ frontend_stall => UNCHANGED execute_input_queue
    BY <1>4 DEF Decode, Decodes
  <2>2. CASE frontend_stall
    BY <1>1, <2>1, <2>2
       DEF Aligned, InStep, Stalls, Flushes, Gapless, Ends, Behind, Over,
           Ready, Next1, AtRest, BeforeFetch, BeforeDecode, BeforeExecute,
           BeforeMemory, AfterExecute
  <2>3. CASE ~frontend_stall
    <3>1. /\ Orderly(execute_input_queue, cycle)
          /\ ~Coming(execute_input_queue, cycle)
      BY <1>1, <2>3 DEF Aligned, InStep, Next1, BeforeDecode
    <3>2. PICK o \in Operation :
            execute_input_queue' =
              Append(execute_input_queue, Deferred(cycle, o))
      <4> DEFINE d == Head(decode_input_queue).data
                 i == d.instruction
                 o == [opcode |-> i.op, dest |-> Dest(i),
                       source0 |-> Source0(i), source1 |-> Source1(i),
                       pc |-> d.pc, next_pc |-> d.next_pc]
      <4>1. decode_input_queue # << >> /\ i.op # "SEGMENT_END"
        BY <1>4, <2>1 DEF Decode, FrontCanRun
      <4>2. d \in DecodeEntry
        BY <4>1, QueuesTyped, QueueTypes
      <4>3. i \in Instruction /\ d.pc \in Nat /\ d.next_pc \in Nat
        BY <4>2 DEF DecodeEntry
      <4>4. o \in Operation
        BY <4>1, <4>3, DecodedType
      <4>5. execute_input_queue' =
              Append(execute_input_queue, Deferred(cycle, o))
        BY <1>4, <2>3 DEF Decode
      <4> QED BY <4>4, <4>5
    <3>3. /\ Orderly(execute_input_queue', cycle)
          /\ Coming(execute_input_queue', cycle)
          /\ FrontCanRun(execute_input_queue', cycle)
               <=> FrontCanRun(execute_input_queue, cycle)
      BY <3>1, <3>2, Pushed, QueuesTyped
    <3> QED
      BY <1>1, <2>1, <2>3, <3>3
         DEF Aligned, InStep, Stalls, Flushes, Gapless, Ends, Behind, Over,
             Ready, Next1, AtRest, BeforeFetch, BeforeDecode, BeforeExecute,
             BeforeMemory, AfterExecute
  <2> QED BY <2>2, <2>3
<1> QED BY <1>2, <1>3, <1>4 DEF StageDecode

(* An instruction that is not refused passes its result to the memory      *)
(* stage, and the feedback gets it at once.                                *)
Handled == ExecuteNothing \/ ExecuteWrite \/ ExecuteCompare \/ ExecuteBranch
           \/ ExecuteAccepted

LEMMA ExecutePushes ==
  ASSUME Types, Handled
  PROVE  \E m \in Result :
           /\ memory_input_queue' =
                Append(memory_input_queue, Deferred(cycle, m))
           /\ m.opcode = input.opcode
           /\ \/ /\ m.dest = PC
                 /\ UNCHANGED <<execute_feedback_reg_held,
                                execute_feedback_reg_value>>
              \/ /\ m.dest \in GPR
                 /\ execute_feedback_reg_held' =
                      [execute_feedback_reg_held EXCEPT ![m.dest] = TRUE]
                 /\ execute_feedback_reg_value' =
                      [execute_feedback_reg_value EXCEPT ![m.dest] = m.value]
<1>1. FrontCanRun(execute_input_queue, cycle)
  BY DEF Handled, ExecuteNothing, ExecuteWrite, ExecuteCompare, ExecuteBranch,
         ExecuteAccepted, Executes
<1> DEFINE m(dest, value) == [opcode |-> input.opcode, write |-> dest # PC,
                              dest |-> dest, value |-> value]
<1>2. ASSUME NEW dest \in Registers, NEW value \in Word
      PROVE  /\ m(dest, value) \in Result
             /\ m(dest, value).opcode = input.opcode
             /\ m(dest, value).dest = dest /\ m(dest, value).value = value
  BY <1>1, OperandTypes DEF MemoryEntry, Result
<1>3. ASSUME NEW dest, NEW value, ToMemory(dest, value)
      PROVE  memory_input_queue' =
               Append(memory_input_queue, Deferred(cycle, m(dest, value)))
  BY <1>3 DEF ToMemory
<1> HIDE DEF m
<1>4. CASE ExecuteWrite
  <2>1. input.opcode \in Writers
    BY <1>4 DEF ExecuteWrite, Executes, Writers
  <2>2. PICK value \in Results(input.opcode, Value0, Value1) :
          /\ ToMemory(input.dest, value)
          /\ IF input.dest = PC
             THEN UNCHANGED <<execute_feedback_reg_held,
                              execute_feedback_reg_value>>
             ELSE /\ execute_feedback_reg_held' =
                       [execute_feedback_reg_held EXCEPT ![input.dest] = TRUE]
                  /\ execute_feedback_reg_value' =
                       [execute_feedback_reg_value EXCEPT ![input.dest] = value]
    BY <1>4 DEF ExecuteWrite
  <2>3. value \in Word /\ input.dest \in Registers
    BY <1>1, <2>1, OperandTypes, ResultsType
  <2>4. input.dest = PC \/ input.dest \in GPR
    BY <2>3 DEF GPR
  <2> QED BY <1>2, <1>3, <2>2, <2>3, <2>4
<1>5. CASE ~ExecuteWrite
  <2>1. /\ ToMemory(PC, 0)
        /\ UNCHANGED <<execute_feedback_reg_held, execute_feedback_reg_value>>
    BY <1>5
       DEF Handled, ExecuteNothing, ExecuteCompare, ExecuteBranch,
           ExecuteAccepted, commitVars
  <2> QED BY <1>2, <1>3, <2>1, WordType
<1> QED BY <1>4, <1>5

LEMMA AlignedExecute ==
  ASSUME Types, Aligned, StageExecute
  PROVE  Aligned'
<1>1. /\ phase = "execute" /\ phase' = "memory" /\ Today = cycle
      /\ Today' = cycle' /\ cycle' = cycle
      /\ UNCHANGED <<decode_input_queue, execute_input_queue,
                     writeback_input_queue, flush_valid, fetch_seen_hlt,
                     has_halted>>
  BY DEF StageExecute, ExecuteAlone, ExecuteIdle, ExecuteNothing, ExecuteWrite,
         ExecuteCompare, ExecuteBranch, ExecuteAccepted, ExecuteRefused,
         Executes, Turn, Today, cycleVars, fetchVars, executeVars, commitVars
<1>2. /\ flush_queue = << >>
      /\ Orderly(memory_input_queue, cycle)
      /\ ~Coming(memory_input_queue, cycle)
      /\ Orderly(<< >>, cycle)
      /\ ~FrontCanRun(<< >>, cycle) /\ ~Coming(<< >>, cycle)
  BY <1>1, EmptySeq
     DEF Aligned, InStep, Flushes, Next1, BeforeExecute, BeforeDecode,
         BeforeFetch, AtRest, Orderly, FrontCanRun, Coming
<1>3. CASE ExecuteIdle
  <2>1. /\ UNCHANGED <<memory_input_queue, flush_queue, frontend_stall>>
        /\ flush_valid \/ ~FrontCanRun(execute_input_queue, cycle)
    BY <1>3 DEF ExecuteIdle, executeVars
  <2> QED
    BY <1>1, <1>2, <2>1
       DEF Aligned, InStep, Stalls, Flushes, Gapless, Ends, Behind, Over,
           Ready, Next1, AtRest, BeforeFetch, BeforeDecode, BeforeExecute,
           BeforeMemory, AfterExecute
<1>4. CASE ExecuteRefused
  <2>1. /\ UNCHANGED <<memory_input_queue, flush_queue>>
        /\ frontend_stall' = TRUE
        /\ ~flush_valid /\ FrontCanRun(execute_input_queue, cycle)
    BY <1>4 DEF ExecuteRefused, Executes
  <2> QED
    BY <1>1, <1>2, <2>1
       DEF Aligned, InStep, Stalls, Flushes, Gapless, Ends, Behind, Over,
           Ready, Next1, AtRest, BeforeFetch, BeforeDecode, BeforeExecute,
           BeforeMemory, AfterExecute
<1>5. CASE Handled
  <2>1. /\ frontend_stall' = FALSE
        /\ ~flush_valid /\ FrontCanRun(execute_input_queue, cycle)
    BY <1>5
       DEF Handled, ExecuteNothing, ExecuteWrite, ExecuteCompare,
           ExecuteBranch, ExecuteAccepted, Executes, ToMemory
  <2>2. PICK m \in Result :
          memory_input_queue' = Append(memory_input_queue, Deferred(cycle, m))
    BY <1>5, ExecutePushes
  <2>3. Orderly(memory_input_queue', cycle)
    BY <1>2, <2>2, Pushed, QueuesTyped
  <2>4. \/ flush_queue' = flush_queue
        \/ flush_queue' = Append(flush_queue, Deferred(cycle, BranchTarget))
           /\ ExecuteBranch
    BY <1>5
       DEF Handled, ExecuteNothing, ExecuteWrite, ExecuteCompare,
           ExecuteBranch, ExecuteAccepted
  <2>5. /\ Orderly(flush_queue', cycle) /\ ~FrontCanRun(flush_queue', cycle)
    <3>1. CASE flush_queue' = flush_queue
      BY <1>2, <3>1
    <3>2. CASE flush_queue' = Append(flush_queue, Deferred(cycle, BranchTarget))
               /\ ExecuteBranch
      <4>1. BranchTarget \in Nat
        BY <2>1, <3>2, OperandTypes, WordType DEF BranchTarget
      <4>2. /\ flush_queue \in Queue(Nat) /\ Orderly(flush_queue, cycle)
            /\ ~Coming(flush_queue, cycle) /\ ~FrontCanRun(flush_queue, cycle)
        BY <1>2, QueuesTyped
      <4> QED BY <3>2, <4>1, <4>2, Pushed, QueuesTyped
    <3> QED BY <2>4, <3>1, <3>2
  <2> QED
    BY <1>1, <1>2, <2>1, <2>3, <2>5
       DEF Aligned, InStep, Stalls, Flushes, Gapless, Ends, Behind, Over,
           Ready, Next1, AtRest, BeforeFetch, BeforeDecode, BeforeExecute,
           BeforeMemory, AfterExecute
<1> QED BY <1>3, <1>4, <1>5 DEF StageExecute, ExecuteAlone, Handled

LEMMA AlignedCommit ==
  ASSUME Types, Aligned, StageMemory \/ StageWriteback
  PROVE  Aligned'
<1>1. /\ Today = cycle /\ Today' = cycle' /\ cycle' = cycle
      /\ StageMemory => phase = "memory" /\ phase' = "writeback"
      /\ StageWriteback => phase = "writeback" /\ phase' = "end"
      /\ StageMemory => UNCHANGED has_halted
      /\ StageWriteback => UNCHANGED writeback_input_queue
      /\ UNCHANGED <<decode_input_queue, execute_input_queue,
                     memory_input_queue, flush_queue, flush_valid,
                     fetch_seen_hlt, frontend_stall>>
  BY DEF StageMemory, StageWriteback, MemoryIdle, Memory, WritebackIdle,
         Writeback, Turn, Today, cycleVars, fetchVars, executeVars, commitVars
<1>2. has_halted => has_halted'
  BY DEF StageMemory, StageWriteback, MemoryIdle, Memory, WritebackIdle,
         Writeback, commitVars
<1>3. Orderly(writeback_input_queue', cycle)
  <2>1. Orderly(writeback_input_queue, cycle)
    BY <1>1 DEF Aligned, InStep
  <2>2. CASE Memory
    <3>1. phase = "memory"
      BY <2>2 DEF Memory, Turn
    <3>2. ~Coming(writeback_input_queue, cycle)
      BY <1>1, <3>1
         DEF Aligned, InStep, Next1, BeforeMemory, BeforeExecute,
             BeforeDecode, BeforeFetch, AtRest
    <3>3. PICK m \in Result :
            writeback_input_queue' =
              Append(writeback_input_queue, Deferred(cycle, m))
      <4>1. memory_input_queue # << >>
        BY <2>2 DEF Memory, FrontCanRun
      <4>2. Head(memory_input_queue).data \in Result
        BY <4>1, QueuesTyped, QueueTypes
      <4> QED BY <2>2, <4>2 DEF Memory
    <3> QED BY <2>1, <3>2, <3>3, Pushed, QueuesTyped
  <2>3. CASE ~Memory
    BY <1>1, <2>1, <2>3 DEF StageMemory, MemoryIdle
  <2> QED BY <2>2, <2>3
<1> QED
  BY <1>1, <1>2, <1>3
     DEF Aligned, InStep, Stalls, Flushes, Gapless, Ends, Behind, Over, Ready,
         Next1, AtRest, BeforeFetch, BeforeDecode, BeforeExecute,
         BeforeMemory, AfterExecute

LEMMA AlignedEnd ==
  ASSUME Types, Aligned, EndCycle
  PROVE  Aligned'
<1>1. /\ phase = "end" /\ phase' = "others" /\ Today = cycle
      /\ Today' = NextCycle(cycle) /\ ~flush_valid'
      /\ UNCHANGED <<cycle, flush_queue, has_halted, fetch_seen_hlt,
                     frontend_stall>>
  BY DEF EndCycle, Turn, Today
<1>2. cycle \in Cycles /\ NextCycle(cycle) \in Cycles
      /\ NextCycle(cycle) # cycle
  BY QueuesTyped, NextCycleType
<1>3. /\ Orderly(decode_input_queue, cycle)
      /\ Orderly(execute_input_queue, cycle)
      /\ Orderly(memory_input_queue, cycle)
      /\ Orderly(writeback_input_queue, cycle)
      /\ Orderly(flush_queue, cycle)
      /\ ~FrontCanRun(flush_queue, cycle)
      /\ frontend_stall =>
           /\ flush_queue = << >> /\ ~flush_valid
           /\ FrontCanRun(execute_input_queue, cycle)
           /\ Coming(decode_input_queue, cycle)
                => FrontCanRun(decode_input_queue, cycle)
      /\ Coming(execute_input_queue, cycle) /\ ~Coming(decode_input_queue, cycle)
           => Over
  BY <1>1
     DEF Aligned, InStep, Stalls, Flushes, Gapless, Ready, Next1, AfterExecute
<1>4. /\ Orderly(flush_queue, NextCycle(cycle))
      /\ ~Coming(flush_queue, NextCycle(cycle))
  BY <1>2, <1>3, Popped, QueuesTyped
<1>5. ASSUME NEW D, NEW q \in Queue(D), Orderly(q, cycle)
      PROVE  /\ Orderly(PopReady(q), NextCycle(cycle))
             /\ ~Coming(PopReady(q), NextCycle(cycle))
             /\ FrontCanRun(PopReady(q), NextCycle(cycle))
                  <=> Coming(q, cycle)
  <2>1. /\ FrontCanRun(q, cycle) => PopReady(q) = Tail(q)
        /\ ~FrontCanRun(q, cycle) => PopReady(q) = q
    BY DEF PopReady
  <2> HIDE DEF PopReady
  <2> QED BY <1>2, <1>5, <2>1, Popped
<1>6. /\ Orderly(memory_input_queue', NextCycle(cycle))
      /\ ~Coming(memory_input_queue', NextCycle(cycle))
      /\ Orderly(writeback_input_queue', NextCycle(cycle))
      /\ ~Coming(writeback_input_queue', NextCycle(cycle))
  <2>1. /\ memory_input_queue' = PopReady(memory_input_queue)
        /\ writeback_input_queue' = PopReady(writeback_input_queue)
    BY DEF EndCycle
  <2> QED BY <1>3, <1>5, <2>1, QueuesTyped
<1>7. CASE ~frontend_stall
  <2>1. /\ decode_input_queue' = PopReady(decode_input_queue)
        /\ execute_input_queue' = PopReady(execute_input_queue)
    BY <1>7 DEF EndCycle
  <2>2. /\ Orderly(decode_input_queue', NextCycle(cycle))
        /\ ~Coming(decode_input_queue', NextCycle(cycle))
        /\ FrontCanRun(decode_input_queue', NextCycle(cycle))
             <=> Coming(decode_input_queue, cycle)
    BY <1>3, <1>5, <2>1, QueuesTyped
  <2>3. /\ Orderly(execute_input_queue', NextCycle(cycle))
        /\ ~Coming(execute_input_queue', NextCycle(cycle))
        /\ FrontCanRun(execute_input_queue', NextCycle(cycle))
             <=> Coming(execute_input_queue, cycle)
    BY <1>3, <1>5, <2>1, QueuesTyped
  <2> QED
    BY <1>1, <1>3, <1>4, <1>6, <1>7, <2>2, <2>3
       DEF Aligned, InStep, Stalls, Flushes, Gapless, Ends, Behind, Over,
           Ready, Next1, AtRest, BeforeFetch, BeforeDecode, BeforeExecute,
           BeforeMemory, AfterExecute
<1>8. CASE frontend_stall
  <2>1. /\ decode_input_queue' = IncrementAll(decode_input_queue)
        /\ execute_input_queue' = IncrementAll(execute_input_queue)
    BY <1>8 DEF EndCycle
  <2>2. /\ Orderly(decode_input_queue', NextCycle(cycle))
        /\ Coming(decode_input_queue', NextCycle(cycle))
             <=> Coming(decode_input_queue, cycle)
        /\ FrontCanRun(decode_input_queue', NextCycle(cycle))
             <=> FrontCanRun(decode_input_queue, cycle)
    BY <1>2, <1>3, <1>8, <2>1, QueuesTyped, PutOffByStall
  <2>3. /\ Orderly(execute_input_queue', NextCycle(cycle))
        /\ Coming(execute_input_queue', NextCycle(cycle))
             <=> Coming(execute_input_queue, cycle)
        /\ FrontCanRun(execute_input_queue', NextCycle(cycle))
             <=> FrontCanRun(execute_input_queue, cycle)
    BY <1>2, <1>3, <1>8, <2>1, QueuesTyped, PutOffByStall
  <2> QED
    BY <1>1, <1>3, <1>4, <1>6, <1>8, <2>2, <2>3
       DEF Aligned, InStep, Stalls, Flushes, Gapless, Ends, Behind, Over,
           Ready, Next1, AtRest, BeforeFetch, BeforeDecode, BeforeExecute,
           BeforeMemory, AfterExecute
<1> QED BY <1>7, <1>8

LEMMA AlignedNext == Types /\ Aligned /\ [Next]_vars => Aligned'
<1> SUFFICES ASSUME Types, Aligned, [Next]_vars PROVE Aligned'
  OBVIOUS
<1>1. CASE OthersRun
  <2>1. /\ phase = "others" /\ Today' = Today
        /\ phase' = IF has_halted THEN "halted" ELSE "flush"
        /\ UNCHANGED <<decode_input_queue, execute_input_queue,
                       memory_input_queue, writeback_input_queue, flush_queue,
                       flush_valid, has_halted, fetch_seen_hlt,
                       frontend_stall>>
    BY <1>1 DEF OthersRun, Today, fetchVars, commitVars
  <2> QED
    BY <2>1
       DEF Aligned, InStep, Stalls, Flushes, Gapless, Ends, Behind, Over,
           Ready, Next1, AtRest, BeforeFetch, BeforeDecode, BeforeExecute,
           BeforeMemory, AfterExecute
<1>2. CASE UNCHANGED vars
  <2>1. UNCHANGED <<phase, Today, decode_input_queue, execute_input_queue,
                    memory_input_queue, writeback_input_queue, flush_queue,
                    flush_valid, has_halted, fetch_seen_hlt, frontend_stall>>
    BY <1>2
       DEF vars, Today, cycleVars, fetchVars, executeVars, commitVars
  <2> QED
    BY <2>1
       DEF Aligned, InStep, Stalls, Flushes, Gapless, Ends, Behind, Over,
           Ready, Next1, AtRest, BeforeFetch, BeforeDecode, BeforeExecute,
           BeforeMemory, AfterExecute
<1> QED
  BY <1>1, <1>2, AlignedFlush, AlignedFetch, AlignedDecode, AlignedExecute,
     AlignedCommit, AlignedEnd
     DEF Next

(* No stall, flush or halt leaves an entry of a queue behind the cycle in  *)
(* which its stage may take it: run_cycle finds every entry of its queues  *)
(* in the cycle in which it is valid.                                      *)
THEOREM CoreAligned == Spec => []EntriesAligned
<1>1. Types /\ Aligned => EntriesAligned
  <2> SUFFICES ASSUME Types, Aligned, phase = "flush"
               PROVE  EntriesAligned
    BY DEF EntriesAligned
  <2>1. Today = cycle /\ cycle \in Cycles
    BY QueuesTyped DEF Today
  <2>2. ASSUME NEW D, NEW q \in Queue(D), Orderly(q, cycle),
               Coming(q, cycle) => FrontCanRun(q, cycle)
        PROVE  /\ q # << >> => q[1].cycle = cycle
               /\ Len(q) > 1 => Len(q) = 2 /\ q[2].cycle = NextCycle(cycle)
    BY <2>1, <2>2, Slots
  <2>3. /\ Orderly(decode_input_queue, cycle)
        /\ Coming(decode_input_queue, cycle)
             => FrontCanRun(decode_input_queue, cycle)
        /\ Orderly(execute_input_queue, cycle)
        /\ Coming(execute_input_queue, cycle)
             => FrontCanRun(execute_input_queue, cycle)
        /\ Orderly(memory_input_queue, cycle)
        /\ ~Coming(memory_input_queue, cycle)
        /\ Orderly(writeback_input_queue, cycle)
        /\ ~Coming(writeback_input_queue, cycle)
        /\ Orderly(flush_queue, cycle) /\ ~Coming(flush_queue, cycle)
    BY <2>1
       DEF Aligned, InStep, Stalls, Flushes, Ready, Next1, AtRest,
           BeforeFetch, BeforeDecode, BeforeExecute, BeforeMemory
  <2>4. \A q \in {decode_input_queue, execute_input_queue,
                  memory_input_queue, writeback_input_queue} :
          /\ q # << >> => q[1].cycle = cycle
          /\ Len(q) > 1 => Len(q) = 2 /\ q[2].cycle = NextCycle(cycle)
    <3>1. /\ decode_input_queue # << >> => decode_input_queue[1].cycle = cycle
          /\ Len(decode_input_queue) > 1 =>
               /\ Len(decode_input_queue) = 2
               /\ decode_input_queue[2].cycle = NextCycle(cycle)
      BY <2>2, <2>3, QueuesTyped
    <3>2. /\ execute_input_queue # << >> => execute_input_queue[1].cycle = cycle
          /\ Len(execute_input_queue) > 1 =>
               /\ Len(execute_input_queue) = 2
               /\ execute_input_queue[2].cycle = NextCycle(cycle)
      BY <2>2, <2>3, QueuesTyped
    <3>3. /\ memory_input_queue # << >> => memory_input_queue[1].cycle = cycle
          /\ Len(memory_input_queue) > 1 =>
               /\ Len(memory_input_queue) = 2
               /\ memory_input_queue[2].cycle = NextCycle(cycle)
      BY <2>2, <2>3, QueuesTyped
    <3>4. /\ writeback_input_queue # << >> =>
               writeback_input_queue[1].cycle = cycle
          /\ Len(writeback_input_queue) > 1 =>
               /\ Len(writeback_input_queue) = 2
               /\ writeback_input_queue[2].cycle = NextCycle(cycle)
      BY <2>2, <2>3, QueuesTyped
    <3> QED BY <3>1, <3>2, <3>3, <3>4
  <2>5. flush_queue # << >> =>
          Len(flush_queue) = 1 /\ flush_queue[1].cycle = cycle
    BY <2>1, <2>3, QueuesTyped, Slots
  <2> QED BY <2>4, <2>5 DEF EntriesAligned
<1> QED
  BY <1>1, TypesInit, TypesNext, AlignedInit, AlignedNext, PTL DEF Spec

-----------------------------------------------------------------------------
(* Three writes to one register in flight of which the first and the last  *)
(* write one value and the second another do not occur.                    *)
Unambiguous ==
  \A r \in GPR : \A i, j, k \in Writes(r) :
    /\ i < j /\ j < k
    /\ InFlight[i].data.value = InFlight[k].data.value
    => InFlight[j].data.value = InFlight[k].data.value

(* The writes to r that are not yet written back: at most three.           *)
Oldest(r) == /\ phase # "end" /\ Ready(writeback_input_queue)
             /\ Head(writeback_input_queue).data.dest = r
Middle(r) == /\ Ready(memory_input_queue)
             /\ Head(memory_input_queue).data.dest = r
Newest(r) == /\ Next1(memory_input_queue)
             /\ Last(memory_input_queue).data.dest = r
Pending(r) == Oldest(r) \/ Middle(r) \/ Newest(r)

(* A feedback register has the value of the youngest write, and is not     *)
(* held when there is none.                                                *)
Feeds(r) ==
  /\ ~Pending(r) => ~execute_feedback_reg_held[r]
  /\ Newest(r) =>
       execute_feedback_reg_value[r] = Last(memory_input_queue).data.value
  /\ Middle(r) /\ ~Newest(r) =>
       execute_feedback_reg_value[r] = Head(memory_input_queue).data.value
  /\ Oldest(r) /\ ~Middle(r) /\ ~Newest(r) =>
       execute_feedback_reg_value[r] = Head(writeback_input_queue).data.value

(* When it is released too early all the writes have the register's value. *)
Agrees(r) ==
  ~execute_feedback_reg_held[r] /\ Pending(r) =>
    /\ registers[r] = execute_feedback_reg_value[r]
    /\ Oldest(r) => registers[r] = Head(writeback_input_queue).data.value
    /\ Middle(r) => registers[r] = Head(memory_input_queue).data.value
    /\ Newest(r) => registers[r] = Last(memory_input_queue).data.value

(* What has passed the memory stage and the writeback stage in this cycle. *)
HandedOn ==
  /\ phase \in {"writeback", "end"} =>
       /\ Ready(memory_input_queue) <=> Next1(writeback_input_queue)
       /\ Ready(memory_input_queue) =>
            Last(writeback_input_queue).data = Head(memory_input_queue).data
  /\ phase = "end" /\ Ready(writeback_input_queue) =>
       LET w == Head(writeback_input_queue).data
       IN  w.write => registers[w.dest] = w.value

Feedback == HandedOn /\ \A r \in GPR : Feeds(r)
Agreement == \A r \in GPR : Agrees(r)

(* Only a submission stalls the core.                                      *)
Held ==
  /\ refused # NoCommand => frontend_stall
  /\ frontend_stall => input.opcode \in PipeOps

(* A refused submission is the instruction at the front, as it would be    *)
(* submitted now.                                                          *)
Resubmits == Held /\ (frontend_stall => refused = Command)

(* Behind a HLT there is nothing in the pipeline, and the PC stays.        *)
HltD1 == /\ Ready(decode_input_queue)
         /\ Head(decode_input_queue).data.instruction.op = "HLT"
HltD2 == /\ Next1(decode_input_queue)
         /\ Last(decode_input_queue).data.instruction.op = "HLT"
HltE1 == Ready(execute_input_queue) /\ input.opcode = "HLT"
HltE2 == /\ Next1(execute_input_queue)
         /\ Last(execute_input_queue).data.opcode = "HLT"
HltM1 == /\ Ready(memory_input_queue)
         /\ Head(memory_input_queue).data.opcode = "HLT"
HltM2 == /\ Next1(memory_input_queue)
         /\ Last(memory_input_queue).data.opcode = "HLT"
HltW1 == /\ Ready(writeback_input_queue)
         /\ Head(writeback_input_queue).data.opcode = "HLT"
HltW2 == /\ Next1(writeback_input_queue)
         /\ Last(writeback_input_queue).data.opcode = "HLT"

HltLast ==
  /\ HltD2 => fetch_seen_hlt
  /\ HltD1 /\ ~flush_valid => fetch_seen_hlt /\ ~Next1(decode_input_queue)
  /\ HltE2 => fetch_seen_hlt /\ ~Next1(decode_input_queue)
  /\ HltE1 /\ ~flush_valid =>
       /\ fetch_seen_hlt /\ ~Ready(decode_input_queue)
       /\ ~Next1(decode_input_queue) /\ ~Next1(execute_input_queue)
  /\ HltM2 \/ HltM1 \/ HltW2 \/ HltW1 \/ has_halted =>
       /\ fetch_seen_hlt /\ ~flush_valid /\ flush_queue = << >>
       /\ ~frontend_stall /\ ~Ready(decode_input_queue)
       /\ ~Next1(decode_input_queue) /\ ~Next1(execute_input_queue)
  /\ HltM1 \/ HltW2 \/ HltW1 \/ has_halted =>
       ~Ready(execute_input_queue) /\ ~Next1(memory_input_queue)
  /\ HltW1 \/ has_halted =>
       ~Ready(memory_input_queue) /\ ~Next1(writeback_input_queue)
  /\ has_halted =>
       \/ phase = "end"
       \/ /\ phase \in {"others", "halted"} /\ ~Ready(writeback_input_queue)
          /\ registers[PC] = potential_next_pc
  /\ fetch_seen_hlt => Fetched(potential_next_pc).op = "HLT"
-----------------------------------------------------------------------------
LEMMA FeedbackInit ==
  ASSUME \A u \in Uninit : ~u.held, Init
  PROVE  Feedback /\ Agreement
<1>1. \A t : ~FrontCanRun(<< >>, t) /\ ~Coming(<< >>, t)
  BY DEF FrontCanRun, Coming
<1>2. /\ memory_input_queue = << >> /\ writeback_input_queue = << >>
      /\ phase = "flush"
      /\ \A r \in Registers : ~execute_feedback_reg_held[r]
  BY DEF Init
<1>3. \A r : ~Oldest(r) /\ ~Middle(r) /\ ~Newest(r)
  BY <1>1, <1>2 DEF Oldest, Middle, Newest, Ready, Next1
<1> QED
  BY <1>2, <1>3, WordType
     DEF Feedback, Agreement, Feeds, Agrees, Pending, HandedOn

(* A step of the earlier stages, or of the other components.               *)
LEMMA FeedbackQuiet ==
  ASSUME UNCHANGED <<Today, memory_input_queue, writeback_input_queue,
                     execute_feedback_reg_held, execute_feedback_reg_value>>,
         \A r \in GPR : registers'[r] = registers[r],
         phase \notin {"writeback", "end"}, phase' \notin {"writeback", "end"},
         Feedback
  PROVE  Feedback' /\ (Agreement => Agreement')
<1>1. \A r \in GPR : /\ Oldest(r)' <=> Oldest(r)
                     /\ Middle(r)' <=> Middle(r)
                     /\ Newest(r)' <=> Newest(r)
  BY DEF Oldest, Middle, Newest, Ready, Next1
<1>2. \A r \in GPR : /\ Feeds(r) => Feeds(r)'
                     /\ Agrees(r) => Agrees(r)'
  BY <1>1 DEF Feeds, Agrees, Pending
<1>3. HandedOn'
  BY DEF HandedOn
<1> QED BY <1>2, <1>3 DEF Feedback, Agreement

LEMMA FeedbackExecute ==
  ASSUME Types, Aligned, Feedback, StageExecute
  PROVE  Feedback' /\ (Agreement => Agreement')
<1>1. /\ phase = "execute" /\ phase' = "memory" /\ Today' = Today
      /\ Today = cycle /\ UNCHANGED <<writeback_input_queue, registers>>
  BY DEF StageExecute, ExecuteAlone, ExecuteIdle, ExecuteNothing, ExecuteWrite,
         ExecuteCompare, ExecuteBranch, ExecuteAccepted, ExecuteRefused,
         Executes, Turn, Today, cycleVars, commitVars
<1>2. CASE ExecuteIdle \/ ExecuteRefused
  <2>1. UNCHANGED <<memory_input_queue, execute_feedback_reg_held,
                    execute_feedback_reg_value>>
    BY <1>2 DEF ExecuteIdle, ExecuteRefused, executeVars, commitVars
  <2> QED BY <1>1, <2>1, FeedbackQuiet
<1>3. CASE Handled
  <2>1. PICK m \in Result :
          /\ memory_input_queue' =
               Append(memory_input_queue, Deferred(cycle, m))
          /\ \/ /\ m.dest = PC
                /\ UNCHANGED <<execute_feedback_reg_held,
                               execute_feedback_reg_value>>
             \/ /\ m.dest \in GPR
                /\ execute_feedback_reg_held' =
                     [execute_feedback_reg_held EXCEPT ![m.dest] = TRUE]
                /\ execute_feedback_reg_value' =
                     [execute_feedback_reg_value EXCEPT ![m.dest] = m.value]
    BY <1>3, ExecutePushes
  <2>2. /\ Orderly(memory_input_queue, cycle)
        /\ ~Coming(memory_input_queue, cycle)
    BY <1>1 DEF Aligned, InStep, Next1, BeforeExecute
  <2>3. /\ FrontCanRun(memory_input_queue', cycle)
             <=> FrontCanRun(memory_input_queue, cycle)
        /\ FrontCanRun(memory_input_queue, cycle) =>
             Head(memory_input_queue') = Head(memory_input_queue)
        /\ Coming(memory_input_queue', cycle)
        /\ Last(memory_input_queue').data = m
    <3>1. Last(memory_input_queue') = Deferred(cycle, m)
      BY <2>1, QueuesTyped, LastPushed
    <3>2. Last(memory_input_queue').data = m
      BY <3>1 DEF Deferred
    <3>3. Coming(memory_input_queue', cycle)
      BY <2>1, <2>2, QueuesTyped, Pushed
    <3>4. FrontCanRun(memory_input_queue', cycle)
            <=> FrontCanRun(memory_input_queue, cycle)
      BY <2>1, <2>2, QueuesTyped, Pushed
    <3>5. FrontCanRun(memory_input_queue, cycle) =>
            Head(memory_input_queue') = Head(memory_input_queue)
      BY <2>1, <2>2, QueuesTyped, Pushed
    <3> QED BY <3>2, <3>3, <3>4, <3>5
  <2>4. ASSUME NEW r \in GPR
        PROVE  /\ Oldest(r)' <=> Oldest(r)
               /\ Middle(r)' <=> Middle(r)
               /\ Newest(r)' <=> m.dest = r
               /\ ~Newest(r)
               /\ Middle(r) => Head(memory_input_queue').data
                                 = Head(memory_input_queue).data
    BY <1>1, <2>2, <2>3 DEF Oldest, Middle, Newest, Ready, Next1
  <2>5. ASSUME NEW r \in GPR
        PROVE  /\ m.dest = r => /\ execute_feedback_reg_held'[r]
                                /\ execute_feedback_reg_value'[r] = m.value
               /\ m.dest # r => /\ execute_feedback_reg_held'[r]
                                     = execute_feedback_reg_held[r]
                                /\ execute_feedback_reg_value'[r]
                                     = execute_feedback_reg_value[r]
    <3>1. /\ execute_feedback_reg_held \in [Registers -> BOOLEAN]
          /\ execute_feedback_reg_value \in [Registers -> Word]
          /\ r \in Registers /\ r # PC
      BY DEF Types, TypeOK, GPR
    <3> QED BY <2>1, <3>1
  <2>6. \A r \in GPR : /\ Feeds(r) => Feeds(r)'
                       /\ Agrees(r) => Agrees(r)'
    BY <1>1, <2>3, <2>4, <2>5 DEF Feeds, Agrees, Pending
  <2>7. HandedOn'
    BY <1>1 DEF HandedOn
  <2> QED BY <2>6, <2>7 DEF Feedback, Agreement
<1> QED BY <1>2, <1>3 DEF StageExecute, ExecuteAlone, Handled

LEMMA FeedbackMemory ==
  ASSUME Types, Aligned, Feedback, StageMemory
  PROVE  Feedback' /\ (Agreement => Agreement')
<1>1. /\ phase = "memory" /\ phase' = "writeback" /\ Today' = Today
      /\ Today = cycle
      /\ UNCHANGED <<memory_input_queue, registers, execute_feedback_reg_held,
                     execute_feedback_reg_value>>
  BY DEF StageMemory, MemoryIdle, Memory, Turn, Today, cycleVars, executeVars,
         commitVars
<1>2. /\ Orderly(writeback_input_queue, cycle)
      /\ ~Coming(writeback_input_queue, cycle)
  BY <1>1 DEF Aligned, InStep, Next1, BeforeMemory
<1>3. /\ FrontCanRun(writeback_input_queue', cycle)
           <=> FrontCanRun(writeback_input_queue, cycle)
      /\ FrontCanRun(writeback_input_queue, cycle) =>
           Head(writeback_input_queue') = Head(writeback_input_queue)
      /\ FrontCanRun(memory_input_queue, cycle)
           <=> Coming(writeback_input_queue', cycle)
      /\ FrontCanRun(memory_input_queue, cycle) =>
           Last(writeback_input_queue').data = Head(memory_input_queue).data
  <2>1. CASE MemoryIdle
    BY <1>2, <2>1 DEF MemoryIdle
  <2>2. CASE Memory
    <3> DEFINE m == Head(memory_input_queue).data
    <3>1. m \in Result
      BY <2>2, QueuesTyped, QueueTypes DEF Memory, FrontCanRun
    <3>2. /\ writeback_input_queue' =
               Append(writeback_input_queue, Deferred(cycle, m))
          /\ FrontCanRun(memory_input_queue, cycle)
      BY <2>2 DEF Memory
    <3> HIDE DEF m
    <3>3. /\ FrontCanRun(writeback_input_queue', cycle)
               <=> FrontCanRun(writeback_input_queue, cycle)
          /\ FrontCanRun(writeback_input_queue, cycle) =>
               Head(writeback_input_queue') = Head(writeback_input_queue)
          /\ Coming(writeback_input_queue', cycle)
          /\ Last(writeback_input_queue').data = m
      <4>1. Last(writeback_input_queue') = Deferred(cycle, m)
        BY <3>1, <3>2, QueuesTyped, LastPushed
      <4>2. Last(writeback_input_queue').data = m
        BY <4>1 DEF Deferred
      <4>3. Coming(writeback_input_queue', cycle)
        BY <1>2, <3>1, <3>2, QueuesTyped, Pushed
      <4>4. FrontCanRun(writeback_input_queue', cycle)
              <=> FrontCanRun(writeback_input_queue, cycle)
        BY <1>2, <3>1, <3>2, QueuesTyped, Pushed
      <4>5. FrontCanRun(writeback_input_queue, cycle) =>
              Head(writeback_input_queue') = Head(writeback_input_queue)
        BY <1>2, <3>1, <3>2, QueuesTyped, Pushed
      <4> QED BY <4>2, <4>3, <4>4, <4>5
    <3> QED BY <3>2, <3>3 DEF m
  <2> QED BY <2>1, <2>2 DEF StageMemory
<1>4. ASSUME NEW r \in GPR
      PROVE  /\ Oldest(r)' <=> Oldest(r)
             /\ Middle(r)' <=> Middle(r)
             /\ Newest(r)' <=> Newest(r)
             /\ Oldest(r) => Head(writeback_input_queue').data
                               = Head(writeback_input_queue).data
  BY <1>1, <1>3 DEF Oldest, Middle, Newest, Ready, Next1
<1>5. \A r \in GPR : /\ Feeds(r) => Feeds(r)'
                     /\ Agrees(r) => Agrees(r)'
  BY <1>1, <1>4 DEF Feeds, Agrees, Pending
<1>6. HandedOn'
  BY <1>1, <1>3 DEF HandedOn, Ready, Next1
<1> QED BY <1>5, <1>6 DEF Feedback, Agreement

LEMMA FeedbackEnd ==
  ASSUME Types, Aligned, Feedback, EndCycle
  PROVE  Feedback' /\ (Agreement => Agreement')
<1>1. /\ phase = "end" /\ phase' = "others"
      /\ Today = cycle /\ Today' = NextCycle(cycle)
      /\ memory_input_queue' = PopReady(memory_input_queue)
      /\ writeback_input_queue' = PopReady(writeback_input_queue)
      /\ \A r \in GPR : registers'[r] = registers[r]
      /\ UNCHANGED <<execute_feedback_reg_held, execute_feedback_reg_value>>
  BY DEF EndCycle, Turn, Today, GPR, Types, TypeOK
<1>2. /\ Orderly(memory_input_queue, cycle)
      /\ Orderly(writeback_input_queue, cycle)
  BY <1>1 DEF Aligned, InStep
<1>3. ASSUME NEW q \in Queue(Result), Orderly(q, cycle)
      PROVE  /\ ~Coming(PopReady(q), NextCycle(cycle))
             /\ FrontCanRun(PopReady(q), NextCycle(cycle))
                  <=> Coming(q, cycle)
             /\ Coming(q, cycle) => Head(PopReady(q)).data = Last(q).data
  <2>1. /\ FrontCanRun(q, cycle) => PopReady(q) = Tail(q)
        /\ ~FrontCanRun(q, cycle) => PopReady(q) = q
    BY DEF PopReady
  <2> HIDE DEF PopReady
  <2> QED BY <1>3, <2>1, Popped, QueuesTyped
<1>4. /\ ~Coming(memory_input_queue', NextCycle(cycle))
      /\ FrontCanRun(memory_input_queue', NextCycle(cycle))
           <=> Coming(memory_input_queue, cycle)
      /\ Coming(memory_input_queue, cycle) =>
           Head(memory_input_queue').data = Last(memory_input_queue).data
      /\ FrontCanRun(writeback_input_queue', NextCycle(cycle))
           <=> Coming(writeback_input_queue, cycle)
      /\ Coming(writeback_input_queue, cycle) =>
           Head(writeback_input_queue').data = Last(writeback_input_queue).data
  BY <1>1, <1>2, <1>3, QueuesTyped
<1>5. /\ FrontCanRun(memory_input_queue, cycle)
           <=> Coming(writeback_input_queue, cycle)
      /\ FrontCanRun(memory_input_queue, cycle) =>
           Last(writeback_input_queue).data = Head(memory_input_queue).data
  BY <1>1 DEF Feedback, HandedOn, Ready, Next1
<1>6. ASSUME NEW r \in GPR
      PROVE  /\ ~Oldest(r) /\ ~Newest(r)'
             /\ Oldest(r)' <=> Middle(r)
             /\ Middle(r)' <=> Newest(r)
             /\ Middle(r) => Head(writeback_input_queue').data
                               = Head(memory_input_queue).data
             /\ Newest(r) => Head(memory_input_queue').data
                               = Last(memory_input_queue).data
  BY <1>1, <1>4, <1>5 DEF Oldest, Middle, Newest, Ready, Next1
<1>7. \A r \in GPR : /\ Feeds(r) => Feeds(r)'
                     /\ Agrees(r) => Agrees(r)'
  BY <1>1, <1>6 DEF Feeds, Agrees, Pending
<1>8. HandedOn'
  BY <1>1 DEF HandedOn
<1> QED BY <1>7, <1>8 DEF Feedback, Agreement

(* InFlight is the writeback queue followed by the memory queue, each with *)
(* what is ready in front of what comes in the next cycle.                 *)
LEMMA InFlightSlots ==
  ASSUME Types, Aligned,
         NEW w, w = Len(writeback_input_queue),
         NEW m, m = Len(memory_input_queue)
  PROVE  /\ w \in 0 .. 2 /\ m \in 0 .. 2
         /\ DOMAIN InFlight = 1 .. w + m
         /\ \A k \in 1 .. w : InFlight[k] = writeback_input_queue[k]
         /\ \A k \in 1 .. m : InFlight[w + k] = memory_input_queue[k]
         /\ \A k \in DOMAIN InFlight : InFlight[k].data \in Result
<1>1. /\ writeback_input_queue \in Seq([cycle : Cycles, data : Result])
      /\ memory_input_queue \in Seq([cycle : Cycles, data : Result])
  BY QueuesTyped DEF Queue
<1>2. w \in Nat /\ m \in Nat
  BY <1>1, LenProperties
<1>3. w \in 0 .. 2 /\ m \in 0 .. 2
  <2>1. w <= 2 /\ m <= 2
    BY DEF Aligned, InStep, Orderly
  <2> QED BY <1>2, <2>1
<1>4. /\ InFlight \in Seq([cycle : Cycles, data : Result])
      /\ Len(InFlight) = w + m
      /\ \A i \in 1 .. w + m :
           InFlight[i] = IF i <= w THEN writeback_input_queue[i]
                                   ELSE memory_input_queue[i - w]
  BY <1>1, ConcatProperties DEF InFlight
<1>5. DOMAIN InFlight = 1 .. w + m
  BY <1>4, LenProperties
<1>6. \A k \in 1 .. w : InFlight[k] = writeback_input_queue[k]
  BY <1>2, <1>4
<1>7. \A k \in 1 .. m : InFlight[w + k] = memory_input_queue[k]
  <2> SUFFICES ASSUME NEW k \in 1 .. m
               PROVE  InFlight[w + k] = memory_input_queue[k]
    OBVIOUS
  <2>1. /\ w + k \in 1 .. w + m /\ ~(w + k <= w) /\ (w + k) - w = k
    BY <1>2
  <2> QED BY <1>4, <2>1
<1>8. \A k \in DOMAIN InFlight : InFlight[k].data \in Result
  <2>1. \A k \in 1 .. Len(InFlight) :
          InFlight[k] \in [cycle : Cycles, data : Result]
    BY <1>4, ElementOfSeq
  <2> QED BY <1>4, <1>5, <2>1
<1> QED BY <1>3, <1>5, <1>6, <1>7, <1>8

(* The writes of the three moments, as members of Writes.                  *)
LEMMA WritesSlots ==
  ASSUME Types, Aligned, NEW r \in GPR,
         NEW w, w = Len(writeback_input_queue),
         NEW m, m = Len(memory_input_queue)
  PROVE  /\ Oldest(r) =>
              /\ w > 0 /\ 1 \in Writes(r)
              /\ InFlight[1].data = Head(writeback_input_queue).data
         /\ Middle(r) =>
              /\ m > 0 /\ w + 1 \in Writes(r)
              /\ InFlight[w + 1].data = Head(memory_input_queue).data
         /\ Newest(r) =>
              /\ m > 0 /\ w + m \in Writes(r)
              /\ InFlight[w + m].data = Last(memory_input_queue).data
         /\ Middle(r) /\ Newest(r) => m = 2
<1>1. /\ w \in 0 .. 2 /\ m \in 0 .. 2
      /\ DOMAIN InFlight = 1 .. w + m
      /\ \A k \in 1 .. w : InFlight[k] = writeback_input_queue[k]
      /\ \A k \in 1 .. m : InFlight[w + k] = memory_input_queue[k]
      /\ \A k \in DOMAIN InFlight : InFlight[k].data \in Result
  BY InFlightSlots
<1>2. \A k \in DOMAIN InFlight : InFlight[k].data.dest = r => k \in Writes(r)
  BY <1>1 DEF Writes, Result, GPR
<1>3. /\ Orderly(writeback_input_queue, Today)
      /\ Orderly(memory_input_queue, Today)
      /\ Today \in Cycles
  BY QueuesTyped, NextCycleType DEF Aligned, InStep, Today
<1>4. Oldest(r) => /\ w > 0 /\ 1 \in Writes(r)
                   /\ InFlight[1].data = Head(writeback_input_queue).data
  <2> SUFFICES ASSUME Oldest(r)
               PROVE  /\ w > 0 /\ 1 \in Writes(r)
                      /\ InFlight[1].data = Head(writeback_input_queue).data
    OBVIOUS
  <2>1. /\ w = 1 \/ w = 2
        /\ Head(writeback_input_queue) = writeback_input_queue[1]
    BY <1>3, QueuesTyped, Slots DEF Oldest, Ready
  <2>2. 1 \in 1 .. w /\ 1 \in 1 .. w + m
    BY <1>1, <2>1
  <2> QED BY <1>1, <1>2, <2>1, <2>2 DEF Oldest
<1>5. Middle(r) => /\ m > 0 /\ w + 1 \in Writes(r)
                   /\ InFlight[w + 1].data = Head(memory_input_queue).data
  <2> SUFFICES ASSUME Middle(r)
               PROVE  /\ m > 0 /\ w + 1 \in Writes(r)
                      /\ InFlight[w + 1].data = Head(memory_input_queue).data
    OBVIOUS
  <2>1. /\ m = 1 \/ m = 2
        /\ Head(memory_input_queue) = memory_input_queue[1]
    BY <1>3, QueuesTyped, Slots DEF Middle, Ready
  <2>2. 1 \in 1 .. m /\ w + 1 \in 1 .. w + m
    BY <1>1, <2>1
  <2> QED BY <1>1, <1>2, <2>1, <2>2 DEF Middle
<1>6. Newest(r) => /\ m > 0 /\ w + m \in Writes(r)
                   /\ InFlight[w + m].data = Last(memory_input_queue).data
  <2> SUFFICES ASSUME Newest(r)
               PROVE  /\ m > 0 /\ w + m \in Writes(r)
                      /\ InFlight[w + m].data = Last(memory_input_queue).data
    OBVIOUS
  <2>1. m = 1 \/ m = 2
    BY <1>3, QueuesTyped, Slots DEF Newest, Next1
  <2>2. m \in 1 .. m /\ w + m \in 1 .. w + m
    BY <1>1, <2>1
  <2> QED BY <1>1, <1>2, <2>1, <2>2 DEF Newest, Last
<1>7. Middle(r) /\ Newest(r) => m = 2
  BY <1>3, QueuesTyped, Slots DEF Middle, Newest, Ready, Next1
<1> QED BY <1>4, <1>5, <1>6, <1>7

(* Without a rewrite, what is released is no longer needed.                *)
LEMMA FeedbackWriteback ==
  ASSUME Types, Aligned, Feedback, StageWriteback
  PROVE  /\ Feedback'
         /\ Agreement /\ Unambiguous => Agreement'
<1>1. /\ phase = "writeback" /\ phase' = "end" /\ Today' = Today
      /\ Today = cycle
      /\ UNCHANGED <<memory_input_queue, writeback_input_queue,
                     execute_feedback_reg_value>>
  BY DEF StageWriteback, WritebackIdle, Writeback, Turn, Today, cycleVars,
         executeVars
<1>2. /\ FrontCanRun(memory_input_queue, cycle)
           <=> Coming(writeback_input_queue, cycle)
      /\ FrontCanRun(memory_input_queue, cycle) =>
           Last(writeback_input_queue).data = Head(memory_input_queue).data
  BY <1>1 DEF Feedback, HandedOn, Ready, Next1
<1>3. ASSUME NEW r \in GPR
      PROVE  /\ ~Oldest(r)'
             /\ Middle(r)' <=> Middle(r)
             /\ Newest(r)' <=> Newest(r)
  BY <1>1 DEF Oldest, Middle, Newest, Ready, Next1
<1>4. CASE WritebackIdle
  <2>1. /\ UNCHANGED <<registers, execute_feedback_reg_held>>
        /\ ~FrontCanRun(writeback_input_queue, cycle)
    BY <1>4 DEF WritebackIdle, commitVars
  <2>2. \A r : ~Oldest(r)
    BY <1>1, <2>1 DEF Oldest, Ready
  <2>3. \A r \in GPR : /\ Feeds(r) => Feeds(r)'
                       /\ Agrees(r) => Agrees(r)'
    BY <1>1, <1>3, <2>1, <2>2 DEF Feeds, Agrees, Pending
  <2>4. HandedOn'
    BY <1>1, <1>2, <2>1 DEF HandedOn, Ready, Next1
  <2> QED BY <2>3, <2>4 DEF Feedback, Agreement
<1>5. CASE Writeback
  <2> DEFINE w == Head(writeback_input_queue).data
  <2>1. /\ FrontCanRun(writeback_input_queue, cycle)
        /\ registers' = IF w.write THEN [registers EXCEPT ![w.dest] = w.value]
                                   ELSE registers
        /\ execute_feedback_reg_held' =
             IF execute_feedback_reg_value[w.dest] = w.value
             THEN [execute_feedback_reg_held EXCEPT ![w.dest] = FALSE]
             ELSE execute_feedback_reg_held
    BY <1>5 DEF Writeback, Released
  <2>2. w \in Result
    BY <2>1, QueuesTyped, QueueTypes DEF FrontCanRun
  <2>3. ASSUME NEW r \in GPR
        PROVE  Oldest(r) <=> w.dest = r
    BY <1>1, <2>1 DEF Oldest, Ready
  <2> HIDE DEF w
  <2>4. /\ registers \in [Registers -> Nat]
        /\ execute_feedback_reg_held \in [Registers -> BOOLEAN]
        /\ w.write <=> w.dest # PC
        /\ w.dest \in Registers
    BY <2>2 DEF Types, TypeOK, Result, MemoryEntry
  <2>5. ASSUME NEW r \in GPR, w.dest # r
        PROVE  /\ registers'[r] = registers[r]
               /\ execute_feedback_reg_held'[r] = execute_feedback_reg_held[r]
    BY <2>1, <2>4, <2>5 DEF GPR
  <2>6. ASSUME NEW r \in GPR, w.dest = r
        PROVE  /\ registers'[r] = w.value
               /\ execute_feedback_reg_held'[r] =
                    (/\ execute_feedback_reg_held[r]
                     /\ execute_feedback_reg_value[r] # w.value)
    BY <2>1, <2>4, <2>6 DEF GPR
  <2>7. HandedOn'
    <3>1. w.write => registers'[w.dest] = w.value
      BY <2>4, <2>6 DEF GPR
    <3> QED BY <1>1, <1>2, <3>1 DEF HandedOn, Ready, Next1, w
  <2>8. ASSUME NEW r \in GPR, Feeds(r)
        PROVE  Feeds(r)'
    <3>1. CASE w.dest = r
      BY <1>1, <1>3, <2>3, <2>6, <2>8, <3>1 DEF Feeds, Pending, w
    <3>2. CASE w.dest # r
      BY <1>1, <1>3, <2>3, <2>5, <2>8, <3>2 DEF Feeds, Pending
    <3> QED BY <3>1, <3>2
  <2>9. ASSUME NEW r \in GPR, Feeds(r), Agrees(r), Unambiguous
        PROVE  Agrees(r)'
    <3>1. CASE w.dest # r
      BY <1>1, <1>3, <2>3, <2>5, <2>9, <3>1 DEF Agrees, Pending
    <3>2. CASE w.dest = r
      <4>1. Oldest(r)
        BY <2>3, <3>2
      <4>2. ASSUME Middle(r), Newest(r), w.value = Last(memory_input_queue).data.value
            PROVE  Head(memory_input_queue).data.value = w.value
        <5> DEFINE n == Len(writeback_input_queue)
                   m == Len(memory_input_queue)
        <5>1. /\ 1 \in Writes(r) /\ n + 1 \in Writes(r) /\ n + m \in Writes(r)
              /\ n > 0 /\ m = 2 /\ n \in 0 .. 2
              /\ InFlight[1].data = Head(writeback_input_queue).data
              /\ InFlight[n + 1].data = Head(memory_input_queue).data
              /\ InFlight[n + m].data = Last(memory_input_queue).data
          BY <4>1, <4>2, WritesSlots, InFlightSlots
        <5>2. /\ {1, n + 1, n + 2} \subseteq Writes(r)
              /\ n \in Nat /\ n > 0
              /\ InFlight[1].data.value = w.value
              /\ InFlight[n + 1].data = Head(memory_input_queue).data
              /\ InFlight[n + 2].data = Last(memory_input_queue).data
          BY <5>1 DEF w
        <5> HIDE DEF n, m
        <5>3. 1 < n + 1 /\ n + 1 < n + 2
          BY <5>2
        <5> QED BY <2>9, <4>2, <5>2, <5>3 DEF Unambiguous
      <4>3. CASE execute_feedback_reg_held[r] /\ execute_feedback_reg_held'[r]
        BY <4>3 DEF Agrees
      <4>4. CASE ~execute_feedback_reg_held[r]
        BY <1>1, <1>3, <2>6, <2>9, <3>2, <4>1, <4>4 DEF Agrees, Pending, w
      <4>5. CASE execute_feedback_reg_value[r] = w.value
        BY <1>1, <1>3, <2>6, <2>9, <3>2, <4>1, <4>2, <4>5
           DEF Feeds, Agrees, Pending
      <4> QED BY <2>6, <3>2, <4>3, <4>4, <4>5
    <3> QED BY <3>1, <3>2
  <2> QED BY <2>7, <2>8, <2>9 DEF Feedback, Agreement
<1> QED BY <1>4, <1>5 DEF StageWriteback

LEMMA FeedbackNext ==
  ASSUME Types, Aligned, Feedback, [Next]_vars
  PROVE  /\ Feedback'
         /\ Agreement /\ Unambiguous => Agreement'
<1>1. CASE \/ TakeFlush \/ NoFlush \/ StageFetch \/ StageDecode \/ OthersRun
           \/ UNCHANGED vars /\ phase \notin {"writeback", "end"}
  <2>1. /\ UNCHANGED <<Today, memory_input_queue, writeback_input_queue,
                       execute_feedback_reg_held, execute_feedback_reg_value>>
        /\ UNCHANGED registers
        /\ phase \notin {"writeback", "end"}
        /\ phase' \notin {"writeback", "end"}
    BY <1>1
       DEF TakeFlush, NoFlush, StageFetch, FetchWaits, FetchStalls, Fetch,
           StageDecode, DecodeIdle, DecodeSegmentEnd, Decode, Decodes,
           OthersRun, Turn, Today, vars, cycleVars, fetchVars, executeVars,
           commitVars
  <2> QED BY <2>1, FeedbackQuiet
<1>2. CASE UNCHANGED vars
  <2>1. /\ UNCHANGED <<phase, Today, memory_input_queue, writeback_input_queue,
                       execute_feedback_reg_held, execute_feedback_reg_value,
                       registers>>
    BY <1>2
       DEF Today, vars, cycleVars, fetchVars, executeVars, commitVars
  <2> QED
    BY <2>1
       DEF Feedback, Agreement, Feeds, Agrees, Pending, HandedOn, Oldest,
           Middle, Newest, Ready, Next1
<1> QED
  BY <1>1, <1>2, FeedbackExecute, FeedbackMemory, FeedbackWriteback,
     FeedbackEnd DEF Next

LEMMA FeedbackImplies ==
  ASSUME Types, Aligned, Feedback, Agreement
  PROVE  FeedbackCurrent
<1> SUFFICES ASSUME NEW r \in GPR
             PROVE  /\ Writes(r) = {} => Effective(r) = registers[r]
                    /\ \A k \in Writes(r) :
                         (\A j \in Writes(r) : j <= k) =>
                           Effective(r) = InFlight[k].data.value
  BY DEF FeedbackCurrent
<1> DEFINE w == Len(writeback_input_queue)
           m == Len(memory_input_queue)
<1>1. /\ w \in 0 .. 2 /\ m \in 0 .. 2
      /\ DOMAIN InFlight = 1 .. w + m
      /\ \A k \in 1 .. w : InFlight[k] = writeback_input_queue[k]
      /\ \A k \in 1 .. m : InFlight[w + k] = memory_input_queue[k]
  BY InFlightSlots
<1>2. /\ Oldest(r) =>
           /\ w > 0 /\ 1 \in Writes(r)
           /\ InFlight[1].data = Head(writeback_input_queue).data
      /\ Middle(r) =>
           /\ m > 0 /\ w + 1 \in Writes(r)
           /\ InFlight[w + 1].data = Head(memory_input_queue).data
      /\ Newest(r) =>
           /\ m > 0 /\ w + m \in Writes(r)
           /\ InFlight[w + m].data = Last(memory_input_queue).data
  BY WritesSlots
<1>3. Feeds(r) /\ Agrees(r) /\ HandedOn
  BY DEF Feedback, Agreement
<1>4. ~Pending(r) => Effective(r) = registers[r]
  BY <1>3 DEF Feeds, Effective
<1>5. Pending(r) => Effective(r) = execute_feedback_reg_value[r]
  BY <1>3 DEF Agrees, Effective
<1>6. Writes(r) = {} => Effective(r) = registers[r]
  BY <1>2, <1>4 DEF Pending
<1>7. ASSUME NEW k \in Writes(r), \A j \in Writes(r) : j <= k
      PROVE  Effective(r) = InFlight[k].data.value
  <2>1. /\ k \in 1 .. w + m
        /\ InFlight[k].data.write /\ InFlight[k].data.dest = r
    BY <1>1, <1>7 DEF Writes
  <2>2. /\ Orderly(writeback_input_queue, Today)
        /\ Orderly(memory_input_queue, Today)
        /\ Today \in Cycles
    BY QueuesTyped, NextCycleType DEF Aligned, InStep, Today
  <2>3. \/ w = 0
        \/ /\ Ready(writeback_input_queue)
           /\ Head(writeback_input_queue) = writeback_input_queue[1]
           /\ w = 1 \/ (w = 2 /\ Next1(writeback_input_queue))
        \/ w = 1 /\ Next1(writeback_input_queue)
    BY <2>2, QueuesTyped, Slots DEF Ready, Next1
  <2>4. \/ m = 0
        \/ /\ Ready(memory_input_queue)
           /\ Head(memory_input_queue) = memory_input_queue[1]
           /\ m = 1 \/ (m = 2 /\ Next1(memory_input_queue))
        \/ m = 1 /\ Next1(memory_input_queue)
    BY <2>2, QueuesTyped, Slots DEF Ready, Next1
  <2>5. Next1(writeback_input_queue) =>
          /\ Ready(memory_input_queue)
          /\ writeback_input_queue[w].data = Head(memory_input_queue).data
    BY <1>3
       DEF HandedOn, Aligned, InStep, BeforeMemory, BeforeExecute,
           BeforeDecode, BeforeFetch, AtRest, Last, Types, TypeOK, Phases
  <2> HIDE DEF w, m
  <2>6. CASE Newest(r)
    <3>1. k = w + m
      BY <1>1, <1>2, <1>7, <2>1, <2>6
    <3> QED BY <1>2, <1>3, <1>5, <2>6, <3>1 DEF Feeds, Pending
  <2>7. CASE ~Newest(r) /\ Middle(r)
    <3>1. w + 1 <= k /\ m > 0
      BY <1>2, <1>7, <2>7
    <3>2. k # w + 2
      <4> SUFFICES ASSUME k = w + 2 PROVE FALSE
        OBVIOUS
      <4>1. m = 2
        BY <1>1, <2>1
      <4>2. InFlight[k] = memory_input_queue[2] /\ Next1(memory_input_queue)
        BY <1>1, <2>4, <4>1
      <4>3. Newest(r)
        BY <2>1, <4>1, <4>2 DEF Newest, Last, m
      <4> QED BY <2>7, <4>3
    <3>3. k = w + 1
      BY <1>1, <2>1, <3>1, <3>2
    <3> QED BY <1>2, <1>3, <1>5, <2>7, <3>3 DEF Feeds, Pending
  <2>8. CASE ~Newest(r) /\ ~Middle(r)
    <3>1. k <= w
      <4> SUFFICES ASSUME k > w PROVE FALSE
        BY <1>1, <2>1
      <4>1. PICK n \in 1 .. m : k = w + n
        <5>1. k - w \in 1 .. m /\ k = w + (k - w)
          BY <1>1, <2>1
        <5> QED BY <5>1
      <4>2. InFlight[k] = memory_input_queue[n]
        BY <1>1, <4>1
      <4>3. n = 1 \/ (n = 2 /\ m = 2)
        BY <1>1, <4>1
      <4>4. CASE n = 1 /\ Ready(memory_input_queue)
        <5>1. Head(memory_input_queue) = memory_input_queue[1]
          BY <1>1, <2>4, <4>1, <4>4, QueuesTyped, <2>2, Slots DEF Ready, m
        <5> QED BY <2>1, <2>8, <4>2, <4>4, <5>1 DEF Middle
      <4>5. CASE n = m /\ Next1(memory_input_queue)
        BY <2>1, <2>8, <4>2, <4>5 DEF Newest, Last, m
      <4> QED BY <1>1, <2>4, <4>1, <4>3, <4>4, <4>5
    <3>2. k \in 1 .. w /\ InFlight[k] = writeback_input_queue[k]
      BY <1>1, <2>1, <3>1
    <3>3. ~(k = w /\ Next1(writeback_input_queue))
      BY <2>1, <2>5, <2>8, <3>2 DEF Middle
    <3>4. /\ k = 1 /\ Ready(writeback_input_queue)
          /\ Head(writeback_input_queue) = writeback_input_queue[1]
      BY <1>1, <2>3, <3>2, <3>3
    <3>5. CASE phase # "end"
      <4>1. Oldest(r)
        BY <2>1, <3>2, <3>4, <3>5 DEF Oldest
      <4> QED BY <1>3, <1>5, <2>8, <3>2, <3>4, <4>1 DEF Feeds, Pending
    <3>6. CASE phase = "end"
      <4>1. ~Pending(r)
        BY <2>8, <3>6 DEF Pending, Oldest
      <4>2. registers[r] = InFlight[k].data.value
        BY <1>3, <2>1, <3>2, <3>4, <3>6 DEF HandedOn
      <4> QED BY <1>4, <4>1, <4>2
    <3> QED BY <3>5, <3>6
  <2> QED BY <2>6, <2>7, <2>8
<1> QED BY <1>6, <1>7

(* Execute reads every operand as the youngest write in flight left it,    *)
(* with an exception: a register written three times by instructions that  *)
(* follow one another, the first and the last time the same value and in   *)
(* between another (run ManagerCore_feedback).                             *)
THEOREM FeedbackFresh ==
  ASSUME \A u \in Uninit : ~u.held
  PROVE  Spec /\ []Unambiguous => []FeedbackCurrent
<1> DEFINE Inv == Types /\ Aligned /\ Feedback /\ Agreement
<1>1. Init => Inv
  BY TypesInit, AlignedInit, FeedbackInit
<1>2. Inv /\ Unambiguous /\ [Next]_vars => Inv'
  BY TypesNext, AlignedNext, FeedbackNext
<1>3. Inv => FeedbackCurrent
  BY FeedbackImplies
<1> QED BY <1>1, <1>2, <1>3, PTL DEF Spec
-----------------------------------------------------------------------------
(* A write back does not change what execute would read.                   *)
LEMMA EffectiveKept ==
  ASSUME Types, Feedback, Agreement,
         TakeFlush \/ NoFlush \/ StageFetch \/ StageDecode \/ StageMemory
           \/ StageWriteback \/ EndCycle \/ OthersRun \/ UNCHANGED vars,
         NEW r \in GPR
  PROVE  Effective(r)' = Effective(r)
<1>1. CASE Writeback
  <2> DEFINE w == Head(writeback_input_queue).data
  <2>1. /\ phase = "writeback" /\ Today = cycle
        /\ FrontCanRun(writeback_input_queue, cycle)
        /\ registers' = IF w.write THEN [registers EXCEPT ![w.dest] = w.value]
                                   ELSE registers
        /\ execute_feedback_reg_held' =
             IF execute_feedback_reg_value[w.dest] = w.value
             THEN [execute_feedback_reg_held EXCEPT ![w.dest] = FALSE]
             ELSE execute_feedback_reg_held
        /\ UNCHANGED execute_feedback_reg_value
    BY <1>1 DEF Writeback, Released, Turn, executeVars, Today
  <2>2. w \in Result
    BY <2>1, QueuesTyped, QueueTypes DEF FrontCanRun
  <2>3. w.dest = r => Oldest(r)
    BY <2>1 DEF Oldest, Ready
  <2>4. Agrees(r)
    BY DEF Agreement
  <2>5. w.dest = r /\ ~execute_feedback_reg_held[r] => registers[r] = w.value
    BY <2>3, <2>4 DEF Agrees, Pending
  <2> HIDE DEF w
  <2>6. /\ registers \in [Registers -> Nat]
        /\ execute_feedback_reg_held \in [Registers -> BOOLEAN]
        /\ w.write <=> w.dest # PC
        /\ r \in Registers /\ r # PC
    BY <2>2 DEF Types, TypeOK, Result, MemoryEntry, GPR
  <2>7. CASE w.dest # r
    <3>1. /\ registers'[r] = registers[r]
          /\ execute_feedback_reg_held'[r] = execute_feedback_reg_held[r]
      BY <2>1, <2>6, <2>7
    <3> QED BY <2>1, <3>1 DEF Effective
  <2>8. CASE w.dest = r
    <3>1. /\ registers'[r] = w.value
          /\ execute_feedback_reg_held'[r] =
               (/\ execute_feedback_reg_held[r]
                /\ execute_feedback_reg_value[r] # w.value)
      BY <2>1, <2>6, <2>8
    <3> QED BY <2>1, <2>5, <2>8, <3>1 DEF Effective
  <2> QED BY <2>7, <2>8
<1>2. CASE ~Writeback
  <2>1. /\ registers'[r] = registers[r]
        /\ UNCHANGED <<execute_feedback_reg_held, execute_feedback_reg_value>>
    <3>1. CASE EndCycle
      BY <3>1 DEF EndCycle, GPR, Types, TypeOK
    <3>2. CASE ~EndCycle
      BY <1>2, <3>2
         DEF TakeFlush, NoFlush, StageFetch, FetchWaits, FetchStalls, Fetch,
             StageDecode, DecodeIdle, DecodeSegmentEnd, Decode, StageMemory,
             MemoryIdle, Memory, StageWriteback, WritebackIdle, OthersRun,
             vars, executeVars, commitVars
    <3> QED BY <3>1, <3>2
  <2> QED BY <2>1 DEF Effective
<1> QED BY <1>1, <1>2

LEMMA CommandKept ==
  ASSUME Types, execute_input_queue # << >>, input' = input,
         \A r \in GPR : Effective(r)' = Effective(r)
  PROVE  Command' = Command
<1>1. input \in Operation
  BY QueuesTyped, QueueTypes DEF input
<1>2. Value0' = Value0
  <2>1. CASE input.opcode \in Direct0
    BY <2>1 DEF Value0, Direct0
  <2>2. CASE input.opcode \notin Direct0
    <3>1. input.source0 \in GPR
      BY <1>1, <2>2 DEF Operation, Direct0
    <3>2. Effective(input.source0)' = Effective(input.source0)
      BY <3>1 DEF Effective
    <3> QED BY <2>2, <3>2 DEF Value0, Direct0
  <2> QED BY <2>1, <2>2
<1>3. Value1' = Value1
  <2>1. CASE input.opcode \in Register1
    <3>1. input.source1 \in GPR
      BY <1>1, <2>1 DEF Operation
    <3>2. Effective(input.source1)' = Effective(input.source1)
      BY <3>1 DEF Effective
    <3> QED BY <2>1, <3>2 DEF Value1, Register1
  <2>2. CASE input.opcode \notin Register1
    BY <2>2 DEF Value1, Register1
  <2> QED BY <2>1, <2>2
<1> QED BY <1>2, <1>3 DEF Command

(* While the core is stalled its stages leave the front of execute's queue *)
(* as it is, and the end of the cycle puts it off.                         *)
LEMMA FrontKept ==
  ASSUME Types, Aligned, [Next]_vars, ~StageExecute
  PROVE  /\ UNCHANGED <<frontend_stall, refused>>
         /\ frontend_stall => input' = input
<1>1. UNCHANGED <<frontend_stall, refused>>
  BY DEF Next, TakeFlush, NoFlush, StageFetch, FetchWaits, FetchStalls,
         Fetch, StageDecode, DecodeIdle, DecodeSegmentEnd, Decode,
         StageMemory, MemoryIdle, Memory, StageWriteback, WritebackIdle,
         Writeback, EndCycle, OthersRun, vars, executeVars
<1>2. ASSUME frontend_stall PROVE input' = input
  <2>1. CASE EndCycle
    <3>1. /\ phase = "end" /\ Today = cycle
          /\ execute_input_queue' = IncrementAll(execute_input_queue)
      BY <1>2, <2>1 DEF EndCycle, Turn, Today
    <3>2. Orderly(execute_input_queue, cycle)
      BY <3>1 DEF Aligned, InStep
    <3>3. FrontCanRun(execute_input_queue, cycle)
      BY <1>2, <3>1 DEF Aligned, Stalls, Ready
    <3>4. Head(execute_input_queue').data = Head(execute_input_queue).data
      BY <3>1, <3>2, <3>3, PutOffByStall, QueuesTyped
    <3> QED BY <3>4 DEF input
  <2>2. CASE ~EndCycle
    <3>1. UNCHANGED execute_input_queue
      BY <1>2, <2>2
         DEF Next, TakeFlush, NoFlush, StageFetch, FetchWaits, FetchStalls,
             Fetch, StageDecode, DecodeIdle, DecodeSegmentEnd, Decode,
             StageMemory, MemoryIdle, Memory, StageWriteback, WritebackIdle,
             Writeback, OthersRun, vars
    <3> QED BY <3>1 DEF input
  <2> QED BY <2>1, <2>2
<1> QED BY <1>1, <1>2

LEMMA HeldNext ==
  ASSUME Types, Aligned, Held, [Next]_vars
  PROVE  Held'
<1>1. CASE ExecuteIdle
  <2>1. ~frontend_stall /\ UNCHANGED <<frontend_stall, refused>>
    BY <1>1
       DEF ExecuteIdle, executeVars, Today, Turn, Aligned, Stalls, Ready
  <2> QED BY <2>1 DEF Held
<1>2. CASE Handled
  BY <1>2
     DEF Handled, ExecuteNothing, ExecuteWrite, ExecuteCompare,
         ExecuteBranch, ExecuteAccepted, ToMemory, Held
<1>3. CASE ExecuteRefused
  BY <1>3 DEF ExecuteRefused, Executes, input, Held
<1>4. CASE ~StageExecute
  BY <1>4, FrontKept DEF Held
<1> QED BY <1>1, <1>2, <1>3, <1>4 DEF StageExecute, ExecuteAlone, Handled

LEMMA ResubmitsNext ==
  ASSUME Types, Aligned, Feedback, Agreement, Resubmits, [Next]_vars
  PROVE  Resubmits'
<1>1. Held'
  BY HeldNext DEF Resubmits
<1>2. CASE ExecuteIdle
  <2>1. ~frontend_stall /\ UNCHANGED frontend_stall
    BY <1>2
       DEF ExecuteIdle, executeVars, Today, Turn, Aligned, Stalls, Ready
  <2> QED BY <1>1, <2>1 DEF Resubmits
<1>3. CASE Handled
  BY <1>1, <1>3
     DEF Handled, ExecuteNothing, ExecuteWrite, ExecuteCompare,
         ExecuteBranch, ExecuteAccepted, ToMemory, Resubmits
<1>4. CASE ExecuteRefused
  <2>1. /\ execute_input_queue # << >>
        /\ input.opcode \in PipeOps
        /\ refused' = Command /\ frontend_stall'
        /\ input' = input
    BY <1>4 DEF ExecuteRefused, Executes, FrontCanRun, input
  <2>2. \A r \in GPR : Effective(r)' = Effective(r)
    BY <1>4 DEF ExecuteRefused, commitVars, Effective
  <2>3. Command' = Command
    BY <2>1, <2>2, CommandKept
  <2> QED BY <1>1, <2>1, <2>3 DEF Resubmits
<1>5. CASE ~StageExecute
  <2>1. UNCHANGED <<frontend_stall, refused>>
    BY <1>5, FrontKept
  <2>2. CASE ~frontend_stall
    BY <1>1, <2>1, <2>2 DEF Resubmits
  <2>3. CASE frontend_stall
    <3>1. input' = input
      BY <1>5, <2>3, FrontKept
    <3>2. \A r \in GPR : Effective(r)' = Effective(r)
      BY <1>5, EffectiveKept DEF Next
    <3>3. execute_input_queue # << >>
      BY <2>3 DEF Aligned, Stalls, Ready, FrontCanRun
    <3>4. Command' = Command
      BY <3>1, <3>2, <3>3, CommandKept
    <3> QED BY <1>1, <2>1, <2>3, <3>4 DEF Resubmits
  <2> QED BY <2>2, <2>3
<1> QED
  BY <1>2, <1>3, <1>4, <1>5 DEF StageExecute, ExecuteAlone, Handled

(* A submission that is refused is made again with the same operands,      *)
(* although older instructions are written back while the core stalls.     *)
THEOREM ResubmittedSame ==
  ASSUME \A u \in Uninit : ~u.held
  PROVE  Spec /\ []Unambiguous => ResubmitsSame
<1> DEFINE Inv == Types /\ Aligned /\ Feedback /\ Agreement /\ Resubmits
           Step == phase = "execute" /\ refused # NoCommand =>
                     submitted' = refused \/ refused' = refused
<1>1. Init => Inv
  <2>1. Init => Resubmits
    BY DEF Init, Resubmits, Held
  <2> QED BY <2>1, TypesInit, AlignedInit, FeedbackInit
<1>2. Inv /\ Unambiguous /\ [Next]_vars => Inv'
  BY TypesNext, AlignedNext, FeedbackNext, ResubmitsNext
<1>3. Inv /\ [Next]_vars => [Step]_vars
  <2> SUFFICES ASSUME Inv, Next, phase = "execute", refused # NoCommand
               PROVE  submitted' = refused \/ refused' = refused
    OBVIOUS
  <2>1. /\ frontend_stall /\ input.opcode \in PipeOps /\ refused = Command
        /\ FrontCanRun(execute_input_queue, cycle) /\ ~flush_valid
    BY DEF Resubmits, Held, Aligned, Stalls, Ready, Today
  <2>2. StageExecute
    BY DEF Next, TakeFlush, NoFlush, StageFetch, FetchWaits, FetchStalls,
           Fetch, StageDecode, DecodeIdle, DecodeSegmentEnd, Decode, Decodes,
           StageMemory, MemoryIdle, Memory, StageWriteback, WritebackIdle,
           Writeback, EndCycle, OthersRun, Turn
  <2>3. /\ input.opcode \notin {"NOP", "HLT"} /\ input.opcode \notin Compares
        /\ input.opcode \notin Moves \cup Immediate24 \cup ShiftByR
        /\ input.opcode \notin Branches
    BY <2>1
       DEF PipeOps, PipeNoReg, PipeOneReg, Compares, Moves, Immediate24,
           ShiftByR, Branches
  <2>4. ExecuteAccepted \/ ExecuteRefused
    BY <2>1, <2>2, <2>3
       DEF StageExecute, ExecuteAlone, ExecuteIdle, ExecuteNothing,
           ExecuteWrite, ExecuteCompare, ExecuteBranch, Executes
  <2> QED BY <2>1, <2>4 DEF ExecuteAccepted, ExecuteRefused
<1> QED BY <1>1, <1>2, <1>3, PTL DEF Spec, ResubmitsSame
-----------------------------------------------------------------------------
(* Programs that end with a HLT.                                           *)
EndWithHlt == \A p \in Programs : \A a \in DOMAIN p : p[a].op # "SEGMENT_END"

(* What is fetched from such a program.                                    *)
Code == {d \in DecodeEntry : d.instruction.op # "SEGMENT_END"}
Coded == decode_input_queue \in Queue(Code)

LEMMA FetchedCode ==
  ASSUME EndWithHlt, Types, Fetch,
         NEW d, d = [instruction |-> Fetched(FetchPc), pc |-> FetchPc,
                     next_pc |-> potential_next_pc']
  PROVE  d \in Code
<1>1. FetchPc \in Nat
  BY WordType DEF FetchPc, Types, TypeOK
<1>2. Fetched(FetchPc) \in Instruction /\ potential_next_pc' \in Nat
  BY <1>1, FetchedType DEF Fetch
<1>3. Fetched(FetchPc).op # "SEGMENT_END"
  BY DEF EndWithHlt, Fetched, Types
<1> QED BY <1>1, <1>2, <1>3 DEF Code, DecodeEntry

LEMMA CodedNext ==
  ASSUME EndWithHlt, Types, Coded, [Next]_vars
  PROVE  Coded'
<1>1. CASE Fetch
  BY <1>1, FetchedCode, QueuesTyped, QueueTypes DEF Fetch, Coded
<1>2. CASE EndCycle
  BY <1>2, QueueTypes DEF EndCycle, Coded
<1>3. CASE ~Fetch /\ ~EndCycle
  <2>1. UNCHANGED decode_input_queue
    BY <1>3
       DEF Next, TakeFlush, NoFlush, StageFetch, FetchWaits, FetchStalls,
           StageDecode, DecodeIdle, DecodeSegmentEnd, Decode, StageExecute,
           ExecuteAlone, ExecuteIdle, ExecuteNothing, ExecuteWrite,
           ExecuteCompare, ExecuteBranch, ExecuteAccepted, ExecuteRefused,
           StageMemory, MemoryIdle, Memory, StageWriteback, WritebackIdle,
           Writeback, OthersRun, vars, fetchVars
  <2> QED BY <2>1 DEF Coded
<1> QED BY <1>1, <1>2, <1>3

(* The steps that change no queue of the pipeline.                         *)
LEMMA HltQuiet ==
  ASSUME UNCHANGED <<Today, decode_input_queue, execute_input_queue,
                     memory_input_queue, writeback_input_queue>>
  PROVE  /\ HltD1' <=> HltD1
         /\ HltD2' <=> HltD2
         /\ HltE1' <=> HltE1
         /\ HltE2' <=> HltE2
         /\ HltM1' <=> HltM1
         /\ HltM2' <=> HltM2
         /\ HltW1' <=> HltW1
         /\ HltW2' <=> HltW2
         /\ UNCHANGED <<Ready(decode_input_queue), Next1(decode_input_queue)>>
         /\ UNCHANGED <<Ready(execute_input_queue), Next1(execute_input_queue)>>
         /\ UNCHANGED <<Ready(memory_input_queue), Next1(memory_input_queue)>>
         /\ UNCHANGED <<Ready(writeback_input_queue),
                        Next1(writeback_input_queue)>>
BY DEF HltD1, HltD2, HltE1, HltE2, HltM1, HltM2, HltW1, HltW2, Ready, Next1,
       input

LEMMA HltFlush ==
  ASSUME Types, Aligned, HltLast, TakeFlush \/ NoFlush \/ OthersRun
  PROVE  HltLast'
<1>1. /\ UNCHANGED <<Today, decode_input_queue, execute_input_queue,
                     memory_input_queue, writeback_input_queue,
                     fetch_seen_hlt, potential_next_pc, has_halted,
                     registers, program, frontend_stall>>
      /\ NoFlush \/ OthersRun => UNCHANGED <<flush_valid, flush_queue>>
      /\ TakeFlush => flush_queue # << >> /\ flush_valid'
      /\ NoFlush => phase = "flush" /\ phase' = "fetch"
      /\ OthersRun => phase = "others" /\ phase' \in {"halted", "flush"}
                      /\ (phase' = "flush" => ~has_halted)
  BY DEF TakeFlush, NoFlush, OthersRun, Turn, Today, cycleVars, fetchVars,
         executeVars, commitVars
<1>2. has_halted /\ phase = "flush" => FALSE
  BY DEF Aligned, Ends
<1>3. Fetched(potential_next_pc)' = Fetched(potential_next_pc)
  BY <1>1 DEF Fetched
<1> QED BY <1>1, <1>2, <1>3, HltQuiet DEF HltLast

LEMMA HltFetch ==
  ASSUME EndWithHlt, Types, Aligned, Coded, HltLast, StageFetch
  PROVE  HltLast'
<1>1. /\ UNCHANGED <<Today, execute_input_queue, memory_input_queue,
                     writeback_input_queue, has_halted, registers, program,
                     frontend_stall, flush_valid, flush_queue>>
      /\ phase = "fetch" /\ phase' = "decode" /\ Today = cycle
  BY DEF StageFetch, FetchWaits, FetchStalls, Fetch, Turn, Today, cycleVars,
         fetchVars, executeVars, commitVars
<1>2. ~has_halted
  BY <1>1 DEF Aligned, Ends
<1>3. CASE FetchWaits \/ FetchStalls
  <2>1. UNCHANGED <<decode_input_queue, potential_next_pc>>
    BY <1>3 DEF FetchWaits, FetchStalls, fetchVars
  <2>2. UNCHANGED fetch_seen_hlt
    BY <1>2, <1>3
       DEF FetchWaits, FetchStalls, HltSeen, fetchVars, Types, TypeOK,
           Aligned, Stalls
  <2>3. Fetched(potential_next_pc)' = Fetched(potential_next_pc)
    BY <1>1, <2>1 DEF Fetched
  <2> QED BY <1>1, <1>2, <2>1, <2>2, <2>3, HltQuiet DEF HltLast
<1>4. CASE Fetch
  <2> DEFINE d == [instruction |-> Fetched(FetchPc), pc |-> FetchPc,
                   next_pc |-> potential_next_pc']
  <2>1. /\ decode_input_queue' = Append(decode_input_queue, Deferred(cycle, d))
        /\ d.instruction.op = Fetched(FetchPc).op
        /\ ~frontend_stall /\ ~(fetch_seen_hlt /\ ~flush_valid)
        /\ fetch_seen_hlt' = (Fetched(FetchPc).op = "HLT")
    BY <1>4 DEF Fetch, HltSeen
  <2>2. fetch_seen_hlt' => Fetched(potential_next_pc)'.op = "HLT"
    <3>1. fetch_seen_hlt' => potential_next_pc' = FetchPc
      BY <1>4, <2>1 DEF Fetch, StagedPc
    <3> QED BY <1>1, <2>1, <3>1 DEF Fetched
  <2>3. d \in Code
    BY <1>4, FetchedCode
  <2> HIDE DEF d
  <2>4. /\ decode_input_queue \in Queue(Code) /\ cycle \in Cycles
        /\ Orderly(decode_input_queue, cycle)
        /\ ~Coming(decode_input_queue, cycle)
    BY <1>1, <2>1, QueuesTyped
       DEF Coded, Aligned, InStep, Next1, BeforeFetch
  <2>5. /\ Coming(decode_input_queue', cycle)
        /\ FrontCanRun(decode_input_queue', cycle)
             <=> FrontCanRun(decode_input_queue, cycle)
        /\ FrontCanRun(decode_input_queue, cycle) =>
             Head(decode_input_queue') = Head(decode_input_queue)
    <3>1. Coming(decode_input_queue', cycle)
      BY <2>1, <2>3, <2>4, Pushed
    <3>2. FrontCanRun(decode_input_queue', cycle)
            <=> FrontCanRun(decode_input_queue, cycle)
      BY <2>1, <2>3, <2>4, Pushed
    <3>3. FrontCanRun(decode_input_queue, cycle) =>
            Head(decode_input_queue') = Head(decode_input_queue)
      BY <2>1, <2>3, <2>4, Pushed
    <3> QED BY <3>1, <3>2, <3>3
  <2>6. Last(decode_input_queue').data = d
    <3>1. Last(decode_input_queue') = Deferred(cycle, d)
      BY <2>1, <2>3, <2>4, LastPushed
    <3> QED BY <3>1 DEF Deferred
  <2>7. /\ HltD1' <=> HltD1
        /\ HltD2' => fetch_seen_hlt'
    BY <1>1, <2>1, <2>5, <2>6 DEF HltD1, HltD2, Ready, Next1
  <2>8. /\ UNCHANGED <<HltE1, HltE2, HltM1, HltM2, HltW1, HltW2>>
        /\ UNCHANGED <<Ready(execute_input_queue), Next1(execute_input_queue)>>
        /\ UNCHANGED <<Ready(memory_input_queue), Next1(memory_input_queue)>>
        /\ UNCHANGED <<Ready(writeback_input_queue),
                       Next1(writeback_input_queue)>>
    BY <1>1
       DEF HltE1, HltE2, HltM1, HltM2, HltW1, HltW2, Ready, Next1, input
  <2>9. ~Next1(execute_input_queue)
    BY <1>1, <2>1 DEF Aligned, InStep, BeforeDecode, BeforeFetch
  <2> QED
    BY <1>1, <1>2, <2>1, <2>2, <2>7, <2>8, <2>9 DEF HltLast, HltE2
<1> QED BY <1>3, <1>4 DEF StageFetch

LEMMA HltDecode ==
  ASSUME EndWithHlt, Types, Aligned, Coded, HltLast, StageDecode
  PROVE  HltLast'
<1>1. /\ UNCHANGED <<Today, decode_input_queue, memory_input_queue,
                     writeback_input_queue, registers, program,
                     frontend_stall, flush_valid, flush_queue,
                     fetch_seen_hlt, potential_next_pc>>
      /\ phase = "decode" /\ phase' = "execute" /\ Today = cycle
  BY DEF StageDecode, DecodeIdle, DecodeSegmentEnd, Decode, Decodes, Turn,
         Today, cycleVars, fetchVars, executeVars, commitVars
<1>2. Fetched(potential_next_pc)' = Fetched(potential_next_pc)
  BY <1>1 DEF Fetched
<1>3. ~has_halted
  BY <1>1 DEF Aligned, Ends
<1>4. ~DecodeSegmentEnd
  <2>1. decode_input_queue # << >> =>
          Head(decode_input_queue).data.instruction.op # "SEGMENT_END"
    <3>1. decode_input_queue # << >> => Head(decode_input_queue).data \in Code
      BY QueueTypes DEF Coded
    <3> QED BY <3>1 DEF Code
  <2> QED BY <2>1 DEF DecodeSegmentEnd, Decodes, FrontCanRun
<1>5. UNCHANGED has_halted
  BY <1>4 DEF StageDecode, DecodeIdle, Decode, commitVars
<1>6. CASE UNCHANGED execute_input_queue
  BY <1>1, <1>2, <1>3, <1>5, <1>6, HltQuiet DEF HltLast
<1>7. CASE Decode /\ ~frontend_stall
  <2> DEFINE d == Head(decode_input_queue).data
             i == d.instruction
             o == [opcode |-> i.op, dest |-> Dest(i), source0 |-> Source0(i),
                   source1 |-> Source1(i), pc |-> d.pc, next_pc |-> d.next_pc]
  <2>1. /\ execute_input_queue' =
             Append(execute_input_queue, Deferred(cycle, o))
        /\ ~flush_valid /\ FrontCanRun(decode_input_queue, cycle)
        /\ decode_input_queue # << >> /\ i.op # "SEGMENT_END"
        /\ o.opcode = Head(decode_input_queue).data.instruction.op
    BY <1>7 DEF Decode, Decodes, FrontCanRun
  <2>2. d \in DecodeEntry
    BY <2>1, QueuesTyped, QueueTypes
  <2>3. i \in Instruction /\ d.pc \in Nat /\ d.next_pc \in Nat
    BY <2>2 DEF DecodeEntry
  <2>4. o \in Operation
    BY <2>1, <2>3, DecodedType
  <2> HIDE DEF o
  <2>5. /\ Orderly(execute_input_queue, cycle)
        /\ ~Coming(execute_input_queue, cycle)
        /\ execute_input_queue \in Queue(Operation) /\ cycle \in Cycles
        /\ execute_input_queue' =
             Append(execute_input_queue, Deferred(cycle, o))
    BY <1>1, <1>7, <2>1, QueuesTyped DEF Aligned, InStep, Next1, BeforeDecode
  <2>6. /\ Coming(execute_input_queue', cycle)
        /\ FrontCanRun(execute_input_queue', cycle)
             <=> FrontCanRun(execute_input_queue, cycle)
        /\ FrontCanRun(execute_input_queue, cycle) =>
             Head(execute_input_queue') = Head(execute_input_queue)
    <3>1. Coming(execute_input_queue', cycle)
      BY <2>4, <2>5, Pushed
    <3>2. FrontCanRun(execute_input_queue', cycle)
            <=> FrontCanRun(execute_input_queue, cycle)
      BY <2>4, <2>5, Pushed
    <3>3. FrontCanRun(execute_input_queue, cycle) =>
            Head(execute_input_queue') = Head(execute_input_queue)
      BY <2>4, <2>5, Pushed
    <3> QED BY <3>1, <3>2, <3>3
  <2>7. Last(execute_input_queue').data = o
    <3>1. Last(execute_input_queue') = Deferred(cycle, o)
      BY <2>1, <2>4, LastPushed, QueuesTyped
    <3> QED BY <3>1 DEF Deferred
  <2>8. /\ HltE1' <=> HltE1
        /\ HltE2' <=> HltD1
    BY <1>1, <2>1, <2>6, <2>7 DEF HltD1, HltE1, HltE2, Ready, Next1, input
  <2>9. /\ UNCHANGED <<HltD1, HltD2, HltM1, HltM2, HltW1, HltW2>>
        /\ UNCHANGED <<Ready(decode_input_queue), Next1(decode_input_queue)>>
        /\ UNCHANGED <<Ready(memory_input_queue), Next1(memory_input_queue)>>
        /\ UNCHANGED <<Ready(writeback_input_queue),
                       Next1(writeback_input_queue)>>
        /\ Ready(execute_input_queue)' <=> Ready(execute_input_queue)
        /\ Ready(decode_input_queue)
    BY <1>1, <2>1, <2>6
       DEF HltD1, HltD2, HltM1, HltM2, HltW1, HltW2, Ready, Next1
  <2> QED BY <1>1, <1>2, <1>3, <1>5, <2>1, <2>8, <2>9 DEF HltLast
<1> QED
  BY <1>4, <1>6, <1>7 DEF StageDecode, DecodeIdle, Decode

LEMMA HltExecute ==
  ASSUME Types, Aligned, HltLast, StageExecute
  PROVE  HltLast'
<1>1. /\ UNCHANGED <<Today, decode_input_queue, execute_input_queue,
                     writeback_input_queue, registers, program, has_halted,
                     flush_valid, fetch_seen_hlt, potential_next_pc>>
      /\ phase = "execute" /\ phase' = "memory" /\ Today = cycle
  BY DEF StageExecute, ExecuteAlone, ExecuteIdle, ExecuteNothing, ExecuteWrite,
         ExecuteCompare, ExecuteBranch, ExecuteAccepted, ExecuteRefused,
         Executes, Turn, Today, cycleVars, fetchVars, commitVars
<1>2. Fetched(potential_next_pc)' = Fetched(potential_next_pc)
  BY <1>1 DEF Fetched
<1>3. CASE ExecuteIdle
  <2>1. UNCHANGED <<memory_input_queue, flush_queue, frontend_stall>>
    BY <1>3 DEF ExecuteIdle, executeVars
  <2> QED BY <1>1, <1>2, <2>1, HltQuiet DEF HltLast
<1>4. CASE ExecuteRefused
  <2>1. /\ UNCHANGED <<memory_input_queue, flush_queue>>
        /\ Ready(execute_input_queue) /\ input.opcode # "HLT"
    BY <1>1, <1>4
       DEF ExecuteRefused, Executes, Ready, PipeOps, PipeNoReg, PipeOneReg
  <2>2. ~HltM2
    BY <1>1 DEF HltM2, Aligned, InStep, BeforeExecute
  <2> QED BY <1>1, <1>2, <2>1, <2>2, HltQuiet DEF HltLast
<1>5. CASE Handled
  <2>1. PICK m \in Result :
          /\ memory_input_queue' =
               Append(memory_input_queue, Deferred(cycle, m))
          /\ m.opcode = input.opcode
    BY <1>5, ExecutePushes
  <2>2. /\ ~frontend_stall' /\ ~flush_valid
        /\ FrontCanRun(execute_input_queue, cycle)
    BY <1>5
       DEF Handled, ExecuteNothing, ExecuteWrite, ExecuteCompare,
           ExecuteBranch, ExecuteAccepted, Executes, ToMemory
  <2>3. input.opcode = "HLT" => flush_queue' = << >>
    <3>1. flush_queue = << >>
      BY <1>1 DEF Aligned, Flushes, BeforeExecute, AtRest
    <3>2. ~ExecuteBranch => UNCHANGED flush_queue
      BY <1>5
         DEF Handled, ExecuteNothing, ExecuteWrite, ExecuteCompare,
             ExecuteAccepted
    <3>3. ExecuteBranch => input.opcode # "HLT"
      BY DEF ExecuteBranch, Executes, Branches
    <3> QED BY <3>1, <3>2, <3>3
  <2>4. /\ Orderly(memory_input_queue, cycle)
        /\ ~Coming(memory_input_queue, cycle)
        /\ memory_input_queue \in Queue(Result) /\ cycle \in Cycles
    BY <1>1, QueuesTyped DEF Aligned, InStep, Next1, BeforeExecute
  <2>5. /\ FrontCanRun(memory_input_queue', cycle)
             <=> FrontCanRun(memory_input_queue, cycle)
        /\ FrontCanRun(memory_input_queue, cycle) =>
             Head(memory_input_queue') = Head(memory_input_queue)
        /\ Last(memory_input_queue').data = m
    <3>1. Last(memory_input_queue') = Deferred(cycle, m)
      BY <2>1, <2>4, LastPushed
    <3>2. Last(memory_input_queue').data = m
      BY <3>1 DEF Deferred
    <3>3. FrontCanRun(memory_input_queue', cycle)
            <=> FrontCanRun(memory_input_queue, cycle)
      BY <2>1, <2>4, Pushed
    <3>4. FrontCanRun(memory_input_queue, cycle) =>
            Head(memory_input_queue') = Head(memory_input_queue)
      BY <2>1, <2>4, Pushed
    <3> QED BY <3>2, <3>3, <3>4
  <2>6. /\ HltM2' => HltE1
        /\ HltM1' <=> HltM1
        /\ Ready(memory_input_queue)' <=> Ready(memory_input_queue)
        /\ Ready(execute_input_queue)
    BY <1>1, <2>1, <2>2, <2>5 DEF HltM1, HltM2, HltE1, Ready, Next1
  <2>7. HltE1 => flush_queue' = << >>
    BY <2>3 DEF HltE1
  <2>8. /\ UNCHANGED <<HltD1, HltD2, HltE1, HltE2, HltW1, HltW2>>
        /\ UNCHANGED <<Ready(decode_input_queue), Next1(decode_input_queue)>>
        /\ UNCHANGED <<Ready(execute_input_queue), Next1(execute_input_queue)>>
        /\ UNCHANGED <<Ready(writeback_input_queue),
                       Next1(writeback_input_queue)>>
    BY <1>1
       DEF HltD1, HltD2, HltE1, HltE2, HltW1, HltW2, Ready, Next1, input
  <2> QED BY <1>1, <1>2, <2>2, <2>6, <2>7, <2>8 DEF HltLast
<1> QED BY <1>3, <1>4, <1>5 DEF StageExecute, ExecuteAlone, Handled

LEMMA HltCommit ==
  ASSUME Types, Aligned, HltLast, StageMemory \/ StageWriteback
  PROVE  HltLast'
<1>1. /\ UNCHANGED <<Today, decode_input_queue, execute_input_queue,
                     memory_input_queue, program, frontend_stall,
                     flush_valid, flush_queue, fetch_seen_hlt,
                     potential_next_pc>>
      /\ Today = cycle
  BY DEF StageMemory, MemoryIdle, Memory, StageWriteback, WritebackIdle,
         Writeback, Turn, Today, cycleVars, fetchVars, executeVars
<1>2. Fetched(potential_next_pc)' = Fetched(potential_next_pc)
  BY <1>1 DEF Fetched
<1>3. CASE MemoryIdle
  <2>1. /\ UNCHANGED <<writeback_input_queue, registers, has_halted>>
        /\ phase = "memory" /\ phase' = "writeback"
    BY <1>3 DEF MemoryIdle, Turn, commitVars
  <2> QED BY <1>1, <1>2, <2>1, HltQuiet DEF HltLast
<1>4. CASE StageWriteback
  <2>1. /\ UNCHANGED writeback_input_queue
        /\ phase = "writeback" /\ phase' = "end"
        /\ has_halted' => has_halted \/ HltW1
    <3>1. CASE WritebackIdle
      BY <3>1 DEF WritebackIdle, Turn, commitVars
    <3>2. CASE Writeback
      BY <1>1, <3>2 DEF Writeback, Turn, HltW1, Ready
    <3> QED BY <1>4, <3>1, <3>2 DEF StageWriteback
  <2> QED BY <1>1, <1>2, <2>1, HltQuiet DEF HltLast
<1>5. CASE Memory
  <2> DEFINE m == Head(memory_input_queue).data
  <2>1. /\ UNCHANGED <<registers, has_halted>>
        /\ phase = "memory" /\ phase' = "writeback"
        /\ FrontCanRun(memory_input_queue, cycle)
        /\ writeback_input_queue' =
             Append(writeback_input_queue, Deferred(cycle, m))
    BY <1>5 DEF Memory, Turn, commitVars
  <2>2. m \in Result
    BY <2>1, QueuesTyped, QueueTypes DEF FrontCanRun
  <2>3. m.opcode = "HLT" => HltM1
    BY <1>1, <2>1 DEF HltM1, Ready
  <2> HIDE DEF m
  <2>4. /\ Orderly(writeback_input_queue, cycle)
        /\ ~Coming(writeback_input_queue, cycle)
        /\ writeback_input_queue \in Queue(Result) /\ cycle \in Cycles
    BY <1>1, <2>1, QueuesTyped DEF Aligned, InStep, Next1, BeforeMemory
  <2>5. /\ FrontCanRun(writeback_input_queue', cycle)
             <=> FrontCanRun(writeback_input_queue, cycle)
        /\ FrontCanRun(writeback_input_queue, cycle) =>
             Head(writeback_input_queue') = Head(writeback_input_queue)
        /\ Last(writeback_input_queue').data = m
    <3>1. Last(writeback_input_queue') = Deferred(cycle, m)
      BY <2>1, <2>2, <2>4, LastPushed
    <3>2. Last(writeback_input_queue').data = m
      BY <3>1 DEF Deferred
    <3>3. FrontCanRun(writeback_input_queue', cycle)
            <=> FrontCanRun(writeback_input_queue, cycle)
      BY <2>1, <2>2, <2>4, Pushed
    <3>4. FrontCanRun(writeback_input_queue, cycle) =>
            Head(writeback_input_queue') = Head(writeback_input_queue)
      BY <2>1, <2>2, <2>4, Pushed
    <3> QED BY <3>2, <3>3, <3>4
  <2>6. /\ HltW2' => HltM1
        /\ HltW1' <=> HltW1
        /\ Ready(memory_input_queue)
    BY <1>1, <2>1, <2>3, <2>5 DEF HltW1, HltW2, Ready, Next1
  <2>7. /\ UNCHANGED <<HltD1, HltD2, HltE1, HltE2, HltM1, HltM2>>
        /\ UNCHANGED <<Ready(decode_input_queue), Next1(decode_input_queue)>>
        /\ UNCHANGED <<Ready(execute_input_queue), Next1(execute_input_queue)>>
        /\ UNCHANGED <<Ready(memory_input_queue), Next1(memory_input_queue)>>
    BY <1>1
       DEF HltD1, HltD2, HltE1, HltE2, HltM1, HltM2, Ready, Next1, input
  <2>8. ~has_halted
    BY <2>1 DEF HltLast
  <2> QED BY <1>1, <1>2, <2>1, <2>6, <2>7, <2>8 DEF HltLast
<1> QED BY <1>3, <1>4, <1>5 DEF StageMemory

LEMMA HltEnd ==
  ASSUME Types, Aligned, Coded, HltLast, EndCycle
  PROVE  HltLast'
<1>1. /\ UNCHANGED <<program, frontend_stall, flush_queue, fetch_seen_hlt,
                     potential_next_pc, has_halted>>
      /\ phase = "end" /\ phase' = "others" /\ Today = cycle
      /\ Today' = NextCycle(cycle) /\ ~flush_valid'
      /\ memory_input_queue' = PopReady(memory_input_queue)
      /\ writeback_input_queue' = PopReady(writeback_input_queue)
      /\ ~frontend_stall =>
           /\ decode_input_queue' = PopReady(decode_input_queue)
           /\ execute_input_queue' = PopReady(execute_input_queue)
           /\ registers' = [registers EXCEPT ![PC] = potential_next_pc]
      /\ frontend_stall =>
           /\ decode_input_queue' = IncrementAll(decode_input_queue)
           /\ execute_input_queue' = IncrementAll(execute_input_queue)
  BY DEF EndCycle, Turn, Today
<1>2. Fetched(potential_next_pc)' = Fetched(potential_next_pc)
  BY <1>1 DEF Fetched
<1>3. /\ Orderly(decode_input_queue, cycle)
      /\ Orderly(execute_input_queue, cycle)
      /\ Orderly(memory_input_queue, cycle)
      /\ Orderly(writeback_input_queue, cycle)
      /\ cycle \in Cycles
      /\ flush_valid => ~Coming(execute_input_queue, cycle)
      /\ frontend_stall =>
           /\ ~flush_valid
           /\ FrontCanRun(execute_input_queue, cycle)
           /\ Coming(decode_input_queue, cycle)
                => FrontCanRun(decode_input_queue, cycle)
  BY <1>1, QueuesTyped DEF Aligned, InStep, Flushes, Stalls, Ready, Next1
<1>4. ASSUME NEW D, NEW q \in Queue(D), Orderly(q, cycle)
      PROVE  /\ ~Coming(PopReady(q), NextCycle(cycle))
             /\ FrontCanRun(PopReady(q), NextCycle(cycle))
                  <=> Coming(q, cycle)
             /\ Coming(q, cycle) => Head(PopReady(q)).data = Last(q).data
  <2>1. /\ FrontCanRun(q, cycle) => PopReady(q) = Tail(q)
        /\ ~FrontCanRun(q, cycle) => PopReady(q) = q
    BY DEF PopReady
  <2> HIDE DEF PopReady
  <2> QED BY <1>3, <1>4, <2>1, Popped
<1>5. /\ HltM1' <=> HltM2
      /\ ~HltM2' /\ ~Next1(memory_input_queue)'
      /\ Ready(memory_input_queue)' <=> Next1(memory_input_queue)
  BY <1>1, <1>3, <1>4, QueuesTyped DEF HltM1, HltM2, Ready, Next1
<1>6. /\ HltW1' <=> HltW2
      /\ ~HltW2' /\ ~Next1(writeback_input_queue)'
      /\ Ready(writeback_input_queue)' <=> Next1(writeback_input_queue)
  BY <1>1, <1>3, <1>4, QueuesTyped DEF HltW1, HltW2, Ready, Next1
<1>7. CASE ~frontend_stall
  <2>1. /\ HltD1' <=> HltD2
        /\ ~HltD2' /\ ~Next1(decode_input_queue)'
        /\ Ready(decode_input_queue)' <=> Next1(decode_input_queue)
    BY <1>1, <1>3, <1>4, <1>7, QueuesTyped DEF HltD1, HltD2, Ready, Next1
  <2>2. /\ HltE1' <=> HltE2
        /\ ~HltE2' /\ ~Next1(execute_input_queue)'
        /\ Ready(execute_input_queue)' <=> Next1(execute_input_queue)
    BY <1>1, <1>3, <1>4, <1>7, QueuesTyped
       DEF HltE1, HltE2, Ready, Next1, input
  <2>3. registers'[PC] = potential_next_pc'
    BY <1>1, <1>7, WordType DEF Types, TypeOK
  <2> QED
    BY <1>1, <1>2, <1>5, <1>6, <1>7, <2>1, <2>2, <2>3 DEF HltLast
<1>8. CASE frontend_stall
  <2>1. /\ HltD1' <=> HltD1
        /\ HltD2' <=> HltD2
        /\ Next1(decode_input_queue)' <=> Next1(decode_input_queue)
        /\ Ready(decode_input_queue)' <=> Ready(decode_input_queue)
    BY <1>1, <1>3, <1>8, QueuesTyped, PutOffByStall
       DEF HltD1, HltD2, Ready, Next1
  <2>2. /\ HltE1' <=> HltE1
        /\ HltE2' <=> HltE2
        /\ Next1(execute_input_queue)' <=> Next1(execute_input_queue)
        /\ Ready(execute_input_queue)' <=> Ready(execute_input_queue)
    BY <1>1, <1>3, <1>8, QueuesTyped, PutOffByStall
       DEF HltE1, HltE2, Ready, Next1, input
  <2> QED
    BY <1>1, <1>2, <1>3, <1>5, <1>6, <1>8, <2>1, <2>2 DEF HltLast
<1> QED BY <1>7, <1>8

LEMMA HltInit ==
  Init => Coded /\ HltLast
<1> SUFFICES ASSUME Init PROVE Coded /\ HltLast
  OBVIOUS
<1>1. \A t : ~FrontCanRun(<< >>, t) /\ ~Coming(<< >>, t)
  BY DEF FrontCanRun, Coming
<1>2. Coded
  BY EmptySeq DEF Init, Coded, Queue
<1>3. /\ ~HltD1 /\ ~HltD2 /\ ~HltE1 /\ ~HltE2
      /\ ~HltM1 /\ ~HltM2 /\ ~HltW1 /\ ~HltW2
  BY <1>1
     DEF Init, HltD1, HltD2, HltE1, HltE2, HltM1, HltM2, HltW1, HltW2, Ready,
         Next1
<1> QED BY <1>2, <1>3 DEF Init, HltLast

LEMMA HltNext ==
  ASSUME EndWithHlt, Types, Aligned, Coded, HltLast, [Next]_vars
  PROVE  Coded' /\ HltLast'
<1>1. CASE UNCHANGED vars
  <2>1. UNCHANGED <<phase, Today, program, decode_input_queue,
                    execute_input_queue, memory_input_queue,
                    writeback_input_queue, fetch_seen_hlt, potential_next_pc,
                    has_halted, registers, frontend_stall, flush_valid,
                    flush_queue>>
    BY <1>1 DEF vars, Today, cycleVars, fetchVars, executeVars, commitVars
  <2>2. Fetched(potential_next_pc)' = Fetched(potential_next_pc)
    BY <2>1 DEF Fetched
  <2> QED BY <2>1, <2>2, HltQuiet DEF HltLast, Coded
<1> QED
  BY <1>1, CodedNext, HltFlush, HltFetch, HltDecode, HltExecute, HltCommit,
     HltEnd DEF Next

(* When the core halts nothing is on its way to the registers: what is     *)
(* dumped of them is final, stalled or flushed as the run may have been.   *)
THEOREM HaltsClean ==
  ASSUME EndWithHlt, \A u \in Uninit : ~u.held
  PROVE  Spec => []HaltedClean
<1> DEFINE Inv == Types /\ Aligned /\ Feedback /\ Coded /\ HltLast
<1>1. Init => Inv
  BY TypesInit, AlignedInit, FeedbackInit, HltInit
<1>2. Inv /\ [Next]_vars => Inv'
  BY TypesNext, AlignedNext, FeedbackNext, HltNext
<1>3. Inv => HaltedClean
  <2> SUFFICES ASSUME Inv, phase = "halted"
               PROVE  /\ memory_input_queue = << >>
                      /\ writeback_input_queue = << >>
                      /\ \A r \in GPR : Effective(r) = registers[r]
    BY DEF HaltedClean
  <2>1. /\ ~Ready(memory_input_queue) /\ ~Next1(memory_input_queue)
        /\ ~Ready(writeback_input_queue) /\ ~Next1(writeback_input_queue)
    BY DEF HltLast, Aligned, Ends
  <2>2. memory_input_queue = << >> /\ writeback_input_queue = << >>
    <3>1. /\ Orderly(memory_input_queue, cycle)
          /\ Orderly(writeback_input_queue, cycle)
          /\ Today = cycle
      BY DEF Aligned, InStep, Today
    <3> QED BY <2>1, <3>1, QueuesTyped, Slots DEF Ready, Next1
  <2>3. ASSUME NEW r \in GPR PROVE Effective(r) = registers[r]
    <3>1. ~Pending(r)
      BY <2>1 DEF Pending, Oldest, Middle, Newest
    <3> QED BY <3>1 DEF Feedback, Feeds, Effective
  <2> QED BY <2>2, <2>3
<1> QED BY <1>1, <1>2, <1>3, PTL DEF Spec

(* The program counter that is dumped is the address of the HLT that ended *)
(* the run: fetch does not run ahead of it.                                *)
THEOREM HaltsInPlace ==
  ASSUME EndWithHlt
  PROVE  Spec => []StopsInPlace
<1> DEFINE Inv == Types /\ Aligned /\ Coded /\ HltLast
<1>1. Init => Inv
  BY TypesInit, AlignedInit, HltInit
<1>2. Inv /\ [Next]_vars => Inv'
  BY TypesNext, AlignedNext, HltNext
<1>3. Inv => StopsInPlace
  <2> SUFFICES ASSUME Inv, phase = "halted"
               PROVE  /\ registers[PC] \in DOMAIN program
                      /\ program[registers[PC]].op \in {"HLT", "SEGMENT_END"}
    BY DEF StopsInPlace
  <2>1. /\ registers[PC] = potential_next_pc
        /\ Fetched(potential_next_pc).op = "HLT"
    BY DEF HltLast, Aligned, Ends
  <2> QED BY <2>1 DEF Fetched
<1> QED BY <1>1, <1>2, <1>3, PTL DEF Spec
-----------------------------------------------------------------------------
(* The core implements the ISA, but for the cases in which it does not     *)
(* (runs ManagerCore_feedback and ManagerCore_not_taken).                  *)

(* Programs that do not run over their end and end with a HLT.             *)
Ongoing == Opcodes \ {"JMP_L", "HLT"}
Closed ==
  /\ EndWithHlt
  /\ \A p \in Programs :
       /\ 0 \in DOMAIN p
       /\ \A a \in DOMAIN p :
            /\ p[a].op \in Ongoing  => a + 1 \in DOMAIN p
            /\ p[a].op \in Branches => p[a].imm \in DOMAIN p

(* The predictor has a tag for every instruction, and one that a branch    *)
(* has only branches, and a HLT, have.                                     *)
Unshared ==
  \A p \in Programs :
    /\ DOMAIN p \subseteq DOMAIN BhtTag
    /\ \A a, b \in DOMAIN p :
         BhtTag[a] = BhtTag[b] /\ p[b].op \in Branches =>
           p[a].op \in Branches \cup {"HLT"}

(* A branch that is not taken is executed only where fetch went on behind  *)
(* it.                                                                     *)
FallsThrough ==
  /\ phase = "execute" /\ ~flush_valid /\ FrontCanRun(execute_input_queue, cycle)
  /\ input.opcode = "BRA_L" /\ ~flag
  => input.next_pc = input.pc + 1
-----------------------------------------------------------------------------
(* What is in the pipeline is what was fetched, and behind an instruction  *)
(* that does not branch comes the next.                                    *)
Straight(a, n) ==
  a \in DOMAIN program /\ program[a].op \notin Branches \cup {"HLT"} => n = a + 1

Listed == {d \in Code : d.instruction = Fetched(d.pc) /\ Straight(d.pc, d.next_pc)}
Meant  == {e \in Operation :
             /\ e.opcode  = Fetched(e.pc).op
             /\ e.dest    = Dest(Fetched(e.pc))
             /\ e.source0 = Source0(Fetched(e.pc))
             /\ e.source1 = Source1(Fetched(e.pc))
             /\ Straight(e.pc, e.next_pc)}

Faithful ==
  /\ decode_input_queue \in Queue(Listed)
  /\ execute_input_queue \in Queue(Meant)

(* Only branches train the predictor.                                      *)
Trained ==
  \A t \in BhtTags : bht[t] =>
    \E b \in DOMAIN program : program[b].op \in Branches /\ BhtTag[b] = t

D1 == Head(decode_input_queue).data
D2 == Last(decode_input_queue).data
E1 == Head(execute_input_queue).data
E2 == Last(execute_input_queue).data

(* The address behind what waits for decode, and behind what waits for     *)
(* execute.                                                                *)
AfterD1 == IF Next1(decode_input_queue) THEN D2.pc ELSE potential_next_pc
AfterE1 == IF Ready(decode_input_queue) THEN D1.pc ELSE AfterD1

(* The instruction that has been decoded is in both queues.                *)
Decodes1 == phase \in AfterExecute \cup {"execute"} \/ frontend_stall
Copied ==
  /\ Next1(execute_input_queue) =>
       /\ Ready(decode_input_queue)
       /\ E2.pc = D1.pc /\ E2.next_pc = D1.next_pc
  /\ Decodes1 /\ ~flush_valid /\ Ready(decode_input_queue) =>
       Next1(execute_input_queue)

(* Every instruction in the pipeline is followed by the one that fetch     *)
(* went on to; after a flush the first is the one that was asked for.      *)
Chained ==
  /\ phase \in BeforeFetch /\ ~frontend_stall =>
       registers[PC] = potential_next_pc
  /\ flush_valid /\ phase # "fetch" =>
       /\ Next1(decode_input_queue)
       /\ D2.pc = flush_addr /\ D2.next_pc = potential_next_pc
  /\ ~flush_valid /\ flush_queue = << >> =>
       /\ Ready(execute_input_queue) => E1.next_pc = AfterE1
       /\ Ready(decode_input_queue)  => D1.next_pc = AfterD1
       /\ Next1(decode_input_queue)  => D2.next_pc = potential_next_pc

(* What has been written back is performed, and a command given is one of  *)
(* this cycle.                                                             *)
Told ==
  /\ phase = "end" /\ HltW1 => has_halted
  /\ phase \notin AfterExecute \cup {"others"} => submitted = NoCommand

Resume ==
  IF flush_valid THEN flush_addr
  ELSE IF flush_queue # << >> THEN Head(flush_queue).data
  ELSE IF Ready(execute_input_queue) /\ ~Executed THEN E1.pc ELSE AfterE1

HltOut == HltM1 \/ HltM2 \/ HltW1 \/ HltW2 \/ has_halted

OnPath == ~Halted => NextToExecute \in DOMAIN program
-----------------------------------------------------------------------------
LEMMA ProgramKept == [Next]_vars => program' = program
BY DEF Next, TakeFlush, NoFlush, StageFetch, FetchWaits, FetchStalls, Fetch,
       StageDecode, DecodeIdle, DecodeSegmentEnd, Decode, StageExecute,
       ExecuteAlone, ExecuteIdle, ExecuteNothing, ExecuteWrite,
       ExecuteCompare, ExecuteBranch, ExecuteAccepted, ExecuteRefused,
       StageMemory, MemoryIdle, Memory, StageWriteback, WritebackIdle,
       Writeback, EndCycle, OthersRun, vars, cycleVars

LEMMA FetchedKept ==
  ASSUME [Next]_vars
  PROVE  /\ Listed' = Listed /\ Meant' = Meant
         /\ \A a : Fetched(a)' = Fetched(a)
BY ProgramKept DEF Listed, Meant, Straight, Fetched

(* What fetch puts into the pipeline.                                      *)
LEMMA FetchedListed ==
  ASSUME Closed, Unshared, Types, Trained, Fetch,
         NEW d, d = [instruction |-> Fetched(FetchPc), pc |-> FetchPc,
                     next_pc |-> potential_next_pc']
  PROVE  d \in Listed
<1>1. d \in Code /\ program \in Programs
  BY FetchedCode DEF Closed, Types
<1>2. Straight(FetchPc, StagedPc(FetchPc))
  <2> SUFFICES ASSUME FetchPc \in DOMAIN program,
                      program[FetchPc].op \notin Branches \cup {"HLT"}
               PROVE  StagedPc(FetchPc) = FetchPc + 1
    BY DEF Straight
  <2>1. FetchPc \in DOMAIN BhtTag
    BY <1>1 DEF Unshared
  <2>2. ~bht[BhtTag[FetchPc]]
    BY <1>1, <2>1 DEF Trained, Unshared, BhtTags
  <2> QED BY <2>2 DEF StagedPc, Predicted, Fetched
<1>3. potential_next_pc' = StagedPc(FetchPc)
  BY DEF Fetch
<1> QED BY <1>1, <1>2, <1>3 DEF Listed

(* What decode makes of it.                                                *)
LEMMA DecodedMeant ==
  ASSUME NEW d \in Listed,
         NEW e, e = [opcode |-> d.instruction.op, dest |-> Dest(d.instruction),
                     source0 |-> Source0(d.instruction),
                     source1 |-> Source1(d.instruction),
                     pc |-> d.pc, next_pc |-> d.next_pc]
  PROVE  e \in Meant
<1>1. /\ d \in DecodeEntry /\ d.instruction.op # "SEGMENT_END"
      /\ d.instruction = Fetched(d.pc) /\ Straight(d.pc, d.next_pc)
  BY DEF Listed, Code
<1>2. e \in Operation
  BY <1>1, DecodedType DEF DecodeEntry
<1> QED BY <1>1, <1>2 DEF Meant

LEMMA FaithfulNext ==
  ASSUME Closed, Unshared, Types, Trained, Faithful, [Next]_vars
  PROVE  Faithful'
<1>1. Listed' = Listed /\ Meant' = Meant /\ cycle \in Cycles
  BY FetchedKept, QueuesTyped
<1>2. decode_input_queue' \in Queue(Listed)
  <2>1. CASE Fetch
    BY <1>1, <2>1, FetchedListed, QueueTypes DEF Fetch, Faithful
  <2>2. CASE EndCycle
    BY <2>2, QueueTypes DEF EndCycle, Faithful
  <2>3. CASE ~Fetch /\ ~EndCycle
    <3>1. UNCHANGED decode_input_queue
      BY <2>3
         DEF Next, TakeFlush, NoFlush, StageFetch, FetchWaits, FetchStalls,
             StageDecode, DecodeIdle, DecodeSegmentEnd, Decode, StageExecute,
             ExecuteAlone, ExecuteIdle, ExecuteNothing, ExecuteWrite,
             ExecuteCompare, ExecuteBranch, ExecuteAccepted, ExecuteRefused,
             StageMemory, MemoryIdle, Memory, StageWriteback, WritebackIdle,
             Writeback, OthersRun, vars, fetchVars
    <3> QED BY <3>1 DEF Faithful
  <2> QED BY <2>1, <2>2, <2>3
<1>3. execute_input_queue' \in Queue(Meant)
  <2>1. CASE Decode
    <3>1. Head(decode_input_queue).data \in Listed
      BY <2>1, QueueTypes DEF Decode, Decodes, FrontCanRun, Faithful
    <3> QED
      BY <1>1, <2>1, <3>1, DecodedMeant, QueueTypes DEF Decode, Faithful
  <2>2. CASE EndCycle
    BY <2>2, QueueTypes DEF EndCycle, Faithful
  <2>3. CASE ~Decode /\ ~EndCycle
    <3>1. UNCHANGED execute_input_queue
      BY <2>3
         DEF Next, TakeFlush, NoFlush, StageFetch, FetchWaits, FetchStalls,
             Fetch, StageDecode, DecodeIdle, DecodeSegmentEnd, StageExecute,
             ExecuteAlone, ExecuteIdle, ExecuteNothing, ExecuteWrite,
             ExecuteCompare, ExecuteBranch, ExecuteAccepted, ExecuteRefused,
             StageMemory, MemoryIdle, Memory, StageWriteback, WritebackIdle,
             Writeback, OthersRun, vars
    <3> QED BY <3>1 DEF Faithful
  <2> QED BY <2>1, <2>2, <2>3
<1> QED BY <1>1, <1>2, <1>3 DEF Faithful

(* The instruction that is executed.                                       *)
LEMMA InputMeant ==
  ASSUME Types, Faithful, FrontCanRun(execute_input_queue, cycle)
  PROVE  /\ input \in Meant
         /\ input.opcode = Fetched(input.pc).op
         /\ input.opcode # "NOP" =>
              input.pc \in DOMAIN program /\ Fetched(input.pc) = program[input.pc]
<1>1. input \in Meant
  BY QueueTypes DEF FrontCanRun, Faithful, input
<1> QED BY <1>1 DEF Meant, Fetched

LEMMA TrainedNext ==
  ASSUME Closed, Unshared, Types, Trained, Faithful, [Next]_vars
  PROVE  Trained'
<1>1. program' = program
  BY ProgramKept
<1>2. CASE ExecuteBranch
  <2> DEFINE t == BhtTag[input.pc]
  <2>1. /\ FrontCanRun(execute_input_queue, cycle)
        /\ input.opcode \in Branches
        /\ \/ UNCHANGED bht
           \/ \E m \in BOOLEAN : bht' = [bht EXCEPT ![t] = m]
    BY <1>2 DEF ExecuteBranch, Executes
  <2>2. /\ input.pc \in DOMAIN program
        /\ program[input.pc].op \in Branches
    BY <2>1, InputMeant DEF Branches
  <2>3. bht \in [BhtTags -> BOOLEAN]
    BY DEF Types, TypeOK
  <2> QED BY <1>1, <2>1, <2>2, <2>3 DEF Trained
<1>3. CASE ~ExecuteBranch
  <2>1. UNCHANGED bht
    BY <1>3
       DEF Next, TakeFlush, NoFlush, StageFetch, FetchWaits, FetchStalls,
           Fetch, StageDecode, DecodeIdle, DecodeSegmentEnd, Decode,
           StageExecute, ExecuteAlone, ExecuteIdle, ExecuteNothing,
           ExecuteWrite, ExecuteCompare, ExecuteAccepted, ExecuteRefused,
           StageMemory, MemoryIdle, Memory, StageWriteback, WritebackIdle,
           Writeback, EndCycle, OthersRun, vars, executeVars
  <2> QED BY <1>1, <2>1 DEF Trained
<1> QED BY <1>2, <1>3
-----------------------------------------------------------------------------
(* Where the program goes on does not change until an instruction is       *)
(* executed.                                                               *)
Path == Copied /\ Chained

LEMMA PathInit == Init => Path
<1> SUFFICES ASSUME Init PROVE Path
  OBVIOUS
<1>1. \A t : ~FrontCanRun(<< >>, t) /\ ~Coming(<< >>, t)
  BY DEF FrontCanRun, Coming
<1>2. PC \in Registers
  BY WordType
<1> QED
  BY <1>1, <1>2
     DEF Init, Path, Copied, Chained, Ready, Next1, PC

LEMMA PathFlush ==
  ASSUME Types, Aligned, Path, TakeFlush \/ NoFlush
  PROVE  Path' /\ Resume' = Resume
<1>1. /\ phase = "flush" /\ phase' = "fetch" /\ Today = cycle
      /\ Today' = cycle /\ ~flush_valid
      /\ UNCHANGED <<cycle, decode_input_queue, execute_input_queue, registers,
                     frontend_stall, potential_next_pc>>
  BY DEF TakeFlush, NoFlush, Turn, Today, cycleVars, fetchVars, executeVars,
         commitVars, Aligned, Flushes, AtRest
<1>2. ~Executed /\ ~Executed'
  BY <1>1 DEF Executed
<1>3. /\ cycle \in Cycles /\ flush_queue \in Queue(Nat)
      /\ Orderly(flush_queue, cycle) /\ ~Coming(flush_queue, cycle)
  BY <1>1, QueuesTyped DEF Aligned, InStep, Flushes, Next1, AtRest
<1>4. CASE TakeFlush
  <2>1. /\ flush_valid' /\ flush_queue # << >>
        /\ flush_addr' = Head(flush_queue).data
    BY <1>4 DEF TakeFlush
  <2>2. ~frontend_stall /\ ~Coming(execute_input_queue, cycle)
    BY <1>1, <2>1
       DEF Aligned, Stalls, InStep, Next1, BeforeDecode, BeforeFetch, AtRest
  <2>3. Path'
    BY <1>1, <2>1, <2>2
       DEF Path, Copied, Chained, Ready, Next1, Decodes1, AfterExecute,
           BeforeFetch, AtRest
  <2> QED BY <1>1, <2>1, <2>3 DEF Resume
<1>5. CASE NoFlush
  <2>1. flush_queue = << >>
    <3>1. ~FrontCanRun(flush_queue, cycle)
      BY <1>3, <1>5 DEF NoFlush, FrontCanRun, CanRun, Cycles
    <3> QED BY <1>3, <3>1, Slots
  <2>2. UNCHANGED <<flush_valid, flush_addr, flush_queue>>
    BY <1>5 DEF NoFlush, cycleVars, executeVars
  <2>3. Path'
    BY <1>1, <2>1, <2>2
       DEF Path, Copied, Chained, Ready, Next1, Decodes1, AfterExecute,
           BeforeFetch, AtRest, D1, D2, E1, E2, AfterD1, AfterE1
  <2> QED
    BY <1>1, <1>2, <2>1, <2>2, <2>3
       DEF Resume, E1, AfterE1, AfterD1, D1, D2, Ready, Next1
<1> QED BY <1>4, <1>5

LEMMA PathFetch ==
  ASSUME Types, Aligned, Path, StageFetch
  PROVE  Path' /\ Resume' = Resume
<1>1. /\ phase = "fetch" /\ phase' = "decode" /\ Today = cycle
      /\ Today' = cycle
      /\ UNCHANGED <<cycle, execute_input_queue, flush_queue, flush_valid,
                     flush_addr, frontend_stall, registers>>
  BY DEF StageFetch, FetchWaits, FetchStalls, Fetch, Turn, Today, cycleVars,
         fetchVars, executeVars, commitVars
<1>2. ~Executed /\ ~Executed'
  BY <1>1 DEF Executed
<1>3. flush_queue = << >>
  BY <1>1
     DEF Aligned, Flushes, BeforeExecute, BeforeDecode, BeforeFetch, AtRest
<1>4. CASE FetchWaits \/ FetchStalls
  <2>1. UNCHANGED <<decode_input_queue, potential_next_pc>>
    BY <1>4 DEF FetchWaits, FetchStalls, fetchVars
  <2>2. ~flush_valid
    BY <1>1, <1>4
       DEF FetchWaits, FetchStalls, HltSeen, Aligned, Stalls, Ends
  <2>3. Path'
    BY <1>1, <2>1, <2>2
       DEF Path, Copied, Chained, Ready, Next1, Decodes1, AfterExecute,
           BeforeFetch, AtRest, D1, D2, E1, E2, AfterD1, AfterE1
  <2> QED
    BY <1>1, <1>2, <2>1, <2>2, <2>3
       DEF Resume, E1, AfterE1, AfterD1, D1, D2, Ready, Next1
<1>5. CASE Fetch
  <2> DEFINE d == [instruction |-> Fetched(FetchPc), pc |-> FetchPc,
                   next_pc |-> potential_next_pc']
  <2>1. /\ ~frontend_stall
        /\ decode_input_queue' = Append(decode_input_queue, Deferred(cycle, d))
    BY <1>5 DEF Fetch
  <2>2. /\ Orderly(decode_input_queue, cycle)
        /\ ~Coming(decode_input_queue, cycle)
        /\ ~Coming(execute_input_queue, cycle)
        /\ cycle \in Cycles
    BY <1>1, <2>1, QueuesTyped
       DEF Aligned, InStep, Next1, BeforeFetch, BeforeDecode
  <2>3. d \in DecodeEntry
    <3>1. FetchPc \in Nat
      BY WordType DEF FetchPc, Types, TypeOK
    <3>2. Fetched(FetchPc) \in Instruction /\ potential_next_pc' \in Nat
      BY <1>5, <3>1, FetchedType DEF Fetch
    <3> QED BY <3>1, <3>2 DEF DecodeEntry
  <2>4. d.pc = FetchPc /\ d.next_pc = potential_next_pc'
    OBVIOUS
  <2> HIDE DEF d
  <2>5. /\ Coming(decode_input_queue', cycle)
        /\ FrontCanRun(decode_input_queue', cycle)
             <=> FrontCanRun(decode_input_queue, cycle)
        /\ FrontCanRun(decode_input_queue, cycle) =>
             Head(decode_input_queue') = Head(decode_input_queue)
        /\ Last(decode_input_queue').data = d
    <3>1. Coming(decode_input_queue', cycle)
      BY <2>1, <2>2, <2>3, Pushed, QueuesTyped
    <3>2. FrontCanRun(decode_input_queue', cycle)
            <=> FrontCanRun(decode_input_queue, cycle)
      BY <2>1, <2>2, <2>3, Pushed, QueuesTyped
    <3>3. FrontCanRun(decode_input_queue, cycle) =>
            Head(decode_input_queue') = Head(decode_input_queue)
      BY <2>1, <2>2, <2>3, Pushed, QueuesTyped
    <3>4. Last(decode_input_queue') = Deferred(cycle, d)
      BY <2>1, <2>2, <2>3, LastPushed, QueuesTyped
    <3> QED BY <3>1, <3>2, <3>3, <3>4 DEF Deferred
  <2>6. /\ D2'.pc = FetchPc /\ D2'.next_pc = potential_next_pc'
        /\ FrontCanRun(decode_input_queue, cycle) => D1' = D1
        /\ E1' = E1 /\ E2' = E2
    BY <1>1, <2>4, <2>5 DEF D1, D2, E1, E2
  <2>7. ~flush_valid => FetchPc = potential_next_pc
    BY <1>1, <2>1 DEF FetchPc, Path, Chained, BeforeFetch
  <2>8. flush_valid => FetchPc = flush_addr
    BY DEF FetchPc
  <2>9. ~flush_valid => AfterE1' = AfterE1 /\ AfterD1' = AfterD1
    BY <1>1, <2>2, <2>5, <2>6, <2>7 DEF AfterE1, AfterD1, Ready, Next1
  <2>10. Copied'
    BY <1>1, <2>1, <2>2
       DEF Copied, Ready, Next1, Decodes1, AfterExecute
  <2>11. Chained'
    BY <1>1, <1>3, <2>5, <2>6, <2>8, <2>9
       DEF Path, Chained, Ready, Next1, BeforeFetch, AtRest
  <2>12. Resume' = Resume
    BY <1>1, <1>2, <1>3, <2>6, <2>9 DEF Resume, Ready
  <2> QED BY <2>10, <2>11, <2>12 DEF Path
<1> QED BY <1>4, <1>5 DEF StageFetch

(* No end of a segment is decoded.                                         *)
LEMMA NoSegmentEnd ==
  ASSUME Coded
  PROVE  ~DecodeSegmentEnd
<1> SUFFICES ASSUME DecodeSegmentEnd PROVE FALSE
  OBVIOUS
<1>1. /\ decode_input_queue # << >>
      /\ Head(decode_input_queue).data.instruction.op = "SEGMENT_END"
  BY DEF DecodeSegmentEnd, Decodes, FrontCanRun
<1>2. Head(decode_input_queue).data \in Code
  BY <1>1, QueueTypes DEF Coded
<1> QED BY <1>1, <1>2 DEF Code

LEMMA PathDecode ==
  ASSUME Types, Coded, Aligned, Path, StageDecode
  PROVE  Path' /\ Resume' = Resume
<1>1. /\ phase = "decode" /\ phase' = "execute" /\ Today = cycle
      /\ Today' = cycle
      /\ UNCHANGED <<cycle, decode_input_queue, flush_queue, flush_valid,
                     flush_addr, frontend_stall, registers, potential_next_pc>>
  BY DEF StageDecode, DecodeIdle, DecodeSegmentEnd, Decode, Decodes, Turn,
         Today, cycleVars, fetchVars, executeVars, commitVars
<1>2. ~Executed /\ ~Executed'
  BY <1>1 DEF Executed
<1>3. ~DecodeSegmentEnd
  BY NoSegmentEnd
<1>4. CASE DecodeIdle
  <2>1. /\ UNCHANGED execute_input_queue
        /\ flush_valid \/ ~FrontCanRun(decode_input_queue, cycle)
    BY <1>4 DEF DecodeIdle
  <2>2. Path'
    BY <1>1, <2>1
       DEF Path, Copied, Chained, Ready, Next1, Decodes1, AfterExecute,
           BeforeFetch, AtRest, D1, D2, E1, E2, AfterD1, AfterE1
  <2> QED
    BY <1>1, <1>2, <2>1, <2>2
       DEF Resume, E1, AfterE1, AfterD1, D1, D2, Ready, Next1
<1>5. CASE Decode /\ frontend_stall
  <2>1. UNCHANGED execute_input_queue
    BY <1>5 DEF Decode
  <2>2. Path'
    BY <1>1, <1>5, <2>1
       DEF Path, Copied, Chained, Ready, Next1, Decodes1, AfterExecute,
           BeforeFetch, AtRest, D1, D2, E1, E2, AfterD1, AfterE1
  <2> QED
    BY <1>1, <1>2, <2>1, <2>2
       DEF Resume, E1, AfterE1, AfterD1, D1, D2, Ready, Next1
<1>6. CASE Decode /\ ~frontend_stall
  <2> DEFINE i == D1.instruction
             o == [opcode |-> i.op, dest |-> Dest(i),
                   source0 |-> Source0(i), source1 |-> Source1(i),
                   pc |-> D1.pc, next_pc |-> D1.next_pc]
  <2>1. /\ ~flush_valid /\ FrontCanRun(decode_input_queue, cycle)
        /\ execute_input_queue' =
             Append(execute_input_queue, Deferred(cycle, o))
        /\ i.op # "SEGMENT_END"
    BY <1>6 DEF Decode, Decodes, D1
  <2>2. o \in Operation
    <3>1. D1 \in DecodeEntry
      BY <2>1, QueuesTyped, QueueTypes DEF FrontCanRun, D1
    <3> QED BY <2>1, <3>1, DecodedType DEF DecodeEntry
  <2>3. o.pc = D1.pc /\ o.next_pc = D1.next_pc
    OBVIOUS
  <2> HIDE DEF o
  <2>4. /\ Orderly(execute_input_queue, cycle)
        /\ ~Coming(execute_input_queue, cycle)
    BY <1>1, <1>6 DEF Aligned, InStep, Next1, BeforeDecode
  <2>5. /\ Coming(execute_input_queue', cycle)
        /\ FrontCanRun(execute_input_queue', cycle)
             <=> FrontCanRun(execute_input_queue, cycle)
        /\ FrontCanRun(execute_input_queue, cycle) =>
             Head(execute_input_queue') = Head(execute_input_queue)
        /\ Last(execute_input_queue').data = o
    <3>0. cycle \in Cycles /\ execute_input_queue \in Queue(Operation)
      BY QueuesTyped
    <3>1. Coming(execute_input_queue', cycle)
      BY <2>1, <2>2, <2>4, <3>0, Pushed
    <3>2. FrontCanRun(execute_input_queue', cycle)
            <=> FrontCanRun(execute_input_queue, cycle)
      <4>1. \A a : a = Append(execute_input_queue, Deferred(cycle, o)) =>
                   (FrontCanRun(a, cycle)
                      <=> FrontCanRun(execute_input_queue, cycle))
        BY <2>2, <2>4, <3>0, Pushed
      <4> QED BY <2>1, <4>1
    <3>3. FrontCanRun(execute_input_queue, cycle) =>
            Head(execute_input_queue') = Head(execute_input_queue)
      BY <2>1, <2>2, <2>4, <3>0, Pushed
    <3>4. Last(execute_input_queue') = Deferred(cycle, o)
      BY <2>1, <2>2, <3>0, LastPushed
    <3> QED BY <3>1, <3>2, <3>3, <3>4 DEF Deferred
  <2>6. /\ E2'.pc = D1.pc /\ E2'.next_pc = D1.next_pc
        /\ FrontCanRun(execute_input_queue, cycle) => E1' = E1
        /\ D1' = D1 /\ D2' = D2
    BY <1>1, <2>3, <2>5 DEF D1, D2, E1, E2
  <2>7. AfterE1' = AfterE1 /\ AfterD1' = AfterD1
    BY <1>1, <2>6 DEF AfterE1, AfterD1, Ready, Next1
  <2>8. Copied'
    BY <1>1, <2>1, <2>5, <2>6 DEF Copied, Ready, Next1
  <2>9. Chained'
    BY <1>1, <2>1, <2>5, <2>6, <2>7
       DEF Path, Chained, Ready, Next1, BeforeFetch, AtRest
  <2>10. Resume' = Resume
    BY <1>1, <1>2, <2>1, <2>5, <2>6, <2>7 DEF Resume, Ready
  <2> QED BY <2>8, <2>9, <2>10 DEF Path
<1> QED BY <1>3, <1>4, <1>5, <1>6 DEF StageDecode

LEMMA PathExecute ==
  ASSUME Types, Aligned, Path, StageExecute
  PROVE  /\ Path'
         /\ ExecuteIdle \/ ExecuteRefused => Resume' = Resume
         /\ Handled => /\ Executed' /\ flush_valid' = FALSE
                       /\ Resume = input.pc
                       /\ flush_queue' = << >> => Resume' = input.next_pc
                       /\ flush_queue' # << >> => Resume' = Head(flush_queue').data
<1>1. /\ phase = "execute" /\ phase' = "memory" /\ Today = cycle
      /\ Today' = cycle
      /\ UNCHANGED <<cycle, decode_input_queue, execute_input_queue,
                     flush_valid, flush_addr, registers, potential_next_pc>>
  BY DEF StageExecute, ExecuteAlone, ExecuteIdle, ExecuteNothing, ExecuteWrite,
         ExecuteCompare, ExecuteBranch, ExecuteAccepted, ExecuteRefused,
         Executes, Turn, Today, cycleVars, fetchVars, executeVars, commitVars
<1>2. /\ ~Executed /\ flush_queue = << >>
  BY <1>1
     DEF Executed, Aligned, Flushes, BeforeExecute, BeforeDecode, BeforeFetch,
         AtRest
<1>3. UNCHANGED <<D1, D2, E1, E2, AfterD1, AfterE1>>
  BY <1>1 DEF D1, D2, E1, E2, AfterD1, AfterE1, Ready, Next1
<1>4. /\ Ready(decode_input_queue)' <=> Ready(decode_input_queue)
      /\ Next1(decode_input_queue)' <=> Next1(decode_input_queue)
      /\ Ready(execute_input_queue)' <=> Ready(execute_input_queue)
      /\ Next1(execute_input_queue)' <=> Next1(execute_input_queue)
  BY <1>1 DEF Ready, Next1
<1>5. Path'
  BY <1>1, <1>2, <1>3, <1>4
     DEF Path, Copied, Chained, Decodes1, BeforeFetch, AtRest, AfterExecute
<1>6. ASSUME ExecuteIdle \/ ExecuteRefused PROVE Resume' = Resume
  <2>1. flush_queue' = << >>
    BY <1>2, <1>6 DEF ExecuteIdle, ExecuteRefused, executeVars
  <2>2. ~Executed'
    BY <1>1, <1>6 DEF Executed, ExecuteIdle, ExecuteRefused
  <2> QED BY <1>1, <1>2, <1>3, <1>4, <2>1, <2>2 DEF Resume
<1>7. ASSUME Handled
      PROVE  /\ Executed' /\ flush_valid' = FALSE
             /\ Resume = input.pc
             /\ flush_queue' = << >> => Resume' = input.next_pc
             /\ flush_queue' # << >> => Resume' = Head(flush_queue').data
  <2>1. /\ ~flush_valid /\ FrontCanRun(execute_input_queue, cycle)
        /\ ~frontend_stall' /\ flush_valid' = FALSE
    BY <1>1, <1>7
       DEF Handled, ExecuteNothing, ExecuteWrite, ExecuteCompare,
           ExecuteBranch, ExecuteAccepted, Executes, ToMemory, Types, TypeOK
  <2>2. Executed'
    BY <1>1, <2>1 DEF Executed
  <2>3. Ready(execute_input_queue) /\ E1 = input
    BY <1>1, <2>1 DEF Ready, E1, input
  <2>4. E1.next_pc = AfterE1
    BY <1>2, <2>1, <2>3 DEF Path, Chained
  <2> QED BY <1>1, <1>2, <1>3, <2>1, <2>2, <2>3, <2>4 DEF Resume
<1> QED BY <1>5, <1>6, <1>7

LEMMA PathCommit ==
  ASSUME Types, Aligned, Path, StageMemory \/ StageWriteback
  PROVE  Path' /\ Resume' = Resume
<1>1. /\ phase \in {"memory", "writeback"} /\ phase' \in {"writeback", "end"}
      /\ Today = cycle /\ Today' = cycle
      /\ UNCHANGED <<cycle, decode_input_queue, execute_input_queue,
                     flush_queue, flush_valid, flush_addr, frontend_stall,
                     potential_next_pc>>
  BY DEF StageMemory, StageWriteback, MemoryIdle, Memory, WritebackIdle,
         Writeback, Turn, Today, cycleVars, fetchVars, executeVars, commitVars
<1>2. Executed' <=> Executed
  BY <1>1 DEF Executed
<1>3. /\ UNCHANGED <<D1, D2, E1, E2, AfterD1, AfterE1>>
      /\ Ready(decode_input_queue)' <=> Ready(decode_input_queue)
      /\ Next1(decode_input_queue)' <=> Next1(decode_input_queue)
      /\ Ready(execute_input_queue)' <=> Ready(execute_input_queue)
      /\ Next1(execute_input_queue)' <=> Next1(execute_input_queue)
  BY <1>1 DEF D1, D2, E1, E2, AfterD1, AfterE1, Ready, Next1
<1>4. Path'
  BY <1>1, <1>3
     DEF Path, Copied, Chained, Decodes1, BeforeFetch, AtRest, AfterExecute
<1> QED BY <1>1, <1>2, <1>3, <1>4 DEF Resume

LEMMA PathEnd ==
  ASSUME Types, Aligned, Path, EndCycle
  PROVE  Path' /\ Resume' = Resume
<1>1. /\ phase = "end" /\ phase' = "others" /\ Today = cycle
      /\ Today' = NextCycle(cycle) /\ ~flush_valid'
      /\ UNCHANGED <<cycle, flush_queue, frontend_stall, potential_next_pc>>
  BY DEF EndCycle, Turn, Today
<1>2. cycle \in Cycles /\ NextCycle(cycle) \in Cycles
      /\ NextCycle(cycle) # cycle
  BY QueuesTyped, NextCycleType
<1>3. /\ Orderly(decode_input_queue, cycle)
      /\ Orderly(execute_input_queue, cycle)
      /\ flush_valid => flush_queue = << >> /\ ~frontend_stall
      /\ flush_valid => ~Coming(execute_input_queue, cycle)
      /\ frontend_stall =>
           /\ flush_queue = << >> /\ ~flush_valid
           /\ FrontCanRun(execute_input_queue, cycle)
           /\ Coming(decode_input_queue, cycle)
                => FrontCanRun(decode_input_queue, cycle)
  BY <1>1
     DEF Aligned, InStep, Stalls, Flushes, Ready, Next1, AfterExecute
<1>4. ~Executed'
  BY <1>1 DEF Executed
<1>5. CASE frontend_stall
  <2>1. /\ decode_input_queue' = IncrementAll(decode_input_queue)
        /\ execute_input_queue' = IncrementAll(execute_input_queue)
    BY <1>5 DEF EndCycle
  <2>2. /\ Ready(decode_input_queue)' <=> Ready(decode_input_queue)
        /\ Next1(decode_input_queue)' <=> Next1(decode_input_queue)
    <3>1. Coming(decode_input_queue', NextCycle(cycle))
            <=> Coming(decode_input_queue, cycle)
      BY <1>2, <1>3, <1>5, <2>1, QueuesTyped, PutOffByStall
    <3>2. FrontCanRun(decode_input_queue', NextCycle(cycle))
            <=> FrontCanRun(decode_input_queue, cycle)
      BY <1>2, <1>3, <1>5, <2>1, QueuesTyped, PutOffByStall
    <3> QED BY <1>1, <3>1, <3>2 DEF Ready, Next1
  <2>3. /\ Ready(execute_input_queue)' <=> Ready(execute_input_queue)
        /\ Next1(execute_input_queue)' <=> Next1(execute_input_queue)
    <3>1. Coming(execute_input_queue', NextCycle(cycle))
            <=> Coming(execute_input_queue, cycle)
      BY <1>2, <1>3, <1>5, <2>1, QueuesTyped, PutOffByStall
    <3>2. FrontCanRun(execute_input_queue', NextCycle(cycle))
            <=> FrontCanRun(execute_input_queue, cycle)
      BY <1>2, <1>3, <1>5, <2>1, QueuesTyped, PutOffByStall
    <3> QED BY <1>1, <3>1, <3>2 DEF Ready, Next1
  <2>4. /\ Ready(decode_input_queue) => D1' = D1
        /\ Next1(decode_input_queue) => D2' = D2
    <3>1. FrontCanRun(decode_input_queue, cycle) =>
            Head(decode_input_queue').data = Head(decode_input_queue).data
      BY <1>2, <1>3, <1>5, <2>1, QueuesTyped, PutOffByStall
    <3>2. Coming(decode_input_queue, cycle) =>
            Last(decode_input_queue').data = Last(decode_input_queue).data
      BY <1>2, <1>3, <1>5, <2>1, QueuesTyped, PutOffByStall
    <3> QED BY <1>1, <3>1, <3>2 DEF Ready, Next1, D1, D2
  <2>5. /\ Ready(execute_input_queue) => E1' = E1
        /\ Next1(execute_input_queue) => E2' = E2
    <3>1. FrontCanRun(execute_input_queue, cycle) =>
            Head(execute_input_queue').data = Head(execute_input_queue).data
      BY <1>2, <1>3, <1>5, <2>1, QueuesTyped, PutOffByStall
    <3>2. Coming(execute_input_queue, cycle) =>
            Last(execute_input_queue').data = Last(execute_input_queue).data
      BY <1>2, <1>3, <1>5, <2>1, QueuesTyped, PutOffByStall
    <3> QED BY <1>1, <3>1, <3>2 DEF Ready, Next1, E1, E2
  <2>6. AfterD1' = AfterD1 /\ AfterE1' = AfterE1
    BY <1>1, <2>2, <2>4 DEF AfterD1, AfterE1
  <2>7. Copied'
    BY <1>1, <1>3, <1>5, <2>2, <2>3, <2>4, <2>5
       DEF Path, Copied, Decodes1, AfterExecute
  <2>8. Chained'
    BY <1>1, <1>3, <1>5, <2>2, <2>3, <2>4, <2>5, <2>6
       DEF Path, Chained, BeforeFetch, AtRest
  <2>9. ~Executed /\ Ready(execute_input_queue)
    BY <1>1, <1>3, <1>5 DEF Executed, Ready
  <2>10. Resume' = Resume
    BY <1>1, <1>3, <1>4, <1>5, <2>3, <2>5, <2>9 DEF Resume
  <2> QED BY <2>7, <2>8, <2>10 DEF Path
<1>6. CASE ~frontend_stall
  <2>1. /\ decode_input_queue' = PopReady(decode_input_queue)
        /\ execute_input_queue' = PopReady(execute_input_queue)
        /\ registers' = [registers EXCEPT ![PC] = potential_next_pc]
    BY <1>6 DEF EndCycle
  <2>2. registers'[PC] = potential_next_pc
    BY <2>1, WordType DEF Types, TypeOK
  <2>3. ASSUME NEW D, NEW q \in Queue(D), Orderly(q, cycle)
        PROVE  /\ ~Coming(PopReady(q), NextCycle(cycle))
               /\ FrontCanRun(PopReady(q), NextCycle(cycle))
                    <=> Coming(q, cycle)
               /\ Coming(q, cycle) => Head(PopReady(q)).data = Last(q).data
    <3>1. /\ FrontCanRun(q, cycle) => PopReady(q) = Tail(q)
          /\ ~FrontCanRun(q, cycle) => PopReady(q) = q
      BY DEF PopReady
    <3> HIDE DEF PopReady
    <3> QED BY <1>2, <2>3, <3>1, Popped
  <2>4. /\ ~Next1(decode_input_queue)'
        /\ Ready(decode_input_queue)' <=> Next1(decode_input_queue)
        /\ Next1(decode_input_queue) => D1' = D2
    BY <1>1, <1>3, <2>1, <2>3, QueuesTyped DEF Ready, Next1, D1, D2
  <2>5. /\ ~Next1(execute_input_queue)'
        /\ Ready(execute_input_queue)' <=> Next1(execute_input_queue)
        /\ Next1(execute_input_queue) => E1' = E2
    BY <1>1, <1>3, <2>1, <2>3, QueuesTyped DEF Ready, Next1, E1, E2
  <2>6. AfterD1' = potential_next_pc /\ AfterE1' = AfterD1
    BY <1>1, <2>4 DEF AfterD1, AfterE1
  <2>7. Copied'
    BY <1>1, <1>6, <2>5 DEF Copied, Decodes1, AfterExecute
  <2>8. Chained'
    BY <1>1, <1>3, <1>6, <2>2, <2>4, <2>5, <2>6
       DEF Path, Copied, Chained, BeforeFetch, AtRest, Next1
  <2>9. Resume' = Resume
    <3>1. CASE flush_valid
      BY <1>1, <1>3, <1>4, <2>4, <2>5, <2>6, <3>1
         DEF Resume, Path, Chained, AfterD1, Next1
    <3>2. CASE ~flush_valid /\ flush_queue # << >>
      BY <1>1, <3>2 DEF Resume
    <3>3. CASE ~flush_valid /\ flush_queue = << >>
      <4>1. Ready(execute_input_queue) => Executed
        BY <1>1, <1>6, <3>3 DEF Executed, Ready
      <4>2. Resume = AfterE1
        BY <3>3, <4>1 DEF Resume
      <4>3. CASE Next1(execute_input_queue)
        BY <1>1, <1>4, <2>5, <3>3, <4>2, <4>3
           DEF Resume, AfterE1, Path, Copied
      <4>4. CASE ~Next1(execute_input_queue)
        <5>1. ~Ready(decode_input_queue)
          BY <1>1, <3>3, <4>4 DEF Path, Copied, Decodes1, AfterExecute
        <5> QED
          BY <1>1, <1>4, <2>5, <2>6, <3>3, <4>2, <4>4, <5>1
             DEF Resume, AfterE1
      <4> QED BY <4>3, <4>4
    <3> QED BY <3>1, <3>2, <3>3
  <2> QED BY <2>7, <2>8, <2>9 DEF Path
<1> QED BY <1>5, <1>6

LEMMA PathQuiet ==
  ASSUME Types, Aligned, Path, OthersRun \/ UNCHANGED vars
  PROVE  Path' /\ Resume' = Resume
<1>1. /\ Today' = Today
      /\ UNCHANGED <<decode_input_queue, execute_input_queue, flush_queue,
                     flush_valid, flush_addr, frontend_stall, registers,
                     potential_next_pc>>
  BY DEF OthersRun, Today, vars, cycleVars, fetchVars, executeVars, commitVars
<1>2. phase' = phase \/ (phase \in AtRest /\ phase' \in AtRest)
  BY DEF OthersRun, vars, AtRest
<1>3. Executed' <=> Executed
  BY <1>1 DEF OthersRun, Executed, vars, cycleVars
<1>4. /\ UNCHANGED <<D1, D2, E1, E2, AfterD1, AfterE1>>
      /\ Ready(decode_input_queue)' <=> Ready(decode_input_queue)
      /\ Next1(decode_input_queue)' <=> Next1(decode_input_queue)
      /\ Ready(execute_input_queue)' <=> Ready(execute_input_queue)
      /\ Next1(execute_input_queue)' <=> Next1(execute_input_queue)
  BY <1>1 DEF D1, D2, E1, E2, AfterD1, AfterE1, Ready, Next1
<1>5. Copied'
  BY <1>1, <1>2, <1>4
     DEF Path, Copied, Decodes1, BeforeFetch, AtRest, AfterExecute
<1>6. Chained'
  <2>1. flush_valid => phase \notin AtRest
    BY DEF Aligned, Flushes
  <2> QED
    BY <1>1, <1>2, <1>4, <2>1 DEF Path, Chained, BeforeFetch, AtRest
<1> QED BY <1>1, <1>3, <1>4, <1>5, <1>6 DEF Resume, Path

LEMMA PathNext ==
  ASSUME Types, Coded, Aligned, Path, [Next]_vars
  PROVE  Path'
BY PathFlush, PathFetch, PathDecode, PathExecute, PathCommit, PathEnd,
   PathQuiet DEF Next

(* What is left of a queue of which the front may have been taken.         *)
LEMMA Rest ==
  ASSUME NEW D, NEW q \in Queue(D), NEW t \in Cycles, Orderly(q, t),
         NEW r,
         \/ r = q
         \/ r = Tail(q) /\ FrontCanRun(q, t)
  PROVE  /\ r = q /\ FrontCanRun(q, t) => r # << >> /\ Head(r) = Head(q)
         /\ (r = q => ~FrontCanRun(q, t)) =>
              /\ Coming(q, t)  => r # << >> /\ Head(r) = Last(q)
              /\ ~Coming(q, t) => r = << >>
<1>1. CASE r = q
  BY <1>1, Slots DEF FrontCanRun, Last
<1>2. CASE r # q
  <2>1. r = Tail(q) /\ FrontCanRun(q, t) /\ q # << >>
    BY <1>2 DEF FrontCanRun
  <2>2. /\ r \in Queue(D) /\ Len(r) = Len(q) - 1
        /\ \A i \in 1 .. Len(r) : r[i] = q[i + 1]
    BY <2>1, HeadTailProperties DEF Queue
  <2>3. CASE Coming(q, t)
    <3>1. Len(q) = 2
      BY <2>1, <2>3, Slots
    <3>2. Len(r) = 1 /\ r[1] = q[2]
      BY <2>2, <3>1
    <3>3. r # << >> /\ Head(r) = r[1]
      <4>1. Len(r) # 0
        BY <3>2
      <4> QED BY <2>2, <4>1, NotEmpty
    <3> QED BY <1>2, <2>3, <3>1, <3>2, <3>3 DEF Last
  <2>4. CASE ~Coming(q, t)
    <3>1. Len(q) = 1
      BY <2>1, <2>4, Slots
    <3>2. Len(r) = 0
      BY <2>2, <3>1
    <3> QED BY <1>2, <2>2, <2>4, <3>2, EmptySeq DEF Queue
  <2> QED BY <2>3, <2>4
<1> QED BY <1>1, <1>2

LEMMA ResumeMeans ==
  ASSUME Types, Aligned, Path
  PROVE  NextToExecute = Resume
<1>1. CASE flush_valid \/ flush_queue # << >>
  BY <1>1 DEF NextToExecute, Resume
<1>2. CASE ~flush_valid /\ flush_queue = << >>
  <2>1. /\ Orderly(decode_input_queue, Today)
        /\ Orderly(execute_input_queue, Today)
        /\ Today \in Cycles
    BY QueuesTyped, NextCycleType DEF Aligned, InStep, Today
  <2>2. Executed => /\ ToExecute = Tail(execute_input_queue)
                    /\ FrontCanRun(execute_input_queue, Today)
    BY DEF Executed, ToExecute, Today
  <2>3. ~Executed => ToExecute = execute_input_queue
    BY DEF ToExecute
  <2>4. Decoded => /\ ToDecode = Tail(decode_input_queue)
                   /\ FrontCanRun(decode_input_queue, Today)
    BY DEF Decoded, ToDecode, Today
  <2>5. ~Decoded => ToDecode = decode_input_queue
    BY DEF ToDecode
  <2>6. FrontCanRun(execute_input_queue, Today) =>
          execute_input_queue # Tail(execute_input_queue)
    <3> SUFFICES ASSUME FrontCanRun(execute_input_queue, Today)
                 PROVE  execute_input_queue # Tail(execute_input_queue)
      OBVIOUS
    <3>1. execute_input_queue # << >> /\ Len(execute_input_queue) \in Nat
      BY LenProperties, QueuesTyped DEF FrontCanRun, Queue
    <3>2. Len(Tail(execute_input_queue)) = Len(execute_input_queue) - 1
      BY <3>1, HeadTailProperties, QueuesTyped DEF Queue
    <3>3. \A n \in Nat : n # n - 1
      OBVIOUS
    <3> QED BY <3>1, <3>2, <3>3
  <2>7. CASE Ready(execute_input_queue) /\ ~Executed
    <3>1. /\ ToExecute # << >>
          /\ Head(ToExecute).data.pc = E1.pc
      BY <2>1, <2>3, <2>7 DEF Ready, FrontCanRun, E1
    <3> QED BY <1>2, <2>7, <3>1 DEF NextToExecute, Resume
  <2>8. CASE ~(Ready(execute_input_queue) /\ ~Executed)
    <3>1. /\ Next1(execute_input_queue) =>
               ToExecute # << >> /\ Head(ToExecute) = Last(execute_input_queue)
          /\ ~Next1(execute_input_queue) => ToExecute = << >>
      BY <2>1, <2>2, <2>3, <2>6, <2>8, Rest, QueuesTyped DEF Ready, Next1
    <3>2. Resume = AfterE1
      BY <1>2, <2>8 DEF Resume
    <3>3. CASE Next1(execute_input_queue)
      <4>1. NextToExecute = E2.pc
        BY <1>2, <3>1, <3>3 DEF NextToExecute, E2
      <4> QED BY <3>2, <3>3, <4>1 DEF Path, Copied, AfterE1
    <3>4. CASE ~Next1(execute_input_queue)
      <4>1. ~Decoded
        <5> SUFFICES ASSUME Decoded PROVE FALSE
          OBVIOUS
        <5>1. phase \in AfterExecute \cup {"execute"}
          BY DEF Decoded, AfterExecute
        <5> QED
          BY <1>2, <2>4, <3>4, <5>1 DEF Path, Copied, Decodes1, Ready
      <4>2. ToDecode = decode_input_queue /\ ToExecute = << >>
        BY <2>5, <3>1, <3>4, <4>1
      <4>3. CASE Ready(decode_input_queue)
        <5>1. /\ decode_input_queue # << >>
              /\ Head(decode_input_queue).data.pc = D1.pc
          BY <4>3 DEF Ready, FrontCanRun, D1
        <5>2. NextToExecute = D1.pc
          BY <1>2, <4>2, <5>1 DEF NextToExecute
        <5> QED BY <3>2, <4>3, <5>2 DEF AfterE1
      <4>4. CASE ~Ready(decode_input_queue) /\ Next1(decode_input_queue)
        <5>1. /\ decode_input_queue # << >>
              /\ Head(decode_input_queue) = Last(decode_input_queue)
          BY <2>1, <4>4, Slots, QueuesTyped DEF Ready, Next1, Last
        <5>2. NextToExecute = D2.pc
          BY <1>2, <4>2, <5>1 DEF NextToExecute, D2
        <5> QED BY <3>2, <4>4, <5>2 DEF AfterE1, AfterD1
      <4>5. CASE ~Ready(decode_input_queue) /\ ~Next1(decode_input_queue)
        <5>1. decode_input_queue = << >>
          BY <2>1, <4>5, Slots, QueuesTyped DEF Ready, Next1
        <5>2. frontend_stall => ~Executed /\ Ready(execute_input_queue)
          BY DEF Executed, Aligned, Stalls
        <5>3. ~frontend_stall
          BY <2>8, <5>2
        <5>4. phase \in {"others", "flush", "fetch"} =>
                registers[PC] = potential_next_pc
          BY <5>3 DEF Path, Chained, BeforeFetch, AtRest
        <5>5. NextToExecute = potential_next_pc
          BY <1>2, <4>2, <5>1, <5>4 DEF NextToExecute
        <5> QED BY <3>2, <4>5, <5>5 DEF AfterE1, AfterD1
      <4> QED BY <4>3, <4>4, <4>5
    <3> QED BY <3>3, <3>4
  <2> QED BY <2>7, <2>8
<1> QED BY <1>1, <1>2
-----------------------------------------------------------------------------
(* The program has ended when its HLT has been executed.                   *)
LEMMA EndSlots ==
  ASSUME NEW D, NEW q \in Queue(D), Orderly(q, Today), Today \in Cycles
  PROVE  (\E k \in DOMAIN q : q[k].data.opcode = "HLT") <=>
           \/ Ready(q) /\ Head(q).data.opcode = "HLT"
           \/ Next1(q) /\ Last(q).data.opcode = "HLT"
<1>1. DOMAIN q = 1 .. Len(q) /\ Len(q) \in Nat
  BY LenProperties DEF Queue
<1>2. CASE Len(q) = 0
  <2>1. DOMAIN q = {} /\ ~Ready(q) /\ ~Next1(q)
    BY <1>1, <1>2, Slots DEF Ready, Next1
  <2> QED BY <2>1
<1>3. CASE Len(q) = 1
  <2>1. DOMAIN q = {1} /\ Head(q) = q[1] /\ Last(q) = q[1]
    BY <1>1, <1>3, Slots DEF Last
  <2>2. Ready(q) \/ Next1(q)
    BY <1>3, Slots DEF Ready, Next1
  <2> QED BY <2>1, <2>2
<1>4. CASE Len(q) = 2
  <2>1. DOMAIN q = {1, 2} /\ Head(q) = q[1] /\ Last(q) = q[2]
    BY <1>1, <1>4, Slots DEF Last
  <2>2. Ready(q) /\ Next1(q)
    BY <1>4, Slots DEF Ready, Next1
  <2> QED BY <2>1, <2>2
<1> QED BY <1>1, <1>2, <1>3, <1>4 DEF Orderly

LEMMA HaltedMeans ==
  ASSUME Types, Aligned
  PROVE  Halted <=> HltOut
<1>1. /\ Orderly(memory_input_queue, Today)
      /\ Orderly(writeback_input_queue, Today)
      /\ Today \in Cycles
  BY QueuesTyped, NextCycleType DEF Aligned, InStep, Today
<1>2. (\E k \in DOMAIN memory_input_queue :
         memory_input_queue[k].data.opcode = "HLT") <=> HltM1 \/ HltM2
  BY <1>1, EndSlots, QueuesTyped DEF HltM1, HltM2
<1>3. (\E k \in DOMAIN writeback_input_queue :
         writeback_input_queue[k].data.opcode = "HLT") <=> HltW1 \/ HltW2
  BY <1>1, EndSlots, QueuesTyped DEF HltW1, HltW2
<1> QED BY <1>2, <1>3 DEF Halted, HltOut

(* The steps that neither execute an instruction nor pass one on.          *)
Waits == TakeFlush \/ NoFlush \/ StageFetch \/ DecodeIdle \/ Decode
         \/ ExecuteIdle \/ ExecuteRefused \/ MemoryIdle \/ WritebackIdle
         \/ OthersRun \/ UNCHANGED vars

LEMMA OutQuiet ==
  ASSUME Waits
  PROVE  /\ UNCHANGED <<HltM1, HltM2, HltW1, HltW2, has_halted>>
         /\ HltOut' <=> HltOut
<1>1. UNCHANGED <<Today, memory_input_queue, writeback_input_queue,
                  has_halted>>
  BY DEF Waits, TakeFlush, NoFlush, StageFetch, FetchWaits, FetchStalls, Fetch,
         DecodeIdle, Decode, Decodes, ExecuteIdle, ExecuteRefused, Executes,
         MemoryIdle, WritebackIdle, OthersRun, Turn, Today, vars, cycleVars,
         fetchVars, executeVars, commitVars
<1>2. UNCHANGED <<HltM1, HltM2, HltW1, HltW2>>
  BY <1>1 DEF HltM1, HltM2, HltW1, HltW2, Ready, Next1
<1> QED BY <1>1, <1>2 DEF HltOut

LEMMA OutExecute ==
  ASSUME Types, Aligned, Handled
  PROVE  HltOut' <=> HltOut \/ input.opcode = "HLT"
<1>1. PICK m \in Result :
        /\ memory_input_queue' =
             Append(memory_input_queue, Deferred(cycle, m))
        /\ m.opcode = input.opcode
  BY ExecutePushes
<1>2. /\ UNCHANGED <<writeback_input_queue, has_halted>>
      /\ phase = "execute" /\ Today = cycle /\ Today' = cycle
  BY DEF Handled, ExecuteNothing, ExecuteWrite, ExecuteCompare, ExecuteBranch,
         ExecuteAccepted, Executes, Turn, Today, cycleVars, commitVars
<1>3. /\ Orderly(memory_input_queue, cycle)
      /\ ~Coming(memory_input_queue, cycle)
      /\ memory_input_queue \in Queue(Result) /\ cycle \in Cycles
  BY <1>2, QueuesTyped DEF Aligned, InStep, Next1, BeforeExecute
<1>4. Last(memory_input_queue').data = m
  <2>1. Last(memory_input_queue') = Deferred(cycle, m)
    BY <1>1, <1>3, LastPushed
  <2> QED BY <2>1 DEF Deferred
<1>5. FrontCanRun(memory_input_queue', cycle)
        <=> FrontCanRun(memory_input_queue, cycle)
  BY <1>1, <1>3, Pushed
<1>6. FrontCanRun(memory_input_queue, cycle) =>
        Head(memory_input_queue') = Head(memory_input_queue)
  BY <1>1, <1>3, Pushed
<1>7. Coming(memory_input_queue', cycle)
  BY <1>1, <1>3, Pushed
<1>8. /\ HltM1' <=> HltM1
      /\ HltM2' <=> input.opcode = "HLT"
      /\ ~HltM2
  BY <1>1, <1>2, <1>3, <1>4, <1>5, <1>6, <1>7 DEF HltM1, HltM2, Ready, Next1
<1>9. UNCHANGED <<HltW1, HltW2, has_halted>>
  BY <1>2 DEF HltW1, HltW2, Ready, Next1
<1> QED BY <1>8, <1>9 DEF HltOut

LEMMA OutMemory ==
  ASSUME Types, Aligned, Memory
  PROVE  HltOut' <=> HltOut
<1> DEFINE m == Head(memory_input_queue).data
<1>1. /\ UNCHANGED <<memory_input_queue, has_halted>>
      /\ phase = "memory" /\ Today = cycle /\ Today' = cycle
      /\ FrontCanRun(memory_input_queue, cycle)
      /\ writeback_input_queue' =
           Append(writeback_input_queue, Deferred(cycle, m))
  BY DEF Memory, Turn, Today, cycleVars, executeVars, commitVars
<1>2. m \in Result
  BY <1>1, QueuesTyped, QueueTypes DEF FrontCanRun
<1>3. m.opcode = "HLT" <=> HltM1
  BY <1>1 DEF HltM1, Ready
<1> HIDE DEF m
<1>4. /\ Orderly(writeback_input_queue, cycle)
      /\ ~Coming(writeback_input_queue, cycle)
      /\ writeback_input_queue \in Queue(Result) /\ cycle \in Cycles
  BY <1>1, QueuesTyped DEF Aligned, InStep, Next1, BeforeMemory
<1>5. Last(writeback_input_queue').data = m
  <2>1. Last(writeback_input_queue') = Deferred(cycle, m)
    BY <1>1, <1>2, <1>4, LastPushed
  <2> QED BY <2>1 DEF Deferred
<1>6. FrontCanRun(writeback_input_queue', cycle)
        <=> FrontCanRun(writeback_input_queue, cycle)
  BY <1>1, <1>2, <1>4, Pushed
<1>7. FrontCanRun(writeback_input_queue, cycle) =>
        Head(writeback_input_queue') = Head(writeback_input_queue)
  BY <1>1, <1>2, <1>4, Pushed
<1>8. Coming(writeback_input_queue', cycle)
  BY <1>1, <1>2, <1>4, Pushed
<1>9. /\ HltW1' <=> HltW1
      /\ HltW2' <=> HltM1
      /\ ~HltW2
  BY <1>1, <1>3, <1>4, <1>5, <1>6, <1>7, <1>8 DEF HltW1, HltW2, Ready, Next1
<1>10. UNCHANGED <<HltM1, HltM2, has_halted>>
  BY <1>1 DEF HltM1, HltM2, Ready, Next1
<1> QED BY <1>9, <1>10 DEF HltOut

LEMMA OutWriteback ==
  ASSUME Types, Writeback
  PROVE  /\ HltW1' <=> HltW1
         /\ HltW1 => has_halted'
         /\ HltOut' <=> HltOut
<1>1. /\ UNCHANGED <<Today, memory_input_queue, writeback_input_queue>>
      /\ has_halted' = (has_halted \/ HltW1)
  BY DEF Writeback, Turn, Today, cycleVars, executeVars, HltW1, Ready
<1>2. UNCHANGED <<HltM1, HltM2, HltW1, HltW2>>
  BY <1>1 DEF HltM1, HltM2, HltW1, HltW2, Ready, Next1
<1> QED BY <1>1, <1>2 DEF HltOut

LEMMA OutEnd ==
  ASSUME Types, Aligned, Feedback, Told, EndCycle
  PROVE  HltOut' <=> HltOut
<1>1. /\ UNCHANGED has_halted
      /\ phase = "end" /\ Today = cycle /\ Today' = NextCycle(cycle)
      /\ memory_input_queue' = PopReady(memory_input_queue)
      /\ writeback_input_queue' = PopReady(writeback_input_queue)
  BY DEF EndCycle, Turn, Today
<1>2. /\ Orderly(memory_input_queue, cycle)
      /\ Orderly(writeback_input_queue, cycle)
      /\ cycle \in Cycles
  BY <1>1, QueuesTyped DEF Aligned, InStep
<1>3. ASSUME NEW D, NEW q \in Queue(D), Orderly(q, cycle)
      PROVE  /\ ~Coming(PopReady(q), NextCycle(cycle))
             /\ FrontCanRun(PopReady(q), NextCycle(cycle))
                  <=> Coming(q, cycle)
             /\ Coming(q, cycle) => Head(PopReady(q)).data = Last(q).data
  <2>1. /\ FrontCanRun(q, cycle) => PopReady(q) = Tail(q)
        /\ ~FrontCanRun(q, cycle) => PopReady(q) = q
    BY DEF PopReady
  <2> HIDE DEF PopReady
  <2> QED BY <1>2, <1>3, <2>1, Popped
<1>4. /\ HltM1' <=> HltM2
      /\ ~HltM2'
  BY <1>1, <1>2, <1>3, QueuesTyped DEF HltM1, HltM2, Ready, Next1
<1>5. /\ HltW1' <=> HltW2
      /\ ~HltW2'
  BY <1>1, <1>2, <1>3, QueuesTyped DEF HltW1, HltW2, Ready, Next1
<1>6. HltM1 => HltW2
  BY <1>1 DEF Feedback, HandedOn, HltM1, HltW2
<1>7. HltW1 => has_halted
  BY <1>1 DEF Told
<1> QED BY <1>1, <1>4, <1>5, <1>6, <1>7 DEF HltOut

LEMMA OutNext ==
  ASSUME Types, Coded, Aligned, Feedback, Told, [Next]_vars
  PROVE  /\ Told'
         /\ Handled => (HltOut' <=> HltOut \/ input.opcode = "HLT")
         /\ ~Handled => (HltOut' <=> HltOut)
<1>1. Waits \/ Handled \/ Memory \/ Writeback \/ EndCycle
  <2>1. ~DecodeSegmentEnd
    BY NoSegmentEnd
  <2> QED
    BY <2>1
       DEF Next, Waits, Handled, StageDecode, StageExecute, ExecuteAlone,
           StageMemory, StageWriteback
<1>2. phase' = "end" /\ HltW1' => has_halted'
  <2>1. CASE Writeback
    BY <2>1, OutWriteback
  <2>2. CASE WritebackIdle
    <3>1. ~HltW1
      BY <2>2 DEF WritebackIdle, HltW1, Ready, Turn, Today
    <3> QED BY <2>2, <3>1, OutQuiet DEF Waits
  <2>3. CASE UNCHANGED vars
    <3>1. phase' = phase
      BY <2>3 DEF vars
    <3> QED BY <2>3, <3>1, OutQuiet DEF Waits, Told
  <2>4. CASE Next /\ ~StageWriteback
    BY <2>4
       DEF Next, TakeFlush, NoFlush, StageFetch, FetchWaits, FetchStalls,
           Fetch, StageDecode, DecodeIdle, DecodeSegmentEnd, Decode, Decodes,
           StageExecute, ExecuteAlone, ExecuteIdle, ExecuteNothing,
           ExecuteWrite, ExecuteCompare, ExecuteBranch, ExecuteAccepted,
           ExecuteRefused, Executes, StageMemory, MemoryIdle, Memory,
           EndCycle, OthersRun, Turn
  <2> QED BY <2>1, <2>2, <2>3, <2>4 DEF StageWriteback
<1>3. phase' \notin AfterExecute \cup {"others"} => submitted' = NoCommand
  BY DEF Told, Next, TakeFlush, NoFlush, StageFetch, FetchWaits, FetchStalls,
         Fetch, StageDecode, DecodeIdle, DecodeSegmentEnd, Decode, Decodes,
         StageExecute, ExecuteAlone, ExecuteIdle, ExecuteNothing,
         ExecuteWrite, ExecuteCompare, ExecuteBranch, ExecuteAccepted,
         ExecuteRefused, Executes, StageMemory, MemoryIdle, Memory,
         StageWriteback, WritebackIdle, Writeback, EndCycle, OthersRun, Turn,
         vars, executeVars, AfterExecute
<1>4. ~Handled => (HltOut' <=> HltOut)
  BY <1>1, OutQuiet, OutMemory, OutWriteback, OutEnd
<1> QED BY <1>2, <1>3, <1>4, OutExecute DEF Told
-----------------------------------------------------------------------------
(* The steps of the core as steps of the ISA.                              *)
LEMMA MeansPrimed ==
  /\ (Types /\ Aligned /\ Path => NextToExecute = Resume)'
  /\ (Types /\ Aligned => (Halted <=> HltOut))'
<1>1. Types /\ Aligned /\ Path => NextToExecute = Resume
  BY ResumeMeans
<1>2. Types /\ Aligned => (Halted <=> HltOut)
  BY HaltedMeans
<1> QED BY <1>1, <1>2, PTL

(* An instruction that is executed is one the program comes to.            *)
LEMMA InputOnPath ==
  ASSUME Types, Aligned, Feedback, HltLast, Path, Faithful, Told, OnPath,
         Handled
  PROVE  /\ ~Halted /\ NextToExecute = input.pc
         /\ input.pc \in DOMAIN program
         /\ input \in Meant /\ input.opcode = program[input.pc].op
         /\ Fetched(input.pc) = program[input.pc]
         /\ submitted = NoCommand
<1>1. /\ phase = "execute" /\ ~flush_valid /\ Today = cycle
      /\ FrontCanRun(execute_input_queue, cycle)
  BY DEF Handled, ExecuteNothing, ExecuteWrite, ExecuteCompare, ExecuteBranch,
         ExecuteAccepted, Executes, Turn, Today
<1>2. ~HltOut
  <2>1. ~HltM2
    BY <1>1 DEF HltM2, Aligned, InStep, BeforeExecute
  <2>2. Ready(execute_input_queue)
    BY <1>1 DEF Ready
  <2> QED BY <2>1, <2>2 DEF HltOut, HltLast
<1>3. ~Halted
  BY <1>2, HaltedMeans
<1>4. NextToExecute = input.pc
  <2>1. StageExecute
    BY DEF Handled, StageExecute, ExecuteAlone
  <2> QED BY <2>1, PathExecute, ResumeMeans
<1>5. input.pc \in DOMAIN program
  BY <1>3, <1>4 DEF OnPath
<1>6. Fetched(input.pc) = program[input.pc]
  BY <1>5 DEF Fetched
<1>7. submitted = NoCommand
  BY <1>1 DEF Told, AfterExecute
<1> QED BY <1>1, <1>3, <1>4, <1>5, <1>6, <1>7, InputMeant

(* After it comes the next, or the target of a branch that is taken.       *)
LEMMA GoesOn ==
  ASSUME Closed, Types, Coded, Aligned, Feedback, HltLast, Path, Faithful,
         Told, OnPath, FallsThrough, Handled
  PROVE  /\ input.opcode \notin Branches \cup {"HLT"} =>
              NextToExecute' = input.pc + 1
         /\ input.opcode \in Branches =>
              NextToExecute' =
                IF input.opcode = "JMP_L" \/ flag THEN program[input.pc].imm
                                                  ELSE input.pc + 1
         /\ Halted' <=> input.opcode = "HLT"
         /\ OnPath'
<1>1. StageExecute /\ [Next]_vars
  BY DEF Handled, StageExecute, ExecuteAlone, Next
<1>2. Types' /\ Aligned' /\ Path'
  BY <1>1, TypesNext, AlignedNext, PathExecute
<1>3. NextToExecute' = Resume' /\ (Halted' <=> HltOut')
  BY <1>2, MeansPrimed
<1>4. /\ ~Halted /\ input.pc \in DOMAIN program
      /\ input \in Meant /\ input.opcode = program[input.pc].op
      /\ Fetched(input.pc) = program[input.pc]
      /\ program \in Programs /\ program' = program
  BY <1>1, InputOnPath, ProgramKept DEF Types
<1>5. Halted' <=> input.opcode = "HLT"
  BY <1>1, <1>3, <1>4, HaltedMeans, OutNext
<1>6. /\ flush_queue = << >> /\ cycle \in Cycles
      /\ phase = "execute" /\ ~flush_valid
      /\ FrontCanRun(execute_input_queue, cycle)
  <2>1. /\ phase = "execute" /\ ~flush_valid
        /\ FrontCanRun(execute_input_queue, cycle)
    BY DEF Handled, ExecuteNothing, ExecuteWrite, ExecuteCompare,
           ExecuteBranch, ExecuteAccepted, Executes, Turn
  <2> QED
    BY <2>1, QueuesTyped
       DEF Aligned, Flushes, BeforeExecute, BeforeDecode, BeforeFetch, AtRest
<1>7. ASSUME input.opcode \notin Branches \cup {"HLT"}
      PROVE  NextToExecute' = input.pc + 1
  <2>1. flush_queue' = << >>
    BY <1>6, <1>7
       DEF Handled, ExecuteNothing, ExecuteWrite, ExecuteCompare,
           ExecuteBranch, ExecuteAccepted, Executes
  <2>2. Resume' = input.next_pc
    BY <1>1, <2>1, PathExecute
  <2>3. input.next_pc = input.pc + 1
    BY <1>4, <1>7 DEF Meant, Straight
  <2> QED BY <1>3, <2>2, <2>3
<1>8. ASSUME input.opcode \in Branches
      PROVE  NextToExecute' =
               IF input.opcode = "JMP_L" \/ flag THEN program[input.pc].imm
                                                 ELSE input.pc + 1
  <2>1. ExecuteBranch
    BY <1>8
       DEF Handled, ExecuteNothing, ExecuteWrite, ExecuteCompare,
           ExecuteAccepted, Executes, Branches, Moves, Immediate24, ShiftByR,
           Compares, PipeOps, PipeNoReg, PipeOneReg
  <2>2. Resume' = BranchTarget
    <3>1. CASE input.next_pc # BranchTarget
      <4>1. flush_queue' = Append(<< >>, Deferred(cycle, BranchTarget))
        BY <1>6, <2>1, <3>1 DEF ExecuteBranch
      <4>2. BranchTarget \in Nat
        BY <1>6, OperandTypes, WordType DEF BranchTarget
      <4>3. /\ Deferred(cycle, BranchTarget) \in [cycle : Cycles, data : Nat]
            /\ Deferred(cycle, BranchTarget).data = BranchTarget
        BY <1>6, <4>2, NextCycleType DEF Deferred
      <4>4. /\ flush_queue' # << >>
            /\ Head(flush_queue') = Deferred(cycle, BranchTarget)
        BY <4>1, <4>3
      <4> QED BY <1>1, <4>3, <4>4, PathExecute
    <3>2. CASE input.next_pc = BranchTarget
      <4>1. flush_queue' = << >>
        BY <1>6, <2>1, <3>2 DEF ExecuteBranch
      <4> QED BY <1>1, <3>2, <4>1, PathExecute
    <3> QED BY <3>1, <3>2
  <2>3. input.source0 = program[input.pc].imm /\ Value0 = input.source0
    <3>1. Value0 = input.source0
      BY <1>8 DEF Value0
    <3>2. input.source0 = Source0(program[input.pc])
      BY <1>4 DEF Meant
    <3> QED
      BY <1>4, <1>8, <3>1, <3>2
         DEF Source0, Branches, Immediate24, ShiftByR, PipeOneReg
  <2>4. ~(input.opcode = "JMP_L" \/ flag) => input.next_pc = input.pc + 1
    BY <1>6, <1>8 DEF FallsThrough, Branches
  <2> QED BY <1>3, <2>2, <2>3, <2>4 DEF BranchTarget
<1>9. OnPath'
  <2> SUFFICES ASSUME ~Halted' PROVE NextToExecute' \in DOMAIN program'
    BY DEF OnPath
  <2>1. /\ input.opcode \in Opcodes /\ input.opcode # "HLT"
        /\ program[input.pc].op = input.opcode
    BY <1>4, <1>5, <1>6, OperandTypes
  <2>2. input.opcode # "JMP_L" => input.pc + 1 \in DOMAIN program
    BY <1>4, <2>1 DEF Closed, Ongoing
  <2>3. input.opcode \in Branches => program[input.pc].imm \in DOMAIN program
    BY <1>4, <2>1 DEF Closed
  <2>4. input.opcode = "JMP_L" => input.opcode \in Branches
    BY DEF Branches
  <2> QED BY <1>4, <1>7, <1>8, <2>1, <2>2, <2>3, <2>4
<1> QED BY <1>5, <1>7, <1>8, <1>9

(* What the ISA sees of the registers.                                     *)
Seen == [r \in GPR |-> Effective(r)]

LEMMA SeenKept ==
  ASSUME Types, Feedback, Agreement, [Next]_vars, ~ExecuteWrite
  PROVE  Seen' = Seen
<1> SUFFICES ASSUME NEW r \in GPR PROVE Effective(r)' = Effective(r)
  BY DEF Seen
<1>1. CASE StageExecute
  <2>1. UNCHANGED <<registers, execute_feedback_reg_held,
                    execute_feedback_reg_value>>
    BY <1>1
       DEF StageExecute, ExecuteAlone, ExecuteIdle, ExecuteNothing,
           ExecuteCompare, ExecuteBranch, ExecuteAccepted, ExecuteRefused,
           executeVars, commitVars
  <2> QED BY <2>1 DEF Effective
<1>2. CASE ~StageExecute
  BY <1>2, EffectiveKept DEF Next
<1> QED BY <1>1, <1>2

LEMMA SeenWritten ==
  ASSUME Types, ExecuteWrite, input.dest \in GPR
  PROVE  \E value \in Results(input.opcode, Value0, Value1) :
           Seen' = [Seen EXCEPT ![input.dest] = value]
<1>1. PICK value \in Results(input.opcode, Value0, Value1) :
        /\ execute_feedback_reg_held' =
             [execute_feedback_reg_held EXCEPT ![input.dest] = TRUE]
        /\ execute_feedback_reg_value' =
             [execute_feedback_reg_value EXCEPT ![input.dest] = value]
  BY DEF ExecuteWrite, GPR
<1>2. /\ UNCHANGED registers
      /\ execute_feedback_reg_held \in [Registers -> BOOLEAN]
      /\ execute_feedback_reg_value \in [Registers -> Word]
      /\ GPR \subseteq Registers
  BY WordType DEF ExecuteWrite, Types, TypeOK
<1>3. ASSUME NEW r \in GPR
      PROVE  Effective(r)' = IF r = input.dest THEN value ELSE Effective(r)
  <2>1. CASE r = input.dest
    BY <1>1, <1>2, <2>1 DEF Effective
  <2>2. CASE r # input.dest
    BY <1>1, <1>2, <2>2 DEF Effective
  <2> QED BY <2>1, <2>2
<1>4. Seen' = [r \in GPR |-> IF r = input.dest THEN value ELSE Effective(r)]
  BY <1>3 DEF Seen
<1>5. [Seen EXCEPT ![input.dest] = value]
        = [r \in GPR |-> IF r = input.dest THEN value ELSE Effective(r)]
  BY DEF Seen
<1> QED BY <1>4, <1>5

(* The operands are those the program names.                               *)
LEMMA Operands ==
  ASSUME input \in Meant, NEW i, i = Fetched(input.pc), i.r0 \in GPR,
         i.r1 \in GPR
  PROVE  /\ i.op = "MOV_R_I16" => input.dest = i.r0 /\ Value0 = i.imm
         /\ i.op = "MOV_R_R" => input.dest = i.r0 /\ Value0 = Seen[i.r1]
         /\ i.op \in Immediate24 => input.dest = ACC /\ Value0 = i.imm
         /\ i.op \in Immediate24 \ Moves => Value1 = Seen[ACC]
         /\ i.op \in ShiftByR =>
              /\ input.dest = ACC
              /\ Value0 = Seen[i.r0] /\ Value1 = Seen[ACC]
         /\ i.op = "CMP_R" => Value0 = Seen[i.r0] /\ Value1 = 0
         /\ i.op = "CMP_R_R" => Value0 = Seen[i.r1] /\ Value1 = Seen[i.r0]
         /\ i.op \in PipeNoReg => Value0 = 0 /\ Value1 = 0
         /\ i.op \in PipeOneReg => Value0 = Seen[i.r0] /\ Value1 = 0
         /\ i.op = "P_BLI_PIX_R_R" =>
              Value0 = Seen[i.r0] /\ Value1 = Seen[i.r1]
<1>1. /\ input.opcode = i.op /\ input.dest = Dest(i)
      /\ input.source0 = Source0(i) /\ input.source1 = Source1(i)
  BY DEF Meant
<1>2. \A r \in GPR : Seen[r] = Effective(r)
  BY DEF Seen
<1>3. ACC \in GPR
  BY WordType
<1>4. ASSUME i.op = "MOV_R_I16"
      PROVE  input.dest = i.r0 /\ Value0 = i.imm
  BY <1>1, <1>4
     DEF Dest, Source0, Value0, Immediate24, ShiftByR, PipeOneReg, Branches
<1>5. ASSUME i.op = "MOV_R_R"
      PROVE  input.dest = i.r0 /\ Value0 = Seen[i.r1]
  BY <1>1, <1>2, <1>5
     DEF Dest, Source0, Value0, Immediate24, ShiftByR, PipeOneReg, Branches,
         PipeNoReg
<1>6. ASSUME i.op \in Immediate24
      PROVE  input.dest = ACC /\ Value0 = i.imm
  BY <1>1, <1>6
     DEF Dest, Source0, Value0, Immediate24, ShiftByR, PipeOneReg
<1>7. ASSUME i.op \in Immediate24 \ Moves PROVE Value1 = Seen[ACC]
  <2>1. Source1(i) = ACC
    BY <1>7 DEF Source1, Immediate24, Moves
  <2> QED BY <1>1, <1>2, <1>3, <1>7, <2>1 DEF Value1
<1>8. ASSUME i.op \in ShiftByR
      PROVE  /\ input.dest = ACC
             /\ Value0 = Seen[i.r0] /\ Value1 = Seen[ACC]
  <2>1. Dest(i) = ACC /\ Source0(i) = i.r0 /\ Source1(i) = ACC
    BY <1>8
       DEF Dest, Source0, Source1, Immediate24, ShiftByR, PipeOneReg, Branches
  <2> QED
    BY <1>1, <1>2, <1>3, <1>8, <2>1
       DEF Value0, Value1, ShiftByR, Immediate24, Branches, PipeNoReg
<1>9. ASSUME i.op = "CMP_R" PROVE Value0 = Seen[i.r0] /\ Value1 = 0
  BY <1>1, <1>2, <1>9
     DEF Source0, Source1, Value0, Value1, Immediate24, ShiftByR, PipeOneReg,
         Branches, PipeNoReg
<1>10. ASSUME i.op = "CMP_R_R"
       PROVE  Value0 = Seen[i.r1] /\ Value1 = Seen[i.r0]
  BY <1>1, <1>2, <1>10
     DEF Source0, Source1, Value0, Value1, Immediate24, ShiftByR, PipeOneReg,
         Branches, PipeNoReg
<1>11. ASSUME i.op \in PipeNoReg PROVE Value0 = 0 /\ Value1 = 0
  BY <1>1, <1>11
     DEF Source0, Source1, Value0, Value1, Immediate24, ShiftByR, PipeOneReg,
         Branches, PipeNoReg
<1>12. ASSUME i.op \in PipeOneReg PROVE Value0 = Seen[i.r0] /\ Value1 = 0
  BY <1>1, <1>2, <1>12
     DEF Source0, Source1, Value0, Value1, Immediate24, ShiftByR, PipeOneReg,
         Branches, PipeNoReg
<1>13. ASSUME i.op = "P_BLI_PIX_R_R"
       PROVE  Value0 = Seen[i.r0] /\ Value1 = Seen[i.r1]
  BY <1>1, <1>2, <1>13
     DEF Source0, Source1, Value0, Value1, Immediate24, ShiftByR, PipeOneReg,
         Branches, PipeNoReg
<1> QED
  BY <1>4, <1>5, <1>6, <1>7, <1>8, <1>9, <1>10, <1>11, <1>12, <1>13

LEMMA IsaWaits ==
  ASSUME Types, Coded, Aligned, Feedback, Agreement, Path, Told, OnPath,
         [Next]_vars, ~Handled
  PROVE  /\ OnPath'
         /\ [Architecture!Next]_(Architecture!vars)
<1>1. Types' /\ Aligned' /\ Path'
  BY TypesNext, AlignedNext, PathNext
<1>2. Resume' = Resume
  BY PathFlush, PathFetch, PathDecode, PathExecute, PathCommit, PathEnd,
     PathQuiet
     DEF Next, StageExecute, ExecuteAlone, Handled
<1>3. NextToExecute' = NextToExecute
  BY <1>1, <1>2, MeansPrimed, ResumeMeans
<1>4. Halted' <=> Halted
  BY <1>1, MeansPrimed, HaltedMeans, OutNext
<1>5. UNCHANGED <<program, flag>> /\ Seen' = Seen
  <2>1. UNCHANGED flag
    BY DEF Next, TakeFlush, NoFlush, StageFetch, FetchWaits, FetchStalls,
           Fetch, StageDecode, DecodeIdle, DecodeSegmentEnd, Decode,
           StageExecute, ExecuteAlone, ExecuteIdle, ExecuteRefused, Handled,
           StageMemory, MemoryIdle, Memory, StageWriteback, WritebackIdle,
           Writeback, EndCycle, OthersRun, vars, executeVars
  <2> QED BY <2>1, ProgramKept, SeenKept DEF Handled
<1>6. submitted' \in {submitted, NoCommand}
  BY DEF Next, TakeFlush, NoFlush, StageFetch, FetchWaits, FetchStalls, Fetch,
         StageDecode, DecodeIdle, DecodeSegmentEnd, Decode, StageExecute,
         ExecuteAlone, ExecuteIdle, ExecuteRefused, Handled, StageMemory,
         MemoryIdle, Memory, StageWriteback, WritebackIdle, Writeback,
         EndCycle, OthersRun, vars, executeVars
<1>7. OnPath'
  BY <1>3, <1>4, <1>5 DEF OnPath
<1>8. [Architecture!Next]_(Architecture!vars)
  BY <1>3, <1>4, <1>5, <1>6
     DEF Architecture!Next, Architecture!Given, Architecture!vars,
         Architecture!NoCommand, NoCommand, Seen
<1> QED BY <1>7, <1>8

(* The ISA's instructions are the core's.                                  *)
LEMMA SameInstructions ==
  /\ Architecture!Branches = Branches
  /\ Architecture!Immediate24 = Immediate24
  /\ Architecture!ShiftByR = ShiftByR
  /\ Architecture!PipeNoReg = PipeNoReg
  /\ Architecture!PipeOps = PipeOps
  /\ Architecture!ACC = ACC
  /\ \A op, v0, v1 : Architecture!Results(op, v0, v1) = Results(op, v0, v1)
<1>1. /\ Architecture!Moves = Moves /\ Architecture!Word = Word
      /\ \A v : Architecture!Signed(v) = Signed(v)
  BY DEF Architecture!Moves, Moves, Architecture!Word, Word,
         Architecture!Signed, Signed
<1>2. \A op, v0, v1 : Architecture!Results(op, v0, v1) = Results(op, v0, v1)
  BY <1>1, Zenon DEF Architecture!Results, Results
<1> QED
  BY <1>2
     DEF Architecture!Branches, Branches, Architecture!Immediate24,
         Immediate24, Architecture!ShiftByR, ShiftByR,
         Architecture!PipeNoReg, PipeNoReg, Architecture!PipeOneReg,
         PipeOneReg, Architecture!PipeOps, PipeOps, Architecture!ACC, ACC

(* What is executed is performed.                                          *)
LEMMA IsaExecutes ==
  ASSUME Closed, Types, Coded, Aligned, Feedback, Agreement, HltLast, Path,
         Faithful, Told, OnPath, FallsThrough, Handled
  PROVE  Architecture!Next
<1> DEFINE i == program[input.pc]
<1>1. /\ ~Halted /\ NextToExecute = input.pc
      /\ input.pc \in DOMAIN program
      /\ input \in Meant /\ input.opcode = i.op
      /\ Fetched(input.pc) = i
      /\ submitted = NoCommand
  BY InputOnPath
<1>2. /\ i.op \notin Branches \cup {"HLT"} => NextToExecute' = input.pc + 1
      /\ i.op \in Branches =>
           NextToExecute' = IF i.op = "JMP_L" \/ flag THEN i.imm
                                                     ELSE input.pc + 1
      /\ Halted' <=> i.op = "HLT"
  BY <1>1, GoesOn
<1>3. [Next]_vars /\ program' = program
  BY ProgramKept DEF Handled, Next, StageExecute, ExecuteAlone
<1>4. i.r0 \in GPR /\ i.r1 \in GPR
  <2>1. input.pc \in Nat
    BY <1>1 DEF Meant, Operation, ExecuteEntry
  <2> QED BY <1>1, <2>1, FetchedType DEF Instruction
<1>5. ASSUME NEW ops, i.op \in ops
      PROVE  Architecture!Performs(ops)
  BY <1>1, <1>5
     DEF Architecture!Performs, Architecture!i, Architecture!NoCommand,
         NoCommand
<1>6. ~ExecuteWrite => UNCHANGED [r \in GPR |-> Effective(r)]
  BY <1>3, SeenKept DEF Seen
<1>12. i.op # "HLT" => UNCHANGED Halted
  <2>1. Halted \in BOOLEAN /\ Halted' \in BOOLEAN
    BY DEF Halted
  <2> QED BY <1>1, <1>2, <2>1
<1>13. i.op \notin Branches \cup {"HLT"} => Architecture!Next1
  BY <1>1, <1>2 DEF Architecture!Next1
<1>14. Architecture!i = i
  BY <1>1 DEF Architecture!i
<1>7. CASE ExecuteNothing
  <2>1. /\ i.op \in {"NOP", "HLT"} /\ UNCHANGED <<flag, submitted>>
        /\ ~ExecuteWrite
    BY <1>1, <1>7
       DEF ExecuteNothing, ExecuteWrite, Executes, Moves, Immediate24,
           ShiftByR
  <2>2. CASE i.op = "NOP"
    <3>1. Architecture!Performs({"NOP"})
      BY <1>5, <2>2
    <3> QED
      BY <1>3, <1>6, <1>12, <1>13, <2>1, <2>2, <3>1
         DEF Architecture!Next, Architecture!Nothing, Branches
  <2>3. CASE i.op = "HLT"
    <3>1. Architecture!Performs({"HLT", "SEGMENT_END"})
      BY <1>5, <2>3
    <3> QED
      BY <1>1, <1>2, <1>3, <1>6, <2>1, <2>3, <3>1
         DEF Architecture!Next, Architecture!Halt, Architecture!Nowhere
  <2> QED BY <2>1, <2>2, <2>3
<1>8. CASE ExecuteWrite
  <2>1. /\ i.op \in Moves \cup Immediate24 \cup ShiftByR
        /\ UNCHANGED <<flag, submitted>>
    BY <1>1, <1>8 DEF ExecuteWrite, Executes
  <2>2. i.op \notin Branches \cup {"HLT"}
    BY <2>1 DEF Moves, Immediate24, ShiftByR, Branches
  <2>3. input.dest \in GPR
    BY <1>1, <1>4, <2>1, Operands, WordType DEF Moves, Immediate24
  <2>4. PICK value \in Results(i.op, Value0, Value1) :
          Seen' = [Seen EXCEPT ![input.dest] = value]
    BY <1>1, <1>8, <2>3, SeenWritten
  <2>5. \A v0, v1 : i.op \in Moves => Results(i.op, v0, v1) = {v0}
    BY DEF Results, Moves
  <2>6. \/ /\ Architecture!Performs({"MOV_R_I16"})
           /\ Architecture!Write(i.r0, {i.imm})
        \/ /\ Architecture!Performs({"MOV_R_R"})
           /\ Architecture!Write(i.r0, {Seen[i.r1]})
        \/ /\ Architecture!Performs(Immediate24)
           /\ Architecture!Write(ACC, Results(i.op, i.imm, Seen[ACC]))
        \/ /\ Architecture!Performs(ShiftByR)
           /\ Architecture!Write(ACC, Results(i.op, Seen[i.r0], Seen[ACC]))
    <3>1. CASE i.op = "MOV_R_I16"
      <4>1. Architecture!Performs({"MOV_R_I16"})
        BY <1>5, <3>1
      <4>2. input.dest = i.r0 /\ value = i.imm
        BY <1>1, <1>4, <2>4, <2>5, <3>1, Operands DEF Moves
      <4> QED BY <2>4, <4>1, <4>2 DEF Architecture!Write, Seen
    <3>2. CASE i.op = "MOV_R_R"
      <4>1. Architecture!Performs({"MOV_R_R"})
        BY <1>5, <3>2
      <4>2. input.dest = i.r0 /\ value = Seen[i.r1]
        BY <1>1, <1>4, <2>4, <2>5, <3>2, Operands DEF Moves
      <4> QED BY <2>4, <4>1, <4>2 DEF Architecture!Write, Seen
    <3>3. CASE i.op \in Immediate24
      <4>1. Architecture!Performs(Immediate24)
        BY <1>5, <3>3
      <4>2. input.dest = ACC /\ Value0 = i.imm
        BY <1>1, <1>4, <3>3, Operands
      <4>3. Results(i.op, Value0, Value1) = Results(i.op, i.imm, Seen[ACC])
        BY <1>1, <1>4, <2>5, <3>3, <4>2, Operands
      <4> QED BY <2>4, <4>1, <4>2, <4>3 DEF Architecture!Write, Seen
    <3>4. CASE i.op \in ShiftByR
      <4>1. Architecture!Performs(ShiftByR)
        BY <1>5, <3>4
      <4>2. /\ input.dest = ACC
            /\ Value0 = Seen[i.r0] /\ Value1 = Seen[ACC]
        BY <1>1, <1>4, <3>4, Operands
      <4> QED BY <2>4, <4>1, <4>2 DEF Architecture!Write, Seen
    <3> QED BY <2>1, <3>1, <3>2, <3>3, <3>4 DEF Moves, Immediate24
  <2> QED
    BY <1>3, <1>12, <1>13, <1>14, <2>1, <2>2, <2>6, SameInstructions
       DEF Architecture!Next, Architecture!MoveOrCompute, Seen
<1>9. CASE ExecuteCompare
  <2>1. /\ i.op \in Compares /\ UNCHANGED submitted /\ ~ExecuteWrite
        /\ flag' = (Value0 = Value1)
    BY <1>1, <1>9
       DEF ExecuteCompare, ExecuteWrite, Executes, Compares, Moves,
           Immediate24, ShiftByR
  <2>2. i.op \notin Branches \cup {"HLT"}
    BY <2>1 DEF Compares, Branches
  <2>3. CASE i.op = "CMP_R"
    <3>1. Architecture!Performs({"CMP_R"}) /\ flag' = (Seen[i.r0] = 0)
      BY <1>1, <1>4, <1>5, <2>1, <2>3, Operands
    <3> QED
      BY <1>3, <1>6, <1>12, <1>13, <1>14, <2>1, <2>2, <3>1
         DEF Architecture!Next, Architecture!Compare, Seen
  <2>4. CASE i.op = "CMP_R_R"
    <3>1. /\ Architecture!Performs({"CMP_R_R"})
          /\ flag' = (Seen[i.r0] = Seen[i.r1])
      BY <1>1, <1>4, <1>5, <2>1, <2>4, Operands
    <3> QED
      BY <1>3, <1>6, <1>12, <1>13, <1>14, <2>1, <2>2, <3>1
         DEF Architecture!Next, Architecture!Compare, Seen
  <2> QED BY <2>1, <2>3, <2>4 DEF Compares
<1>10. CASE ExecuteBranch
  <2>1. /\ i.op \in Branches /\ UNCHANGED <<submitted, flag>>
        /\ ~ExecuteWrite
    BY <1>1, <1>10
       DEF ExecuteBranch, ExecuteWrite, Executes, Branches, Moves,
           Immediate24, ShiftByR
  <2>2. Architecture!Performs(Branches) /\ i.op # "HLT"
    BY <1>5, <2>1 DEF Branches
  <2> QED
    BY <1>1, <1>2, <1>3, <1>6, <1>12, <1>14, <2>1, <2>2, SameInstructions
       DEF Architecture!Next, Architecture!Branch, Architecture!Next1
<1>11. CASE ExecuteAccepted
  <2>1. /\ i.op \in PipeOps /\ UNCHANGED flag /\ ~ExecuteWrite
        /\ submitted' = [op |-> i.op, val1 |-> Value0, val2 |-> Value1]
    BY <1>1, <1>11
       DEF ExecuteAccepted, ExecuteWrite, Executes, Command, PipeOps,
           PipeNoReg, PipeOneReg, Moves, Immediate24, ShiftByR
  <2>2. Architecture!Performs(PipeOps)
    BY <1>5, <2>1
  <2>3. i.op \notin Branches \cup {"HLT"}
    BY <2>1 DEF PipeOps, PipeNoReg, PipeOneReg, Branches
  <2>4. /\ Value0 = IF i.op \in PipeNoReg THEN 0 ELSE Seen[i.r0]
        /\ Value1 = IF i.op = "P_BLI_PIX_R_R" THEN Seen[i.r1] ELSE 0
    BY <1>1, <1>4, <2>1, Operands DEF PipeOps, PipeNoReg, PipeOneReg
  <2> QED
    BY <1>3, <1>6, <1>12, <1>13, <1>14, <2>1, <2>2, <2>3, <2>4,
       SameInstructions
       DEF Architecture!Next, Architecture!Give, Seen
<1> QED BY <1>7, <1>8, <1>9, <1>10, <1>11 DEF Handled
-----------------------------------------------------------------------------
(* A program starts with an empty pipeline, at its first instruction.      *)
LEMMA IsaInit ==
  ASSUME Closed, Init
  PROVE  /\ Faithful /\ Trained /\ Told /\ OnPath
         /\ Architecture!Init
<1>1. /\ phase = "flush" /\ program \in Programs /\ submitted = NoCommand
      /\ flag = FALSE /\ ~has_halted /\ ~flush_valid /\ flush_queue = << >>
      /\ decode_input_queue = << >> /\ execute_input_queue = << >>
      /\ memory_input_queue = << >> /\ writeback_input_queue = << >>
  BY DEF Init
<1>2. Faithful
  BY <1>1, EmptySeq DEF Faithful, Queue
<1>3. Trained
  BY DEF Init, Trained
<1>4. Told
  BY <1>1 DEF Told
<1>5. ~Halted
  BY <1>1 DEF Halted
<1>6. NextToExecute = 0
  <2>1. \A t : ~FrontCanRun(<< >>, t)
    BY DEF FrontCanRun
  <2>2. ToExecute = << >> /\ ToDecode = << >>
    BY <1>1, <2>1 DEF ToExecute, ToDecode
  <2>3. registers[PC] = 0
    BY WordType DEF Init
  <2> QED BY <1>1, <2>2, <2>3 DEF NextToExecute
<1>7. OnPath
  BY <1>1, <1>6 DEF OnPath, Closed
<1>8. [r \in GPR |-> Effective(r)] \in [GPR -> Word]
  BY TypesInit, EffectiveType
<1>9. Architecture!GPR = GPR /\ Architecture!Word = Word
  BY DEF Architecture!GPR, GPR, Architecture!PC, PC, Architecture!Word, Word
<1>10. Halted = FALSE
  BY <1>5 DEF Halted
<1>11. Architecture!Init
  BY <1>1, <1>5, <1>6, <1>8, <1>9, <1>10
     DEF Architecture!Init, Architecture!NoCommand, NoCommand
<1> QED BY <1>2, <1>3, <1>4, <1>7, <1>11

(* The core performs its program as the ISA says, one instruction after    *)
(* another, whatever the scheduler answers and however often it refuses:   *)
(* every operand of stage_execute is current, every wrong guess of         *)
(* stage_fetch is flushed without effect, and every command is given once. *)
(* The registers' feedback must be unambiguous and a branch that is not    *)
(* taken must not have been predicted taken: else the core does not.       *)
THEOREM CoreImplementsISA ==
  ASSUME Closed, Unshared, \A u \in Uninit : ~u.held
  PROVE  Spec /\ []Unambiguous /\ []FallsThrough => ImplementsISA
<1> DEFINE Inv == /\ Types /\ Aligned /\ Feedback /\ Agreement
                  /\ Coded /\ HltLast /\ Trained /\ Faithful
                  /\ Path /\ Told /\ OnPath
<1>1. Init => Inv /\ Architecture!Init
  BY TypesInit, AlignedInit, FeedbackInit, HltInit, PathInit, IsaInit
<1>2. Inv /\ Unambiguous /\ FallsThrough /\ [Next]_vars
        => Inv' /\ [Architecture!Next]_(Architecture!vars)
  <2> SUFFICES ASSUME Inv, Unambiguous, FallsThrough, [Next]_vars
               PROVE  Inv' /\ [Architecture!Next]_(Architecture!vars)
    OBVIOUS
  <2>1. /\ Types' /\ Aligned' /\ Feedback' /\ Agreement' /\ Coded'
        /\ HltLast' /\ Trained' /\ Faithful' /\ Path' /\ Told'
    BY TypesNext, AlignedNext, FeedbackNext, HltNext, TrainedNext,
       FaithfulNext, PathNext, OutNext DEF Closed
  <2>2. OnPath' /\ [Architecture!Next]_(Architecture!vars)
    <3>1. CASE Handled
      BY <3>1, GoesOn, IsaExecutes
    <3>2. CASE ~Handled
      BY <3>2, IsaWaits
    <3> QED BY <3>1, <3>2
  <2> QED BY <2>1, <2>2
<1> QED
  BY <1>1, <1>2, PTL DEF Spec, ImplementsISA, Architecture!Spec
=============================================================================
