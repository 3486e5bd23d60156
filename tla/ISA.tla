--------------------------------- MODULE ISA --------------------------------
(***************************************************************************)
(* What a program means: one instruction after another, without stages,    *)
(* feedback, prediction or stalls.  The ManagerCore module is shown to     *)
(* implement this.                                                         *)
(***************************************************************************)
EXTENDS Instructions

VARIABLES
  program,    \* the memory the program is read from: address -> instruction
  pc,         \* the address of the instruction to perform, or Nowhere
  registers,  \* [GPR -> Word]
  flag,       \* the comparison flag C
  halted,
  submitted   \* the command the scheduler has just been given

vars == <<program, pc, registers, flag, halted, submitted>>

Nowhere   == -1
NoCommand == [op |-> "none", val1 |-> 0, val2 |-> 0]

i == program[pc]

(* An instruction with an opcode of ops is performed.                      *)
Performs(ops) ==
  /\ ~halted
  /\ pc \in DOMAIN program
  /\ i.op \in ops
  /\ submitted = NoCommand

Next1 == pc' = pc + 1

Write(r, values) ==
  \E v \in values : registers' = [registers EXCEPT ![r] = v]

MoveOrCompute ==
  /\ \/ /\ Performs({"MOV_R_I16"})
        /\ Write(i.r0, {i.imm})
     \/ /\ Performs({"MOV_R_R"})
        /\ Write(i.r0, {registers[i.r1]})
     \/ /\ Performs(Immediate24)
        /\ Write(ACC, Results(i.op, i.imm, registers[ACC]))
     \/ /\ Performs(ShiftByR)
        /\ Write(ACC, Results(i.op, registers[i.r0], registers[ACC]))
  /\ Next1
  /\ UNCHANGED <<program, flag, halted, submitted>>

Compare ==
  /\ \/ Performs({"CMP_R"}) /\ flag' = (registers[i.r0] = 0)
     \/ Performs({"CMP_R_R"}) /\ flag' = (registers[i.r0] = registers[i.r1])
  /\ Next1
  /\ UNCHANGED <<program, registers, halted, submitted>>

Branch ==
  /\ Performs(Branches)
  /\ IF i.op = "JMP_L" \/ flag THEN pc' = i.imm ELSE Next1
  /\ UNCHANGED <<program, registers, flag, halted, submitted>>

Nothing ==
  /\ Performs({"NOP"})
  /\ Next1
  /\ UNCHANGED <<program, registers, flag, halted, submitted>>

(* The command a pipeline instruction gives the scheduler.                 *)
Give ==
  /\ Performs(PipeOps)
  /\ submitted' =
       [op   |-> i.op,
        val1 |-> IF i.op \in PipeNoReg THEN 0 ELSE registers[i.r0],
        val2 |-> IF i.op = "P_BLI_PIX_R_R" THEN registers[i.r1] ELSE 0]
  /\ Next1
  /\ UNCHANGED <<program, registers, flag, halted>>

Given ==
  /\ submitted' = NoCommand
  /\ UNCHANGED <<program, pc, registers, flag, halted>>

(* The program ends at its HLT, or at the end of its segment.              *)
Halt ==
  /\ Performs({"HLT", "SEGMENT_END"})
  /\ halted' = TRUE
  /\ pc' = Nowhere
  /\ UNCHANGED <<program, registers, flag, submitted>>

Init ==
  /\ pc = 0
  /\ registers \in [GPR -> Word]
  /\ flag = FALSE
  /\ halted = FALSE
  /\ submitted = NoCommand

Next ==
  \/ MoveOrCompute \/ Compare \/ Branch \/ Nothing
  \/ Give \/ Given \/ Halt

Spec == Init /\ [][Next]_vars
=============================================================================
