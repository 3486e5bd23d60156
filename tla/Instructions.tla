---------------------------- MODULE Instructions ----------------------------
(***************************************************************************)
(* The instructions of the management core and their arithmetic.           *)
(*                                                                         *)
(* The encoding is generated by the VPU_ASM submodule (namespace           *)
(* vpu::defs); here an instruction word is the record of the fields that   *)
(* get_opcode, get_register(.,0), get_register(.,1) and, for the immediate,*)
(* get_u24, get_u16 or get_label extract from it.  Addresses count words,  *)
(* not bytes, so the next instruction is at address + 1.                   *)
(***************************************************************************)
EXTENDS Integers

CONSTANTS
  WordBits,    \* 32
  Registers    \* 0 .. REGISTER_COUNT - 1

Word == 0 .. 2^WordBits - 1

(* Register 0 is the program counter, register 1 the accumulator.          *)
PC  == 0
ACC == 1
GPR == Registers \ {PC}

ASSUME InstructionsAssumption ==
  /\ WordBits \in Nat \ {0}
  /\ Registers \subseteq Nat
  /\ {PC, ACC} \subseteq Registers
  \* true of all numbers; stated because no prover computes powers:
  /\ \A n \in 0 .. WordBits : 2^n \in Nat \ {0}

Immediate24 == {"MOV_I24", "ADD_I24", "ASR_I24", "LSR_I24", "LSL_I24"}
ShiftByR    == {"ASR_R", "LSR_R", "LSL_R"}
Moves       == {"MOV_I24", "MOV_R_I16", "MOV_R_R"}
Compares    == {"CMP_R", "CMP_R_R"}
Branches    == {"JMP_L", "BRA_L"}
PipeNoReg   == {"P_SCH_FNC", "P_DMA_CPY", "P_BLI_CLR"}
PipeOneReg  == {"P_DMA_DST_R", "P_DMA_SRC_R", "P_DMA_LEN_R", "P_DMA_SET_R",
                "P_BLI_COL_R"}
PipeOps     == PipeNoReg \cup PipeOneReg \cup {"P_BLI_PIX_R_R"}
Opcodes     == Immediate24 \cup ShiftByR \cup Moves \cup Compares
               \cup Branches \cup PipeOps \cup {"NOP", "HLT"}

(* SEGMENT_END is the word behind the program; it is never decoded.        *)
Instruction == [op : Opcodes \cup {"SEGMENT_END"},
                r0 : GPR, r1 : GPR, imm : Word]

Signed(v) == IF v < 2^(WordBits - 1) THEN v ELSE v - 2^WordBits

(* Mutant: an addition that is wider than a register.                      *)
Results_WideSum(op, v0, v1) ==
  CASE op \in Moves     -> {v0}
    [] op = "ADD_I24"   -> {v0 + v1}
    [] OTHER            -> {v1}

(* The values stage_execute may compute from source_value0 and             *)
(* source_value1.  A shift by the width of a word or more is undefined.    *)
Results(op, v0, v1) ==
  CASE op \in Moves     -> {v0}
    [] op = "ADD_I24"   -> {(v0 + v1) % 2^WordBits}
    [] op \in {"ASR_I24", "ASR_R", "LSR_I24", "LSR_R", "LSL_I24", "LSL_R"}
         /\ v0 >= WordBits -> Word
    [] op \in {"ASR_I24", "ASR_R"} /\ v0 < WordBits ->
         {(Signed(v1) \div 2^v0) % 2^WordBits}
    [] op \in {"LSR_I24", "LSR_R"} /\ v0 < WordBits -> {v1 \div 2^v0}
    [] op \in {"LSL_I24", "LSL_R"} /\ v0 < WordBits ->
         {(v1 * 2^v0) % 2^WordBits}
=============================================================================
