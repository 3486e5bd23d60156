--------------------------- MODULE MCManagerCore ----------------------------
(***************************************************************************)
(* Programs and predictors for the configurations ManagerCore_*.cfg.       *)
(* Registers are PC, ACC and R1, and a word has three bits; the programs   *)
(* of ManagerCore_halts do not use R1.                                     *)
(***************************************************************************)
EXTENDS ManagerCore, Assembler
-----------------------------------------------------------------------------
(* Straight programs in which every instruction depends on the others: all *)
(* sequences of Length instructions of a menu.  Three writes to one        *)
(* register in a row are left to ManagerCore_feedback.cfg.                 *)
Length == 4

DataMenu ==
  {OpI("MOV_I24", 1), Set(R1, 2), Copy(R1, ACC), Copy(ACC, R1),
   OpI("ADD_I24", 7), OpR("LSL_R", R1), OpR("P_DMA_DST_R", R1),
   Instr("P_BLI_PIX_R_R", ACC, R1, 0)}

ThreeWrites(s) ==
  \E k \in 1 .. Len(s) - 2 :
    /\ Dest(s[k]) # PC
    /\ Dest(s[k]) = Dest(s[k + 1]) /\ Dest(s[k]) = Dest(s[k + 2])

DataPrograms ==
  {Image(Append(s, Op("HLT"))) :
     s \in {t \in [1 .. Length -> DataMenu] : ~ThreeWrites(t)}}

(* The remaining shifts, also by as much as a word is wide.                *)
ShiftPrograms ==
  {Image(<<OpI("MOV_I24", v), Set(R1, n), OpR(op, R1), OpI(opI, 1),
           Instr("CMP_R_R", ACC, R1, 0), Op("P_BLI_CLR"), Op("HLT")>>) :
     v \in {3, 6}, n \in {0, 2, 3}, op \in ShiftByR,
     opI \in {"ASR_I24", "LSR_I24", "LSL_I24"}}
-----------------------------------------------------------------------------
(* Programs with forward branches: a branch is executed once at most.  The *)
(* k-th instruction, at address k - 1, may go on to address k or k + 1 and *)
(* the first one also to the HLT.                                          *)
BranchLength == 5

Ahead(k) ==
  {t \in {k, k + 1} : t <= BranchLength}
  \cup (IF k = 1 THEN {BranchLength} ELSE {})

(* A submission, which may stall, at the start and in the middle.          *)
BranchMenu(k) ==
  {OpI("ADD_I24", 1), OpR("CMP_R", ACC)}
  \cup (IF k \in {1, 3} THEN {Op("P_DMA_CPY")} ELSE {})
  \cup {OpI("JMP_L", t) : t \in Ahead(k)}
  \cup {OpI("BRA_L", t) : t \in Ahead(k)}

BranchPrograms ==
  {Image(Append(s, Op("HLT"))) :
     s \in {t \in [1 .. BranchLength -> UNION {BranchMenu(k) :
                                               k \in 1 .. BranchLength}] :
              \A k \in 1 .. BranchLength : t[k] \in BranchMenu(k)}}

(* Loops whose exit is a branch taken once.                                *)
LoopPrograms ==
  {Image(<<OpI("MOV_I24", 0), OpI("ADD_I24", n), OpR("CMP_R", ACC),
           OpI("BRA_L", 5), OpI("JMP_L", 1), Op("HLT")>>) : n \in {1, 2, 3}}

(* A loop with two jumps, of which one finds the target of the other if    *)
(* they share an entry of the btb.                                         *)
JumpsProgram ==
  Image(<<OpI("ADD_I24", 3), OpR("CMP_R", ACC), OpI("BRA_L", 6), OpI("JMP_L", 5),
          Op("NOP"), OpI("JMP_L", 0), Op("HLT")>>)

(* A loop without an exit, around a fence.                                 *)
EndlessProgram == Image(<<Op("P_SCH_FNC"), OpI("JMP_L", 0)>>)

(* A program that jumps to the end of its segment.                         *)
SegmentProgram ==
  Image(<<OpI("MOV_I24", 1), OpI("JMP_L", 3), Op("NOP"), Op("SEGMENT_END")>>)

AllPrograms ==
  DataPrograms \cup ShiftPrograms \cup BranchPrograms \cup {EndlessProgram}
HaltingPrograms ==
  {p \in BranchPrograms : p[0].op \in PipeOps}
  \cup LoopPrograms \cup {JumpsProgram, SegmentProgram}
-----------------------------------------------------------------------------
(* Programs that the code does not perform as they are written.            *)

(* The first and the third of three writes write the same value.           *)
RewritePrograms ==
  {Image(<<Set(R1, 5), Set(R1, 6), Set(R1, 5), Op("NOP"), Copy(ACC, R1),
           Op("HLT")>>)}

(* A branch that was taken the first time is not to be taken the second.   *)
NotTakenPrograms ==
  {Image(<<OpR("CMP_R", R1), OpI("BRA_L", 3), Op("HLT"), Set(R1, 1),
           OpI("JMP_L", 0)>>)}
-----------------------------------------------------------------------------
TagPerAddress == [a \in 0 .. 7 |-> a]
OneTarget     == [t \in 0 .. 7 |-> 0]

Zeroed  == {[held |-> FALSE, value |-> 0]}
(* A register is held or not; a value that is not held is not looked at.   *)
Garbage == {[held |-> FALSE, value |-> 0], [held |-> TRUE, value |-> 3]}
=============================================================================
