----------------------------- MODULE Assembler ------------------------------
(***************************************************************************)
(* Programs are written down with these operators.  Registers are PC, ACC  *)
(* and R1.                                                                 *)
(***************************************************************************)
EXTENDS Instructions, Sequences

R1 == 2

Instr(op, r0, r1, imm) == [op |-> op, r0 |-> r0, r1 |-> r1, imm |-> imm]
Op(op)       == Instr(op, ACC, ACC, 0)
OpI(op, imm) == Instr(op, ACC, ACC, imm)
OpR(op, r)   == Instr(op, r, ACC, 0)
Set(r, imm)  == Instr("MOV_R_I16", r, ACC, imm)
Copy(r, s)   == Instr("MOV_R_R", r, s, 0)

(* A sequence of instructions as a memory that starts at address 0.        *)
Image(s) == [a \in 0 .. Len(s) - 1 |-> s[a + 1]]
=============================================================================
