------------------------------ MODULE MCSystem ------------------------------
(***************************************************************************)
(* Programs for the configuration System_programs.cfg: all sequences of a  *)
(* few commands, with a fence at the end, and some others.  The frame has  *)
(* two lines of two pixels at 16 .. 31, so that a copy to 20 .. 27 covers  *)
(* part of both, and one to 33 .. 40 part of two lines behind it.          *)
(***************************************************************************)
EXTENDS System, Assembler

With(op, v) == <<Set(R1, v), OpR(op, R1)>>

CopyTo(dest)     == With("P_DMA_DST_R", dest) \o <<Op("P_DMA_CPY")>>
CopyFrom(source) == With("P_DMA_SRC_R", source) \o <<Op("P_DMA_CPY")>>
SetLine          == With("P_DMA_DST_R", 32) \o With("P_DMA_SET_R", 51)
Pixel(x, y)      == <<Set(ACC, x), Set(R1, y), Instr("P_BLI_PIX_R_R", ACC, R1, 0)>>
Clear            == <<Op("P_BLI_CLR")>>
Colour           == With("P_BLI_COL_R", 52)
Fence            == <<Op("P_SCH_FNC")>>

Prologue == With("P_DMA_DST_R", 33) \o With("P_DMA_SRC_R", 9)
            \o With("P_DMA_LEN_R", 8) \o With("P_BLI_COL_R", 50)

Seqs == INSTANCE SequencesExt
Fns  == INSTANCE Functions

(* The commands that are combined, each at most once in a sequence.        *)
Menu ==
  {CopyTo(20), CopyTo(33), CopyFrom(24), SetLine, Pixel(1, 1), Clear, Colour,
   Fence}

Ending == Fence \o <<Op("HLT")>>

CommandPrograms ==
  {Image(Prologue \o Seqs!FlattenSeq(s) \o Ending) :
     s \in {t \in [1 .. 3 -> Menu] : /\ t[1] \notin {Colour, Fence}
                                     /\ t[3] \notin {Colour, Fence}
                                     /\ Fns!IsInjective(t)}}

(* Programs whose first command is a set, before a source is configured.   *)
SetPrograms ==
  {Image(With("P_DMA_DST_R", 32) \o With("P_DMA_LEN_R", 8)
         \o With("P_BLI_COL_R", 50) \o With("P_DMA_SET_R", 51)
         \o s \o Ending) :
     s \in {<< >>, CopyFrom(9), SetLine, Pixel(1, 1), Clear, Fence}}

(* More copies than the queue takes, and a command behind them.            *)
FullPrograms ==
  LET copy == Op("P_DMA_CPY") IN
  {Image(Prologue \o <<copy, copy, copy, copy>> \o s \o Ending) : s \in Menu}

(* Programs that halt while a command may be at work.                      *)
UnfencedPrograms == {Image(Prologue \o s \o <<Op("HLT")>>) : s \in Menu}

(* Commands in a loop that is left by a branch.                            *)
LoopProgram ==
  Image(Colour \o <<Set(ACC, 62), Op("P_BLI_CLR"), OpI("ADD_I24", 1),
                    OpR("CMP_R", ACC), OpI("BRA_L", 8), OpI("JMP_L", 3)>>
        \o Ending)

SomePrograms ==
  CommandPrograms \cup SetPrograms \cup FullPrograms \cup UnfencedPrograms
  \cup {LoopProgram}

SomeValues == {0, 1, 8, 9, 20, 24, 32, 33, 50, 51, 52}

TagPerAddress == [a \in 0 .. 7 |-> a]
Zeroed        == {[held |-> FALSE, value |-> 0]}
=============================================================================
