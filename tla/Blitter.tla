------------------------------ MODULE Blitter -------------------------------
(***************************************************************************)
(* The blitter: src/blitter.cpp, the work it does on memory.               *)
(*                                                                         *)
(* A pixel command writes the word of one pixel; a clear writes the frame  *)
(* buffer line by line, with as many pixels as a line of memory holds, and *)
(* ends in the cycle that finds the last row behind it.  The operations    *)
(* are those of module Dma.                                                *)
(***************************************************************************)
EXTENDS Memory, Integers, Sequences

CONSTANTS
  FrameWidth,   \* FRAMEBUFFER_WIDTH
  FrameHeight,  \* FRAMEBUFFER_HEIGHT
  FrameAddr,    \* FRAMEBUFFER_ADDR
  Garbage       \* what a field holds before it is written

PixelBytes == 4                        \* FRAMEBUFFER_PIXEL_BYTES
MaxPixels  == Width \div PixelBytes    \* BLITTER_MAX_PIXELS
FrameBytes == FrameWidth * FrameHeight * PixelBytes

ASSUME BlitterAssumption ==
  /\ Width % PixelBytes = 0
  /\ FrameWidth \in Nat \ {0} /\ FrameHeight \in Nat \ {0}
  /\ FrameAddr \in Nat /\ FrameAddr % Width = 0
  /\ FrameAddr + FrameBytes <= MemSize

VARIABLES
  memory,
  \* the fields of class Blitter:
  state, working_command

engine == <<memory, state, working_command>>

c == working_command

Init ==
  /\ state = "IDLE"
  /\ working_command = [operation |-> "NONE", xpos |-> Garbage,
                        ypos |-> Garbage, colour |-> Garbage]

(* Mutant: the offset is taken for the address.                            *)
PixelAddress_Offset(x, y) == PixelBytes * (x + y * FrameWidth)

PixelAddress(x, y) == FrameAddr + PixelBytes * (x + y * FrameWidth)

(* Mutant: column and row are confused.                                    *)
NextAddress_Swapped == PixelAddress(c.ypos, c.xpos)

(* The address of the next pixel of the command.                           *)
NextAddress == PixelAddress(c.xpos, c.ypos)
-----------------------------------------------------------------------------
(* Mutant: a clear starts where the last pixel was drawn.                  *)
Taken_WhereItWas(command) == command

(* A clear starts at the first pixel.                                      *)
Taken(command) ==
  IF command.operation = "CLEAR"
  THEN [command EXCEPT !.xpos = 0, !.ypos = 0] ELSE command

(* submit: the blitter takes a command unless it is working.               *)
Submit(command) ==
  /\ state # "WORKING"
  /\ state' = "WORKING"
  /\ working_command' = Taken(command)
  /\ UNCHANGED memory
-----------------------------------------------------------------------------
(* run_cycle *)

(* Nothing to do, or the bubble after a command, or first: the cycle of    *)
(* the submit, which comes before work_cycle.                              *)
Rest(first) ==
  /\ state = "WORKING" => first
  /\ state' = IF state = "FINISHED" THEN "IDLE" ELSE state
  /\ UNCHANGED <<memory, working_command>>

(* The assertions of next_address, clear_cycle and Memory::write.          *)
Fails ==
  /\ c.operation = "CLEAR" => c.ypos < FrameHeight
  /\ \/ c.xpos >= FrameWidth \/ c.ypos >= FrameHeight
     \/ NextAddress >= FrameAddr + FrameBytes
     \/ c.operation = "CLEAR" /\ ~LineAccess(NextAddress)

Works(operation) == state = "WORKING" /\ c.operation = operation /\ ~Fails

(* An assertion that fails ends the program.                               *)
Crash ==
  /\ state = "WORKING" /\ Fails
  /\ state' = "CRASHED"
  /\ UNCHANGED <<memory, working_command>>

Pixel ==
  /\ Works("PIXEL")
  /\ memory' = WriteWord(memory, NextAddress, c.colour)
  /\ state' = "FINISHED"
  /\ UNCHANGED working_command

ClearEnds ==
  /\ Works("CLEAR")
  /\ c.ypos >= FrameHeight
  /\ state' = "FINISHED"
  /\ UNCHANGED <<memory, working_command>>

(* A line of pixels, each with its most significant byte first.            *)
ColourLine == [k \in 0 .. Width - 1 |->
                 ByteOf(c.colour, PixelBytes - 1 - (k % PixelBytes))]

(* Mutants: the column behind a row is taken to belong to it; the row is   *)
(* never advanced.                                                         *)
Moved_LateWrap(x, y) ==
  IF x > FrameWidth THEN <<x - FrameWidth, y + 1>> ELSE <<x, y>>
Moved_SameRow(x, y) == <<IF x >= FrameWidth THEN 0 ELSE x, y>>

(* Columns beyond a row belong to the rows below it.                       *)
Moved(x, y) == <<x % FrameWidth, y + (x \div FrameWidth)>>

ClearLine ==
  LET next == Moved(c.xpos + MaxPixels, c.ypos) IN
  /\ Works("CLEAR")
  /\ c.ypos < FrameHeight
  /\ memory' = WriteLine(memory, NextAddress, ColourLine)
  /\ working_command' = [c EXCEPT !.xpos = next[1], !.ypos = next[2]]
  /\ UNCHANGED state

RunCycle(first) ==
  Rest(first) \/ (~first /\ (Crash \/ Pixel \/ ClearEnds \/ ClearLine))
-----------------------------------------------------------------------------
(* The program is ended by nothing but a pixel outside the frame.          *)
AssertionsHold ==
  state = "CRASHED" =>
    c.operation = "PIXEL" /\ (c.xpos >= FrameWidth \/ c.ypos >= FrameHeight)
=============================================================================
