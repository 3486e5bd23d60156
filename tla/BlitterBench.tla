---------------------------- MODULE BlitterBench ----------------------------
(***************************************************************************)
(* The blitter alone on its memory, called as in module DmaBench.          *)
(***************************************************************************)
EXTENDS Blitter

CONSTANTS
  Commands,     \* the commands that are submitted
  MaxCommands   \* bound: the number of commands of a behaviour

VARIABLES
  turn,       \* "submit" or "run"
  commands,   \* how many commands were taken
  before,     \* the memory when the command at work was taken
  fresh       \* global cycle < work_cycle: submitted in this cycle

vars == <<engine, turn, commands, before, fresh>>

(* Every byte of memory differs at first, so that no two are confused.     *)
BenchInit ==
  /\ Init
  /\ memory = [a \in Address |-> a]
  /\ turn = "submit"
  /\ commands = 0
  /\ before = memory
  /\ fresh = FALSE

Turn(from, to) == turn = from /\ turn' = to /\ state # "CRASHED"

Take(command) ==
  /\ Turn("submit", "run")
  /\ commands < MaxCommands /\ commands' = commands + 1
  /\ Submit(command)
  /\ fresh' = TRUE
  /\ before' = memory

NoSubmit ==
  /\ Turn("submit", "run")
  /\ UNCHANGED <<engine, commands, before, fresh>>

Run ==
  /\ Turn("run", "submit")
  /\ RunCycle(fresh)
  /\ fresh' = FALSE
  /\ UNCHANGED <<commands, before>>

Next == (\E command \in Commands : Take(command)) \/ NoSubmit \/ Run

Spec == BenchInit /\ [][Next]_vars

(* The simulator runs the blitter in every cycle.                          *)
FairSpec == Spec /\ WF_vars(Next)
-----------------------------------------------------------------------------
InFrame(a) == a \in FrameAddr .. FrameAddr + FrameBytes - 1

TypeOK ==
  /\ DOMAIN memory = Address
  /\ turn \in {"submit", "run"}
  /\ commands \in 0 .. MaxCommands
  /\ fresh \in BOOLEAN
  /\ state \in {"IDLE", "WORKING", "FINISHED", "CRASHED"}
  /\ c.operation \in {"NONE", "PIXEL", "CLEAR"}
  /\ c.operation # "NONE" => c.xpos \in Nat /\ c.ypos \in Nat
  /\ c.operation = "CLEAR" => c.xpos < FrameWidth

(* A finished clear has coloured every pixel, most significant byte first, *)
(* though a line of memory and a row of pixels end at different places,    *)
(* and whatever pixel was drawn before it.                                 *)
ClearCoversFrame ==
  state = "FINISHED" /\ c.operation = "CLEAR" =>
    \A x \in 0 .. FrameWidth - 1, y \in 0 .. FrameHeight - 1 :
      \A k \in 0 .. PixelBytes - 1 :
        memory[PixelAddress(x, y) + (PixelBytes - 1 - k)] = ByteOf(c.colour, k)

(* Nothing outside the frame buffer is ever written.                       *)
OnlyFrameWritten ==
  \A a \in Address : ~InFrame(a) => memory[a] = before[a]

(* A pixel command changes the bytes of its own pixel and no others.       *)
OnlyItsPixelWritten ==
  state # "IDLE" /\ c.operation = "PIXEL" =>
    \A a \in Address :
      a - PixelAddress(c.xpos, c.ypos) \notin 0 .. PixelBytes - 1 =>
        memory[a] = before[a]

(* A pixel drawn in a colour has the bytes that a clear in that colour     *)
(* gives it: R, G, B and A at ascending addresses.                         *)
ColoursAreRgba ==
  state = "FINISHED" /\ c.operation = "PIXEL" =>
    \A k \in 0 .. PixelBytes - 1 :
      memory[NextAddress + (PixelBytes - 1 - k)] = ByteOf(c.colour, k)

(* A command that was taken is finished, unless the program crashes.       *)
CommandFinishes == state = "WORKING" ~> state \in {"FINISHED", "CRASHED"}
=============================================================================
