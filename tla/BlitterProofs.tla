--------------------------- MODULE BlitterProofs ----------------------------
(***************************************************************************)
(* Proofs about the blitter on its bench, for every size of memory, of     *)
(* lines and of the frame, every frame address that is a line, and any     *)
(* commands: a pixel may lie anywhere, also outside the frame.             *)
(***************************************************************************)
EXTENDS BlitterBench, MemoryProofs

Command == [operation : {"PIXEL", "CLEAR"}, xpos : Nat, ypos : Nat,
            colour : Nat \cup {Garbage}]

(* The frame is a number of whole lines, as 300 x 200 pixels of four bytes *)
(* are in lines of 64: the code relies on it, for it writes whole lines.   *)
WholeLines == FrameBytes % Width = 0

Drawable == Commands \subseteq Command /\ MaxCommands \in Nat /\ WholeLines
-----------------------------------------------------------------------------
(* The pixels of the frame in the order in which a clear meets them.       *)
Pixels == FrameWidth * FrameHeight
At(q) == FrameAddr + 4 * q
Position == c.xpos + c.ypos * FrameWidth

(* The first n pixels have the colour of the command.                      *)
Coloured(n) ==
  \A q \in Nat : q < n =>
    \A k \in 0 .. 3 : memory[At(q) + (3 - k)] = ByteOf(c.colour, k)

(* A clear is at a line of memory.                                         *)
AtLine == (4 * Position) % Width = 0 /\ Position <= Pixels

(* What holds whatever happens to memory.                                  *)
Control ==
  /\ state \in {"IDLE", "WORKING", "FINISHED", "CRASHED"}
  /\ c \in Command \/ (state = "IDLE" /\ c.operation = "NONE")
  /\ c.operation = "CLEAR" => c.xpos < FrameWidth
  /\ AssertionsHold
  /\ state \in {"WORKING", "FINISHED"} /\ c.operation = "CLEAR" => AtLine
  /\ state = "FINISHED" /\ c.operation = "CLEAR" => c.ypos >= FrameHeight

(* And a clear has coloured the pixels before the one it is at.            *)
Inv ==
  /\ Control
  /\ TypeOK /\ OnlyFrameWritten /\ OnlyItsPixelWritten
  /\ state \in {"WORKING", "FINISHED"} /\ c.operation = "CLEAR" =>
       Coloured(Position)
-----------------------------------------------------------------------------
USE DEF c, PixelBytes

(* The sizes: a line holds whole pixels, and the frame lies in memory.     *)
LEMMA Sizes ==
  /\ MaxPixels \in Nat \ {0} /\ Width = 4 * MaxPixels
  /\ Width \in Nat \ {0} /\ MemSize \in Nat
  /\ FrameWidth \in Nat \ {0} /\ FrameHeight \in Nat \ {0}
  /\ Pixels \in Nat /\ FrameBytes = 4 * Pixels
  /\ FrameAddr \in Nat /\ FrameAddr % Width = 0 /\ FrameAddr % 4 = 0
  /\ FrameAddr + 4 * Pixels <= MemSize
<1>1. /\ Width \in Nat \ {0} /\ MemSize \in Nat
      /\ FrameWidth \in Nat \ {0} /\ FrameHeight \in Nat \ {0}
      /\ FrameAddr \in Nat /\ FrameAddr % Width = 0
  BY MemoryAssumption, BlitterAssumption
<1>2. MaxPixels \in Nat \ {0} /\ Width = 4 * MaxPixels
  <2>1. Width % 4 = 0
    BY BlitterAssumption
  <2>2. \A w \in Nat \ {0} : w % 4 = 0 => (w \div 4) \in Nat \ {0} /\ w = 4 * (w \div 4)
    OBVIOUS
  <2> QED BY <1>1, <2>1, <2>2 DEF MaxPixels
<1>3. Pixels \in Nat /\ FrameBytes = 4 * Pixels
  <2>1. \A x \in Nat, y \in Nat : x * y \in Nat /\ x * y * 4 = 4 * (x * y)
    OBVIOUS
  <2> QED BY <1>1, <2>1 DEF Pixels, FrameBytes
<1>4. FrameAddr % 4 = 0
  <2>1. PICK k \in Nat : FrameAddr = k * Width + (FrameAddr % Width)
    BY <1>1, Division
  <2>2. FrameAddr = k * (4 * MaxPixels)
    BY <1>1, <1>2, <2>1
  <2>3. FrameAddr = (k * MaxPixels) * 4 /\ k * MaxPixels \in Nat
    BY <1>2, <2>2
  <2> QED BY <2>3, Multiple
<1> QED BY <1>1, <1>2, <1>3, <1>4, BlitterAssumption

(* Where a pixel lies: in the frame, at a multiple of four.                *)
LEMMA PixelInFrame ==
  ASSUME NEW q \in Nat, q < Pixels
  PROVE  /\ At(q) \in Nat /\ At(q) % 4 = 0
         /\ FrameAddr <= At(q) /\ At(q) + 4 <= FrameAddr + FrameBytes
         /\ \A k \in 0 .. 3 : At(q) + (3 - k) \in Address
<1>1. \A f \in Nat : f % 4 = 0 => (f + 4 * q) % 4 = 0
  OBVIOUS
<1>2. /\ At(q) \in Nat /\ At(q) = FrameAddr + 4 * q /\ FrameAddr <= At(q)
      /\ At(q) + 4 <= FrameAddr + 4 * Pixels
  BY Sizes DEF At
<1>3. At(q) % 4 = 0
  BY <1>1, <1>2, Sizes
<1> QED BY <1>2, <1>3, Sizes DEF Address

(* A column and a row of the frame are one of its pixels, and behind the   *)
(* last row there is none.                                                 *)
LEMMA RowsEnd ==
  ASSUME NEW x \in Nat, NEW y \in Nat
  PROVE  /\ x + y * FrameWidth \in Nat
         /\ x < FrameWidth /\ y < FrameHeight => x + y * FrameWidth < Pixels
         /\ y >= FrameHeight => x + y * FrameWidth >= Pixels
<1>1. \A w \in Nat, h \in Nat :
        /\ y < h => (y + 1) * w <= w * h
        /\ y >= h => y * w >= w * h
        /\ (y + 1) * w = y * w + w
        /\ y * w \in Nat
  OBVIOUS
<1> QED BY <1>1, Sizes DEF Pixels

(* Moving on by a line of pixels, whatever rows end on the way.            *)
LEMMA MovedOn ==
  ASSUME NEW x \in Nat, NEW y \in Nat
  PROVE  /\ Moved(x, y)[1] \in Nat /\ Moved(x, y)[1] < FrameWidth
         /\ Moved(x, y)[2] \in Nat
         /\ Moved(x, y)[1] + Moved(x, y)[2] * FrameWidth = x + y * FrameWidth
<1> DEFINE r == x % FrameWidth
           d == x \div FrameWidth
<1>1. r \in Nat /\ r < FrameWidth /\ d \in Nat /\ x = FrameWidth * d + r
  BY Sizes
<1> HIDE DEF r, d
<1>2. (y + d) * FrameWidth = y * FrameWidth + FrameWidth * d
  BY <1>1, Sizes
<1>3. Moved(x, y) = <<r, y + d>>
  BY DEF Moved, r, d
<1>4. y * FrameWidth \in Nat /\ FrameWidth * d \in Nat
  BY <1>1, Sizes
<1> QED BY <1>1, <1>2, <1>3, <1>4, Sizes
-----------------------------------------------------------------------------
LEMMA ControlInit == Init => Control
  BY DEF Init, Control, AssertionsHold

LEMMA ControlKept ==
  ASSUME Control, UNCHANGED working_command,
         state' = state \/ (state = "FINISHED" /\ state' = "IDLE")
  PROVE  Control'
<1>1. (AtLine' <=> AtLine) /\ c' = c
  BY DEF AtLine, Position
<1> QED BY <1>1 DEF Control, AssertionsHold, Command

(* A clear starts at the first pixel of the frame.                         *)
LEMMA ControlSubmit ==
  ASSUME Control, NEW x, Taken(x) \in Command, Submit(x)
  PROVE  Control'
<1>1. /\ c' = Taken(x) /\ c' \in Command /\ state' = "WORKING"
      /\ c'.operation = x.operation
  BY DEF Submit, Taken
<1>2. ASSUME c'.operation = "CLEAR"
      PROVE  c'.xpos = 0 /\ c'.ypos = 0 /\ AtLine'
  <2>1. c'.xpos = 0 /\ c'.ypos = 0
    BY <1>1, <1>2 DEF Taken, Command
  <2>2. Position' = 0
    BY <2>1, Sizes DEF Position
  <2>3. (4 * 0) % Width = 0
    BY Sizes, Multiple
  <2> QED BY <2>1, <2>2, <2>3, Sizes DEF AtLine
<1> QED BY <1>1, <1>2, Sizes DEF Control, AssertionsHold

(* What a command at work is, and where its next pixel lies.               *)
LEMMA AtWork ==
  ASSUME Control, state = "WORKING"
  PROVE  /\ c \in Command /\ c.xpos \in Nat /\ c.ypos \in Nat
         /\ Position \in Nat /\ NextAddress = At(Position)
         /\ c.xpos < FrameWidth /\ c.ypos < FrameHeight => Position < Pixels
         /\ c.ypos >= FrameHeight => Position >= Pixels
         /\ c.operation = "CLEAR" => AtLine /\ c.xpos < FrameWidth
<1>1. c \in Command /\ c.xpos \in Nat /\ c.ypos \in Nat
  BY DEF Control, Command
<1> QED
  BY <1>1, RowsEnd DEF Control, Position, NextAddress, PixelAddress, At

(* A clear that has not come to its end is at a line of the frame.         *)
LEMMA ClearLineFits ==
  ASSUME WholeLines, Control, state = "WORKING", c.operation = "CLEAR",
         c.ypos < FrameHeight
  PROVE  /\ Position < Pixels /\ ~Fails
         /\ NextAddress \in Nat /\ NextAddress % Width = 0
         /\ 4 * Position + Width <= 4 * Pixels
<1>1. /\ Position \in Nat /\ Position < Pixels /\ NextAddress = At(Position)
      /\ (4 * Position) % Width = 0 /\ c.xpos < FrameWidth
      /\ c.xpos \in Nat /\ c.ypos \in Nat
  BY AtWork DEF AtLine
<1>2. 4 * Position + Width <= 4 * Pixels
  <2>1. 4 * Position \in Nat /\ 4 * Pixels \in Nat /\ 4 * Position < 4 * Pixels
    BY <1>1, Sizes
  <2>2. (4 * Pixels) % Width = 0
    BY Sizes DEF WholeLines
  <2> QED BY <1>1, <2>1, <2>2, LineGap
<1>3. NextAddress \in Nat /\ NextAddress % Width = 0
  <2>1. PICK i \in Nat : FrameAddr = i * Width + (FrameAddr % Width)
    BY Sizes, Division
  <2>2. 4 * Position \in Nat
    BY <1>1
  <2>3. PICK j \in Nat : 4 * Position = j * Width + ((4 * Position) % Width)
    BY <2>2, Sizes, Division
  <2>4. FrameAddr = i * Width /\ 4 * Position = j * Width
    BY <1>1, <2>1, <2>3, Sizes
  <2>5. NextAddress = (i + j) * Width /\ i + j \in Nat
    BY <1>1, <2>4, Sizes DEF At
  <2>6. ((i + j) * Width) % Width = 0
    BY <2>5, Sizes, Multiple
  <2>7. NextAddress \in Nat
    BY <1>1, Sizes DEF At
  <2> QED BY <2>5, <2>6, <2>7
<1>4. NextAddress < FrameAddr + FrameBytes /\ NextAddress < MemSize
  BY <1>1, Sizes DEF At
<1>5. LineAccess(NextAddress)
  BY <1>3, <1>4, LineFits
<1>6. ~(c.xpos >= FrameWidth) /\ ~(c.ypos >= FrameHeight)
  BY <1>1, Sizes
<1>7. ~(NextAddress >= FrameAddr + FrameBytes)
  BY <1>3, <1>4, Sizes
<1> QED BY <1>1, <1>2, <1>3, <1>5, <1>6, <1>7 DEF Fails

(* A line of the clear brings it to a line of memory again.                *)
LEMMA ControlClearLine ==
  ASSUME WholeLines, Control, ClearLine
  PROVE  /\ Control'
         /\ c' \in Command /\ c'.operation = "CLEAR" /\ c'.colour = c.colour
         /\ Position' = Position + MaxPixels /\ Position' <= Pixels
<1> DEFINE next == Moved(c.xpos + MaxPixels, c.ypos)
<1>1. /\ state = "WORKING" /\ c.operation = "CLEAR" /\ c.ypos < FrameHeight
      /\ c' = [c EXCEPT !.xpos = next[1], !.ypos = next[2]]
      /\ state' = "WORKING"
  BY DEF ClearLine, Works
<1>2. /\ c \in Command /\ c.xpos \in Nat /\ c.ypos \in Nat
      /\ Position \in Nat /\ (4 * Position) % Width = 0
      /\ 4 * Position + Width <= 4 * Pixels
  BY <1>1, AtWork, ClearLineFits DEF AtLine
<1>3. /\ next[1] \in Nat /\ next[1] < FrameWidth /\ next[2] \in Nat
      /\ next[1] + next[2] * FrameWidth =
           c.xpos + MaxPixels + c.ypos * FrameWidth
  <2>1. c.xpos + MaxPixels \in Nat
    BY <1>2, Sizes
  <2> QED BY <1>2, <2>1, MovedOn
<1> HIDE DEF next
<1>4. /\ c' \in Command /\ c'.operation = "CLEAR" /\ c'.colour = c.colour
      /\ c'.xpos = next[1] /\ c'.ypos = next[2]
  BY <1>1, <1>2, <1>3 DEF Command
<1>5. Position' = Position + MaxPixels
  <2>1. c.ypos * FrameWidth \in Nat
    BY <1>2, Sizes
  <2> QED BY <1>2, <1>3, <1>4, <2>1, Sizes DEF Position
<1>6. (4 * Position') % Width = 0 /\ Position' <= Pixels
  <2>1. 4 * Position' = 4 * Position + Width /\ 4 * Position \in Nat
    BY <1>2, <1>5, Sizes
  <2>2. (4 * Position + Width) % Width = 0
    BY <1>2, <2>1, NextLine
  <2> QED BY <1>2, <1>5, <2>1, <2>2, Sizes
<1>7. Control'
  BY <1>1, <1>3, <1>4, <1>6 DEF Control, AtLine, AssertionsHold
<1> QED BY <1>4, <1>5, <1>6, <1>7

(* Only a pixel outside the frame fails.                                   *)
LEMMA ControlCrash ==
  ASSUME WholeLines, Control, Crash
  PROVE  /\ Control' /\ c.operation = "PIXEL"
         /\ c.xpos >= FrameWidth \/ c.ypos >= FrameHeight
<1>1. /\ state = "WORKING" /\ Fails /\ state' = "CRASHED" /\ c' = c
  BY DEF Crash
<1>2. c \in Command /\ c.xpos \in Nat /\ c.ypos \in Nat
  BY <1>1, AtWork
<1>3. c.operation = "PIXEL"
  BY <1>1, <1>2, ClearLineFits DEF Fails, Command
<1>4. c.xpos >= FrameWidth \/ c.ypos >= FrameHeight
  <2> SUFFICES ASSUME c.xpos < FrameWidth, c.ypos < FrameHeight
               PROVE  FALSE
    BY <1>2, Sizes
  <2>1. /\ NextAddress \in Nat
        /\ NextAddress + 4 <= FrameAddr + FrameBytes
    BY <1>1, AtWork, PixelInFrame
  <2> QED BY <1>1, <1>2, <1>3, <2>1, Sizes DEF Fails
<1>5. Control'
  BY <1>1, <1>2, <1>3, <1>4 DEF Control, AssertionsHold
<1> QED BY <1>3, <1>4, <1>5

(* A call of run_cycle, whatever memory holds.                             *)
LEMMA ControlRun ==
  ASSUME WholeLines, Control, NEW first, RunCycle(first)
  PROVE  Control'
<1>1. CASE Rest(first)
  BY <1>1, ControlKept DEF Rest
<1>2. CASE Crash
  BY <1>2, ControlCrash
<1>3. CASE Pixel
  BY <1>3 DEF Pixel, Works, Control, AssertionsHold, Command
<1>4. CASE ClearEnds
  <2>1. AtLine' <=> AtLine
    BY <1>4 DEF ClearEnds, AtLine, Position
  <2> QED
    BY <1>4, <2>1 DEF ClearEnds, Works, Control, AssertionsHold, Command
<1>5. CASE ClearLine
  BY <1>5, ControlClearLine
<1> QED BY <1>1, <1>2, <1>3, <1>4, <1>5 DEF RunCycle
-----------------------------------------------------------------------------
(***************************************************************************)
(* The steps of a command, by what they do to the address it is at, for    *)
(* the modules that count them.                                            *)
(***************************************************************************)
LastStep ==
  /\ state' = "FINISHED" /\ UNCHANGED working_command
  /\ c.operation = "CLEAR" =>
       NextAddress \in Nat /\ NextAddress >= FrameAddr + FrameBytes

LineStep ==
  /\ c.operation = "CLEAR" /\ state' = "WORKING"
  /\ NextAddress \in Nat /\ NextAddress % Width = 0
  /\ NextAddress < FrameAddr + FrameBytes
  /\ NextAddress' = NextAddress + Width
  /\ Taken(c)' = Taken(c) /\ c'.operation = "CLEAR"

LEMMA WorkSteps ==
  ASSUME WholeLines, Control, state = "WORKING",
         RunCycle(FALSE), state' # "CRASHED"
  PROVE  LastStep \/ LineStep
<1>1. Pixel \/ ClearEnds \/ ClearLine
  BY DEF RunCycle, Rest, Crash
<1>2. CASE Pixel
  BY <1>2 DEF Pixel, Works, LastStep
<1>3. CASE ClearEnds
  <2>1. Position \in Nat /\ Position >= Pixels /\ NextAddress = At(Position)
    BY <1>3, AtWork DEF ClearEnds
  <2>2. NextAddress \in Nat /\ NextAddress >= FrameAddr + FrameBytes
    BY <2>1, Sizes DEF At
  <2> QED BY <1>3, <2>2 DEF ClearEnds, LastStep
<1>4. CASE ClearLine
  <2>1. /\ c.operation = "CLEAR" /\ c.ypos < FrameHeight
        /\ state' = "WORKING"
        /\ \E u, v : c' = [c EXCEPT !.xpos = u, !.ypos = v]
    BY <1>4 DEF ClearLine, Works
  <2>2. /\ Position < Pixels /\ NextAddress \in Nat
        /\ NextAddress % Width = 0
        /\ Position \in Nat /\ NextAddress = At(Position) /\ c \in Command
    BY <2>1, ClearLineFits, AtWork
  <2>3. /\ c' \in Command /\ c'.operation = "CLEAR"
        /\ Position' = Position + MaxPixels /\ Control'
    BY <1>4, ControlClearLine
  <2>4. NextAddress' = At(Position')
    BY <2>3, RowsEnd DEF NextAddress, PixelAddress, At, Position, Command
  <2>5. NextAddress' = NextAddress + Width /\ NextAddress < FrameAddr + FrameBytes
    BY <2>2, <2>3, <2>4, Sizes DEF At
  <2>6. Taken(c)' = Taken(c)
    <3>1. c.operation = "CLEAR" /\ c'.operation = "CLEAR"
      BY <2>1, <2>3
    <3>2. Taken(c) = [c EXCEPT !.xpos = 0, !.ypos = 0]
      BY <3>1 DEF Taken
    <3>3. Taken(c)' = [c' EXCEPT !.xpos = 0, !.ypos = 0]
      BY <3>1 DEF Taken
    <3>4. PICK u, v : c' = [c EXCEPT !.xpos = u, !.ypos = v]
      BY <2>1
    <3>5. [c' EXCEPT !.xpos = 0, !.ypos = 0] = [c EXCEPT !.xpos = 0, !.ypos = 0]
      BY <2>2, <3>4 DEF Command
    <3> QED BY <3>2, <3>3, <3>5
  <2> QED BY <2>1, <2>2, <2>3, <2>5, <2>6 DEF LineStep
<1> QED BY <1>1, <1>2, <1>3, <1>4
-----------------------------------------------------------------------------
LEMMA InvInit == Drawable /\ BenchInit => Inv
<1> SUFFICES ASSUME Drawable, BenchInit PROVE Inv
  OBVIOUS
<1>1. TypeOK
  <2>1. DOMAIN memory = Address
    BY DEF BenchInit
  <2>2. commands \in 0 .. MaxCommands
    BY DEF BenchInit, Drawable
  <2> QED BY <2>1, <2>2 DEF BenchInit, Init, TypeOK
<1> QED
  BY <1>1, ControlInit
     DEF BenchInit, Init, Inv, OnlyFrameWritten, OnlyItsPixelWritten

(* A clear starts with nothing to have coloured.                           *)
LEMMA InvTake ==
  ASSUME Drawable, Inv, NEW x \in Commands, Take(x)
  PROVE  Inv'
<1>1. /\ x \in Command /\ Taken(x) \in Command
      /\ x.operation = "CLEAR" => Taken(x).xpos = 0 /\ Taken(x).ypos = 0
      /\ Taken(x).operation = x.operation
  BY DEF Drawable, Command, Taken
<1>2. /\ c' = Taken(x) /\ state' = "WORKING" /\ memory' = memory
      /\ before' = memory /\ fresh' = TRUE
      /\ turn' = "run" /\ commands' \in 0 .. MaxCommands
      /\ Submit(x)
  BY DEF Take, Turn, Submit, Inv, TypeOK, Drawable
<1>3. TypeOK'
  BY <1>1, <1>2, Sizes DEF Inv, TypeOK, Command
<1>4. OnlyFrameWritten' /\ OnlyItsPixelWritten'
  BY <1>2 DEF OnlyFrameWritten, OnlyItsPixelWritten
<1>5. Control'
  BY <1>1, <1>2, ControlSubmit DEF Inv
<1>6. c'.operation = "CLEAR" => Coloured(Position)'
  <2>1. c'.operation = "CLEAR" => Position' = 0
    BY <1>1, <1>2, Sizes DEF Position
  <2> QED BY <2>1 DEF Coloured
<1> QED BY <1>3, <1>4, <1>5, <1>6 DEF Inv

LEMMA InvRest ==
  ASSUME Drawable, Inv,
         UNCHANGED <<memory, working_command, commands, before>>,
         turn' \in {"submit", "run"}, fresh' \in BOOLEAN,
         state' = state \/ (state = "FINISHED" /\ state' = "IDLE")
  PROVE  Inv'
<1>1. TypeOK' /\ Control'
  BY ControlKept DEF Inv, TypeOK
<1>2. Coloured(Position)' <=> Coloured(Position)
  BY DEF Coloured, Position
<1> QED BY <1>1, <1>2 DEF Inv, OnlyFrameWritten, OnlyItsPixelWritten

LEMMA InvPixel ==
  ASSUME Drawable, Inv, Pixel, UNCHANGED <<commands, before>>,
         turn' \in {"submit", "run"}, fresh' \in BOOLEAN
  PROVE  Inv'
<1>1. /\ state = "WORKING" /\ c.operation = "PIXEL" /\ ~Fails
      /\ c' = c /\ state' = "FINISHED"
      /\ memory' = WriteWord(memory, NextAddress, c.colour)
  BY DEF Pixel, Works
<1>2. c.xpos < FrameWidth /\ c.ypos < FrameHeight
  BY <1>1, AtWork, Sizes DEF Fails, Inv
<1>3. /\ NextAddress \in Nat /\ NextAddress % 4 = 0
      /\ FrameAddr <= NextAddress
      /\ NextAddress + 4 <= FrameAddr + FrameBytes
  BY <1>1, <1>2, AtWork, PixelInFrame DEF Inv
<1>4. DOMAIN memory = Address
  BY DEF Inv, TypeOK
<1>5. ASSUME NEW a \in Address, ~(a - NextAddress \in 0 .. 3)
      PROVE  memory'[a] = memory[a]
  BY <1>1, <1>3, <1>4, <1>5, WordWritten
<1>6. TypeOK'
  <2>1. DOMAIN memory' = Address
    BY <1>1, <1>4 DEF WriteWord
  <2> QED BY <1>1, <2>1 DEF Inv, TypeOK
<1>7. OnlyFrameWritten'
  <2> SUFFICES ASSUME NEW a \in Address, ~InFrame(a)
               PROVE  memory'[a] = before[a]
    BY DEF OnlyFrameWritten, InFrame
  <2>1. ~(a - NextAddress \in 0 .. 3)
    BY <1>3, Sizes DEF InFrame, Address
  <2> QED BY <1>5, <2>1 DEF Inv, OnlyFrameWritten
<1>8. OnlyItsPixelWritten'
  <2> SUFFICES ASSUME NEW a \in Address, a - NextAddress \notin 0 .. 3
               PROVE  memory'[a] = before[a]
    BY <1>1 DEF OnlyItsPixelWritten, NextAddress, PixelAddress
  <2> QED BY <1>1, <1>5 DEF Inv, OnlyItsPixelWritten, NextAddress
<1>9. Control'
  BY ControlRun DEF RunCycle, Inv, Drawable
<1> QED BY <1>1, <1>6, <1>7, <1>8, <1>9 DEF Inv

(* A line more is coloured: the pixels before it and those in it.          *)
LEMMA InvClearLine ==
  ASSUME Drawable, Inv, ClearLine, UNCHANGED <<commands, before>>,
         turn' \in {"submit", "run"}, fresh' \in BOOLEAN
  PROVE  Inv'
<1> DEFINE p == NextAddress
<1>1. /\ state = "WORKING" /\ c.operation = "CLEAR" /\ c.ypos < FrameHeight
      /\ memory' = WriteLine(memory, p, ColourLine)
      /\ state' = "WORKING"
  BY DEF ClearLine, Works
<1>2. /\ c \in Command /\ Position \in Nat /\ Position < Pixels
      /\ p = FrameAddr + 4 * Position /\ Coloured(Position)
      /\ p \in Nat /\ p % Width = 0
      /\ 4 * Position + Width <= 4 * Pixels
  BY <1>1, AtWork, ClearLineFits DEF Inv, Drawable, At
<1>3. DOMAIN memory = Address
  BY DEF Inv, TypeOK
<1>4. /\ Control' /\ c' \in Command
      /\ c'.operation = "CLEAR" /\ c'.colour = c.colour
      /\ Position' = Position + MaxPixels /\ Position' <= Pixels
  BY ControlClearLine DEF Inv, Drawable
<1> HIDE DEF p
<1>5. ASSUME NEW a \in Address
      PROVE  /\ a \in Nat
             /\ p <= a /\ a < p + Width => memory'[a] = ColourLine[a - p]
             /\ ~(p <= a /\ a < p + Width) => memory'[a] = memory[a]
  BY <1>1, <1>2, <1>3, LineWritten
<1>6. TypeOK'
  <2>1. DOMAIN memory' = Address
    BY <1>1, <1>3 DEF WriteLine
  <2> QED BY <1>1, <1>4, <2>1 DEF Inv, TypeOK, Control, Command
<1>7. OnlyFrameWritten'
  <2> SUFFICES ASSUME NEW a \in Address, ~InFrame(a)
               PROVE  memory'[a] = before[a]
    BY DEF OnlyFrameWritten, InFrame
  <2>1. ~(p <= a /\ a < p + Width)
    BY <1>2, <1>5, Sizes DEF InFrame
  <2> QED BY <1>5, <2>1 DEF Inv, OnlyFrameWritten
<1>8. Coloured(Position)'
  <2> SUFFICES ASSUME NEW q \in Nat, q < Position', NEW k \in 0 .. 3
               PROVE  memory'[At(q) + (3 - k)] = ByteOf(c.colour, k)
    BY <1>4 DEF Coloured, At
  <2> DEFINE a == At(q) + (3 - k)
  <2>1. a \in Address /\ q < Pixels
    <3>1. q < Pixels
      BY <1>2, <1>4, Sizes
    <3>2. a \in Address
      BY <3>1, PixelInFrame
    <3> QED BY <3>1, <3>2
  <2>2. CASE q < Position
    <3>1. ~(p <= a)
      BY <1>2, <2>2, Sizes DEF At
    <3>2. memory[a] = ByteOf(c.colour, k)
      BY <1>2, <2>2 DEF Coloured
    <3> HIDE DEF a
    <3> QED BY <1>5, <2>1, <3>1, <3>2 DEF a
  <2>3. CASE Position <= q
    <3>1. /\ a - p = 4 * (q - Position) + (3 - k)
          /\ q - Position \in 0 .. MaxPixels - 1
          /\ a - p \in 0 .. Width - 1 /\ p <= a /\ a < p + Width
      BY <1>2, <1>4, <2>3, Sizes DEF At
    <3>2. \A d \in Nat : PixelBytes - 1 - ((4 * d + (3 - k)) % 4) = k
      OBVIOUS
    <3>3. PixelBytes - 1 - ((a - p) % PixelBytes) = k
      BY <3>1, <3>2
    <3>4. ColourLine[a - p] = ByteOf(c.colour, k)
      BY <3>1, <3>3 DEF ColourLine
    <3> HIDE DEF a
    <3> QED BY <1>5, <2>1, <3>1, <3>4 DEF a
  <2> QED BY <1>2, <2>2, <2>3
<1> QED
  BY <1>1, <1>4, <1>6, <1>7, <1>8 DEF Inv, OnlyItsPixelWritten

LEMMA InvNext == Drawable /\ Inv /\ [Next]_vars => Inv'
<1> SUFFICES ASSUME Drawable, Inv, [Next]_vars PROVE Inv'
  OBVIOUS
<1>1. ASSUME NEW x \in Commands, Take(x) PROVE Inv'
  BY <1>1, InvTake
<1>2. CASE NoSubmit
  BY <1>2, InvRest DEF NoSubmit, Turn, engine, Inv, TypeOK
<1>3. CASE UNCHANGED vars
  BY <1>3, InvRest DEF vars, engine, Inv, TypeOK
<1>4. CASE Run
  <2>1. /\ RunCycle(fresh) /\ turn' = "submit" /\ fresh' = FALSE
        /\ UNCHANGED <<commands, before>>
    BY <1>4 DEF Run, Turn
  <2>2. CASE Rest(fresh)
    BY <2>1, <2>2, InvRest DEF Rest
  <2>3. CASE Pixel
    BY <2>1, <2>3, InvPixel
  <2>4. CASE ClearLine
    BY <2>1, <2>4, InvClearLine
  <2>5. CASE Crash \/ ClearEnds
    <3>1. /\ state = "WORKING" /\ state' \in {"CRASHED", "FINISHED"}
          /\ UNCHANGED <<memory, working_command>>
      BY <2>5 DEF Crash, ClearEnds, Works
    <3>2. Control'
      BY <2>1, ControlRun DEF Inv, Drawable
    <3>3. Coloured(Position)' <=> Coloured(Position)
      BY <3>1 DEF Coloured, Position
    <3>4. TypeOK'
      BY <2>1, <3>1 DEF Inv, TypeOK
    <3> QED
      BY <2>1, <3>1, <3>2, <3>3, <3>4
         DEF Inv, OnlyFrameWritten, OnlyItsPixelWritten
  <2> QED BY <2>1, <2>2, <2>3, <2>4, <2>5 DEF RunCycle
<1> QED BY <1>1, <1>2, <1>3, <1>4 DEF Next

LEMMA InvHolds ==
  ASSUME Drawable
  PROVE  Spec => []Inv
BY InvInit, InvNext, PTL DEF Spec
-----------------------------------------------------------------------------
(* Every variable of the blitter keeps its type; among them, a clear stays *)
(* within the rows.                                                        *)
THEOREM BlitterTypes ==
  ASSUME Drawable
  PROVE  Spec => []TypeOK
<1>1. Inv => TypeOK
  BY DEF Inv
<1> QED BY <1>1, InvHolds, PTL

(* No assertion of the blitter or of the memory fails, whatever commands   *)
(* come, but for a pixel outside the frame.                                *)
THEOREM BlitterAsserts ==
  ASSUME Drawable
  PROVE  Spec => []AssertionsHold
<1>1. Inv => AssertionsHold
  BY DEF Inv, Control
<1> QED BY <1>1, InvHolds, PTL

(* Nothing outside the frame buffer is ever written.                       *)
THEOREM FrameOnly ==
  ASSUME Drawable
  PROVE  Spec => []OnlyFrameWritten
<1>1. Inv => OnlyFrameWritten
  BY DEF Inv
<1> QED BY <1>1, InvHolds, PTL

(* A pixel command changes the bytes of its own pixel and no others.       *)
THEOREM PixelOnly ==
  ASSUME Drawable
  PROVE  Spec => []OnlyItsPixelWritten
<1>1. Inv => OnlyItsPixelWritten
  BY DEF Inv
<1> QED BY <1>1, InvHolds, PTL

(* A clear that has finished has coloured every pixel of the frame.        *)
THEOREM ClearComplete ==
  ASSUME Drawable
  PROVE  Spec => []ClearCoversFrame
<1>1. ASSUME Inv PROVE ClearCoversFrame
  <2> SUFFICES ASSUME state = "FINISHED", c.operation = "CLEAR",
                      NEW x \in 0 .. FrameWidth - 1,
                      NEW y \in 0 .. FrameHeight - 1, NEW k \in 0 .. 3
               PROVE  memory[PixelAddress(x, y) + (3 - k)] = ByteOf(c.colour, k)
    BY DEF ClearCoversFrame
  <2>1. /\ Position >= Pixels /\ Position \in Nat /\ Coloured(Position)
    <3>1. Coloured(Position) /\ c \in Command /\ c.ypos >= FrameHeight
      BY <1>1 DEF Inv, Control
    <3> QED BY <3>1, RowsEnd DEF Position, Command
  <2>2. x + y * FrameWidth \in Nat /\ x + y * FrameWidth < Pixels
    <3>1. /\ x \in Nat /\ x < FrameWidth
          /\ y \in Nat /\ y < FrameHeight
      BY Sizes
    <3> QED BY <3>1, RowsEnd
  <2>3. x + y * FrameWidth < Position
    BY <2>1, <2>2, Sizes
  <2>4. PixelAddress(x, y) = At(x + y * FrameWidth)
    BY DEF PixelAddress, At
  <2> QED BY <2>1, <2>2, <2>3, <2>4 DEF Coloured
<1> QED BY <1>1, InvHolds, PTL
-----------------------------------------------------------------------------
(***************************************************************************)
(* The blitter beside another engine that writes the same memory.  The     *)
(* bytes of disputed may hold anything.                                    *)
(***************************************************************************)
(* What a command draws, and the byte that it leaves at an address there.  *)
AreaOf(b) ==
  IF b.operation = "CLEAR" THEN FrameAddr .. FrameAddr + FrameBytes - 1
  ELSE PixelAddress(b.xpos, b.ypos) .. PixelAddress(b.xpos, b.ypos) + 3

ColourAt(b, a) ==
  ByteOf(b.colour, IF b.operation = "CLEAR" THEN 3 - (a % 4)
                   ELSE a - PixelAddress(b.xpos, b.ypos))

(* A clear has done the part of the frame that it has behind it.           *)
Cleared(disputed) ==
  state = "WORKING" /\ c.operation = "CLEAR" =>
    \A a \in Address :
      a \notin disputed /\ FrameAddr <= a /\ a < NextAddress =>
        memory[a] = ColourAt(c, a)

LEMMA ClearedSubmit ==
  ASSUME NEW x, Taken(x) \in Command, Submit(x), NEW disputed
  PROVE  Cleared(disputed)'
<1>1. c' = Taken(x)
  BY DEF Submit
<1>2. ASSUME c'.operation = "CLEAR" PROVE NextAddress' = FrameAddr
  <2>1. c'.xpos = 0 /\ c'.ypos = 0
    BY <1>1, <1>2 DEF Taken, Command
  <2>2. \A f \in Nat, w \in Nat : f + 4 * (0 + 0 * w) = f
    OBVIOUS
  <2> QED BY <2>1, <2>2, Sizes DEF NextAddress, PixelAddress
<1> QED BY <1>2, Sizes DEF Cleared, Address

(* Another engine writes what is disputed, or outside of the drawing.      *)
LEMMA ClearedOther ==
  ASSUME WholeLines, Control, NEW disputed, Cleared(disputed),
         NEW disputed2, disputed \subseteq disputed2,
         UNCHANGED working_command, state' = "WORKING" => state = "WORKING",
         \A a \in Address : a \notin disputed2 /\ a \in AreaOf(c) =>
           memory'[a] = memory[a]
  PROVE  Cleared(disputed2)'
<1> SUFFICES ASSUME state = "WORKING", c.operation = "CLEAR",
                    NEW a \in Address, a \notin disputed2,
                    FrameAddr <= a, a < NextAddress
             PROVE  memory'[a] = ColourAt(c, a)
  BY DEF Cleared, NextAddress, ColourAt
<1>1. memory[a] = ColourAt(c, a)
  BY DEF Cleared
<1>2. Position \in Nat /\ NextAddress = At(Position) /\ Position <= Pixels
  BY AtWork DEF AtLine
<1>3. a \in AreaOf(c)
  BY <1>2, Sizes DEF AreaOf, Address, At
<1> QED BY <1>1, <1>3

(* A call of run_cycle draws nothing but what the command is to.           *)
LEMMA ClearedRun ==
  ASSUME WholeLines, Control, DOMAIN memory = Address, NEW disputed,
         Cleared(disputed), RunCycle(FALSE), state = "WORKING"
  PROVE  /\ Cleared(disputed)' /\ DOMAIN memory' = Address
         /\ \A a \in Address : a \notin AreaOf(c) => memory'[a] = memory[a]
         /\ state' = "FINISHED" =>
              \A a \in Address : a \notin disputed /\ a \in AreaOf(c) =>
                memory'[a] = ColourAt(c, a)
<1> DEFINE p == NextAddress
<1>1. CASE Crash
  BY <1>1 DEF Crash, Cleared
<1>2. CASE Pixel
  <2>1. /\ c.operation = "PIXEL" /\ ~Fails /\ c' = c
        /\ memory' = WriteWord(memory, p, c.colour)
    BY <1>2 DEF Pixel, Works
  <2>2. c.xpos < FrameWidth /\ c.ypos < FrameHeight
    BY <2>1, AtWork, Sizes DEF Fails
  <2>3. p \in Nat /\ p % 4 = 0
    BY <2>2, AtWork, PixelInFrame
  <2>4. p = PixelAddress(c.xpos, c.ypos)
    BY DEF NextAddress
  <2> HIDE DEF p
  <2>5. AreaOf(c) = p .. p + 3
    BY <2>1, <2>4 DEF AreaOf
  <2>6. ASSUME NEW a \in Address, a \notin AreaOf(c)
        PROVE  memory'[a] = memory[a]
    <3>1. a \in Nat
      BY Sizes DEF Address
    <3>2. ~(a - p \in 0 .. 3)
      BY <2>3, <2>5, <2>6, <3>1
    <3> QED BY <2>1, <2>3, <3>2, WordWritten
  <2>7. ASSUME NEW a \in Address, a \in AreaOf(c)
        PROVE  memory'[a] = ColourAt(c, a)
    <3>1. a \in p .. p + 3 /\ p - (p % 4) = p
      BY <2>3, <2>5, <2>7
    <3>2. memory'[a] = ByteOf(c.colour, a - p)
      BY <2>1, <3>1 DEF WriteWord
    <3> QED BY <2>1, <2>4, <3>2 DEF ColourAt
  <2>8. DOMAIN memory' = Address
    BY <2>1 DEF WriteWord
  <2> QED BY <2>1, <2>6, <2>7, <2>8 DEF Cleared
<1>3. CASE ClearEnds
  <2>1. /\ c.operation = "CLEAR" /\ memory' = memory /\ c' = c
        /\ c.ypos >= FrameHeight /\ state' = "FINISHED"
    BY <1>3 DEF ClearEnds, Works
  <2>2. Position \in Nat /\ Position >= Pixels /\ p = At(Position)
    BY <2>1, AtWork
  <2>3. ASSUME NEW a \in Address, a \in AreaOf(c)
        PROVE  FrameAddr <= a /\ a < p
    BY <2>1, <2>2, <2>3, Sizes DEF AreaOf, At, Address
  <2> QED BY <2>1, <2>3 DEF Cleared
<1>4. CASE ClearLine
  <2>1. /\ c.operation = "CLEAR" /\ c.ypos < FrameHeight /\ state' = state
        /\ memory' = WriteLine(memory, p, ColourLine)
    BY <1>4 DEF ClearLine, Works
  <2>2. /\ Position \in Nat /\ Position < Pixels
        /\ p \in Nat /\ p = FrameAddr + 4 * Position /\ p % Width = 0
        /\ 4 * Position + Width <= 4 * Pixels
    BY <2>1, AtWork, ClearLineFits DEF At
  <2>3. /\ c'.operation = "CLEAR" /\ c'.colour = c.colour /\ c' \in Command
        /\ Position' = Position + MaxPixels
    BY <1>4, ControlClearLine
  <2>4. NextAddress' = p + Width
    <3>1. NextAddress' = At(Position')
      BY <2>3, RowsEnd DEF NextAddress, PixelAddress, At, Position, Command
    <3> QED BY <2>2, <2>3, <3>1, Sizes DEF At
  <2> HIDE DEF p
  <2>5. ASSUME NEW a \in Address
        PROVE  /\ a \in Nat
               /\ p <= a /\ a < p + Width =>
                    memory'[a] = ColourLine[a - p] /\ a - p \in 0 .. Width - 1
               /\ ~(p <= a /\ a < p + Width) => memory'[a] = memory[a]
    BY <2>1, <2>2, LineWritten
  <2>6. ASSUME NEW a \in Address, a \notin AreaOf(c)
        PROVE  memory'[a] = memory[a]
    <3>1. ~(p <= a /\ a < p + Width)
      BY <2>1, <2>2, <2>5, <2>6, Sizes DEF AreaOf
    <3> QED BY <2>5, <3>1
  <2>7. ASSUME NEW a \in Address, p <= a, a < p + Width
        PROVE  memory'[a] = ColourAt(c, a)
    <3>1. PICK f \in Nat : p = 4 * f
      <4>1. p % 4 = 0
        <5>1. At(Position) % 4 = 0 /\ p = At(Position)
          BY <2>2, PixelInFrame DEF At
        <5> QED BY <5>1
      <4> QED BY <2>2, <4>1
    <3>2. a \in Nat /\ (a - p) % 4 = a % 4 /\ a - p \in 0 .. Width - 1
      BY <2>5, <2>7, <3>1
    <3>3. memory'[a] = ColourLine[a - p]
      BY <2>5, <2>7
    <3> QED BY <2>1, <3>2, <3>3 DEF ColourLine, ColourAt
  <2>8. ASSUME NEW a \in Address, a \notin disputed,
               FrameAddr <= a, a < NextAddress'
        PROVE  memory'[a] = ColourAt(c', a)
    <3>1. ColourAt(c', a) = ColourAt(c, a)
      BY <2>1, <2>3 DEF ColourAt
    <3>2. CASE a < p
      BY <2>1, <2>2, <2>5, <2>8, <3>1, <3>2 DEF Cleared, p
    <3>3. CASE ~(a < p)
      BY <2>2, <2>4, <2>5, <2>7, <2>8, <3>1, <3>3
    <3> QED BY <3>2, <3>3
  <2>9. DOMAIN memory' = Address
    BY <2>1 DEF WriteLine
  <2> QED BY <2>1, <2>6, <2>8, <2>9 DEF Cleared
<1> QED BY <1>1, <1>2, <1>3, <1>4 DEF RunCycle, Rest

(* Memory goes on to hold bytes, if the command has a colour.              *)
LEMMA BytesDrawn ==
  ASSUME WholeLines, Control, memory \in [Address -> 0 .. Base - 1],
         c.colour \in Nat, RunCycle(FALSE), state = "WORKING"
  PROVE  memory' \in [Address -> 0 .. Base - 1] /\ c'.colour \in Nat
<1>1. CASE Pixel
  <2>1. memory' = WriteWord(memory, NextAddress, c.colour) /\ c' = c
    BY <1>1 DEF Pixel
  <2>2. NextAddress \in Nat
    <3>1. c.xpos \in Nat /\ c.ypos \in Nat
      BY AtWork DEF Command
    <3> QED BY <3>1, Sizes DEF NextAddress, PixelAddress
  <2>3. PICK w : w = NextAddress - (NextAddress % 4)
    OBVIOUS
  <2>4. w \in Nat
    BY <2>2, <2>3
  <2>5. ASSUME NEW a \in Address
        PROVE  (IF a \in w .. w + 3 THEN ByteOf(c.colour, a - w)
                ELSE memory[a]) \in 0 .. Base - 1
    <3>1. a \in w .. w + 3 => a - w \in 0 .. 3
      BY <2>4
    <3> QED BY <3>1, ByteType
  <2> QED BY <2>1, <2>3, <2>5 DEF WriteWord
<1>2. CASE ClearLine
  <2>1. /\ c.operation = "CLEAR" /\ c.ypos < FrameHeight
        /\ memory' = WriteLine(memory, NextAddress, ColourLine)
    BY <1>2 DEF ClearLine, Works
  <2>2. NextAddress \in Nat
    BY <2>1, ClearLineFits
  <2>3. \A k \in 0 .. Width - 1 : 4 - 1 - (k % 4) \in 0 .. 3
    BY Sizes
  <2>4. ColourLine \in [0 .. Width - 1 -> 0 .. Base - 1]
    BY <2>3, ByteType DEF ColourLine
  <2> QED BY <1>2, <2>1, <2>2, <2>4, LineWrittenType, ControlClearLine
<1>3. CASE ClearEnds \/ Crash
  BY <1>3 DEF ClearEnds, Crash
<1> QED BY <1>1, <1>2, <1>3 DEF RunCycle, Rest
=============================================================================
