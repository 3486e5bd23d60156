----------------------------- MODULE DmaProofs ------------------------------
(***************************************************************************)
(* Proofs about the DMA engine on its bench, for every size of memory and  *)
(* of lines, and every alignment and length of the commands that lie       *)
(* within memory.                                                          *)
(***************************************************************************)
EXTENDS DmaBench, MemoryProofs

Words == Base * Base * Base * Base

WithinMemory(x) ==
  /\ x.operation \in {"COPY", "SET"}
  /\ x.dest \in Nat /\ x.source \in Nat \cup {Garbage}
  /\ x.length \in Nat \ {0} /\ x.dest + x.length < MemSize
  /\ x.operation = "COPY" =>
       x.source # Garbage /\ x.source + x.length <= MemSize

(* The commands considered: within memory, of which every address fits in  *)
(* a word.  A set needs no source.                                         *)
Proper == (\A x \in Commands : WithinMemory(x)) /\ MemSize < Words
-----------------------------------------------------------------------------
(* How many bytes have been written and read, by where the pointers are.   *)
Done(p, start) == IF p <= start THEN 0 ELSE p - start

(* The same for a pointer one line on, which may be behind the range.      *)
DoneNext(p, start, length) ==
  IF p + Width < start + length THEN (p + Width) - start ELSE length

Written == Done(write_pointer, c.dest)
Read == IF read_pointer < c.source + c.length
        THEN Done(read_pointer, c.source) ELSE c.length

(* The pointers of a command at work.                                      *)
Pointers ==
  /\ write_pointer \in Nat /\ write_pointer % Width = 0
  /\ write_pointer < c.dest + c.length
  /\ LineOf(c.dest) <= write_pointer
  /\ c.operation = "COPY" =>
       /\ read_pointer \in Nat /\ read_pointer % Width = 0
       /\ LineOf(c.source) <= read_pointer

(* The buffer holds what has been read and not been written.               *)
Buffered ==
  /\ Written <= Read /\ active_buffer_size = Read - Written
  /\ active_buffer_size < 2 * Width
  /\ active_buffer_valid <=> Read > 0
  /\ active_buffer_valid => active_buffer_address = c.source + Written

(* Nothing is left in the buffers.                                         *)
Emptied ==
  ~active_buffer_valid /\ active_buffer_size = 0

Working ==
  /\ Pointers
  /\ c.operation = "COPY" => Buffered
  /\ c.operation = "SET" =>
       Emptied /\ (fetched_writeback_data_valid => ~WholeLine)

Types ==
  /\ state \in {"IDLE", "WORKING", "FINISHED", "CRASHED"}
  /\ fetched_writeback_data_valid \in BOOLEAN
  /\ active_buffer_valid \in BOOLEAN
  /\ active_buffer_size \in Nat
  /\ active_buffer_address \in Nat

Control ==
  /\ Types
  /\ state # "IDLE" => c \in Commands
  /\ state = "CRASHED" =>
       c.operation = "SET" /\ c.dest % Width # 0 /\ Emptied
  /\ state = "WORKING" => Working
  /\ state \in {"IDLE", "FINISHED"} =>
       Emptied /\ ~fetched_writeback_data_valid
  /\ state = "FINISHED" =>
       /\ write_pointer \in Nat /\ c.dest + c.length <= write_pointer
       /\ write_pointer % Width = 0 /\ write_pointer < c.dest + c.length + Width
       /\ c.operation = "COPY" => active_buffer_address = c.source + c.length
-----------------------------------------------------------------------------
USE DEF c

LEMMA WordsType == Words \in Nat \ {0}
  BY MemoryAssumption DEF Words

(* The ends of a command within memory are its ends in words.              *)
LEMMA Ends ==
  ASSUME Proper, c \in Commands
  PROVE  /\ WithinMemory(c) /\ c.dest \in Nat
         /\ c.length \in Nat \ {0} /\ c.dest + c.length < MemSize
         /\ MemSize \in Nat \ {0} /\ Width \in Nat \ {0}
         /\ DestEnd = c.dest + c.length
         /\ c.operation = "COPY" =>
              c.source \in Nat /\ SourceEnd = c.source + c.length
<1>1. \A a \in Nat, w \in Nat \ {0} : a < w => a % w = a
  OBVIOUS
<1>2. WithinMemory(c) /\ MemSize < Words
  BY DEF Proper
<1>3. c.dest + c.length \in Nat /\ c.dest + c.length < Words
  BY <1>2, WordsType, MemoryAssumption DEF WithinMemory
<1>4. DestEnd = c.dest + c.length
  BY <1>1, <1>3, WordsType DEF DestEnd, After, Words
<1>5. ASSUME c.operation = "COPY" PROVE SourceEnd = c.source + c.length
  <2>1. c.source + c.length \in Nat /\ c.source + c.length < Words
    BY <1>2, <1>5, WordsType, MemoryAssumption DEF WithinMemory
  <2> QED BY <1>1, <2>1, WordsType DEF SourceEnd, After, Words
<1> QED BY <1>2, <1>4, <1>5, MemoryAssumption DEF WithinMemory
-----------------------------------------------------------------------------
LEMMA ControlInit == BenchInit => Control
<1> SUFFICES ASSUME BenchInit PROVE Control
  OBVIOUS
<1>1. /\ state = "IDLE" /\ fetched_writeback_data_valid = FALSE
      /\ active_buffer_valid = FALSE
      /\ active_buffer_address = 0 /\ active_buffer_size = 0
  BY DEF BenchInit, Init
<1> QED BY <1>1 DEF Control, Types, Emptied

(* A command is taken: both pointers are at the beginning of a line.       *)
LEMMA ControlSubmit ==
  ASSUME Proper, Control, state # "CRASHED", NEW x \in Commands, Submit(x)
  PROVE  Control'
<1>1. /\ state # "WORKING" /\ state # "CRASHED" /\ c' = x
      /\ write_pointer' = LineOf(x.dest) /\ read_pointer' = SourceLine(x)
      /\ UNCHANGED <<memory, buffer, fetched>>
      /\ state' = IF Accepts(x) THEN "WORKING" ELSE "CRASHED"
  BY DEF Submit
<1>2. /\ WithinMemory(x) /\ MemSize < Words
  BY DEF Proper
<1>3. x.dest \in Nat /\ x.length \in Nat \ {0}
      /\ x.dest + x.length < MemSize /\ MemSize \in Nat
  BY <1>2, MemoryAssumption DEF WithinMemory
<1>4. Accepts(x)
  <2>1. \A a \in Nat, w \in Nat \ {0} : a < w => a % w = a
    OBVIOUS
  <2>2. x.dest + x.length \in Nat /\ x.dest + x.length < Words
    BY <1>2, <1>3, WordsType
  <2>3. After(x.dest, x.length) = x.dest + x.length
    BY <2>1, <2>2, WordsType DEF After, Words
  <2> QED BY <1>3, <2>3 DEF Accepts
<1>5. /\ LineOf(x.dest) \in Nat /\ LineOf(x.dest) <= x.dest
      /\ LineOf(x.dest) % Width = 0
  BY <1>3, LineOfType
<1>6. ASSUME x.operation = "COPY"
      PROVE  /\ x.source \in Nat /\ read_pointer' = LineOf(x.source)
             /\ LineOf(x.source) \in Nat /\ LineOf(x.source) <= x.source
             /\ LineOf(x.source) % Width = 0
  <2>1. x.source \in Nat /\ x.source # Garbage
    BY <1>2, <1>6 DEF WithinMemory
  <2> QED BY <1>1, <2>1, LineOfType DEF SourceLine
<1>7. Types' /\ Emptied' /\ ~fetched_writeback_data_valid'
  BY <1>1 DEF Control, Types, Emptied, buffer, fetched
<1>8. Pointers'
  BY <1>1, <1>3, <1>5, <1>6 DEF Pointers
<1>9. ASSUME x.operation = "COPY" PROVE Buffered'
  <2>1. Read' = 0 /\ Written' = 0
    BY <1>1, <1>3, <1>5, <1>6, <1>9 DEF Read, Written, Done
  <2> QED BY <1>7, <2>1, MemoryAssumption DEF Buffered, Emptied
<1> QED BY <1>1, <1>4, <1>7, <1>8, <1>9 DEF Control, Working
-----------------------------------------------------------------------------
(* What the part of a line is that lies in a range: from where the pointer *)
(* was in the range to where it is behind the line.                        *)
LEMMA PartOfLine ==
  ASSUME NEW p \in Nat, NEW start \in Nat, NEW length \in Nat \ {0},
         p < start + length, start < p + Width
  PROVE  LET done  == Done(p, start)
             done2 == DoneNext(p, start, length)
             s     == Start(p, start)
             e     == End(p, start + length)
         IN  /\ s \in 0 .. Width - 1 /\ e \in 1 .. Width /\ s < e
             /\ done \in 0 .. length - 1 /\ done2 \in 1 .. length
             /\ done2 = done + (e - s)
             /\ p + s = start + done /\ p + e = start + done2
<1> DEFINE done  == Done(p, start)
           done2 == DoneNext(p, start, length)
           s     == Start(p, start)
           e     == End(p, start + length)
<1>1. /\ s = IF start > p THEN start - p ELSE 0
      /\ e = IF p + Width >= start + length THEN (start + length) - p ELSE Width
  BY DEF Start, End
<1>2. /\ done = IF p <= start THEN 0 ELSE p - start
      /\ done2 = IF p + Width < start + length THEN (p + Width) - start
                                               ELSE length
  BY DEF Done, DoneNext
<1>3. Width \in Nat \ {0}
  BY MemoryAssumption
<1> HIDE DEF done, done2, s, e
<1>4. /\ s \in 0 .. Width - 1 /\ e \in 1 .. Width /\ s < e
      /\ done \in 0 .. length - 1 /\ done2 \in 1 .. length
      /\ done2 = done + (e - s)
      /\ p + s = start + done /\ p + e = start + done2
  <2>1. CASE p <= start /\ p + Width < start + length
    BY <1>1, <1>2, <1>3, <2>1
  <2>2. CASE p <= start /\ p + Width >= start + length
    BY <1>1, <1>2, <1>3, <2>2
  <2>3. CASE p > start /\ p + Width < start + length
    BY <1>1, <1>2, <1>3, <2>3
  <2>4. CASE p > start /\ p + Width >= start + length
    BY <1>1, <1>2, <1>3, <2>4
  <2> QED BY <1>3, <2>1, <2>2, <2>3, <2>4
<1> QED BY <1>4 DEF done, done2, s, e

(* No assertion fails while a command is worked on.                        *)
LEMMA NothingFails ==
  ASSUME Proper, Control, state = "WORKING"
  PROVE  /\ ~Fails
         /\ c.operation = "COPY" /\ ~AddToBuffer => active_buffer_valid
<1>1. /\ c \in Commands /\ Working /\ Types
  BY DEF Control
<1>2. /\ c.dest \in Nat /\ c.length \in Nat \ {0}
      /\ MemSize \in Nat \ {0} /\ Width \in Nat \ {0}
      /\ DestEnd = c.dest + c.length
      /\ c.operation = "COPY" =>
           /\ c.source \in Nat /\ c.source + c.length <= MemSize
           /\ SourceEnd = c.source + c.length
  BY <1>1, Ends DEF WithinMemory
<1>3. ~(write_pointer >= DestEnd)
  BY <1>1, <1>2 DEF Working, Pointers
<1>4. ASSUME c.operation = "COPY", AddToBuffer PROVE LineAccess(read_pointer)
  <2>1. /\ read_pointer \in Nat /\ read_pointer % Width = 0
        /\ read_pointer < MemSize
    BY <1>1, <1>2, <1>4 DEF AddToBuffer, Working, Pointers
  <2> QED BY <2>1, LineFits
<1>5. ASSUME c.operation = "COPY", ~AddToBuffer
      PROVE  /\ active_buffer_valid
             /\ ~(active_buffer_size < Width /\ read_pointer < SourceEnd)
             /\ ~(active_buffer_address < c.source)
             /\ ~(active_buffer_address + active_buffer_size
                    >= SourceEnd + Width)
  <2>1. Buffered /\ read_pointer \in Nat /\ write_pointer \in Nat
    BY <1>1, <1>5 DEF Working, Pointers
  <2>2. Read \in 0 .. c.length /\ Written \in Nat
    BY <1>2, <1>5, <2>1 DEF Read, Written, Done
  <2>3. active_buffer_size >= Width \/ read_pointer >= SourceEnd
    BY <1>1, <1>2, <1>5, <2>1 DEF AddToBuffer, Types
  <2>4. Read > 0
    BY <1>2, <1>5, <2>1, <2>2, <2>3 DEF Buffered, Read, Done
  <2> QED BY <1>2, <1>5, <2>1, <2>2, <2>3, <2>4 DEF Buffered, AddToBuffer
<1> QED BY <1>3, <1>4, <1>5 DEF Fails

(* What a command at work is known to be.                                  *)
LEMMA AtWork ==
  ASSUME Proper, Control, state = "WORKING"
  PROVE  /\ write_pointer \in Nat /\ c.dest < write_pointer + Width
         /\ write_pointer < c.dest + c.length
         /\ c \in Commands /\ Working /\ Types /\ Pointers
         /\ c.dest \in Nat /\ c.length \in Nat \ {0}
         /\ Width \in Nat \ {0}
         /\ DestEnd = c.dest + c.length
         /\ c.operation = "COPY" =>
              /\ read_pointer \in Nat /\ c.source < read_pointer + Width
              /\ c.source \in Nat /\ SourceEnd = c.source + c.length
              /\ Buffered
<1>1. /\ c \in Commands /\ Working /\ Types /\ Pointers
      /\ c.operation = "COPY" => Buffered
  BY DEF Control, Working
<1>2. /\ c.dest \in Nat /\ c.length \in Nat \ {0}
      /\ Width \in Nat \ {0}
      /\ DestEnd = c.dest + c.length
      /\ c.operation = "COPY" =>
           c.source \in Nat /\ SourceEnd = c.source + c.length
  BY <1>1, Ends
<1>3. LineOf(c.dest) \in Nat /\ c.dest < LineOf(c.dest) + Width
  BY <1>2, LineOfType
<1>4. /\ write_pointer \in Nat /\ LineOf(c.dest) <= write_pointer
      /\ write_pointer < c.dest + c.length
  BY <1>1 DEF Pointers
<1>5. c.dest < write_pointer + Width
  BY <1>2, <1>3, <1>4
<1>6. ASSUME c.operation = "COPY"
      PROVE  read_pointer \in Nat /\ c.source < read_pointer + Width
  <2>1. LineOf(c.source) \in Nat /\ c.source < LineOf(c.source) + Width
    BY <1>2, <1>6, LineOfType
  <2>2. read_pointer \in Nat /\ LineOf(c.source) <= read_pointer
    BY <1>1, <1>6 DEF Pointers
  <2> QED BY <1>2, <1>6, <2>1, <2>2
<1> QED BY <1>1, <1>2, <1>4, <1>5, <1>6

(* The buffer has what is to be written into the line at the pointer.      *)
LEMMA EnoughBuffered ==
  ASSUME Proper, Control, state = "WORKING", c.operation = "COPY", ~AddToBuffer
  PROVE  /\ DoneNext(write_pointer, c.dest, c.length) <= Read
         /\ Read <= c.length /\ Read \in Nat
<1> DEFINE s == Start(write_pointer, c.dest)
           e == End(write_pointer, c.dest + c.length)
           more == DoneNext(write_pointer, c.dest, c.length)
<1>1. /\ Types /\ Buffered
      /\ c.dest \in Nat /\ c.source \in Nat /\ c.length \in Nat \ {0}
      /\ Width \in Nat \ {0} /\ SourceEnd = c.source + c.length
      /\ write_pointer \in Nat /\ c.dest < write_pointer + Width
      /\ write_pointer < c.dest + c.length /\ read_pointer \in Nat
  BY AtWork
<1>2. /\ s \in 0 .. Width - 1 /\ e \in 1 .. Width /\ s < e
      /\ Written \in 0 .. c.length - 1 /\ more \in 1 .. c.length
      /\ more = Written + (e - s)
  BY <1>1, PartOfLine DEF Written
<1> HIDE DEF s, e, more
<1>3. active_buffer_size >= Width \/ read_pointer >= c.source + c.length
  BY <1>1 DEF AddToBuffer, Types
<1>4. Read \in 0 .. c.length
  BY <1>1 DEF Read, Done
<1>5. CASE active_buffer_size >= Width
  <2>1. more <= Read
    BY <1>1, <1>2, <1>4, <1>5 DEF Buffered
  <2> QED BY <1>4, <2>1 DEF more
<1>6. CASE read_pointer >= c.source + c.length
  <2>1. Read = c.length
    BY <1>1, <1>6 DEF Read
  <2>2. more <= Read
    BY <1>1, <1>2, <2>1
  <2> QED BY <1>4, <2>2 DEF more
<1> QED BY <1>3, <1>5, <1>6

(* A pointer that moves a line on is still at the beginning of a line.     *)
LEMMA PointerOn ==
  ASSUME NEW p \in Nat, p % Width = 0, NEW a \in Nat, LineOf(a) <= p
  PROVE  /\ p + Width \in Nat /\ (p + Width) % Width = 0
         /\ LineOf(a) <= p + Width
<1>1. LineOf(a) \in Nat /\ Width \in Nat
  BY LineOfType, MemoryAssumption
<1> QED BY <1>1, NextLine

LEMMA ControlCopyRead ==
  ASSUME Proper, Control, CopyRead
  PROVE  Control'
<1> DEFINE s == Start(read_pointer, c.source)
           e == End(read_pointer, c.source + c.length)
           more == DoneNext(read_pointer, c.source, c.length)
<1>1. /\ state = "WORKING" /\ c.operation = "COPY" /\ AddToBuffer
      /\ UNCHANGED <<working_command, state, write_pointer, fetched>>
  BY DEF CopyRead, Works
<1>2. /\ c \in Commands /\ Working /\ Types /\ Pointers /\ Buffered
      /\ c.dest \in Nat /\ c.source \in Nat /\ c.length \in Nat \ {0}
      /\ Width \in Nat \ {0}
      /\ DestEnd = c.dest + c.length /\ SourceEnd = c.source + c.length
      /\ write_pointer \in Nat
      /\ read_pointer \in Nat /\ c.source < read_pointer + Width
  BY <1>1, AtWork
<1>3. /\ read_pointer' = read_pointer + Width
      /\ active_buffer_valid' = TRUE
      /\ active_buffer_address' =
           IF active_buffer_valid THEN active_buffer_address ELSE c.source
      /\ active_buffer_size' = active_buffer_size + (e - s)
  BY <1>2 DEF CopyRead
<1>4. read_pointer < c.source + c.length /\ active_buffer_size < Width
  BY <1>1, <1>2 DEF AddToBuffer
<1>5. Read = Done(read_pointer, c.source)
  BY <1>4 DEF Read
<1>6. /\ s \in 0 .. Width - 1 /\ e \in 1 .. Width /\ s < e
      /\ Read \in 0 .. c.length - 1 /\ more \in 1 .. c.length
      /\ more = Read + (e - s)
  BY <1>2, <1>4, <1>5, PartOfLine
<1>7. Read' = more /\ Written' = Written
  <2>1. Written' = Written
    BY <1>1 DEF Written
  <2>2. ~(read_pointer + Width <= c.source)
    BY <1>2
  <2>3. Read' = more
    BY <1>1, <1>3, <2>2 DEF Read, Done, DoneNext
  <2> QED BY <2>1, <2>3
<1> HIDE DEF s, e, more
<1>8. Pointers'
  <2>1. /\ read_pointer' \in Nat /\ read_pointer' % Width = 0
        /\ LineOf(c.source) <= read_pointer'
    BY <1>1, <1>2, <1>3, PointerOn DEF Pointers
  <2> QED BY <1>1, <1>2, <2>1 DEF Pointers
<1>9. Written \in Nat /\ active_buffer_size \in Nat
  BY <1>2 DEF Written, Done, Types
<1>10. Types'
  BY <1>1, <1>2, <1>3, <1>6, <1>9 DEF Types, fetched
<1>11. Buffered'
  <2>1. Written' <= Read' /\ active_buffer_size' = Read' - Written'
    BY <1>2, <1>3, <1>6, <1>7, <1>9 DEF Buffered
  <2>2. active_buffer_size' < 2 * Width
    BY <1>2, <1>3, <1>4, <1>6, <1>9
  <2>3. Read' > 0
    BY <1>6, <1>7
  <2>4. active_buffer_address' = c.source + Written
    <3>1. CASE active_buffer_valid
      BY <1>2, <1>3, <3>1 DEF Buffered
    <3>2. CASE ~active_buffer_valid
      <4>1. Written = 0
        BY <1>2, <1>6, <1>9, <3>2 DEF Buffered
      <4> QED BY <1>2, <1>3, <3>2, <4>1
    <3> QED BY <3>1, <3>2
  <2> QED BY <1>1, <1>3, <1>7, <2>1, <2>2, <2>3, <2>4 DEF Buffered
<1> QED BY <1>1, <1>2, <1>8, <1>10, <1>11 DEF Control, Working

LEMMA ControlCopyWrite ==
  ASSUME Proper, Control, CopyWrite
  PROVE  Control'
<1> DEFINE s == Start(write_pointer, c.dest)
           e == End(write_pointer, c.dest + c.length)
           more == DoneNext(write_pointer, c.dest, c.length)
<1>1. /\ state = "WORKING" /\ c.operation = "COPY" /\ ~AddToBuffer
      /\ UNCHANGED <<working_command, read_pointer>>
      /\ fetched_writeback_data_valid' = FALSE
  BY DEF CopyWrite, Works
<1>2. /\ c \in Commands /\ Working /\ Types /\ Pointers /\ Buffered
      /\ c.dest \in Nat /\ c.source \in Nat /\ c.length \in Nat \ {0}
      /\ Width \in Nat \ {0}
      /\ DestEnd = c.dest + c.length /\ SourceEnd = c.source + c.length
      /\ write_pointer \in Nat /\ c.dest < write_pointer + Width
      /\ write_pointer < c.dest + c.length
      /\ read_pointer \in Nat /\ active_buffer_valid
  BY <1>1, AtWork, NothingFails
<1>3. /\ write_pointer' = write_pointer + Width
      /\ state' = IF write_pointer' >= c.dest + c.length
                   THEN "FINISHED" ELSE "WORKING"
      /\ active_buffer_address' = active_buffer_address + (e - s)
      /\ active_buffer_size' = active_buffer_size - (e - s)
      /\ active_buffer_valid' = (active_buffer_valid /\ state' # "FINISHED")
  BY <1>1, <1>2 DEF CopyWrite, Advance, WriteStart, WriteEnd
<1>4. /\ s \in 0 .. Width - 1 /\ e \in 1 .. Width /\ s < e
      /\ Written \in 0 .. c.length - 1 /\ more \in 1 .. c.length
      /\ more = Written + (e - s)
  BY <1>2, PartOfLine DEF Written
<1>5. /\ write_pointer + Width < c.dest + c.length =>
           more = (write_pointer + Width) - c.dest
      /\ ~(write_pointer + Width < c.dest + c.length) => more = c.length
  BY DEF DoneNext
<1> HIDE DEF s, e, more
<1>6. more <= Read /\ Read <= c.length /\ Read \in Nat
  BY <1>1, EnoughBuffered DEF more
<1>7. /\ active_buffer_size' = Read - more
      /\ active_buffer_address' = c.source + more
  BY <1>2, <1>3, <1>4, <1>6 DEF Buffered
<1>8. /\ write_pointer' \in Nat /\ write_pointer' % Width = 0
      /\ LineOf(c.dest) <= write_pointer'
  BY <1>2, <1>3, PointerOn DEF Pointers
<1>9. Types'
  <2>1. active_buffer_size' \in Nat /\ active_buffer_address' \in Nat
    BY <1>2, <1>4, <1>6, <1>7
  <2> QED BY <1>1, <1>2, <1>3, <2>1 DEF Types
<1>10. CASE write_pointer' >= c.dest + c.length
  <2>1. state' = "FINISHED" /\ ~active_buffer_valid'
    BY <1>3, <1>10
  <2>2. more = c.length
    BY <1>2, <1>3, <1>5, <1>10
  <2>3. Emptied' /\ active_buffer_address' = c.source + c.length
    BY <1>2, <1>6, <1>7, <2>1, <2>2 DEF Emptied
  <2>4. /\ c.dest + c.length <= write_pointer'
        /\ write_pointer' < c.dest + c.length + Width
    BY <1>2, <1>3, <1>8, <1>10
  <2> QED BY <1>1, <1>2, <1>8, <1>9, <2>1, <2>3, <2>4 DEF Control
<1>11. CASE ~(write_pointer' >= c.dest + c.length)
  <2>1. state' = "WORKING" /\ active_buffer_valid'
    BY <1>1, <1>2, <1>3, <1>11
  <2>2. write_pointer' < c.dest + c.length
    BY <1>2, <1>8, <1>11
  <2>3. Pointers'
    BY <1>1, <1>2, <1>8, <2>2 DEF Pointers
  <2>4. Read' = Read
    BY <1>1 DEF Read
  <2>5. Written' = more
    <3>1. Written' = (write_pointer + Width) - c.dest
      <4>1. ~(write_pointer + Width <= c.dest)
        BY <1>2
      <4> QED BY <1>1, <1>3, <4>1 DEF Written, Done
    <3> QED BY <1>3, <1>5, <2>2, <3>1
  <2>6. active_buffer_size' < 2 * Width
    <3>1. active_buffer_size < 2 * Width /\ active_buffer_size \in Nat
      BY <1>2 DEF Buffered, Types
    <3> QED BY <1>2, <1>3, <1>4, <3>1
  <2>7. Read > 0
    BY <1>4, <1>6
  <2>8. Buffered'
    BY <1>1, <1>6, <1>7, <2>1, <2>4, <2>5, <2>6, <2>7 DEF Buffered
  <2> QED BY <1>1, <1>2, <1>9, <2>1, <2>3, <2>8 DEF Control, Working
<1> QED BY <1>10, <1>11

LEMMA ControlCopyFetch ==
  ASSUME Proper, Control, CopyFetch
  PROVE  Control'
<1>1. /\ state = "WORKING" /\ c.operation = "COPY"
      /\ UNCHANGED <<working_command, state, write_pointer, read_pointer,
                     active_buffer_valid, active_buffer_address,
                     active_buffer_size>>
      /\ fetched_writeback_data_valid' = TRUE
  BY DEF CopyFetch, Works, buffer
<1>2. /\ c \in Commands /\ Types /\ Pointers /\ Buffered
  BY <1>1, AtWork
<1>3. Types' /\ Pointers'
  BY <1>1, <1>2 DEF Types, Pointers
<1>4. Buffered'
  BY <1>1, <1>2 DEF Buffered, Read, Written
<1> QED BY <1>1, <1>2, <1>3, <1>4 DEF Control, Working

(* A line of a set is written, and nothing fetched is left.                *)
LEMMA ControlSetAdvance ==
  ASSUME Proper, Control, state = "WORKING", c.operation = "SET", Advance,
         ~fetched_writeback_data_valid',
         fetched_writeback_data_valid' \in BOOLEAN,
         UNCHANGED <<working_command, read_pointer, buffer>>
  PROVE  Control'
<1>1. /\ c \in Commands /\ Working /\ Types /\ Pointers
      /\ c.dest \in Nat /\ c.length \in Nat \ {0} /\ Width \in Nat \ {0}
      /\ DestEnd = c.dest + c.length
      /\ write_pointer \in Nat /\ write_pointer < c.dest + c.length
  BY AtWork
<1>2. /\ write_pointer' = write_pointer + Width
      /\ state' = IF write_pointer' >= c.dest + c.length
                   THEN "FINISHED" ELSE "WORKING"
  BY <1>1 DEF Advance
<1>3. /\ write_pointer' \in Nat /\ write_pointer' % Width = 0
      /\ LineOf(c.dest) <= write_pointer'
  BY <1>1, <1>2, PointerOn DEF Pointers
<1>4. Types' /\ Emptied'
  BY <1>1, <1>2 DEF Types, Emptied, Working, buffer
<1>5. CASE write_pointer' >= c.dest + c.length
  <2>1. /\ c.dest + c.length <= write_pointer'
        /\ write_pointer' < c.dest + c.length + Width
    BY <1>1, <1>2, <1>3, <1>5
  <2> QED BY <1>1, <1>2, <1>3, <1>4, <1>5, <2>1 DEF Control
<1>6. CASE ~(write_pointer' >= c.dest + c.length)
  <2>1. write_pointer' < c.dest + c.length
    BY <1>1, <1>3, <1>6
  <2>2. Pointers'
    BY <1>1, <1>3, <2>1 DEF Pointers
  <2> QED BY <1>1, <1>2, <1>4, <1>6, <2>2 DEF Control, Working
<1> QED BY <1>5, <1>6

LEMMA ControlSet ==
  ASSUME Proper, Control, Set
  PROVE  Control'
<1>1. /\ state = "WORKING" /\ c.operation = "SET"
      /\ UNCHANGED <<working_command, read_pointer, buffer>>
  BY DEF Set, SetWhole, SetFetch, SetPart, SetCrash, Works
<1>2. /\ c \in Commands /\ Working /\ Types /\ Pointers /\ Emptied
      /\ fetched_writeback_data_valid => ~WholeLine
      /\ c.dest \in Nat /\ write_pointer \in Nat
  BY <1>1, AtWork DEF Working
<1>3. CASE SetWhole
  <2>1. ~fetched_writeback_data_valid' /\ fetched_writeback_data_valid' \in BOOLEAN
    BY <1>2, <1>3 DEF SetWhole, fetched, Types
  <2> QED BY <1>1, <1>3, <2>1, ControlSetAdvance DEF SetWhole
<1>4. CASE SetPart
  <2>1. ~fetched_writeback_data_valid' /\ fetched_writeback_data_valid' \in BOOLEAN
    BY <1>4 DEF SetPart
  <2> QED BY <1>1, <1>4, <2>1, ControlSetAdvance DEF SetPart
<1>5. CASE SetFetch
  <2>1. /\ fetched_writeback_data_valid' = TRUE /\ ~WholeLine
        /\ UNCHANGED <<state, write_pointer>>
    BY <1>5 DEF SetFetch
  <2>2. Types' /\ Pointers' /\ Emptied'
    BY <1>1, <1>2, <2>1 DEF Types, Pointers, Emptied, buffer
  <2>3. ~WholeLine'
    BY <1>1, <2>1 DEF WholeLine, Remaining, DestEnd, After
  <2> QED BY <1>1, <1>2, <2>1, <2>2, <2>3 DEF Control, Working
<1>6. CASE SetCrash
  <2>1. state' = "CRASHED" /\ write_pointer < c.dest /\ UNCHANGED fetched
    BY <1>6 DEF SetCrash
  <2>2. c.dest % Width # 0
    <3>1. SUFFICES ASSUME c.dest % Width = 0 PROVE FALSE
      OBVIOUS
    <3>2. LineOf(c.dest) = c.dest
      BY <1>2, <3>1, LineOfType
    <3> QED BY <1>2, <2>1, <3>2 DEF Pointers
  <2>3. Types' /\ Emptied'
    BY <1>1, <1>2, <2>1 DEF Types, Emptied, buffer, fetched
  <2> QED BY <1>1, <1>2, <2>1, <2>2, <2>3 DEF Control
<1> QED BY <1>3, <1>4, <1>5, <1>6 DEF Set

LEMMA ControlRest ==
  ASSUME Control, state # "CRASHED", NEW first, Rest(first)
  PROVE  Control'
<1>1. /\ state' = IF state = "FINISHED" THEN "IDLE" ELSE state
      /\ UNCHANGED <<working_command, write_pointer, read_pointer,
                     active_buffer_valid, active_buffer_address,
                     active_buffer_size, fetched_writeback_data_valid>>
  BY DEF Rest, buffer, fetched
<1>2. Types' /\ (Emptied <=> Emptied')
  BY <1>1 DEF Control, Types, Emptied
<1>3. Working => Working'
  <2>1. Pointers => Pointers'
    BY <1>1 DEF Pointers
  <2>2. Buffered => Buffered'
    BY <1>1 DEF Buffered, Read, Written
  <2>3. WholeLine <=> WholeLine'
    BY <1>1 DEF WholeLine, Remaining, DestEnd, After
  <2> QED BY <1>1, <1>2, <2>1, <2>2, <2>3 DEF Working
<1>4. CASE state = "FINISHED"
  BY <1>1, <1>2, <1>4 DEF Control
<1>5. CASE state # "FINISHED"
  BY <1>1, <1>2, <1>3, <1>5 DEF Control
<1> QED BY <1>4, <1>5

(* A call of run_cycle, whatever memory holds.                             *)
LEMMA ControlRun ==
  ASSUME Proper, Control, state # "CRASHED", NEW first, RunCycle(first)
  PROVE  Control'
<1>1. ~Crash
  BY NothingFails DEF Crash
<1> QED
  BY <1>1, ControlRest, ControlCopyRead, ControlCopyFetch, ControlCopyWrite,
     ControlSet
     DEF RunCycle, Copy

LEMMA ControlKept ==
  ASSUME Control,
         UNCHANGED <<state, working_command, write_pointer, read_pointer,
                     active_buffer_valid, active_buffer_address,
                     active_buffer_size, fetched_writeback_data_valid>>
  PROVE  Control'
BY DEF Control, Types, Emptied, Working, Pointers, Buffered, Read, Written,
       WholeLine, Remaining, DestEnd, After

LEMMA ControlNext ==
  ASSUME Proper, Control, [Next]_vars
  PROVE  Control'
<1>1. CASE \E x \in Commands : Take(x)
  BY <1>1, ControlSubmit DEF Take, Turn
<1>2. ASSUME UNCHANGED engine PROVE Control'
  BY <1>2, ControlKept DEF engine, buffer, fetched
<1>3. CASE Run
  BY <1>3, ControlRun DEF Run, Turn
<1> QED BY <1>1, <1>2, <1>3 DEF Next, NoSubmit, vars
-----------------------------------------------------------------------------
(***************************************************************************)
(* The steps of a command, by what they do to the pointers and to the line *)
(* that is fetched, for the modules that count them.                       *)
(***************************************************************************)
(* The line at p is covered in part.                                       *)
Cut(p) == p < c.dest \/ p + Width > c.dest + c.length

(* Only such a line is fetched.                                            *)
FetchedCut ==
  state = "WORKING" /\ fetched_writeback_data_valid => Cut(write_pointer)

ReadStep ==
  /\ c.operation = "COPY" /\ read_pointer < c.source + c.length
  /\ read_pointer' = read_pointer + Width /\ state' = "WORKING"
  /\ UNCHANGED <<write_pointer, fetched_writeback_data_valid>>

FetchStep ==
  /\ Cut(write_pointer) /\ state' = "WORKING"
  /\ ~fetched_writeback_data_valid /\ fetched_writeback_data_valid'
  /\ UNCHANGED <<write_pointer, read_pointer>>

WriteStep ==
  /\ fetched_writeback_data_valid <=> Cut(write_pointer)
  /\ ~fetched_writeback_data_valid'
  /\ write_pointer' = write_pointer + Width /\ UNCHANGED read_pointer
  /\ state' = IF write_pointer' >= c.dest + c.length THEN "FINISHED"
              ELSE "WORKING"
  /\ state' = "FINISHED" /\ c.operation = "COPY" =>
       read_pointer >= c.source + c.length

LEMMA Parts ==
  ASSUME NEW p \in Nat, NEW start \in Nat, NEW end \in Nat
  PROVE  (p < start \/ p + Width > end)
           <=> ~(Start(p, start) = 0 /\ (End(p, end) = Width))
BY MemoryAssumption DEF Start, End

LEMMA CopySteps ==
  ASSUME Proper, Control, FetchedCut, Copy
  PROVE  ReadStep \/ FetchStep \/ WriteStep
<1>1. /\ state = "WORKING" /\ c.operation = "COPY"
  BY DEF Copy, CopyRead, CopyFetch, CopyWrite, Works
<1>2. /\ write_pointer \in Nat /\ write_pointer < c.dest + c.length
      /\ c.dest < write_pointer + Width /\ c.source < read_pointer + Width
      /\ read_pointer \in Nat /\ Types /\ Buffered
      /\ c.dest \in Nat /\ c.source \in Nat /\ c.length \in Nat \ {0}
      /\ Width \in Nat \ {0}
      /\ DestEnd = c.dest + c.length /\ SourceEnd = c.source + c.length
  BY <1>1, AtWork
<1>3. Cut(write_pointer) <=> ~(WriteStart = 0 /\ WriteEnd = Width)
  BY <1>2, Parts DEF Cut, WriteStart, WriteEnd
<1>4. CASE CopyRead
  BY <1>1, <1>2, <1>4 DEF CopyRead, AddToBuffer, ReadStep, fetched
<1>5. CASE CopyFetch
  BY <1>1, <1>3, <1>5 DEF CopyFetch, NeedsFetch, FetchStep
<1>6. CASE CopyWrite
  <2>1. fetched_writeback_data_valid <=> Cut(write_pointer)
    BY <1>1, <1>3, <1>6 DEF CopyWrite, NeedsFetch, FetchedCut
  <2>2. /\ ~fetched_writeback_data_valid'
        /\ write_pointer' = write_pointer + Width /\ UNCHANGED read_pointer
        /\ state' = IF write_pointer' >= c.dest + c.length THEN "FINISHED"
                    ELSE "WORKING"
    BY <1>1, <1>2, <1>6 DEF CopyWrite, Advance
  <2>3. ASSUME write_pointer' >= c.dest + c.length
        PROVE  read_pointer >= c.source + c.length
    <3>1. DoneNext(write_pointer, c.dest, c.length) <= Read
      BY <1>1, <1>6, EnoughBuffered DEF CopyWrite
    <3>2. Read >= c.length
      BY <1>2, <2>2, <2>3, <3>1 DEF DoneNext, Read, Done
    <3> QED BY <1>2, <3>2 DEF Read, Done
  <2>4. write_pointer' >= c.dest + c.length \/ state' = "WORKING"
    BY <2>2
  <2> QED BY <2>1, <2>2, <2>3, <2>4 DEF WriteStep
<1> QED BY <1>4, <1>5, <1>6 DEF Copy

LEMMA SetSteps ==
  ASSUME Proper, Control, FetchedCut, Set, ~SetCrash
  PROVE  FetchStep \/ WriteStep
<1>1. /\ state = "WORKING" /\ c.operation = "SET"
  BY DEF Set, SetWhole, SetFetch, SetPart, SetCrash, Works
<1>2. /\ write_pointer \in Nat /\ write_pointer < c.dest + c.length
      /\ Types
      /\ fetched_writeback_data_valid => ~WholeLine
      /\ c.dest \in Nat /\ c.length \in Nat \ {0} /\ Width \in Nat \ {0}
      /\ DestEnd = c.dest + c.length
  BY <1>1, AtWork DEF Working
<1>3. Cut(write_pointer) <=> ~WholeLine
  BY <1>2 DEF Cut, WholeLine, Remaining
<1>4. CASE SetFetch
  BY <1>1, <1>3, <1>4 DEF SetFetch, FetchStep
<1>5. ASSUME Advance, ~fetched_writeback_data_valid', UNCHANGED read_pointer,
             fetched_writeback_data_valid <=> ~WholeLine
      PROVE  WriteStep
  <2>1. fetched_writeback_data_valid <=> Cut(write_pointer)
    BY <1>3, <1>5
  <2>2. /\ write_pointer' = write_pointer + Width
        /\ state' = IF write_pointer' >= c.dest + c.length THEN "FINISHED"
                    ELSE "WORKING"
    BY <1>1, <1>2, <1>5 DEF Advance
  <2> QED BY <1>1, <1>5, <2>1, <2>2 DEF WriteStep
<1>6. CASE SetWhole
  BY <1>2, <1>5, <1>6 DEF SetWhole, fetched
<1>7. CASE SetPart
  BY <1>5, <1>7 DEF SetPart
<1> QED BY <1>4, <1>6, <1>7 DEF Set

(* A call of run_cycle that works is one of these, and keeps FetchedCut.   *)
LEMMA WorkSteps ==
  ASSUME Proper, Control, FetchedCut, state = "WORKING",
         RunCycle(FALSE), state' # "CRASHED"
  PROVE  /\ ReadStep \/ FetchStep \/ WriteStep
         /\ UNCHANGED working_command /\ FetchedCut'
<1>1. ~Crash /\ ~SetCrash
  BY DEF Crash, SetCrash
<1>2. Copy \/ Set
  BY <1>1 DEF RunCycle, Rest
<1>3. ReadStep \/ FetchStep \/ WriteStep
  BY <1>1, <1>2, CopySteps, SetSteps
<1>4. UNCHANGED working_command
  BY <1>2 DEF Copy, CopyRead, CopyFetch, CopyWrite, Set, SetWhole, SetFetch,
              SetPart, SetCrash, Works
<1>6. FetchedCut'
  BY <1>3, <1>4 DEF ReadStep, FetchStep, WriteStep, FetchedCut, Cut
<1> QED BY <1>3, <1>4, <1>6
-----------------------------------------------------------------------------
LEMMA ControlAsserts ==
  ASSUME Proper, Control PROVE AssertionsHold
<1>1. Width \in Nat \ {0}
  BY MemoryAssumption
<1>2. active_buffer_size <= 2 * Width
  <2>1. CASE state = "WORKING" /\ c.operation = "COPY"
    BY <1>1, <2>1 DEF Control, Working, Buffered, Types
  <2>2. CASE ~(state = "WORKING" /\ c.operation = "COPY")
    <3>1. state = "WORKING" => c.operation = "SET"
      BY <2>2, Ends DEF Control, WithinMemory
    <3>2. active_buffer_size = 0
      BY <3>1 DEF Control, Types, Working, Emptied
    <3> QED BY <1>1, <3>2
  <2> QED BY <2>1, <2>2
<1>3. ASSUME state = "FINISHED"
      PROVE  /\ ~fetched_writeback_data_valid /\ active_buffer_size = 0
             /\ c.operation = "COPY" => active_buffer_address = SourceEnd
  BY <1>3, Ends DEF Control, Emptied
<1> QED BY <1>2, <1>3 DEF AssertionsHold, Control

(* For commands within memory the assertions of the engine hold, whatever  *)
(* the alignment of source and destination and whatever the commands       *)
(* before left behind, except where a set starts inside a line; and the    *)
(* buffer of two lines is never overrun.                                   *)
THEOREM EngineAsserts ==
  ASSUME Proper
  PROVE  Spec => []AssertionsHold
BY ControlInit, ControlNext, ControlAsserts, PTL DEF Spec
-----------------------------------------------------------------------------
(***************************************************************************)
(* The bytes that are written.  The numbers above say how much has been    *)
(* read and written; what follows says what the bytes are, for any         *)
(* contents of memory and buffers.                                         *)
(***************************************************************************)

(* A byte of the destination that is behind the write pointer.             *)
Behind(a) == InRange(a) /\ a < write_pointer

Bounded ==
  state # "IDLE" =>
    /\ write_pointer \in Nat /\ write_pointer % Width = 0
    /\ write_pointer < c.dest + c.length + Width

(* A copy has changed nothing but what is behind.                          *)
CopyKept ==
  state # "IDLE" /\ c.operation = "COPY" =>
    \A a \in Address : ~Behind(a) => memory[a] = before[a]

(* A set has changed nothing but the lines behind.                         *)
SetKept ==
  state # "IDLE" /\ c.operation = "SET" =>
    \A a \in Address :
      ~(LineOf(c.dest) <= a /\ a < write_pointer) => memory[a] = before[a]

(* What is behind is as it is to be.                                       *)
BehindWritten ==
  state \in {"WORKING", "FINISHED"} /\ ~Smears =>
    \A a \in Address : Behind(a) => memory[a] = Intended(a)

(* The buffer has the bytes of the source that follow those written.       *)
SourceBuffered ==
  state = "WORKING" /\ c.operation = "COPY" /\ ~Smears =>
    \A k \in 0 .. active_buffer_size - 1 :
      active_buffer[k] = before[c.source + (Written + k)]

(* The line fetched is the line at the write pointer as it still is.       *)
LineFetched ==
  state = "WORKING" /\ c.operation = "COPY" /\ fetched_writeback_data_valid =>
    \A k \in 0 .. Width - 1 :
      fetched_writeback_data[k] = memory[write_pointer + k]

Contents ==
  /\ Bounded /\ CopyKept /\ SetKept
  /\ BehindWritten /\ SourceBuffered /\ LineFetched

ByteInv == Control /\ TypeOK /\ Contents
-----------------------------------------------------------------------------
USE DEF c

(* The types.                                                              *)
LEMMA TypeTake ==
  ASSUME Proper, TypeOK, MaxCommands \in Nat, NEW x \in Commands, Take(x),
         AssertionsHold'
  PROVE  TypeOK'
<1>1. LineOf(x.dest) \in Nat /\ SourceLine(x) \in Nat \cup {Garbage}
  <2>1. x.dest \in Nat /\ x.source \in Nat \cup {Garbage}
    BY DEF Proper, WithinMemory
  <2> QED BY <2>1, LineOfType DEF SourceLine
<1>2. /\ write_pointer' = LineOf(x.dest) /\ read_pointer' = SourceLine(x)
      /\ UNCHANGED <<memory, buffer, fetched>>
      /\ state' \in {"WORKING", "CRASHED"} /\ fresh' = TRUE /\ turn' = "run"
      /\ before' = memory /\ commands' = commands + 1 /\ commands < MaxCommands
  BY DEF Take, Submit, Turn
<1>3. commands' \in 0 .. MaxCommands
  BY <1>2 DEF TypeOK
<1> QED BY <1>1, <1>2, <1>3 DEF TypeOK, buffer, fetched

LEMMA TypeRun ==
  ASSUME Proper, Control, TypeOK, Run, Control', AssertionsHold'
  PROVE  TypeOK'
<1>1. /\ turn' = "submit" /\ fresh' = FALSE /\ UNCHANGED <<commands, before>>
      /\ RunCycle(fresh) /\ ~Crash /\ state # "CRASHED"
  BY NothingFails DEF Run, Turn, Crash
<1>2. /\ active_buffer_size' \in 0 .. 2 * Width
      /\ state' \in {"IDLE", "WORKING", "FINISHED", "CRASHED"}
      /\ fetched_writeback_data_valid' \in BOOLEAN
      /\ active_buffer_valid' \in BOOLEAN /\ active_buffer_address' \in Nat
  <2>1. /\ active_buffer_size' \in Nat
        /\ active_buffer_size' <= 2 * Width /\ Width \in Nat
    BY MemoryAssumption DEF Control, Types, AssertionsHold
  <2>2. active_buffer_size' \in 0 .. 2 * Width
    BY <2>1
  <2> QED BY <2>2 DEF Control, Types
<1> DEFINE Line == [0 .. Width - 1 -> Byte]
           Buffer == [0 .. 2 * Width - 1 -> Byte]
<1>3. /\ memory' \in [Address -> Byte]
      /\ write_pointer' \in Nat \cup {Garbage}
      /\ read_pointer' \in Nat \cup {Garbage}
      /\ fetched_writeback_data' \in Line /\ active_buffer' \in Buffer
  <2>0. /\ memory \in [Address -> Byte]
        /\ write_pointer \in Nat \cup {Garbage}
        /\ read_pointer \in Nat \cup {Garbage}
        /\ fetched_writeback_data \in Line /\ active_buffer \in Buffer
    BY DEF TypeOK
  <2>1. CASE Rest(fresh)
    BY <2>0, <2>1 DEF Rest, buffer, fetched
  <2>2. ASSUME state = "WORKING"
        PROVE  /\ write_pointer \in Nat /\ write_pointer + Width \in Nat
               /\ c \in Commands /\ c.value \in Byte
               /\ c.operation = "COPY" =>
                    /\ read_pointer \in Nat /\ read_pointer + Width \in Nat
                    /\ AddToBuffer => LineAccess(read_pointer)
               /\ LineAccess(write_pointer)
    <3>1. /\ write_pointer \in Nat /\ c \in Commands
          /\ c.operation = "COPY" => read_pointer \in Nat
          /\ write_pointer % Width = 0 /\ write_pointer < c.dest + c.length
      BY <2>2, AtWork DEF Pointers
    <3>2. write_pointer < MemSize
      BY <3>1, Ends
    <3>3. c.operation = "COPY" /\ AddToBuffer => LineAccess(read_pointer)
      BY <2>2, NothingFails DEF Fails
    <3> QED BY <3>1, <3>2, <3>3, LineFits, MemoryAssumption DEF Byte
  <2>3. CASE CopyRead
    <3>1. /\ UNCHANGED <<memory, write_pointer, fetched_writeback_data>>
          /\ read_pointer' = read_pointer + Width
          /\ state = "WORKING" /\ c.operation = "COPY" /\ AddToBuffer
      BY <2>3 DEF CopyRead, Works, fetched
    <3> DEFINE s == Start(read_pointer, c.source)
               n == End(read_pointer, SourceEnd) - s
               old == active_buffer_size
               line == ReadLine(memory, read_pointer)
    <3>2. active_buffer' = [k \in DOMAIN active_buffer |->
                              IF k \in old .. old + n - 1
                              THEN line[s + (k - old)] ELSE active_buffer[k]]
      BY <2>3 DEF CopyRead
    <3>3. line \in Line
      BY <2>0, <2>2, <3>1, LineReadType
    <3>4. s \in Nat /\ n \in Int /\ s + n <= Width /\ old \in Nat
      <4>1. /\ read_pointer \in Nat /\ c.source \in Nat /\ Width \in Nat
            /\ SourceEnd = c.source + c.length /\ c.length \in Nat
            /\ old \in Nat
        BY <3>1, AtWork DEF Types
      <4> QED BY <4>1 DEF Start, End
    <3> HIDE DEF s, n, old, line
    <3>5. active_buffer' \in Buffer
      <4>1. ASSUME NEW k \in 0 .. 2 * Width - 1
            PROVE  (IF k \in old .. old + n - 1
                    THEN line[s + (k - old)] ELSE active_buffer[k]) \in Byte
        <5>1. k \in old .. old + n - 1 => s + (k - old) \in 0 .. Width - 1
          BY <3>4, MemoryAssumption
        <5> QED BY <2>0, <3>3, <4>1, <5>1
      <4> QED BY <2>0, <3>2, <4>1
    <3> QED BY <2>0, <2>2, <3>1, <3>5
  <2>4. CASE CopyFetch \/ SetFetch
    <3>1. /\ UNCHANGED <<memory, write_pointer, read_pointer, active_buffer>>
          /\ state = "WORKING"
          /\ fetched_writeback_data' = ReadLine(memory, write_pointer)
      BY <2>4 DEF CopyFetch, SetFetch, Works, buffer
    <3> QED BY <2>0, <2>2, <3>1, LineReadType
  <2>5. CASE CopyWrite
    <3>1. /\ UNCHANGED read_pointer /\ state = "WORKING"
          /\ write_pointer' = write_pointer + Width
          /\ memory' = WriteLine(memory, write_pointer, fetched_writeback_data')
      BY <2>5 DEF CopyWrite, Works, Advance
    <3> DEFINE s == WriteStart
               e == WriteEnd
    <3> HIDE DEF s, e
    <3>2. /\ fetched_writeback_data' =
               [k \in DOMAIN fetched_writeback_data |->
                  IF k \in s .. e - 1 THEN active_buffer[k - s]
                                      ELSE fetched_writeback_data[k]]
          /\ active_buffer' = [k \in DOMAIN active_buffer |->
                                 active_buffer[(k + (e - s)) % (2 * Width)]]
      BY <2>5 DEF CopyWrite, s, e
    <3>3. s \in Nat /\ e \in 0 .. Width /\ e - s \in Nat
      <4>1. /\ DestEnd = c.dest + c.length /\ c.dest \in Nat
            /\ c.length \in Nat \ {0}
            /\ write_pointer < c.dest + c.length
            /\ c.dest < write_pointer + Width
        BY <3>1, AtWork
      <4>2. /\ s = Start(write_pointer, c.dest)
            /\ e = End(write_pointer, c.dest + c.length)
        BY <4>1 DEF WriteStart, WriteEnd, s, e
      <4>3. s \in 0 .. Width - 1 /\ e \in 1 .. Width /\ s < e
        BY <2>2, <3>1, <4>1, <4>2, PartOfLine
      <4> QED BY <4>3, MemoryAssumption
    <3>4. fetched_writeback_data' \in Line
      <4>1. ASSUME NEW k \in 0 .. Width - 1
            PROVE  (IF k \in s .. e - 1 THEN active_buffer[k - s]
                    ELSE fetched_writeback_data[k]) \in Byte
        <5>1. k \in s .. e - 1 => k - s \in 0 .. 2 * Width - 1
          BY <3>3, MemoryAssumption
        <5> QED BY <2>0, <5>1
      <4> QED BY <2>0, <3>2, <4>1
    <3>5. active_buffer' \in Buffer
      <4>1. \A k \in 0 .. 2 * Width - 1 :
              (k + (e - s)) % (2 * Width) \in 0 .. 2 * Width - 1
        <5>1. 2 * Width \in Nat \ {0}
          BY MemoryAssumption
        <5>2. \A k \in 0 .. 2 * Width - 1 : k + (e - s) \in Nat
          BY <3>3, <5>1
        <5> QED BY <5>1, <5>2, Division
      <4> QED BY <2>0, <3>2, <4>1
    <3>6. memory' \in [Address -> Byte]
      BY <2>0, <2>2, <3>1, <3>4, LineWrittenType
    <3> QED BY <2>0, <2>2, <3>1, <3>4, <3>5, <3>6
  <2>6. CASE SetWhole \/ SetPart
    <3>1. /\ UNCHANGED <<read_pointer, active_buffer>> /\ state = "WORKING"
          /\ write_pointer' = write_pointer + Width
          /\ memory' = WriteLine(memory, write_pointer, ValueLine)
      BY <2>6 DEF SetWhole, SetPart, Works, Advance, buffer
    <3>2. ValueLine \in Line
      BY <2>2, <3>1 DEF ValueLine
    <3>3. memory' \in [Address -> Byte]
      BY <2>0, <2>2, <3>1, <3>2, LineWrittenType
    <3>4. fetched_writeback_data' \in Line
      BY <2>0, <2>2, <2>6, <3>1 DEF SetWhole, SetPart, fetched
    <3> QED BY <2>0, <2>2, <3>1, <3>3, <3>4
  <2>7. CASE SetCrash
    BY <2>0, <2>7 DEF SetCrash, buffer, fetched
  <2> QED BY <1>1, <2>1, <2>3, <2>4, <2>5, <2>6, <2>7 DEF RunCycle, Copy, Set
<1>4. before' \in [Address -> Byte] /\ commands' \in 0 .. MaxCommands
  BY <1>1 DEF TypeOK
<1> QED BY <1>1, <1>2, <1>3, <1>4 DEF TypeOK

LEMMA TypeNext ==
  ASSUME Proper, MaxCommands \in Nat, Control, TypeOK, [Next]_vars,
         Control', AssertionsHold'
  PROVE  TypeOK'
<1>1. CASE \E x \in Commands : Take(x)
  BY <1>1, TypeTake
<1>2. CASE Run
  BY <1>2, TypeRun
<1>3. CASE NoSubmit \/ UNCHANGED vars
  <2>1. UNCHANGED <<engine, commands, before, fresh>>
    BY <1>3 DEF NoSubmit, vars
  <2>2. turn' \in {"submit", "run"}
    BY <1>3 DEF NoSubmit, Turn, vars, TypeOK
  <2> QED BY <2>1, <2>2 DEF TypeOK, engine, buffer, fetched
<1> QED BY <1>1, <1>2, <1>3 DEF Next
-----------------------------------------------------------------------------
(* The contents.                                                           *)
LEMMA ContentsTake ==
  ASSUME Proper, Control, NEW x \in Commands, Take(x)
  PROVE  Contents'
<1>1. /\ c' = x /\ memory' = memory /\ before' = memory
      /\ write_pointer' = LineOf(x.dest)
      /\ active_buffer_size' = active_buffer_size
      /\ fetched_writeback_data_valid' = fetched_writeback_data_valid
      /\ state \notin {"WORKING", "CRASHED"}
  BY DEF Take, Turn, Submit, buffer, fetched
<1>2. active_buffer_size' = 0 /\ ~fetched_writeback_data_valid'
  BY <1>1 DEF Control, Types, Emptied
<1>3. x.dest \in Nat /\ x.length \in Nat /\ Width \in Nat \ {0}
  BY MemoryAssumption DEF Proper, WithinMemory
<1>4. /\ LineOf(x.dest) \in Nat /\ LineOf(x.dest) % Width = 0
      /\ LineOf(x.dest) <= x.dest
  BY <1>3, LineOfType
<1>5. Bounded'
  BY <1>1, <1>3, <1>4 DEF Bounded
<1>6. \A a \in Address : ~Behind(a)'
  BY <1>1, <1>3, <1>4 DEF Behind, InRange, Address
<1>7. CopyKept' /\ SetKept'
  BY <1>1 DEF CopyKept, SetKept
<1>8. BehindWritten'
  BY <1>6 DEF BehindWritten
<1>9. SourceBuffered'
  <2>1. \A k \in 0 .. active_buffer_size' - 1 : FALSE
    BY <1>2
  <2> QED BY <2>1 DEF SourceBuffered
<1>10. LineFetched'
  BY <1>2 DEF LineFetched
<1> QED BY <1>5, <1>7, <1>8, <1>9, <1>10 DEF Contents

(* Nothing but the state changes, and no command is begun.                 *)
LEMMA ContentsSame ==
  ASSUME Contents,
         state' \in {state, "IDLE"} \/ (state' = "CRASHED" /\ state # "IDLE"),
         UNCHANGED <<memory, before, working_command, write_pointer, buffer,
                     fetched>>
  PROVE  Contents'
<1>1. \A a : Behind(a)' <=> Behind(a)
  BY DEF Behind, InRange
<1>2. Smears' <=> Smears
  BY DEF Smears, InRange
<1>3. \A a : Intended(a)' = Intended(a)
  BY DEF Intended
<1>4. Bounded' /\ CopyKept' /\ SetKept'
  BY <1>1 DEF Contents, Bounded, CopyKept, SetKept
<1>5. BehindWritten'
  BY <1>1, <1>2, <1>3 DEF Contents, BehindWritten
<1>6. SourceBuffered'
  BY <1>2 DEF Contents, SourceBuffered, Written, buffer
<1>7. LineFetched'
  BY DEF Contents, LineFetched, fetched
<1> QED BY <1>4, <1>5, <1>6, <1>7 DEF Contents

(* Where the source is not overwritten before it is read, it is read as it *)
(* was when the command was taken.                                         *)
LEMMA SourceIntact ==
  ASSUME Proper, Control, Contents, state = "WORKING", c.operation = "COPY",
         ~Smears, NEW j \in Nat, Read <= j, j < c.length
  PROVE  c.source + j \in Address /\ memory[c.source + j] = before[c.source + j]
<1> DEFINE x == c.source + j
<1>1. /\ c.dest \in Nat /\ c.source \in Nat /\ c.length \in Nat \ {0}
      /\ write_pointer \in Nat /\ read_pointer \in Nat /\ Buffered
      /\ c \in Commands
  BY AtWork
<1>2. c.source + c.length <= MemSize /\ MemSize \in Nat
  BY <1>1, Ends DEF WithinMemory
<1>3. x \in Address
  BY <1>1, <1>2 DEF Address
<1>4. Written \in Nat /\ Read \in Nat /\ Written <= Read
  BY <1>1 DEF Written, Read, Done, Buffered
<1>5. ~Behind(x)
  <2> SUFFICES ASSUME c.dest <= x, x < c.dest + c.length, x < write_pointer
               PROVE  FALSE
    BY <1>1 DEF Behind, InRange
  <2>1. write_pointer = c.dest + Written
    BY <1>1 DEF Written, Done
  <2>2. c.source < c.dest
    BY <1>1, <1>4, <2>1
  <2>3. ~(c.dest <= c.source + c.length - 1)
    BY <1>1, <2>2 DEF Smears, InRange
  <2> QED BY <1>1, <2>3
<1> QED BY <1>3, <1>5 DEF Contents, CopyKept

LEMMA ContentsCopyRead ==
  ASSUME Proper, Control, TypeOK, Contents, CopyRead, before' = before
  PROVE  Contents'
<1> DEFINE s == Start(read_pointer, c.source)
           e == End(read_pointer, c.source + c.length)
           n == e - s
           old == active_buffer_size
           line == ReadLine(memory, read_pointer)
<1>1. /\ state = "WORKING" /\ c.operation = "COPY" /\ AddToBuffer
      /\ UNCHANGED <<memory, working_command, state, write_pointer,
                     fetched_writeback_data_valid, fetched_writeback_data>>
  BY DEF CopyRead, Works, fetched
<1>2. /\ c.source \in Nat /\ c.length \in Nat \ {0}
      /\ Width \in Nat \ {0} /\ SourceEnd = c.source + c.length
      /\ read_pointer \in Nat /\ c.source < read_pointer + Width
      /\ write_pointer \in Nat /\ c.dest \in Nat
      /\ Buffered /\ old \in Nat
  BY <1>1, AtWork DEF Types
<1>3. /\ active_buffer_size' = old + n
      /\ active_buffer' = [k \in DOMAIN active_buffer |->
                             IF k \in old .. old + n - 1
                             THEN line[s + (k - old)] ELSE active_buffer[k]]
  BY <1>2 DEF CopyRead
<1>4. read_pointer < c.source + c.length /\ old < Width
  BY <1>1, <1>2 DEF AddToBuffer
<1>5. Read = Done(read_pointer, c.source)
  BY <1>4 DEF Read
<1>6. /\ s \in 0 .. Width - 1 /\ n \in 1 .. Width /\ s + n <= Width
      /\ Read \in 0 .. c.length - 1
      /\ Read + n <= c.length
      /\ read_pointer + s = c.source + Read
  <2> DEFINE more == DoneNext(read_pointer, c.source, c.length)
  <2>0. /\ read_pointer \in Nat /\ c.source \in Nat /\ c.length \in Nat \ {0}
        /\ read_pointer < c.source + c.length
        /\ c.source < read_pointer + Width
    BY <1>2, <1>4
  <2> DEFINE done == Done(read_pointer, c.source)
  <2>1. /\ s \in 0 .. Width - 1 /\ e \in 1 .. Width /\ s < e
        /\ done \in 0 .. c.length - 1 /\ more \in 1 .. c.length
        /\ more = done + (e - s)
        /\ read_pointer + s = c.source + done
    BY <2>0, PartOfLine
  <2>2. Read = done
    BY <1>5
  <2> HIDE DEF s, e, more, done
  <2> QED BY <1>2, <2>1, <2>2
<1>7. Written \in Nat /\ old = Read - Written
  BY <1>2 DEF Written, Done, Buffered
<1> HIDE DEF s, e, n, line
<1>8. SourceBuffered'
  <2>1. Smears' <=> Smears
    BY <1>1 DEF Smears, InRange
  <2>2. Written' = Written
    BY <1>1 DEF Written
  <2> DEFINE Right(k) == active_buffer'[k] = before[c.source + (Written + k)]
  <2> SUFFICES ASSUME ~Smears, NEW k \in 0 .. active_buffer_size' - 1
               PROVE  Right(k)
    BY <1>1, <2>1, <2>2 DEF SourceBuffered
  <2>0. k \in 0 .. old + n - 1
    BY <1>2, <1>3, <1>6
  <2>3. k \in DOMAIN active_buffer
    BY <1>2, <1>4, <1>6, <2>0 DEF TypeOK
  <2>4. CASE k < old
    <3>1. active_buffer'[k] = active_buffer[k]
      BY <1>2, <1>3, <2>0, <2>3, <2>4
    <3> QED BY <1>1, <1>2, <2>0, <2>4, <3>1 DEF Contents, SourceBuffered
  <2>5. CASE k >= old
    <3> DEFINE j == Written + k
    <3>1. /\ s + (k - old) \in 0 .. Width - 1
          /\ j \in Nat /\ Read <= j /\ j < c.length
          /\ read_pointer + (s + (k - old)) = c.source + j
      <4>1. j = Read + (k - old) /\ k - old \in 0 .. n - 1
        BY <1>2, <1>6, <1>7, <2>0, <2>5
      <4> QED BY <1>2, <1>6, <4>1
    <3>2. active_buffer'[k] = line[s + (k - old)]
      <4>1. k \in old .. old + n - 1
        BY <1>2, <1>6, <2>0, <2>5
      <4> QED BY <1>3, <2>3, <4>1
    <3>3. line[s + (k - old)] = memory[c.source + j]
      BY <1>2, <3>1, LineRead DEF line
    <3> QED BY <1>1, <3>1, <3>2, <3>3, SourceIntact
  <2> QED BY <1>2, <1>6, <2>0, <2>4, <2>5
<1>9. Bounded' /\ CopyKept' /\ SetKept' /\ LineFetched' /\ BehindWritten'
  <2>1. /\ \A a : Behind(a)' <=> Behind(a)
        /\ \A a : Intended(a)' = Intended(a)
        /\ Smears' <=> Smears
    BY <1>1 DEF Behind, InRange, Intended, Smears
  <2> QED
    BY <1>1, <2>1 DEF Contents, Bounded, CopyKept, SetKept, LineFetched,
                      BehindWritten
<1> QED BY <1>8, <1>9 DEF Contents

LEMMA ContentsCopyFetch ==
  ASSUME Proper, Control, Contents, CopyFetch, before' = before
  PROVE  Contents'
<1>1. /\ state = "WORKING"
      /\ UNCHANGED <<memory, working_command, state, write_pointer, buffer>>
      /\ fetched_writeback_data' = ReadLine(memory, write_pointer)
      /\ write_pointer \in Nat
  BY AtWork DEF CopyFetch, Works
<1>2. LineFetched'
  BY <1>1, LineRead DEF LineFetched
<1>3. /\ \A a : Behind(a)' <=> Behind(a)
      /\ \A a : Intended(a)' = Intended(a)
      /\ Smears' <=> Smears
  BY <1>1 DEF Behind, InRange, Intended, Smears
<1>4. Bounded' /\ CopyKept' /\ SetKept' /\ BehindWritten' /\ SourceBuffered'
  BY <1>1, <1>3 DEF Contents, Bounded, CopyKept, SetKept, BehindWritten,
                    SourceBuffered, Written, buffer
<1> QED BY <1>2, <1>4 DEF Contents

(* What is behind the write pointer when it moves a line on: what was      *)
(* behind before, and the part of the line that lies in the range.         *)
LEMMA BehindNext ==
  ASSUME Proper, Control, state = "WORKING", write_pointer' = write_pointer + Width,
         UNCHANGED working_command, NEW a \in Address
  PROVE  LET s == Start(write_pointer, c.dest)
             e == End(write_pointer, c.dest + c.length)
         IN  /\ ~(write_pointer <= a /\ a < write_pointer + Width) =>
                  (Behind(a)' <=> Behind(a))
             /\ write_pointer <= a /\ a < write_pointer + Width =>
                  /\ ~Behind(a)
                  /\ Behind(a)' <=> a - write_pointer \in s .. e - 1
                  /\ Behind(a)' =>
                       Written + ((a - write_pointer) - s) = a - c.dest
<1> DEFINE s == Start(write_pointer, c.dest)
           e == End(write_pointer, c.dest + c.length)
<1>1. /\ write_pointer \in Nat /\ c.dest \in Nat /\ c.length \in Nat \ {0}
      /\ write_pointer < c.dest + c.length /\ c.dest < write_pointer + Width
      /\ Width \in Nat \ {0}
  BY AtWork
<1>2. a \in Nat
  BY DEF Address
<1>3. /\ s \in 0 .. Width - 1 /\ e \in 1 .. Width /\ s < e
      /\ write_pointer + s = c.dest + Written
      /\ Written \in 0 .. c.length - 1
  BY <1>1, PartOfLine DEF Written
<1>4. /\ s = IF c.dest > write_pointer THEN c.dest - write_pointer ELSE 0
      /\ e = IF write_pointer + Width >= c.dest + c.length
             THEN (c.dest + c.length) - write_pointer ELSE Width
  BY DEF Start, End
<1> HIDE DEF s, e
<1>5. /\ Behind(a) <=> c.dest <= a /\ a < c.dest + c.length /\ a < write_pointer
      /\ Behind(a)' <=> /\ c.dest <= a /\ a < c.dest + c.length
                        /\ a < write_pointer + Width
  BY <1>1, <1>2 DEF Behind, InRange
<1>6. ASSUME ~(write_pointer <= a /\ a < write_pointer + Width)
      PROVE  Behind(a)' <=> Behind(a)
  BY <1>1, <1>2, <1>5, <1>6
<1>7. ASSUME write_pointer <= a, a < write_pointer + Width
      PROVE  /\ ~Behind(a)
             /\ Behind(a)' <=> a - write_pointer \in s .. e - 1
             /\ Written + ((a - write_pointer) - s) = a - c.dest
  <2>1. ~Behind(a)
    BY <1>1, <1>2, <1>5, <1>7
  <2>2. c.dest <= a <=> s <= a - write_pointer
    BY <1>1, <1>2, <1>4, <1>7
  <2>3. a < c.dest + c.length <=> a - write_pointer < e
    BY <1>1, <1>2, <1>4, <1>7
  <2>4. Behind(a)' <=> a - write_pointer \in s .. e - 1
    BY <1>1, <1>2, <1>3, <1>5, <1>7, <2>2, <2>3
  <2>5. Written + ((a - write_pointer) - s) = a - c.dest
    BY <1>1, <1>2, <1>3
  <2> QED BY <2>1, <2>4, <2>5
<1> QED BY <1>6, <1>7 DEF s, e

LEMMA ContentsCopyWrite ==
  ASSUME Proper, Control, TypeOK, Contents, CopyWrite, before' = before, Control'
  PROVE  Contents'
<1> DEFINE s == Start(write_pointer, c.dest)
           e == End(write_pointer, c.dest + c.length)
           n == e - s
           p == write_pointer
           InLine(a) == p <= a /\ a < p + Width
<1>1. /\ state = "WORKING" /\ c.operation = "COPY" /\ ~AddToBuffer /\ ~NeedsFetch
      /\ UNCHANGED <<working_command, read_pointer>>
      /\ fetched_writeback_data_valid' = FALSE
      /\ write_pointer' = p + Width
      /\ memory' = WriteLine(memory, p, fetched_writeback_data')
  BY DEF CopyWrite, Works, Advance
<1>2. /\ c.dest \in Nat /\ c.source \in Nat /\ c.length \in Nat \ {0}
      /\ Width \in Nat \ {0} /\ DestEnd = c.dest + c.length
      /\ p \in Nat /\ p % Width = 0 /\ c.dest < p + Width
      /\ p < c.dest + c.length
      /\ Buffered /\ active_buffer_size \in Nat
  BY <1>1, AtWork DEF Types, Pointers
<1>3. /\ fetched_writeback_data' =
           [k \in DOMAIN fetched_writeback_data |->
              IF k \in s .. e - 1 THEN active_buffer[k - s]
                                  ELSE fetched_writeback_data[k]]
      /\ active_buffer_size' = active_buffer_size - n
      /\ active_buffer' = [k \in DOMAIN active_buffer |->
                             active_buffer[(k + n) % (2 * Width)]]
      /\ NeedsFetch <=> ~(s = 0 /\ e = Width) /\ ~fetched_writeback_data_valid
  BY <1>2 DEF CopyWrite, WriteStart, WriteEnd, NeedsFetch
<1>4. /\ s \in 0 .. Width - 1 /\ n \in 1 .. Width /\ e = s + n
      /\ e \in 1 .. Width
      /\ Written \in Nat
      /\ n <= active_buffer_size /\ active_buffer_size < 2 * Width
      /\ Written + n = DoneNext(p, c.dest, c.length)
  <2> DEFINE more == DoneNext(p, c.dest, c.length)
  <2>0. /\ p \in Nat /\ c.dest \in Nat /\ c.length \in Nat \ {0}
        /\ p < c.dest + c.length /\ c.dest < p + Width
    BY <1>2
  <2>1. /\ s \in 0 .. Width - 1 /\ e \in 1 .. Width /\ s < e
        /\ Written \in 0 .. c.length - 1 /\ more = Written + (e - s)
    BY <2>0, PartOfLine DEF Written
  <2>2. more <= Read /\ Read \in Nat
    BY <1>1, EnoughBuffered
  <2>3. active_buffer_size = Read - Written /\ active_buffer_size < 2 * Width
    BY <1>2 DEF Buffered
  <2> HIDE DEF s, e, more
  <2>4. n <= active_buffer_size /\ n \in 1 .. Width /\ e = s + n
    BY <1>2, <2>1, <2>2, <2>3
  <2> QED BY <2>1, <2>3, <2>4 DEF more
<1>5. \A a \in Address :
        /\ ~InLine(a) => (Behind(a)' <=> Behind(a)) /\ memory'[a] = memory[a]
        /\ InLine(a) => /\ a - p \in 0 .. Width - 1
                        /\ ~Behind(a)
                        /\ Behind(a)' <=> a - p \in s .. e - 1
                        /\ Behind(a)' => Written + ((a - p) - s) = a - c.dest
                        /\ memory'[a] = fetched_writeback_data'[a - p]
  <2> TAKE a \in Address
  <2>0. memory \in [Address -> Byte]
    BY DEF TypeOK
  <2>1. \A line :
          /\ ~InLine(a) => WriteLine(memory, p, line)[a] = memory[a]
          /\ InLine(a) => /\ a - p \in 0 .. Width - 1
                          /\ WriteLine(memory, p, line)[a] = line[a - p]
    BY <1>2, <2>0, LineWritten
  <2>2. /\ ~InLine(a) => memory'[a] = memory[a]
        /\ InLine(a) => /\ a - p \in 0 .. Width - 1
                        /\ memory'[a] = fetched_writeback_data'[a - p]
    BY <1>1, <2>1
  <2> QED BY <1>1, <2>2, BehindNext
<1> HIDE DEF s, e, n
<1>6. \A k \in 0 .. Width - 1 :
        /\ k \in s .. e - 1 => fetched_writeback_data'[k] = active_buffer[k - s]
        /\ k \notin s .. e - 1 => fetched_writeback_data'[k] = memory[p + k]
  <2> TAKE k \in 0 .. Width - 1
  <2>1. fetched_writeback_data'[k] =
          IF k \in s .. e - 1 THEN active_buffer[k - s]
                              ELSE fetched_writeback_data[k]
    BY <1>3 DEF TypeOK
  <2>2. ASSUME k \notin s .. e - 1 PROVE fetched_writeback_data[k] = memory[p + k]
    <3>1. ~(s = 0 /\ e = Width)
      BY <1>2, <2>2
    <3>2. fetched_writeback_data_valid
      BY <1>1, <1>3, <3>1
    <3> QED BY <1>1, <3>2 DEF Contents, LineFetched
  <2> QED BY <2>1, <2>2
<1>7. Bounded'
  <2>1. p + Width \in Nat /\ (p + Width) % Width = 0
        /\ p + Width < c.dest + c.length + Width
    BY <1>2, NextLine
  <2> QED BY <1>1, <2>1 DEF Bounded
<1>8. CopyKept'
  <2> SUFFICES ASSUME NEW a \in Address, ~Behind(a)'
               PROVE  memory'[a] = before[a]
    BY <1>1 DEF CopyKept
  <2>1. ~Behind(a) => memory[a] = before[a]
    BY <1>1 DEF Contents, CopyKept
  <2>2. CASE ~InLine(a)
    BY <1>5, <2>1, <2>2
  <2>3. CASE InLine(a)
    <3>1. /\ a - p \in 0 .. Width - 1 /\ a - p \notin s .. e - 1 /\ ~Behind(a)
          /\ memory'[a] = fetched_writeback_data'[a - p]
      BY <1>5, <2>3
    <3>2. memory'[a] = memory[p + (a - p)]
      BY <1>6, <3>1
    <3>3. p + (a - p) = a
      BY <1>2 DEF Address
    <3> QED BY <2>1, <3>1, <3>2, <3>3
  <2> QED BY <2>2, <2>3
<1>9. Smears' <=> Smears
  BY <1>1 DEF Smears, InRange
<1>10. ASSUME ~Smears
       PROVE  \A k \in 0 .. active_buffer_size - 1 :
                active_buffer[k] = before[c.source + (Written + k)]
  BY <1>1, <1>10 DEF Contents, SourceBuffered
<1>11. BehindWritten'
  <2> SUFFICES ASSUME ~Smears, NEW a \in Address, Behind(a)'
               PROVE  memory'[a] = before[c.source + (a - c.dest)]
    BY <1>1, <1>9 DEF BehindWritten, Intended
  <2>1. CASE ~InLine(a)
    <3>1. Behind(a) /\ memory'[a] = memory[a]
      BY <1>5, <2>1
    <3> QED BY <1>1, <3>1 DEF Contents, BehindWritten, Intended
  <2>2. CASE InLine(a)
    <3> DEFINE k == (a - p) - s
    <3>1. /\ a - p \in 0 .. Width - 1 /\ a - p \in s .. e - 1
          /\ Written + k = a - c.dest
          /\ memory'[a] = fetched_writeback_data'[a - p]
      BY <1>5, <2>2
    <3>2. memory'[a] = active_buffer[k]
      BY <1>6, <3>1
    <3>3. k \in 0 .. active_buffer_size - 1
      BY <1>2, <1>4, <3>1
    <3> HIDE DEF k
    <3> QED BY <1>10, <3>1, <3>2, <3>3
  <2> QED BY <2>1, <2>2
<1>12. SourceBuffered'
  <2> SUFFICES ASSUME ~Smears, state' = "WORKING",
                      NEW k \in 0 .. active_buffer_size' - 1
               PROVE  active_buffer'[k] = before[c.source + (Written' + k)]
    BY <1>1, <1>9 DEF SourceBuffered
  <2>1. k \in Nat /\ k + n \in 0 .. active_buffer_size - 1
    BY <1>2, <1>3, <1>4
  <2>2. active_buffer'[k] = active_buffer[k + n]
    <3>1. \A x \in Nat, w \in Nat : x < w => x % w = x
      OBVIOUS
    <3>2. (k + n) % (2 * Width) = k + n
      <4>1. k + n \in Nat /\ 2 * Width \in Nat /\ k + n < 2 * Width
        BY <1>2, <1>4, <2>1
      <4> QED BY <3>1, <4>1
    <3>3. k \in DOMAIN active_buffer
      BY <1>2, <1>4, <2>1 DEF TypeOK
    <3> QED BY <1>3, <3>2, <3>3
  <2>3. Written' = Written + n
    <3>1. write_pointer' < c.dest + c.length
      BY <1>1 DEF Control, Working, Pointers
    <3>2. Written + n = (p + Width) - c.dest
      BY <1>1, <1>4, <3>1 DEF DoneNext
    <3>3. ~(p + Width <= c.dest)
      BY <1>2
    <3> QED BY <1>1, <3>2, <3>3 DEF Written, Done
  <2>4. Written + (k + n) = Written' + k
    BY <1>4, <2>1, <2>3
  <2> QED BY <1>10, <2>1, <2>2, <2>4
<1>13. SetKept' /\ LineFetched'
  BY <1>1 DEF SetKept, LineFetched
<1> QED BY <1>7, <1>8, <1>11, <1>12, <1>13 DEF Contents

(* A line of a set is written.                                             *)
LEMMA ContentsSetLine ==
  ASSUME Proper, Control, TypeOK, Contents, SetWhole \/ SetPart,
         before' = before
  PROVE  Contents'
<1> DEFINE p == write_pointer
           InLine(a) == p <= a /\ a < p + Width
<1>1. /\ state = "WORKING" /\ c.operation = "SET"
      /\ UNCHANGED working_command
      /\ write_pointer' = p + Width
      /\ memory' = WriteLine(memory, p, ValueLine)
  BY DEF SetWhole, SetPart, Works, Advance
<1>2. /\ c.dest \in Nat /\ c.length \in Nat \ {0} /\ Width \in Nat \ {0}
      /\ p \in Nat /\ p % Width = 0 /\ p < c.dest + c.length
      /\ LineOf(c.dest) \in Nat /\ LineOf(c.dest) <= p
  BY <1>1, AtWork, LineOfType DEF Pointers
<1>3. \A a \in Address :
        /\ a \in Nat
        /\ ~InLine(a) => memory'[a] = memory[a]
        /\ InLine(a) => memory'[a] = c.value
  <2> TAKE a \in Address
  <2>1. memory \in [Address -> Byte] /\ p \in Nat
    BY <1>2 DEF TypeOK
  <2>2. \A line :
          /\ ~InLine(a) => WriteLine(memory, p, line)[a] = memory[a]
          /\ InLine(a) => /\ a - p \in 0 .. Width - 1
                          /\ WriteLine(memory, p, line)[a] = line[a - p]
    BY <2>1, LineWritten
  <2>3. a \in Nat
    BY DEF Address
  <2> QED BY <1>1, <2>2, <2>3 DEF ValueLine
<1>4. Bounded'
  <2>1. p + Width \in Nat /\ (p + Width) % Width = 0
        /\ p + Width < c.dest + c.length + Width
    BY <1>2, NextLine
  <2> QED BY <1>1, <2>1 DEF Bounded
<1>5. SetKept'
  <2> SUFFICES ASSUME NEW a \in Address,
                      ~(LineOf(c.dest) <= a /\ a < p + Width)
               PROVE  memory'[a] = before[a]
    BY <1>1 DEF SetKept
  <2>1. ~InLine(a) /\ ~(LineOf(c.dest) <= a /\ a < p)
    BY <1>2, <1>3
  <2> QED BY <1>1, <1>3, <2>1 DEF Contents, SetKept
<1>6. BehindWritten'
  <2> SUFFICES ASSUME NEW a \in Address, Behind(a)'
               PROVE  memory'[a] = c.value
    BY <1>1 DEF BehindWritten, Intended
  <2>1. CASE ~InLine(a)
    <3>1. Behind(a)
      BY <1>1, <1>2, <1>3, <2>1 DEF Behind, InRange
    <3>2. ~Smears
      BY <1>1 DEF Smears
    <3>3. memory[a] = c.value
      BY <1>1, <3>1, <3>2 DEF Contents, BehindWritten, Intended
    <3> QED BY <1>3, <2>1, <3>3
  <2>2. CASE InLine(a)
    BY <1>3, <2>2
  <2> QED BY <2>1, <2>2
<1>7. CopyKept' /\ SourceBuffered' /\ LineFetched'
  BY <1>1 DEF CopyKept, SourceBuffered, LineFetched
<1> QED BY <1>4, <1>5, <1>6, <1>7 DEF Contents

LEMMA ContentsSetFetch ==
  ASSUME Control, Contents, SetFetch, before' = before
  PROVE  Contents'
<1>1. /\ c.operation = "SET"
      /\ UNCHANGED <<memory, working_command, state, write_pointer>>
  BY DEF SetFetch, Works
<1>2. Bounded' /\ CopyKept' /\ SetKept'
  BY <1>1 DEF Contents, Bounded, CopyKept, SetKept, Behind, InRange
<1>3. BehindWritten'
  BY <1>1 DEF Contents, BehindWritten, Behind, InRange, Intended, Smears
<1>4. SourceBuffered' /\ LineFetched'
  BY <1>1 DEF SourceBuffered, LineFetched
<1> QED BY <1>2, <1>3, <1>4 DEF Contents

LEMMA ContentsNext ==
  ASSUME Proper, Control, TypeOK, Contents, [Next]_vars, Control'
  PROVE  Contents'
<1>1. CASE \E x \in Commands : Take(x)
  BY <1>1, ContentsTake
<1>2. CASE Run
  <2>1. RunCycle(fresh) /\ state # "CRASHED" /\ before' = before /\ ~Crash
    BY <1>2, NothingFails DEF Run, Turn, Crash
  <2>2. CASE Rest(fresh) \/ SetCrash
    <3>1. UNCHANGED <<memory, working_command, write_pointer, buffer, fetched>>
      BY <2>2 DEF Rest, SetCrash, Works
    <3>2. \/ state' \in {state, "IDLE"}
          \/ state' = "CRASHED" /\ state # "IDLE"
      BY <2>2 DEF Rest, SetCrash, Works
    <3> QED BY <2>1, <3>1, <3>2, ContentsSame
  <2> QED
    BY <2>1, <2>2, ContentsCopyRead, ContentsCopyFetch, ContentsCopyWrite,
       ContentsSetLine, ContentsSetFetch
       DEF RunCycle, Copy, Set
<1>3. CASE NoSubmit \/ UNCHANGED vars
  <2>1. UNCHANGED <<engine, before>>
    BY <1>3 DEF NoSubmit, vars
  <2> QED BY <2>1, ContentsSame DEF engine
<1> QED BY <1>1, <1>2, <1>3 DEF Next
-----------------------------------------------------------------------------
LEMMA ByteInvInit ==
  ASSUME MaxCommands \in Nat, BenchInit PROVE TypeOK /\ Contents
<1>1. state = "IDLE" /\ before = memory /\ memory = [a \in Address |-> a]
  BY DEF BenchInit, Init
<1>2. Contents
  BY <1>1 DEF Contents, Bounded, CopyKept, SetKept, BehindWritten,
              SourceBuffered, LineFetched
<1>3. memory \in [Address -> Byte]
  BY <1>1 DEF Byte
<1>4. TypeOK
  <2>1. 0 \in 0 .. 2 * Width /\ 0 \in 0 .. MaxCommands
    BY MemoryAssumption
  <2>2. Garbage \in Byte
    BY DEF Byte
  <2> QED BY <1>1, <1>3, <2>1, <2>2 DEF BenchInit, Init, TypeOK
<1> QED BY <1>2, <1>4

LEMMA ByteInvHolds ==
  ASSUME Proper, MaxCommands \in Nat
  PROVE  Spec => []ByteInv
<1>1. BenchInit => ByteInv
  BY ControlInit, ByteInvInit DEF ByteInv
<1>2. ByteInv /\ [Next]_vars /\ AssertionsHold' => ByteInv'
  BY ControlNext, TypeNext, ContentsNext DEF ByteInv
<1>3. Spec => []AssertionsHold
  BY EngineAsserts
<1> QED BY <1>1, <1>2, <1>3, PTL DEF Spec

(* Every variable of the engine keeps its type; its buffer never holds     *)
(* more than two lines.                                                    *)
THEOREM DmaTypes ==
  ASSUME Proper, MaxCommands \in Nat
  PROVE  Spec => []TypeOK
<1>1. ByteInv => TypeOK
  BY DEF ByteInv
<1> QED BY <1>1, ByteInvHolds, PTL

(* A command that has finished has filled its destination with what it was *)
(* to hold, unless it is a copy that reads what it has written.            *)
THEOREM DestinationFilled ==
  ASSUME Proper, MaxCommands \in Nat
  PROVE  Spec => []RangeWritten
<1>1. ByteInv => RangeWritten
  <2> SUFFICES ASSUME ByteInv, state = "FINISHED", ~Smears,
                      NEW a \in Address, InRange(a)
               PROVE  memory[a] = Intended(a)
    BY DEF RangeWritten
  <2>1. /\ write_pointer \in Nat /\ c.dest + c.length <= write_pointer
        /\ c \in Commands
    BY DEF ByteInv, Control
  <2>2. c.dest \in Nat /\ c.length \in Nat
    BY <2>1, Ends
  <2>3. Behind(a)
    BY <2>1, <2>2 DEF Behind, InRange
  <2> QED BY <2>3 DEF ByteInv, Contents, BehindWritten
<1> QED BY <1>1, ByteInvHolds, PTL

(* A copy changes no byte that is not of its destination, at any moment.   *)
THEOREM CopyKeeps ==
  ASSUME Proper, MaxCommands \in Nat
  PROVE  Spec => []CopyKeepsToRange
<1>1. ByteInv => CopyKeepsToRange
  BY DEF ByteInv, Contents, CopyKept, Behind, CopyKeepsToRange,
         NothingElseWritten
<1> QED BY <1>1, ByteInvHolds, PTL

(* No command changes a byte outside the lines of its destination, at any  *)
(* moment.                                                                 *)
THEOREM LinesKept ==
  ASSUME Proper, MaxCommands \in Nat
  PROVE  Spec => []OnlyItsLinesWritten
<1>1. ByteInv => OnlyItsLinesWritten
  <2> SUFFICES ASSUME ByteInv, state # "IDLE", NEW a \in Address,
                      \A b \in Address :
                        InRange(b) \/ b = c.dest => LineOf(b) # LineOf(a)
               PROVE  memory[a] = before[a]
    BY DEF OnlyItsLinesWritten
  <2>1. /\ c \in Commands /\ write_pointer \in Nat
        /\ write_pointer % Width = 0
        /\ write_pointer < c.dest + c.length + Width
    BY DEF ByteInv, Control, Contents, Bounded
  <2>2. /\ c.dest \in Nat /\ c.length \in Nat \ {0}
        /\ c.dest + c.length < MemSize /\ MemSize \in Nat
        /\ Width \in Nat \ {0} /\ a \in Nat
        /\ c.operation \in {"COPY", "SET"}
    BY <2>1, Ends DEF WithinMemory, Address
  <2>3. CASE c.operation = "COPY"
    BY <2>3 DEF ByteInv, Contents, CopyKept, Behind
  <2>4. CASE c.operation = "SET"
    <3>1. SUFFICES ASSUME LineOf(c.dest) <= a, a < write_pointer PROVE FALSE
      BY <2>4 DEF ByteInv, Contents, SetKept
    <3> DEFINE l == LineOf(a)
               d == LineOf(c.dest)
    <3>2. /\ l \in Nat /\ l % Width = 0 /\ l <= a /\ a < l + Width
          /\ d \in Nat /\ d % Width = 0 /\ d <= c.dest /\ c.dest < d + Width
          /\ LineOf(l) = l
      BY <2>2, LineOfType
    <3>3. l # d
      <4>1. c.dest \in Address
        BY <2>2 DEF Address
      <4> QED BY <4>1
    <3> HIDE DEF l, d
    <3>4. d <= a /\ a < write_pointer
      BY <3>1 DEF d
    <3>5. ~(l < d)
      BY <2>2, <3>2, <3>4, LineGap
    <3>6. d + Width <= l
      BY <3>2, <3>3, <3>5, LineGap
    <3>7. l + Width <= write_pointer
      BY <2>1, <2>2, <3>2, <3>4, LineGap
    <3>8. InRange(l) /\ l \in Address
      BY <2>1, <2>2, <3>2, <3>6, <3>7 DEF InRange, Address
    <3> QED BY <3>2, <3>8 DEF l
  <2> QED BY <2>2, <2>3, <2>4
<1> QED BY <1>1, ByteInvHolds, PTL
-----------------------------------------------------------------------------
(***************************************************************************)
(* The engine beside another one that writes the same memory.  The bytes   *)
(* of disputed may hold anything, and those of shared what the other one   *)
(* has made of them by now; r is memory as the command is to find it.      *)
(***************************************************************************)
(* What the command leaves at an address of its destination.               *)
Brought(r, a) ==
  IF c.operation = "COPY" THEN r[c.source + (a - c.dest)] ELSE c.value

(* A byte of the source that is still to be read, and for a byte that is   *)
(* not disputed.                                                           *)
Relied(disputed, a) ==
  /\ c.operation = "COPY"
  /\ \E j \in 0 .. c.length - 1 :
       Read <= j /\ a = c.source + j /\ c.dest + j \notin disputed

BehindBrought(r, disputed) ==
  \A a \in Address : a \notin disputed /\ Behind(a) => memory[a] = Brought(r, a)

RestKept(r, disputed, shared) ==
  \A a \in Address :
    a \notin disputed \cup shared /\ ~Behind(a) => memory[a] = r[a]

SourceKept(r, disputed) ==
  \A a \in Address : Relied(disputed, a) => memory[a] = r[a]

BufferRight(r, disputed) ==
  c.operation = "COPY" =>
    \A k \in 0 .. active_buffer_size - 1 :
      c.dest + (Written + k) \notin disputed =>
        active_buffer[k] = r[c.source + (Written + k)]

LineRight(disputed) ==
  c.operation = "COPY" /\ fetched_writeback_data_valid =>
    \A k \in 0 .. Width - 1 :
      write_pointer + k \notin disputed \/ Relied(disputed, write_pointer + k)
      => fetched_writeback_data[k] = memory[write_pointer + k]

Alongside(r, disputed, shared) ==
  /\ BehindBrought(r, disputed) /\ RestKept(r, disputed, shared)
  /\ SourceKept(r, disputed)
  /\ BufferRight(r, disputed) /\ LineRight(disputed)

(* The buffers and memory have their sizes.                                *)
Shaped ==
  /\ DOMAIN memory = Address
  /\ DOMAIN active_buffer = 0 .. 2 * Width - 1
  /\ DOMAIN fetched_writeback_data = 0 .. Width - 1

(* A copy that does not read what it has written, or a set of whole lines. *)
Exact ==
  /\ ~Smears
  /\ c.operation = "SET" => c.dest % Width = 0 /\ c.length % Width = 0

(* The lines that a command writes into.                                   *)
OfItsLines(a) == \E t \in Address : InRange(t) /\ LineOf(t) = LineOf(a)
-----------------------------------------------------------------------------
(* A command finds memory as it is to, but for what is disputed or shared, *)
(* and all that it copies to a byte that is not disputed.                  *)
LEMMA AlongsideSubmit ==
  ASSUME Proper, Control, state # "CRASHED", NEW x \in Commands, Submit(x),
         NEW r, NEW disputed, NEW shared,
         \A a \in Address : a \notin disputed \cup shared => memory[a] = r[a],
         x.operation = "COPY" =>
           \A j \in 0 .. x.length - 1 :
             x.dest + j \notin disputed =>
               memory[x.source + j] = r[x.source + j]
  PROVE  Alongside(r, disputed, shared)'
<1>1. /\ c' = x /\ memory' = memory
      /\ write_pointer' = LineOf(x.dest)
      /\ active_buffer_size' = active_buffer_size
      /\ fetched_writeback_data_valid' = fetched_writeback_data_valid
      /\ state \notin {"WORKING", "CRASHED"}
  BY DEF Submit, buffer, fetched
<1>2. active_buffer_size' = 0 /\ ~fetched_writeback_data_valid'
  BY <1>1 DEF Control, Types, Emptied
<1>3. x.dest \in Nat /\ x.length \in Nat
  BY DEF Proper, WithinMemory
<1>4. LineOf(x.dest) \in Nat /\ LineOf(x.dest) <= x.dest
  BY <1>3, LineOfType
<1>5. \A a \in Address : ~Behind(a)'
  BY <1>1, <1>3, <1>4 DEF Behind, InRange, Address
<1>6. BehindBrought(r, disputed)' /\ RestKept(r, disputed, shared)'
  BY <1>1, <1>5 DEF BehindBrought, RestKept
<1>7. SourceKept(r, disputed)'
  BY <1>1 DEF SourceKept, Relied
<1>8. BufferRight(r, disputed)'
  <2>1. \A k \in 0 .. active_buffer_size' - 1 : FALSE
    BY <1>2
  <2> QED BY <2>1 DEF BufferRight
<1>9. LineRight(disputed)'
  BY <1>2 DEF LineRight
<1> QED BY <1>6, <1>7, <1>8, <1>9 DEF Alongside

(* A call of run_cycle that does not work.                                 *)
LEMMA AlongsideSame ==
  ASSUME NEW r, NEW disputed, NEW shared, Alongside(r, disputed, shared),
         UNCHANGED <<memory, working_command, write_pointer, read_pointer,
                     buffer, fetched>>
  PROVE  Alongside(r, disputed, shared)'
<1>1. \A a : /\ Behind(a)' <=> Behind(a)
             /\ Brought(r, a)' = Brought(r, a)
             /\ Relied(disputed, a)' <=> Relied(disputed, a)
  BY DEF Behind, InRange, Brought, Relied, Read
<1>2. BehindBrought(r, disputed)' /\ RestKept(r, disputed, shared)'
      /\ SourceKept(r, disputed)'
  BY <1>1 DEF Alongside, BehindBrought, RestKept, SourceKept
<1>3. BufferRight(r, disputed)' /\ LineRight(disputed)'
  BY <1>1 DEF Alongside, BufferRight, LineRight, Written, buffer, fetched
<1> QED BY <1>2, <1>3 DEF Alongside

LEMMA AlongsideCopyRead ==
  ASSUME Proper, Control, Shaped, CopyRead,
         NEW r, NEW disputed, NEW shared, Alongside(r, disputed, shared)
  PROVE  Alongside(r, disputed, shared)'
<1> DEFINE s == Start(read_pointer, c.source)
           e == End(read_pointer, c.source + c.length)
           n == e - s
           old == active_buffer_size
           line == ReadLine(memory, read_pointer)
<1>1. /\ state = "WORKING" /\ c.operation = "COPY" /\ AddToBuffer
      /\ UNCHANGED <<memory, working_command, state, write_pointer,
                     fetched_writeback_data_valid, fetched_writeback_data>>
      /\ read_pointer' = read_pointer + Width
  BY DEF CopyRead, Works, fetched
<1>2. /\ c.source \in Nat /\ c.length \in Nat \ {0}
      /\ Width \in Nat \ {0} /\ SourceEnd = c.source + c.length
      /\ read_pointer \in Nat /\ c.source < read_pointer + Width
      /\ write_pointer \in Nat /\ c.dest \in Nat
      /\ Buffered /\ old \in Nat /\ c \in Commands
  BY <1>1, AtWork DEF Types
<1>3. /\ active_buffer_size' = old + n
      /\ active_buffer' = [k \in DOMAIN active_buffer |->
                             IF k \in old .. old + n - 1
                             THEN line[s + (k - old)] ELSE active_buffer[k]]
  BY <1>2 DEF CopyRead
<1>4. read_pointer < c.source + c.length /\ old < Width
  BY <1>1, <1>2 DEF AddToBuffer
<1>5. Read = Done(read_pointer, c.source)
  BY <1>4 DEF Read
<1>6. /\ s \in 0 .. Width - 1 /\ n \in 1 .. Width /\ s + n <= Width
      /\ Read \in 0 .. c.length - 1
      /\ Read + n <= c.length
      /\ read_pointer + s = c.source + Read
      /\ Read' = Read + n
  <2> DEFINE more == DoneNext(read_pointer, c.source, c.length)
             done == Done(read_pointer, c.source)
  <2>0. /\ read_pointer \in Nat /\ c.source \in Nat /\ c.length \in Nat \ {0}
        /\ read_pointer < c.source + c.length
        /\ c.source < read_pointer + Width
    BY <1>2, <1>4
  <2>1. /\ s \in 0 .. Width - 1 /\ e \in 1 .. Width /\ s < e
        /\ done \in 0 .. c.length - 1 /\ more \in 1 .. c.length
        /\ more = done + (e - s)
        /\ read_pointer + s = c.source + done
    BY <2>0, PartOfLine
  <2>2. Read = done
    BY <1>5
  <2>3. ~(read_pointer + Width <= c.source)
    BY <1>2
  <2>4. Read' = more
    BY <1>1, <2>3 DEF Read, Done, DoneNext
  <2> HIDE DEF s, e, more, done
  <2> QED BY <1>2, <2>1, <2>2, <2>4
<1>7. Written \in Nat /\ old = Read - Written /\ Written' = Written
  BY <1>1, <1>2 DEF Written, Done, Buffered
<1> HIDE DEF s, e, n, line
<1>8. \A a : /\ Behind(a)' <=> Behind(a)
             /\ Brought(r, a)' = Brought(r, a)
             /\ Relied(disputed, a)' => Relied(disputed, a)
  <2>1. \A a : Behind(a)' <=> Behind(a)
    BY <1>1 DEF Behind, InRange
  <2>2. \A j \in 0 .. c.length - 1 : Read' <= j => Read <= j
    BY <1>2, <1>6
  <2> QED BY <1>1, <2>1, <2>2 DEF Brought, Relied
<1>9. BufferRight(r, disputed)'
  <2> SUFFICES ASSUME NEW k \in 0 .. active_buffer_size' - 1,
                      c.dest + (Written + k) \notin disputed
               PROVE  active_buffer'[k] = r[c.source + (Written + k)]
    BY <1>1, <1>7 DEF BufferRight
  <2>1. k \in 0 .. old + n - 1
    BY <1>2, <1>3, <1>6
  <2>2. k \in DOMAIN active_buffer
    BY <1>2, <1>4, <1>6, <2>1 DEF Shaped
  <2>3. CASE k < old
    <3>1. active_buffer'[k] = active_buffer[k]
      BY <1>2, <1>3, <2>1, <2>2, <2>3
    <3>2. k \in 0 .. old - 1
      BY <1>2, <2>1, <2>3
    <3> QED BY <1>1, <3>1, <3>2 DEF Alongside, BufferRight
  <2>4. CASE k >= old
    <3> DEFINE j == Written + k
    <3>1. /\ s + (k - old) \in 0 .. Width - 1
          /\ j \in Nat /\ Read <= j /\ j < c.length
          /\ read_pointer + (s + (k - old)) = c.source + j
          /\ k \in old .. old + n - 1
      <4>1. j = Read + (k - old) /\ k - old \in 0 .. n - 1
        BY <1>2, <1>6, <1>7, <2>1, <2>4
      <4> QED BY <1>2, <1>6, <2>1, <2>4, <4>1
    <3>2. active_buffer'[k] = line[s + (k - old)]
      BY <1>3, <2>2, <3>1
    <3>3. line[s + (k - old)] = memory[c.source + j]
      BY <1>2, <3>1, LineRead DEF line
    <3>4. c.source + j \in Address
      BY <1>1, <1>2, <3>1, Ends DEF WithinMemory, Address
    <3>5. j \in 0 .. c.length - 1
      BY <1>2, <3>1
    <3> HIDE DEF j
    <3>6. Relied(disputed, c.source + j)
      BY <1>1, <3>1, <3>5 DEF Relied, j
    <3> QED BY <3>2, <3>3, <3>4, <3>6 DEF Alongside, SourceKept, j
  <2> QED BY <1>2, <2>1, <2>3, <2>4
<1>10. BehindBrought(r, disputed)' /\ RestKept(r, disputed, shared)'
       /\ SourceKept(r, disputed)' /\ LineRight(disputed)'
  BY <1>1, <1>8
     DEF Alongside, BehindBrought, RestKept, SourceKept, LineRight
<1> QED BY <1>9, <1>10 DEF Alongside

LEMMA AlongsideFetch ==
  ASSUME Proper, Control, CopyFetch \/ SetFetch,
         NEW r, NEW disputed, NEW shared, Alongside(r, disputed, shared)
  PROVE  Alongside(r, disputed, shared)'
<1>1. /\ state = "WORKING"
      /\ UNCHANGED <<memory, working_command, state, write_pointer,
                     read_pointer, buffer>>
      /\ fetched_writeback_data' = ReadLine(memory, write_pointer)
      /\ write_pointer \in Nat
  BY AtWork DEF CopyFetch, SetFetch, Works
<1>2. LineRight(disputed)'
  BY <1>1, LineRead DEF LineRight
<1>3. \A a : /\ Behind(a)' <=> Behind(a)
             /\ Brought(r, a)' = Brought(r, a)
             /\ Relied(disputed, a)' <=> Relied(disputed, a)
  BY <1>1 DEF Behind, InRange, Brought, Relied, Read
<1>4. BehindBrought(r, disputed)' /\ RestKept(r, disputed, shared)'
      /\ SourceKept(r, disputed)' /\ BufferRight(r, disputed)'
  BY <1>1, <1>3 DEF Alongside, BehindBrought, RestKept, SourceKept,
                    BufferRight, Written, buffer
<1> QED BY <1>2, <1>4 DEF Alongside

(* A line of a copy is written: what the buffer has, and the rest of the   *)
(* line as it was fetched.                                                 *)
LEMMA AlongsideCopyWrite ==
  ASSUME Proper, Control, Shaped, Exact, CopyWrite, Control',
         NEW r, NEW disputed, NEW shared, Alongside(r, disputed, shared)
  PROVE  Alongside(r, disputed, shared)'
<1> DEFINE s == Start(write_pointer, c.dest)
           e == End(write_pointer, c.dest + c.length)
           n == e - s
           p == write_pointer
           InLine(a) == p <= a /\ a < p + Width
<1>1. /\ state = "WORKING" /\ c.operation = "COPY" /\ ~AddToBuffer /\ ~NeedsFetch
      /\ UNCHANGED <<working_command, read_pointer>>
      /\ fetched_writeback_data_valid' = FALSE
      /\ write_pointer' = p + Width
      /\ memory' = WriteLine(memory, p, fetched_writeback_data')
  BY DEF CopyWrite, Works, Advance
<1>2. /\ c.dest \in Nat /\ c.source \in Nat /\ c.length \in Nat \ {0}
      /\ Width \in Nat \ {0} /\ DestEnd = c.dest + c.length
      /\ p \in Nat /\ p % Width = 0 /\ c.dest < p + Width
      /\ p < c.dest + c.length
      /\ Buffered /\ active_buffer_size \in Nat
  BY <1>1, AtWork DEF Types, Pointers
<1>3. /\ fetched_writeback_data' =
           [k \in DOMAIN fetched_writeback_data |->
              IF k \in s .. e - 1 THEN active_buffer[k - s]
                                  ELSE fetched_writeback_data[k]]
      /\ active_buffer_size' = active_buffer_size - n
      /\ active_buffer' = [k \in DOMAIN active_buffer |->
                             active_buffer[(k + n) % (2 * Width)]]
      /\ NeedsFetch <=> ~(s = 0 /\ e = Width) /\ ~fetched_writeback_data_valid
  BY <1>2 DEF CopyWrite, WriteStart, WriteEnd, NeedsFetch
<1>4. /\ s \in 0 .. Width - 1 /\ n \in 1 .. Width /\ e = s + n
      /\ e \in 1 .. Width
      /\ Written \in Nat /\ Read \in Nat /\ Written + n <= Read
      /\ n <= active_buffer_size /\ active_buffer_size < 2 * Width
      /\ Written + n = DoneNext(p, c.dest, c.length)
  <2> DEFINE more == DoneNext(p, c.dest, c.length)
  <2>0. /\ p \in Nat /\ c.dest \in Nat /\ c.length \in Nat \ {0}
        /\ p < c.dest + c.length /\ c.dest < p + Width
    BY <1>2
  <2>1. /\ s \in 0 .. Width - 1 /\ e \in 1 .. Width /\ s < e
        /\ Written \in 0 .. c.length - 1 /\ more = Written + (e - s)
    BY <2>0, PartOfLine DEF Written
  <2>2. more <= Read /\ Read \in Nat
    BY <1>1, EnoughBuffered
  <2>3. active_buffer_size = Read - Written /\ active_buffer_size < 2 * Width
    BY <1>2 DEF Buffered
  <2> HIDE DEF s, e, more
  <2>4. n <= active_buffer_size /\ n \in 1 .. Width /\ e = s + n
    BY <1>2, <2>1, <2>2, <2>3
  <2> QED BY <2>1, <2>2, <2>3, <2>4 DEF more
<1>5. \A a \in Address :
        /\ a \in Nat
        /\ ~InLine(a) => (Behind(a)' <=> Behind(a)) /\ memory'[a] = memory[a]
        /\ InLine(a) => /\ a - p \in 0 .. Width - 1
                        /\ ~Behind(a)
                        /\ Behind(a)' <=> a - p \in s .. e - 1
                        /\ Behind(a)' => Written + ((a - p) - s) = a - c.dest
                        /\ memory'[a] = fetched_writeback_data'[a - p]
  <2> TAKE a \in Address
  <2>1. \A line :
          /\ a \in Nat
          /\ ~InLine(a) => WriteLine(memory, p, line)[a] = memory[a]
          /\ InLine(a) => /\ a - p \in 0 .. Width - 1
                          /\ WriteLine(memory, p, line)[a] = line[a - p]
    BY <1>2, LineWritten DEF Shaped
  <2>2. /\ ~InLine(a) => memory'[a] = memory[a]
        /\ InLine(a) => /\ a - p \in 0 .. Width - 1
                        /\ memory'[a] = fetched_writeback_data'[a - p]
    BY <1>1, <2>1
  <2> QED BY <1>1, <2>1, <2>2, BehindNext
<1> HIDE DEF s, e, n
<1>6. \A k \in 0 .. Width - 1 :
        /\ k \in s .. e - 1 => fetched_writeback_data'[k] = active_buffer[k - s]
        /\ k \notin s .. e - 1 /\ (p + k \notin disputed \/ Relied(disputed, p + k))
           => fetched_writeback_data'[k] = memory[p + k]
  <2> TAKE k \in 0 .. Width - 1
  <2>1. fetched_writeback_data'[k] =
          IF k \in s .. e - 1 THEN active_buffer[k - s]
                              ELSE fetched_writeback_data[k]
    BY <1>3 DEF Shaped
  <2>2. ASSUME k \notin s .. e - 1,
               p + k \notin disputed \/ Relied(disputed, p + k)
        PROVE  fetched_writeback_data[k] = memory[p + k]
    <3>1. ~(s = 0 /\ e = Width)
      BY <1>2, <2>2
    <3>2. fetched_writeback_data_valid
      BY <1>1, <1>3, <3>1
    <3> QED BY <1>1, <2>2, <3>2 DEF Alongside, LineRight
  <2> QED BY <2>1, <2>2
<1>7. \A a \in Address :
        InLine(a) /\ ~Behind(a)' /\ (a \notin disputed \/ Relied(disputed, a))
        => memory'[a] = memory[a]
  <2> SUFFICES ASSUME NEW a \in Address, InLine(a), ~Behind(a)',
                      a \notin disputed \/ Relied(disputed, a)
               PROVE  memory'[a] = memory[a]
    OBVIOUS
  <2>1. /\ a - p \in 0 .. Width - 1 /\ a - p \notin s .. e - 1
        /\ memory'[a] = fetched_writeback_data'[a - p]
        /\ p + (a - p) = a
    BY <1>2, <1>5
  <2> DEFINE k == a - p
  <2>2. k \in 0 .. Width - 1 /\ k \notin s .. e - 1 /\ p + k = a
    BY <2>1
  <2> HIDE DEF k
  <2>3. fetched_writeback_data'[k] = memory[p + k]
    BY <1>6, <2>2
  <2> QED BY <2>1, <2>2, <2>3 DEF k
<1>8. \A a : /\ Brought(r, a)' = Brought(r, a)
             /\ Relied(disputed, a)' <=> Relied(disputed, a)
  BY <1>1 DEF Brought, Relied, Read
<1>9. RestKept(r, disputed, shared)'
  <2> SUFFICES ASSUME NEW a \in Address, ~Behind(a)',
                      a \notin disputed \cup shared
               PROVE  memory'[a] = r[a]
    BY DEF RestKept
  <2>1. memory'[a] = memory[a]
    BY <1>5, <1>7
  <2>2. ~Behind(a)
    BY <1>5
  <2> QED BY <2>1, <2>2 DEF Alongside, RestKept
<1>10. SourceKept(r, disputed)'
  <2> SUFFICES ASSUME NEW a \in Address, Relied(disputed, a)
               PROVE  memory'[a] = r[a]
    BY <1>8 DEF SourceKept
  <2>1. ~Behind(a)'
    <3>1. PICK j \in 0 .. c.length - 1 : Read <= j /\ a = c.source + j
      BY DEF Relied
    <3> SUFFICES ASSUME c.dest <= a, a < c.dest + c.length, Behind(a)'
                 PROVE  FALSE
      BY <1>1, <1>2, <1>5 DEF Behind, InRange
    <3>2. a < p + Width
      BY <1>1 DEF Behind
    <3>3. ~(c.dest > c.source /\ c.dest <= c.source + c.length - 1)
      BY <1>1, <1>2 DEF Exact, Smears, InRange
    <3>4. a - c.dest < Written + n
      BY <1>2, <1>4, <1>5, <3>2 DEF DoneNext
    <3> QED BY <1>2, <1>4, <1>5, <3>1, <3>3, <3>4
  <2>2. memory'[a] = memory[a]
    BY <1>5, <1>7, <2>1
  <2> QED BY <2>2 DEF Alongside, SourceKept
<1>11. BehindBrought(r, disputed)'
  <2> SUFFICES ASSUME NEW a \in Address, Behind(a)', a \notin disputed
               PROVE  memory'[a] = r[c.source + (a - c.dest)]
    BY <1>1, <1>8 DEF BehindBrought, Brought
  <2>1. CASE ~InLine(a)
    <3>1. Behind(a) /\ memory'[a] = memory[a]
      BY <1>5, <2>1
    <3> QED BY <1>1, <3>1 DEF Alongside, BehindBrought, Brought
  <2>2. CASE InLine(a)
    <3> DEFINE k == (a - p) - s
    <3>1. /\ a - p \in 0 .. Width - 1 /\ a - p \in s .. e - 1
          /\ Written + k = a - c.dest
          /\ memory'[a] = fetched_writeback_data'[a - p]
      BY <1>5, <2>2
    <3>2. memory'[a] = active_buffer[k]
      BY <1>6, <3>1
    <3>3. k \in 0 .. active_buffer_size - 1 /\ c.dest + (Written + k) = a
      BY <1>2, <1>4, <1>5, <3>1
    <3> HIDE DEF k
    <3>4. active_buffer[k] = r[c.source + (Written + k)]
      BY <1>1, <3>3 DEF Alongside, BufferRight
    <3> QED BY <3>1, <3>2, <3>4
  <2> QED BY <2>1, <2>2
<1>12. CASE state' = "WORKING"
  <2>1. BufferRight(r, disputed)'
    <3>1. Written' = Written + n
      <4>1. write_pointer' < c.dest + c.length
        BY <1>1, <1>12 DEF Control, Working, Pointers
      <4>2. Written + n = (p + Width) - c.dest
        BY <1>1, <1>4, <4>1 DEF DoneNext
      <4>3. ~(p + Width <= c.dest)
        BY <1>2
      <4> QED BY <1>1, <4>2, <4>3 DEF Written, Done
    <3> SUFFICES ASSUME NEW k \in 0 .. active_buffer_size' - 1,
                        c.dest + (Written' + k) \notin disputed
                 PROVE  active_buffer'[k] = r[c.source + (Written' + k)]
      BY <1>1 DEF BufferRight
    <3>2. k \in Nat /\ k + n \in 0 .. active_buffer_size - 1
      BY <1>2, <1>3, <1>4
    <3>3. active_buffer'[k] = active_buffer[k + n]
      <4>1. \A x \in Nat, w \in Nat : x < w => x % w = x
        OBVIOUS
      <4>2. (k + n) % (2 * Width) = k + n
        <5>1. k + n \in Nat /\ 2 * Width \in Nat /\ k + n < 2 * Width
          BY <1>2, <1>4, <3>2
        <5> QED BY <4>1, <5>1
      <4>3. k \in DOMAIN active_buffer
        BY <1>2, <1>4, <3>2 DEF Shaped
      <4> QED BY <1>3, <4>2, <4>3
    <3>4. Written + (k + n) = Written' + k
      BY <1>4, <3>1, <3>2
    <3>5. active_buffer[k + n] = r[c.source + (Written + (k + n))]
      BY <1>1, <3>2, <3>4 DEF Alongside, BufferRight
    <3> QED BY <3>3, <3>4, <3>5
  <2>2. LineRight(disputed)'
    BY <1>1 DEF LineRight
  <2> QED BY <1>9, <1>10, <1>11, <2>1, <2>2 DEF Alongside
<1>13. CASE state' # "WORKING"
  <2>1. active_buffer_size' = 0
    <3>1. state' = "FINISHED"
      BY <1>1, <1>13 DEF CopyWrite, Advance
    <3> QED BY <3>1 DEF Control, Emptied
  <2>2. BufferRight(r, disputed)'
    <3>1. \A k \in 0 .. active_buffer_size' - 1 : FALSE
      BY <2>1
    <3> QED BY <3>1 DEF BufferRight
  <2>3. LineRight(disputed)'
    BY <1>1 DEF LineRight
  <2> QED BY <1>9, <1>10, <1>11, <2>2, <2>3 DEF Alongside
<1> QED BY <1>12, <1>13

(* A line of a set is written.                                             *)
LEMMA AlongsideSetLine ==
  ASSUME Proper, Control, Shaped, Exact, SetWhole \/ SetPart,
         NEW r, NEW disputed, NEW shared, Alongside(r, disputed, shared)
  PROVE  Alongside(r, disputed, shared)'
<1> DEFINE p == write_pointer
           InLine(a) == p <= a /\ a < p + Width
<1>1. /\ state = "WORKING" /\ c.operation = "SET"
      /\ UNCHANGED working_command
      /\ write_pointer' = p + Width
      /\ memory' = WriteLine(memory, p, ValueLine)
  BY DEF SetWhole, SetPart, Works, Advance
<1>2. /\ c.dest \in Nat /\ c.length \in Nat \ {0} /\ Width \in Nat \ {0}
      /\ p \in Nat /\ p % Width = 0 /\ p < c.dest + c.length
      /\ LineOf(c.dest) \in Nat /\ LineOf(c.dest) <= p
      /\ LineOf(c.dest) = c.dest
  BY <1>1, AtWork, LineOfType DEF Pointers, Exact
<1>3. p + Width <= c.dest + c.length
  <2>1. (c.dest + c.length) % Width = 0
    <3>1. PICK i \in Nat : c.dest = i * Width + (c.dest % Width)
      BY <1>2, Division
    <3>2. PICK j \in Nat : c.length = j * Width + (c.length % Width)
      BY <1>2, Division
    <3>3. c.dest = i * Width /\ c.length = j * Width
      BY <1>1, <1>2, <3>1, <3>2 DEF Exact
    <3>4. c.dest + c.length = (i + j) * Width /\ i + j \in Nat
      BY <1>2, <3>3
    <3> QED BY <1>2, <3>4, Multiple
  <2> QED BY <1>2, <2>1, LineGap
<1>4. \A a \in Address :
        /\ a \in Nat
        /\ ~InLine(a) => memory'[a] = memory[a]
        /\ InLine(a) => memory'[a] = c.value
  <2> TAKE a \in Address
  <2>1. p \in Nat
    BY <1>2
  <2>2. \A line :
          /\ a \in Nat
          /\ ~InLine(a) => WriteLine(memory, p, line)[a] = memory[a]
          /\ InLine(a) => /\ a - p \in 0 .. Width - 1
                          /\ WriteLine(memory, p, line)[a] = line[a - p]
    BY <2>1, LineWritten DEF Shaped
  <2> QED BY <1>1, <2>2 DEF ValueLine
<1>5. \A a \in Address :
        /\ Behind(a) <=> c.dest <= a /\ a < p
        /\ Behind(a)' <=> c.dest <= a /\ a < p + Width
  BY <1>1, <1>2, <1>3, <1>4 DEF Behind, InRange
<1>6. BehindBrought(r, disputed)'
  <2> SUFFICES ASSUME NEW a \in Address, Behind(a)', a \notin disputed
               PROVE  memory'[a] = c.value
    BY <1>1 DEF BehindBrought, Brought
  <2>1. CASE ~InLine(a)
    <3>1. Behind(a)
      BY <1>2, <1>4, <1>5, <2>1
    <3> QED BY <1>1, <1>4, <2>1, <3>1 DEF Alongside, BehindBrought, Brought
  <2>2. CASE InLine(a)
    BY <1>4, <2>2
  <2> QED BY <2>1, <2>2
<1>7. RestKept(r, disputed, shared)'
  <2> SUFFICES ASSUME NEW a \in Address, ~Behind(a)',
                      a \notin disputed \cup shared
               PROVE  memory'[a] = r[a]
    BY DEF RestKept
  <2>1. ~InLine(a) /\ ~Behind(a)
    BY <1>2, <1>4, <1>5
  <2> QED BY <1>4, <2>1 DEF Alongside, RestKept
<1>8. SourceKept(r, disputed)' /\ BufferRight(r, disputed)'
      /\ LineRight(disputed)'
  BY <1>1 DEF SourceKept, Relied, BufferRight, LineRight
<1> QED BY <1>6, <1>7, <1>8 DEF Alongside

(* A call of run_cycle.                                                    *)
LEMMA AlongsideRun ==
  ASSUME Proper, Control, Shaped, Exact, Control', NEW first,
         RunCycle(first), state # "CRASHED", state' # "CRASHED",
         NEW r, NEW disputed, NEW shared, Alongside(r, disputed, shared)
  PROVE  Alongside(r, disputed, shared)'
<1>1. CASE Rest(first)
  BY <1>1, AlongsideSame DEF Rest
<1>2. ~Crash /\ ~SetCrash
  BY DEF Crash, SetCrash
<1> QED
  BY <1>1, <1>2, AlongsideCopyRead, AlongsideFetch, AlongsideCopyWrite,
     AlongsideSetLine DEF RunCycle, Copy, Set

(* A step that ends the command leaves what it was to.                     *)
LEMMA AlongsideEnd ==
  ASSUME Proper, Control', state' = "FINISHED",
         NEW r, NEW disputed, NEW shared, Alongside(r, disputed, shared)',
         NEW a \in Address, a \notin disputed
  PROVE  /\ InRange(a)' => memory'[a] = Brought(r, a)'
         /\ ~InRange(a)' /\ a \notin shared => memory'[a] = r[a]
<1>1. /\ write_pointer' \in Nat
      /\ c'.dest + c'.length <= write_pointer' /\ c' \in Commands
  BY DEF Control
<1>2. c'.dest \in Nat /\ c'.length \in Nat /\ a \in Nat
  BY <1>1, MemoryAssumption DEF Proper, WithinMemory, Address
<1>3. Behind(a)' <=> InRange(a)'
  BY <1>1, <1>2 DEF Behind, InRange
<1> QED BY <1>3 DEF Alongside, BehindBrought, RestKept

(* The line at the write pointer is one of those that are written into.    *)
LEMMA LineAtPointer ==
  ASSUME Proper, Control, state = "WORKING", NEW k \in 0 .. Width - 1
  PROVE  write_pointer + k \in Address /\ OfItsLines(write_pointer + k)
<1> DEFINE p == write_pointer
<1>1. /\ p \in Nat /\ c.dest < p + Width /\ p < c.dest + c.length
      /\ p % Width = 0 /\ c.dest \in Nat /\ c.length \in Nat \ {0}
      /\ Width \in Nat \ {0} /\ c \in Commands
  BY AtWork DEF Pointers
<1>2. c.dest + c.length < MemSize /\ MemSize \in Nat
  BY <1>1, Ends
<1>3. p + Width <= MemSize
  BY <1>1, <1>2, LineFits DEF LineAccess
<1>4. \A i \in 0 .. Width - 1 : p + i \in Address /\ LineOf(p + i) = p
  <2> TAKE i \in 0 .. Width - 1
  <2>1. p + i \in Nat /\ p + i < p + Width
    BY <1>1
  <2> DEFINE l == LineOf(p + i)
  <2>2. l \in Nat /\ l <= p + i /\ p + i < l + Width /\ l % Width = 0
    BY <2>1, LineOfType
  <2> HIDE DEF l
  <2>3. ASSUME l < p PROVE FALSE
    <3>1. l + Width <= p
      BY <1>1, <2>2, <2>3, LineGap
    <3> QED BY <1>1, <2>1, <2>2, <3>1
  <2>5. ASSUME p < l PROVE FALSE
    <3>1. p + Width <= l
      BY <1>1, <2>2, <2>5, LineGap
    <3> QED BY <1>1, <2>1, <2>2, <3>1
  <2>4. l = p
    BY <1>1, <2>2, <2>3, <2>5
  <2>6. p + i \in Address
    BY <1>1, <1>2, <1>3, <2>1 DEF Address
  <2> QED BY <2>4, <2>6 DEF l
<1>5. PICK i \in 0 .. Width - 1 : InRange(p + i)
  <2>1. CASE c.dest <= p
    <3>1. 0 \in 0 .. Width - 1 /\ InRange(p + 0)
      BY <1>1, <2>1 DEF InRange
    <3> QED BY <3>1
  <2>2. CASE p < c.dest
    <3>1. c.dest - p \in 0 .. Width - 1 /\ p + (c.dest - p) = c.dest
          /\ InRange(c.dest)
      BY <1>1, <2>2 DEF InRange
    <3> QED BY <3>1
  <2> QED BY <1>1, <2>1, <2>2
<1> QED BY <1>4, <1>5 DEF OfItsLines

(* Another engine writes, or commands are accepted: what becomes shared or *)
(* disputed does not matter to what the command has still to do.           *)
LEMMA AlongsideOther ==
  ASSUME Proper, Control, state = "WORKING",
         UNCHANGED <<working_command, write_pointer, read_pointer, buffer,
                     fetched>>,
         NEW r, NEW disputed, NEW shared, Alongside(r, disputed, shared),
         NEW r2, NEW disputed2, NEW shared2, disputed \subseteq disputed2,
         \A a \in Address :
           a \notin disputed2 /\ OfItsLines(a) => memory'[a] = memory[a],
         c.operation = "COPY" =>
           \A j \in 0 .. c.length - 1 :
             c.dest + j \notin disputed2 =>
               /\ memory'[c.source + j] = memory[c.source + j]
               /\ r2[c.source + j] = r[c.source + j],
         \A a \in Address :
           a \notin disputed2 \cup shared2 =>
             \/ memory'[a] = r2[a]
             \/ a \notin shared /\ memory'[a] = memory[a] /\ r2[a] = r[a]
  PROVE  Alongside(r2, disputed2, shared2)'
<1>1. /\ c.dest \in Nat /\ c.length \in Nat \ {0}
      /\ Width \in Nat \ {0}
      /\ c.operation = "COPY" =>
           c.source \in Nat /\ read_pointer \in Nat /\ Buffered
      /\ c \in Commands
  BY AtWork
<1>2. \A a : /\ Behind(a)' <=> Behind(a)
             /\ Relied(disputed2, a)' => Relied(disputed, a)
             /\ Relied(disputed2, a)' =>
                  memory'[a] = memory[a] /\ r2[a] = r[a]
  BY DEF Behind, InRange, Relied, Read
<1>3. BehindBrought(r2, disputed2)'
  <2> SUFFICES ASSUME NEW a \in Address, a \notin disputed2, Behind(a)
               PROVE  memory'[a] = Brought(r2, a)
    BY <1>2 DEF BehindBrought, Brought
  <2>1. InRange(a) /\ OfItsLines(a)
    BY DEF Behind, OfItsLines
  <2>2. memory'[a] = Brought(r, a)
    BY <2>1 DEF Alongside, BehindBrought
  <2>3. ASSUME c.operation = "COPY"
        PROVE  r2[c.source + (a - c.dest)] = r[c.source + (a - c.dest)]
    <3> DEFINE j == a - c.dest
    <3>1. j \in 0 .. c.length - 1 /\ c.dest + j = a
      BY <1>1, <2>1 DEF InRange, Address
    <3> HIDE DEF j
    <3>2. r2[c.source + j] = r[c.source + j]
      BY <2>3, <3>1
    <3> QED BY <3>2 DEF j
  <2> QED BY <2>2, <2>3 DEF Brought
<1>4. RestKept(r2, disputed2, shared2)'
  <2> SUFFICES ASSUME NEW a \in Address, a \notin disputed2 \cup shared2,
                      ~Behind(a)
               PROVE  memory'[a] = r2[a]
    BY <1>2 DEF RestKept
  <2>1. a \notin shared => memory[a] = r[a]
    BY DEF Alongside, RestKept
  <2> QED BY <2>1
<1>5. SourceKept(r2, disputed2)'
  BY <1>2 DEF Alongside, SourceKept
<1>6. BufferRight(r2, disputed2)'
  <2> SUFFICES ASSUME c.operation = "COPY", NEW k \in 0 .. active_buffer_size - 1,
                      c.dest + (Written + k) \notin disputed2
               PROVE  active_buffer[k] = r2[c.source + (Written + k)]
    BY DEF BufferRight, Written, buffer
  <2>1. active_buffer[k] = r[c.source + (Written + k)]
    BY DEF Alongside, BufferRight
  <2>2. /\ Written \in Nat /\ Read \in Nat /\ Read <= c.length
        /\ active_buffer_size = Read - Written
    <3>1. write_pointer \in Nat
      BY AtWork
    <3> QED BY <1>1, <3>1 DEF Written, Read, Done, Buffered
  <2>3. Written + k \in 0 .. c.length - 1
    BY <1>1, <2>2
  <2> QED BY <2>1, <2>3
<1>7. LineRight(disputed2)'
  <2> SUFFICES ASSUME c.operation = "COPY", fetched_writeback_data_valid,
                      NEW k \in 0 .. Width - 1,
                      \/ write_pointer + k \notin disputed2
                      \/ Relied(disputed2, write_pointer + k)'
               PROVE  fetched_writeback_data[k] = memory'[write_pointer + k]
    BY DEF LineRight, fetched
  <2>1. write_pointer + k \in Address /\ OfItsLines(write_pointer + k)
    BY LineAtPointer
  <2>2. memory'[write_pointer + k] = memory[write_pointer + k]
    BY <1>2, <2>1
  <2>3. fetched_writeback_data[k] = memory[write_pointer + k]
    BY <1>2 DEF Alongside, LineRight
  <2> QED BY <2>2, <2>3
<1> QED BY <1>3, <1>4, <1>5, <1>6, <1>7 DEF Alongside

(* What a call of run_cycle may write: the destination, and nothing that   *)
(* is not in one of its lines.                                             *)
LEMMA RunWrites ==
  ASSUME Proper, Control, Shaped, RunCycle(FALSE), state = "WORKING"
  PROVE  /\ Shaped'
         /\ \A a \in Address : ~OfItsLines(a) => memory'[a] = memory[a]
<1>1. CASE CopyWrite \/ SetWhole \/ SetPart
  <2>1. PICK line : memory' = WriteLine(memory, write_pointer, line)
    BY <1>1 DEF CopyWrite, SetWhole, SetPart
  <2>2. DOMAIN memory' = Address
    BY <2>1 DEF WriteLine, Shaped
  <2>3. /\ DOMAIN active_buffer' = DOMAIN active_buffer
        /\ DOMAIN fetched_writeback_data' = DOMAIN fetched_writeback_data
    BY <1>1 DEF CopyWrite, SetWhole, SetPart, buffer, fetched
  <2>4. ASSUME NEW a \in Address, ~OfItsLines(a) PROVE memory'[a] = memory[a]
    <3>1. write_pointer \in Nat
      BY AtWork
    <3>2. /\ a \in Nat
          /\ write_pointer <= a /\ a < write_pointer + Width =>
               a - write_pointer \in 0 .. Width - 1
          /\ ~(write_pointer <= a /\ a < write_pointer + Width) =>
               memory'[a] = memory[a]
      BY <2>1, <3>1, LineWritten DEF Shaped
    <3> DEFINE k == a - write_pointer
    <3>3. write_pointer + k = a
      BY <3>1, <3>2
    <3> HIDE DEF k
    <3>4. k \notin 0 .. Width - 1
      BY <2>4, <3>3, LineAtPointer
    <3> QED BY <3>2, <3>4 DEF k
  <2> QED BY <2>2, <2>3, <2>4 DEF Shaped
<1>2. CASE CopyRead \/ CopyFetch \/ SetFetch \/ SetCrash \/ Crash
  <2>1. /\ memory' = memory
        /\ DOMAIN active_buffer' = DOMAIN active_buffer
        /\ DOMAIN fetched_writeback_data' \in
             {DOMAIN fetched_writeback_data, 0 .. Width - 1}
    BY <1>2 DEF CopyRead, CopyFetch, SetFetch, SetCrash, Crash, buffer,
                fetched, ReadLine
  <2> QED BY <2>1 DEF Shaped
<1> QED BY <1>1, <1>2 DEF RunCycle, Copy, Set, Rest
-----------------------------------------------------------------------------
(***************************************************************************)
(* Whatever the engine writes is of S, if memory holds nothing else.  What *)
(* the buffers hold that is not of the command at work is never written.   *)
(***************************************************************************)
MadeOf(S) ==
  /\ memory \in [Address -> S] /\ Shaped
  /\ \A k \in 0 .. 2 * Width - 1 : k < active_buffer_size => active_buffer[k] \in S
  /\ fetched_writeback_data_valid =>
       \A k \in 0 .. Width - 1 : fetched_writeback_data[k] \in S
  /\ state # "IDLE" /\ c.operation = "SET" => c.value \in S

LEMMA MadeOfRead ==
  ASSUME Proper, Control, NEW S, MadeOf(S), CopyRead
  PROVE  MadeOf(S)'
<1>1. /\ state = "WORKING" /\ c.operation = "COPY" /\ AddToBuffer
      /\ LineAccess(read_pointer) /\ read_pointer \in Nat
  BY AtWork, NothingFails DEF CopyRead, Works, Fails
<1> DEFINE s == Start(read_pointer, c.source)
           n == End(read_pointer, SourceEnd) - s
           old == active_buffer_size
           line == ReadLine(memory, read_pointer)
<1>2. /\ active_buffer' = [k \in DOMAIN active_buffer |->
                             IF k \in old .. old + n - 1
                             THEN line[s + (k - old)] ELSE active_buffer[k]]
      /\ active_buffer_size' = old + n
      /\ UNCHANGED <<memory, state, c, fetched>>
  BY DEF CopyRead, Works
<1>3. s \in Nat /\ n \in Int /\ s + n <= Width /\ old \in Nat
  <2>1. /\ read_pointer \in Nat /\ c.source \in Nat /\ Width \in Nat
        /\ SourceEnd = c.source + c.length /\ c.length \in Nat
        /\ old \in Nat
    BY <1>1, AtWork DEF Types
  <2> QED BY <2>1 DEF Start, End
<1>4. line \in [0 .. Width - 1 -> S]
  BY <1>1, LineReadType DEF MadeOf
<1> HIDE DEF s, n, old, line
<1>5. ASSUME NEW k \in 0 .. 2 * Width - 1, k < old + n
      PROVE  active_buffer'[k] \in S
  <2>1. k \in DOMAIN active_buffer
    BY DEF MadeOf, Shaped
  <2>2. k \in old .. old + n - 1 => s + (k - old) \in 0 .. Width - 1
    BY <1>3, MemoryAssumption
  <2>3. k \notin old .. old + n - 1 => k < old
    BY <1>3, <1>5, MemoryAssumption
  <2> QED BY <1>2, <1>4, <2>1, <2>2, <2>3 DEF MadeOf, old
<1>6. Shaped'
  BY <1>2 DEF MadeOf, Shaped, fetched
<1> QED BY <1>2, <1>5, <1>6 DEF MadeOf, fetched

LEMMA MadeOfWrite ==
  ASSUME Proper, Control, NEW S, MadeOf(S), CopyWrite
  PROVE  MadeOf(S)'
<1>1. state = "WORKING" /\ c.operation = "COPY" /\ ~AddToBuffer /\ ~NeedsFetch
  BY DEF CopyWrite, Works
<1>2. /\ write_pointer \in Nat /\ c.dest < write_pointer + Width
      /\ write_pointer < c.dest + c.length
      /\ c.dest \in Nat /\ c.length \in Nat \ {0} /\ Width \in Nat \ {0}
      /\ DestEnd = c.dest + c.length /\ Types /\ Buffered
  BY <1>1, AtWork
<1> DEFINE s == WriteStart
           e == WriteEnd
           old == active_buffer_size
<1>3. /\ s \in 0 .. Width - 1 /\ e \in 1 .. Width /\ s < e
      /\ DoneNext(write_pointer, c.dest, c.length) = Written + (e - s)
      /\ Written \in 0 .. c.length - 1
  BY <1>2, PartOfLine DEF WriteStart, WriteEnd, Written
<1>4. /\ fetched_writeback_data' =
           [k \in DOMAIN fetched_writeback_data |->
              IF k \in s .. e - 1 THEN active_buffer[k - s]
                                  ELSE fetched_writeback_data[k]]
      /\ memory' = WriteLine(memory, write_pointer, fetched_writeback_data')
      /\ ~fetched_writeback_data_valid'
      /\ active_buffer_size' = old - (e - s)
      /\ active_buffer' = [k \in DOMAIN active_buffer |->
                             active_buffer[(k + (e - s)) % (2 * Width)]]
      /\ c' = c
  BY DEF CopyWrite, Works
<1>5. old \in Nat /\ old >= e - s /\ old < 2 * Width
  <2>1. /\ DoneNext(write_pointer, c.dest, c.length) <= Read
        /\ Read \in Nat /\ old = Read - Written
    BY <1>1, <1>2, EnoughBuffered DEF Buffered
  <2>2. old \in Nat /\ old < 2 * Width
    BY <1>2 DEF Types, Buffered
  <2> QED BY <1>3, <2>1, <2>2
<1>6. fetched_writeback_data_valid \/ (s = 0 /\ e = Width)
  BY <1>1 DEF NeedsFetch
<1> HIDE DEF s, e, old
<1>7. fetched_writeback_data' \in [0 .. Width - 1 -> S]
  <2>1. ASSUME NEW k \in 0 .. Width - 1
        PROVE  (IF k \in s .. e - 1 THEN active_buffer[k - s]
                ELSE fetched_writeback_data[k]) \in S
    <3>1. k \in s .. e - 1 => k - s \in 0 .. 2 * Width - 1 /\ k - s < old
      BY <1>2, <1>3, <1>5
    <3>2. k \notin s .. e - 1 => fetched_writeback_data_valid
      BY <1>2, <1>3, <1>6
    <3> QED BY <3>1, <3>2 DEF MadeOf, old
  <2> QED BY <1>4, <2>1 DEF MadeOf, Shaped
<1>8. memory' \in [Address -> S]
  BY <1>2, <1>4, <1>7, LineWrittenType DEF MadeOf
<1>9. ASSUME NEW k \in 0 .. 2 * Width - 1, k < old - (e - s)
      PROVE  active_buffer'[k] \in S
  <2>1. PICK j : j = k + (e - s)
    OBVIOUS
  <2>2. j \in 0 .. 2 * Width - 1 /\ j < old /\ j % (2 * Width) = j
    BY <1>2, <1>3, <1>5, <1>9, <2>1
  <2>3. active_buffer'[k] = active_buffer[j]
    BY <1>4, <2>1, <2>2 DEF MadeOf, Shaped
  <2> QED BY <2>2, <2>3 DEF MadeOf, old
<1>10. Shaped'
  BY <1>4, <1>7, <1>8 DEF MadeOf, Shaped
<1> QED BY <1>1, <1>4, <1>8, <1>9, <1>10 DEF MadeOf

LEMMA MadeOfRun ==
  ASSUME Proper, Control, NEW S, MadeOf(S), RunCycle(FALSE), state = "WORKING"
  PROVE  MadeOf(S)'
<1>1. /\ write_pointer \in Nat /\ LineAccess(write_pointer)
  <2>1. /\ write_pointer \in Nat /\ write_pointer % Width = 0
        /\ write_pointer < c.dest + c.length /\ c \in Commands
    BY AtWork DEF Pointers
  <2>2. write_pointer < MemSize
    BY <2>1, Ends
  <2> QED BY <2>1, <2>2, LineFits
<1>2. CASE CopyFetch \/ SetFetch
  <2>1. /\ UNCHANGED <<memory, state, c, buffer>>
        /\ fetched_writeback_data' = ReadLine(memory, write_pointer)
    BY <1>2 DEF CopyFetch, SetFetch, Works
  <2>2. fetched_writeback_data' \in [0 .. Width - 1 -> S]
    BY <1>1, <2>1, LineReadType DEF MadeOf
  <2> QED BY <2>1, <2>2 DEF MadeOf, Shaped, buffer
<1>3. CASE SetWhole \/ SetPart
  <2>1. /\ c.operation = "SET" /\ ~fetched_writeback_data_valid' /\ c' = c
        /\ memory' = WriteLine(memory, write_pointer, ValueLine)
        /\ UNCHANGED buffer
        /\ DOMAIN fetched_writeback_data' = DOMAIN fetched_writeback_data
        /\ state # "IDLE"
    <3>1. CASE SetWhole
      <4>1. fetched_writeback_data_valid = FALSE
        BY <3>1, AtWork DEF SetWhole, Works, Working, Types
      <4> QED BY <3>1, <4>1 DEF SetWhole, Works, fetched
    <3>2. CASE SetPart
      BY <3>2 DEF SetPart, Works
    <3> QED BY <1>3, <3>1, <3>2
  <2>2. ValueLine \in [0 .. Width - 1 -> S]
    BY <2>1 DEF MadeOf, ValueLine
  <2>3. memory' \in [Address -> S]
    BY <1>1, <2>1, <2>2, LineWrittenType DEF MadeOf
  <2> QED BY <2>1, <2>3 DEF MadeOf, Shaped, buffer
<1>4. CASE SetCrash \/ Crash
  <2>1. UNCHANGED <<memory, buffer, fetched, c>> /\ state # "IDLE"
    BY <1>4 DEF SetCrash, Crash, Works
  <2>2. Shaped'
    BY <2>1 DEF MadeOf, Shaped, buffer, fetched
  <2>3. c.operation = "SET" => c.value \in S
    BY <2>1 DEF MadeOf
  <2> QED BY <2>1, <2>2, <2>3 DEF MadeOf, buffer, fetched
<1> QED BY <1>2, <1>3, <1>4, MadeOfRead, MadeOfWrite DEF RunCycle, Copy, Set, Rest
=============================================================================
