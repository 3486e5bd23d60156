-------------------------------- MODULE Dma ---------------------------------
(***************************************************************************)
(* The DMA engine: src/dma.cpp, the work it does on memory.                *)
(*                                                                         *)
(* A copy collects the source line by line in a buffer of two lines and    *)
(* writes the destination line by line; a line of the destination that is  *)
(* not covered whole is fetched first.  Submit is one call of submit and   *)
(* RunCycle one of run_cycle; who makes the calls is left to the modules   *)
(* that use this one, and so are the callback and the cycle counter, which *)
(* are in Scheduler.  An assertion that fails ends the program.            *)
(***************************************************************************)
EXTENDS Memory

CONSTANT Garbage  \* what a field or a buffer holds before it is written

VARIABLES
  memory,
  \* the fields of class DMA:
  state, working_command, write_pointer, read_pointer,
  fetched_writeback_data_valid, fetched_writeback_data,
  active_buffer_valid, active_buffer_address, active_buffer_size,
  active_buffer

buffer  == <<active_buffer_valid, active_buffer_address, active_buffer_size,
             active_buffer>>
fetched == <<fetched_writeback_data_valid, fetched_writeback_data>>
engine  == <<memory, state, working_command, write_pointer, read_pointer,
             buffer, fetched>>

c == working_command

(* Addresses are words of 32 bits, so that the end of a range may wrap.    *)
After(address, length) == (address + length) % (Base * Base * Base * Base)

DestEnd   == After(c.dest, c.length)
SourceEnd == After(c.source, c.length)

Init ==
  /\ state = "IDLE"
  /\ working_command = [operation |-> "NONE", dest |-> Garbage,
                        source |-> Garbage, length |-> Garbage,
                        value |-> Garbage]
  /\ write_pointer = Garbage /\ read_pointer = Garbage
  /\ fetched_writeback_data_valid = FALSE
  /\ fetched_writeback_data = [k \in 0 .. Width - 1 |-> Garbage]
  /\ active_buffer_valid = FALSE
  /\ active_buffer_address = 0
  /\ active_buffer_size = 0
  /\ active_buffer = [k \in 0 .. 2 * Width - 1 |-> Garbage]
-----------------------------------------------------------------------------
(* The assertions of submit.  The source is not looked at.                 *)
Accepts(command) ==
  command.dest < MemSize /\ After(command.dest, command.length) < MemSize

(* Its line; a field that was never written gives a pointer that is as     *)
(* indeterminate.                                                          *)
SourceLine(command) ==
  IF command.source = Garbage THEN Garbage ELSE LineOf(command.source)

(* Mutant: both pointers are set to the line of the source.                *)
Submit_AtSource(command) ==
  /\ state # "WORKING"
  /\ state' = IF Accepts(command) THEN "WORKING" ELSE "CRASHED"
  /\ working_command' = command
  /\ write_pointer' = SourceLine(command)
  /\ read_pointer' = SourceLine(command)
  /\ UNCHANGED <<memory, buffer, fetched>>

(* submit: the engine takes a command unless it is working.                *)
Submit(command) ==
  /\ state # "WORKING"
  /\ state' = IF Accepts(command) THEN "WORKING" ELSE "CRASHED"
  /\ working_command' = command
  /\ write_pointer' = LineOf(command.dest)
  /\ read_pointer' = SourceLine(command)
  /\ UNCHANGED <<memory, buffer, fetched>>
-----------------------------------------------------------------------------
(* run_cycle *)

(* Nothing to do, or the bubble after a command, or first: the cycle of    *)
(* the submit, which comes before work_cycle.                              *)
Rest(first) ==
  /\ state = "WORKING" => first
  /\ state' = IF state = "FINISHED" THEN "IDLE" ELSE state
  /\ UNCHANGED <<memory, working_command, write_pointer, read_pointer,
                 buffer, fetched>>

(* Mutant: the buffer is read into only when it is empty.                  *)
AddToBuffer_WhenEmpty == active_buffer_size = 0 /\ read_pointer < SourceEnd

(* copy_cycle reads while the buffer has no whole line.                    *)
AddToBuffer == active_buffer_size < Width /\ read_pointer < SourceEnd

(* The assertions of copy_cycle, set_cycle and Memory::read.               *)
Fails ==
  \/ write_pointer >= DestEnd
  \/ c.operation = "COPY" /\ AddToBuffer /\ ~LineAccess(read_pointer)
  \/ /\ c.operation = "COPY" /\ ~AddToBuffer
     /\ \/ ~active_buffer_valid
        \/ active_buffer_size < Width /\ read_pointer < SourceEnd
        \/ active_buffer_address < c.source
        \/ active_buffer_address + active_buffer_size >= SourceEnd + Width

Works(operation) ==
  /\ state = "WORKING"
  /\ c.operation = operation
  /\ ~Fails
  /\ UNCHANGED working_command

Crash ==
  /\ state = "WORKING"
  /\ Fails
  /\ state' = "CRASHED"
  /\ UNCHANGED <<memory, working_command, write_pointer, read_pointer,
                 buffer, fetched>>

(* Mutant: the last line of the destination is left out.                   *)
Advance_LineShort ==
  /\ write_pointer' = write_pointer + Width
  /\ state' = IF write_pointer' + Width >= DestEnd THEN "FINISHED" ELSE state

(* The line at the write pointer is behind the engine.                     *)
Advance ==
  /\ write_pointer' = write_pointer + Width
  /\ state' = IF write_pointer' >= DestEnd THEN "FINISHED" ELSE state

(* Mutant: a range is taken to start with its line.                        *)
Start_OfLine(p, start) == 0

(* The part of the line at p that lies in start .. end - 1: the offsets    *)
(* start_offset and end_offset.                                            *)
Start(p, start) == IF start > p THEN start - p ELSE 0

End(p, end) == IF p + Width >= end THEN end - p ELSE Width

CopyRead ==
  LET start == Start(read_pointer, c.source)
      size  == End(read_pointer, SourceEnd) - start
      line  == ReadLine(memory, read_pointer)
      old   == active_buffer_size
  IN
  /\ Works("COPY")
  /\ AddToBuffer
  /\ active_buffer_valid' = TRUE
  /\ active_buffer_address' =
       IF active_buffer_valid THEN active_buffer_address ELSE c.source
  /\ active_buffer_size' = old + size
  /\ active_buffer' = [k \in DOMAIN active_buffer |->
                         IF k \in old .. old + size - 1
                         THEN line[start + (k - old)] ELSE active_buffer[k]]
  /\ read_pointer' = read_pointer + Width
  /\ UNCHANGED <<memory, state, write_pointer, fetched>>

WriteStart == Start(write_pointer, c.dest)
WriteEnd   == End(write_pointer, DestEnd)

(* Mutant: only the last line of the destination may be partial.           *)
NeedsFetch_LastLineOnly == WriteEnd # Width /\ ~fetched_writeback_data_valid

(* Mutant: a line that was fetched is fetched again.                       *)
NeedsFetch_Again == ~(WriteStart = 0 /\ WriteEnd = Width)

(* The line is partial and has not been fetched yet.                       *)
NeedsFetch ==
  ~(WriteStart = 0 /\ WriteEnd = Width) /\ ~fetched_writeback_data_valid

CopyFetch ==
  /\ Works("COPY")
  /\ ~AddToBuffer
  /\ NeedsFetch
  /\ fetched_writeback_data_valid' = TRUE
  /\ fetched_writeback_data' = ReadLine(memory, write_pointer)
  /\ UNCHANGED <<memory, state, write_pointer, read_pointer, buffer>>

CopyWrite ==
  LET size == WriteEnd - WriteStart IN
  /\ Works("COPY")
  /\ ~AddToBuffer
  /\ ~NeedsFetch
  /\ fetched_writeback_data' =
       [k \in DOMAIN fetched_writeback_data |->
          IF k \in WriteStart .. WriteEnd - 1
          THEN active_buffer[k - WriteStart] ELSE fetched_writeback_data[k]]
  /\ memory' = WriteLine(memory, write_pointer, fetched_writeback_data')
  /\ fetched_writeback_data_valid' = FALSE
  /\ Advance
  /\ active_buffer_address' = active_buffer_address + size
  /\ active_buffer_size' = active_buffer_size - size
  /\ active_buffer' = [k \in DOMAIN active_buffer |->
                         active_buffer[(k + size) % (2 * Width)]]
  /\ active_buffer_valid' = (active_buffer_valid /\ state' # "FINISHED")
  /\ UNCHANGED read_pointer
-----------------------------------------------------------------------------
(* set_cycle *)
ValueLine == [k \in 0 .. Width - 1 |-> c.value]
Remaining == DestEnd - write_pointer
WholeLine == Remaining >= Width /\ write_pointer >= c.dest

SetWhole ==
  /\ Works("SET")
  /\ WholeLine
  /\ memory' = WriteLine(memory, write_pointer, ValueLine)
  /\ Advance
  /\ UNCHANGED <<read_pointer, fetched, buffer>>

SetFetch ==
  /\ Works("SET")
  /\ ~WholeLine
  /\ ~fetched_writeback_data_valid
  /\ fetched_writeback_data_valid' = TRUE
  /\ fetched_writeback_data' = ReadLine(memory, write_pointer)
  /\ UNCHANGED <<memory, state, write_pointer, read_pointer, buffer>>

(* The value is merged into the fetched line, but the line written is the  *)
(* one that holds nothing but the value.  When the range starts inside the *)
(* line the index of the merge underflows: it has no effect, or crashes.   *)
SetPart ==
  /\ Works("SET")
  /\ ~WholeLine
  /\ fetched_writeback_data_valid
  /\ fetched_writeback_data' =
       IF write_pointer >= c.dest
       THEN [k \in DOMAIN fetched_writeback_data |->
               IF k < Remaining THEN c.value ELSE fetched_writeback_data[k]]
       ELSE fetched_writeback_data
  /\ memory' = WriteLine(memory, write_pointer, ValueLine)
  /\ fetched_writeback_data_valid' = FALSE
  /\ Advance
  /\ UNCHANGED <<read_pointer, buffer>>

SetCrash ==
  /\ Works("SET")
  /\ ~WholeLine
  /\ fetched_writeback_data_valid
  /\ write_pointer < c.dest
  /\ state' = "CRASHED"
  /\ UNCHANGED <<memory, write_pointer, read_pointer, buffer, fetched>>
-----------------------------------------------------------------------------
Copy == CopyRead \/ CopyFetch \/ CopyWrite
Set  == SetWhole \/ SetFetch \/ SetPart \/ SetCrash

RunCycle(first) == Rest(first) \/ (~first /\ (Crash \/ Copy \/ Set))

(* A command within memory, as submit wants it.                            *)
InMemory ==
  /\ c.length > 0
  /\ c.dest + c.length < MemSize
  /\ c.operation = "COPY" => c.source + c.length <= MemSize

(* The program is not ended by a command within memory, except by a set    *)
(* that starts inside a line; a command that has finished leaves the       *)
(* buffers as the assertions at its end say; and the buffer, whose         *)
(* capacity has no assertion, is never overrun.                            *)
AssertionsHold ==
  /\ state = "CRASHED" /\ InMemory => c.operation = "SET" /\ c.dest % Width # 0
  /\ state = "FINISHED" =>
       /\ ~fetched_writeback_data_valid
       /\ active_buffer_size = 0
       /\ c.operation = "COPY" => active_buffer_address = SourceEnd
  /\ active_buffer_size <= 2 * Width
=============================================================================
