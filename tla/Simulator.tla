----------------------------- MODULE Simulator ------------------------------
(***************************************************************************)
(* A run of the simulator from its command line to its exit code:          *)
(* src/main.cpp without the cycles themselves, which are module System.    *)
(*                                                                         *)
(* The program is read into memory and either listed (--dump) or run, with *)
(* --step in pieces that the user asks for; then registers and memory are  *)
(* written to the files that --dump_regs and --dump_mem name.              *)
(***************************************************************************)
EXTENDS Arguments

CONSTANTS
  FileSystem,   \* what is found at a path: a function to Kinds
  RunLengths,   \* the numbers of cycles a program may take to halt
  Answers,      \* what the user types at a prompt: an int, or Enter,
                \* which is also what the end of the input gives, or Junk
  Enter, Junk,
  StepModulus   \* 2^32: step_count is a uint32_t

Kinds == {"absent", "unwritable", "locked", "directory", "program",
          "unmarked", "oversized"}

(* A path that cannot be opened: its directory does not exist, or there is *)
(* a file the user has no right to.                                        *)
CannotOpen == {"unwritable", "locked"}

ASSUME SimulatorAssumption ==
  /\ \A path \in DOMAIN FileSystem : FileSystem[path] \in Kinds
  /\ \A line \in CommandLines : \A k \in DOMAIN line :
       Dashed(line[k]) \/ line[k] \in DOMAIN FileSystem
  /\ RunLengths \subseteq Nat \ {0}
  /\ StepModulus \in Nat \ {0, 1}
  /\ Answers \subseteq -(StepModulus \div 2) .. (StepModulus - 1) \div 2
                      \cup {Enter, Junk}

VARIABLES
  files,       \* what the run has written, by path
  run_length,  \* the cycle after which the core has halted
  cycle,       \* the global cycle
  step_count,
  asked, ran   \* history: the last answer, and the cycles run since

runVars == <<files, run_length, cycle, step_count, asked, ran>>
vars    == <<argumentVars, runVars>>

Aborted == 134   \* of a program that an exception or a bad access ends
Kind(path) == FileSystem[path]

(* The program goes on from one stage to another, or to its exit.          *)
Stage(from, to) ==
  /\ stage = from
  /\ stage' = to
  /\ UNCHANGED <<exit_code, arguments, parser>>
Leave(from, code) == stage = from /\ Exits(code)
-----------------------------------------------------------------------------
(* Config::validate: the input file exists.                                *)
Validate ==
  /\ IF Kind(program) \in {"absent", "unwritable"}
     THEN Leave("validate", 1) ELSE Stage("validate", "load")
  /\ UNCHANGED runVars

Loaded == Stage("load", IF Chosen("dump") THEN "list" ELSE "run")

(* copy_file_in: the read of a directory throws; a file that is larger     *)
(* than memory is copied past its end, which may do no harm, or crash.     *)
Load ==
  /\ CASE Kind(program) = "locked"    -> Leave("load", 1)
       [] Kind(program) = "directory" -> Leave("load", Aborted)
       [] Kind(program) = "oversized" -> Loaded \/ Leave("load", Aborted)
       [] OTHER -> Loaded
  /\ UNCHANGED runVars

(* Mutant: a program that has been listed is run as well.                  *)
List_ThenRun ==
  /\ Stage("list", "run")
  /\ UNCHANGED runVars

(* dump_program: without an end marker the listing runs out of memory,     *)
(* where it may find one, or crash.                                        *)
List ==
  /\ \/ Leave("list", 0)
     \/ Kind(program) # "program" /\ Leave("list", Aborted)
  /\ UNCHANGED runVars
-----------------------------------------------------------------------------
(* run_program *)

(* Mutant: the count is decremented below zero.                            *)
Decremented_Wraps(n) == (n - 1) % StepModulus

Decremented(n) == IF n > 0 THEN n - 1 ELSE n

(* A cycle; the status is printed; with --step the user is asked when the  *)
(* count is used up.                                                       *)
RunCycle ==
  /\ cycle < run_length
  /\ cycle' = cycle + 1
  /\ step_count' = Decremented(step_count)
  /\ ran' = ran + 1
  /\ Stage("run", IF Chosen("step") /\ step_count' = 0 THEN "prompt"
                                                      ELSE "run")
  /\ UNCHANGED <<files, run_length, asked>>

(* Mutant: the number is kept as the signed one that was read.             *)
Answer_Signed(a) ==
  /\ IF a = Junk THEN Leave("prompt", Aborted) ELSE Stage("prompt", "run")
  /\ step_count' = IF a \in {Enter, Junk} THEN 0 ELSE a
  /\ asked' = a /\ ran' = 0
  /\ UNCHANGED <<files, run_length, cycle>>

(* Mutant: the user is asked again until the answer is a number.           *)
Answer_UntilNumber(a) ==
  /\ Stage("prompt", IF a \in {Enter, Junk} THEN "prompt" ELSE "run")
  /\ step_count' = IF a \in {Enter, Junk} THEN 0 ELSE a % StepModulus
  /\ asked' = a /\ ran' = 0
  /\ UNCHANGED <<files, run_length, cycle>>

(* std::stoi throws when the line does not begin with a number.            *)
Answer(a) ==
  /\ IF a = Junk THEN Leave("prompt", Aborted) ELSE Stage("prompt", "run")
  /\ step_count' = IF a \in {Enter, Junk} THEN 0 ELSE a % StepModulus
  /\ asked' = a /\ ran' = 0
  /\ UNCHANGED <<files, run_length, cycle>>

RunEnds ==
  /\ cycle = run_length
  /\ Stage("run", "dump_regs")
  /\ UNCHANGED runVars
-----------------------------------------------------------------------------
(* dump_regs and dump_mem: a directory is an error; a file that cannot be  *)
(* opened is not noticed.  Each stage has the name of its option.          *)

Written(path, content) ==
  files' = IF path # "" /\ Kind(path) \notin CannotOpen
           THEN [files EXCEPT ![path] = content] ELSE files

DumpFails(o) == value[o] # "" /\ Kind(value[o]) = "directory"

DumpError ==
  /\ \E o \in StringOptions : DumpFails(o) /\ Leave(o, 1)
  /\ UNCHANGED runVars

DumpRegs ==
  /\ ~DumpFails("dump_regs")
  /\ Written(value["dump_regs"], "registers")
  /\ Stage("dump_regs", "dump_mem")
  /\ UNCHANGED <<run_length, cycle, step_count, asked, ran>>

(* Mutant: memory is dumped to the file of the registers.                  *)
DumpMem_ToRegs ==
  /\ ~DumpFails("dump_mem")
  /\ Written(value["dump_regs"], "memory")
  /\ Leave("dump_mem", 0)
  /\ UNCHANGED <<run_length, cycle, step_count, asked, ran>>

DumpMem ==
  /\ ~DumpFails("dump_mem")
  /\ Written(value["dump_mem"], "memory")
  /\ Leave("dump_mem", 0)
  /\ UNCHANGED <<run_length, cycle, step_count, asked, ran>>
-----------------------------------------------------------------------------
Init ==
  /\ ArgumentsInit
  /\ files = [path \in DOMAIN FileSystem |-> "as before"]
  /\ run_length \in RunLengths
  /\ cycle = 0
  /\ step_count = 1
  /\ asked = Enter /\ ran = 0

Next ==
  \/ ParseArguments /\ UNCHANGED runVars
  \/ Validate \/ Load \/ List
  \/ RunCycle \/ (\E a \in Answers : Answer(a)) \/ RunEnds
  \/ DumpError \/ DumpRegs \/ DumpMem

Spec == Init /\ [][Next]_vars

(* The program runs on, the user answers, and the core halts (Halts of     *)
(* module System).                                                         *)
FairSpec == Spec /\ WF_vars(Next)
-----------------------------------------------------------------------------
TypeOK ==
  /\ stage \in {"arguments", "validate", "load", "list", "run", "prompt",
                "dump_regs", "dump_mem", "exited"}
  /\ exit_code \in {-1, 0, 1, Aborted}
  /\ (stage = "exited") = (exit_code # -1)
  /\ count \in [Options -> 0 .. MaxCount]
  /\ cycle \in 0 .. run_length
  /\ step_count \in 0 .. StepModulus - 1
  /\ files \in [DOMAIN FileSystem -> {"as before", "registers", "memory"}]

(* The user gets the prompt back after as many cycles as asked for, and    *)
(* after one when pressing enter, at the start, or when asking for none.   *)
(* A negative number is one of 32 bits without a sign: nearly no end.      *)
StepsAsAsked ==
  stage = "prompt" =>
    ran = (IF asked \in {Enter, 0} THEN 1 ELSE asked % StepModulus)

Requested(o) == value[o] # "" /\ Kind(value[o]) \notin CannotOpen
Survives(o)  == o = "dump_regs" => value["dump_mem"] # value["dump_regs"]
Content(o)   == IF o = "dump_regs" THEN "registers" ELSE "memory"

(* A program that exits with 0 and was run has written every dump that was *)
(* asked for, once the core had halted.  Two cases are not noticed: a file *)
(* that cannot be opened, and registers that memory overwrites.            *)
DumpsWritten ==
  stage = "exited" /\ exit_code = 0 /\ ~Help /\ ~Chosen("dump") =>
    /\ cycle = run_length
    /\ \A o \in StringOptions :
         Requested(o) /\ Survives(o) => files[value[o]] = Content(o)

(* No file is written by a program that is listed, rejected or aborted,    *)
(* and after an error not the one that was in error.                       *)
FilesKept ==
  stage = "exited" =>
    \A path \in DOMAIN files :
      files[path] # "as before" =>
        /\ cycle = run_length /\ ~Chosen("dump") /\ exit_code # Aborted
        /\ path \in {value[o] : o \in StringOptions}
        /\ Kind(path) # "directory"

(* Every run of the simulator ends.                                        *)
Exited == <>(stage = "exited")
=============================================================================
