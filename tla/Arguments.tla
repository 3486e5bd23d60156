----------------------------- MODULE Arguments ------------------------------
(***************************************************************************)
(* The command line: src/config.cpp, parse_arguments.                      *)
(*                                                                         *)
(* The arguments are read one after another; each step is one turn of the  *)
(* loop.  An argument that begins with a dash is an option or an error;    *)
(* any other is the value of the option before it, if that expects one, or *)
(* else positional.  The build is the one with RPC: without it the source  *)
(* does not compile.                                                       *)
(***************************************************************************)
EXTENDS Integers, Sequences, FiniteSets

CONSTANTS
  CommandLines,  \* the argument lists, without argv[0]
  Unknown        \* arguments that begin with a dash and name no option

(* optional_arguments: the long and the short name of each option.         *)
Names ==
  [help      |-> {"--help", "-h"},      inspect  |-> {"--inspect", "-i"},
   dump      |-> {"--dump", "-d"},      pipeline |-> {"--pipeline", "-p"},
   trace     |-> {"--trace", "-t"},     step     |-> {"--step", "-s"},
   dump_regs |-> {"--dump_regs", "-r"}, dump_mem |-> {"--dump_mem", "-m"}]

Options       == DOMAIN Names
StringOptions == {"dump_regs", "dump_mem"}
MaxCount      == 1

Dashed(argument) ==
  argument \in Unknown \/ \E o \in Options : argument \in Names[o]

ASSUME ArgumentsAssumption ==
  /\ CommandLines \subseteq Seq(STRING)
  /\ \A o \in Options : Unknown \cap Names[o] = {}

NoOption == "none"

VARIABLES
  stage,       \* "arguments", or what the program does next
  exit_code,   \* of a program that has exited, or -1
  arguments, position,
  count,       \* [Options -> Nat]
  value,       \* of the options that expect one
  program,     \* the value of the positional argument
  positional_arguments_seen, optional_value_target, print_help, error

(* optional_value_target is NoOption unless expecting_optional.            *)
expecting_optional == optional_value_target # NoOption

parser == <<position, count, value, program, positional_arguments_seen,
            optional_value_target, print_help, error>>
argumentVars == <<stage, exit_code, arguments, parser>>

argument == arguments[position]

Exit(code) == stage' = "exited" /\ exit_code' = code

Exits(code) == Exit(code) /\ UNCHANGED <<arguments, parser>>
-----------------------------------------------------------------------------
NoArguments ==
  /\ stage = "arguments"
  /\ arguments = << >>
  /\ Exits(1)

Reads ==
  /\ stage = "arguments"
  /\ position \in DOMAIN arguments
  /\ UNCHANGED <<stage, exit_code, arguments>>

(* The loop goes on with the next argument, or is left.                    *)
Continue == position' = position + 1
Break    == position' = Len(arguments) + 1

(* Mutant: an option may be given where a value is expected.               *)
TakeOption_ForValue(o) ==
  /\ Reads
  /\ argument \in Names[o]
  /\ count[o] < MaxCount
  /\ count' = [count EXCEPT ![o] = @ + 1]
  /\ optional_value_target' =
       IF o \in StringOptions THEN o ELSE optional_value_target
  /\ IF error THEN Break ELSE Continue
  /\ UNCHANGED <<value, program, positional_arguments_seen, print_help, error>>

(* An option: it is counted even when a value was expected in its place.   *)
TakeOption(o) ==
  /\ Reads
  /\ argument \in Names[o]
  /\ count[o] < MaxCount
  /\ count' = [count EXCEPT ![o] = @ + 1]
  /\ optional_value_target' =
       IF o \in StringOptions THEN o ELSE optional_value_target
  /\ error' = (error \/ expecting_optional)
  /\ IF error' THEN Break ELSE Continue
  /\ UNCHANGED <<value, program, positional_arguments_seen, print_help>>

(* An option that was given before, or that there is not.                  *)
RejectOption ==
  /\ Reads
  /\ Dashed(argument)
  /\ \A o \in Options : argument \in Names[o] => count[o] = MaxCount
  /\ error' = TRUE
  /\ Break
  /\ UNCHANGED <<count, value, program, positional_arguments_seen,
                 optional_value_target, print_help>>

TakeValue ==
  /\ Reads
  /\ ~Dashed(argument)
  /\ expecting_optional
  /\ value' = [value EXCEPT ![optional_value_target] = argument]
  /\ optional_value_target' = NoOption
  /\ Continue
  /\ UNCHANGED <<count, program, positional_arguments_seen, print_help, error>>

TakePositional ==
  /\ Reads
  /\ ~Dashed(argument)
  /\ ~expecting_optional
  /\ positional_arguments_seen = 0
  /\ program' = argument
  /\ positional_arguments_seen' = 1
  /\ Continue
  /\ UNCHANGED <<count, value, optional_value_target, print_help, error>>

(* Mutant: the last positional argument is taken.                          *)
ExtraPositional_LastWins ==
  /\ Reads
  /\ ~Dashed(argument)
  /\ ~expecting_optional
  /\ positional_arguments_seen = 1
  /\ program' = argument
  /\ Continue
  /\ UNCHANGED <<count, value, positional_arguments_seen,
                 optional_value_target, print_help, error>>

(* One positional argument too many: an error, but the loop goes on.       *)
ExtraPositional ==
  /\ Reads
  /\ ~Dashed(argument)
  /\ ~expecting_optional
  /\ positional_arguments_seen = 1
  /\ print_help' = TRUE
  /\ error' = TRUE
  /\ Continue
  /\ UNCHANGED <<count, value, program, positional_arguments_seen,
                 optional_value_target>>
-----------------------------------------------------------------------------
(* Behind the loop.                                                        *)

Help == print_help \/ count["help"] > 0

Erroneous ==
  error \/ expecting_optional \/ (~Help /\ positional_arguments_seen = 0)

Parsed ==
  /\ stage = "arguments"
  /\ arguments # << >>
  /\ position \notin DOMAIN arguments

Reject ==
  /\ Parsed
  /\ Help \/ Erroneous
  /\ Exits(IF Erroneous THEN 1 ELSE 0)

Accept ==
  /\ Parsed
  /\ ~Help /\ ~Erroneous
  /\ stage' = "validate"
  /\ UNCHANGED <<exit_code, arguments, parser>>

ArgumentsInit ==
  /\ stage = "arguments"
  /\ exit_code = -1
  /\ arguments \in CommandLines
  /\ position = 1
  /\ count = [o \in Options |-> 0]
  /\ value = [o \in StringOptions |-> ""]
  /\ program = ""
  /\ positional_arguments_seen = 0
  /\ optional_value_target = NoOption
  /\ print_help = FALSE
  /\ error = FALSE

ParseArguments ==
  \/ NoArguments
  \/ (\E o \in Options : TakeOption(o)) \/ RejectOption
  \/ TakeValue \/ TakePositional \/ ExtraPositional
  \/ Reject \/ Accept

(* The configuration that is returned: boolean options are TRUE if they    *)
(* were counted.                                                           *)
Chosen(o) == count[o] > 0
-----------------------------------------------------------------------------
(* What a command line means, without reading it in order.                 *)

Places(o)     == {k \in DOMAIN arguments : arguments[k] \in Names[o]}
ValuePlaces   == {k + 1 : k \in UNION {Places(o) : o \in StringOptions}}
Positional    == {k \in DOMAIN arguments \ ValuePlaces : ~Dashed(arguments[k])}

(* Every option is known and given once at most, every option that expects *)
(* a value is followed by one, and the program is named once, or need not  *)
(* be when help is asked for.                                              *)
WellFormed ==
  /\ arguments # << >>
  /\ \A k \in DOMAIN arguments : arguments[k] \notin Unknown
  /\ \A o \in Options : Cardinality(Places(o)) <= MaxCount
  /\ \A k \in ValuePlaces : k \in DOMAIN arguments /\ ~Dashed(arguments[k])
  /\ Cardinality(Positional) <= 1
  /\ Positional = {} => Places("help") # {}

(* The parser accepts the command lines that are well formed and no others;*)
(* a request for help exits with 0 only when the rest is well formed.      *)
AcceptsExactly ==
  [][stage = "arguments" /\ stage' # "arguments" =>
       CASE ~WellFormed -> stage' = "exited" /\ exit_code' = 1
         [] WellFormed /\ Places("help") # {} ->
              stage' = "exited" /\ exit_code' = 0
         [] WellFormed /\ Places("help") = {} -> stage' = "validate"
    ]_argumentVars

(* An accepted command line gives every option the value that stands       *)
(* behind it, whatever is given before, after and between.                 *)
ConfigAsWritten ==
  stage = "validate" =>
    /\ \A o \in Options : Chosen(o) <=> Places(o) # {}
    /\ \A o \in StringOptions :
         IF Places(o) = {} THEN value[o] = ""
         ELSE \A k \in Places(o) : value[o] = arguments[k + 1]
    /\ \A k \in Positional : program = arguments[k]
=============================================================================
