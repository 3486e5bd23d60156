-------------------------- MODULE SimulatorProofs ---------------------------
(***************************************************************************)
(* Proofs about a run of the simulator from its command line to its exit   *)
(* code, for every command line of any length, any files, any answers of   *)
(* the user and any number of cycles.                                      *)
(***************************************************************************)
EXTENDS Simulator, FiniteSetTheorems, TLAPS

(* The places that have been read.                                         *)
Read == 1 .. position - 1

(* What is kept of the arguments before position is what they say.         *)
CountsRead ==
  \A o \in Options :
    /\ count[o] = 0 <=> Places(o) \cap Read = {}
    /\ \A j, k \in Places(o) \cap Read : j = k

ValuesRead ==
  \A o \in StringOptions :
    /\ optional_value_target = o <=> position - 1 \in Places(o)
    /\ Places(o) \cap Read = {} => value[o] = ""
    /\ \A k \in Places(o) : k + 1 \in Read => value[o] = arguments[k + 1]

ProgramRead ==
  /\ positional_arguments_seen = 0 <=> Positional \cap Read = {}
  /\ \A j, k \in Positional \cap Read : j = k
  /\ \A k \in Positional \cap Read : program = arguments[k]

NoneWrong ==
  /\ \A k \in Read : arguments[k] \notin Unknown
  /\ \A k \in ValuePlaces \cap Read : ~Dashed(arguments[k])

AsRead == CountsRead /\ ValuesRead /\ ProgramRead /\ NoneWrong

(* A path that a dump may go to.                                           *)
Path == {""} \cup DOMAIN FileSystem

ParserTypes ==
  /\ arguments \in CommandLines
  /\ position \in 1 .. Len(arguments) + 1
  /\ count \in [Options -> 0 .. MaxCount]
  /\ value \in [StringOptions -> Path]
  /\ positional_arguments_seen \in {0, 1}
  /\ optional_value_target \in StringOptions \cup {NoOption}
  /\ print_help \in BOOLEAN /\ error \in BOOLEAN
  /\ print_help => error

(* As long as the arguments are read.                                      *)
Reading == stage = "arguments" => IF error THEN ~WellFormed ELSE AsRead

ParserInv == ParserTypes /\ Reading /\ ConfigAsWritten
-----------------------------------------------------------------------------
Running == {"run", "prompt", "dump_regs", "dump_mem"}

Untouched == [path \in DOMAIN FileSystem |-> "as before"]

(* The number of cycles until the next prompt.                             *)
Asked == IF asked \in {Enter, 0} THEN 1 ELSE asked % StepModulus

(* In the loop the cycles run and those still to be run are as many.       *)
StepsLeft ==
  /\ ran \in Nat
  /\ stage \in {"arguments", "validate", "load"} =>
       ran = 0 /\ step_count = 1 /\ asked = Enter
  /\ stage = "run" /\ Chosen("step") =>
       ran + (IF step_count = 0 THEN 1 ELSE step_count) = Asked
  /\ stage = "prompt" => ran = Asked

(* What the files are at every stage.                                      *)
FilesSoFar ==
  /\ stage \notin {"dump_mem", "exited"} => files = Untouched
  /\ stage = "dump_mem" =>
       /\ ~DumpFails("dump_regs")
       /\ files = IF Requested("dump_regs")
                  THEN [Untouched EXCEPT ![value["dump_regs"]] = "registers"]
                  ELSE Untouched

StageReached ==
  /\ stage \in Running => ~Chosen("dump")
  /\ stage = "list" => Chosen("dump")
  /\ stage \in {"dump_regs", "dump_mem"} => cycle = run_length

RunInv ==
  /\ TypeOK /\ run_length \in Nat
  /\ StepsLeft /\ FilesSoFar /\ StageReached /\ DumpsWritten /\ FilesKept

SimulatorInv == ParserInv /\ RunInv
-----------------------------------------------------------------------------
LEMMA OptionNames ==
  Options = {"help", "inspect", "dump", "pipeline", "trace", "step",
             "dump_regs", "dump_mem"}
BY DEF Options, Names

LEMMA StringOptionNames == StringOptions \subseteq Options
BY OptionNames DEF StringOptions

LEMMA NoOptionIsNone == NoOption \notin StringOptions
BY DEF StringOptions, NoOption

(* A name is that of one option, and of none that is unknown.              *)
LEMMA NamesApart ==
  ASSUME NEW o \in Options, NEW p \in Options, NEW a,
         a \in Names[o], a \in Names[p]
  PROVE  o = p
BY OptionNames DEF Names

LEMMA NamesKnown ==
  ASSUME NEW o \in Options, NEW a \in Names[o]
  PROVE  a \notin Unknown /\ Dashed(a)
BY ArgumentsAssumption DEF Dashed

LEMMA OneAtMost ==
  ASSUME NEW S, IsFiniteSet(S)
  PROVE  Cardinality(S) <= 1 <=> \A x, y \in S : x = y
<1>1. Cardinality(S) \in Nat BY FS_CardinalityType
<1>2. Cardinality(S) = 0 <=> S = {} BY FS_EmptySet
<1>3. Cardinality(S) = 1 <=> \E x : S = {x} BY FS_Singleton
<1>4. (\A x, y \in S : x = y) <=> (S = {} \/ \E x : S = {x}) OBVIOUS
<1>5. Cardinality(S) <= 1 <=> (Cardinality(S) = 0 \/ Cardinality(S) = 1)
  BY <1>1
<1> QED BY <1>2, <1>3, <1>4, <1>5

(* The arguments have finitely many places.                                *)
LEMMA PlacesFinite ==
  ASSUME ParserTypes
  PROVE  /\ arguments \in Seq(STRING)
         /\ \A S \in SUBSET DOMAIN arguments : IsFiniteSet(S)
         /\ \A o \in Options : Places(o) \subseteq DOMAIN arguments
         /\ Positional \subseteq DOMAIN arguments
<1>1. arguments \in Seq(STRING) BY ArgumentsAssumption DEF ParserTypes
<1>2. IsFiniteSet(1 .. Len(arguments)) BY <1>1, FS_Interval
<1>3. ASSUME NEW S \in SUBSET DOMAIN arguments
      PROVE  IsFiniteSet(S)
  BY <1>1, <1>2, FS_Subset
<1> QED BY <1>1, <1>3 DEF Places, Positional

(* What it means to be well formed, without counting.                      *)
Proper ==
  /\ arguments # << >>
  /\ \A k \in DOMAIN arguments : arguments[k] \notin Unknown
  /\ \A o \in Options : \A j, k \in Places(o) : j = k
  /\ \A k \in ValuePlaces : k \in DOMAIN arguments /\ ~Dashed(arguments[k])
  /\ \A j, k \in Positional : j = k
  /\ Positional = {} => Places("help") # {}

LEMMA WellFormedIsProper ==
  ASSUME ParserTypes
  PROVE  WellFormed <=> Proper
<1>1. \A o \in Options : Cardinality(Places(o)) <= MaxCount
                           <=> \A j, k \in Places(o) : j = k
  BY PlacesFinite, OneAtMost DEF MaxCount
<1>2. Cardinality(Positional) <= 1 <=> \A j, k \in Positional : j = k
  BY PlacesFinite, OneAtMost
<1> QED BY <1>1, <1>2 DEF WellFormed, Proper

(* What is said of the arguments depends on nothing else.                  *)
LEMMA SameArguments ==
  ASSUME UNCHANGED arguments
  PROVE  /\ \A o \in Options : Places(o)' = Places(o)
         /\ ValuePlaces' = ValuePlaces
         /\ Positional' = Positional
         /\ WellFormed' <=> WellFormed
<1>1. \A o \in Options : Places(o)' = Places(o) BY DEF Places
<1>2. ValuePlaces' = ValuePlaces
  BY DEF Places, ValuePlaces
<1>3. Positional' = Positional BY <1>2 DEF Positional, Dashed
<1> QED BY <1>1, <1>2, <1>3, OptionNames DEF WellFormed, Dashed

(* The parser knows whether a value is to come.                            *)
LEMMA NextPlace ==
  ASSUME ParserTypes, AsRead, position \in DOMAIN arguments
  PROVE  /\ position \in ValuePlaces <=> expecting_optional
         /\ position \in Positional
              <=> (~expecting_optional /\ ~Dashed(argument))
<1>1. arguments \in Seq(STRING) /\ position \in Int
  BY PlacesFinite DEF ParserTypes
<1>2. position \in ValuePlaces
        <=> \E o \in StringOptions : position - 1 \in Places(o)
  BY <1>1 DEF ValuePlaces, Places
<1>3. expecting_optional
        <=> \E o \in StringOptions : optional_value_target = o
  BY NoOptionIsNone DEF ParserTypes, expecting_optional
<1> QED BY <1>2, <1>3 DEF AsRead, ValuesRead, Positional, argument

(* One more argument has been read.                                        *)
LEMMA OneMoreRead ==
  ASSUME ParserTypes, Reads, Continue
  PROVE  /\ position \in DOMAIN arguments
         /\ position' \in 1 .. Len(arguments) + 1
         /\ arguments \in Seq(STRING) /\ DOMAIN arguments = 1 .. Len(arguments)
         /\ position \in Nat \ {0} /\ position' = position + 1
         /\ Read' = Read \cup {position} /\ position \notin Read
         /\ UNCHANGED <<stage, exit_code, arguments>>
<1>1. arguments \in Seq(STRING) /\ position \in Nat \ {0}
  BY PlacesFinite DEF ParserTypes
<1> QED BY <1>1 DEF Reads, Continue, Read, ParserTypes

LEMMA OptionTaken ==
  ASSUME ParserTypes, Reading, NEW o \in Options, TakeOption(o), ~error'
  PROVE  AsRead'
<1>1. ~error /\ ~expecting_optional /\ AsRead /\ Reads /\ Continue
  BY DEF TakeOption, Reading, Reads, ParserTypes
<1>2. \A p \in Options : position \in Places(p) <=> p = o
  BY <1>1, OneMoreRead, NamesApart DEF TakeOption, Places, argument
<1>3. position \notin ValuePlaces /\ position \notin Positional
  BY <1>1, NextPlace, NamesKnown, OneMoreRead DEF TakeOption
<1>4. CountsRead'
  <2>1. count' = [count EXCEPT ![o] = @ + 1] /\ count[o] = 0
    BY DEF TakeOption, ParserTypes, MaxCount
  <2>2. ASSUME NEW p \in Options
        PROVE  Places(p)' \cap Read' =
                 IF p = o THEN (Places(p) \cap Read) \cup {position}
                 ELSE Places(p) \cap Read
    BY <1>1, <1>2, OneMoreRead, SameArguments
  <2>3. count'[o] # 0 /\ \A p \in Options : p # o => count'[p] = count[p]
    BY <2>1 DEF ParserTypes, MaxCount
  <2>4. ASSUME NEW p \in Options, p # o
        PROVE  /\ count'[p] = 0 <=> Places(p)' \cap Read' = {}
               /\ \A j, k \in Places(p)' \cap Read' : j = k
    BY <1>1, <2>2, <2>3, <2>4 DEF AsRead, CountsRead
  <2>5. /\ count'[o] = 0 <=> Places(o)' \cap Read' = {}
        /\ \A j, k \in Places(o)' \cap Read' : j = k
    BY <1>1, <2>1, <2>2, <2>3 DEF AsRead, CountsRead
  <2> QED BY <2>4, <2>5 DEF CountsRead
<1>5. ValuesRead'
  <2>1. optional_value_target = NoOption
    BY <1>1 DEF expecting_optional
  <2>2. ASSUME NEW p \in StringOptions
        PROVE  /\ optional_value_target' = p <=> p = o
               /\ position \in Places(p) <=> p = o
               /\ position - 1 \notin Places(p)
    BY <1>1, <1>2, <2>1, NoOptionIsNone, StringOptionNames
       DEF TakeOption, AsRead, ValuesRead
  <2>3. ASSUME NEW p \in StringOptions
        PROVE  (optional_value_target = p)' <=> (position - 1 \in Places(p))'
    BY <1>1, <2>2, OneMoreRead, SameArguments, StringOptionNames
  <2>4. UNCHANGED value BY DEF TakeOption
  <2>5. ASSUME NEW p \in StringOptions, Places(p)' \cap Read' = {}
        PROVE  value'[p] = ""
    <3>1. Places(p) \cap Read = {}
      BY <1>1, <2>5, OneMoreRead, SameArguments, StringOptionNames
    <3> QED BY <1>1, <2>4, <3>1 DEF AsRead, ValuesRead
  <2>6. ASSUME NEW p \in StringOptions, NEW k \in Places(p)',
               k + 1 \in Read'
        PROVE  value'[p] = arguments'[k + 1]
    <3>1. k \in Places(p) /\ k \in Int
      BY <1>1, <2>6, OneMoreRead, SameArguments, StringOptionNames DEF Places
    <3>2. k + 1 # position BY <2>2, <3>1, OneMoreRead, <1>1
    <3> QED BY <1>1, <2>4, <2>6, <3>1, <3>2, OneMoreRead DEF AsRead, ValuesRead
  <2> QED BY <2>3, <2>5, <2>6 DEF ValuesRead
<1>6. ProgramRead'
  <2>1. Positional' \cap Read' = Positional \cap Read
    BY <1>1, <1>3, OneMoreRead, SameArguments
  <2>2. UNCHANGED <<positional_arguments_seen, program, arguments>>
    BY <1>1 DEF TakeOption, Reads
  <2> QED BY <1>1, <2>1, <2>2 DEF AsRead, ProgramRead
<1>7. NoneWrong'
  <2>1. argument \notin Unknown BY NamesKnown DEF TakeOption
  <2> QED BY <1>1, <1>3, <2>1, OneMoreRead, SameArguments
          DEF AsRead, NoneWrong, argument, Dashed
<1> QED BY <1>4, <1>5, <1>6, <1>7 DEF AsRead

LEMMA ValueTaken ==
  ASSUME ParserTypes, Reading, TakeValue, ~error'
  PROVE  AsRead'
<1>1. ~error /\ expecting_optional /\ AsRead /\ Reads /\ Continue
  BY DEF TakeValue, Reading, Reads, ParserTypes
<1>2. PICK o \in StringOptions : optional_value_target = o
  BY <1>1 DEF ParserTypes, expecting_optional
<1>3. o \in Options BY StringOptionNames
<1>4. \A p \in Options : position \notin Places(p)
  BY <1>1, OneMoreRead, NamesKnown DEF TakeValue, Places, argument
<1>5. position \notin Positional BY <1>1, NextPlace, OneMoreRead
<1>6. \A p \in Options : Places(p)' \cap Read' = Places(p) \cap Read
  BY <1>1, <1>4, OneMoreRead, SameArguments
<1>7. CountsRead'
  BY <1>1, <1>6 DEF TakeValue, AsRead, CountsRead
<1>8. ValuesRead'
  <2>1. value' = [value EXCEPT ![o] = argument] /\ o \in DOMAIN value
    BY <1>2 DEF TakeValue, ParserTypes
  <2>2. optional_value_target' = NoOption BY DEF TakeValue
  <2>3. \A p \in StringOptions : position - 1 \in Places(p) <=> p = o
    BY <1>1, <1>2 DEF AsRead, ValuesRead
  <2>4. ASSUME NEW p \in StringOptions
        PROVE  (optional_value_target = p)' <=> (position - 1 \in Places(p))'
    BY <1>1, <1>4, <2>2, OneMoreRead, SameArguments, StringOptionNames,
       NoOptionIsNone
  <2>5. ASSUME NEW p \in StringOptions, Places(p)' \cap Read' = {}
        PROVE  value'[p] = ""
    <3>1. Places(p) \cap Read = {} /\ p # o
      <4>1. Places(p) \cap Read = {} BY <1>6, <2>5, StringOptionNames
      <4>2. ASSUME position - 1 \in Places(p)
            PROVE  position - 1 \in Read
        BY <1>1, <4>2, OneMoreRead DEF Read, Places
      <4> QED BY <2>3, <4>1, <4>2
    <3>2. value'[p] = value[p] BY <2>1, <3>1 DEF ParserTypes
    <3> QED BY <1>1, <3>1, <3>2 DEF AsRead, ValuesRead
  <2>6. ASSUME NEW p \in StringOptions, NEW k \in Places(p)',
               k + 1 \in Read'
        PROVE  value'[p] = arguments'[k + 1]
    <3>1. k \in Places(p) /\ k \in Int
      BY <1>1, <2>6, OneMoreRead, SameArguments, StringOptionNames DEF Places
    <3>2. CASE k + 1 = position
      <4>1. p = o BY <2>3, <3>1, <3>2, <1>1, OneMoreRead
      <4> QED BY <1>1, <2>1, <3>2, <4>1, OneMoreRead DEF argument
    <3>3. CASE k + 1 # position
      <4>1. k + 1 \in Read BY <1>1, <2>6, <3>3, OneMoreRead
      <4>2. p # o
        <5>1. SUFFICES ASSUME p = o PROVE FALSE OBVIOUS
        <5>2. position - 1 \in Places(o) BY <2>3
        <5>3. position - 1 \in Read /\ k \in Read
          BY <1>1, <3>1, <4>1, <5>2, OneMoreRead DEF Read, Places
        <5> QED BY <1>1, <1>3, <3>1, <3>3, <5>1, <5>2, <5>3, OneMoreRead
                DEF AsRead, CountsRead
      <4>3. value'[p] = value[p] BY <2>1, <4>2 DEF ParserTypes
      <4> QED BY <1>1, <3>1, <4>1, <4>3, OneMoreRead DEF AsRead, ValuesRead
    <3> QED BY <3>2, <3>3
  <2> QED BY <2>4, <2>5, <2>6 DEF ValuesRead
<1>9. ProgramRead'
  <2>1. Positional' \cap Read' = Positional \cap Read
    BY <1>1, <1>5, OneMoreRead, SameArguments
  <2>2. UNCHANGED <<positional_arguments_seen, program, arguments>>
    BY <1>1 DEF TakeValue, Reads
  <2> QED BY <1>1, <2>1, <2>2 DEF AsRead, ProgramRead
<1>10. NoneWrong'
  <2>1. argument \notin Unknown /\ ~Dashed(argument)
    BY DEF TakeValue, Dashed
  <2> QED BY <1>1, <2>1, OneMoreRead, SameArguments
          DEF AsRead, NoneWrong, argument, Dashed
<1> QED BY <1>7, <1>8, <1>9, <1>10 DEF AsRead

LEMMA PositionalTaken ==
  ASSUME ParserTypes, Reading, TakePositional, ~error'
  PROVE  AsRead'
<1>1. ~error /\ ~expecting_optional /\ AsRead /\ Reads /\ Continue
  BY DEF TakePositional, Reading, Reads, ParserTypes
<1>2. \A p \in Options : position \notin Places(p)
  BY <1>1, OneMoreRead, NamesKnown DEF TakePositional, Places, argument
<1>3. position \in Positional /\ position \notin ValuePlaces
  BY <1>1, NextPlace, OneMoreRead DEF TakePositional
<1>4. \A p \in Options : Places(p)' \cap Read' = Places(p) \cap Read
  BY <1>1, <1>2, OneMoreRead, SameArguments
<1>5. CountsRead'
  BY <1>1, <1>4 DEF TakePositional, AsRead, CountsRead
<1>6. ValuesRead'
  <2>1. UNCHANGED <<value, optional_value_target>> BY DEF TakePositional
  <2>2. \A p \in StringOptions : position - 1 \notin Places(p)
    BY <1>1, NoOptionIsNone DEF AsRead, ValuesRead, expecting_optional
  <2>3. ASSUME NEW p \in StringOptions
        PROVE  (optional_value_target = p)' <=> (position - 1 \in Places(p))'
    BY <1>1, <1>2, <2>1, OneMoreRead, SameArguments, StringOptionNames,
       NoOptionIsNone DEF expecting_optional
  <2>4. ASSUME NEW p \in StringOptions, Places(p)' \cap Read' = {}
        PROVE  value'[p] = ""
    BY <1>1, <1>4, <2>1, <2>4, StringOptionNames DEF AsRead, ValuesRead
  <2>5. ASSUME NEW p \in StringOptions, NEW k \in Places(p)',
               k + 1 \in Read'
        PROVE  value'[p] = arguments'[k + 1]
    <3>1. k \in Places(p) /\ k \in Int
      BY <1>1, <2>5, OneMoreRead, SameArguments, StringOptionNames DEF Places
    <3>2. k + 1 # position BY <1>3, <3>1 DEF ValuePlaces
    <3> QED BY <1>1, <2>1, <2>5, <3>1, <3>2, OneMoreRead DEF AsRead, ValuesRead
  <2> QED BY <2>3, <2>4, <2>5 DEF ValuesRead
<1>7. ProgramRead'
  <2>1. Positional \cap Read = {}
    BY <1>1 DEF TakePositional, AsRead, ProgramRead
  <2>2. Positional' \cap Read' = {position}
    BY <1>1, <1>3, <2>1, OneMoreRead, SameArguments
  <2>3. positional_arguments_seen' = 1 /\ program' = arguments'[position]
    BY <1>1, OneMoreRead DEF TakePositional, argument
  <2> QED BY <2>2, <2>3 DEF ProgramRead
<1>8. NoneWrong'
  <2>1. argument \notin Unknown /\ ~Dashed(argument)
    BY DEF TakePositional, Dashed
  <2> QED BY <1>1, <2>1, OneMoreRead, SameArguments
          DEF AsRead, NoneWrong, argument, Dashed
<1> QED BY <1>5, <1>6, <1>7, <1>8 DEF AsRead

(* What the parser calls an error is one.                                  *)
LEMMA ErrorFound ==
  ASSUME ParserTypes, Reading, stage = "arguments", error',
         \/ \E o \in Options : TakeOption(o)
         \/ RejectOption
         \/ TakeValue \/ TakePositional \/ ExtraPositional
  PROVE  ~WellFormed
<1>1. CASE error BY <1>1 DEF Reading
<1>2. CASE ~error
  <2>1. AsRead /\ Reads /\ position \in DOMAIN arguments
    BY <1>2 DEF Reading, TakeOption, RejectOption, TakeValue, TakePositional,
                ExtraPositional, Reads
  <2>2. arguments \in Seq(STRING) /\ position \in Nat \ {0}
    BY PlacesFinite DEF ParserTypes
  <2>3. position \notin Read BY <2>2 DEF Read
  <2>4. ASSUME NEW o \in Options, TakeOption(o)
        PROVE  ~Proper
    <3>1. expecting_optional /\ argument \in Names[o]
      BY <1>2, <2>4 DEF TakeOption
    <3>2. position \in ValuePlaces /\ Dashed(arguments[position])
      BY <2>1, <3>1, NextPlace, NamesKnown DEF argument
    <3> QED BY <3>2 DEF Proper
  <2>5. ASSUME RejectOption
        PROVE  ~Proper
    <3>1. CASE argument \in Unknown BY <2>1, <3>1 DEF Proper, argument
    <3>2. CASE argument \notin Unknown
      <4>1. PICK o \in Options : argument \in Names[o]
        BY <2>5, <3>2 DEF RejectOption, Dashed
      <4>2. count[o] # 0 BY <2>5, <4>1 DEF RejectOption, MaxCount
      <4>3. PICK k \in Places(o) : k \in Read
        BY <2>1, <4>2 DEF AsRead, CountsRead
      <4>4. position \in Places(o) BY <2>1, <4>1 DEF Places, argument
      <4> QED BY <2>3, <4>3, <4>4 DEF Proper
    <3> QED BY <3>1, <3>2
  <2>6. ASSUME ExtraPositional
        PROVE  ~Proper
    <3>1. position \in Positional
      BY <2>1, <2>6, NextPlace DEF ExtraPositional
    <3>2. PICK k \in Positional : k \in Read
      BY <2>1, <2>6 DEF ExtraPositional, AsRead, ProgramRead
    <3> QED BY <2>3, <3>1, <3>2 DEF Proper
  <2>7. ~TakeValue /\ ~TakePositional
    BY <1>2 DEF TakeValue, TakePositional
  <2> QED BY <2>4, <2>5, <2>6, <2>7, WellFormedIsProper
<1> QED BY <1>1, <1>2

(* The parser's variables keep their types; a value is a path.             *)
LEMMA ParserTypesKept ==
  ASSUME ParserTypes, ParseArguments
  PROVE  ParserTypes'
<1>1. arguments \in CommandLines /\ arguments \in Seq(STRING)
  BY PlacesFinite DEF ParserTypes
<1>2. ASSUME Reads, ~Dashed(argument)
      PROVE  argument \in Path
  BY <1>1, <1>2, SimulatorAssumption DEF Reads, argument, Path
<1>3. ASSUME Reads, Continue \/ Break
      PROVE  position' \in 1 .. Len(arguments') + 1 /\ UNCHANGED arguments
  BY <1>1, <1>3 DEF Reads, Continue, Break, ParserTypes
<1>4. ASSUME NEW o \in Options, TakeOption(o)
      PROVE  ParserTypes'
  <2>1. Reads /\ (Continue \/ Break) BY <1>4 DEF TakeOption
  <2>2. count' \in [Options -> 0 .. MaxCount]
    BY <1>4 DEF TakeOption, ParserTypes, MaxCount
  <2>3. optional_value_target' \in StringOptions \cup {NoOption}
    BY <1>4 DEF TakeOption, ParserTypes
  <2>4. error' \in BOOLEAN /\ (error => error')
    BY <1>4 DEF TakeOption, ParserTypes, expecting_optional
  <2> QED BY <1>1, <1>3, <1>4, <2>1, <2>2, <2>3, <2>4
          DEF TakeOption, ParserTypes
<1>5. ASSUME RejectOption PROVE ParserTypes'
  <2>1. Reads /\ Break BY <1>5 DEF RejectOption
  <2> QED BY <1>3, <1>5, <2>1 DEF RejectOption, ParserTypes
<1>6. ASSUME TakeValue PROVE ParserTypes'
  <2>1. Reads /\ Continue BY <1>6 DEF TakeValue
  <2>2. value' \in [StringOptions -> Path]
    BY <1>2, <1>6, <2>1 DEF TakeValue, ParserTypes
  <2> QED BY <1>3, <1>6, <2>1, <2>2 DEF TakeValue, ParserTypes
<1>7. ASSUME TakePositional PROVE ParserTypes'
  <2>1. Reads /\ Continue BY <1>7 DEF TakePositional
  <2> QED BY <1>3, <1>7, <2>1 DEF TakePositional, ParserTypes
<1>8. ASSUME ExtraPositional PROVE ParserTypes'
  <2>1. Reads /\ Continue BY <1>8 DEF ExtraPositional
  <2> QED BY <1>3, <1>8, <2>1 DEF ExtraPositional, ParserTypes
<1>9. ASSUME NoArguments \/ Reject \/ Accept PROVE ParserTypes'
  BY <1>9 DEF NoArguments, Reject, Accept, Exits, Exit, parser, ParserTypes
<1> QED BY <1>4, <1>5, <1>6, <1>7, <1>8, <1>9 DEF ParseArguments

(* Behind the loop everything has been read.                               *)
LEMMA AllRead ==
  ASSUME ParserTypes, Parsed, AsRead
  PROVE  /\ Read = DOMAIN arguments
         /\ Positional \cap Read = Positional
         /\ \A o \in Options : Places(o) \cap Read = Places(o)
         /\ expecting_optional
              <=> \E k \in ValuePlaces : k \notin DOMAIN arguments
         /\ Chosen("help") <=> Places("help") # {}
<1>1. arguments \in Seq(STRING) /\ position = Len(arguments) + 1
  BY PlacesFinite DEF ParserTypes, Parsed
<1>2. Read = DOMAIN arguments /\ DOMAIN arguments = 1 .. Len(arguments)
  BY <1>1 DEF Read
<1>3. \A o \in Options : Places(o) \cap Read = Places(o)
  BY <1>2 DEF Places
<1>4. Positional \cap Read = Positional BY <1>2 DEF Positional
<1>5. expecting_optional
        <=> \E o \in StringOptions : position - 1 \in Places(o)
  <2>1. expecting_optional
          <=> \E o \in StringOptions : optional_value_target = o
    BY NoOptionIsNone DEF ParserTypes, expecting_optional
  <2> QED BY <2>1 DEF AsRead, ValuesRead
<1>6. (\E o \in StringOptions : position - 1 \in Places(o))
        <=> \E k \in ValuePlaces : k \notin DOMAIN arguments
  <2>1. ASSUME NEW o \in StringOptions, NEW k \in Places(o)
        PROVE  k + 1 \notin DOMAIN arguments <=> k = position - 1
    BY <1>1, <1>2, <2>1 DEF Places
  <2>2. \A k : k \in ValuePlaces
                 <=> \E o \in StringOptions : \E j \in Places(o) : k = j + 1
    BY DEF ValuePlaces
  <2> QED BY <2>1, <2>2
<1>7. Chosen("help") <=> Places("help") # {}
  <2>1. "help" \in Options BY OptionNames
  <2>2. count["help"] \in {0, 1} BY <2>1 DEF ParserTypes, MaxCount
  <2> QED BY <1>3, <2>1, <2>2 DEF AsRead, CountsRead, Chosen
<1> QED BY <1>2, <1>3, <1>4, <1>5, <1>6, <1>7

(* Behind the loop the parser knows whether the command line is well       *)
(* formed and whether help is asked for.                                   *)
LEMMA Verdict ==
  ASSUME ParserTypes, Reading, Parsed
  PROVE  /\ Erroneous <=> ~WellFormed
         /\ WellFormed => (Help <=> Places("help") # {})
<1>1. CASE error
  BY <1>1 DEF Reading, Parsed, Erroneous
<1>2. CASE ~error
  <2>1. AsRead /\ ~print_help
    BY <1>2 DEF Reading, Parsed, ParserTypes
  <2>2. Help <=> Places("help") # {}
    BY <2>1, AllRead DEF Help, Chosen
  <2>3. positional_arguments_seen = 0 <=> Positional = {}
    BY <2>1, AllRead DEF AsRead, ProgramRead
  <2>4. ASSUME ~expecting_optional
        PROVE  /\ \A k \in DOMAIN arguments : arguments[k] \notin Unknown
               /\ \A o \in Options : \A j, k \in Places(o) : j = k
               /\ \A j, k \in Positional : j = k
               /\ \A k \in ValuePlaces :
                    k \in DOMAIN arguments /\ ~Dashed(arguments[k])
    <3>1. ValuePlaces \subseteq DOMAIN arguments
      BY <2>1, <2>4, AllRead
    <3> QED BY <2>1, <3>1, AllRead
            DEF AsRead, CountsRead, ProgramRead, NoneWrong
  <2>5. ASSUME expecting_optional
        PROVE  ~Proper
    BY <2>1, <2>5, AllRead DEF Proper
  <2>6. arguments # << >> BY DEF Parsed
  <2>7. Erroneous
          <=> (expecting_optional \/ (Places("help") = {} /\ Positional = {}))
    BY <1>2, <2>2, <2>3 DEF Erroneous
  <2> QED BY <2>2, <2>4, <2>5, <2>6, <2>7, WellFormedIsProper DEF Proper
<1> QED BY <1>1, <1>2

LEMMA ConfigAccepted ==
  ASSUME ParserTypes, Reading, Accept
  PROVE  ConfigAsWritten'
<1>1. Parsed /\ AsRead /\ ~expecting_optional
  BY DEF Accept, Parsed, Reading, Erroneous, ParserTypes
<1>2. UNCHANGED <<arguments, count, value, program>>
  BY DEF Accept, parser
<1>3. \A o \in Options : Chosen(o) <=> Places(o) # {}
  <2>1. \A o \in Options : count[o] \in {0, 1}
    BY DEF ParserTypes, MaxCount
  <2> QED BY <1>1, <2>1, AllRead DEF AsRead, CountsRead, Chosen
<1>4. ASSUME NEW o \in StringOptions
      PROVE  IF Places(o) = {} THEN value[o] = ""
             ELSE \A k \in Places(o) : value[o] = arguments[k + 1]
  <2>1. \A k \in Places(o) : k + 1 \in ValuePlaces
    BY DEF ValuePlaces
  <2> QED BY <1>1, <2>1, AllRead, StringOptionNames DEF AsRead, ValuesRead
<1>5. \A k \in Positional : program = arguments[k]
  BY <1>1, AllRead DEF AsRead, ProgramRead
<1> QED BY <1>2, <1>3, <1>4, <1>5, SameArguments, StringOptionNames
        DEF ConfigAsWritten, Chosen

LEMMA ParserInit == Init => ParserInv
<1> SUFFICES ASSUME Init PROVE ParserInv OBVIOUS
<1>1. /\ arguments \in CommandLines /\ arguments \in Seq(STRING)
      /\ position = 1 /\ Len(arguments) \in Nat
      /\ positional_arguments_seen = 0 /\ optional_value_target = NoOption
  <2>1. arguments \in CommandLines BY DEF Init, ArgumentsInit
  <2>2. arguments \in Seq(STRING) BY <2>1, ArgumentsAssumption
  <2>3. /\ position = 1 /\ positional_arguments_seen = 0
        /\ optional_value_target = NoOption
    BY DEF Init, ArgumentsInit
  <2>4. Len(arguments) \in Nat BY <2>2
  <2> QED BY <2>1, <2>2, <2>3, <2>4
<1>2. count = [o \in Options |-> 0] /\ value = [o \in StringOptions |-> ""]
  BY DEF Init, ArgumentsInit
<1>3. /\ ~print_help /\ ~error /\ stage = "arguments"
      /\ print_help \in BOOLEAN /\ error \in BOOLEAN
  BY DEF Init, ArgumentsInit
<1>4. ParserTypes
  <2>1. position \in 1 .. Len(arguments) + 1 BY <1>1
  <2>2. count \in [Options -> 0 .. MaxCount]
    <3>1. 0 \in 0 .. MaxCount BY DEF MaxCount
    <3> QED BY <1>2, <3>1
  <2>3. value \in [StringOptions -> Path] BY <1>2 DEF Path
  <2> QED BY <1>1, <1>3, <2>1, <2>2, <2>3 DEF ParserTypes
<1>5. AsRead
  <2>1. Read = {} BY <1>1 DEF Read
  <2>2. \A o \in StringOptions : position - 1 \notin Places(o)
    BY <1>1 DEF Places
  <2>3. CountsRead BY <1>2, <2>1 DEF CountsRead
  <2>4. ValuesRead
    <3>1. \A o \in StringOptions : value[o] = "" BY <1>2
    <3> QED BY <1>1, <2>1, <2>2, <3>1, NoOptionIsNone DEF ValuesRead
  <2>5. ProgramRead BY <1>1, <2>1 DEF ProgramRead
  <2>6. NoneWrong BY <2>1 DEF NoneWrong
  <2> QED BY <2>3, <2>4, <2>5, <2>6 DEF AsRead
<1> QED BY <1>4, <1>5, <1>3 DEF ParserInv, Reading, ConfigAsWritten

(* Behind the parser nothing changes the arguments or the options.         *)
LEMMA OutsideParser ==
  ASSUME Next, ~(ParseArguments /\ UNCHANGED runVars)
  PROVE  /\ stage # "arguments" /\ stage' # "arguments"
         /\ stage' # "validate"
         /\ UNCHANGED <<arguments, parser>>
<1>1. CASE Validate
  BY <1>1 DEF Validate, Leave, Stage, Exits, Exit
<1>2. CASE Load
  BY <1>2 DEF Load, Loaded, Leave, Stage, Exits, Exit
<1>3. CASE List
  BY <1>3 DEF List, Leave, Stage, Exits, Exit
<1>4. CASE RunCycle
  BY <1>4 DEF RunCycle, Stage
<1>5. ASSUME NEW a \in Answers, Answer(a)
      PROVE  /\ stage # "arguments" /\ stage' # "arguments"
             /\ stage' # "validate"
             /\ UNCHANGED <<arguments, parser>>
  BY <1>5 DEF Answer, Leave, Stage, Exits, Exit
<1>6. CASE RunEnds
  BY <1>6 DEF RunEnds, Stage
<1>7. CASE DumpError
  BY <1>7 DEF DumpError, Leave, Exits, Exit, StringOptions
<1>8. CASE DumpRegs
  BY <1>8 DEF DumpRegs, Stage
<1>9. CASE DumpMem
  BY <1>9 DEF DumpMem, Leave, Exits, Exit
<1> QED BY <1>1, <1>2, <1>3, <1>4, <1>5, <1>6, <1>7, <1>8, <1>9 DEF Next

LEMMA ParserNext == ParserInv /\ [Next]_vars => ParserInv'
<1> SUFFICES ASSUME ParserInv, [Next]_vars PROVE ParserInv' OBVIOUS
<1>1. ASSUME ParseArguments PROVE ParserInv'
  <2>1. ParserTypes' BY <1>1, ParserTypesKept DEF ParserInv
  <2>2. CASE /\ stage = "arguments" /\ UNCHANGED <<stage, arguments>>
             /\ \/ \E o \in Options : TakeOption(o)
                \/ RejectOption
                \/ TakeValue \/ TakePositional \/ ExtraPositional
    <3>1. CASE error'
      BY <1>1, <2>1, <2>2, <3>1, ErrorFound, SameArguments
         DEF ParserInv, Reading, ConfigAsWritten
    <3>2. CASE ~error'
      <4>1. ~RejectOption /\ ~ExtraPositional
        BY <3>2 DEF RejectOption, ExtraPositional
      <4>2. AsRead'
        BY <2>2, <3>2, <4>1, OptionTaken, ValueTaken, PositionalTaken
           DEF ParserInv
      <4> QED BY <2>1, <2>2, <3>2, <4>2
              DEF ParserInv, Reading, ConfigAsWritten
    <3> QED BY <3>1, <3>2
  <2>3. CASE Accept
    <3>1. ConfigAsWritten' BY <2>3, ConfigAccepted DEF ParserInv
    <3> QED BY <2>1, <2>3, <3>1 DEF ParserInv, Reading, Accept
  <2>4. CASE NoArguments \/ Reject
    BY <2>1, <2>4 DEF NoArguments, Reject, Exits, Exit, ParserInv, Reading,
                      ConfigAsWritten
  <2> QED BY <1>1, <2>2, <2>3, <2>4
          DEF ParseArguments, TakeOption, RejectOption, TakeValue,
              TakePositional, ExtraPositional, Reads
<1>2. ASSUME Next, ~(ParseArguments /\ UNCHANGED runVars)
      PROVE  ParserInv'
  <2>1. ParserTypes' BY <1>2, OutsideParser DEF ParserInv, ParserTypes, parser
  <2> QED BY <1>2, <2>1, OutsideParser DEF ParserInv, Reading, ConfigAsWritten
<1>3. CASE UNCHANGED vars
  <2>1. UNCHANGED <<stage, arguments, parser>>
    BY <1>3 DEF vars, argumentVars
  <2>2. ParserTypes' BY <2>1 DEF ParserInv, ParserTypes, parser
  <2>3. Reading'
    <3>1. UNCHANGED <<position, count, value, program,
                      positional_arguments_seen, optional_value_target,
                      error, arguments, stage>>
      BY <2>1 DEF parser
    <3>2. Read' = Read BY <3>1 DEF Read
    <3>3. CountsRead' <=> CountsRead
      BY <3>1, <3>2, SameArguments DEF CountsRead
    <3>4. ValuesRead' <=> ValuesRead
      BY <3>1, <3>2, SameArguments, StringOptionNames DEF ValuesRead
    <3>5. ProgramRead' <=> ProgramRead
      BY <3>1, <3>2, SameArguments DEF ProgramRead
    <3>6. NoneWrong' <=> NoneWrong
      BY <3>1, <3>2, SameArguments DEF NoneWrong, Dashed
    <3> QED BY <3>1, <3>3, <3>4, <3>5, <3>6, SameArguments
            DEF ParserInv, Reading, AsRead
  <2>4. ConfigAsWritten'
    BY <2>1, SameArguments, StringOptionNames
       DEF ParserInv, ConfigAsWritten, Chosen, parser
  <2> QED BY <2>2, <2>3, <2>4 DEF ParserInv
<1> QED BY <1>1, <1>2, <1>3

(* An accepted command line gives every option the value that stands       *)
(* behind it and names the program, whatever its length and order.         *)
THEOREM ConfigRead == Spec => []ConfigAsWritten
BY ParserInit, ParserNext, PTL DEF Spec, ParserInv

(* parse_arguments accepts exactly the command lines that are well formed, *)
(* and its exit code is 0 only when help is asked for in one of these.     *)
THEOREM VerdictGiven == Spec => AcceptsExactly
<1>1. ASSUME ParserInv, [Next]_vars, stage = "arguments",
             stage' # "arguments"
      PROVE  CASE ~WellFormed -> stage' = "exited" /\ exit_code' = 1
               [] WellFormed /\ Places("help") # {} ->
                    stage' = "exited" /\ exit_code' = 0
               [] WellFormed /\ Places("help") = {} -> stage' = "validate"
  <2>1. ParseArguments
    BY <1>1, OutsideParser DEF vars, argumentVars
  <2>2. NoArguments \/ Reject \/ Accept
    BY <1>1, <2>1 DEF ParseArguments, TakeOption, RejectOption, TakeValue,
                      TakePositional, ExtraPositional, Reads
  <2>3. CASE NoArguments
    BY <2>3 DEF NoArguments, Exits, Exit, WellFormed
  <2>4. CASE Reject
    <3>1. Erroneous <=> ~WellFormed
      BY <1>1, <2>4, Verdict DEF ParserInv, Reject
    <3>2. WellFormed => (Help <=> Places("help") # {})
      BY <1>1, <2>4, Verdict DEF ParserInv, Reject
    <3> QED BY <2>4, <3>1, <3>2 DEF Reject, Exits, Exit
  <2>5. CASE Accept
    <3>1. Erroneous <=> ~WellFormed
      BY <1>1, <2>5, Verdict DEF ParserInv, Accept
    <3>2. WellFormed => (Help <=> Places("help") # {})
      BY <1>1, <2>5, Verdict DEF ParserInv, Accept
    <3> QED BY <2>5, <3>1, <3>2 DEF Accept
  <2> QED BY <2>2, <2>3, <2>4, <2>5
<1>2. ParserInv /\ [Next]_vars =>
        [stage = "arguments" /\ stage' # "arguments" =>
           CASE ~WellFormed -> stage' = "exited" /\ exit_code' = 1
             [] WellFormed /\ Places("help") # {} ->
                  stage' = "exited" /\ exit_code' = 0
             [] WellFormed /\ Places("help") = {} -> stage' = "validate"
        ]_argumentVars
  BY <1>1
<1> QED BY <1>2, ParserInit, ParserNext, PTL DEF Spec, AcceptsExactly
-----------------------------------------------------------------------------
LEMMA AnswersInWord ==
  ASSUME NEW a \in Answers, a \notin {Enter, Junk}
  PROVE  /\ a % StepModulus \in 0 .. StepModulus - 1
         /\ a % StepModulus = 0 => a = 0
<1>1. StepModulus \in Nat /\ StepModulus >= 2 BY SimulatorAssumption
<1>2. a \in Int /\ a < StepModulus /\ a > -StepModulus
  BY <1>1, SimulatorAssumption
<1>3. CASE a >= 0
  <2>1. a % StepModulus = a BY <1>1, <1>2, <1>3
  <2> QED BY <1>1, <1>2, <1>3, <2>1
<1>4. CASE a < 0
  <2>1. a % StepModulus = a + StepModulus BY <1>1, <1>2, <1>4
  <2> QED BY <1>1, <1>2, <1>4, <2>1
<1> QED BY <1>2, <1>3, <1>4

(* A dump goes to a path there is, if to any.                              *)
LEMMA DumpPaths ==
  ASSUME ParserInv, NEW o \in StringOptions, value[o] # ""
  PROVE  value[o] \in DOMAIN FileSystem
BY DEF ParserInv, ParserTypes, Path

LEMMA WrittenFiles ==
  ASSUME NEW path \in Path, NEW content \in {"registers", "memory"},
         Written(path, content),
         files \in [DOMAIN FileSystem -> {"as before", "registers", "memory"}]
  PROVE  /\ files' \in [DOMAIN FileSystem ->
                           {"as before", "registers", "memory"}]
         /\ path # "" /\ Kind(path) \notin CannotOpen =>
              files'[path] = content
         /\ \A p \in DOMAIN FileSystem : p # path => files'[p] = files[p]
BY DEF Written, Path

(* The options are the same, as the arguments are.                         *)
LEMMA SameOptions ==
  ASSUME UNCHANGED parser
  PROVE  /\ Help' <=> Help
         /\ \A o \in Options : Chosen(o)' <=> Chosen(o)
         /\ \A o \in StringOptions : Requested(o)' <=> Requested(o)
         /\ \A o \in StringOptions : DumpFails(o)' <=> DumpFails(o)
         /\ \A o \in StringOptions : Survives(o)' <=> Survives(o)
         /\ UNCHANGED <<count, value>>
BY DEF parser, Help, Chosen, Requested, DumpFails, Survives, Kind, Options,
       StringOptions, Names

LEMMA RunInit == Init => RunInv
<1> SUFFICES ASSUME Init PROVE RunInv OBVIOUS
<1>1. /\ stage = "arguments" /\ exit_code = -1 /\ cycle = 0
      /\ step_count = 1 /\ ran = 0 /\ asked = Enter /\ files = Untouched
      /\ run_length \in RunLengths
  BY DEF Init, ArgumentsInit, Untouched
<1>2. count \in [Options -> 0 .. MaxCount]
  BY ParserInit DEF ParserInv, ParserTypes
<1>3. run_length \in Nat BY <1>1, SimulatorAssumption
<1>4. TypeOK
  <2>1. step_count \in 0 .. StepModulus - 1 BY <1>1, SimulatorAssumption
  <2>2. files \in [DOMAIN FileSystem -> {"as before", "registers", "memory"}]
    BY <1>1 DEF Untouched
  <2>3. cycle \in 0 .. run_length BY <1>1, <1>3
  <2> QED BY <1>1, <1>2, <2>1, <2>2, <2>3 DEF TypeOK, Aborted
<1> QED BY <1>1, <1>3, <1>4 DEF RunInv, StepsLeft, FilesSoFar, StageReached,
                                DumpsWritten, FilesKept, Running

(* Steps that do not touch the run: all but a cycle, an answer and a dump  *)
(* keep its variables, so that only what is said of the new stage is left. *)
LEMMA RunKept ==
  ASSUME ParserInv, RunInv, ParserTypes', UNCHANGED runVars,
         stage' \in {"arguments", "validate", "load", "list", "run",
                     "dump_regs", "exited"},
         exit_code' \in {-1, 0, 1, Aborted},
         stage' = "exited" <=> exit_code' # -1
  PROVE  TypeOK' /\ run_length' \in Nat
<1>1. /\ UNCHANGED <<files, run_length, cycle, step_count>>
      /\ count' \in [Options -> 0 .. MaxCount]
  BY DEF runVars, ParserTypes
<1> QED BY <1>1 DEF RunInv, TypeOK

LEMMA RunParse ==
  ASSUME ParserInv, RunInv, ParseArguments, UNCHANGED runVars
  PROVE  RunInv'
<1>1. stage = "arguments" /\ exit_code = -1 /\ files = Untouched
  BY DEF ParseArguments, NoArguments, TakeOption, RejectOption, TakeValue,
         TakePositional, ExtraPositional, Reject, Accept, Parsed, Reads,
         RunInv, TypeOK, FilesSoFar
<1>2. \/ stage' \in {"arguments", "validate"} /\ exit_code' = -1
      \/ stage' = "exited" /\ exit_code' = 1
      \/ stage' = "exited" /\ exit_code' = 0 /\ Help /\ UNCHANGED parser
  <2>1. ASSUME \/ \E o \in Options : TakeOption(o)
               \/ RejectOption \/ TakeValue \/ TakePositional
               \/ ExtraPositional
        PROVE  UNCHANGED <<stage, exit_code>>
    BY <2>1 DEF TakeOption, RejectOption, TakeValue, TakePositional,
                ExtraPositional, Reads
  <2>2. CASE Reject
    BY <2>2 DEF Reject, Exits, Exit
  <2>3. CASE NoArguments \/ Accept
    BY <1>1, <2>3 DEF NoArguments, Accept, Exits, Exit
  <2> QED BY <1>1, <2>1, <2>2, <2>3 DEF ParseArguments
<1>3. ParserTypes' BY ParserTypesKept DEF ParserInv
<1>4. TypeOK' /\ run_length' \in Nat
  BY <1>2, <1>3, RunKept DEF Aborted
<1>5. files' = Untouched /\ ran' \in Nat
  BY <1>1 DEF runVars, RunInv, StepsLeft
<1>6. DumpsWritten'
  BY <1>2, SameOptions DEF DumpsWritten
<1>7. FilesKept' BY <1>5 DEF FilesKept, Untouched
<1>8. StageReached' /\ FilesSoFar'
  BY <1>2, <1>5 DEF StageReached, FilesSoFar, Running, Untouched
<1>9. StepsLeft'
  <2>1. ran = 0 /\ step_count = 1 /\ asked = Enter
    BY <1>1 DEF RunInv, StepsLeft
  <2> QED BY <1>2, <2>1 DEF StepsLeft, runVars
<1> QED BY <1>4, <1>6, <1>7, <1>8, <1>9 DEF RunInv

LEMMA RunStart ==
  ASSUME ParserInv, RunInv, Validate \/ Load \/ List
  PROVE  RunInv'
<1>1. /\ stage \in {"validate", "load", "list"} /\ exit_code = -1
      /\ UNCHANGED runVars /\ UNCHANGED <<arguments, parser>>
  BY DEF Validate, Load, Loaded, List, Leave, Stage, Exits, Exit, RunInv,
         TypeOK
<1>2. \/ stage' = "load" /\ exit_code' = -1
      \/ stage' = "list" /\ exit_code' = -1 /\ Chosen("dump")
      \/ stage' = "run" /\ exit_code' = -1 /\ ~Chosen("dump")
      \/ stage' = "exited" /\ exit_code' \in {1, Aborted}
      \/ stage' = "exited" /\ exit_code' = 0 /\ Chosen("dump")
  <2>1. CASE Validate
    BY <1>1, <2>1 DEF Validate, Leave, Stage, Exits, Exit
  <2>2. CASE Load
    BY <1>1, <2>2 DEF Load, Loaded, Leave, Stage, Exits, Exit
  <2>3. CASE List
    BY <1>1, <2>3 DEF List, Leave, Stage, Exits, Exit, RunInv, StageReached
  <2> QED BY <2>1, <2>2, <2>3
<1>3. ParserTypes' BY <1>1 DEF ParserInv, ParserTypes, parser
<1>4. TypeOK' /\ run_length' \in Nat
  BY <1>1, <1>2, <1>3, RunKept DEF Aborted
<1>5. files' = Untouched
  BY <1>1 DEF runVars, RunInv, FilesSoFar
<1>6. "dump" \in Options BY OptionNames
<1>7. DumpsWritten'
  BY <1>1, <1>2, <1>6, SameOptions DEF DumpsWritten, Aborted
<1>8. FilesKept' BY <1>5 DEF FilesKept, Untouched
<1>9. StageReached' /\ FilesSoFar'
  BY <1>1, <1>2, <1>5, <1>6, SameOptions
     DEF StageReached, FilesSoFar, Running, Untouched
<1>10. StepsLeft'
  <2>1. UNCHANGED <<ran, step_count, asked>> /\ ran \in Nat
    BY <1>1 DEF runVars, RunInv, StepsLeft
  <2>2. stage' \in {"load", "run"} =>
          ran' = 0 /\ step_count' = 1 /\ asked' = Enter
    BY <1>1, <2>1 DEF Validate, Load, Loaded, List, Stage, Leave, Exits, Exit,
                      RunInv, StepsLeft
  <2> QED BY <1>2, <2>1, <2>2 DEF StepsLeft, Asked
<1> QED BY <1>4, <1>7, <1>8, <1>9, <1>10 DEF RunInv

LEMMA RunCycles ==
  ASSUME ParserInv, RunInv, RunCycle
  PROVE  RunInv'
<1>1. /\ stage = "run" /\ cycle < run_length
      /\ exit_code = -1 /\ files = Untouched /\ ~Chosen("dump")
      /\ cycle \in 0 .. run_length /\ run_length \in Nat
      /\ step_count \in 0 .. StepModulus - 1 /\ StepModulus \in Nat
      /\ ran \in Nat
  BY SimulatorAssumption
     DEF RunCycle, Stage, RunInv, TypeOK, FilesSoFar, StageReached, Running,
         StepsLeft
<1>2. /\ cycle' = cycle + 1 /\ ran' = ran + 1
      /\ step_count' = IF step_count > 0 THEN step_count - 1 ELSE step_count
      /\ stage' = IF Chosen("step") /\ step_count' = 0 THEN "prompt"
                                                       ELSE "run"
      /\ UNCHANGED <<exit_code, arguments, parser, files, run_length, asked>>
  BY DEF RunCycle, Stage, Decremented
<1>3. UNCHANGED count BY <1>2 DEF parser
<1>4. stage' \in {"run", "prompt"} BY <1>2
<1>5. TypeOK'
  <2>1. cycle' \in 0 .. run_length' BY <1>1, <1>2
  <2>2. step_count' \in 0 .. StepModulus - 1 BY <1>1, <1>2
  <2> QED BY <1>1, <1>2, <1>3, <1>4, <2>1, <2>2 DEF RunInv, TypeOK, Aborted
<1>6. StageReached' /\ FilesSoFar' /\ DumpsWritten' /\ FilesKept'
  BY <1>1, <1>2, <1>3, <1>4
     DEF StageReached, FilesSoFar, DumpsWritten, FilesKept, Running, Untouched,
         Chosen
<1>7. StepsLeft'
  <2>1. Asked' = Asked /\ ran' \in Nat BY <1>1, <1>2 DEF Asked
  <2>2. Chosen("step")' <=> Chosen("step") BY <1>3 DEF Chosen
  <2>3. Chosen("step") =>
          ran + (IF step_count = 0 THEN 1 ELSE step_count) = Asked
    BY <1>1 DEF RunInv, StepsLeft
  <2>4. Chosen("step") =>
          IF step_count' = 0 THEN ran' = Asked
                             ELSE ran' + step_count' = Asked
    BY <1>1, <1>2, <2>3
  <2> QED BY <1>2, <1>4, <2>1, <2>2, <2>4 DEF StepsLeft
<1> QED BY <1>1, <1>2, <1>5, <1>6, <1>7 DEF RunInv

LEMMA RunAnswer ==
  ASSUME ParserInv, RunInv, NEW a \in Answers, Answer(a)
  PROVE  RunInv'
<1>1. /\ stage = "prompt" /\ files = Untouched /\ ~Chosen("dump")
      /\ exit_code = -1 /\ StepModulus \in Nat \ {0}
  BY SimulatorAssumption
     DEF Answer, Leave, Stage, RunInv, TypeOK, FilesSoFar, StageReached,
         Running
<1>2. /\ step_count' = IF a \in {Enter, Junk} THEN 0 ELSE a % StepModulus
      /\ asked' = a /\ ran' = 0
      /\ UNCHANGED <<files, run_length, cycle, arguments, parser>>
      /\ a = Junk => stage' = "exited" /\ exit_code' = Aborted
      /\ a # Junk => stage' = "run" /\ exit_code' = -1
  BY <1>1 DEF Answer, Leave, Stage, Exits, Exit
<1>3. UNCHANGED count BY <1>2 DEF parser
<1>4. TypeOK'
  <2>1. step_count' \in 0 .. StepModulus - 1
    BY <1>1, <1>2, AnswersInWord
  <2>2. /\ stage' \in {"run", "exited"} /\ exit_code' \in {-1, Aborted}
        /\ stage' = "exited" <=> exit_code' # -1
    BY <1>2 DEF Aborted
  <2>3. UNCHANGED <<count, cycle, run_length, files>> BY <1>2, <1>3
  <2> QED BY <2>1, <2>2, <2>3 DEF RunInv, TypeOK
<1>5. StageReached' /\ FilesSoFar' /\ DumpsWritten' /\ FilesKept'
  <2>1. \/ stage' = "run"
        \/ stage' = "exited" /\ exit_code' = Aborted
    BY <1>2
  <2>2. UNCHANGED files /\ (Chosen("dump")' <=> Chosen("dump"))
    BY <1>2, <1>3 DEF Chosen
  <2>3. StageReached' /\ FilesSoFar'
    BY <1>1, <2>1, <2>2 DEF StageReached, FilesSoFar, Running, Untouched
  <2>4. DumpsWritten' BY <2>1 DEF DumpsWritten, Aborted
  <2>5. FilesKept' BY <1>1, <2>2 DEF FilesKept, Untouched
  <2> QED BY <2>3, <2>4, <2>5
<1>6. StepsLeft'
  <2>1. CASE a = Junk BY <1>2, <2>1 DEF StepsLeft
  <2>2. CASE a # Junk /\ a = Enter
    BY <1>2, <2>2 DEF StepsLeft, Asked
  <2>3. CASE a \notin {Enter, Junk}
    <3>1. /\ a % StepModulus \in 0 .. StepModulus - 1
          /\ a % StepModulus = 0 => a = 0
      BY <2>3, AnswersInWord
    <3>2. step_count' = a % StepModulus BY <1>2, <2>3
    <3>3. CASE a = 0
      <4>1. 0 % StepModulus = 0 BY <1>1
      <4> QED BY <1>2, <2>3, <3>2, <3>3, <4>1 DEF StepsLeft, Asked
    <3>4. CASE a # 0
      BY <1>1, <1>2, <2>3, <3>1, <3>2, <3>4 DEF StepsLeft, Asked
    <3> QED BY <3>3, <3>4
  <2> QED BY <2>1, <2>2, <2>3
<1> QED BY <1>2, <1>4, <1>5, <1>6 DEF RunInv

LEMMA RunEnded ==
  ASSUME ParserInv, RunInv, RunEnds
  PROVE  RunInv'
<1>1. /\ stage = "run" /\ stage' = "dump_regs" /\ cycle = run_length
      /\ UNCHANGED <<exit_code, arguments, parser, runVars>>
      /\ files = Untouched /\ exit_code = -1 /\ ~Chosen("dump")
  BY DEF RunEnds, Stage, RunInv, FilesSoFar, TypeOK, StageReached, Running
<1>2. ParserTypes' BY <1>1 DEF ParserInv, ParserTypes, parser
<1>3. TypeOK' /\ run_length' \in Nat BY <1>1, <1>2, RunKept
<1>4. UNCHANGED <<count, files, run_length, cycle, ran>>
  BY <1>1 DEF parser, runVars
<1> QED BY <1>1, <1>3, <1>4
        DEF RunInv, StepsLeft, FilesSoFar, StageReached, DumpsWritten,
            FilesKept, Running, Untouched, Chosen

LEMMA RunDumpFails ==
  ASSUME ParserInv, RunInv, DumpError
  PROVE  RunInv'
<1>1. PICK o \in StringOptions : DumpFails(o) /\ Leave(o, 1)
  BY DEF DumpError
<1>2. /\ stage = o /\ stage' = "exited" /\ exit_code' = 1
      /\ UNCHANGED <<arguments, parser>> /\ UNCHANGED runVars
  BY <1>1 DEF DumpError, Leave, Exits, Exit
<1>3. ParserTypes' BY <1>2 DEF ParserInv, ParserTypes, parser
<1>4. TypeOK' /\ run_length' \in Nat
  BY <1>2, <1>3, RunKept DEF Aborted
<1>5. /\ cycle = run_length /\ ~Chosen("dump") /\ ran \in Nat
      /\ o \in {"dump_regs", "dump_mem"}
  BY <1>2 DEF StringOptions, RunInv, StageReached, StepsLeft, Running
<1>6. UNCHANGED <<count, value, files, run_length, cycle, ran>>
  BY <1>2 DEF parser, runVars
<1>7. ASSUME NEW path \in DOMAIN files, files[path] # "as before"
      PROVE  /\ path \in {value[p] : p \in StringOptions}
             /\ Kind(path) # "directory"
  <2>1. CASE o = "dump_regs"
    BY <1>2, <1>7, <2>1 DEF RunInv, FilesSoFar, Untouched
  <2>2. CASE o = "dump_mem"
    <3>1. /\ ~DumpFails("dump_regs") /\ Requested("dump_regs")
          /\ files = [Untouched EXCEPT ![value["dump_regs"]] = "registers"]
      BY <1>2, <1>7, <2>2 DEF RunInv, FilesSoFar, Untouched
    <3>2. path = value["dump_regs"]
      BY <1>7, <3>1 DEF Untouched
    <3>3. "dump_regs" \in StringOptions BY DEF StringOptions
    <3> QED BY <3>1, <3>2, <3>3 DEF DumpFails, Requested
  <2> QED BY <1>5, <2>1, <2>2
<1>8. FilesKept'
  <2>1. exit_code' # Aborted /\ (Chosen("dump")' <=> Chosen("dump"))
    BY <1>2, <1>6 DEF Aborted, Chosen
  <2>2. {value'[p] : p \in StringOptions} = {value[p] : p \in StringOptions}
    BY <1>6
  <2> QED BY <1>5, <1>6, <1>7, <2>1, <2>2 DEF FilesKept, Kind
<1>9. StepsLeft' /\ FilesSoFar' /\ StageReached' /\ DumpsWritten'
  BY <1>2, <1>5, <1>6 DEF StepsLeft, FilesSoFar, StageReached, DumpsWritten,
                          Running
<1> QED BY <1>4, <1>8, <1>9 DEF RunInv

LEMMA RunDumpRegs ==
  ASSUME ParserInv, RunInv, DumpRegs
  PROVE  RunInv'
<1>1. /\ stage = "dump_regs" /\ stage' = "dump_mem"
      /\ UNCHANGED <<exit_code, arguments, parser>>
      /\ UNCHANGED <<run_length, cycle, step_count, asked, ran>>
      /\ Written(value["dump_regs"], "registers")
      /\ ~DumpFails("dump_regs")
  BY DEF DumpRegs, Stage
<1>2. /\ cycle = run_length /\ files = Untouched /\ ~Chosen("dump")
      /\ exit_code = -1 /\ ran \in Nat /\ TypeOK
  BY <1>1 DEF RunInv, StageReached, FilesSoFar, TypeOK, Running, StepsLeft
<1>3. "dump_regs" \in StringOptions /\ "dump" \in Options
  BY OptionNames DEF StringOptions
<1>4. value["dump_regs"] \in Path
  BY <1>3 DEF ParserInv, ParserTypes
<1>5. files' \in [DOMAIN FileSystem -> {"as before", "registers", "memory"}]
  BY <1>1, <1>2, <1>4, WrittenFiles DEF TypeOK
<1>6. UNCHANGED count BY <1>1 DEF parser
<1>7. TypeOK'
  BY <1>1, <1>2, <1>5, <1>6 DEF TypeOK
<1>8. FilesSoFar'
  <2>1. files' = IF Requested("dump_regs")
                 THEN [Untouched EXCEPT ![value["dump_regs"]] = "registers"]
                 ELSE Untouched
    BY <1>1, <1>2 DEF Written, Requested
  <2>2. /\ Requested("dump_regs")' <=> Requested("dump_regs")
        /\ DumpFails("dump_regs")' <=> DumpFails("dump_regs")
        /\ UNCHANGED value
    BY <1>1, <1>3, SameOptions
  <2>3. Untouched' = Untouched BY DEF Untouched
  <2> QED BY <1>1, <2>1, <2>2, <2>3 DEF FilesSoFar
<1>9. StepsLeft' /\ StageReached' /\ DumpsWritten' /\ FilesKept'
  BY <1>1, <1>2, <1>6 DEF StepsLeft, StageReached, DumpsWritten, FilesKept,
                          Chosen
<1> QED BY <1>1, <1>7, <1>8, <1>9 DEF RunInv

LEMMA RunDumpMem ==
  ASSUME ParserInv, RunInv, DumpMem
  PROVE  RunInv'
<1>1. /\ stage = "dump_mem" /\ stage' = "exited" /\ exit_code' = 0
      /\ UNCHANGED <<arguments, parser>>
      /\ UNCHANGED <<run_length, cycle, step_count, asked, ran>>
      /\ Written(value["dump_mem"], "memory")
      /\ ~DumpFails("dump_mem")
  BY DEF DumpMem, Leave, Exits, Exit
<1>2. /\ cycle = run_length /\ ~Chosen("dump") /\ ran \in Nat /\ TypeOK
      /\ ~DumpFails("dump_regs")
      /\ files = IF Requested("dump_regs")
                 THEN [Untouched EXCEPT ![value["dump_regs"]] = "registers"]
                 ELSE Untouched
  BY <1>1 DEF RunInv, StageReached, FilesSoFar, Running, StepsLeft
<1>3. /\ "dump_regs" \in StringOptions /\ "dump_mem" \in StringOptions
      /\ StringOptions = {"dump_regs", "dump_mem"}
  BY DEF StringOptions
<1>4. value["dump_regs"] \in Path /\ value["dump_mem"] \in Path
  BY <1>3 DEF ParserInv, ParserTypes
<1>5. /\ files' \in [DOMAIN FileSystem -> {"as before", "registers", "memory"}]
      /\ Requested("dump_mem") => files'[value["dump_mem"]] = "memory"
      /\ \A p \in DOMAIN FileSystem :
           p # value["dump_mem"] => files'[p] = files[p]
  BY <1>1, <1>2, <1>4, WrittenFiles DEF TypeOK, Requested
<1>6. UNCHANGED <<count, value>> BY <1>1 DEF parser
<1>7. TypeOK'
  <2>1. exit_code' \in {0} /\ (stage' = "exited" <=> exit_code' # -1)
    BY <1>1
  <2> QED BY <1>1, <1>2, <1>5, <1>6, <2>1 DEF TypeOK
<1>8. DumpsWritten'
  <2>1. ASSUME Requested("dump_regs"), Survives("dump_regs")
        PROVE  files'[value["dump_regs"]] = "registers"
    <3>1. /\ value["dump_regs"] \in DOMAIN FileSystem
          /\ value["dump_regs"] # value["dump_mem"]
      BY <1>4, <2>1 DEF Requested, Survives, Path
    <3> QED BY <1>2, <1>5, <2>1, <3>1 DEF Untouched
  <2>2. \A o \in StringOptions :
          Requested(o) /\ Survives(o) => files'[value[o]] = Content(o)
    BY <1>3, <1>5, <2>1 DEF Content
  <2> QED BY <1>1, <1>2, <1>6, <2>2, SameOptions DEF DumpsWritten, Content
<1>9. FilesKept'
  <2>1. ASSUME NEW path \in DOMAIN FileSystem, files'[path] # "as before"
        PROVE  /\ path \in {value[o] : o \in StringOptions}
               /\ Kind(path) # "directory"
    <3>1. CASE path = value["dump_mem"]
      <4>1. path # ""
        <5>1. CASE path # "" BY <5>1
        <5>2. CASE path = ""
          <6>1. files' = files BY <1>1, <3>1, <5>2 DEF Written
          <6>2. Requested("dump_regs") /\ path = value["dump_regs"]
            BY <1>2, <2>1, <6>1 DEF Untouched
          <6> QED BY <5>2, <6>2 DEF Requested
        <5> QED BY <5>1, <5>2
      <4> QED BY <1>1, <1>3, <3>1, <4>1 DEF DumpFails
    <3>2. CASE path # value["dump_mem"]
      <4>1. files[path] # "as before" BY <1>5, <2>1, <3>2
      <4>2. Requested("dump_regs") /\ path = value["dump_regs"]
        BY <1>2, <2>1, <4>1 DEF Untouched
      <4> QED BY <1>2, <1>3, <4>2 DEF DumpFails, Requested
    <3> QED BY <3>1, <3>2
  <2>2. DOMAIN files' = DOMAIN FileSystem BY <1>5
  <2>3. exit_code' # Aborted /\ (Chosen("dump")' <=> Chosen("dump"))
    BY <1>1, <1>6 DEF Aborted, Chosen
  <2>4. {value'[o] : o \in StringOptions} = {value[o] : o \in StringOptions}
    BY <1>6
  <2> QED BY <1>1, <1>2, <2>1, <2>2, <2>3, <2>4 DEF FilesKept, Kind
<1>10. StepsLeft' /\ FilesSoFar' /\ StageReached'
  BY <1>1, <1>2 DEF StepsLeft, FilesSoFar, StageReached, Running
<1> QED BY <1>1, <1>7, <1>8, <1>9, <1>10 DEF RunInv

LEMMA RunNext == ParserInv /\ RunInv /\ [Next]_vars => RunInv'
<1> SUFFICES ASSUME ParserInv, RunInv, [Next]_vars PROVE RunInv' OBVIOUS
<1>1. CASE ParseArguments /\ UNCHANGED runVars BY <1>1, RunParse
<1>2. CASE Validate \/ Load \/ List BY <1>2, RunStart
<1>3. CASE RunCycle BY <1>3, RunCycles
<1>4. CASE \E a \in Answers : Answer(a) BY <1>4, RunAnswer
<1>5. CASE RunEnds BY <1>5, RunEnded
<1>6. CASE DumpError BY <1>6, RunDumpFails
<1>7. CASE DumpRegs BY <1>7, RunDumpRegs
<1>8. CASE DumpMem BY <1>8, RunDumpMem
<1>9. CASE UNCHANGED vars
  <2>1. /\ UNCHANGED <<stage, exit_code, parser, count, value>>
        /\ UNCHANGED <<files, run_length, cycle, step_count, asked, ran>>
    BY <1>9 DEF vars, argumentVars, runVars, parser
  <2>2. Untouched' = Untouched BY DEF Untouched
  <2>3. TypeOK' /\ StepsLeft' /\ StageReached'
    BY <2>1 DEF RunInv, TypeOK, StepsLeft, Asked, StageReached, Chosen, Running
  <2>4. DumpsWritten' /\ FilesKept' /\ FilesSoFar'
    BY <2>1, <2>2 DEF RunInv, DumpsWritten, FilesKept, FilesSoFar, Requested,
                      Survives, DumpFails, Help, Chosen, Kind, parser
  <2> QED BY <2>1, <2>3, <2>4 DEF RunInv
<1> QED BY <1>1, <1>2, <1>3, <1>4, <1>5, <1>6, <1>7, <1>8, <1>9 DEF Next

LEMMA SimulatorInvHolds == Spec => []SimulatorInv
<1>1. SimulatorInv /\ [Next]_vars => SimulatorInv'
  BY ParserNext, RunNext DEF SimulatorInv
<1>2. Init => SimulatorInv BY ParserInit, RunInit DEF SimulatorInv
<1> QED BY <1>1, <1>2, PTL DEF Spec

(* Every variable of a run keeps its type; the step count, which is        *)
(* unsigned, does not wrap below zero.                                     *)
THEOREM SimulatorTypes == Spec => []TypeOK
<1>1. SimulatorInv => TypeOK BY DEF SimulatorInv, RunInv
<1> QED BY <1>1, SimulatorInvHolds, PTL

(* With --step the user is asked again after as many cycles as he typed.   *)
THEOREM PromptInTime == Spec => []StepsAsAsked
<1>1. SimulatorInv => StepsAsAsked
  BY DEF SimulatorInv, RunInv, StepsLeft, Asked, StepsAsAsked
<1> QED BY <1>1, SimulatorInvHolds, PTL

(* A run that exits with 0 has written the dumps it was asked for, of the  *)
(* core as it was when it had halted.                                      *)
THEOREM SuccessDumps == Spec => []DumpsWritten
<1>1. SimulatorInv => DumpsWritten BY DEF SimulatorInv, RunInv
<1> QED BY <1>1, SimulatorInvHolds, PTL

(* A file is written only as a dump, and only when the core has halted.    *)
THEOREM FailureKeeps == Spec => []FilesKept
<1>1. SimulatorInv => FilesKept BY DEF SimulatorInv, RunInv
<1> QED BY <1>1, SimulatorInvHolds, PTL
=============================================================================
