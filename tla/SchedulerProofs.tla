-------------------------- MODULE SchedulerProofs ---------------------------
(***************************************************************************)
(* Proofs about the scheduler, for every queue size, byte size, cycle      *)
(* width, set of values and duration of commands.  In the order of the     *)
(* file: types, accounts, fences, queues, and the refinement of            *)
(* CommandService.                                                         *)
(***************************************************************************)
EXTENDS Scheduler, CycleDeferProofs

-----------------------------------------------------------------------------
(* Types of the helpers.                                                   *)

(* What a frontend holds after an instruction is a command of its pipeline.*)
LEMMA ConfiguredType ==
  ASSUME TypeOK, NEW i \in Instruction, i.op \in Setters \cup Launchers
  PROVE  /\ PipeOf(i.op) = "DMA" => Configured(i) \in DmaCommand
         /\ PipeOf(i.op) = "BLITTER" => Configured(i) \in BlitterCommand
<1>1. /\ i.op \in {"P_DMA_DST_R", "P_DMA_SRC_R", "P_DMA_LEN_R", "P_DMA_SET_R",
                   "P_BLI_COL_R"} => i.val1 \in Values
      /\ i.op = "P_BLI_PIX_R_R" => i.val1 \in Values /\ i.val2 \in Values
  BY DEF Instruction, FenceOp
<1>2. \A v \in Values : v \in Datum /\ v % Base \in Datum /\ Rgba(v) \in Datum
  BY DEF Datum
<1>3. frontend["DMA"] \in DmaCommand /\ frontend["BLITTER"] \in BlitterCommand
  BY DEF TypeOK
<1>4. CASE PipeOf(i.op) = "DMA"
  BY <1>1, <1>2, <1>3, <1>4
     DEF PipeOf, Configured, DmaCommand, Setters, Launchers
<1>5. CASE PipeOf(i.op) = "BLITTER"
  BY <1>1, <1>2, <1>3, <1>5
     DEF PipeOf, Configured, BlitterCommand, Setters, Launchers
<1> QED BY <1>4, <1>5 DEF PipeOf

(* A pipeline's copy of a command is a command.                            *)
LEMMA TakenType == \A c \in Command : Taken(c) \in Command
<1> SUFFICES ASSUME NEW c \in Command PROVE Taken(c) \in Command
  OBVIOUS
<1>1. CASE c.operation # "CLEAR"
  BY <1>1 DEF Taken
<1>2. CASE c.operation = "CLEAR"
  <2>1. c \in BlitterCommand
    BY <1>2 DEF Command, DmaCommand
  <2>2. 0 \in Datum
    BY DEF Datum
  <2>3. [c EXCEPT !.xpos = 0, !.ypos = 0] \in BlitterCommand
    BY <2>1, <2>2 DEF BlitterCommand
  <2> QED BY <1>2, <2>3 DEF Taken, Command
<1> QED BY <1>1, <1>2

-----------------------------------------------------------------------------
(* Types and the outstanding counts are preserved together: a count is     *)
(* decremented only for a callback, and the exact account says that a      *)
(* pending callback is counted.                                            *)
Inv == TypeOK /\ OutstandingExact

Entry == [cycle : Cycles, data : Command]

LEMMA InvInit == Init => Inv
<1> SUFFICES ASSUME Init PROVE Inv
  OBVIOUS
<1>1. TypeOK
  <2>1. 0 \in Cycles
    BY CycleModulusAssumption DEF Cycles
  <2>2. << >> \in Seq([cycle : Cycles, data : Command])
    BY EmptySeq
  <2> QED
    BY <2>1, <2>2
       DEF Init, TypeOK, Phases, Pipe, Command, DmaCommand, BlitterCommand,
           Datum
<1>2. OutstandingExact
  BY DEF Init, OutstandingExact, InProgress, Owed, Working
<1> QED BY <1>1, <1>2 DEF Inv

(* A command in progress and a callback owed are one command each.         *)
LEMMA CountedOnce ==
  \A p \in Pipe : InProgress(p) \in {0, 1} /\ Owed(p) \in {0, 1}
  BY Zenon DEF InProgress, Owed

(* A callback is owed only for a command that was counted, so a count is   *)
(* never taken below zero: the assertions of *_complete.                   *)
LEMMA CallbackCounted ==
  ASSUME TypeOK, OutstandingExact, NEW p \in Pipe, Callback(p)
  PROVE  /\ outstanding' = [outstanding EXCEPT ![p] = @ - Owed(p)]
         /\ outstanding' \in [Pipe -> Nat]
<1>1. Len(queue[p]) \in Nat /\ InProgress(p) \in Nat
  <2>1. queue[p] \in Seq([cycle : Cycles, data : Command])
    BY DEF TypeOK
  <2> QED BY <2>1, LenProperties, CountedOnce
<1>2. outstanding \in [Pipe -> Nat]
  BY DEF TypeOK
<1>3. outstanding[p] = Len(queue[p]) + InProgress(p) + Owed(p)
  BY DEF OutstandingExact
<1>4. CASE Owed(p) = 1
  <2>1. outstanding' = [outstanding EXCEPT ![p] = @ - 1]
    <3>1. 0 # 1
      OBVIOUS
    <3> QED BY <1>4, <3>1, Zenon DEF Callback, Owed
  <2>2. outstanding[p] > 0
    BY <1>1, <1>2, <1>3, <1>4
  <2> QED BY <1>2, <1>4, <2>1, <2>2
<1>5. CASE Owed(p) = 0
  <2>1. outstanding' = [outstanding EXCEPT ![p] = @]
    <3>1. 0 # 1
      OBVIOUS
    <3> QED BY <1>5, <3>1, Zenon DEF Callback, Owed
  <2>2. outstanding[p] \in Nat /\ outstanding[p] - Owed(p) = outstanding[p]
    BY <1>2, <1>5
  <2>3. outstanding' = outstanding
    BY <1>2, <2>1
  <2>4. [outstanding EXCEPT ![p] = @ - Owed(p)] = outstanding
    BY <1>2, <2>2
  <2> QED BY <1>2, <2>3, <2>4
<1>6. Owed(p) = 0 \/ Owed(p) = 1
  BY CountedOnce
<1> QED BY <1>4, <1>5, <1>6, Zenon

(* The callback at the start of a pipeline's cycle settles what it owes,   *)
(* and finishing a command makes it owe the one it was working on.         *)
LEMMA CallbackSettles ==
  ASSUME TypeOK, OutstandingExact, NEW p \in Pipe,
         outstanding' = [outstanding EXCEPT ![p] = @ - Owed(p)],
         UNCHANGED queue,
         Owed(p)' + InProgress(p)' = InProgress(p),
         \A r \in Pipe \ {p} :
           InProgress(r)' = InProgress(r) /\ Owed(r)' = Owed(r)
  PROVE  OutstandingExact'
<1> SUFFICES ASSUME NEW r \in Pipe
             PROVE  outstanding'[r] =
                      Len(queue'[r]) + InProgress(r)' + Owed(r)'
  BY DEF OutstandingExact
<1>1. /\ Len(queue[r]) \in Nat
      /\ InProgress(r) \in Nat /\ Owed(r) \in Nat
      /\ InProgress(r)' \in Nat /\ Owed(r)' \in Nat
  <2>1. queue[r] \in Seq([cycle : Cycles, data : Command])
    BY DEF TypeOK
  <2>2. InProgress(r)' \in {0, 1} /\ Owed(r)' \in {0, 1}
    BY Zenon DEF InProgress, Owed
  <2> QED BY <2>1, <2>2, LenProperties, CountedOnce
<1>2. outstanding[r] = Len(queue[r]) + InProgress(r) + Owed(r)
  BY DEF OutstandingExact
<1>3. outstanding'[r] = IF r = p THEN outstanding[r] - Owed(r)
                                 ELSE outstanding[r]
  BY DEF TypeOK
<1> QED BY <1>1, <1>2, <1>3

LEMMA InvNext == Inv /\ [Next]_vars => Inv'
<1> SUFFICES ASSUME Inv, [Next]_vars PROVE Inv'
  OBVIOUS
<1>0. /\ TypeOK /\ OutstandingExact
      /\ Pipe = {"DMA", "BLITTER"} /\ "DMA" # "BLITTER"
      /\ \A p \in Pipe : queue[p] \in Seq(Entry) /\ Len(queue[p]) \in Nat
  <2>1. \A p \in Pipe : queue[p] \in Seq(Entry)
    BY DEF Inv, TypeOK, Entry
  <2> QED BY <2>1, LenProperties DEF Inv, Pipe
<1>1. ASSUME NEW i \in Instruction, Configure(i) PROVE Inv'
  <2>1. PipeOf(i.op) \in Pipe
    BY DEF PipeOf, Pipe
  <2>2. i.op \in Opcodes
    BY DEF Instruction
  <2>3. TypeOK'
    BY <1>0, <1>1, <2>1, <2>2, ConfiguredType
       DEF TypeOK, Configure, Submits, Accepted, Phases, engine, Command,
           PipeOf
  <2>4. OutstandingExact'
    BY <1>0, <1>1 DEF OutstandingExact, Configure, engine, InProgress, Owed, Working
  <2> QED BY <2>3, <2>4 DEF Inv
<1>2. ASSUME NEW i \in Instruction, Launch(i) PROVE Inv'
  <2> DEFINE p == PipeOf(i.op)
             e == Deferred(cycle, Configured(i))
  <2>1. p \in Pipe
    BY DEF PipeOf, Pipe
  <2>2. i.op \in Opcodes
    BY DEF Instruction
  <2>3. /\ p = "DMA" => Configured(i) \in DmaCommand
        /\ p = "BLITTER" => Configured(i) \in BlitterCommand
    BY <1>0, <1>2, ConfiguredType DEF Launch
  <2>4. e \in Entry
    BY <1>0, <2>1, <2>3, NextCycleType
       DEF Deferred, Entry, Command, TypeOK, Pipe
  <2>5. /\ Append(queue[p], e) \in Seq(Entry)
        /\ Len(Append(queue[p], e)) = Len(queue[p]) + 1
    BY <1>0, <2>1, <2>4, AppendProperties
  <2>6. /\ [Configured(i) EXCEPT !.operation = "NONE"] \in Command
        /\ p = "DMA" =>
             [Configured(i) EXCEPT !.operation = "NONE"] \in DmaCommand
        /\ p = "BLITTER" =>
             [Configured(i) EXCEPT !.operation = "NONE"] \in BlitterCommand
    BY <2>1, <2>3 DEF Command, DmaCommand, BlitterCommand, Pipe
  <2>7. queue' \in [Pipe -> Seq(Entry)]
    BY <1>0, <1>2, <2>1, <2>5 DEF Launch, TypeOK, Entry
  <2>8. frontend' \in [Pipe -> Command]
        /\ frontend'["DMA"] \in DmaCommand
        /\ frontend'["BLITTER"] \in BlitterCommand
    BY <1>0, <1>2, <2>1, <2>6 DEF Launch, TypeOK
  <2>9. outstanding' \in [Pipe -> Nat]
    BY <1>0, <1>2, <2>1 DEF Launch, TypeOK
  <2>10. TypeOK'
    BY <1>0, <1>2, <2>2, <2>7, <2>8, <2>9
       DEF TypeOK, Launch, Submits, Accepted, Phases, engine, Entry
  <2>11. OutstandingExact'
    <3>1. \A r \in Pipe : InProgress(r)' = InProgress(r) /\ Owed(r)' = Owed(r)
      BY <1>2 DEF Launch, engine, InProgress, Owed, Working
    <3>2. \A r \in Pipe :
            /\ queue'[r] = IF r = p THEN Append(queue[r], e) ELSE queue[r]
            /\ outstanding'[r] = IF r = p THEN outstanding[r] + 1
                                         ELSE outstanding[r]
      <4>1. queue \in [Pipe -> Seq(Entry)] /\ outstanding \in [Pipe -> Nat]
        BY <1>0 DEF TypeOK, Entry
      <4> QED BY <1>2, <2>1, <4>1 DEF Launch
    <3>3. /\ \A r \in Pipe :
               outstanding[r] = Len(queue[r]) + InProgress(r) + Owed(r)
          /\ \A r \in Pipe :
               Len(queue[r]) \in Nat /\ InProgress(r) \in Nat /\ Owed(r) \in Nat
      BY <1>0, CountedOnce DEF OutstandingExact
    <3> SUFFICES ASSUME NEW r \in Pipe
                 PROVE  outstanding'[r] =
                          Len(queue'[r]) + InProgress(r)' + Owed(r)'
      BY DEF OutstandingExact
    <3> HIDE DEF p, e
    <3>4. CASE r = p
      <4>1. Len(queue'[r]) = Len(queue[r]) + 1
        BY <2>5, <3>2, <3>4
      <4>2. outstanding'[r] = outstanding[r] + 1
        BY <3>2, <3>4
      <4> QED BY <3>1, <3>3, <4>1, <4>2
    <3>5. CASE r # p
      BY <3>1, <3>2, <3>3, <3>5
    <3> QED BY <3>4, <3>5
  <2> QED BY <2>10, <2>11 DEF Inv
<1>3. ASSUME NEW i \in Instruction, RefuseLaunch(i) PROVE Inv'
  <2>1. PipeOf(i.op) \in Pipe
    BY DEF PipeOf, Pipe
  <2>2. TypeOK'
    BY <1>0, <1>3, <2>1, ConfiguredType
       DEF TypeOK, RefuseLaunch, Submits, Refused, Phases, engine, Command,
           PipeOf
  <2>3. OutstandingExact'
    BY <1>0, <1>3 DEF OutstandingExact, RefuseLaunch, engine, InProgress, Owed,
           Working
  <2> QED BY <2>2, <2>3 DEF Inv
<1>4. ASSUME NEW i \in Instruction, Fence(i) PROVE Inv'
  <2>1. i.op \in Opcodes
    BY DEF Instruction
  <2>2. TypeOK'
    BY <1>0, <1>4, <2>1
       DEF TypeOK, Fence, Submits, Accepted, Refused, Phases, engine
  <2>3. OutstandingExact'
    BY <1>0, <1>4 DEF OutstandingExact, Fence, engine, InProgress, Owed, Working
  <2> QED BY <2>2, <2>3 DEF Inv
<1>5. ASSUME CoreElsewhere PROVE Inv'
  BY <1>5, <1>0
     DEF Inv, CoreElsewhere, TypeOK, OutstandingExact, Phases, engine,
         InProgress, Owed, Working
<1>6. ASSUME NEW p \in Pipe, NothingToCheck(p) PROVE Inv'
  BY <1>6, <1>0
     DEF Inv, NothingToCheck, TypeOK, OutstandingExact, Phases, engine,
         InProgress, Owed, Working, AfterCheck
<1>7. ASSUME NEW p \in Pipe, Submit(p) PROVE Inv'
  <2>1. queue[p] # << >>
    BY <1>7 DEF Submit, FrontCanRun
  <2>2. /\ Head(queue[p]) \in Entry
        /\ Tail(queue[p]) \in Seq(Entry)
        /\ Len(Tail(queue[p])) = Len(queue[p]) - 1
    BY <1>0, <2>1, HeadTailProperties
  <2>3. Taken(Head(queue[p]).data) \in Command
    BY <2>2, TakenType DEF Entry
  <2>4. /\ queue' \in [Pipe -> Seq(Entry)]
        /\ work_cycle' \in [Pipe -> Cycles]
        /\ working_command' \in [Pipe -> Command]
        /\ work_left' \in [Pipe -> Nat]
        /\ state' \in [Pipe -> {"IDLE", "WORKING", "FINISHED"}]
    <3>1. /\ queue' \in [Pipe -> Seq(Entry)]
          /\ state' \in [Pipe -> {"IDLE", "WORKING", "FINISHED"}]
      BY <1>0, <1>7, <2>2 DEF Submit, TypeOK, Entry
    <3>2. working_command' \in [Pipe -> Command]
      BY <1>0, <1>7, <2>3 DEF Submit, TypeOK
    <3>3. work_cycle' \in [Pipe -> Cycles] /\ work_left' \in [Pipe -> Nat]
      BY <1>0, <1>7, NextCycleType, SchedulerAssumption DEF Submit, TypeOK
    <3> QED BY <3>1, <3>2, <3>3
  <2>5. TypeOK'
    <3>1. phase' \in Phases
      BY <1>7 DEF Submit, Phases, AfterCheck
    <3>2. UNCHANGED <<cycle, stalled, retired, frontend, outstanding,
                      finished_callback_valid>>
      BY <1>7 DEF Submit
    <3> QED BY <1>0, <2>4, <3>1, <3>2 DEF TypeOK, Entry
  <2>6. OutstandingExact'
    <3>1. /\ InProgress(p)' = InProgress(p) + 1
          /\ \A r \in Pipe : Owed(r)' = Owed(r)
          /\ \A r \in Pipe \ {p} : InProgress(r)' = InProgress(r)
      BY <1>0, <1>7 DEF Submit, InProgress, Owed, Working, TypeOK
    <3> QED
      BY <1>0, <1>7, <2>2, <3>1, CountedOnce
         DEF OutstandingExact, Submit, TypeOK
  <2> QED BY <2>5, <2>6 DEF Inv
<1>8. ASSUME NEW p \in Pipe, PutOff(p) PROVE Inv'
  <2>1. /\ IncrementAll(queue[p]) \in Seq(Entry)
        /\ Len(IncrementAll(queue[p])) = Len(queue[p])
    BY <1>0, IncrementAllType DEF Entry
  <2>2. queue' \in [Pipe -> Seq(Entry)]
    BY <1>0, <1>8, <2>1 DEF PutOff, TypeOK, Entry
  <2>3. TypeOK'
    BY <1>0, <1>8, <2>2 DEF TypeOK, PutOff, Phases, AfterCheck, engine, Entry
  <2>4. OutstandingExact'
    BY <1>0, <1>8, <2>1
       DEF OutstandingExact, PutOff, InProgress, Owed, Working, TypeOK,
           engine
  <2> QED BY <2>3, <2>4 DEF Inv
<1>9. ASSUME NEW p \in Pipe, RestCycle(p) PROVE Inv'
  <2>1. /\ outstanding' = [outstanding EXCEPT ![p] = @ - Owed(p)]
        /\ outstanding' \in [Pipe -> Nat]
    BY <1>0, <1>9, CallbackCounted DEF RestCycle
  <2>2. /\ finished_callback_valid' \in [Pipe -> BOOLEAN]
        /\ state' \in [Pipe -> {"IDLE", "WORKING", "FINISHED"}]
    BY <1>0, <1>9 DEF RestCycle, TypeOK
  <2>3. work_left' \in [Pipe -> Nat] /\ phase' \in Phases
    BY <1>0, <1>9 DEF RestCycle, TypeOK, Phases, AfterRun
  <2>4. TypeOK'
    BY <1>0, <1>9, <2>1, <2>2, <2>3 DEF TypeOK, RestCycle
  <2>5. \A r \in Pipe \ {p} :
          InProgress(r)' = InProgress(r) /\ Owed(r)' = Owed(r)
    BY <1>0, <1>9 DEF RestCycle, InProgress, Owed, Working, TypeOK
  <2>6. Owed(p)' + InProgress(p)' = InProgress(p)
    BY <1>0, <1>9 DEF RestCycle, InProgress, Owed, Working, TypeOK
  <2>7. OutstandingExact'
    BY <1>0, <1>9, <2>1, <2>5, <2>6, CallbackSettles DEF RestCycle
  <2> QED BY <2>4, <2>7 DEF Inv
<1>10. ASSUME NEW p \in Pipe, WorkCycle(p) PROVE Inv'
  <2>1. /\ outstanding' = [outstanding EXCEPT ![p] = @ - Owed(p)]
        /\ outstanding' \in [Pipe -> Nat]
    BY <1>0, <1>10, CallbackCounted DEF WorkCycle
  <2>2. /\ finished_callback_valid' \in [Pipe -> BOOLEAN]
        /\ state' \in [Pipe -> {"IDLE", "WORKING", "FINISHED"}]
    BY <1>0, <1>10 DEF WorkCycle, TypeOK
  <2>3. work_left' \in [Pipe -> Nat] /\ phase' \in Phases
    <3>1. phase' \in Phases
      BY <1>10 DEF WorkCycle, Phases, AfterRun
    <3>2. work_left \in [Pipe -> Nat] /\ work_left[p] \in Nat
      BY <1>0 DEF TypeOK
    <3> QED BY <1>10, <3>1, <3>2 DEF WorkCycle
  <2>4. TypeOK'
    BY <1>0, <1>10, <2>1, <2>2, <2>3 DEF TypeOK, WorkCycle
  <2>5. \A r \in Pipe \ {p} :
          InProgress(r)' = InProgress(r) /\ Owed(r)' = Owed(r)
    BY <1>0, <1>10 DEF WorkCycle, InProgress, Owed, Working, TypeOK
  <2>6. Owed(p)' + InProgress(p)' = InProgress(p)
    BY <1>0, <1>10 DEF WorkCycle, InProgress, Owed, Working, TypeOK
  <2>7. OutstandingExact'
    BY <1>0, <1>10, <2>1, <2>5, <2>6, CallbackSettles DEF WorkCycle
  <2> QED BY <2>4, <2>7 DEF Inv
<1>11. ASSUME NEW p \in Pipe, FinishCycle(p) PROVE Inv'
  <2>1. /\ outstanding' = [outstanding EXCEPT ![p] = @ - Owed(p)]
        /\ outstanding' \in [Pipe -> Nat]
    BY <1>0, <1>11, CallbackCounted DEF FinishCycle
  <2>2. /\ finished_callback_valid' \in [Pipe -> BOOLEAN]
        /\ state' \in [Pipe -> {"IDLE", "WORKING", "FINISHED"}]
    BY <1>0, <1>11 DEF FinishCycle, TypeOK
  <2>3. work_left' \in [Pipe -> Nat] /\ phase' \in Phases
    <3>1. phase' \in Phases
      BY <1>11 DEF FinishCycle, Phases, AfterRun
    <3>2. work_left \in [Pipe -> Nat] /\ work_left[p] \in Nat
      BY <1>0 DEF TypeOK
    <3> QED BY <1>11, <3>1, <3>2 DEF FinishCycle
  <2>4. TypeOK'
    BY <1>0, <1>11, <2>1, <2>2, <2>3 DEF TypeOK, FinishCycle
  <2>5. \A r \in Pipe \ {p} :
          InProgress(r)' = InProgress(r) /\ Owed(r)' = Owed(r)
    BY <1>0, <1>11 DEF FinishCycle, InProgress, Owed, Working, TypeOK
  <2>6. Owed(p)' + InProgress(p)' = InProgress(p)
    BY <1>0, <1>11 DEF FinishCycle, InProgress, Owed, Working, TypeOK
  <2>7. OutstandingExact'
    BY <1>0, <1>11, <2>1, <2>5, <2>6, CallbackSettles DEF FinishCycle
  <2> QED BY <2>4, <2>7 DEF Inv
<1>12. CASE EndCycle
  BY <1>12, <1>0, NextCycleType
     DEF Inv, EndCycle, TypeOK, OutstandingExact, Phases, engine,
         InProgress, Owed, Working
<1>13. CASE UNCHANGED vars
  BY <1>13, <1>0
     DEF Inv, vars, TypeOK, OutstandingExact, engine, InProgress, Owed, Working
<1> QED
  BY <1>1, <1>2, <1>3, <1>4, <1>5, <1>6, <1>7, <1>8, <1>9, <1>10, <1>11,
     <1>12, <1>13
     DEF Next, CoreCycle, SchedulerCycle, EngineCycle

-----------------------------------------------------------------------------
(* The scheduler and the pipelines keep to their types: among them, that   *)
(* an outstanding count never goes below zero.                             *)
THEOREM TypeCorrect == Spec => []TypeOK
<1>1. Inv => TypeOK
  BY DEF Inv
<1> QED BY <1>1, InvInit, InvNext, PTL DEF Spec

(* The outstanding counts are exact, whatever the core submits and however *)
(* long the commands take.                                                 *)
THEOREM Accounting == Spec => []OutstandingExact
<1>1. Inv => OutstandingExact
  BY DEF Inv
<1> QED BY <1>1, InvInit, InvNext, PTL DEF Spec
-----------------------------------------------------------------------------
(* A fence that has been let through found every count at zero, and in     *)
(* the core's turn no instruction has left execute yet.                    *)
NotYetRetired == phase = "core" => retired = "none"
FenceInv == NotYetRetired /\ FenceDrained

(* An outstanding count of zero means that the pipeline has nothing left.  *)
LEMMA ZeroIsDrained ==
  ASSUME TypeOK, OutstandingExact, NEW p \in Pipe, outstanding[p] = 0
  PROVE  queue[p] = << >> /\ ~Working(p) /\ ~finished_callback_valid[p]
<1>1. queue[p] \in Seq([cycle : Cycles, data : Command])
  BY DEF TypeOK
<1>2. /\ Len(queue[p]) \in Nat
      /\ InProgress(p) \in {0, 1} /\ Owed(p) \in {0, 1}
      /\ Len(queue[p]) + InProgress(p) + Owed(p) = 0
  BY <1>1, LenProperties, CountedOnce DEF OutstandingExact
<1>3. Len(queue[p]) = 0 /\ InProgress(p) = 0 /\ Owed(p) = 0
  BY <1>2
<1>4. queue[p] = << >>
  BY <1>1, <1>3, EmptySeq
<1>5. 0 # 1
  OBVIOUS
<1> QED BY <1>3, <1>4, <1>5, Zenon DEF InProgress, Owed

LEMMA FenceInvNext == Inv /\ FenceInv /\ [Next]_vars => FenceInv'
<1> SUFFICES ASSUME Inv, FenceInv, [Next]_vars PROVE FenceInv'
  OBVIOUS
<1>1. ASSUME NEW i \in Instruction, Configure(i) PROVE FenceInv'
  BY <1>1
     DEF FenceInv, NotYetRetired, FenceDrained, Configure, Submits, Accepted,
         Setters, FenceOp
<1>2. ASSUME NEW i \in Instruction, Launch(i) PROVE FenceInv'
  BY <1>2
     DEF FenceInv, NotYetRetired, FenceDrained, Launch, Submits, Accepted,
         Launchers, FenceOp
<1>3. ASSUME NEW i \in Instruction, RefuseLaunch(i) PROVE FenceInv'
  BY <1>3
     DEF FenceInv, NotYetRetired, FenceDrained, RefuseLaunch, Submits,
         Refused, FenceOp
<1>4. ASSUME NEW i \in Instruction, Fence(i) PROVE FenceInv'
  <2>1. phase = "core" /\ phase' = "check DMA" /\ retired = "none"
    BY <1>4 DEF Fence, Submits, FenceInv, NotYetRetired
  <2>2. CASE FencePasses
    <3>1. \A p \in Pipe :
            queue[p] = << >> /\ ~Working(p) /\ ~finished_callback_valid[p]
      BY <2>2, ZeroIsDrained DEF Inv, FencePasses, Pipe
    <3>2. UNCHANGED <<queue, state, finished_callback_valid>>
      BY <1>4 DEF Fence, engine
    <3> QED
      BY <2>1, <3>1, <3>2 DEF FenceInv, NotYetRetired, FenceDrained, Working
  <2>3. CASE ~FencePasses
    BY <1>4, <2>1, <2>3
       DEF Fence, Refused, FenceInv, NotYetRetired, FenceDrained, FenceOp
  <2> QED BY <2>2, <2>3
<1>5. CASE CoreElsewhere
  BY <1>5 DEF FenceInv, NotYetRetired, FenceDrained, CoreElsewhere, FenceOp
<1>6. ASSUME NEW p \in Pipe, SchedulerCycle(p) PROVE FenceInv'
  BY <1>6
     DEF FenceInv, NotYetRetired, FenceDrained, SchedulerCycle,
         NothingToCheck, Submit, PutOff, AfterCheck
<1>7. ASSUME NEW p \in Pipe, EngineCycle(p) PROVE FenceInv'
  BY <1>7
     DEF FenceInv, NotYetRetired, FenceDrained, EngineCycle, RestCycle,
         WorkCycle, FinishCycle, AfterRun
<1>8. CASE EndCycle
  BY <1>8 DEF FenceInv, NotYetRetired, FenceDrained, EndCycle, FenceOp
<1>9. CASE UNCHANGED vars
  BY <1>9
     DEF FenceInv, NotYetRetired, FenceDrained, vars, engine, Working
<1> QED
  BY <1>1, <1>2, <1>3, <1>4, <1>5, <1>6, <1>7, <1>8, <1>9
     DEF Next, CoreCycle

(* A fence that has left execute leaves nothing behind it: no command      *)
(* submitted before it is queued, worked on or unreported.                 *)
THEOREM FenceWaits == Spec => []FenceDrained
<1>1. Init => FenceInv
  BY DEF Init, FenceInv, NotYetRetired, FenceDrained
<1>2. FenceInv => FenceDrained
  BY DEF FenceInv
<1> QED BY <1>1, <1>2, InvInit, InvNext, FenceInvNext, PTL DEF Spec
-----------------------------------------------------------------------------
(* The entries of a queue become valid in cycle t and in the one after it. *)
Due(q, t) ==
  /\ Len(q) <= 2
  /\ Len(q) >= 1 => q[1].cycle = t
  /\ Len(q) = 2 => q[2].cycle = NextCycle(t)

AtRest == {"core", "stopped"}
BeforeCheck(p) ==
  IF p = "DMA" THEN {"check DMA"} ELSE {"check DMA", "check BLITTER"}

(* Up to the scheduler's turn the front of a queue is valid in this cycle, *)
(* unless it has just been submitted; from then on in the next one.        *)
Timely ==
  \A p \in Pipe :
    /\ phase \in AtRest => Due(queue[p], cycle)
    /\ phase \in BeforeCheck(p) =>
         \/ Due(queue[p], cycle)
         \/ Len(queue[p]) = 1 /\ Due(queue[p], NextCycle(cycle))
    /\ phase \notin AtRest \cup BeforeCheck(p) =>
         Due(queue[p], NextCycle(cycle))
-----------------------------------------------------------------------------
(* An entry appended to a queue that is due, with room for it.             *)
LEMMA DueAppend ==
  ASSUME NEW q \in Seq(Entry), NEW t \in Cycles, NEW d \in Command,
         Due(q, t), Len(q) < 2,
         NEW a, a = Append(q, Deferred(t, d))
  PROVE  Due(a, t) \/ (Len(a) = 1 /\ Due(a, NextCycle(t)))
<1> DEFINE e == Deferred(t, d)
<1>1. e \in Entry /\ e.cycle = NextCycle(t)
  BY NextCycleType DEF Deferred, Entry
<1>2. Len(q) \in Nat
  BY LenProperties
<1>3. /\ Len(a) = Len(q) + 1
      /\ \A k \in 1 .. Len(q) : a[k] = q[k]
      /\ a[Len(q) + 1] = e
  BY <1>1, AppendProperties
<1>. HIDE DEF e
<1>4. CASE Len(q) = 0
  <2>1. Len(a) = 1 /\ a[1] = e
    BY <1>3, <1>4
  <2> QED BY <1>1, <2>1 DEF Due
<1>5. CASE Len(q) = 1
  <2>1. Len(a) = 2 /\ a[1] = q[1] /\ a[2] = e
    BY <1>3, <1>5
  <2> QED BY <1>1, <1>5, <2>1 DEF Due
<1>6. Len(q) = 0 \/ Len(q) = 1
  <2>1. \A n \in Nat : n < 2 => n = 0 \/ n = 1
    OBVIOUS
  <2> QED BY <1>2, <2>1, Zenon
<1> QED BY <1>4, <1>5, <1>6

(* The front is taken in the cycle it is valid in: the rest is due next.   *)
LEMMA DueTail ==
  ASSUME NEW q \in Seq(Entry), NEW t \in Cycles, Due(q, t), q # << >>
  PROVE  Due(Tail(q), NextCycle(t))
<1>1. /\ Len(Tail(q)) = Len(q) - 1 /\ Len(q) \in Nat /\ Len(q) >= 1
      /\ \A k \in 1 .. Len(Tail(q)) : Tail(q)[k] = q[k + 1]
  BY HeadTailProperties, LenProperties, EmptySeq
<1> QED BY <1>1 DEF Due

(* Every entry is put off: all of them are due one cycle later.            *)
LEMMA DuePutOff ==
  ASSUME NEW q \in Seq(Entry), NEW t \in Cycles, Due(q, t)
  PROVE  Due(IncrementAll(q), NextCycle(t))
<1>1. /\ Len(IncrementAll(q)) = Len(q) /\ Len(q) \in Nat
      /\ \A k \in 1 .. Len(q) :
           IncrementAll(q)[k].cycle = NextCycle(q[k].cycle)
  BY IncrementAllType, LenProperties DEF Entry
<1> QED BY <1>1 DEF Due
-----------------------------------------------------------------------------
LEMMA TimelyNext ==
  ASSUME QueueSize <= 2, BlitterDepth <= 2, Inv, Timely, [Next]_vars
  PROVE  Timely'
<1>0. /\ cycle \in Cycles
      /\ Pipe = {"DMA", "BLITTER"} /\ "DMA" # "BLITTER"
      /\ queue \in [Pipe -> Seq(Entry)]
      /\ \A p \in Pipe : queue[p] \in Seq(Entry) /\ Len(queue[p]) \in Nat
  <2>1. queue \in [Pipe -> Seq(Entry)] /\ cycle \in Cycles
    BY DEF Inv, TypeOK, Entry
  <2>2. \A p \in Pipe : queue[p] \in Seq(Entry)
    BY <2>1
  <2> QED BY <2>1, <2>2, LenProperties DEF Pipe
(* In the core's turn a queue that is left alone is as due as before. *)
<1>1. ASSUME phase = "core", phase' = "check DMA", UNCHANGED <<cycle, queue>>
      PROVE  Timely'
  BY <1>0, <1>1 DEF Timely, AtRest, BeforeCheck
<1>2. ASSUME NEW i \in Instruction, Launch(i) PROVE Timely'
  <2> DEFINE p == PipeOf(i.op)
  <2>1. p \in Pipe
    BY DEF PipeOf, Pipe
  <2>2. phase = "core" /\ phase' = "check DMA" /\ cycle' = cycle
    BY <1>2 DEF Launch, Submits
  <2>3. \A r \in Pipe : Due(queue[r], cycle)
    BY <2>2 DEF Timely, AtRest
  <2>4. Len(queue[p]) < 2
    <3>1. CASE p = "DMA"
      BY <1>0, <1>2, <3>1, SchedulerAssumption DEF Launch, FrontendFull
    <3>2. CASE p = "BLITTER"
      <4>1. i.op \in Launchers /\ Submits(i)
        BY <1>2 DEF Launch
      <4>2. Len(queue["BLITTER"]) < BlitterDepth
        BY <3>2, <4>1, Zenon DEF Submits
      <4> QED BY <1>0, <3>2, <4>2, SchedulerAssumption
    <3> QED BY <1>0, <2>1, <3>1, <3>2
  <2>5. Configured(i) \in Command
    BY <1>0, <1>2, <2>1, ConfiguredType DEF Launch, Inv, Command
  <2>6. \/ Due(queue'[p], cycle)
        \/ Len(queue'[p]) = 1 /\ Due(queue'[p], NextCycle(cycle))
    <3>1. queue'[p] = Append(queue[p], Deferred(cycle, Configured(i)))
      BY <1>0, <1>2, <2>1 DEF Launch
    <3>2. Len(queue[p]) < 2 /\ Due(queue[p], cycle)
      BY <2>1, <2>3, <2>4
    <3> QED BY <1>0, <2>1, <2>5, <3>1, <3>2, DueAppend
  <2>7. \A r \in Pipe \ {p} : queue'[r] = queue[r]
    BY <1>0, <1>2, <2>1 DEF Launch
  <2> QED
    BY <1>0, <2>2, <2>3, <2>6, <2>7 DEF Timely, AtRest, BeforeCheck
<1>3. ASSUME NEW p \in Pipe, SchedulerCycle(p) PROVE Timely'
  <2>1. /\ phase = CheckPhase(p) /\ phase' = AfterCheck(p) /\ cycle' = cycle
        /\ \A r \in Pipe \ {p} : queue'[r] = queue[r]
    BY <1>0, <1>3 DEF SchedulerCycle, NothingToCheck, Submit, PutOff
  <2>2. \/ Due(queue[p], cycle)
        \/ Len(queue[p]) = 1 /\ Due(queue[p], NextCycle(cycle))
    BY <1>0, <2>1 DEF Timely, CheckPhase, BeforeCheck, AtRest
  <2>3. Due(queue'[p], NextCycle(cycle))
    <3>1. CASE queue[p] = << >>
      <4>1. queue'[p] = queue[p] /\ Len(queue[p]) = 0
        BY <1>0, <1>3, <3>1, EmptySeq
           DEF SchedulerCycle, NothingToCheck, Submit, PutOff, FrontCanRun
      <4> QED BY <4>1 DEF Due
    <3>2. CASE queue[p] # << >> /\ Due(queue[p], cycle)
      <4>1. Len(queue[p]) >= 1 /\ Head(queue[p]) = queue[p][1]
        BY <1>0, <3>2, EmptySeq, HeadTailProperties
      <4>2. FrontCanRun(queue[p], cycle)
        BY <3>2, <4>1 DEF FrontCanRun, CanRun, Due
      <4>3. queue'[p] \in {Tail(queue[p]), IncrementAll(queue[p])}
        BY <1>0, <1>3, <4>2 DEF SchedulerCycle, NothingToCheck, Submit, PutOff
      <4> QED BY <1>0, <3>2, <4>3, DueTail, DuePutOff
    <3>3. CASE /\ queue[p] # << >>
               /\ Len(queue[p]) = 1 /\ Due(queue[p], NextCycle(cycle))
      <4>1. Head(queue[p]) = queue[p][1]
        BY <1>0, <3>3, HeadTailProperties
      <4>2. ~FrontCanRun(queue[p], cycle)
        BY <1>0, <3>3, <4>1, NextCycleType DEF FrontCanRun, CanRun, Due
      <4>3. queue' = queue
        BY <1>3, <4>2 DEF SchedulerCycle, NothingToCheck, Submit, PutOff
      <4> QED BY <3>3, <4>3
    <3> QED BY <2>2, <3>1, <3>2, <3>3
  <2> QED
    BY <1>0, <2>1, <2>3
       DEF Timely, AtRest, BeforeCheck, CheckPhase, AfterCheck
<1>4. ASSUME NEW p \in Pipe, EngineCycle(p) PROVE Timely'
  <2>1. /\ phase = RunPhase(p) /\ phase' = AfterRun(p)
        /\ UNCHANGED <<cycle, queue>>
    BY <1>4 DEF EngineCycle, RestCycle, WorkCycle, FinishCycle
  <2> QED
    BY <1>0, <2>1 DEF Timely, AtRest, BeforeCheck, RunPhase, AfterRun
<1>5. CASE EndCycle
  BY <1>0, <1>5 DEF EndCycle, Timely, AtRest, BeforeCheck
<1>6. CASE UNCHANGED vars
  BY <1>6 DEF vars, Timely
<1>7. CASE CoreCycle
  <2>1. ASSUME NEW i \in Instruction,
               Configure(i) \/ RefuseLaunch(i) \/ Fence(i)
        PROVE  Timely'
    BY <1>1, <2>1 DEF Configure, RefuseLaunch, Fence, Submits
  <2>2. CASE CoreElsewhere
    BY <1>1, <2>2 DEF CoreElsewhere
  <2> QED BY <1>2, <1>7, <2>1, <2>2 DEF CoreCycle
<1> QED BY <1>3, <1>4, <1>5, <1>6, <1>7 DEF Next

(* With at most two commands in a queue, as many as a pipeline can have    *)
(* becoming valid one after the other, no command is lost: at the end of a *)
(* cycle none was valid in that cycle.                                     *)
THEOREM NothingLeftBehind ==
  ASSUME QueueSize <= 2, BlitterDepth <= 2
  PROVE  Spec => []NoCommandLeftBehind
<1>1. Init => Timely
  <2> SUFFICES ASSUME Init PROVE Timely
    OBVIOUS
  <2>1. phase = "core" /\ \A p \in Pipe : queue[p] = << >>
    BY DEF Init
  <2>2. \A t : Due(<< >>, t)
    <3>1. Len(<< >>) = 0
      OBVIOUS
    <3> QED BY <3>1 DEF Due
  <2>3. \A p \in Pipe : Due(queue[p], cycle)
    BY <2>1, <2>2, Zenon
  <2> QED BY <2>1, <2>3 DEF Timely, AtRest, BeforeCheck
<1>2. Inv /\ Timely => NoCommandLeftBehind
  <2> SUFFICES ASSUME Inv, Timely, phase = "end",
                      NEW p \in Pipe, NEW k \in DOMAIN queue[p]
               PROVE  queue[p][k].cycle # cycle
    BY DEF NoCommandLeftBehind
  <2>1. /\ cycle \in Cycles /\ queue[p] \in Seq(Entry)
    BY DEF Inv, TypeOK, Entry
  <2>2. DOMAIN queue[p] = 1 .. Len(queue[p]) /\ Len(queue[p]) \in Nat
    BY <2>1, LenProperties
  <2>3. Due(queue[p], NextCycle(cycle))
    BY DEF Timely, AtRest, BeforeCheck
  <2>4. k = 1 \/ (k = 2 /\ Len(queue[p]) = 2)
    <3>1. \A n \in Nat : n <= 2 => \A j \in 1 .. n : j = 1 \/ (j = 2 /\ n = 2)
      OBVIOUS
    <3>2. Len(queue[p]) <= 2
      BY <2>3, Zenon DEF Due
    <3> QED BY <2>2, <3>1, <3>2, Zenon
  <2> QED BY <2>1, <2>2, <2>3, <2>4, CyclesDiffer DEF Due
<1>3. Inv /\ Timely /\ [Next]_vars => Timely'
  BY TimelyNext
<1> QED BY <1>1, <1>2, <1>3, InvInit, InvNext, PTL DEF Spec
-----------------------------------------------------------------------------
(* The scheduler implements CommandService: every step of it is a step of  *)
(* the service, or is not seen there.                                      *)

(* The commands that wait in a queue.                                      *)
LEMMA WaitingType ==
  ASSUME NEW q \in Seq(Entry)
  PROVE  /\ Waiting(q) \in Seq(Command)
         /\ Len(Waiting(q)) = Len(q)
         /\ \A i \in 1 .. Len(q) : Waiting(q)[i] = Taken(q[i].data)
<1>1. DOMAIN q = 1 .. Len(q) /\ Len(q) \in Nat
  BY LenProperties
<1>2. \A i \in 1 .. Len(q) : Taken(q[i].data) \in Command
  <2>1. \A i \in 1 .. Len(q) : q[i] \in Entry
    BY ElementOfSeq
  <2> QED BY <2>1, TakenType DEF Entry
<1>3. Waiting(q) = [i \in 1 .. Len(q) |-> Taken(q[i].data)]
  BY <1>1 DEF Waiting
<1>4. Waiting(q) \in [1 .. Len(q) -> Command]
  BY <1>2, <1>3
<1>5. Waiting(q) \in Seq(Command)
  BY <1>1, <1>4, SeqDef
<1>6. Len(Waiting(q)) = Len(q)
  BY <1>1, <1>4, <1>5, LenProperties
<1> QED BY <1>3, <1>5, <1>6

LEMMA WaitingEmpty == Waiting(<< >>) = << >>
<1>1. << >> \in Seq(Entry) /\ Len(<< >>) = 0
  BY EmptySeq
<1>2. Waiting(<< >>) \in Seq(Command) /\ Len(Waiting(<< >>)) = 0
  BY <1>1, WaitingType
<1> QED BY <1>2, EmptySeq

(* An entry that is queued waits behind the others.                        *)
LEMMA WaitingAppend ==
  ASSUME NEW q \in Seq(Entry), NEW e \in Entry
  PROVE  Waiting(Append(q, e)) = Append(Waiting(q), Taken(e.data))
<1> DEFINE a == Append(q, e)
           w == Append(Waiting(q), Taken(e.data))
<1>1. /\ a \in Seq(Entry) /\ Len(a) = Len(q) + 1 /\ Len(q) \in Nat
      /\ \A i \in 1 .. Len(q) : a[i] = q[i]
      /\ a[Len(q) + 1] = e
  BY AppendProperties, LenProperties
<1>2. Taken(e.data) \in Command
  BY TakenType DEF Entry
<1>3. /\ Waiting(q) \in Seq(Command) /\ Len(Waiting(q)) = Len(q)
      /\ \A i \in 1 .. Len(q) : Waiting(q)[i] = Taken(q[i].data)
  BY WaitingType
<1>4. /\ w \in Seq(Command) /\ Len(w) = Len(q) + 1
      /\ \A i \in 1 .. Len(q) : w[i] = Waiting(q)[i]
      /\ w[Len(q) + 1] = Taken(e.data)
  BY <1>2, <1>3, AppendProperties
<1> HIDE DEF a, w
<1>5. /\ Waiting(a) \in Seq(Command) /\ Len(Waiting(a)) = Len(a)
      /\ \A i \in 1 .. Len(a) : Waiting(a)[i] = Taken(a[i].data)
  BY <1>1, WaitingType
<1>6. \A i \in 1 .. Len(a) : Waiting(a)[i] = w[i]
  <2> SUFFICES ASSUME NEW i \in 1 .. Len(a) PROVE Waiting(a)[i] = w[i]
    OBVIOUS
  <2>1. i \in 1 .. Len(q) \/ i = Len(q) + 1
    BY <1>1
  <2>2. CASE i \in 1 .. Len(q)
    BY <1>1, <1>3, <1>4, <1>5, <2>2
  <2>3. CASE i = Len(q) + 1
    BY <1>1, <1>4, <1>5, <2>3
  <2> QED BY <2>1, <2>2, <2>3
<1>7. Waiting(a) = w
  <2>1. Len(Waiting(a)) = Len(w)
    BY <1>1, <1>4, <1>5
  <2>2. \A i \in 1 .. Len(Waiting(a)) : Waiting(a)[i] = w[i]
    BY <1>5, <1>6
  <2> QED BY <1>4, <1>5, <2>1, <2>2, SeqEqual
<1> QED BY <1>7 DEF a, w

(* Putting a queue off changes when its commands are valid, not what they  *)
(* are.                                                                    *)
LEMMA WaitingPutOff ==
  ASSUME NEW q \in Seq(Entry)
  PROVE  Waiting(IncrementAll(q)) = Waiting(q)
<1> DEFINE a == IncrementAll(q)
<1>1. /\ a \in Seq(Entry) /\ Len(a) = Len(q)
      /\ \A i \in 1 .. Len(q) : a[i].data = q[i].data
  BY IncrementAllType DEF Entry
<1> HIDE DEF a
<1>2. /\ Waiting(a) \in Seq(Command) /\ Len(Waiting(a)) = Len(a)
      /\ \A i \in 1 .. Len(a) : Waiting(a)[i] = Taken(a[i].data)
  BY <1>1, WaitingType
<1>3. /\ Waiting(q) \in Seq(Command) /\ Len(Waiting(q)) = Len(q)
      /\ \A i \in 1 .. Len(q) : Waiting(q)[i] = Taken(q[i].data)
  BY WaitingType
<1>4. \A i \in 1 .. Len(Waiting(a)) : Waiting(a)[i] = Waiting(q)[i]
  BY <1>1, <1>2, <1>3
<1>5. Waiting(a) = Waiting(q)
  BY <1>1, <1>2, <1>3, <1>4, SeqEqual
<1> QED BY <1>5 DEF a

(* The command at the front, and then the others.                          *)
LEMMA WaitingTail ==
  ASSUME NEW q \in Seq(Entry), q # << >>
  PROVE  Waiting(q) = <<Taken(Head(q).data)>> \o Waiting(Tail(q))
<1> DEFINE x == Taken(Head(q).data)
           t == Tail(q)
           w == <<x>> \o Waiting(t)
<1>1. /\ Head(q) \in Entry /\ t \in Seq(Entry)
      /\ Len(t) = Len(q) - 1 /\ Len(q) \in Nat \ {0}
      /\ \A i \in 1 .. Len(t) : t[i] = q[i + 1]
  BY HeadTailProperties, EmptySeq
<1>2. x \in Command
  BY <1>1, TakenType DEF Entry
<1>3. Head(q) = q[1]
  OBVIOUS
<1>4. <<x>> \in Seq(Command) /\ Len(<<x>>) = 1 /\ <<x>>[1] = x
  BY <1>2
<1>5. /\ Waiting(q) \in Seq(Command) /\ Len(Waiting(q)) = Len(q)
      /\ \A i \in 1 .. Len(q) : Waiting(q)[i] = Taken(q[i].data)
  BY WaitingType
<1> HIDE DEF t
<1>6. /\ Waiting(t) \in Seq(Command) /\ Len(Waiting(t)) = Len(t)
      /\ \A i \in 1 .. Len(t) : Waiting(t)[i] = Taken(t[i].data)
  BY <1>1, WaitingType
<1>7. /\ w \in Seq(Command) /\ Len(w) = 1 + Len(t)
      /\ \A i \in 1 .. 1 + Len(t) :
           w[i] = IF i <= 1 THEN <<x>>[i] ELSE Waiting(t)[i - 1]
  BY <1>4, <1>6, ConcatProperties
<1> HIDE DEF w
<1>8. \A i \in 1 .. Len(q) : Waiting(q)[i] = w[i]
  <2> SUFFICES ASSUME NEW i \in 1 .. Len(q) PROVE Waiting(q)[i] = w[i]
    OBVIOUS
  <2>1. i = 1 \/ (i - 1 \in 1 .. Len(t) /\ ~(i <= 1))
    BY <1>1
  <2>2. CASE i = 1
    BY <1>1, <1>3, <1>4, <1>5, <1>7, <2>2
  <2>3. CASE i - 1 \in 1 .. Len(t) /\ ~(i <= 1)
    <3>1. w[i] = Taken(t[i - 1].data)
      BY <1>1, <1>6, <1>7, <2>3
    <3>2. t[i - 1] = q[i]
      BY <1>1, <2>3
    <3> QED BY <1>5, <3>1, <3>2
  <2> QED BY <2>1, <2>2, <2>3
<1>9. Waiting(q) = w
  BY <1>1, <1>5, <1>7, <1>8, SeqEqual
<1> QED BY <1>9 DEF w, t
-----------------------------------------------------------------------------
(* What a pipeline has pending is a sequence of commands.                  *)
LEMMA PendingType ==
  ASSUME TypeOK, NEW p \in Pipe
  PROVE  /\ queue[p] \in Seq(Entry)
         /\ InHand(p) \in Seq(Command) /\ Waiting(queue[p]) \in Seq(Command)
         /\ InHand(p) \o Waiting(queue[p]) \in Seq(Command)
<1>1. queue[p] \in Seq(Entry) /\ working_command[p] \in Command
  BY DEF TypeOK, Entry
<1>2. InHand(p) \in Seq(Command)
  BY <1>1 DEF InHand
<1> QED BY <1>1, <1>2, WaitingType, ConcatProperties

(* A step that changes neither the commands at work nor those that wait    *)
(* changes nothing pending.                                                *)
LEMMA PendingSame ==
  ASSUME \A p \in Pipe : /\ InHand(p)' = InHand(p)
                         /\ Waiting(queue'[p]) = Waiting(queue[p])
  PROVE  Pending' = Pending
BY DEF Pending

(* A step that changes what one pipeline has pending.                      *)
LEMMA PendingOther ==
  ASSUME NEW p \in Pipe, NEW s,
         InHand(p)' \o Waiting(queue'[p]) = s,
         \A r \in Pipe \ {p} : /\ InHand(r)' = InHand(r)
                               /\ queue'[r] = queue[r]
  PROVE  Pending' = [Pending EXCEPT ![p] = s]
BY DEF Pending

-----------------------------------------------------------------------------
(* Steps of the core. *)

LEMMA SimConfigure ==
  ASSUME Inv, NotYetRetired, NEW i \in Instruction, Configure(i)
  PROVE  Service!Prepare
<1>1. /\ retired = "none" /\ retired' = i.op /\ i.op \in Setters
      /\ UNCHANGED <<queue, state, working_command>>
  BY DEF Configure, Submits, Accepted, NotYetRetired, engine
<1>2. Pending' = Pending
  BY <1>1, PendingSame DEF InHand, Working
<1> QED
  BY <1>1, <1>2 DEF Service!Prepare, Service!Nothing, Service!Fence, Setters

LEMMA SimLaunch ==
  ASSUME Inv, NotYetRetired, NEW i \in Instruction, Launch(i)
  PROVE  \E p \in Pipe : Service!Give(p)
<1> DEFINE p == PipeOf(i.op)
           e == Deferred(cycle, Configured(i))
           x == Taken(Configured(i))
<1>1. p \in Pipe /\ TypeOK
  BY DEF PipeOf, Pipe, Inv
<1>2. /\ retired = "none" /\ retired' = i.op /\ i.op \in Launchers
      /\ UNCHANGED <<state, working_command>>
      /\ queue' = [queue EXCEPT ![p] = Append(queue[p], e)]
  BY DEF Launch, Submits, Accepted, NotYetRetired, engine
<1>3. Configured(i) \in Command
  BY <1>1, <1>2, ConfiguredType DEF Command, Pipe
<1>4. Configured(i).operation # "NONE"
  <2>1. frontend["DMA"] \in DmaCommand /\ frontend["BLITTER"] \in BlitterCommand
    BY <1>1 DEF TypeOK
  <2> QED
    BY <1>2, <2>1
       DEF Configured, Launchers, PipeOf, DmaCommand, BlitterCommand
<1>5. x \in {c \in Command : c.operation # "NONE"}
  BY <1>3, <1>4, TakenType DEF Taken, Command, DmaCommand, BlitterCommand
<1>6. e \in Entry /\ e.data = Configured(i)
  BY <1>1, <1>3, NextCycleType DEF Deferred, Entry, TypeOK
<1> HIDE DEF p, e, x
<1>7. /\ queue[p] \in Seq(Entry)
      /\ InHand(p) \in Seq(Command) /\ Waiting(queue[p]) \in Seq(Command)
      /\ InHand(p) \o Waiting(queue[p]) \in Seq(Command)
  BY <1>1, PendingType
<1>8. queue'[p] = Append(queue[p], e)
  BY <1>1, <1>2 DEF TypeOK
<1>9. Waiting(queue'[p]) = Append(Waiting(queue[p]), x)
  BY <1>6, <1>7, <1>8, WaitingAppend DEF x
<1>10. InHand(p)' \o Waiting(queue'[p])
         = Append(InHand(p) \o Waiting(queue[p]), x)
  <2>1. InHand(p)' = InHand(p)
    BY <1>2 DEF InHand, Working
  <2>2. x \in Command /\ <<x>> \in Seq(Command)
    BY <1>5
  <2>3. InHand(p) \o (Waiting(queue[p]) \o <<x>>)
          = (InHand(p) \o Waiting(queue[p])) \o <<x>>
    BY <1>7, <2>2, ConcatAssociative
  <2>4. /\ Append(Waiting(queue[p]), x) = Waiting(queue[p]) \o <<x>>
        /\ Append(InHand(p) \o Waiting(queue[p]), x)
             = (InHand(p) \o Waiting(queue[p])) \o <<x>>
    BY <1>7, <2>2, AppendIsConcat
  <2> QED BY <1>9, <2>1, <2>3, <2>4
<1>11. Pending[p] = InHand(p) \o Waiting(queue[p])
  BY <1>1 DEF Pending
<1>12. Pending' = [Pending EXCEPT ![p] = Append(Pending[p], x)]
  <2>1. \A r \in Pipe \ {p} : InHand(r)' = InHand(r) /\ queue'[r] = queue[r]
    BY <1>1, <1>2 DEF InHand, Working, TypeOK
  <2> QED BY <1>1, <1>10, <1>11, <2>1, PendingOther
<1>13. /\ Pending'[p] = Append(Pending[p], x)
       /\ Pending'[p] # << >>
       /\ Pending'[p][Len(Pending'[p])] = x
  <2>1. Pending'[p] = Append(Pending[p], x)
    BY <1>1, <1>12 DEF Pending
  <2>2. Pending[p] \in Seq(Command) /\ x \in Command
    BY <1>5, <1>7, <1>11
  <2> QED BY <2>1, <2>2, AppendProperties
<1>14. i.op \notin {"none", "P_SCH_FNC"}
  BY <1>2 DEF Launchers
<1> QED
  BY <1>1, <1>2, <1>5, <1>12, <1>13, <1>14
     DEF Service!Give, Service!Nothing, Service!Fence

LEMMA SimFence ==
  ASSUME Inv, NotYetRetired, NEW i \in Instruction, Fence(i)
  PROVE  Service!PassFence \/ UNCHANGED <<Pending, retired>>
<1>1. /\ retired = "none" /\ i.op = "P_SCH_FNC"
      /\ UNCHANGED <<queue, state, working_command>>
  BY DEF Fence, Submits, NotYetRetired, engine, FenceOp
<1>2. Pending' = Pending
  BY <1>1, PendingSame DEF InHand, Working
<1>3. CASE FencePasses
  <2>1. \A p \in Pipe : Pending[p] = << >>
    <3> SUFFICES ASSUME NEW p \in Pipe PROVE Pending[p] = << >>
      OBVIOUS
    <3>1. queue[p] = << >> /\ ~Working(p)
      BY <1>3, ZeroIsDrained DEF Inv, FencePasses, Pipe
    <3>2. InHand(p) = << >> /\ Waiting(queue[p]) = << >>
      BY <3>1, WaitingEmpty DEF InHand
    <3>3. << >> \o << >> = << >>
      BY EmptySeq, ConcatEmptySeq
    <3> QED BY <3>2, <3>3 DEF Pending
  <2>2. retired' = "P_SCH_FNC"
    BY <1>1, <1>3 DEF Fence, Accepted
  <2> QED
    BY <1>1, <1>2, <2>1, <2>2
       DEF Service!PassFence, Service!Nothing, Service!Fence
<1>4. CASE ~FencePasses
  BY <1>2, <1>4 DEF Fence, Refused
<1> QED BY <1>3, <1>4
-----------------------------------------------------------------------------
(* Steps of the scheduler and of the pipelines. *)

(* Handing a command from the queue to its pipeline is not seen.           *)
LEMMA SimSubmit ==
  ASSUME Inv, NEW p \in Pipe, Submit(p)
  PROVE  UNCHANGED <<Pending, retired>>
<1> DEFINE x == Taken(Head(queue[p]).data)
<1>1. TypeOK /\ queue[p] \in Seq(Entry) /\ queue[p] # << >>
  BY PendingType DEF Inv, Submit, FrontCanRun
<1>2. /\ queue'[p] = Tail(queue[p])
      /\ working_command'[p] = x /\ state'[p] = "WORKING"
      /\ \A r \in Pipe \ {p} : /\ queue'[r] = queue[r]
                               /\ state'[r] = state[r]
                               /\ working_command'[r] = working_command[r]
      /\ ~Working(p) /\ retired' = retired
  BY <1>1 DEF Submit, TypeOK
<1> HIDE DEF x
<1>3. InHand(p) = << >> /\ InHand(p)' = <<x>>
  BY <1>2 DEF InHand, Working
<1>4. Waiting(queue[p]) = <<x>> \o Waiting(queue'[p])
  BY <1>1, <1>2, WaitingTail DEF x
<1>5. InHand(p) \o Waiting(queue[p]) = InHand(p)' \o Waiting(queue'[p])
  <2>1. << >> \o Waiting(queue[p]) = Waiting(queue[p])
    BY <1>1, PendingType, ConcatEmptySeq
  <2> QED BY <1>3, <1>4, <2>1
<1>6. \A r \in Pipe \ {p} : InHand(r)' = InHand(r) /\ queue'[r] = queue[r]
  BY <1>2 DEF InHand, Working
<1>7. Pending' = [Pending EXCEPT ![p] = Pending[p]]
  BY <1>5, <1>6, PendingOther DEF Pending
<1> QED BY <1>2, <1>7 DEF Pending

LEMMA SimPutOff ==
  ASSUME Inv, NEW p \in Pipe, PutOff(p)
  PROVE  UNCHANGED <<Pending, retired>>
<1>1. /\ TypeOK /\ queue[p] \in Seq(Entry)
      /\ UNCHANGED <<state, working_command, retired>>
  BY PendingType DEF Inv, PutOff, engine
<1>2. /\ queue'[p] = IncrementAll(queue[p])
      /\ \A r \in Pipe \ {p} : queue'[r] = queue[r]
  BY <1>1 DEF PutOff, TypeOK
<1>3. Waiting(queue'[p]) = Waiting(queue[p])
  BY <1>1, <1>2, WaitingPutOff
<1>4. \A r \in Pipe : /\ InHand(r)' = InHand(r)
                      /\ Waiting(queue'[r]) = Waiting(queue[r])
  BY <1>1, <1>2, <1>3 DEF InHand, Working
<1> QED BY <1>1, <1>4, PendingSame

(* A cycle of rest or of work changes neither the commands nor which       *)
(* pipelines work.                                                         *)
LEMMA SimRestOrWork ==
  ASSUME Inv, NEW p \in Pipe, RestCycle(p) \/ WorkCycle(p)
  PROVE  UNCHANGED <<Pending, retired>>
<1>1. UNCHANGED <<queue, working_command, retired>> /\ TypeOK
  BY DEF Inv, RestCycle, WorkCycle
<1>2. \A r \in Pipe : Working(r)' <=> Working(r)
  BY <1>1 DEF RestCycle, WorkCycle, TypeOK, Working
<1>3. \A r \in Pipe : InHand(r)' = InHand(r)
  BY <1>1, <1>2 DEF InHand
<1> QED BY <1>1, <1>3, PendingSame

(* Finishing the command at work performs the oldest one pending.          *)
LEMMA SimFinish ==
  ASSUME Inv, NEW p \in Pipe, FinishCycle(p)
  PROVE  Service!Perform(p)
<1> DEFINE x == working_command[p]
           w == Waiting(queue[p])
<1>1. /\ TypeOK /\ w \in Seq(Command) /\ x \in Command
      /\ UNCHANGED <<queue, working_command, retired>>
  BY PendingType DEF Inv, FinishCycle, TypeOK
<1>2. /\ Working(p) /\ state'[p] = "FINISHED"
      /\ \A r \in Pipe \ {p} : state'[r] = state[r]
  BY <1>1 DEF FinishCycle, TypeOK
<1>3. InHand(p) = <<x>> /\ InHand(p)' = << >>
  BY <1>2 DEF InHand, Working
<1>4. /\ <<x>> \o w # << >>
      /\ Tail(<<x>> \o w) = << >> \o w
  <2> HIDE DEF x, w
  <2>1. <<x>> \in Seq(Command) /\ Len(<<x>>) = 1 /\ <<x>> # << >>
    BY <1>1
  <2>2. /\ <<x>> \o w \in Seq(Command)
        /\ Len(<<x>> \o w) = 1 + Len(w) /\ Len(w) \in Nat
        /\ \A i \in 1 .. 1 + Len(w) :
             (<<x>> \o w)[i] = IF i <= 1 THEN <<x>>[i] ELSE w[i - 1]
    BY <1>1, <2>1, ConcatProperties, LenProperties
  <2>3. <<x>> \o w # << >>
    BY <1>1, <2>1, ConcatEqualIffEmpty
  <2> DEFINE t == Tail(<<x>> \o w)
  <2>4. /\ t \in Seq(Command) /\ Len(t) = Len(<<x>> \o w) - 1
        /\ \A i \in 1 .. Len(t) : t[i] = (<<x>> \o w)[i + 1]
    BY <2>2, <2>3, HeadTailProperties
  <2> HIDE DEF t
  <2>5. Len(t) = Len(w) /\ \A i \in 1 .. Len(t) : t[i] = w[i]
    BY <2>2, <2>4
  <2>6. t = w
    BY <1>1, <2>4, <2>5, SeqEqual
  <2> QED BY <1>1, <2>3, <2>6, ConcatEmptySeq DEF t
<1>5. Pending[p] = <<x>> \o w
  BY <1>3 DEF Pending
<1>6. Pending' = [Pending EXCEPT ![p] = Tail(Pending[p])]
  <2>1. \A r \in Pipe \ {p} : InHand(r)' = InHand(r) /\ queue'[r] = queue[r]
    BY <1>1, <1>2 DEF InHand, Working
  <2>2. InHand(p)' \o Waiting(queue'[p]) = Tail(Pending[p])
    BY <1>1, <1>3, <1>4, <1>5
  <2> QED BY <2>1, <2>2, PendingOther
<1> QED BY <1>1, <1>4, <1>5, <1>6 DEF Service!Perform

LEMMA SimNext ==
  ASSUME Inv, NotYetRetired, [Next]_vars
  PROVE  [Service!Next]_Service!vars
<1>1. CASE CoreCycle
  <2>1. ASSUME NEW i \in Instruction, RefuseLaunch(i)
        PROVE  UNCHANGED <<Pending, retired>>
    <3>1. UNCHANGED <<queue, state, working_command, retired>>
      BY <2>1 DEF RefuseLaunch, Refused, engine
    <3> QED BY <3>1, PendingSame DEF InHand, Working
  <2>2. ASSUME CoreElsewhere PROVE UNCHANGED <<Pending, retired>>
    <3>1. UNCHANGED <<queue, state, working_command, retired>>
      BY <2>2 DEF CoreElsewhere, engine
    <3> QED BY <3>1, PendingSame DEF InHand, Working
  <2> QED
    BY <1>1, <2>1, <2>2, SimConfigure, SimLaunch, SimFence
       DEF CoreCycle, Service!Next, Service!vars
<1>2. ASSUME NEW p \in Pipe, SchedulerCycle(p)
      PROVE  UNCHANGED <<Pending, retired>>
  <2>1. ASSUME NothingToCheck(p) PROVE UNCHANGED <<Pending, retired>>
    <3>1. UNCHANGED <<queue, state, working_command, retired>>
      BY <2>1 DEF NothingToCheck, engine
    <3> QED BY <3>1, PendingSame DEF InHand, Working
  <2> QED BY <1>2, <2>1, SimSubmit, SimPutOff DEF SchedulerCycle
<1>3. ASSUME NEW p \in Pipe, EngineCycle(p)
      PROVE  Service!Perform(p) \/ UNCHANGED <<Pending, retired>>
  BY <1>3, SimRestOrWork, SimFinish DEF EngineCycle
<1>4. CASE EndCycle
  <2>1. UNCHANGED <<queue, state, working_command>> /\ retired' = "none"
    BY <1>4 DEF EndCycle, engine
  <2>2. Pending' = Pending
    BY <2>1, PendingSame DEF InHand, Working
  <2> QED BY <2>1, <2>2 DEF Service!Next, Service!EndCycle, Service!Nothing
<1>5. CASE UNCHANGED vars
  <2>1. UNCHANGED <<queue, state, working_command, retired>>
    BY <1>5 DEF vars, engine
  <2>2. Pending' = Pending
    BY <2>1, PendingSame DEF InHand, Working
  <2> QED BY <2>1, <2>2 DEF Service!vars
<1> QED
  BY <1>1, <1>2, <1>3, <1>4, <1>5 DEF Next, Service!Next, Service!vars

LEMMA SimInit == Init => Service!Init
<1> SUFFICES ASSUME Init PROVE Service!Init
  OBVIOUS
<1>1. \A p \in Pipe : queue[p] = << >> /\ ~Working(p)
  BY DEF Init, Working
<1>2. \A p \in Pipe : InHand(p) = << >> /\ Waiting(queue[p]) = << >>
  BY <1>1, WaitingEmpty DEF InHand
<1>3. << >> \o << >> = << >>
  BY EmptySeq, ConcatEmptySeq
<1>4. Pending = [p \in Pipe |-> << >>]
  BY <1>2, <1>3 DEF Pending
<1> QED BY <1>4 DEF Init, Service!Init, Service!Nothing

(* The scheduler implements CommandService: it performs every command it   *)
(* has accepted once, each pipeline in the order in which its commands     *)
(* were given, and lets a fence pass only when none is left.               *)
THEOREM ServiceProvided == Spec => ImplementsService
<1>1. Init => NotYetRetired
  BY DEF Init, NotYetRetired
<1>2. Inv /\ NotYetRetired /\ [Next]_vars => NotYetRetired'
  <2> SUFFICES ASSUME Inv, NotYetRetired, [Next]_vars, phase' = "core"
               PROVE  retired' = "none"
    BY DEF NotYetRetired
  <2> QED
    BY DEF Next, vars, NotYetRetired, CoreCycle, Configure, Launch,
           RefuseLaunch, Fence, CoreElsewhere, Submits, SchedulerCycle,
           NothingToCheck, Submit, PutOff, EngineCycle, RestCycle, WorkCycle,
           FinishCycle, AfterCheck, AfterRun, EndCycle
<1>3. Inv /\ NotYetRetired /\ [Next]_vars => [Service!Next]_Service!vars
  BY SimNext
<1> QED
  BY <1>1, <1>2, <1>3, InvInit, InvNext, SimInit, PTL
     DEF Spec, ImplementsService, Service!Spec
=============================================================================
