---------------------------- MODULE SystemProofs ----------------------------
(***************************************************************************)
(* Proofs about the whole simulator, for every program, size of the        *)
(* queues, of memory and of the frame: what is proved of the core with a   *)
(* scheduler that answers as it likes, and of the DMA engine and the       *)
(* blitter each alone on its memory, holds when they are put together; and *)
(* so does what is proved of the scheduler, because the core and the       *)
(* engines behave to it as module Scheduler has it.                        *)
(***************************************************************************)
EXTENDS System, CoreProofs, FiniteSetTheorems

(* Every step of the system is one of the core or leaves the core alone.   *)
LEMMA CoreSteps == [SystemNext]_systemVars => [Next]_vars
<1>1. ASSUME SystemNext PROVE [Next]_vars
  <2>1. CoreStep => Next
    BY DEF CoreStep, Next, StageExecute
  <2>2. SubmissionAccepted \/ SubmissionRefused => Next
    BY DEF SubmissionAccepted, SubmissionRefused, Next, StageExecute
  <2>3. \A p : CheckPipe(p) => UNCHANGED vars
    BY DEF CheckPipe, Turns
  <2>4. SubmitDma \/ SubmitBlitter \/ RunDma \/ RunBlitter => UNCHANGED vars
    BY DEF SubmitDma, SubmitBlitter, RunDma, RunBlitter, Turns
  <2>5. EndOfCycle => Next
    BY DEF EndOfCycle, Next
  <2> QED BY <1>1, <2>1, <2>2, <2>3, <2>4, <2>5 DEF SystemNext
<1>2. UNCHANGED systemVars => UNCHANGED vars
  BY DEF systemVars
<1> QED BY <1>1, <1>2

(* The core of the system is module ManagerCore: whatever the scheduler    *)
(* and the engines do it makes the steps of its own specification.         *)
THEOREM SystemRunsCore == SystemSpec => Spec
<1>1. SystemInit => Init
  BY DEF SystemInit
<1> QED BY <1>1, CoreSteps, PTL DEF SystemSpec, Spec

(* So the whole simulator performs its program one instruction after       *)
(* another, as the architecture has it, under the conditions under which   *)
(* the core does.                                                          *)
THEOREM SystemImplementsISA ==
  ASSUME Closed, Unshared, \A u \in Uninit : ~u.held
  PROVE  SystemSpec /\ []Unambiguous /\ []FallsThrough => ImplementsISA
BY SystemRunsCore, CoreImplementsISA, PTL

(* And when the core has halted and its registers are dumped none of them  *)
(* is still to be written.                                                 *)
THEOREM SystemHaltsClean ==
  ASSUME EndWithHlt, \A u \in Uninit : ~u.held
  PROVE  SystemSpec => []HaltedClean
BY SystemRunsCore, HaltsClean, PTL
-----------------------------------------------------------------------------
(***************************************************************************)
(* The commands on their way.                                              *)
(***************************************************************************)
(* A queue of deferred commands, whatever the commands are.                *)
Queued(q) == \E T : q \in Seq([cycle : Cycles, data : T])

Shapes ==
  /\ cycle \in Cycles /\ phase \in Phases
  /\ DOMAIN queue = S!Pipe /\ \A p \in S!Pipe : Queued(queue[p])
  /\ outstanding \in [S!Pipe -> Nat]
  /\ finished_callback_valid \in [S!Pipe -> BOOLEAN]
  /\ dma_state \in {"IDLE", "WORKING", "FINISHED", "CRASHED"}
  /\ blitter_state \in {"IDLE", "WORKING", "FINISHED", "CRASHED"}

(* Every command that is queued or worked on, and every callback owed, has *)
(* been counted; a crash would leave a count too high, never one too low.  *)
Counted ==
  \A p \in S!Pipe :
    outstanding[p] >= Len(queue[p]) + S!InProgress(p) + S!Owed(p)

Counts == Shapes /\ Counted
-----------------------------------------------------------------------------
LEMMA Pipes == S!Pipe = {"DMA", "BLITTER"} /\ "DMA" # "BLITTER"
  BY DEF S!Pipe

LEMMA InProgressValues ==
  \A p \in S!Pipe :
    /\ S!InProgress(p) = IF S!Working(p) THEN 1 ELSE 0
    /\ S!Owed(p) = IF finished_callback_valid[p] THEN 1 ELSE 0
    /\ S!Working("DMA") <=> dma_state = "WORKING"
    /\ S!Working("BLITTER") <=> blitter_state = "WORKING"
  BY DEF S!InProgress, S!Owed, S!Working, EngineState

LEMMA QueuedLaunch ==
  ASSUME NEW q, Queued(q), NEW t \in Cycles, NEW d
  PROVE  /\ Queued(Append(q, Deferred(t, d)))
         /\ Len(Append(q, Deferred(t, d))) = Len(q) + 1
<1>1. PICK T : q \in Seq([cycle : Cycles, data : T])
  BY DEF Queued
<1> DEFINE U == T \cup {d}
<1>2. [cycle : Cycles, data : T] \subseteq [cycle : Cycles, data : U]
  OBVIOUS
<1>3. q \in Seq([cycle : Cycles, data : U])
  BY <1>1, <1>2, SeqMonotonic
<1>4. Deferred(t, d) \in [cycle : Cycles, data : U]
  BY NextCycleType DEF Deferred
<1> HIDE DEF U
<1> QED BY <1>3, <1>4, AppendProperties DEF Queued

LEMMA QueuedPutOff ==
  ASSUME NEW q, Queued(q)
  PROVE  Queued(IncrementAll(q)) /\ Len(IncrementAll(q)) = Len(q)
  BY IncrementAllType DEF Queued

LEMMA QueuedTail ==
  ASSUME NEW q, Queued(q), q # << >>
  PROVE  /\ Queued(Tail(q)) /\ Len(Tail(q)) = Len(q) - 1
         /\ 1 \in DOMAIN q /\ Head(q) = q[1]
<1>1. PICK T : q \in Seq([cycle : Cycles, data : T])
  BY DEF Queued
<1>2. /\ Tail(q) \in Seq([cycle : Cycles, data : T])
      /\ Len(Tail(q)) = Len(q) - 1 /\ Head(q) = q[1]
  BY <1>1, HeadTailProperties
<1>3. DOMAIN q = 1 .. Len(q) /\ Len(q) \in Nat /\ Len(q) # 0
  BY <1>1, LenProperties, EmptySeq
<1>4. 1 \in DOMAIN q
  BY <1>3
<1> QED BY <1>2, <1>4 DEF Queued

LEMMA QueuedLength ==
  ASSUME NEW q, Queued(q)
  PROVE  Len(q) \in Nat /\ (Len(q) = 0 <=> q = << >>)
  BY LenProperties, EmptySeq DEF Queued
-----------------------------------------------------------------------------
(* Nothing is on its way at first.                                         *)
LEMMA CountsInit == SystemInit => Counts
<1> SUFFICES ASSUME SystemInit PROVE Counts
  OBVIOUS
<1>1. /\ queue = [p \in S!Pipe |-> << >>]
      /\ outstanding = [p \in S!Pipe |-> 0]
      /\ finished_callback_valid = [p \in S!Pipe |-> FALSE]
      /\ dma_state = "IDLE" /\ blitter_state = "IDLE"
      /\ cycle = 0 /\ phase = "flush"
  BY DEF SystemInit, D!Init, B!Init, Init
<1>2. Queued(<< >>) /\ Len(<< >>) = 0
  BY EmptySeq DEF Queued
<1>3. Shapes
  BY <1>1, <1>2, CycleModulusAssumption DEF Shapes, Cycles, Phases
<1>4. Counted
  BY <1>1, <1>2, Pipes, InProgressValues DEF Counted
<1> QED BY <1>3, <1>4 DEF Counts

(* Nothing happens to the commands on their way.                           *)
LEMMA CountsKept ==
  ASSUME Counts, cycle' \in Cycles, phase' \in Phases,
         UNCHANGED <<queue, outstanding, finished_callback_valid, dma_state,
                     blitter_state>>
  PROVE  Counts'
<1>1. \A p \in S!Pipe : /\ S!InProgress(p)' = S!InProgress(p)
                        /\ S!Owed(p)' = S!Owed(p)
  BY DEF S!InProgress, S!Owed, S!Working, EngineState
<1> QED BY <1>1 DEF Counts, Shapes, Counted

LEMMA CountsAccepted ==
  ASSUME Counts, SubmissionAccepted
  PROVE  Counts'
<1>1. /\ cycle' = cycle /\ phase' = "memory"
      /\ UNCHANGED <<finished_callback_valid, dma_state, blitter_state>>
  BY DEF SubmissionAccepted, ExecuteAccepted, Executes, Turn, cycleVars,
         shellVars, dmaVars, blitterVars
<1>2. CASE S!Configure(Command) \/ S!Fence(Command)
  <2>1. UNCHANGED <<queue, outstanding>>
    BY <1>2 DEF S!Configure, S!Fence
  <2> QED BY <1>1, <2>1, CountsKept DEF Counts, Shapes, Phases
<1>3. CASE S!Launch(Command)
  <2> DEFINE p == S!PipeOf(Command.op)
             a == Append(queue[p], Deferred(cycle, S!Configured(Command)))
  <2>1. /\ p \in S!Pipe
        /\ queue' = [queue EXCEPT ![p] = a]
        /\ outstanding' = [outstanding EXCEPT ![p] = @ + 1]
    BY <1>3 DEF S!Launch, S!PipeOf, S!Pipe, S!Deferred, S!NextCycle,
                Deferred, NextCycle
  <2>2. cycle \in Cycles /\ Queued(queue[p])
    BY <2>1 DEF Counts, Shapes
  <2>3. Queued(a) /\ Len(a) = Len(queue[p]) + 1
    BY <2>2, QueuedLaunch
  <2> HIDE DEF a, p
  <2>4. Shapes'
    BY <1>1, <2>1, <2>3 DEF Counts, Shapes, Phases
  <2>5. \A r \in S!Pipe : /\ S!InProgress(r)' = S!InProgress(r)
                          /\ S!Owed(r)' = S!Owed(r)
    BY <1>1 DEF S!InProgress, S!Owed, S!Working, EngineState
  <2>6. \A r \in S!Pipe :
          /\ outstanding'[r] = IF r = p THEN outstanding[p] + 1
                               ELSE outstanding[r]
          /\ Len(queue'[r]) = IF r = p THEN Len(queue[p]) + 1
                              ELSE Len(queue[r])
    BY <2>1, <2>3 DEF Counts, Shapes
  <2>7. \A r \in S!Pipe : outstanding[r] \in Nat /\ Len(queue[r]) \in Nat
    BY QueuedLength DEF Counts, Shapes
  <2>8. Counted'
    BY <2>1, <2>5, <2>6, <2>7, InProgressValues DEF Counts, Counted
  <2> QED BY <2>4, <2>8 DEF Counts
<1> QED BY <1>2, <1>3 DEF SubmissionAccepted

LEMMA CountsPutOff ==
  ASSUME Counts, NEW p \in S!Pipe, CheckPipe(p)
  PROVE  Counts'
<1>1. /\ cycle' = cycle /\ phase' = phase
      /\ UNCHANGED <<outstanding, finished_callback_valid, dma_state,
                     blitter_state>>
  BY DEF CheckPipe, Turns, vars, cycleVars, S!NothingToCheck, S!PutOff,
         S!engine, dmaVars, blitterVars
<1>2. CASE S!NothingToCheck(p)
  BY <1>1, <1>2, CountsKept DEF S!NothingToCheck, Counts, Shapes
<1>3. CASE S!PutOff(p)
  <2>1. queue' = [queue EXCEPT ![p] = IncrementAll(@)]
    BY <1>3 DEF S!PutOff, S!IncrementAll, S!NextCycle, IncrementAll,
                NextCycle
  <2>2. Queued(queue[p])
    BY DEF Counts, Shapes
  <2>3. Queued(IncrementAll(queue[p]))
        /\ Len(IncrementAll(queue[p])) = Len(queue[p])
    BY <2>2, QueuedPutOff
  <2>4. Shapes'
    BY <1>1, <2>1, <2>3 DEF Counts, Shapes
  <2>5. \A r \in S!Pipe : /\ S!InProgress(r)' = S!InProgress(r)
                          /\ S!Owed(r)' = S!Owed(r)
                          /\ Len(queue'[r]) = Len(queue[r])
    BY <1>1, <2>1, <2>3
       DEF S!InProgress, S!Owed, S!Working, EngineState, Counts, Shapes
  <2> QED BY <1>1, <2>4, <2>5 DEF Counts, Counted
<1> QED BY <1>2, <1>3 DEF CheckPipe

(* A command that is taken leaves the queue and is worked on.              *)
LEMMA CountsSubmit ==
  ASSUME Counts, SubmitDma \/ SubmitBlitter
  PROVE  Counts'
<1> DEFINE p == IF SubmitDma THEN "DMA" ELSE "BLITTER"
<1>1. /\ p \in S!Pipe /\ S!Submit(p) /\ FrontCanRun(queue[p], cycle)
      /\ cycle' = cycle /\ phase' = phase
  BY Pipes DEF SubmitDma, SubmitBlitter, Turns, vars, cycleVars
<1> HIDE DEF p
<1>2. /\ queue' = [queue EXCEPT ![p] = Tail(@)] /\ queue[p] # << >>
      /\ UNCHANGED <<outstanding, finished_callback_valid>>
      /\ ~S!Working(p)
  BY <1>1 DEF S!Submit, FrontCanRun
<1>3. EngineState' = [EngineState EXCEPT ![p] = "WORKING"]
  BY <1>1 DEF S!Submit
<1>4. /\ dma_state' = IF p = "DMA" THEN "WORKING" ELSE dma_state
      /\ blitter_state' = IF p = "BLITTER" THEN "WORKING" ELSE blitter_state
  BY <1>1, <1>3, Pipes DEF EngineState
<1>5. Queued(queue[p])
  BY <1>1 DEF Counts, Shapes
<1>6. Queued(Tail(queue[p])) /\ Len(Tail(queue[p])) = Len(queue[p]) - 1
  BY <1>2, <1>5, QueuedTail
<1>7. Shapes'
  BY <1>1, <1>2, <1>4, <1>6 DEF Counts, Shapes
<1>8. \A r \in S!Pipe :
        /\ Len(queue[r]) \in Nat /\ outstanding[r] \in Nat
        /\ Len(queue'[r]) = IF r = p THEN Len(queue[p]) - 1
                            ELSE Len(queue[r])
        /\ S!Working(r)' <=> (r = p \/ S!Working(r))
        /\ S!Owed(r)' = S!Owed(r)
  <2>1. \A r \in S!Pipe : Len(queue[r]) \in Nat /\ outstanding[r] \in Nat
    BY QueuedLength DEF Counts, Shapes
  <2>2. \A r \in S!Pipe : Len(queue'[r]) = IF r = p THEN Len(queue[p]) - 1
                                           ELSE Len(queue[r])
    BY <1>2, <1>6 DEF Counts, Shapes
  <2>3. \A r \in S!Pipe : S!Working(r)' <=> (r = p \/ S!Working(r))
    BY <1>1, <1>4, Pipes DEF S!Working, EngineState
  <2>4. \A r \in S!Pipe : S!Owed(r)' = S!Owed(r)
    BY <1>2 DEF S!Owed
  <2> QED BY <2>1, <2>2, <2>3, <2>4
<1>9. \A r \in S!Pipe :
        /\ S!InProgress(r)' = IF r = p THEN 1 ELSE S!InProgress(r)
        /\ S!InProgress(p) = 0
        /\ S!InProgress(r) \in {0, 1} /\ S!Owed(r) \in {0, 1}
  BY <1>2, <1>8, Zenon DEF S!InProgress, S!Owed
<1>10. Counted'
  BY <1>2, <1>8, <1>9 DEF Counts, Counted
<1> QED BY <1>7, <1>10 DEF Counts

(* A cycle of an engine: a callback that is owed is made, and one is owed  *)
(* if the command at work has been finished.                               *)
LEMMA CountsCycle ==
  ASSUME Counts, NEW p \in S!Pipe, NEW finished \in BOOLEAN,
         S!Callback(p),
         finished_callback_valid' =
           [finished_callback_valid EXCEPT ![p] = finished],
         finished => S!Working(p) /\ ~S!Working(p)',
         S!Working(p)' => S!Working(p),
         \A r \in S!Pipe \ {p} : S!Working(r)' <=> S!Working(r),
         UNCHANGED <<cycle, phase, queue>>,
         dma_state' \in {"IDLE", "WORKING", "FINISHED", "CRASHED"},
         blitter_state' \in {"IDLE", "WORKING", "FINISHED", "CRASHED"}
  PROVE  Counts'
<1>1. \A r \in S!Pipe :
        /\ Len(queue[r]) \in Nat /\ outstanding[r] \in Nat
        /\ S!InProgress(r) \in {0, 1} /\ S!Owed(r) \in {0, 1}
  BY QueuedLength DEF Counts, Shapes, S!InProgress, S!Owed
<1>2. \A r \in S!Pipe :
        outstanding'[r] = IF r = p THEN outstanding[p] - S!Owed(p)
                          ELSE outstanding[r]
  BY <1>1 DEF S!Callback, S!Owed, Counts, Shapes
<1>3. outstanding[p] >= S!Owed(p)
  BY <1>1 DEF Counts, Counted
<1>4. outstanding' \in [S!Pipe -> Nat]
  BY <1>1, <1>2, <1>3 DEF S!Callback, Counts, Shapes
<1>5. Shapes'
  BY <1>4 DEF Counts, Shapes
<1>6. \A r \in S!Pipe \ {p} : /\ S!InProgress(r)' = S!InProgress(r)
                              /\ S!Owed(r)' = S!Owed(r)
  BY DEF S!InProgress, S!Owed, Counts, Shapes
<1>7. /\ S!Owed(p)' \in {0, 1} /\ S!InProgress(p)' \in {0, 1}
      /\ S!Owed(p)' + S!InProgress(p)' <= S!InProgress(p)
  <2>1. finished_callback_valid'[p] = finished
    BY DEF Counts, Shapes
  <2>2. CASE finished
    BY <2>1, <2>2 DEF S!InProgress, S!Owed
  <2>3. CASE ~finished
    BY <2>1, <2>3 DEF S!InProgress, S!Owed
  <2> QED BY <2>2, <2>3
<1>8. Counted'
  BY <1>1, <1>2, <1>6, <1>7 DEF Counts, Counted
<1> QED BY <1>5, <1>8 DEF Counts

LEMMA CountsRun ==
  ASSUME Counts, RunDma \/ RunBlitter
  PROVE  Counts'
<1>1. CASE RunDma
  <2>1. /\ D!RunCycle(cycle < work_cycle["DMA"])
        /\ UNCHANGED <<cycle, phase, queue, blitter_state>>
        /\ S!Callback("DMA")
        /\ finished_callback_valid' =
             [finished_callback_valid EXCEPT
                !["DMA"] = dma_state = "WORKING" /\ dma_state' = "FINISHED"]
    BY <1>1 DEF RunDma, Turns, Report, vars, cycleVars, blitterVars
  <2>2. /\ dma_state' \in {"IDLE", "WORKING", "FINISHED", "CRASHED"}
        /\ dma_state' = "WORKING" => dma_state = "WORKING"
    BY <2>1
       DEF Counts, Shapes, D!RunCycle, D!Rest, D!Crash, D!Copy, D!CopyRead,
           D!CopyFetch, D!CopyWrite, D!Set, D!SetWhole, D!SetFetch,
           D!SetPart, D!SetCrash, D!Advance, D!Works
  <2>3. /\ S!Working("DMA") <=> dma_state = "WORKING"
        /\ S!Working("DMA")' <=> dma_state' = "WORKING"
        /\ S!Working("BLITTER")' <=> S!Working("BLITTER")
    BY <2>1 DEF S!Working, EngineState
  <2>4. \A r \in S!Pipe \ {"DMA"} : S!Working(r)' <=> S!Working(r)
    BY <2>3, Pipes
  <2> DEFINE f == dma_state = "WORKING" /\ dma_state' = "FINISHED"
  <2>5. f \in BOOLEAN /\ (f => S!Working("DMA") /\ ~S!Working("DMA")')
    BY <2>3
  <2>6. \A g \in BOOLEAN : g = f => Counts'
    BY <2>1, <2>2, <2>3, <2>4, <2>5, CountsCycle, Pipes DEF Counts, Shapes
  <2> QED BY <2>5, <2>6
<1>2. CASE RunBlitter
  <2>1. /\ B!RunCycle(cycle < work_cycle["BLITTER"])
        /\ UNCHANGED <<cycle, phase, queue, dma_state>>
        /\ S!Callback("BLITTER")
        /\ finished_callback_valid' =
             [finished_callback_valid EXCEPT
                !["BLITTER"] =
                   blitter_state = "WORKING" /\ blitter_state' = "FINISHED"]
    BY <1>2 DEF RunBlitter, Turns, Report, vars, cycleVars, dmaVars
  <2>2. /\ blitter_state' \in {"IDLE", "WORKING", "FINISHED", "CRASHED"}
        /\ blitter_state' = "WORKING" => blitter_state = "WORKING"
    BY <2>1
       DEF Counts, Shapes, B!RunCycle, B!Rest, B!Crash, B!Pixel,
           B!ClearEnds, B!ClearLine, B!Works
  <2>3. /\ S!Working("BLITTER") <=> blitter_state = "WORKING"
        /\ S!Working("BLITTER")' <=> blitter_state' = "WORKING"
        /\ S!Working("DMA")' <=> S!Working("DMA")
    BY <2>1 DEF S!Working, EngineState
  <2>4. \A r \in S!Pipe \ {"BLITTER"} : S!Working(r)' <=> S!Working(r)
    BY <2>3, Pipes
  <2> DEFINE f == blitter_state = "WORKING" /\ blitter_state' = "FINISHED"
  <2>5. f \in BOOLEAN /\ (f => S!Working("BLITTER") /\ ~S!Working("BLITTER")')
    BY <2>3
  <2>6. \A g \in BOOLEAN : g = f => Counts'
    BY <2>1, <2>2, <2>3, <2>4, <2>5, CountsCycle, Pipes DEF Counts, Shapes
  <2> QED BY <2>5, <2>6
<1> QED BY <1>1, <1>2

LEMMA CountsNext ==
  ASSUME Counts, [SystemNext]_systemVars
  PROVE  Counts'
<1>1. CASE CoreStep \/ SubmissionRefused
  <2>1. UNCHANGED <<queue, outstanding, shellVars, dmaVars, blitterVars>>
    BY <1>1 DEF CoreStep, SubmissionRefused, schedulerVars, S!RefuseLaunch, S!Fence
  <2>2. cycle' = cycle /\ phase' \in Phases
    BY <1>1
       DEF CoreStep, SubmissionRefused, ExecuteRefused, TakeFlush, NoFlush,
           StageFetch, FetchWaits, FetchStalls, Fetch, StageDecode,
           DecodeIdle, DecodeSegmentEnd, Decode, Decodes, ExecuteAlone,
           ExecuteIdle, ExecuteNothing, ExecuteWrite, ExecuteCompare,
           ExecuteBranch, Executes, StageMemory, MemoryIdle, Memory,
           StageWriteback, WritebackIdle, Writeback, EndCycle, Turn,
           cycleVars, Phases
  <2> QED BY <2>1, <2>2, CountsKept DEF Counts, Shapes, shellVars, dmaVars,
                                        blitterVars
<1>2. CASE EndOfCycle
  <2>1. /\ UNCHANGED <<queue, outstanding, shellVars, dmaVars, blitterVars>>
        /\ cycle' = NextCycle(cycle) /\ phase' \in Phases
    BY <1>2 DEF EndOfCycle, OthersRun, schedulerVars, Phases
  <2> QED BY <2>1, CountsKept, NextCycleType DEF Counts, Shapes, shellVars,
                                                 dmaVars, blitterVars
<1>3. CASE UNCHANGED systemVars
  BY <1>3, CountsKept
     DEF systemVars, vars, cycleVars, schedulerVars, shellVars, dmaVars,
         blitterVars, Counts, Shapes
<1> QED
  BY <1>1, <1>2, <1>3, CountsAccepted, CountsPutOff, CountsSubmit, CountsRun
     DEF SystemNext
-----------------------------------------------------------------------------
(* A fence that has left execute found every count at zero, before the     *)
(* scheduler and the engines have their turn; until execute has its turn   *)
(* nothing has left it in this cycle.                                      *)
FenceInv ==
  /\ phase \in {"flush", "fetch", "decode", "execute"} =>
       submitted = NoCommand
  /\ phase # "others" => turn = "check DMA"
  /\ S!FenceDrained

(* Between the core and the scheduler.                                     *)
Checking ==
  \/ phase \in {"memory", "writeback", "end"}
  \/ phase = "others" /\ turn = "check DMA"

LEMMA CheckingPhase ==
  /\ phase \in Phases => (SchedulerPhase = "check DMA" <=> Checking)
  /\ phase' \in Phases => (SchedulerPhase' = "check DMA" <=> Checking')
  BY DEF SchedulerPhase, Checking, Phases

LEMMA ZeroIsDrained ==
  ASSUME Counts, NEW p \in S!Pipe, outstanding[p] = 0
  PROVE  queue[p] = << >> /\ ~S!Working(p) /\ ~finished_callback_valid[p]
<1>1. Queued(queue[p]) /\ Len(queue[p]) \in Nat
  BY QueuedLength DEF Counts, Shapes
<1>2. S!InProgress(p) \in {0, 1} /\ S!Owed(p) \in {0, 1}
  BY InProgressValues
<1>3. Len(queue[p]) = 0 /\ S!InProgress(p) = 0 /\ S!Owed(p) = 0
  BY <1>1, <1>2 DEF Counts, Counted
<1>4. 0 # 1
  OBVIOUS
<1> QED BY <1>1, <1>3, <1>4, QueuedLength, InProgressValues, Zenon

(* What a fence has drained stays so until the scheduler has its turn.     *)
LEMMA DrainedKept ==
  ASSUME Counts, Counts', S!FenceDrained, Checking' => Checking,
         UNCHANGED <<submitted, queue, finished_callback_valid, dma_state,
                     blitter_state>>
  PROVE  S!FenceDrained'
<1>1. \A p \in S!Pipe : S!Working(p)' <=> S!Working(p)
  BY DEF S!Working, EngineState
<1>2. phase \in Phases /\ phase' \in Phases
  BY DEF Counts, Shapes
<1>3. SchedulerPhase' = "check DMA" => SchedulerPhase = "check DMA"
  BY <1>2, CheckingPhase
<1> QED BY <1>1, <1>3 DEF S!FenceDrained

LEMMA FenceInvNext ==
  ASSUME Counts, FenceInv, [SystemNext]_systemVars, Counts'
  PROVE  FenceInv'
<1>1. CASE CoreStep
  <2>1. UNCHANGED <<turn, queue, finished_callback_valid, dma_state,
                    blitter_state>>
    BY <1>1 DEF CoreStep, schedulerVars, shellVars, dmaVars, blitterVars
  <2>2. /\ submitted' = submitted /\ phase \notin {"others", "halted"}
        /\ phase = "flush" => phase' = "fetch"
        /\ phase = "fetch" => phase' = "decode"
        /\ phase = "decode" => phase' = "execute"
        /\ phase' \in {"fetch", "decode", "execute"} =>
             phase \in {"flush", "fetch", "decode"}
        /\ phase' # "flush"
    BY <1>1
       DEF CoreStep, TakeFlush, NoFlush, StageFetch, FetchWaits,
           FetchStalls, Fetch, StageDecode, DecodeIdle, DecodeSegmentEnd,
           Decode, Decodes, ExecuteAlone, ExecuteIdle, ExecuteNothing,
           ExecuteWrite, ExecuteCompare, ExecuteBranch, Executes,
           StageMemory, MemoryIdle, Memory, StageWriteback, WritebackIdle,
           Writeback, EndCycle, Turn, executeVars
  <2>3. CASE Checking
    BY <2>1, <2>2, <2>3, DrainedKept DEF FenceInv
  <2>4. CASE ~Checking
    <3>1. submitted' = NoCommand
      BY <2>2, <2>4 DEF FenceInv, Checking, Counts, Shapes, Phases
    <3>2. submitted'.op # S!FenceOp
      BY <3>1 DEF NoCommand, S!FenceOp
    <3>3. S!FenceDrained'
      BY <3>2 DEF S!FenceDrained
    <3> QED BY <2>1, <2>2, <3>1, <3>3 DEF FenceInv
  <2> QED BY <2>3, <2>4
<1>2. CASE SubmissionAccepted
  <2>1. /\ phase = "execute" /\ phase' = "memory" /\ turn' = turn
        /\ submitted' = Command
        /\ UNCHANGED <<finished_callback_valid, dma_state, blitter_state>>
    BY <1>2 DEF SubmissionAccepted, ExecuteAccepted, Executes, Turn,
                shellVars, dmaVars, blitterVars
  <2>2. CASE Command.op # S!FenceOp
    BY <2>1, <2>2 DEF FenceInv, S!FenceDrained
  <2>3. CASE Command.op = S!FenceOp
    <3>1. S!Fence(Command) /\ UNCHANGED queue
      BY <1>2, <2>3
         DEF SubmissionAccepted, S!Fence, S!Configure, S!Launch, S!FenceOp,
             S!Setters, S!Launchers
    <3>2. S!FencePasses
      BY <1>2, <3>1 DEF SubmissionAccepted, S!Fence, S!Refused, S!Accepted,
                ExecuteAccepted, ToMemory, NoCommand, Command, S!FenceOp
    <3>3. \A p \in S!Pipe : outstanding[p] = 0
      BY <3>2, Pipes DEF S!FencePasses
    <3>4. \A p \in S!Pipe :
            queue[p] = << >> /\ ~S!Working(p) /\ ~finished_callback_valid[p]
      BY <3>3, ZeroIsDrained
    <3>5. \A p \in S!Pipe : S!Working(p)' <=> S!Working(p)
      BY <2>1 DEF S!Working, EngineState
    <3> QED BY <2>1, <3>1, <3>4, <3>5 DEF FenceInv, S!FenceDrained
  <2> QED BY <2>2, <2>3
<1>3. CASE SubmissionRefused
  <2>1. /\ phase = "execute" /\ phase' = "memory"
        /\ UNCHANGED <<turn, submitted>>
    BY <1>3 DEF SubmissionRefused, ExecuteRefused, Executes, Turn
  <2>2. submitted = NoCommand /\ submitted' = NoCommand
    BY <2>1 DEF FenceInv
  <2>3. NoCommand.op # S!FenceOp
    BY DEF NoCommand, S!FenceOp
  <2>4. S!FenceDrained'
    BY <2>2, <2>3 DEF S!FenceDrained
  <2> QED BY <2>1, <2>4 DEF FenceInv
<1>4. CASE \/ \E p \in S!Pipe : CheckPipe(p)
           \/ SubmitDma \/ SubmitBlitter \/ RunDma \/ RunBlitter
  <2>1. /\ phase = "others" /\ phase' = "others" /\ turn' # "check DMA"
    BY <1>4
       DEF CheckPipe, SubmitDma, SubmitBlitter, RunDma, RunBlitter, Turns,
           vars, S!AfterCheck
  <2>2. SchedulerPhase' # "check DMA"
    BY <2>1, CheckingPhase DEF Checking, SchedulerPhase
  <2> QED BY <2>1, <2>2 DEF FenceInv, S!FenceDrained
<1>5. CASE EndOfCycle
  BY <1>5
     DEF EndOfCycle, OthersRun, FenceInv, S!FenceDrained, NoCommand,
         S!FenceOp
<1>6. CASE UNCHANGED systemVars
  <2>1. UNCHANGED <<phase, turn, submitted, queue, finished_callback_valid,
                    dma_state, blitter_state>>
    BY <1>6 DEF systemVars, vars, executeVars, schedulerVars, shellVars,
                dmaVars, blitterVars
  <2>2. Checking' <=> Checking
    BY <2>1 DEF Checking
  <2> QED BY <2>1, <2>2, DrainedKept DEF FenceInv
<1> QED BY <1>1, <1>2, <1>3, <1>4, <1>5, <1>6 DEF SystemNext

(* In the whole simulator a fence waits for both pipelines: when it has    *)
(* left execute no command is queued, worked on or unreported, however     *)
(* long the engines take and whatever memory holds.                        *)
THEOREM SystemFenceWaits == SystemSpec => []S!FenceDrained
<1>1. SystemInit => Counts /\ FenceInv
  <2> SUFFICES ASSUME SystemInit PROVE FenceInv
    BY CountsInit
  <2> QED BY DEF SystemInit, Init, FenceInv, S!FenceDrained, NoCommand,
                 S!FenceOp
<1>2. Counts /\ FenceInv /\ [SystemNext]_systemVars => (Counts /\ FenceInv)'
  BY CountsNext, FenceInvNext
<1>3. FenceInv => S!FenceDrained
  BY DEF FenceInv
<1> QED BY <1>1, <1>2, <1>3, PTL DEF SystemSpec
-----------------------------------------------------------------------------
(***************************************************************************)
(* The engines.  What is proved of each of them alone, for any contents of *)
(* memory, holds though both write to one memory.                          *)
(***************************************************************************)

(* DMA commands that submit accepts and that do not crash: within memory,  *)
(* and a set at the beginning of a line.  A copy leaves the value unused,  *)
(* and a set the source, which need not have been configured.              *)
Transfers ==
  {x \in [operation : {"COPY", "SET"}, dest : Nat,
          source : Nat \cup {Garbage}, length : Nat,
          value : Nat \cup {Garbage}] :
     /\ x.length # 0 /\ x.dest + x.length < MemSize
     /\ x.operation = "COPY" =>
          x.source \in Nat /\ x.source + x.length <= MemSize
     /\ x.operation = "SET" => x.dest % Width = 0}

DP == INSTANCE DmaProofs
        WITH state <- dma_state, working_command <- dma_command,
             Commands <- Transfers, MaxCommands <- 0, commands <- 0,
             before <- memory, fresh <- FALSE

BP == INSTANCE BlitterProofs
        WITH state <- blitter_state, working_command <- blitter_command,
             Commands <- {}, MaxCommands <- 0, commands <- 0,
             before <- memory, fresh <- FALSE

(* Blitter commands that do not crash: pixels in the frame, and clears.    *)
InFrame(x) ==
  x.operation = "PIXEL" => x.xpos < FrameWidth /\ x.ypos < FrameHeight
Drawings == {x \in BP!Command : InFrame(x)}

(* The commands of the program, as the frontends put them together, are    *)
(* such commands.                                                          *)
CommandsFit ==
  /\ \A k \in DOMAIN queue["DMA"] : queue["DMA"][k].data \in Transfers
  /\ \A k \in DOMAIN queue["BLITTER"] :
       B!Taken(queue["BLITTER"][k].data) \in Drawings

EnginesInv ==
  /\ DP!Control
  /\ BP!Control
  /\ blitter_state # "IDLE" => blitter_command \in Drawings
-----------------------------------------------------------------------------
(* What the engines assume of the sizes.                                   *)
LEMMA EngineAssumptions ==
  DP!MemoryAssumption /\ BP!MemoryAssumption /\ BP!BlitterAssumption
BY SystemAssumption
   DEF DP!MemoryAssumption, BP!MemoryAssumption, BP!BlitterAssumption,
       BP!FrameBytes, BP!PixelBytes

LEMMA TransfersProper == DP!Proper
  BY SystemAssumption, QueuesAssumption
     DEF DP!Proper, DP!WithinMemory, DP!Words, Transfers

LEMMA FrameWhole == BP!WholeLines
  BY SystemAssumption DEF BP!WholeLines, BP!FrameBytes, BP!PixelBytes

LEMMA EnginesStart == SystemInit => EnginesInv
<1> SUFFICES ASSUME SystemInit PROVE EnginesInv
  OBVIOUS
<1>1. BP!Control
  <2>1. BP!Init
    BY DEF SystemInit, B!Init, BP!Init
  <2> QED BY <2>1, EngineAssumptions, BP!ControlInit
<1>2. DP!Control
  BY DEF SystemInit, D!Init, DP!Control, DP!Types, DP!Emptied
<1> QED BY <1>1, <1>2 DEF EnginesInv, SystemInit, B!Init

(* A cycle of an engine in the system is one of the engine alone.          *)
LEMMA DmaAlone ==
  ASSUME NEW first, D!RunCycle(first)
  PROVE  DP!RunCycle(first) /\ (~first => DP!RunCycle(FALSE))
BY DEF D!RunCycle, D!Rest, D!Crash, D!Copy, D!CopyRead, D!CopyFetch,
       D!CopyWrite, D!Set, D!SetWhole, D!SetFetch, D!SetPart, D!SetCrash,
       D!Works, D!Fails, D!AddToBuffer, D!NeedsFetch, D!WriteStart,
       D!WriteEnd, D!Start, D!End, D!Advance, D!ValueLine, D!WholeLine,
       D!Remaining, D!DestEnd, D!SourceEnd, D!After, D!c, D!buffer,
       D!fetched, D!ReadLine, D!WriteLine, D!LineAccess, D!LineOf,
       DP!RunCycle, DP!Rest, DP!Crash, DP!Copy, DP!CopyRead, DP!CopyFetch,
       DP!CopyWrite, DP!Set, DP!SetWhole, DP!SetFetch, DP!SetPart, DP!SetCrash,
       DP!Works, DP!Fails, DP!AddToBuffer, DP!NeedsFetch, DP!WriteStart,
       DP!WriteEnd, DP!Start, DP!End, DP!Advance, DP!ValueLine, DP!WholeLine,
       DP!Remaining, DP!DestEnd, DP!SourceEnd, DP!After, DP!c, DP!buffer,
       DP!fetched, DP!ReadLine, DP!WriteLine, DP!LineAccess, DP!LineOf

LEMMA BlitterAlone ==
  ASSUME NEW first, B!RunCycle(first)
  PROVE  BP!RunCycle(first) /\ (~first => BP!RunCycle(FALSE))
BY DEF B!RunCycle, B!Rest, B!Crash, B!Pixel, B!ClearEnds, B!ClearLine,
       B!Works, B!Fails, B!NextAddress, B!PixelAddress, B!FrameBytes,
       B!PixelBytes, B!MaxPixels, B!ColourLine, B!Moved, B!c,
       B!WriteWord, B!WriteLine, B!ByteOf, B!ByteWeight, B!LineAccess,
       BP!RunCycle, BP!Rest, BP!Crash, BP!Pixel, BP!ClearEnds, BP!ClearLine,
       BP!Works, BP!Fails, BP!NextAddress, BP!PixelAddress, BP!FrameBytes,
       BP!PixelBytes, BP!MaxPixels, BP!ColourLine, BP!Moved, BP!c,
       BP!WriteWord, BP!WriteLine, BP!ByteOf, BP!ByteWeight,
       BP!LineAccess

LEMMA DmaRuns ==
  ASSUME DP!Control, dma_state # "CRASHED", NEW first, D!RunCycle(first)
  PROVE  DP!Control'
BY DmaAlone, EngineAssumptions, TransfersProper, DP!ControlRun

LEMMA BlitterRuns ==
  ASSUME BP!Control, NEW first, B!RunCycle(first)
  PROVE  BP!Control'
BY BlitterAlone, EngineAssumptions, FrameWhole, BP!ControlRun

(* A command is taken from the front of its queue.                         *)
LEMMA EnginesSubmit ==
  ASSUME Counts, EnginesInv, CommandsFit, SubmitDma \/ SubmitBlitter,
         dma_state # "CRASHED"
  PROVE  EnginesInv'
<1>1. CASE SubmitDma
  <2> DEFINE x == Head(queue["DMA"]).data
  <2>1. /\ D!Submit(x) /\ UNCHANGED blitterVars
        /\ FrontCanRun(queue["DMA"], cycle)
    BY <1>1 DEF SubmitDma
  <2>2. x \in Transfers
    BY <2>1, QueuedTail, Pipes
       DEF FrontCanRun, CommandsFit, Counts, Shapes
  <2> HIDE DEF x
  <2>3. DP!Submit(x)
    BY <2>1 DEF D!Submit, D!Accepts, D!After, D!SourceLine, D!LineOf,
                D!buffer, D!fetched, DP!Submit, DP!Accepts, DP!After,
                DP!SourceLine, DP!LineOf, DP!buffer, DP!fetched
  <2>4. DP!Control'
    BY <2>2, <2>3, EngineAssumptions, TransfersProper, DP!ControlSubmit
       DEF EnginesInv
  <2>5. UNCHANGED <<blitter_command, blitter_state>>
    BY <2>1 DEF blitterVars
  <2>6. BP!Control'
    BY <2>5, EngineAssumptions, BP!ControlKept DEF EnginesInv
  <2> QED BY <2>4, <2>5, <2>6 DEF EnginesInv
<1>2. CASE SubmitBlitter
  <2> DEFINE x == Head(queue["BLITTER"]).data
  <2>1. /\ B!Submit(x) /\ UNCHANGED dmaVars
        /\ FrontCanRun(queue["BLITTER"], cycle)
    BY <1>2 DEF SubmitBlitter
  <2>2. B!Taken(x) \in Drawings
    BY <2>1, QueuedTail, Pipes
       DEF FrontCanRun, CommandsFit, Counts, Shapes
  <2> HIDE DEF x
  <2>3. BP!Submit(x) /\ BP!Taken(x) = B!Taken(x)
    BY <2>1 DEF B!Submit, B!Taken, BP!Submit, BP!Taken
  <2>4. BP!Control'
    BY <2>2, <2>3, EngineAssumptions, BP!ControlSubmit
       DEF EnginesInv, Drawings
  <2>5. blitter_command' \in Drawings
    BY <2>1, <2>2 DEF B!Submit
  <2>6. DP!Control'
    BY <2>1, EngineAssumptions, DP!ControlKept DEF EnginesInv, dmaVars
  <2> QED BY <2>4, <2>5, <2>6 DEF EnginesInv
<1> QED BY <1>1, <1>2

(* A command within memory, or within the frame, never crashes.            *)
LEMMA NoCrash ==
  ASSUME EnginesInv
  PROVE  dma_state # "CRASHED" /\ blitter_state # "CRASHED"
<1>1. dma_state # "CRASHED"
  BY DEF EnginesInv, DP!Control, DP!c, Transfers
<1>2. blitter_state # "CRASHED"
  BY SystemAssumption
     DEF EnginesInv, BP!Control, BP!AssertionsHold, BP!c, BP!Command,
         Drawings, InFrame
<1> QED BY <1>1, <1>2

LEMMA EnginesRun ==
  ASSUME EnginesInv, RunDma \/ RunBlitter
  PROVE  EnginesInv'
<1>1. CASE RunDma
  <2>1. D!RunCycle(cycle < work_cycle["DMA"]) /\ UNCHANGED blitterVars
    BY <1>1 DEF RunDma
  <2>2. DP!Control'
    BY <2>1, NoCrash, DmaRuns DEF EnginesInv
  <2>3. UNCHANGED <<blitter_command, blitter_state>>
    BY <2>1 DEF blitterVars
  <2>4. BP!Control'
    BY <2>3, EngineAssumptions, BP!ControlKept DEF EnginesInv
  <2> QED BY <2>2, <2>3, <2>4 DEF EnginesInv
<1>2. CASE RunBlitter
  <2>1. B!RunCycle(cycle < work_cycle["BLITTER"]) /\ UNCHANGED dmaVars
    BY <1>2 DEF RunBlitter
  <2>2. BP!Control'
    BY <2>1, BlitterRuns DEF EnginesInv
  <2>3. DP!Control'
    BY <2>1, EngineAssumptions, DP!ControlKept DEF EnginesInv, dmaVars
  <2>4. blitter_state' # "IDLE" => blitter_command' \in Drawings
    <3>1. CASE ~B!ClearLine
      BY <2>1, <3>1
         DEF B!RunCycle, B!Rest, B!Crash, B!Pixel, B!ClearEnds, B!Works,
             EnginesInv
    <3>2. CASE B!ClearLine
      <4>1. /\ blitter_state = "WORKING"
            /\ blitter_command.operation = "CLEAR"
            /\ \E u, v : blitter_command' =
                 [blitter_command EXCEPT !.xpos = u, !.ypos = v]
        BY <3>2 DEF B!ClearLine, B!Works, B!c
      <4>2. blitter_command'.operation = "CLEAR"
        BY <4>1 DEF EnginesInv, Drawings, BP!Command
      <4>3. blitter_command' \in BP!Command
        BY <2>2, <4>2 DEF BP!Control, BP!c
      <4> QED BY <4>2, <4>3 DEF Drawings, InFrame
    <3> QED BY <3>1, <3>2
  <2> QED BY <2>2, <2>3, <2>4 DEF EnginesInv
<1> QED BY <1>1, <1>2

LEMMA EnginesNext ==
  ASSUME Counts, EnginesInv, CommandsFit, [SystemNext]_systemVars
  PROVE  EnginesInv'
<1>1. ASSUME UNCHANGED <<dmaVars, blitterVars>> PROVE EnginesInv'
  <2>1. UNCHANGED <<blitter_command, blitter_state>>
    BY <1>1 DEF blitterVars
  <2>2. BP!Control'
    BY <2>1, EngineAssumptions, BP!ControlKept DEF EnginesInv
  <2>3. DP!Control'
    BY <1>1, EngineAssumptions, DP!ControlKept DEF EnginesInv, dmaVars
  <2> QED BY <2>1, <2>2, <2>3 DEF EnginesInv
<1>2. CASE CoreStep \/ SubmissionAccepted \/ SubmissionRefused \/ EndOfCycle
  BY <1>1, <1>2 DEF CoreStep, SubmissionAccepted, SubmissionRefused, EndOfCycle
<1>3. CASE \E p \in S!Pipe : CheckPipe(p)
  BY <1>1, <1>3 DEF CheckPipe
<1>4. CASE UNCHANGED systemVars
  BY <1>1, <1>4 DEF systemVars
<1> QED
  BY <1>2, <1>3, <1>4, EnginesSubmit, EnginesRun, NoCrash DEF SystemNext

LEMMA EnginesAssert == EnginesInv => EnginesSound
<1> SUFFICES ASSUME EnginesInv PROVE EnginesSound
  OBVIOUS
<1>1. DP!AssertionsHold
  BY EngineAssumptions, TransfersProper, DP!ControlAsserts DEF EnginesInv
<1>2. D!AssertionsHold
  BY <1>1 DEF D!AssertionsHold, D!InMemory, D!SourceEnd, D!After, D!c,
              DP!AssertionsHold, DP!InMemory, DP!SourceEnd, DP!After, DP!c
<1>3. B!AssertionsHold
  BY NoCrash DEF B!AssertionsHold
<1> QED BY <1>2, <1>3, NoCrash DEF EnginesSound

(* While the commands that a program launches lie within memory and within *)
(* the frame no assertion of an engine fails, and the buffer of the DMA    *)
(* engine is never overrun: however long a command waited, whichever field *)
(* was left set by one before it, and though the other engine writes the   *)
(* same memory at the same time.                                           *)
THEOREM SystemEnginesSound ==
  SystemSpec /\ []CommandsFit => []EnginesSound
<1>1. SystemInit => Counts /\ EnginesInv
  BY CountsInit, EnginesStart
<1>2. /\ Counts /\ EnginesInv /\ CommandsFit /\ [SystemNext]_systemVars
      => (Counts /\ EnginesInv)'
  BY CountsNext, EnginesNext
<1> QED BY <1>1, <1>2, EnginesAssert, PTL DEF SystemSpec
-----------------------------------------------------------------------------
(***************************************************************************)
(* The cycles of work left to the engines.                                 *)
(***************************************************************************)
DestinationEnd(x) == x.dest + x.length
SourceLines(x, p) ==
  IF x.operation = "COPY" THEN Lines(p, x.source + x.length) ELSE {}
CutLines(x, p) == {a \in Lines(p, DestinationEnd(x)) : Partial(a, x)}

(* The work left of x when the engine's pointers are at w and r and no     *)
(* line is fetched; a line that is fetched is a cycle less.                *)
DmaWork(x, w, r) ==
  Cardinality(SourceLines(x, r)) + Cardinality(Lines(w, DestinationEnd(x)))
  + Cardinality(CutLines(x, w))
Bit(f) == IF f THEN 1 ELSE 0

LEMMA DmaWorkLeftIs ==
  /\ dma_command \in Transfers =>
       DmaWorkLeft = DmaWork(dma_command, write_pointer, read_pointer)
                     - Bit(fetched_writeback_data_valid)
  /\ dma_command' \in Transfers =>
       DmaWorkLeft' = DmaWork(dma_command', write_pointer', read_pointer')
                      - Bit(fetched_writeback_data_valid)'
<1> DEFINE m == Base * Base * Base * Base
<1>1. ASSUME NEW x \in Transfers
      PROVE  /\ (x.dest + x.length) % m = x.dest + x.length
             /\ x.operation = "COPY" =>
                  (x.source + x.length) % m = x.source + x.length
  <2>1. m \in Nat \ {0} /\ MemSize \in Nat /\ MemSize < m
    BY SystemAssumption
  <2> HIDE DEF m
  <2>2. \A a \in Nat : a < m => (a % m) = a
    BY <2>1
  <2>3. /\ x.dest + x.length \in Nat /\ x.dest + x.length < m
        /\ x.operation = "COPY" =>
             x.source + x.length \in Nat /\ x.source + x.length < m
    BY <2>1 DEF Transfers
  <2> QED BY <2>2, <2>3
<1>2. ASSUME dma_command \in Transfers
      PROVE  DmaWorkLeft = DmaWork(dma_command, write_pointer, read_pointer)
                           - Bit(fetched_writeback_data_valid)
  <2>1. /\ D!DestEnd = DestinationEnd(dma_command)
        /\ dma_command.operation = "COPY" =>
             D!SourceEnd = dma_command.source + dma_command.length
    BY <1>1, <1>2 DEF D!DestEnd, D!SourceEnd, D!After, D!c, DestinationEnd
  <2> QED BY <2>1 DEF DmaWorkLeft, DmaWork, SourceLines, CutLines, Bit
<1>3. ASSUME dma_command' \in Transfers
      PROVE  DmaWorkLeft' =
               DmaWork(dma_command', write_pointer', read_pointer')
               - Bit(fetched_writeback_data_valid)'
  <2>1. /\ D!DestEnd' = DestinationEnd(dma_command')
        /\ dma_command'.operation = "COPY" =>
             D!SourceEnd' = dma_command'.source + dma_command'.length
    BY <1>1, <1>3 DEF D!DestEnd, D!SourceEnd, D!After, D!c, DestinationEnd
  <2> QED BY <2>1 DEF DmaWorkLeft, DmaWork, SourceLines, CutLines, Bit
<1> QED BY <1>2, <1>3

(* Lines are at multiples of their width, and a pointer that moves on      *)
(* leaves one of them behind.                                              *)
LEMMA LinesOn ==
  ASSUME NEW p \in Nat, NEW end \in Nat, end <= MemSize
  PROVE  /\ IsFiniteSet(Lines(p, end)) /\ Cardinality(Lines(p, end)) \in Nat
         /\ (p % Width = 0) /\ p < end =>
              /\ p \in Lines(p, end)
              /\ Lines(p + Width, end) = Lines(p, end) \ {p}
         /\ p >= end => Lines(p, end) = {}
<1> DEFINE All == {k * Width : k \in 0 .. MemSize \div Width}
<1>1. /\ Width \in Nat \ {0} /\ MemSize \in Nat
      /\ MemSize \div Width \in Nat
  BY SystemAssumption
<1>2. \A a \in All : a \in Nat /\ (a % Width) = 0
  BY <1>1, EngineAssumptions, DP!Multiple
<1>3. ASSUME (p % Width) = 0, p < end PROVE p \in All
  <2>1. PICK k \in Nat : p = k * Width + (p % Width)
    BY <1>1, EngineAssumptions, DP!Division
  <2>2. p = k * Width /\ k * Width < MemSize
    BY <1>1, <1>3, <2>1
  <2>3. k <= MemSize \div Width
    <3>1. \A d \in Nat, w \in Nat \ {0}, n \in Nat :
            (d * w) <= n => d <= (n \div w)
      OBVIOUS
    <3> QED BY <1>1, <2>2, <3>1
  <2> QED BY <1>1, <2>2, <2>3
<1> HIDE DEF All
<1>4. \A q, e : Lines(q, e) = {a \in All : q <= a /\ a < e}
  BY DEF Lines, All
<1>5. IsFiniteSet(Lines(p, end)) /\ Cardinality(Lines(p, end)) \in Nat
  <2>1. Lines(p, end) \subseteq 0 .. end
    BY <1>2, <1>4
  <2>2. IsFiniteSet(0 .. end)
    BY FS_Interval
  <2> QED BY <2>1, <2>2, FS_Subset, FS_CardinalityType
<1>6. ASSUME (p % Width) = 0, p < end
      PROVE  /\ p \in Lines(p, end)
             /\ Lines(p + Width, end) = Lines(p, end) \ {p}
  <2>1. p \in Lines(p, end)
    BY <1>3, <1>4, <1>6
  <2>2. ASSUME NEW a \in All
        PROVE  p + Width <= a <=> p <= a /\ a # p
    <3>1. a \in Nat /\ (a % Width) = 0
      BY <1>2
    <3>2. p < a => p + Width <= a
      BY <1>6, <3>1, EngineAssumptions, DP!LineGap
    <3> QED BY <1>1, <3>1, <3>2
  <2> QED BY <1>4, <2>1, <2>2
<1>7. p >= end => Lines(p, end) = {}
  BY <1>2, <1>4
<1> QED BY <1>5, <1>6, <1>7

(* What a pointer to a line of the destination of x is.                    *)
LEMMA CutsOn ==
  ASSUME NEW x \in Transfers, NEW w \in Nat, w % Width = 0,
         w < DestinationEnd(x)
  PROVE  LET whole == Lines(w, DestinationEnd(x))
             on    == Lines(w + Width, DestinationEnd(x))
         IN  /\ IsFiniteSet(whole) /\ IsFiniteSet(CutLines(x, w))
             /\ Cardinality(whole) \in Nat \ {0}
             /\ Cardinality(on) = Cardinality(whole) - 1
             /\ w + Width < DestinationEnd(x) => Cardinality(on) # 0
             /\ w + Width >= DestinationEnd(x) => Cardinality(on) = 0
             /\ Cardinality(CutLines(x, w)) \in Nat
             /\ Partial(w, x) => Cardinality(CutLines(x, w)) # 0
             /\ Cardinality(CutLines(x, w + Width)) =
                  Cardinality(CutLines(x, w)) - (IF Partial(w, x) THEN 1 ELSE 0)
             /\ Cardinality(on) = 0 => Cardinality(CutLines(x, w + Width)) = 0
<1> DEFINE end == DestinationEnd(x)
<1>1. /\ end \in Nat /\ end <= MemSize
      /\ Width \in Nat \ {0} /\ MemSize \in Nat
  BY SystemAssumption DEF Transfers, DestinationEnd
<1>2. /\ IsFiniteSet(Lines(w, end)) /\ w \in Lines(w, end)
      /\ Lines(w + Width, end) = Lines(w, end) \ {w}
  BY <1>1, LinesOn
<1>3. CutLines(x, w + Width) = CutLines(x, w) \ {w}
  BY <1>2 DEF CutLines
<1>4. w \in CutLines(x, w) <=> Partial(w, x)
  BY <1>2 DEF CutLines
<1>5. IsFiniteSet(CutLines(x, w))
  <2>1. CutLines(x, w) \subseteq Lines(w, end)
    BY DEF CutLines
  <2> QED BY <1>2, <2>1, FS_Subset
<1>6. /\ Cardinality(Lines(w, end)) \in Nat \ {0}
      /\ Cardinality(Lines(w + Width, end)) = Cardinality(Lines(w, end)) - 1
  BY <1>2, FS_CardinalityType, FS_EmptySet, FS_RemoveElement
<1>7. /\ Cardinality(CutLines(x, w)) \in Nat
      /\ Cardinality(CutLines(x, w + Width)) =
           IF Partial(w, x) THEN Cardinality(CutLines(x, w)) - 1
                            ELSE Cardinality(CutLines(x, w))
      /\ Partial(w, x) => Cardinality(CutLines(x, w)) # 0
  <2>1. Cardinality(CutLines(x, w)) \in Nat
    BY <1>5, FS_CardinalityType
  <2>2. Cardinality(CutLines(x, w) \ {w}) =
          IF w \in CutLines(x, w) THEN Cardinality(CutLines(x, w)) - 1
                                  ELSE Cardinality(CutLines(x, w))
    BY <1>5, FS_RemoveElement
  <2>3. w \in CutLines(x, w) => Cardinality(CutLines(x, w)) # 0
    BY <1>5, FS_EmptySet
  <2> QED BY <1>3, <1>4, <2>1, <2>2, <2>3
<1>8. /\ IsFiniteSet(Lines(w + Width, end)) /\ w + Width \in Nat
      /\ (w + Width) % Width = 0
  <2>1. (w + Width) % Width = 0
    BY EngineAssumptions, DP!NextLine
  <2>2. IsFiniteSet(Lines(w + Width, end))
    BY <1>2, FS_RemoveElement
  <2> QED BY <1>1, <2>1, <2>2
<1>9. ASSUME w + Width < end PROVE Cardinality(Lines(w + Width, end)) # 0
  <2>1. w + Width \in Lines(w + Width, end)
    BY <1>1, <1>8, <1>9, LinesOn
  <2> QED BY <1>8, <2>1, FS_EmptySet
<1>10. ASSUME w + Width >= end PROVE Cardinality(Lines(w + Width, end)) = 0
  <2>1. Lines(w + Width, end) = {}
    BY <1>1, <1>8, <1>10, LinesOn
  <2> QED BY <2>1, FS_EmptySet
<1>11. ASSUME Cardinality(Lines(w + Width, end)) = 0
       PROVE  Cardinality(CutLines(x, w + Width)) = 0
  <2>1. Lines(w + Width, end) = {}
    BY <1>8, <1>11, FS_EmptySet
  <2>2. CutLines(x, w + Width) = {}
    BY <2>1 DEF CutLines
  <2> QED BY <2>2, FS_EmptySet
<1>12. Cardinality(CutLines(x, w)) - (IF Partial(w, x) THEN 1 ELSE 0) =
         IF Partial(w, x) THEN Cardinality(CutLines(x, w)) - 1
                          ELSE Cardinality(CutLines(x, w))
  BY <1>7
<1> QED BY <1>2, <1>5, <1>6, <1>7, <1>9, <1>10, <1>11, <1>12

(* Each cycle takes one from the work left: one that reads a line of the   *)
(* source, one that fetches a line of the destination, and one that writes *)
(* it, which is the last when the end is reached.                          *)
LEMMA DmaCounts ==
  ASSUME NEW x \in Transfers, NEW w \in Nat, w % Width = 0,
         w < DestinationEnd(x), NEW r,
         x.operation = "COPY" => r \in Nat /\ r % Width = 0
  PROVE  LET now == DmaWork(x, w, r)
             k   == Bit(Partial(w, x))
         IN  /\ now \in Nat /\ now > k
             /\ x.operation = "COPY" /\ r < x.source + x.length =>
                  DmaWork(x, w, r + Width) = now - 1 /\ now > 1 + k
             /\ DmaWork(x, w + Width, r) = now - 1 - k
             /\ w + Width < DestinationEnd(x) => now > 1 + k
             /\ /\ w + Width >= DestinationEnd(x)
                /\ x.operation = "COPY" => r >= x.source + x.length
                => now = 1 + k
<1> DEFINE s  == Cardinality(SourceLines(x, r))
           s2 == Cardinality(SourceLines(x, r + Width))
           l  == Cardinality(Lines(w, DestinationEnd(x)))
           l2 == Cardinality(Lines(w + Width, DestinationEnd(x)))
           p  == Cardinality(CutLines(x, w))
           p2 == Cardinality(CutLines(x, w + Width))
           k  == Bit(Partial(w, x))
<1>1. /\ s \in Nat
      /\ x.operation = "COPY" /\ r < x.source + x.length =>
           s # 0 /\ s2 = s - 1
      /\ (x.operation = "COPY" => r >= x.source + x.length) => s = 0
  <2>1. CASE x.operation # "COPY"
    <3>1. SourceLines(x, r) = {}
      BY <2>1 DEF SourceLines
    <3> QED BY <2>1, <3>1, FS_EmptySet
  <2>2. CASE x.operation = "COPY"
    <3> DEFINE end == x.source + x.length
    <3>1. /\ end \in Nat /\ end <= MemSize
          /\ SourceLines(x, r) = Lines(r, end)
          /\ SourceLines(x, r + Width) = Lines(r + Width, end)
      BY <2>2, SystemAssumption DEF Transfers, SourceLines
    <3> HIDE DEF end
    <3>2. /\ IsFiniteSet(Lines(r, end)) /\ Cardinality(Lines(r, end)) \in Nat
          /\ r \in Nat /\ r % Width = 0
      BY <2>2, <3>1, LinesOn
    <3>3. ASSUME r < end
          PROVE  /\ Cardinality(Lines(r, end)) # 0
                 /\ Cardinality(Lines(r + Width, end))
                      = Cardinality(Lines(r, end)) - 1
      <4>1. r \in Lines(r, end) /\ Lines(r + Width, end) = Lines(r, end) \ {r}
        BY <3>1, <3>2, <3>3, LinesOn
      <4> QED BY <3>2, <4>1, FS_EmptySet, FS_RemoveElement
    <3>4. ASSUME r >= end PROVE Cardinality(Lines(r, end)) = 0
      <4>1. Lines(r, end) = {}
        BY <3>1, <3>2, <3>4, LinesOn
      <4> QED BY <4>1, FS_EmptySet
    <3> QED BY <2>2, <3>1, <3>2, <3>3, <3>4 DEF end
  <2> QED BY <2>1, <2>2
<1>2. /\ l \in Nat \ {0} /\ l2 = l - 1
      /\ w + Width < DestinationEnd(x) => l2 # 0
      /\ w + Width >= DestinationEnd(x) => l2 = 0
      /\ p \in Nat /\ p2 = p - k
      /\ l2 = 0 => p2 = 0
      /\ k \in {0, 1} /\ (p = 0 => k = 0)
  BY CutsOn DEF Bit
<1>3. p2 \in Nat
  BY <1>2
<1> DEFINE now    == DmaWork(x, w, r)
           reads  == DmaWork(x, w, r + Width)
           writes == DmaWork(x, w + Width, r)
<1>4. /\ now = s + l + p /\ reads = s2 + l + p /\ writes = s + l2 + p2
  BY DEF DmaWork
<1>5. w + Width \in Nat /\ DestinationEnd(x) \in Nat
  BY SystemAssumption DEF Transfers, DestinationEnd
<1> HIDE DEF s, s2, l, l2, p, p2, k, now, reads, writes
<1>6. now \in Nat /\ now > k
  BY <1>1, <1>2, <1>4
<1>7. s # 0 /\ s2 = s - 1 => reads = now - 1 /\ now > 1 + k
  BY <1>1, <1>2, <1>4
<1>8. writes = now - 1 - k
  BY <1>1, <1>2, <1>3, <1>4
<1>9. l2 # 0 => now > 1 + k
  BY <1>1, <1>2, <1>3, <1>4
<1>10. l2 = 0 /\ s = 0 => now = 1 + k
  BY <1>1, <1>2, <1>3, <1>4
<1> QED
  BY <1>1, <1>2, <1>6, <1>7, <1>8, <1>9, <1>10 DEF now, reads, writes, k

(* What the frame is, as the blitter and the count of its work have it.    *)
LEMMA BlitterCounts ==
  ASSUME EnginesInv, blitter_state = "WORKING"
  PROVE  /\ BP!LastStep => BlitterWorkLeft = 1
         /\ BP!LineStep => /\ BlitterWorkLeft' = BlitterWorkLeft - 1
                           /\ BlitterWorkLeft > 1
<1> DEFINE end == FrameAddr + B!FrameBytes
           n == B!NextAddress
<1>1. /\ n = BP!NextAddress /\ n' = BP!NextAddress'
      /\ end = FrameAddr + BP!FrameBytes
  BY DEF B!NextAddress, B!PixelAddress, B!PixelBytes, B!FrameBytes, B!c,
         BP!NextAddress, BP!PixelAddress, BP!PixelBytes, BP!FrameBytes, BP!c
<1>2. blitter_command.operation \in {"PIXEL", "CLEAR"}
  BY DEF EnginesInv, Drawings, BP!Command
<1>3. end \in Nat /\ end <= MemSize /\ Width \in Nat \ {0}
  BY SystemAssumption DEF B!FrameBytes, B!PixelBytes
<1>4. BlitterWorkLeft = IF blitter_command.operation = "PIXEL" THEN 1
                        ELSE 1 + Cardinality(Lines(n, end))
  BY DEF BlitterWorkLeft
<1>5. BlitterWorkLeft' = IF blitter_command'.operation = "PIXEL" THEN 1
                         ELSE 1 + Cardinality(Lines(n', end))
  BY DEF BlitterWorkLeft, B!FrameBytes, B!PixelBytes, Lines
<1> HIDE DEF n, end
<1>6. ASSUME BP!LastStep PROVE BlitterWorkLeft = 1
  <2>1. CASE blitter_command.operation = "CLEAR"
    <3>1. n \in Nat /\ n >= end
      BY <1>1, <1>6, <2>1 DEF BP!LastStep, BP!c
    <3>2. Cardinality(Lines(n, end)) = 0
      BY <1>3, <3>1, LinesOn, FS_EmptySet
    <3> QED BY <1>4, <2>1, <3>2
  <2> QED BY <1>2, <1>4, <2>1
<1>7. ASSUME BP!LineStep
      PROVE  BlitterWorkLeft' = BlitterWorkLeft - 1 /\ BlitterWorkLeft > 1
  <2>1. /\ blitter_command.operation = "CLEAR"
        /\ blitter_command'.operation = "CLEAR"
        /\ n \in Nat /\ (n % Width) = 0 /\ n < end /\ n' = n + Width
    BY <1>1, <1>7 DEF BP!LineStep, BP!c
  <2>2. /\ IsFiniteSet(Lines(n, end)) /\ Cardinality(Lines(n, end)) \in Nat
        /\ n \in Lines(n, end) /\ Lines(n', end) = Lines(n, end) \ {n}
    BY <1>3, <2>1, LinesOn
  <2>3. /\ Cardinality(Lines(n, end)) # 0
        /\ Cardinality(Lines(n', end)) = Cardinality(Lines(n, end)) - 1
    BY <2>2, FS_EmptySet, FS_RemoveElement
  <2> QED BY <1>4, <1>5, <2>1, <2>2, <2>3
<1> QED BY <1>6, <1>7
-----------------------------------------------------------------------------
(***************************************************************************)
(* The scheduler's view of a step.                                         *)
(***************************************************************************)
(* Of a pair of engines one changes.                                       *)
LEMMA OneChanges ==
  ASSUME NEW p \in S!Pipe, NEW f, NEW g,
         f = [q \in S!Pipe |-> f[q]], g = [q \in S!Pipe |-> g[q]],
         \A q \in S!Pipe : q # p => g[q] = f[q]
  PROVE  g = [f EXCEPT ![p] = g[p]]
OBVIOUS

LEMMA Views ==
  /\ EngineState = [q \in S!Pipe |-> EngineState[q]]
  /\ EngineState["DMA"] = dma_state /\ EngineState["BLITTER"] = blitter_state
  /\ WorkLeft = [q \in S!Pipe |-> WorkLeft[q]]
  /\ WorkLeft["DMA"] = IF dma_state = "WORKING" THEN DmaWorkLeft ELSE 0
  /\ WorkLeft["BLITTER"] =
       IF blitter_state = "WORKING" THEN BlitterWorkLeft ELSE 0
  BY DEF EngineState, WorkLeft, S!Pipe

LEMMA ViewsNext ==
  /\ EngineState' = [q \in S!Pipe |-> EngineState'[q]]
  /\ EngineState'["DMA"] = dma_state'
  /\ EngineState'["BLITTER"] = blitter_state'
  /\ WorkLeft' = [q \in S!Pipe |-> WorkLeft'[q]]
  /\ WorkLeft'["DMA"] = IF dma_state' = "WORKING" THEN DmaWorkLeft' ELSE 0
  /\ WorkLeft'["BLITTER"] =
       IF blitter_state' = "WORKING" THEN BlitterWorkLeft' ELSE 0
  BY DEF EngineState, WorkLeft, S!Pipe

(* An engine that nothing happens to has as much work left.                *)
LEMMA Unworked ==
  /\ UNCHANGED dmaVars => DmaWorkLeft' = DmaWorkLeft
  /\ UNCHANGED blitterVars =>
       /\ BlitterWorkLeft' = BlitterWorkLeft
       /\ B!Taken(blitter_command)' = B!Taken(blitter_command)
<1>1. ASSUME UNCHANGED dmaVars PROVE DmaWorkLeft' = DmaWorkLeft
  BY <1>1 DEF dmaVars, DmaWorkLeft, Lines, Partial, D!DestEnd, D!SourceEnd,
              D!After, D!c
<1>2. ASSUME UNCHANGED blitterVars
      PROVE  /\ BlitterWorkLeft' = BlitterWorkLeft
             /\ B!Taken(blitter_command)' = B!Taken(blitter_command)
  BY <1>2 DEF blitterVars, BlitterWorkLeft, Lines, B!NextAddress,
              B!PixelAddress, B!FrameBytes, B!PixelBytes, B!c, B!Taken
<1> QED BY <1>1, <1>2

LEMMA ViewsKept ==
  UNCHANGED <<dmaVars, blitterVars>> =>
    UNCHANGED <<EngineState, EngineCommand, WorkLeft>>
<1> SUFFICES ASSUME UNCHANGED <<dmaVars, blitterVars>>
             PROVE  UNCHANGED <<EngineState, EngineCommand, WorkLeft>>
  OBVIOUS
<1>1. UNCHANGED <<EngineState, EngineCommand>>
  BY Unworked DEF EngineState, EngineCommand, dmaVars, blitterVars
<1>2. \A q \in S!Pipe : WorkLeft'[q] = WorkLeft[q]
  BY Unworked, Views, ViewsNext, Pipes DEF dmaVars, blitterVars
<1>3. UNCHANGED WorkLeft
  BY <1>2, Views, ViewsNext
<1> QED BY <1>1, <1>3

(* Whether a call of run_cycle works.                                      *)
DmaRests == dma_state = "WORKING" => cycle < work_cycle["DMA"]
BlitterRests == blitter_state = "WORKING" => cycle < work_cycle["BLITTER"]

LEMMA DmaRestSim ==
  ASSUME EnginesInv, RunDma, DmaRests
  PROVE  S!RestCycle("DMA") /\ (DP!FetchedCut => DP!FetchedCut')
<1>1. D!Rest(cycle < work_cycle["DMA"])
  BY DEF RunDma, DmaRests, D!RunCycle, D!Crash, D!Copy, D!CopyRead,
         D!CopyFetch, D!CopyWrite, D!Set, D!SetWhole, D!SetFetch, D!SetPart,
         D!SetCrash, D!Works
<1>2. /\ dma_state' = IF dma_state = "FINISHED" THEN "IDLE" ELSE dma_state
      /\ UNCHANGED <<memory, dma_command, write_pointer, read_pointer,
                     fetched_writeback_data_valid, fetched_writeback_data,
                     active_buffer_valid, active_buffer_address,
                     active_buffer_size, active_buffer>>
  BY <1>1 DEF D!Rest, D!buffer, D!fetched
<1>3. /\ phase = "others" /\ turn = "run DMA" /\ turn' = "run BLITTER"
      /\ UNCHANGED vars /\ UNCHANGED blitterVars
      /\ UNCHANGED <<frontend, queue, work_cycle>>
      /\ S!Callback("DMA")
      /\ finished_callback_valid' =
           [finished_callback_valid EXCEPT
              !["DMA"] = dma_state = "WORKING" /\ dma_state' = "FINISHED"]
  BY DEF RunDma, Turns, Report
<1>4. finished_callback_valid' =
        [finished_callback_valid EXCEPT !["DMA"] = FALSE]
  <2>1. (dma_state = "WORKING" /\ dma_state' = "FINISHED") = FALSE
    BY <1>2
  <2> QED BY <1>3, <2>1
<1>5. EngineState' = [EngineState EXCEPT !["DMA"] =
                        IF @ = "FINISHED" THEN "IDLE" ELSE @]
  <2>1. \A q \in S!Pipe : q # "DMA" => EngineState'[q] = EngineState[q]
    BY <1>3, Views, ViewsNext, Pipes DEF blitterVars
  <2>2. EngineState' = [EngineState EXCEPT !["DMA"] = EngineState'["DMA"]]
    BY <2>1, Views, ViewsNext, Pipes, OneChanges
  <2> QED BY <1>2, <2>2, Views, ViewsNext
<1>6. WorkLeft' = WorkLeft
  <2>1. DmaWorkLeft' = DmaWorkLeft
    BY <1>2 DEF DmaWorkLeft, Lines, Partial, D!DestEnd, D!SourceEnd,
                D!After, D!c
  <2>2. \A q \in S!Pipe : WorkLeft'[q] = WorkLeft[q]
    BY <1>2, <1>3, <2>1, Views, ViewsNext, Pipes, Unworked DEF blitterVars
  <2> QED BY <2>2, Views, ViewsNext
<1>7. EngineCommand' = EngineCommand
  BY <1>2, <1>3, Unworked DEF EngineCommand
<1>8. /\ SchedulerPhase = "run DMA" /\ SchedulerPhase' = "run BLITTER"
      /\ UNCHANGED <<cycle, refused, submitted>>
  BY <1>3 DEF SchedulerPhase, vars, cycleVars, executeVars
<1>9. S!Working("DMA") => cycle < work_cycle["DMA"]
  BY InProgressValues, Pipes DEF DmaRests
<1>10. S!RestCycle("DMA")
  BY <1>3, <1>4, <1>5, <1>6, <1>7, <1>8, <1>9
     DEF S!RestCycle, S!RunPhase, S!AfterRun
<1>11. DP!FetchedCut => DP!FetchedCut'
  BY <1>2 DEF DP!FetchedCut, DP!Cut, DP!c
<1> QED BY <1>10, <1>11

(* A call that works is a cycle of work, or the last one.                  *)
LEMMA DmaWorkSim ==
  ASSUME EnginesInv, DP!FetchedCut, RunDma, ~DmaRests
  PROVE  /\ S!WorkCycle("DMA") \/ S!FinishCycle("DMA")
         /\ DP!FetchedCut'
<1>1. /\ phase = "others" /\ turn = "run DMA" /\ turn' = "run BLITTER"
      /\ UNCHANGED vars /\ UNCHANGED blitterVars
      /\ UNCHANGED <<frontend, queue, work_cycle>>
      /\ S!Callback("DMA")
      /\ D!RunCycle(cycle < work_cycle["DMA"])
      /\ finished_callback_valid' =
           [finished_callback_valid EXCEPT
              !["DMA"] = dma_state = "WORKING" /\ dma_state' = "FINISHED"]
  BY DEF RunDma, Turns, Report
<1>2. dma_state = "WORKING" /\ ~(cycle < work_cycle["DMA"])
  BY DEF DmaRests
<1>3. DP!RunCycle(FALSE)
  <2>1. (cycle < work_cycle["DMA"]) = FALSE
    BY <1>2
  <2>2. D!RunCycle(FALSE)
    BY <1>1, <2>1
  <2> QED BY <2>2, DmaAlone
<1>4. dma_state' # "CRASHED"
  <2>1. EnginesInv'
    BY EnginesRun
  <2> QED BY <2>1 DEF EnginesInv, DP!Control, DP!c, Transfers
<1>5. /\ DP!ReadStep \/ DP!FetchStep \/ DP!WriteStep
      /\ dma_command' = dma_command /\ DP!FetchedCut'
  BY <1>2, <1>3, <1>4, EngineAssumptions, TransfersProper, DP!WorkSteps
     DEF EnginesInv
<1> DEFINE x == dma_command
           w == write_pointer
           r == read_pointer
           f == fetched_writeback_data_valid
<1>6. /\ x \in Transfers /\ w \in Nat /\ w % Width = 0
      /\ w < DestinationEnd(x)
      /\ x.operation = "COPY" => r \in Nat /\ r % Width = 0
      /\ f \in BOOLEAN /\ f' \in BOOLEAN
      /\ DestinationEnd(x) \in Nat
  <2>1. /\ x \in Transfers /\ DP!Pointers /\ DP!Types
    BY <1>2, EngineAssumptions, TransfersProper, DP!AtWork
       DEF EnginesInv, DP!c
  <2>2. f' \in BOOLEAN
    <3>1. EnginesInv'
      BY EnginesRun
    <3> QED BY <3>1 DEF EnginesInv, DP!Control, DP!Types
  <2> QED BY <2>1, <2>2
          DEF DP!Pointers, DP!Types, DP!c, DestinationEnd, Transfers
<1> DEFINE k == Bit(Partial(w, x))
           n == DmaWork(x, w, r)
<1>7. k \in {0, 1} /\ Bit(f) \in {0, 1} /\ Bit(f) <= k
  BY <1>2 DEF DP!FetchedCut, DP!Cut, DP!c, Partial, Bit
<1>8. DmaWorkLeft = n - Bit(f)
  BY <1>6, DmaWorkLeftIs
<1>9. DmaWorkLeft' = DmaWork(x, w', r') - Bit(f)'
  BY <1>5, <1>6, DmaWorkLeftIs
<1> HIDE DEF x, w, r, f
<1>10. /\ n \in Nat /\ n > k
       /\ x.operation = "COPY" /\ r < x.source + x.length =>
            DmaWork(x, w, r + Width) = n - 1 /\ n > 1 + k
       /\ DmaWork(x, w + Width, r) = n - 1 - k
       /\ w + Width < DestinationEnd(x) => n > 1 + k
       /\ /\ w + Width >= DestinationEnd(x)
          /\ x.operation = "COPY" => r >= x.source + x.length
          => n = 1 + k
  BY <1>6, DmaCounts
<1> HIDE DEF n, k
<1>18. /\ DmaWorkLeft \in Nat \ {0} /\ DmaWorkLeft' = DmaWorkLeft - 1
       /\ dma_state' \in {"WORKING", "FINISHED"}
       /\ dma_state' = "WORKING" => DmaWorkLeft > 1
       /\ dma_state' = "FINISHED" => DmaWorkLeft = 1
  <2>1. CASE DP!ReadStep
    <3>1. /\ x.operation = "COPY" /\ r < x.source + x.length
          /\ r' = r + Width /\ w' = w /\ dma_state' = "WORKING"
      BY <2>1 DEF DP!ReadStep, DP!c, x, w, r
    <3>2. Bit(f)' = Bit(f)
      BY <2>1 DEF DP!ReadStep, f, Bit
    <3>3. DmaWork(x, w', r') = DmaWork(x, w, r + Width)
      BY <3>1
    <3> QED BY <1>7, <1>8, <1>9, <1>10, <3>1, <3>2, <3>3
  <2>2. CASE DP!FetchStep
    <3>1. w' = w /\ r' = r /\ dma_state' = "WORKING"
      BY <2>2 DEF DP!FetchStep, w, r
    <3>2. k = 1 /\ Bit(f) = 0 /\ Bit(f)' = 1
      BY <2>2 DEF DP!FetchStep, DP!Cut, DP!c, Partial, x, w, f, k, Bit
    <3>3. DmaWork(x, w', r') = n
      BY <3>1 DEF n
    <3> QED BY <1>8, <1>9, <1>10, <3>1, <3>2, <3>3
  <2>3. CASE DP!WriteStep
    <3>1. /\ w' = w + Width /\ r' = r
          /\ dma_state' = IF w' >= DestinationEnd(x) THEN "FINISHED"
                          ELSE "WORKING"
          /\ dma_state' = "FINISHED" /\ x.operation = "COPY" =>
               r >= x.source + x.length
      BY <2>3 DEF DP!WriteStep, DP!c, DestinationEnd, x, w, r
    <3>2. Bit(f) = k /\ Bit(f)' = 0
      BY <2>3 DEF DP!WriteStep, DP!Cut, DP!c, Partial, x, w, f, k, Bit
    <3>3. DmaWork(x, w', r') = DmaWork(x, w + Width, r)
      BY <3>1
    <3>4. w + Width \in Nat /\ DestinationEnd(x) \in Nat
      BY <1>6, SystemAssumption
    <3> QED BY <1>7, <1>8, <1>9, <1>10, <3>1, <3>2, <3>3, <3>4
  <2> QED BY <1>5, <2>1, <2>2, <2>3
<1>11. EngineState' = [EngineState EXCEPT !["DMA"] = dma_state']
  <2>1. \A q \in S!Pipe : q # "DMA" => EngineState'[q] = EngineState[q]
    BY <1>1, Views, ViewsNext, Pipes DEF blitterVars
  <2>2. EngineState' = [EngineState EXCEPT !["DMA"] = EngineState'["DMA"]]
    BY <2>1, Views, ViewsNext, Pipes, OneChanges
  <2> QED BY <2>2, Views, ViewsNext
<1>12. /\ WorkLeft["DMA"] = DmaWorkLeft
       /\ WorkLeft' = [WorkLeft EXCEPT !["DMA"] = DmaWorkLeft - 1]
  <2>1. \A q \in S!Pipe : q # "DMA" => WorkLeft'[q] = WorkLeft[q]
    BY <1>1, Views, ViewsNext, Pipes, Unworked DEF blitterVars
  <2>2. WorkLeft' = [WorkLeft EXCEPT !["DMA"] = WorkLeft'["DMA"]]
    BY <2>1, Views, ViewsNext, Pipes, OneChanges
  <2>3. WorkLeft'["DMA"] = DmaWorkLeft - 1 /\ WorkLeft["DMA"] = DmaWorkLeft
    BY <1>2, <1>18, Views, ViewsNext
  <2> QED BY <2>2, <2>3
<1>13. EngineCommand' = EngineCommand
  BY <1>1, <1>5, Unworked DEF EngineCommand
<1>14. /\ SchedulerPhase = "run DMA" /\ SchedulerPhase' = "run BLITTER"
       /\ UNCHANGED <<cycle, refused, submitted>>
  BY <1>1 DEF SchedulerPhase, vars, cycleVars, executeVars
<1>15. S!Working("DMA")
  BY <1>2, InProgressValues, Pipes
<1>16. CASE dma_state' = "WORKING"
  <2>1. EngineState' = EngineState
    BY <1>2, <1>11, <1>16, Views
  <2>2. finished_callback_valid' =
          [finished_callback_valid EXCEPT !["DMA"] = FALSE]
    <3>1. (dma_state = "WORKING" /\ dma_state' = "FINISHED") = FALSE
      BY <1>16
    <3> QED BY <1>1, <3>1
  <2>3. S!WorkCycle("DMA")
    BY <1>1, <1>2, <1>18, <1>12, <1>13, <1>14, <1>15, <1>16, <2>1, <2>2
       DEF S!WorkCycle, S!RunPhase, S!AfterRun
  <2> QED BY <1>5, <2>3
<1>17. CASE dma_state' = "FINISHED"
  <2>1. finished_callback_valid' =
          [finished_callback_valid EXCEPT !["DMA"] = TRUE]
    <3>1. (dma_state = "WORKING" /\ dma_state' = "FINISHED") = TRUE
      BY <1>2, <1>17
    <3> QED BY <1>1, <3>1
  <2>2. WorkLeft' = [WorkLeft EXCEPT !["DMA"] = 0]
    BY <1>18, <1>12, <1>17
  <2>3. S!FinishCycle("DMA")
    BY <1>1, <1>2, <1>18, <1>11, <1>12, <1>13, <1>14, <1>15, <1>17,
       <2>1, <2>2
       DEF S!FinishCycle, S!RunPhase, S!AfterRun
  <2> QED BY <1>5, <2>3
<1> QED BY <1>18, <1>16, <1>17

LEMMA BlitterRestSim ==
  ASSUME RunBlitter, BlitterRests
  PROVE  S!RestCycle("BLITTER")
<1>1. B!Rest(cycle < work_cycle["BLITTER"])
  BY DEF RunBlitter, BlitterRests, B!RunCycle, B!Crash, B!Pixel,
         B!ClearEnds, B!ClearLine, B!Works
<1>2. /\ blitter_state' =
           IF blitter_state = "FINISHED" THEN "IDLE" ELSE blitter_state
      /\ UNCHANGED blitter_command
  BY <1>1 DEF B!Rest
<1>3. /\ phase = "others" /\ turn = "run BLITTER" /\ turn' = "end"
      /\ UNCHANGED vars /\ UNCHANGED dmaVars
      /\ UNCHANGED <<frontend, queue, work_cycle>>
      /\ S!Callback("BLITTER")
      /\ finished_callback_valid' =
           [finished_callback_valid EXCEPT
              !["BLITTER"] =
                 blitter_state = "WORKING" /\ blitter_state' = "FINISHED"]
  BY DEF RunBlitter, Turns, Report
<1>4. finished_callback_valid' =
        [finished_callback_valid EXCEPT !["BLITTER"] = FALSE]
  <2>1. (blitter_state = "WORKING" /\ blitter_state' = "FINISHED") = FALSE
    BY <1>2
  <2> QED BY <1>3, <2>1
<1>5. EngineState' = [EngineState EXCEPT !["BLITTER"] =
                        IF @ = "FINISHED" THEN "IDLE" ELSE @]
  <2>1. \A q \in S!Pipe : q # "BLITTER" => EngineState'[q] = EngineState[q]
    BY <1>3, Views, ViewsNext, Pipes DEF dmaVars
  <2>2. EngineState' =
          [EngineState EXCEPT !["BLITTER"] = EngineState'["BLITTER"]]
    BY <2>1, Views, ViewsNext, Pipes, OneChanges
  <2> QED BY <1>2, <2>2, Views, ViewsNext
<1>6. /\ BlitterWorkLeft' = BlitterWorkLeft
      /\ B!Taken(blitter_command)' = B!Taken(blitter_command)
  BY <1>2 DEF BlitterWorkLeft, Lines, B!NextAddress, B!PixelAddress,
              B!FrameBytes, B!PixelBytes, B!c, B!Taken
<1>7. WorkLeft' = WorkLeft
  <2>1. \A q \in S!Pipe : WorkLeft'[q] = WorkLeft[q]
    BY <1>2, <1>3, <1>6, Views, ViewsNext, Pipes, Unworked DEF dmaVars
  <2> QED BY <2>1, Views, ViewsNext
<1>8. EngineCommand' = EngineCommand
  BY <1>3, <1>6 DEF EngineCommand, dmaVars
<1>9. /\ SchedulerPhase = "run BLITTER" /\ SchedulerPhase' = "end"
      /\ UNCHANGED <<cycle, refused, submitted>>
  BY <1>3 DEF SchedulerPhase, vars, cycleVars, executeVars
<1>10. S!Working("BLITTER") => cycle < work_cycle["BLITTER"]
  BY InProgressValues, Pipes DEF BlitterRests
<1> QED BY <1>3, <1>4, <1>5, <1>7, <1>8, <1>9, <1>10
        DEF S!RestCycle, S!RunPhase, S!AfterRun

LEMMA BlitterWorkSim ==
  ASSUME EnginesInv, RunBlitter, ~BlitterRests
  PROVE  S!WorkCycle("BLITTER") \/ S!FinishCycle("BLITTER")
<1>1. /\ phase = "others" /\ turn = "run BLITTER" /\ turn' = "end"
      /\ UNCHANGED vars /\ UNCHANGED dmaVars
      /\ UNCHANGED <<frontend, queue, work_cycle>>
      /\ S!Callback("BLITTER")
      /\ B!RunCycle(cycle < work_cycle["BLITTER"])
      /\ finished_callback_valid' =
           [finished_callback_valid EXCEPT
              !["BLITTER"] =
                 blitter_state = "WORKING" /\ blitter_state' = "FINISHED"]
  BY DEF RunBlitter, Turns, Report
<1>2. blitter_state = "WORKING" /\ ~(cycle < work_cycle["BLITTER"])
  BY DEF BlitterRests
<1>3. BP!RunCycle(FALSE)
  <2>1. (cycle < work_cycle["BLITTER"]) = FALSE
    BY <1>2
  <2>2. B!RunCycle(FALSE)
    BY <1>1, <2>1
  <2> QED BY <2>2, BlitterAlone
<1>4. blitter_state' # "CRASHED"
  <2>1. EnginesInv'
    BY EnginesRun
  <2> QED BY <2>1, SystemAssumption
          DEF EnginesInv, BP!Control, BP!AssertionsHold, BP!c, BP!Command,
              Drawings, InFrame
<1>5. BP!LastStep \/ BP!LineStep
  BY <1>2, <1>3, <1>4, EngineAssumptions, FrameWhole, BP!WorkSteps
     DEF EnginesInv
<1>6. B!Taken(blitter_command)' = B!Taken(blitter_command)
  BY <1>5 DEF BP!LastStep, BP!LineStep, BP!Taken, BP!c, B!Taken
<1>7. EngineState' = [EngineState EXCEPT !["BLITTER"] = blitter_state']
  <2>1. \A q \in S!Pipe : q # "BLITTER" => EngineState'[q] = EngineState[q]
    BY <1>1, Views, ViewsNext, Pipes DEF dmaVars
  <2>2. EngineState' =
          [EngineState EXCEPT !["BLITTER"] = EngineState'["BLITTER"]]
    BY <2>1, Views, ViewsNext, Pipes, OneChanges
  <2> QED BY <2>2, Views, ViewsNext
<1>8. /\ WorkLeft["BLITTER"] = BlitterWorkLeft
      /\ WorkLeft' = [WorkLeft EXCEPT !["BLITTER"] = WorkLeft'["BLITTER"]]
  <2>1. \A q \in S!Pipe : q # "BLITTER" => WorkLeft'[q] = WorkLeft[q]
    BY <1>1, Views, ViewsNext, Pipes, Unworked DEF dmaVars
  <2>2. WorkLeft' = [WorkLeft EXCEPT !["BLITTER"] = WorkLeft'["BLITTER"]]
    BY <2>1, Views, ViewsNext, Pipes, OneChanges
  <2> QED BY <1>2, <2>2, Views
<1>9. EngineCommand' = EngineCommand
  BY <1>1, <1>6 DEF EngineCommand, dmaVars
<1>10. /\ SchedulerPhase = "run BLITTER" /\ SchedulerPhase' = "end"
       /\ UNCHANGED <<cycle, refused, submitted>>
  BY <1>1 DEF SchedulerPhase, vars, cycleVars, executeVars
<1>11. S!Working("BLITTER")
  BY <1>2, InProgressValues, Pipes
<1>12. CASE BP!LineStep
  <2>1. blitter_state' = "WORKING"
    BY <1>12 DEF BP!LineStep
  <2>2. EngineState' = EngineState
    BY <1>2, <1>7, <2>1, Views
  <2>3. finished_callback_valid' =
          [finished_callback_valid EXCEPT !["BLITTER"] = FALSE]
    <3>1. (blitter_state = "WORKING" /\ blitter_state' = "FINISHED") = FALSE
      BY <2>1
    <3> QED BY <1>1, <3>1
  <2>4. BlitterWorkLeft' = BlitterWorkLeft - 1 /\ BlitterWorkLeft > 1
    BY <1>2, <1>12, BlitterCounts
  <2>5. WorkLeft' = [WorkLeft EXCEPT !["BLITTER"] = BlitterWorkLeft - 1]
    BY <1>8, <2>1, <2>4, ViewsNext
  <2>6. S!WorkCycle("BLITTER")
    BY <1>1, <1>2, <1>8, <1>9, <1>10, <1>11, <2>2, <2>3, <2>4, <2>5
       DEF S!WorkCycle, S!RunPhase, S!AfterRun
  <2> QED BY <2>6
<1>13. CASE BP!LastStep
  <2>1. blitter_state' = "FINISHED"
    BY <1>13 DEF BP!LastStep
  <2>2. finished_callback_valid' =
          [finished_callback_valid EXCEPT !["BLITTER"] = TRUE]
    <3>1. (blitter_state = "WORKING" /\ blitter_state' = "FINISHED") = TRUE
      BY <1>2, <2>1
    <3> QED BY <1>1, <3>1
  <2>3. BlitterWorkLeft = 1
    BY <1>2, <1>13, BlitterCounts
  <2>4. WorkLeft' = [WorkLeft EXCEPT !["BLITTER"] = 0]
    BY <1>8, <2>1, ViewsNext
  <2>5. S!FinishCycle("BLITTER")
    BY <1>1, <1>2, <1>7, <1>8, <1>9, <1>10, <1>11, <2>1, <2>2, <2>3, <2>4
       DEF S!FinishCycle, S!RunPhase, S!AfterRun
  <2> QED BY <2>5
<1> QED BY <1>5, <1>12, <1>13
-----------------------------------------------------------------------------
(***************************************************************************)
(* The core's part of a step of the scheduler.                             *)
(***************************************************************************)
(* Values are the register values that the program submits.                *)
ValuesListed ==
  phase = "execute" /\ ~flush_valid /\ FrontCanRun(execute_input_queue, cycle)
  /\ input.opcode \in PipeOps =>
    /\ input.opcode \notin PipeNoReg => Value0 \in Values
    /\ input.opcode = "P_BLI_PIX_R_R" => Value1 \in Values

LEMMA CommandListed ==
  ASSUME Types, ValuesListed, Executes(PipeOps)
  PROVE  Command \in S!Instruction
<1>1. /\ phase = "execute" /\ ~flush_valid
      /\ FrontCanRun(execute_input_queue, cycle) /\ input.opcode \in PipeOps
  BY DEF Executes, Turn
<1>2. input \in Operation
  BY <1>1, OperandTypes
<1>3. /\ input.opcode \notin PipeNoReg => Value0 \in Values
      /\ input.opcode = "P_BLI_PIX_R_R" => Value1 \in Values
  BY <1>1 DEF ValuesListed
<1>4. CASE input.opcode \in PipeNoReg
  <2>1. input.source0 = 0 /\ input.source1 = 0
    BY <1>2, <1>4 DEF Operation, PipeNoReg, Register1, Immediate24, ShiftByR,
                      Moves
  <2>2. Value0 = 0 /\ Value1 = 0
    BY <1>4, <2>1 DEF Value0, Value1, PipeNoReg, Immediate24, ShiftByR, Moves
  <2> QED BY <1>1, <1>4, <2>2
          DEF S!Instruction, S!FenceOp, Command, PipeNoReg, PipeOps
<1>5. CASE input.opcode \in PipeOneReg
  <2>1. input.source1 = 0
    BY <1>2, <1>5 DEF Operation, PipeOneReg, Register1, Immediate24, ShiftByR,
                      Moves
  <2>2. Value1 = 0
    BY <1>5, <2>1 DEF Value1, PipeOneReg, Immediate24, ShiftByR, Moves
  <2>3. Value0 \in Values
    BY <1>3, <1>5 DEF PipeOneReg, PipeNoReg
  <2> QED BY <1>1, <1>5, <2>2, <2>3
          DEF S!Instruction, S!FenceOp, Command, PipeOneReg, PipeOps
<1>6. CASE input.opcode = "P_BLI_PIX_R_R"
  <2>1. Value0 \in Values /\ Value1 \in Values
    BY <1>3, <1>6 DEF PipeNoReg
  <2> QED BY <1>1, <1>6, <2>1
          DEF S!Instruction, S!FenceOp, Command, PipeOps
<1> QED BY <1>1, <1>4, <1>5, <1>6 DEF PipeOps

(* Execute with nothing to submit has not been refused either.             *)
LEMMA ElsewhereSim ==
  ASSUME Aligned, Held, CoreStep, ExecuteAlone
  PROVE  S!CoreElsewhere
<1>1. /\ phase = "execute" /\ phase' = "memory"
      /\ UNCHANGED <<cycle, submitted, schedulerVars, shellVars, dmaVars,
                     blitterVars>>
  BY DEF CoreStep, ExecuteAlone, ExecuteIdle, ExecuteNothing, ExecuteWrite,
         ExecuteCompare, ExecuteBranch, Executes, Turn, cycleVars, executeVars
<1>2. refused = NoCommand /\ refused' = NoCommand
  <2>1. CASE ExecuteIdle
    <3>1. ~frontend_stall /\ UNCHANGED refused
      BY <2>1
         DEF ExecuteIdle, executeVars, Today, Turn, Aligned, Stalls, Ready
    <3> QED BY <3>1 DEF Held
  <2>2. CASE ~ExecuteIdle
    <3>1. input.opcode \notin PipeOps /\ refused' = NoCommand
      BY <2>2
         DEF ExecuteAlone, ExecuteNothing, ExecuteWrite, ExecuteCompare,
             ExecuteBranch, Executes, ToMemory, PipeOps, PipeNoReg,
             PipeOneReg, Moves, Immediate24, ShiftByR, Compares, Branches
    <3> QED BY <3>1 DEF Held
  <2> QED BY <2>1, <2>2
<1>3. SchedulerPhase = "core" /\ SchedulerPhase' = "check DMA"
  BY <1>1 DEF SchedulerPhase
<1>4. UNCHANGED <<frontend, queue, outstanding, EngineState, work_cycle,
                  EngineCommand, finished_callback_valid, WorkLeft>>
  BY <1>1, ViewsKept DEF schedulerVars, shellVars
<1> QED BY <1>1, <1>2, <1>3, <1>4
        DEF S!CoreElsewhere, S!engine, NoCommand, S!NoInstruction

(* The other steps of the core are none of the scheduler's.                *)
LEMMA CoreStutters ==
  ASSUME FenceInv, CoreStep, ~ExecuteAlone
  PROVE  UNCHANGED S!vars
<1>1. UNCHANGED <<turn, schedulerVars, shellVars, dmaVars, blitterVars>>
  BY DEF CoreStep
<1>2. /\ UNCHANGED <<cycle, submitted, refused>>
      /\ \/ phase \in {"flush", "fetch", "decode"}
            /\ phase' \in {"fetch", "decode", "execute"}
         \/ phase \in {"memory", "writeback"}
            /\ phase' \in {"writeback", "end"}
         \/ phase = "end" /\ phase' = "others"
  BY DEF CoreStep, TakeFlush, NoFlush, StageFetch, FetchWaits,
         FetchStalls, Fetch, StageDecode, DecodeIdle, DecodeSegmentEnd,
         Decode, Decodes, StageMemory, MemoryIdle, Memory, StageWriteback,
         WritebackIdle, Writeback, EndCycle, Turn, executeVars, cycleVars
<1>3. phase = "end" => turn' = "check DMA"
  BY <1>1 DEF FenceInv
<1>4. UNCHANGED SchedulerPhase
  BY <1>2, <1>3 DEF SchedulerPhase
<1>5. UNCHANGED <<frontend, queue, outstanding, EngineState, work_cycle,
                  EngineCommand, finished_callback_valid, WorkLeft>>
  BY <1>1, ViewsKept DEF schedulerVars, shellVars
<1> QED BY <1>2, <1>4, <1>5 DEF S!vars, S!engine

LEMMA EndSim ==
  ASSUME EndOfCycle
  PROVE  S!EndCycle
<1>1. /\ phase = "others" /\ turn = "end" /\ phase' \in {"halted", "flush"}
      /\ cycle' = NextCycle(cycle) /\ submitted' = NoCommand
      /\ UNCHANGED <<refused, schedulerVars, shellVars, dmaVars, blitterVars>>
  BY DEF EndOfCycle, OthersRun
<1>2. SchedulerPhase = "end" /\ SchedulerPhase' \in {"core", "stopped"}
  BY <1>1 DEF SchedulerPhase
<1>3. UNCHANGED <<frontend, queue, outstanding, EngineState, work_cycle,
                  EngineCommand, finished_callback_valid, WorkLeft>>
  BY <1>1, ViewsKept DEF schedulerVars, shellVars
<1> QED BY <1>1, <1>2, <1>3
        DEF S!EndCycle, S!engine, NoCommand, S!NextCycle, NextCycle
-----------------------------------------------------------------------------
(* What the scheduler's view of the engines rests on.                      *)
ViewInv ==
  /\ Types /\ Aligned /\ Held
  /\ Counts /\ FenceInv
  /\ EnginesInv /\ DP!FetchedCut

LEMMA ViewStart == SystemInit => ViewInv /\ S!Init
<1> SUFFICES ASSUME SystemInit PROVE ViewInv /\ S!Init
  OBVIOUS
<1>1. Init /\ D!Init /\ B!Init
  BY DEF SystemInit
<1>2. Types /\ Aligned /\ Held
  BY <1>1, TypesInit, AlignedInit DEF Init, Held
<1>3. FenceInv
  <2>1. submitted = NoCommand /\ turn = "check DMA" /\ phase = "flush"
    BY <1>1 DEF SystemInit, Init
  <2> QED BY <2>1 DEF FenceInv, S!FenceDrained, NoCommand, S!FenceOp
<1>4. DP!FetchedCut
  BY <1>1 DEF D!Init, DP!FetchedCut
<1>5. /\ EngineState = [p \in S!Pipe |-> "IDLE"]
      /\ WorkLeft = [p \in S!Pipe |-> 0]
  BY <1>1, Views, Pipes DEF D!Init, B!Init
<1>6. EngineCommand = frontend
  <2>1. B!Taken(blitter_command) = blitter_command
    BY <1>1 DEF B!Init, B!Taken
  <2> QED BY <2>1 DEF SystemInit, EngineCommand
<1>7. frontend =
        [p \in S!Pipe |->
           IF p = "DMA"
           THEN [dest |-> Garbage, source |-> Garbage, length |-> Garbage,
                 value |-> Garbage, operation |-> "NONE"]
           ELSE [xpos |-> Garbage, ypos |-> Garbage, colour |-> Garbage,
                 operation |-> "NONE"]]
  <2> DEFINE a == [dest |-> Garbage, source |-> Garbage,
                   length |-> Garbage, value |-> Garbage,
                   operation |-> "NONE"]
             b == [xpos |-> Garbage, ypos |-> Garbage, colour |-> Garbage,
                   operation |-> "NONE"]
  <2>1. dma_command = a /\ blitter_command = b
    BY <1>1 DEF D!Init, B!Init
  <2>2. frontend = [DMA |-> dma_command, BLITTER |-> blitter_command]
    BY DEF SystemInit
  <2> HIDE DEF a, b
  <2>3. frontend = [p \in S!Pipe |-> IF p = "DMA" THEN a ELSE b]
    BY <2>1, <2>2 DEF S!Pipe
  <2> QED BY <2>3 DEF a, b
<1>8. S!Init
  <2>1. /\ cycle = 0 /\ phase = "flush"
        /\ submitted = NoCommand /\ refused = NoCommand
    BY <1>1 DEF Init
  <2>2. SchedulerPhase = "core"
    BY <2>1 DEF SchedulerPhase
  <2>3. /\ queue = [p \in S!Pipe |-> << >>]
        /\ outstanding = [p \in S!Pipe |-> 0]
        /\ work_cycle = [p \in S!Pipe |-> 0]
        /\ finished_callback_valid = [p \in S!Pipe |-> FALSE]
    BY DEF SystemInit
  <2> QED BY <1>5, <1>6, <1>7, <2>1, <2>2, <2>3
          DEF S!Init, NoCommand, S!NoInstruction
<1> QED BY <1>2, <1>3, <1>4, <1>8, CountsInit, EnginesStart DEF ViewInv

(* A line is fetched only where it is written in part.                     *)
LEMMA FetchedCutNext ==
  ASSUME EnginesInv, DP!FetchedCut, [SystemNext]_systemVars
  PROVE  DP!FetchedCut'
<1>1. ASSUME UNCHANGED dmaVars PROVE DP!FetchedCut'
  BY <1>1 DEF dmaVars, DP!FetchedCut, DP!Cut, DP!c
<1>2. CASE \/ CoreStep \/ SubmissionAccepted \/ SubmissionRefused
           \/ (\E p \in S!Pipe : CheckPipe(p))
           \/ SubmitBlitter \/ RunBlitter \/ EndOfCycle
  BY <1>1, <1>2
     DEF CoreStep, SubmissionAccepted, SubmissionRefused, CheckPipe,
         SubmitBlitter, RunBlitter, EndOfCycle
<1>3. CASE SubmitDma
  <2>1. ~fetched_writeback_data_valid
    BY <1>3, NoCrash
       DEF SubmitDma, D!Submit, EnginesInv, DP!Control, DP!Types
  <2>2. UNCHANGED fetched_writeback_data_valid
    BY <1>3 DEF SubmitDma, D!Submit, D!fetched
  <2> QED BY <2>1, <2>2 DEF DP!FetchedCut
<1>4. CASE RunDma
  BY <1>4, DmaRestSim, DmaWorkSim
<1>5. CASE UNCHANGED systemVars
  BY <1>1, <1>5 DEF systemVars
<1> QED BY <1>2, <1>3, <1>4, <1>5 DEF SystemNext

LEMMA ViewInvNext ==
  ASSUME ViewInv, CommandsFit, [SystemNext]_systemVars
  PROVE  ViewInv'
<1>1. [Next]_vars
  BY CoreSteps
<1>2. Types' /\ Aligned' /\ Held'
  BY <1>1, TypesNext, AlignedNext, HeldNext DEF ViewInv
<1>3. Counts' /\ FenceInv'
  BY CountsNext, FenceInvNext DEF ViewInv
<1>4. EnginesInv' /\ DP!FetchedCut'
  BY EnginesNext, FetchedCutNext DEF ViewInv
<1> QED BY <1>2, <1>3, <1>4 DEF ViewInv

LEMMA ViewStep ==
  ASSUME ViewInv, ValuesListed, [SystemNext]_systemVars
  PROVE  [S!Next]_S!vars
<1>1. CASE CoreStep
  BY <1>1, ElsewhereSim, CoreStutters DEF ViewInv, S!Next, S!CoreCycle
<1>2. CASE SubmissionAccepted \/ SubmissionRefused
  <2>1. Executes(PipeOps)
    BY <1>2 DEF SubmissionAccepted, SubmissionRefused, ExecuteAccepted,
                ExecuteRefused
  <2>2. Command \in S!Instruction
    BY <2>1, CommandListed DEF ViewInv
  <2>3. \/ S!Configure(Command) \/ S!Launch(Command)
        \/ S!RefuseLaunch(Command) \/ S!Fence(Command)
    BY <1>2 DEF SubmissionAccepted, SubmissionRefused
  <2>4. S!CoreCycle
    BY <2>2, <2>3 DEF S!CoreCycle
  <2> QED BY <2>4 DEF S!Next
<1>3. CASE \E p \in S!Pipe : CheckPipe(p)
  BY <1>3 DEF CheckPipe, S!Next, S!SchedulerCycle
<1>4. CASE SubmitDma \/ SubmitBlitter
  <2>1. \E p \in S!Pipe : S!Submit(p)
    BY <1>4, Pipes DEF SubmitDma, SubmitBlitter
  <2> QED BY <2>1 DEF S!Next, S!SchedulerCycle
<1>5. CASE RunDma \/ RunBlitter
  <2>1. \E p \in S!Pipe : S!EngineCycle(p)
    BY <1>5, Pipes, DmaRestSim, DmaWorkSim, BlitterRestSim, BlitterWorkSim
       DEF ViewInv, S!EngineCycle
  <2> QED BY <2>1 DEF S!Next
<1>6. CASE EndOfCycle
  BY <1>6, EndSim DEF S!Next
<1>7. CASE UNCHANGED systemVars
  <2>1. UNCHANGED <<phase, turn, cycle, refused, submitted, schedulerVars,
                    shellVars, dmaVars, blitterVars>>
    BY <1>7 DEF systemVars, vars, cycleVars, executeVars
  <2>2. UNCHANGED <<EngineState, EngineCommand, WorkLeft>>
    BY <2>1, ViewsKept
  <2> QED BY <2>1, <2>2
          DEF S!vars, S!engine, SchedulerPhase, schedulerVars, shellVars
<1> QED BY <1>1, <1>2, <1>3, <1>4, <1>5, <1>6, <1>7 DEF SystemNext

(* The core, the engines and their bytes behave to the scheduler as module *)
(* Scheduler has it of any core and any engines: execute submits one       *)
(* instruction at most in a cycle, and again the one that was refused; and *)
(* the work of a command is bounded when it is taken and one cycle less    *)
(* after each cycle that works on it, whichever lines of the source it     *)
(* still has to read, fetch and write, until the last finishes it.         *)
THEOREM SystemImplementsScheduler ==
  SystemSpec /\ []CommandsFit /\ []ValuesListed => ImplementsScheduler
<1>1. SystemInit => ViewInv /\ S!Init
  BY ViewStart
<1>2. ViewInv /\ CommandsFit /\ [SystemNext]_systemVars => ViewInv'
  BY ViewInvNext
<1>3. ViewInv /\ ValuesListed /\ [SystemNext]_systemVars
      => [S!Next]_S!vars
  BY ViewStep
<1> QED BY <1>1, <1>2, <1>3, PTL DEF SystemSpec, ImplementsScheduler, S!Spec
-----------------------------------------------------------------------------
(***************************************************************************)
(* What is proved of module Scheduler holds of the scheduler of the        *)
(* simulator.                                                              *)
(***************************************************************************)
SP == INSTANCE SchedulerProofs
        WITH phase           <- SchedulerPhase,
             stalled         <- refused,
             retired         <- submitted.op,
             state           <- EngineState,
             working_command <- EngineCommand,
             work_left       <- WorkLeft,
             WorkCycles      <- 1 .. MaxWork,
             Opcodes         <- PipeOps,
             Uninit          <- Garbage

LEMMA SchedulerAssumptions ==
  SP!SchedulerAssumption /\ SP!CycleModulusAssumption
BY SystemAssumption, QueuesAssumption, CycleModulusAssumption
   DEF SP!SchedulerAssumption, SP!CycleModulusAssumption, SP!Setters,
       SP!Launchers, SP!FenceOp, PipeOps, PipeNoReg, PipeOneReg

LEMMA SameCheck ==
  ASSUME NEW p \in S!Pipe, S!SchedulerCycle(p)
  PROVE  SP!SchedulerCycle(p)
<1>1. /\ S!FrontCanRun(queue[p], cycle) <=> SP!FrontCanRun(queue[p], cycle)
      /\ S!CheckPhase(p) = SP!CheckPhase(p)
      /\ S!AfterCheck(p) = SP!AfterCheck(p)
  BY DEF S!FrontCanRun, SP!FrontCanRun, S!CanRun, SP!CanRun, S!CheckPhase,
         SP!CheckPhase, S!AfterCheck, SP!AfterCheck
<1>2. CASE S!NothingToCheck(p)
  BY <1>1, <1>2
     DEF SP!SchedulerCycle, S!NothingToCheck, SP!NothingToCheck, S!engine,
         SP!engine
<1>3. CASE S!Submit(p)
  <2>1. S!Taken(Head(queue[p]).data) = SP!Taken(Head(queue[p]).data)
    BY DEF S!Taken, SP!Taken
  <2>2. S!NextCycle(cycle) = SP!NextCycle(cycle)
    BY DEF S!NextCycle, SP!NextCycle
  <2> QED BY <1>1, <1>3, <2>1, <2>2
          DEF SP!SchedulerCycle, S!Submit, SP!Submit, S!Working, SP!Working
<1>4. CASE S!PutOff(p)
  <2>1. S!IncrementAll(queue[p]) = SP!IncrementAll(queue[p])
    BY DEF S!IncrementAll, SP!IncrementAll, S!NextCycle, SP!NextCycle
  <2> QED BY <1>1, <1>4, <2>1
          DEF SP!SchedulerCycle, S!PutOff, SP!PutOff, S!Working, SP!Working,
              S!engine, SP!engine
<1> QED BY <1>2, <1>3, <1>4 DEF S!SchedulerCycle

LEMMA SameScheduler == ImplementsScheduler => SP!Spec
<1>1. S!Init => SP!Init
  BY DEF S!Init, SP!Init, S!NoInstruction, SP!NoInstruction, S!Pipe, SP!Pipe
<1>2. UNCHANGED S!vars => UNCHANGED SP!vars
  BY DEF S!vars, SP!vars, S!engine, SP!engine
<1>3. S!Pipe = SP!Pipe /\ S!Instruction = SP!Instruction
  BY DEF S!Pipe, SP!Pipe, S!Instruction, SP!Instruction, S!FenceOp,
         SP!FenceOp
<1>4. S!CoreCycle => SP!CoreCycle
  BY <1>3
     DEF S!CoreCycle, SP!CoreCycle, S!Configure, SP!Configure, S!Launch,
         SP!Launch, S!RefuseLaunch, SP!RefuseLaunch, S!Fence, SP!Fence,
         S!CoreElsewhere, SP!CoreElsewhere, S!Submits, SP!Submits,
         S!Accepted, SP!Accepted, S!Refused, SP!Refused, S!FencePasses,
         SP!FencePasses, S!Configured, SP!Configured, S!PipeOf, SP!PipeOf,
         S!FrontendFull, SP!FrontendFull, S!Setters, SP!Setters,
         S!Launchers, SP!Launchers, S!FenceOp, SP!FenceOp, S!NoInstruction,
         SP!NoInstruction, S!engine, SP!engine, S!Rgba, SP!Rgba,
         S!Deferred, SP!Deferred, S!NextCycle, SP!NextCycle
<1>5. \A p \in S!Pipe : S!EngineCycle(p) => SP!EngineCycle(p)
  BY DEF S!EngineCycle, SP!EngineCycle, S!RestCycle, SP!RestCycle,
         S!WorkCycle, SP!WorkCycle, S!FinishCycle, SP!FinishCycle,
         S!RunPhase, SP!RunPhase, S!AfterRun, SP!AfterRun, S!Working,
         SP!Working, S!Callback, SP!Callback
<1>6. S!EndCycle => SP!EndCycle
  BY DEF S!EndCycle, SP!EndCycle, S!engine, SP!engine, S!NextCycle,
         SP!NextCycle
<1>7. [S!Next]_S!vars => [SP!Next]_SP!vars
  BY <1>2, <1>3, <1>4, <1>5, <1>6, SameCheck DEF S!Next, SP!Next
<1> QED BY <1>1, <1>7, PTL DEF ImplementsScheduler, S!Spec, SP!Spec

LEMMA SameService == SP!ImplementsService => S!ImplementsService
<1>1. \A q : S!Waiting(q) = SP!Waiting(q)
  BY DEF S!Waiting, SP!Waiting, S!Taken, SP!Taken
<1>2. /\ S!Pending = SP!Pending
      /\ S!Pending' = SP!Pending'
  BY <1>1 DEF S!Pending, SP!Pending, S!InHand, SP!InHand, S!Working,
              SP!Working, S!Pipe, SP!Pipe
<1>3. SP!Service!Init => S!Service!Init
  BY <1>2 DEF SP!Service!Init, S!Service!Init, SP!Service!Nothing,
              S!Service!Nothing, S!Pipe, SP!Pipe
<1>4. S!Command = SP!Command /\ S!Pipe = SP!Pipe
  BY DEF S!Pipe, SP!Pipe, S!Command, SP!Command, S!DmaCommand,
         SP!DmaCommand, S!BlitterCommand, SP!BlitterCommand, S!Datum,
         SP!Datum, S!Rgba, SP!Rgba
<1>5. \A p : SP!Service!Give(p) => S!Service!Give(p)
  BY <1>2, <1>4
     DEF SP!Service!Give, S!Service!Give, SP!Service!Nothing,
         S!Service!Nothing, SP!Service!Fence, S!Service!Fence
<1>6. \A p : SP!Service!Perform(p) => S!Service!Perform(p)
  BY <1>2, <1>4 DEF SP!Service!Perform, S!Service!Perform
<1>7. SP!Service!Prepare => S!Service!Prepare
  BY <1>2, <1>4
     DEF SP!Service!Prepare, S!Service!Prepare, SP!Service!Nothing,
         S!Service!Nothing, SP!Service!Fence, S!Service!Fence
<1>8. SP!Service!PassFence => S!Service!PassFence
  BY <1>2, <1>4
     DEF SP!Service!PassFence, S!Service!PassFence, SP!Service!Nothing,
         S!Service!Nothing, SP!Service!Fence, S!Service!Fence
<1>9. SP!Service!EndCycle => S!Service!EndCycle
  BY <1>2, <1>4
     DEF SP!Service!EndCycle, S!Service!EndCycle, SP!Service!Nothing,
         S!Service!Nothing
<1>10. UNCHANGED SP!Service!vars => UNCHANGED S!Service!vars
  BY <1>2 DEF SP!Service!vars, S!Service!vars
<1>11. [SP!Service!Next]_SP!Service!vars => [S!Service!Next]_S!Service!vars
  BY <1>4, <1>5, <1>6, <1>7, <1>8, <1>9, <1>10
     DEF SP!Service!Next, S!Service!Next
<1> QED BY <1>3, <1>11, PTL
        DEF S!ImplementsService, SP!ImplementsService, S!Service!Spec,
            SP!Service!Spec

(* In the whole simulator every command that the program launches is       *)
(* performed once, by its pipeline in the order of the program, and a      *)
(* fence leaves execute only when none is left to perform.                 *)
THEOREM SystemServes ==
  SystemSpec /\ []CommandsFit /\ []ValuesListed => S!ImplementsService
<1>1. SP!Spec => SP!ImplementsService
  BY SchedulerAssumptions, SP!ServiceProvided
<1> QED BY <1>1, SystemImplementsScheduler, SameScheduler, SameService, PTL

(* The core and the scheduler keep their types in the whole simulator. In  *)
(* particular a callback never finds a count at zero, which dma_complete   *)
(* and blitter_complete assert; the fields of every queued command are     *)
(* values that the program submitted; and the work left to an engine is a  *)
(* number, which a fetched line never takes below zero.                    *)
THEOREM SystemTypes ==
  SystemSpec /\ []CommandsFit /\ []ValuesListed => [](TypeOK /\ S!TypeOK)
<1>1. SP!Spec => []SP!TypeOK
  BY SchedulerAssumptions, SP!TypeCorrect
<1>2. SP!TypeOK => S!TypeOK
  <2>1. /\ S!Pipe = SP!Pipe /\ S!Command = SP!Command
        /\ S!DmaCommand = SP!DmaCommand
        /\ S!BlitterCommand = SP!BlitterCommand
        /\ S!Instruction = SP!Instruction /\ S!Cycles = SP!Cycles
        /\ S!Phases = SP!Phases /\ S!NoInstruction = SP!NoInstruction
    BY DEF S!Pipe, SP!Pipe, S!Command, SP!Command, S!DmaCommand,
           SP!DmaCommand, S!BlitterCommand, SP!BlitterCommand, S!Datum,
           SP!Datum, S!Rgba, SP!Rgba, S!Instruction, SP!Instruction,
           S!FenceOp, SP!FenceOp, S!Cycles, SP!Cycles, S!Phases, SP!Phases,
           S!NoInstruction, SP!NoInstruction
  <2> QED BY <2>1 DEF S!TypeOK, SP!TypeOK
<1> QED BY <1>1, <1>2, CoreTypes, SystemRunsCore, SystemImplementsScheduler,
           SameScheduler, PTL

(* The counts that a fence reads are exact: whatever the engines take, the *)
(* outstanding commands of a pipeline are those in its queue, the one at   *)
(* work and the one whose callback it owes.                                *)
THEOREM SystemCountsExact ==
  SystemSpec /\ []CommandsFit /\ []ValuesListed => []S!OutstandingExact
<1>1. SP!Spec => []SP!OutstandingExact
  BY SchedulerAssumptions, SP!Accounting
<1>2. SP!OutstandingExact => S!OutstandingExact
  BY DEF SP!OutstandingExact, S!OutstandingExact, SP!InProgress,
         S!InProgress, SP!Owed, S!Owed, SP!Working, S!Working, SP!Pipe,
         S!Pipe
<1> QED BY <1>1, <1>2, SystemImplementsScheduler, SameScheduler, PTL

(* With room for at most two commands in a queue none is left in it when   *)
(* its cycle has passed, however long the engines work.                    *)
THEOREM SystemLosesNothing ==
  ASSUME QueueSize <= 2, BlitterDepth <= 2
  PROVE  SystemSpec /\ []CommandsFit /\ []ValuesListed
         => []S!NoCommandLeftBehind
<1>1. SP!Spec => []SP!NoCommandLeftBehind
  BY SchedulerAssumptions, SP!NothingLeftBehind
<1>2. SP!NoCommandLeftBehind => S!NoCommandLeftBehind
  BY DEF SP!NoCommandLeftBehind, S!NoCommandLeftBehind, SP!Pipe, S!Pipe
<1> QED BY <1>1, <1>2, SystemImplementsScheduler, SameScheduler, PTL
-----------------------------------------------------------------------------
(***************************************************************************)
(* The promise.  Memory as the program was promised it is memory after the *)
(* commands that are pending: a chain of contents of memory leads there,   *)
(* one for each DMA command that is still to be performed, in which what   *)
(* the blitter is to draw is drawn already.  The bytes that the pipelines  *)
(* compete for are uncertain all along.                                    *)
(***************************************************************************)
(* DMA commands that do at the end what they would at once: a copy that    *)
(* does not read what it has written, and a set of whole lines.            *)
ExactTransfers ==
  {x \in Transfers :
     /\ x.operation = "COPY" =>
          ~(x.source < x.dest /\ x.dest <= x.source + x.length - 1)
     /\ x.operation = "SET" => x.length % Width = 0}

(* The DMA commands of the program, as the frontend puts them together,    *)
(* are such commands.                                                      *)
CommandsExact ==
  \A k \in DOMAIN queue["DMA"] : queue["DMA"][k].data \in ExactTransfers

List(q) == Len(q) \in Nat /\ DOMAIN q = 1 .. Len(q)

(* A list without its first element.                                       *)
Shorter(w2, w) ==
  /\ List(w2) /\ Len(w) # 0 /\ Len(w2) = Len(w) - 1
  /\ \A k \in DOMAIN w2 : w2[k] = w[k + 1]

DrawnBy(q) == UNION {Drawn(q[k]) : k \in DOMAIN q}

ColourAt(b, a) ==
  B!ByteOf(b.colour, IF b.operation = "CLEAR" THEN 3 - (a % 4)
                     ELSE a - B!PixelAddress(b.xpos, b.ypos))

(* Each content of memory is the one before it with a command performed,   *)
(* and the last one is m.                                                  *)
Chain(moves, r, m, uncertain) ==
  /\ DOMAIN r = 1 .. Len(moves) + 1 /\ r[Len(moves) + 1] = m
  /\ \A k \in DOMAIN r : DOMAIN r[k] = D!Address
  /\ \A k \in 1 .. Len(moves) : \A a \in D!Address :
       a \notin uncertain => r[k + 1][a] = Performed(r[k], moves[k])[a]

(* The DMA commands meet nothing that is to be drawn but what is uncertain. *)
Apart(moves, draws, uncertain) ==
  \A k \in DOMAIN moves : Disturbed(moves[k], DrawnBy(draws)) \subseteq uncertain

(* What is drawn last at an address is there.                              *)
Coloured(draws, m, uncertain) ==
  \A j \in DOMAIN draws : \A a \in Drawn(draws[j]) :
    a \notin uncertain
    /\ (\A i \in DOMAIN draws : j < i => a \notin Drawn(draws[i]))
      => m[a] = ColourAt(draws[j], a)

Promises(moves, draws, r, m, uncertain) ==
  /\ List(moves) /\ List(draws)
  /\ \A k \in DOMAIN moves : moves[k] \in ExactTransfers
  /\ \A k \in DOMAIN draws : draws[k] \in Drawings
  /\ Chain(moves, r, m, uncertain)
  /\ Apart(moves, draws, uncertain)
  /\ Coloured(draws, r[1], uncertain)
-----------------------------------------------------------------------------
LEMMA SameAddress ==
  /\ D!Address = DP!Address /\ D!Address = BP!Address
  /\ \A a : a \in D!Address => a \in Nat
  BY SystemAssumption DEF D!Address, DP!Address, BP!Address

(* What a drawing leaves in memory.                                        *)
LEMMA DrawPerformed ==
  ASSUME NEW b \in Drawings, NEW m, DOMAIN m = D!Address
  PROVE  /\ DOMAIN Performed(m, b) = D!Address
         /\ Drawn(b) \subseteq D!Address
         /\ \A a \in D!Address :
              Performed(m, b)[a] = IF a \in Drawn(b) THEN ColourAt(b, a)
                                                     ELSE m[a]
<1>1. /\ b.operation \in {"PIXEL", "CLEAR"} /\ b.xpos \in Nat /\ b.ypos \in Nat
      /\ b.operation = "PIXEL" => b.xpos < FrameWidth /\ b.ypos < FrameHeight
  BY DEF Drawings, BP!Command, InFrame
<1>2. CASE b.operation = "PIXEL"
  <2> DEFINE p == B!PixelAddress(b.xpos, b.ypos)
  <2>1. /\ p \in Nat /\ p % 4 = 0
        /\ \A k \in 0 .. 3 : p + (3 - k) \in D!Address
    <3>1. /\ b.xpos + b.ypos * FrameWidth \in Nat
          /\ b.xpos + b.ypos * FrameWidth < BP!Pixels
      BY <1>1, <1>2, EngineAssumptions, BP!RowsEnd
    <3>2. p = BP!At(b.xpos + b.ypos * FrameWidth)
      BY DEF B!PixelAddress, B!PixelBytes, BP!At
    <3> HIDE DEF p
    <3> QED BY <3>1, <3>2, EngineAssumptions, BP!PixelInFrame, SameAddress
  <2>2. Drawn(b) = p .. p + 3
    BY <1>2 DEF Drawn
  <2>3. Performed(m, b) = B!WriteWord(m, p, b.colour)
    BY <1>2 DEF Performed
  <2>4. \A a : ColourAt(b, a) = B!ByteOf(b.colour, a - p)
    BY <1>2 DEF ColourAt
  <2> HIDE DEF p
  <2>5. p - (p % 4) = p
    BY <2>1
  <2>6. Drawn(b) \subseteq D!Address
    <3> SUFFICES ASSUME NEW a \in p .. p + 3 PROVE a \in D!Address
      BY <2>2
    <3> DEFINE k == 3 - (a - p)
    <3>1. k \in 0 .. 3 /\ p + (3 - k) = a
      BY <2>1
    <3> HIDE DEF k
    <3> QED BY <2>1, <3>1
  <2> QED BY <2>2, <2>3, <2>4, <2>5, <2>6 DEF B!WriteWord
<1>3. CASE b.operation = "CLEAR"
  <2>1. Drawn(b) \subseteq D!Address
    BY <1>3, SystemAssumption
       DEF Drawn, B!FrameBytes, B!PixelBytes, D!Address
  <2> QED BY <1>3, <2>1 DEF Performed, ColourAt
<1> QED BY <1>1, <1>2, <1>3

(* What a transfer leaves in memory.                                       *)
LEMMA MovePerformed ==
  ASSUME NEW d \in Transfers, NEW m, DOMAIN m = D!Address
  PROVE  /\ DOMAIN Performed(m, d) = D!Address
         /\ \A a \in D!Address :
              Performed(m, d)[a] =
                IF a \in Target(d)
                THEN IF d.operation = "COPY" THEN m[d.source + (a - d.dest)]
                                             ELSE d.value
                ELSE m[a]
BY DEF Performed, Transfers

(* The source of a byte that is copied.                                    *)
LEMMA CopySource ==
  ASSUME NEW d \in Transfers, d.operation = "COPY", NEW a \in Target(d)
  PROVE  /\ a \in D!Address /\ d.source + (a - d.dest) \in D!Address
         /\ d.source + (a - d.dest) \in Source(d)
         /\ d.dest + ((d.source + (a - d.dest)) - d.source) = a
BY SystemAssumption DEF Transfers, Target, Source, D!Address

(* Where a byte is copied to, element by element.                          *)
LEMMA CopyOfMember ==
  ASSUME NEW d, NEW area, NEW a
  PROVE  a \in CopyOf(d, area) <=>
           /\ d.operation = "COPY"
           /\ \E s \in area : s \in Source(d) /\ a = d.dest + (s - d.source)
BY DEF CopyOf

LEMMA DisturbedMember ==
  ASSUME NEW d, NEW area, NEW a
  PROVE  a \in Disturbed(d, area) <=>
           \/ /\ a \in area
              /\ \E t \in Target(d) : D!LineOf(t) = D!LineOf(a)
           \/ a \in CopyOf(d, area)
BY DEF Disturbed

(* A transfer that has nothing of area disturbed leaves it alone, and      *)
(* copies nothing of it.                                                   *)
LEMMA NotDisturbed ==
  ASSUME NEW d \in Transfers, NEW area, NEW uncertain,
         Disturbed(d, area) \subseteq uncertain,
         NEW a \in Target(d), a \notin uncertain
  PROVE  /\ a \notin area
         /\ d.operation = "COPY" => d.source + (a - d.dest) \notin area
<1>1. a \notin Disturbed(d, area)
  OBVIOUS
<1>2. ASSUME d.operation = "COPY", d.source + (a - d.dest) \in area
      PROVE  FALSE
  <2>1. PICK s \in area : s \in Source(d) /\ d.dest + (s - d.source) = a
    BY <1>2, CopySource
  <2> QED BY <1>1, <1>2, <2>1, CopyOfMember, DisturbedMember
<1> QED BY <1>1, <1>2, DisturbedMember

(* What is disturbed grows with what is drawn.                             *)
LEMMA DisturbedGrows ==
  ASSUME NEW d, NEW area, NEW area2, area \subseteq area2
  PROVE  Disturbed(d, area) \subseteq Disturbed(d, area2)
BY CopyOfMember, DisturbedMember

LEMMA DisturbedUnion ==
  ASSUME NEW d, NEW area, NEW area2
  PROVE  Disturbed(d, area \cup area2)
           = Disturbed(d, area) \cup Disturbed(d, area2)
<1>1. \A a : a \in Disturbed(d, area \cup area2) <=>
              a \in Disturbed(d, area) \/ a \in Disturbed(d, area2)
  BY CopyOfMember, DisturbedMember
<1> QED BY <1>1

(* The same, of the bytes of area that d writes to.                        *)
LEMMA ApartFrom ==
  ASSUME NEW moves, NEW draws, NEW uncertain, Apart(moves, draws, uncertain),
         NEW k \in DOMAIN moves, moves[k] \in Transfers,
         NEW a \in Target(moves[k]), a \notin uncertain
  PROVE  /\ a \notin DrawnBy(draws)
         /\ moves[k].operation = "COPY" =>
              moves[k].source + (a - moves[k].dest) \notin DrawnBy(draws)
<1>1. Disturbed(moves[k], DrawnBy(draws)) \subseteq uncertain
  BY DEF Apart
<1> QED BY <1>1, NotDisturbed

LEMMA DrawnMember ==
  ASSUME NEW q, NEW a
  PROVE  a \in DrawnBy(q) <=> \E k \in DOMAIN q : a \in Drawn(q[k])
BY DEF DrawnBy
-----------------------------------------------------------------------------
(* More becomes uncertain.                                                 *)
LEMMA PromisesGrow ==
  ASSUME NEW moves, NEW draws, NEW r, NEW m, NEW old, NEW uncertain,
         old \subseteq uncertain, Promises(moves, draws, r, m, old)
  PROVE  Promises(moves, draws, r, m, uncertain)
BY DEF Promises, Chain, Apart, Coloured

(* A transfer is to be performed after the others.                         *)
LEMMA PromisesMove ==
  ASSUME NEW moves, NEW draws, NEW r, NEW m, NEW uncertain,
         Promises(moves, draws, r, m, uncertain), NEW d \in ExactTransfers,
         Disturbed(d, DrawnBy(draws)) \subseteq uncertain,
         NEW moves2, List(moves2), Len(moves2) = Len(moves) + 1,
         moves2[Len(moves) + 1] = d,
         \A k \in DOMAIN moves : moves2[k] = moves[k]
  PROVE  \E r2 : /\ Promises(moves2, draws, r2, Performed(m, d), uncertain)
                 /\ r2[1] = r[1]
<1> DEFINE n == Len(moves)
           r2 == [k \in 1 .. n + 2 |-> IF k <= n + 1 THEN r[k]
                                                     ELSE Performed(m, d)]
<1>1. /\ n \in Nat /\ DOMAIN moves = 1 .. n /\ DOMAIN moves2 = 1 .. n + 1
      /\ d \in Transfers
      /\ DOMAIN r = 1 .. n + 1 /\ r[n + 1] = m
      /\ \A k \in 1 .. n + 1 : DOMAIN r[k] = D!Address
      /\ \A k \in 1 .. n : \A a \in D!Address :
           a \notin uncertain => r[k + 1][a] = Performed(r[k], moves[k])[a]
  BY DEF Promises, List, Chain, ExactTransfers
<1> HIDE DEF n
<1>2. /\ DOMAIN r2 = 1 .. n + 2 /\ r2[n + 2] = Performed(m, d)
      /\ \A k \in 1 .. n + 1 : r2[k] = r[k]
  BY <1>1
<1> HIDE DEF r2
<1>3. DOMAIN Performed(m, d) = D!Address
  BY <1>1, MovePerformed
<1>4. Chain(moves2, r2, Performed(m, d), uncertain)
  <2>1. DOMAIN r2 = 1 .. Len(moves2) + 1
        /\ r2[Len(moves2) + 1] = Performed(m, d)
    BY <1>1, <1>2 DEF n
  <2>2. ASSUME NEW k \in DOMAIN r2 PROVE DOMAIN r2[k] = D!Address
    BY <1>1, <1>2, <1>3
  <2>3. ASSUME NEW k \in 1 .. n + 1, NEW a \in D!Address, a \notin uncertain
        PROVE  r2[k + 1][a] = Performed(r2[k], moves2[k])[a]
    <3>1. CASE k = n + 1
      <4>1. r2[k + 1] = Performed(m, d) /\ r2[k] = m /\ moves2[k] = d
        BY <1>1, <1>2, <3>1 DEF n
      <4> QED BY <4>1
    <3>2. CASE k # n + 1
      <4>1. k \in 1 .. n /\ k + 1 \in 1 .. n + 1
        BY <1>1, <3>2
      <4>2. r2[k + 1] = r[k + 1] /\ r2[k] = r[k] /\ moves2[k] = moves[k]
        BY <1>1, <1>2, <4>1
      <4> QED BY <1>1, <2>3, <4>1, <4>2
    <3> QED BY <3>1, <3>2
  <2> QED BY <2>1, <2>2, <2>3 DEF Chain, n
<1>5. Apart(moves2, draws, uncertain)
  <2> SUFFICES ASSUME NEW k \in 1 .. n + 1
               PROVE  Disturbed(moves2[k], DrawnBy(draws)) \subseteq uncertain
    BY <1>1 DEF Apart
  <2>1. k = n + 1 => moves2[k] = d
    BY DEF n
  <2>2. k # n + 1 => k \in DOMAIN moves /\ moves2[k] = moves[k]
    BY <1>1
  <2> QED BY <2>1, <2>2 DEF Promises, Apart
<1>6. Coloured(draws, r2[1], uncertain) /\ r2[1] = r[1]
  BY <1>1, <1>2 DEF Promises, Coloured
<1>7. \A k \in DOMAIN moves2 : moves2[k] \in ExactTransfers
  BY <1>1 DEF Promises, n
<1> QED BY <1>4, <1>5, <1>6, <1>7 DEF Promises

(* What is drawn, with one drawing more.                                   *)
LEMMA DrawnLonger ==
  ASSUME NEW draws, List(draws), NEW b,
         NEW draws2, List(draws2), Len(draws2) = Len(draws) + 1,
         draws2[Len(draws) + 1] = b,
         \A k \in DOMAIN draws : draws2[k] = draws[k]
  PROVE  DrawnBy(draws2) = DrawnBy(draws) \cup Drawn(b)
<1> DEFINE n == Len(draws)
<1>1. n \in Nat /\ DOMAIN draws = 1 .. n /\ DOMAIN draws2 = 1 .. n + 1
  BY DEF List
<1>2. draws2[n + 1] = b /\ \A k \in 1 .. n : draws2[k] = draws[k]
  BY <1>1
<1> HIDE DEF n
<1>3. ASSUME NEW a PROVE a \in DrawnBy(draws2) <=>
                           a \in DrawnBy(draws) \cup Drawn(b)
  BY <1>1, <1>2, DrawnMember
<1> QED BY <1>3

(* A drawing is to be performed after the others: all the contents are as  *)
(* if it had been done before.                                             *)
LEMMA PromisesDraw ==
  ASSUME NEW moves, NEW draws, NEW r, NEW m, NEW uncertain,
         Promises(moves, draws, r, m, uncertain), NEW b \in Drawings,
         NEW draws2, List(draws2), Len(draws2) = Len(draws) + 1,
         draws2[Len(draws) + 1] = b,
         \A k \in DOMAIN draws : draws2[k] = draws[k],
         Apart(moves, draws2, uncertain)
  PROVE  \E r2 : /\ Promises(moves, draws2, r2, Performed(m, b), uncertain)
                 /\ r2[1] = Performed(r[1], b)
<1> DEFINE n == Len(draws)
           r2 == [k \in DOMAIN r |-> Performed(r[k], b)]
<1>1. /\ n \in Nat /\ DOMAIN draws = 1 .. n /\ DOMAIN draws2 = 1 .. n + 1
      /\ Len(moves) \in Nat /\ DOMAIN moves = 1 .. Len(moves)
      /\ DOMAIN r = 1 .. Len(moves) + 1 /\ r[Len(moves) + 1] = m
      /\ \A k \in DOMAIN r : DOMAIN r[k] = D!Address
      /\ \A k \in 1 .. Len(moves) : \A a \in D!Address :
           a \notin uncertain => r[k + 1][a] = Performed(r[k], moves[k])[a]
      /\ \A k \in DOMAIN moves : moves[k] \in Transfers
  BY DEF Promises, List, Chain, ExactTransfers
<1>2. draws2[n + 1] = b /\ \A k \in 1 .. n : draws2[k] = draws[k]
  BY <1>1
<1> HIDE DEF n
<1>3. DrawnBy(draws2) = DrawnBy(draws) \cup Drawn(b)
  BY DrawnLonger DEF Promises
<1>4. \A k \in DOMAIN r : /\ r2[k] = Performed(r[k], b)
                          /\ DOMAIN r2[k] = D!Address
                          /\ \A a \in D!Address :
                               r2[k][a] = IF a \in Drawn(b) THEN ColourAt(b, a)
                                                            ELSE r[k][a]
  BY <1>1, DrawPerformed
<1>5. DOMAIN r2 = DOMAIN r
  OBVIOUS
<1> HIDE DEF r2
<1>6. Apart(moves, draws2, uncertain)
  OBVIOUS
<1>7. ASSUME NEW k \in 1 .. Len(moves), NEW a \in D!Address, a \notin uncertain
      PROVE  r2[k + 1][a] = Performed(r2[k], moves[k])[a]
  <2> DEFINE d == moves[k]
             s == d.source + (a - d.dest)
  <2>1. /\ k \in DOMAIN r /\ k + 1 \in DOMAIN r /\ k \in DOMAIN moves
        /\ d \in Transfers
    BY <1>1
  <2>2. /\ DOMAIN r[k] = D!Address /\ DOMAIN r2[k] = D!Address
        /\ r[k + 1][a] = Performed(r[k], d)[a]
        /\ r2[k + 1][a] = IF a \in Drawn(b) THEN ColourAt(b, a)
                                            ELSE r[k + 1][a]
    BY <1>1, <1>4, <1>7, <2>1
  <2>3. CASE a \in Target(d)
    <3>1. /\ a \notin Drawn(b)
          /\ d.operation = "COPY" => s \notin Drawn(b) /\ s \in D!Address
      BY <1>3, <1>6, <1>7, <2>1, <2>3, ApartFrom, CopySource
    <3>2. /\ Performed(r[k], d)[a] = IF d.operation = "COPY" THEN r[k][s]
                                                             ELSE d.value
          /\ Performed(r2[k], d)[a] = IF d.operation = "COPY" THEN r2[k][s]
                                                              ELSE d.value
      BY <2>1, <2>2, <2>3, MovePerformed
    <3>3. d.operation = "COPY" => r2[k][s] = r[k][s]
      BY <1>4, <2>1, <3>1
    <3> QED BY <2>2, <3>1, <3>2, <3>3
  <2>4. CASE a \notin Target(d)
    <3>1. /\ Performed(r[k], d)[a] = r[k][a]
          /\ Performed(r2[k], d)[a] = r2[k][a]
      BY <2>1, <2>2, <2>4, MovePerformed
    <3> QED BY <1>4, <2>1, <2>2, <3>1
  <2> QED BY <2>3, <2>4
<1>8. Chain(moves, r2, Performed(m, b), uncertain)
  <2>1. r2[Len(moves) + 1] = Performed(m, b)
    BY <1>1, <1>4
  <2> QED BY <1>1, <1>4, <1>5, <1>7, <2>1 DEF Chain
<1>9. 1 \in DOMAIN r
  BY <1>1
<1>10. Coloured(draws2, r2[1], uncertain)
  <2> SUFFICES ASSUME NEW j \in 1 .. n + 1, NEW a \in Drawn(draws2[j]),
                      a \notin uncertain,
                      \A i \in 1 .. n + 1 : j < i => a \notin Drawn(draws2[i])
               PROVE  r2[1][a] = ColourAt(draws2[j], a)
    BY <1>1 DEF Coloured
  <2>1. CASE j = n + 1
    <3>1. a \in D!Address
      BY <1>2, <2>1, <1>9, <1>1, DrawPerformed
    <3> QED BY <1>2, <1>4, <1>9, <2>1, <3>1
  <2>2. CASE j # n + 1
    <3>1. j \in DOMAIN draws /\ draws2[j] = draws[j] /\ a \in Drawn(draws[j])
      BY <1>1, <1>2, <2>2
    <3>2. a \notin Drawn(b)
      BY <1>1, <1>2, <2>2
    <3>3. \A i \in DOMAIN draws : j < i => a \notin Drawn(draws[i])
      BY <1>1, <1>2
    <3>4. r[1][a] = ColourAt(draws[j], a)
      BY <3>1, <3>3 DEF Promises, Coloured
    <3>5. a \in D!Address
      <4>1. draws[j] \in Drawings
        BY <3>1 DEF Promises
      <4> QED BY <1>1, <1>9, <3>1, <4>1, DrawPerformed
    <3> QED BY <1>4, <1>9, <3>1, <3>2, <3>4, <3>5
  <2> QED BY <2>1, <2>2
<1>11. \A k \in DOMAIN draws2 : draws2[k] \in Drawings
  BY <1>1, <1>2 DEF Promises
<1> QED BY <1>4, <1>6, <1>8, <1>9, <1>10, <1>11 DEF Promises

(* The first transfer has been performed.                                  *)
LEMMA PromisesMoved ==
  ASSUME NEW moves, NEW draws, NEW r, NEW m, NEW uncertain,
         Promises(moves, draws, r, m, uncertain),
         NEW moves2, Shorter(moves2, moves)
  PROVE  \E r2 : /\ Promises(moves2, draws, r2, m, uncertain)
                 /\ r2[1] = r[2]
                 /\ \A a \in D!Address : a \notin uncertain =>
                      r2[1][a] = Performed(r[1], moves[1])[a]
<1> DEFINE n == Len(moves)
           r2 == [k \in 1 .. n |-> r[k + 1]]
<1>1. /\ n \in Nat \ {0} /\ DOMAIN moves = 1 .. n /\ DOMAIN moves2 = 1 .. n - 1
      /\ DOMAIN r = 1 .. n + 1 /\ r[n + 1] = m
      /\ \A k \in DOMAIN r : DOMAIN r[k] = D!Address
      /\ \A k \in 1 .. n : \A a \in D!Address :
           a \notin uncertain => r[k + 1][a] = Performed(r[k], moves[k])[a]
      /\ \A k \in DOMAIN moves : moves[k] \in Transfers
      /\ \A k \in DOMAIN moves2 : moves2[k] = moves[k + 1]
  BY DEF Promises, List, Chain, ExactTransfers, Shorter
<1>2. Len(moves2) = n - 1
  BY DEF Shorter
<1> HIDE DEF n
<1>3. DOMAIN r2 = 1 .. n /\ \A k \in 1 .. n : r2[k] = r[k + 1]
  OBVIOUS
<1> HIDE DEF r2
<1>4. r2[1] = r[2] /\ 1 \in 1 .. n /\ 1 \in DOMAIN moves /\ 1 + 1 = 2
  BY <1>1, <1>3
<1>5. \A a \in D!Address : a \notin uncertain =>
        r2[1][a] = Performed(r[1], moves[1])[a]
  BY <1>1, <1>4
<1>6. Chain(moves2, r2, m, uncertain)
  <2>1. r2[n] = m
    BY <1>1, <1>3
  <2>2. \A k \in DOMAIN r2 : DOMAIN r2[k] = D!Address
    BY <1>1, <1>3
  <2>3. ASSUME NEW k \in 1 .. n - 1, NEW a \in D!Address, a \notin uncertain
        PROVE  r2[k + 1][a] = Performed(r2[k], moves2[k])[a]
    <3>1. /\ k + 1 \in 1 .. n /\ r2[k + 1] = r[(k + 1) + 1]
          /\ r2[k] = r[k + 1] /\ moves2[k] = moves[k + 1]
      BY <1>1, <1>3
    <3> QED BY <1>1, <2>3, <3>1
  <2> QED BY <1>1, <1>2, <1>3, <2>1, <2>2, <2>3 DEF Chain
<1>7. Apart(moves2, draws, uncertain)
  <2>1. \A k \in 1 .. n - 1 : k + 1 \in DOMAIN moves
    BY <1>1
  <2> QED BY <1>1, <2>1 DEF Promises, Apart
<1>8. Coloured(draws, r2[1], uncertain)
  <2> SUFFICES ASSUME NEW j \in DOMAIN draws, NEW a \in Drawn(draws[j]),
                      a \notin uncertain,
                      \A i \in DOMAIN draws : j < i => a \notin Drawn(draws[i])
               PROVE  r2[1][a] = ColourAt(draws[j], a)
    BY DEF Coloured
  <2>1. r[1][a] = ColourAt(draws[j], a)
    BY DEF Promises, Coloured
  <2>2. 1 \in DOMAIN r /\ DOMAIN r[1] = D!Address
    BY <1>1
  <2>3. a \in D!Address
    BY <2>2, DrawPerformed DEF Promises
  <2>4. a \notin Target(moves[1])
    <3>1. a \in DrawnBy(draws)
      BY DrawnMember
    <3> QED BY <1>1, <1>4, <3>1, ApartFrom DEF Promises
  <2>5. Performed(r[1], moves[1])[a] = r[1][a]
    BY <1>1, <1>4, <2>2, <2>3, <2>4, MovePerformed
  <2> QED BY <1>5, <2>1, <2>3, <2>5
<1>9. \A k \in DOMAIN moves2 : moves2[k] \in ExactTransfers
  <2>1. \A k \in 1 .. n - 1 : k + 1 \in DOMAIN moves
    BY <1>1
  <2> QED BY <1>1, <2>1 DEF Promises
<1> QED BY <1>4, <1>5, <1>6, <1>7, <1>8, <1>9 DEF Promises, Shorter

(* The first drawing has been performed.                                   *)
LEMMA PromisesDrawn ==
  ASSUME NEW moves, NEW draws, NEW r, NEW m, NEW uncertain,
         Promises(moves, draws, r, m, uncertain),
         NEW draws2, Shorter(draws2, draws)
  PROVE  /\ Promises(moves, draws2, r, m, uncertain)
         /\ DrawnBy(draws) = Drawn(draws[1]) \cup DrawnBy(draws2)
         /\ \A a \in Drawn(draws[1]) :
              a \notin uncertain \cup DrawnBy(draws2) =>
                r[1][a] = ColourAt(draws[1], a)
<1> DEFINE n == Len(draws)
<1>1. n \in Nat \ {0} /\ DOMAIN draws = 1 .. n /\ DOMAIN draws2 = 1 .. n - 1
      /\ \A k \in DOMAIN draws2 : draws2[k] = draws[k + 1]
  BY DEF Promises, List, Shorter
<1> HIDE DEF n
<1>2. \A k \in 1 .. n - 1 : k + 1 \in 1 .. n /\ draws2[k] = draws[k + 1]
  BY <1>1
<1>3. \A i \in 1 .. n : 1 < i => i - 1 \in 1 .. n - 1 /\ draws2[i - 1] = draws[i]
  BY <1>1, <1>2
<1>4. DrawnBy(draws) = Drawn(draws[1]) \cup DrawnBy(draws2)
  <2>1. ASSUME NEW a PROVE a \in DrawnBy(draws) <=>
                             a \in Drawn(draws[1]) \cup DrawnBy(draws2)
    <3>1. ASSUME NEW i \in 1 .. n, a \in Drawn(draws[i])
          PROVE  a \in Drawn(draws[1]) \/ \E k \in 1 .. n - 1 : a \in Drawn(draws2[k])
      <4>1. i = 1 \/ 1 < i
        BY <1>1
      <4> QED BY <1>3, <3>1, <4>1
    <3>2. 1 \in 1 .. n
      BY <1>1
    <3> QED BY <1>1, <1>2, <3>1, <3>2, DrawnMember
  <2> QED BY <2>1
<1>5. Apart(moves, draws2, uncertain)
  <2>1. \A k \in DOMAIN moves : Disturbed(moves[k], DrawnBy(draws2))
                                  \subseteq Disturbed(moves[k], DrawnBy(draws))
    BY <1>4, DisturbedGrows
  <2> QED BY <2>1 DEF Promises, Apart
<1>6. Coloured(draws2, r[1], uncertain)
  <2> SUFFICES ASSUME NEW j \in 1 .. n - 1, NEW a \in Drawn(draws2[j]),
                      a \notin uncertain,
                      \A i \in 1 .. n - 1 : j < i => a \notin Drawn(draws2[i])
               PROVE  r[1][a] = ColourAt(draws2[j], a)
    BY <1>1 DEF Coloured
  <2>1. j + 1 \in DOMAIN draws /\ draws[j + 1] = draws2[j]
    BY <1>1, <1>2
  <2>2. ASSUME NEW i \in DOMAIN draws, j + 1 < i PROVE a \notin Drawn(draws[i])
    <3>1. /\ i - 1 \in 1 .. n - 1 /\ j < i - 1 /\ draws2[i - 1] = draws[i]
      BY <1>1, <1>3, <2>2
    <3> QED BY <3>1
  <2> QED BY <2>1, <2>2 DEF Promises, Coloured
<1>7. ASSUME NEW a \in Drawn(draws[1]), a \notin uncertain,
             a \notin DrawnBy(draws2)
      PROVE  r[1][a] = ColourAt(draws[1], a)
  <2>1. ASSUME NEW i \in DOMAIN draws, 1 < i PROVE a \notin Drawn(draws[i])
    BY <1>1, <1>3, <1>7, <2>1, DrawnMember
  <2>2. 1 \in DOMAIN draws
    BY <1>1
  <2> QED BY <1>7, <2>1, <2>2 DEF Promises, Coloured
<1>8. \A k \in DOMAIN draws2 : draws2[k] \in Drawings
  BY <1>1, <1>2 DEF Promises
<1> QED BY <1>4, <1>5, <1>6, <1>7, <1>8 DEF Promises, Shorter
-----------------------------------------------------------------------------
(***************************************************************************)
(* The pending commands of a pipeline: x is at work if busy, and the ones  *)
(* of q wait.                                                              *)
(***************************************************************************)
Lined(w, q, busy, x) ==
  /\ \E T : w \in Seq(T)
  /\ Len(w) = (IF busy THEN 1 ELSE 0) + Len(q)
  /\ busy => w[1] = x
  /\ \A k \in 1 .. Len(q) :
       w[(IF busy THEN 1 ELSE 0) + k] = S!Taken(q[k].data)

LEMMA QueuedData ==
  ASSUME NEW q, Queued(q)
  PROVE  Len(q) \in Nat /\ DOMAIN q = 1 .. Len(q)
  BY LenProperties DEF Queued

LEMMA LinedUp ==
  ASSUME NEW q, Queued(q), NEW busy, NEW x
  PROVE  Lined((IF busy THEN <<x>> ELSE << >>) \o S!Waiting(q), q, busy, x)
<1> DEFINE T == {S!Taken(q[k].data) : k \in 1 .. Len(q)} \cup {x}
           h == IF busy THEN <<x>> ELSE << >>
           n == IF busy THEN 1 ELSE 0
           v == S!Waiting(q)
<1>1. /\ v \in [1 .. Len(q) -> T] /\ Len(q) \in Nat
      /\ \A k \in 1 .. Len(q) : v[k] = S!Taken(q[k].data)
  BY QueuedData DEF S!Waiting
<1>2. h \in Seq(T) /\ Len(h) = n /\ (busy => h[1] = x)
  <2>1. x \in T
    OBVIOUS
  <2> HIDE DEF T
  <2>2. <<x>> \in Seq(T) /\ Len(<<x>>) = 1 /\ <<x>>[1] = x
    BY <2>1
  <2>3. << >> \in Seq(T) /\ Len(<< >>) = 0
    BY EmptySeq
  <2> QED BY <2>2, <2>3
<1> HIDE DEF T, h, v
<1>3. v \in Seq(T) /\ Len(v) = Len(q)
  <2>1. v \in Seq(T)
    BY <1>1, SeqDef
  <2>2. DOMAIN v = 1 .. Len(q) /\ DOMAIN v = 1 .. Len(v) /\ Len(v) \in Nat
    BY <1>1, <2>1, LenProperties
  <2> QED BY <1>1, <2>1, <2>2
<1>4. /\ h \o v \in Seq(T) /\ Len(h \o v) = n + Len(q)
      /\ \A i \in 1 .. n + Len(q) :
           (h \o v)[i] = IF i <= n THEN h[i] ELSE v[i - n]
  <2>1. /\ h \o v \in Seq(T) /\ Len(h \o v) = Len(h) + Len(v)
        /\ \A i \in 1 .. Len(h) + Len(v) :
             (h \o v)[i] = IF i <= Len(h) THEN h[i] ELSE v[i - Len(h)]
    BY <1>2, <1>3, ConcatProperties
  <2> QED BY <1>2, <1>3, <2>1
<1>5. busy => (h \o v)[1] = x
  BY <1>1, <1>2, <1>4
<1>6. \A k \in 1 .. Len(q) : (h \o v)[n + k] = S!Taken(q[k].data)
  <2> TAKE k \in 1 .. Len(q)
  <2>1. /\ n \in Nat /\ n + k \in 1 .. n + Len(q) /\ ~(n + k <= n)
        /\ (n + k) - n = k
    BY <1>1
  <2> HIDE DEF n
  <2> QED BY <1>1, <1>4, <2>1
<1> QED BY <1>4, <1>5, <1>6 DEF Lined, h, v

LEMMA LinedList ==
  ASSUME NEW w, NEW q, NEW busy, NEW x, Lined(w, q, busy, x)
  PROVE  List(w)
  BY LenProperties DEF Lined, List

LEMMA LinedEqual ==
  ASSUME NEW w, NEW w2, \E T : w \in Seq(T), \E T : w2 \in Seq(T),
         Len(w) = Len(w2), \A k \in 1 .. Len(w) : w[k] = w2[k]
  PROVE  w = w2
<1>1. PICK T : w \in Seq(T)
  OBVIOUS
<1>2. PICK U : w2 \in Seq(U)
  OBVIOUS
<1>3. T \subseteq T \cup U /\ U \subseteq T \cup U
  OBVIOUS
<1>4. w \in Seq(T \cup U)
  BY <1>1, <1>3, SeqMonotonic
<1>5. w2 \in Seq(T \cup U)
  BY <1>2, <1>3, SeqMonotonic
<1> QED BY <1>4, <1>5, SeqEqual

(* Nothing happens to the commands, or they are put off.                   *)
LEMMA LinedSame ==
  ASSUME NEW w, NEW q, NEW busy, NEW x, Lined(w, q, busy, x), Queued(q),
         NEW w2, NEW q2, NEW x2, Lined(w2, q2, busy, x2), busy => x2 = x,
         q2 = q \/ q2 = IncrementAll(q)
  PROVE  w2 = w
<1> DEFINE n == IF busy THEN 1 ELSE 0
<1>1. Len(q) \in Nat /\ DOMAIN q = 1 .. Len(q)
  BY QueuedData
<1>2. Len(q2) = Len(q) /\ \A k \in 1 .. Len(q) : q2[k].data = q[k].data
  <2>1. Len(IncrementAll(q)) = Len(q)
    BY QueuedPutOff
  <2>2. ASSUME NEW k \in 1 .. Len(q)
        PROVE  IncrementAll(q)[k].data = q[k].data
    <3>1. PICK T : q \in Seq([cycle : Cycles, data : T])
      BY DEF Queued
    <3>2. q[k] \in [cycle : Cycles, data : T]
      BY <3>1, ElementOfSeq
    <3>3. IncrementAll(q)[k] = [q[k] EXCEPT !.cycle = NextCycle(@)]
      BY <1>1 DEF IncrementAll
    <3> QED BY <3>2, <3>3
  <2> QED BY <2>1, <2>2
<1>3. n \in {0, 1} /\ (busy => n = 1) /\ (~busy => n = 0)
  OBVIOUS
<1>4. /\ Len(w) = n + Len(q) /\ Len(w2) = n + Len(q)
      /\ \A k \in 1 .. Len(q) : w2[n + k] = w[n + k]
      /\ busy => w2[1] = w[1]
  BY <1>2 DEF Lined
<1> HIDE DEF n
<1>5. ASSUME NEW k \in 1 .. Len(w) PROVE w2[k] = w[k]
  <2>1. CASE n < k
    <3>1. k - n \in 1 .. Len(q) /\ n + (k - n) = k
      BY <1>1, <1>3, <1>4, <2>1
    <3> QED BY <1>4, <3>1
  <2>2. CASE ~(n < k)
    <3>1. k = 1 /\ busy
      BY <1>1, <1>3, <1>4, <2>2
    <3> QED BY <1>4, <3>1
  <2> QED BY <2>1, <2>2
<1> QED BY <1>4, <1>5, LinedEqual DEF Lined

(* The first command that waits is taken.                                  *)
LEMMA LinedTaken ==
  ASSUME NEW w, NEW q, NEW x, Lined(w, q, FALSE, x), Queued(q), q # << >>,
         NEW w2, NEW x2, Lined(w2, Tail(q), TRUE, x2),
         x2 = S!Taken(Head(q).data)
  PROVE  w2 = w
<1> DEFINE n == Len(q)
           t == Tail(q)
<1>1. /\ n \in Nat \ {0} /\ Len(t) = n - 1 /\ Head(q) = q[1]
      /\ \A k \in 1 .. n - 1 : t[k] = q[k + 1]
  <2>1. PICK T : q \in Seq([cycle : Cycles, data : T])
    BY DEF Queued
  <2>2. n \in Nat \ {0} /\ Len(t) = n - 1 /\ Head(q) = q[1]
        /\ \A k \in 1 .. Len(t) : t[k] = q[k + 1]
    BY <2>1, HeadTailProperties, EmptySeq
  <2> QED BY <2>2
<1> HIDE DEF n, t
<1>2. /\ Len(w) = n /\ Len(w2) = n
      /\ \A k \in 1 .. n : w[k] = S!Taken(q[k].data)
      /\ w2[1] = S!Taken(q[1].data)
      /\ \A k \in 1 .. n - 1 : w2[1 + k] = S!Taken(t[k].data)
  BY <1>1 DEF Lined, n, t
<1>3. ASSUME NEW k \in 1 .. n PROVE w[k] = w2[k]
  <2>1. CASE k = 1
    BY <1>2, <2>1
  <2>2. CASE k # 1
    <3>1. k - 1 \in 1 .. n - 1 /\ 1 + (k - 1) = k /\ (k - 1) + 1 = k
      BY <1>1, <2>2
    <3> QED BY <1>1, <1>2, <3>1
  <2> QED BY <2>1, <2>2
<1> QED BY <1>2, <1>3, LinedEqual DEF Lined

(* The command at work has been performed.                                 *)
LEMMA LinedFinished ==
  ASSUME NEW w, NEW q, NEW x, Lined(w, q, TRUE, x), Queued(q),
         NEW w2, NEW x2, Lined(w2, q, FALSE, x2)
  PROVE  Shorter(w2, w) /\ w[1] = x
<1>1. Len(q) \in Nat
  BY QueuedData
<1>2. /\ Len(w) = 1 + Len(q) /\ Len(w2) = Len(q) /\ w[1] = x
      /\ \A k \in 1 .. Len(q) : w[1 + k] = w2[k]
  BY <1>1 DEF Lined
<1>3. List(w2)
  BY LinedList
<1>4. \A k \in 1 .. Len(q) : 1 + k = k + 1
  BY <1>1
<1> QED BY <1>1, <1>2, <1>3, <1>4 DEF List, Shorter

(* A command is launched.                                                  *)
LEMMA LinedLaunched ==
  ASSUME NEW w, NEW q, NEW busy, NEW x, Lined(w, q, busy, x), Queued(q),
         NEW d, NEW t \in Cycles,
         NEW w2, NEW x2, busy => x2 = x,
         Lined(w2, Append(q, Deferred(t, d)), busy, x2)
  PROVE  /\ List(w2) /\ Len(w2) = Len(w) + 1
         /\ w2[Len(w) + 1] = S!Taken(d)
         /\ \A k \in DOMAIN w : w2[k] = w[k]
<1> DEFINE n == IF busy THEN 1 ELSE 0
           a == Append(q, Deferred(t, d))
<1>1. Len(q) \in Nat /\ Len(a) = Len(q) + 1
  BY QueuedData, QueuedLaunch
<1>2. /\ \A k \in 1 .. Len(q) : a[k] = q[k]
      /\ a[Len(q) + 1].data = d
  <2>1. PICK T : q \in Seq([cycle : Cycles, data : T])
    BY DEF Queued
  <2>2. a[Len(q) + 1] = Deferred(t, d) /\ \A k \in 1 .. Len(q) : a[k] = q[k]
    BY <2>1
  <2> QED BY <2>2 DEF Deferred
<1>3. n \in {0, 1} /\ (busy => n = 1) /\ (~busy => n = 0)
  OBVIOUS
<1> HIDE DEF a
<1>4. /\ Len(w) = n + Len(q) /\ Len(w2) = n + Len(a)
      /\ \A k \in 1 .. Len(q) : w[n + k] = S!Taken(q[k].data)
      /\ \A k \in 1 .. Len(a) : w2[n + k] = S!Taken(a[k].data)
      /\ busy => w2[1] = w[1]
  BY DEF Lined, a
<1> HIDE DEF n
<1>5. Len(w2) = Len(w) + 1 /\ w2[Len(w) + 1] = S!Taken(d)
  <2>1. /\ Len(q) + 1 \in 1 .. Len(a) /\ n + (Len(q) + 1) = Len(w) + 1
        /\ Len(w2) = Len(w) + 1
    BY <1>1, <1>3, <1>4
  <2> QED BY <1>2, <1>4, <2>1
<1>6. ASSUME NEW k \in 1 .. Len(w) PROVE w2[k] = w[k]
  <2>1. CASE n < k
    <3>1. /\ k - n \in 1 .. Len(q) /\ n + (k - n) = k /\ k - n \in 1 .. Len(a)
      BY <1>1, <1>3, <1>4, <2>1
    <3> QED BY <1>2, <1>4, <3>1
  <2>2. CASE ~(n < k)
    <3>1. k = 1 /\ busy
      BY <1>1, <1>3, <1>4, <2>2
    <3> QED BY <1>4, <3>1
  <2> QED BY <2>1, <2>2
<1>7. List(w) /\ List(w2)
  BY LinedList DEF a
<1> QED BY <1>5, <1>6, <1>7 DEF List

LEMMA LinedUpBoth ==
  ASSUME NEW q, Queued(q), NEW x
  PROVE  /\ Lined(<<x>> \o S!Waiting(q), q, TRUE, x)
         /\ Lined(<< >> \o S!Waiting(q), q, FALSE, x)
<1>1. \A busy : Lined((IF busy THEN <<x>> ELSE << >>) \o S!Waiting(q),
                      q, busy, x)
  BY LinedUp
<1>2. Lined((IF TRUE THEN <<x>> ELSE << >>) \o S!Waiting(q), q, TRUE, x)
  BY <1>1
<1>3. Lined((IF FALSE THEN <<x>> ELSE << >>) \o S!Waiting(q), q, FALSE, x)
  BY <1>1
<1> QED BY <1>2, <1>3
-----------------------------------------------------------------------------
(***************************************************************************)
(* The commands that are pending, and the promise in a state.              *)
(***************************************************************************)
ToMove == S!Pending["DMA"]
ToDraw == S!Pending["BLITTER"]

(* Memory is the first content of the chain but for what the blitter is    *)
(* still to draw, and for what the transfer at work has done of it.        *)
Standing(m, uncertain, area) ==
  IF dma_state = "WORKING" THEN DP!Alongside(m, uncertain, area)
  ELSE \A a \in D!Address : a \notin uncertain \cup area => memory[a] = m[a]

PromiseAt(moves, draws, r, m, uncertain) ==
  /\ moves = ToMove /\ draws = ToDraw
  /\ m = promised /\ uncertain = contested
  /\ Promises(moves, draws, r, m, uncertain)
  /\ DP!Shaped /\ BP!Cleared(uncertain)
  /\ Standing(r[1], uncertain, DrawnBy(draws))

PromiseInv ==
  \E moves, draws, r, m, uncertain : PromiseAt(moves, draws, r, m, uncertain)

LEMMA SameTaken == \A x : S!Taken(x) = B!Taken(x)
  BY DEF S!Taken, B!Taken

LEMMA PendingNow ==
  ASSUME Shapes
  PROVE  /\ dma_state = "WORKING" =>
              Lined(ToMove, queue["DMA"], TRUE, dma_command)
         /\ dma_state # "WORKING" =>
              Lined(ToMove, queue["DMA"], FALSE, dma_command)
         /\ blitter_state = "WORKING" =>
              Lined(ToDraw, queue["BLITTER"], TRUE, B!Taken(blitter_command))
         /\ blitter_state # "WORKING" =>
              Lined(ToDraw, queue["BLITTER"], FALSE, B!Taken(blitter_command))
<1>1. Queued(queue["DMA"]) /\ Queued(queue["BLITTER"])
  BY Pipes DEF Shapes
<1>2. /\ ToMove = (IF dma_state = "WORKING" THEN <<dma_command>> ELSE << >>)
                  \o S!Waiting(queue["DMA"])
      /\ ToDraw = (IF blitter_state = "WORKING"
                   THEN <<B!Taken(blitter_command)>> ELSE << >>)
                  \o S!Waiting(queue["BLITTER"])
  BY DEF ToMove, ToDraw, S!Pending, S!InHand, S!Working, S!Pipe,
         EngineState, EngineCommand
<1> QED BY <1>1, <1>2, LinedUpBoth

LEMMA PendingNext ==
  ASSUME Shapes'
  PROVE  /\ dma_state' = "WORKING" =>
              Lined(ToMove', queue'["DMA"], TRUE, dma_command')
         /\ dma_state' # "WORKING" =>
              Lined(ToMove', queue'["DMA"], FALSE, dma_command')
         /\ blitter_state' = "WORKING" =>
              Lined(ToDraw', queue'["BLITTER"], TRUE, B!Taken(blitter_command'))
         /\ blitter_state' # "WORKING" =>
              Lined(ToDraw', queue'["BLITTER"], FALSE, B!Taken(blitter_command'))
<1>1. Queued(queue'["DMA"]) /\ Queued(queue'["BLITTER"])
  BY Pipes DEF Shapes
<1>2. /\ ToMove' = (IF dma_state' = "WORKING" THEN <<dma_command'>> ELSE << >>)
                   \o S!Waiting(queue'["DMA"])
      /\ ToDraw' = (IF blitter_state' = "WORKING"
                    THEN <<B!Taken(blitter_command')>> ELSE << >>)
                   \o S!Waiting(queue'["BLITTER"])
  BY DEF ToMove, ToDraw, S!Pending, S!InHand, S!Working, S!Pipe,
         EngineState, EngineCommand, S!Waiting, S!Taken, B!Taken
<1> QED BY <1>1, <1>2, LinedUpBoth

(* What a pipeline has before it while its engine does nothing new.        *)
LEMMA SameMoves ==
  ASSUME Shapes, Shapes', dma_state' = "WORKING" <=> dma_state = "WORKING",
         dma_command' = dma_command,
         queue'["DMA"] = queue["DMA"]
         \/ queue'["DMA"] = IncrementAll(queue["DMA"])
  PROVE  ToMove' = ToMove
<1>1. Queued(queue["DMA"])
  BY Pipes DEF Shapes
<1> QED BY <1>1, PendingNow, PendingNext, LinedSame

LEMMA SameDraws ==
  ASSUME Shapes, Shapes',
         blitter_state' = "WORKING" <=> blitter_state = "WORKING",
         blitter_state = "WORKING" =>
           B!Taken(blitter_command') = B!Taken(blitter_command),
         queue'["BLITTER"] = queue["BLITTER"]
         \/ queue'["BLITTER"] = IncrementAll(queue["BLITTER"])
  PROVE  ToDraw' = ToDraw
<1>1. Queued(queue["BLITTER"])
  BY Pipes DEF Shapes
<1> QED BY <1>1, PendingNow, PendingNext, LinedSame
-----------------------------------------------------------------------------
(* The transfer at work.                                                   *)
LEMMA WorkingMove ==
  ASSUME Shapes, NEW moves, NEW draws, NEW r, NEW m, NEW uncertain,
         PromiseAt(moves, draws, r, m, uncertain), dma_state = "WORKING"
  PROVE  /\ 1 \in DOMAIN moves /\ moves[1] = dma_command
         /\ dma_command \in ExactTransfers /\ DP!Exact
<1>1. Lined(moves, queue["DMA"], TRUE, dma_command) /\ List(moves)
  BY PendingNow DEF PromiseAt, Promises
<1>2. Len(queue["DMA"]) \in Nat
  BY QueuedData, Pipes DEF Shapes
<1>3. 1 \in DOMAIN moves /\ moves[1] = dma_command
  BY <1>1, <1>2 DEF Lined, List
<1>4. dma_command \in ExactTransfers
  BY <1>3 DEF PromiseAt, Promises
<1>5. DP!Exact
  BY <1>4 DEF DP!Exact, DP!Smears, DP!InRange, DP!c, ExactTransfers,
              Transfers
<1> QED BY <1>3, <1>4, <1>5

(* The drawing at work.                                                    *)
LEMMA WorkingDraw ==
  ASSUME Shapes, NEW moves, NEW draws, NEW r, NEW m, NEW uncertain,
         PromiseAt(moves, draws, r, m, uncertain), blitter_state = "WORKING"
  PROVE  /\ 1 \in DOMAIN draws /\ draws[1] = B!Taken(blitter_command)
         /\ BP!AreaOf(blitter_command) = Drawn(draws[1])
         /\ Drawn(draws[1]) \subseteq DrawnBy(draws)
         /\ \A a : BP!ColourAt(blitter_command, a) = ColourAt(draws[1], a)
<1>1. /\ Lined(draws, queue["BLITTER"], TRUE, B!Taken(blitter_command))
      /\ List(draws)
  BY PendingNow DEF PromiseAt, Promises
<1>2. Len(queue["BLITTER"]) \in Nat
  BY QueuedData, Pipes DEF Shapes
<1>3. 1 \in DOMAIN draws /\ draws[1] = B!Taken(blitter_command)
  BY <1>1, <1>2 DEF Lined, List
<1>4. draws[1] \in Drawings
  BY <1>3 DEF PromiseAt, Promises
<1>5. /\ draws[1].operation = blitter_command.operation
      /\ draws[1].colour = blitter_command.colour
      /\ draws[1].operation # "CLEAR" => draws[1] = blitter_command
  BY <1>3, <1>4 DEF B!Taken, Drawings, BP!Command
<1>6. BP!AreaOf(blitter_command) = Drawn(draws[1])
  BY <1>5 DEF BP!AreaOf, Drawn, B!FrameBytes, BP!FrameBytes, B!PixelBytes,
              BP!PixelBytes, B!PixelAddress, BP!PixelAddress
<1>7. \A a : BP!ColourAt(blitter_command, a) = ColourAt(draws[1], a)
  BY <1>5 DEF BP!ColourAt, ColourAt, B!ByteOf, BP!ByteOf, B!ByteWeight,
              BP!ByteWeight, B!PixelBytes, BP!PixelBytes, B!PixelAddress,
              BP!PixelAddress
<1>8. Drawn(draws[1]) \subseteq DrawnBy(draws)
  BY <1>3, DrawnMember
<1> QED BY <1>3, <1>6, <1>7, <1>8
-----------------------------------------------------------------------------
(* A byte in a line of the transfer at work is disturbed if it is hot.     *)
LEMMA LinesDisturbed ==
  ASSUME NEW hot, NEW uncertain, Disturbed(dma_command, hot) \subseteq uncertain,
         NEW a \in D!Address, DP!OfItsLines(a), a \in hot
  PROVE  a \in uncertain
<1>1. PICK t \in DP!Address : DP!InRange(t) /\ DP!LineOf(t) = DP!LineOf(a)
  BY DEF DP!OfItsLines
<1>2. t \in Target(dma_command) /\ D!LineOf(t) = D!LineOf(a)
  BY <1>1 DEF DP!InRange, DP!c, Target, DP!LineOf, D!LineOf
<1> QED BY <1>2, DisturbedMember

(* A transfer has nothing to do with the bytes of hot that are certain.    *)
Spares(d, hot, uncertain) ==
  d \in Transfers /\ Disturbed(d, hot) \subseteq uncertain

(* Nothing changes in memory, or from m to m2, but the bytes of hot.       *)
OnlyHot(hot, m, m2) ==
  \A a \in D!Address : a \notin hot => memory'[a] = memory[a] /\ m2[a] = m[a]

(* Outside of area2 memory is m2 anew, or it stays as m outside of area.   *)
Renewed(m, area, m2, area2, uncertain) ==
  \A a \in D!Address :
    a \notin uncertain \cup area2 =>
      \/ memory'[a] = m2[a]
      \/ a \notin area /\ memory'[a] = memory[a] /\ m2[a] = m[a]

(* What happens to the memory that the transfer at work stands on: the     *)
(* bytes of hot may change in memory or in the promise.                    *)
LEMMA StandingOther ==
  ASSUME EnginesInv, UNCHANGED dmaVars,
         NEW m, NEW old, NEW area, Standing(m, old, area),
         NEW uncertain, old \subseteq uncertain,
         NEW hot,
         dma_state = "WORKING" => Spares(dma_command, hot, uncertain),
         NEW m2, NEW area2, OnlyHot(hot, m, m2),
         Renewed(m, area, m2, area2, uncertain)
  PROVE  Standing(m2, uncertain, area2)'
<1>1. UNCHANGED <<dma_state, dma_command, write_pointer, read_pointer,
                  DP!buffer, DP!fetched>>
  BY DEF dmaVars, DP!buffer, DP!fetched
<1>2. CASE dma_state # "WORKING"
  <2>1. \A a \in D!Address : a \notin old \cup area => memory[a] = m[a]
    BY <1>2 DEF Standing
  <2> QED BY <1>1, <1>2, <2>1 DEF Standing, Renewed
<1>3. CASE dma_state = "WORKING"
  <2>1. DP!Alongside(m, old, area)
    BY <1>3 DEF Standing
  <2>2. /\ dma_command \in Transfers
        /\ Disturbed(dma_command, hot) \subseteq uncertain
    BY <1>3 DEF Spares
  <2>3. ASSUME NEW a \in DP!Address, a \notin uncertain, DP!OfItsLines(a)
        PROVE  memory'[a] = memory[a]
    BY <2>2, <2>3, LinesDisturbed, SameAddress DEF OnlyHot
  <2>4. ASSUME DP!c.operation = "COPY", NEW j \in 0 .. DP!c.length - 1,
               DP!c.dest + j \notin uncertain
        PROVE  /\ memory'[DP!c.source + j] = memory[DP!c.source + j]
               /\ m2[DP!c.source + j] = m[DP!c.source + j]
    <3> DEFINE a == dma_command.dest + j
               s == dma_command.source + j
    <3>1. a \in Target(dma_command) /\ s = dma_command.source + (a - dma_command.dest)
      BY <2>2, <2>4 DEF DP!c, Target, Transfers
    <3>2. a \notin uncertain /\ dma_command.operation = "COPY"
      BY <2>4 DEF DP!c
    <3> HIDE DEF a
    <3>3. /\ dma_command.source + (a - dma_command.dest) \in D!Address
          /\ dma_command.source + (a - dma_command.dest) \notin hot
      BY <2>2, <3>1, <3>2, CopySource, NotDisturbed
    <3>4. s \in D!Address /\ s \notin hot
      BY <3>1, <3>3
    <3> HIDE DEF s
    <3>5. memory'[s] = memory[s] /\ m2[s] = m[s]
      BY <3>4 DEF OnlyHot
    <3> QED BY <3>5 DEF s, DP!c
  <2>5. DP!Alongside(m2, uncertain, area2)'
    BY <1>1, <1>3, <2>1, <2>3, <2>4, EngineAssumptions, TransfersProper,
       SameAddress, DP!AlongsideOther DEF EnginesInv, Renewed
  <2> QED BY <1>1, <1>3, <2>5 DEF Standing
<1> QED BY <1>2, <1>3

LEMMA NothingDisturbed ==
  ASSUME NEW d, NEW uncertain
  PROVE  Disturbed(d, {}) \subseteq uncertain
BY DisturbedMember, CopyOfMember

(* Commands are put off, or nothing happens to them at all.                *)
LEMMA PromiseKept ==
  ASSUME Shapes, Shapes', EnginesInv, PromiseInv,
         UNCHANGED <<memory, dmaVars, blitterVars, history>>,
         \A p \in S!Pipe :
           queue'[p] = queue[p] \/ queue'[p] = IncrementAll(queue[p])
  PROVE  PromiseInv'
<1>1. PICK moves, draws, r, m, uncertain :
        PromiseAt(moves, draws, r, m, uncertain)
  BY DEF PromiseInv
<1>2. /\ UNCHANGED <<dma_state, dma_command, DP!buffer, DP!fetched>>
      /\ UNCHANGED <<blitter_state, blitter_command, promised, contested>>
  BY DEF dmaVars, blitterVars, history, DP!buffer, DP!fetched
<1>3. moves = ToMove' /\ draws = ToDraw'
  BY <1>1, <1>2, SameMoves, SameDraws, Pipes DEF PromiseAt
<1>4. Standing(r[1], uncertain, DrawnBy(draws))'
  <2>1. dma_state = "WORKING" => Spares(dma_command, {}, uncertain)
    BY <1>1, WorkingMove, NothingDisturbed DEF ExactTransfers, Spares
  <2>2. Standing(r[1], uncertain, DrawnBy(draws))
    BY <1>1 DEF PromiseAt
  <2>3. /\ Renewed(r[1], DrawnBy(draws), r[1], DrawnBy(draws), uncertain)
        /\ OnlyHot({}, r[1], r[1])
    BY DEF Renewed, OnlyHot
  <2> QED BY <2>1, <2>2, <2>3, StandingOther
<1>5. BP!Cleared(uncertain)'
  BY <1>1, <1>2, EngineAssumptions, FrameWhole, BP!ClearedOther
     DEF PromiseAt, EnginesInv
<1>6. DP!Shaped'
  BY <1>1, <1>2 DEF PromiseAt, DP!Shaped, DP!buffer, DP!fetched
<1>7. PromiseAt(moves, draws, r, m, uncertain)'
  BY <1>1, <1>2, <1>3, <1>4, <1>5, <1>6 DEF PromiseAt
<1> QED BY <1>7 DEF PromiseInv
-----------------------------------------------------------------------------
(* A command behind the others.                                            *)
LEMMA WithLast ==
  ASSUME NEW w, \E T : w \in Seq(T), NEW x
  PROVE  /\ w \o << >> = w
         /\ DOMAIN (w \o <<x>>) = 1 .. Len(w) + 1
         /\ DOMAIN w = 1 .. Len(w) /\ Len(w) \in Nat
         /\ (w \o <<x>>)[Len(w) + 1] = x
         /\ \A k \in DOMAIN w : (w \o <<x>>)[k] = w[k]
<1>1. PICK T : w \in Seq(T)
  OBVIOUS
<1> DEFINE U == T \cup {x}
<1>2. T \subseteq U /\ x \in U
  OBVIOUS
<1> HIDE DEF U
<1>3. w \in Seq(U)
  BY <1>1, <1>2, SeqMonotonic
<1>4. <<x>> \in Seq(U) /\ Len(<<x>>) = 1 /\ <<x>>[1] = x
  BY <1>2
<1>5. Len(w) \in Nat /\ DOMAIN w = 1 .. Len(w)
  BY <1>3, LenProperties
<1> DEFINE v == w \o <<x>>
<1>6. /\ v \in Seq(U) /\ Len(v) = Len(w) + Len(<<x>>)
      /\ \A i \in 1 .. Len(w) + Len(<<x>>) :
           v[i] = IF i <= Len(w) THEN w[i] ELSE <<x>>[i - Len(w)]
  BY <1>3, <1>4, ConcatProperties
<1>7. w \o << >> = w
  BY <1>3, ConcatEmptySeq
<1>8. DOMAIN v = 1 .. Len(v)
  BY <1>6, LenProperties
<1> HIDE DEF v
<1>9. DOMAIN v = 1 .. Len(w) + 1
  BY <1>4, <1>6, <1>8
<1>10. v[Len(w) + 1] = x
  <2>1. /\ Len(w) + 1 \in 1 .. Len(w) + Len(<<x>>)
        /\ ~(Len(w) + 1 <= Len(w)) /\ (Len(w) + 1) - Len(w) = 1
    BY <1>4, <1>5
  <2> QED BY <1>4, <1>6, <2>1
<1>11. \A k \in DOMAIN w : v[k] = w[k]
  BY <1>4, <1>5, <1>6
<1> QED BY <1>5, <1>7, <1>9, <1>10, <1>11 DEF v

LEMMA DrawnWithLast ==
  ASSUME NEW w, \E T : w \in Seq(T), NEW x
  PROVE  DrawnBy(w \o <<x>>) = DrawnBy(w) \cup Drawn(x)
<1> DEFINE v == w \o <<x>>
<1>1. /\ DOMAIN v = 1 .. Len(w) + 1 /\ Len(w) \in Nat
      /\ DOMAIN w = 1 .. Len(w) /\ v[Len(w) + 1] = x
      /\ \A k \in DOMAIN w : v[k] = w[k]
  BY WithLast
<1> HIDE DEF v
<1>2. ASSUME NEW a PROVE a \in DrawnBy(v) <=> a \in DrawnBy(w) \cup Drawn(x)
  BY <1>1, DrawnMember
<1> QED BY <1>2 DEF v

(* What a command that is launched makes uncertain.                        *)
LEMMA ContestedNow ==
  NewlyContested = contested \cup
    UNION {Disturbed((ToMove \o LaunchedOn("DMA"))[k],
                     DrawnBy(ToDraw \o LaunchedOn("BLITTER"))) :
             k \in DOMAIN (ToMove \o LaunchedOn("DMA"))}
  BY DEF NewlyContested, ToMove, ToDraw, DrawnBy

LEMMA ContestedMove ==
  ASSUME Shapes, S!PipeOf(Command.op) = "DMA"
  PROVE  /\ contested \subseteq NewlyContested
         /\ \A k \in DOMAIN ToMove :
              Disturbed(ToMove[k], DrawnBy(ToDraw)) \subseteq NewlyContested
         /\ Disturbed(Launched, DrawnBy(ToDraw)) \subseteq NewlyContested
<1> DEFINE dma == ToMove \o <<Launched>>
<1>1. (\E T : ToMove \in Seq(T)) /\ (\E T : ToDraw \in Seq(T))
  BY PendingNow DEF Lined
<1>2. /\ LaunchedOn("DMA") = <<Launched>> /\ LaunchedOn("BLITTER") = << >>
  BY DEF LaunchedOn
<1>3. ToDraw \o << >> = ToDraw
  BY <1>1, WithLast
<1>4. /\ DOMAIN dma = 1 .. Len(ToMove) + 1 /\ Len(ToMove) \in Nat
      /\ DOMAIN ToMove = 1 .. Len(ToMove) /\ dma[Len(ToMove) + 1] = Launched
      /\ \A k \in DOMAIN ToMove : dma[k] = ToMove[k]
  BY <1>1, WithLast
<1>5. NewlyContested = contested \cup
        UNION {Disturbed(dma[k], DrawnBy(ToDraw)) : k \in DOMAIN dma}
  BY <1>2, <1>3, ContestedNow
<1> HIDE DEF dma
<1>6. \A k \in DOMAIN dma :
        Disturbed(dma[k], DrawnBy(ToDraw)) \subseteq NewlyContested
  BY <1>5
<1>7. \A k \in DOMAIN ToMove : k \in DOMAIN dma
  BY <1>4
<1>8. Len(ToMove) + 1 \in DOMAIN dma
  BY <1>4
<1> QED BY <1>4, <1>5, <1>6, <1>7, <1>8

LEMMA ContestedDraw ==
  ASSUME Shapes, S!PipeOf(Command.op) = "BLITTER"
  PROVE  /\ contested \subseteq NewlyContested
         /\ \A k \in DOMAIN ToMove :
              Disturbed(ToMove[k], DrawnBy(ToDraw) \cup Drawn(Launched))
                \subseteq NewlyContested
<1>1. (\E T : ToMove \in Seq(T)) /\ (\E T : ToDraw \in Seq(T))
  BY PendingNow DEF Lined
<1>2. /\ LaunchedOn("BLITTER") = <<Launched>> /\ LaunchedOn("DMA") = << >>
  BY DEF LaunchedOn
<1>3. ToMove \o << >> = ToMove
  BY <1>1, WithLast
<1>4. DrawnBy(ToDraw \o <<Launched>>) = DrawnBy(ToDraw) \cup Drawn(Launched)
  BY <1>1, DrawnWithLast
<1>5. NewlyContested = contested \cup
        UNION {Disturbed(ToMove[k], DrawnBy(ToDraw \o <<Launched>>)) :
                 k \in DOMAIN ToMove}
  BY <1>2, <1>3, ContestedNow
<1> QED BY <1>4, <1>5
-----------------------------------------------------------------------------
(* A command is launched.                                                  *)
LEMMA LaunchedNow ==
  ASSUME Shapes, SubmissionAccepted, S!Launch(Command)
  PROVE  LET p == S!PipeOf(Command.op)
         IN  /\ p \in S!Pipe /\ Queued(queue[p]) /\ cycle \in Cycles
             /\ queue' = [queue EXCEPT
                            ![p] = Append(queue[p], Deferred(cycle, Launched))]
             /\ promised' = Performed(promised, Launched)
             /\ contested' = NewlyContested
             /\ UNCHANGED <<memory, dmaVars, blitterVars>>
             /\ Len(queue[p]) + 1 \in DOMAIN queue'[p]
             /\ queue'[p][Len(queue[p]) + 1].data = Launched
<1> DEFINE p == S!PipeOf(Command.op)
           a == Append(queue[p], Deferred(cycle, Launched))
<1>1. p \in S!Pipe /\ queue' = [queue EXCEPT ![p] = a]
  BY DEF S!Launch, S!PipeOf, S!Pipe, S!Deferred, S!NextCycle, Deferred,
         NextCycle, Launched
<1>2. /\ promised' = Performed(promised, Launched)
      /\ contested' = NewlyContested
      /\ UNCHANGED <<memory, dmaVars, blitterVars>>
  BY DEF SubmissionAccepted, S!Launch, Promise
<1>3. cycle \in Cycles /\ Queued(queue[p])
  BY <1>1 DEF Shapes
<1>4. Queued(a) /\ Len(a) = Len(queue[p]) + 1
  BY <1>3, QueuedLaunch
<1>5. /\ Len(queue[p]) \in Nat /\ DOMAIN a = 1 .. Len(a)
  BY <1>3, <1>4, QueuedData
<1>6. a[Len(queue[p]) + 1] = Deferred(cycle, Launched)
  <2>1. PICK T : queue[p] \in Seq([cycle : Cycles, data : T])
    BY <1>3 DEF Queued
  <2> QED BY <2>1
<1>7. Len(queue[p]) + 1 \in DOMAIN a
  BY <1>4, <1>5
<1>8. a[Len(queue[p]) + 1].data = Launched
  BY <1>6 DEF Deferred
<1> HIDE DEF a
<1>9. queue'[p] = a
  BY <1>1 DEF Shapes
<1> QED BY <1>1, <1>2, <1>3, <1>7, <1>8, <1>9 DEF a

LEMMA PromiseLaunchMove ==
  ASSUME Shapes, Shapes', EnginesInv, PromiseInv, CommandsExact',
         SubmissionAccepted, S!Launch(Command), S!PipeOf(Command.op) = "DMA"
  PROVE  PromiseInv'
<1>1. PICK moves, draws, r, m, old : PromiseAt(moves, draws, r, m, old)
  BY DEF PromiseInv
<1>a. PICK uncertain : uncertain = NewlyContested
  OBVIOUS
<1>b. PICK moves2 : moves2 = ToMove'
  OBVIOUS
<1>c. PICK m2 : m2 = promised'
  OBVIOUS
<1> DEFINE a == Append(queue["DMA"], Deferred(cycle, Launched))
<1>2. /\ Queued(queue["DMA"]) /\ cycle \in Cycles
      /\ queue' = [queue EXCEPT !["DMA"] = a]
      /\ promised' = Performed(promised, Launched)
      /\ contested' = uncertain
      /\ UNCHANGED <<memory, dmaVars, blitterVars>>
      /\ Len(queue["DMA"]) + 1 \in DOMAIN queue'["DMA"]
      /\ queue'["DMA"][Len(queue["DMA"]) + 1].data = Launched
  BY <1>a, LaunchedNow
<1>3. Launched \in ExactTransfers /\ S!Taken(Launched) = Launched
  BY <1>2 DEF CommandsExact, ExactTransfers, Transfers, S!Taken
<1>4. /\ UNCHANGED <<dma_state, dma_command, DP!buffer, DP!fetched>>
      /\ UNCHANGED <<blitter_state, blitter_command>>
      /\ queue'["DMA"] = a /\ queue'["BLITTER"] = queue["BLITTER"]
  BY <1>2, Pipes DEF dmaVars, blitterVars, DP!buffer, DP!fetched, Shapes
<1>5. draws = ToDraw'
  BY <1>1, <1>4, SameDraws DEF PromiseAt
<1>6. /\ List(moves2) /\ Len(moves2) = Len(moves) + 1
      /\ moves2[Len(moves) + 1] = Launched
      /\ \A k \in DOMAIN moves : moves2[k] = moves[k]
  <2>3. \A busy, w, w2 :
          /\ Lined(w, queue["DMA"], busy, dma_command)
          /\ Lined(w2, a, busy, dma_command)
          => /\ List(w2) /\ Len(w2) = Len(w) + 1
             /\ w2[Len(w) + 1] = S!Taken(Launched)
             /\ \A k \in DOMAIN w : w2[k] = w[k]
    BY <1>2, LinedLaunched
  <2> HIDE DEF a
  <2>1. CASE dma_state = "WORKING"
    <3>1. /\ Lined(moves, queue["DMA"], TRUE, dma_command)
          /\ Lined(moves2, a, TRUE, dma_command)
      BY <1>1, <1>b, <1>4, <2>1, PendingNow, PendingNext DEF PromiseAt
    <3> QED BY <1>3, <2>3, <3>1
  <2>2. CASE dma_state # "WORKING"
    <3>1. /\ Lined(moves, queue["DMA"], FALSE, dma_command)
          /\ Lined(moves2, a, FALSE, dma_command)
      BY <1>1, <1>b, <1>4, <2>2, PendingNow, PendingNext DEF PromiseAt
    <3> QED BY <1>3, <2>3, <3>1
  <2> QED BY <2>1, <2>2
<1>7. /\ old \subseteq uncertain
      /\ \A k \in DOMAIN moves :
           Disturbed(moves[k], DrawnBy(draws)) \subseteq uncertain
      /\ Disturbed(Launched, DrawnBy(draws)) \subseteq uncertain
  BY <1>1, <1>a, ContestedMove DEF PromiseAt
<1>8. PICK r2 : /\ Promises(moves2, draws, r2, m2, uncertain)
                /\ r2[1] = r[1]
  <2>1. Promises(moves, draws, r, promised, old)
    BY <1>1 DEF PromiseAt
  <2>2. Promises(moves, draws, r, promised, uncertain)
    BY <1>7, <2>1, PromisesGrow
  <2>3. \E r2 : /\ Promises(moves2, draws, r2, Performed(promised, Launched),
                            uncertain)
                /\ r2[1] = r[1]
    BY <1>3, <1>6, <1>7, <2>2, PromisesMove
  <2> QED BY <1>2, <1>c, <2>3
<1>9. Standing(r2[1], uncertain, DrawnBy(draws))'
  <2>1. dma_state = "WORKING" => Spares(dma_command, {}, uncertain)
    BY <1>1, WorkingMove, NothingDisturbed DEF ExactTransfers, Spares
  <2>2. Standing(r2[1], old, DrawnBy(draws))
    BY <1>1, <1>8 DEF PromiseAt
  <2>3. /\ Renewed(r2[1], DrawnBy(draws), r2[1], DrawnBy(draws), uncertain)
        /\ OnlyHot({}, r2[1], r2[1])
    BY <1>2 DEF Renewed, OnlyHot
  <2>4. UNCHANGED dmaVars
    BY <1>2
  <2> QED BY <1>7, <2>1, <2>2, <2>3, <2>4, StandingOther
<1>10. BP!Cleared(uncertain)'
  BY <1>1, <1>2, <1>4, <1>7, EngineAssumptions, FrameWhole, BP!ClearedOther
     DEF PromiseAt, EnginesInv
<1>11. DP!Shaped'
  BY <1>1, <1>2, <1>4 DEF PromiseAt, DP!Shaped, DP!buffer, DP!fetched
<1>12. PromiseAt(moves2, draws, r2, m2, uncertain)'
  BY <1>b, <1>c, <1>2, <1>5, <1>8, <1>9, <1>10, <1>11 DEF PromiseAt
<1> QED BY <1>12 DEF PromiseInv

(* A drawing as the blitter takes it draws the same.                       *)
LEMMA TakenDrawing ==
  ASSUME NEW x, B!Taken(x) \in Drawings
  PROVE  /\ Drawn(B!Taken(x)) = Drawn(x)
         /\ \A m : Performed(m, B!Taken(x)) = Performed(m, x)
<1> DEFINE b == B!Taken(x)
<1>1. /\ b.operation = x.operation /\ b.colour = x.colour
      /\ b.operation # "CLEAR" => b = x
      /\ b.operation \in {"PIXEL", "CLEAR"}
  BY DEF B!Taken, Drawings, BP!Command
<1> HIDE DEF b
<1>2. Drawn(b) = Drawn(x)
  BY <1>1 DEF Drawn
<1>3. ASSUME NEW m PROVE Performed(m, b) = Performed(m, x)
  <2>1. CASE b.operation = "CLEAR"
    BY <1>1, <1>2, <2>1 DEF Performed
  <2>2. CASE b.operation # "CLEAR"
    BY <1>1, <2>2
  <2> QED BY <2>1, <2>2
<1> QED BY <1>2, <1>3 DEF b

(* The first content of memory of a promise.                               *)
LEMMA FirstContent ==
  ASSUME NEW moves, NEW draws, NEW r, NEW m, NEW uncertain,
         PromiseAt(moves, draws, r, m, uncertain)
  PROVE  DOMAIN r[1] = D!Address
<1>1. 1 \in DOMAIN r
  BY DEF PromiseAt, Promises, List, Chain
<1> QED BY <1>1 DEF PromiseAt, Promises, Chain

LEMMA PromiseLaunchDraw ==
  ASSUME Shapes, Shapes', EnginesInv, PromiseInv, CommandsFit',
         SubmissionAccepted, S!Launch(Command),
         S!PipeOf(Command.op) = "BLITTER"
  PROVE  PromiseInv'
<1>1. PICK moves, draws, r, m, old : PromiseAt(moves, draws, r, m, old)
  BY DEF PromiseInv
<1>a. PICK uncertain : uncertain = NewlyContested
  OBVIOUS
<1>b. PICK draws2 : draws2 = ToDraw'
  OBVIOUS
<1>c. PICK m2 : m2 = promised'
  OBVIOUS
<1>d. PICK b : b = B!Taken(Launched)
  OBVIOUS
<1> DEFINE a == Append(queue["BLITTER"], Deferred(cycle, Launched))
<1>2. /\ Queued(queue["BLITTER"]) /\ cycle \in Cycles
      /\ queue' = [queue EXCEPT !["BLITTER"] = a]
      /\ promised' = Performed(promised, Launched)
      /\ contested' = uncertain
      /\ UNCHANGED <<memory, dmaVars, blitterVars>>
      /\ Len(queue["BLITTER"]) + 1 \in DOMAIN queue'["BLITTER"]
      /\ queue'["BLITTER"][Len(queue["BLITTER"]) + 1].data = Launched
  BY <1>a, LaunchedNow
<1>3. b \in Drawings /\ S!Taken(Launched) = b
  BY <1>2, <1>d, SameTaken DEF CommandsFit
<1>4. /\ UNCHANGED <<dma_state, dma_command, DP!buffer, DP!fetched>>
      /\ UNCHANGED <<blitter_state, blitter_command>>
      /\ queue'["BLITTER"] = a /\ queue'["DMA"] = queue["DMA"]
      /\ B!Taken(blitter_command') = B!Taken(blitter_command)
  BY <1>2, Pipes DEF dmaVars, blitterVars, DP!buffer, DP!fetched, Shapes
<1>5. moves = ToMove'
  BY <1>1, <1>4, SameMoves DEF PromiseAt
<1>6. /\ List(draws2) /\ Len(draws2) = Len(draws) + 1
      /\ draws2[Len(draws) + 1] = b
      /\ \A k \in DOMAIN draws : draws2[k] = draws[k]
  <2> DEFINE x == B!Taken(blitter_command)
  <2>3. \A busy, w, w2 :
          /\ Lined(w, queue["BLITTER"], busy, x)
          /\ Lined(w2, a, busy, x)
          => /\ List(w2) /\ Len(w2) = Len(w) + 1
             /\ w2[Len(w) + 1] = S!Taken(Launched)
             /\ \A k \in DOMAIN w : w2[k] = w[k]
    BY <1>2, LinedLaunched
  <2> HIDE DEF a, x
  <2>1. CASE blitter_state = "WORKING"
    <3>1. Lined(draws, queue["BLITTER"], TRUE, x) /\ Lined(draws2, a, TRUE, x)
      BY <1>1, <1>b, <1>4, <2>1, PendingNow, PendingNext DEF PromiseAt, x
    <3> QED BY <1>3, <2>3, <3>1
  <2>2. CASE blitter_state # "WORKING"
    <3>1. Lined(draws, queue["BLITTER"], FALSE, x) /\ Lined(draws2, a, FALSE, x)
      BY <1>1, <1>b, <1>4, <2>2, PendingNow, PendingNext DEF PromiseAt, x
    <3> QED BY <1>3, <2>3, <3>1
  <2> QED BY <2>1, <2>2
<1> HIDE DEF a
<1>7. /\ old \subseteq uncertain
      /\ \A k \in DOMAIN moves :
           Disturbed(moves[k], DrawnBy(draws) \cup Drawn(b)) \subseteq uncertain
  <2>1. Drawn(Launched) = Drawn(b)
    BY <1>3, <1>d, TakenDrawing
  <2> QED BY <1>1, <1>a, <2>1, ContestedDraw DEF PromiseAt
<1>8. DrawnBy(draws2) = DrawnBy(draws) \cup Drawn(b)
  BY <1>1, <1>6, DrawnLonger DEF PromiseAt, Promises
<1>9. PICK r2 : /\ Promises(moves, draws2, r2, m2, uncertain)
                /\ r2[1] = Performed(r[1], b)
  <2>1. Promises(moves, draws, r, promised, old)
    BY <1>1 DEF PromiseAt
  <2>2. Promises(moves, draws, r, promised, uncertain)
    BY <1>7, <2>1, PromisesGrow
  <2>3. Apart(moves, draws2, uncertain)
    BY <1>7, <1>8 DEF Apart
  <2>4. \E r2 : /\ Promises(moves, draws2, r2, Performed(promised, b), uncertain)
                /\ r2[1] = Performed(r[1], b)
    BY <1>3, <1>6, <2>2, <2>3, PromisesDraw
  <2>5. Performed(promised, b) = m2
    BY <1>2, <1>3, <1>c, <1>d, TakenDrawing
  <2> QED BY <2>4, <2>5
<1>10. Standing(r2[1], uncertain, DrawnBy(draws2))'
  <2>1. dma_state = "WORKING" => Spares(dma_command, Drawn(b), uncertain)
    <3> SUFFICES ASSUME dma_state = "WORKING"
                 PROVE  Spares(dma_command, Drawn(b), uncertain)
      OBVIOUS
    <3>1. /\ 1 \in DOMAIN moves /\ moves[1] = dma_command
          /\ dma_command \in Transfers
      BY <1>1, WorkingMove DEF ExactTransfers
    <3>2. Disturbed(dma_command, DrawnBy(draws) \cup Drawn(b)) \subseteq uncertain
      BY <1>7, <3>1
    <3> QED BY <3>1, <3>2, DisturbedUnion DEF Spares
  <2>2. Standing(r[1], old, DrawnBy(draws))
    BY <1>1 DEF PromiseAt
  <2>3. OnlyHot(Drawn(b), r[1], r2[1])
    BY <1>1, <1>2, <1>3, <1>9, FirstContent, DrawPerformed DEF OnlyHot
  <2>4. Renewed(r[1], DrawnBy(draws), r2[1], DrawnBy(draws2), uncertain)
    BY <1>8, <2>3 DEF OnlyHot, Renewed
  <2>5. UNCHANGED dmaVars
    BY <1>2
  <2> QED BY <1>7, <2>1, <2>2, <2>3, <2>4, <2>5, StandingOther
<1>11. BP!Cleared(uncertain)'
  BY <1>1, <1>2, <1>4, <1>7, EngineAssumptions, FrameWhole, BP!ClearedOther
     DEF PromiseAt, EnginesInv
<1>12. DP!Shaped'
  BY <1>1, <1>2, <1>4 DEF PromiseAt, DP!Shaped, DP!buffer, DP!fetched
<1>13. PromiseAt(moves, draws2, r2, m2, uncertain)'
  BY <1>b, <1>c, <1>2, <1>5, <1>9, <1>10, <1>11, <1>12 DEF PromiseAt
<1> QED BY <1>13 DEF PromiseInv
-----------------------------------------------------------------------------
(* A command is taken.                                                     *)
LEMMA FrontQueued ==
  ASSUME NEW q, Queued(q), q # << >>
  PROVE  1 \in DOMAIN q /\ Head(q) = q[1]
<1>1. PICK T : q \in Seq([cycle : Cycles, data : T])
  BY DEF Queued
<1> QED BY <1>1, HeadTailProperties, EmptySeq, LenProperties

LEMMA PromiseSubmitDma ==
  ASSUME Shapes, Shapes', EnginesInv, PromiseInv, CommandsExact, SubmitDma
  PROVE  PromiseInv'
<1>1. PICK moves, draws, r, m, old : PromiseAt(moves, draws, r, m, old)
  BY DEF PromiseInv
<1>a. PICK x : x = Head(queue["DMA"]).data
  OBVIOUS
<1>b. PICK uncertain : uncertain = contested'
  OBVIOUS
<1>2. /\ D!Submit(x) /\ S!Submit("DMA") /\ FrontCanRun(queue["DMA"], cycle)
      /\ uncertain = old \cup CopyOf(x, old)
      /\ UNCHANGED <<promised, blitterVars>>
  BY <1>1, <1>a, <1>b DEF SubmitDma, PromiseAt
<1>3. Queued(queue["DMA"]) /\ queue["DMA"] # << >>
  BY <1>2, Pipes DEF Shapes, FrontCanRun
<1>4. x \in ExactTransfers /\ x \in Transfers /\ S!Taken(x) = x
  <2>1. 1 \in DOMAIN queue["DMA"] /\ x = queue["DMA"][1].data
    BY <1>a, <1>3, FrontQueued
  <2>2. x \in ExactTransfers
    BY <2>1 DEF CommandsExact
  <2> QED BY <2>2 DEF ExactTransfers, Transfers, S!Taken
<1>5. /\ dma_state # "WORKING" /\ dma_state' = "WORKING"
      /\ dma_command' = x /\ memory' = memory
      /\ queue'["DMA"] = Tail(queue["DMA"])
      /\ queue'["BLITTER"] = queue["BLITTER"]
      /\ UNCHANGED <<blitter_state, blitter_command, DP!buffer, DP!fetched>>
  <2>1. dma_state' = EngineState'["DMA"] /\ EngineState'["DMA"] = "WORKING"
    BY <1>2, Pipes DEF S!Submit, EngineState
  <2> QED BY <1>2, <2>1, Pipes
          DEF D!Submit, S!Submit, Shapes, blitterVars, D!buffer, D!fetched,
              DP!buffer, DP!fetched
<1>6. draws = ToDraw'
  BY <1>1, <1>5, SameDraws DEF PromiseAt
<1>7. moves = ToMove' /\ 1 \in DOMAIN moves /\ moves[1] = x
  <2>1. Lined(moves, queue["DMA"], FALSE, dma_command)
    BY <1>1, <1>5, PendingNow DEF PromiseAt
  <2>2. Lined(ToMove', Tail(queue["DMA"]), TRUE, x)
    BY <1>5, PendingNext
  <2>3. ToMove' = moves
    BY <1>3, <1>4, <1>a, <2>1, <2>2, LinedTaken
  <2>4. moves[1] = x /\ Len(moves) = 1 + Len(Tail(queue["DMA"]))
    BY <2>2, <2>3 DEF Lined
  <2>5. Len(Tail(queue["DMA"])) \in Nat
    BY <1>3, QueuedTail, QueuedLength
  <2>6. List(moves)
    BY <1>1 DEF PromiseAt, Promises
  <2> QED BY <2>3, <2>4, <2>5, <2>6 DEF List
<1>8. Promises(moves, draws, r, m, uncertain) /\ old \subseteq uncertain
  BY <1>1, <1>2, PromisesGrow DEF PromiseAt
<1>9. ASSUME NEW a \in D!Address, a \notin old \cup DrawnBy(draws)
      PROVE  memory[a] = r[1][a]
  BY <1>1, <1>5, <1>9 DEF PromiseAt, Standing
<1>10. ASSUME x.operation = "COPY", NEW j \in 0 .. x.length - 1,
              x.dest + j \notin uncertain
       PROVE  memory[x.source + j] = r[1][x.source + j]
  <2>1. x.dest + j \in Target(x) /\ (x.dest + j) - x.dest = j
    BY <1>4, <1>10 DEF Transfers, Target
  <2>2. /\ x.source + j \in D!Address /\ x.source + j \in Source(x)
        /\ x.dest + ((x.source + j) - x.source) = x.dest + j
    BY <1>4, <1>10, <2>1, CopySource
  <2>3. x.source + j \notin old
    BY <1>2, <1>10, <2>2, CopyOfMember
  <2>4. x.source + j \notin DrawnBy(draws)
    BY <1>4, <1>7, <1>8, <1>10, <2>1, ApartFrom DEF Promises
  <2> QED BY <1>9, <2>2, <2>3, <2>4
<1>11. Standing(r[1], uncertain, DrawnBy(draws))'
  <2>1. DP!Submit(x)
    BY <1>2 DEF D!Submit, D!Accepts, D!After, D!SourceLine, D!LineOf,
                D!buffer, D!fetched, DP!Submit, DP!Accepts, DP!After,
                DP!SourceLine, DP!LineOf, DP!buffer, DP!fetched
  <2>2. \A a \in DP!Address :
          a \notin uncertain \cup DrawnBy(draws) => memory[a] = r[1][a]
    BY <1>8, <1>9, SameAddress
  <2>3. DP!Alongside(r[1], uncertain, DrawnBy(draws))'
    BY <1>4, <1>10, <2>1, <2>2, NoCrash, EngineAssumptions, TransfersProper,
       DP!AlongsideSubmit DEF EnginesInv
  <2> QED BY <1>5, <2>3 DEF Standing
<1>12. BP!Cleared(uncertain)'
  BY <1>1, <1>5, <1>8, EngineAssumptions, FrameWhole, BP!ClearedOther
     DEF PromiseAt, EnginesInv
<1>13. DP!Shaped'
  BY <1>1, <1>5 DEF PromiseAt, DP!Shaped, DP!buffer, DP!fetched
<1>14. PromiseAt(moves, draws, r, m, uncertain)'
  BY <1>1, <1>b, <1>2, <1>6, <1>7, <1>8, <1>11, <1>12, <1>13 DEF PromiseAt
<1> QED BY <1>14 DEF PromiseInv

LEMMA PromiseSubmitBlitter ==
  ASSUME Shapes, Shapes', EnginesInv, PromiseInv, CommandsFit, SubmitBlitter
  PROVE  PromiseInv'
<1>1. PICK moves, draws, r, m, uncertain :
        PromiseAt(moves, draws, r, m, uncertain)
  BY DEF PromiseInv
<1>a. PICK x : x = Head(queue["BLITTER"]).data
  OBVIOUS
<1>2. /\ B!Submit(x) /\ S!Submit("BLITTER")
      /\ FrontCanRun(queue["BLITTER"], cycle)
      /\ UNCHANGED <<promised, contested, dmaVars>>
  BY <1>a DEF SubmitBlitter, history
<1>3. Queued(queue["BLITTER"]) /\ queue["BLITTER"] # << >>
  BY <1>2, Pipes DEF Shapes, FrontCanRun
<1>4. B!Taken(x) \in Drawings
  <2>1. /\ 1 \in DOMAIN queue["BLITTER"]
        /\ x = queue["BLITTER"][1].data
    BY <1>a, <1>3, FrontQueued
  <2> QED BY <2>1 DEF CommandsFit
<1>5. /\ blitter_state # "WORKING" /\ blitter_state' = "WORKING"
      /\ blitter_command' = B!Taken(x) /\ memory' = memory
      /\ queue'["BLITTER"] = Tail(queue["BLITTER"])
      /\ queue'["DMA"] = queue["DMA"]
      /\ UNCHANGED <<dma_state, dma_command, DP!buffer, DP!fetched>>
  BY <1>2, Pipes
     DEF B!Submit, S!Submit, Shapes, dmaVars, DP!buffer, DP!fetched
<1>6. moves = ToMove'
  BY <1>1, <1>5, SameMoves DEF PromiseAt
<1>7. draws = ToDraw'
  <2>a. PICK x2 : x2 = B!Taken(blitter_command')
    OBVIOUS
  <2>b. PICK x1 : x1 = B!Taken(blitter_command)
    OBVIOUS
  <2>1. Lined(draws, queue["BLITTER"], FALSE, x1)
    BY <1>1, <1>5, <2>b, PendingNow DEF PromiseAt
  <2>2. Lined(ToDraw', Tail(queue["BLITTER"]), TRUE, x2)
    BY <1>5, <2>a, PendingNext
  <2>3. x2 = S!Taken(Head(queue["BLITTER"]).data)
    <3>1. B!Taken(B!Taken(x)) = B!Taken(x)
      BY <1>4 DEF B!Taken, Drawings, BP!Command
    <3> QED BY <1>a, <1>5, <2>a, <3>1, SameTaken
  <2>4. ToDraw' = draws
    BY <1>3, <2>1, <2>2, <2>3, LinedTaken
  <2> QED BY <2>4
<1>8. Standing(r[1], uncertain, DrawnBy(draws))'
  <2>1. dma_state = "WORKING" => Spares(dma_command, {}, uncertain)
    BY <1>1, WorkingMove, NothingDisturbed DEF ExactTransfers, Spares
  <2>2. Standing(r[1], uncertain, DrawnBy(draws)) /\ UNCHANGED dmaVars
    BY <1>1, <1>2 DEF PromiseAt
  <2>3. /\ Renewed(r[1], DrawnBy(draws), r[1], DrawnBy(draws), uncertain)
        /\ OnlyHot({}, r[1], r[1])
    BY <1>5 DEF Renewed, OnlyHot
  <2> QED BY <2>1, <2>2, <2>3, StandingOther
<1>9. BP!Cleared(uncertain)'
  <2>1. BP!Submit(x) /\ BP!Taken(x) = B!Taken(x)
    BY <1>2 DEF B!Submit, B!Taken, BP!Submit, BP!Taken
  <2>2. BP!Taken(x) \in BP!Command
    BY <1>4, <2>1 DEF Drawings
  <2> QED BY <2>1, <2>2, EngineAssumptions, BP!ClearedSubmit
<1>10. DP!Shaped'
  BY <1>1, <1>5 DEF PromiseAt, DP!Shaped, DP!buffer, DP!fetched
<1>11. PromiseAt(moves, draws, r, m, uncertain)'
  BY <1>1, <1>2, <1>6, <1>7, <1>8, <1>9, <1>10 DEF PromiseAt
<1> QED BY <1>11 DEF PromiseInv
-----------------------------------------------------------------------------
(* A cycle of the DMA engine.                                              *)
LEMMA DmaCycle ==
  ASSUME Shapes, EnginesInv, EnginesInv', RunDma
  PROVE  /\ dma_command' = dma_command
         /\ UNCHANGED <<queue, blitter_state, blitter_command, promised,
                        contested>>
         /\ \E first : DP!RunCycle(first) /\ (~first => DP!RunCycle(FALSE))
                       /\ (first => DP!Rest(first))
         /\ dma_state # "WORKING" =>
              /\ dma_state' # "WORKING" /\ memory' = memory
              /\ UNCHANGED <<DP!buffer, DP!fetched>>
         /\ dma_state = "WORKING" => dma_state' \in {"WORKING", "FINISHED"}
<1>1. PICK first \in BOOLEAN : D!RunCycle(first)
                               /\ UNCHANGED <<queue, blitterVars, history>>
  <2> DEFINE early == cycle < work_cycle["DMA"]
  <2>1. D!RunCycle(early) /\ UNCHANGED <<queue, blitterVars, history>>
    BY DEF RunDma
  <2>2. CASE early
    <3>1. early = TRUE
      BY <2>2
    <3>2. D!RunCycle(TRUE)
      BY <2>1, <3>1
    <3> QED BY <2>1, <3>2
  <2>3. CASE ~early
    <3>1. early = FALSE
      BY <2>3
    <3>2. D!RunCycle(FALSE)
      BY <2>1, <3>1
    <3> QED BY <2>1, <3>2
  <2> QED BY <2>2, <2>3
<1>2. UNCHANGED <<queue, blitter_state, blitter_command, promised, contested>>
  BY <1>1 DEF blitterVars, history
<1>3. DP!RunCycle(first) /\ (~first => DP!RunCycle(FALSE))
  <2>1. CASE first = TRUE
    <3>1. D!RunCycle(TRUE)
      BY <1>1, <2>1
    <3>2. DP!RunCycle(TRUE)
      BY <3>1, DmaAlone
    <3> QED BY <2>1, <3>2
  <2>2. CASE first = FALSE
    <3>1. D!RunCycle(FALSE)
      BY <1>1, <2>2
    <3>2. DP!RunCycle(FALSE)
      BY <3>1, DmaAlone
    <3> QED BY <2>2, <3>2
  <2> QED BY <2>1, <2>2
<1>4. dma_command' = dma_command
  BY <1>1 DEF D!RunCycle, D!Rest, D!Crash, D!Copy, D!CopyRead, D!CopyFetch,
              D!CopyWrite, D!Set, D!SetWhole, D!SetFetch, D!SetPart,
              D!SetCrash, D!Works
<1>5. first \/ dma_state # "WORKING" => DP!Rest(first)
  BY <1>3 DEF DP!RunCycle, DP!Crash, DP!Copy, DP!CopyRead, DP!CopyFetch,
              DP!CopyWrite, DP!Set, DP!SetWhole, DP!SetFetch, DP!SetPart,
              DP!SetCrash, DP!Works
<1>6. dma_state # "WORKING" =>
        /\ dma_state' # "WORKING" /\ memory' = memory
        /\ UNCHANGED <<DP!buffer, DP!fetched>>
  BY <1>5 DEF DP!Rest
<1>7. dma_state = "WORKING" =>
        dma_state' \in {"WORKING", "FINISHED", "CRASHED"}
  BY <1>1 DEF D!RunCycle, D!Rest, D!Crash, D!Copy, D!CopyRead, D!CopyFetch,
              D!CopyWrite, D!Set, D!SetWhole, D!SetFetch, D!SetPart,
              D!SetCrash, D!Advance
<1>8. dma_state' # "CRASHED"
  <2>1. (dma_state # "CRASHED")'
    BY NoCrash, PTL
  <2> QED BY <2>1
<1> QED BY <1>2, <1>3, <1>4, <1>5, <1>6, <1>7, <1>8

(* What it writes while it works: nothing outside of its lines.            *)
LEMMA DmaWrites ==
  ASSUME Shapes, EnginesInv, EnginesInv', RunDma, DP!Shaped
  PROVE  /\ DP!Shaped'
         /\ \A a \in D!Address : ~DP!OfItsLines(a) => memory'[a] = memory[a]
<1>1. CASE dma_state # "WORKING"
  <2>1. memory' = memory /\ UNCHANGED <<DP!buffer, DP!fetched>>
    BY <1>1, DmaCycle
  <2> QED BY <2>1 DEF DP!Shaped, DP!buffer, DP!fetched
<1>2. CASE dma_state = "WORKING"
  <2>1. PICK first : /\ DP!RunCycle(first) /\ (~first => DP!RunCycle(FALSE))
                     /\ (first => DP!Rest(first))
    BY DmaCycle
  <2>2. CASE first
    <3>1. memory' = memory /\ UNCHANGED <<DP!buffer, DP!fetched>>
      BY <2>1, <2>2 DEF DP!Rest
    <3> QED BY <3>1 DEF DP!Shaped, DP!buffer, DP!fetched
  <2>3. CASE ~first
    BY <1>2, <2>1, <2>3, EngineAssumptions, TransfersProper, SameAddress,
       DP!RunWrites DEF EnginesInv
  <2> QED BY <2>2, <2>3
<1> QED BY <1>1, <1>2

(* The blitter goes on beside it.                                          *)
LEMMA ClearedBeside ==
  ASSUME Shapes, EnginesInv, EnginesInv', RunDma,
         NEW moves, NEW draws, NEW r, NEW m, NEW uncertain,
         PromiseAt(moves, draws, r, m, uncertain)
  PROVE  BP!Cleared(uncertain)'
<1>1. BP!Cleared(uncertain) /\ DP!Shaped
  BY DEF PromiseAt
<1>2. /\ UNCHANGED <<blitter_state, blitter_command>>
      /\ \A a \in D!Address : ~DP!OfItsLines(a) => memory'[a] = memory[a]
  BY <1>1, DmaCycle, DmaWrites
<1>3. CASE blitter_state # "WORKING"
  BY <1>2, <1>3 DEF BP!Cleared
<1>4. CASE blitter_state = "WORKING"
  <2>1. \A a \in D!Address :
          a \notin uncertain /\ a \in BP!AreaOf(blitter_command) =>
            memory'[a] = memory[a]
    <3> SUFFICES ASSUME NEW a \in D!Address, a \notin uncertain,
                        a \in BP!AreaOf(blitter_command)
                 PROVE  memory'[a] = memory[a]
      OBVIOUS
    <3>1. a \in DrawnBy(draws)
      BY <1>4, WorkingDraw
    <3>2. CASE dma_state = "WORKING"
      <4>1. 1 \in DOMAIN moves /\ moves[1] = dma_command
        BY <3>2, WorkingMove
      <4>2. Disturbed(dma_command, DrawnBy(draws)) \subseteq uncertain
        BY <4>1 DEF PromiseAt, Promises, Apart
      <4>3. ~DP!OfItsLines(a)
        BY <3>1, <4>2, LinesDisturbed
      <4> QED BY <1>2, <4>3
    <3>3. CASE dma_state # "WORKING"
      BY <3>3, DmaCycle
    <3> QED BY <3>2, <3>3
  <2> QED BY <1>1, <1>2, <2>1, EngineAssumptions, FrameWhole, SameAddress,
             BP!ClearedOther DEF EnginesInv, BP!c
<1> QED BY <1>3, <1>4

LEMMA PromiseRunDma ==
  ASSUME Shapes, Shapes', EnginesInv, EnginesInv', PromiseInv, RunDma
  PROVE  PromiseInv'
<1>1. PICK moves, draws, r, m, uncertain :
        PromiseAt(moves, draws, r, m, uncertain)
  BY DEF PromiseInv
<1>2. /\ dma_command' = dma_command
      /\ UNCHANGED <<queue, blitter_state, blitter_command, promised,
                     contested>>
  BY DmaCycle
<1>3. draws = ToDraw'
  BY <1>1, <1>2, SameDraws DEF PromiseAt
<1>4. DP!Shaped' /\ BP!Cleared(uncertain)'
  BY <1>1, DmaWrites, ClearedBeside DEF PromiseAt
<1>5. dma_state = "WORKING" =>
        DP!Alongside(r[1], uncertain, DrawnBy(draws))'
  <2> SUFFICES ASSUME dma_state = "WORKING"
               PROVE  DP!Alongside(r[1], uncertain, DrawnBy(draws))'
    OBVIOUS
  <2>1. PICK first : DP!RunCycle(first)
    BY DmaCycle
  <2>2. dma_state' # "CRASHED"
    BY DmaCycle
  <2>3. DP!Alongside(r[1], uncertain, DrawnBy(draws)) /\ DP!Shaped /\ DP!Exact
    BY <1>1, WorkingMove DEF PromiseAt, Standing
  <2> QED BY <2>1, <2>2, <2>3, EngineAssumptions, TransfersProper,
             DP!AlongsideRun DEF EnginesInv
<1>6. CASE dma_state' = "WORKING" <=> dma_state = "WORKING"
  <2>1. moves = ToMove'
    BY <1>1, <1>2, <1>6, SameMoves DEF PromiseAt
  <2>2. Standing(r[1], uncertain, DrawnBy(draws))'
    <3>1. CASE dma_state = "WORKING"
      BY <1>5, <1>6, <3>1 DEF Standing
    <3>2. CASE dma_state # "WORKING"
      <4>1. memory' = memory
        BY <3>2, DmaCycle
      <4>2. \A a \in D!Address :
              a \notin uncertain \cup DrawnBy(draws) => memory[a] = r[1][a]
        BY <1>1, <3>2 DEF PromiseAt, Standing
      <4> QED BY <1>6, <3>2, <4>1, <4>2 DEF Standing
    <3> QED BY <3>1, <3>2
  <2>3. PromiseAt(moves, draws, r, m, uncertain)'
    BY <1>1, <1>2, <1>3, <1>4, <2>1, <2>2 DEF PromiseAt
  <2> QED BY <2>3 DEF PromiseInv
<1>7. CASE ~(dma_state' = "WORKING" <=> dma_state = "WORKING")
  <2>1. dma_state = "WORKING" /\ dma_state' = "FINISHED"
    BY <1>7, DmaCycle
  <2>a. PICK moves2 : moves2 = ToMove'
    OBVIOUS
  <2>b. PICK x : x = dma_command
    OBVIOUS
  <2>2. Shorter(moves2, moves) /\ moves[1] = dma_command
    <3>1. Lined(moves, queue["DMA"], TRUE, x)
      BY <1>1, <2>1, <2>b, PendingNow DEF PromiseAt
    <3>2. Lined(moves2, queue["DMA"], FALSE, x)
      BY <1>2, <2>1, <2>a, <2>b, PendingNext
    <3>3. Queued(queue["DMA"])
      BY Pipes DEF Shapes
    <3>4. Shorter(moves2, moves) /\ moves[1] = x
      BY <3>1, <3>2, <3>3, LinedFinished
    <3> QED BY <2>b, <3>4
  <2>3. PICK r2 : /\ Promises(moves2, draws, r2, m, uncertain)
                  /\ \A a \in D!Address : a \notin uncertain =>
                       r2[1][a] = Performed(r[1], moves[1])[a]
    BY <1>1, <2>2, PromisesMoved DEF PromiseAt
  <2>4. dma_command \in Transfers
    BY <1>1, <2>1, WorkingMove DEF ExactTransfers
  <2>5. ASSUME NEW a \in D!Address, a \notin uncertain \cup DrawnBy(draws)
        PROVE  memory'[a] = r2[1][a]
    <3>1. /\ DP!InRange(a)' => memory'[a] = DP!Brought(r[1], a)'
          /\ ~DP!InRange(a)' => memory'[a] = r[1][a]
      BY <1>5, <2>1, <2>5, SameAddress, EngineAssumptions, TransfersProper,
         DP!AlongsideEnd DEF EnginesInv
    <3>2. DP!InRange(a)' <=> a \in Target(dma_command)
      BY <1>2, <2>4, <2>5, SameAddress
         DEF DP!InRange, DP!c, Target, Transfers
    <3>3. DP!Brought(r[1], a)' =
            IF dma_command.operation = "COPY"
            THEN r[1][dma_command.source + (a - dma_command.dest)]
            ELSE dma_command.value
      BY <1>2 DEF DP!Brought, DP!c
    <3>4. memory'[a] = Performed(r[1], dma_command)[a]
      BY <1>1, <2>4, <2>5, <3>1, <3>2, <3>3, FirstContent, MovePerformed
    <3> QED BY <2>2, <2>3, <2>5, <3>4
  <2>6. Standing(r2[1], uncertain, DrawnBy(draws))'
    BY <2>1, <2>5 DEF Standing
  <2>7. PromiseAt(moves2, draws, r2, m, uncertain)'
    BY <1>1, <1>2, <1>3, <1>4, <2>a, <2>3, <2>6 DEF PromiseAt
  <2> QED BY <2>7 DEF PromiseInv
<1> QED BY <1>6, <1>7
-----------------------------------------------------------------------------
(* A cycle of the blitter.                                                 *)
LEMMA BlitterCycle ==
  ASSUME EnginesInv', RunBlitter
  PROVE  /\ UNCHANGED <<queue, dmaVars, promised, contested>>
         /\ \/ /\ UNCHANGED <<memory, blitter_command>>
               /\ blitter_state' = "WORKING" <=> blitter_state = "WORKING"
            \/ blitter_state = "WORKING" /\ BP!RunCycle(FALSE)
         /\ blitter_state' # "CRASHED"
<1> DEFINE early == cycle < work_cycle["BLITTER"]
<1>1. B!RunCycle(early) /\ UNCHANGED <<queue, dmaVars, history>>
  BY DEF RunBlitter
<1> HIDE DEF early
<1>2. UNCHANGED <<queue, dmaVars, promised, contested>>
  BY <1>1 DEF history
<1>3. blitter_state' # "CRASHED"
  <2>1. (blitter_state # "CRASHED")'
    BY NoCrash, PTL
  <2> QED BY <2>1
<1>4. CASE B!Rest(early)
  <2>1. /\ UNCHANGED <<memory, blitter_command>>
        /\ blitter_state' = "WORKING" <=> blitter_state = "WORKING"
    BY <1>4 DEF B!Rest
  <2> QED BY <1>2, <1>3, <2>1
<1>5. CASE ~B!Rest(early)
  <2>1. B!Crash \/ B!Pixel \/ B!ClearEnds \/ B!ClearLine
    BY <1>1, <1>5 DEF B!RunCycle
  <2>2. blitter_state = "WORKING"
    BY <2>1 DEF B!Crash, B!Pixel, B!ClearEnds, B!ClearLine, B!Works
  <2>3. B!RunCycle(FALSE)
    BY <2>1 DEF B!RunCycle
  <2>4. BP!RunCycle(FALSE)
    BY <2>3, BlitterAlone
  <2> QED BY <1>2, <1>3, <2>2, <2>4
<1> QED BY <1>4, <1>5

LEMMA SparesDrawn ==
  ASSUME Shapes, dma_state = "WORKING",
         NEW moves, NEW draws, NEW r, NEW m, NEW uncertain,
         PromiseAt(moves, draws, r, m, uncertain)
  PROVE  Spares(dma_command, DrawnBy(draws), uncertain)
<1>1. /\ 1 \in DOMAIN moves /\ moves[1] = dma_command
      /\ dma_command \in Transfers
  BY WorkingMove DEF ExactTransfers
<1>2. Disturbed(dma_command, DrawnBy(draws)) \subseteq uncertain
  BY <1>1 DEF PromiseAt, Promises, Apart
<1> QED BY <1>1, <1>2 DEF Spares

LEMMA PromiseRunBlitter ==
  ASSUME Shapes, Shapes', EnginesInv, EnginesInv', PromiseInv, RunBlitter
  PROVE  PromiseInv'
<1>1. PICK moves, draws, r, m, uncertain :
        PromiseAt(moves, draws, r, m, uncertain)
  BY DEF PromiseInv
<1>2. /\ UNCHANGED <<queue, dmaVars, promised, contested>>
      /\ blitter_state' # "CRASHED"
      /\ UNCHANGED <<dma_state, dma_command, DP!buffer, DP!fetched>>
  BY BlitterCycle DEF dmaVars, DP!buffer, DP!fetched
<1>3. moves = ToMove'
  BY <1>1, <1>2, SameMoves DEF PromiseAt
<1>4. dma_state = "WORKING" => Spares(dma_command, DrawnBy(draws), uncertain)
  BY <1>1, SparesDrawn
<1>5. CASE /\ UNCHANGED <<memory, blitter_command>>
           /\ blitter_state' = "WORKING" <=> blitter_state = "WORKING"
  <2>1. draws = ToDraw'
    BY <1>1, <1>2, <1>5, SameDraws DEF PromiseAt
  <2>2. Standing(r[1], uncertain, DrawnBy(draws))'
    <3>1. Standing(r[1], uncertain, DrawnBy(draws)) /\ UNCHANGED dmaVars
      BY <1>1, <1>2 DEF PromiseAt
    <3>2. /\ Renewed(r[1], DrawnBy(draws), r[1], DrawnBy(draws), uncertain)
          /\ OnlyHot(DrawnBy(draws), r[1], r[1])
      BY <1>5 DEF Renewed, OnlyHot
    <3> QED BY <1>4, <3>1, <3>2, StandingOther
  <2>3. BP!Cleared(uncertain)'
    BY <1>1, <1>5, EngineAssumptions, FrameWhole, BP!ClearedOther
       DEF PromiseAt, EnginesInv
  <2>4. DP!Shaped'
    BY <1>1, <1>2, <1>5 DEF PromiseAt, DP!Shaped, DP!buffer, DP!fetched
  <2>5. PromiseAt(moves, draws, r, m, uncertain)'
    BY <1>1, <1>2, <1>3, <2>1, <2>2, <2>3, <2>4 DEF PromiseAt
  <2> QED BY <2>5 DEF PromiseInv
<1>6. CASE blitter_state = "WORKING" /\ BP!RunCycle(FALSE)
  <2>1. /\ BP!Cleared(uncertain)' /\ DOMAIN memory' = D!Address
        /\ \A a \in D!Address :
             a \notin BP!AreaOf(blitter_command) => memory'[a] = memory[a]
        /\ blitter_state' = "FINISHED" =>
             \A a \in D!Address :
               a \notin uncertain /\ a \in BP!AreaOf(blitter_command) =>
                 memory'[a] = BP!ColourAt(blitter_command, a)
    <3>1. BP!Cleared(uncertain) /\ DOMAIN memory = BP!Address
      BY <1>1, SameAddress DEF PromiseAt, DP!Shaped
    <3> QED BY <1>6, <3>1, SameAddress, EngineAssumptions, FrameWhole,
               BP!ClearedRun DEF EnginesInv, BP!c
  <2>2. DP!Shaped'
    BY <1>1, <1>2, <2>1, SameAddress
       DEF PromiseAt, DP!Shaped, DP!buffer, DP!fetched
  <2>3. /\ 1 \in DOMAIN draws /\ draws[1] = B!Taken(blitter_command)
        /\ BP!AreaOf(blitter_command) = Drawn(draws[1])
        /\ Drawn(draws[1]) \subseteq DrawnBy(draws)
        /\ \A a : BP!ColourAt(blitter_command, a) = ColourAt(draws[1], a)
    BY <1>1, <1>6, WorkingDraw
  <2>4. OnlyHot(DrawnBy(draws), r[1], r[1])
    BY <2>1, <2>3 DEF OnlyHot
  <2>5. Standing(r[1], uncertain, DrawnBy(draws)) /\ UNCHANGED dmaVars
    BY <1>1, <1>2 DEF PromiseAt
  <2>6. BP!LastStep \/ BP!LineStep
    BY <1>2, <1>6, EngineAssumptions, FrameWhole, BP!WorkSteps DEF EnginesInv
  <2>7. CASE BP!LineStep
    <3>1. /\ blitter_state' = "WORKING"
          /\ B!Taken(blitter_command') = B!Taken(blitter_command)
      BY <2>7 DEF BP!LineStep, BP!Taken, B!Taken, BP!c
    <3>2. draws = ToDraw'
      BY <1>1, <1>2, <1>6, <3>1, SameDraws DEF PromiseAt
    <3>3. Renewed(r[1], DrawnBy(draws), r[1], DrawnBy(draws), uncertain)
      BY <2>4 DEF OnlyHot, Renewed
    <3>4. Standing(r[1], uncertain, DrawnBy(draws))'
      BY <1>4, <2>4, <2>5, <3>3, StandingOther
    <3>5. PromiseAt(moves, draws, r, m, uncertain)'
      BY <1>1, <1>2, <1>3, <2>1, <2>2, <3>2, <3>4 DEF PromiseAt
    <3> QED BY <3>5 DEF PromiseInv
  <2>8. CASE BP!LastStep
    <3>1. blitter_state' = "FINISHED" /\ blitter_command' = blitter_command
      BY <2>8 DEF BP!LastStep
    <3>a. PICK draws2 : draws2 = ToDraw'
      OBVIOUS
    <3>b. PICK x : x = B!Taken(blitter_command)
      OBVIOUS
    <3>2. Shorter(draws2, draws)
      <4>1. Lined(draws, queue["BLITTER"], TRUE, x)
        BY <1>1, <1>6, <3>b, PendingNow DEF PromiseAt
      <4>2. Lined(draws2, queue["BLITTER"], FALSE, x)
        BY <1>2, <3>1, <3>a, <3>b, PendingNext
      <4>3. Queued(queue["BLITTER"])
        BY Pipes DEF Shapes
      <4> QED BY <4>1, <4>2, <4>3, LinedFinished
    <3>3. /\ Promises(moves, draws2, r, m, uncertain)
          /\ DrawnBy(draws) = Drawn(draws[1]) \cup DrawnBy(draws2)
          /\ \A a \in Drawn(draws[1]) :
               a \notin uncertain \cup DrawnBy(draws2) =>
                 r[1][a] = ColourAt(draws[1], a)
      BY <1>1, <3>2, PromisesDrawn DEF PromiseAt
    <3>4. Renewed(r[1], DrawnBy(draws), r[1], DrawnBy(draws2), uncertain)
      <4> SUFFICES ASSUME NEW a \in D!Address,
                          a \notin uncertain \cup DrawnBy(draws2)
                   PROVE  \/ memory'[a] = r[1][a]
                          \/ a \notin DrawnBy(draws) /\ memory'[a] = memory[a]
        BY DEF Renewed
      <4>1. CASE a \in Drawn(draws[1])
        BY <2>1, <2>3, <3>1, <3>3, <4>1
      <4>2. CASE a \notin Drawn(draws[1])
        BY <2>1, <2>3, <3>3, <4>2
      <4> QED BY <4>1, <4>2
    <3>5. Standing(r[1], uncertain, DrawnBy(draws2))'
      BY <1>4, <2>4, <2>5, <3>4, StandingOther
    <3>6. PromiseAt(moves, draws2, r, m, uncertain)'
      BY <1>1, <1>2, <1>3, <2>1, <2>2, <3>a, <3>3, <3>5 DEF PromiseAt
    <3> QED BY <3>6 DEF PromiseInv
  <2> QED BY <2>6, <2>7, <2>8
<1> QED BY <1>5, <1>6, BlitterCycle
-----------------------------------------------------------------------------
(* Nothing is pending at first.                                            *)
LEMMA PromiseStart == SystemInit => PromiseInv
<1> SUFFICES ASSUME SystemInit PROVE PromiseInv
  OBVIOUS
<1>1. /\ queue = [p \in S!Pipe |-> << >>]
      /\ dma_state = "IDLE" /\ blitter_state = "IDLE"
      /\ memory = [a \in D!Address |-> a % Base]
      /\ promised = memory /\ contested = {}
      /\ DOMAIN active_buffer = 0 .. 2 * Width - 1
      /\ DOMAIN fetched_writeback_data = 0 .. Width - 1
  BY DEF SystemInit, D!Init, B!Init
<1>2. Shapes
  BY CountsInit DEF Counts
<1>a. PICK moves : moves = ToMove
  OBVIOUS
<1>b. PICK draws : draws = ToDraw
  OBVIOUS
<1>c. PICK m : m = promised
  OBVIOUS
<1> DEFINE r == [k \in 1 .. 1 |-> m]
           none == {}
<1>3. List(moves) /\ List(draws) /\ Len(moves) = 0 /\ Len(draws) = 0
  <2>1. queue["DMA"] = << >> /\ queue["BLITTER"] = << >>
    BY <1>1, Pipes
  <2>2. /\ Lined(moves, << >>, FALSE, dma_command)
        /\ Lined(draws, << >>, FALSE, B!Taken(blitter_command))
    BY <1>1, <1>2, <1>a, <1>b, <2>1, PendingNow
  <2>3. List(moves) /\ List(draws)
    BY <2>2, LinedList
  <2> QED BY <2>2, <2>3 DEF Lined
<1>4. DOMAIN moves = {} /\ DOMAIN draws = {}
  BY <1>3 DEF List
<1>5. Chain(moves, r, m, none)
  <2>1. DOMAIN m = D!Address
    BY <1>1, <1>c
  <2> QED BY <1>3, <2>1 DEF Chain
<1>6. Apart(moves, draws, none) /\ Coloured(draws, r[1], none)
  BY <1>4 DEF Apart, Coloured
<1>7. Promises(moves, draws, r, m, none)
  BY <1>3, <1>4, <1>5, <1>6 DEF Promises
<1>8. Standing(r[1], none, DrawnBy(draws))
  BY <1>1, <1>c DEF Standing
<1>9. DP!Shaped /\ BP!Cleared(none)
  BY <1>1, SameAddress DEF DP!Shaped, BP!Cleared
<1>10. PromiseAt(moves, draws, r, m, none)
  BY <1>1, <1>a, <1>b, <1>c, <1>7, <1>8, <1>9 DEF PromiseAt
<1> QED BY <1>10 DEF PromiseInv

(* No other step has to do with the promise.                               *)
LEMMA PromiseElsewhere ==
  ASSUME Shapes, Shapes', EnginesInv, PromiseInv,
         \/ CoreStep \/ SubmissionRefused \/ EndOfCycle
         \/ SubmissionAccepted /\ ~S!Launch(Command)
         \/ \E p \in S!Pipe : CheckPipe(p)
         \/ UNCHANGED systemVars
  PROVE  PromiseInv'
<1>1. CASE \/ CoreStep \/ SubmissionRefused \/ EndOfCycle
           \/ UNCHANGED systemVars
  <2>1. UNCHANGED <<memory, queue, dmaVars, blitterVars, history>>
    BY <1>1 DEF CoreStep, SubmissionRefused, EndOfCycle, systemVars,
                schedulerVars, S!RefuseLaunch, S!Fence
  <2> QED BY <2>1, PromiseKept
<1>2. CASE SubmissionAccepted /\ ~S!Launch(Command)
  <2>1. S!Configure(Command) \/ S!Fence(Command)
    BY <1>2 DEF SubmissionAccepted
  <2>2. Command.op \notin S!Launchers /\ UNCHANGED queue
    BY <2>1 DEF S!Configure, S!Fence, S!Setters, S!Launchers, S!FenceOp
  <2>3. UNCHANGED <<memory, queue, dmaVars, blitterVars, history>>
    BY <1>2, <2>2 DEF SubmissionAccepted, Promise
  <2> QED BY <2>3, PromiseKept
<1>3. CASE \E p \in S!Pipe : CheckPipe(p)
  <2>1. PICK p \in S!Pipe : CheckPipe(p)
    BY <1>3
  <2>2. UNCHANGED <<memory, dmaVars, blitterVars, history>>
    BY <2>1 DEF CheckPipe
  <2>3. queue' = queue \/ queue' = [queue EXCEPT ![p] = IncrementAll(@)]
    BY <2>1 DEF CheckPipe, S!NothingToCheck, S!PutOff, S!IncrementAll,
                S!NextCycle, IncrementAll, NextCycle
  <2>4. \A q \in S!Pipe :
          queue'[q] = queue[q] \/ queue'[q] = IncrementAll(queue[q])
    BY <2>1, <2>3 DEF Shapes
  <2> QED BY <2>2, <2>4, PromiseKept
<1> QED BY <1>1, <1>2, <1>3

LEMMA PromiseNext ==
  ASSUME Counts, Counts', EnginesInv, EnginesInv', PromiseInv,
         CommandsFit, CommandsFit', CommandsExact, CommandsExact',
         [SystemNext]_systemVars
  PROVE  PromiseInv'
<1>1. Shapes /\ Shapes'
  BY DEF Counts
<1>2. CASE SubmissionAccepted /\ S!Launch(Command)
  <2>1. S!PipeOf(Command.op) \in {"DMA", "BLITTER"}
    BY DEF S!PipeOf
  <2> QED BY <1>1, <1>2, <2>1, PromiseLaunchMove, PromiseLaunchDraw
<1>3. CASE SubmitDma \/ SubmitBlitter \/ RunDma \/ RunBlitter
  BY <1>1, <1>3, PromiseSubmitDma, PromiseSubmitBlitter, PromiseRunDma,
     PromiseRunBlitter
<1> QED BY <1>1, <1>2, <1>3, PromiseElsewhere DEF SystemNext

(* With nothing pending the promise has been kept.                         *)
LEMMA NothingPending ==
  ASSUME Shapes, PromiseInv, queue["DMA"] = << >>, queue["BLITTER"] = << >>,
         dma_state # "WORKING", blitter_state # "WORKING"
  PROVE  KeepsPromise
<1>1. PICK moves, draws, r, m, uncertain :
        PromiseAt(moves, draws, r, m, uncertain)
  BY DEF PromiseInv
<1>2. /\ Lined(moves, << >>, FALSE, dma_command)
      /\ Lined(draws, << >>, FALSE, B!Taken(blitter_command))
  BY <1>1, PendingNow DEF PromiseAt
<1>3. Len(moves) = 0 /\ Len(draws) = 0 /\ List(draws)
  BY <1>1, <1>2 DEF Lined, PromiseAt, Promises
<1>4. DrawnBy(draws) = {}
  BY <1>3 DEF List, DrawnBy
<1>5. r[1] = promised
  BY <1>1, <1>3 DEF PromiseAt, Promises, Chain
<1>6. \A a \in D!Address :
        a \notin uncertain \cup DrawnBy(draws) => memory[a] = r[1][a]
  BY <1>1 DEF PromiseAt, Standing
<1>7. uncertain = contested
  BY <1>1 DEF PromiseAt
<1> QED BY <1>4, <1>5, <1>6, <1>7 DEF KeepsPromise

LEMMA PromiseSettled ==
  ASSUME Counts, PromiseInv PROVE SettledMemory
<1> SUFFICES ASSUME \A p \in S!Pipe : outstanding[p] = 0 PROVE KeepsPromise
  BY DEF SettledMemory
<1>1. \A p \in S!Pipe : queue[p] = << >> /\ ~S!Working(p)
  BY ZeroIsDrained
<1>2. /\ queue["DMA"] = << >> /\ queue["BLITTER"] = << >>
      /\ dma_state # "WORKING" /\ blitter_state # "WORKING"
  BY <1>1, Pipes DEF S!Working, EngineState
<1> QED BY <1>2, NothingPending DEF Counts

LEMMA PromiseFenced ==
  ASSUME Counts, FenceInv, PromiseInv PROVE FenceIsBarrier
<1> SUFFICES ASSUME phase = "memory", submitted.op = "P_SCH_FNC"
             PROVE  KeepsPromise
  BY DEF FenceIsBarrier
<1>1. SchedulerPhase = "check DMA"
  BY DEF SchedulerPhase
<1>2. \A p \in S!Pipe : queue[p] = << >> /\ ~S!Working(p)
  BY <1>1 DEF FenceInv, S!FenceDrained, S!FenceOp
<1>3. /\ queue["DMA"] = << >> /\ queue["BLITTER"] = << >>
      /\ dma_state # "WORKING" /\ blitter_state # "WORKING"
  BY <1>2, Pipes DEF S!Working, EngineState
<1> QED BY <1>3, NothingPending DEF Counts

LEMMA FenceStart == SystemInit => FenceInv
<1> SUFFICES ASSUME SystemInit PROVE FenceInv
  OBVIOUS
<1> QED
  BY DEF SystemInit, Init, FenceInv, S!FenceDrained, NoCommand, S!FenceOp

(* The simulator keeps its counts, its engines and its promise.            *)
PromiseKeeping == Counts /\ EnginesInv /\ FenceInv /\ PromiseInv

LEMMA PromiseKeepingInit == SystemInit => PromiseKeeping
BY CountsInit, EnginesStart, FenceStart, PromiseStart DEF PromiseKeeping

LEMMA PromiseKeepingNext ==
  /\ PromiseKeeping /\ [SystemNext]_systemVars
  /\ CommandsFit /\ CommandsFit' /\ CommandsExact /\ CommandsExact'
  => PromiseKeeping'
<1> SUFFICES ASSUME PromiseKeeping, [SystemNext]_systemVars,
                    CommandsFit, CommandsFit', CommandsExact, CommandsExact'
             PROVE  PromiseKeeping'
  OBVIOUS
<1>1. Counts /\ EnginesInv /\ FenceInv /\ PromiseInv
  BY DEF PromiseKeeping
<1>2. Counts'
  BY <1>1, CountsNext
<1>3. EnginesInv'
  BY <1>1, EnginesNext
<1>4. FenceInv'
  BY <1>1, <1>2, FenceInvNext
<1>5. PromiseInv'
  BY <1>1, <1>2, <1>3, PromiseNext
<1> QED BY <1>2, <1>3, <1>4, <1>5 DEF PromiseKeeping

(* Whenever no command is outstanding memory holds what all commands were  *)
(* to do, in the order in which the program launched them, but for the     *)
(* bytes that the two pipelines competed for: however the commands waited  *)
(* in their queues and however the engines took turns, if the commands fit *)
(* and no copy reads what it has itself written.                           *)
THEOREM SystemSettled ==
  SystemSpec /\ []CommandsFit /\ []CommandsExact => []SettledMemory
<1>1. PromiseKeeping => SettledMemory
  BY PromiseSettled DEF PromiseKeeping
<1> QED BY <1>1, PromiseKeepingInit, PromiseKeepingNext, PTL DEF SystemSpec

(* A fence is a barrier: when it has left execute memory holds what every  *)
(* command before it was to do, of either pipeline.                        *)
THEOREM SystemFenceIsBarrier ==
  SystemSpec /\ []CommandsFit /\ []CommandsExact => []FenceIsBarrier
<1>1. PromiseKeeping => FenceIsBarrier
  BY PromiseFenced DEF PromiseKeeping
<1> QED BY <1>1, PromiseKeepingInit, PromiseKeepingNext, PTL DEF SystemSpec
-----------------------------------------------------------------------------
(***************************************************************************)
(* The types of the system.  Memory holds bytes: what a set writes is cut  *)
(* to a byte when it is submitted, and a drawing writes the bytes of a     *)
(* colour, if one has been given.                                          *)
(***************************************************************************)
Bytes == 0 .. Base - 1

(* The commands in a queue.                                                *)
DataOf(q) == {q[k].data : k \in DOMAIN q}

(* The program gives a colour before it draws: what the blitter would      *)
(* write without is indeterminate.                                         *)
ColoursGiven == \A x \in DataOf(queue["BLITTER"]) : x.colour # Garbage

SetsBytes ==
  \A x \in DataOf(queue["DMA"]) : x.operation = "SET" => x.value \in Bytes

BytesInv ==
  /\ SetsBytes
  /\ DP!MadeOf(Bytes)
  /\ blitter_state # "IDLE" => blitter_command.colour \in Nat
  /\ promised \in [D!Address -> Bytes]
  /\ contested \subseteq D!Address
-----------------------------------------------------------------------------
LEMMA DataPutOff ==
  ASSUME NEW q, Queued(q)
  PROVE  DataOf(IncrementAll(q)) = DataOf(q)
<1>1. PICK T : q \in Seq([cycle : Cycles, data : T])
  BY DEF Queued
<1>2. \A k \in DOMAIN q : IncrementAll(q)[k].data = q[k].data
  <2>1. DOMAIN q = 1 .. Len(q)
    BY <1>1, LenProperties
  <2> QED BY <1>1, <2>1, IncrementAllType
<1>3. DOMAIN IncrementAll(q) = DOMAIN q
  BY DEF IncrementAll
<1> QED BY <1>2, <1>3 DEF DataOf

LEMMA DataFront ==
  ASSUME NEW q, Queued(q), q # << >>
  PROVE  Head(q).data \in DataOf(q) /\ DataOf(Tail(q)) \subseteq DataOf(q)
<1>1. PICK T : q \in Seq([cycle : Cycles, data : T])
  BY DEF Queued
<1>2. /\ Tail(q) \in Seq([cycle : Cycles, data : T])
      /\ Len(Tail(q)) = Len(q) - 1
      /\ \A k \in 1 .. Len(Tail(q)) : Tail(q)[k] = q[k + 1]
  BY <1>1, HeadTailProperties
<1>3. /\ DOMAIN q = 1 .. Len(q) /\ Len(q) \in Nat
      /\ DOMAIN Tail(q) = 1 .. Len(Tail(q))
  BY <1>1, <1>2, LenProperties
<1>4. ASSUME NEW k \in DOMAIN Tail(q)
      PROVE  Tail(q)[k].data \in DataOf(q)
  <2>1. k + 1 \in DOMAIN q /\ Tail(q)[k] = q[k + 1]
    BY <1>2, <1>3
  <2> QED BY <2>1 DEF DataOf
<1>5. Head(q).data \in DataOf(q)
  BY FrontQueued DEF DataOf
<1> QED BY <1>4, <1>5 DEF DataOf

LEMMA DataLaunch ==
  ASSUME NEW q, Queued(q), NEW d
  PROVE  DataOf(Append(q, Deferred(cycle, d))) = DataOf(q) \cup {d}
<1> DEFINE a == Append(q, Deferred(cycle, d))
<1>1. PICK T : q \in Seq(T)
  BY DEF Queued
<1>2. /\ DOMAIN q = 1 .. Len(q) /\ Len(q) \in Nat
      /\ DOMAIN a = 1 .. Len(q) + 1
      /\ \A k \in 1 .. Len(q) : a[k] = q[k]
      /\ a[Len(q) + 1].data = d
  BY <1>1 DEF Deferred
<1> HIDE DEF a
<1>3. DataOf(a) \subseteq DataOf(q) \cup {d}
  <2> SUFFICES ASSUME NEW k \in DOMAIN a
               PROVE  a[k].data \in DataOf(q) \cup {d}
    BY DEF DataOf
  <2>1. CASE k \in 1 .. Len(q)
    BY <1>2, <2>1 DEF DataOf
  <2>2. CASE k = Len(q) + 1
    BY <1>2, <2>2
  <2> QED BY <1>2, <2>1, <2>2
<1>4. DataOf(q) \subseteq DataOf(a)
  <2> SUFFICES ASSUME NEW k \in DOMAIN q PROVE q[k].data \in DataOf(a)
    BY DEF DataOf
  <2>1. k \in DOMAIN a /\ a[k] = q[k]
    BY <1>2
  <2> QED BY <2>1 DEF DataOf
<1>5. d \in DataOf(a)
  <2>1. Len(q) + 1 \in DOMAIN a
    BY <1>2
  <2> QED BY <1>2, <2>1 DEF DataOf
<1> QED BY <1>3, <1>4, <1>5 DEF a

(* The commands that are pending are those that were queued.               *)
LEMMA LinedAll ==
  ASSUME NEW w, NEW q, Queued(q), NEW busy, NEW x, Lined(w, q, busy, x),
         NEW X, busy => x \in X, \A y \in DataOf(q) : S!Taken(y) \in X
  PROVE  \A k \in DOMAIN w : w[k] \in X
<1>1. DOMAIN w = 1 .. Len(w) /\ Len(q) \in Nat /\ DOMAIN q = 1 .. Len(q)
  BY LinedList, QueuedData DEF List
<1> SUFFICES ASSUME NEW k \in DOMAIN w PROVE w[k] \in X
  OBVIOUS
<1>2. CASE busy /\ k = 1
  BY <1>2 DEF Lined
<1>3. CASE ~(busy /\ k = 1)
  <2>1. PICK i : i = IF busy THEN k - 1 ELSE k
    OBVIOUS
  <2>2. i \in DOMAIN q /\ w[k] = S!Taken(q[i].data)
    BY <1>1, <1>3, <2>1 DEF Lined
  <2> QED BY <2>2 DEF DataOf
<1> QED BY <1>2, <1>3
-----------------------------------------------------------------------------
(* What a command leaves in memory, and what it makes uncertain.           *)
LEMMA DrawnBytes ==
  ASSUME NEW b \in Drawings, b.colour \in Nat,
         NEW m \in [D!Address -> Bytes]
  PROVE  Performed(m, b) \in [D!Address -> Bytes]
<1> SUFFICES ASSUME NEW a \in D!Address, a \in Drawn(b)
             PROVE  ColourAt(b, a) \in Bytes
  <2>1. DOMAIN m = D!Address
    OBVIOUS
  <2>2. \A a \in D!Address : Performed(m, b)[a] \in Bytes
    BY <2>1, DrawPerformed
  <2>3. Performed(m, b) = [a \in DOMAIN m |-> Performed(m, b)[a]]
    <3>1. CASE b.operation = "PIXEL"
      BY <3>1 DEF Performed, B!WriteWord
    <3>2. CASE b.operation = "CLEAR"
      BY <3>2 DEF Performed
    <3> QED BY <3>1, <3>2 DEF Drawings, BP!Command
  <2> QED BY <2>1, <2>2, <2>3
<1>1. \A k \in 0 .. 3 : B!ByteOf(b.colour, k) \in Bytes
  BY EngineAssumptions, BP!ByteType
     DEF B!ByteOf, BP!ByteOf, B!ByteWeight, BP!ByteWeight, Bytes
<1>2. CASE b.operation = "CLEAR"
  <2>1. 3 - (a % 4) \in 0 .. 3
    BY SameAddress
  <2> QED BY <1>1, <1>2, <2>1 DEF ColourAt
<1>3. CASE b.operation # "CLEAR"
  <2>1. PICK p : p = B!PixelAddress(b.xpos, b.ypos)
    OBVIOUS
  <2>2. p \in Nat
    BY <2>1, SystemAssumption
       DEF B!PixelAddress, B!PixelBytes, Drawings, BP!Command
  <2>3. a - p \in 0 .. 3
    BY <1>3, <2>1, <2>2, SameAddress DEF Drawn
  <2> QED BY <1>1, <1>3, <2>1, <2>3 DEF ColourAt
<1> QED BY <1>2, <1>3

LEMMA MovedBytes ==
  ASSUME NEW d \in Transfers, d.operation = "SET" => d.value \in Bytes,
         NEW m \in [D!Address -> Bytes]
  PROVE  Performed(m, d) \in [D!Address -> Bytes]
<1>1. ASSUME NEW a \in D!Address PROVE Performed(m, d)[a] \in Bytes
  <2>1. d.operation \in {"COPY", "SET"}
    BY DEF Transfers
  <2>2. d.operation = "COPY" /\ a \in Target(d) =>
          d.source + (a - d.dest) \in D!Address
    BY CopySource
  <2> QED BY <2>1, <2>2, MovePerformed
<1>2. Performed(m, d) = [a \in DOMAIN m |-> Performed(m, d)[a]]
  <2>1. CASE d.operation = "COPY"
    BY <2>1 DEF Performed
  <2>2. CASE d.operation = "SET"
    BY <2>2 DEF Performed
  <2> QED BY <2>1, <2>2 DEF Transfers
<1> QED BY <1>1, <1>2, MovePerformed

LEMMA CopiedWithin ==
  ASSUME NEW d \in Transfers, NEW area
  PROVE  CopyOf(d, area) \subseteq D!Address
<1> SUFFICES ASSUME NEW a \in CopyOf(d, area) PROVE a \in D!Address
  OBVIOUS
<1>1. d.operation = "COPY"
  BY CopyOfMember
<1>2. PICK s \in area : s \in Source(d) /\ a = d.dest + (s - d.source)
  BY CopyOfMember
<1> QED BY <1>1, <1>2, SystemAssumption DEF Transfers, Source, D!Address

(* The commands that are pending fit, and so what competes is in memory.   *)
LEMMA ContestedWithin ==
  ASSUME Shapes, EnginesInv, CommandsFit, contested \subseteq D!Address,
         S!PipeOf(Command.op) = "DMA" => Launched \in Transfers,
         S!PipeOf(Command.op) = "BLITTER" =>
           Drawn(Launched) \subseteq D!Address
  PROVE  NewlyContested \subseteq D!Address
<1> DEFINE dma == ToMove \o LaunchedOn("DMA")
           blitter == ToDraw \o LaunchedOn("BLITTER")
<1>1. Queued(queue["DMA"]) /\ Queued(queue["BLITTER"])
  BY Pipes DEF Shapes
<1>2. \A k \in DOMAIN ToMove : ToMove[k] \in Transfers
  <2>1. \A y \in DataOf(queue["DMA"]) : S!Taken(y) \in Transfers
    <3>1. \A y \in DataOf(queue["DMA"]) : y \in Transfers
      BY DEF CommandsFit, DataOf
    <3> QED BY <3>1 DEF Transfers, S!Taken
  <2>2. dma_state = "WORKING" => dma_command \in Transfers
    BY DEF EnginesInv, DP!Control, DP!c
  <2>3. \A busy : (busy => dma_command \in Transfers)
                  /\ Lined(ToMove, queue["DMA"], busy, dma_command)
          => \A k \in DOMAIN ToMove : ToMove[k] \in Transfers
    BY <1>1, <2>1, LinedAll
  <2>4. CASE dma_state = "WORKING"
    <3>1. Lined(ToMove, queue["DMA"], TRUE, dma_command)
      BY <2>4, PendingNow
    <3> QED BY <2>2, <2>3, <2>4, <3>1
  <2>5. CASE dma_state # "WORKING"
    <3>1. Lined(ToMove, queue["DMA"], FALSE, dma_command)
      BY <2>5, PendingNow
    <3> QED BY <2>3, <3>1
  <2> QED BY <2>4, <2>5
<1>3. \A k \in DOMAIN ToDraw : ToDraw[k] \in Drawings
  <2>1. \A y \in DataOf(queue["BLITTER"]) : S!Taken(y) \in Drawings
    BY SameTaken DEF CommandsFit, DataOf
  <2>a. PICK x : x = B!Taken(blitter_command)
    OBVIOUS
  <2>2. blitter_state = "WORKING" => x \in Drawings
    <3>1. blitter_state = "WORKING" => blitter_command \in Drawings
      BY DEF EnginesInv
    <3>2. \A b \in Drawings : B!Taken(b) \in Drawings
      BY DEF B!Taken, Drawings, BP!Command, InFrame
    <3> QED BY <2>a, <3>1, <3>2
  <2>3. \A busy : (busy => x \in Drawings)
                  /\ Lined(ToDraw, queue["BLITTER"], busy, x)
          => \A k \in DOMAIN ToDraw : ToDraw[k] \in Drawings
    BY <1>1, <2>1, LinedAll
  <2>4. CASE blitter_state = "WORKING"
    <3>1. Lined(ToDraw, queue["BLITTER"], TRUE, x)
      BY <2>a, <2>4, PendingNow
    <3> QED BY <2>2, <2>3, <2>4, <3>1
  <2>5. CASE blitter_state # "WORKING"
    <3>1. Lined(ToDraw, queue["BLITTER"], FALSE, x)
      BY <2>a, <2>5, PendingNow
    <3> QED BY <2>3, <3>1
  <2> QED BY <2>4, <2>5
<1>4. (\E T : ToMove \in Seq(T)) /\ (\E T : ToDraw \in Seq(T))
  BY PendingNow DEF Lined
<1>5. \A k \in DOMAIN dma : dma[k] \in Transfers
  <2>1. CASE S!PipeOf(Command.op) = "DMA"
    <3>1. dma = ToMove \o <<Launched>>
      BY <2>1 DEF LaunchedOn
    <3>2. /\ DOMAIN dma = 1 .. Len(ToMove) + 1 /\ Len(ToMove) \in Nat
          /\ DOMAIN ToMove = 1 .. Len(ToMove)
          /\ dma[Len(ToMove) + 1] = Launched
          /\ \A k \in DOMAIN ToMove : dma[k] = ToMove[k]
      BY <1>4, <3>1, WithLast
    <3> HIDE DEF dma
    <3>3. \A k \in DOMAIN dma : k \in DOMAIN ToMove \/ k = Len(ToMove) + 1
      BY <3>2
    <3> QED BY <1>2, <2>1, <3>2, <3>3
  <2>2. CASE S!PipeOf(Command.op) # "DMA"
    <3>1. dma = ToMove \o << >>
      BY <2>2 DEF LaunchedOn
    <3>2. dma = ToMove
      BY <1>4, <3>1, WithLast
    <3> HIDE DEF dma
    <3> QED BY <1>2, <3>2
  <2> QED BY <2>1, <2>2
<1>6. DrawnBy(blitter) \subseteq D!Address
  <2>1. DrawnBy(ToDraw) \subseteq D!Address
    <3>1. \A b \in Drawings : Drawn(b) \subseteq D!Address
      <4>1. PICK m : m = [a \in D!Address |-> 0]
        OBVIOUS
      <4>2. DOMAIN m = D!Address
        BY <4>1
      <4> QED BY <4>2, DrawPerformed
    <3> QED BY <1>3, <3>1, DrawnMember
  <2>2. CASE S!PipeOf(Command.op) = "BLITTER"
    <3>1. DrawnBy(ToDraw \o <<Launched>>) = DrawnBy(ToDraw) \cup Drawn(Launched)
      BY <1>4, DrawnWithLast
    <3>2. blitter = ToDraw \o <<Launched>>
      BY <2>2 DEF LaunchedOn
    <3> HIDE DEF blitter
    <3> QED BY <2>1, <2>2, <3>1, <3>2
  <2>3. CASE S!PipeOf(Command.op) # "BLITTER"
    <3>1. blitter = ToDraw \o << >>
      BY <2>3 DEF LaunchedOn
    <3>2. blitter = ToDraw
      BY <1>4, <3>1, WithLast
    <3> HIDE DEF blitter
    <3> QED BY <2>1, <3>2
  <2> QED BY <2>2, <2>3
<1> HIDE DEF dma, blitter
<1>7. NewlyContested = contested \cup
        UNION {Disturbed(dma[k], DrawnBy(blitter)) : k \in DOMAIN dma}
  BY ContestedNow DEF dma, blitter
<1>8. \A k \in DOMAIN dma : Disturbed(dma[k], DrawnBy(blitter)) \subseteq D!Address
  BY <1>5, <1>6, CopiedWithin, DisturbedMember
<1> QED BY <1>7, <1>8
-----------------------------------------------------------------------------
(* A set that is launched has the value of its instruction, cut to a byte. *)
LEMMA LaunchedByte ==
  ASSUME Types, ValuesListed, S!TypeOK, SubmissionAccepted,
         S!Launch(Command), S!PipeOf(Command.op) = "DMA",
         Launched.operation = "SET"
  PROVE  Launched.value \in Bytes
<1>1. Command \in S!Instruction
  BY CommandListed DEF SubmissionAccepted, ExecuteAccepted
<1>2. Command.op \in {"P_DMA_SET_R", "P_DMA_CPY"}
  BY DEF S!Launch, S!Launchers, S!PipeOf
<1>3. frontend["DMA"] \in S!DmaCommand
  BY DEF S!TypeOK
<1>a. PICK f : f = frontend["DMA"]
  OBVIOUS
<1>b. PICK i : i = Command
  OBVIOUS
<1>4. i.op # "P_DMA_CPY"
  <2> SUFFICES ASSUME i.op = "P_DMA_CPY" PROVE FALSE
    OBVIOUS
  <2>1. Launched = [f EXCEPT !.operation = "COPY"]
    BY <1>a, <1>b DEF Launched, S!Configured, S!PipeOf
  <2> QED BY <1>3, <1>a, <2>1 DEF S!DmaCommand
<1>5. Launched = [f EXCEPT !.value = i.val1 % Base, !.operation = "SET"]
  BY <1>2, <1>4, <1>a, <1>b DEF Launched, S!Configured, S!PipeOf
<1>6. i.val1 \in Nat
  BY <1>1, <1>2, <1>4, <1>b, QueuesAssumption DEF S!Instruction, S!FenceOp
<1>7. i.val1 % Base \in Bytes
  BY <1>6, SystemAssumption DEF Bytes
<1> QED BY <1>3, <1>5, <1>7, <1>a DEF S!DmaCommand

LEMMA BytesLaunch ==
  ASSUME Shapes, EnginesInv, Types, ValuesListed, S!TypeOK, BytesInv,
         CommandsFit, CommandsFit', ColoursGiven',
         SubmissionAccepted, S!Launch(Command)
  PROVE  BytesInv'
<1> DEFINE p == S!PipeOf(Command.op)
<1>1. /\ p \in S!Pipe /\ Queued(queue[p])
      /\ queue' = [queue EXCEPT
                     ![p] = Append(queue[p], Deferred(cycle, Launched))]
      /\ promised' = Performed(promised, Launched)
      /\ contested' = NewlyContested
      /\ UNCHANGED <<memory, dmaVars, blitterVars>>
  BY LaunchedNow
<1>2. \A q \in S!Pipe :
        DataOf(queue'[q]) = IF q = p THEN DataOf(queue[q]) \cup {Launched}
                                     ELSE DataOf(queue[q])
  BY <1>1, DataLaunch DEF Shapes
<1>3. p \in {"DMA", "BLITTER"}
  BY DEF S!PipeOf
<1> HIDE DEF p
<1>4. SetsBytes'
  BY <1>2, <1>3, Pipes, LaunchedByte DEF SetsBytes, BytesInv, p
<1>5. p = "DMA" => Launched \in Transfers /\ Launched \in DataOf(queue'["DMA"])
  <2>1. p = "DMA" => Launched \in DataOf(queue'["DMA"])
    BY <1>2, Pipes
  <2> QED BY <2>1 DEF CommandsFit, DataOf
<1>6. p = "BLITTER" => B!Taken(Launched) \in Drawings /\ Launched.colour \in Nat
  <2> SUFFICES ASSUME p = "BLITTER"
               PROVE  B!Taken(Launched) \in Drawings /\ Launched.colour \in Nat
    OBVIOUS
  <2>1. Launched \in DataOf(queue'["BLITTER"])
    BY <1>2, Pipes
  <2>2. B!Taken(Launched) \in Drawings /\ Launched.colour # Garbage
    BY <2>1 DEF CommandsFit, ColoursGiven, DataOf
  <2>3. B!Taken(Launched).colour = Launched.colour
    BY DEF B!Taken
  <2> QED BY <2>2, <2>3 DEF Drawings, BP!Command
<1>7. promised' \in [D!Address -> Bytes]
  <2>0. promised \in [D!Address -> Bytes]
    BY DEF BytesInv
  <2>1. CASE p = "DMA"
    <3>1. Launched.operation = "SET" => Launched.value \in Bytes
      BY <1>4, <1>5, <2>1 DEF SetsBytes
    <3> QED BY <1>1, <1>5, <2>0, <2>1, <3>1, MovedBytes
  <2>2. CASE p = "BLITTER"
    <3>1. PICK b : b = B!Taken(Launched)
      OBVIOUS
    <3>2. b \in Drawings /\ b.colour \in Nat
      <4>1. B!Taken(Launched).colour = Launched.colour
        BY DEF B!Taken
      <4> QED BY <1>6, <2>2, <3>1, <4>1
    <3>3. Performed(promised, b) = Performed(promised, Launched)
      BY <3>1, <3>2, TakenDrawing
    <3> QED BY <1>1, <2>0, <3>2, <3>3, DrawnBytes
  <2> QED BY <1>3, <2>1, <2>2
<1>8. contested' \subseteq D!Address
  <2>1. p = "BLITTER" => Drawn(Launched) \subseteq D!Address
    <3> SUFFICES ASSUME p = "BLITTER" PROVE Drawn(Launched) \subseteq D!Address
      OBVIOUS
    <3>1. DOMAIN promised = D!Address
      BY DEF BytesInv
    <3> QED BY <1>6, <3>1, TakenDrawing, DrawPerformed
  <2>2. NewlyContested \subseteq D!Address
    BY <1>5, <2>1, ContestedWithin DEF BytesInv, p
  <2> QED BY <1>1, <2>2
<1>9. DP!MadeOf(Bytes)'
  BY <1>1 DEF BytesInv, DP!MadeOf, DP!Shaped, DP!c, dmaVars
<1>10. blitter_state' # "IDLE" => blitter_command'.colour \in Nat
  BY <1>1 DEF BytesInv, blitterVars
<1> QED BY <1>4, <1>7, <1>8, <1>9, <1>10 DEF BytesInv, Bytes, D!Address

LEMMA BytesSubmitDma ==
  ASSUME Shapes, BytesInv, CommandsFit, SubmitDma
  PROVE  BytesInv'
<1>a. PICK x : x = Head(queue["DMA"]).data
  OBVIOUS
<1>1. /\ D!Submit(x) /\ S!Submit("DMA") /\ FrontCanRun(queue["DMA"], cycle)
      /\ contested' = contested \cup CopyOf(x, contested)
      /\ UNCHANGED <<promised, blitterVars>>
  BY <1>a DEF SubmitDma
<1>2. Queued(queue["DMA"]) /\ queue["DMA"] # << >>
  BY <1>1, Pipes DEF Shapes, FrontCanRun
<1>3. x \in DataOf(queue["DMA"]) /\ queue'["DMA"] = Tail(queue["DMA"])
  BY <1>a, <1>1, <1>2, Pipes, DataFront DEF S!Submit, Shapes
<1>4. DataOf(queue'["DMA"]) \subseteq DataOf(queue["DMA"])
  BY <1>2, <1>3, DataFront
<1>5. x \in Transfers
  BY <1>3 DEF CommandsFit, DataOf
<1>6. contested' \subseteq D!Address
  BY <1>1, <1>5, CopiedWithin DEF BytesInv
<1>7. DP!MadeOf(Bytes)'
  <2>1. /\ dma_command' = x
        /\ UNCHANGED <<memory, active_buffer, active_buffer_size,
                       fetched_writeback_data, fetched_writeback_data_valid>>
    BY <1>1 DEF D!Submit, D!buffer, D!fetched
  <2>2. x.operation = "SET" => x.value \in Bytes
    BY <1>3 DEF BytesInv, SetsBytes
  <2>3. DP!Shaped'
    BY <2>1 DEF BytesInv, DP!MadeOf, DP!Shaped
  <2> QED BY <2>1, <2>2, <2>3 DEF BytesInv, DP!MadeOf, DP!c, Bytes, DP!Address
<1> QED BY <1>1, <1>4, <1>6, <1>7
        DEF BytesInv, SetsBytes, Bytes, D!Address, blitterVars

LEMMA BytesSubmitBlitter ==
  ASSUME Shapes, BytesInv, CommandsFit, ColoursGiven, SubmitBlitter
  PROVE  BytesInv'
<1>a. PICK x : x = Head(queue["BLITTER"]).data
  OBVIOUS
<1>1. /\ B!Submit(x) /\ S!Submit("BLITTER")
      /\ FrontCanRun(queue["BLITTER"], cycle)
      /\ UNCHANGED <<promised, contested, dmaVars>>
  BY <1>a DEF SubmitBlitter, history
<1>2. Queued(queue["BLITTER"]) /\ queue["BLITTER"] # << >>
  BY <1>1, Pipes DEF Shapes, FrontCanRun
<1>3. x \in DataOf(queue["BLITTER"]) /\ queue'["DMA"] = queue["DMA"]
  BY <1>a, <1>1, <1>2, Pipes, DataFront DEF S!Submit, Shapes
<1>4. B!Taken(x).colour \in Nat
  <2>1. B!Taken(x) \in Drawings /\ x.colour # Garbage
    BY <1>3 DEF CommandsFit, ColoursGiven, DataOf
  <2>2. B!Taken(x).colour = x.colour
    BY DEF B!Taken
  <2> QED BY <2>1, <2>2 DEF Drawings, BP!Command
<1>5. blitter_command' = B!Taken(x) /\ memory' = memory
  BY <1>1 DEF B!Submit
<1>6. DP!MadeOf(Bytes)'
  BY <1>1, <1>5
     DEF BytesInv, DP!MadeOf, DP!Shaped, DP!c, dmaVars, Bytes, DP!Address
<1> QED BY <1>1, <1>3, <1>4, <1>5, <1>6
        DEF BytesInv, SetsBytes, Bytes, D!Address

LEMMA BytesRunDma ==
  ASSUME Shapes, EnginesInv, EnginesInv', BytesInv, RunDma
  PROVE  BytesInv'
<1>1. /\ dma_command' = dma_command
      /\ UNCHANGED <<queue, blitter_state, blitter_command, promised,
                     contested>>
      /\ dma_state # "WORKING" =>
           /\ dma_state' # "WORKING" /\ memory' = memory
           /\ UNCHANGED <<DP!buffer, DP!fetched>>
  BY DmaCycle
<1>2. DP!MadeOf(Bytes)'
  <2>1. PICK first : /\ DP!RunCycle(first) /\ (~first => DP!RunCycle(FALSE))
                     /\ (first => DP!Rest(first))
    BY DmaCycle
  <2>2. CASE dma_state = "WORKING" /\ ~first
    BY <2>1, <2>2, EngineAssumptions, TransfersProper, DP!MadeOfRun
       DEF EnginesInv, BytesInv
  <2>3. CASE ~(dma_state = "WORKING" /\ ~first)
    <3>1. /\ UNCHANGED <<memory, DP!buffer, DP!fetched, dma_command>>
          /\ dma_state' # "IDLE" => dma_state # "IDLE"
      <4>1. DP!Rest(first)
        BY <2>1, <2>3 DEF DP!RunCycle, DP!Crash, DP!Copy, DP!CopyRead,
             DP!CopyFetch, DP!CopyWrite, DP!Set, DP!SetWhole, DP!SetFetch,
             DP!SetPart, DP!SetCrash, DP!Works
      <4> QED BY <4>1 DEF DP!Rest
    <3>2. DP!Shaped'
      BY <3>1 DEF BytesInv, DP!MadeOf, DP!Shaped, DP!buffer, DP!fetched
    <3> QED BY <3>1, <3>2 DEF BytesInv, DP!MadeOf, DP!c, DP!buffer, DP!fetched,
                              Bytes, DP!Address
  <2> QED BY <2>2, <2>3
<1> QED BY <1>1, <1>2 DEF BytesInv, SetsBytes, Bytes, D!Address

LEMMA BytesRunBlitter ==
  ASSUME EnginesInv, EnginesInv', BytesInv, RunBlitter
  PROVE  BytesInv'
<1>1. /\ UNCHANGED <<queue, dmaVars, promised, contested>>
      /\ \/ /\ UNCHANGED <<memory, blitter_command>>
            /\ blitter_state' = "WORKING" <=> blitter_state = "WORKING"
         \/ blitter_state = "WORKING" /\ BP!RunCycle(FALSE)
  BY BlitterCycle
<1>2. /\ memory' \in [DP!Address -> Bytes]
      /\ blitter_state' # "IDLE" => blitter_command'.colour \in Nat
  <2>1. CASE blitter_state = "WORKING" /\ BP!RunCycle(FALSE)
    BY <2>1, EngineAssumptions, FrameWhole, SameAddress, BP!BytesDrawn
       DEF EnginesInv, BytesInv, DP!MadeOf, Bytes, BP!c
  <2>2. CASE ~(blitter_state = "WORKING" /\ BP!RunCycle(FALSE))
    <3>1. UNCHANGED <<memory, blitter_command>>
      BY <1>1, <2>2
    <3>2. blitter_state' # "IDLE" => blitter_state # "IDLE"
      BY <1>1, <2>2 DEF RunBlitter, B!RunCycle, B!Rest, B!Crash, B!Pixel,
                        B!ClearEnds, B!ClearLine, B!Works
    <3> QED BY <3>1, <3>2 DEF BytesInv, DP!MadeOf
  <2> QED BY <2>1, <2>2
<1>3. DP!MadeOf(Bytes)'
  <2>1. DP!Shaped'
    BY <1>1, <1>2 DEF BytesInv, DP!MadeOf, DP!Shaped, dmaVars
  <2> QED BY <1>1, <1>2, <2>1
          DEF BytesInv, DP!MadeOf, DP!c, dmaVars, Bytes, DP!Address
<1> QED BY <1>1, <1>2, <1>3 DEF BytesInv, SetsBytes, Bytes, D!Address

LEMMA BytesElsewhere ==
  ASSUME Shapes, BytesInv,
         \/ CoreStep \/ SubmissionRefused \/ EndOfCycle
         \/ SubmissionAccepted /\ ~S!Launch(Command)
         \/ \E p \in S!Pipe : CheckPipe(p)
         \/ UNCHANGED systemVars
  PROVE  BytesInv'
<1>1. /\ UNCHANGED <<memory, dmaVars, blitterVars, history>>
      /\ \A p \in S!Pipe :
           queue'[p] = queue[p] \/ queue'[p] = IncrementAll(queue[p])
  <2>1. CASE \/ CoreStep \/ SubmissionRefused \/ EndOfCycle
             \/ UNCHANGED systemVars
    BY <2>1 DEF CoreStep, SubmissionRefused, EndOfCycle, systemVars,
                schedulerVars, S!RefuseLaunch, S!Fence
  <2>2. CASE SubmissionAccepted /\ ~S!Launch(Command)
    <3>1. S!Configure(Command) \/ S!Fence(Command)
      BY <2>2 DEF SubmissionAccepted
    <3>2. Command.op \notin S!Launchers /\ UNCHANGED queue
      BY <3>1 DEF S!Configure, S!Fence, S!Setters, S!Launchers, S!FenceOp
    <3> QED BY <2>2, <3>2 DEF SubmissionAccepted, Promise
  <2>3. CASE \E p \in S!Pipe : CheckPipe(p)
    <3>1. PICK p \in S!Pipe : CheckPipe(p)
      BY <2>3
    <3>2. queue' = queue \/ queue' = [queue EXCEPT ![p] = IncrementAll(@)]
      BY <3>1 DEF CheckPipe, S!NothingToCheck, S!PutOff, S!IncrementAll,
                  S!NextCycle, IncrementAll, NextCycle
    <3> QED BY <3>1, <3>2 DEF CheckPipe, Shapes
  <2> QED BY <2>1, <2>2, <2>3
<1>2. DataOf(queue'["DMA"]) = DataOf(queue["DMA"])
  BY <1>1, Pipes, DataPutOff DEF Shapes
<1>3. DP!MadeOf(Bytes)'
  BY <1>1 DEF BytesInv, DP!MadeOf, DP!Shaped, DP!c, dmaVars, Bytes, DP!Address
<1> QED BY <1>1, <1>2, <1>3
        DEF BytesInv, SetsBytes, Bytes, D!Address, blitterVars, history

LEMMA BytesNext ==
  ASSUME ViewInv, ViewInv', S!TypeOK, BytesInv, CommandsFit, CommandsFit',
         ValuesListed, ColoursGiven, ColoursGiven', [SystemNext]_systemVars
  PROVE  BytesInv'
<1>1. Shapes /\ EnginesInv /\ EnginesInv' /\ Types
  BY DEF ViewInv, Counts
<1>2. CASE SubmissionAccepted /\ S!Launch(Command)
  BY <1>1, <1>2, BytesLaunch
<1>3. CASE SubmitDma \/ SubmitBlitter \/ RunDma \/ RunBlitter
  BY <1>1, <1>3, BytesSubmitDma, BytesSubmitBlitter, BytesRunDma,
     BytesRunBlitter
<1> QED BY <1>1, <1>2, <1>3, BytesElsewhere DEF SystemNext

LEMMA BytesStart == SystemInit => BytesInv
<1> SUFFICES ASSUME SystemInit PROVE BytesInv
  OBVIOUS
<1>1. /\ dma_state = "IDLE" /\ blitter_state = "IDLE"
      /\ queue = [p \in S!Pipe |-> << >>]
      /\ memory = [a \in D!Address |-> a % Base]
      /\ promised = memory /\ contested = {}
      /\ DOMAIN active_buffer = 0 .. 2 * Width - 1 /\ active_buffer_size = 0
      /\ DOMAIN fetched_writeback_data = 0 .. Width - 1
      /\ ~fetched_writeback_data_valid
  BY DEF SystemInit, D!Init, B!Init
<1>2. memory \in [D!Address -> Bytes]
  <2>1. \A a \in D!Address : a % Base \in Bytes
    BY SameAddress, SystemAssumption DEF Bytes
  <2> QED BY <1>1, <2>1
<1>3. DP!MadeOf(Bytes)
  BY <1>1, <1>2, SameAddress DEF DP!MadeOf, DP!Shaped
<1>4. SetsBytes
  BY <1>1, Pipes DEF SetsBytes, DataOf
<1> QED BY <1>1, <1>2, <1>3, <1>4 DEF BytesInv

(* The whole simulator keeps its types, and memory holds bytes: whatever   *)
(* the engines leave in their buffers, nothing is written that was not in  *)
(* memory, in a set or in a colour; and only addresses are uncertain.      *)
THEOREM SystemTypesHold ==
  SystemSpec /\ []CommandsFit /\ []ValuesListed /\ []ColoursGiven
    => []SystemTypeOK
<1>1. SystemInit => ViewInv /\ BytesInv
  BY ViewStart, BytesStart
<1>2. ViewInv /\ CommandsFit /\ [SystemNext]_systemVars => ViewInv'
  BY ViewInvNext
<1>3. /\ ViewInv /\ ViewInv' /\ S!TypeOK /\ BytesInv
      /\ CommandsFit /\ CommandsFit' /\ ValuesListed
      /\ ColoursGiven /\ ColoursGiven' /\ [SystemNext]_systemVars
      => BytesInv'
  BY BytesNext
<1>4. TypeOK /\ S!TypeOK /\ BytesInv => SystemTypeOK
  <2>1. DP!MadeOf(Bytes) => memory \in [D!Address -> Bytes]
    BY SameAddress DEF DP!MadeOf
  <2> QED BY <2>1 DEF BytesInv, SystemTypeOK, Bytes
<1> QED BY <1>1, <1>2, <1>3, <1>4, SystemTypes, PTL DEF SystemSpec
=============================================================================
