# VPU_Model in TLA+

A verification companion of the VPU simulator: TLA+ modules of its management
core, scheduler, DMA engine and blitter, of the four together on one memory, and
of a run from the command line to the exit code; the TLC configurations that
check them on small instances; and proofs that TLAPS checks for every instance.
Paths below are relative to the repository.

## The system

The simulator is cycle accurate and single threaded. `System::run_cycle`
(src/main.cpp) calls `core`, `scheduler`, `dma` and `blitter` in this order;
`run_program` repeats that and then increments the global cycle, until the core
has halted. There are no threads, but a great deal of concurrency: five pipeline
stages and three units each do one step per cycle, and what one of them writes
is seen by those called after it in the same cycle and by those before it in the
next. Values that must wait for the next cycle travel in queues of `Defer<T>`
entries, each valid in exactly one cycle.

| Component | State | Operations | Interacts with |
|---|---|---|---|
| `Defer<T>` (include/cycle_defer.h) | `cycle`, `data` | construct, `can_run`, `increment` | every queue |
| `ManagerCore` (src/manager_core.cpp) | registers, flag, feedback registers, bht/btb, four stage queues, flush queue, stall, halt flags | `run_cycle`: flush, fetch, decode, execute, memory, writeback, end | calls `Scheduler::core_submit`; reads memory |
| `Scheduler` (src/scheduler.cpp) | two frontends, two command queues, two outstanding counts | `core_submit` (configure, launch, fence), `check_dma`, `check_blitter`, `*_complete` | called by the core; calls `submit` of the engines; called back by them |
| `DMA` (src/dma.cpp) | state, command, pointers, buffer of two lines, fetched line, owed callback | `submit`, `copy_cycle`, `set_cycle`, `run_cycle` | memory, scheduler |
| `Blitter` (src/blitter.cpp) | state, command, owed callback | `submit`, `pixel_cycle`, `clear_cycle`, `run_cycle` | memory, scheduler |
| `Memory` (src/memory.cpp) | bytes | `read`, `write` (lines), `read_word`, `write_word` | all |
| `System` (src/main.cpp) | the above, step count | loading, listing, `run_cycle`, `run_program` with stepping, dumps | all; the user and the file system |
| `Config` (src/config.cpp) | options | `parse_arguments`, `validate` | `main` |
| `rpc_interface` (src/rpc_interface.cpp) | none | memory reads for an inspector | |
| `defs_pkg` | global cycle, encoding, memory map | generated by the VPU_ASM submodule, not in the repository | all |

What is hard, and what makes each part correct:

- **Core.** Operands come from feedback registers while results are on their
  way; the predictor sends fetch the wrong way; a flush takes effect one cycle
  late and skips two stages; a stall holds two queues and lets two others go on;
  a HLT stops fetch at once and the core three cycles later. Correct means: the
  program behaves as if its instructions were performed one after another.
- **Scheduler.** A submission may be refused and is made again every cycle;
  engines take a command while they still owe the callback of the last one; a
  fence reads counts that submissions and callbacks change in between. Correct
  means: every command is performed once, in order, and a fence waits for all.
- **DMA.** Source and destination have any alignment; memory is accessed in
  whole aligned lines; buffers survive from one command to the next. Correct
  means: exactly the destination range is written, with the right bytes.
- **Blitter.** Rows and lines end at different places; a clear inherits the
  coordinates of the last pixel. Correct means: a clear colours every pixel, a
  pixel command one, and nothing else changes.

- **System.** The core, which is ahead of the pipelines, the two pipelines, which
  know nothing of each other, and one memory that both write by whole lines.
  Correct means: a fence is a barrier, and memory is what the commands promise
  wherever no two of them compete for it.
- **A run.** An option's value may look like an option or a program; the step
  count is unsigned; dumps fail after everything else has been done. Correct
  means: what is accepted is what is well formed, and an exit code of 0 means
  that what was asked for was done.

`PROJECT.json` lists every hazard with its line and the properties about it.

## Modules

| Module | Models |
|---|---|
| `CycleDefer` | `Defer<T>`: readiness is *equality* with a cycle counter that wraps (`CycleModulus` is 2^32) |
| `CommandService` | abstract specification: two pipelines with a sequence of pending commands each, and a fence that passes when both are empty |
| `Scheduler` | the scheduler and the `submit`/`run_cycle` shells of both engines; implements `CommandService` |
| `CycleDeferProofs` | lemmas about queues of `Defer` entries |
| `SchedulerProofs` | theorems about `Scheduler` |
| `Instructions` | the instructions by class, and their arithmetic on words of `WordBits` bits |
| `ISA` | abstract specification: the program, one instruction per step |
| `ManagerCore` | the five stage pipeline; implements `ISA` |
| `CoreProofs` | theorems about `ManagerCore`, and its refinement of `ISA` |
| `Memory` | bytes, lines, words |
| `Dma`, `Blitter` | the engines: `Submit` is one call of `submit`, `RunCycle` one of `run_cycle` |
| `DmaBench`, `BlitterBench` | an engine alone, called in turn by a scheduler that submits any commands, with the properties of the engine |
| `System` | core, scheduler and engines on one memory: composes `ManagerCore`, `Scheduler`, `Dma` and `Blitter`; implements `Scheduler` |
| `Arguments` | `parse_arguments` |
| `Simulator` | a run of the program around the cycles: loading, listing, stepping, dumps, exit codes |
| `SimulatorProofs` | theorems about `Arguments` and `Simulator` |
| `MemoryProofs`, `DmaProofs`, `BlitterProofs` | lemmas about lines, and theorems about the engines on their benches |
| `SystemProofs` | theorems about `System`, from those about its parts |
| `Assembler` | notation for the programs of the instances |
| `MCScheduler`, `MCManagerCore`, `MCDma`, `MCBlitter`, `MCSystem`, `MCSimulator` | values of the constants for TLC |

### Scheduler

One step per call: `phase` says whose turn it is in the cycle (`core`, `check
DMA`, `check BLITTER`, `run DMA`, `run BLITTER`, `end`). In the core's turn an
instruction is configured, launched, refused, or is a fence (`Configure`,
`Launch`, `RefuseLaunch`, `Fence`), or the core does something else. After a
refusal the core offers the same instruction again (`stalled`); that it does is
`ResubmitsSame` of `ManagerCore`. `NothingToCheck`, `Submit` and `PutOff` are
the three ways through `check_dma` and `check_blitter`; `RestCycle`, `WorkCycle`
and `FinishCycle` those through the engines' `run_cycle`, each of which first
makes the callback that is owed (`Callback`). What a command does is left out;
it takes any number of cycles of `WorkCycles`. The two engines and the two
queues are the same code twice, so they are functions of `Pipe`; where the code
differs (the opcodes; `submit_blitter` tests the *DMA* queue) so does the model.
`retired` records the opcode accepted in this cycle, for the properties.
`BlitterDepth` is an assumption about the program: it queues no more blitter
commands than that. `EndCycle` may stop the simulation after any cycle.

### ManagerCore

One step per stage, in `phase` order; then the other components of the system
have their turn (`OthersRun`), which ends the cycle. Instructions are records of the fields the
decoder extracts; addresses count words. The scheduler answers a submission in
any way (`ExecuteAccepted`, `ExecuteRefused`). `flush_valid` and `flush_addr`
are the locals of `run_cycle`. A shift by a word's width or more may give any
value. `BhtTag` and `BtbTag` are the hashes of the predictor, which the submodule
generates: it is taken that addresses with one `get_bht_tag` have one
`get_btb_tag`, so that an address predicted taken has a target, but any tags may
share a target. `Uninit` is what a feedback register may hold at first, since
nothing initialises them. `submitted` and
`refused` record the outcome of a submission for the properties.

The refinement mapping to `ISA` is at the end of the module: an instruction is
performed when it is executed; a register has its feedback value if it is held
(`Effective`); the program counter is that of the oldest instruction not yet
executed, or the target of a flush on its way (`NextToExecute`).

### Dma and Blitter

In the benches the calls of `submit` (by the scheduler) and of `run_cycle`
alternate, as they do in a cycle. `copy_cycle` is `CopyRead`, `CopyFetch` or `CopyWrite`;
`set_cycle` is `SetWhole`, `SetFetch` or `SetPart`. A set that starts inside a
line evaluates `data.begin()+start_index` with an index that has underflowed;
that is undefined, and is modelled as no effect or as a crash (`SetCrash`).
`before` keeps the memory as it was when the command was taken. All bytes differ
at first, so that a byte from the wrong place is noticed.

An assertion that fails (`Fails`, `Accepts`) ends the program (`Crash`, state
`CRASHED`). Sums of addresses wrap (`After`), so that a destination whose end
wraps passes the assertions of `submit` and fails in the first cycle. A set has no
source: what was never configured stays `Garbage`, and so does the read pointer
(`SourceLine`). `AssertionsHold`
says which commands end the program: none that lies within memory, except a set
that starts inside a line, and no drawing but a pixel outside the frame. A copy to
a higher address that overlaps its source reads what it has written (`Smears`):
nothing says what it should leave, so `RangeWritten` is not about its bytes, all
other properties are.

### System

The state is that of the parts, with one `memory`; each step is a step of the
part whose turn it is. A submission is a step of the core (`ExecuteAccepted`,
`ExecuteRefused`) and of the scheduler (`Configure`, `Launch`, `RefuseLaunch`,
`Fence`) at once, so that it is the scheduler which decides; `SubmitDma` and
`SubmitBlitter` are `Submit` of the scheduler and of the engine; `RunDma` and
`RunBlitter` are a cycle of the engine, with the callback of the command before.
The commands that reach an engine are those the frontends put together from
what a program has left in them.

`promised` is what memory would be if every command were performed, as written,
when it is accepted. Two pipelines do not wait for each other, so without a
fence they may compete for a byte, and `contested` collects what is uncertain
then. It is kept up command by command. When a command is accepted, every DMA
command not yet performed competes with every drawing not yet performed
(`NewlyContested`) for the bytes to be drawn that lie in a line which the DMA
command writes, because it writes back the whole of a line that it fetched
before, and for where a copy puts the bytes to be drawn that lie in its source
(`Disturbed`). When a copy begins, what it makes of the bytes that are contested
by then is contested too (`CopyOf`). The set grows only; all other bytes must be
as promised when a fence has passed (`FenceIsBarrier`) and whenever nothing is
outstanding (`SettledMemory`). Competition really happens: without `contested`
both fail, because a line that the DMA fetched is written back over pixels drawn
in the next cycle.

The system implements `Scheduler` (`ImplementsScheduler`): the cycles of work
that `Scheduler` leaves open are, for the real engines, one for each line read,
one for each line written and one more for each line written in part
(`WorkLeft`), and never more than `MaxWork`. Its environment is a core that
submits again what was refused.

### Arguments and Simulator

Each argument is one turn of the loop, with the state that `parse_arguments`
keeps; `Reject` and `Accept` are the code behind the loop. `WellFormed` says
what a command line means without reading it in order, and `AcceptsExactly` and
`ConfigAsWritten` compare the two. The order in which an `unordered_map` is
searched makes no difference, as no two options share a name.

`Simulator` goes on with `validate`, `copy_file_in`, `dump_program`, the loop of
`run_program` and the dumps. A program is the number of cycles it takes to halt;
that it halts is `Halts` of `System`. `FileSystem` says what is found at a path.
Where the code reads or writes outside an array (a program larger than memory, a
listing without an end marker) it may come through or be aborted.

## Runs

| Run | Shows | Bounds |
|---|---|---|
| `Scheduler_service` | exact counts, fences wait, no queued command is missed, refinement of `CommandService`, a refused instruction is accepted in the end | two commands per queue, work of 1 or 2 cycles, cycles modulo 4 |
| `ManagerCore_programs` | refinement of `ISA`, feedback, queues, halting, resubmission | 12343 programs, three bit words, cycles modulo 4 |
| `ManagerCore_halts` | refinement of `ISA` and termination | branch programs with a stall, loops, branches that share a target, a jump to the end of a segment; each feedback register held or not at first; PC and accumulator only |
| `Dma_engine` | ranges, buffers, assertions, termination | two commands out of 98, three lines of three bytes, ranges of two, three and five bytes, and ranges that are empty, beyond memory, or wrap |
| `Blitter_draw` | coverage, bounds, assertions, termination | two commands, 3 x 4 pixels and those just outside, lines of two pixels |
| `System_programs` | fences are barriers, memory as promised, assertions of the engines, refinement of `Scheduler`, every program halts | 203 programs, 48 bytes in lines of 8, a frame of 2 x 2 pixels, two commands per queue |
| `Simulator_runs` | command lines, configurations, stepping, dumps, every run ends | all command lines of up to four arguments out of twelve, dumps to every kind of path, 1 or 9 cycles, step counts modulo 8 |

Five more runs end in a counterexample, where the code disagrees with what the
repository says of it:

| Run | Property | Finding |
|---|---|---|
| `Scheduler_blitter_lost` | `NoCommandLeftBehind` | `submit_blitter` tests the DMA queue, so three commands can be queued; two become valid in one cycle, the second is never taken and a later fence waits for ever |
| `ManagerCore_feedback` | `FeedbackCurrent` | `r=5; r=6; r=5`: the first write releases the feedback of the third |
| `ManagerCore_not_taken` | `PredictionsResolve` | a branch predicted taken whose flag is clear is never flushed |
| `Dma_partial_set` | `NothingElseWritten` | the last, partial line of a set is overwritten whole |
| `Blitter_colours` | `ColoursAreRgba` | a pixel's bytes are in the reverse order of a clear's |

Because of them the passing runs have preconditions, which are part of what they
show: at most two blitter commands are queued; no program writes a register
three times in a row; no branch is predicted taken and then not taken; a set
promises only the lines of its range; no program draws pixels and clears in one
colour and expects the same bytes. Four more disagreements were read in the
code and have no run of their own: a non-branch that shares its predictor tag
with a taken branch is followed by the branch's target (manager_core.cpp:114);
the feedback arrays are not initialised (manager_core.h:85), so a register read
before it is written has any value; and a SEGMENT_END halts in decode, before
older instructions are written back, with the PC past the segment although
manager_core.cpp:107 says it is not incremented: what is in the pipeline, a
refused submission among it, is not performed, and a SEGMENT_END fetched behind
a branch that is then taken halts the core all the same (the runs have it behind
a jump only, where nothing is left in the pipeline); and `validate` looks at the
input file only, where config.h:46 says it checks each item (a directory for a
dump is found out after the whole run).

**Why the bounds are enough.** The scheduler's actions compare a cycle only with
its neighbours, so a small modulus behaves like 2^32 and
has the wrap in reach (an entry that is missed would be valid again
after a wrap, which is why `NoCommandLeftBehind` looks for it in the cycle in
which it is missed, and not for its effects); two entries per queue and work shorter and
longer than the refusal of a queue give every order of submission, refusal,
completion and callback. The pipeline is three instructions deep from fetch to
execute and two more to writeback: four dependent instructions before the HLT
meet every feedback distance, five with branches meet a branch in the shadow of a
branch and a HLT in either place. For the DMA, three bytes per line give partial
lines at the start, at the end and at both, whole lines between them, and every
difference of alignment; five bytes are a whole line with a part on either side. For the blitter, rows of three and lines of two pixels
wrap in the middle of a line. For the system, sequences of three different commands put
every command between any two others, behind fields that were left over; one
program fills a queue, one loops; the targets of the copies overlap the frame and
each other in part of a line. The longest command needs six cycles. Four
arguments are enough for an option with its value and a program, and for each of
them to be missing, repeated, or out of place; both dumps need five or six, which
are listed.

**Fairness.** `WF_vars(Next)`: one thread calls every component in turn for as
long as the simulation runs, so no step is put off for ever. `ManagerCore` adds
`SF_vars(ExecuteAccepted)`: the scheduler does not refuse the same submission for
ever. That is `StallEnds` of `Scheduler_service`; and `System`, where the
scheduler is no assumption, halts under `WF` of its next step alone. In
`Simulator` it says that the user answers the prompts and that the program halts.

`CHECK_DEADLOCK FALSE` everywhere: the simulation stops when the core halts, and
the engines when the commands of the instance are used up.

## Proofs

Every safety property that a passing run checks is also a theorem, for every
value of the constants, of the components by themselves and of the system they
make up. So are all refinements: of `CommandService` by the scheduler, of `ISA` by
the core, and of `Scheduler` by the system as a whole. Liveness is model-checked.

### Scheduler

For every program, work time, byte size, cycle width and (but for
`NothingLeftBehind`) queue size. `SchedulerProofs`:

- `TypeCorrect`: `Spec => []TypeOK`. In particular the counts stay natural
  numbers, so `assert(dma_outstanding > 0)` and its twin cannot fail.
- `Accounting`: `Spec => []OutstandingExact`.
- `FenceWaits`: `Spec => []FenceDrained`.

The type invariant is not inductive alone, because a callback decrements a
count: that the count is positive follows from the account, and that the account
is kept needs the types. So `Inv == TypeOK /\ OutstandingExact` is proved
together (`InvInit`, `InvNext`), with one step per action. The callback is the
delicate part: `CallbackCounted` says that an owed callback has been counted, and
`CallbackSettles` that the account is kept when one command stops being worked
on, or owed, as another one is finished. `FenceWaits` adds that nothing has left
execute while it is the core's turn (`NotYetRetired`), and that a count of zero
leaves a pipeline nothing (`ZeroIsDrained`). The assumptions are
`SchedulerAssumption` and `CycleModulusAssumption`: the sizes are positive, the
cycle counter has at least three values, values are natural numbers.

`NothingLeftBehind`: `Spec => []NoCommandLeftBehind` for queues of
at most two. That a queue's front is valid now is not inductive: one must know
when the second entry will be. `Timely` says that the entries of a queue are
valid in consecutive cycles, the first of them in this cycle before the
scheduler's turn and in the next after it, with the exception of an entry that is
alone and has just been submitted. The bound is tight: behind two entries a third
one would be valid in the same cycle as the second, which is the counterexample
of `Scheduler_blitter_lost`. What `Timely` becomes when a queue is pushed, popped
or put off are lemmas of `CycleDeferProofs`, which the core's proofs use as well.

`ServiceProvided`: `Spec => ImplementsService`, so that every
accepted command is performed once and in order, and a fence passes only when
none is left. One lemma per action shows which step of `CommandService` it is, or
that it is not seen there (`SimLaunch`, `SimFinish`, ...); they rest on what the
queue operations do to the commands that wait (`WaitingAppend`, `WaitingTail`,
`WaitingPutOff`), and on `FenceWaits`' invariant for the fence.

### DMA engine

On its bench, in `DmaProofs`. `EngineAsserts`, `Spec =>
[]AssertionsHold`, for every size of memory and of lines and any commands that
lie within memory (`Proper`; a set has no source), in any order, number, alignment
and length. The
invariant `Control` states what the buffer holds in numbers: of the source `Read`
bytes have been read, of the destination `Written` bytes have been written, and
the buffer holds the difference, less than two lines of it, from the address
`source + Written` on (`Buffered`). `PartOfLine` is the arithmetic of one access:
the part of a line that lies in a range takes the count from where the pointer
was to where it is behind the line. It is used for reading and for writing, which
are the same arithmetic at different alignments. Nothing of one command is left
for the next (`Emptied`), which is what the assertions at the end of a command
check. `MemoryProofs` has the facts about lines.

The other safety properties of the engine, under the same assumptions:

- `DestinationFilled`: `Spec => []RangeWritten`.
- `CopyKeeps`: `Spec => []CopyKeepsToRange`.
- `LinesKept`: `Spec => []OnlyItsLinesWritten`.
- `DmaTypes`: `Spec => []TypeOK`.

`Control` counts the bytes, `Contents` says what they are: the buffer holds the
source from `Written` on as it was when the command was taken (`SourceBuffered`),
a fetched line is still what memory holds (`LineFetched`), what is behind the
write pointer is as intended (`BehindWritten`), and nothing else has changed
(`CopyKept`, `SetKept`). Reading needs `SourceIntact`: unless a copy smears, no
byte of its source that is still to be read has been written, because writing is
never ahead of reading. Writing needs `BehindNext`, which splits a line into the
part that moves behind the pointer and the part that is merged back. The tests of
the repository copy and set whole lines; here every alignment is covered.

### Blitter

On its bench, in `BlitterProofs`, for every size of frame, of memory and of lines
and any commands of the two operations (`Drawable`; the frame is whole lines, as
the code takes it to be): `BlitterTypes`, `BlitterAsserts`, `FrameOnly`,
`PixelOnly` and `ClearComplete`, the five invariants of `Blitter_draw`. The
invariant numbers the pixels in the order a clear meets them: `Position` of them
have been coloured, and at a line's end or a row's end, wherever these fall, the
next one is `Position + 1` (`Clearing`). That a pixel's line lies within the frame needs the
frame to be whole lines, which is where the code's "should be ok for now" is used.

### Core

In `CoreProofs`, for every program, width of words (of which it need only be known
that powers of two are positive), cycle width, number of registers, predictor
tags (of which the btb's depend on the bht's) and whatever the scheduler answers.

- `CoreTypes`: `Spec => []TypeOK`. `Types` adds that what waits for execute has
  operands of the kind its opcode looks up, and what has been executed writes no
  register but a general one.
- `CoreAligned`: `Spec => []EntriesAligned`. That the queues are aligned at the
  start of a cycle is inductive only with what they are in each phase of it. A
  queue has an entry for this cycle and one for the next at most (`InStep`); the
  core is not stalled while a flush is on its way (`Stalls`), and a flush that was
  seen is over by the end of its cycle (`Flushes`); decode's queue runs empty
  before execute's only behind a HLT (`Gapless`), without which a stall would put
  off an entry that is not there.
- `FeedbackFresh`: `Spec /\ []Unambiguous => []FeedbackCurrent`. A feedback
  register has the value of the youngest of at most three writes in flight
  (`Feeds`), and where it has been released while one is in flight, that write
  and the register agree (`Agreement`). `Unambiguous` excludes three writes in
  flight to one register of which the first and the last agree and the second
  differs, and nothing more; `ManagerCore_feedback` is what happens then. It is a
  condition on what the program does, not on the model: two writes in a row, or
  three with any other values, are covered.
- `ResubmittedSame`: `Spec /\ []Unambiguous => ResubmitsSame`. While the core is
  stalled the oldest writes go on to the registers, so that operands move from
  the feedback to the registers between two submissions; `EffectiveKept` says that
  execute cannot tell.
- `HaltsClean` and `HaltsInPlace`: `HaltedClean` and `StopsInPlace` for programs
  that end with a HLT and not at the end of a segment (`EndWithHlt`), from
  `HltLast`: nothing follows a HLT that is not about to be flushed, and once it is
  past execute nothing can flush, stall or fetch.

`FeedbackFresh`, `ResubmittedSame` and `HaltsClean` assume that no feedback
register is held at first. The code does not see to that (manager_core.h:85): it
is what they need of memory that nothing initialises, and `ManagerCore_halts`
shows what programs do that do not depend on it.

`CoreImplementsISA` is `Spec /\ []Unambiguous /\ []FallsThrough =>
ImplementsISA`, for programs that do not run over their end (`Closed`: an
instruction is followed by another, the target of a branch is one, and the end is
a HLT) and predictor tags that a branch shares at most with branches and a HLT
(`Unshared`), with no feedback register held at first. `FallsThrough` says that a
branch whose flag is clear was not predicted taken when it is executed. Each
hypothesis is one of the disagreements listed above, and without it the
refinement does not hold: `Unambiguous` (`ManagerCore_feedback`), `FallsThrough`
(`ManagerCore_not_taken`), `Unshared` (a non-branch that is followed by a branch's
target), the held registers (read before they are written) and, in `Closed`, the
end of the segment (which halts before older instructions are written back). The
programs of `ManagerCore_programs` satisfy all of them.

The argument. What fetch went on to is written in each instruction (`next_pc`),
and the next one in the pipeline has that address (`Chained`); a decoded
instruction is in two queues, and is the same in both (`Copied`). So the address
of the instruction to execute next (`Resume`) can be read from the oldest one, or
from a flush, and no stage but execute changes it: one lemma per stage
(`PathFetch`, `PathDecode`, ...), of which the end of a cycle, where every queue
moves on, is the longest (`PathEnd`). `ResumeMeans` shows that this is the
program counter of the refinement mapping. What is in the pipeline is what was
fetched (`Faithful`), and behind an instruction that is no branch comes the next,
because only branches have trained the predictor (`Trained`). The registers as
execute sees them change only when it writes one (`SeenKept`, `SeenWritten`), and
the operands it looks up are those the ISA names (`Operands`). Then `IsaExecutes`
shows which step of the ISA each action of execute is, and `IsaWaits` that every
other step is a stutter, or ends the cycle in which a command was given. The
scheduler's refusals are among them: that a stalled command is given once is part
of the theorem.

### Command line and run

In `SimulatorProofs`, for command lines of any length, files of any kind, any
answers of the user and any number of cycles: `ConfigRead`, `VerdictGiven`,
`SimulatorTypes`, `PromptInTime`, `SuccessDumps`, `FailureKeeps`, all safety
properties of `Simulator_runs`. For the parser the invariant says that what it
keeps is what the arguments before `position` mean (`AsRead`), or else the command
line has been found not to be well formed, which no later argument can mend
(`Reading`). `WellFormed` counts, the parser does not: `WellFormedIsProper`
relates them. For the run, `StepsLeft` says that the cycles run and those still to
be run before the prompt add up to the answer, and `FilesSoFar` what the files
are at each stage.

### System

In `SystemProofs`, for every program, size of memory, of lines, of the frame and of
the queues (`SystemAssumption` is that the frame is whole lines within memory, and
that memory has addresses that fit a word; `QueuesAssumption`, that there is room
in the queues, that values are natural numbers and that uninitialised memory, as
the scheduler's model has it, is none of them).

- `SystemRunsCore`: `SystemSpec => Spec`. Every step of the system is a step of
  `ManagerCore` or one that the core does not see, so its theorems hold of the
  system. Two of them are stated: `SystemImplementsISA` and `SystemHaltsClean`.
- `SystemFenceWaits`: `SystemSpec => []S!FenceDrained`. `Counted` says that what is
  outstanding is no less than what is queued, worked on or owed. It is not stated
  as an equality, as `Scheduler` has it, because a command that crashes its engine
  stays counted; a fence may then wait for ever but never pass too early.
- `SystemEnginesSound`: `SystemSpec /\ []CommandsFit => []EnginesSound`. The
  theorems of the engines on their benches are not used, since a bench lets nothing
  else write memory, but their lemmas are: `DmaProofs` and `BlitterProofs` are
  instanced on the state of the system, and `Control` of each, which says nothing of
  the contents of memory, is kept by the other engine as well. `CommandsFit` is a
  condition on the program: the commands in the queues, as the frontends put them
  together, lie within memory and the frame, and a set begins a line; a set may be
  launched before a source was ever configured, a copy may not. The programs
  of `System_programs` satisfy it, those that begin with such a set included; a set that starts inside a line (`SetCrash`) does
  not.
- `SystemImplementsScheduler`: `SystemSpec /\ []CommandsFit /\ []ValuesListed =>
  ImplementsScheduler`. `Scheduler` lets any core submit and gives a command any
  number of cycles of work up to `MaxWork`; here the submissions are those of
  `stage_execute`, and the work left to an engine is a function of its state, the
  lines still to be read, fetched and written (`WorkLeft`). That it is counted down
  is the heart of the proof: each cycle of an engine reads, fetches or writes one
  line of its command (`DmaCounts`, `BlitterCounts`, of which `CutsOn` is the
  arithmetic for a range at any alignment), so that a cycle takes one from the
  count and the last one ends the command. One lemma per action shows which step
  of `Scheduler` it is (`DmaWorkSim`, `BlitterRestSim`, `ElsewhereSim`, `EndSim`,
  ...). `ViewInv` joins what they need: the counts and the fence above, the engines'
  `Control`, that an idle engine has no work, and from `CoreProofs` that a stalled
  core has a submission at the front, which is why it submits once in a cycle and
  again what was refused. `ValuesListed` says no more than that `Values` has the
  values that the program submits.
- With it the theorems of `SchedulerProofs` hold of the system: `SystemServes`
  (every command that the program launches is performed once, in order, and a fence
  waits for all), `SystemCountsExact` (the counts are exact, not only high enough,
  while no command crashes its engine), for queues of at most two
  `SystemLosesNothing`, and `SystemTypes`: of `SystemTypeOK` the part about the core
  and the scheduler, by which no callback finds a count at zero.
- `SystemSettled` and `SystemFenceIsBarrier`: `SystemSpec /\ []CommandsFit /\
  []CommandsExact => []SettledMemory` and `=> []FenceIsBarrier`: what memory holds
  when nothing is outstanding and when a fence has passed.
- `SystemTypesHold`: `SystemSpec /\ []CommandsFit /\ []ValuesListed /\
  []ColoursGiven => []SystemTypeOK`: the whole type invariant, with memory, what was
  promised, and the contested bytes.

**What memory holds.** Nothing can be said of memory by itself while commands
wait, are in the middle of a line, or overtake those of the other pipeline. The
invariant relates it to `promised` (`PromiseInv`): a chain of contents of memory,
one for each DMA command that is not performed yet, leads from memory as it is to
what was promised. Each content is the one before it with a command performed
(`Chain`), and in the first one everything that the blitter has been given is
drawn already (`Coloured`). All this is about the bytes that are not contested.
Three facts make it work:

- `Apart`: for those bytes no DMA command that is not performed meets anything that
  is to be drawn, so that it makes no difference that the drawing is put first,
  whenever it was launched (`PromisesDraw`, `PromisesMove`).
- `Standing`: memory is the first content but for what is still to be drawn and,
  while a transfer is worked on, its range. What a clear has drawn of the frame so
  far is `Cleared` of `BlitterProofs`.
- While a transfer is worked on, memory and the engine's buffer are related to the
  memory it began with, as `Contents` has it on the bench, but only for bytes that
  the blitter leaves alone: `Alongside` of `DmaProofs` is that invariant beside
  another writer.

A launch makes the chain longer by a content (`PromiseLaunchMove`) or draws in all
of them (`PromiseLaunchDraw`). A command that is submitted to its engine is still
the front of what is pending, and a copy passes on what is contested in its source
(`PromiseSubmitDma`). The last cycle of a transfer makes memory the second content
of the chain, which becomes the first (`PromiseRunDma`); every other cycle of an
engine changes bytes of which nothing is claimed yet, and a drawing does
not disturb the transfer at work, which takes nothing certain from the bytes drawn
(`PromiseRunBlitter`, `Spares`). When nothing is pending the chain has one content
and nothing is left to draw, so memory is as promised (`NothingPending`), and that
nothing is pending is what `Counts` and `FenceInv` say of counts at zero and of a
fence. `PromiseKeeping` joins them with `EnginesInv`, by which no engine crashes.

`CommandsExact` is a condition on the program: no copy reads what it has itself
written (`Smears`; what it should leave is said nowhere), and a set is of whole
lines, because one that ends inside a line does something else
(`Dma_partial_set`). With either, memory is not what was promised.

`SystemTypesHold` is of another kind: `BytesInv` says that the buffers hold what
was in memory (`MadeOf` of `DmaProofs`), that the value of a set has been cut to a
byte when it was submitted (`LaunchedByte`), and that a colour is a number, of
which four bytes are taken (`ByteOf`). `ColoursGiven` says that the program gives a
colour before it draws; without one, what is drawn is indeterminate.

The hypotheses `CommandsFit`, `CommandsExact` and `ColoursGiven` hold in every
state of `System_programs`, which launches commands of every kind, and
`ValuesListed` by the way `Values` is chosen there: the theorems are not about
programs that cannot exist.

### What is only model-checked

- All liveness, which the prover cannot state: `StallEnds`, `Halts`,
  `CommandFinishes`, `Exited`.
- That the four bytes `WriteWord` takes from a word are its digits. `ByteOf` is
  known to be a byte, and the same for a drawing that is promised and one that is
  performed, which is all that the theorems need.

## Not modelled

- Status printing, tracing, the text of listings, of help and of dumps. The core
  keeps a reference to the constructor's parameter (main.cpp:121), which is
  dangling when the status is printed: undefined, but only in what is printed.
- The RPC interface: a read of memory for a tool that is not in the repository.
  The model of the command line is that of the build with RPC, because without
  it config.cpp:197 refers to a member that does not exist.
- Files that change while the simulator runs; a program file that is one of the
  dumps is overwritten after it has been read, which is modelled.
- The encoding of instructions and the memory map, generated by an absent
  submodule: modelled from their use (`Instructions`, constants of `Blitter`).
- Programs that write their own code, PC as an operand (the assembler's
  registers, R1 and ACC here, stand for all others), labels that are not aligned.
- Commands of no operation, which `submit` asserts against: the scheduler never
  makes one.
- A range whose end wraps back into the line it starts in, for which the length
  must be within a line of 2^32.
- The frame buffer is taken to start at and to fill whole lines of memory; the
  code says of another size that it "should be ok for now".

## What is left

No safety property and no refinement of a passing run is left to prove. What the
project does not have:

- proofs of the liveness properties. Their safety parts are theorems: the work left
  counts down by one each cycle (`DmaCounts`, `BlitterCounts`), so that what is
  missing for `Halts` and `CommandFinishes` is the fairness argument alone;
- the parts listed under "Not modelled", of which the remote interface would be
  the first to add, once the tool that uses it is in the repository.
