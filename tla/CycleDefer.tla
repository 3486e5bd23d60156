----------------------------- MODULE CycleDefer -----------------------------
(***************************************************************************)
(* Deferred values: include/cycle_defer.h.                                 *)
(*                                                                         *)
(* Every queue between two stages of the simulator holds Defer<T> entries: *)
(* a value together with the one cycle in which its consumer may take it.  *)
(* Cycles are uint32_t, so they live in 0 .. CycleModulus - 1 and wrap     *)
(* (CycleModulus is 2^32 in the program); the test for readiness is an     *)
(* equality, so an entry whose cycle has gone by is not late but lost.     *)
(***************************************************************************)
EXTENDS Naturals, Sequences

CONSTANT CycleModulus

ASSUME CycleModulusAssumption == CycleModulus \in Nat /\ CycleModulus > 2

Cycles == 0 .. CycleModulus - 1

(* get_next_global_cycle(), and the increment of a uint32_t cycle.         *)
NextCycle(c) == IF c + 1 = CycleModulus THEN 0 ELSE c + 1

(* Defer(T data): valid in the cycle after the one it is built in.         *)
Deferred(now, data) == [cycle |-> NextCycle(now), data |-> data]

CanRun(entry, now) == entry.cycle = now

(* Mutant: only the entry that was refused is put off.                     *)
IncrementAll_FrontOnly(queue) ==
  [i \in DOMAIN queue |->
     IF i = 1 THEN [queue[i] EXCEPT !.cycle = NextCycle(@)] ELSE queue[i]]

(* Defer::increment on every entry of a queue whose front was refused.     *)
IncrementAll(queue) ==
  [i \in DOMAIN queue |-> [queue[i] EXCEPT !.cycle = NextCycle(@)]]

(* The guard of every consumer: the queue has an entry and it is ready.    *)
FrontCanRun(queue, now) == queue # << >> /\ CanRun(Head(queue), now)

=============================================================================
