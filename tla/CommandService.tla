--------------------------- MODULE CommandService ---------------------------
(***************************************************************************)
(* What the scheduler promises to the management core, without cycles,     *)
(* counters, retries or callbacks: each pipeline performs the commands it  *)
(* was given once each and in the order they were given, and a fence       *)
(* instruction is only let through when every pipeline has performed all   *)
(* it was given.  The Scheduler module is shown to implement this.         *)
(***************************************************************************)
EXTENDS Sequences

CONSTANTS
  Pipe,     \* the pipelines that perform commands
  Command   \* the commands

VARIABLES
  pending,  \* [Pipe -> Seq(Command)]: given to a pipeline, not yet performed
  retired   \* the instruction that left the execute stage this cycle

vars == <<pending, retired>>

Nothing == "none"
Fence   == "P_SCH_FNC"

Init ==
  /\ pending = [p \in Pipe |-> << >>]
  /\ retired = Nothing

(* The core gives pipeline p a command.                                    *)
Give(p) ==
  LET c == pending'[p][Len(pending'[p])] IN
  /\ retired = Nothing
  /\ pending'[p] # << >>
  /\ c \in Command
  /\ pending' = [pending EXCEPT ![p] = Append(@, c)]
  /\ retired' \notin {Nothing, Fence}

(* An instruction that only prepares a later command.                      *)
Prepare ==
  /\ retired = Nothing
  /\ retired' \notin {Nothing, Fence}
  /\ UNCHANGED pending

(* Pipeline p has performed the oldest command it was given.               *)
Perform(p) ==
  /\ pending[p] # << >>
  /\ pending' = [pending EXCEPT ![p] = Tail(@)]
  /\ UNCHANGED retired

(* A fence is let through: nothing is left to perform anywhere.            *)
PassFence ==
  /\ retired = Nothing
  /\ \A p \in Pipe : pending[p] = << >>
  /\ retired' = Fence
  /\ UNCHANGED pending

EndCycle ==
  /\ retired' = Nothing
  /\ UNCHANGED pending

Next ==
  \/ \E p \in Pipe : Give(p)
  \/ \E p \in Pipe : Perform(p)
  \/ Prepare
  \/ PassFence
  \/ EndCycle

Spec == Init /\ [][Next]_vars
=============================================================================
