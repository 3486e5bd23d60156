------------------------------- MODULE MCDma --------------------------------
(***************************************************************************)
(* Commands for the configurations Dma_*.cfg: ranges of some Lengths, with *)
(* every alignment, in a memory of a few lines, and commands that the code *)
(* asserts against, or should.                                             *)
(***************************************************************************)
EXTENDS DmaBench

CONSTANTS Lengths, Sources

Top == Base^4

Ranges == {r \in [start : Address, length : Lengths] :
             r.start + r.length < MemSize}

Command(operation, dest, source, length) ==
  [operation |-> operation, dest |-> dest, source |-> source,
   length |-> length, value |-> MemSize]

(* Of the copies to a higher address that overlap their source only those  *)
(* from address 1 are taken.                                               *)
Copies == {x \in {Command("COPY", r.start, s, r.length) :
                     r \in Ranges, s \in Sources} :
             /\ x.source + x.length <= MemSize
             /\ x.dest \in x.source + 1 .. x.source + x.length - 1 =>
                  x.source = 1}

(* No source is configured for a set: it has none.                         *)
Sets == {Command("SET", r.start, Garbage, r.length) : r \in Ranges}

PartialSets == {x \in Sets : x.dest % Width = 0}

(* No byte at all, up to the end of memory, beyond it, beyond the largest  *)
(* address, and a source that is not in memory.                            *)
Edges ==
  {Command(op, dest, source, 0) : op \in {"COPY", "SET"}, dest \in {1, 3},
                                  source \in {3, 4}}
  \cup {Command(op, r[1], 1, r[2]) :
          op \in {"COPY", "SET"},
          r \in {<<6, 3>>, <<MemSize, 1>>, <<4, Top - 2>>, <<Top - 1, 3>>}}
  \cup {Command("COPY", 0, r[1], r[2]) :
          r \in {<<6, 6>>, <<7, 4>>, <<MemSize, 2>>, <<Top - 3, 4>>}}

AllCommands == Copies \cup Sets \cup Edges
=============================================================================
