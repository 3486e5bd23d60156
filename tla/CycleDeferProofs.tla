-------------------------- MODULE CycleDeferProofs --------------------------
(***************************************************************************)
(* Facts about cycles and queues of deferred values, for every width of    *)
(* the cycle counter and any data.                                         *)
(***************************************************************************)
EXTENDS CycleDefer, Integers, SequenceTheorems, TLAPS

Queue(D) == Seq([cycle : Cycles, data : D])

(* The cycle after a cycle is a cycle, and another one.                    *)
LEMMA NextCycleType ==
  \A c \in Cycles : NextCycle(c) \in Cycles /\ NextCycle(c) # c
  BY CycleModulusAssumption DEF Cycles, NextCycle

(* Two consecutive cycles after a cycle are both different from it.        *)
LEMMA CyclesDiffer ==
  \A t \in Cycles : /\ NextCycle(t) \in Cycles
                    /\ NextCycle(t) # t
                    /\ NextCycle(NextCycle(t)) # t
  BY CycleModulusAssumption DEF Cycles, NextCycle

(* Putting off a queue keeps its length and its data.                      *)
LEMMA IncrementAllType ==
  ASSUME NEW D, NEW q \in Seq([cycle : Cycles, data : D])
  PROVE  /\ IncrementAll(q) \in Seq([cycle : Cycles, data : D])
         /\ Len(IncrementAll(q)) = Len(q)
         /\ \A i \in 1 .. Len(q) :
              /\ IncrementAll(q)[i].cycle = NextCycle(q[i].cycle)
              /\ IncrementAll(q)[i].data = q[i].data
<1>1. DOMAIN q = 1 .. Len(q) /\ Len(q) \in Nat
  BY LenProperties
<1>2. \A i \in 1 .. Len(q) : q[i] \in [cycle : Cycles, data : D]
  BY ElementOfSeq
<1> DEFINE e(i) == [q[i] EXCEPT !.cycle = NextCycle(@)]
<1>3. \A i \in 1 .. Len(q) : e(i) \in [cycle : Cycles, data : D]
  BY <1>2, NextCycleType
<1>4. IncrementAll(q) = [i \in 1 .. Len(q) |-> e(i)]
  BY <1>1 DEF IncrementAll
<1>5. IncrementAll(q) \in [1 .. Len(q) -> [cycle : Cycles, data : D]]
  BY <1>3, <1>4
<1>6. IncrementAll(q) \in Seq([cycle : Cycles, data : D])
  BY <1>1, <1>5, SeqDef
<1>7. Len(IncrementAll(q)) = Len(q)
  BY <1>1, <1>5, <1>6, LenProperties
<1> QED BY <1>2, <1>4, <1>6, <1>7
-----------------------------------------------------------------------------
(* A queue between two stages in cycle t: at most an entry to be taken in  *)
(* this cycle and, behind it, one to be taken in the next.                 *)
Orderly(q, t) ==
  /\ Len(q) <= 2
  /\ Len(q) = 1 => q[1].cycle \in {t, NextCycle(t)}
  /\ Len(q) = 2 => q[1].cycle = t /\ q[2].cycle = NextCycle(t)

(* The entry for the next cycle is the last one.                           *)
Coming(q, t) == q # << >> /\ q[Len(q)].cycle = NextCycle(t)
Last(q) == q[Len(q)]

LEMMA NotEmpty ==
  ASSUME NEW D, NEW q \in Queue(D), Len(q) # 0
  PROVE  q # << >> /\ Head(q) = q[1]
BY EmptySeq, HeadTailProperties DEF Queue

(* The four states of such a queue.                                        *)
LEMMA Slots ==
  ASSUME NEW D, NEW q \in Queue(D), NEW t \in Cycles, Orderly(q, t)
  PROVE  \/ q = << >> /\ Len(q) = 0 /\ ~FrontCanRun(q, t) /\ ~Coming(q, t)
         \/ /\ Len(q) = 1 /\ FrontCanRun(q, t) /\ ~Coming(q, t)
            /\ q # << >> /\ Head(q) = q[1] /\ q[1].cycle = t
         \/ /\ Len(q) = 1 /\ ~FrontCanRun(q, t) /\ Coming(q, t)
            /\ q # << >> /\ Head(q) = q[1] /\ q[1].cycle = NextCycle(t)
         \/ /\ Len(q) = 2 /\ FrontCanRun(q, t) /\ Coming(q, t)
            /\ q # << >> /\ Head(q) = q[1] /\ q[1].cycle = t
            /\ q[2].cycle = NextCycle(t)
<1>1. Len(q) \in Nat /\ NextCycle(t) # t
  BY LenProperties, NextCycleType DEF Queue
<1>2. CASE q = << >>
  BY <1>2 DEF FrontCanRun, Coming
<1>3. CASE q # << >>
  <2>1. Len(q) > 0 /\ Head(q) = q[1]
    BY <1>1, <1>3, EmptySeq, HeadTailProperties DEF Queue
  <2>2. Len(q) = 1 \/ Len(q) = 2
    <3>1. \A n \in Nat : n > 0 /\ n <= 2 => n = 1 \/ n = 2
      OBVIOUS
    <3> QED BY <1>1, <2>1, <3>1 DEF Orderly
  <2> QED
    BY <1>1, <1>3, <2>1, <2>2 DEF Orderly, FrontCanRun, CanRun, Coming
<1> QED BY <1>2, <1>3

(* A stage hands on a value: it comes in the next cycle.                   *)
LEMMA Pushed ==
  ASSUME NEW D, NEW q \in Queue(D), NEW t \in Cycles, NEW d \in D,
         Orderly(q, t), ~Coming(q, t),
         NEW a, a = Append(q, Deferred(t, d))
  PROVE  /\ a \in Queue(D) /\ Orderly(a, t) /\ a # << >>
         /\ Coming(a, t) /\ Last(a).data = d
         /\ FrontCanRun(a, t) <=> FrontCanRun(q, t)
         /\ FrontCanRun(q, t) => Head(a) = Head(q)
<1> DEFINE e == Deferred(t, d)
<1>1. /\ e \in [cycle : Cycles, data : D]
      /\ e.cycle = NextCycle(t) /\ e.data = d /\ NextCycle(t) # t
  BY NextCycleType DEF Deferred
<1> HIDE DEF e
<1>2. Len(q) \in Nat
  BY LenProperties DEF Queue
<1>3. /\ a \in Queue(D) /\ Len(a) = Len(q) + 1
      /\ \A k \in 1 .. Len(q) : a[k] = q[k]
      /\ a[Len(q) + 1] = e
  BY <1>1, AppendProperties DEF Queue, e
<1>4. a # << >> /\ Head(a) = a[1]
  BY <1>2, <1>3, EmptySeq, HeadTailProperties DEF Queue
<1>5. CASE Len(q) = 0
  BY <1>1, <1>3, <1>4, <1>5, Slots
     DEF Orderly, Coming, Last, FrontCanRun, CanRun
<1>6. CASE Len(q) = 1 /\ FrontCanRun(q, t)
  <2>1. Head(q) = q[1] /\ q[1].cycle = t
    BY <1>6, Slots
  <2> QED
    BY <1>1, <1>3, <1>4, <1>6, <2>1
       DEF Orderly, Coming, Last, FrontCanRun, CanRun
<1> QED BY <1>5, <1>6, Slots

LEMMA LastPushed ==
  ASSUME NEW D, NEW q \in Queue(D), NEW t \in Cycles, NEW d \in D
  PROVE  Last(Append(q, Deferred(t, d))) = Deferred(t, d)
<1>1. Deferred(t, d) \in [cycle : Cycles, data : D]
  BY NextCycleType DEF Deferred
<1> QED BY <1>1, AppendProperties DEF Last, Queue

(* The end of a cycle: the entry that was ready goes, the other is ready.  *)
LEMMA Popped ==
  ASSUME NEW D, NEW q \in Queue(D), NEW t \in Cycles, Orderly(q, t),
         NEW p, FrontCanRun(q, t) => p = Tail(q), ~FrontCanRun(q, t) => p = q
  PROVE  /\ p \in Queue(D) /\ Orderly(p, NextCycle(t))
         /\ ~Coming(p, NextCycle(t))
         /\ FrontCanRun(p, NextCycle(t)) <=> Coming(q, t)
         /\ Coming(q, t) => Head(p).data = Last(q).data
<1>1. /\ NextCycle(t) # t /\ NextCycle(t) \in Cycles
      /\ NextCycle(NextCycle(t)) # NextCycle(t)
  BY NextCycleType
<1>2. CASE ~FrontCanRun(q, t)
  <2>1. p = q
    BY <1>2
  <2>2. \/ q = << >>
        \/ Len(q) = 1 /\ Coming(q, t) /\ q # << >> /\ Head(q) = q[1]
    BY <1>2, Slots
  <2> QED
    BY <1>1, <2>1, <2>2, EmptySeq
       DEF Orderly, Coming, Last, FrontCanRun, CanRun, Queue
<1>3. CASE FrontCanRun(q, t)
  <2>1. p = Tail(q) /\ q # << >>
    BY <1>3 DEF FrontCanRun
  <2>2. /\ p \in Queue(D) /\ Len(p) = Len(q) - 1
        /\ \A i \in 1 .. Len(p) : p[i] = q[i + 1]
    BY <2>1, HeadTailProperties DEF Queue
  <2>3. CASE Len(q) = 1 /\ ~Coming(q, t)
    <3>1. Len(p) = 0
      BY <2>2, <2>3
    <3>2. p = << >>
      BY <2>2, <3>1, EmptySeq DEF Queue
    <3>3. Orderly(p, NextCycle(t))
      BY <3>1 DEF Orderly
    <3>4. ~Coming(p, NextCycle(t)) /\ ~FrontCanRun(p, NextCycle(t))
      BY <3>2 DEF Coming, FrontCanRun
    <3> QED BY <2>2, <2>3, <3>3, <3>4
  <2>4. CASE Len(q) = 2 /\ Coming(q, t)
    <3>1. Len(p) = 1
      BY <2>2, <2>4
    <3>2. p[1] = q[2] /\ p[1].cycle = NextCycle(t)
      BY <2>2, <2>4, <3>1, Slots
    <3>3. p # << >> /\ Head(p) = p[1]
      <4>1. p \in Queue(D) /\ Len(p) # 0
        BY <2>2, <3>1
      <4> QED BY <4>1, NotEmpty, Zenon
    <3>4. Orderly(p, NextCycle(t))
      BY <3>1, <3>2 DEF Orderly
    <3>5. ~Coming(p, NextCycle(t))
      BY <1>1, <3>1, <3>2 DEF Coming
    <3>6. FrontCanRun(p, NextCycle(t))
      BY <3>2, <3>3 DEF FrontCanRun, CanRun
    <3>7. Last(q) = q[2]
      BY <2>4 DEF Last
    <3> QED BY <2>2, <2>4, <3>2, <3>3, <3>4, <3>5, <3>6, <3>7
  <2> QED BY <1>3, <2>3, <2>4, Slots
<1> QED BY <1>2, <1>3

(* A stall: what was ready is ready in the next cycle.                     *)
LEMMA PutOffByStall ==
  ASSUME NEW D, NEW q \in Queue(D), NEW t \in Cycles, Orderly(q, t),
         Coming(q, t) => FrontCanRun(q, t),
         NEW p, p = IncrementAll(q)
  PROVE  /\ p \in Queue(D) /\ Orderly(p, NextCycle(t))
         /\ Coming(p, NextCycle(t)) <=> Coming(q, t)
         /\ FrontCanRun(p, NextCycle(t)) <=> FrontCanRun(q, t)
         /\ FrontCanRun(q, t) => Head(p).data = Head(q).data
         /\ Coming(q, t) => Last(p).data = Last(q).data
<1>1. /\ NextCycle(t) # t /\ NextCycle(t) \in Cycles
      /\ NextCycle(NextCycle(t)) # NextCycle(t)
  BY NextCycleType
<1>2. /\ p \in Queue(D) /\ Len(p) = Len(q)
      /\ \A i \in 1 .. Len(q) : /\ p[i].cycle = NextCycle(q[i].cycle)
                                /\ p[i].data = q[i].data
  BY IncrementAllType DEF Queue
<1>3. CASE Len(q) = 0
  <2>1. p = << >> /\ q = << >>
    BY <1>2, <1>3, EmptySeq DEF Queue
  <2> QED BY <1>2, <1>3, <2>1 DEF Orderly, Coming, FrontCanRun
<1>4. CASE Len(q) \in {1, 2}
  <2>1. p # << >> /\ Head(p) = p[1] /\ q # << >> /\ Head(q) = q[1]
    BY <1>2, <1>4, EmptySeq, HeadTailProperties DEF Queue
  <2>2. FrontCanRun(q, t) /\ q[1].cycle = t
    BY <1>4, Slots
  <2>3. CASE Len(q) = 1
    BY <1>1, <1>2, <2>1, <2>2, <2>3, Slots
       DEF Orderly, Coming, Last, FrontCanRun, CanRun
  <2>4. CASE Len(q) = 2
    <3>1. Coming(q, t) /\ q[2].cycle = NextCycle(t)
      BY <2>4, Slots
    <3> QED
      BY <1>1, <1>2, <2>1, <2>2, <2>4, <3>1
         DEF Orderly, Coming, Last, FrontCanRun, CanRun
  <2> QED BY <1>4, <2>3, <2>4
<1> QED BY <1>3, <1>4, Slots
=============================================================================
