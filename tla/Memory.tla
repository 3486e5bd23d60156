------------------------------- MODULE Memory -------------------------------
(***************************************************************************)
(* The memory of the simulator: src/memory.cpp.  A memory is a function    *)
(* from 0 .. MemSize - 1 to bytes; the engines read and write it by lines  *)
(* of Width bytes, the core and the pixel command by words of four.        *)
(***************************************************************************)
EXTENDS Naturals

CONSTANTS
  MemSize,   \* MEM_SIZE
  Width,     \* MEM_ACCESS_WIDTH
  Base       \* 2^8: the values of a byte; a word is a number below Base^4

ASSUME MemoryAssumption ==
  /\ Width \in Nat \ {0}
  /\ MemSize \in Nat \ {0}
  /\ MemSize % Width = 0
  /\ Base \in Nat \ {0}

Address == 0 .. MemSize - 1

(* The address of the line that holds a: a & 0xFFFFFFC0.                   *)
LineOf(a) == a - (a % Width)

(* The assertions of read and write.                                       *)
LineAccess(a) == a % Width = 0 /\ a + Width <= MemSize

ReadLine(m, a) == [k \in 0 .. Width - 1 |-> m[a + k]]

WriteLine(m, a, line) ==
  [b \in DOMAIN m |-> IF b \in a .. a + Width - 1 THEN line[b - a] ELSE m[b]]

(* Byte k of a word, the least significant first.                          *)
ByteWeight == <<1, Base, Base * Base, Base * Base * Base>>

ByteOf(word, k) == (word \div ByteWeight[k + 1]) % Base

(* write_word: the four bytes of a word, the least significant first, at   *)
(* the address rounded down to a multiple of four.                         *)
WriteWord(m, a, word) ==
  LET w == a - (a % 4) IN
  [b \in DOMAIN m |-> IF b \in w .. w + 3 THEN ByteOf(word, b - w) ELSE m[b]]
=============================================================================
