----------------------------- MODULE MCBlitter ------------------------------
(***************************************************************************)
(* Commands for the configurations Blitter_*.cfg.  A byte has 2^8 values;  *)
(* the bytes of colours lie beyond the addresses, which are the first      *)
(* contents of memory.                                                     *)
(***************************************************************************)
EXTENDS BlitterBench

Colour(r, g, b, a) == ((r * Base + g) * Base + b) * Base + a

Colours == {Colour(101, 113, 114, 255), Colour(115, 115, 115, 255)}

AllCommands ==
  [operation : {"PIXEL", "CLEAR"}, xpos : 0 .. FrameWidth,
   ypos : 0 .. FrameHeight, colour : Colours]
=============================================================================
