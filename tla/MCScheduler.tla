---------------------------- MODULE MCScheduler -----------------------------
(***************************************************************************)
(* Values for the constants of Scheduler in the configurations             *)
(* Scheduler_*.cfg.  A byte has Base = 2 values and a register Base^4.     *)
(***************************************************************************)
EXTENDS Scheduler

(* Every launching instruction but the copy, and a field of one command.   *)
SetDrawAndClear == {"P_DMA_SET_R", "P_BLI_COL_R", "P_BLI_PIX_R_R",
                    "P_BLI_CLR", FenceOp}

(* A copy with one of its fields, and the pixel.                           *)
CopyAndPixel == {"P_DMA_SRC_R", "P_DMA_CPY", "P_BLI_PIX_R_R",
                 FenceOp}
=============================================================================
