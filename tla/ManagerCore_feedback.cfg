SPECIFICATION Spec
CONSTANTS
  CycleModulus = 4
  WordBits = 3
  Registers = {0, 1, 2}
  Programs <- RewritePrograms
  BhtTag <- TagPerAddress
  BtbTag <- TagPerAddress
  NoTarget = NoTarget
  Uninit <- Zeroed
INVARIANT FeedbackCurrent
CHECK_DEADLOCK FALSE
