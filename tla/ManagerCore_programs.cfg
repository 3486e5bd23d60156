SPECIFICATION Spec
CONSTANTS
  CycleModulus = 4
  WordBits = 3
  Registers = {0, 1, 2}
  Programs <- AllPrograms
  BhtTag <- TagPerAddress
  BtbTag <- TagPerAddress
  NoTarget = NoTarget
  Uninit <- Zeroed
INVARIANTS
  TypeOK
  EntriesAligned
  FeedbackCurrent
  HaltedClean
  StopsInPlace
PROPERTIES
  ImplementsISA
  ResubmitsSame
CHECK_DEADLOCK FALSE
