SPECIFICATION FairSpec
CONSTANTS
  CycleModulus = 4
  WordBits = 3
  Registers = {0, 1}
  Programs <- HaltingPrograms
  BhtTag <- TagPerAddress
  BtbTag <- OneTarget
  NoTarget = NoTarget
  Uninit <- Garbage
PROPERTIES
  ImplementsISA
  Halts
CHECK_DEADLOCK FALSE
