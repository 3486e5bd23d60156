SPECIFICATION Spec
CONSTANTS
  CycleModulus = 4
  WordBits = 3
  Registers = {0, 1, 2}
  Programs <- NotTakenPrograms
  BhtTag <- TagPerAddress
  BtbTag <- TagPerAddress
  NoTarget = NoTarget
  Uninit <- Zeroed
PROPERTY PredictionsResolve
CHECK_DEADLOCK FALSE
