SPECIFICATION Spec
CONSTANTS
  CycleModulus = 32
  QueueSize = 2
  Base = 2
  Opcodes <- CopyAndPixel
  Values = {3}
  WorkCycles = {1, 2}
  BlitterDepth = 3
  Uninit = Uninit
INVARIANT NoCommandLeftBehind
CHECK_DEADLOCK FALSE
