SPECIFICATION SystemSpec
CONSTANTS
  CycleModulus = 16
  WordBits = 6
  Registers = {0, 1, 2}
  Programs <- SomePrograms
  BhtTag <- TagPerAddress
  BtbTag <- TagPerAddress
  NoTarget = NoTarget
  Uninit <- Zeroed
  MemSize = 48
  Width = 8
  Base = 64
  FrameWidth = 2
  FrameHeight = 2
  FrameAddr = 16
  QueueSize = 2
  Garbage = Garbage
  Values <- SomeValues
  BlitterDepth = 2
  MaxWork = 6
INVARIANTS
  SystemTypeOK
  FenceIsBarrier
  SettledMemory
  EnginesSound
PROPERTIES
  ImplementsScheduler
  Halts
CHECK_DEADLOCK FALSE
