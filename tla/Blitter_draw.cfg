SPECIFICATION FairSpec
CONSTANTS
  MemSize = 112
  Width = 8
  Base = 256
  Garbage = Garbage
  FrameWidth = 3
  FrameHeight = 4
  FrameAddr = 32
  MaxCommands = 2
  Commands <- AllCommands
INVARIANTS
  TypeOK
  ClearCoversFrame
  OnlyFrameWritten
  OnlyItsPixelWritten
  AssertionsHold
PROPERTY
  CommandFinishes
CHECK_DEADLOCK FALSE
