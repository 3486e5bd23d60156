SPECIFICATION FairSpec
CONSTANTS
  MemSize = 9
  Width = 3
  Lengths = {2, 3, 5}
  Sources = {0, 1, 3, 5, 7}
  MaxCommands = 2
  Commands <- AllCommands
  Garbage = 100
  Base = 16
INVARIANTS
  TypeOK
  RangeWritten
  CopyKeepsToRange
  OnlyItsLinesWritten
  AssertionsHold
PROPERTY
  CommandFinishes
CHECK_DEADLOCK FALSE
