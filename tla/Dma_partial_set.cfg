SPECIFICATION Spec
CONSTANTS
  MemSize = 9
  Width = 3
  Lengths = {1, 2, 3, 4, 5, 6}
  Sources = {}
  MaxCommands = 2
  Commands <- PartialSets
  Garbage = 100
  Base = 16
INVARIANT NothingElseWritten
CHECK_DEADLOCK FALSE
