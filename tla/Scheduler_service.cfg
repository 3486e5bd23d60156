SPECIFICATION FairSpec
CONSTANTS
  CycleModulus = 4
  QueueSize = 2
  Base = 2
  Opcodes <- SetDrawAndClear
  Values = {3}
  WorkCycles = {1, 2}
  BlitterDepth = 2
  Uninit = Uninit
INVARIANTS
  TypeOK
  OutstandingExact
  FenceDrained
  NoCommandLeftBehind
PROPERTIES
  ImplementsService
  StallEnds
CHECK_DEADLOCK FALSE
