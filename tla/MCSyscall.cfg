CONSTANTS
  MaxProcesses = 2
  MaxBlocks = 3
  Prios = {1, 2}
  PidArgs = {0, 1, 2, 9}
  IdArgs = {0, 1, 2, 3, 4}
  PageSize = 4
  Top = 32
  Hole = {12, 13, 14, 15, 16, 17, 18, 19}
  Usable = {0, 1, 2, 3, 4, 5, 6, 7, 12, 13, 14, 15, 16, 17, 18, 19, 20, 21, 22, 23, 24, 25, 26, 27, 28, 29, 30, 31}
  HeapPages <- MCHeap
  UserPages <- MCUser
  TableFrames <- MCTables
  F32Size = 2
  ArgsSize = 3
  Pointers = {0, 8, 22, 30}
  Lengths = {0, 1, 2, 16}
  Slices <- MCSlices
  Formats <- AllFormats
  Halves <- EdgeHalves
SPECIFICATION MCSpec
INVARIANTS
  ClaimsAreOwned
  CountExact
  FramesNotShared
  TouchesOnlyCallers
  EveryBitOnce
  HalfExact
PROPERTY ClaimsEndProperly
CHECK_DEADLOCK FALSE
