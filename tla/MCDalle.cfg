SPECIFICATION DSpec
CONSTANTS
  NPROC = 4
  SHAREDCOUNT = 3
  PGSIZE = 2
  SHAREDPG = 6
  NPT = 6
  NFRAME = 26
  Structs <- MCStructs
  Layout <- MCLayout
  Images = {1}
  Deltas = {}
  JunkPtes = {0}
  MemSizes = {16, 18, 20, 21, 22, 23, 24, 26}
  MaxRuns = 2
INVARIANTS SameMemory WindowBacked SessionCleanedUp
PROPERTY SessionEnds
CHECK_DEADLOCK FALSE
