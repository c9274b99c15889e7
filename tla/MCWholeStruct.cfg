SPECIFICATION MCSpec
CONSTANTS
  NPROC = 3
  SHAREDCOUNT = 2
  PGSIZE = 2
  SHAREDPG = 4
  NPT = 4
  NFRAME = 14
  Structs <- MCStraddle
  Images = {1}
  Deltas <- MCDeltas
  JunkPtes = {0, 5}
  MaxCalls = 6
INVARIANT WholeStructMapped
CHECK_DEADLOCK FALSE
