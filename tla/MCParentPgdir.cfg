SPECIFICATION MCSpec
CONSTANTS
  NPROC = 3
  SHAREDCOUNT = 2
  PGSIZE = 2
  SHAREDPG = 4
  NPT = 4
  NFRAME = 14
  Structs <- MCStructs
  Images = {1}
  Deltas <- MCDeltas
  JunkPtes = {0, 5}
  MaxCalls = 6
INVARIANT ParentPgdirLive
CHECK_DEADLOCK FALSE
