CONSTANTS
  b1 = b1
  b2 = b2
  b3 = b3
  b4 = b4
  p1 = p1
  p2 = p2
  p3 = p3
  Blocks <- MCBlocks
  Callers <- MCCallers
  Values <- MCValues
  MAXOPBLOCKS = 2
  OPBLOCKS <- MCOpBlocks
  LOGSIZE = 4
  SIZE = 5
SYMMETRY MCSymmetry
SPECIFICATION Spec
INVARIANTS
  Durable
  LogHasSpace
  LogSleepersWoken
PROPERTY Atomicity
