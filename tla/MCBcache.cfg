CONSTANTS
  p1 = p1
  p2 = p2
  k1 = k1
  k2 = k2
  k3 = k3
  k4 = k4
  NBUF = 3
  Procs <- MCProcs
  Blocks <- MCBlocks
  Values = {0, 1}
  MaxPinned = 1
SYMMETRY MCSymmetry
SPECIFICATION Spec
INVARIANTS
  Coherent
  QueueSound
  
  LockSleepersWoken
