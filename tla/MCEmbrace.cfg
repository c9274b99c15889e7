CONSTANTS
  p1 = p1
  p2 = p2
  Procs <- MCProcs
  NINUM = 3
  Names = {"a", "b"}
  Calls <- MCCalls
SPECIFICATION Spec
INVARIANT NoEmbrace
CHECK_DEADLOCK FALSE
