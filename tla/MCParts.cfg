CONSTANTS
  Plain = {"x", "y"}
  INPUT_BUF = 3
  WORD = 6
  READN = {1, 3}
  Texts <- MCTexts
  INTMAX = 100
  MAXARGS = 4
  Lines <- MCLines
  HEAPMAX = 11
  MORE = 4
  HEADER = 8
  NBytes = {0, 1, 9, 33}
  Inodes = {1, 2}
  Handles = {1, 2, 3}
  Of <- MCOf
  NBLOCK = 5
  BSIZE = 2
  NDIRECT = 1
  NINDIRECT = 2
  CHUNK = 2
  UINT = 8
  Writes <- MCWrites
SPECIFICATION Spec
INVARIANTS  PausedReport ParsesBack HeapSound FileSound
PROPERTIES ConsoleEdits EndHeard
CHECK_DEADLOCK FALSE
