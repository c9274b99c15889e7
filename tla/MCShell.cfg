CONSTANTS
  Procs <- MCProcs
  PIPESIZE = 2
  WORD = 4
  Bytes = {0, 1}
  READN = 2
  NFILE = 3
  NOFILE = 4
  Cmds <- MCCmds
  Message <- MCMessage
  FreeCalls = 2
SPECIFICATION Spec
INVARIANTS
  PipeSleepersWoken
  RefExact
  PipeEnds
  Wired
PROPERTIES
  PipeIsFifo
  PipelineEnds
