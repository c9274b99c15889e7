CONSTANTS
  NPROC = 3
  NCPU = 2
  TICKS = 2
  SleepArgs <- MCSleepArgs
SPECIFICATION Spec
INVARIANTS
  StackSafe
  NoLostWakeup
  InterruptsOff
  Adopted
PROPERTY Lifecycle
