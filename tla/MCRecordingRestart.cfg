SPECIFICATION FairSpec
CONSTANTS
  Recordings = {r1}
  Threads = {cycle, main}
  Main = main
  MaxBoots = 3
  None = None
INVARIANTS
  NoOrphanAfterRestart
  DeathIsPending
  ReadyIsClosing
PROPERTIES
  StopReturns
  DeathIsNoticed
  ImplementsLifecycle
  ImplementsRunner
  ImplementsContract
  ExitIsRecorded
CHECK_DEADLOCK FALSE
