SPECIFICATION Spec
CONSTANTS
  Recordings = {r1, r2}
  Threads = {cycle, main}
  Main = main
  MaxBoots = 1
  None = None
SYMMETRY Symmetry
CONSTRAINT UntilMapIsCleared
INVARIANTS
  ExclusiveStop
  NoProcessLeak
  TypeOK
  FailedMeansDied
  
CHECK_DEADLOCK FALSE
