SPECIFICATION Spec
CONSTANTS
  Recordings = {r1, r2}
  Threads = {cycle, main}
  Main = main
  MaxBoots = 1
  None = None
INVARIANT
  TargetedStop
CHECK_DEADLOCK FALSE
