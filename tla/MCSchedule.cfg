SPECIFICATION Spec
CONSTANTS
  Threads = {worker}
  Signals <- MCSignals
  Recencies <- MCRecencies
  Draws <- MCDraws
  MaxChecks = 3
  Period = 180
  Busy = 90
  Step = 90
INVARIANTS
  SchedTypeOK
  LikelihoodInRange
  CheckedInTime
CHECK_DEADLOCK FALSE
