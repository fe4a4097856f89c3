\* One band with its boost, and two platforms with one slot each.
SPECIFICATION FairSpec
CONSTANTS
  NumBands = 1
  Places = {1, 2, 3}
  Platforms = {p1, p2}
  Limit = 1
  Threshold <- OneBand
  MaxPerBand = 2
  MaxTotal = 2
  MaxDepth = 2
  MaxToStop = 2
  None = None
INVARIANTS
  TypeOK
  SlotsConserved
PROPERTIES
  ImplementsPool
  StopEndsWorkers
CHECK_DEADLOCK FALSE
