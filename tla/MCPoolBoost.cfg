\* Two bands and the boost that goes from one to the other; the entries are
\* not due, so that a worker is busy only with itself.
SPECIFICATION FairSpec
CONSTANTS
  NumBands = 2
  Places = {1, 2, 3}
  Platforms = {}
  Limit = 1
  Threshold <- TwoBands
  MaxPerBand = 2
  MaxTotal = 3
  MaxDepth = 2
  MaxToStop = 1
  None = None
INVARIANTS
  ListedAreAlive
  AtMostMaxPerBand
PROPERTIES
  IdleBoostsAreRemoved
\* After Stop, or with the queues full, nothing need happen.
CHECK_DEADLOCK FALSE
