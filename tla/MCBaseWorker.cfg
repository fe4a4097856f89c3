\* Two bands, whose workers may be busy with a check.
SPECIFICATION FairSpec
CONSTANTS
  NumBands = 2
  Places = {1, 2, 3}
  Platforms = {p1}
  Limit = 1
  Threshold <- TwoBands
  MaxPerBand = 2
  MaxTotal = 3
  MaxDepth = 2
  MaxToStop = 2
  None = None
INVARIANT BaseAlwaysAlive
CHECK_DEADLOCK FALSE
