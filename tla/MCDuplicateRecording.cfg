\* One target, one worker and the cycle are enough for two recordings.
SPECIFICATION FairSpec
CONSTANTS
  Targets = {t1}
  Workers = {w1}
  Sessions = {s1, s2}
  Outcomes = {"live", "offline"}
  MaxQueue = 1
  MaxRequests = 0
  None = None
INVARIANT NoDuplicateRecording
CHECK_DEADLOCK FALSE
