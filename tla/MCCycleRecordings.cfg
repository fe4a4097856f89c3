\* One target, one worker and two recordings that may end from outside, under
\* the fairness of FairSpec.
SPECIFICATION FairSpec
CONSTANTS
  Targets = {t1}
  Workers = {w1}
  Sessions = {s1, s2}
  Outcomes = {"live", "offline"}
  MaxQueue = 1
  MaxRequests = 0
  None = None
PROPERTIES
  StaleRecordingIsForgotten
  ImplementsSessions
CHECK_DEADLOCK FALSE
