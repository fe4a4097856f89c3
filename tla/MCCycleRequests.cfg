\* One target, one worker and one request, under the fairness of FairSpec; every
\* start of a recording fails.
SPECIFICATION FairSpec
CONSTANTS
  Targets = {t1}
  Workers = {w1}
  Sessions = {}
  Outcomes = {"live", "nourl", "offline"}
  MaxQueue = 1
  MaxRequests = 1
  None = None
INVARIANTS
  TypeOK
  CachePrimed
PROPERTIES
  EnabledIsChecked
  ResultIsConsumed
  DisabledStaysQuiet
\* The requests are bounded: with no target enabled the model stops.
CHECK_DEADLOCK FALSE
