\* Two targets and no requests: one thread is in the state of one target while
\* the other is in that of the other, or in the same.
SPECIFICATION Spec
CONSTANTS
  Targets = {t1, t2}
  Workers = {w1}
  Sessions = {s1}
  Outcomes = {"live", "offline"}
  MaxQueue = 1
  MaxRequests = 0
  None = None
SYMMETRY Symmetry
CONSTRAINT OneTargetQueued
INVARIANTS
  OwnRecording
CHECK_DEADLOCK FALSE
