------------------------- MODULE MCMonitoringCycle -------------------------
(* Model values for MonitoringCycle: see the MC*Cycle*.cfg.                *)
EXTENDS MonitoringCycle, TLC

Symmetry == Permutations(Targets) \union Permutations(Sessions) \union Permutations(Workers)

\* Bound of MCCycleTargets.cfg: the entries in the queues are of one target.
OneTargetQueued ==
  \A t, u \in Targets : queue[t] > 0 /\ queue[u] > 0 => t = u
=============================================================================
