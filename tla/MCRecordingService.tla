------------------------- MODULE MCRecordingService -------------------------
(* Model values for RecordingService: see the MCRecordingService*.cfg.     *)
EXTENDS RecordingService, TLC

Symmetry == Permutations(Recordings)

\* Bound of MCRecordingService.cfg: a behaviour ends when the shutdown has stopped
\* everything and clears the map.  What follows is in MCRecordingRestart.cfg.
UntilMapIsCleared == pc[Main] \notin {"list", "finalise", "exit"}
=============================================================================
