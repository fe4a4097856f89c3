---------------------------- MODULE MCWorkerPool ----------------------------
(* Model values for WorkerPool: see MCPool*.cfg and MCBaseWorker.cfg.      *)
EXTENDS WorkerPool, TLC

\* The thresholds, scaled down with the queues.
TwoBands == <<1, 2>>
OneBand  == <<2>>
=============================================================================
