---------------------------- MODULE BoundedPool ----------------------------
(***************************************************************************)
(* What the rest of the program may rely on in the worker pool             *)
(* (app/infrastructure/scheduler/worker_pool.py and                        *)
(* platform_semaphores.py): every band opens with one thread, threads come *)
(* one at a time while their band has room, a thread checks one stream at  *)
(* a time while its platform has room, and none goes in the middle of a    *)
(* check.  How the pool decides who comes and who goes is left open.       *)
(***************************************************************************)
EXTENDS Integers, FiniteSets

CONSTANTS
  Bands, Threads, Platforms,
  MaxPerBand, \* threads of a band at a time
  Limit       \* checks of a platform at a time

VARIABLES
  alive,  \* the threads of each band
  busy    \* the threads that check a stream of each platform

pool == <<alive, busy>>

IsBusy(t) == \E p \in Platforms : t \in busy[p]

PoolInit == alive = [b \in Bands |-> {}] /\ busy = [p \in Platforms |-> {}]

Opens ==
  /\ \A b \in Bands : alive[b] = {}
  /\ \E base \in [Bands -> Threads] : alive' = [b \in Bands |-> {base[b]}]
  /\ UNCHANGED busy

Comes(b, t) ==
  /\ Cardinality(alive[b]) < MaxPerBand
  /\ ~IsBusy(t)
  /\ alive' = [alive EXCEPT ![b] = @ \union {t}]
  /\ UNCHANGED busy

Goes(b, t) ==
  /\ t \in alive[b]
  /\ ~IsBusy(t)
  /\ alive' = [alive EXCEPT ![b] = @ \ {t}]
  /\ UNCHANGED busy

Enters(p, t) ==
  /\ \E b \in Bands : t \in alive[b]
  /\ ~IsBusy(t)
  /\ Cardinality(busy[p]) < Limit
  /\ busy' = [busy EXCEPT ![p] = @ \union {t}]
  /\ UNCHANGED alive

Exits(p, t) ==
  /\ t \in busy[p]
  /\ busy' = [busy EXCEPT ![p] = @ \ {t}]
  /\ UNCHANGED alive

PoolNext ==
  \/ Opens
  \/ \E b \in Bands, t \in Threads : Comes(b, t) \/ Goes(b, t)
  \/ \E p \in Platforms, t \in Threads : Enters(p, t) \/ Exits(p, t)

PoolSpec == PoolInit /\ [][PoolNext]_pool
=============================================================================
