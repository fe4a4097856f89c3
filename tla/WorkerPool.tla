----------------------------- MODULE WorkerPool -----------------------------
(***************************************************************************)
(* The worker pool (app/infrastructure/scheduler/worker_pool.py): worker   *)
(* threads that take entries from the queue of their band and check them   *)
(* under the semaphore of the platform, and a monitor thread that lends a  *)
(* band a second worker, moves it and takes it back, by the depths of the  *)
(* queues.                                                                 *)
(*                                                                         *)
(* The threads share three things that no lock orders completely: the      *)
(* lists of workers, the counters of workers that are to leave, and the    *)
(* stop event.  A counter is read and written in two steps, by the monitor *)
(* without the lock: its key is a plain Enum, whose hash is a Python       *)
(* function, so a thread may be switched between the two.                  *)
(*                                                                         *)
(* Of a queue only its depth is kept, of an entry only the platform, which *)
(* shows when the entry is taken; a check, with its result and callback,   *)
(* is what MonitoringCycle is about.                                       *)
(***************************************************************************)
EXTENDS Integers, FiniteSets

CONSTANTS
  NumBands,   \* the queue bands are 1 .. NumBands, in the order of QueueBand
  Places,     \* bound: threads of one band there may be at a time
  Platforms,  \* the platforms that have a semaphore
  Limit,      \* default_limit of the semaphores
  Threshold,  \* _SCALE_UP_THRESHOLDS
  MaxPerBand, \* _MAX_PER_BAND
  MaxTotal,   \* _MAX_TOTAL
  MaxDepth,   \* bound: entries in a queue
  MaxToStop,  \* bound: workers of a band that are asked to leave at a time
  None        \* no band, no platform, no thread

Bands == 1 .. NumBands

\* A thread is known by its band and a place, which a later thread takes again.
Threads == Bands \X Places
BandOf(t) == t[1]

ASSUME PoolAssumption ==
  /\ NumBands \in Nat
  /\ Limit \in Nat \ {0}
  /\ Threshold \in [Bands -> Nat \ {0}]
  /\ {MaxTotal, MaxDepth, MaxToStop} \subseteq Nat
  /\ MaxPerBand \in Nat \ {0}
  /\ None \notin Bands \union Platforms \union Threads
  /\ Places # {} /\ IsFiniteSet(Places)

VARIABLES
  workers,    \* _workers: the threads listed for each band
  toStop,     \* _workers_to_stop
  wk,         \* each thread: its position and local variables
  depth,      \* the depth of each queue
  slots,      \* the free slots of each semaphore
  mon,        \* the monitor thread: its position and local variables
  idle,       \* _boost_empty_since: not set, set, or set 60 s ago
  phase       \* the pool is new, or up, or its stop event is set

vars == <<workers, toStop, wk, depth, slots, mon, idle, phase>>
poolVars == <<workers, toStop>>
monVars == <<mon, idle>>

WorkerSteps  == {"none", "loop", "acquire", "check", "leave", "decrement", "remove", "ended"}
MonitorSteps == {"wait", "look", "start", "append", "remove", "increment"}

NoThread == [pc |-> "none", plat |-> None, seen |-> 0]

\* The monitor at a step, with the bands that get and lose a worker.
At(pc, add, rem) == [pc |-> pc, add |-> add, thread |-> None, rem |-> rem, seen |-> 0]
Waiting == At("wait", None, None)

\* A worker at the head of its loop.
Looping == [NoThread EXCEPT !.pc = "loop"]

Init ==
  /\ workers = [b \in Bands |-> {}]
  /\ toStop = [b \in Bands |-> 0]
  /\ wk = [t \in Threads |-> NoThread]
  /\ depth = [b \in Bands |-> 0]
  /\ slots = [p \in Platforms |-> Limit]
  /\ mon = Waiting
  /\ idle = "off"
  /\ phase = "new"

---------------------------------------------------------------------------
(* start, stop, and the monitoring cycle that fills the queues *)

\* start: one worker for each band, then the monitor.  Nobody else uses the
\* lists before the monitor runs.
Start ==
  /\ phase = "new"
  /\ LET base == {<<b, CHOOSE k \in Places : TRUE>> : b \in Bands} IN
       /\ workers' = [b \in Bands |-> {t \in base : BandOf(t) = b}]
       /\ wk' = [t \in Threads |-> IF t \in base THEN Looping ELSE NoThread]
  /\ phase' = "up"
  /\ UNCHANGED <<toStop, depth, slots, monVars>>

\* stop sets the event.  Then it joins the listed threads, for 5 s at most,
\* which changes nothing for anybody.
Stop ==
  /\ phase = "up"
  /\ phase' = "stopping"
  /\ UNCHANGED <<poolVars, wk, depth, slots, monVars>>

Enqueue(b) ==
  /\ depth[b] < MaxDepth
  /\ depth' = [depth EXCEPT ![b] = @ + 1]
  /\ UNCHANGED <<poolVars, wk, slots, monVars, phase>>

---------------------------------------------------------------------------
(* A worker: _worker_loop *)

\* Mutant: the event is looked at only when there is nothing to do.
EndsIfNothingToDo(t) ==
  /\ wk[t].pc = "loop"
  /\ phase = "stopping"
  /\ depth[BandOf(t)] = 0
  /\ wk' = [wk EXCEPT ![t] = [NoThread EXCEPT !.pc = "ended"]]
  /\ UNCHANGED <<poolVars, depth, slots, monVars, phase>>

\* The stop event is set; the thread stays in its list.
Ends(t) ==
  /\ wk[t].pc = "loop"
  /\ phase = "stopping"
  /\ wk' = [wk EXCEPT ![t] = [NoThread EXCEPT !.pc = "ended"]]
  /\ UNCHANGED <<poolVars, depth, slots, monVars, phase>>

\* The band has been told to shed a worker, which is read without the lock.
SeesRemoval(t) ==
  /\ wk[t].pc = "loop"
  /\ phase # "stopping"
  /\ toStop[BandOf(t)] > 0
  /\ wk' = [wk EXCEPT ![t] = [@ EXCEPT !.pc = "leave"]]
  /\ UNCHANGED <<poolVars, depth, slots, monVars, phase>>

\* No other thread is inside "with self._lock".
LockIsFree == \A u \in Threads : wk[u].pc \notin {"decrement", "remove"}

\* The lock is taken, and the counter read as it is by now.
Locks(t) ==
  /\ wk[t].pc = "leave"
  /\ LockIsFree
  /\ wk' = [wk EXCEPT ![t] = [@ EXCEPT !.pc = "decrement", !.seen = toStop[BandOf(t)]]]
  /\ UNCHANGED <<poolVars, depth, slots, monVars, phase>>

Decrements(t) ==
  /\ wk[t].pc = "decrement"
  /\ toStop' = [toStop EXCEPT ![BandOf(t)] = wk[t].seen - 1]
  /\ wk' = [wk EXCEPT ![t] = [NoThread EXCEPT !.pc = "remove"]]
  /\ UNCHANGED <<workers, depth, slots, monVars, phase>>

\* Mutant: discard in place of remove, so that a thread that is not listed yet
\* leaves as well.
RemovesAnyway(t) ==
  /\ wk[t].pc = "remove"
  /\ workers' = [workers EXCEPT ![BandOf(t)] = @ \ {t}]
  /\ wk' = [wk EXCEPT ![t] = NoThread]
  /\ UNCHANGED <<toStop, depth, slots, monVars, phase>>

\* The thread takes itself off the list and ends.  If it is not listed yet,
\* remove raises; the exception is logged and the loop goes on.
Removes(t) ==
  /\ wk[t].pc = "remove"
  /\ IF t \in workers[BandOf(t)]
       THEN /\ workers' = [workers EXCEPT ![BandOf(t)] = @ \ {t}]
            /\ wk' = [wk EXCEPT ![t] = NoThread]
       ELSE /\ wk' = [wk EXCEPT ![t] = Looping]
            /\ UNCHANGED workers
  /\ UNCHANGED <<toStop, depth, slots, monVars, phase>>

\* An entry is taken from the queue of the band.  One that is not due is
\* dropped, for the others the worker wants a slot of the platform.
Dequeues(t) ==
  /\ wk[t].pc = "loop"
  /\ phase # "stopping"
  /\ LET b == BandOf(t) IN
       /\ toStop[b] <= 0
       /\ depth[b] > 0
       /\ depth' = [depth EXCEPT ![b] = @ - 1]
  /\ \/ UNCHANGED wk
     \/ \E p \in Platforms :
          wk' = [wk EXCEPT ![t] = [@ EXCEPT !.pc = "acquire", !.plat = p]]
  /\ UNCHANGED <<poolVars, slots, monVars, phase>>

\* Mutant: a wait that gives up after a while, and goes on without a slot.
AcquiresAnyway(t) ==
  /\ wk[t].pc = "acquire"
  /\ slots' = [slots EXCEPT ![wk[t].plat] = IF @ > 0 THEN @ - 1 ELSE @]
  /\ wk' = [wk EXCEPT ![t] = [@ EXCEPT !.pc = "check"]]
  /\ UNCHANGED <<poolVars, depth, monVars, phase>>

Acquires(t) ==
  /\ wk[t].pc = "acquire"
  /\ slots[wk[t].plat] > 0
  /\ slots' = [slots EXCEPT ![wk[t].plat] = @ - 1]
  /\ wk' = [wk EXCEPT ![t] = [@ EXCEPT !.pc = "check"]]
  /\ UNCHANGED <<poolVars, depth, monVars, phase>>

\* Mutant: the entry stays with the worker.
ReleasesKeepsEntry(t) ==
  /\ wk[t].pc = "check"
  /\ slots' = [slots EXCEPT ![wk[t].plat] = @ + 1]
  /\ wk' = [wk EXCEPT ![t] = [@ EXCEPT !.pc = "loop"]]
  /\ UNCHANGED <<poolVars, depth, monVars, phase>>

\* Mutant: release after the check and not in a finally, so that an exception
\* goes past it.
ReleasesUnlessRaised(t) ==
  /\ wk[t].pc = "check"
  /\ \/ slots' = [slots EXCEPT ![wk[t].plat] = @ + 1]
     \/ UNCHANGED slots
  /\ wk' = [wk EXCEPT ![t] = Looping]
  /\ UNCHANGED <<poolVars, depth, monVars, phase>>

\* The check, the store of its result or the callback end or raise: either way
\* the slot is released and the loop goes on.
Releases(t) ==
  /\ wk[t].pc = "check"
  /\ slots' = [slots EXCEPT ![wk[t].plat] = @ + 1]
  /\ wk' = [wk EXCEPT ![t] = Looping]
  /\ UNCHANGED <<poolVars, depth, monVars, phase>>

Worker(t) ==
  \/ Ends(t)
  \/ SeesRemoval(t)
  \/ Locks(t)
  \/ Decrements(t)
  \/ Removes(t)
  \/ Dequeues(t)
  \/ Acquires(t)
  \/ Releases(t)

---------------------------------------------------------------------------
(* The monitor: _monitor_loop, adjust_workers, _add_worker, _remove_worker *)

WorkerCount(b) == Cardinality(workers[b])

\* b is taken to hold the boost: the first band with more than its base worker,
\* whatever the bands were given or have been told to shed.
Boosted(b) == WorkerCount(b) > 1 /\ \A c \in Bands : c < b => WorkerCount(c) <= 1

\* b has the deepest queue of the bands S, or is the first that has.
Deepest(b, S) ==
  \A c \in S : depth[c] < depth[b] \/ (depth[c] = depth[b] /\ b <= c)

\* Mutant: the limit of a band is not looked at.
CongestedAnyway(b) == depth[b] >= Threshold[b]

\* A band that may be given a worker.
Congested(b) == depth[b] >= Threshold[b] /\ WorkerCount(b) < MaxPerBand

\* A worker is on its way out.
Leaving == \E t \in Threads : wk[t].pc \in {"leave", "decrement", "remove"}

\* The monitor has waited 15 s.  A worker leaves in a few instructions, so
\* there was a moment in this time at which none was on its way out: the third
\* conjunct is an assumption about time, not a test of the code.  Without it a
\* worker that stands still for ever would let requests to leave pile up.
Wakes ==
  /\ mon.pc = "wait"
  /\ phase = "up"
  /\ ~Leaving
  /\ mon' = [mon EXCEPT !.pc = "look"]
  /\ UNCHANGED <<poolVars, wk, depth, slots, idle, phase>>

\* The depths and the lists are read, which is one step: entries and workers
\* that come or go between the reads could as well come or go before or after.
Looks == mon.pc = "look"

\* The queue of the boosted band is empty: its first idle round sets the time.
NoticesIdle(b) ==
  /\ Looks
  /\ Boosted(b) /\ depth[b] = 0
  /\ idle # "over"
  /\ mon' = Waiting
  /\ idle' = "on"
  /\ UNCHANGED <<poolVars, wk, depth, slots, phase>>

\* Mutant: the time is set anew in every idle round.
ScalesDownNever(b) ==
  /\ Looks
  /\ Boosted(b) /\ depth[b] = 0
  /\ idle = "over"
  /\ mon' = Waiting
  /\ idle' = "on"
  /\ UNCHANGED <<poolVars, wk, depth, slots, phase>>

\* 60 s later it is asked to shed a worker.
ScalesDown(b) ==
  /\ Looks
  /\ Boosted(b) /\ depth[b] = 0
  /\ idle = "over"
  /\ mon' = At("remove", None, b)
  /\ idle' = "off"
  /\ UNCHANGED <<poolVars, wk, depth, slots, phase>>

\* The queue of the boosted band b is not empty, c is the most congested band: if
\* that is twice as congested, it gets the boost of the other.
Reassigns(b, c) ==
  /\ Looks
  /\ Boosted(b) /\ depth[b] > 0
  /\ Deepest(c, Bands)
  /\ mon' = IF c # b /\ depth[c] >= 2 * depth[b] /\ Congested(c)
              THEN At("start", c, b)
              ELSE Waiting
  /\ idle' = "off"
  /\ UNCHANGED <<poolVars, wk, depth, slots, phase>>

\* The bands that may be given the boost: none while a band has it, or while
\* there are enough workers in all lists together.
Candidates ==
  IF /\ \A b \in Bands : ~Boosted(b)
     /\ Cardinality(UNION {workers[b] : b \in Bands}) < MaxTotal
    THEN {b \in Bands : Congested(b)}
    ELSE {}

\* The most congested of them gets it.
ScalesUp(b) ==
  /\ Looks
  /\ b \in Candidates /\ Deepest(b, Candidates)
  /\ mon' = At("start", b, None)
  /\ idle' = "off"
  /\ UNCHANGED <<poolVars, wk, depth, slots, phase>>

\* No band has the boost, and none gets it.
LeavesAlone ==
  /\ Looks
  /\ (\A b \in Bands : ~Boosted(b)) /\ Candidates = {}
  /\ mon' = Waiting
  /\ UNCHANGED <<poolVars, wk, depth, slots, idle, phase>>

\* A thread that is not in use; which one does not matter.
NewThread(b) == CHOOSE t \in Threads : BandOf(t) = b /\ wk[t].pc = "none"

\* _add_worker starts the thread ...
StartsThread(t) ==
  /\ mon.pc = "start"
  /\ BandOf(t) = mon.add /\ wk[t].pc = "none"
  /\ t = NewThread(mon.add)
  /\ wk' = [wk EXCEPT ![t] = Looping]
  /\ mon' = [mon EXCEPT !.pc = "append", !.thread = t]
  /\ UNCHANGED <<poolVars, depth, slots, idle, phase>>

\* ... and then puts it on the list; a reassignment goes on with the removal.
Appends ==
  /\ mon.pc = "append"
  /\ workers' = [workers EXCEPT ![mon.add] = @ \union {mon.thread}]
  /\ mon' = IF mon.rem = None THEN Waiting
                              ELSE At("remove", None, mon.rem)
  /\ UNCHANGED <<toStop, wk, depth, slots, idle, phase>>

\* _remove_worker looks at the list, and at the counter ...
ReadsToStop ==
  /\ mon.pc = "remove"
  /\ IF WorkerCount(mon.rem) <= 1
       THEN mon' = Waiting
       ELSE /\ toStop[mon.rem] < MaxToStop
            /\ mon' = [mon EXCEPT !.pc = "increment", !.seen = toStop[mon.rem]]
  /\ UNCHANGED <<poolVars, wk, depth, slots, idle, phase>>

\* ... which it then writes.
Increments ==
  /\ mon.pc = "increment"
  /\ toStop' = [toStop EXCEPT ![mon.rem] = mon.seen + 1]
  /\ mon' = Waiting
  /\ UNCHANGED <<workers, wk, depth, slots, idle, phase>>

Monitor ==
  \/ Wakes
  \/ \E b \in Bands : NoticesIdle(b) \/ ScalesDown(b) \/ ScalesUp(b)
  \/ \E b, c \in Bands : Reassigns(b, c)
  \/ LeavesAlone
  \/ \E t \in Threads : StartsThread(t)
  \/ Appends
  \/ ReadsToStop
  \/ Increments

\* 60 s pass.
IdleTimePasses ==
  /\ idle = "on"
  /\ idle' = "over"
  /\ UNCHANGED <<poolVars, wk, depth, slots, mon, phase>>

---------------------------------------------------------------------------

Next ==
  \/ Start
  \/ Stop
  \/ \E b \in Bands : Enqueue(b)
  \/ \E t \in Threads : Worker(t)
  \/ Monitor
  \/ IdleTimePasses

Spec == Init /\ [][Next]_vars

\* A check ends (the resolvers have timeouts), the monitor looks every 15 s,
\* and time passes.  Nothing has to be enqueued, and the pool need not stop.
Fairness ==
  /\ \A t \in Threads : WF_vars(Worker(t))
  /\ WF_vars(Monitor)
  /\ WF_vars(IdleTimePasses)

FairSpec == Spec /\ Fairness

---------------------------------------------------------------------------
(* Properties *)

\* The types of the variables; a worker has an entry exactly while it waits for
\* a slot or checks.
TypeOK ==
  /\ workers \in [Bands -> SUBSET Threads]
  /\ toStop \in [Bands -> Int]
  /\ wk \in [Threads -> [pc: WorkerSteps, plat: Platforms \union {None}, seen: Int]]
  /\ depth \in [Bands -> 0 .. MaxDepth]
  /\ slots \in [Platforms -> 0 .. Limit]
  /\ mon \in [pc: MonitorSteps, add: Bands \union {None}, thread: Threads \union {None},
              rem: Bands \union {None}, seen: Int]
  /\ idle \in {"off", "on", "over"}
  /\ phase \in {"new", "up", "stopping"}
  /\ \A t \in Threads : wk[t].plat # None <=> wk[t].pc \in {"acquire", "check"}

\* The checks under way on platform p.
Checks(p) == {t \in Threads : wk[t].pc = "check" /\ wk[t].plat = p}

\* The slots of a platform and the checks under way on it are the limit
\* together: no check runs without a slot, and no slot is lost, whatever a
\* check raises and however workers come and go.
SlotsConserved == \A p \in Platforms : slots[p] + Cardinality(Checks(p)) = Limit

\* The threads of band b.
ThreadsOf(b) == {t \in Threads : BandOf(t) = b /\ wk[t].pc # "none"}

\* The threads there are and the threads that are listed are the same, but for
\* one the monitor is just adding: stop can join all of them, and no thread
\* that has left counts as a worker in adjust_workers, although a thread may be
\* told to leave before it is listed.
ListedAreAlive == \A b \in Bands : workers[b] = ThreadsOf(b) \ {mon.thread}

\* "Max per band: 2 workers" (worker_pool.py): never more threads of a band,
\* listed or not, although those that leave, those that come and the counts
\* the monitor goes by are out of step.
AtMostMaxPerBand == \A b \in Bands : Cardinality(ThreadsOf(b)) <= MaxPerBand

\* The threads of a band that have not ended.
AliveOf(b) == {t \in ThreadsOf(b) : wk[t].pc # "ended"}

\* The checks under way, by platform, and the threads that are alive, by band.
Pool == INSTANCE BoundedPool WITH
  alive <- [b \in Bands |-> AliveOf(b)], busy <- [p \in Platforms |-> Checks(p)]

\* Step by step, the pool is one in which threads come only where there is room,
\* never leave in the middle of a check (_worker_loop), and check no more
\* streams of a platform at a time than its semaphore has slots (acquire_sync).
ImplementsPool == Pool!PoolSpec

\* Once the stop event is set, every worker ends, also one that waits for a
\* slot, for the lock, or has just been added.
StopEndsWorkers ==
  phase = "stopping" ~> \A t \in Threads : wk[t].pc \in {"none", "ended"}

\* When the queues stay empty every boost is taken back in the end, also when
\* requests to leave were lost, or were taken by two workers at once.
IdleBoostsAreRemoved ==
  <>[](phase = "up" /\ \A b \in Bands : depth[b] = 0)
    => <>[](\A b \in Bands : WorkerCount(b) <= 1)

---------------------------------------------------------------------------
(* The inductive invariant of the safety properties *)

\* What the monitor knows while it adds or removes a worker.
MonitorInv ==
  /\ mon.pc \in {"start", "append"} => mon.add \in Bands
  /\ mon.pc \in {"remove", "increment"} => mon.rem \in Bands
  /\ mon.thread # None <=> mon.pc = "append"
  /\ mon.pc = "append" => mon.thread \in ThreadsOf(mon.add)

\* Before start there is nothing.
NewIsEmpty == phase = "new" => mon.pc = "wait" /\ \A t \in Threads : wk[t].pc = "none"

\* The band that gets a worker still has room for it: the monitor alone adds.
RoomForBoost == mon.pc = "start" => Cardinality(ThreadsOf(mon.add)) < MaxPerBand

PoolInv ==
  /\ TypeOK
  /\ SlotsConserved
  /\ ListedAreAlive
  /\ AtMostMaxPerBand
  /\ MonitorInv
  /\ NewIsEmpty
  /\ RoomForBoost

---------------------------------------------------------------------------
(* Statements of the repository that the code does not keep *)

\* worker_pool.py: "Base: 1 worker per queue band (3 total) - always alive".
BaseAlwaysAlive == phase = "up" => \A b \in Bands : workers[b] # {}

=============================================================================
