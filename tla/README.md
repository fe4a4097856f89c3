# Formal models of StreamArch

TLA+ specifications of the core of StreamArch (`src/app`), the TLC configurations
that check them on small instances, and TLAPS proofs of their safety properties
for all instances. Paths below are relative to `src/app`.

Run from this directory: `tlc -config <cfg> <MC module>` for a run of the table
below, `tlapm <X>_proofs.tla` for the proofs of a module. `PROJECT.json` says
which lines of the source each definition translates, which runs check which
properties, and which mutated definition breaks each of them.

## The system

StreamArch watches livestream pages and records a stream when it goes live. It
is one process with many threads, a SQLite database and one `ffmpeg` child per
recording.

| thread | what it does | period |
|---|---|---|
| main | startup, then waits for Ctrl+C, then shutdown | once |
| monitoring cycle | enqueues checks that are due; applies results, starts and stops recordings | 180 s |
| workers, 3 + boost | take a stream from the queue of their band and check it | poll 0.5 s |
| worker monitor | lends, moves and takes back the boost worker | 15 s |
| ffmpeg watchers | one per recording, report an unexpected exit | 2 s |
| HTTP API | one request after the other | on demand |
| WebSocket | event loop that pushes events to clients | on demand |

The threads share plain dictionaries, lists and counters, of which only the
runner's registry and the event bus are consistently locked. That is why the
models are about interleavings: one atomic step is one read or one write of
something shared.

### Components

| component | state | operations | what is hard, and what must hold |
|---|---|---|---|
| ffmpeg runner (`infrastructure/ffmpeg`) | registry of live recordings under a lock; per recording a process, a watcher and its stop event | `start_recording`, `stop_recording`, `stop_all`, `_watch_process`, remux | several stoppers, the watcher and ffmpeg's own death race: one stopper per recording, no process lost, no deliberate stop reported as a death, every death noticed, every call of a stopper ends, whatever the remux does |
| recording service (`application/services/recording_service.py`) | rows of sessions and artifacts; the map from sessions to runner ids | start, stop, exit callback, `stop_all`, finalisation at startup and shutdown | works on copies of rows that others change; a session may be stopped before its start has returned, and a stop may raise; the core may die between any two steps: FAILED is truthful, closed sessions stay closed, a running ffmpeg can be found, no orphan survives a restart |
| monitoring cycle (`application/orchestrators/monitoring_cycle.py`) | runtime state per target, the cached state and the cached live flag of each | the two phases of a cycle, `_on_live_detected`, `force_next_check`, `register_new_target` | read, compute, write back without a lock: no enabled target is forgotten, no recording is confused with another target's, none is started twice |
| worker pool, queues, semaphores (`infrastructure/scheduler`) | lists of threads, removal counters, depths, slots | `start`, `stop`, the worker loop, `adjust_workers` | unlocked counters, threads that run before they are listed: lists match threads, limits hold, slots are conserved, all workers end |
| commands on targets (`application/commands`, `interfaces/api/routes.py`) | the target table | add, enable, disable, force check, favourite, update, stop recording | run on the API thread against all of the above |
| prediction (`domain/prediction`) | none; its inputs are kept in the runtime state | signals, likelihood, interval, band, jitter | scores and intervals stay in their ranges at the edges (favourites, deep sleep, jitter), and no stale deadline keeps a target from being checked |
| event bus, WebSocket (`infrastructure/events`, `interfaces/websocket`) | subscribers, connections, sequence number, the tasks of the loop | publish, subscribe, broadcast, start, stop | publishers' threads against one event loop: nobody is left out or told twice, subscriptions follow the life of the server, a slow or dead client holds nobody up for ever |
| cookies (`infrastructure/cookies`, `application/services/cookie_service.py`) | one file per platform | get, set, import | a crash while a file is replaced, two writers |
| recording files (`infrastructure/files`) | paths | allocate | names unique to the second |
| repositories, database | tables | get, list, save | one connection per operation |
| startup and shutdown (`bootstrap`, `main.py`) | the container | order of starts and stops | what runs while sessions are finalised |

Threads start in this order (`bootstrap/startup.py`): workers, finalisation of
old sessions, cycle, the workers' callbacks, WebSocket, API. On shutdown the
cycle is asked to stop (with a timeout), then ffmpeg is stopped and sessions are
finalised, while the workers and the API may still be running.

## The modules

```
SessionLifecycle      what a reader of the session table sees
      ^ implements
RecordingService  --- extends --->  FFmpegRunner       (implements it as well)
                                          v implements
RecordingContract     what the service hears of a recording

MonitoringCycle       cycle + workers' checks and callbacks + API
      v implements
SessionLifecycle      (the same)

CheckSchedule         the same threads for one target, with time and scores
      | extends
Prediction            signals, likelihood, policy: operators

BoundedPool           who may come, go and check
      ^ implements
WorkerPool            threads of the workers + monitor

EventChannel          what a client sees
      ^ implements
WebSocketServer       --- extends --->  EventBus

X_proofs              the theorems about X
MCX, MC*.cfg          values for TLC
```

### FFmpegRunner

`process_runner.py`. A recording id goes from nowhere through `spawning` (Popen
done, not registered) into `recordings` (the registry) and then into the hands of
the one thread that has popped it (`cur`). A caller of `stop_recording` or
`stop_all` goes through `Pop`, `JoinWatcher`, `Quit`, `Transmux`; the watcher
through `polling`, `callback`, `done`. The call ends in `Return` or, when the remux
finds no ffmpeg on the PATH, in `QuitRaises`: `transmux_to_mp4` raises
`FileNotFoundError`, which only `stop_all` catches (`sweeps` are the threads inside
it; for them the same case is `QuitUnremuxed`). `CoreDies` is the end of the process at
any moment, with ffmpeg processes left as orphans.

Abstracted: how ffmpeg is asked to quit and then killed (`shutdown.py`) is one
step whose result is "not running"; the output files are not modelled, so whether
there is a `.ts` to remux, and an `.mp4` after it, is a free choice; a remux that
succeeds, fails or runs into its timeout is one step, since the thread goes on in
the same way; progress parsing is left out. The 3 s timeout of the
watcher's join is modelled by who can outlast it: only a watcher inside its
callback, since the stop event wakes one that polls. Ctrl+C also reaches the
ffmpeg processes, which is an instance of `StreamEnds`.

`RecordingContract` is the runner seen by the service, without registry, events
and joins: `life` is `proc`, `report` what may still be heard of a recording
(`ReportOf` of its watcher). A death is reported once at most, nothing else is,
and ffmpeg is stopped on purpose only when nothing can be reported any more.
`ImplementsContract` is the refinement.

### RecordingService and SessionLifecycle

`recording_service.py` on top of the runner: each step of a start, a stop, an
exit callback and a finalisation that reads or writes a row or the map is an
action. Sessions that were read are copies, and are written back over whatever
the row says. `MemoryLost` is a crash or the exit, `Startup` the next run, which
finalises before it serves.

Each service step either is one step of the runner or leaves it alone:
`ImplementsRunner` states it, TLC checks it and TLAPS proves it.
`SessionLifecycle` is the abstract specification: what a reader of the table may
see. Its `DocumentedSpec` is the diagram of `domain/recording/session.py`;
because the checks of `complete`, `fail` and `abort` are made on the caller's
copy, the code implements only `ObservedSpec`, which lets one outcome replace
another.

Abstracted: repositories succeed and are atomic; only path allocation, Popen and
the calls of the runner may raise. The FINAL_MP4 row that a stop creates where there
is an `.mp4` file is left out: the service never reads it. `SPLIT` is set by no code.

A stop may begin as soon as the row of the session is saved as RECORDING, which is
the first step of its start (`recording_service.py:163`), and also when the start
has raised after that. What came out of it, for the reader of the code:

- Such a stop finds no mapping, stops every other recording (finding 1), and
  completes the session. Its ffmpeg may be spawned after that, and its artifact be
  saved as WRITING. So COMPLETED does not mean that ffmpeg was stopped or that there
  is a READY artifact, although the docstring of `stop_recording` says so of the
  call; nothing of the kind is stated as a property.
- A remux that raises ends the call with ffmpeg stopped, the mapping gone, the
  session RECORDING and the artifact WRITING. Only another stop, which falls back,
  the shutdown or the next startup closes the session (`NoOrphanAfterRestart`).
- What does hold is that no ffmpeg gets out of reach by this: a running one whose
  start has mapped it stays in the map until a call has it in hand
  (`RunningIsMapped`), and is registered before that and after
  (`NoProcessLeak`). And wherever a stop or a callback has got as far as a READY
  artifact, it goes on to close the session (`ReadyIsClosing`), whichever other
  stop, callback or late start works on the same rows.

### MonitoringCycle

The runtime state of a target is an immutable object in a dictionary. The cycle,
a worker's callback and the API thread each read it, compute from their copy and
store the result; the model keeps each thread's position, target and copy
(`cyc`, `wk`, `api`), and one action is one read or one write. Some reads and
writes that commute with everything in between are one action, with the argument
at the action: a closed session stays closed, so its status may be read together
with the write that follows; nobody but the API thread writes the target table.

There are two caches of the last known state of a target, `_last_known_state`
(`cached` has its keys) and `_last_known_live` (`lastLive`), written one after the
other. Workers and the API thread write them in two actions; the cycle, which is the
only reader, writes both in one. Phase A tests the first one (`TestsCached`), Phase B
needs both: between the two writes of another thread (`HalfCached`) a cycle takes
the target for primed and then finds no live flag, so that it skips a live
transition. `CachePrimed` says that this is the only window.

Abstracted: time is two bits of a state, whether its deadline has come (`due`)
and whether it was checked in the last 60 s (`recent`); both change by themselves
in every copy. Predictions choose how far away a deadline is and in which queue
an entry waits, so they leave no trace. `last_checked_count` is left out. A
check is `live`, `nourl` (live without an address) or `offline`, freely chosen.
`start_recording` and `stop_recording` are their effect on the session, and may
raise; what they do to the table is still what `SessionLifecycle` allows
(`ImplementsSessions`). Queues are counts of entries per target up to `MaxQueue`. Any worker may
serve any queue.

### WorkerPool

A thread is known by its band and a place. `_workers` and `_workers_to_stop` are
read and written as the code does it: the test of the counter is outside the
lock, `-=` by a worker and `+=` by the monitor are a read and a write (the key is
a plain `Enum`, whose `__hash__` is a Python function, so a switch between the
two is possible), the thread runs before it is appended. Of a queue only the
depth is kept. Where a worker loop tests the stop event right before it dequeues,
the two are one action, because the event changes only once.

Abstracted: what a check does is in MonitoringCycle; here it takes a slot,
returns or raises. The depths and lists are read by `adjust_workers` in one step:
an entry or a worker that comes or goes between two of these reads could as well
come or go before or after all of them. `Wakes` needs a moment in which no worker
is on its way out: the monitor waits 15 s between two rounds, a worker needs a
few instructions to leave. This is an assumption about time, not a guard of the
code; without it a worker that never gets to decrement its counter would let the
monitor pile up requests without bound. The 60 s of `_SCALE_DOWN_IDLE_SECONDS` are the three
values of `idle`.

`BoundedPool` is what remains when the lists, the counters, the lock and the
decisions of the monitor are taken away: threads come where their band has room,
one enters a check where its platform has room, and none goes in the middle of a
check. `ImplementsPool` maps `alive` to the threads that have not ended and `busy`
to the checks under way.

### Prediction and CheckSchedule

`Prediction` is `domain/prediction` as operators on integers: scores are
thousandths, every product and quotient is rounded down (the code's floats are
rounded to four decimals where they are stored, so its scores differ in the last
digits), intervals are seconds. The branches of `get_adjusted_interval`, the cap
of the favourites and the jitter are those of the code; the draw of
`random.randint` is an argument.

`CheckSchedule` follows the runtime state of one target through the threads that
replace it: the cycle (`Processes`, `ProcessWrites`, `ReactReads`,
`AppliesResult`, `Records`), the live callback and `force_next_check`, each with
the copy it has read. It has what `MonitoringCycle` leaves out: the deadline, as
the seconds that are left (`wait`), the likelihood, the count of checks, and time
(`Elapse`), at most `Busy` seconds per cycle and `Period` between two. `clock`
and `age` are observers: the seconds of this phase of the cycle, and since the
target was last enqueued or a result of it applied.

What came out of the translation, for the reader of the code:

- `last_checked_count` is not "since the target was added" (`runtime_state.py:20`):
  three of the four functions that copy a state leave it out, so it is 0 or 1, and
  only a forced check that races the cycle can make it grow. The promotion of new
  streams does not end with the third check; deep sleep needs thirty and is out of
  reach otherwise. A target that just went offline (likelihood 1.0 before) waits
  900 s, one that is cold 300 s.
- What is fed back as the average is the last likelihood, and 0 after an offline
  result; the slow decay that `calculate_ema` describes does not happen.
- A favourite waits up to 207 s: the cap of 180 s comes before the jitter.

Abstracted: days do not pass within a behaviour, so the recency factor changes
only when the target is live; the hour of the signals is any. The `now` of Phase B
is taken once for all targets and may be older than the step: then the deadline
is earlier than modelled. The favourite flag is fixed (a deadline from before it
is set is kept, see the hazards). Recordings start and end freely.

### EventBus, WebSocketServer and EventChannel

`EventBus` is `event_bus.py`: per topic how often the one callback of the program
is registered, and per publisher the calls that are left of the list it copied.
`WebSocketServer` adds the server's thread (`pc`, from `start` through binding,
subscribing, serving, closing to the end of its loop, and `start` again), the
publishers (`DrawsNumber`, `HandsOver`), the connections with their handlers, and
one coroutine per message (`Begins`, `Sends`, `Drains`, `FindsClosed`,
`Finishes`). `EventChannel` is what a client may see: unique numbers, each at
most once; `ImplementsChannel` is the refinement, by `drawn <- seq`.

External, from how `server.py` uses them: a connection of `websockets` lets one
send write and drain at a time and raises on a closed connection, `Server.close`
closes them all, a client that misses a ping is dropped, `asyncio` runs what it is
given. Where the loop of the code runs a task up to its next await, the model
interleaves freely. `_loop.is_running()` and the hand-over are one step: if the
loop ends in between, the callback raises, which the bus logs, and the message is
lost as if there had been no loop. `broadcast()` is called by no code.

## The runs

| run | configuration | instance | distinct states | question |
|---|---|---|---|---|
| `recording` | `MCRecordingService.cfg` | 2 sessions, cycle and main thread, until the shutdown clears the map | 1,892,344 | exclusive stop, no process lost nor its mapping; FAILED means that ffmpeg died |
| `restart` | `MCRecordingRestart.cfg` | 1 session, cycle and main thread, 3 boots | 30,447 | crashes at any step, restarts, the three refinements, no death missed or lost on the way, no READY artifact of a session that nobody closes, stops return, exits are recorded |
| `cycle_targets` | `MCCycleTargets.cfg` | 2 targets, 1 worker, 1 session, entries of one target queued at a time | 3,718,177 | stale writes never mix up targets |
| `cycle_requests` | `MCCycleRequests.cfg` | 1 target, 1 worker, 1 request | 298,199 | no enabled target is forgotten, a disabled one stays quiet, no result stays, caches are primed |
| `cycle_recordings` | `MCCycleRecordings.cfg` | 1 target, 1 worker, 2 sessions | 202,567 | a recording that ended is forgotten, a session is not opened again |
| `pool_boost` | `MCPoolBoost.cfg` | 2 bands, 3 places each | 378,797 | lists, limits, and boosts that are taken back |
| `pool_slots` | `MCPoolSlots.cfg` | 1 band, 2 platforms with 1 slot | 13,131 | slots are conserved, the pool implements `BoundedPool`, stop ends all |
| `schedule` | `MCSchedule.cfg` | 1 target, cycle and one other thread | 4,001,937 | checks in time, scores and deadlines in range |
| `events` | `MCEvents.cfg` | 2 events, 2 clients, 2 topics, 2 starts | 281,410 | nobody left out, told twice or off the list, subscriptions, sends and stops end |
| `targeted_stop` | `MCTargetedStop.cfg` | 2 sessions | violated | finding 1 |
| `duplicate_recording` | `MCDuplicateRecording.cfg` | 1 target, 2 sessions | violated | finding 2 |
| `base_worker` | `MCBaseWorker.cfg` | 2 bands | violated | finding 3 |

Why the bounds are enough. Two recordings and two stoppers (a `stop_recording` of
the cycle and the `stop_all` of the shutdown) are what a race about "one of them,
or the other one's" needs; a third one, the API's, repeats the first, since the pop
under the lock lets one through. TLC does not get through it in the five minutes of
a run; the theorems are about any number of threads. Nothing of the runner is left to do
once `recording` has come to clear the map (`UntilMapIsCleared`); the finalisation
after that is in `restart`. Three boots are two restarts: a crash at any step of the first
run, and another one at any step of the first restart, its finalisation included.
`OneTargetQueued` keeps `cycle_targets` to entries of one target at a time: the
other target is then in the hands of the cycle, or of the worker that has
dequeued its entry before, which is where two states may be mixed up. `Recordings`,
`Sessions` and `MaxRequests` are budgets: each id is used once, so a run with
`n` of them contains every prefix with fewer. One worker, the cycle and the API
thread are three writers of one runtime state. `MaxQueue = 1` lets an entry wait
while the target becomes due again, which then adds nothing; the deadline is
pushed forward all the same. In the pool two bands suffice for a reassignment, and
three places for two workers and one that is still leaving. `MaxDepth = 2` with
thresholds 1 and 2 lets every comparison of `adjust_workers` go both ways.
Symmetry is used only in runs without liveness.

The runner has no run of its own: `recording` and `restart` are about the service
on top of it, whose every step is one of the runner or leaves it alone
(`ImplementsRunner`), so the runner's properties are checked there. Those that a
richer property of the same run implies (`RunnerTypeOK`, `CallbackOnlyOnDeath`,
`RunningIsWatched` and `JoinedIsSilent` of the runner, `OneMessagePerEvent` of the
server) are theorems only, and no run repeats them.

`schedule` has a cycle of 90 s and the pause of 180 s in steps of 90 s, so that a
target may become due before and after the cycle passes it, and another thread may
hold a copy over several cycles; the draw is the largest, which makes the bound of
`CheckedInTime` tight, a favourite and another target, a daily streamer seen in the
evening, and a counter up to 3, where the promotion ends. Smaller steps, smaller
draws and deep sleep are covered by the proof. `events` has a client besides the
one that is slow or dead, a message that overtakes another one, and a restart;
one publisher is enough for two messages under way at once, and that two of them
draw different numbers and hand them over out of order is in the proof, for any
number of publishers (two take TLC longer than the five minutes of a run).

Deadlock is not checked: recordings, requests and boots are budgets, and after the
stop of the pool or of the core nothing need happen. That nobody waits for ever is
instead stated as liveness (`StopReturns`, `StopEndsWorkers`).

### Fairness

Only steps a running thread owes are fair, each thread on its own: a stopper or
watcher goes on (the waits for ffmpeg and for the remux have timeouts, the watcher
polls), the cycle runs every 180 s, a check ends because the resolvers have
timeouts, the monitor looks every 15 s, and time passes. No fairness is given to
callers, to streams that start or end, to new sessions or requests, to clients,
nor to `start`, `stop`, a crash or a restart. In `WebSocketServer` the loop serves
what is ready, and a coroutine that waits for a client goes on because the client
drains or is dropped when it misses a ping (`ping_timeout=10`). `CheckSchedule`
needs no fairness: `CheckedInTime` is a bound, and `Elapse` lets no cycle last
longer than `Busy` and no pause longer than `Period`. `MonitoringCycle` assumes
that every queue has a worker for ever (`WF` on each `WorkerThread`); finding 3
says that the pool may break this, and then `EnabledIsChecked` does not follow for
the targets of that band.

## What is proved

Each module's safety properties are proved for every value of its constants, from
the module's one named assumption. The scheme is the same each time: an inductive
invariant, one step lemma per action or per conjunct, a theorem for the invariant
and one for each property it implies. Each invariant was checked by TLC before it
was proved.

- **FFmpegRunner_proofs** (`RunnerInv`). The properties alone are not inductive:
  that the popped process is nobody else's needs to know that an id that is
  spawning or registered has not been touched (`SpawningIsFresh`,
  `RegisteredIsUntouched`), and that no callback follows a deliberate stop needs
  the order of event, join and quit (`StopIsOrdered`, `StoppedWasAnnounced`).
  Theorems: `RunnerTypeCorrect`, `StopIsExclusive`, `NoProcessIsLost`,
  `CallbackIsForDeath`, `RunningRecordingIsWatched`, `StopperHasSilencedWatcher`
  and `RunnerKeepsContract`. The last one needs one more fact to be inductive,
  that a watcher somebody has joined never polls again (`WatchersAreJoined`).
- **RecordingService_proofs** (`RunnerInv /\ ServiceInv`). The service is shown to
  implement the runner step by step (`ServiceImplementsRunner`), which hands it
  `RunnerInv`; `ServiceInv` adds how far each start has come in the runner
  (`StartMatchesRunner`), which calls are inside the runner (`CallsMatchRunner`) and
  what the main thread does in each phase of the core (`MainMatchesCore`,
  `StartupFinalises`). Theorems: `TypeCorrect`, `FailureMeansDeath`,
  `RestartLeavesNoOrphan`,
  `ServiceImplementsLifecycle`, and `ServiceKeepsContract`, which is the runner's
  theorem at work in the service: its steps are the runner's. `DeathIsNotForgotten`
  is the safe half of `DeathIsNoticed` and `ExitIsRecorded`, that there is always
  somebody who will deal with a death; it needs that a watcher is done only after
  its callback or a stop (`ReportsAreHeard`). `RunningIsReachable` is
  `RunningIsMapped`; it needs the same of every recording that is registered, whether
  or not it still runs (`MappingsMatchRegistry`), and that a call of the runner's
  `stop_recording` has no second recording that its exception could leave behind
  (`CallsAreShaped`). `ReadySessionsClose` is `ReadyIsClosing`; it needs that there
  is no artifact before the last step of a start (`ArtifactsAreSaved`).
- **MonitoringCycle_proofs** (`CycleInv`). `OwnRecording` is about what is stored,
  so the invariant says it of every copy a thread holds (`CopiesAreOwn`);
  `CachePrimed` needs that Phase A leaves a cached state for each target of the
  batch that Phase B goes through (`BatchIsPrimed`), and that whoever caches a state
  goes on to its live flag (`FlagsFollow`). Theorems:
  `CycleTypeCorrect`, `RecordingIsOwn`, `CacheIsPrimed`; `CycleImplementsSessions`
  (every step moves at most one session, and in the direction of the lifecycle);
  and the action property `DisabledTargetStaysQuiet`: from the moment at which no
  thread, queue or batch holds a disabled target, nothing touches it before the
  next request for it. The proof goes through the actions and shows for each that it
  needs a hold on its target.
- **WorkerPool_proofs** (`PoolInv`). Threads come and go in three actions; the
  lists differ from them by the one thread the monitor is adding, so the counts
  it decides by are the numbers of threads, and the room it saw is still there
  when it adds (`RoomForBoost`), because nobody else adds. The semaphores are a
  counting argument over the finite set of checks. Theorems: `TypeCorrect`,
  `SlotsAreConserved`, `ListsAreAlive`, `BandsAreBounded`, and `PoolIsBounded`, the
  refinement of `BoundedPool`: that a thread comes where there is room is
  `RoomForBoost`, that a check begins where there is room is `SlotsConserved` at the
  moment of `Acquires`, and that none goes while it checks is in the positions at
  which a worker ends or leaves.
- **WebSocketServer_proofs** (`WsInv`). That the callback is on a list at most once
  needs what is on each list at every step of the thread (`ListInv`), also between
  two topics; that no client gets a message twice needs that a number belongs to one
  publisher until it is handed over (`NumberInv`) and that whoever is still to be
  sent to has not got it (`CopyInv`); that an ended server leaves nothing behind
  needs which clients are in a handler when (`ClientInv`, `TaskInv`). Theorems:
  `TypeCorrect`, `EventsAreSentOnce`, `ServingIsSubscribed`,
  `ServerImplementsChannel`, `NobodyIsLeftOut`, `ConnectedStayRegistered`. The last
  two together: whoever is connected gets every message that is handed over. A
  broadcast may still take a client off the list long after it found it closed,
  because a connection that was found closed does not open again (`ClientInv`).
- **CheckSchedule_proofs**, first about `Prediction`: `LikelihoodRange`,
  `RecencyRange`, `RecencyFades`, `BonusNeverReduces`, `BandsAgree`,
  `IntervalRange`, `NoDeepSleepAtFirst`, `FavoriteInterval`, for all inputs; that the
  prediction is monotone, `LikelihoodGrows` in every signal and `LikelierIsSooner` in
  the likelihood, which the jitter does not undo (`JitterKeepsOrder`); and
  `EmaFollows`, `ConsistencyRange`, `HourlyPatternRange`. Then
  `SchedInv`: each state, stored or copied, has a likelihood in range and a deadline
  that is at most the longest interval from the last check (`Kept`), so whichever
  is stored last is harmless; `AgeInv` adds how far the cycle has come when the
  deadline passes. Theorems: `ScheduleTypeCorrect`, `LikelihoodStaysInRange`,
  `TargetsAreCheckedInTime`. The assumption that recency factors are in range is
  `RecencyRange`, those that the signals are scores `ConsistencyRange` and
  `HourlyPatternRange`; the range of `SessionPattern`, a sum over a list of sessions,
  would need an induction over that list and is evaluated for the run's sessions only.

Only model-checked: every liveness property (`StopReturns`, `DeathIsNoticed`,
`ExitIsRecorded`, `EnabledIsChecked`, `StaleRecordingIsForgotten`,
`ResultIsConsumed`, `IdleBoostsAreRemoved`,
`StopEndsWorkers`, `SendingEnds`, `StopEndsServer`), which is out of the prover's
reach. Every invariant, action property and refinement of a passing run is a theorem.

A convention of the models for the prover: several fields of one record in a
function are updated by `[f EXCEPT ![t] = [@ EXCEPT !.a = x, !.b = y]]`, never by
two paths `![t].a`, `![t].b` in one EXCEPT, which tlapm 1.4.5 encodes wrongly.

## Findings

1. `TargetedStop`: the map is kept "for targeted stop"
   (`recording_service.py:115`), but when the mapping of a session is not there (its
   start has not come to make it, or has raised; or the exit callback has removed it
   between the read and the pop of `stop_recording`), the fallback stops every other
   recording.
2. `NoDuplicateRecording`: the callback's check is called thread-safe
   (`monitoring_cycle.py:503`), but nothing keeps the cycle from starting a second
   recording of the same live transition. (The docstring of `_on_live_detected`
   also speaks of a lock on `_runtime_states`, which does not exist.)
3. `BaseAlwaysAlive`: a base worker is "always alive" (`worker_pool.py:9`), but
   both workers of a boosted band may obey one request to leave. It can be lost
   without any race as well: a second reassignment asks the band for another
   worker while the first has not left yet. `_add_worker` before
   `_remove_worker` also means that for a while two bands hold a boost and the
   pool has more than the four workers of `worker_pool.py:16-18`.

`SessionLifecycle` has one more divergence: `session.py:11` calls a closed session
"(terminal, read-only)" (`DocumentedSpec`), but a stop, a callback or a finalisation
that read the row before it was closed overwrites its outcome, which the code's
`ObservedSpec` allows.

## Not modelled

- Cookies: only the API thread writes them, one request after the other; what is
  left is a rename by the operating system, which a model would have to assume.
- Recording files: names to the second. The runner takes each output for its own.
- The contents of events. So the order in which a client is told of two states of a
  target is not modelled; the numbers are, and `EventChannel` leaves their order
  open because the code does.
- The order of the entries in a queue, and checks over the API against the
  semaphores, which they do not use.
- `mark_favorite` and `unmark_favorite` while a deadline runs.
- Resolvers, HTTP and JSON handling, configuration, logging, migrations: I/O or
  construction, whose results are free choices where the models use them.
- Queries, presenters, snapshots: reads for display.
- Stubs (`yt-dlp` and `streamlink` resolvers, metrics, the postprocess and
  shutdown orchestrators): nothing to model.
- Failures of SQLite, and the daemon threads cut off in the middle of a file
  system call.

## What could come next

1. How far the removal counters of the pool can go astray (`_workers_to_stop` below
   0, after which a request to leave is lost): TLC finds no value below -1 with two
   workers per band; a proof needs the workers that have tested the counter counted
   against the requests.
2. Events with their states: the callback's and the cycle's
   `stream.status_changed`, in the order a client sees them.
3. Composition: `MonitoringCycle` with the abstract recording service, so that a
   recording that is stopped by the fallback of finding 1 is followed into the
   runtime states; `WorkerPool` under it, so that its fairness assumption is
   derived where the pool keeps its base workers.
4. The favourite flag as a variable of `CheckSchedule`, with the deadline it had
   before as part of `Kept`.
