---------------------------- MODULE FFmpegRunner ----------------------------
(***************************************************************************)
(* The ffmpeg runner (app/infrastructure/ffmpeg/process_runner.py): it     *)
(* spawns one ffmpeg process per recording, keeps the live ones in a       *)
(* registry under a lock, gives each a watcher thread that reports an      *)
(* unexpected exit, and stops recordings on behalf of any calling thread,  *)
(* remuxing .ts to .mp4 once ffmpeg is gone.                               *)
(*                                                                         *)
(* One atomic step of this module is one use of the lock, one use of the   *)
(* process handle, or one join; everything between two of them touches     *)
(* only local state of the calling thread.                                 *)
(***************************************************************************)
CONSTANTS
  Recordings,   \* the recording ids start_recording can hand out
  Threads,      \* the threads that may call stop_recording or stop_all
  None          \* no recording

ASSUME NoneAssumption == None \notin Recordings

VARIABLES
  recordings,   \* keys of the registry _recordings
  spawning,     \* ids whose start_recording is between Popen and registration
  proc,         \* what became of the ffmpeg process of each id
  watcher,      \* where the watcher thread of each id is
  watcherStop,  \* the _watcher_stop event of each id
  step,         \* where each calling thread is inside stop_recording/stop_all
  sweeps,       \* the threads inside stop_all, which catches what a stop raises
  todo,         \* the ids the call of a thread has still to stop
  cur           \* the id whose info the thread has popped from the registry

runnerVars == <<recordings, spawning, proc, watcher, watcherStop,
                step, sweeps, todo, cur>>
procVars   == <<spawning, proc, watcher, watcherStop>>
callVars   == <<step, sweeps, todo, cur>>

ProcStates    == {"none", "running", "died", "stopped", "orphan"}
WatcherStates == {"none", "polling", "callback", "done"}
Steps         == {"idle", "loop", "join", "quit", "transmux"}

RunnerInit ==
  /\ recordings = {}
  /\ spawning = {}
  /\ proc = [r \in Recordings |-> "none"]
  /\ watcher = [r \in Recordings |-> "none"]
  /\ watcherStop = [r \in Recordings |-> FALSE]
  /\ step = [t \in Threads |-> "idle"]
  /\ sweeps = {}
  /\ todo = [t \in Threads |-> {}]
  /\ cur = [t \in Threads |-> None]

---------------------------------------------------------------------------
(* start_recording *)

\* Popen succeeds; the reader and the watcher threads are started before the
\* recording is registered.  (When Popen raises, nothing changes here.)
Spawn(r) ==
  /\ proc[r] = "none"
  /\ proc' = [proc EXCEPT ![r] = "running"]
  /\ watcher' = [watcher EXCEPT ![r] = "polling"]
  /\ spawning' = spawning \union {r}
  /\ UNCHANGED <<recordings, watcherStop>>
  /\ UNCHANGED callVars

\* Mutant: the info never reaches the registry.
RegisterForgets(r) ==
  /\ r \in spawning
  /\ spawning' = spawning \ {r}
  /\ UNCHANGED <<recordings, proc, watcher, watcherStop>>
  /\ UNCHANGED callVars

\* The info is inserted in the registry and start_recording returns.
Register(r) ==
  /\ r \in spawning
  /\ spawning' = spawning \ {r}
  /\ recordings' = recordings \union {r}
  /\ UNCHANGED <<proc, watcher, watcherStop>>
  /\ UNCHANGED callVars

---------------------------------------------------------------------------
(* The ffmpeg process *)

\* ffmpeg exits on its own: the stream ended, a crash, a kill from outside.
StreamEnds(r) ==
  /\ proc[r] = "running"
  /\ proc' = [proc EXCEPT ![r] = "died"]
  /\ UNCHANGED <<recordings, spawning, watcher, watcherStop>>
  /\ UNCHANGED callVars

---------------------------------------------------------------------------
(* The watcher thread *)

\* Mutant: an ffmpeg that ends by itself with code 0 is taken for running.
ExitStatesButClean == {"stopped"}

ExitStates == {"died", "stopped"}

\* _watch_process: the stop event is not set and poll() is not None, so
\* on_exit is called.  The two tests are adjacent and a stopper joins the
\* watcher before it touches the process, so they are one step.
WatcherSeesExit(r) ==
  /\ watcher[r] = "polling"
  /\ ~watcherStop[r]
  /\ proc[r] \in ExitStates
  /\ watcher' = [watcher EXCEPT ![r] = "callback"]
  /\ UNCHANGED <<recordings, spawning, proc, watcherStop>>
  /\ UNCHANGED callVars

\* The loop of _watch_process ends because the stop event is set.
WatcherCancelled(r) ==
  /\ watcher[r] = "polling"
  /\ watcherStop[r]
  /\ watcher' = [watcher EXCEPT ![r] = "done"]
  /\ UNCHANGED <<recordings, spawning, proc, watcherStop>>
  /\ UNCHANGED callVars

\* on_exit returns and the watcher breaks out of its loop.
WatcherReturns(r) ==
  /\ watcher[r] = "callback"
  /\ watcher' = [watcher EXCEPT ![r] = "done"]
  /\ UNCHANGED <<recordings, spawning, proc, watcherStop>>
  /\ UNCHANGED callVars

---------------------------------------------------------------------------
(* stop_recording and stop_all *)

StopOne(t, r) ==
  /\ step[t] = "idle"
  /\ step' = [step EXCEPT ![t] = "loop"]
  /\ todo' = [todo EXCEPT ![t] = {r}]
  /\ UNCHANGED <<recordings, sweeps, cur>>
  /\ UNCHANGED procVars

\* stop_all takes a snapshot of the registry's keys under the lock.
StopAll(t) ==
  /\ step[t] = "idle"
  /\ step' = [step EXCEPT ![t] = "loop"]
  /\ sweeps' = sweeps \union {t}
  /\ todo' = [todo EXCEPT ![t] = recordings]
  /\ UNCHANGED <<recordings, cur>>
  /\ UNCHANGED procVars

\* Mutant: get instead of pop, so that two threads may get the same info.
PopGets(t, r) ==
  /\ step[t] = "loop"
  /\ r \in todo[t]
  /\ r \in recordings
  /\ todo' = [todo EXCEPT ![t] = @ \ {r}]
  /\ cur' = [cur EXCEPT ![t] = r]
  /\ watcherStop' = [watcherStop EXCEPT ![r] = TRUE]
  /\ step' = [step EXCEPT ![t] = "join"]
  /\ UNCHANGED <<recordings, spawning, proc, watcher, sweeps>>

\* Mutant: the watcher is joined without having been told to stop.
PopSilently(t, r) ==
  /\ step[t] = "loop"
  /\ r \in todo[t]
  /\ r \in recordings
  /\ recordings' = recordings \ {r}
  /\ todo' = [todo EXCEPT ![t] = @ \ {r}]
  /\ cur' = [cur EXCEPT ![t] = r]
  /\ step' = [step EXCEPT ![t] = "join"]
  /\ UNCHANGED <<spawning, proc, watcher, watcherStop, sweeps>>

\* _pop_info of an id that is registered; then stop_watcher sets the event.
Pop(t, r) ==
  /\ step[t] = "loop"
  /\ r \in todo[t]
  /\ r \in recordings
  /\ recordings' = recordings \ {r}
  /\ todo' = [todo EXCEPT ![t] = @ \ {r}]
  /\ cur' = [cur EXCEPT ![t] = r]
  /\ watcherStop' = [watcherStop EXCEPT ![r] = TRUE]
  /\ step' = [step EXCEPT ![t] = "join"]
  /\ UNCHANGED <<spawning, proc, watcher, sweeps>>

\* Mutant: an id that is not registered is tried again.
PopMissingRetries(t, r) ==
  /\ step[t] = "loop"
  /\ r \in todo[t]
  /\ r \notin recordings
  /\ UNCHANGED <<recordings, callVars>>
  /\ UNCHANGED procVars

\* _pop_info of an id that is not registered: stop_recording is a no-op.
PopMissing(t, r) ==
  /\ step[t] = "loop"
  /\ r \in todo[t]
  /\ r \notin recordings
  /\ todo' = [todo EXCEPT ![t] = @ \ {r}]
  /\ UNCHANGED <<recordings, step, sweeps, cur>>
  /\ UNCHANGED procVars

\* Mutant: the event is set, but the watcher is not joined.
JoinNobody(t) ==
  /\ step[t] = "join"
  /\ step' = [step EXCEPT ![t] = "quit"]
  /\ UNCHANGED <<recordings, sweeps, todo, cur>>
  /\ UNCHANGED procVars

\* stop_watcher joins the watcher, or gives up after 3 s.  A watcher whose
\* event is set wakes at once and leaves its loop well within that time; what
\* can outlast the join is a watcher inside on_exit, which writes to the
\* database (or one that was never told).
JoinWatcher(t) ==
  /\ step[t] = "join"
  /\ watcherStop[cur[t]] => watcher[cur[t]] # "polling"
  /\ step' = [step EXCEPT ![t] = "quit"]
  /\ UNCHANGED <<recordings, sweeps, todo, cur>>
  /\ UNCHANGED procVars

\* stop_ffmpeg_gracefully: ffmpeg is told to quit, and killed if it does not in
\* time; when the function returns it is not running, one way or the other.
StopGracefully(state) == IF state = "running" THEN "stopped" ELSE state

\* _stop_one, the first half: from here on ffmpeg is not running.  What becomes
\* of the outputs is not modelled, so that there may be a .ts file or not.
QuitsFFmpeg(t) ==
  /\ step[t] = "quit"
  /\ proc' = [proc EXCEPT ![cur[t]] = StopGracefully(@)]
  /\ UNCHANGED <<recordings, spawning, watcher, watcherStop, sweeps, todo>>

\* There is a .ts file, and the remux starts.
Quit(t) ==
  /\ QuitsFFmpeg(t)
  /\ step' = [step EXCEPT ![t] = "transmux"]
  /\ UNCHANGED cur

\* Nothing is remuxed: there is no .ts file; or there is one, but no ffmpeg on
\* the PATH any more, and stop_all catches the exception.
QuitUnremuxed(t) ==
  /\ QuitsFFmpeg(t)
  /\ step' = [step EXCEPT ![t] = "loop"]
  /\ cur' = [cur EXCEPT ![t] = None]

\* Without an ffmpeg on the PATH transmux_to_mp4 raises FileNotFoundError, which
\* neither _stop_one nor stop_recording catches: the call ends with it.
QuitRaises(t) ==
  /\ t \notin sweeps
  /\ QuitsFFmpeg(t)
  /\ step' = [step EXCEPT ![t] = "idle"]
  /\ cur' = [cur EXCEPT ![t] = None]

\* The remux has succeeded, failed or run into its timeout, which makes no
\* difference to the thread.
Transmux(t) ==
  /\ step[t] = "transmux"
  /\ step' = [step EXCEPT ![t] = "loop"]
  /\ cur' = [cur EXCEPT ![t] = None]
  /\ UNCHANGED <<recordings, spawning, proc, watcher, watcherStop, sweeps, todo>>

\* Every id of the call has been dealt with and the call returns.
Return(t) ==
  /\ step[t] = "loop"
  /\ todo[t] = {}
  /\ step' = [step EXCEPT ![t] = "idle"]
  /\ sweeps' = sweeps \ {t}
  /\ UNCHANGED <<recordings, todo, cur>>
  /\ UNCHANGED procVars

StopStep(t) ==
  \/ \E r \in Recordings : Pop(t, r) \/ PopMissing(t, r)
  \/ JoinWatcher(t)
  \/ Quit(t)
  \/ QuitUnremuxed(t)
  \/ Transmux(t)

---------------------------------------------------------------------------
(* The core process ends (a crash, or sys.exit): its threads die with it,  *)
(* while an ffmpeg that is still running is left without a parent.         *)

CoreDies ==
  /\ recordings' = {}
  /\ spawning' = {}
  /\ proc' = [r \in Recordings |->
                IF proc[r] = "running" THEN "orphan" ELSE proc[r]]
  /\ watcher' = [r \in Recordings |->
                   IF watcher[r] = "none" THEN "none" ELSE "done"]
  /\ step' = [t \in Threads |-> "idle"]
  /\ sweeps' = {}
  /\ todo' = [t \in Threads |-> {}]
  /\ cur' = [t \in Threads |-> None]
  /\ UNCHANGED watcherStop

---------------------------------------------------------------------------

WatcherStep(r) == WatcherSeesExit(r) \/ WatcherCancelled(r) \/ WatcherReturns(r)
StartStep(r) == Spawn(r) \/ Register(r)
CallStep(t) ==
  \/ \E r \in Recordings : StopOne(t, r)
  \/ StopAll(t)

\* A call ends, one way or the other.
EndStep(t) == Return(t) \/ QuitRaises(t)

RunnerNext ==
  \/ \E r \in Recordings : StartStep(r) \/ StreamEnds(r) \/ WatcherStep(r)
  \/ \E t \in Threads : CallStep(t) \/ StopStep(t) \/ EndStep(t)
  \/ CoreDies

RunnerSpec == RunnerInit /\ [][RunnerNext]_runnerVars

\* Threads that are running go on running: the scheduler of the interpreter
\* starves none, the remux and the wait for ffmpeg have timeouts, and a
\* watcher polls every 2 s.  Callers and ffmpeg owe nothing.
RunnerFairness ==
  /\ \A t \in Threads : WF_runnerVars(StopStep(t) \/ EndStep(t))
  /\ \A r \in Recordings : WF_runnerVars(WatcherStep(r))

RunnerFairSpec == RunnerSpec /\ RunnerFairness

---------------------------------------------------------------------------
(* Properties *)

\* The types of the variables, and the shape of a call: a thread has a popped
\* info exactly while it is stopping that recording.
RunnerTypeOK ==
  /\ recordings \in SUBSET Recordings
  /\ spawning \in SUBSET Recordings
  /\ proc \in [Recordings -> ProcStates]
  /\ watcher \in [Recordings -> WatcherStates]
  /\ watcherStop \in [Recordings -> BOOLEAN]
  /\ step \in [Threads -> Steps]
  /\ sweeps \in SUBSET Threads
  /\ todo \in [Threads -> SUBSET Recordings]
  /\ cur \in [Threads -> Recordings \union {None}]
  /\ \A t \in Threads : cur[t] # None <=> step[t] \in {"join", "quit", "transmux"}

\* r is in the hands of a thread that has popped it from the registry.
BeingStopped(r) == \E t \in Threads : cur[t] = r

\* However many threads ask for it (the cycle, the API and the shutdown may
\* all do), one recording is stopped and remuxed by at most one of them: the
\* pop under the lock is what decides (_pop_info).
ExclusiveStop ==
  \A t \in Threads : cur[t] # None =>
    /\ cur[t] \notin recordings
    /\ \A u \in Threads : cur[u] = cur[t] => u = t

\* No ffmpeg is ever lost: while the core is alive, a running process is
\* being registered, is registered, or is held by the thread stopping it.
NoProcessLeak ==
  \A r \in Recordings :
    proc[r] = "running" => r \in spawning \union recordings \/ BeingStopped(r)

\* start_watcher: the watcher reports an exit only if the process "was not
\* deliberately stopped", although the stopper and the watcher share only an
\* event and a join.
CallbackOnlyOnDeath ==
  \A r \in Recordings : watcher[r] = "callback" => proc[r] = "died"

\* A recording nobody is stopping is watched as long as ffmpeg runs, so that
\* its end cannot go unnoticed.
RunningIsWatched ==
  \A r \in Recordings :
    proc[r] = "running" /\ ~BeingStopped(r)
      => watcher[r] = "polling" /\ ~watcherStop[r]

\* From the moment a stopper touches ffmpeg, the watcher of that
\* recording is past its two tests (of the event, then of poll()) for good: it
\* can no longer read the exit of a stopped ffmpeg as a death.
JoinedIsSilent ==
  \A t \in Threads :
    step[t] \in {"quit", "transmux"} => watcher[cur[t]] # "polling"

\* The runner keeps its promise to the service: each death is reported at most
\* once, and a recording is stopped on purpose only when nothing about it can
\* be reported any more.
ReportOf(state) ==
  CASE state = "polling"  -> "due"
    [] state = "callback" -> "delivering"
    [] state = "done"     -> "over"
    [] OTHER              -> "none"
Contract == INSTANCE RecordingContract
  WITH life <- proc, report <- [r \in Recordings |-> ReportOf(watcher[r])]
ImplementsContract == Contract!ContractSpec

\* stop_recording and stop_all always return: no stopper waits for a watcher
\* that waits for the stopper.
StopReturns == \A t \in Threads : step[t] # "idle" ~> step[t] = "idle"

\* An ffmpeg that dies on its own is noticed: the watcher reports it, unless
\* somebody stops the recording at the same time.
DeathIsNoticed ==
  \A r \in Recordings :
    proc[r] = "died" /\ watcher[r] = "polling"
      ~> watcher[r] = "callback" \/ watcherStop[r] \/ watcher[r] = "done"

---------------------------------------------------------------------------
(* The inductive invariant behind the safety properties *)

\* An id that was never spawned is nowhere.
UnusedIsNowhere ==
  \A r \in Recordings : proc[r] = "none" =>
    /\ r \notin spawning \union recordings
    /\ watcher[r] = "none"
    /\ ~watcherStop[r]
    /\ ~BeingStopped(r)

\* Between Popen and registration nobody can have stopped the recording.
SpawningIsFresh ==
  \A r \in spawning :
    /\ r \notin recordings
    /\ ~BeingStopped(r)
    /\ proc[r] \in {"running", "died"}
    /\ ~watcherStop[r]

\* A registered recording was not told to stop.
RegisteredIsUntouched ==
  \A r \in recordings : proc[r] \in {"running", "died"} /\ ~watcherStop[r]

\* A stopper has set the event before it touches the process, and the process
\* has ended before the remux.
StopIsOrdered ==
  \A t \in Threads : cur[t] # None =>
    /\ watcherStop[cur[t]]
    /\ step[t] = "transmux" => proc[cur[t]] # "running"

\* An ffmpeg the runner has stopped has had its watcher told so.
StoppedWasAnnounced ==
  \A r \in Recordings : proc[r] = "stopped" => watcherStop[r]

\* A call of stop_recording has one id to stop, or has popped it; a thread
\* outside a call has none.
CallsAreShaped ==
  \A t \in Threads :
    /\ step[t] = "idle" => todo[t] = {} /\ t \notin sweeps
    /\ t \notin sweeps =>
         /\ cur[t] # None => todo[t] = {}
         /\ \A r \in todo[t] : todo[t] = {r}

\* A recording that was spawned got its watcher, and a stopper that has joined
\* it will not see it poll again.
WatchersAreJoined ==
  /\ \A r \in Recordings : proc[r] # "none" => watcher[r] # "none"
  /\ JoinedIsSilent

RunnerInv ==
  /\ RunnerTypeOK
  /\ ExclusiveStop
  /\ NoProcessLeak
  /\ CallbackOnlyOnDeath
  /\ RunningIsWatched
  /\ UnusedIsNowhere
  /\ SpawningIsFresh
  /\ RegisteredIsUntouched
  /\ StopIsOrdered
  /\ StoppedWasAnnounced

=============================================================================
