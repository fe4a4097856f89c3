-------------------------- MODULE RecordingService --------------------------
(***************************************************************************)
(* The recording service (app/application/services/recording_service.py)   *)
(* over the ffmpeg runner: sessions and artifacts in the database, the     *)
(* in-memory map from sessions to runner ids, the start and stop calls of  *)
(* the monitoring cycle, the workers and the API, the exit callback on the *)
(* watcher threads, and the finalisation at shutdown and at startup.       *)
(*                                                                         *)
(* start_recording asks the runner for one new recording id per session,   *)
(* so a session and its runner recording are one value here (Recordings)   *)
(* and the map _session_to_recording is the set of its keys.  Each read or *)
(* write of a repository is atomic (one connection per operation); a       *)
(* session that was read is a copy, and is written back later.             *)
(***************************************************************************)
EXTENDS FFmpegRunner, Naturals

CONSTANTS
  Main,       \* the main thread: startup and shutdown
  MaxBoots    \* bound: how often the core is started

ASSUME ServiceAssumption ==
  /\ Main \in Threads
  /\ MaxBoots \in Nat \ {0}

VARIABLES
  session,    \* status of each row of recording_sessions ("none": no row)
  artifact,   \* status of the RAW_TS row of each session
  mapped,     \* keys of _session_to_recording
  startpc,    \* where the start_recording call of each session is
  cb,         \* where the _on_runner_exit call of each session is
  pc,         \* where each thread is in stop_recording or stop_all
  arg,        \* the session a thread is stopping
  fin,        \* active sessions finalize_all_active_sessions has listed
  core,       \* the core process
  boots       \* how often it was started

serviceVars == <<session, artifact, mapped, startpc, cb, pc, arg, fin, core,
                 boots>>
vars == <<runnerVars, serviceVars>>
dbVars == <<session, artifact>>

Stoppers   == Threads \ {Main}
Outcomes   == {"completed", "failed", "aborted"}
StartSteps == {"no", "saved", "spawned", "registered", "mapped", "done",
               "raised", "lost"}
ExitSteps  == {"no", "get", "pop", "artifact", "close"}
StopSteps  == {"idle", "pop", "stopall", "runner", "artifacts", "close"}
MainSteps  == {"idle", "stopall", "runner", "clear", "list", "finalise", "exit"}

Init ==
  /\ RunnerInit
  /\ session = [s \in Recordings |-> "none"]
  /\ artifact = [s \in Recordings |-> "none"]
  /\ mapped = {}
  /\ startpc = [s \in Recordings |-> "no"]
  /\ cb = [s \in Recordings |-> "no"]
  /\ pc = [t \in Threads |-> "idle"]
  /\ arg = [t \in Threads |-> None]
  /\ fin = {}
  /\ core = "up"
  /\ boots = 1

\* The threads of the core that start and stop recordings are alive until the
\* very end of the shutdown: only the cycle is asked to stop before it, and
\* that join has a timeout.
Serving == core \in {"up", "stopping"}

---------------------------------------------------------------------------
(* start_recording, on a worker or the cycle thread *)

\* The session is saved as RECORDING before anything else happens.
BeginStart(s) ==
  /\ Serving
  /\ session[s] = "none"
  /\ session' = [session EXCEPT ![s] = "recording"]
  /\ startpc' = [startpc EXCEPT ![s] = "saved"]
  /\ UNCHANGED <<artifact, mapped, cb, pc, arg, fin, core, boots>>
  /\ UNCHANGED runnerVars

SpawnFFmpeg(s) ==
  /\ startpc[s] = "saved"
  /\ Spawn(s)
  /\ startpc' = [startpc EXCEPT ![s] = "spawned"]
  /\ UNCHANGED <<dbVars, mapped, cb, pc, arg, fin, core, boots>>

\* Allocating the path or Popen raises, and start_recording with it.
StartRaises(s) ==
  /\ startpc[s] = "saved"
  /\ startpc' = [startpc EXCEPT ![s] = "raised"]
  /\ UNCHANGED <<dbVars, mapped, cb, pc, arg, fin, core, boots>>
  /\ UNCHANGED runnerVars

RegisterFFmpeg(s) ==
  /\ startpc[s] = "spawned"
  /\ Register(s)
  /\ startpc' = [startpc EXCEPT ![s] = "registered"]
  /\ UNCHANGED <<dbVars, mapped, cb, pc, arg, fin, core, boots>>

MapSession(s) ==
  /\ startpc[s] = "registered"
  /\ mapped' = mapped \union {s}
  /\ startpc' = [startpc EXCEPT ![s] = "mapped"]
  /\ UNCHANGED <<dbVars, cb, pc, arg, fin, core, boots>>
  /\ UNCHANGED runnerVars

\* The RAW_TS row is saved as WRITING and the call returns the session id.
SaveRawTs(s) ==
  /\ startpc[s] = "mapped"
  /\ artifact' = [artifact EXCEPT ![s] = "writing"]
  /\ startpc' = [startpc EXCEPT ![s] = "done"]
  /\ UNCHANGED <<session, mapped, cb, pc, arg, fin, core, boots>>
  /\ UNCHANGED runnerVars

StartCall(s) ==
  \/ BeginStart(s)
  \/ SpawnFFmpeg(s)
  \/ StartRaises(s)
  \/ RegisterFFmpeg(s)
  \/ MapSession(s)
  \/ SaveRawTs(s)

---------------------------------------------------------------------------
(* stop_recording, on the cycle or the API thread *)

\* session_repo.get finds the session active; the thread keeps the copy.  The
\* session is active from the first step of its start_recording, and stays so
\* when that raises.  (One that is missing or closed makes the call return.)
BeginStop(t, s) ==
  /\ Serving
  /\ t \in Stoppers
  /\ pc[t] = "idle"
  /\ session[s] = "recording"
  /\ pc' = [pc EXCEPT ![t] = "pop"]
  /\ arg' = [arg EXCEPT ![t] = s]
  /\ UNCHANGED <<dbVars, mapped, startpc, cb, fin, core, boots>>
  /\ UNCHANGED runnerVars

\* The map has the session: runner.stop_recording of its recording.
PopMapping(t) ==
  /\ pc[t] = "pop"
  /\ arg[t] \in mapped
  /\ mapped' = mapped \ {arg[t]}
  /\ StopOne(t, arg[t])
  /\ pc' = [pc EXCEPT ![t] = "runner"]
  /\ UNCHANGED <<dbVars, startpc, cb, arg, fin, core, boots>>

\* The map does not have it (another call has popped it, or start_recording has
\* not come to map it, or never will): the fallback is runner.stop_all.
PopNothing(t) ==
  /\ pc[t] = "pop"
  /\ arg[t] \notin mapped
  /\ pc' = [pc EXCEPT ![t] = "stopall"]
  /\ UNCHANGED <<dbVars, mapped, startpc, cb, arg, fin, core, boots>>
  /\ UNCHANGED runnerVars

\* runner.stop_all, of the fallback or of the shutdown.
CallStopAll(t) ==
  /\ pc[t] = "stopall"
  /\ StopAll(t)
  /\ pc' = [pc EXCEPT ![t] = "runner"]
  /\ UNCHANGED <<dbVars, mapped, startpc, cb, arg, fin, core, boots>>

RunnerWorks(t) ==
  /\ pc[t] = "runner"
  /\ StopStep(t)
  /\ UNCHANGED serviceVars

RunnerReturns(t) ==
  /\ pc[t] = "runner"
  /\ Return(t)
  /\ pc' = [pc EXCEPT ![t] = IF t = Main THEN "clear" ELSE "artifacts"]
  /\ UNCHANGED <<dbVars, mapped, startpc, cb, arg, fin, core, boots>>

\* runner.stop_recording raises, and this stop_recording with it: the mapping is
\* gone, the session stays active and its artifact as it is.
RunnerRaises(t) ==
  /\ pc[t] = "runner"
  /\ QuitRaises(t)
  /\ pc' = [pc EXCEPT ![t] = "idle"]
  /\ arg' = [arg EXCEPT ![t] = None]
  /\ UNCHANGED <<dbVars, mapped, startpc, cb, fin, core, boots>>

\* The RAW_TS row, if there is one, is saved as READY whatever it was.  (Files
\* are not modelled, nor is the FINAL_MP4 row that is created if there is an .mp4
\* file: the service never reads it.)
SaveStopped(t) ==
  /\ pc[t] = "artifacts"
  /\ artifact' = [artifact EXCEPT ![arg[t]] = IF @ = "none" THEN "none" ELSE "ready"]
  /\ pc' = [pc EXCEPT ![t] = "close"]
  /\ UNCHANGED <<session, mapped, startpc, cb, arg, fin, core, boots>>
  /\ UNCHANGED runnerVars

\* Mutant: the copy is saved without complete() having been called on it.
CompleteSessionUnclosed(t) ==
  /\ pc[t] = "close"
  /\ session' = [session EXCEPT ![arg[t]] = "recording"]
  /\ pc' = [pc EXCEPT ![t] = "idle"]
  /\ arg' = [arg EXCEPT ![t] = None]
  /\ UNCHANGED <<artifact, mapped, startpc, cb, fin, core, boots>>
  /\ UNCHANGED runnerVars

\* Mutant: the thread does not forget the session it has stopped.
CompleteSessionKeepsArg(t) ==
  /\ pc[t] = "close"
  /\ session' = [session EXCEPT ![arg[t]] = "completed"]
  /\ pc' = [pc EXCEPT ![t] = "idle"]
  /\ UNCHANGED <<artifact, mapped, startpc, cb, arg, fin, core, boots>>
  /\ UNCHANGED runnerVars

\* complete() checks the thread's own copy, which is still active, and the
\* copy is saved over whatever the row says by now.
CompleteSession(t) ==
  /\ pc[t] = "close"
  /\ session' = [session EXCEPT ![arg[t]] = "completed"]
  /\ pc' = [pc EXCEPT ![t] = "idle"]
  /\ arg' = [arg EXCEPT ![t] = None]
  /\ UNCHANGED <<artifact, mapped, startpc, cb, fin, core, boots>>
  /\ UNCHANGED runnerVars

StopCall(t) ==
  \/ PopMapping(t)
  \/ PopNothing(t)
  \/ CallStopAll(t)
  \/ RunnerWorks(t)
  \/ RunnerReturns(t)
  \/ RunnerRaises(t)
  \/ SaveStopped(t)
  \/ CompleteSession(t)

---------------------------------------------------------------------------
(* _on_runner_exit, on the watcher thread of the recording *)

ExitBegins(s) ==
  /\ WatcherSeesExit(s)
  /\ cb' = [cb EXCEPT ![s] = "get"]
  /\ UNCHANGED <<dbVars, mapped, startpc, pc, arg, fin, core, boots>>

ExitTooLate(s) ==
  /\ cb[s] = "get"
  /\ session[s] # "recording"
  /\ WatcherReturns(s)
  /\ cb' = [cb EXCEPT ![s] = "no"]
  /\ UNCHANGED <<dbVars, mapped, startpc, pc, arg, fin, core, boots>>

ExitGet(s) ==
  /\ cb[s] = "get"
  /\ session[s] = "recording"
  /\ cb' = [cb EXCEPT ![s] = "pop"]
  /\ UNCHANGED <<dbVars, mapped, startpc, pc, arg, fin, core, boots>>
  /\ UNCHANGED runnerVars

\* Mutant: a callback that finds no mapping takes the session for stopped.
ExitPopMappingOrGiveUp(s) ==
  /\ cb[s] = "pop"
  /\ mapped' = mapped \ {s}
  /\ IF s \in mapped
       THEN cb' = [cb EXCEPT ![s] = "artifact"] /\ UNCHANGED runnerVars
       ELSE cb' = [cb EXCEPT ![s] = "no"] /\ WatcherReturns(s)
  /\ UNCHANGED <<dbVars, startpc, pc, arg, fin, core, boots>>

ExitPopMapping(s) ==
  /\ cb[s] = "pop"
  /\ mapped' = mapped \ {s}
  /\ cb' = [cb EXCEPT ![s] = "artifact"]
  /\ UNCHANGED <<dbVars, startpc, pc, arg, fin, core, boots>>
  /\ UNCHANGED runnerVars

\* Mutant: the loop over the artifacts leaves the callback when it has saved one.
ExitSaveArtifactReturns(s) ==
  /\ cb[s] = "artifact"
  /\ IF artifact[s] = "writing"
       THEN /\ artifact' = [artifact EXCEPT ![s] = "ready"]
            /\ cb' = [cb EXCEPT ![s] = "no"]
            /\ WatcherReturns(s)
       ELSE /\ cb' = [cb EXCEPT ![s] = "close"]
            /\ UNCHANGED <<artifact, runnerVars>>
  /\ UNCHANGED <<session, mapped, startpc, pc, arg, fin, core, boots>>

\* A RAW_TS row that is WRITING becomes READY.
ExitSaveArtifact(s) ==
  /\ cb[s] = "artifact"
  /\ artifact' = [artifact EXCEPT ![s] = IF @ = "writing" THEN "ready" ELSE @]
  /\ cb' = [cb EXCEPT ![s] = "close"]
  /\ UNCHANGED <<session, mapped, startpc, pc, arg, fin, core, boots>>
  /\ UNCHANGED runnerVars

\* fail() on the watcher's own copy, saved over the row.
FailSession(s) ==
  /\ cb[s] = "close"
  /\ session' = [session EXCEPT ![s] = "failed"]
  /\ WatcherReturns(s)
  /\ cb' = [cb EXCEPT ![s] = "no"]
  /\ UNCHANGED <<artifact, mapped, startpc, pc, arg, fin, core, boots>>

WatcherStops(s) == WatcherCancelled(s) /\ UNCHANGED serviceVars

WatcherThread(s) ==
  \/ ExitBegins(s)
  \/ ExitTooLate(s)
  \/ ExitGet(s)
  \/ ExitPopMapping(s)
  \/ ExitSaveArtifact(s)
  \/ FailSession(s)
  \/ WatcherStops(s)

FFmpegProcess(s) == StreamEnds(s) /\ UNCHANGED serviceVars

---------------------------------------------------------------------------
(* stop_all at shutdown, finalisation, crash and restart, on the main thread *)

\* Mutant: the map is cleared before the runner has stopped everything.
BeginShutdownClearsFirst ==
  /\ core = "up"
  /\ core' = "stopping"
  /\ pc' = [pc EXCEPT ![Main] = "stopall"]
  /\ mapped' = {}
  /\ UNCHANGED <<dbVars, startpc, cb, arg, fin, boots>>
  /\ UNCHANGED runnerVars

BeginShutdown ==
  /\ core = "up"
  /\ core' = "stopping"
  /\ pc' = [pc EXCEPT ![Main] = "stopall"]
  /\ UNCHANGED <<dbVars, mapped, startpc, cb, arg, fin, boots>>
  /\ UNCHANGED runnerVars

\* Mutant: the runner's registry is cleared along with the map.
ClearMappingAndRegistry ==
  /\ pc[Main] = "clear"
  /\ mapped' = {}
  /\ pc' = [pc EXCEPT ![Main] = "list"]
  /\ recordings' = {}
  /\ UNCHANGED <<dbVars, startpc, cb, arg, fin, core, boots>>
  /\ UNCHANGED <<procVars, callVars>>

ClearMapping ==
  /\ pc[Main] = "clear"
  /\ mapped' = {}
  /\ pc' = [pc EXCEPT ![Main] = "list"]
  /\ UNCHANGED <<dbVars, startpc, cb, arg, fin, core, boots>>
  /\ UNCHANGED runnerVars

\* Mutant: only the sessions of this run's map are finalised.
ListActiveMapped ==
  /\ pc[Main] = "list"
  /\ fin' = {s \in mapped : session[s] = "recording"}
  /\ pc' = [pc EXCEPT ![Main] = "finalise"]
  /\ UNCHANGED <<dbVars, mapped, startpc, cb, arg, core, boots>>
  /\ UNCHANGED runnerVars

\* finalize_all_active_sessions: list_all reads every session at once.
ListActive ==
  /\ pc[Main] = "list"
  /\ fin' = {s \in Recordings : session[s] = "recording"}
  /\ pc' = [pc EXCEPT ![Main] = "finalise"]
  /\ UNCHANGED <<dbVars, mapped, startpc, cb, arg, core, boots>>
  /\ UNCHANGED runnerVars

\* One of the copies is aborted and saved.
AbortSession(s) ==
  /\ pc[Main] = "finalise"
  /\ s \in fin
  /\ session' = [session EXCEPT ![s] = "aborted"]
  /\ fin' = fin \ {s}
  /\ UNCHANGED <<artifact, mapped, startpc, cb, pc, arg, core, boots>>
  /\ UNCHANGED runnerVars

\* At startup the monitoring cycle and the API come up next; at shutdown the
\* rest of the core is stopped next.
Finalised ==
  /\ pc[Main] = "finalise"
  /\ fin = {}
  /\ core' = IF core = "booting" THEN "up" ELSE core
  /\ pc' = [pc EXCEPT ![Main] = IF core = "booting" THEN "idle" ELSE "exit"]
  /\ UNCHANGED <<dbVars, mapped, startpc, cb, arg, fin, boots>>
  /\ UNCHANGED runnerVars

MainThread ==
  \/ ClearMapping
  \/ ListActive
  \/ \E s \in Recordings : AbortSession(s)
  \/ Finalised

\* What is left when the process is gone: the database and the files.
MemoryLost ==
  /\ CoreDies
  /\ core' = "down"
  /\ mapped' = {}
  /\ startpc' = [s \in Recordings |->
                   IF startpc[s] = "no" THEN "no" ELSE "lost"]
  /\ cb' = [s \in Recordings |-> "no"]
  /\ pc' = [t \in Threads |-> "idle"]
  /\ arg' = [t \in Threads |-> None]
  /\ fin' = {}
  /\ UNCHANGED <<dbVars, boots>>

Exit == pc[Main] = "exit" /\ MemoryLost

Crash == core # "down" /\ pc[Main] # "exit" /\ MemoryLost

\* start_application finalises what an earlier run left behind before it
\* starts the cycle.
Startup ==
  /\ core = "down"
  /\ boots < MaxBoots
  /\ boots' = boots + 1
  /\ core' = "booting"
  /\ pc' = [pc EXCEPT ![Main] = "list"]
  /\ UNCHANGED <<dbVars, mapped, startpc, cb, arg, fin>>
  /\ UNCHANGED runnerVars

---------------------------------------------------------------------------

Next ==
  \/ \E s \in Recordings : StartCall(s) \/ WatcherThread(s) \/ FFmpegProcess(s)
  \/ \E t \in Threads, s \in Recordings : BeginStop(t, s)
  \/ \E t \in Threads : StopCall(t)
  \/ BeginShutdown
  \/ MainThread
  \/ Exit
  \/ Crash
  \/ Startup

Spec == Init /\ [][Next]_vars

\* As in the runner: a thread that is in a call goes on with it.
Fairness ==
  /\ \A t \in Threads : WF_vars(StopCall(t))
  /\ \A s \in Recordings : WF_vars(WatcherThread(s))
  /\ WF_vars(MainThread)

FairSpec == Spec /\ Fairness

---------------------------------------------------------------------------
(* Properties *)

\* The types of the service's variables.
TypeOK ==
  /\ session \in [Recordings -> {"none", "recording"} \union Outcomes]
  /\ artifact \in [Recordings -> {"none", "writing", "ready"}]
  /\ mapped \in SUBSET Recordings
  /\ startpc \in [Recordings -> StartSteps]
  /\ cb \in [Recordings -> ExitSteps]
  /\ pc \in [Threads -> StopSteps \union MainSteps]
  /\ arg \in [Threads -> Recordings \union {None}]
  /\ fin \in SUBSET Recordings
  /\ core \in {"down", "booting", "up", "stopping"}
  /\ boots \in 1 .. MaxBoots
  /\ \A t \in Stoppers :
       pc[t] \in StopSteps /\ (arg[t] # None <=> pc[t] # "idle")
  /\ pc[Main] \in MainSteps /\ arg[Main] = None

\* A session is FAILED only if its ffmpeg exited on its own: a recording that
\* is stopped on purpose is never reported as an unexpected ffmpeg exit, even
\* though stop and callback race (recording_service.py, _on_runner_exit).
FailedMeansDied ==
  \A s \in Recordings : session[s] = "failed" => proc[s] = "died"

\* An ffmpeg that died under an active session is not forgotten while the core
\* lives: its watcher has still to see it, or its callback is under way, or
\* somebody has taken the recording out of the watcher's hands to stop it.
DeathIsPending ==
  \A s \in Recordings :
    /\ proc[s] = "died"
    /\ session[s] = "recording"
    /\ startpc[s] # "lost"
    => watcher[s] = "polling" \/ cb[s] # "no" \/ watcherStop[s]

\* A running ffmpeg whose start_recording has mapped it can be found through the
\* map, or is in the hands of a call that is stopping it: stops of the same and
\* of other sessions, stops that raise, stops that came before the start had
\* mapped anything, and callbacks of other recordings never leave one that only
\* the fallback could reach.  At the end of a shutdown the map is cleared
\* whatever still runs, by a start that was slower than the shutdown.
RunningIsMapped ==
  \A s \in Recordings :
    proc[s] = "running" /\ startpc[s] \in {"mapped", "done"}
      => \/ s \in mapped
         \/ BeingStopped(s)
         \/ \E t \in Threads : s \in todo[t]
         \/ pc[Main] \in {"list", "finalise", "exit"}

\* Stop and callback save the artifact of a session as READY first and close the
\* session then: an active session whose artifact is READY has a call that is
\* about to close it, however many stops, callbacks and late starts work on the
\* same rows.  Only the end of the core between the two writes leaves such a
\* pair behind, for the next startup.
ReadyIsClosing ==
  \A s \in Recordings :
    artifact[s] = "ready" /\ session[s] = "recording"
      => \/ cb[s] = "close"
         \/ \E t \in Stoppers : pc[t] = "close" /\ arg[t] = s
         \/ startpc[s] = "lost"

\* "so no orphaned RECORDING sessions survive a restart"
\* (recording_service.py, stop_all): once a restarted core serves, no session
\* of an earlier run is active, wherever the earlier run, or the finalisation
\* of an intermediate one, was cut off.
NoOrphanAfterRestart ==
  Serving => \A s \in Recordings : startpc[s] = "lost" => session[s] # "recording"

\* The table of sessions goes through what SessionLifecycle allows: a closed
\* session is never active again.
Lifecycle == INSTANCE SessionLifecycle WITH Sessions <- Recordings
ImplementsLifecycle == Lifecycle!ObservedSpec

\* The service drives the runner only as the runner allows.
ImplementsRunner == RunnerSpec

\* An ffmpeg exit that the watcher has seen always ends with the session
\* closed, or with the core gone.
ExitIsRecorded ==
  \A s \in Recordings :
    cb[s] # "no" ~> session[s] \in Outcomes \/ core = "down"

---------------------------------------------------------------------------
(* The inductive invariant behind the safety properties *)

\* How far a start_recording has come, and what the runner has of it.
StartMatchesRunner ==
  \A s \in Recordings :
    /\ session[s] = "none" <=> startpc[s] = "no"
    /\ startpc[s] \in {"no", "saved", "raised"} => proc[s] = "none"
    /\ s \in spawning => startpc[s] = "spawned"
    /\ s \in recordings => startpc[s] \in {"registered", "mapped", "done"}
    /\ startpc[s] = "done" => artifact[s] # "none"

\* A thread is inside the runner only while its call says so, the main thread
\* only inside its stop_all, and a callback runs only on a watcher that has
\* called it.
CallsMatchRunner ==
  /\ \A t \in Threads : step[t] # "idle" => pc[t] = "runner"
  /\ pc[Main] = "runner" => Main \in sweeps
  /\ \A s \in Recordings : cb[s] # "no" => watcher[s] = "callback"

\* A mapping goes when a call takes the recording to stop it, when its ffmpeg has
\* died, or at the end of a shutdown.
MappingsMatchRegistry ==
  \A s \in recordings :
    startpc[s] \in {"mapped", "done"} /\ s \notin mapped
      => \/ proc[s] = "died"
         \/ \E t \in Threads : s \in todo[t]
         \/ pc[Main] \in {"list", "finalise", "exit"}

\* What the main thread does in each phase of the core's life.
MainMatchesCore ==
  /\ core = "up" => pc[Main] = "idle"
  /\ core = "down" => \A t \in Threads : pc[t] = "idle"
  /\ core = "booting" => pc[Main] \in {"list", "finalise"}
  /\ ~Serving => \A s \in Recordings : startpc[s] \in {"no", "lost"}

\* The finalisation of a startup still has every active session before it.
StartupFinalises ==
  /\ core = "booting" /\ pc[Main] = "finalise"
       => \A s \in Recordings : session[s] = "recording" => s \in fin
  /\ NoOrphanAfterRestart

\* A session that a thread holds a copy of has a row.
HeldSessionsExist ==
  /\ \A t \in Threads : arg[t] # None => session[arg[t]] # "none"
  /\ \A s \in fin : session[s] # "none"

\* A watcher reports as long as its callback runs, and when it has ended
\* untold, the session is closed.
ReportsAreHeard ==
  \A s \in Recordings :
    /\ watcher[s] = "callback" => cb[s] # "no"
    /\ watcher[s] = "done" /\ ~watcherStop[s] /\ startpc[s] # "lost"
         => session[s] \in Outcomes

\* The artifact of a session is first saved by the last step of its start.
ArtifactsAreSaved ==
  \A s \in Recordings : artifact[s] # "none" => startpc[s] \in {"done", "lost"}

ServiceInv ==
  /\ TypeOK
  /\ StartMatchesRunner
  /\ HeldSessionsExist
  /\ CallsMatchRunner
  /\ FailedMeansDied
  /\ MainMatchesCore
  /\ StartupFinalises

---------------------------------------------------------------------------
(* A statement of the repository that the code does not keep *)

\* recording_service.py: the map is kept "for targeted stop": a stop_recording
\* call stops the ffmpeg of its own session and no other.
TargetedStop == \A t \in Stoppers : cur[t] # None => cur[t] = arg[t]

=============================================================================
