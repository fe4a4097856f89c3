------------------------ MODULE FFmpegRunner_proofs ------------------------
(***************************************************************************)
(* The safety properties of the ffmpeg runner, for any number of           *)
(* recordings and of calling threads.                                      *)
(*                                                                         *)
(* The argument: an id moves from nowhere, through spawning, into the      *)
(* registry and then into the hands of one thread; the event of its        *)
(* watcher is set exactly when it enters those hands, and ffmpeg is        *)
(* touched only after that.  RunnerInv says so; each lemma below shows     *)
(* that one action keeps it, conjunct by conjunct.                         *)
(***************************************************************************)
EXTENDS FFmpegRunner, TLAPS

\* RunnerInv is kept when start_recording: Popen and the two threads.
LEMMA SpawnKeeps ==
  ASSUME RunnerInv, NEW r \in Recordings, Spawn(r)
  PROVE  RunnerInv'
<1> USE DEF RunnerInv, Spawn, callVars
<1>1. RunnerTypeOK'
  BY DEF RunnerTypeOK, ProcStates, WatcherStates
<1>2. ExclusiveStop'
  BY DEF ExclusiveStop, RunnerTypeOK
<1>3. NoProcessLeak'
  BY DEF NoProcessLeak, RunnerTypeOK, BeingStopped
<1>4. CallbackOnlyOnDeath'
  BY DEF CallbackOnlyOnDeath, RunnerTypeOK, UnusedIsNowhere, BeingStopped
<1>5. RunningIsWatched'
  BY DEF RunningIsWatched, RunnerTypeOK, BeingStopped, UnusedIsNowhere
<1>6. UnusedIsNowhere'
  BY DEF UnusedIsNowhere, RunnerTypeOK, BeingStopped
<1>7. SpawningIsFresh'
  BY DEF SpawningIsFresh, RunnerTypeOK, BeingStopped, UnusedIsNowhere
<1>8. RegisteredIsUntouched'
  BY DEF RegisteredIsUntouched, RunnerTypeOK
<1>9. StopIsOrdered'
  BY DEF StopIsOrdered, RunnerTypeOK, UnusedIsNowhere, BeingStopped
<1>10. StoppedWasAnnounced'
  BY DEF StoppedWasAnnounced, RunnerTypeOK
<1>. QED BY <1>1, <1>2, <1>3, <1>4, <1>5, <1>6, <1>7, <1>8, <1>9, <1>10

\* RunnerInv is kept when start_recording: the insertion under the lock.
LEMMA RegisterKeeps ==
  ASSUME RunnerInv, NEW r \in Recordings, Register(r)
  PROVE  RunnerInv'
<1> USE DEF RunnerInv, Register, callVars
<1>1. RunnerTypeOK'
  BY DEF RunnerTypeOK
<1>2. ExclusiveStop'
  BY DEF ExclusiveStop, RunnerTypeOK, SpawningIsFresh, BeingStopped
<1>3. NoProcessLeak'
  BY DEF NoProcessLeak, RunnerTypeOK, BeingStopped
<1>4. CallbackOnlyOnDeath'
  BY DEF CallbackOnlyOnDeath, RunnerTypeOK
<1>5. RunningIsWatched'
  BY DEF RunningIsWatched, RunnerTypeOK, BeingStopped
<1>6. UnusedIsNowhere'
  BY DEF UnusedIsNowhere, RunnerTypeOK, BeingStopped, SpawningIsFresh
<1>7. SpawningIsFresh'
  BY DEF SpawningIsFresh, RunnerTypeOK, BeingStopped
<1>8. RegisteredIsUntouched'
  BY DEF RegisteredIsUntouched, RunnerTypeOK, SpawningIsFresh, BeingStopped
<1>9. StopIsOrdered'
  BY DEF StopIsOrdered, RunnerTypeOK
<1>10. StoppedWasAnnounced'
  BY DEF StoppedWasAnnounced, RunnerTypeOK
<1>. QED BY <1>1, <1>2, <1>3, <1>4, <1>5, <1>6, <1>7, <1>8, <1>9, <1>10

\* RunnerInv is kept when ffmpeg exits on its own.
LEMMA StreamEndsKeeps ==
  ASSUME RunnerInv, NEW r \in Recordings, StreamEnds(r)
  PROVE  RunnerInv'
<1> USE DEF RunnerInv, StreamEnds, callVars
<1>1. RunnerTypeOK'
  BY DEF RunnerTypeOK, ProcStates
<1>2. ExclusiveStop'
  BY DEF ExclusiveStop, RunnerTypeOK
<1>3. NoProcessLeak'
  BY DEF NoProcessLeak, RunnerTypeOK, BeingStopped
<1>4. CallbackOnlyOnDeath'
  BY DEF CallbackOnlyOnDeath, RunnerTypeOK
<1>5. RunningIsWatched'
  BY DEF RunningIsWatched, RunnerTypeOK, BeingStopped
<1>6. UnusedIsNowhere'
  BY DEF UnusedIsNowhere, RunnerTypeOK, BeingStopped
<1>7. SpawningIsFresh'
  BY DEF SpawningIsFresh, RunnerTypeOK, BeingStopped
<1>8. RegisteredIsUntouched'
  BY DEF RegisteredIsUntouched, RunnerTypeOK
<1>9. StopIsOrdered'
  BY DEF StopIsOrdered, RunnerTypeOK
<1>10. StoppedWasAnnounced'
  BY DEF StoppedWasAnnounced, RunnerTypeOK
<1>. QED BY <1>1, <1>2, <1>3, <1>4, <1>5, <1>6, <1>7, <1>8, <1>9, <1>10

\* RunnerInv is kept when the watcher calls on_exit.
LEMMA WatcherSeesExitKeeps ==
  ASSUME RunnerInv, NEW r \in Recordings, WatcherSeesExit(r)
  PROVE  RunnerInv'
<1> USE DEF RunnerInv, WatcherSeesExit, callVars, ExitStates
<1>1. RunnerTypeOK'
  BY DEF RunnerTypeOK, WatcherStates
<1>2. ExclusiveStop'
  BY DEF ExclusiveStop, RunnerTypeOK
<1>3. NoProcessLeak'
  BY DEF NoProcessLeak, RunnerTypeOK, BeingStopped
<1>4. CallbackOnlyOnDeath'
  BY DEF CallbackOnlyOnDeath, RunnerTypeOK, StoppedWasAnnounced
<1>5. RunningIsWatched'
  BY DEF RunningIsWatched, RunnerTypeOK, BeingStopped
<1>6. UnusedIsNowhere'
  BY DEF UnusedIsNowhere, RunnerTypeOK, BeingStopped
<1>7. SpawningIsFresh'
  BY DEF SpawningIsFresh, RunnerTypeOK, BeingStopped
<1>8. RegisteredIsUntouched'
  BY DEF RegisteredIsUntouched, RunnerTypeOK
<1>9. StopIsOrdered'
  BY DEF StopIsOrdered, RunnerTypeOK
<1>10. StoppedWasAnnounced'
  BY DEF StoppedWasAnnounced, RunnerTypeOK
<1>. QED BY <1>1, <1>2, <1>3, <1>4, <1>5, <1>6, <1>7, <1>8, <1>9, <1>10

\* RunnerInv is kept when the watcher sees the stop event.
LEMMA WatcherCancelledKeeps ==
  ASSUME RunnerInv, NEW r \in Recordings, WatcherCancelled(r)
  PROVE  RunnerInv'
<1> USE DEF RunnerInv, WatcherCancelled, callVars
<1>1. RunnerTypeOK'
  BY DEF RunnerTypeOK, WatcherStates
<1>2. ExclusiveStop'
  BY DEF ExclusiveStop, RunnerTypeOK
<1>3. NoProcessLeak'
  BY DEF NoProcessLeak, RunnerTypeOK, BeingStopped
<1>4. CallbackOnlyOnDeath'
  BY DEF CallbackOnlyOnDeath, RunnerTypeOK
<1>5. RunningIsWatched'
  BY DEF RunningIsWatched, RunnerTypeOK, BeingStopped
<1>6. UnusedIsNowhere'
  BY DEF UnusedIsNowhere, RunnerTypeOK, BeingStopped
<1>7. SpawningIsFresh'
  BY DEF SpawningIsFresh, RunnerTypeOK, BeingStopped
<1>8. RegisteredIsUntouched'
  BY DEF RegisteredIsUntouched, RunnerTypeOK
<1>9. StopIsOrdered'
  BY DEF StopIsOrdered, RunnerTypeOK
<1>10. StoppedWasAnnounced'
  BY DEF StoppedWasAnnounced, RunnerTypeOK
<1>. QED BY <1>1, <1>2, <1>3, <1>4, <1>5, <1>6, <1>7, <1>8, <1>9, <1>10

\* RunnerInv is kept when on_exit returns.
LEMMA WatcherReturnsKeeps ==
  ASSUME RunnerInv, NEW r \in Recordings, WatcherReturns(r)
  PROVE  RunnerInv'
<1> USE DEF RunnerInv, WatcherReturns, callVars
<1>1. RunnerTypeOK'
  BY DEF RunnerTypeOK, WatcherStates
<1>2. ExclusiveStop'
  BY DEF ExclusiveStop, RunnerTypeOK
<1>3. NoProcessLeak'
  BY DEF NoProcessLeak, RunnerTypeOK, BeingStopped
<1>4. CallbackOnlyOnDeath'
  BY DEF CallbackOnlyOnDeath, RunnerTypeOK
<1>5. RunningIsWatched'
  BY DEF RunningIsWatched, RunnerTypeOK, BeingStopped
<1>6. UnusedIsNowhere'
  BY DEF UnusedIsNowhere, RunnerTypeOK, BeingStopped
<1>7. SpawningIsFresh'
  BY DEF SpawningIsFresh, RunnerTypeOK, BeingStopped
<1>8. RegisteredIsUntouched'
  BY DEF RegisteredIsUntouched, RunnerTypeOK
<1>9. StopIsOrdered'
  BY DEF StopIsOrdered, RunnerTypeOK
<1>10. StoppedWasAnnounced'
  BY DEF StoppedWasAnnounced, RunnerTypeOK
<1>. QED BY <1>1, <1>2, <1>3, <1>4, <1>5, <1>6, <1>7, <1>8, <1>9, <1>10

\* RunnerInv is kept when stop_recording is called.
LEMMA StopOneKeeps ==
  ASSUME RunnerInv, NEW t \in Threads, NEW r \in Recordings, StopOne(t, r)
  PROVE  RunnerInv'
<1> USE DEF RunnerInv, StopOne, procVars
<1>1. RunnerTypeOK'
  BY DEF RunnerTypeOK, Steps
<1>2. ExclusiveStop'
  BY DEF ExclusiveStop, RunnerTypeOK
<1>3. NoProcessLeak'
  BY DEF NoProcessLeak, RunnerTypeOK, BeingStopped
<1>4. CallbackOnlyOnDeath'
  BY DEF CallbackOnlyOnDeath, RunnerTypeOK
<1>5. RunningIsWatched'
  BY DEF RunningIsWatched, RunnerTypeOK, BeingStopped
<1>6. UnusedIsNowhere'
  BY DEF UnusedIsNowhere, RunnerTypeOK, BeingStopped
<1>7. SpawningIsFresh'
  BY DEF SpawningIsFresh, RunnerTypeOK, BeingStopped
<1>8. RegisteredIsUntouched'
  BY DEF RegisteredIsUntouched, RunnerTypeOK
<1>9. StopIsOrdered'
  BY DEF StopIsOrdered, RunnerTypeOK
<1>10. StoppedWasAnnounced'
  BY DEF StoppedWasAnnounced, RunnerTypeOK
<1>. QED BY <1>1, <1>2, <1>3, <1>4, <1>5, <1>6, <1>7, <1>8, <1>9, <1>10

\* RunnerInv is kept when stop_all is called.
LEMMA StopAllKeeps ==
  ASSUME RunnerInv, NEW t \in Threads, StopAll(t)
  PROVE  RunnerInv'
<1> USE DEF RunnerInv, StopAll, procVars
<1>1. RunnerTypeOK'
  BY DEF RunnerTypeOK, Steps
<1>2. ExclusiveStop'
  BY DEF ExclusiveStop, RunnerTypeOK
<1>3. NoProcessLeak'
  BY DEF NoProcessLeak, RunnerTypeOK, BeingStopped
<1>4. CallbackOnlyOnDeath'
  BY DEF CallbackOnlyOnDeath, RunnerTypeOK
<1>5. RunningIsWatched'
  BY DEF RunningIsWatched, RunnerTypeOK, BeingStopped
<1>6. UnusedIsNowhere'
  BY DEF UnusedIsNowhere, RunnerTypeOK, BeingStopped
<1>7. SpawningIsFresh'
  BY DEF SpawningIsFresh, RunnerTypeOK, BeingStopped
<1>8. RegisteredIsUntouched'
  BY DEF RegisteredIsUntouched, RunnerTypeOK
<1>9. StopIsOrdered'
  BY DEF StopIsOrdered, RunnerTypeOK
<1>10. StoppedWasAnnounced'
  BY DEF StoppedWasAnnounced, RunnerTypeOK
<1>. QED BY <1>1, <1>2, <1>3, <1>4, <1>5, <1>6, <1>7, <1>8, <1>9, <1>10

\* RunnerInv is kept when _pop_info finds the recording.
LEMMA PopKeeps ==
  ASSUME RunnerInv, NEW t \in Threads, NEW r \in Recordings, Pop(t, r)
  PROVE  RunnerInv'
<1> USE DEF RunnerInv, Pop
<1>1. RunnerTypeOK'
  BY NoneAssumption DEF RunnerTypeOK, Steps
<1>2. ExclusiveStop'
  BY NoneAssumption DEF ExclusiveStop, RunnerTypeOK
<1>3. NoProcessLeak'
  BY NoneAssumption DEF NoProcessLeak, RunnerTypeOK, BeingStopped
<1>4. CallbackOnlyOnDeath'
  BY NoneAssumption DEF CallbackOnlyOnDeath, RunnerTypeOK
<1>5. RunningIsWatched'
  BY NoneAssumption DEF RunningIsWatched, RunnerTypeOK, BeingStopped
<1>6. UnusedIsNowhere'
  BY NoneAssumption DEF UnusedIsNowhere, RunnerTypeOK, BeingStopped, RegisteredIsUntouched
<1>7. SpawningIsFresh'
  BY NoneAssumption DEF SpawningIsFresh, RunnerTypeOK, BeingStopped
<1>8. RegisteredIsUntouched'
  BY NoneAssumption DEF RegisteredIsUntouched, RunnerTypeOK
<1>9. StopIsOrdered'
  BY NoneAssumption DEF StopIsOrdered, RunnerTypeOK, ExclusiveStop
<1>10. StoppedWasAnnounced'
  BY NoneAssumption DEF StoppedWasAnnounced, RunnerTypeOK
<1>. QED BY <1>1, <1>2, <1>3, <1>4, <1>5, <1>6, <1>7, <1>8, <1>9, <1>10

\* RunnerInv is kept when _pop_info finds nothing.
LEMMA PopMissingKeeps ==
  ASSUME RunnerInv, NEW t \in Threads, NEW r \in Recordings, PopMissing(t, r)
  PROVE  RunnerInv'
<1> USE DEF RunnerInv, PopMissing, procVars
<1>1. RunnerTypeOK'
  BY DEF RunnerTypeOK
<1>2. ExclusiveStop'
  BY DEF ExclusiveStop, RunnerTypeOK
<1>3. NoProcessLeak'
  BY DEF NoProcessLeak, RunnerTypeOK, BeingStopped
<1>4. CallbackOnlyOnDeath'
  BY DEF CallbackOnlyOnDeath, RunnerTypeOK
<1>5. RunningIsWatched'
  BY DEF RunningIsWatched, RunnerTypeOK, BeingStopped
<1>6. UnusedIsNowhere'
  BY DEF UnusedIsNowhere, RunnerTypeOK, BeingStopped
<1>7. SpawningIsFresh'
  BY DEF SpawningIsFresh, RunnerTypeOK, BeingStopped
<1>8. RegisteredIsUntouched'
  BY DEF RegisteredIsUntouched, RunnerTypeOK
<1>9. StopIsOrdered'
  BY DEF StopIsOrdered, RunnerTypeOK
<1>10. StoppedWasAnnounced'
  BY DEF StoppedWasAnnounced, RunnerTypeOK
<1>. QED BY <1>1, <1>2, <1>3, <1>4, <1>5, <1>6, <1>7, <1>8, <1>9, <1>10

\* RunnerInv is kept when stop_watcher returns.
LEMMA JoinWatcherKeeps ==
  ASSUME RunnerInv, NEW t \in Threads, JoinWatcher(t)
  PROVE  RunnerInv'
<1> USE DEF RunnerInv, JoinWatcher, procVars
<1>1. RunnerTypeOK'
  BY NoneAssumption DEF RunnerTypeOK, Steps
<1>2. ExclusiveStop'
  BY DEF ExclusiveStop, RunnerTypeOK
<1>3. NoProcessLeak'
  BY DEF NoProcessLeak, RunnerTypeOK, BeingStopped
<1>4. CallbackOnlyOnDeath'
  BY DEF CallbackOnlyOnDeath, RunnerTypeOK
<1>5. RunningIsWatched'
  BY DEF RunningIsWatched, RunnerTypeOK, BeingStopped
<1>6. UnusedIsNowhere'
  BY DEF UnusedIsNowhere, RunnerTypeOK, BeingStopped
<1>7. SpawningIsFresh'
  BY DEF SpawningIsFresh, RunnerTypeOK, BeingStopped
<1>8. RegisteredIsUntouched'
  BY DEF RegisteredIsUntouched, RunnerTypeOK
<1>9. StopIsOrdered'
  BY DEF StopIsOrdered, RunnerTypeOK
<1>10. StoppedWasAnnounced'
  BY DEF StoppedWasAnnounced, RunnerTypeOK
<1>. QED BY <1>1, <1>2, <1>3, <1>4, <1>5, <1>6, <1>7, <1>8, <1>9, <1>10

\* RunnerInv is kept when ffmpeg is stopped and there is something to remux.
LEMMA QuitKeeps ==
  ASSUME RunnerInv, NEW t \in Threads, Quit(t)
  PROVE  RunnerInv'
<1> USE DEF RunnerInv, Quit, QuitsFFmpeg, StopGracefully
<1>1. RunnerTypeOK'
  BY NoneAssumption DEF RunnerTypeOK, Steps, ProcStates
<1>2. ExclusiveStop'
  BY DEF ExclusiveStop, RunnerTypeOK
<1>3. NoProcessLeak'
  BY DEF NoProcessLeak, RunnerTypeOK, BeingStopped
<1>4. CallbackOnlyOnDeath'
  BY DEF CallbackOnlyOnDeath, RunnerTypeOK
<1>5. RunningIsWatched'
  BY DEF RunningIsWatched, RunnerTypeOK, BeingStopped
<1>6. UnusedIsNowhere'
  BY DEF UnusedIsNowhere, RunnerTypeOK, BeingStopped
<1>7. SpawningIsFresh'
  BY DEF SpawningIsFresh, RunnerTypeOK, BeingStopped
<1>8. RegisteredIsUntouched'
  BY DEF RegisteredIsUntouched, RunnerTypeOK, ExclusiveStop
<1>9. StopIsOrdered'
  BY DEF StopIsOrdered, RunnerTypeOK, ExclusiveStop
<1>10. StoppedWasAnnounced'
  BY DEF StoppedWasAnnounced, RunnerTypeOK, StopIsOrdered
<1>. QED BY <1>1, <1>2, <1>3, <1>4, <1>5, <1>6, <1>7, <1>8, <1>9, <1>10

\* RunnerInv is kept when ffmpeg is stopped and nothing is remuxed.
LEMMA QuitLeavesKeeps ==
  ASSUME RunnerInv, NEW t \in Threads, QuitUnremuxed(t) \/ QuitRaises(t)
  PROVE  RunnerInv'
<1> USE DEF RunnerInv, StopGracefully
<1>1. /\ step[t] = "quit"
      /\ proc' = [proc EXCEPT ![cur[t]] = StopGracefully(@)]
      /\ cur' = [cur EXCEPT ![t] = None]
      /\ \E x \in {"loop", "idle"} : step' = [step EXCEPT ![t] = x]
      /\ UNCHANGED <<recordings, spawning, watcher, watcherStop, sweeps, todo>>
  BY DEF QuitUnremuxed, QuitRaises, QuitsFFmpeg
<1>2. RunnerTypeOK'
  BY <1>1, NoneAssumption DEF RunnerTypeOK, Steps, ProcStates
<1>3. ExclusiveStop'
  BY <1>1, NoneAssumption DEF ExclusiveStop, RunnerTypeOK
<1>4. NoProcessLeak'
  BY <1>1, NoneAssumption DEF NoProcessLeak, RunnerTypeOK, BeingStopped
<1>5. CallbackOnlyOnDeath'
  BY <1>1 DEF CallbackOnlyOnDeath, RunnerTypeOK
<1>6. RunningIsWatched'
  BY <1>1, NoneAssumption DEF RunningIsWatched, RunnerTypeOK, BeingStopped
<1>7. UnusedIsNowhere'
  BY <1>1, NoneAssumption DEF UnusedIsNowhere, RunnerTypeOK, BeingStopped
<1>8. SpawningIsFresh'
  BY <1>1, NoneAssumption DEF SpawningIsFresh, RunnerTypeOK, BeingStopped
<1>9. RegisteredIsUntouched'
  BY <1>1, NoneAssumption DEF RegisteredIsUntouched, RunnerTypeOK, ExclusiveStop
<1>10. StopIsOrdered'
  BY <1>1, NoneAssumption DEF StopIsOrdered, RunnerTypeOK, ExclusiveStop
<1>11. StoppedWasAnnounced'
  BY <1>1, NoneAssumption DEF StoppedWasAnnounced, RunnerTypeOK, StopIsOrdered
<1>. QED BY <1>2, <1>3, <1>4, <1>5, <1>6, <1>7, <1>8, <1>9, <1>10, <1>11

\* RunnerInv is kept when the remux ends.
LEMMA TransmuxKeeps ==
  ASSUME RunnerInv, NEW t \in Threads, Transmux(t)
  PROVE  RunnerInv'
<1> USE DEF RunnerInv, Transmux
<1>1. RunnerTypeOK'
  BY NoneAssumption DEF RunnerTypeOK, Steps
<1>2. ExclusiveStop'
  BY NoneAssumption DEF ExclusiveStop, RunnerTypeOK
<1>3. NoProcessLeak'
  BY NoneAssumption DEF NoProcessLeak, RunnerTypeOK, BeingStopped, StopIsOrdered
<1>4. CallbackOnlyOnDeath'
  BY NoneAssumption DEF CallbackOnlyOnDeath, RunnerTypeOK
<1>5. RunningIsWatched'
  BY NoneAssumption DEF RunningIsWatched, RunnerTypeOK, BeingStopped, StopIsOrdered
<1>6. UnusedIsNowhere'
  BY NoneAssumption DEF UnusedIsNowhere, RunnerTypeOK, BeingStopped
<1>7. SpawningIsFresh'
  BY NoneAssumption DEF SpawningIsFresh, RunnerTypeOK, BeingStopped
<1>8. RegisteredIsUntouched'
  BY NoneAssumption DEF RegisteredIsUntouched, RunnerTypeOK
<1>9. StopIsOrdered'
  BY NoneAssumption DEF StopIsOrdered, RunnerTypeOK
<1>10. StoppedWasAnnounced'
  BY NoneAssumption DEF StoppedWasAnnounced, RunnerTypeOK
<1>. QED BY <1>1, <1>2, <1>3, <1>4, <1>5, <1>6, <1>7, <1>8, <1>9, <1>10

\* RunnerInv is kept when the call returns.
LEMMA ReturnKeeps ==
  ASSUME RunnerInv, NEW t \in Threads, Return(t)
  PROVE  RunnerInv'
<1> USE DEF RunnerInv, Return, procVars
<1>1. RunnerTypeOK'
  BY DEF RunnerTypeOK, Steps
<1>2. ExclusiveStop'
  BY DEF ExclusiveStop, RunnerTypeOK
<1>3. NoProcessLeak'
  BY DEF NoProcessLeak, RunnerTypeOK, BeingStopped
<1>4. CallbackOnlyOnDeath'
  BY DEF CallbackOnlyOnDeath, RunnerTypeOK
<1>5. RunningIsWatched'
  BY DEF RunningIsWatched, RunnerTypeOK, BeingStopped
<1>6. UnusedIsNowhere'
  BY DEF UnusedIsNowhere, RunnerTypeOK, BeingStopped
<1>7. SpawningIsFresh'
  BY DEF SpawningIsFresh, RunnerTypeOK, BeingStopped
<1>8. RegisteredIsUntouched'
  BY DEF RegisteredIsUntouched, RunnerTypeOK
<1>9. StopIsOrdered'
  BY DEF StopIsOrdered, RunnerTypeOK
<1>10. StoppedWasAnnounced'
  BY DEF StoppedWasAnnounced, RunnerTypeOK
<1>. QED BY <1>1, <1>2, <1>3, <1>4, <1>5, <1>6, <1>7, <1>8, <1>9, <1>10

\* RunnerInv is kept when the process ends.
LEMMA CoreDiesKeeps ==
  ASSUME RunnerInv, CoreDies
  PROVE  RunnerInv'
<1> USE DEF RunnerInv, CoreDies
<1>1. RunnerTypeOK'
  BY NoneAssumption DEF RunnerTypeOK, Steps, ProcStates, WatcherStates
<1>2. ExclusiveStop'
  BY DEF ExclusiveStop, RunnerTypeOK
<1>3. NoProcessLeak'
  BY DEF NoProcessLeak, RunnerTypeOK, BeingStopped
<1>4. CallbackOnlyOnDeath'
  BY DEF CallbackOnlyOnDeath, RunnerTypeOK
<1>5. RunningIsWatched'
  BY DEF RunningIsWatched, RunnerTypeOK, BeingStopped
<1>6. UnusedIsNowhere'
  BY NoneAssumption DEF UnusedIsNowhere, RunnerTypeOK, BeingStopped
<1>7. SpawningIsFresh'
  BY DEF SpawningIsFresh, RunnerTypeOK, BeingStopped
<1>8. RegisteredIsUntouched'
  BY DEF RegisteredIsUntouched, RunnerTypeOK
<1>9. StopIsOrdered'
  BY DEF StopIsOrdered, RunnerTypeOK
<1>10. StoppedWasAnnounced'
  BY DEF StoppedWasAnnounced, RunnerTypeOK
<1>. QED BY <1>1, <1>2, <1>3, <1>4, <1>5, <1>6, <1>7, <1>8, <1>9, <1>10

\* The runner starts with nothing spawned.
LEMMA RunnerInitEstablishes == RunnerInit => RunnerInv
  BY NoneAssumption
     DEF RunnerInit, RunnerInv, RunnerTypeOK, ProcStates, WatcherStates, Steps,
         ExclusiveStop, NoProcessLeak, CallbackOnlyOnDeath, RunningIsWatched,
         UnusedIsNowhere, SpawningIsFresh, RegisteredIsUntouched,
         StopIsOrdered, StoppedWasAnnounced, BeingStopped

\* Every step of the runner, or of its clients elsewhere, keeps RunnerInv.
LEMMA RunnerStepKeeps == RunnerInv /\ [RunnerNext]_runnerVars => RunnerInv'
<1>1. ASSUME RunnerInv, UNCHANGED runnerVars PROVE RunnerInv'
  BY <1>1
     DEF runnerVars, RunnerInv, RunnerTypeOK, ProcStates, WatcherStates,
         Steps, ExclusiveStop, NoProcessLeak, CallbackOnlyOnDeath,
         RunningIsWatched, UnusedIsNowhere, SpawningIsFresh,
         RegisteredIsUntouched, StopIsOrdered, StoppedWasAnnounced,
         BeingStopped
<1>2. ASSUME RunnerInv, NEW r \in Recordings,
             StartStep(r) \/ StreamEnds(r) \/ WatcherStep(r)
      PROVE  RunnerInv'
  BY <1>2, SpawnKeeps, RegisterKeeps, StreamEndsKeeps,
     WatcherSeesExitKeeps, WatcherCancelledKeeps, WatcherReturnsKeeps
     DEF StartStep, WatcherStep
<1>3. ASSUME RunnerInv, NEW t \in Threads,
             CallStep(t) \/ StopStep(t) \/ EndStep(t)
      PROVE  RunnerInv'
  BY <1>3, StopOneKeeps, StopAllKeeps, PopKeeps, PopMissingKeeps,
     JoinWatcherKeeps, QuitKeeps, QuitLeavesKeeps, TransmuxKeeps, ReturnKeeps
     DEF CallStep, StopStep, EndStep
<1>. QED BY <1>1, <1>2, <1>3, CoreDiesKeeps DEF RunnerNext

\* The inductive invariant holds in every state of the runner.
THEOREM RunnerInvariant == RunnerSpec => []RunnerInv
<1>. QED BY RunnerInitEstablishes, RunnerStepKeeps, PTL DEF RunnerSpec

\* The variables keep their types, and a call its shape.
THEOREM RunnerTypeCorrect == RunnerSpec => []RunnerTypeOK
<1>1. RunnerInv => RunnerTypeOK BY DEF RunnerInv
<1>. QED BY <1>1, RunnerInvariant, PTL

\* process_runner.py, _pop_info: whoever else asks for it, a recording is
\* stopped and remuxed by one thread only.
THEOREM StopIsExclusive == RunnerSpec => []ExclusiveStop
<1>1. RunnerInv => ExclusiveStop BY DEF RunnerInv
<1>. QED BY <1>1, RunnerInvariant, PTL

\* process_runner.py, start_recording and stop_recording: no running ffmpeg
\* is ever forgotten by a live core.
THEOREM NoProcessIsLost == RunnerSpec => []NoProcessLeak
<1>1. RunnerInv => NoProcessLeak BY DEF RunnerInv
<1>. QED BY <1>1, RunnerInvariant, PTL

\* process_runner.py, _watch_process: on_exit is called only for an ffmpeg that
\* was not deliberately stopped.
THEOREM CallbackIsForDeath == RunnerSpec => []CallbackOnlyOnDeath
<1>1. RunnerInv => CallbackOnlyOnDeath BY DEF RunnerInv
<1>. QED BY <1>1, RunnerInvariant, PTL

\* process_runner.py, start_watcher: an ffmpeg nobody is stopping is watched.
THEOREM RunningRecordingIsWatched == RunnerSpec => []RunningIsWatched
<1>1. RunnerInv => RunningIsWatched BY DEF RunnerInv
<1>. QED BY <1>1, RunnerInvariant, PTL

\* Watchers start with ffmpeg, and joins are for good: every step keeps
\* WatchersAreJoined.
LEMMA WatchersStayJoined ==
  ASSUME RunnerInv, WatchersAreJoined, [RunnerNext]_runnerVars
  PROVE  WatchersAreJoined'
<1> USE DEF RunnerInv, RunnerTypeOK, WatchersAreJoined, JoinedIsSilent,
            procVars, callVars
<1>1. ASSUME UNCHANGED runnerVars PROVE WatchersAreJoined'
  BY <1>1 DEF runnerVars
<1>2. ASSUME NEW r \in Recordings,
             StartStep(r) \/ StreamEnds(r) \/ WatcherStep(r)
      PROVE  WatchersAreJoined'
  <2>1. CASE Spawn(r)
    \* Nobody is stopping an id that was not spawned yet.
    BY <2>1, NoneAssumption DEF Spawn, UnusedIsNowhere, BeingStopped
  <2>2. CASE Register(r)
    BY <2>2 DEF Register
  <2>3. CASE StreamEnds(r)
    BY <2>3 DEF StreamEnds
  <2>4. CASE WatcherSeesExit(r)
    BY <2>4 DEF WatcherSeesExit
  <2>5. CASE WatcherCancelled(r) \/ WatcherReturns(r)
    BY <2>5 DEF WatcherCancelled, WatcherReturns
  <2>. QED
    BY <1>2, <2>1, <2>2, <2>3, <2>4, <2>5 DEF StartStep, WatcherStep
<1>3. ASSUME NEW t \in Threads, CallStep(t) \/ StopStep(t) \/ EndStep(t)
      PROVE  WatchersAreJoined'
  <2>1. CASE \E r \in Recordings : StopOne(t, r)
    BY <2>1 DEF StopOne
  <2>2. CASE StopAll(t) \/ Return(t)
    BY <2>2 DEF StopAll, Return
  <2>3. ASSUME NEW r \in Recordings, Pop(t, r) \/ PopMissing(t, r)
        PROVE  WatchersAreJoined'
    BY <2>3 DEF Pop, PopMissing
  <2>4. CASE JoinWatcher(t)
    \* The event of the recording in hand is set, so the join waits for it.
    BY <2>4 DEF JoinWatcher, StopIsOrdered
  <2>5. CASE Quit(t)
    BY <2>5 DEF Quit, QuitsFFmpeg, StopGracefully
  <2>6. CASE QuitUnremuxed(t) \/ QuitRaises(t)
    BY <2>6 DEF QuitUnremuxed, QuitRaises, QuitsFFmpeg, StopGracefully
  <2>7. CASE Transmux(t)
    BY <2>7 DEF Transmux
  <2>. QED
    BY <1>3, <2>1, <2>2, <2>3, <2>4, <2>5, <2>6, <2>7 DEF CallStep, StopStep, EndStep
<1>4. CASE CoreDies
  BY <1>4 DEF CoreDies
<1>. QED BY <1>1, <1>2, <1>3, <1>4 DEF RunnerNext

\* A runner that has started nothing has joined nothing.
LEMMA WatchersStartJoined == RunnerInit => WatchersAreJoined
  BY DEF RunnerInit, WatchersAreJoined, JoinedIsSilent

\* process_runner.py, stop_watcher before _stop_one: whatever the order of the
\* steps of stoppers and watchers, a watcher has made its last test of ffmpeg
\* before anybody stops that ffmpeg.
THEOREM StopperHasSilencedWatcher == RunnerSpec => []JoinedIsSilent
<1>1. WatchersAreJoined => JoinedIsSilent BY DEF WatchersAreJoined
<1>2. RunnerInv /\ WatchersAreJoined /\ [RunnerNext]_runnerVars
        => WatchersAreJoined'
  BY WatchersStayJoined
<1>. QED BY <1>1, <1>2, WatchersStartJoined, RunnerInvariant, PTL DEF RunnerSpec

\* Calls keep their shape: every step keeps CallsAreShaped.
LEMMA CallsStayShaped ==
  ASSUME RunnerInv, CallsAreShaped, [RunnerNext]_runnerVars
  PROVE  CallsAreShaped'
<1> USE DEF RunnerInv, RunnerTypeOK, CallsAreShaped, procVars, callVars
<1>1. ASSUME UNCHANGED callVars PROVE CallsAreShaped'
  BY <1>1
<1>2. ASSUME NEW r \in Recordings,
             StartStep(r) \/ StreamEnds(r) \/ WatcherStep(r)
      PROVE  UNCHANGED callVars
  BY <1>2 DEF StartStep, Spawn, Register, StreamEnds, WatcherStep,
              WatcherSeesExit, WatcherCancelled, WatcherReturns
<1>3. ASSUME NEW t \in Threads, CallStep(t) \/ StopStep(t) \/ EndStep(t)
      PROVE  CallsAreShaped'
  <2>1. CASE (\E r \in Recordings : StopOne(t, r)) \/ StopAll(t)
    \* The thread was idle, so it has popped nothing.
    <3>. cur[t] = None
      BY <2>1 DEF StopOne, StopAll
    <3>. QED BY <2>1 DEF StopOne, StopAll
  <2>2. ASSUME NEW r \in Recordings, Pop(t, r) \/ PopMissing(t, r)
        PROVE  CallsAreShaped'
    BY <2>2, NoneAssumption DEF Pop, PopMissing
  <2>3. CASE JoinWatcher(t) \/ Transmux(t)
    BY <2>3 DEF JoinWatcher, Transmux
  <2>4. CASE Quit(t) \/ QuitUnremuxed(t)
    BY <2>4 DEF Quit, QuitUnremuxed, QuitsFFmpeg
  <2>5. CASE QuitRaises(t)
    \* Outside stop_all there is no id left once one was popped.
    <3>. cur[t] # None /\ todo[t] = {}
      BY <2>5 DEF QuitRaises, QuitsFFmpeg
    <3>. QED BY <2>5 DEF QuitRaises, QuitsFFmpeg
  <2>6. CASE Return(t)
    BY <2>6 DEF Return
  <2>. QED
    BY <1>3, <2>1, <2>2, <2>3, <2>4, <2>5, <2>6 DEF CallStep, StopStep, EndStep
<1>4. CASE CoreDies
  BY <1>4 DEF CoreDies
<1>. QED BY <1>1, <1>2, <1>3, <1>4 DEF RunnerNext, runnerVars

\* A runner that was asked for nothing has no call.
LEMMA CallsStartShaped == RunnerInit => CallsAreShaped
  BY NoneAssumption DEF RunnerInit, CallsAreShaped

\* What the service sees of one step of the runner is one step of the contract
\* or none.
LEMMA RunnerStepIsContractStep ==
  ASSUME RunnerInv, WatchersAreJoined, [RunnerNext]_runnerVars
  PROVE  [Contract!ContractNext]_(Contract!contractVars)
<1> USE DEF RunnerInv, RunnerTypeOK, WatcherStates, ReportOf, procVars, callVars
<1>1. ASSUME UNCHANGED <<proc, watcher>>
      PROVE  UNCHANGED Contract!contractVars
  BY <1>1 DEF Contract!contractVars
<1>2. ASSUME NEW r \in Recordings,
             StartStep(r) \/ StreamEnds(r) \/ WatcherStep(r)
      PROVE  Contract!ContractNext \/ UNCHANGED <<proc, watcher>>
  <2>1. CASE Spawn(r)
    <3>. Contract!Starts(r) BY <2>1 DEF Spawn, Contract!Starts
    <3>. QED BY DEF Contract!ContractNext
  <2>2. CASE Register(r)
    BY <2>2 DEF Register
  <2>3. CASE StreamEnds(r)
    <3>. Contract!Dies(r) BY <2>3 DEF StreamEnds, Contract!Dies
    <3>. QED BY DEF Contract!ContractNext
  <2>4. CASE WatcherSeesExit(r)
    \* Its event is not set, so it is not an ffmpeg somebody has stopped.
    <3>. proc[r] = "died"
      BY <2>4 DEF WatcherSeesExit, ExitStates, StoppedWasAnnounced
    <3>. Contract!Reported(r) BY <2>4 DEF WatcherSeesExit, Contract!Reported
    <3>. QED BY DEF Contract!ContractNext
  <2>5. CASE WatcherCancelled(r)
    <3>. Contract!Silenced(r) BY <2>5 DEF WatcherCancelled, Contract!Silenced
    <3>. QED BY DEF Contract!ContractNext
  <2>6. CASE WatcherReturns(r)
    <3>. Contract!Delivered(r) BY <2>6 DEF WatcherReturns, Contract!Delivered
    <3>. QED BY DEF Contract!ContractNext
  <2>. QED
    BY <1>2, <2>1, <2>2, <2>3, <2>4, <2>5, <2>6
       DEF StartStep, WatcherStep
<1>3. ASSUME NEW t \in Threads, CallStep(t) \/ StopStep(t) \/ EndStep(t)
      PROVE  Contract!ContractNext \/ UNCHANGED <<proc, watcher>>
  <2>1. CASE Quit(t) \/ QuitUnremuxed(t) \/ QuitRaises(t)
    <3> DEFINE r == cur[t]
    <3>. QuitsFFmpeg(t)
      BY <2>1 DEF Quit, QuitUnremuxed, QuitRaises
    <3>1. r \in Recordings /\ step[t] = "quit"
      BY NoneAssumption DEF QuitsFFmpeg
    <3>2. CASE proc[r] = "running"
      \* Joined, and not reporting a death that has not happened.
      <4>. watcher[r] = "done"
        BY <3>1, <3>2 DEF WatchersAreJoined, JoinedIsSilent, CallbackOnlyOnDeath
      <4>. Contract!Stopped(r)
        BY <3>1, <3>2 DEF QuitsFFmpeg, StopGracefully, Contract!Stopped
      <4>. QED BY <3>1 DEF Contract!ContractNext
    <3>3. CASE proc[r] # "running"
      BY <3>1, <3>3 DEF QuitsFFmpeg, StopGracefully
    <3>. QED BY <3>2, <3>3
  <2>2. CASE CallStep(t) \/ Return(t)
    BY <2>2 DEF CallStep, StopOne, StopAll, Return
  <2>3. ASSUME NEW r \in Recordings, Pop(t, r) \/ PopMissing(t, r)
        PROVE  UNCHANGED <<proc, watcher>>
    BY <2>3 DEF Pop, PopMissing
  <2>4. CASE JoinWatcher(t) \/ Transmux(t)
    BY <2>4 DEF JoinWatcher, Transmux
  <2>. QED BY <1>3, <2>1, <2>2, <2>3, <2>4 DEF StopStep, EndStep
<1>4. ASSUME CoreDies PROVE Contract!ContractNext
  <2>. Contract!CoreEnds BY <1>4 DEF CoreDies, Contract!CoreEnds
  <2>. QED BY DEF Contract!ContractNext
<1>5. CASE UNCHANGED runnerVars BY <1>1, <1>5 DEF runnerVars
<1>. QED BY <1>1, <1>2, <1>3, <1>4, <1>5 DEF RunnerNext

\* process_runner.py, start_watcher: the runner is what its clients take it
\* for.  A death is reported once at most, nothing else ever is, and ffmpeg is
\* stopped on purpose only when it can no longer be taken for dead.
THEOREM RunnerKeepsContract == RunnerSpec => ImplementsContract
<1>1. RunnerInit => Contract!ContractInit
  BY DEF RunnerInit, Contract!ContractInit, ReportOf
<1>2. RunnerInv /\ WatchersAreJoined /\ [RunnerNext]_runnerVars
        => WatchersAreJoined'
  BY WatchersStayJoined
<1>3. RunnerInv /\ WatchersAreJoined /\ [RunnerNext]_runnerVars
        => [Contract!ContractNext]_(Contract!contractVars)
  BY RunnerStepIsContractStep
<1>. QED
  BY <1>1, <1>2, <1>3, WatchersStartJoined, RunnerInvariant, PTL
     DEF RunnerSpec, ImplementsContract, Contract!ContractSpec
=============================================================================
