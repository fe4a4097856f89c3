---------------------- MODULE RecordingService_proofs ----------------------
(***************************************************************************)
(* The recording service, for any number of sessions and of threads: it    *)
(* implements the runner's and the session table's specifications, and it  *)
(* keeps the safety properties of RecordingService.                        *)
(*                                                                         *)
(* The argument: every step of the service is a step of the runner or      *)
(* leaves it alone, so RunnerInv holds throughout; ServiceInv relates the  *)
(* program counters of the calls to what the runner and the database have  *)
(* seen of them.  The lemmas below show that each action keeps ServiceInv. *)
(***************************************************************************)
EXTENDS RecordingService, FFmpegRunner_proofs

\* ServiceInv is kept when a session row is created.
LEMMA BeginStartKeeps ==
  ASSUME RunnerInv, ServiceInv, NEW s \in Recordings, BeginStart(s)
  PROVE  ServiceInv'
<1> USE DEF RunnerInv, ServiceInv, BeginStart, dbVars, runnerVars
<1>1. TypeOK'
  BY NoneAssumption, ServiceAssumption DEF TypeOK, Stoppers, Outcomes,
         StartSteps, ExitSteps, StopSteps, MainSteps
<1>2. StartMatchesRunner'
  BY DEF StartMatchesRunner, TypeOK, RunnerTypeOK
<1>3. HeldSessionsExist'
  BY DEF HeldSessionsExist, TypeOK
<1>4. CallsMatchRunner'
  BY DEF CallsMatchRunner, TypeOK, RunnerTypeOK
<1>5. FailedMeansDied'
  BY DEF FailedMeansDied, TypeOK, RunnerTypeOK
<1>6. MainMatchesCore'
  BY DEF MainMatchesCore, TypeOK, Serving
<1>7. StartupFinalises'
  BY DEF StartupFinalises, NoOrphanAfterRestart, TypeOK, Serving
<1>. QED BY <1>1, <1>2, <1>3, <1>4, <1>5, <1>6, <1>7

\* ServiceInv is kept when ffmpeg is spawned.
LEMMA SpawnFFmpegKeeps ==
  ASSUME RunnerInv, ServiceInv, NEW s \in Recordings, SpawnFFmpeg(s)
  PROVE  ServiceInv'
<1> USE DEF RunnerInv, ServiceInv, SpawnFFmpeg, Spawn, dbVars, procVars,
           callVars
<1>1. TypeOK'
  BY NoneAssumption, ServiceAssumption DEF TypeOK, Stoppers, Outcomes,
         StartSteps, ExitSteps, StopSteps, MainSteps
<1>2. StartMatchesRunner'
  BY DEF StartMatchesRunner, TypeOK, RunnerTypeOK
<1>3. HeldSessionsExist'
  BY DEF HeldSessionsExist, TypeOK
<1>4. CallsMatchRunner'
  BY DEF CallsMatchRunner, TypeOK, RunnerTypeOK, UnusedIsNowhere
<1>5. FailedMeansDied'
  BY DEF FailedMeansDied, TypeOK, RunnerTypeOK
<1>6. MainMatchesCore'
  BY DEF MainMatchesCore, TypeOK, Serving
<1>7. StartupFinalises'
  BY DEF StartupFinalises, NoOrphanAfterRestart, TypeOK, Serving
<1>. QED BY <1>1, <1>2, <1>3, <1>4, <1>5, <1>6, <1>7

\* ServiceInv is kept when start_recording raises.
LEMMA StartRaisesKeeps ==
  ASSUME RunnerInv, ServiceInv, NEW s \in Recordings, StartRaises(s)
  PROVE  ServiceInv'
<1> USE DEF RunnerInv, ServiceInv, StartRaises, dbVars, runnerVars
<1>1. TypeOK'
  BY NoneAssumption, ServiceAssumption DEF TypeOK, Stoppers, Outcomes,
         StartSteps, ExitSteps, StopSteps, MainSteps
<1>2. StartMatchesRunner'
  BY DEF StartMatchesRunner, TypeOK, RunnerTypeOK
<1>3. HeldSessionsExist'
  BY DEF HeldSessionsExist, TypeOK
<1>4. CallsMatchRunner'
  BY DEF CallsMatchRunner, TypeOK, RunnerTypeOK
<1>5. FailedMeansDied'
  BY DEF FailedMeansDied, TypeOK, RunnerTypeOK
<1>6. MainMatchesCore'
  BY DEF MainMatchesCore, TypeOK, Serving
<1>7. StartupFinalises'
  BY DEF StartupFinalises, NoOrphanAfterRestart, TypeOK, Serving
<1>. QED BY <1>1, <1>2, <1>3, <1>4, <1>5, <1>6, <1>7

\* ServiceInv is kept when the recording is registered.
LEMMA RegisterFFmpegKeeps ==
  ASSUME RunnerInv, ServiceInv, NEW s \in Recordings, RegisterFFmpeg(s)
  PROVE  ServiceInv'
<1> USE DEF RunnerInv, ServiceInv, RegisterFFmpeg, Register, dbVars,
           procVars, callVars
<1>1. TypeOK'
  BY NoneAssumption, ServiceAssumption DEF TypeOK, Stoppers, Outcomes,
         StartSteps, ExitSteps, StopSteps, MainSteps
<1>2. StartMatchesRunner'
  BY DEF StartMatchesRunner, TypeOK, RunnerTypeOK
<1>3. HeldSessionsExist'
  BY DEF HeldSessionsExist, TypeOK
<1>4. CallsMatchRunner'
  BY DEF CallsMatchRunner, TypeOK, RunnerTypeOK
<1>5. FailedMeansDied'
  BY DEF FailedMeansDied, TypeOK, RunnerTypeOK
<1>6. MainMatchesCore'
  BY DEF MainMatchesCore, TypeOK, Serving
<1>7. StartupFinalises'
  BY DEF StartupFinalises, NoOrphanAfterRestart, TypeOK, Serving
<1>. QED BY <1>1, <1>2, <1>3, <1>4, <1>5, <1>6, <1>7

\* ServiceInv is kept when the session is mapped.
LEMMA MapSessionKeeps ==
  ASSUME RunnerInv, ServiceInv, NEW s \in Recordings, MapSession(s)
  PROVE  ServiceInv'
<1> USE DEF RunnerInv, ServiceInv, MapSession, dbVars, runnerVars
<1>1. TypeOK'
  BY NoneAssumption, ServiceAssumption DEF TypeOK, Stoppers, Outcomes,
         StartSteps, ExitSteps, StopSteps, MainSteps
<1>2. StartMatchesRunner'
  BY DEF StartMatchesRunner, TypeOK, RunnerTypeOK
<1>3. HeldSessionsExist'
  BY DEF HeldSessionsExist, TypeOK
<1>4. CallsMatchRunner'
  BY DEF CallsMatchRunner, TypeOK, RunnerTypeOK
<1>5. FailedMeansDied'
  BY DEF FailedMeansDied, TypeOK, RunnerTypeOK
<1>6. MainMatchesCore'
  BY DEF MainMatchesCore, TypeOK, Serving
<1>7. StartupFinalises'
  BY DEF StartupFinalises, NoOrphanAfterRestart, TypeOK, Serving
<1>. QED BY <1>1, <1>2, <1>3, <1>4, <1>5, <1>6, <1>7

\* ServiceInv is kept when start_recording returns.
LEMMA SaveRawTsKeeps ==
  ASSUME RunnerInv, ServiceInv, NEW s \in Recordings, SaveRawTs(s)
  PROVE  ServiceInv'
<1> USE DEF RunnerInv, ServiceInv, SaveRawTs, dbVars, runnerVars
<1>1. TypeOK'
  BY NoneAssumption, ServiceAssumption DEF TypeOK, Stoppers, Outcomes,
         StartSteps, ExitSteps, StopSteps, MainSteps
<1>2. StartMatchesRunner'
  BY DEF StartMatchesRunner, TypeOK, RunnerTypeOK
<1>3. HeldSessionsExist'
  BY DEF HeldSessionsExist, TypeOK
<1>4. CallsMatchRunner'
  BY DEF CallsMatchRunner, TypeOK, RunnerTypeOK
<1>5. FailedMeansDied'
  BY DEF FailedMeansDied, TypeOK, RunnerTypeOK
<1>6. MainMatchesCore'
  BY DEF MainMatchesCore, TypeOK, Serving
<1>7. StartupFinalises'
  BY DEF StartupFinalises, NoOrphanAfterRestart, TypeOK, Serving
<1>. QED BY <1>1, <1>2, <1>3, <1>4, <1>5, <1>6, <1>7

\* ServiceInv is kept when stop_recording is called.
LEMMA BeginStopKeeps ==
  ASSUME RunnerInv, ServiceInv, NEW t \in Threads, NEW s \in Recordings, BeginStop(t, s)
  PROVE  ServiceInv'
<1> USE DEF RunnerInv, ServiceInv, BeginStop, dbVars, runnerVars
<1>1. TypeOK'
  BY NoneAssumption, ServiceAssumption DEF TypeOK, Stoppers, Outcomes,
         StartSteps, ExitSteps, StopSteps, MainSteps
<1>2. StartMatchesRunner'
  BY DEF StartMatchesRunner, TypeOK, RunnerTypeOK
<1>3. HeldSessionsExist'
  BY DEF HeldSessionsExist, TypeOK
<1>4. CallsMatchRunner'
  BY DEF CallsMatchRunner, TypeOK, RunnerTypeOK
<1>5. FailedMeansDied'
  BY DEF FailedMeansDied, TypeOK, RunnerTypeOK
<1>6. MainMatchesCore'
  BY ServiceAssumption DEF MainMatchesCore, TypeOK, Serving, Stoppers
<1>7. StartupFinalises'
  BY DEF StartupFinalises, NoOrphanAfterRestart, TypeOK, Serving
<1>. QED BY <1>1, <1>2, <1>3, <1>4, <1>5, <1>6, <1>7

\* ServiceInv is kept when the mapping is popped.
LEMMA PopMappingKeeps ==
  ASSUME RunnerInv, ServiceInv, NEW t \in Threads, PopMapping(t)
  PROVE  ServiceInv'
<1> USE DEF RunnerInv, ServiceInv, PopMapping, StopOne, dbVars, procVars,
           callVars
<1>1. TypeOK'
  BY NoneAssumption, ServiceAssumption DEF TypeOK, Stoppers, Outcomes,
         StartSteps, ExitSteps, StopSteps, MainSteps
<1>2. StartMatchesRunner'
  BY DEF StartMatchesRunner, TypeOK, RunnerTypeOK
<1>3. HeldSessionsExist'
  BY DEF HeldSessionsExist, TypeOK
<1>4. CallsMatchRunner'
  BY NoneAssumption, ServiceAssumption DEF CallsMatchRunner, TypeOK, RunnerTypeOK
<1>5. FailedMeansDied'
  BY DEF FailedMeansDied, TypeOK, RunnerTypeOK
<1>6. MainMatchesCore'
  BY DEF MainMatchesCore, TypeOK, Serving
<1>7. StartupFinalises'
  BY DEF StartupFinalises, NoOrphanAfterRestart, TypeOK, Serving
<1>. QED BY <1>1, <1>2, <1>3, <1>4, <1>5, <1>6, <1>7

\* ServiceInv is kept when there is no mapping to pop.
LEMMA PopNothingKeeps ==
  ASSUME RunnerInv, ServiceInv, NEW t \in Threads, PopNothing(t)
  PROVE  ServiceInv'
<1> USE DEF RunnerInv, ServiceInv, PopNothing, dbVars, runnerVars
<1>1. TypeOK'
  BY NoneAssumption, ServiceAssumption DEF TypeOK, Stoppers, Outcomes,
         StartSteps, ExitSteps, StopSteps, MainSteps
<1>2. StartMatchesRunner'
  BY DEF StartMatchesRunner, TypeOK, RunnerTypeOK
<1>3. HeldSessionsExist'
  BY DEF HeldSessionsExist, TypeOK
<1>4. CallsMatchRunner'
  BY DEF CallsMatchRunner, TypeOK, RunnerTypeOK
<1>5. FailedMeansDied'
  BY DEF FailedMeansDied, TypeOK, RunnerTypeOK
<1>6. MainMatchesCore'
  BY DEF MainMatchesCore, TypeOK, Serving
<1>7. StartupFinalises'
  BY DEF StartupFinalises, NoOrphanAfterRestart, TypeOK, Serving
<1>. QED BY <1>1, <1>2, <1>3, <1>4, <1>5, <1>6, <1>7

\* ServiceInv is kept when runner.stop_all is called.
LEMMA CallStopAllKeeps ==
  ASSUME RunnerInv, ServiceInv, NEW t \in Threads, CallStopAll(t)
  PROVE  ServiceInv'
<1> USE DEF RunnerInv, ServiceInv, CallStopAll, StopAll, dbVars, procVars,
           callVars
<1>1. TypeOK'
  BY NoneAssumption, ServiceAssumption DEF TypeOK, Stoppers, Outcomes,
         StartSteps, ExitSteps, StopSteps, MainSteps
<1>2. StartMatchesRunner'
  BY DEF StartMatchesRunner, TypeOK, RunnerTypeOK
<1>3. HeldSessionsExist'
  BY DEF HeldSessionsExist, TypeOK
<1>4. CallsMatchRunner'
  BY DEF CallsMatchRunner, TypeOK, RunnerTypeOK
<1>5. FailedMeansDied'
  BY DEF FailedMeansDied, TypeOK, RunnerTypeOK
<1>6. MainMatchesCore'
  BY DEF MainMatchesCore, TypeOK, Serving
<1>7. StartupFinalises'
  BY DEF StartupFinalises, NoOrphanAfterRestart, TypeOK, Serving
<1>. QED BY <1>1, <1>2, <1>3, <1>4, <1>5, <1>6, <1>7

\* ServiceInv is kept when the runner works for a thread.
LEMMA RunnerWorksKeeps ==
  ASSUME RunnerInv, ServiceInv, NEW t \in Threads, RunnerWorks(t)
  PROVE  ServiceInv'
<1> USE DEF RunnerInv, ServiceInv, RunnerWorks, StopStep, Pop, PopMissing,
           JoinWatcher, QuitsFFmpeg, Quit, QuitUnremuxed, Transmux,
           StopGracefully, dbVars, serviceVars, procVars
<1>1. TypeOK'
  BY NoneAssumption, ServiceAssumption DEF TypeOK, Stoppers, Outcomes,
         StartSteps, ExitSteps, StopSteps, MainSteps
<1>2. StartMatchesRunner'
  BY DEF StartMatchesRunner, TypeOK, RunnerTypeOK
<1>3. HeldSessionsExist'
  BY DEF HeldSessionsExist, TypeOK
<1>4. CallsMatchRunner'
  BY DEF CallsMatchRunner, TypeOK, RunnerTypeOK
<1>5. FailedMeansDied'
  BY DEF FailedMeansDied, TypeOK, RunnerTypeOK
<1>6. MainMatchesCore'
  BY DEF MainMatchesCore, TypeOK, Serving
<1>7. StartupFinalises'
  BY DEF StartupFinalises, NoOrphanAfterRestart, TypeOK, Serving
<1>. QED BY <1>1, <1>2, <1>3, <1>4, <1>5, <1>6, <1>7

\* ServiceInv is kept when the runner returns to a thread.
LEMMA RunnerReturnsKeeps ==
  ASSUME RunnerInv, ServiceInv, NEW t \in Threads, RunnerReturns(t)
  PROVE  ServiceInv'
<1> USE DEF RunnerInv, ServiceInv, RunnerReturns, Return, dbVars, procVars,
           callVars
<1>1. TypeOK'
  BY NoneAssumption, ServiceAssumption DEF TypeOK, Stoppers, Outcomes,
         StartSteps, ExitSteps, StopSteps, MainSteps
<1>2. StartMatchesRunner'
  BY DEF StartMatchesRunner, TypeOK, RunnerTypeOK
<1>3. HeldSessionsExist'
  BY DEF HeldSessionsExist, TypeOK
<1>4. CallsMatchRunner'
  BY DEF CallsMatchRunner, TypeOK, RunnerTypeOK
<1>5. FailedMeansDied'
  BY DEF FailedMeansDied, TypeOK, RunnerTypeOK
<1>6. MainMatchesCore'
  BY DEF MainMatchesCore, TypeOK, Serving
<1>7. StartupFinalises'
  BY DEF StartupFinalises, NoOrphanAfterRestart, TypeOK, Serving
<1>. QED BY <1>1, <1>2, <1>3, <1>4, <1>5, <1>6, <1>7

\* ServiceInv is kept when the runner raises.
LEMMA RunnerRaisesKeeps ==
  ASSUME RunnerInv, ServiceInv, NEW t \in Threads, RunnerRaises(t)
  PROVE  ServiceInv'
<1> USE DEF RunnerInv, ServiceInv, RunnerRaises, QuitRaises, QuitsFFmpeg,
           StopGracefully, dbVars
<1>1. TypeOK'
  \* What a stop_all of the main thread raises is caught.
  <2>. t \in Stoppers
    BY DEF CallsMatchRunner, Stoppers
  <2>. QED
    BY NoneAssumption, ServiceAssumption DEF TypeOK, Stoppers, Outcomes,
           StartSteps, ExitSteps, StopSteps, MainSteps
<1>2. StartMatchesRunner'
  BY DEF StartMatchesRunner, TypeOK, RunnerTypeOK
<1>3. HeldSessionsExist'
  BY NoneAssumption DEF HeldSessionsExist, TypeOK
<1>4. CallsMatchRunner'
  BY DEF CallsMatchRunner, TypeOK, RunnerTypeOK
<1>5. FailedMeansDied'
  BY DEF FailedMeansDied, TypeOK, RunnerTypeOK
<1>6. MainMatchesCore'
  BY DEF MainMatchesCore, TypeOK, Serving, CallsMatchRunner
<1>7. StartupFinalises'
  BY DEF StartupFinalises, NoOrphanAfterRestart, TypeOK, Serving, CallsMatchRunner
<1>. QED BY <1>1, <1>2, <1>3, <1>4, <1>5, <1>6, <1>7

\* ServiceInv is kept when the artifacts of a stop are saved.
LEMMA SaveStoppedKeeps ==
  ASSUME RunnerInv, ServiceInv, NEW t \in Threads, SaveStopped(t)
  PROVE  ServiceInv'
<1> USE DEF RunnerInv, ServiceInv, SaveStopped, dbVars, runnerVars
<1>1. TypeOK'
  BY NoneAssumption, ServiceAssumption DEF TypeOK, Stoppers, Outcomes,
         StartSteps, ExitSteps, StopSteps, MainSteps
<1>2. StartMatchesRunner'
  BY DEF StartMatchesRunner, TypeOK, RunnerTypeOK
<1>3. HeldSessionsExist'
  BY DEF HeldSessionsExist, TypeOK
<1>4. CallsMatchRunner'
  BY DEF CallsMatchRunner, TypeOK, RunnerTypeOK
<1>5. FailedMeansDied'
  BY DEF FailedMeansDied, TypeOK, RunnerTypeOK
<1>6. MainMatchesCore'
  BY DEF MainMatchesCore, TypeOK, Serving
<1>7. StartupFinalises'
  BY DEF StartupFinalises, NoOrphanAfterRestart, TypeOK, Serving
<1>. QED BY <1>1, <1>2, <1>3, <1>4, <1>5, <1>6, <1>7

\* ServiceInv is kept when a stop closes its session.
LEMMA CompleteSessionKeeps ==
  ASSUME RunnerInv, ServiceInv, NEW t \in Threads, CompleteSession(t)
  PROVE  ServiceInv'
<1> USE DEF RunnerInv, ServiceInv, CompleteSession, dbVars, runnerVars
<1>1. TypeOK'
  BY NoneAssumption, ServiceAssumption DEF TypeOK, Stoppers, Outcomes,
         StartSteps, ExitSteps, StopSteps, MainSteps
<1>2. StartMatchesRunner'
  BY DEF StartMatchesRunner, TypeOK, RunnerTypeOK, HeldSessionsExist,
         StopSteps, MainSteps, Stoppers
<1>3. HeldSessionsExist'
  BY DEF HeldSessionsExist, TypeOK
<1>4. CallsMatchRunner'
  BY DEF CallsMatchRunner, TypeOK, RunnerTypeOK
<1>5. FailedMeansDied'
  BY DEF FailedMeansDied, TypeOK, RunnerTypeOK
<1>6. MainMatchesCore'
  BY DEF MainMatchesCore, TypeOK, Serving
<1>7. StartupFinalises'
  BY DEF StartupFinalises, NoOrphanAfterRestart, TypeOK, Serving
<1>. QED BY <1>1, <1>2, <1>3, <1>4, <1>5, <1>6, <1>7

\* ServiceInv is kept when the watcher calls back.
LEMMA ExitBeginsKeeps ==
  ASSUME RunnerInv, ServiceInv, NEW s \in Recordings, ExitBegins(s)
  PROVE  ServiceInv'
<1> USE DEF RunnerInv, ServiceInv, ExitBegins, WatcherSeesExit, dbVars,
           procVars, callVars
<1>1. TypeOK'
  BY NoneAssumption, ServiceAssumption DEF TypeOK, Stoppers, Outcomes,
         StartSteps, ExitSteps, StopSteps, MainSteps
<1>2. StartMatchesRunner'
  BY DEF StartMatchesRunner, TypeOK, RunnerTypeOK
<1>3. HeldSessionsExist'
  BY DEF HeldSessionsExist, TypeOK
<1>4. CallsMatchRunner'
  BY DEF CallsMatchRunner, TypeOK, RunnerTypeOK
<1>5. FailedMeansDied'
  BY DEF FailedMeansDied, TypeOK, RunnerTypeOK
<1>6. MainMatchesCore'
  BY DEF MainMatchesCore, TypeOK, Serving
<1>7. StartupFinalises'
  BY DEF StartupFinalises, NoOrphanAfterRestart, TypeOK, Serving
<1>. QED BY <1>1, <1>2, <1>3, <1>4, <1>5, <1>6, <1>7

\* ServiceInv is kept when the callback finds a closed session.
LEMMA ExitTooLateKeeps ==
  ASSUME RunnerInv, ServiceInv, NEW s \in Recordings, ExitTooLate(s)
  PROVE  ServiceInv'
<1> USE DEF RunnerInv, ServiceInv, ExitTooLate, WatcherReturns, dbVars,
           procVars, callVars
<1>1. TypeOK'
  BY NoneAssumption, ServiceAssumption DEF TypeOK, Stoppers, Outcomes,
         StartSteps, ExitSteps, StopSteps, MainSteps
<1>2. StartMatchesRunner'
  BY DEF StartMatchesRunner, TypeOK, RunnerTypeOK
<1>3. HeldSessionsExist'
  BY DEF HeldSessionsExist, TypeOK
<1>4. CallsMatchRunner'
  BY DEF CallsMatchRunner, TypeOK, RunnerTypeOK
<1>5. FailedMeansDied'
  BY DEF FailedMeansDied, TypeOK, RunnerTypeOK
<1>6. MainMatchesCore'
  BY DEF MainMatchesCore, TypeOK, Serving
<1>7. StartupFinalises'
  BY DEF StartupFinalises, NoOrphanAfterRestart, TypeOK, Serving
<1>. QED BY <1>1, <1>2, <1>3, <1>4, <1>5, <1>6, <1>7

\* ServiceInv is kept when the callback finds an active session.
LEMMA ExitGetKeeps ==
  ASSUME RunnerInv, ServiceInv, NEW s \in Recordings, ExitGet(s)
  PROVE  ServiceInv'
<1> USE DEF RunnerInv, ServiceInv, ExitGet, dbVars, runnerVars
<1>1. TypeOK'
  BY NoneAssumption, ServiceAssumption DEF TypeOK, Stoppers, Outcomes,
         StartSteps, ExitSteps, StopSteps, MainSteps
<1>2. StartMatchesRunner'
  BY DEF StartMatchesRunner, TypeOK, RunnerTypeOK
<1>3. HeldSessionsExist'
  BY DEF HeldSessionsExist, TypeOK
<1>4. CallsMatchRunner'
  BY DEF CallsMatchRunner, TypeOK, RunnerTypeOK
<1>5. FailedMeansDied'
  BY DEF FailedMeansDied, TypeOK, RunnerTypeOK
<1>6. MainMatchesCore'
  BY DEF MainMatchesCore, TypeOK, Serving
<1>7. StartupFinalises'
  BY DEF StartupFinalises, NoOrphanAfterRestart, TypeOK, Serving
<1>. QED BY <1>1, <1>2, <1>3, <1>4, <1>5, <1>6, <1>7

\* ServiceInv is kept when the callback pops the mapping.
LEMMA ExitPopMappingKeeps ==
  ASSUME RunnerInv, ServiceInv, NEW s \in Recordings, ExitPopMapping(s)
  PROVE  ServiceInv'
<1> USE DEF RunnerInv, ServiceInv, ExitPopMapping, dbVars, runnerVars
<1>1. TypeOK'
  BY NoneAssumption, ServiceAssumption DEF TypeOK, Stoppers, Outcomes,
         StartSteps, ExitSteps, StopSteps, MainSteps
<1>2. StartMatchesRunner'
  BY DEF StartMatchesRunner, TypeOK, RunnerTypeOK
<1>3. HeldSessionsExist'
  BY DEF HeldSessionsExist, TypeOK
<1>4. CallsMatchRunner'
  BY DEF CallsMatchRunner, TypeOK, RunnerTypeOK
<1>5. FailedMeansDied'
  BY DEF FailedMeansDied, TypeOK, RunnerTypeOK
<1>6. MainMatchesCore'
  BY DEF MainMatchesCore, TypeOK, Serving
<1>7. StartupFinalises'
  BY DEF StartupFinalises, NoOrphanAfterRestart, TypeOK, Serving
<1>. QED BY <1>1, <1>2, <1>3, <1>4, <1>5, <1>6, <1>7

\* ServiceInv is kept when the callback saves the artifact.
LEMMA ExitSaveArtifactKeeps ==
  ASSUME RunnerInv, ServiceInv, NEW s \in Recordings, ExitSaveArtifact(s)
  PROVE  ServiceInv'
<1> USE DEF RunnerInv, ServiceInv, ExitSaveArtifact, dbVars, runnerVars
<1>1. TypeOK'
  BY NoneAssumption, ServiceAssumption DEF TypeOK, Stoppers, Outcomes,
         StartSteps, ExitSteps, StopSteps, MainSteps
<1>2. StartMatchesRunner'
  BY DEF StartMatchesRunner, TypeOK, RunnerTypeOK
<1>3. HeldSessionsExist'
  BY DEF HeldSessionsExist, TypeOK
<1>4. CallsMatchRunner'
  BY DEF CallsMatchRunner, TypeOK, RunnerTypeOK
<1>5. FailedMeansDied'
  BY DEF FailedMeansDied, TypeOK, RunnerTypeOK
<1>6. MainMatchesCore'
  BY DEF MainMatchesCore, TypeOK, Serving
<1>7. StartupFinalises'
  BY DEF StartupFinalises, NoOrphanAfterRestart, TypeOK, Serving
<1>. QED BY <1>1, <1>2, <1>3, <1>4, <1>5, <1>6, <1>7

\* ServiceInv is kept when the callback closes the session.
LEMMA FailSessionKeeps ==
  ASSUME RunnerInv, ServiceInv, NEW s \in Recordings, FailSession(s)
  PROVE  ServiceInv'
<1> USE DEF RunnerInv, ServiceInv, FailSession, WatcherReturns, dbVars,
           procVars, callVars
<1>1. TypeOK'
  BY NoneAssumption, ServiceAssumption DEF TypeOK, Stoppers, Outcomes,
         StartSteps, ExitSteps, StopSteps, MainSteps
<1>2. StartMatchesRunner'
  BY DEF StartMatchesRunner, TypeOK, RunnerTypeOK, CallsMatchRunner,
         CallbackOnlyOnDeath
<1>3. HeldSessionsExist'
  BY DEF HeldSessionsExist, TypeOK
<1>4. CallsMatchRunner'
  BY DEF CallsMatchRunner, TypeOK, RunnerTypeOK
<1>5. FailedMeansDied'
  BY DEF FailedMeansDied, TypeOK, RunnerTypeOK, CallsMatchRunner,
         CallbackOnlyOnDeath
<1>6. MainMatchesCore'
  BY DEF MainMatchesCore, TypeOK, Serving
<1>7. StartupFinalises'
  BY DEF StartupFinalises, NoOrphanAfterRestart, TypeOK, Serving
<1>. QED BY <1>1, <1>2, <1>3, <1>4, <1>5, <1>6, <1>7

\* ServiceInv is kept when a watcher ends.
LEMMA WatcherStopsKeeps ==
  ASSUME RunnerInv, ServiceInv, NEW s \in Recordings, WatcherStops(s)
  PROVE  ServiceInv'
<1> USE DEF RunnerInv, ServiceInv, WatcherStops, WatcherCancelled, dbVars,
           serviceVars, procVars, callVars
<1>1. TypeOK'
  BY NoneAssumption, ServiceAssumption DEF TypeOK, Stoppers, Outcomes,
         StartSteps, ExitSteps, StopSteps, MainSteps
<1>2. StartMatchesRunner'
  BY DEF StartMatchesRunner, TypeOK, RunnerTypeOK
<1>3. HeldSessionsExist'
  BY DEF HeldSessionsExist, TypeOK
<1>4. CallsMatchRunner'
  BY DEF CallsMatchRunner, TypeOK, RunnerTypeOK
<1>5. FailedMeansDied'
  BY DEF FailedMeansDied, TypeOK, RunnerTypeOK
<1>6. MainMatchesCore'
  BY DEF MainMatchesCore, TypeOK, Serving
<1>7. StartupFinalises'
  BY DEF StartupFinalises, NoOrphanAfterRestart, TypeOK, Serving
<1>. QED BY <1>1, <1>2, <1>3, <1>4, <1>5, <1>6, <1>7

\* ServiceInv is kept when ffmpeg exits on its own.
LEMMA FFmpegProcessKeeps ==
  ASSUME RunnerInv, ServiceInv, NEW s \in Recordings, FFmpegProcess(s)
  PROVE  ServiceInv'
<1> USE DEF RunnerInv, ServiceInv, FFmpegProcess, StreamEnds, dbVars, serviceVars, procVars, callVars
<1>1. TypeOK'
  BY NoneAssumption, ServiceAssumption DEF TypeOK, Stoppers, Outcomes,
         StartSteps, ExitSteps, StopSteps, MainSteps
<1>2. StartMatchesRunner'
  BY DEF StartMatchesRunner, TypeOK, RunnerTypeOK
<1>3. HeldSessionsExist'
  BY DEF HeldSessionsExist, TypeOK
<1>4. CallsMatchRunner'
  BY DEF CallsMatchRunner, TypeOK, RunnerTypeOK
<1>5. FailedMeansDied'
  BY DEF FailedMeansDied, TypeOK, RunnerTypeOK
<1>6. MainMatchesCore'
  BY DEF MainMatchesCore, TypeOK, Serving
<1>7. StartupFinalises'
  BY DEF StartupFinalises, NoOrphanAfterRestart, TypeOK, Serving
<1>. QED BY <1>1, <1>2, <1>3, <1>4, <1>5, <1>6, <1>7

\* ServiceInv is kept when the shutdown begins.
LEMMA BeginShutdownKeeps ==
  ASSUME RunnerInv, ServiceInv, BeginShutdown
  PROVE  ServiceInv'
<1> USE DEF RunnerInv, ServiceInv, BeginShutdown, dbVars, runnerVars
<1>1. TypeOK'
  BY NoneAssumption, ServiceAssumption DEF TypeOK, Stoppers, Outcomes,
         StartSteps, ExitSteps, StopSteps, MainSteps
<1>2. StartMatchesRunner'
  BY DEF StartMatchesRunner, TypeOK, RunnerTypeOK
<1>3. HeldSessionsExist'
  BY DEF HeldSessionsExist, TypeOK
<1>4. CallsMatchRunner'
  BY ServiceAssumption DEF CallsMatchRunner, TypeOK, RunnerTypeOK,
         MainMatchesCore
<1>5. FailedMeansDied'
  BY DEF FailedMeansDied, TypeOK, RunnerTypeOK
<1>6. MainMatchesCore'
  BY DEF MainMatchesCore, TypeOK, Serving
<1>7. StartupFinalises'
  BY DEF StartupFinalises, NoOrphanAfterRestart, TypeOK, Serving
<1>. QED BY <1>1, <1>2, <1>3, <1>4, <1>5, <1>6, <1>7

\* ServiceInv is kept when the map is cleared.
LEMMA ClearMappingKeeps ==
  ASSUME RunnerInv, ServiceInv, ClearMapping
  PROVE  ServiceInv'
<1> USE DEF RunnerInv, ServiceInv, ClearMapping, dbVars, runnerVars
<1>1. TypeOK'
  BY NoneAssumption, ServiceAssumption DEF TypeOK, Stoppers, Outcomes,
         StartSteps, ExitSteps, StopSteps, MainSteps
<1>2. StartMatchesRunner'
  BY DEF StartMatchesRunner, TypeOK, RunnerTypeOK
<1>3. HeldSessionsExist'
  BY DEF HeldSessionsExist, TypeOK
<1>4. CallsMatchRunner'
  BY DEF CallsMatchRunner, TypeOK, RunnerTypeOK
<1>5. FailedMeansDied'
  BY DEF FailedMeansDied, TypeOK, RunnerTypeOK
<1>6. MainMatchesCore'
  BY DEF MainMatchesCore, TypeOK, Serving
<1>7. StartupFinalises'
  BY DEF StartupFinalises, NoOrphanAfterRestart, TypeOK, Serving
<1>. QED BY <1>1, <1>2, <1>3, <1>4, <1>5, <1>6, <1>7

\* ServiceInv is kept when the active sessions are listed.
LEMMA ListActiveKeeps ==
  ASSUME RunnerInv, ServiceInv, ListActive
  PROVE  ServiceInv'
<1> USE DEF RunnerInv, ServiceInv, ListActive, dbVars, runnerVars
<1>1. TypeOK'
  BY NoneAssumption, ServiceAssumption DEF TypeOK, Stoppers, Outcomes,
         StartSteps, ExitSteps, StopSteps, MainSteps
<1>2. StartMatchesRunner'
  BY DEF StartMatchesRunner, TypeOK, RunnerTypeOK
<1>3. HeldSessionsExist'
  BY DEF HeldSessionsExist, TypeOK
<1>4. CallsMatchRunner'
  BY DEF CallsMatchRunner, TypeOK, RunnerTypeOK
<1>5. FailedMeansDied'
  BY DEF FailedMeansDied, TypeOK, RunnerTypeOK
<1>6. MainMatchesCore'
  BY DEF MainMatchesCore, TypeOK, Serving
<1>7. StartupFinalises'
  BY DEF StartupFinalises, NoOrphanAfterRestart, TypeOK, Serving
<1>. QED BY <1>1, <1>2, <1>3, <1>4, <1>5, <1>6, <1>7

\* ServiceInv is kept when a listed session is aborted.
LEMMA AbortSessionKeeps ==
  ASSUME RunnerInv, ServiceInv, NEW s \in Recordings, AbortSession(s)
  PROVE  ServiceInv'
<1> USE DEF RunnerInv, ServiceInv, AbortSession, dbVars, runnerVars
<1>1. TypeOK'
  BY NoneAssumption, ServiceAssumption DEF TypeOK, Stoppers, Outcomes,
         StartSteps, ExitSteps, StopSteps, MainSteps
<1>2. StartMatchesRunner'
  BY DEF StartMatchesRunner, TypeOK, RunnerTypeOK, HeldSessionsExist
<1>3. HeldSessionsExist'
  BY DEF HeldSessionsExist, TypeOK
<1>4. CallsMatchRunner'
  BY DEF CallsMatchRunner, TypeOK, RunnerTypeOK
<1>5. FailedMeansDied'
  BY DEF FailedMeansDied, TypeOK, RunnerTypeOK
<1>6. MainMatchesCore'
  BY DEF MainMatchesCore, TypeOK, Serving
<1>7. StartupFinalises'
  BY DEF StartupFinalises, NoOrphanAfterRestart, TypeOK, Serving
<1>. QED BY <1>1, <1>2, <1>3, <1>4, <1>5, <1>6, <1>7

\* ServiceInv is kept when the finalisation ends.
LEMMA FinalisedKeeps ==
  ASSUME RunnerInv, ServiceInv, Finalised
  PROVE  ServiceInv'
<1> USE DEF RunnerInv, ServiceInv, Finalised, dbVars, runnerVars
<1>1. TypeOK'
  BY NoneAssumption, ServiceAssumption DEF TypeOK, Stoppers, Outcomes,
         StartSteps, ExitSteps, StopSteps, MainSteps
<1>2. StartMatchesRunner'
  BY DEF StartMatchesRunner, TypeOK, RunnerTypeOK
<1>3. HeldSessionsExist'
  BY DEF HeldSessionsExist, TypeOK
<1>4. CallsMatchRunner'
  BY DEF CallsMatchRunner, TypeOK, RunnerTypeOK
<1>5. FailedMeansDied'
  BY DEF FailedMeansDied, TypeOK, RunnerTypeOK
<1>6. MainMatchesCore'
  BY ServiceAssumption DEF MainMatchesCore, TypeOK, Serving
<1>7. StartupFinalises'
  BY DEF StartupFinalises, NoOrphanAfterRestart, TypeOK, Serving
<1>. QED BY <1>1, <1>2, <1>3, <1>4, <1>5, <1>6, <1>7

\* ServiceInv is kept when the process ends.
LEMMA MemoryLostKeeps ==
  ASSUME RunnerInv, ServiceInv, MemoryLost
  PROVE  ServiceInv'
<1> USE DEF RunnerInv, ServiceInv, MemoryLost, CoreDies, dbVars
<1>1. TypeOK'
  BY NoneAssumption, ServiceAssumption DEF TypeOK, Stoppers, Outcomes,
         StartSteps, ExitSteps, StopSteps, MainSteps
<1>2. StartMatchesRunner'
  BY DEF StartMatchesRunner, TypeOK, RunnerTypeOK
<1>3. HeldSessionsExist'
  BY DEF HeldSessionsExist, TypeOK
<1>4. CallsMatchRunner'
  BY ServiceAssumption DEF CallsMatchRunner, TypeOK, RunnerTypeOK
<1>5. FailedMeansDied'
  BY DEF FailedMeansDied, TypeOK, RunnerTypeOK
<1>6. MainMatchesCore'
  BY DEF MainMatchesCore, TypeOK, Serving
<1>7. StartupFinalises'
  BY DEF StartupFinalises, NoOrphanAfterRestart, TypeOK, Serving
<1>. QED BY <1>1, <1>2, <1>3, <1>4, <1>5, <1>6, <1>7

\* ServiceInv is kept when the core is started again.
LEMMA StartupKeeps ==
  ASSUME RunnerInv, ServiceInv, Startup
  PROVE  ServiceInv'
<1> USE DEF RunnerInv, ServiceInv, Startup, dbVars, runnerVars
<1>1. TypeOK'
  BY NoneAssumption, ServiceAssumption DEF TypeOK, Stoppers, Outcomes,
         StartSteps, ExitSteps, StopSteps, MainSteps
<1>2. StartMatchesRunner'
  BY DEF StartMatchesRunner, TypeOK, RunnerTypeOK
<1>3. HeldSessionsExist'
  BY DEF HeldSessionsExist, TypeOK
<1>4. CallsMatchRunner'
  BY ServiceAssumption DEF CallsMatchRunner, TypeOK, RunnerTypeOK,
         MainMatchesCore
<1>5. FailedMeansDied'
  BY DEF FailedMeansDied, TypeOK, RunnerTypeOK
<1>6. MainMatchesCore'
  BY ServiceAssumption DEF MainMatchesCore, TypeOK, Serving
<1>7. StartupFinalises'
  BY ServiceAssumption DEF StartupFinalises, NoOrphanAfterRestart, TypeOK,
         Serving, MainMatchesCore
<1>. QED BY <1>1, <1>2, <1>3, <1>4, <1>5, <1>6, <1>7

---------------------------------------------------------------------------
(* Every step of the service *)

\* The core starts with no session and an idle runner.
LEMMA InitEstablishes == Init => RunnerInv /\ ServiceInv
<1> SUFFICES ASSUME Init PROVE RunnerInv /\ ServiceInv OBVIOUS
<1>1. RunnerInv BY RunnerInitEstablishes DEF Init
<1>2. TypeOK
  BY NoneAssumption, ServiceAssumption
     DEF Init, TypeOK, Stoppers, Outcomes, StartSteps, ExitSteps, StopSteps,
         MainSteps
<1>3. StartMatchesRunner /\ HeldSessionsExist /\ CallsMatchRunner
  BY ServiceAssumption
     DEF Init, RunnerInit, StartMatchesRunner, HeldSessionsExist, CallsMatchRunner
<1>4. FailedMeansDied
  BY DEF Init, RunnerInit, FailedMeansDied
<1>5. MainMatchesCore /\ StartupFinalises
  BY ServiceAssumption
     DEF Init, MainMatchesCore, StartupFinalises, NoOrphanAfterRestart, Serving
<1>. QED BY <1>1, <1>2, <1>3, <1>4, <1>5 DEF ServiceInv

\* Every action, and every step elsewhere, keeps ServiceInv.
LEMMA ServiceStepKeeps == RunnerInv /\ ServiceInv /\ [Next]_vars => ServiceInv'
<1> SUFFICES ASSUME RunnerInv, ServiceInv, [Next]_vars PROVE ServiceInv'
  OBVIOUS
<1>1. ASSUME NEW s \in Recordings,
             StartCall(s) \/ WatcherThread(s) \/ FFmpegProcess(s)
      PROVE  ServiceInv'
  BY <1>1, BeginStartKeeps, SpawnFFmpegKeeps, StartRaisesKeeps,
     RegisterFFmpegKeeps, MapSessionKeeps, SaveRawTsKeeps, ExitBeginsKeeps,
     ExitTooLateKeeps, ExitGetKeeps, ExitPopMappingKeeps,
     ExitSaveArtifactKeeps, FailSessionKeeps, WatcherStopsKeeps,
     FFmpegProcessKeeps
     DEF StartCall, WatcherThread
<1>2. ASSUME NEW t \in Threads, NEW s \in Recordings, BeginStop(t, s)
      PROVE  ServiceInv'
  BY <1>2, BeginStopKeeps
<1>3. ASSUME NEW t \in Threads, StopCall(t) PROVE ServiceInv'
  BY <1>3, PopMappingKeeps, PopNothingKeeps, CallStopAllKeeps,
     RunnerWorksKeeps, RunnerReturnsKeeps, RunnerRaisesKeeps,
     SaveStoppedKeeps, CompleteSessionKeeps
     DEF StopCall
<1>4. CASE BeginShutdown \/ MainThread
  BY <1>4, BeginShutdownKeeps, ClearMappingKeeps, ListActiveKeeps,
     AbortSessionKeeps, FinalisedKeeps DEF MainThread
<1>5. CASE Exit \/ Crash \/ Startup
  BY <1>5, MemoryLostKeeps, StartupKeeps DEF Exit, Crash
<1>6. CASE UNCHANGED vars
  BY <1>6
     DEF vars, serviceVars, runnerVars, ServiceInv, TypeOK,
         StartMatchesRunner, HeldSessionsExist, CallsMatchRunner,
         FailedMeansDied, MainMatchesCore,
         StartupFinalises, NoOrphanAfterRestart, Serving
<1>. QED BY <1>1, <1>2, <1>3, <1>4, <1>5, <1>6 DEF Next

\* Whatever the service does is a step of the runner, or none of its business.
LEMMA ServiceRunsRunner == TypeOK /\ [Next]_vars => [RunnerNext]_runnerVars
<1> SUFFICES ASSUME TypeOK, [Next]_vars PROVE [RunnerNext]_runnerVars
  OBVIOUS
<1>1. ASSUME NEW s \in Recordings, StartCall(s) PROVE [RunnerNext]_runnerVars
  BY <1>1 DEF StartCall, BeginStart, SpawnFFmpeg, StartRaises, RegisterFFmpeg,
              MapSession, SaveRawTs, RunnerNext, StartStep
<1>2. ASSUME NEW s \in Recordings, WatcherThread(s)
      PROVE  [RunnerNext]_runnerVars
  BY <1>2 DEF WatcherThread, ExitBegins, ExitTooLate, ExitGet, ExitPopMapping,
              ExitSaveArtifact, FailSession, WatcherStops, RunnerNext,
              WatcherStep
<1>3. ASSUME NEW s \in Recordings, FFmpegProcess(s)
      PROVE  [RunnerNext]_runnerVars
  BY <1>3 DEF FFmpegProcess, RunnerNext
<1>4. ASSUME NEW t \in Threads, NEW s \in Recordings, BeginStop(t, s)
      PROVE  [RunnerNext]_runnerVars
  BY <1>4 DEF BeginStop
<1>5. ASSUME NEW t \in Threads, StopCall(t) PROVE [RunnerNext]_runnerVars
  <2>1. CASE PopMapping(t)
    <3>1. arg[t] \in Recordings BY <2>1 DEF PopMapping, TypeOK
    <3>2. CallStep(t) BY <2>1, <3>1 DEF PopMapping, CallStep
    <3>. QED BY <3>2 DEF RunnerNext
  <2>2. CASE RunnerWorks(t) BY <2>2 DEF RunnerWorks, RunnerNext
  <2>3. CASE CallStopAll(t) \/ RunnerReturns(t) \/ RunnerRaises(t)
    BY <2>3 DEF CallStopAll, RunnerReturns, RunnerRaises, RunnerNext, CallStep,
                EndStep
  <2>4. CASE PopNothing(t) \/ SaveStopped(t) \/ CompleteSession(t)
    BY <2>4 DEF PopNothing, SaveStopped, CompleteSession
  <2>. QED BY <1>5, <2>1, <2>2, <2>3, <2>4 DEF StopCall
<1>6. CASE BeginShutdown \/ MainThread
  BY <1>6 DEF BeginShutdown, MainThread, ClearMapping, ListActive,
              AbortSession, Finalised
<1>7. CASE Exit \/ Crash \/ Startup
  BY <1>7 DEF Exit, Crash, Startup, MemoryLost, RunnerNext
<1>8. CASE UNCHANGED vars BY <1>8 DEF vars
<1>. QED BY <1>1, <1>2, <1>3, <1>4, <1>5, <1>6, <1>7, <1>8 DEF Next

\* A session row is only created, closed, or closed again.
LEMMA SessionTableStep ==
  RunnerInv /\ ServiceInv /\ [Next]_vars => [Lifecycle!ObservedNext]_session
<1> SUFFICES ASSUME RunnerInv, ServiceInv, [Next]_vars
             PROVE  [Lifecycle!ObservedNext]_session
  OBVIOUS
<1> DEFINE Closed(s) ==
      \E o \in Outcomes :
        session[s] # "none" /\ session' = [session EXCEPT ![s] = o]
<1>1. ASSUME NEW s \in Recordings, Closed(s) PROVE Lifecycle!ObservedNext
  <2>1. session[s] = "recording" \/ session[s] \in Outcomes
    BY <1>1 DEF ServiceInv, TypeOK
  <2>. QED
    BY <1>1, <2>1 DEF Lifecycle!ObservedNext, Lifecycle!Close,
                      Lifecycle!Relabel, Lifecycle!Endings, Outcomes
<1>2. ASSUME NEW s \in Recordings, StartCall(s)
      PROVE  [Lifecycle!ObservedNext]_session
  BY <1>2 DEF StartCall, BeginStart, SpawnFFmpeg, StartRaises, RegisterFFmpeg,
              MapSession, SaveRawTs, dbVars, Lifecycle!ObservedNext,
              Lifecycle!Create
<1>3. ASSUME NEW s \in Recordings, WatcherThread(s)
      PROVE  Closed(s) \/ UNCHANGED session
  <2>1. CASE FailSession(s)
    <3>1. session[s] # "none"
      BY <2>1 DEF FailSession, RunnerInv, CallbackOnlyOnDeath, ServiceInv,
                  CallsMatchRunner, StartMatchesRunner
    <3>. QED BY <2>1, <3>1 DEF FailSession, Outcomes
  <2>2. CASE ~FailSession(s)
    BY <1>3, <2>2 DEF WatcherThread, ExitBegins, ExitTooLate, ExitGet,
                      ExitPopMapping, ExitSaveArtifact, WatcherStops, dbVars,
                      serviceVars
  <2>. QED BY <2>1, <2>2
<1>4. ASSUME NEW s \in Recordings, FFmpegProcess(s) PROVE UNCHANGED session
  BY <1>4 DEF FFmpegProcess, serviceVars
<1>5. ASSUME NEW t \in Threads, NEW s \in Recordings, BeginStop(t, s)
      PROVE  UNCHANGED session
  BY <1>5 DEF BeginStop, dbVars
<1>6. ASSUME NEW t \in Threads, StopCall(t)
      PROVE  (arg[t] \in Recordings /\ Closed(arg[t])) \/ UNCHANGED session
  <2>1. CASE CompleteSession(t)
    <3>1. t \in Stoppers /\ arg[t] # None
      BY <2>1 DEF CompleteSession, ServiceInv, TypeOK, Stoppers, MainSteps
    <3>2. arg[t] \in Recordings /\ session[arg[t]] # "none"
      BY <3>1 DEF ServiceInv, TypeOK, HeldSessionsExist, Stoppers
    <3>. QED BY <2>1, <3>2 DEF CompleteSession, Outcomes
  <2>2. CASE ~CompleteSession(t)
    BY <1>6, <2>2 DEF StopCall, PopMapping, PopNothing, CallStopAll,
                      RunnerWorks, RunnerReturns, RunnerRaises, SaveStopped,
                      dbVars,
                      serviceVars
  <2>. QED BY <2>1, <2>2
<1>7. ASSUME BeginShutdown \/ MainThread
      PROVE  (\E s \in Recordings : Closed(s)) \/ UNCHANGED session
  <2>1. ASSUME NEW s \in Recordings, AbortSession(s) PROVE Closed(s)
    BY <2>1 DEF AbortSession, ServiceInv, HeldSessionsExist, Outcomes
  <2>. QED
    BY <1>7, <2>1 DEF BeginShutdown, MainThread, ClearMapping, ListActive,
                      Finalised, dbVars
<1>8. ASSUME Exit \/ Crash \/ Startup PROVE UNCHANGED session
  BY <1>8 DEF Exit, Crash, Startup, MemoryLost, dbVars
<1>9. ASSUME UNCHANGED vars PROVE UNCHANGED session
  BY <1>9 DEF vars, serviceVars
<1>. QED
  BY <1>1, <1>2, <1>3, <1>4, <1>5, <1>6, <1>7, <1>8, <1>9 DEF Next

---------------------------------------------------------------------------
(* Theorems *)

\* The inductive invariant holds in every state of the service.
THEOREM ServiceInvariant == Spec => [](RunnerInv /\ ServiceInv)
<1>1. ServiceInv => TypeOK BY DEF ServiceInv
<1>2. RunnerInv /\ ServiceInv /\ [Next]_vars => (RunnerInv /\ ServiceInv)'
  BY <1>1, ServiceRunsRunner, RunnerStepKeeps, ServiceStepKeeps
<1>. QED BY InitEstablishes, <1>2, PTL DEF Spec

\* The variables of the service keep their types.
THEOREM TypeCorrect == Spec => []TypeOK
<1>1. ServiceInv => TypeOK BY DEF ServiceInv
<1>. QED BY <1>1, ServiceInvariant, PTL

\* recording_service.py over process_runner.py: the service implements the
\* runner's specification, so that every theorem about the runner holds of the
\* service's behaviours too.
THEOREM ServiceImplementsRunner == Spec => ImplementsRunner
<1>1. Init => RunnerInit BY DEF Init
<1>2. ServiceInv => TypeOK BY DEF ServiceInv
<1>. QED
  BY <1>1, <1>2, ServiceInvariant, ServiceRunsRunner, PTL
     DEF Spec, ImplementsRunner, RunnerSpec

\* session.py: in the table, a session is created once, closed, and never
\* active again.
THEOREM ServiceImplementsLifecycle == Spec => ImplementsLifecycle
<1>1. Init => Lifecycle!AllAbsent BY DEF Init, Lifecycle!AllAbsent
<1>. QED
  BY <1>1, ServiceInvariant, SessionTableStep, PTL
     DEF Spec, ImplementsLifecycle, Lifecycle!ObservedSpec

\* recording_service.py, _on_runner_exit: a session is FAILED only when its
\* ffmpeg exited on its own.
THEOREM FailureMeansDeath == Spec => []FailedMeansDied
<1>1. ServiceInv => FailedMeansDied BY DEF ServiceInv
<1>. QED BY <1>1, ServiceInvariant, PTL

\* recording_service.py, finalize_all_active_sessions: no session of an earlier
\* run of the core is active once the core serves again.
THEOREM RestartLeavesNoOrphan == Spec => []NoOrphanAfterRestart
<1>1. ServiceInv => NoOrphanAfterRestart BY DEF ServiceInv, StartupFinalises
<1>. QED BY <1>1, ServiceInvariant, PTL

---------------------------------------------------------------------------
(* What becomes of a death, and of a mapping *)

\* process_runner.py, start_watcher, under the service: the runner's promise
\* and the silence of joined watchers hold of the service's behaviours too.
THEOREM ServiceKeepsContract ==
  Spec => ImplementsContract /\ []JoinedIsSilent
<1>. QED
  BY ServiceImplementsRunner, RunnerKeepsContract, StopperHasSilencedWatcher,
     PTL
     DEF ImplementsRunner

\* A report reaches a callback, and a callback closes the session: every step
\* keeps ReportsAreHeard.
LEMMA ReportsStayHeard ==
  ASSUME RunnerInv, ServiceInv, ReportsAreHeard, [Next]_vars
  PROVE  ReportsAreHeard'
<1> USE DEF RunnerInv, RunnerTypeOK, ServiceInv, TypeOK, ReportsAreHeard,
            Outcomes, runnerVars, procVars, callVars, dbVars
<1>1. ASSUME NEW s \in Recordings, StartCall(s) PROVE ReportsAreHeard'
  <2>1. CASE BeginStart(s)
    \* A recording without a session has no watcher.
    BY <2>1 DEF BeginStart, StartMatchesRunner, UnusedIsNowhere
  <2>2. CASE SpawnFFmpeg(s)
    BY <2>2 DEF SpawnFFmpeg, Spawn
  <2>3. CASE StartRaises(s)
    BY <2>3 DEF StartRaises
  <2>4. CASE RegisterFFmpeg(s)
    BY <2>4 DEF RegisterFFmpeg, Register
  <2>5. CASE MapSession(s) \/ SaveRawTs(s)
    BY <2>5 DEF MapSession, SaveRawTs
  <2>. QED BY <1>1, <2>1, <2>2, <2>3, <2>4, <2>5 DEF StartCall
<1>2. ASSUME NEW s \in Recordings, WatcherThread(s) PROVE ReportsAreHeard'
  <2>1. CASE ExitBegins(s)
    BY <2>1 DEF ExitBegins, WatcherSeesExit
  <2>2. CASE ExitTooLate(s)
    \* The recording was spawned, so its session has a row: a closed one.
    <3>. session[s] # "none"
      BY <2>2 DEF ExitTooLate, WatcherReturns, CallbackOnlyOnDeath,
                  StartMatchesRunner
    <3>. QED BY <2>2 DEF ExitTooLate, WatcherReturns
  <2>3. CASE ExitGet(s) \/ ExitPopMapping(s)
    BY <2>3 DEF ExitGet, ExitPopMapping
  <2>4. CASE ExitSaveArtifact(s)
    BY <2>4 DEF ExitSaveArtifact
  <2>5. CASE FailSession(s)
    BY <2>5 DEF FailSession, WatcherReturns
  <2>6. CASE WatcherStops(s)
    BY <2>6 DEF WatcherStops, WatcherCancelled, serviceVars
  <2>. QED
    BY <1>2, <2>1, <2>2, <2>3, <2>4, <2>5, <2>6 DEF WatcherThread
<1>3. ASSUME NEW s \in Recordings, FFmpegProcess(s) PROVE ReportsAreHeard'
  BY <1>3 DEF FFmpegProcess, StreamEnds, serviceVars
<1>4. ASSUME NEW t \in Threads, NEW s \in Recordings, BeginStop(t, s)
      PROVE  ReportsAreHeard'
  BY <1>4 DEF BeginStop
<1>5. ASSUME NEW t \in Threads, StopCall(t) PROVE ReportsAreHeard'
  <2>1. CASE PopMapping(t) \/ CallStopAll(t) \/ RunnerReturns(t)
    BY <2>1 DEF PopMapping, StopOne, CallStopAll, StopAll, RunnerReturns, Return
  <2>2. CASE PopNothing(t) \/ SaveStopped(t)
    BY <2>2 DEF PopNothing, SaveStopped
  <2>3. CASE RunnerWorks(t)
    BY <2>3 DEF RunnerWorks, StopStep, Pop, PopMissing, JoinWatcher, QuitsFFmpeg,
                Quit, QuitUnremuxed, Transmux, serviceVars
  <2>4. CASE CompleteSession(t)
    BY <2>4 DEF CompleteSession
  <2>5. CASE RunnerRaises(t)
    BY <2>5 DEF RunnerRaises, QuitRaises, QuitsFFmpeg
  <2>. QED BY <1>5, <2>1, <2>2, <2>3, <2>4, <2>5 DEF StopCall
<1>6. CASE BeginShutdown \/ ClearMapping \/ ListActive \/ Finalised \/ Startup
  BY <1>6 DEF BeginShutdown, ClearMapping, ListActive, Finalised, Startup
<1>7. ASSUME NEW s \in Recordings, AbortSession(s) PROVE ReportsAreHeard'
  BY <1>7 DEF AbortSession
<1>8. CASE MemoryLost
  \* Every recording that had a watcher is of a lost run now.
  BY <1>8 DEF MemoryLost, CoreDies, StartMatchesRunner, UnusedIsNowhere
<1>9. CASE UNCHANGED vars
  BY <1>9 DEF vars, serviceVars
<1>. QED
  BY <1>1, <1>2, <1>3, <1>4, <1>5, <1>6, <1>7, <1>8, <1>9
     DEF Next, MainThread, Exit, Crash

\* The death of a recording reaches the session, as long as the core lives and
\* nobody has silenced the watcher.
THEOREM DeathIsNotForgotten == Spec => []DeathIsPending
<1>1. Init => ReportsAreHeard /\ WatchersAreJoined
  BY WatchersStartJoined DEF Init, RunnerInit, ReportsAreHeard
<1>2. ServiceInv => TypeOK BY DEF ServiceInv
<1>3. RunnerInv /\ ServiceInv /\ WatchersAreJoined /\ ReportsAreHeard
        /\ [Next]_vars => (WatchersAreJoined /\ ReportsAreHeard)'
  BY <1>2, ServiceRunsRunner, WatchersStayJoined, ReportsStayHeard
<1>4. RunnerInv /\ WatchersAreJoined /\ ReportsAreHeard => DeathIsPending
  BY DEF RunnerInv, RunnerTypeOK, WatcherStates, WatchersAreJoined,
         ReportsAreHeard, DeathIsPending, Outcomes
<1>. QED BY <1>1, <1>3, <1>4, ServiceInvariant, PTL DEF Spec

\* A registered recording loses its mapping only to a call that will find it in
\* the registry, to its own death, or to the end of a shutdown: every step keeps
\* MappingsMatchRegistry.
LEMMA MappingsStay ==
  ASSUME RunnerInv, ServiceInv, CallsAreShaped, MappingsMatchRegistry, [Next]_vars
  PROVE  MappingsMatchRegistry'
<1> USE DEF RunnerInv, RunnerTypeOK, ServiceInv, TypeOK, MappingsMatchRegistry,
            runnerVars, procVars, callVars, dbVars
<1>1. ASSUME NEW s \in Recordings, StartCall(s) PROVE MappingsMatchRegistry'
  <2>1. CASE BeginStart(s) \/ StartRaises(s)
    BY <2>1 DEF BeginStart, StartRaises
  <2>2. CASE SpawnFFmpeg(s)
    BY <2>2 DEF SpawnFFmpeg, Spawn
  <2>3. CASE RegisterFFmpeg(s)
    BY <2>3 DEF RegisterFFmpeg, Register
  <2>4. CASE MapSession(s) \/ SaveRawTs(s)
    BY <2>4 DEF MapSession, SaveRawTs
  <2>. QED BY <1>1, <2>1, <2>2, <2>3, <2>4 DEF StartCall
<1>2. ASSUME NEW s \in Recordings, WatcherThread(s) PROVE MappingsMatchRegistry'
  <2>1. CASE ExitBegins(s) \/ ExitTooLate(s) \/ FailSession(s) \/ WatcherStops(s)
    BY <2>1 DEF ExitBegins, WatcherSeesExit, ExitTooLate, FailSession,
                WatcherReturns, WatcherStops, WatcherCancelled, serviceVars
  <2>2. CASE ExitGet(s) \/ ExitSaveArtifact(s)
    BY <2>2 DEF ExitGet, ExitSaveArtifact
  <2>3. CASE ExitPopMapping(s)
    \* A callback is about an ffmpeg that has died.
    <3>. proc[s] = "died"
      BY <2>3 DEF ExitPopMapping, CallsMatchRunner, CallbackOnlyOnDeath
    <3>. QED BY <2>3 DEF ExitPopMapping
  <2>. QED BY <1>2, <2>1, <2>2, <2>3 DEF WatcherThread
<1>3. ASSUME NEW s \in Recordings, FFmpegProcess(s) PROVE MappingsMatchRegistry'
  BY <1>3 DEF FFmpegProcess, StreamEnds, serviceVars
<1>4. ASSUME NEW t \in Threads, NEW s \in Recordings, BeginStop(t, s)
      PROVE  MappingsMatchRegistry'
  BY <1>4, ServiceAssumption DEF BeginStop, Stoppers
<1>5. ASSUME NEW t \in Threads, StopCall(t) PROVE MappingsMatchRegistry'
  <2>1. CASE PopMapping(t)
    \* The call that pops the mapping has just this recording to stop; it had
    \* none before.
    <3>1. /\ todo[t] = {} /\ todo' = [todo EXCEPT ![t] = {arg[t]}]
          /\ mapped' = mapped \ {arg[t]} /\ arg[t] \in Recordings
          /\ UNCHANGED <<recordings, proc, startpc>>
      BY <2>1 DEF PopMapping, StopOne, CallsAreShaped
    <3>2. \A u \in Threads : todo[u] \subseteq todo'[u]
      BY <3>1
    <3>3. arg[t] \in todo'[t]
      BY <3>1
    <3>4. pc[Main] \in {"list", "finalise", "exit"} => pc'[Main] = pc[Main]
      BY <2>1 DEF PopMapping
    <3>. QED BY <3>1, <3>2, <3>3, <3>4
  <2>2. CASE CallStopAll(t)
    <3>1. todo[t] = {} /\ todo' = [todo EXCEPT ![t] = recordings]
      BY <2>2 DEF CallStopAll, StopAll, CallsAreShaped
    <3>. QED BY <2>2, <3>1, ServiceAssumption DEF CallStopAll, StopAll
  <2>3. CASE PopNothing(t) \/ SaveStopped(t) \/ CompleteSession(t)
    BY <2>3, ServiceAssumption DEF PopNothing, SaveStopped, CompleteSession
  <2>4. CASE RunnerWorks(t)
    <3>1. ASSUME NEW r \in Recordings, Pop(t, r) \/ PopMissing(t, r)
          PROVE  MappingsMatchRegistry'
      BY <2>4, <3>1 DEF RunnerWorks, Pop, PopMissing, serviceVars
    <3>2. CASE JoinWatcher(t) \/ Transmux(t)
      BY <2>4, <3>2 DEF RunnerWorks, JoinWatcher, Transmux, serviceVars
    <3>3. CASE Quit(t) \/ QuitUnremuxed(t)
      BY <2>4, <3>3 DEF RunnerWorks, Quit, QuitUnremuxed, QuitsFFmpeg,
                        StopGracefully, serviceVars
    <3>. QED BY <2>4, <3>1, <3>2, <3>3 DEF RunnerWorks, StopStep
  <2>5. CASE RunnerReturns(t)
    BY <2>5, ServiceAssumption DEF RunnerReturns, Return
  <2>6. CASE RunnerRaises(t)
    BY <2>6, ServiceAssumption
       DEF RunnerRaises, QuitRaises, QuitsFFmpeg, StopGracefully
  <2>. QED BY <1>5, <2>1, <2>2, <2>3, <2>4, <2>5, <2>6 DEF StopCall
<1>6. CASE BeginShutdown \/ ClearMapping \/ ListActive
  BY <1>6, ServiceAssumption
     DEF BeginShutdown, ClearMapping, ListActive, MainMatchesCore
<1>7. ASSUME NEW s \in Recordings, AbortSession(s) PROVE MappingsMatchRegistry'
  BY <1>7 DEF AbortSession
<1>8. CASE Finalised \/ Startup
  \* A core that is only starting has started no recording.
  BY <1>8, ServiceAssumption
     DEF Finalised, Startup, MainMatchesCore, Serving, StartMatchesRunner
<1>9. CASE MemoryLost
  BY <1>9 DEF MemoryLost, CoreDies
<1>10. CASE UNCHANGED vars
  BY <1>10 DEF vars, serviceVars
<1>. QED
  BY <1>1, <1>2, <1>3, <1>4, <1>5, <1>6, <1>7, <1>8, <1>9, <1>10
     DEF Next, MainThread, Exit, Crash

\* recording_service.py, _session_to_recording: whatever stops, failing stops,
\* callbacks and starts do to the map, a running ffmpeg that was mapped is still
\* there or in the hands of a call that stops it, up to the end of a shutdown.
THEOREM RunningIsReachable == Spec => []RunningIsMapped
<1>1. Init => CallsAreShaped /\ MappingsMatchRegistry
  BY CallsStartShaped DEF Init, RunnerInit, MappingsMatchRegistry
<1>2. ServiceInv => TypeOK BY DEF ServiceInv
<1>3. RunnerInv /\ ServiceInv /\ CallsAreShaped /\ MappingsMatchRegistry
        /\ [Next]_vars => (CallsAreShaped /\ MappingsMatchRegistry)'
  BY <1>2, ServiceRunsRunner, CallsStayShaped, MappingsStay
<1>4. RunnerInv /\ ServiceInv /\ MappingsMatchRegistry => RunningIsMapped
  BY DEF RunnerInv, NoProcessLeak, ServiceInv, StartMatchesRunner,
         MappingsMatchRegistry, RunningIsMapped
<1>. QED BY <1>1, <1>3, <1>4, ServiceInvariant, PTL DEF Spec

\* Nobody saves an artifact without closing its session next.
LEMMA ReadyStaysClosing ==
  ASSUME ServiceInv, ArtifactsAreSaved, ReadyIsClosing, [Next]_vars
  PROVE  ArtifactsAreSaved' /\ ReadyIsClosing'
<1> DEFINE Good == ArtifactsAreSaved /\ ReadyIsClosing
<1> USE DEF ServiceInv, TypeOK, ArtifactsAreSaved, ReadyIsClosing, dbVars
<1>1. ASSUME NEW s \in Recordings, StartCall(s) PROVE Good'
  <2>1. CASE BeginStart(s)
    BY <2>1 DEF BeginStart, StartMatchesRunner
  <2>2. CASE SpawnFFmpeg(s) \/ StartRaises(s) \/ RegisterFFmpeg(s) \/ MapSession(s)
    \* A session whose start has not returned has no artifact.
    <3>1. /\ startpc[s] \notin {"done", "lost"}
          /\ \A r \in Recordings : r # s => startpc'[r] = startpc[r]
          /\ UNCHANGED <<session, artifact, cb, pc, arg>>
      <4>1. CASE SpawnFFmpeg(s) \/ StartRaises(s)
        BY <4>1 DEF SpawnFFmpeg, StartRaises
      <4>2. CASE RegisterFFmpeg(s) \/ MapSession(s)
        BY <4>2 DEF RegisterFFmpeg, MapSession
      <4>. QED BY <2>2, <4>1, <4>2
    <3>. QED BY <3>1
  <2>3. CASE SaveRawTs(s)
    BY <2>3 DEF SaveRawTs
  <2>. QED BY <1>1, <2>1, <2>2, <2>3 DEF StartCall
<1>2. ASSUME NEW s \in Recordings, WatcherThread(s) PROVE Good'
  <2>1. CASE ExitBegins(s) \/ ExitTooLate(s) \/ ExitGet(s) \/ ExitPopMapping(s)
    <3>1. /\ cb[s] # "close" \/ session[s] # "recording"
          /\ \A r \in Recordings : r # s => cb'[r] = cb[r]
          /\ UNCHANGED <<session, artifact, startpc, pc, arg>>
      <4>1. CASE ExitBegins(s)
        BY <4>1 DEF ExitBegins, WatcherSeesExit, CallsMatchRunner
      <4>2. CASE ExitTooLate(s) \/ ExitGet(s) \/ ExitPopMapping(s)
        BY <4>2 DEF ExitTooLate, ExitGet, ExitPopMapping
      <4>. QED BY <2>1, <4>1, <4>2
    <3>. QED BY <3>1
  <2>2. CASE ExitSaveArtifact(s)
    BY <2>2 DEF ExitSaveArtifact
  <2>3. CASE FailSession(s)
    <3>1. /\ session' = [session EXCEPT ![s] = "failed"]
          /\ \A r \in Recordings : r # s => cb'[r] = cb[r]
          /\ UNCHANGED <<artifact, startpc, pc, arg>>
      BY <2>3 DEF FailSession
    <3>. QED BY <3>1
  <2>4. CASE WatcherStops(s)
    BY <2>4 DEF WatcherStops, serviceVars
  <2>. QED BY <1>2, <2>1, <2>2, <2>3, <2>4 DEF WatcherThread
<1>3. ASSUME NEW s \in Recordings, FFmpegProcess(s) PROVE Good'
  BY <1>3 DEF FFmpegProcess, serviceVars
<1>4. ASSUME NEW t \in Threads, NEW s \in Recordings, BeginStop(t, s) PROVE Good'
  BY <1>4 DEF BeginStop
<1>5. ASSUME NEW t \in Threads, StopCall(t) PROVE Good'
  <2>1. CASE \/ PopMapping(t) \/ PopNothing(t) \/ CallStopAll(t)
             \/ RunnerReturns(t) \/ RunnerRaises(t)
    \* A thread that has not come to close its session yet goes on.
    <3>1. /\ pc[t] # "close"
          /\ \A u \in Threads : u # t => pc'[u] = pc[u] /\ arg'[u] = arg[u]
          /\ UNCHANGED <<session, artifact, startpc, cb>>
      <4>1. CASE PopMapping(t)
        BY <4>1 DEF PopMapping
      <4>2. CASE PopNothing(t)
        BY <4>2 DEF PopNothing
      <4>3. CASE CallStopAll(t)
        BY <4>3 DEF CallStopAll
      <4>4. CASE RunnerReturns(t)
        BY <4>4 DEF RunnerReturns
      <4>5. CASE RunnerRaises(t)
        BY <4>5 DEF RunnerRaises
      <4>. QED BY <2>1, <4>1, <4>2, <4>3, <4>4, <4>5
    <3>. QED BY <3>1 DEF Stoppers
  <2>2. CASE RunnerWorks(t)
    BY <2>2 DEF RunnerWorks, serviceVars
  <2>4. CASE SaveStopped(t)
    \* The main thread saves no artifacts.
    <3>1. t \in Stoppers
      BY <2>4, ServiceAssumption DEF SaveStopped, Stoppers, MainSteps
    <3>2. pc' = [pc EXCEPT ![t] = "close"] /\ UNCHANGED arg
      BY <2>4 DEF SaveStopped
    <3>3. \A r \in Recordings :
            \/ artifact'[r] = artifact[r]
            \/ r = arg[t] /\ artifact[r] # "none"
      BY <2>4 DEF SaveStopped
    <3>4. ArtifactsAreSaved'
      BY <2>4, <3>3 DEF SaveStopped
    <3>5. ReadyIsClosing'
      BY <2>4, <3>1, <3>2, <3>3 DEF SaveStopped, Stoppers
    <3>. QED BY <3>4, <3>5
  <2>5. CASE CompleteSession(t)
    BY <2>5 DEF CompleteSession
  <2>. QED BY <1>5, <2>1, <2>2, <2>4, <2>5 DEF StopCall
<1>6. CASE BeginShutdown \/ ClearMapping \/ ListActive
  BY <1>6 DEF BeginShutdown, ClearMapping, ListActive, Stoppers
<1>7. ASSUME NEW s \in Recordings, AbortSession(s) PROVE Good'
  BY <1>7 DEF AbortSession
<1>8. CASE Finalised \/ Startup
  BY <1>8 DEF Finalised, Startup, Stoppers
<1>9. CASE Exit \/ Crash
  BY <1>9 DEF Exit, Crash, MemoryLost
<1>10. CASE UNCHANGED vars
  BY <1>10 DEF vars, serviceVars
<1>. QED
  BY <1>1, <1>2, <1>3, <1>4, <1>5, <1>6, <1>7, <1>8, <1>9, <1>10 DEF Next, MainThread

\* While the core lives, an active session with a READY artifact is being closed.
THEOREM ReadySessionsClose == Spec => []ReadyIsClosing
<1>1. Init => ArtifactsAreSaved /\ ReadyIsClosing
  BY DEF Init, ArtifactsAreSaved, ReadyIsClosing
<1>2. ServiceInv /\ ArtifactsAreSaved /\ ReadyIsClosing /\ [Next]_vars
        => ArtifactsAreSaved' /\ ReadyIsClosing'
  BY ReadyStaysClosing
<1>. QED BY <1>1, <1>2, ServiceInvariant, PTL DEF Spec

=============================================================================
