------------------------ MODULE MonitoringCycle_proofs ------------------------
(***************************************************************************)
(* The monitoring cycle, for any number of targets, of workers, of         *)
(* recordings and of requests: the safety properties of MonitoringCycle.   *)
(*                                                                         *)
(* The threads write stale copies of a runtime state over each other.      *)
(* CycleInv says what survives that: every copy names a recording of the   *)
(* target it is a copy of (CopiesAreOwn), Phase A has left a cached state  *)
(* for every target that Phase B will look at (BatchIsPrimed), and a       *)
(* cached state has its live flag or a thread that is about to set it      *)
(* (FlagsFollow).  Each part is kept by every action; there is one lemma   *)
(* for each.                                                               *)
(***************************************************************************)
EXTENDS MonitoringCycle, TLAPS

\* The operators on runtime states return runtime states.
LEMMA StatesAreClosed ==
  /\ NewState \in States
  /\ \A st \in States :
       /\ \A s \in Sessions \union {None} : WithSession(st, s) \in States
       /\ \A res \in Outcomes \union {"none"} : Applied(st, res) \in States
       /\ \A b \in BOOLEAN : /\ [st EXCEPT !.due = b] \in States
                           /\ [st EXCEPT !.recent = b] \in States
       /\ WithoutSession(st) \in States
       /\ Stored(st) \in States
       /\ LiveFlag(st) \in {"live", "offline"}
       /\ st.due \in BOOLEAN
BY DEF States, NewState, WithSession, WithoutSession, Applied, Stored, LiveFlag

\* The types of what the threads share are kept.
LEMMA SharedStep ==
  ASSUME TypeOK, Next PROVE SharedTypeOK'
<1> USE DEF TypeOK, SharedTypeOK, CycleTypeOK,
        WorkersTypeOK, WorkerStates, ApiTypeOK, stateVars, cacheVars, recordingVars, apiVars
<1>1. ASSUME CycleBegins PROVE SharedTypeOK'
  BY <1>1, CycleAssumption, StatesAreClosed DEF CycleBegins
<1>2. ASSUME NEW t \in Targets, ProcessReads(t) PROVE SharedTypeOK'
  BY <1>2, CycleAssumption, StatesAreClosed DEF ProcessReads, GetOrCreate
<1>3. ASSUME NEW t \in Targets, ReactReads(t) PROVE SharedTypeOK'
  BY <1>3, CycleAssumption, StatesAreClosed DEF ReactReads, GetOrCreate
<1>4. ASSUME Enqueues PROVE SharedTypeOK'
  BY <1>4, CycleAssumption, StatesAreClosed DEF Enqueues
<1>5. ASSUME ProcessWrites PROVE SharedTypeOK'
  BY <1>5, CycleAssumption, StatesAreClosed DEF ProcessWrites
<1>6. ASSUME Consumes PROVE SharedTypeOK'
  BY <1>6, CycleAssumption, StatesAreClosed DEF Consumes
<1>7. ASSUME AppliesResult PROVE SharedTypeOK'
  BY <1>7, CycleAssumption, StatesAreClosed DEF AppliesResult
<1>8. ASSUME ChecksExternalStop PROVE SharedTypeOK'
  <2>1. WithoutSession(cyc.copy) \in States
    BY StatesAreClosed
  <2>2. rt' \in [Targets -> States]
    BY <1>8, <2>1 DEF ChecksExternalStop
  <2>. QED BY <1>8, <2>2 DEF ChecksExternalStop
<1>9. ASSUME DetectsTransition PROVE SharedTypeOK'
  BY <1>9, CycleAssumption, StatesAreClosed DEF DetectsTransition
<1>10. ASSUME NEW s \in Sessions, CycleStarts(s) PROVE SharedTypeOK'
  BY <1>10, CycleAssumption, StatesAreClosed DEF CycleStarts, SessionSaved
<1>11. ASSUME CycleStarted PROVE SharedTypeOK'
  BY <1>11, CycleAssumption, StatesAreClosed DEF CycleStarted
<1>12. ASSUME CycleStops PROVE SharedTypeOK'
  BY <1>12, CycleAssumption, StatesAreClosed DEF CycleStops
<1>13. ASSUME CycleStopped PROVE SharedTypeOK'
  BY <1>13, CycleAssumption, StatesAreClosed DEF CycleStopped
<1>14. ASSUME CycleRaises PROVE SharedTypeOK'
  BY <1>14, CycleAssumption, StatesAreClosed DEF CycleRaises
<1>15. ASSUME CycleCaches PROVE SharedTypeOK'
  BY <1>15, CycleAssumption, StatesAreClosed DEF CycleCaches, IdleCycle
<1>16. ASSUME NEW w \in Workers, NEW t \in Targets, Dequeue(w, t) PROVE SharedTypeOK'
  BY <1>16, CycleAssumption, StatesAreClosed DEF Dequeue
<1>17. ASSUME NEW w \in Workers, NEW res \in Outcomes, StoresCheck(w, res) PROVE SharedTypeOK'
  BY <1>17, CycleAssumption, StatesAreClosed DEF StoresCheck, IdleWorker
<1>18. ASSUME NEW w \in Workers, CallbackReads(w) PROVE SharedTypeOK'
  BY <1>18, CycleAssumption, StatesAreClosed DEF CallbackReads, GetOrCreate,
         IdleWorker
<1>19. ASSUME NEW w \in Workers, NEW s \in Sessions, WorkerStarts(w, s) PROVE SharedTypeOK'
  BY <1>19, CycleAssumption, StatesAreClosed DEF WorkerStarts, SessionSaved
<1>20. ASSUME NEW w \in Workers, WorkerStarted(w) PROVE SharedTypeOK'
  BY <1>20, CycleAssumption, StatesAreClosed DEF WorkerStarted
<1>21. ASSUME NEW w \in Workers, WorkerCaches(w) PROVE SharedTypeOK'
  BY <1>21, CycleAssumption, StatesAreClosed DEF WorkerCaches
<1>22. ASSUME NEW w \in Workers, WorkerRaises(w) PROVE SharedTypeOK'
  BY <1>22, CycleAssumption, StatesAreClosed DEF WorkerRaises, IdleWorker
<1>23. ASSUME NEW t \in Targets, Request(t) PROVE SharedTypeOK'
  BY <1>23, CycleAssumption, StatesAreClosed DEF Request, AddStream,
         DisableMonitoring, EnableMonitoring, ForceCheck
<1>24. ASSUME NEW res \in Outcomes, ApiStoresCheck(res) PROVE SharedTypeOK'
  BY <1>24, CycleAssumption, StatesAreClosed DEF ApiStoresCheck
<1>25. ASSUME ForceReads PROVE SharedTypeOK'
  BY <1>25, CycleAssumption, StatesAreClosed DEF ForceReads, AfterForce,
         IdleApi
<1>26. ASSUME ForceWrites PROVE SharedTypeOK'
  BY <1>26, CycleAssumption, StatesAreClosed DEF ForceWrites, AfterForce,
         IdleApi
<1>27. ASSUME ApiStoresAgain PROVE SharedTypeOK'
  BY <1>27, CycleAssumption, StatesAreClosed DEF ApiStoresAgain
<1>28. ASSUME RegisterReads PROVE SharedTypeOK'
  BY <1>28, CycleAssumption, StatesAreClosed DEF RegisterReads, IdleApi
<1>29. ASSUME RegisterWrites PROVE SharedTypeOK'
  BY <1>29, CycleAssumption, StatesAreClosed DEF RegisterWrites
<1>30. ASSUME RegisterPrimes PROVE SharedTypeOK'
  BY <1>30, CycleAssumption, StatesAreClosed DEF RegisterPrimes
<1>31. ASSUME NEW t \in Targets, DeadlinePasses(t) PROVE SharedTypeOK'
  BY <1>31, CycleAssumption, StatesAreClosed DEF DeadlinePasses
<1>32. ASSUME NEW t \in Targets, RecencyPasses(t) PROVE SharedTypeOK'
  BY <1>32, CycleAssumption, StatesAreClosed DEF RecencyPasses
<1>33. ASSUME NEW s \in Sessions, SessionCloses(s) PROVE SharedTypeOK'
  BY <1>33, CycleAssumption, StatesAreClosed DEF SessionCloses
<1>34. ASSUME TestsCached PROVE SharedTypeOK'
  BY <1>34, CycleAssumption, StatesAreClosed DEF TestsCached, NextToProcess, IdleCycle
<1>35. ASSUME ProcessPrimes PROVE SharedTypeOK'
  BY <1>35, CycleAssumption, StatesAreClosed DEF ProcessPrimes, NextToProcess, IdleCycle
<1>36. ASSUME NEW w \in Workers, WorkerFlags(w) PROVE SharedTypeOK'
  BY <1>36, CycleAssumption, StatesAreClosed DEF WorkerFlags, IdleWorker
<1>37. ASSUME RegisterFlags PROVE SharedTypeOK'
  BY <1>37, CycleAssumption, StatesAreClosed DEF RegisterFlags, IdleApi
<1>. QED BY <1>1, <1>2, <1>3, <1>4, <1>5, <1>6, <1>7, <1>8, <1>9, <1>10,
  <1>11, <1>12, <1>13, <1>14, <1>15, <1>16, <1>17, <1>18, <1>19, <1>20, <1>21,
  <1>22, <1>23, <1>24, <1>25, <1>26, <1>27, <1>28, <1>29, <1>30, <1>31, <1>32,
  <1>33, <1>34, <1>35, <1>36, <1>37
  DEF Next, CycleThread, WorkerThread, ApiThread

\* The other threads leave the cycle's variables alone.
LEMMA OthersLeaveCycle ==
  /\ \A w \in Workers : WorkerThread(w) => UNCHANGED cyc
  /\ \A t \in Targets : Request(t) => UNCHANGED cyc
  /\ ApiThread => UNCHANGED cyc
  /\ \A s \in Sessions : SessionCloses(s) => UNCHANGED cyc
<1>1. \A w \in Workers : WorkerThread(w) => UNCHANGED cyc
  BY DEF WorkerThread, Dequeue, StoresCheck, CallbackReads, WorkerStarts,
         WorkerStarted, WorkerCaches, WorkerFlags, WorkerRaises
<1>2. \A t \in Targets : Request(t) => UNCHANGED cyc
  BY DEF Request, AddStream, DisableMonitoring, EnableMonitoring, ForceCheck
<1>3. ApiThread => UNCHANGED cyc
  BY DEF ApiThread, ApiStoresCheck, ForceReads, ForceWrites, ApiStoresAgain,
         RegisterReads, RegisterWrites, RegisterPrimes, RegisterFlags
<1>4. \A s \in Sessions : SessionCloses(s) => UNCHANGED cyc
  BY DEF SessionCloses
<1>. QED BY <1>1, <1>2, <1>3, <1>4

\* The types of the cycle's variables are kept.
LEMMA CycleStep ==
  ASSUME TypeOK, Next PROVE CycleTypeOK'
<1> USE DEF TypeOK, SharedTypeOK, CycleTypeOK, CycleSteps
<1>1. ASSUME CycleBegins PROVE CycleTypeOK'
  BY <1>1, CycleAssumption, StatesAreClosed DEF CycleBegins
<1>2. ASSUME NEW t \in Targets, ProcessReads(t) PROVE CycleTypeOK'
  BY <1>2, CycleAssumption, StatesAreClosed DEF ProcessReads, GetOrCreate
<1>3. ASSUME NEW t \in Targets, ReactReads(t) PROVE CycleTypeOK'
  BY <1>3, CycleAssumption, StatesAreClosed DEF ReactReads, GetOrCreate
<1>4. ASSUME Enqueues PROVE CycleTypeOK'
  BY <1>4, CycleAssumption, StatesAreClosed DEF Enqueues
<1>5. ASSUME ProcessWrites PROVE CycleTypeOK'
  BY <1>5, CycleAssumption, StatesAreClosed DEF ProcessWrites
<1>6. ASSUME Consumes PROVE CycleTypeOK'
  BY <1>6, CycleAssumption, StatesAreClosed DEF Consumes
<1>7. ASSUME AppliesResult PROVE CycleTypeOK'
  BY <1>7, CycleAssumption, StatesAreClosed DEF AppliesResult
<1>8. ASSUME ChecksExternalStop PROVE CycleTypeOK'
  <2>1. CASE StoppedOutside(cyc.copy.active)
    <3>1. /\ cyc.pc = "external"
          /\ rt' = [rt EXCEPT ![cyc.tgt] = WithoutSession(cyc.copy)]
          /\ cyc' = [cyc EXCEPT !.pc = "transition", !.copy = WithoutSession(cyc.copy)]
          /\ UNCHANGED <<cacheVars, recordingVars, wk, apiVars>>
      BY <1>8, <2>1 DEF ChecksExternalStop
    <3>2. WithoutSession(cyc.copy) \in States
      BY StatesAreClosed
    <3>. QED BY <3>1, <3>2, CycleAssumption
  <2>2. CASE ~StoppedOutside(cyc.copy.active)
    BY <1>8, <2>2, CycleAssumption DEF ChecksExternalStop
  <2>. QED BY <2>1, <2>2
<1>9. ASSUME DetectsTransition PROVE CycleTypeOK'
  BY <1>9, CycleAssumption, StatesAreClosed DEF DetectsTransition
<1>10. ASSUME NEW s \in Sessions, CycleStarts(s) PROVE CycleTypeOK'
  BY <1>10, CycleAssumption, StatesAreClosed DEF CycleStarts, SessionSaved
<1>11. ASSUME CycleStarted PROVE CycleTypeOK'
  BY <1>11, CycleAssumption, StatesAreClosed DEF CycleStarted
<1>12. ASSUME CycleStops PROVE CycleTypeOK'
  BY <1>12, CycleAssumption, StatesAreClosed DEF CycleStops
<1>13. ASSUME CycleStopped PROVE CycleTypeOK'
  BY <1>13, CycleAssumption, StatesAreClosed DEF CycleStopped
<1>14. ASSUME CycleRaises PROVE CycleTypeOK'
  BY <1>14, CycleAssumption, StatesAreClosed DEF CycleRaises
<1>15. ASSUME CycleCaches PROVE CycleTypeOK'
  BY <1>15, CycleAssumption, StatesAreClosed DEF CycleCaches, IdleCycle
<1>16. ASSUME NEW t \in Targets, DeadlinePasses(t) PROVE CycleTypeOK'
  BY <1>16, CycleAssumption, StatesAreClosed DEF DeadlinePasses
<1>17. ASSUME NEW t \in Targets, RecencyPasses(t) PROVE CycleTypeOK'
  BY <1>17, CycleAssumption, StatesAreClosed DEF RecencyPasses
<1>18. CASE (\E w \in Workers : WorkerThread(w)) \/ (\E t \in Targets : Request(t))
          \/ ApiThread \/ (\E s \in Sessions : SessionCloses(s))
  <2>1. UNCHANGED cyc
    BY <1>18, OthersLeaveCycle
  <2>. QED BY <2>1
<1>19. ASSUME TestsCached PROVE CycleTypeOK'
  BY <1>19, CycleAssumption, StatesAreClosed DEF TestsCached, NextToProcess, IdleCycle
<1>20. ASSUME ProcessPrimes PROVE CycleTypeOK'
  BY <1>20, CycleAssumption, StatesAreClosed DEF ProcessPrimes, NextToProcess, IdleCycle
<1>. QED BY <1>1, <1>2, <1>3, <1>4, <1>5, <1>6, <1>7, <1>8, <1>9, <1>10,
  <1>11, <1>12, <1>13, <1>14, <1>15, <1>16, <1>17, <1>18, <1>19, <1>20
  DEF Next, CycleThread, WorkerThread, ApiThread

\* A worker's step changes its own state only.
LEMMA WorkerMoves ==
  ASSUME WorkersTypeOK, NEW w \in Workers, NEW r \in WorkerStates,
         r.tgt = None <=> r.pc = "idle", wk' = [wk EXCEPT ![w] = r]
  PROVE  WorkersTypeOK'
BY DEF WorkersTypeOK

\* What a worker's state is made of.
LEMMA WorkerFields ==
  ASSUME WorkersTypeOK, NEW w \in Workers
  PROVE  /\ wk[w] \in WorkerStates
         /\ wk[w].tgt \in Targets \union {None}
         /\ wk[w].copy \in States
         /\ wk[w].ses \in Sessions \union {None}
         /\ IdleWorker \in WorkerStates
BY StatesAreClosed DEF WorkersTypeOK, WorkerStates, WorkerSteps, IdleWorker

\* The other threads leave the workers' variables alone.
LEMMA OthersLeaveWorkers ==
  /\ CycleThread => UNCHANGED wk
  /\ \A t \in Targets : Request(t) => UNCHANGED wk
  /\ ApiThread => UNCHANGED wk
  /\ \A s \in Sessions : SessionCloses(s) => UNCHANGED wk
<1>1. CycleThread => UNCHANGED wk
  BY DEF CycleThread, CycleBegins, ProcessReads, ReactReads, Enqueues,
         ProcessWrites, TestsCached, ProcessPrimes, Consumes, AppliesResult,
         ChecksExternalStop,
         DetectsTransition, CycleStarts, CycleStarted, CycleStops,
         CycleStopped, CycleRaises, CycleCaches
<1>2. \A t \in Targets : Request(t) => UNCHANGED wk
  BY DEF Request, AddStream, DisableMonitoring, EnableMonitoring, ForceCheck
<1>3. ApiThread => UNCHANGED wk
  BY DEF ApiThread, ApiStoresCheck, ForceReads, ForceWrites, ApiStoresAgain,
         RegisterReads, RegisterWrites, RegisterPrimes, RegisterFlags
<1>4. \A s \in Sessions : SessionCloses(s) => UNCHANGED wk
  BY DEF SessionCloses
<1>. QED BY <1>1, <1>2, <1>3, <1>4

\* The types of the workers' variables are kept.
LEMMA WorkersStep ==
  ASSUME TypeOK, Next PROVE WorkersTypeOK'
<1> USE DEF TypeOK
<1>1. ASSUME NEW w \in Workers, NEW t \in Targets, Dequeue(w, t) PROVE WorkersTypeOK'
  <2>. DEFINE r == [wk[w] EXCEPT !.pc = "check", !.tgt = t]
  <2>1. r \in WorkerStates /\ (r.tgt = None <=> r.pc = "idle")
    BY WorkerFields, CycleAssumption DEF WorkerStates, WorkerSteps, WorkersTypeOK
  <2>2. UNCHANGED wk \/ wk' = [wk EXCEPT ![w] = r]
    BY <1>1 DEF Dequeue
  <2>. QED BY <2>1, <2>2, WorkerMoves DEF WorkersTypeOK
<1>2. ASSUME NEW w \in Workers, NEW res \in Outcomes, StoresCheck(w, res) PROVE WorkersTypeOK'
  <2>. DEFINE r == [wk[w] EXCEPT !.pc = "callback"]
  <2>1. r \in WorkerStates /\ (r.tgt = None <=> r.pc = "idle")
    BY <1>2, WorkerFields DEF StoresCheck, WorkerStates, WorkerSteps, WorkersTypeOK
  <2>2. wk' = [wk EXCEPT ![w] = IdleWorker] \/ wk' = [wk EXCEPT ![w] = r]
    BY <1>2 DEF StoresCheck
  <2>. QED BY <2>1, <2>2, WorkerMoves, WorkerFields DEF IdleWorker
<1>3. ASSUME NEW w \in Workers, CallbackReads(w) PROVE WorkersTypeOK'
  <2>. DEFINE r == [wk[w] EXCEPT !.pc = "start", !.copy = rt[wk[w].tgt]]
  <2>1. r \in WorkerStates /\ (r.tgt = None <=> r.pc = "idle")
    BY <1>3, WorkerFields
    DEF CallbackReads, WorkerStates, WorkerSteps, WorkersTypeOK, SharedTypeOK
  <2>2. wk' = [wk EXCEPT ![w] = IdleWorker] \/ wk' = [wk EXCEPT ![w] = r]
    BY <1>3 DEF CallbackReads
  <2>. QED BY <2>1, <2>2, WorkerMoves, WorkerFields DEF IdleWorker
<1>4. ASSUME NEW w \in Workers, NEW s \in Sessions, WorkerStarts(w, s) PROVE WorkersTypeOK'
  <2>. DEFINE r == [wk[w] EXCEPT !.pc = "starting", !.ses = s]
  <2>1. r \in WorkerStates /\ (r.tgt = None <=> r.pc = "idle")
    BY <1>4, WorkerFields, CycleAssumption
    DEF WorkerStarts, WorkerStates, WorkerSteps, WorkersTypeOK
  <2>2. wk' = [wk EXCEPT ![w] = r]
    BY <1>4 DEF WorkerStarts
  <2>. QED BY <2>1, <2>2, WorkerMoves
<1>5. ASSUME NEW w \in Workers, WorkerStarted(w) PROVE WorkersTypeOK'
  <2>. DEFINE r == [wk[w] EXCEPT !.pc = "cache",
                             !.copy = Stored(WithSession(wk[w].copy, wk[w].ses)),
                             !.ses = None]
  <2>1. r \in WorkerStates /\ (r.tgt = None <=> r.pc = "idle")
    BY <1>5, WorkerFields, CycleAssumption, StatesAreClosed
    DEF WorkerStarted, WorkerStates, WorkerSteps, WorkersTypeOK
  <2>2. wk' = [wk EXCEPT ![w] = r]
    BY <1>5 DEF WorkerStarted
  <2>. QED BY <2>1, <2>2, WorkerMoves
<1>6. ASSUME NEW w \in Workers, WorkerCaches(w) PROVE WorkersTypeOK'
  <2>. DEFINE r == [wk[w] EXCEPT !.pc = "flag"]
  <2>1. r \in WorkerStates /\ (r.tgt = None <=> r.pc = "idle")
    BY <1>6, WorkerFields DEF WorkerCaches, WorkerStates, WorkerSteps, WorkersTypeOK
  <2>2. wk' = [wk EXCEPT ![w] = r]
    BY <1>6 DEF WorkerCaches
  <2>. QED BY <2>1, <2>2, WorkerMoves
<1>7. ASSUME NEW w \in Workers, WorkerFlags(w) \/ WorkerRaises(w)
      PROVE  WorkersTypeOK'
  BY <1>7, WorkerMoves, WorkerFields DEF WorkerFlags, WorkerRaises, IdleWorker
<1>8. ASSUME NEW t \in Targets, DeadlinePasses(t) PROVE WorkersTypeOK'
  <2>1. \A w \in Workers : [wk[w].copy EXCEPT !.due = TRUE] \in States
    BY WorkerFields, StatesAreClosed
  <2>2. wk' = [w \in Workers |->
                IF wk[w].tgt = t
                  THEN [wk[w] EXCEPT !.copy = [wk[w].copy EXCEPT !.due = TRUE]]
                  ELSE wk[w]]
    BY <1>8 DEF DeadlinePasses
  <2>. QED BY <2>1, <2>2, CycleAssumption DEF WorkersTypeOK, WorkerStates, WorkerSteps
<1>9. ASSUME NEW t \in Targets, RecencyPasses(t) PROVE WorkersTypeOK'
  <2>1. \A w \in Workers : [wk[w].copy EXCEPT !.recent = FALSE] \in States
    BY WorkerFields, StatesAreClosed
  <2>2. wk' = [w \in Workers |->
                IF wk[w].tgt = t
                  THEN [wk[w] EXCEPT !.copy = [wk[w].copy EXCEPT !.recent = FALSE]]
                  ELSE wk[w]]
    BY <1>9 DEF RecencyPasses
  <2>. QED BY <2>1, <2>2, CycleAssumption DEF WorkersTypeOK, WorkerStates, WorkerSteps
<1>10. CASE CycleThread \/ (\E t \in Targets : Request(t)) \/ ApiThread
          \/ (\E s \in Sessions : SessionCloses(s))
  <2>1. UNCHANGED wk
    BY <1>10, OthersLeaveWorkers
  <2>. QED BY <2>1 DEF WorkersTypeOK
<1>. QED BY <1>1, <1>2, <1>3, <1>4, <1>5, <1>6, <1>7, <1>8, <1>9, <1>10
  DEF Next, CycleThread, WorkerThread, ApiThread

\* The types of the API thread's variables are kept.
LEMMA ApiStep ==
  ASSUME TypeOK, Next PROVE ApiTypeOK'
<1> USE DEF TypeOK, SharedTypeOK, ApiTypeOK, ApiSteps
<1>1. ASSUME NEW t \in Targets, Request(t) PROVE ApiTypeOK'
  <2>1. CASE AddStream(t)
    BY <1>1, <2>1, CycleAssumption DEF Request, AddStream
  <2>2. CASE DisableMonitoring(t)
    BY <1>1, <2>2, CycleAssumption DEF Request, DisableMonitoring
  <2>3. CASE EnableMonitoring(t)
    BY <1>1, <2>3, CycleAssumption DEF Request, EnableMonitoring
  <2>4. CASE ForceCheck(t)
    BY <1>1, <2>4, CycleAssumption DEF Request, ForceCheck
  <2>. QED BY <1>1, <2>1, <2>2, <2>3, <2>4 DEF Request
<1>2. ASSUME NEW res \in Outcomes, ApiStoresCheck(res) PROVE ApiTypeOK'
  BY <1>2, CycleAssumption, StatesAreClosed DEF ApiStoresCheck
<1>3. ASSUME ForceReads PROVE ApiTypeOK'
  BY <1>3, CycleAssumption, StatesAreClosed DEF ForceReads, AfterForce,
         IdleApi
<1>4. ASSUME ForceWrites PROVE ApiTypeOK'
  BY <1>4, CycleAssumption, StatesAreClosed DEF ForceWrites, AfterForce,
         IdleApi
<1>5. ASSUME ApiStoresAgain PROVE ApiTypeOK'
  BY <1>5, CycleAssumption, StatesAreClosed DEF ApiStoresAgain
<1>6. ASSUME RegisterReads PROVE ApiTypeOK'
  BY <1>6, CycleAssumption, StatesAreClosed DEF RegisterReads, IdleApi
<1>7. ASSUME RegisterWrites PROVE ApiTypeOK'
  BY <1>7, CycleAssumption, StatesAreClosed DEF RegisterWrites
<1>8. ASSUME RegisterPrimes \/ RegisterFlags PROVE ApiTypeOK'
  <2>1. CASE RegisterPrimes
    BY <2>1 DEF RegisterPrimes
  <2>2. CASE RegisterFlags
    BY <2>2, StatesAreClosed DEF RegisterFlags, IdleApi
  <2>. QED BY <1>8, <2>1, <2>2
<1>9. ASSUME NEW t \in Targets, DeadlinePasses(t) PROVE ApiTypeOK'
  BY <1>9, CycleAssumption, StatesAreClosed DEF DeadlinePasses
<1>10. ASSUME NEW t \in Targets, RecencyPasses(t) PROVE ApiTypeOK'
  BY <1>10, CycleAssumption, StatesAreClosed DEF RecencyPasses
<1>11. CASE CycleThread \/ (\E w \in Workers : WorkerThread(w))
          \/ (\E s \in Sessions : SessionCloses(s))
  BY <1>11 DEF apiVars, CycleThread, CycleBegins, ProcessReads, ReactReads,
         Enqueues, ProcessWrites, TestsCached, ProcessPrimes, Consumes, AppliesResult, ChecksExternalStop,
         DetectsTransition, CycleStarts, CycleStarted, CycleStops,
         CycleStopped, CycleRaises, CycleCaches, WorkerThread, Dequeue,
         StoresCheck, CallbackReads, WorkerStarts, WorkerStarted,
         WorkerCaches, WorkerFlags, WorkerRaises, SessionCloses
<1>. QED BY <1>1, <1>2, <1>3, <1>4, <1>5, <1>6, <1>7, <1>8, <1>9, <1>10, <1>11
  DEF Next, CycleThread, WorkerThread, ApiThread

\* Every copy of a runtime state keeps naming a recording of its own target.
LEMMA OwnStep ==
  ASSUME TypeOK, CopiesAreOwn, Next PROVE CopiesAreOwn'
<1> USE DEF TypeOK, SharedTypeOK, CycleTypeOK, WorkersTypeOK, WorkerStates,
        ApiTypeOK, States, NewState, CopiesAreOwn, IsOwn, stateVars,
        cacheVars, recordingVars, apiVars
<1>1. ASSUME CycleBegins PROVE CopiesAreOwn'
  BY <1>1, CycleAssumption DEF CycleBegins
<1>2. ASSUME NEW t \in Targets, ProcessReads(t) PROVE CopiesAreOwn'
  BY <1>2, CycleAssumption DEF ProcessReads, GetOrCreate
<1>3. ASSUME NEW t \in Targets, ReactReads(t) PROVE CopiesAreOwn'
  BY <1>3, CycleAssumption DEF ReactReads, GetOrCreate
<1>4. ASSUME Enqueues PROVE CopiesAreOwn'
  BY <1>4, CycleAssumption DEF Enqueues
<1>5. ASSUME ProcessWrites PROVE CopiesAreOwn'
  BY <1>5, CycleAssumption DEF ProcessWrites
<1>6. ASSUME Consumes PROVE CopiesAreOwn'
  BY <1>6, CycleAssumption DEF Consumes
<1>7. ASSUME AppliesResult PROVE CopiesAreOwn'
  <2>1. /\ cyc'.copy.active = cyc.copy.active
        /\ cyc'.tgt = cyc.tgt /\ cyc'.ses = cyc.ses
    BY <1>7 DEF AppliesResult, Applied
  <2>2. \A t \in Targets :
          rt'[t].active = IF t = cyc.tgt THEN cyc.copy.active ELSE rt[t].active
    BY <1>7 DEF AppliesResult, Applied
  <2>. QED BY <1>7, <2>1, <2>2 DEF AppliesResult
<1>8. ASSUME ChecksExternalStop PROVE CopiesAreOwn'
  <2>1. CASE StoppedOutside(cyc.copy.active)
    <3>1. /\ cyc.pc = "external"
          /\ rt' = [rt EXCEPT ![cyc.tgt] = WithoutSession(cyc.copy)]
          /\ cyc' = [cyc EXCEPT !.pc = "transition", !.copy = WithoutSession(cyc.copy)]
          /\ UNCHANGED <<cacheVars, recordingVars, wk, apiVars>>
      BY <1>8, <2>1 DEF ChecksExternalStop
    <3>2. WithoutSession(cyc.copy).active = None
      BY DEF WithoutSession
    <3>. QED BY <3>1, <3>2, CycleAssumption
  <2>2. CASE ~StoppedOutside(cyc.copy.active)
    BY <1>8, <2>2, CycleAssumption DEF ChecksExternalStop
  <2>. QED BY <2>1, <2>2
<1>9. ASSUME DetectsTransition PROVE CopiesAreOwn'
  BY <1>9, CycleAssumption DEF DetectsTransition, Stored
<1>10. ASSUME NEW s \in Sessions, CycleStarts(s) PROVE CopiesAreOwn'
  BY <1>10, CycleAssumption DEF CycleStarts, SessionSaved
<1>11. ASSUME CycleStarted PROVE CopiesAreOwn'
  BY <1>11, CycleAssumption DEF CycleStarted, WithSession, Stored
<1>12. ASSUME CycleStops PROVE CopiesAreOwn'
  BY <1>12, CycleAssumption DEF CycleStops
<1>13. ASSUME CycleStopped PROVE CopiesAreOwn'
  BY <1>13, CycleAssumption DEF CycleStopped, WithoutSession, Stored
<1>14. ASSUME CycleRaises PROVE CopiesAreOwn'
  BY <1>14, CycleAssumption DEF CycleRaises, Stored
<1>15. ASSUME CycleCaches PROVE CopiesAreOwn'
  BY <1>15, CycleAssumption DEF CycleCaches, LiveFlag, IdleCycle
<1>16. ASSUME NEW w \in Workers, NEW t \in Targets, Dequeue(w, t) PROVE CopiesAreOwn'
  <2>1. wk[w].copy.active = None /\ wk[w].ses = None
    BY <1>16 DEF Dequeue
  <2>2. CASE wk' = wk
    BY <1>16, <2>2 DEF Dequeue
  <2>3. CASE wk' = [wk EXCEPT ![w] = [@ EXCEPT !.pc = "check", !.tgt = t]]
    BY <1>16, <2>1, <2>3 DEF Dequeue
  <2>. QED BY <1>16, <2>2, <2>3 DEF Dequeue
<1>17. ASSUME NEW w \in Workers, NEW res \in Outcomes, StoresCheck(w, res) PROVE CopiesAreOwn'
  BY <1>17, CycleAssumption DEF StoresCheck, IdleWorker
<1>18. ASSUME NEW w \in Workers, CallbackReads(w) PROVE CopiesAreOwn'
  BY <1>18, CycleAssumption DEF CallbackReads, GetOrCreate, IdleWorker
<1>19. ASSUME NEW w \in Workers, NEW s \in Sessions, WorkerStarts(w, s) PROVE CopiesAreOwn'
  BY <1>19, CycleAssumption DEF WorkerStarts, SessionSaved
<1>20. ASSUME NEW w \in Workers, WorkerStarted(w) PROVE CopiesAreOwn'
  BY <1>20, CycleAssumption DEF WorkerStarted, WithSession, Stored
<1>21. ASSUME NEW w \in Workers, WorkerCaches(w) PROVE CopiesAreOwn'
  BY <1>21, CycleAssumption DEF WorkerCaches
<1>22. ASSUME NEW w \in Workers, WorkerRaises(w) PROVE CopiesAreOwn'
  BY <1>22, CycleAssumption DEF WorkerRaises, IdleWorker
<1>23. ASSUME NEW t \in Targets, Request(t) PROVE CopiesAreOwn'
  <2>1. CASE AddStream(t)
    BY <1>23, <2>1, CycleAssumption DEF Request, AddStream
  <2>2. CASE DisableMonitoring(t)
    BY <1>23, <2>2, CycleAssumption DEF Request, DisableMonitoring
  <2>3. CASE EnableMonitoring(t)
    BY <1>23, <2>3, CycleAssumption DEF Request, EnableMonitoring
  <2>4. CASE ForceCheck(t)
    BY <1>23, <2>4, CycleAssumption DEF Request, ForceCheck
  <2>. QED BY <1>23, <2>1, <2>2, <2>3, <2>4 DEF Request
<1>24. ASSUME NEW res \in Outcomes, ApiStoresCheck(res) PROVE CopiesAreOwn'
  BY <1>24, CycleAssumption DEF ApiStoresCheck
<1>25. ASSUME ForceReads PROVE CopiesAreOwn'
  BY <1>25, CycleAssumption DEF ForceReads, AfterForce, IdleApi
<1>26. ASSUME ForceWrites PROVE CopiesAreOwn'
  BY <1>26, CycleAssumption DEF ForceWrites, AfterForce, IdleApi
<1>27. ASSUME ApiStoresAgain PROVE CopiesAreOwn'
  BY <1>27, CycleAssumption DEF ApiStoresAgain
<1>28. ASSUME RegisterReads PROVE CopiesAreOwn'
  BY <1>28, CycleAssumption DEF RegisterReads, IdleApi
<1>29. ASSUME RegisterWrites PROVE CopiesAreOwn'
  BY <1>29, CycleAssumption DEF RegisterWrites
<1>30. ASSUME RegisterPrimes PROVE CopiesAreOwn'
  BY <1>30, CycleAssumption DEF RegisterPrimes
<1>31. ASSUME NEW t \in Targets, DeadlinePasses(t) PROVE CopiesAreOwn'
  BY <1>31, CycleAssumption DEF DeadlinePasses
<1>32. ASSUME NEW t \in Targets, RecencyPasses(t) PROVE CopiesAreOwn'
  BY <1>32, CycleAssumption DEF RecencyPasses
<1>33. ASSUME NEW s \in Sessions, SessionCloses(s) PROVE CopiesAreOwn'
  BY <1>33, CycleAssumption DEF SessionCloses
<1>34. ASSUME TestsCached PROVE CopiesAreOwn'
  BY <1>34, CycleAssumption DEF TestsCached, NextToProcess, IdleCycle
<1>35. ASSUME ProcessPrimes PROVE CopiesAreOwn'
  BY <1>35, CycleAssumption DEF ProcessPrimes, NextToProcess, IdleCycle
<1>36. ASSUME NEW w \in Workers, WorkerFlags(w) PROVE CopiesAreOwn'
  BY <1>36, CycleAssumption DEF WorkerFlags, IdleWorker
<1>37. ASSUME RegisterFlags PROVE CopiesAreOwn'
  BY <1>37, CycleAssumption DEF RegisterFlags, IdleApi
<1>. QED BY <1>1, <1>2, <1>3, <1>4, <1>5, <1>6, <1>7, <1>8, <1>9, <1>10,
  <1>11, <1>12, <1>13, <1>14, <1>15, <1>16, <1>17, <1>18, <1>19, <1>20, <1>21,
  <1>22, <1>23, <1>24, <1>25, <1>26, <1>27, <1>28, <1>29, <1>30, <1>31, <1>32,
  <1>33, <1>34, <1>35, <1>36, <1>37
  DEF Next, CycleThread, WorkerThread, ApiThread

\* The targets of Phase B keep their cached states.
LEMMA PrimedStep ==
  ASSUME TypeOK, BatchIsPrimed, Next PROVE BatchIsPrimed'
<1> USE DEF TypeOK, SharedTypeOK, CycleTypeOK, WorkersTypeOK, WorkerStates,
        ApiTypeOK, States, BatchIsPrimed, stateVars, cacheVars, recordingVars, apiVars
<1>1. ASSUME CycleBegins PROVE BatchIsPrimed'
  BY <1>1, CycleAssumption DEF CycleBegins
<1>2. ASSUME NEW t \in Targets, ProcessReads(t) PROVE BatchIsPrimed'
  BY <1>2, CycleAssumption DEF ProcessReads, GetOrCreate
<1>3. ASSUME NEW t \in Targets, ReactReads(t) PROVE BatchIsPrimed'
  BY <1>3, CycleAssumption DEF ReactReads, GetOrCreate
<1>4. ASSUME Enqueues PROVE BatchIsPrimed'
  BY <1>4, CycleAssumption DEF Enqueues
<1>5. ASSUME ProcessWrites PROVE BatchIsPrimed'
  BY <1>5, CycleAssumption DEF ProcessWrites
<1>6. ASSUME Consumes PROVE BatchIsPrimed'
  BY <1>6, CycleAssumption DEF Consumes
<1>7. ASSUME AppliesResult PROVE BatchIsPrimed'
  BY <1>7, CycleAssumption DEF AppliesResult, Applied
<1>8. ASSUME ChecksExternalStop PROVE BatchIsPrimed'
  <2>1. CASE StoppedOutside(cyc.copy.active)
    <3>1. /\ cyc.pc = "external"
          /\ rt' = [rt EXCEPT ![cyc.tgt] = WithoutSession(cyc.copy)]
          /\ cyc' = [cyc EXCEPT !.pc = "transition", !.copy = WithoutSession(cyc.copy)]
          /\ UNCHANGED <<cacheVars, recordingVars, wk, apiVars>>
      BY <1>8, <2>1 DEF ChecksExternalStop
    <3>. QED BY <3>1
  <2>2. CASE ~StoppedOutside(cyc.copy.active)
    BY <1>8, <2>2, CycleAssumption DEF ChecksExternalStop
  <2>. QED BY <2>1, <2>2
<1>9. ASSUME DetectsTransition PROVE BatchIsPrimed'
  BY <1>9, CycleAssumption DEF DetectsTransition, Stored
<1>10. ASSUME NEW s \in Sessions, CycleStarts(s) PROVE BatchIsPrimed'
  BY <1>10, CycleAssumption DEF CycleStarts, SessionSaved
<1>11. ASSUME CycleStarted PROVE BatchIsPrimed'
  BY <1>11, CycleAssumption DEF CycleStarted, WithSession, Stored
<1>12. ASSUME CycleStops PROVE BatchIsPrimed'
  BY <1>12, CycleAssumption DEF CycleStops
<1>13. ASSUME CycleStopped PROVE BatchIsPrimed'
  BY <1>13, CycleAssumption DEF CycleStopped, WithoutSession, Stored
<1>14. ASSUME CycleRaises PROVE BatchIsPrimed'
  BY <1>14, CycleAssumption DEF CycleRaises, Stored
<1>15. ASSUME CycleCaches PROVE BatchIsPrimed'
  BY <1>15, CycleAssumption DEF CycleCaches, LiveFlag, IdleCycle
<1>16. ASSUME NEW w \in Workers, NEW t \in Targets, Dequeue(w, t) PROVE BatchIsPrimed'
  BY <1>16, CycleAssumption DEF Dequeue
<1>17. ASSUME NEW w \in Workers, NEW res \in Outcomes, StoresCheck(w, res) PROVE BatchIsPrimed'
  BY <1>17, CycleAssumption DEF StoresCheck, IdleWorker
<1>18. ASSUME NEW w \in Workers, CallbackReads(w) PROVE BatchIsPrimed'
  BY <1>18, CycleAssumption DEF CallbackReads, GetOrCreate, IdleWorker
<1>19. ASSUME NEW w \in Workers, NEW s \in Sessions, WorkerStarts(w, s) PROVE BatchIsPrimed'
  BY <1>19, CycleAssumption DEF WorkerStarts, SessionSaved
<1>20. ASSUME NEW w \in Workers, WorkerStarted(w) PROVE BatchIsPrimed'
  BY <1>20, CycleAssumption DEF WorkerStarted, WithSession, Stored
<1>21. ASSUME NEW w \in Workers, WorkerCaches(w) PROVE BatchIsPrimed'
  BY <1>21, CycleAssumption DEF WorkerCaches
<1>22. ASSUME NEW w \in Workers, WorkerRaises(w) PROVE BatchIsPrimed'
  BY <1>22, CycleAssumption DEF WorkerRaises, IdleWorker
<1>23. ASSUME NEW t \in Targets, Request(t) PROVE BatchIsPrimed'
  BY <1>23, CycleAssumption DEF Request, AddStream, DisableMonitoring,
         EnableMonitoring, ForceCheck
<1>24. ASSUME NEW res \in Outcomes, ApiStoresCheck(res) PROVE BatchIsPrimed'
  BY <1>24, CycleAssumption DEF ApiStoresCheck
<1>25. ASSUME ForceReads PROVE BatchIsPrimed'
  BY <1>25, CycleAssumption DEF ForceReads, AfterForce, IdleApi
<1>26. ASSUME ForceWrites PROVE BatchIsPrimed'
  BY <1>26, CycleAssumption DEF ForceWrites, AfterForce, IdleApi
<1>27. ASSUME ApiStoresAgain PROVE BatchIsPrimed'
  BY <1>27, CycleAssumption DEF ApiStoresAgain
<1>28. ASSUME RegisterReads PROVE BatchIsPrimed'
  BY <1>28, CycleAssumption DEF RegisterReads, IdleApi
<1>29. ASSUME RegisterWrites PROVE BatchIsPrimed'
  BY <1>29, CycleAssumption DEF RegisterWrites
<1>30. ASSUME RegisterPrimes PROVE BatchIsPrimed'
  BY <1>30, CycleAssumption DEF RegisterPrimes
<1>31. ASSUME NEW t \in Targets, DeadlinePasses(t) PROVE BatchIsPrimed'
  BY <1>31, CycleAssumption DEF DeadlinePasses
<1>32. ASSUME NEW t \in Targets, RecencyPasses(t) PROVE BatchIsPrimed'
  BY <1>32, CycleAssumption DEF RecencyPasses
<1>33. ASSUME NEW s \in Sessions, SessionCloses(s) PROVE BatchIsPrimed'
  BY <1>33, CycleAssumption DEF SessionCloses
<1>34. ASSUME TestsCached PROVE BatchIsPrimed'
  BY <1>34, CycleAssumption DEF TestsCached, NextToProcess, IdleCycle
<1>35. ASSUME ProcessPrimes PROVE BatchIsPrimed'
  BY <1>35, CycleAssumption DEF ProcessPrimes, NextToProcess, IdleCycle
<1>36. ASSUME NEW w \in Workers, WorkerFlags(w) PROVE BatchIsPrimed'
  BY <1>36, CycleAssumption DEF WorkerFlags, IdleWorker
<1>37. ASSUME RegisterFlags PROVE BatchIsPrimed'
  BY <1>37, CycleAssumption DEF RegisterFlags, IdleApi
<1>. QED BY <1>1, <1>2, <1>3, <1>4, <1>5, <1>6, <1>7, <1>8, <1>9, <1>10,
  <1>11, <1>12, <1>13, <1>14, <1>15, <1>16, <1>17, <1>18, <1>19, <1>20, <1>21,
  <1>22, <1>23, <1>24, <1>25, <1>26, <1>27, <1>28, <1>29, <1>30, <1>31, <1>32,
  <1>33, <1>34, <1>35, <1>36, <1>37
  DEF Next, CycleThread, WorkerThread, ApiThread

\* A cached state keeps its live flag, and gets it from the thread that has
\* cached it.
LEMMA FlagsStep ==
  ASSUME TypeOK, FlagsFollow, Next PROVE FlagsFollow'
<1> USE DEF TypeOK, SharedTypeOK, FlagsFollow, cacheVars, apiVars
<1>1. ASSUME CycleThread PROVE FlagsFollow'
  <2>1. UNCHANGED <<wk, api>>
    BY <1>1, OthersLeaveWorkers
       DEF CycleThread, CycleBegins, ProcessReads, ReactReads, Enqueues,
           ProcessWrites, TestsCached, ProcessPrimes, Consumes, AppliesResult,
           ChecksExternalStop, DetectsTransition, CycleStarts, CycleStarted,
           CycleStops, CycleStopped, CycleRaises, CycleCaches
  <2>2. \A t \in Targets : HalfCached(t)' = HalfCached(t)
    BY <2>1 DEF HalfCached
  <2>3. CASE ProcessPrimes
    BY <2>2, <2>3 DEF ProcessPrimes, CycleTypeOK
  <2>4. CASE CycleCaches
    BY <2>2, <2>4, StatesAreClosed DEF CycleCaches, CycleTypeOK
  <2>5. CASE UNCHANGED cacheVars
    BY <2>2, <2>5
  <2>. QED
    BY <1>1, <2>3, <2>4, <2>5
       DEF CycleThread, CycleBegins, ProcessReads, ReactReads, Enqueues,
           ProcessWrites, TestsCached, Consumes, AppliesResult,
           ChecksExternalStop, DetectsTransition, CycleStarts, CycleStarted,
           CycleStops, CycleStopped, CycleRaises
<1>2. ASSUME NEW w \in Workers, WorkerThread(w) PROVE FlagsFollow'
  <2> USE DEF WorkersTypeOK
  <2>1. UNCHANGED api /\ \A v \in Workers : v # w => wk'[v] = wk[v]
    BY <1>2 DEF WorkerThread, Dequeue, StoresCheck, CallbackReads, WorkerStarts,
                WorkerStarted, WorkerCaches, WorkerFlags, WorkerRaises
  <2>2. CASE wk[w].pc # "flag" /\ UNCHANGED cacheVars
    <3>. \A t \in Targets : HalfCached(t) => HalfCached(t)'
      BY <2>1, <2>2 DEF HalfCached
    <3>. QED BY <2>2
  <2>3. CASE WorkerCaches(w)
    \* The thread goes on to set the flag of the target it has cached.
    <3>1. wk'[w].pc = "flag" /\ wk'[w].tgt = wk[w].tgt
      BY <2>3 DEF WorkerCaches, WorkerStates
    <3>2. wk[w].pc # "flag"
      BY <2>3 DEF WorkerCaches
    <3>3. \A t \in Targets : t = wk[w].tgt \/ HalfCached(t) => HalfCached(t)'
      BY <2>1, <3>1, <3>2 DEF HalfCached
    <3>4. cached' = cached \union {wk[w].tgt} /\ lastLive' = lastLive
      BY <2>3 DEF WorkerCaches
    <3>5. wk[w].tgt \in Targets
      BY <2>3 DEF WorkerCaches, WorkerStates
    <3>. QED BY <3>3, <3>4, <3>5
  <2>4. CASE WorkerFlags(w)
    <3>1. /\ lastLive' = [lastLive EXCEPT ![wk[w].tgt] = LiveFlag(wk[w].copy)]
          /\ LiveFlag(wk[w].copy) # "unknown" /\ cached' = cached
      BY <2>4, WorkerFields, StatesAreClosed DEF WorkerFlags
    <3>2. \A t \in Targets : t # wk[w].tgt /\ HalfCached(t) => HalfCached(t)'
      BY <2>1 DEF HalfCached
    <3>. QED BY <3>1, <3>2
  <2>. QED
    BY <1>2, <2>2, <2>3, <2>4
       DEF WorkerThread, Dequeue, StoresCheck, CallbackReads, WorkerStarts,
           WorkerStarted, WorkerRaises
<1>3. ASSUME ApiThread \/ \E t \in Targets : Request(t) PROVE FlagsFollow'
  <2> USE DEF ApiTypeOK
  <2>1. UNCHANGED wk
    BY <1>3, OthersLeaveWorkers
  <2>2. CASE api.pc # "flag" /\ UNCHANGED cacheVars
    <3>. \A t \in Targets : HalfCached(t) => HalfCached(t)'
      BY <2>1, <2>2 DEF HalfCached
    <3>. QED BY <2>2
  <2>3. CASE RegisterPrimes
    <3>. \A t \in Targets : t = api.tgt \/ HalfCached(t) => HalfCached(t)'
      BY <2>1, <2>3 DEF HalfCached, RegisterPrimes
    <3>. QED BY <2>3 DEF RegisterPrimes
  <2>4. CASE RegisterFlags
    <3>. \A t \in Targets : t # api.tgt /\ HalfCached(t) => HalfCached(t)'
      BY <2>1 DEF HalfCached
    <3>. QED BY <2>4 DEF RegisterFlags
  <2>. QED
    BY <1>3, <2>2, <2>3, <2>4
       DEF Request, AddStream, DisableMonitoring, EnableMonitoring, ForceCheck,
           ApiThread, ApiStoresCheck, ForceReads, ForceWrites, ApiStoresAgain,
           RegisterReads, RegisterWrites
<1>4. ASSUME NEW t \in Targets, DeadlinePasses(t) \/ RecencyPasses(t)
      PROVE  FlagsFollow'
  <2>1. UNCHANGED cacheVars /\ api'.pc = api.pc /\ api'.tgt = api.tgt
    BY <1>4 DEF DeadlinePasses, RecencyPasses, ApiTypeOK
  <2>2. \A w \in Workers : wk'[w].pc = wk[w].pc /\ wk'[w].tgt = wk[w].tgt
    BY <1>4 DEF DeadlinePasses, RecencyPasses, WorkersTypeOK, WorkerStates
  <2>. QED BY <2>1, <2>2 DEF HalfCached
<1>5. ASSUME NEW s \in Sessions, SessionCloses(s) PROVE FlagsFollow'
  BY <1>5 DEF SessionCloses, HalfCached
<1>. QED BY <1>1, <1>2, <1>3, <1>4, <1>5 DEF Next

\* The inductive invariant of the cycle holds in every reachable state.
THEOREM CycleInvariant == Spec => []CycleInv
<1>1. Init => CycleInv
  BY CycleAssumption
  DEF Init, CycleInv, TypeOK, SharedTypeOK, CycleTypeOK, WorkersTypeOK,
      WorkerStates, ApiTypeOK, States, NewState, IdleCycle, IdleWorker, IdleApi,
      CycleSteps, WorkerSteps, ApiSteps, CopiesAreOwn, IsOwn, BatchIsPrimed,
      FlagsFollow
<1>2. CycleInv /\ Next => CycleInv'
  BY SharedStep, CycleStep, WorkersStep, ApiStep, OwnStep, PrimedStep,
     FlagsStep
  DEF CycleInv, TypeOK
<1>3. CycleInv /\ UNCHANGED vars => CycleInv'
  BY DEF CycleInv, TypeOK, SharedTypeOK, CycleTypeOK, WorkersTypeOK, ApiTypeOK,
         CopiesAreOwn, IsOwn, BatchIsPrimed, FlagsFollow, HalfCached, vars, stateVars, cacheVars, recordingVars, apiVars
<1>. QED BY <1>1, <1>2, <1>3, PTL DEF Spec

\* The variables of the cycle keep their types.
THEOREM CycleTypeCorrect == Spec => []TypeOK
<1>1. CycleInv => TypeOK BY DEF CycleInv
<1>. QED BY <1>1, CycleInvariant, PTL

\* monitoring_cycle.py: however stale the copies are that the threads write
\* back, a runtime state names a recording of its own target only, so that an
\* offline transition never stops another target's recording.
THEOREM RecordingIsOwn == Spec => []OwnRecording
<1>1. CycleInv => OwnRecording
  BY CycleAssumption DEF CycleInv, TypeOK, SharedTypeOK, States, CopiesAreOwn, IsOwn, OwnRecording
<1>. QED BY <1>1, CycleInvariant, PTL

\* monitoring_cycle.py, _run_one_cycle: Phase B always finds a cached state to
\* compare with, and skips a transition for want of a live flag only while
\* another thread is between its writes of the two.
THEOREM CacheIsPrimed == Spec => []CachePrimed
<1>1. CycleInv => CachePrimed
  BY CycleAssumption DEF CycleInv, TypeOK, CycleTypeOK, BatchIsPrimed, FlagsFollow, CachePrimed
<1>. QED BY <1>1, CycleInvariant, PTL

---------------------------------------------------------------------------
(* The table of sessions *)

\* Every step leaves the sessions alone, saves a new one, or closes one that
\* has a row.
LEMMA SessionMoves ==
  ASSUME CycleInv, Next
  PROVE  \/ UNCHANGED sess
         \/ \E t \in Targets \union {None}, s \in Sessions : SessionSaved(t, s)
         \/ \E s \in Sessions :
              sess[s] # "none" /\ sess' = [sess EXCEPT ![s] = "closed"]
<1> USE DEF CycleInv, TypeOK, recordingVars
<1>1. ASSUME NEW s \in Sessions, CycleStarts(s)
      PROVE  \E t \in Targets \union {None} : SessionSaved(t, s)
  BY <1>1 DEF CycleStarts, CycleTypeOK
<1>2. ASSUME NEW w \in Workers, NEW s \in Sessions, WorkerStarts(w, s)
      PROVE  \E t \in Targets \union {None} : SessionSaved(t, s)
  BY <1>2, WorkerFields DEF WorkerStarts
<1>3. ASSUME CycleStops
      PROVE  \/ UNCHANGED sess
             \/ \E s \in Sessions :
                  sess[s] # "none" /\ sess' = [sess EXCEPT ![s] = "closed"]
  <2>1. sess' = [sess EXCEPT ![cyc.copy.active] = "closed"]
    BY <1>3 DEF CycleStops
  <2>2. CASE cyc.copy.active = None
    BY <2>1, <2>2, CycleAssumption DEF SharedTypeOK
  <2>3. CASE cyc.copy.active # None
    \* What the cycle's copy names is a session of its target.
    <3>. cyc.copy.active \in Sessions /\ sess[cyc.copy.active] # "none"
      BY <2>3 DEF CycleTypeOK, States, CopiesAreOwn, IsOwn
    <3>. QED BY <2>1
  <2>. QED BY <2>2, <2>3
<1>4. ASSUME CycleThread, ~CycleStops, \A s \in Sessions : ~CycleStarts(s)
      PROVE  UNCHANGED sess
  BY <1>4
     DEF CycleThread, CycleBegins, ProcessReads, ReactReads, Enqueues,
         ProcessWrites, TestsCached, ProcessPrimes, Consumes, AppliesResult,
         ChecksExternalStop,
         DetectsTransition, CycleStarted, CycleStopped, CycleRaises, CycleCaches
<1>5. ASSUME NEW w \in Workers, WorkerThread(w),
             \A s \in Sessions : ~WorkerStarts(w, s)
      PROVE  UNCHANGED sess
  BY <1>5 DEF WorkerThread, Dequeue, StoresCheck, CallbackReads, WorkerStarted,
              WorkerCaches, WorkerFlags, WorkerRaises
<1>6. ASSUME ApiThread \/ \E t \in Targets : Request(t) PROVE UNCHANGED sess
  BY <1>6 DEF Request, AddStream, DisableMonitoring, EnableMonitoring,
              ForceCheck, ApiThread, ApiStoresCheck, ForceReads, ForceWrites,
              ApiStoresAgain, RegisterReads, RegisterWrites, RegisterPrimes, RegisterFlags
<1>7. ASSUME NEW t \in Targets, DeadlinePasses(t) \/ RecencyPasses(t)
      PROVE  UNCHANGED sess
  BY <1>7 DEF DeadlinePasses, RecencyPasses
<1>8. ASSUME NEW s \in Sessions, SessionCloses(s)
      PROVE  sess[s] # "none" /\ sess' = [sess EXCEPT ![s] = "closed"]
  BY <1>8 DEF SessionCloses
<1>. QED BY <1>1, <1>2, <1>3, <1>4, <1>5, <1>6, <1>7, <1>8 DEF Next

\* monitoring_cycle.py against session.py: the cycle's view of the recordings
\* is an abstraction of what RecordingService implements too: a session is
\* created once, and a closed one is never active again.
THEOREM CycleImplementsSessions == Spec => ImplementsSessions
<1>1. Init => Table!AllAbsent
  BY DEF Init, Table!AllAbsent, TableStatus
<1>2. CycleInv /\ [Next]_vars => [Table!ObservedNext]_([s \in Sessions |->
                                                         TableStatus(sess[s])])
  <2> SUFFICES ASSUME CycleInv, [Next]_vars, sess' # sess
               PROVE  Table!ObservedNext
    OBVIOUS
  <2>1. Next BY DEF vars, recordingVars
  <2>. sess \in [Sessions -> {"none", "active", "closed"}]
    BY DEF CycleInv, TypeOK, SharedTypeOK
  <2>2. ASSUME NEW t, NEW s \in Sessions, SessionSaved(t, s)
        PROVE  Table!ObservedNext
    <3>. Table!Create(s) BY <2>2 DEF SessionSaved, Table!Create, TableStatus
    <3>. QED BY DEF Table!ObservedNext
  <2>3. ASSUME NEW s \in Sessions, sess[s] # "none",
               sess' = [sess EXCEPT ![s] = "closed"]
        PROVE  Table!ObservedNext
    <3>1. sess[s] = "active" BY <2>3
    <3>2. Table!Close(s, "completed")
      BY <2>3, <3>1 DEF Table!Close, TableStatus
    <3>. QED BY <3>2 DEF Table!ObservedNext, Table!Endings
  <2>. QED BY <2>1, <2>2, <2>3, SessionMoves
<1>. QED
  BY <1>1, <1>2, CycleInvariant, PTL
     DEF Spec, ImplementsSessions, Table!ObservedSpec

---------------------------------------------------------------------------
(* Disabled targets *)

\* A step of the system that is not a request for it leaves a quiet target
\* quiet: the cycle lists enabled targets only, and no thread is at it.
LEMMA QuietStep ==
  ASSUME CycleInv, Next, NEW t \in Targets, Quiet(t), ~Request(t)
  PROVE  /\ Quiet(t)'
         /\ results'[t] = results[t]
         /\ rt'[t].active = rt[t].active
         /\ \A s \in Sessions : owner'[s] = t => owner[s] = t
<1> DEFINE Unaffected ==
      /\ Quiet(t)'
      /\ results'[t] = results[t]
      /\ rt'[t].active = rt[t].active
      /\ \A s \in Sessions : owner'[s] = t => owner[s] = t
<1> USE DEF CycleInv, TypeOK, SharedTypeOK, CycleTypeOK, Quiet, stateVars,
            cacheVars, recordingVars, apiVars
<1>0. cyc.tgt # t /\ t \notin cyc.left
  BY CycleAssumption DEF BatchIsPrimed
<1>1. ASSUME CycleBegins \/ \E u \in Targets : ProcessReads(u) \/ ReactReads(u)
      PROVE  Unaffected
  <2>1. CASE CycleBegins
    BY <2>1 DEF CycleBegins
  <2>2. ASSUME NEW u \in Targets, ProcessReads(u) PROVE Unaffected
    BY <2>2 DEF ProcessReads, GetOrCreate
  <2>3. ASSUME NEW u \in Targets, ReactReads(u) PROVE Unaffected
    BY <2>3 DEF ReactReads, GetOrCreate
  <2>. QED BY <1>1, <2>1, <2>2, <2>3
<1>2. ASSUME Enqueues \/ ProcessWrites \/ TestsCached \/ ProcessPrimes
      PROVE  Unaffected
  <2>1. CASE Enqueues
    BY <1>0, <2>1 DEF Enqueues
  <2>2. CASE ProcessWrites
    BY <1>0, <2>2 DEF ProcessWrites
  <2>3. CASE TestsCached
    BY <1>0, <2>3 DEF TestsCached, NextToProcess, IdleCycle
  <2>4. CASE ProcessPrimes
    BY <1>0, <2>4 DEF ProcessPrimes, NextToProcess, IdleCycle
  <2>. QED BY <1>2, <2>1, <2>2, <2>3, <2>4
<1>3. ASSUME Consumes \/ AppliesResult PROVE Unaffected
  BY <1>0, <1>3 DEF Consumes, AppliesResult
<1>4. ASSUME ChecksExternalStop \/ DetectsTransition PROVE Unaffected
  <2>1. CASE ChecksExternalStop
    <3>1. cyc' = [cyc EXCEPT !.pc = "transition", !.copy = WithoutSession(cyc.copy)]
          \/ cyc' = [cyc EXCEPT !.pc = "transition"]
      BY <2>1 DEF ChecksExternalStop
    <3>2. rt'[t] = rt[t]
      BY <1>0, <2>1 DEF ChecksExternalStop
    <3>. QED BY <2>1, <3>1, <3>2 DEF ChecksExternalStop
  <2>2. CASE DetectsTransition
    <3>1. cyc'.batch = cyc.batch
      BY <2>2 DEF DetectsTransition
    <3>. QED BY <2>2, <3>1 DEF DetectsTransition
  <2>. QED BY <1>4, <2>1, <2>2
<1>5. ASSUME (\E s \in Sessions : CycleStarts(s)) \/ CycleStarted
      PROVE  Unaffected
  <2>1. ASSUME NEW s \in Sessions, CycleStarts(s) PROVE Unaffected
    BY <1>0, <2>1 DEF CycleStarts, SessionSaved
  <2>2. CASE CycleStarted
    BY <1>0, <2>2 DEF CycleStarted
  <2>. QED BY <1>5, <2>1, <2>2
<1>6. ASSUME CycleStops \/ CycleStopped \/ CycleRaises PROVE Unaffected
  BY <1>0, <1>6 DEF CycleStops, CycleStopped, CycleRaises
<1>7. ASSUME CycleCaches PROVE Unaffected
  BY <1>0, <1>7 DEF CycleCaches, IdleCycle
<1>8. ASSUME NEW w \in Workers, WorkerThread(w) PROVE Unaffected
  <2> USE WorkerFields, CycleAssumption DEF WorkersTypeOK
  <2>1. ASSUME NEW u \in Targets, Dequeue(w, u) PROVE Unaffected
    \* There is no entry of t in the queues.
    <3>1. u # t BY <2>1 DEF Dequeue
    <3>2. \A v \in Workers : wk'[v].tgt = wk[v].tgt \/ wk'[v].tgt = u
      <4>1. CASE UNCHANGED wk BY <4>1
      <4>2. CASE wk' = [wk EXCEPT ![w] = [@ EXCEPT !.pc = "check", !.tgt = u]]
        BY <4>2 DEF WorkerStates
      <4>. QED BY <2>1, <4>1, <4>2 DEF Dequeue
    <3>. QED BY <2>1, <3>1, <3>2 DEF Dequeue
  <2>2. CASE \E res \in Outcomes : StoresCheck(w, res)
    BY <2>2 DEF StoresCheck, IdleWorker
  <2>3. CASE CallbackReads(w)
    BY <2>3 DEF CallbackReads, GetOrCreate, IdleWorker
  <2>4. CASE \E s \in Sessions : WorkerStarts(w, s)
    BY <2>4 DEF WorkerStarts, SessionSaved
  <2>5. CASE WorkerStarted(w)
    BY <2>5 DEF WorkerStarted
  <2>6. CASE WorkerCaches(w) \/ WorkerFlags(w) \/ WorkerRaises(w)
    <3>1. \A v \in Workers : wk'[v].tgt \in {wk[v].tgt, None}
      <4>1. CASE WorkerCaches(w)
        BY <4>1 DEF WorkerCaches, WorkerStates
      <4>2. CASE WorkerFlags(w) \/ WorkerRaises(w)
        BY <4>2 DEF WorkerFlags, WorkerRaises, IdleWorker
      <4>. QED BY <2>6, <4>1, <4>2
    <3>. QED BY <2>6, <3>1 DEF WorkerCaches, WorkerFlags, WorkerRaises
  <2>. QED BY <1>8, <2>1, <2>2, <2>3, <2>4, <2>5, <2>6 DEF WorkerThread
<1>9. ASSUME NEW u \in Targets, Request(u) PROVE Unaffected
  <2>1. u # t BY <1>9
  <2>2. UNCHANGED <<rt, results, queue, owner, cyc, wk>>
    BY <1>9 DEF Request, AddStream, DisableMonitoring, EnableMonitoring,
                ForceCheck
  <2>3. target'[t] = target[t]
    BY <1>9, <2>1 DEF Request, AddStream, DisableMonitoring, EnableMonitoring,
                      ForceCheck
  <2>4. api'.tgt \in {api.tgt, u}
    BY <1>9 DEF Request, AddStream, DisableMonitoring, EnableMonitoring,
                ForceCheck, ApiTypeOK
  <2>. QED BY <2>1, <2>2, <2>3, <2>4
<1>10. ASSUME ApiThread PROVE Unaffected
  <2> USE CycleAssumption DEF ApiTypeOK
  <2>1. CASE \E res \in Outcomes : ApiStoresCheck(res)
    BY <2>1 DEF ApiStoresCheck
  <2>2. CASE ForceReads
    BY <2>2 DEF ForceReads, AfterForce, IdleApi
  <2>3. CASE ForceWrites
    BY <2>3 DEF ForceWrites, AfterForce, IdleApi
  <2>4. CASE ApiStoresAgain
    BY <2>4 DEF ApiStoresAgain
  <2>5. CASE RegisterReads
    BY <2>5 DEF RegisterReads, IdleApi
  <2>6. CASE RegisterWrites \/ RegisterPrimes \/ RegisterFlags
    BY <2>6 DEF RegisterWrites, RegisterPrimes, RegisterFlags, IdleApi
  <2>. QED BY <1>10, <2>1, <2>2, <2>3, <2>4, <2>5, <2>6 DEF ApiThread
<1>11. ASSUME NEW u \in Targets, DeadlinePasses(u) \/ RecencyPasses(u)
       PROVE  Unaffected
  <2>1. rt'[t].active = rt[t].active
    BY <1>11 DEF DeadlinePasses, RecencyPasses, States
  <2>2. cyc'.batch = cyc.batch /\ api'.tgt = api.tgt
    BY <1>11 DEF DeadlinePasses, RecencyPasses, ApiTypeOK
  <2>3. \A w \in Workers : wk'[w].tgt = wk[w].tgt
    BY <1>11 DEF DeadlinePasses, RecencyPasses, WorkersTypeOK, WorkerStates
  <2>. QED BY <1>11, <2>1, <2>2, <2>3 DEF DeadlinePasses, RecencyPasses
<1>12. ASSUME NEW s \in Sessions, SessionCloses(s) PROVE Unaffected
  BY <1>12 DEF SessionCloses
<1>. QED
  BY <1>1, <1>2, <1>3, <1>4, <1>5, <1>6, <1>7, <1>8, <1>9, <1>10, <1>11, <1>12
     DEF Next, CycleThread

\* disable_monitoring.py: once what was under way for it is over, a disabled
\* target is left alone until the next request for it.
THEOREM DisabledTargetStaysQuiet == Spec => DisabledStaysQuiet
<1>1. CycleInv /\ [Next]_vars
        => [\A t \in Targets : Quiet(t) =>
              \/ Request(t)
              \/ /\ Quiet(t)'
                 /\ results'[t] = results[t]
                 /\ rt'[t].active = rt[t].active
                 /\ \A s \in Sessions : owner'[s] = t => owner[s] = t]_vars
  BY QuietStep
<1>. QED BY <1>1, CycleInvariant, PTL DEF Spec, DisabledStaysQuiet

=============================================================================
