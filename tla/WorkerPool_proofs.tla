--------------------------- MODULE WorkerPool_proofs ---------------------------
(***************************************************************************)
(* The safety properties of the worker pool, for any number of bands,      *)
(* platforms and threads, and for any thresholds and limits.               *)
(*                                                                         *)
(* Which threads there are changes in three places only: Start makes one   *)
(* for each band, StartsThread one more, and Removes takes one away.  The  *)
(* lists follow, with the thread the monitor has in its hands as the only  *)
(* difference (ListedAreAlive), so that the counts the monitor decides by  *)
(* are the numbers of threads, and nobody but the monitor adds to them     *)
(* before it has added its own (RoomForBoost).                             *)
(***************************************************************************)
EXTENDS WorkerPool, FiniteSetTheorems, TLAPS

\* Sets of threads are finite, and their cardinalities behave.
LEMMA ThreadSets ==
  ASSUME NEW S \in SUBSET Threads
  PROVE  /\ IsFiniteSet(S) /\ Cardinality(S) \in Nat
         /\ \A T \in SUBSET S : Cardinality(T) <= Cardinality(S)
         /\ \A t : Cardinality(S \union {t}) =
                     IF t \in S THEN Cardinality(S) ELSE Cardinality(S) + 1
         /\ \A t : Cardinality(S \ {t}) =
                     IF t \in S THEN Cardinality(S) - 1 ELSE Cardinality(S)
<1>1. IsFiniteSet(Bands)
  BY FS_Interval, PoolAssumption DEF Bands
<1>2. IsFiniteSet(Threads)
  BY <1>1, FS_Product, PoolAssumption DEF Threads
<1>3. IsFiniteSet(S) /\ Cardinality(S) \in Nat
  BY <1>2, FS_Subset, FS_CardinalityType
<1>4. \A T \in SUBSET S : Cardinality(T) <= Cardinality(S)
  BY <1>3, FS_Subset
<1> QED
  BY <1>3, <1>4, FS_AddElement, FS_RemoveElement

\* Every thread has a band, and is not None.
LEMMA ThreadsHaveBands ==
  ASSUME NEW t \in Threads
  PROVE  BandOf(t) \in Bands /\ t # None
BY PoolAssumption DEF Threads, BandOf

\* What the threads of a band and the checks of a platform are made of.
LEMMA SetsOfThreads ==
  /\ \A b : ThreadsOf(b) \in SUBSET Threads /\ ThreadsOf(b)' \in SUBSET Threads
  /\ \A p : Checks(p) \in SUBSET Threads /\ Checks(p)' \in SUBSET Threads
BY DEF ThreadsOf, Checks

\* The states a worker is put in.
LEMMA WorkerStates ==
  /\ NoThread = [pc |-> "none", plat |-> None, seen |-> 0]
  /\ Looping = [pc |-> "loop", plat |-> None, seen |-> 0]
  /\ [NoThread EXCEPT !.pc = "remove"] = [pc |-> "remove", plat |-> None, seen |-> 0]
  /\ [NoThread EXCEPT !.pc = "ended"] = [pc |-> "ended", plat |-> None, seen |-> 0]
BY DEF NoThread, Looping

\* The bounds that are numbers.
LEMMA Bounds == {MaxTotal, MaxDepth, MaxToStop, MaxPerBand, Limit, NumBands} \subseteq Nat
BY PoolAssumption

\* What TypeOK says of a worker, and of the monitor.
WorkerState == [pc: WorkerSteps, plat: Platforms \union {None}, seen: Int]
MonitorState == [pc: MonitorSteps, add: Bands \union {None}, thread: Threads \union {None},
                 rem: Bands \union {None}, seen: Int]

\* A step of thread t that gives it the state v keeps the type of wk, and
\* leaves the other threads alone.
LEMMA OneThreadMoves ==
  ASSUME TypeOK, NEW t \in Threads, NEW v, wk' = [wk EXCEPT ![t] = v]
  PROVE  /\ wk'[t] = v
         /\ \A u \in Threads : u # t => wk'[u] = wk[u]
         /\ /\ v \in WorkerState
            /\ v.plat # None <=> v.pc \in {"acquire", "check"}
            => /\ wk' \in [Threads -> WorkerState]
               /\ \A u \in Threads :
                    wk'[u].plat # None <=> wk'[u].pc \in {"acquire", "check"}
BY DEF TypeOK, WorkerState

\* The type invariant of wk, by name.
LEMMA WkType ==
  ASSUME TypeOK
  PROVE  /\ wk \in [Threads -> WorkerState]
         /\ \A t \in Threads : wk[t].plat # None <=> wk[t].pc \in {"acquire", "check"}
BY DEF TypeOK, WorkerState

\* The workers that start puts on the lists: one for each band.
BaseWorkers == {<<b, CHOOSE k \in Places : TRUE>> : b \in Bands}

LEMMA BaseIsOnePerBand ==
  /\ BaseWorkers \in SUBSET Threads
  /\ \A b \in Bands : {t \in BaseWorkers : BandOf(t) = b}
                        = {<<b, CHOOSE k \in Places : TRUE>>}
<1>1. (CHOOSE k \in Places : TRUE) \in Places
  BY PoolAssumption
<1> QED
  BY <1>1 DEF BaseWorkers, Threads, BandOf

---------------------------------------------------------------------------
(* The types *)

\* TypeOK is kept when a worker takes a step.
LEMMA WorkerKeepsType ==
  ASSUME TypeOK, SlotsConserved, NEW t \in Threads, Worker(t)
  PROVE  TypeOK'
<1> USE DEF WorkerSteps
<1>1. /\ wk \in [Threads -> WorkerState]
      /\ \A u \in Threads : wk[u].plat # None <=> wk[u].pc \in {"acquire", "check"}
  BY WkType
<1>2. BandOf(t) \in Bands
  BY ThreadsHaveBands
<1>3. toStop \in [Bands -> Int] /\ None \notin Platforms
  BY PoolAssumption DEF TypeOK
<1>4. SUFFICES /\ wk' \in [Threads -> WorkerState]
               /\ \A u \in Threads :
                    wk'[u].plat # None <=> wk'[u].pc \in {"acquire", "check"}
               /\ workers' \in [Bands -> SUBSET Threads]
               /\ toStop' \in [Bands -> Int]
               /\ depth' \in [Bands -> 0 .. MaxDepth]
               /\ slots' \in [Platforms -> 0 .. Limit]
               /\ UNCHANGED <<mon, idle, phase>>
  BY DEF TypeOK, WorkerState
<1>5. CASE Ends(t)
  BY <1>1, <1>5, WorkerStates DEF Ends, TypeOK, poolVars, monVars, WorkerState
<1>6. CASE SeesRemoval(t)
  BY <1>1, <1>6 DEF SeesRemoval, TypeOK, poolVars, monVars, WorkerState
<1>7. CASE Locks(t)
  BY <1>1, <1>2, <1>3, <1>7 DEF Locks, TypeOK, poolVars, monVars, WorkerState
<1>8. CASE Decrements(t)
  <2>1. toStop' \in [Bands -> Int]
    BY <1>1, <1>2, <1>3, <1>8 DEF Decrements, WorkerState
  <2>2. /\ wk' \in [Threads -> WorkerState]
        /\ \A u \in Threads : wk'[u].plat # None <=> wk'[u].pc \in {"acquire", "check"}
    BY <1>1, <1>8, WorkerStates DEF Decrements, WorkerState
  <2> QED
    BY <1>8, <2>1, <2>2 DEF Decrements, TypeOK, monVars
<1>9. CASE Removes(t)
  <2>1. workers' \in [Bands -> SUBSET Threads]
    BY <1>2, <1>9 DEF Removes, TypeOK
  <2>2. /\ wk' \in [Threads -> WorkerState]
        /\ \A u \in Threads : wk'[u].plat # None <=> wk'[u].pc \in {"acquire", "check"}
    BY <1>1, <1>9, WorkerStates DEF Removes, WorkerState
  <2> QED
    BY <1>9, <2>1, <2>2 DEF Removes, TypeOK, monVars
<1>10. CASE Dequeues(t)
  <2>1. depth' \in [Bands -> 0 .. MaxDepth]
    <3>1. depth \in [Bands -> 0 .. MaxDepth] /\ MaxDepth \in Nat
      BY Bounds DEF TypeOK
    <3>2. depth[BandOf(t)] > 0 /\ depth' = [depth EXCEPT ![BandOf(t)] = @ - 1]
      BY <1>10 DEF Dequeues
    <3> QED
      BY <1>2, <3>1, <3>2
  <2>2. CASE UNCHANGED wk
    BY <1>1, <1>10, <2>1, <2>2 DEF Dequeues, TypeOK, poolVars, monVars, WorkerState
  <2>3. CASE \E p \in Platforms :
               wk' = [wk EXCEPT ![t] = [@ EXCEPT !.pc = "acquire", !.plat = p]]
    <3>1. PICK p \in Platforms :
            wk' = [wk EXCEPT ![t] = [@ EXCEPT !.pc = "acquire", !.plat = p]]
      BY <2>3
    <3>2. p # None
      BY <1>3
    <3>3. /\ wk' \in [Threads -> WorkerState]
          /\ \A u \in Threads : wk'[u].plat # None <=> wk'[u].pc \in {"acquire", "check"}
      BY <1>1, <3>1, <3>2 DEF WorkerState
    <3> QED
      BY <1>10, <2>1, <3>3 DEF Dequeues, TypeOK, poolVars, monVars
  <2> QED
    BY <1>10, <2>2, <2>3 DEF Dequeues
<1>11. CASE Acquires(t)
  BY <1>1, <1>11, PoolAssumption DEF Acquires, TypeOK, poolVars, monVars, WorkerState
<1>12. CASE Releases(t)
  <2> DEFINE p == wk[t].plat
  <2>1. p \in Platforms /\ t \in Checks(p)
    BY <1>1, <1>12 DEF Releases, WorkerState, Checks
  <2>2. Cardinality(Checks(p)) \in Nat /\ Cardinality(Checks(p) \ {t}) \in Nat
    BY SetsOfThreads, ThreadSets
  <2>3. Cardinality(Checks(p)) > 0
    BY <2>1, <2>2, SetsOfThreads, ThreadSets
  <2>4. slots[p] < Limit
    BY <2>1, <2>2, <2>3, PoolAssumption DEF SlotsConserved, TypeOK
  <2>5. slots' \in [Platforms -> 0 .. Limit]
    BY <1>12, <2>1, <2>4, PoolAssumption DEF Releases, TypeOK
  <2> QED
    BY <1>1, <1>12, <2>5, WorkerStates DEF Releases, TypeOK, poolVars, monVars, WorkerState
<1> QED
  BY <1>5, <1>6, <1>7, <1>8, <1>9, <1>10, <1>11, <1>12 DEF Worker

\* TypeOK is kept by start and stop, by the cycle that enqueues, by time and by
\* the monitor.
LEMMA OthersKeepType ==
  ASSUME TypeOK, MonitorInv,
         Start \/ Stop \/ (\E b \in Bands : Enqueue(b)) \/ Monitor \/ IdleTimePasses
  PROVE  TypeOK'
<1> USE DEF WorkerSteps, MonitorSteps
<1>1. /\ wk \in [Threads -> WorkerState]
      /\ \A u \in Threads : wk[u].plat # None <=> wk[u].pc \in {"acquire", "check"}
  BY WkType
<1>2. CASE Start
  <2>1. /\ workers' = [b \in Bands |-> {t \in BaseWorkers : BandOf(t) = b}]
        /\ wk' = [t \in Threads |-> IF t \in BaseWorkers THEN Looping ELSE NoThread]
    BY <1>2 DEF Start, BaseWorkers
  <2>2. workers' \in [Bands -> SUBSET Threads]
    BY <2>1, BaseIsOnePerBand
  <2>3. /\ wk' \in [Threads -> WorkerState]
        /\ \A u \in Threads : wk'[u].plat # None <=> wk'[u].pc \in {"acquire", "check"}
    BY <2>1, WorkerStates DEF WorkerState
  <2> QED
    BY <1>2, <2>2, <2>3 DEF Start, TypeOK, monVars, WorkerState
<1>3. CASE Stop
  BY <1>3 DEF Stop, TypeOK, poolVars, monVars
<1>4. CASE \E b \in Bands : Enqueue(b)
  BY <1>4, Bounds DEF Enqueue, TypeOK, poolVars, monVars
<1>5. CASE IdleTimePasses
  BY <1>5 DEF IdleTimePasses, TypeOK, poolVars
<1>6. CASE Monitor
  <2>1. /\ mon \in MonitorState /\ idle \in {"off", "on", "over"}
        /\ workers \in [Bands -> SUBSET Threads] /\ toStop \in [Bands -> Int]
        /\ At("wait", None, None) \in MonitorState
        /\ \A b, c \in Bands \union {None} :
             At("start", b, c) \in MonitorState /\ At("remove", b, c) \in MonitorState
    BY DEF TypeOK, MonitorState, At
  <2>2. SUFFICES /\ mon' \in MonitorState /\ idle' \in {"off", "on", "over"}
                 /\ workers' \in [Bands -> SUBSET Threads] /\ toStop' \in [Bands -> Int]
                 /\ wk' \in [Threads -> WorkerState]
                 /\ \A u \in Threads :
                      wk'[u].plat # None <=> wk'[u].pc \in {"acquire", "check"}
                 /\ UNCHANGED <<depth, slots, phase>>
    BY DEF TypeOK, MonitorState, WorkerState
  <2> USE <1>1, <2>1 DEF poolVars, Waiting
  <2>3. CASE Wakes
    BY <2>3 DEF Wakes, MonitorState
  <2>4. CASE \E b \in Bands : NoticesIdle(b)
    BY <2>4 DEF NoticesIdle
  <2>5. CASE \E b \in Bands : ScalesDown(b)
    BY <2>5 DEF ScalesDown
  <2>6. CASE \E b \in Bands : ScalesUp(b)
    BY <2>6 DEF ScalesUp
  <2>7. CASE \E b, c \in Bands : Reassigns(b, c)
    BY <2>7 DEF Reassigns
  <2>8. CASE LeavesAlone
    BY <2>8 DEF LeavesAlone
  <2>9. CASE \E t \in Threads : StartsThread(t)
    <3> PICK t \in Threads : StartsThread(t)
      BY <2>9
    <3>1. /\ wk' = [wk EXCEPT ![t] = Looping]
          /\ mon' = [mon EXCEPT !.pc = "append", !.thread = t]
          /\ UNCHANGED <<workers, toStop, depth, slots, idle, phase>>
      BY DEF StartsThread
    <3>2. mon' \in MonitorState
      BY <3>1 DEF MonitorState
    <3>3. /\ wk' \in [Threads -> WorkerState]
          /\ \A u \in Threads :
               wk'[u].plat # None <=> wk'[u].pc \in {"acquire", "check"}
      BY <3>1, WorkerStates DEF WorkerState
    <3> QED
      BY <3>1, <3>2, <3>3
  <2>10. CASE Appends
    <3>1. mon.add \in Bands /\ mon.thread \in Threads
      BY <2>10 DEF Appends, MonitorInv, ThreadsOf
    <3>2. mon' \in MonitorState
      BY <2>10 DEF Appends, MonitorState
    <3> QED
      BY <2>10, <3>1, <3>2 DEF Appends
  <2>11. CASE ReadsToStop
    <3>1. toStop[mon.rem] \in Int
      BY <2>11 DEF ReadsToStop, MonitorInv
    <3>2. \/ mon' = At("wait", None, None)
          \/ mon' = [mon EXCEPT !.pc = "increment", !.seen = toStop[mon.rem]]
      BY <2>11 DEF ReadsToStop
    <3>3. mon' \in MonitorState
      BY <3>1, <3>2 DEF MonitorState
    <3> QED
      BY <2>11, <3>3 DEF ReadsToStop
  <2>12. CASE Increments
    <3>1. mon.rem \in Bands /\ mon.seen + 1 \in Int
      BY <2>12 DEF Increments, MonitorInv, MonitorState
    <3> QED
      BY <2>12, <3>1 DEF Increments
  <2> QED
    BY <1>6, <2>3, <2>4, <2>5, <2>6, <2>7, <2>8, <2>9, <2>10, <2>11, <2>12 DEF Monitor
<1> QED
  BY <1>2, <1>3, <1>4, <1>5, <1>6

---------------------------------------------------------------------------
(* What a step does to the threads and the lists *)

\* A step of a worker is its own: a thread that runs either goes on and leaves
\* the lists alone, or takes itself off its list and is gone; and only Acquires
\* and Releases begin and end a check.
LEMMA WorkerStep ==
  ASSUME TypeOK, NEW t \in Threads, Worker(t)
  PROVE  /\ \A u \in Threads : u # t => wk'[u] = wk[u]
         /\ wk[t].pc # "none" /\ UNCHANGED <<mon, phase>>
         /\ \/ wk'[t].pc # "none" /\ workers' = workers
            \/ /\ wk'[t].pc = "none" /\ t \in workers[BandOf(t)]
               /\ workers' = [workers EXCEPT ![BandOf(t)] = @ \ {t}]
         /\ \/ Acquires(t)
            \/ Releases(t)
            \/ wk[t].pc # "check" /\ wk'[t].pc # "check" /\ slots' = slots
<1>1. wk \in [Threads -> WorkerState]
  BY WkType
<1> USE <1>1 DEF WorkerState, poolVars, monVars
<1>2. CASE Ends(t)
  BY <1>2, WorkerStates DEF Ends
<1>3. CASE SeesRemoval(t)
  BY <1>3 DEF SeesRemoval
<1>4. CASE Locks(t)
  BY <1>4 DEF Locks
<1>5. CASE Decrements(t)
  BY <1>5, WorkerStates DEF Decrements
<1>6. CASE Removes(t)
  BY <1>6, WorkerStates DEF Removes
<1>7. CASE Dequeues(t)
  <2>1. CASE UNCHANGED wk
    BY <1>7, <2>1 DEF Dequeues
  <2>2. CASE \E p \in Platforms :
               wk' = [wk EXCEPT ![t] = [@ EXCEPT !.pc = "acquire", !.plat = p]]
    BY <1>7, <2>2 DEF Dequeues
  <2> QED
    BY <1>7, <2>1, <2>2 DEF Dequeues
<1>8. CASE Acquires(t)
  BY <1>8 DEF Acquires
<1>9. CASE Releases(t)
  BY <1>9, WorkerStates DEF Releases
<1> QED
  BY <1>2, <1>3, <1>4, <1>5, <1>6, <1>7, <1>8, <1>9 DEF Worker

\* A step of the monitor starts a thread, puts it on its list, or leaves threads
\* and lists alone and goes where it has a band to work on.
LEMMA MonitorStep ==
  ASSUME TypeOK, MonitorInv, Monitor
  PROVE  /\ UNCHANGED <<slots, phase>> /\ (mon.pc = "wait" => phase = "up")
         /\ \/ \E t \in Threads : StartsThread(t)
            \/ Appends
            \/ /\ UNCHANGED <<wk, workers>>
               /\ mon.pc # "append" /\ mon.thread = None
               /\ mon'.pc # "append" /\ mon'.thread = None
               /\ mon'.pc = "start" => mon'.add \in Bands /\ Congested(mon'.add)
               /\ mon'.pc \in {"remove", "increment"} => mon'.rem \in Bands
<1>1. mon \in MonitorState
  BY DEF TypeOK, MonitorState
<1> USE <1>1 DEF MonitorState, MonitorInv, Waiting, At, Looks, poolVars
<1>2. CASE Wakes
  BY <1>2 DEF Wakes
<1>3. CASE \E b \in Bands : NoticesIdle(b)
  BY <1>3 DEF NoticesIdle
<1>4. CASE \E b \in Bands : ScalesDown(b)
  BY <1>4 DEF ScalesDown
<1>5. CASE \E b \in Bands : ScalesUp(b)
  BY <1>5 DEF ScalesUp, Candidates
<1>6. CASE \E b, c \in Bands : Reassigns(b, c)
  BY <1>6 DEF Reassigns
<1>7. CASE LeavesAlone
  BY <1>7 DEF LeavesAlone
<1>8. CASE \E t \in Threads : StartsThread(t)
  BY <1>8 DEF StartsThread
<1>9. CASE Appends
  BY <1>9 DEF Appends
<1>10. CASE ReadsToStop
  <2>1. CASE mon' = Waiting
    BY <1>10, <2>1 DEF ReadsToStop
  <2>2. CASE mon' = [mon EXCEPT !.pc = "increment", !.seen = toStop[mon.rem]]
    <3>1. mon'.pc = "increment" /\ mon'.thread = mon.thread /\ mon'.rem = mon.rem
      BY <2>2
    <3> QED
      BY <1>10, <3>1 DEF ReadsToStop
  <2> QED
    BY <1>10, <2>1, <2>2 DEF ReadsToStop
<1>11. CASE Increments
  BY <1>11 DEF Increments
<1> QED
  BY <1>2, <1>3, <1>4, <1>5, <1>6, <1>7, <1>8, <1>9, <1>10, <1>11 DEF Monitor

\* Start makes one listed thread for each band, where there was none.
LEMMA StartStep ==
  ASSUME TypeOK, NewIsEmpty, Start
  PROVE  /\ \A t \in Threads : wk[t].pc = "none"
         /\ wk' = [t \in Threads |-> IF t \in BaseWorkers THEN Looping ELSE NoThread]
         /\ \A b \in Bands : /\ ThreadsOf(b)' = {<<b, CHOOSE k \in Places : TRUE>>}
                             /\ workers'[b] = ThreadsOf(b)'
         /\ mon.pc = "wait" /\ UNCHANGED <<mon, slots>> /\ phase' = "up"
<1>1. /\ workers' = [b \in Bands |-> {t \in BaseWorkers : BandOf(t) = b}]
      /\ wk' = [t \in Threads |-> IF t \in BaseWorkers THEN Looping ELSE NoThread]
  BY DEF Start, BaseWorkers
<1>2. \A t \in Threads : wk'[t].pc # "none" <=> t \in BaseWorkers
  BY <1>1, WorkerStates
<1>3. \A b \in Bands : ThreadsOf(b)' = {t \in BaseWorkers : BandOf(t) = b}
  BY <1>2, BaseIsOnePerBand DEF ThreadsOf
<1> QED
  BY <1>1, <1>3, BaseIsOnePerBand DEF Start, NewIsEmpty, monVars

\* How the threads of a band change with the threads.
LEMMA ThreadsFollow ==
  ASSUME TypeOK, NEW b \in Bands
  PROVE  /\ (\A t \in Threads : wk'[t].pc # "none" <=> wk[t].pc # "none")
              => ThreadsOf(b)' = ThreadsOf(b)
         /\ \A t \in Threads :
              /\ \A u \in Threads : u # t => wk'[u] = wk[u]
              /\ wk'[t].pc = "none"
              => ThreadsOf(b)' = ThreadsOf(b) \ {t}
         /\ \A t \in Threads :
              /\ \A u \in Threads : u # t => wk'[u] = wk[u]
              /\ wk'[t].pc # "none"
              => ThreadsOf(b)' = IF BandOf(t) = b THEN ThreadsOf(b) \union {t}
                                                  ELSE ThreadsOf(b)
BY DEF ThreadsOf

\* What StartsThread does to them.
LEMMA StartsThreadStep ==
  ASSUME TypeOK, NEW t \in Threads, StartsThread(t)
  PROVE  /\ BandOf(t) = mon.add /\ wk[t].pc = "none"
         /\ UNCHANGED <<workers, slots, phase>>
         /\ wk'[t].pc # "none" /\ wk'[t].pc # "check"
         /\ \A u \in Threads : u # t => wk'[u] = wk[u]
         /\ mon.pc = "start" /\ mon'.pc = "append" /\ mon'.thread = t /\ mon'.add = mon.add
BY WkType, WorkerStates DEF StartsThread, WorkerState, TypeOK, poolVars

---------------------------------------------------------------------------
(* The parts of the invariant *)

\* The steps of the pool, by who takes them.
LEMMA StepIsOf ==
  ASSUME [Next]_vars
  PROVE  \/ Start
         \/ \E t \in Threads : Worker(t)
         \/ Monitor
         \/ /\ UNCHANGED <<workers, wk, slots, mon>>
            /\ phase' = phase \/ (phase = "up" /\ phase' = "stopping")
BY DEF Next, vars, Stop, Enqueue, IdleTimePasses, poolVars, monVars

\* The types are kept.
LEMMA TypeStep == PoolInv /\ [Next]_vars => TypeOK'
<1> SUFFICES ASSUME PoolInv, [Next]_vars PROVE TypeOK'
  OBVIOUS
<1>1. CASE UNCHANGED vars
  BY <1>1 DEF vars, PoolInv, TypeOK
<1>2. CASE \E t \in Threads : Worker(t)
  BY <1>2, WorkerKeepsType DEF PoolInv
<1> QED
  BY <1>1, <1>2, OthersKeepType DEF Next, PoolInv

\* Slots are neither lost nor made up.
LEMMA SlotsStep == PoolInv /\ [Next]_vars => SlotsConserved'
<1> SUFFICES ASSUME PoolInv, [Next]_vars, NEW p \in Platforms
             PROVE  slots'[p] + Cardinality(Checks(p)') = Limit
  BY DEF SlotsConserved
<1>1. TypeOK /\ MonitorInv /\ NewIsEmpty /\ slots[p] + Cardinality(Checks(p)) = Limit
  BY DEF PoolInv, SlotsConserved
<1>2. slots \in [Platforms -> 0 .. Limit] /\ Limit \in Nat /\ Cardinality(Checks(p)) \in Nat
  BY <1>1, Bounds, SetsOfThreads, ThreadSets DEF TypeOK
<1>3. ASSUME slots' = slots,
             \A u \in Threads : wk'[u] = wk[u] \/ (wk[u].pc # "check" /\ wk'[u].pc # "check")
      PROVE  slots'[p] + Cardinality(Checks(p)') = Limit
  <2>1. Checks(p)' = Checks(p)
    BY <1>3 DEF Checks
  <2> QED
    BY <1>1, <1>3, <2>1
<1>4. CASE Start
  BY <1>1, <1>3, <1>4, StartStep, WorkerStates
<1>5. CASE Monitor
  <2>1. CASE \E t \in Threads : StartsThread(t)
    BY <1>1, <1>3, <2>1, StartsThreadStep
  <2>2. CASE UNCHANGED wk
    BY <1>1, <1>3, <1>5, <2>2, MonitorStep
  <2> QED
    BY <1>1, <1>5, <2>1, <2>2, MonitorStep DEF Appends
<1>6. CASE \E t \in Threads : Worker(t)
  <2> PICK t \in Threads : Worker(t)
    BY <1>6
  <2>1. /\ \A u \in Threads : u # t => wk'[u] = wk[u]
        /\ \/ Acquires(t)
           \/ Releases(t)
           \/ wk[t].pc # "check" /\ wk'[t].pc # "check" /\ slots' = slots
    BY <1>1, WorkerStep
  <2>2. /\ wk \in [Threads -> WorkerState]
        /\ wk[t].plat # None <=> wk[t].pc \in {"acquire", "check"}
        /\ None \notin Platforms
    BY <1>1, WkType, PoolAssumption
  <2>3. CASE wk[t].plat # p /\ (Acquires(t) \/ Releases(t))
    <3>1. slots'[p] = slots[p]
      BY <1>2, <2>3 DEF Acquires, Releases
    <3>2. Checks(p)' = Checks(p)
      BY <2>1, <2>2, <2>3, WorkerStates DEF Acquires, Releases, Checks, WorkerState
    <3> QED
      BY <1>1, <3>1, <3>2
  <2>4. CASE wk[t].plat = p /\ Acquires(t)
    <3>1. slots'[p] = slots[p] - 1 /\ wk'[t].pc = "check" /\ wk'[t].plat = p /\ t \notin Checks(p)
      BY <1>2, <2>2, <2>4 DEF Acquires, Checks, WorkerState
    <3>2. Checks(p)' = Checks(p) \union {t}
      BY <2>1, <3>1 DEF Checks
    <3>3. Cardinality(Checks(p)') = Cardinality(Checks(p)) + 1
      BY <3>1, <3>2, SetsOfThreads, ThreadSets
    <3> QED
      BY <1>1, <1>2, <3>1, <3>3
  <2>5. CASE wk[t].plat = p /\ Releases(t)
    <3>1. slots'[p] = slots[p] + 1 /\ wk'[t].pc # "check" /\ t \in Checks(p)
      BY <1>2, <2>2, <2>5, WorkerStates DEF Releases, Checks, WorkerState
    <3>2. Checks(p)' = Checks(p) \ {t}
      BY <2>1, <3>1 DEF Checks
    <3>3. Cardinality(Checks(p)') = Cardinality(Checks(p)) - 1
      BY <3>1, <3>2, SetsOfThreads, ThreadSets
    <3> QED
      BY <1>1, <1>2, <3>1, <3>3
  <2> QED
    BY <1>3, <2>1, <2>3, <2>4, <2>5
<1> QED
  BY <1>3, <1>4, <1>5, <1>6, StepIsOf

\* The lists follow the threads, and the monitor knows what it works on.
LEMMA ListedStep ==
  PoolInv /\ [Next]_vars => ListedAreAlive' /\ MonitorInv' /\ NewIsEmpty'
<1> SUFFICES ASSUME PoolInv, [Next]_vars
             PROVE  ListedAreAlive' /\ MonitorInv' /\ NewIsEmpty'
  OBVIOUS
<1>1. TypeOK /\ ListedAreAlive /\ MonitorInv /\ NewIsEmpty
  BY DEF PoolInv
<1>2. /\ workers \in [Bands -> SUBSET Threads] /\ None \notin Threads
      /\ \A b : ThreadsOf(b) \in SUBSET Threads
  BY <1>1, PoolAssumption, SetsOfThreads DEF TypeOK
<1>3. CASE Start
  <2>1. \A b \in Bands : ThreadsOf(b)' \in SUBSET Threads
    BY SetsOfThreads
  <2> QED
    BY <1>1, <1>2, <1>3, <2>1, StartStep DEF ListedAreAlive, MonitorInv, NewIsEmpty
<1>4. CASE \E t \in Threads : Worker(t)
  <2> PICK t \in Threads : Worker(t)
    BY <1>4
  <2>1. /\ \A u \in Threads : u # t => wk'[u] = wk[u]
        /\ wk[t].pc # "none" /\ UNCHANGED <<mon, phase>>
        /\ \/ wk'[t].pc # "none" /\ workers' = workers
           \/ /\ wk'[t].pc = "none" /\ t \in workers[BandOf(t)]
              /\ workers' = [workers EXCEPT ![BandOf(t)] = @ \ {t}]
    BY <1>1, WorkerStep
  <2>2. NewIsEmpty'
    BY <1>1, <2>1 DEF NewIsEmpty
  <2>3. CASE wk'[t].pc # "none" /\ workers' = workers
    <3>1. \A b \in Bands : ThreadsOf(b)' = ThreadsOf(b)
      BY <1>1, <2>1, <2>3, ThreadsFollow
    <3> QED
      BY <1>1, <2>1, <2>2, <2>3, <3>1 DEF ListedAreAlive, MonitorInv
  <2>4. CASE /\ wk'[t].pc = "none" /\ t \in workers[BandOf(t)]
             /\ workers' = [workers EXCEPT ![BandOf(t)] = @ \ {t}]
    <3>1. \A b \in Bands : ThreadsOf(b)' = ThreadsOf(b) \ {t}
      BY <1>1, <2>1, <2>4, ThreadsFollow
    <3>2. BandOf(t) \in Bands /\ t # mon.thread
      BY <1>1, <2>4, ThreadsHaveBands DEF ListedAreAlive
    <3>3. \A b \in Bands : workers'[b] = workers[b] \ {t}
      BY <1>1, <1>2, <2>4, <3>2 DEF ListedAreAlive, ThreadsOf
    <3> QED
      BY <1>1, <2>1, <2>2, <3>1, <3>2, <3>3 DEF ListedAreAlive, MonitorInv
  <2> QED
    BY <2>1, <2>3, <2>4
<1>5. CASE Monitor
  <2>1. CASE \E t \in Threads : StartsThread(t)
    <3> PICK t \in Threads : StartsThread(t)
      BY <2>1
    <3>1. /\ BandOf(t) = mon.add /\ wk[t].pc = "none" /\ wk'[t].pc # "none"
          /\ UNCHANGED <<workers, phase>>
          /\ \A u \in Threads : u # t => wk'[u] = wk[u]
          /\ mon.pc = "start" /\ mon'.pc = "append" /\ mon'.thread = t /\ mon'.add = mon.add
      BY <1>1, StartsThreadStep
    <3>2. \A b \in Bands : ThreadsOf(b)' = IF BandOf(t) = b THEN ThreadsOf(b) \union {t}
                                                            ELSE ThreadsOf(b)
      BY <1>1, <3>1, ThreadsFollow
    <3>3. mon.thread = None /\ mon.add \in Bands
      BY <1>1, <3>1 DEF MonitorInv
    <3>4. \A b \in Bands : t \notin ThreadsOf(b)
      BY <3>1 DEF ThreadsOf
    <3> QED
      BY <1>1, <1>2, <3>1, <3>2, <3>3, <3>4 DEF ListedAreAlive, MonitorInv, NewIsEmpty
  <2>2. CASE Appends
    <3>1. /\ mon.thread \in ThreadsOf(mon.add) /\ mon.add \in Bands /\ BandOf(mon.thread) = mon.add
          /\ wk' = wk /\ phase' = phase
          /\ workers' = [workers EXCEPT ![mon.add] = @ \union {mon.thread}]
      BY <1>1, <2>2 DEF Appends, MonitorInv, ThreadsOf
    <3>2. mon \in MonitorState
      BY <1>1 DEF TypeOK, MonitorState
    <3>3. /\ mon'.thread = None /\ mon'.pc \in {"wait", "remove"}
          /\ mon'.pc = "remove" => mon'.rem \in Bands
      BY <2>2, <3>2 DEF Appends, Waiting, At, MonitorState
    <3>4. \A b \in Bands : ThreadsOf(b)' = ThreadsOf(b)
      BY <1>1, <3>1, ThreadsFollow
    <3>5. \A b \in Bands : b # mon.add => mon.thread \notin ThreadsOf(b)
      BY <3>1 DEF ThreadsOf
    <3>6. ListedAreAlive'
      BY <1>1, <1>2, <3>1, <3>3, <3>4, <3>5 DEF ListedAreAlive
    <3>7. NewIsEmpty'
      BY <1>1, <2>2, <3>1 DEF NewIsEmpty, Appends
    <3> QED
      BY <3>3, <3>6, <3>7 DEF MonitorInv
  <2>3. CASE /\ UNCHANGED <<wk, workers>>
             /\ mon.pc # "append" /\ mon.thread = None
             /\ mon'.pc # "append" /\ mon'.thread = None
             /\ mon'.pc = "start" => mon'.add \in Bands /\ Congested(mon'.add)
             /\ mon'.pc \in {"remove", "increment"} => mon'.rem \in Bands
    <3>1. \A b \in Bands : ThreadsOf(b)' = ThreadsOf(b)
      BY <1>1, <2>3, ThreadsFollow
    <3>2. phase' = phase /\ (mon.pc = "wait" => phase = "up")
      BY <1>1, <1>5, MonitorStep
    <3> QED
      BY <1>1, <2>3, <3>1, <3>2 DEF ListedAreAlive, MonitorInv, NewIsEmpty
  <2> QED
    BY <1>1, <1>5, <2>1, <2>2, <2>3, MonitorStep
<1>6. CASE /\ UNCHANGED <<workers, wk, slots, mon>>
           /\ phase' = phase \/ (phase = "up" /\ phase' = "stopping")
  <2>1. \A b : ThreadsOf(b)' = ThreadsOf(b)
    BY <1>6 DEF ThreadsOf
  <2> QED
    BY <1>1, <1>6, <2>1 DEF ListedAreAlive, MonitorInv, NewIsEmpty
<1> QED
  BY <1>3, <1>4, <1>5, <1>6, StepIsOf

\* No band gets too many threads, and the monitor has room for the one it adds.
LEMMA BoundStep ==
  PoolInv /\ [Next]_vars => AtMostMaxPerBand' /\ RoomForBoost'
<1> SUFFICES ASSUME PoolInv, [Next]_vars PROVE AtMostMaxPerBand' /\ RoomForBoost'
  OBVIOUS
<1>1. TypeOK /\ ListedAreAlive /\ MonitorInv /\ NewIsEmpty /\ AtMostMaxPerBand /\ RoomForBoost
  BY DEF PoolInv
<1>2. MaxPerBand \in Nat \ {0} /\ \A b : Cardinality(ThreadsOf(b)) \in Nat
  BY PoolAssumption, SetsOfThreads, ThreadSets
<1>3. CASE Start
  <2>1. \A b \in Bands : Cardinality(ThreadsOf(b)') = 1
    BY <1>1, <1>3, StartStep, FS_Singleton
  <2>2. mon'.pc = "wait"
    BY <1>1, <1>3, StartStep
  <2> QED
    BY <1>2, <2>1, <2>2 DEF AtMostMaxPerBand, RoomForBoost
<1>4. ASSUME \A b \in Bands : ThreadsOf(b)' \subseteq ThreadsOf(b),
             mon'.pc = "start" => mon'.add \in Bands /\ Cardinality(ThreadsOf(mon'.add)) < MaxPerBand
      PROVE  AtMostMaxPerBand' /\ RoomForBoost'
  <2>1. \A b \in Bands : /\ Cardinality(ThreadsOf(b)') <= Cardinality(ThreadsOf(b))
                         /\ Cardinality(ThreadsOf(b)') \in Nat
    BY <1>4, SetsOfThreads, ThreadSets
  <2>2. AtMostMaxPerBand'
    BY <1>1, <1>2, <2>1 DEF AtMostMaxPerBand
  <2>3. ASSUME mon'.pc = "start"
        PROVE  Cardinality(ThreadsOf(mon.add))' < MaxPerBand
    <3>1. PICK b \in Bands : b = mon'.add /\ Cardinality(ThreadsOf(b)) < MaxPerBand
      BY <1>4, <2>3
    <3>2. Cardinality(ThreadsOf(b)') < MaxPerBand
      BY <1>2, <2>1, <3>1
    <3> QED
      BY <3>1, <3>2 DEF ThreadsOf
  <2> QED
    BY <2>2, <2>3 DEF RoomForBoost
<1>5. CASE \E t \in Threads : Worker(t)
  <2> PICK t \in Threads : Worker(t)
    BY <1>5
  <2>1. /\ \A u \in Threads : u # t => wk'[u] = wk[u]
        /\ wk[t].pc # "none" /\ mon' = mon
    BY <1>1, WorkerStep
  <2>2. \A b \in Bands : ThreadsOf(b)' \subseteq ThreadsOf(b)
    BY <2>1 DEF ThreadsOf
  <2> QED
    BY <1>1, <1>4, <2>1, <2>2 DEF RoomForBoost, MonitorInv
<1>6. CASE Monitor
  <2>1. CASE \E t \in Threads : StartsThread(t)
    <3> PICK t \in Threads : StartsThread(t)
      BY <2>1
    <3>1. /\ BandOf(t) = mon.add /\ wk[t].pc = "none" /\ wk'[t].pc # "none"
          /\ \A u \in Threads : u # t => wk'[u] = wk[u]
          /\ mon.pc = "start" /\ mon'.pc = "append"
      BY <1>1, StartsThreadStep
    <3>2. \A b \in Bands : ThreadsOf(b)' = IF BandOf(t) = b THEN ThreadsOf(b) \union {t}
                                                            ELSE ThreadsOf(b)
      BY <1>1, <3>1, ThreadsFollow
    <3>3. Cardinality(ThreadsOf(mon.add) \union {t}) <= MaxPerBand
      <4>1. Cardinality(ThreadsOf(mon.add)) < MaxPerBand
        BY <1>1, <3>1 DEF RoomForBoost
      <4>2. Cardinality(ThreadsOf(mon.add) \union {t}) \in
              {Cardinality(ThreadsOf(mon.add)), Cardinality(ThreadsOf(mon.add)) + 1}
        BY SetsOfThreads, ThreadSets
      <4> QED
        BY <1>2, <4>1, <4>2
    <3> QED
      BY <1>1, <3>1, <3>2, <3>3 DEF AtMostMaxPerBand, RoomForBoost
  <2>2. CASE Appends
    <3>1. mon \in MonitorState
      BY <1>1 DEF TypeOK, MonitorState
    <3>2. mon'.pc # "start" /\ wk' = wk
      BY <2>2, <3>1 DEF Appends, Waiting, At, MonitorState
    <3>3. \A b \in Bands : ThreadsOf(b)' \subseteq ThreadsOf(b)
      BY <3>2 DEF ThreadsOf
    <3> QED
      BY <1>4, <3>2, <3>3
  <2>3. CASE /\ UNCHANGED <<wk, workers>>
             /\ mon.pc # "append" /\ mon.thread = None
             /\ mon'.pc # "append" /\ mon'.thread = None
             /\ mon'.pc = "start" => mon'.add \in Bands /\ Congested(mon'.add)
             /\ mon'.pc \in {"remove", "increment"} => mon'.rem \in Bands
    <3>1. \A b \in Bands : ThreadsOf(b)' \subseteq ThreadsOf(b)
      BY <2>3 DEF ThreadsOf
    <3>2. \A b \in Bands : workers[b] = ThreadsOf(b)
      <4>1. None \notin Threads
        BY PoolAssumption
      <4> QED
        BY <1>1, <2>3, <4>1, SetsOfThreads DEF ListedAreAlive
    <3>3. mon'.pc = "start" => mon'.add \in Bands /\ Cardinality(ThreadsOf(mon'.add)) < MaxPerBand
      BY <2>3, <3>2 DEF Congested, WorkerCount
    <3> QED
      BY <1>4, <3>1, <3>3
  <2> QED
    BY <1>1, <1>6, <2>1, <2>2, <2>3, MonitorStep
<1>7. CASE UNCHANGED <<workers, wk, slots, mon>>
  <2>1. \A b \in Bands : ThreadsOf(b)' \subseteq ThreadsOf(b)
    BY <1>7 DEF ThreadsOf
  <2> QED
    BY <1>1, <1>4, <1>7, <2>1 DEF RoomForBoost, MonitorInv
<1> QED
  BY <1>3, <1>5, <1>6, <1>7, StepIsOf

---------------------------------------------------------------------------
(* The theorems *)

\* Before start there are no threads, and all slots are free.
LEMMA InitEstablishes == Init => PoolInv
<1> SUFFICES ASSUME Init PROVE PoolInv
  OBVIOUS
<1> USE WorkerStates DEF Init, Waiting, At, WorkerSteps, MonitorSteps
<1>1. TypeOK
  <2>1. \A n \in {MaxDepth, Limit} : n \in Nat /\ 0 \in 0 .. n /\ n \in 0 .. n
    BY Bounds
  <2> QED
    BY <2>1 DEF TypeOK
<1>2. \A t \in Threads : wk[t].pc = "none"
  OBVIOUS
<1>3. \A b \in Bands : ThreadsOf(b) = {}
  BY <1>2 DEF ThreadsOf
<1>4. SlotsConserved
  <2>1. \A p \in Platforms : Checks(p) = {}
    BY <1>2 DEF Checks
  <2>2. \A p \in Platforms : slots[p] = Limit
    OBVIOUS
  <2>3. \A p \in Platforms : Cardinality(Checks(p)) = 0
    BY <2>1, FS_EmptySet
  <2>4. Limit + 0 = Limit
    BY Bounds
  <2> HIDE DEF Init
  <2> QED
    BY <2>2, <2>3, <2>4 DEF SlotsConserved
<1>5. ListedAreAlive
  BY <1>3 DEF ListedAreAlive
<1>6. AtMostMaxPerBand
  <2>1. MaxPerBand >= 0
    BY Bounds
  <2>2. \A b \in Bands : Cardinality(ThreadsOf(b)) = 0
    BY <1>3, FS_EmptySet
  <2> QED
    BY <2>1, <2>2 DEF AtMostMaxPerBand
<1>7. MonitorInv /\ NewIsEmpty /\ RoomForBoost
  BY <1>2 DEF MonitorInv, NewIsEmpty, RoomForBoost
<1> QED
  BY <1>1, <1>4, <1>5, <1>6, <1>7 DEF PoolInv

\* The invariant of the pool, for any bands, platforms and bounds.
THEOREM PoolInvariant == Spec => []PoolInv
<1>1. PoolInv /\ [Next]_vars => PoolInv'
  BY TypeStep, SlotsStep, ListedStep, BoundStep DEF PoolInv
<1> QED
  BY InitEstablishes, <1>1, PTL DEF Spec

\* The variables keep their types, and a worker has an entry exactly while it
\* waits for a slot or checks (_worker_loop).
THEOREM TypeCorrect == Spec => []TypeOK
<1>1. PoolInv => TypeOK
  BY DEF PoolInv
<1> QED
  BY <1>1, PoolInvariant, PTL

\* The semaphores lose no slot, whatever a check raises and however workers
\* come and go (acquire_sync, and release_sync in the finally of _worker_loop).
THEOREM SlotsAreConserved == Spec => []SlotsConserved
<1>1. PoolInv => SlotsConserved
  BY DEF PoolInv
<1> QED
  BY <1>1, PoolInvariant, PTL

\* The lists of workers are the threads there are, but for the one the monitor
\* is adding (_add_worker and the self-removal in _worker_loop).
THEOREM ListsAreAlive == Spec => []ListedAreAlive
<1>1. PoolInv => ListedAreAlive
  BY DEF PoolInv
<1> QED
  BY <1>1, PoolInvariant, PTL

\* No band ever has more than _MAX_PER_BAND threads (adjust_workers).
THEOREM BandsAreBounded == Spec => []AtMostMaxPerBand
<1>1. PoolInv => AtMostMaxPerBand
  BY DEF PoolInv
<1> QED
  BY <1>1, PoolInvariant, PTL

---------------------------------------------------------------------------
(* The pool implements BoundedPool *)

\* BoundedPool counts as this module does.
LEMMA SameCardinality == \A S : Pool!Cardinality(S) = Cardinality(S)
BY Zenon DEF Pool!Cardinality, Cardinality

\* A thread is busy in the sense of BoundedPool exactly while it checks.
LEMMA BusyIsChecking ==
  ASSUME TypeOK, NEW t \in Threads
  PROVE  Pool!IsBusy(t) <=> wk[t].pc = "check"
<1>1. wk[t].pc = "check" => wk[t].plat \in Platforms
  BY WkType DEF WorkerState
<1> QED
  BY <1>1 DEF Pool!IsBusy, Checks

\* A thread that neither comes nor goes, and neither begins nor ends a check,
\* does not show.
LEMMA HiddenStep ==
  ASSUME \A u \in Threads :
           \/ wk'[u] = wk[u]
           \/ {wk[u].pc, wk'[u].pc} \intersect {"none", "ended", "check"} = {}
  PROVE  Pool!pool' = Pool!pool
<1>1. \A b : AliveOf(b)' = AliveOf(b)
  BY DEF AliveOf, ThreadsOf
<1>2. \A p : Checks(p)' = Checks(p)
  BY DEF Checks
<1> QED
  BY <1>1, <1>2 DEF Pool!pool

\* A thread that ends while it does not check goes.
LEMMA GoingStep ==
  ASSUME TypeOK, NEW t \in Threads,
         \A u \in Threads : u # t => wk'[u] = wk[u],
         wk[t].pc \notin {"none", "ended", "check"}, wk'[t].pc \in {"none", "ended"}
  PROVE  Pool!Goes(BandOf(t), t)
<1>1. BandOf(t) \in Bands /\ ~Pool!IsBusy(t)
  BY BusyIsChecking, ThreadsHaveBands
<1>2. \A b : AliveOf(b)' = IF b = BandOf(t) THEN AliveOf(b) \ {t} ELSE AliveOf(b)
  BY DEF AliveOf, ThreadsOf
<1>3. \A p : Checks(p)' = Checks(p)
  BY DEF Checks
<1>4. t \in AliveOf(BandOf(t))
  BY DEF AliveOf, ThreadsOf
<1> QED
  BY <1>1, <1>2, <1>3, <1>4 DEF Pool!Goes

\* A worker comes, goes, begins or ends a check, or does nothing that shows; it
\* begins one while there are fewer checks than slots.
LEMMA WorkerImplements ==
  ASSUME TypeOK, SlotsConserved, NEW t \in Threads, Worker(t)
  PROVE  Pool!PoolNext \/ Pool!pool' = Pool!pool
<1>1. wk \in [Threads -> WorkerState] /\ BandOf(t) \in Bands
  BY WkType, ThreadsHaveBands
<1>2. \A u \in Threads : u # t => wk'[u] = wk[u]
  BY WorkerStep
<1>3. ASSUME {wk[t].pc, wk'[t].pc} \intersect {"none", "ended", "check"} = {}
      PROVE  Pool!pool' = Pool!pool
  BY <1>2, <1>3, HiddenStep
<1>4. ASSUME wk[t].pc \notin {"none", "ended", "check"}, wk'[t].pc \in {"none", "ended"}
      PROVE  Pool!PoolNext
  BY <1>1, <1>2, <1>4, GoingStep DEF Pool!PoolNext
<1>5. CASE Ends(t)
  BY <1>1, <1>4, <1>5, WorkerStates DEF Ends, WorkerState
<1>6. CASE SeesRemoval(t)
  BY <1>1, <1>3, <1>6 DEF SeesRemoval, WorkerState
<1>7. CASE Locks(t)
  BY <1>1, <1>3, <1>7 DEF Locks, WorkerState
<1>8. CASE Decrements(t)
  BY <1>1, <1>3, <1>8, WorkerStates DEF Decrements, WorkerState
<1>9. CASE Removes(t)
  <2>1. wk[t].pc = "remove" /\ wk'[t].pc \in {"none", "loop"}
    BY <1>1, <1>9, WorkerStates DEF Removes, WorkerState
  <2> QED
    BY <1>3, <1>4, <2>1
<1>10. CASE Dequeues(t)
  <2>1. wk[t].pc = "loop" /\ wk'[t].pc \in {"loop", "acquire"}
    <3>1. CASE UNCHANGED wk
      BY <1>1, <1>10, <3>1 DEF Dequeues, WorkerState
    <3>2. CASE \E p \in Platforms :
                 wk' = [wk EXCEPT ![t] = [@ EXCEPT !.pc = "acquire", !.plat = p]]
      BY <1>1, <1>10, <3>2 DEF Dequeues, WorkerState
    <3> QED
      BY <1>10, <3>1, <3>2 DEF Dequeues
  <2> QED
    BY <1>3, <2>1
<1>11. CASE Acquires(t)
  <2> DEFINE p == wk[t].plat
  <2>1. p \in Platforms /\ p # None /\ wk[t].pc = "acquire"
    BY <1>1, <1>11, WkType DEF Acquires, WorkerState
  <2>2. wk'[t].pc = "check" /\ wk'[t].plat = p
    BY <1>1, <1>11 DEF Acquires, WorkerState
  <2>3. ~Pool!IsBusy(t) /\ t \in AliveOf(BandOf(t))
    BY <2>1, BusyIsChecking DEF AliveOf, ThreadsOf
  <2>4. Cardinality(Checks(p)) < Limit
    <3>1. slots[p] \in 0 .. Limit /\ slots[p] > 0 /\ Limit \in Nat
      BY <1>11, <2>1, Bounds DEF Acquires, TypeOK
    <3>2. slots[p] + Cardinality(Checks(p)) = Limit /\ Cardinality(Checks(p)) \in Nat
      BY <2>1, SetsOfThreads, ThreadSets DEF SlotsConserved
    <3> QED
      BY <3>1, <3>2
  <2>5. \A b : AliveOf(b)' = AliveOf(b)
    BY <1>2, <2>1, <2>2 DEF AliveOf, ThreadsOf
  <2>6. \A q : Checks(q)' = IF q = p THEN Checks(q) \union {t} ELSE Checks(q)
    BY <1>2, <2>1, <2>2 DEF Checks
  <2>7. Pool!Enters(p, t)
    BY <1>1, <2>1, <2>3, <2>4, <2>5, <2>6, SameCardinality DEF Pool!Enters
  <2> QED
    BY <2>1, <2>7 DEF Pool!PoolNext
<1>12. CASE Releases(t)
  <2> DEFINE p == wk[t].plat
  <2>1. p \in Platforms /\ wk[t].pc = "check" /\ wk'[t].pc = "loop"
    BY <1>1, <1>12, WkType, WorkerStates DEF Releases, WorkerState
  <2>2. \A b : AliveOf(b)' = AliveOf(b)
    BY <1>2, <2>1 DEF AliveOf, ThreadsOf
  <2>3. \A q : Checks(q)' = IF q = p THEN Checks(q) \ {t} ELSE Checks(q)
    BY <1>2, <2>1 DEF Checks
  <2>4. t \in Checks(p)
    BY <2>1 DEF Checks
  <2>5. Pool!Exits(p, t)
    BY <2>1, <2>2, <2>3, <2>4 DEF Pool!Exits
  <2> QED
    BY <2>1, <2>5 DEF Pool!PoolNext
<1> QED
  BY <1>5, <1>6, <1>7, <1>8, <1>9, <1>10, <1>11, <1>12 DEF Worker

\* Start opens the pool, with one thread for each band.
LEMMA StartImplements ==
  ASSUME TypeOK, NewIsEmpty, Start
  PROVE  Pool!PoolNext
<1> DEFINE base == [b \in Bands |-> <<b, CHOOSE k \in Places : TRUE>>]
<1>1. \A t \in Threads : wk[t].pc = "none"
  BY StartStep
<1>2. \A b \in Bands : AliveOf(b) = {}
  BY <1>1 DEF AliveOf, ThreadsOf
<1>3. \A t \in Threads : wk'[t].pc \in {"none", "loop"}
  BY StartStep, WorkerStates
<1>4. \A b \in Bands : AliveOf(b)' = {base[b]}
  <2>1. \A b : AliveOf(b)' = ThreadsOf(b)'
    BY <1>3 DEF AliveOf, ThreadsOf
  <2> QED
    BY <2>1, StartStep
<1>5. \A p : Checks(p)' = Checks(p)
  BY <1>1, <1>3 DEF Checks
<1>6. base \in [Bands -> Threads]
  <2>1. (CHOOSE k \in Places : TRUE) \in Places
    BY PoolAssumption
  <2> QED
    BY <2>1 DEF Threads
<1>7. Pool!Opens
  BY <1>2, <1>4, <1>5, <1>6 DEF Pool!Opens
<1> QED
  BY <1>7 DEF Pool!PoolNext

\* The monitor adds a thread where there is room, and else does not show.
LEMMA MonitorImplements ==
  ASSUME TypeOK, MonitorInv, RoomForBoost, Monitor
  PROVE  Pool!PoolNext \/ Pool!pool' = Pool!pool
<1>1. CASE \E t \in Threads : StartsThread(t)
  <2> PICK t \in Threads : StartsThread(t)
    BY <1>1
  <2>1. /\ BandOf(t) = mon.add /\ wk[t].pc = "none" /\ mon.pc = "start"
        /\ \A u \in Threads : u # t => wk'[u] = wk[u]
    BY StartsThreadStep
  <2>2. wk'[t].pc = "loop"
    BY WkType, WorkerStates DEF StartsThread
  <2>3. BandOf(t) \in Bands /\ ~Pool!IsBusy(t)
    BY <2>1, BusyIsChecking, ThreadsHaveBands
  <2>4. \A b : AliveOf(b)' = IF b = BandOf(t) THEN AliveOf(b) \union {t} ELSE AliveOf(b)
    BY <2>1, <2>2 DEF AliveOf, ThreadsOf
  <2>5. \A p : Checks(p)' = Checks(p)
    BY <2>1, <2>2 DEF Checks
  <2>6. Cardinality(AliveOf(BandOf(t))) < MaxPerBand
    <3>1. AliveOf(mon.add) \in SUBSET ThreadsOf(mon.add)
      BY DEF AliveOf
    <3>2. ThreadsOf(mon.add) \in SUBSET Threads /\ AliveOf(mon.add) \in SUBSET Threads
      BY <3>1, SetsOfThreads
    <3>3. /\ Cardinality(AliveOf(mon.add)) <= Cardinality(ThreadsOf(mon.add))
          /\ Cardinality(AliveOf(mon.add)) \in Nat /\ Cardinality(ThreadsOf(mon.add)) \in Nat
      BY <3>1, <3>2, ThreadSets
    <3> QED
      BY <2>1, <3>3, Bounds DEF RoomForBoost
  <2>7. Pool!Comes(BandOf(t), t)
    BY <2>3, <2>4, <2>5, <2>6, SameCardinality DEF Pool!Comes
  <2> QED
    BY <2>3, <2>7 DEF Pool!PoolNext
<1>2. CASE wk' = wk
  BY <1>2, HiddenStep
<1> QED
  BY <1>1, <1>2, MonitorStep DEF Appends

\* A step of the pool is a step of BoundedPool, or does not show.
LEMMA PoolStepImplements ==
  ASSUME PoolInv, [Next]_vars
  PROVE  [Pool!PoolNext]_(Pool!pool)
<1>1. TypeOK /\ SlotsConserved /\ MonitorInv /\ NewIsEmpty /\ RoomForBoost
  BY DEF PoolInv
<1>2. CASE Start
  BY <1>1, <1>2, StartImplements
<1>3. CASE \E t \in Threads : Worker(t)
  BY <1>1, <1>3, WorkerImplements
<1>4. CASE Monitor
  BY <1>1, <1>4, MonitorImplements
<1>5. CASE UNCHANGED wk
  BY <1>5, HiddenStep
<1> QED
  BY <1>2, <1>3, <1>4, <1>5, StepIsOf

\* The pool implements BoundedPool: threads come where there is room, none goes
\* in the middle of a check, and checks respect the semaphores (_worker_loop,
\* adjust_workers, acquire_sync).
THEOREM PoolIsBounded == Spec => ImplementsPool
<1>1. Init => Pool!PoolInit
  <2> SUFFICES ASSUME Init PROVE Pool!PoolInit
    OBVIOUS
  <2>1. \A t \in Threads : wk[t].pc = "none"
    BY WorkerStates DEF Init
  <2>2. \A b : AliveOf(b) = {}
    BY <2>1 DEF AliveOf, ThreadsOf
  <2>3. \A p : Checks(p) = {}
    BY <2>1 DEF Checks
  <2> QED
    BY <2>2, <2>3 DEF Pool!PoolInit
<1>2. PoolInv /\ [Next]_vars => [Pool!PoolNext]_(Pool!pool)
  BY PoolStepImplements
<1> QED
  BY <1>1, <1>2, PoolInvariant, PTL DEF Spec, ImplementsPool, Pool!PoolSpec

=============================================================================
