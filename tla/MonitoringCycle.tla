--------------------------- MODULE MonitoringCycle ---------------------------
(***************************************************************************)
(* The monitoring cycle                                                    *)
(* (app/application/orchestrators/monitoring_cycle.py) with the threads    *)
(* that share its state: the workers that check streams and report a live  *)
(* one by callback, and the API thread that adds, enables, disables and    *)
(* force-checks targets.                                                   *)
(*                                                                         *)
(* The runtime state of a target is an immutable object in a dictionary    *)
(* without a lock: every thread reads it, computes a new one from its copy *)
(* and stores that.  One atomic step of this module is one read or one     *)
(* write of the dictionaries, of the result store, of a queue or of the    *)
(* database; what lies between two of them is local to the thread.         *)
(*                                                                         *)
(* Time is abstracted: a runtime state says whether its next_check_at has  *)
(* come and whether its last_checked_at is less than 60 s ago, and both    *)
(* change by themselves.  Predictions, and the likelihood and the count of   *)
(* checks they are computed from, only choose how far away the next check  *)
(* is and in which queue it waits, so they leave no trace here.            *)
(***************************************************************************)
EXTENDS Naturals

CONSTANTS
  Targets,    \* the stream targets there may be
  Workers,    \* the worker threads of the pool
  Sessions,   \* bound: the ids of the recording sessions that may be started
  Outcomes,   \* what a check may find
  MaxQueue,   \* bound: entries of one target that the queues remember
  MaxRequests,\* bound: requests made over the API
  None        \* no target, no session

ASSUME CycleAssumption ==
  /\ Outcomes \subseteq {"live", "nourl", "offline"}
  /\ None \notin Targets \union Sessions
  /\ MaxQueue \in Nat \ {0}
  /\ MaxRequests \in Nat

VARIABLES
  target,     \* the target table: "absent", or the enabled flag as "on"/"off"
  known,      \* keys of _runtime_states
  rt,         \* _runtime_states
  cached,     \* keys of _last_known_state
  lastLive,   \* _last_known_live, "unknown" where it has no key
  results,    \* the live check result store
  queue,      \* how many entries each target has in the queues
  sess,       \* status of each recording session
  owner,      \* the target of each recording session
  cyc,        \* the cycle thread: its position and local variables
  wk,         \* the worker threads, likewise
  api,        \* the API thread, likewise
  requests    \* how many requests were made

vars == <<target, known, rt, cached, lastLive, results, queue, sess, owner, cyc,
          wk, api, requests>>
stateVars == <<known, rt>>
cacheVars == <<cached, lastLive>>
recordingVars == <<sess, owner>>
apiVars == <<api, requests>>

\* A MonitoringRuntimeState; one that has just been made is due at once.
States == [due: BOOLEAN, recent: BOOLEAN, live: BOOLEAN,
           active: Sessions \union {None}]

NewState == [due |-> TRUE, recent |-> FALSE, live |-> FALSE, active |-> None]

CycleSteps  == {"idle", "process", "enqueue", "write", "test", "prime", "react",
                "consume", "apply", "external", "transition", "start", "starting",
                "stop", "stopped", "cache"}
WorkerSteps == {"idle", "check", "callback", "start", "starting", "cache", "flag"}
ApiSteps    == {"idle", "check", "force", "write", "again", "register",
                "registering", "prime", "flag"}

IdleCycle  == [pc |-> "idle", batch |-> {}, left |-> {}, tgt |-> None,
               copy |-> NewState, res |-> "none", ses |-> None]
IdleWorker == [pc |-> "idle", tgt |-> None, copy |-> NewState, ses |-> None]
IdleApi    == [pc |-> "idle", tgt |-> None, res |-> "none", copy |-> NewState,
               adding |-> FALSE]

\* start: _build_initial_snapshots makes a fresh state for every target of the
\* table, enabled or not; the sessions of earlier runs have been finalised.
Init ==
  /\ target \in [Targets -> {"absent", "on", "off"}]
  /\ known = {t \in Targets : target[t] # "absent"}
  /\ rt = [t \in Targets |-> NewState]
  /\ cached = known
  /\ lastLive = [t \in Targets |-> IF t \in known THEN "offline" ELSE "unknown"]
  /\ results = [t \in Targets |-> "none"]
  /\ queue = [t \in Targets |-> 0]
  /\ sess = [s \in Sessions |-> "none"]
  /\ owner = [s \in Sessions |-> None]
  /\ cyc = IdleCycle
  /\ wk = [w \in Workers |-> IdleWorker]
  /\ api = IdleApi
  /\ requests = 0

---------------------------------------------------------------------------
(* What all threads use *)

\* _get_or_create_runtime_state, the part that changes state: a target without
\* a runtime state gets a new one (rt has it already).
GetOrCreate(t) == known' = known \union {t} /\ UNCHANGED rt

\* _with_recording_session and _clear_recording_state
WithSession(st, s) == [st EXCEPT !.active = s]
WithoutSession(st) == [st EXCEPT !.active = None, !.live = FALSE]

\* _apply_resolve_result
Applied(st, res) ==
  [st EXCEPT !.due = FALSE, !.recent = TRUE, !.live = (res # "offline")]

\* start_recording saves the new session before anything else.
SessionSaved(t, s) ==
  /\ sess[s] = "none"
  /\ sess' = [sess EXCEPT ![s] = "active"]
  /\ owner' = [owner EXCEPT ![s] = t]

\* The value of _last_known_live for a state.
LiveFlag(st) == IF st.live THEN "live" ELSE "offline"
---------------------------------------------------------------------------
(* Phase A of a cycle: _process_target for every enabled target *)

\* Mutant: every target of the table is listed, the disabled ones too.
CycleBeginsWithAll ==
  /\ cyc.pc = "idle"
  /\ LET present == {t \in Targets : target[t] # "absent"} IN
       /\ present # {}
       /\ cyc' = [cyc EXCEPT !.pc = "process", !.batch = present, !.left = present]
  /\ UNCHANGED <<target, stateVars, cacheVars, results, queue, recordingVars, wk, apiVars>>

\* The enabled targets are listed; they are processed in any order (by
\* likelihood).  With none, the cycle is over before it began.
CycleBegins ==
  /\ cyc.pc = "idle"
  /\ LET enabled == {t \in Targets : target[t] = "on"} IN
       /\ enabled # {}
       /\ cyc' = [cyc EXCEPT !.pc = "process", !.batch = enabled, !.left = enabled]
  /\ UNCHANGED <<target, stateVars, cacheVars, results, queue, recordingVars, wk, apiVars>>

\* The runtime state is read and should_check decided; then the sessions of
\* the target are listed and the prediction is computed.
ProcessReads(t) ==
  /\ cyc.pc = "process"
  /\ t \in cyc.left
  /\ GetOrCreate(t)
  /\ cyc' = [cyc EXCEPT !.pc = IF rt[t].due THEN "enqueue" ELSE "write",
                        !.tgt = t, !.copy = rt[t]]
  /\ UNCHANGED <<target, cacheVars, results, queue, recordingVars, wk, apiVars>>

\* Mutant: the deadline is pushed forward, but nothing is enqueued.
EnqueuesNothing ==
  /\ cyc.pc = "enqueue"
  /\ cyc' = [cyc EXCEPT !.pc = "write", !.copy.due = FALSE]
  /\ UNCHANGED <<target, stateVars, cacheVars, results, queue, recordingVars, wk, apiVars>>

\* A check that is due is enqueued, which is what pushes the deadline forward.
Enqueues ==
  /\ cyc.pc = "enqueue"
  /\ queue' = [queue EXCEPT ![cyc.tgt] = IF @ < MaxQueue THEN @ + 1 ELSE @]
  /\ cyc' = [cyc EXCEPT !.pc = "write", !.copy.due = FALSE]
  /\ UNCHANGED <<target, stateVars, cacheVars, results, recordingVars, wk, apiVars>>

\* Where Phase A goes on after target t.
NextToProcess(t) ==
  IF cyc.left = {t}
    THEN [IdleCycle EXCEPT !.pc = "react", !.batch = cyc.batch, !.left = cyc.batch]
    ELSE [IdleCycle EXCEPT !.pc = "process", !.batch = cyc.batch,
                           !.left = cyc.left \ {t}]

\* The copy, with its deadline, is stored over whatever is there by now.
ProcessWrites ==
  /\ cyc.pc = "write"
  /\ rt' = [rt EXCEPT ![cyc.tgt] = cyc.copy]
  /\ cyc' = [cyc EXCEPT !.pc = "test", !.copy = NewState]
  /\ UNCHANGED <<target, known, cacheVars, results, queue, recordingVars, wk, apiVars>>

\* Mutant: a target counts as seen for the first time if it has a cached state.
TestsCachedWrongly ==
  /\ cyc.pc = "test"
  /\ cyc' = IF cyc.tgt \in cached THEN [cyc EXCEPT !.pc = "prime"]
                                 ELSE NextToProcess(cyc.tgt)
  /\ UNCHANGED <<target, stateVars, cacheVars, results, queue, recordingVars, wk, apiVars>>

\* A target with a cached state is not seen for the first time ...
TestsCached ==
  /\ cyc.pc = "test"
  /\ cyc' = IF cyc.tgt \in cached THEN NextToProcess(cyc.tgt)
                                 ELSE [cyc EXCEPT !.pc = "prime"]
  /\ UNCHANGED <<target, stateVars, cacheVars, results, queue, recordingVars, wk, apiVars>>

\* ... and one without gets both its caches set, over what another thread may
\* have set them to since.  (The state and the live flag are written one after
\* the other; only this thread looks at them, so that is one step.)
ProcessPrimes ==
  /\ cyc.pc = "prime"
  /\ cached' = cached \union {cyc.tgt}
  /\ lastLive' = [lastLive EXCEPT ![cyc.tgt] = "offline"]
  /\ cyc' = NextToProcess(cyc.tgt)
  /\ UNCHANGED <<target, stateVars, results, queue, recordingVars, wk, apiVars>>

---------------------------------------------------------------------------
(* Phase B of a cycle: results, transitions, recordings *)

ReactReads(t) ==
  /\ cyc.pc = "react"
  /\ t \in cyc.left
  /\ GetOrCreate(t)
  /\ cyc' = [cyc EXCEPT !.pc = "consume", !.tgt = t, !.copy = rt[t]]
  /\ UNCHANGED <<target, cacheVars, results, queue, recordingVars, wk, apiVars>>

\* Mutant: the result is read, not removed.
ConsumesKeepsResult ==
  /\ cyc.pc = "consume"
  /\ cyc' = [cyc EXCEPT !.pc = IF results[cyc.tgt] = "none" THEN "external" ELSE "apply",
                        !.res = results[cyc.tgt]]
  /\ UNCHANGED <<target, stateVars, cacheVars, results, queue, recordingVars, wk, apiVars>>

\* The latest result is taken from the store ...
Consumes ==
  /\ cyc.pc = "consume"
  /\ results' = [results EXCEPT ![cyc.tgt] = "none"]
  /\ cyc' = [cyc EXCEPT !.pc = IF results[cyc.tgt] = "none" THEN "external" ELSE "apply",
                        !.res = results[cyc.tgt]]
  /\ UNCHANGED <<target, stateVars, cacheVars, queue, recordingVars, wk, apiVars>>

\* ... applied to the copy, and that is stored.
AppliesResult ==
  /\ cyc.pc = "apply"
  /\ LET st == Applied(cyc.copy, cyc.res) IN
       /\ rt' = [rt EXCEPT ![cyc.tgt] = st]
       /\ cyc' = [cyc EXCEPT !.pc = "external", !.copy = st]
  /\ UNCHANGED <<target, known, cacheVars, results, queue, recordingVars, wk, apiVars>>

\* Mutant: only a session that has no row counts as stopped.
StoppedOutsideIfMissing(s) == s # None /\ sess[s] = "none"

\* The recording of the runtime state is not active (any more).
StoppedOutside(s) == s # None /\ sess[s] # "active"

ChecksExternalStop ==
  /\ cyc.pc = "external"
  /\ LET st == WithoutSession(cyc.copy) IN
       IF StoppedOutside(cyc.copy.active)
         THEN /\ rt' = [rt EXCEPT ![cyc.tgt] = st]
              /\ cyc' = [cyc EXCEPT !.pc = "transition", !.copy = st]
         ELSE cyc' = [cyc EXCEPT !.pc = "transition"] /\ UNCHANGED rt
  /\ UNCHANGED <<target, known, cacheVars, results, queue, recordingVars, wk, apiVars>>

\* What a thread still needs of its copy once that is stored.
Stored(st) == [NewState EXCEPT !.live = st.live]

\* The copy is compared with the cached live flag: a live transition starts a
\* recording, an offline transition stops it.  Without a cached state, or with
\* one that has no live flag yet, there is no transition.
DetectsTransition ==
  /\ cyc.pc = "transition"
  /\ LET old == IF cyc.tgt \in cached THEN lastLive[cyc.tgt] ELSE "unknown"
         now == IF old = "offline" /\ cyc.copy.live /\ cyc.res = "live" THEN "start"
                ELSE IF old = "live" /\ ~cyc.copy.live /\ cyc.copy.active # None
                  THEN "stop" ELSE "cache"
     IN cyc' = [cyc EXCEPT !.pc = now, !.res = "none",
                           !.copy = IF now = "cache" THEN Stored(@) ELSE @]
  /\ UNCHANGED <<target, stateVars, cacheVars, results, queue, recordingVars, wk, apiVars>>

CycleStarts(s) ==
  /\ cyc.pc = "start"
  /\ SessionSaved(cyc.tgt, s)
  /\ cyc' = [cyc EXCEPT !.pc = "starting", !.ses = s]
  /\ UNCHANGED <<target, stateVars, cacheVars, results, queue, wk, apiVars>>

\* Mutant: the state is stored under the target of an earlier iteration.
CycleStartedElsewhere ==
  /\ cyc.pc = "starting"
  /\ LET st == WithSession(cyc.copy, cyc.ses) IN
       /\ \E t \in cyc.batch : rt' = [rt EXCEPT ![t] = st]
       /\ cyc' = [cyc EXCEPT !.pc = "cache", !.copy = Stored(st), !.ses = None]
  /\ UNCHANGED <<target, known, cacheVars, results, queue, recordingVars, wk, apiVars>>

CycleStarted ==
  /\ cyc.pc = "starting"
  /\ LET st == WithSession(cyc.copy, cyc.ses) IN
       /\ rt' = [rt EXCEPT ![cyc.tgt] = st]
       /\ cyc' = [cyc EXCEPT !.pc = "cache", !.copy = Stored(st), !.ses = None]
  /\ UNCHANGED <<target, known, cacheVars, results, queue, recordingVars, wk, apiVars>>

\* Mutant: the copy that stop_recording saves back is still active.
CycleStopsUnclosed ==
  /\ cyc.pc = "stop"
  /\ sess' = [sess EXCEPT ![cyc.copy.active] = "active"]
  /\ cyc' = [cyc EXCEPT !.pc = "stopped"]
  /\ UNCHANGED <<target, stateVars, cacheVars, results, queue, owner, wk, apiVars>>

\* stop_recording returns, having closed the session, if nobody else had.
CycleStops ==
  /\ cyc.pc = "stop"
  /\ sess' = [sess EXCEPT ![cyc.copy.active] = "closed"]
  /\ cyc' = [cyc EXCEPT !.pc = "stopped"]
  /\ UNCHANGED <<target, stateVars, cacheVars, results, queue, owner, wk, apiVars>>

CycleStopped ==
  /\ cyc.pc = "stopped"
  /\ LET st == WithoutSession(cyc.copy) IN
       /\ rt' = [rt EXCEPT ![cyc.tgt] = st]
       /\ cyc' = [cyc EXCEPT !.pc = "cache", !.copy = Stored(st), !.ses = None]
  /\ UNCHANGED <<target, known, cacheVars, results, queue, recordingVars, wk, apiVars>>

\* start_recording raises, before or after it has saved the session, or
\* stop_recording raises: the exception is logged, and nothing else.
CycleRaises ==
  /\ cyc.pc \in {"start", "starting", "stop"}
  /\ cyc' = [cyc EXCEPT !.pc = "cache", !.copy = Stored(@), !.ses = None]
  /\ UNCHANGED <<target, stateVars, cacheVars, results, queue, recordingVars, wk, apiVars>>

\* The caches become those of the copy (in one step, as in ProcessPrimes), and
\* the next target is due; after the last one the cycle waits.
CycleCaches ==
  /\ cyc.pc = "cache"
  /\ LET t == cyc.tgt IN
       /\ cached' = cached \union {t}
       /\ lastLive' = [lastLive EXCEPT ![t] = LiveFlag(cyc.copy)]
       /\ cyc' = IF cyc.left = {t}
                   THEN IdleCycle
                   ELSE [IdleCycle EXCEPT !.pc = "react", !.batch = cyc.batch,
                                          !.left = cyc.left \ {t}]
  /\ UNCHANGED <<target, stateVars, results, queue, recordingVars, wk, apiVars>>

CycleThread ==
  \/ CycleBegins
  \/ \E t \in Targets : ProcessReads(t) \/ ReactReads(t)
  \/ Enqueues
  \/ ProcessWrites
  \/ TestsCached
  \/ ProcessPrimes
  \/ Consumes
  \/ AppliesResult
  \/ ChecksExternalStop
  \/ DetectsTransition
  \/ \E s \in Sessions : CycleStarts(s)
  \/ CycleStarted
  \/ CycleStops
  \/ CycleStopped
  \/ CycleRaises
  \/ CycleCaches

---------------------------------------------------------------------------
(* A worker: _worker_loop and, for a live stream, _on_live_detected *)

\* An entry is taken from a queue; is_stream_due discards it if the target was
\* checked less than 60 s ago.
Dequeue(w, t) ==
  /\ wk[w].pc = "idle"
  /\ queue[t] > 0
  /\ queue' = [queue EXCEPT ![t] = @ - 1]
  /\ IF t \in known /\ rt[t].recent
       THEN UNCHANGED wk
       ELSE wk' = [wk EXCEPT ![w] = [@ EXCEPT !.pc = "check", !.tgt = t]]
  /\ UNCHANGED <<target, stateVars, cacheVars, results, recordingVars, cyc, apiVars>>

\* The resolver chain answers, or gives up, which is an offline result too, and
\* the result is stored; a live one with an address goes to the callback.
StoresCheck(w, res) ==
  /\ wk[w].pc = "check"
  /\ results' = [results EXCEPT ![wk[w].tgt] = res]
  /\ wk' = IF res = "live" THEN [wk EXCEPT ![w] = [@ EXCEPT !.pc = "callback"]]
                           ELSE [wk EXCEPT ![w] = IdleWorker]
  /\ UNCHANGED <<target, stateVars, cacheVars, queue, recordingVars, cyc, apiVars>>

CallbackReads(w) ==
  /\ wk[w].pc = "callback"
  /\ GetOrCreate(wk[w].tgt)
  /\ wk' = IF rt[wk[w].tgt].active = None
             THEN [wk EXCEPT ![w] = [@ EXCEPT !.pc = "start", !.copy = rt[wk[w].tgt]]]
             ELSE [wk EXCEPT ![w] = IdleWorker]
  /\ UNCHANGED <<target, cacheVars, results, queue, recordingVars, cyc, apiVars>>

WorkerStarts(w, s) ==
  /\ wk[w].pc = "start"
  /\ SessionSaved(wk[w].tgt, s)
  /\ wk' = [wk EXCEPT ![w] = [@ EXCEPT !.pc = "starting", !.ses = s]]
  /\ UNCHANGED <<target, stateVars, cacheVars, results, queue, cyc, apiVars>>

WorkerStarted(w) ==
  /\ wk[w].pc = "starting"
  /\ LET st == WithSession(wk[w].copy, wk[w].ses) IN
       /\ rt' = [rt EXCEPT ![wk[w].tgt] = st]
       /\ wk' = [wk EXCEPT ![w] = [@ EXCEPT !.pc = "cache", !.copy = Stored(st), !.ses = None]]
  /\ UNCHANGED <<target, known, cacheVars, results, queue, recordingVars, cyc, apiVars>>

\* The cached state is set ...
WorkerCaches(w) ==
  /\ wk[w].pc = "cache"
  /\ cached' = cached \union {wk[w].tgt}
  /\ wk' = [wk EXCEPT ![w] = [@ EXCEPT !.pc = "flag"]]
  /\ UNCHANGED <<target, stateVars, lastLive, results, queue, recordingVars, cyc, apiVars>>

\* ... and then the live flag, to that of the copy.
WorkerFlags(w) ==
  /\ wk[w].pc = "flag"
  /\ lastLive' = [lastLive EXCEPT ![wk[w].tgt] = LiveFlag(wk[w].copy)]
  /\ wk' = [wk EXCEPT ![w] = IdleWorker]
  /\ UNCHANGED <<target, stateVars, cached, results, queue, recordingVars, cyc, apiVars>>

WorkerRaises(w) ==
  /\ wk[w].pc \in {"start", "starting"}
  /\ wk' = [wk EXCEPT ![w] = IdleWorker]
  /\ UNCHANGED <<target, stateVars, cacheVars, results, queue, recordingVars, cyc, apiVars>>

WorkerThread(w) ==
  \/ \E t \in Targets : Dequeue(w, t)
  \/ \E res \in Outcomes : StoresCheck(w, res)
  \/ CallbackReads(w)
  \/ \E s \in Sessions : WorkerStarts(w, s)
  \/ WorkerStarted(w)
  \/ WorkerCaches(w)
  \/ WorkerFlags(w)
  \/ WorkerRaises(w)

---------------------------------------------------------------------------
(* The API thread *)

\* POST /streams: the row is saved, and a first check is forced.
AddStream(t) ==
  /\ target[t] = "absent"
  /\ target' = [target EXCEPT ![t] = "on"]
  /\ api' = [api EXCEPT !.pc = "check", !.tgt = t, !.adding = TRUE]
  /\ UNCHANGED <<stateVars, cacheVars, results, queue, recordingVars, cyc, wk>>

DisableMonitoring(t) ==
  /\ target[t] = "on"
  /\ target' = [target EXCEPT ![t] = "off"]
  /\ UNCHANGED <<stateVars, cacheVars, results, queue, recordingVars, cyc, wk, api>>

\* ... and then force_next_check.
EnableMonitoring(t) ==
  /\ target[t] = "off"
  /\ target' = [target EXCEPT ![t] = "on"]
  /\ api' = [api EXCEPT !.pc = "force", !.tgt = t]
  /\ UNCHANGED <<stateVars, cacheVars, results, queue, recordingVars, cyc, wk>>

ForceCheck(t) ==
  /\ target[t] # "absent"
  /\ api' = [api EXCEPT !.pc = "check", !.tgt = t]
  /\ UNCHANGED <<target, stateVars, cacheVars, results, queue, recordingVars, cyc, wk>>

\* The resolver chain answers the API thread, which stores the result.
ApiStoresCheck(res) ==
  /\ api.pc = "check"
  /\ results' = [results EXCEPT ![api.tgt] = res]
  /\ api' = [api EXCEPT !.pc = "force", !.res = IF api.adding THEN res ELSE "none"]
  /\ UNCHANGED <<target, stateVars, cacheVars, queue, recordingVars, cyc, wk, requests>>

\* Mutant: the thread does not get ready for the next request.
AfterForceStays ==
  IF api.adding THEN [api EXCEPT !.pc = "again"] ELSE [api EXCEPT !.pc = "idle"]

\* What the request does after force_next_check: a new stream has its result
\* stored once more and its runtime state registered.
AfterForce ==
  IF api.adding THEN [api EXCEPT !.pc = "again", !.copy = NewState] ELSE IdleApi

ForceReads ==
  /\ api.pc = "force"
  /\ api' = IF api.tgt \in known
              THEN [api EXCEPT !.pc = "write", !.copy = rt[api.tgt]]
              ELSE AfterForce
  /\ UNCHANGED <<target, stateVars, cacheVars, results, queue, recordingVars, cyc, wk, requests>>

ForceWrites ==
  /\ api.pc = "write"
  /\ rt' = [rt EXCEPT ![api.tgt] = [api.copy EXCEPT !.due = TRUE]]
  /\ api' = AfterForce
  /\ UNCHANGED <<target, known, cacheVars, results, queue, recordingVars, cyc, wk, requests>>

ApiStoresAgain ==
  /\ api.pc = "again"
  /\ results' = [results EXCEPT ![api.tgt] = api.res]
  /\ api' = [api EXCEPT !.pc = "register"]
  /\ UNCHANGED <<target, stateVars, cacheVars, queue, recordingVars, cyc, wk, requests>>

\* register_new_target: a target that has a runtime state is left alone ...
RegisterReads ==
  /\ api.pc = "register"
  /\ api' = IF api.tgt \in known THEN IdleApi
            ELSE [api EXCEPT !.pc = "registering", !.res = "none"]
  /\ UNCHANGED <<target, stateVars, cacheVars, results, queue, recordingVars, cyc, wk, requests>>

\* ... and one that had none gets a new one, over one made in the meantime,
RegisterWrites ==
  /\ api.pc = "registering"
  /\ known' = known \union {api.tgt}
  /\ rt' = [rt EXCEPT ![api.tgt] = NewState]
  /\ api' = [api EXCEPT !.pc = "prime"]
  /\ UNCHANGED <<target, cacheVars, results, queue, recordingVars, cyc, wk, requests>>

\* and its cached state, and then its live flag.
RegisterPrimes ==
  /\ api.pc = "prime"
  /\ cached' = cached \union {api.tgt}
  /\ api' = [api EXCEPT !.pc = "flag"]
  /\ UNCHANGED <<target, stateVars, lastLive, results, queue, recordingVars, cyc, wk, requests>>

RegisterFlags ==
  /\ api.pc = "flag"
  /\ lastLive' = [lastLive EXCEPT ![api.tgt] = "offline"]
  /\ api' = IdleApi
  /\ UNCHANGED <<target, stateVars, cached, results, queue, recordingVars, cyc, wk, requests>>

Request(t) ==
  /\ api.pc = "idle"
  /\ requests < MaxRequests
  /\ requests' = requests + 1
  /\ AddStream(t) \/ DisableMonitoring(t) \/ EnableMonitoring(t) \/ ForceCheck(t)

ApiThread ==
  \/ \E res \in Outcomes : ApiStoresCheck(res)
  \/ ForceReads
  \/ ForceWrites
  \/ ApiStoresAgain
  \/ RegisterReads
  \/ RegisterWrites
  \/ RegisterPrimes
  \/ RegisterFlags

---------------------------------------------------------------------------
(* Time, and what ends a recording from outside *)

\* The deadlines of t that were set so far come, in every copy of its state.
DeadlinePasses(t) ==
  /\ ~rt[t].due
  /\ rt' = [rt EXCEPT ![t].due = TRUE]
  /\ cyc' = IF cyc.tgt = t THEN [cyc EXCEPT !.copy.due = TRUE] ELSE cyc
  /\ wk' = [w \in Workers |->
              IF wk[w].tgt = t THEN [wk[w] EXCEPT !.copy.due = TRUE] ELSE wk[w]]
  /\ api' = IF api.tgt = t THEN [api EXCEPT !.copy.due = TRUE] ELSE api
  /\ UNCHANGED <<target, known, cacheVars, results, queue, recordingVars, requests>>

\* 60 s have passed since t was last checked.
RecencyPasses(t) ==
  /\ rt[t].recent
  /\ rt' = [rt EXCEPT ![t].recent = FALSE]
  /\ cyc' = IF cyc.tgt = t THEN [cyc EXCEPT !.copy.recent = FALSE] ELSE cyc
  /\ wk' = [w \in Workers |->
              IF wk[w].tgt = t THEN [wk[w] EXCEPT !.copy.recent = FALSE] ELSE wk[w]]
  /\ api' = IF api.tgt = t THEN [api EXCEPT !.copy.recent = FALSE] ELSE api
  /\ UNCHANGED <<target, known, cacheVars, results, queue, recordingVars, requests>>

\* A session is closed by a stop over the API or by the exit of its ffmpeg.
SessionCloses(s) ==
  /\ sess[s] = "active"
  /\ sess' = [sess EXCEPT ![s] = "closed"]
  /\ UNCHANGED <<target, stateVars, cacheVars, results, queue, owner, cyc, wk, apiVars>>

---------------------------------------------------------------------------

Next ==
  \/ CycleThread
  \/ \E w \in Workers : WorkerThread(w)
  \/ \E t \in Targets : Request(t)
  \/ ApiThread
  \/ \E t \in Targets : DeadlinePasses(t) \/ RecencyPasses(t)
  \/ \E s \in Sessions : SessionCloses(s)

Spec == Init /\ [][Next]_vars

\* The cycle runs every 180 s for ever, the workers and the API thread go on
\* with what they do (a resolver has its own timeouts), and time passes.
\* Nobody has to make a request, and no recording has to end.
Fairness ==
  /\ WF_vars(CycleThread)
  /\ \A w \in Workers : WF_vars(WorkerThread(w))
  /\ WF_vars(ApiThread)
  /\ \A t \in Targets : WF_vars(DeadlinePasses(t)) /\ WF_vars(RecencyPasses(t))

FairSpec == Spec /\ Fairness

---------------------------------------------------------------------------
(* Properties *)

\* What the threads share.
SharedTypeOK ==
  /\ target \in [Targets -> {"absent", "on", "off"}]
  /\ known \in SUBSET Targets
  /\ rt \in [Targets -> States]
  /\ cached \in SUBSET Targets
  /\ lastLive \in [Targets -> {"unknown", "live", "offline"}]
  /\ results \in [Targets -> Outcomes \union {"none"}]
  /\ queue \in [Targets -> 0 .. MaxQueue]
  /\ sess \in [Sessions -> {"none", "active", "closed"}]
  /\ owner \in [Sessions -> Targets \union {None}]
  /\ requests \in 0 .. MaxRequests

\* A thread that is busy is busy with a target.
CycleTypeOK ==
  /\ cyc \in [pc: CycleSteps, batch: SUBSET Targets, left: SUBSET Targets,
              tgt: Targets \union {None}, copy: States,
              res: Outcomes \union {"none"}, ses: Sessions \union {None}]
  /\ cyc.tgt = None <=> cyc.pc \in {"idle", "process", "react"}

WorkerStates == [pc: WorkerSteps, tgt: Targets \union {None}, copy: States,
                 ses: Sessions \union {None}]

WorkersTypeOK ==
  /\ wk \in [Workers -> WorkerStates]
  /\ \A w \in Workers : wk[w].tgt = None <=> wk[w].pc = "idle"

ApiTypeOK ==
  /\ api \in [pc: ApiSteps, tgt: Targets \union {None},
              res: Outcomes \union {"none"}, copy: States, adding: BOOLEAN]
  /\ api.tgt = None <=> api.pc = "idle"

\* The types of the variables.
TypeOK == SharedTypeOK /\ CycleTypeOK /\ WorkersTypeOK /\ ApiTypeOK

\* However stale the copies are that the threads write back, the recording a
\* runtime state names is one of its own target: the stop of an offline
\* transition cannot hit another target's session.
OwnRecording ==
  \A t \in Targets : rt[t].active # None =>
    sess[rt[t].active] # "none" /\ owner[rt[t].active] = t

\* A thread has cached the state of t and is about to cache its live flag.
HalfCached(t) ==
  \/ api.pc = "flag" /\ api.tgt = t
  \/ \E w \in Workers : wk[w].pc = "flag" /\ wk[w].tgt = t

\* Phase B skips the transitions of a target that has no cached state or no
\* cached live flag.  The first never happens, whichever thread was first to
\* meet the target.  The second happens only while another thread is between
\* its two writes: Phase A, which tests for the state, then takes the target for
\* primed.
CachePrimed ==
  cyc.pc = "transition" =>
    /\ cyc.tgt \in cached
    /\ lastLive[cyc.tgt] = "unknown" => HalfCached(cyc.tgt)

\* Sessions are what RecordingService makes of them: seen from outside, the
\* table goes through what SessionLifecycle allows, although cycle, callbacks
\* and requests start and close sessions by what their copies say.
TableStatus(status) ==
  CASE status = "active" -> "recording"
    [] status = "closed" -> "completed"
    [] OTHER             -> "none"
Table == INSTANCE SessionLifecycle
  WITH session <- [s \in Sessions |-> TableStatus(sess[s])]
ImplementsSessions == Table!ObservedSpec

\* t is disabled, and what was under way for it has been worked off.
Quiet(t) ==
  /\ target[t] = "off"
  /\ queue[t] = 0
  /\ t \notin cyc.batch
  /\ \A w \in Workers : wk[w].tgt # t
  /\ api.tgt # t

\* "No live check or recording will be initiated" (disable_monitoring.py): an
\* entry from before may still be checked and even recorded, but once that is
\* over, and until the next request for it, a disabled target is neither queued
\* nor checked nor recorded.
DisabledStaysQuiet ==
  [][\A t \in Targets : Quiet(t) =>
       \/ Request(t)
       \/ /\ Quiet(t)'
          /\ results'[t] = results[t]
          /\ rt'[t].active = rt[t].active
          /\ \A s \in Sessions : owner'[s] = t => owner[s] = t]_vars

\* t is being checked, by a worker or on demand.
Checked(t) ==
  \/ \E w \in Workers : wk[w].tgt = t /\ wk[w].pc = "check"
  \/ api.tgt = t /\ api.pc = "check"

\* A target that stays enabled is checked again and again: no interleaving of
\* cycle, workers and requests loses it for good.
EnabledIsChecked == \A t \in Targets : []<>(target[t] # "on" \/ Checked(t))

\* The id of a recording that was closed from outside does not stay in the
\* runtime state of an enabled target, where it would keep the callback from
\* starting the next recording.
StaleRecordingIsForgotten ==
  \A t \in Targets, s \in Sessions :
    rt[t].active = s /\ sess[s] = "closed" ~> rt[t].active # s \/ target[t] # "on"

\* A result in the store is taken by the cycle, while the target is enabled.
ResultIsConsumed ==
  \A t \in Targets : results[t] # "none" ~> results[t] = "none" \/ target[t] # "on"

---------------------------------------------------------------------------
(* The inductive invariant of the safety properties *)

\* s is no session, or one that was started for the target t.
IsOwn(s, t) == s # None => t # None /\ sess[s] # "none" /\ owner[s] = t

\* OwnRecording, of the copies the threads hold as well as of what is stored.
CopiesAreOwn ==
  /\ \A t \in Targets : IsOwn(rt[t].active, t)
  /\ IsOwn(cyc.copy.active, cyc.tgt) /\ IsOwn(cyc.ses, cyc.tgt)
  /\ \A w \in Workers : IsOwn(wk[w].copy.active, wk[w].tgt) /\ IsOwn(wk[w].ses, wk[w].tgt)
  /\ IsOwn(api.copy.active, api.tgt)

\* Phase A leaves every target it has processed with a cached state, and Phase B
\* is about the same targets.
BatchIsPrimed ==
  /\ cyc.left \subseteq cyc.batch
  /\ cyc.tgt # None => cyc.tgt \in cyc.left
  /\ \A t \in cyc.batch :
       t \notin cyc.left \/ cyc.pc \notin {"process", "enqueue", "write", "test", "prime"}
         => t \in cached

\* A cached state has its live flag, or is about to get it.
FlagsFollow == \A t \in cached : lastLive[t] = "unknown" => HalfCached(t)

CycleInv == TypeOK /\ CopiesAreOwn /\ BatchIsPrimed /\ FlagsFollow

---------------------------------------------------------------------------
(* Statements of the repository that the code does not keep *)

\* _on_live_detected: "Avoid starting duplicate recordings (thread-safe
\* check)": a target has at most one active session.
NoDuplicateRecording ==
  \A r, s \in Sessions :
    sess[r] = "active" /\ sess[s] = "active" /\ owner[r] = owner[s] => r = s

=============================================================================
