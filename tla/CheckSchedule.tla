---------------------------- MODULE CheckSchedule ----------------------------
(***************************************************************************)
(* When a stream is checked: the deadline that the monitoring cycle        *)
(* (app/application/orchestrators/monitoring_cycle.py) keeps for a target, *)
(* the predictions and intervals it is computed from, and the time that    *)
(* passes.  MonitoringCycle has the same threads without time and numbers; *)
(* here the recordings, its subject, are started and ended freely.         *)
(*                                                                         *)
(* Everything is per target, so the module follows one; the others only    *)
(* make a cycle longer.  A deadline is kept as the seconds that are left,  *)
(* 0 when it has come.  A step that is not Elapse takes no time.  The      *)
(* days that a recency factor is computed from do not pass, and the hour   *)
(* of the signals is any: an interval is decided anew with every check.    *)
(***************************************************************************)
EXTENDS Prediction

CONSTANTS
  Threads,   \* the threads that run the live callback or force_next_check
  Signals,   \* what the sessions of the target may say at some time of day
  Recencies, \* the factors its last live time may give
  Draws,     \* what random.randint may draw, in hundredths of the range
  MaxChecks, \* bound: no more checks are counted; the policy asks for 3 and 30
  Period,    \* seconds between two cycles (loop_interval)
  Busy,      \* bound: seconds that one cycle takes
  Step       \* the seconds in which time passes

ASSUME ScheduleAssumption ==
  /\ Signals \subseteq [consistency : Scores, hourly : Scores, session : Scores]
  /\ Recencies \subseteq Baseline..Whole
  /\ Baseline \in Recencies /\ Whole \in Recencies
  /\ Draws \subseteq -100..100
  /\ MaxChecks \in Nat
  /\ Period \in Nat /\ Busy \in Nat /\ Step \in Nat \ {0}

VARIABLES
  enabled,   \* the target's enabled flag
  favorite,  \* the target's favorite flag
  rt,        \* its runtime state
  store,     \* its entry in the live check result store
  cyc,       \* the cycle thread
  thr,       \* the other threads
  clock,     \* seconds since the cycle began, or since it ended
  age        \* seconds since the target was enqueued or a result was applied

vars == <<enabled, favorite, rt, store, cyc, thr, clock, age>>
targetVars == <<enabled, favorite>>

\* The longest interval that get_adjusted_interval gives: the cap of the
\* favourites, the deep sleep or the slow interval, with the jitter.
MaxInterval == IF favorite THEN 207 ELSE IF MaxChecks >= 30 THEN 3105 ELSE 1035

\* previous_likelihood, last_checked_count, last_live_at (by the recency factor
\* that it gives), and whether active_recording_session_id is set.
States == [wait : Nat, likelihood : Scores, checks : 0..MaxChecks,
           recency : Recencies, recorded : BOOLEAN]

CycleSteps == {"idle", "process", "write", "react", "apply", "record", "others"}
ThreadSteps == {"idle", "callback", "force"}

FirstState(recency) == [wait |-> 0, likelihood |-> 0, checks |-> 0,
                        recency |-> recency, recorded |-> FALSE]
Nothing == FirstState(Baseline)

\* _build_initial_snapshots
Init ==
  /\ enabled \in BOOLEAN
  /\ favorite \in BOOLEAN
  /\ rt \in {FirstState(r) : r \in Recencies}
  /\ store = "none"
  /\ cyc = [pc |-> "idle", copy |-> Nothing]
  /\ thr = [w \in Threads |-> [pc |-> "idle", copy |-> Nothing]]
  /\ clock = 0
  /\ age = 0
---------------------------------------------------------------------------
(* Time *)

Left(seconds, s) == Larger(0, seconds - s)
Later(st, s) == [st EXCEPT !.wait = Left(@, s)]

\* A cycle takes at most Busy seconds, and the next begins Period seconds after
\* it has ended.
Elapse ==
  /\ clock + Step <= (IF cyc.pc = "idle" THEN Period ELSE Busy)
  /\ clock' = clock + Step
  /\ age' = IF enabled THEN age + Step ELSE 0
  /\ rt' = Later(rt, Step)
  /\ cyc' = [cyc EXCEPT !.copy = Later(@, Step)]
  /\ thr' = [w \in Threads |-> [thr[w] EXCEPT !.copy = Later(@, Step)]]
  /\ UNCHANGED <<targetVars, store>>
---------------------------------------------------------------------------
(* The cycle thread *)

CycleBegins ==
  /\ cyc.pc = "idle"
  /\ clock + Step > Period
  /\ cyc' = [pc |-> IF enabled THEN "process" ELSE "others", copy |-> Nothing]
  /\ clock' = 0
  /\ UNCHANGED <<targetVars, rt, store, thr, age>>

\* Mutant: the deadline is moved in every cycle, due or not.
ProcessedAlwaysMoves(st, sig, draw) ==
  LET l == Predicted(st.recorded, st.likelihood, st.recency, favorite, sig)
  IN [st EXCEPT !.likelihood = l, !.checks = 0,
                !.wait = AdjustedInterval(l, st.likelihood, favorite, st.checks, draw)]

\* What _process_target computes from the state it reads: the likelihood of the
\* target, and its state with that likelihood.  The copy it makes does not take
\* last_checked_count over.
Processed(st, sig, draw) ==
  LET l == Predicted(st.recorded, st.likelihood, st.recency, favorite, sig)
      interval == AdjustedInterval(l, st.likelihood, favorite, st.checks, draw)
  IN [st EXCEPT !.likelihood = l, !.checks = 0,
                !.wait = IF @ = 0 THEN interval ELSE @]

\* A target that is due is enqueued, and only then the deadline is moved.
Processes(sig, draw) ==
  /\ cyc.pc = "process"
  /\ cyc' = [pc |-> "write", copy |-> Processed(rt, sig, draw)]
  /\ age' = IF rt.wait = 0 THEN 0 ELSE age
  /\ UNCHANGED <<targetVars, rt, store, thr, clock>>

ProcessWrites ==
  /\ cyc.pc = "write"
  /\ rt' = cyc.copy
  /\ cyc' = [pc |-> "react", copy |-> Nothing]
  /\ UNCHANGED <<targetVars, store, thr, clock, age>>

ReactReads ==
  /\ cyc.pc = "react"
  /\ cyc' = [pc |-> "apply", copy |-> rt]
  /\ UNCHANGED <<targetVars, rt, store, thr, clock, age>>

\* _apply_resolve_result.  The interval is computed from the likelihood that
\* the result stands for, and from the previous one.
Applied(st, isLive, draw) ==
  LET l == IF isLive THEN Whole ELSE 0
  IN [st EXCEPT !.wait = AdjustedInterval(l, st.likelihood, favorite, st.checks, draw),
                !.likelihood = l,
                !.checks = Smaller(@ + 1, MaxChecks),
                !.recency = IF isLive THEN Recency(0) ELSE @]

AppliesResult(draw) ==
  /\ cyc.pc = "apply"
  /\ IF store = "none"
       THEN /\ cyc' = [cyc EXCEPT !.pc = "record"]
            /\ UNCHANGED <<rt, store, age>>
       ELSE /\ rt' = Applied(cyc.copy, store = "live", draw)
            /\ cyc' = [pc |-> "record", copy |-> rt']
            /\ store' = "none"
            /\ age' = 0
  /\ UNCHANGED <<targetVars, thr, clock>>

\* _with_recording_session and _clear_recording_state.  Neither copy takes
\* last_checked_count over.
WithSession(st) == [st EXCEPT !.recorded = TRUE, !.checks = 0]
WithoutSession(st) ==
  [st EXCEPT !.recorded = FALSE, !.likelihood = 0, !.checks = 0]

\* Phase B goes on with the recording: one has ended or is stopped, one is
\* started for a result that was live, or neither.
Records(st) ==
  /\ cyc.pc = "record"
  /\ \/ st = cyc.copy /\ UNCHANGED rt
     \/ st = WithSession(cyc.copy) /\ cyc.copy.likelihood = Whole /\ rt' = st
     \/ st = WithoutSession(cyc.copy) /\ cyc.copy.recorded /\ rt' = st
  /\ cyc' = [pc |-> "others", copy |-> Nothing]
  /\ UNCHANGED <<targetVars, store, thr, clock, age>>

CycleEnds ==
  /\ cyc.pc = "others"
  /\ cyc' = [cyc EXCEPT !.pc = "idle"]
  /\ clock' = 0
  /\ UNCHANGED <<targetVars, rt, store, thr, age>>
---------------------------------------------------------------------------
(* The other threads *)

\* A worker or the API has checked the target, and stores what it found; the
\* check over the API waits in no queue, so this may happen at any time.
Answers(result) ==
  /\ store' = result
  /\ UNCHANGED <<targetVars, rt, cyc, thr, clock, age>>

\* _on_live_detected reads the state, goes on if no recording is active, and
\* stores its copy when a recording was started.
CallbackReads(w) ==
  /\ thr[w].pc = "idle"
  /\ ~rt.recorded
  /\ thr' = [thr EXCEPT ![w] = [pc |-> "callback", copy |-> rt]]
  /\ UNCHANGED <<targetVars, rt, store, cyc, clock, age>>

CallbackWrites(w) ==
  /\ thr[w].pc = "callback"
  /\ rt' = WithSession(thr[w].copy)
  /\ thr' = [thr EXCEPT ![w] = [pc |-> "idle", copy |-> Nothing]]
  /\ UNCHANGED <<targetVars, store, cyc, clock, age>>

\* force_next_check reads the state, and stores a copy that is due.
ForceReads(w) ==
  /\ thr[w].pc = "idle"
  /\ thr' = [thr EXCEPT ![w] = [pc |-> "force", copy |-> rt]]
  /\ UNCHANGED <<targetVars, rt, store, cyc, clock, age>>

ForceWrites(w) ==
  /\ thr[w].pc = "force"
  /\ rt' = [thr[w].copy EXCEPT !.wait = 0]
  /\ thr' = [thr EXCEPT ![w] = [pc |-> "idle", copy |-> Nothing]]
  /\ UNCHANGED <<targetVars, store, cyc, clock, age>>

\* start_recording raises, so the callback stores nothing.
CallbackRaises(w) ==
  /\ thr[w].pc = "callback"
  /\ thr' = [thr EXCEPT ![w] = [pc |-> "idle", copy |-> Nothing]]
  /\ UNCHANGED <<targetVars, rt, store, cyc, clock, age>>

\* The enabled flag is set over the API (force_next_check, which follows, is
\* ForceReads); the count of the seconds starts when the target is enabled ...
Enable ==
  /\ ~enabled
  /\ enabled' = TRUE
  /\ age' = 0
  /\ UNCHANGED <<favorite, rt, store, cyc, thr, clock>>

\* ... and has no meaning once it is disabled.
Disable ==
  /\ enabled
  /\ enabled' = FALSE
  /\ age' = 0
  /\ UNCHANGED <<favorite, rt, store, cyc, thr, clock>>
---------------------------------------------------------------------------
CycleThread ==
  \/ CycleBegins
  \/ \E sig \in Signals, draw \in Draws : Processes(sig, draw)
  \/ ProcessWrites
  \/ ReactReads
  \/ \E draw \in Draws : AppliesResult(draw)
  \/ \E st \in {cyc.copy, WithSession(cyc.copy), WithoutSession(cyc.copy)} : Records(st)
  \/ CycleEnds

OtherThread(w) ==
  \/ CallbackReads(w)
  \/ CallbackWrites(w)
  \/ CallbackRaises(w)
  \/ ForceReads(w)
  \/ ForceWrites(w)

Next ==
  \/ Elapse
  \/ CycleThread
  \/ \E result \in {"live", "offline"} : Answers(result)
  \/ \E w \in Threads : OtherThread(w)
  \/ Enable
  \/ Disable

Spec == Init /\ [][Next]_vars
---------------------------------------------------------------------------
(* Properties *)

Threaded(steps) == [pc : steps, copy : States]

\* Every variable has its type: no deadline is negative, whatever is drawn, and
\* no likelihood leaves the scores.
SchedTypeOK ==
  /\ enabled \in BOOLEAN
  /\ favorite \in BOOLEAN
  /\ rt \in States
  /\ store \in {"none", "live", "offline"}
  /\ cyc \in Threaded(CycleSteps)
  /\ thr \in [Threads -> Threaded(ThreadSteps)]
  /\ clock \in Nat
  /\ age \in Nat

\* A likelihood that a thread may read is 0, the value of a result that was
\* offline, or it is in the range that calculate_likelihood documents, at least
\* at the baseline, and for a favourite at least at the medium threshold: no
\* history and no order of results carries it out of it.
InRange(l) ==
  l = 0 \/ (l \in Baseline..Whole /\ (favorite => l >= MediumThreshold))

LikelihoodInRange ==
  /\ InRange(rt.likelihood)
  /\ InRange(cyc.copy.likelihood)
  /\ \A w \in Threads : InRange(thr[w].copy.likelihood)

\* However late a result comes, and whichever stale copy of the runtime state is
\* stored last, an enabled target is enqueued again, or a result of it is
\* applied, within its longest interval and the wait for a cycle to come by: no
\* store pushes a deadline further than the interval of a check that was made.
\* (A favourite waits up to 207 seconds, and not the 180 of FAVORITE_MAX_INTERVAL.)
CheckedInTime == enabled => age <= MaxInterval + Period + 2 * Busy
---------------------------------------------------------------------------
(* The inductive invariant *)

\* What holds of every runtime state, stored or copied, with a as the age: its
\* deadline was set by the last check or by an earlier one.
Kept(st, a) ==
  /\ st \in States
  /\ InRange(st.likelihood)
  /\ st.wait > 0 => st.wait + a <= MaxInterval

StateInv ==
  /\ Kept(rt, age)
  /\ Kept(cyc.copy, age)
  /\ \A w \in Threads : Kept(thr[w].copy, age)

ClockInv == clock <= (IF cyc.pc = "idle" THEN Period ELSE Busy)

\* When the deadline has come, the cycle that is under way may have passed the
\* target; then the pause and the next cycle are still to be waited for.
AgeInv ==
  enabled => age <= MaxInterval + clock +
                      (IF cyc.pc = "idle" THEN Busy
                       ELSE IF cyc.pc = "process" THEN Busy + Period ELSE 0)

SchedInv == SchedTypeOK /\ StateInv /\ ClockInv /\ AgeInv
=============================================================================
