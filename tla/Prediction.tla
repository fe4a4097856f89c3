------------------------------ MODULE Prediction ------------------------------
(***************************************************************************)
(* The prediction of app/domain/prediction: the signals of features.py,    *)
(* their combination into a likelihood (engine.py), and the policy that    *)
(* turns a likelihood into the interval to the next check and into a       *)
(* queue (policy.py).  Pure operators; CheckSchedule calls them.           *)
(*                                                                         *)
(* The scores of the code are floats in [0.0, 1.0], rounded to four        *)
(* decimals where they are stored.  Here they are integers in thousandths, *)
(* and every product and quotient is rounded down.  Intervals are seconds. *)
(***************************************************************************)
EXTENDS Integers, FiniteSetsExt

Whole == 1000                     \* the score 1.0
Scores == 0..Whole

FastThreshold   == 900
MediumThreshold == 500
Baseline        == 150

Larger(a, b)  == IF a >= b THEN a ELSE b
Smaller(a, b) == IF a <= b THEN a ELSE b
Distance(a, b) == IF a >= b THEN a - b ELSE b - a
Times(a, b) == (a * b) \div Whole
---------------------------------------------------------------------------
(* Signals *)

\* calculate_ema
Ema(priority, isLive) ==
  IF isLive THEN 100 + (9 * priority) \div 10 ELSE (995 * priority) \div 1000

\* calculate_recency_factor, for a target that was live so many days ago; one
\* that never was has the factor Baseline.
Recency(days) ==
  IF days <= 14 THEN Whole
  ELSE IF days <= 45 THEN 820
  ELSE IF days <= 60 THEN 700
  ELSE Larger(Baseline, 700 - (550 * (days - 60)) \div 60)

\* calculate_consistency
Consistency(sessions, period) ==
  IF period <= 0 \/ sessions <= 0
    THEN 0 ELSE Smaller(Whole, (Whole * sessions) \div period)

\* A session, as the patterns see it: how many days ago it began, whether on
\* this day of the week, and in which minute of its day.
Recent(s) == s.age <= 90

\* calculate_hourly_pattern: the distance to the nearest hour at which one of
\* the sessions began, within one day.  It sees the sessions as a set.
HourlyPattern(sessions, hour) ==
  LET hours == {s.minute \div 60 : s \in {r \in sessions : Recent(r)}}
      nearest == Min({Distance(hour, h) : h \in hours})
      proximity == Larger(0, Whole - (Whole * nearest) \div 3)
  IN IF hours = {} THEN 0 ELSE Larger(Baseline, 250 + (55 * proximity) \div 100)

\* calculate_session_pattern: sessions weigh less with their age, and less on
\* another day of the week; each adds how near it began to this minute.  The
\* sessions are a sequence: two that are alike count twice.
SessionWeight(s) ==
  (((21 * Whole) \div (21 + s.age)) * (IF s.sameDay THEN 125 ELSE 35)) \div 100

SessionPattern(sessions, minute) ==
  LET counted == {i \in DOMAIN sessions : Recent(sessions[i]) /\ sessions[i].age >= 0}
      weight(i) == SessionWeight(sessions[i])
      total == MapThenSumSet(weight, counted)
      near(s) == Larger(0, Whole - (Whole * Distance(minute, s.minute)) \div 240)
      hit(i) == Times(weight(i), near(sessions[i]))
      share == (Whole * MapThenSumSet(hit, counted)) \div total
  IN IF total = 0 THEN Baseline ELSE Baseline + Times(share, 700)

\* calculate_likelihood
Core(ema, consistency) == (6 * ema + 4 * consistency) \div 10
Bonus(hourly, session) == hourly \div 10 + session \div 20

\* Mutant: the floor is put under the signals before the recency is applied.
LikelihoodFlooredFirst(ema, recency, consistency, favorite, hourly, session) ==
  LET base  == Smaller(Whole, Core(ema, consistency) + Bonus(hourly, session))
      score == Times(Larger(base, Baseline), recency)
  IN Smaller(Whole, IF favorite THEN Larger(score, MediumThreshold) ELSE score)

Likelihood(ema, recency, consistency, favorite, hourly, session) ==
  LET base  == Smaller(Whole, Core(ema, consistency) + Bonus(hourly, session))
      score == Larger(Times(base, recency), Baseline)
  IN Smaller(Whole, IF favorite THEN Larger(score, MediumThreshold) ELSE score)
---------------------------------------------------------------------------
(* Policy *)

\* A favourite counts as likely, whatever its likelihood is.
Effective(likelihood, favorite) ==
  IF favorite THEN Larger(likelihood, MediumThreshold) ELSE likelihood

\* The two branches of get_adjusted_interval that look at the previous likelihood
\* and the count of checks.
IsPromoted(priority, checks) == checks < 3 /\ priority < MediumThreshold
IsAsleep(priority, checks)   == checks >= 30 /\ priority < 10

\* get_adjusted_interval, before the cap of the favourites
BaseInterval(likelihood, priority, favorite, checks) ==
  IF Effective(likelihood, favorite) >= FastThreshold THEN 60
  ELSE IF Effective(likelihood, favorite) >= MediumThreshold THEN 300
  ELSE IF IsPromoted(priority, checks) THEN 300
  ELSE IF IsAsleep(priority, checks) THEN 2700
  ELSE 900

FavoriteMax == 180

\* apply_jitter.  random.randint(-delta, delta) is the argument "draw", in
\* hundredths of delta.
JitterDelta(interval) == Larger(1, (15 * interval) \div 100)
ApplyJitter(interval, draw) == interval + (draw * JitterDelta(interval)) \div 100

\* get_adjusted_interval.  The cap comes before the jitter.
AdjustedInterval(likelihood, priority, favorite, checks, draw) ==
  LET base == BaseInterval(likelihood, priority, favorite, checks)
  IN ApplyJitter(IF favorite THEN Smaller(base, FavoriteMax) ELSE base, draw)

\* get_interval_seconds
IntervalSeconds(likelihood, favorite) ==
  IF Effective(likelihood, favorite) >= FastThreshold THEN 60
  ELSE IF Effective(likelihood, favorite) >= MediumThreshold THEN 300 ELSE 900

\* get_queue_band
QueueBand(likelihood, favorite) ==
  IF Effective(likelihood, favorite) >= FastThreshold THEN "fast"
  ELSE IF Effective(likelihood, favorite) >= MediumThreshold THEN "medium" ELSE "slow"
---------------------------------------------------------------------------
(* Engine *)

\* Mutant: the likelihood of a live target is given in percent.
PredictedInPercent(recorded, priority, recency, favorite, sig) ==
  IF recorded
    THEN 100 * Whole
    ELSE Likelihood(Ema(priority, FALSE), recency, sig.consistency, favorite,
                    sig.hourly, sig.session)

\* predict, the likelihood of an enabled target: a target with a recording is
\* live for the engine, and nothing else is looked at.
Predicted(recorded, priority, recency, favorite, sig) ==
  IF recorded
    THEN Whole
    ELSE Likelihood(Ema(priority, FALSE), recency, sig.consistency, favorite,
                    sig.hourly, sig.session)

\* _classify_ui_state
UiState(likelihood, enabled, isLive) ==
  IF ~enabled THEN "disabled"
  ELSE IF isLive THEN "live"
  ELSE IF likelihood >= FastThreshold THEN "expected_now"
  ELSE IF likelihood >= MediumThreshold THEN "upcoming"
  ELSE IF likelihood >= Baseline THEN "idle" ELSE "cold"
=============================================================================
