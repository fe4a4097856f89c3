------------------------ MODULE CheckSchedule_proofs ------------------------
(***************************************************************************)
(* Theorems about Prediction and CheckSchedule, for every history, draw,   *)
(* period and number of threads.                                           *)
(***************************************************************************)
EXTENDS CheckSchedule, WellFoundedInduction, TLAPS

---------------------------------------------------------------------------
(* The operators of Prediction *)

\* Whatever the signals are, the likelihood is in the documented range, and that
\* of a favourite is at least at the medium threshold.
THEOREM LikelihoodRange ==
  ASSUME NEW ema \in Int, NEW recency \in Int, NEW consistency \in Int,
         NEW favorite_ \in BOOLEAN, NEW hourly \in Int, NEW session \in Int
  PROVE  LET l == Likelihood(ema, recency, consistency, favorite_, hourly, session)
         IN /\ l \in Baseline..Whole
            /\ favorite_ => l >= MediumThreshold
<1> DEFINE base == Smaller(Whole, Core(ema, consistency) + Bonus(hourly, session))
           score == Larger(Times(base, recency), Baseline)
<1>1. base \in Int
  BY DEF base, Smaller, Core, Bonus, Whole
<1>2. Times(base, recency) \in Int
  <2> HIDE DEF base
  <2>1. base * recency \in Int
    BY <1>1
  <2> QED BY <2>1 DEF Times, Whole
<1>3. score \in Int /\ score >= Baseline
  <2> HIDE DEF base
  <2> QED BY <1>2 DEF score, Larger, Baseline
<1> HIDE DEF score
<1>4. LET l == Smaller(Whole, IF favorite_ THEN Larger(score, MediumThreshold) ELSE score)
      IN /\ l \in Baseline..Whole
         /\ favorite_ => l >= MediumThreshold
  BY <1>3 DEF Smaller, Larger, Whole, Baseline, MediumThreshold
<1> QED BY <1>4 DEF Likelihood, score

\* The recency factor is in the range [baseline, 1.0] of its docstring, which is
\* what CheckSchedule assumes of Recencies.
THEOREM RecencyRange ==
  ASSUME NEW days \in Int
  PROVE  Recency(days) \in Baseline..Whole
BY DEF Recency, Larger, Baseline, Whole

\* It never rises while the target is not live: no step between two of its pieces
\* goes up.
THEOREM RecencyFades ==
  ASSUME NEW d \in Int, NEW e \in Int, d <= e
  PROVE  Recency(e) <= Recency(d)
BY DEF Recency, Larger, Baseline, Whole

LEMMA TimesMonotone ==
  ASSUME NEW a \in Int, NEW b \in Int, NEW r \in Nat, a <= b
  PROVE  Times(a, r) <= Times(b, r)
<1>1. a * r \in Int /\ b * r \in Int /\ a * r <= b * r
  OBVIOUS
<1>2. \A x, y \in Int : x <= y => x \div 1000 <= y \div 1000
  OBVIOUS
<1> QED BY <1>1, <1>2 DEF Times, Whole

\* The patterns of past sessions are a bonus: they "never reduce the core score"
\* (features.py, calculate_likelihood).
THEOREM BonusNeverReduces ==
  ASSUME NEW ema \in Scores, NEW recency \in Scores, NEW consistency \in Scores,
         NEW favorite_ \in BOOLEAN, NEW hourly \in Nat, NEW session \in Nat
  PROVE  Likelihood(ema, recency, consistency, favorite_, 0, 0)
           <= Likelihood(ema, recency, consistency, favorite_, hourly, session)
<1> DEFINE base(h, s) == Smaller(Whole, Core(ema, consistency) + Bonus(h, s))
           score(h, s) == Larger(Times(base(h, s), recency), Baseline)
<1>1. /\ base(0, 0) \in Int
      /\ base(hourly, session) \in Int
      /\ base(0, 0) <= base(hourly, session)
  BY DEF Smaller, Core, Bonus, Whole, Scores
<1>2. /\ Times(base(0, 0), recency) \in Int
      /\ Times(base(hourly, session), recency) \in Int
      /\ Times(base(0, 0), recency) <= Times(base(hourly, session), recency)
  <2> HIDE DEF base
  <2>1. recency \in Nat
    BY DEF Scores
  <2>2. base(0, 0) * recency \in Int /\ base(hourly, session) * recency \in Int
    BY <1>1, <2>1
  <2>3. Times(base(0, 0), recency) \in Int /\ Times(base(hourly, session), recency) \in Int
    BY <2>2 DEF Times, Whole
  <2> QED BY <1>1, <2>1, <2>3, TimesMonotone
<1>3. /\ score(0, 0) \in Int
      /\ score(hourly, session) \in Int
      /\ score(0, 0) <= score(hourly, session)
  <2> HIDE DEF base
  <2> QED BY <1>2 DEF Larger, Baseline
<1> HIDE DEF score
<1>4. Smaller(Whole, IF favorite_ THEN Larger(score(0, 0), MediumThreshold) ELSE score(0, 0))
        <= Smaller(Whole, IF favorite_ THEN Larger(score(hourly, session), MediumThreshold)
                                       ELSE score(hourly, session))
  BY <1>3 DEF Smaller, Larger, Whole, MediumThreshold
<1> QED BY <1>4 DEF Likelihood, score

\* Both factors of a product of scores may grow, and the product grows.
LEMMA TimesGrows ==
  ASSUME NEW a \in Nat, NEW b \in Nat, NEW r \in Nat, NEW q \in Nat, a <= b, r <= q
  PROVE  Times(a, r) \in Nat /\ Times(b, q) \in Nat /\ Times(a, r) <= Times(b, q)
<1>1. a * r \in Nat /\ b * r \in Nat /\ b * q \in Nat
  OBVIOUS
<1>2. a * r <= b * r
  OBVIOUS
<1>3. b * r <= b * q
  OBVIOUS
<1>4. a * r <= b * q
  BY <1>1, <1>2, <1>3
<1>5. \A x, y \in Nat : x <= y => x \div 1000 \in Nat /\ x \div 1000 <= y \div 1000
  OBVIOUS
<1> QED BY <1>1, <1>4, <1>5 DEF Times, Whole

\* Every signal speaks for the target: a higher average, a more recent live
\* time, more sessions and a better pattern never make it less likely, nor does
\* it to be a favourite, whichever of the cap, the floor and the clamp apply
\* (calculate_likelihood).
THEOREM LikelihoodGrows ==
  ASSUME NEW ema \in Scores, NEW ema2 \in Scores, ema <= ema2,
         NEW recency \in Scores, NEW recency2 \in Scores, recency <= recency2,
         NEW consistency \in Scores, NEW consistency2 \in Scores, consistency <= consistency2,
         NEW favorite_ \in BOOLEAN, NEW favorite2 \in BOOLEAN, favorite_ => favorite2,
         NEW hourly \in Scores, NEW hourly2 \in Scores, hourly <= hourly2,
         NEW session \in Scores, NEW session2 \in Scores, session <= session2
  PROVE  Likelihood(ema, recency, consistency, favorite_, hourly, session)
           <= Likelihood(ema2, recency2, consistency2, favorite2, hourly2, session2)
<1> DEFINE base == Smaller(Whole, Core(ema, consistency) + Bonus(hourly, session))
           base2 == Smaller(Whole, Core(ema2, consistency2) + Bonus(hourly2, session2))
           score == Larger(Times(base, recency), Baseline)
           score2 == Larger(Times(base2, recency2), Baseline)
<1>1. /\ Core(ema, consistency) \in Nat /\ Core(ema2, consistency2) \in Nat
      /\ Core(ema, consistency) <= Core(ema2, consistency2)
  BY DEF Core, Scores, Whole
<1>2. /\ Bonus(hourly, session) \in Nat /\ Bonus(hourly2, session2) \in Nat
      /\ Bonus(hourly, session) <= Bonus(hourly2, session2)
  <2>1. /\ \A x, y \in Nat : x <= y => x \div 10 \in Nat /\ x \div 10 <= y \div 10
        /\ \A x, y \in Nat : x <= y => x \div 20 \in Nat /\ x \div 20 <= y \div 20
    OBVIOUS
  <2>2. /\ hourly \in Nat /\ hourly2 \in Nat /\ hourly <= hourly2
        /\ session \in Nat /\ session2 \in Nat /\ session <= session2
    BY DEF Scores
  <2>3. /\ hourly \div 10 \in Nat /\ hourly2 \div 10 \in Nat
        /\ hourly \div 10 <= hourly2 \div 10
    BY <2>1, <2>2
  <2>4. /\ session \div 20 \in Nat /\ session2 \div 20 \in Nat
        /\ session \div 20 <= session2 \div 20
    BY <2>1, <2>2
  <2> QED BY <2>3, <2>4 DEF Bonus
<1>3. base \in Nat /\ base2 \in Nat /\ base <= base2
  BY <1>1, <1>2 DEF Smaller, Whole
<1> HIDE DEF base, base2
<1>4. /\ Times(base, recency) \in Nat /\ Times(base2, recency2) \in Nat
      /\ Times(base, recency) <= Times(base2, recency2)
  <2>1. recency \in Nat /\ recency2 \in Nat
    BY DEF Scores
  <2> QED BY <1>3, <2>1, TimesGrows
<1>5. score \in Nat /\ score2 \in Nat /\ score <= score2
  BY <1>4 DEF Larger, Baseline
<1> HIDE DEF score, score2
<1>6. Smaller(Whole, IF favorite_ THEN Larger(score, MediumThreshold) ELSE score)
        <= Smaller(Whole, IF favorite2 THEN Larger(score2, MediumThreshold) ELSE score2)
  BY <1>5 DEF Smaller, Larger, Whole, MediumThreshold
<1> QED BY <1>6 DEF Likelihood, score, score2, base, base2

\* The average stays a score, climbs while the target is live and falls while it
\* is not (calculate_ema).
THEOREM EmaFollows ==
  ASSUME NEW priority \in Scores
  PROVE  /\ Ema(priority, TRUE) \in Scores /\ Ema(priority, FALSE) \in Scores
         /\ Ema(priority, FALSE) <= priority /\ priority <= Ema(priority, TRUE)
BY DEF Ema, Scores, Whole

\* The consistency is a score for any count and period (calculate_consistency),
\* as CheckSchedule assumes of its signals.
THEOREM ConsistencyRange ==
  ASSUME NEW sessions \in Int, NEW period \in Int
  PROVE  Consistency(sessions, period) \in Scores
<1>1. CASE period <= 0 \/ sessions <= 0
  BY <1>1 DEF Consistency, Scores, Whole
<1>2. CASE period > 0 /\ sessions > 0
  <2>1. 1000 * sessions \in Nat /\ period \in Nat \ {0}
    BY <1>2
  <2>2. \A x \in Nat, y \in Nat \ {0} : x \div y \in Nat
    OBVIOUS
  <2>3. (1000 * sessions) \div period \in Nat
    BY <2>1, <2>2
  <2> QED BY <1>2, <2>3 DEF Consistency, Scores, Smaller, Whole
<1> QED BY <1>1, <1>2

\* A set of numbers has a least one.
LEMMA LeastNumber ==
  ASSUME NEW S \in SUBSET Nat, S # {}
  PROVE  \E x \in S : \A y \in S : x <= y
<1> DEFINE R == OpToRel(<, Nat)
<1>1. IsWellFoundedOn(R, Nat)
  BY NatLessThanWellFounded, Zenon
<1>2. ASSUME NEW x \in Nat, NEW y \in Nat, y < x PROVE <<y, x>> \in R
  BY <1>2, Zenon DEF OpToRel
<1> HIDE DEF R
<1>3. PICK x \in S : \A y \in S : ~(<<y, x>> \in R)
  BY <1>1, WFMin
<1>4. ASSUME NEW y \in S PROVE x <= y
  <2>1. x \in Nat /\ y \in Nat
    OBVIOUS
  <2>2. ~(y < x)
    BY <1>2, <1>3, <2>1
  <2> QED BY <2>1, <2>2
<1> QED BY <1>4

\* The hourly pattern is 0 without sessions and else in [baseline, 0.80], as its
\* docstring says (calculate_hourly_pattern), however far the hours are apart.
THEOREM HourlyPatternRange ==
  ASSUME NEW sessions, NEW hour \in 0 .. 23,
         \A s \in sessions : s.minute \in 0 .. 1439
  PROVE  /\ HourlyPattern(sessions, hour) \in {0} \union Baseline .. 800
         /\ HourlyPattern(sessions, hour) = 0 <=> \A s \in sessions : ~Recent(s)
<1> DEFINE hours == {s.minute \div 60 : s \in {r \in sessions : Recent(r)}}
           apart == {Distance(hour, h) : h \in hours}
           nearest == Min(apart)
           proximity == Larger(0, Whole - (Whole * nearest) \div 3)
           pattern == Larger(Baseline, 250 + (55 * proximity) \div 100)
<1>1. HourlyPattern(sessions, hour) = IF hours = {} THEN 0 ELSE pattern
  BY DEF HourlyPattern
<1>2. hours = {} <=> \A s \in sessions : ~Recent(s)
  OBVIOUS
<1>3. hours \in SUBSET Nat
  <2>1. \A x \in 0 .. 1439 : x \div 60 \in Nat
    OBVIOUS
  <2>2. ASSUME NEW s \in sessions PROVE s.minute \div 60 \in Nat
    <3>1. PICK m \in 0 .. 1439 : m = s.minute
      OBVIOUS
    <3>2. m \div 60 \in Nat
      BY <2>1
    <3>3. s.minute \div 60 = m \div 60
      BY ONLY <3>1
    <3> QED BY ONLY <3>2, <3>3
  <2>3. ASSUME NEW h \in hours PROVE h \in Nat
    <3>1. PICK s \in sessions : h = s.minute \div 60
      OBVIOUS
    <3> QED BY <2>2, <3>1
  <2> HIDE DEF hours
  <2> QED BY <2>3
<1>4. ASSUME hours # {} PROVE pattern \in Baseline .. 800
  <2> HIDE DEF hours
  <2>1. apart \in SUBSET Nat /\ apart # {}
    <3>1. \A h \in Nat : Distance(hour, h) \in Nat
      BY DEF Distance
    <3>2. PICK h \in hours : TRUE
      BY <1>4
    <3> QED BY <1>3, <3>1, <3>2
  <2> HIDE DEF apart
  <2>2. nearest \in Nat
    <3>1. \E x \in apart : \A y \in apart : x <= y
      BY <2>1, LeastNumber
    <3>2. nearest \in apart
      BY <3>1 DEF Min
    <3> HIDE DEF nearest
    <3> QED BY <2>1, <3>2
  <2> HIDE DEF nearest
  <2>3. proximity \in 0 .. 1000
    BY <2>2 DEF Larger, Whole
  <2> HIDE DEF proximity
  <2> QED BY <2>3 DEF Larger, Baseline
<1> HIDE DEF hours, pattern
<1> QED BY <1>1, <1>2, <1>4 DEF Baseline

\* The queue, the interval without the adjustments and the state that is shown
\* are decided in three places from the same likelihood, and agree: "the mapping
\* mirrors get_interval_seconds" (policy.py), and the literal 0.9 of engine.py is
\* the threshold of the fast queue.
THEOREM BandsAgree ==
  ASSUME NEW l \in Int, NEW favorite_ \in BOOLEAN,
         favorite_ => l >= MediumThreshold
  PROVE  /\ QueueBand(l, favorite_) = "fast" <=> IntervalSeconds(l, favorite_) = 60
         /\ QueueBand(l, favorite_) = "slow" <=> IntervalSeconds(l, favorite_) = 900
         /\ QueueBand(l, favorite_) = "fast" <=> UiState(l, TRUE, FALSE) = "expected_now"
         /\ QueueBand(l, favorite_) = "medium" <=> UiState(l, TRUE, FALSE) = "upcoming"
<1>1. Effective(l, favorite_) = l
  BY DEF Effective, Larger, MediumThreshold
<1>2. CASE l >= FastThreshold
  BY <1>1, <1>2 DEF QueueBand, IntervalSeconds, UiState, FastThreshold, MediumThreshold, Baseline
<1>3. CASE l < MediumThreshold
  BY <1>1, <1>3 DEF QueueBand, IntervalSeconds, UiState, FastThreshold, MediumThreshold, Baseline
<1>4. CASE l >= MediumThreshold /\ l < FastThreshold
  BY <1>1, <1>4 DEF QueueBand, IntervalSeconds, UiState, FastThreshold, MediumThreshold, Baseline
<1>5. l >= FastThreshold \/ l < MediumThreshold \/ (l >= MediumThreshold /\ l < FastThreshold)
  BY DEF FastThreshold, MediumThreshold
<1> QED BY <1>2, <1>3, <1>4, <1>5, Zenon

Bases == {60, 180, 300, 900, 2700}

LEMMA Jittered ==
  ASSUME NEW x \in Bases, NEW draw \in Int, -100 <= draw, draw <= 100
  PROVE  /\ ApplyJitter(x, draw) \in Nat
         /\ ApplyJitter(x, draw) >= 51
         /\ ApplyJitter(x, draw) <= 3105
         /\ x # 2700 => ApplyJitter(x, draw) <= 1035
         /\ x <= 180 => ApplyJitter(x, draw) <= 207
<1>1. /\ JitterDelta(60) = 9
      /\ JitterDelta(180) = 27
      /\ JitterDelta(300) = 45
      /\ JitterDelta(900) = 135
      /\ JitterDelta(2700) = 405
  BY DEF JitterDelta, Larger
<1>2. CASE x = 60
  BY <1>1, <1>2 DEF ApplyJitter
<1>3. CASE x = 180
  BY <1>1, <1>3 DEF ApplyJitter
<1>4. CASE x = 300
  BY <1>1, <1>4 DEF ApplyJitter
<1>5. CASE x = 900
  BY <1>1, <1>5 DEF ApplyJitter
<1>6. CASE x = 2700
  BY <1>1, <1>6 DEF ApplyJitter
<1> QED BY <1>2, <1>3, <1>4, <1>5, <1>6 DEF Bases

LEMMA IntervalIsJittered ==
  ASSUME NEW l \in Int, NEW priority \in Int, NEW favorite_ \in BOOLEAN,
         NEW checks \in Nat, NEW draw \in Int, -100 <= draw, draw <= 100
  PROVE  \E x \in Bases :
           /\ AdjustedInterval(l, priority, favorite_, checks, draw) = ApplyJitter(x, draw)
           /\ x = 2700 => checks >= 30
           /\ favorite_ => x <= 180
<1> DEFINE base == BaseInterval(l, priority, favorite_, checks)
           x == IF favorite_ THEN Smaller(base, FavoriteMax) ELSE base
<1>1. base \in {60, 300, 900, 2700} /\ (base = 2700 => checks >= 30)
  BY DEF BaseInterval, IsAsleep
<1>2. AdjustedInterval(l, priority, favorite_, checks, draw) = ApplyJitter(x, draw)
  BY DEF AdjustedInterval
<1> HIDE DEF base
<1>3. x \in Bases /\ (x = 2700 => checks >= 30) /\ (favorite_ => x <= 180)
  BY <1>1 DEF Bases, Smaller, FavoriteMax
<1> HIDE DEF x
<1> QED BY <1>2, <1>3

LEMMA IntervalIsNatural ==
  ASSUME NEW l \in Int, NEW priority \in Int, NEW favorite_ \in BOOLEAN,
         NEW checks \in Nat, NEW draw \in Int, -100 <= draw, draw <= 100
  PROVE  AdjustedInterval(l, priority, favorite_, checks, draw) \in Nat
<1>1. PICK x \in Bases :
           /\ AdjustedInterval(l, priority, favorite_, checks, draw) = ApplyJitter(x, draw)
           /\ x = 2700 => checks >= 30
           /\ favorite_ => x <= 180
  BY IntervalIsJittered
<1>2. /\ ApplyJitter(x, draw) \in Nat
      /\ ApplyJitter(x, draw) >= 51
      /\ ApplyJitter(x, draw) <= 3105
      /\ x # 2700 => ApplyJitter(x, draw) <= 1035
      /\ x <= 180 => ApplyJitter(x, draw) <= 207
  BY Jittered
<1> QED BY <1>1, <1>2

\* Every interval that the policy gives is at least 51 and at most 3105 seconds.
THEOREM IntervalRange ==
  ASSUME NEW l \in Int, NEW priority \in Int, NEW favorite_ \in BOOLEAN,
         NEW checks \in Nat, NEW draw \in Int, -100 <= draw, draw <= 100
  PROVE  AdjustedInterval(l, priority, favorite_, checks, draw) >= 51 /\ AdjustedInterval(l, priority, favorite_, checks, draw) <= 3105
<1>1. PICK x \in Bases :
           /\ AdjustedInterval(l, priority, favorite_, checks, draw) = ApplyJitter(x, draw)
           /\ x = 2700 => checks >= 30
           /\ favorite_ => x <= 180
  BY IntervalIsJittered
<1>2. /\ ApplyJitter(x, draw) \in Nat
      /\ ApplyJitter(x, draw) >= 51
      /\ ApplyJitter(x, draw) <= 3105
      /\ x # 2700 => ApplyJitter(x, draw) <= 1035
      /\ x <= 180 => ApplyJitter(x, draw) <= 207
  BY Jittered
<1> QED BY <1>1, <1>2

\* It is above 1035 only for a target of which thirty checks are counted.
THEOREM NoDeepSleepAtFirst ==
  ASSUME NEW l \in Int, NEW priority \in Int, NEW favorite_ \in BOOLEAN,
         NEW checks \in Nat, NEW draw \in Int, -100 <= draw, draw <= 100
  PROVE  checks < 30 => AdjustedInterval(l, priority, favorite_, checks, draw) <= 1035
<1>1. PICK x \in Bases :
           /\ AdjustedInterval(l, priority, favorite_, checks, draw) = ApplyJitter(x, draw)
           /\ x = 2700 => checks >= 30
           /\ favorite_ => x <= 180
  BY IntervalIsJittered
<1>2. /\ ApplyJitter(x, draw) \in Nat
      /\ ApplyJitter(x, draw) >= 51
      /\ ApplyJitter(x, draw) <= 3105
      /\ x # 2700 => ApplyJitter(x, draw) <= 1035
      /\ x <= 180 => ApplyJitter(x, draw) <= 207
  BY Jittered
<1> QED BY <1>1, <1>2

\* A favourite's is at most 207: the cap of 180 with the jitter on top.
THEOREM FavoriteInterval ==
  ASSUME NEW l \in Int, NEW priority \in Int, NEW favorite_ \in BOOLEAN,
         NEW checks \in Nat, NEW draw \in Int, -100 <= draw, draw <= 100
  PROVE  favorite_ => AdjustedInterval(l, priority, favorite_, checks, draw) <= 207
<1>1. PICK x \in Bases :
           /\ AdjustedInterval(l, priority, favorite_, checks, draw) = ApplyJitter(x, draw)
           /\ x = 2700 => checks >= 30
           /\ favorite_ => x <= 180
  BY IntervalIsJittered
<1>2. /\ ApplyJitter(x, draw) \in Nat
      /\ ApplyJitter(x, draw) >= 51
      /\ ApplyJitter(x, draw) <= 3105
      /\ x # 2700 => ApplyJitter(x, draw) <= 1035
      /\ x <= 180 => ApplyJitter(x, draw) <= 207
  BY Jittered
<1> QED BY <1>1, <1>2

\* The jitter does not change the order of the intervals: a target that is given
\* a shorter one is checked sooner, whatever the draws are (apply_jitter).
THEOREM JitterKeepsOrder ==
  ASSUME NEW x \in Bases, NEW y \in Bases, x < y,
         NEW draw \in -100 .. 100, NEW draw2 \in -100 .. 100
  PROVE  ApplyJitter(x, draw) < ApplyJitter(y, draw2)
<1>1. /\ JitterDelta(60) = 9
      /\ JitterDelta(180) = 27
      /\ JitterDelta(300) = 45
      /\ JitterDelta(900) = 135
      /\ JitterDelta(2700) = 405
  BY DEF JitterDelta, Larger
<1>2. ApplyJitter(60, draw) <= 69
  BY <1>1 DEF ApplyJitter
<1>3. ApplyJitter(180, draw) <= 207 /\ 153 <= ApplyJitter(180, draw2)
  BY <1>1 DEF ApplyJitter
<1>4. ApplyJitter(300, draw) <= 345 /\ 255 <= ApplyJitter(300, draw2)
  BY <1>1 DEF ApplyJitter
<1>5. ApplyJitter(900, draw) <= 1035 /\ 765 <= ApplyJitter(900, draw2)
  BY <1>1 DEF ApplyJitter
<1>6. 2295 <= ApplyJitter(2700, draw2)
  BY <1>1 DEF ApplyJitter
<1>7. \A b \in Bases : ApplyJitter(b, draw) \in Int /\ ApplyJitter(b, draw2) \in Int
  BY <1>1 DEF ApplyJitter, Bases
<1> QED
  BY <1>2, <1>3, <1>4, <1>5, <1>6, <1>7 DEF Bases

\* With the same past and the same draw a likelier target never waits longer, nor
\* does a favourite: the promotion, the deep sleep and the cap are put on in an
\* order that keeps it so (get_adjusted_interval).
THEOREM LikelierIsSooner ==
  ASSUME NEW l \in Int, NEW l2 \in Int, l <= l2, NEW priority \in Int,
         NEW favorite_ \in BOOLEAN, NEW favorite2 \in BOOLEAN, favorite_ => favorite2,
         NEW checks \in Nat, NEW draw \in -100 .. 100
  PROVE  AdjustedInterval(l2, priority, favorite2, checks, draw)
           <= AdjustedInterval(l, priority, favorite_, checks, draw)
<1> DEFINE base == BaseInterval(l, priority, favorite_, checks)
           base2 == BaseInterval(l2, priority, favorite2, checks)
           capped == IF favorite_ THEN Smaller(base, FavoriteMax) ELSE base
           capped2 == IF favorite2 THEN Smaller(base2, FavoriteMax) ELSE base2
<1>1. base \in {60, 300, 900, 2700} /\ base2 \in {60, 300, 900, 2700} /\ base2 <= base
  BY DEF BaseInterval, Effective, Larger, FastThreshold, MediumThreshold, IsPromoted, IsAsleep
<1> HIDE DEF base, base2
<1>2. capped \in Bases /\ capped2 \in Bases /\ capped2 <= capped
  BY <1>1 DEF Bases, Smaller, FavoriteMax
<1> HIDE DEF capped, capped2
<1>3. ApplyJitter(capped, draw) \in Nat
  BY <1>2, Jittered
<1>4. ApplyJitter(capped2, draw) <= ApplyJitter(capped, draw)
  <2>1. CASE capped2 = capped
    BY <1>3, <2>1
  <2>2. CASE capped2 < capped
    <3>1. ApplyJitter(capped2, draw) < ApplyJitter(capped, draw)
      BY <1>2, <2>2, JitterKeepsOrder
    <3>2. ApplyJitter(capped2, draw) \in Nat
      BY <1>2, Jittered
    <3> QED BY <1>3, <3>1, <3>2
  <2>3. capped \in Int /\ capped2 \in Int
    BY <1>2 DEF Bases
  <2> QED BY <1>2, <2>1, <2>2, <2>3
<1> QED
  BY <1>4 DEF AdjustedInterval, base, base2, capped, capped2

---------------------------------------------------------------------------
(* What the threads make of a runtime state *)

LEMMA DrawIsInRange ==
  ASSUME NEW draw \in Draws
  PROVE  draw \in Int /\ -100 <= draw /\ draw <= 100
BY ScheduleAssumption

LEMMA StateFields ==
  ASSUME NEW st \in States
  PROVE  /\ st.wait \in Nat
         /\ st.likelihood \in Scores
         /\ st.checks \in 0..MaxChecks
         /\ st.recency \in Recencies
         /\ st.recorded \in BOOLEAN
BY DEF States

LEMMA StateNumbers ==
  ASSUME NEW st \in States
  PROVE  /\ st.likelihood \in Int
         /\ st.recency \in Int
<1>1. st.likelihood \in Scores /\ st.recency \in Recencies
  BY StateFields
<1>2. Recencies \subseteq Baseline..Whole
  BY ScheduleAssumption
<1>3. st.likelihood \in Int
  BY <1>1 DEF Scores, Whole
<1>4. st.recency \in Baseline..Whole
  BY <1>1, <1>2, Zenon
<1>5. st.recency \in Int
  BY <1>4 DEF Baseline, Whole
<1> QED BY <1>3, <1>5

LEMMA PutTogether ==
  ASSUME NEW wait \in Nat, NEW likelihood \in Scores, NEW checks \in 0..MaxChecks,
         NEW recency \in Recencies, NEW recorded \in BOOLEAN
  PROVE  [wait |-> wait, likelihood |-> likelihood, checks |-> checks,
          recency |-> recency, recorded |-> recorded] \in States
BY DEF States

LEMMA FirstStateIsKept ==
  ASSUME NEW recency \in Recencies, NEW a \in Nat
  PROVE  Kept(FirstState(recency), a)
<1>1. FirstState(recency) \in States
  BY ScheduleAssumption DEF FirstState, States, Scores, Whole
<1> QED BY <1>1 DEF Kept, FirstState, InRange

LEMMA NothingIsKept ==
  ASSUME NEW a \in Nat
  PROVE  Kept(Nothing, a)
BY FirstStateIsKept, ScheduleAssumption DEF Nothing

\* The intervals of get_adjusted_interval are bounded by MaxInterval.
LEMMA IntervalIsBounded ==
  ASSUME favorite \in BOOLEAN, NEW l \in Int, NEW priority \in Int,
         NEW checks \in 0..MaxChecks, NEW draw \in Draws
  PROVE  LET interval == AdjustedInterval(l, priority, favorite, checks, draw)
         IN interval \in Nat /\ interval <= MaxInterval
<1> DEFINE interval == AdjustedInterval(l, priority, favorite, checks, draw)
<1>1. checks \in Nat /\ checks <= MaxChecks /\ MaxChecks \in Nat
  BY ScheduleAssumption
<1>2. /\ interval \in Nat /\ interval <= 3105
      /\ checks < 30 => interval <= 1035
      /\ favorite => interval <= 207
  <2>1. draw \in Int /\ -100 <= draw /\ draw <= 100
    BY DrawIsInRange
  <2>2. priority \in Int /\ checks \in Nat
    BY <1>1
  <2>3. interval \in Nat
    BY <2>1, <2>2, IntervalIsNatural
  <2>6. interval <= 3105
    BY <2>1, <2>2, IntervalRange
  <2>4. checks < 30 => interval <= 1035
    BY <2>1, <2>2, NoDeepSleepAtFirst
  <2>5. favorite => interval <= 207
    BY <2>1, <2>2, FavoriteInterval
  <2> QED BY <2>3, <2>4, <2>5, <2>6
<1> HIDE DEF interval
<1>3. interval \in Nat /\ interval <= MaxInterval
  BY <1>1, <1>2 DEF MaxInterval
<1> QED BY <1>3 DEF interval

\* A state that is kept stays kept when the age starts anew.
LEMMA KeptAnew ==
  ASSUME favorite \in BOOLEAN, NEW st, NEW a \in Nat, Kept(st, a)
  PROVE  Kept(st, 0)
<1>1. st \in States /\ st.wait \in Nat
  BY StateFields DEF Kept
<1>2. MaxInterval \in Int
  BY DEF MaxInterval
<1>3. st.wait > 0 => st.wait + 0 <= MaxInterval
  BY <1>1, <1>2 DEF Kept
<1> QED BY <1>1, <1>3 DEF Kept

LEMMA LaterIsKept ==
  ASSUME favorite \in BOOLEAN, NEW st, NEW a \in Nat, Kept(st, a), NEW s \in Nat
  PROVE  Kept(Later(st, s), a + s)
<1>1. st \in States /\ st.wait \in Nat
  BY StateFields DEF Kept
<1>2. Left(st.wait, s) \in Nat
  BY <1>1 DEF Left, Larger
<1>3. /\ Later(st, s) \in States
      /\ Later(st, s).wait = Left(st.wait, s)
      /\ Later(st, s).likelihood = st.likelihood
  BY <1>1, <1>2 DEF Later, States
<1>4. MaxInterval \in Int
  BY DEF MaxInterval
<1>5. Later(st, s).wait > 0 => Later(st, s).wait + (a + s) <= MaxInterval
  BY <1>1, <1>3, <1>4 DEF Kept, Left, Larger
<1> QED BY <1>3, <1>5 DEF Kept

LEMMA PredictedIsInRange ==
  ASSUME favorite \in BOOLEAN, NEW st \in States, NEW sig \in Signals
  PROVE  LET l == Predicted(st.recorded, st.likelihood, st.recency, favorite, sig)
         IN l \in Scores /\ InRange(l)
<1> DEFINE l == Predicted(st.recorded, st.likelihood, st.recency, favorite, sig)
           e == Ema(st.likelihood, FALSE)
<1>1. /\ sig.consistency \in Int
      /\ sig.hourly \in Int
      /\ sig.session \in Int
  BY ScheduleAssumption DEF Scores
<1>2. e \in Int
  BY StateNumbers DEF Ema
<1>3. CASE st.recorded
  <2>1. l = Whole
    BY <1>3 DEF Predicted
  <2> HIDE DEF l
  <2>2. l \in Scores /\ InRange(l)
    BY <2>1 DEF InRange, Whole, Baseline, MediumThreshold, Scores
  <2> QED BY <2>2 DEF l
<1>4. CASE ~st.recorded
  <2>1. l = Likelihood(e, st.recency, sig.consistency, favorite, sig.hourly, sig.session)
    BY <1>4 DEF Predicted
  <2> HIDE DEF l, e
  <2>2. l \in Baseline..Whole /\ (favorite => l >= MediumThreshold)
    BY <1>1, <1>2, <2>1, StateNumbers, LikelihoodRange
  <2>3. l \in Scores
    BY <2>2 DEF Baseline, Whole, Scores
  <2>4. InRange(l)
    BY <2>2 DEF InRange
  <2> QED BY <2>3, <2>4 DEF l
<1> QED BY <1>3, <1>4, StateFields

LEMMA ProcessedIsKept ==
  ASSUME favorite \in BOOLEAN, NEW st, NEW a \in Nat, Kept(st, a),
         NEW sig \in Signals, NEW draw \in Draws
  PROVE  Kept(Processed(st, sig, draw), IF st.wait = 0 THEN 0 ELSE a)
<1> DEFINE l == Predicted(st.recorded, st.likelihood, st.recency, favorite, sig)
           interval == AdjustedInterval(l, st.likelihood, favorite, st.checks, draw)
           p == Processed(st, sig, draw)
           wait == IF st.wait = 0 THEN interval ELSE st.wait
<1>1. st \in States
  BY DEF Kept
<1>2. l \in Scores /\ InRange(l)
  BY <1>1, PredictedIsInRange
<1>3. interval \in Nat /\ interval <= MaxInterval
  <2> HIDE DEF l
  <2>1. l \in Int /\ st.likelihood \in Int /\ st.checks \in 0..MaxChecks
    <3>1. l \in Int
      BY <1>2 DEF Scores, Whole
    <3> QED BY <1>1, <3>1, StateFields, StateNumbers
  <2> QED BY <2>1, IntervalIsBounded
<1>4. p = [wait |-> wait, likelihood |-> l, checks |-> 0,
           recency |-> st.recency, recorded |-> st.recorded]
  <2>1. p = [st EXCEPT !.likelihood = l, !.checks = 0, !.wait = wait]
    BY DEF Processed
  <2> HIDE DEF wait, l, p
  <2> QED BY <1>1, <2>1 DEF States
<1> HIDE DEF l, interval, p
<1>5. wait \in Nat
  BY <1>1, <1>3, StateFields
<1>6. 0 \in 0..MaxChecks
  BY ScheduleAssumption
<1>7. p \in States /\ p.wait = wait /\ p.likelihood = l
  BY <1>1, <1>2, <1>4, <1>5, <1>6, StateFields, PutTogether
<1>8. MaxInterval \in Int
  BY DEF MaxInterval
<1>9. CASE st.wait = 0
  <2>1. p.wait > 0 => p.wait + 0 <= MaxInterval
    BY <1>3, <1>7, <1>8, <1>9
  <2> QED BY <1>2, <1>7, <1>9, <2>1 DEF Kept, p
<1>10. CASE st.wait # 0
  <2>1. p.wait > 0 => p.wait + a <= MaxInterval
    BY <1>7, <1>10 DEF Kept
  <2> QED BY <1>2, <1>7, <1>10, <2>1 DEF Kept, p
<1> QED BY <1>9, <1>10

LEMMA AppliedIsKept ==
  ASSUME favorite \in BOOLEAN, NEW st, NEW a \in Nat, Kept(st, a),
         NEW isLive \in BOOLEAN, NEW draw \in Draws
  PROVE  Kept(Applied(st, isLive, draw), 0)
<1> DEFINE l == IF isLive THEN Whole ELSE 0
           interval == AdjustedInterval(l, st.likelihood, favorite, st.checks, draw)
           recency == IF isLive THEN Recency(0) ELSE st.recency
           checks == Smaller(st.checks + 1, MaxChecks)
           p == Applied(st, isLive, draw)
<1>1. st \in States
  BY DEF Kept
<1>2. l \in Scores /\ InRange(l)
  BY DEF InRange, Whole, Baseline, MediumThreshold, Scores
<1>3. interval \in Nat /\ interval <= MaxInterval
  <2> HIDE DEF l
  <2>1. l \in Int /\ st.likelihood \in Int /\ st.checks \in 0..MaxChecks
    <3>1. l \in Int
      BY <1>2 DEF Scores, Whole
    <3> QED BY <1>1, <3>1, StateFields, StateNumbers
  <2> QED BY <2>1, IntervalIsBounded
<1>4. Recency(0) = Whole
  BY DEF Recency
<1>5. recency \in Recencies
  BY <1>1, <1>4, StateFields, ScheduleAssumption
<1>6. checks \in 0..MaxChecks
  BY <1>1, StateFields, ScheduleAssumption DEF Smaller
<1>7. p = [wait |-> interval, likelihood |-> l, checks |-> checks,
           recency |-> recency, recorded |-> st.recorded]
  <2>1. p = [st EXCEPT !.wait = interval, !.likelihood = l, !.checks = checks,
                       !.recency = recency]
    BY DEF Applied
  <2> HIDE DEF interval, l, checks, recency, p
  <2> QED BY <1>1, <2>1 DEF States
<1> HIDE DEF l, interval, recency, checks, p
<1>8. p \in States /\ p.wait = interval /\ p.likelihood = l
  BY <1>1, <1>2, <1>3, <1>5, <1>6, <1>7, StateFields, PutTogether
<1>9. MaxInterval \in Int
  BY DEF MaxInterval
<1>10. p.wait > 0 => p.wait + 0 <= MaxInterval
  BY <1>3, <1>8, <1>9
<1> QED BY <1>2, <1>8, <1>10 DEF Kept, p

LEMMA SessionIsKept ==
  ASSUME favorite \in BOOLEAN, NEW st, NEW a \in Nat, Kept(st, a)
  PROVE  /\ Kept(WithSession(st), a)
         /\ Kept(WithoutSession(st), a)
         /\ Kept([st EXCEPT !.wait = 0], a)
<1>1. st \in States /\ 0 \in 0..MaxChecks /\ 0 \in Scores
  BY ScheduleAssumption DEF Kept, Scores, Whole
<1>2. /\ WithSession(st) \in States
      /\ WithSession(st).wait = st.wait
      /\ WithSession(st).likelihood = st.likelihood
  BY <1>1 DEF WithSession, States
<1>3. /\ WithoutSession(st) \in States
      /\ WithoutSession(st).wait = st.wait
      /\ WithoutSession(st).likelihood = 0
  BY <1>1 DEF WithoutSession, States
<1>4. /\ [st EXCEPT !.wait = 0] \in States
      /\ [st EXCEPT !.wait = 0].wait = 0
      /\ [st EXCEPT !.wait = 0].likelihood = st.likelihood
  BY <1>1 DEF States
<1>5. Kept(WithSession(st), a)
  BY <1>2 DEF Kept
<1>6. Kept(WithoutSession(st), a)
  BY <1>3 DEF Kept, InRange
<1>7. Kept([st EXCEPT !.wait = 0], a)
  BY <1>4 DEF Kept
<1> QED BY <1>5, <1>6, <1>7
---------------------------------------------------------------------------
(* The invariant *)

LEMMA Numbers ==
  ASSUME favorite \in BOOLEAN
  PROVE  /\ MaxInterval \in Nat
         /\ Period \in Nat /\ Busy \in Nat
         /\ Step \in Nat
BY ScheduleAssumption DEF MaxInterval

LEMMA InitIsKept ==
  ASSUME Init
  PROVE  SchedInv
<1>1. PICK r \in Recencies : rt = FirstState(r)
  BY DEF Init
<1>2. Kept(rt, 0) /\ Kept(Nothing, 0)
  BY <1>1, FirstStateIsKept, NothingIsKept
<1>3. StateInv
  BY <1>2 DEF StateInv, Init
<1>4. SchedTypeOK
  <2>1. rt \in States /\ Nothing \in States
    BY <1>2 DEF Kept
  <2> QED BY <2>1 DEF SchedTypeOK, Init, Threaded, CycleSteps, ThreadSteps
<1>5. ClockInv /\ AgeInv
  <2>1. favorite \in BOOLEAN
    BY DEF Init
  <2> QED BY <2>1, Numbers DEF ClockInv, AgeInv, Init
<1> QED BY <1>3, <1>4, <1>5 DEF SchedInv

\* StateInv holds again when the states that are stored next are kept.
LEMMA StateInvAgain ==
  ASSUME favorite' = favorite, Kept(rt', age'), Kept(cyc'.copy, age'),
         \A w \in Threads : Kept(thr'[w].copy, age')
  PROVE  StateInv'
BY DEF StateInv, Kept, InRange, MaxInterval

\* AgeInv holds again when the count starts anew.
LEMMA YoungIsFine ==
  ASSUME favorite' \in BOOLEAN, clock' \in Nat, age' = 0
  PROVE  AgeInv'
<1>1. Period \in Nat /\ Busy \in Nat
  BY ScheduleAssumption
<1>2. MaxInterval' \in Nat
  BY DEF MaxInterval
<1>3. (IF cyc'.pc = "idle" THEN Busy
       ELSE IF cyc'.pc = "process" THEN Busy + Period ELSE 0) \in Nat
  BY <1>1
<1> QED BY <1>2, <1>3 DEF AgeInv

LEMMA ElapseKeeps ==
  ASSUME SchedInv, Elapse
  PROVE  SchedInv'
<1> USE DEF SchedInv
<1>1. /\ favorite \in BOOLEAN /\ age \in Nat /\ clock \in Nat
      /\ favorite' = favorite /\ Step \in Nat /\ Period \in Nat /\ Busy \in Nat
      /\ MaxInterval \in Nat
  BY Numbers DEF SchedTypeOK, Elapse, targetVars
<1> DEFINE a == IF enabled THEN age + Step ELSE 0
<1>2. a \in Nat
  BY <1>1
<1>3. ASSUME NEW st, Kept(st, age)
      PROVE  Kept(Later(st, Step), a)
  <2>1. Kept(Later(st, Step), age + Step)
    BY <1>1, <1>3, LaterIsKept
  <2>2. Kept(Later(st, Step), 0)
    BY <1>1, <2>1, KeptAnew
  <2> QED BY <2>1, <2>2
<1>4. /\ age' = a
      /\ rt' = Later(rt, Step)
      /\ cyc' = [cyc EXCEPT !.copy = Later(@, Step)]
      /\ thr' = [w \in Threads |-> [thr[w] EXCEPT !.copy = Later(@, Step)]]
      /\ enabled' = enabled /\ store' = store /\ clock' = clock + Step
  BY DEF Elapse, targetVars
<1> HIDE DEF a
<1>5. /\ Kept(rt', age')
      /\ Kept(cyc'.copy, age')
      /\ cyc' \in Threaded(CycleSteps) /\ cyc'.pc = cyc.pc
  <2>1. Kept(Later(rt, Step), a) /\ Kept(Later(cyc.copy, Step), a)
    BY <1>3 DEF StateInv
  <2>2. Later(cyc.copy, Step) \in States
    BY <2>1 DEF Kept
  <2>3. cyc \in Threaded(CycleSteps)
    BY DEF SchedTypeOK
  <2> QED BY <1>4, <2>1, <2>2, <2>3 DEF Threaded
<1>6. ASSUME NEW w \in Threads
      PROVE  Kept(thr'[w].copy, age') /\ thr'[w] \in Threaded(ThreadSteps)
  <2>1. Kept(Later(thr[w].copy, Step), a)
    BY <1>3 DEF StateInv
  <2>2. Later(thr[w].copy, Step) \in States
    BY <2>1 DEF Kept
  <2>3. thr[w] \in Threaded(ThreadSteps)
    BY DEF SchedTypeOK
  <2> QED BY <1>4, <2>1, <2>2, <2>3 DEF Threaded
<1>7. StateInv'
  BY <1>1, <1>5, <1>6, StateInvAgain
<1>8. SchedTypeOK'
  <2>1. thr' \in [Threads -> Threaded(ThreadSteps)]
    BY <1>4, <1>6
  <2>2. rt' \in States
    BY <1>5 DEF Kept
  <2> QED BY <1>1, <1>2, <1>4, <1>5, <2>1, <2>2 DEF SchedTypeOK
<1>9. ClockInv'
  BY <1>4, <1>5 DEF ClockInv, Elapse
<1>10. AgeInv'
  <2>1. MaxInterval' = MaxInterval
    BY <1>1 DEF MaxInterval
  <2> QED BY <1>1, <1>4, <1>5, <2>1 DEF AgeInv, a
<1> QED BY <1>7, <1>8, <1>9, <1>10

\* The steps of the cycle thread, of which only ProcessWrites, AppliesResult and
\* Records store a state.
LEMMA CycleKeeps ==
  ASSUME SchedInv, CycleThread
  PROVE  SchedInv'
<1> USE DEF SchedInv
<1>1. /\ favorite \in BOOLEAN /\ age \in Nat /\ clock \in Nat
      /\ Step \in Nat /\ Period \in Nat /\ Busy \in Nat
      /\ MaxInterval \in Nat
      /\ Kept(Nothing, age) /\ Nothing \in States
  BY Numbers, NothingIsKept DEF SchedTypeOK, Kept
<1>2. /\ Kept(rt, age) /\ Kept(cyc.copy, age)
      /\ \A w \in Threads : Kept(thr[w].copy, age)
  BY DEF StateInv
<1>3. /\ Kept(rt, 0) /\ Kept(cyc.copy, 0)
      /\ \A w \in Threads : Kept(thr[w].copy, 0)
      /\ rt \in States /\ cyc.copy \in States
  <2>1. Kept(rt, 0) /\ Kept(cyc.copy, 0)
    BY <1>1, <1>2, KeptAnew
  <2>2. ASSUME NEW w \in Threads
        PROVE  Kept(thr[w].copy, 0)
    BY <1>1, <1>2, KeptAnew
  <2> QED BY <1>2, <2>1, <2>2 DEF Kept
<1>4. ASSUME CycleBegins
      PROVE  SchedInv'
  <2>1. /\ cyc.pc = "idle" /\ clock' = 0 /\ age' = age /\ rt' = rt /\ thr' = thr
        /\ favorite' = favorite /\ enabled' = enabled /\ store' = store
        /\ cyc' = [pc |-> IF enabled THEN "process" ELSE "others", copy |-> Nothing]
    BY <1>4 DEF CycleBegins, targetVars
  <2>2. StateInv'
    BY <1>1, <1>2, <2>1, StateInvAgain
  <2>3. SchedTypeOK'
    BY <1>1, <2>1 DEF SchedTypeOK, Threaded, CycleSteps
  <2>4. ClockInv'
    BY <1>1, <2>1 DEF ClockInv
  <2>5. MaxInterval' = MaxInterval
    BY <2>1 DEF MaxInterval
  <2>6. AgeInv'
    BY <1>1, <2>1, <2>5 DEF AgeInv, ClockInv
  <2> QED BY <2>2, <2>3, <2>4, <2>6
<1>5. ASSUME NEW sig \in Signals, NEW draw \in Draws, Processes(sig, draw)
      PROVE  SchedInv'
  <2>1. /\ cyc.pc = "process" /\ clock' = clock /\ rt' = rt /\ thr' = thr
        /\ favorite' = favorite /\ enabled' = enabled /\ store' = store
        /\ cyc' = [pc |-> "write", copy |-> Processed(rt, sig, draw)]
        /\ age' = IF rt.wait = 0 THEN 0 ELSE age
    BY <1>5 DEF Processes, targetVars
  <2>2. Kept(Processed(rt, sig, draw), age')
    BY <1>1, <1>2, <2>1, ProcessedIsKept
  <2>3. Processed(rt, sig, draw) \in States
    BY <2>2 DEF Kept
  <2>4. /\ cyc'.copy = Processed(rt, sig, draw) /\ cyc'.pc = "write"
        /\ cyc' \in Threaded(CycleSteps)
    BY <2>1, <2>3 DEF Threaded, CycleSteps
  <2>5. StateInv'
    <3>1. CASE rt.wait = 0
      BY <1>3, <2>1, <2>2, <2>4, <3>1, StateInvAgain
    <3>2. CASE rt.wait # 0
      BY <1>2, <2>1, <2>2, <2>4, <3>2, StateInvAgain
    <3> QED BY <3>1, <3>2
  <2>6. SchedTypeOK'
    BY <1>1, <2>1, <2>4 DEF SchedTypeOK
  <2>7. ClockInv'
    BY <1>1, <2>1, <2>4 DEF ClockInv
  <2>8. MaxInterval' = MaxInterval
    BY <2>1 DEF MaxInterval
  <2>9. age' <= MaxInterval
    <3>1. rt.wait \in Nat
      BY <1>3, StateFields
    <3> QED BY <1>1, <1>2, <2>1, <3>1 DEF Kept
  <2>10. AgeInv'
    BY <1>1, <2>1, <2>4, <2>8, <2>9 DEF AgeInv
  <2> QED BY <2>5, <2>6, <2>7, <2>10
<1>6. ASSUME ProcessWrites
      PROVE  SchedInv'
  <2>1. /\ cyc.pc = "write" /\ clock' = clock /\ age' = age /\ thr' = thr
        /\ favorite' = favorite /\ enabled' = enabled /\ store' = store
        /\ rt' = cyc.copy /\ cyc' = [pc |-> "react", copy |-> Nothing]
    BY <1>6 DEF ProcessWrites, targetVars
  <2>2. StateInv'
    BY <1>1, <1>2, <2>1, StateInvAgain
  <2>3. SchedTypeOK'
    BY <1>1, <1>3, <2>1 DEF SchedTypeOK, Threaded, CycleSteps
  <2>4. MaxInterval' = MaxInterval
    BY <2>1 DEF MaxInterval
  <2>5. ClockInv' /\ AgeInv'
    BY <1>1, <2>1, <2>4 DEF ClockInv, AgeInv
  <2> QED BY <2>2, <2>3, <2>5
<1>7. ASSUME ReactReads
      PROVE  SchedInv'
  <2>1. /\ cyc.pc = "react" /\ clock' = clock /\ age' = age /\ thr' = thr
        /\ favorite' = favorite /\ enabled' = enabled /\ store' = store
        /\ rt' = rt /\ cyc' = [pc |-> "apply", copy |-> rt]
    BY <1>7 DEF ReactReads, targetVars
  <2>2. StateInv'
    BY <1>1, <1>2, <2>1, StateInvAgain
  <2>3. SchedTypeOK'
    BY <1>1, <1>3, <2>1 DEF SchedTypeOK, Threaded, CycleSteps
  <2>4. MaxInterval' = MaxInterval
    BY <2>1 DEF MaxInterval
  <2>5. ClockInv' /\ AgeInv'
    BY <1>1, <2>1, <2>4 DEF ClockInv, AgeInv
  <2> QED BY <2>2, <2>3, <2>5
<1>8. ASSUME NEW draw \in Draws, AppliesResult(draw)
      PROVE  SchedInv'
  <2>1. /\ cyc.pc = "apply" /\ clock' = clock /\ thr' = thr
        /\ favorite' = favorite /\ enabled' = enabled
    BY <1>8 DEF AppliesResult, targetVars
  <2>2. MaxInterval' = MaxInterval
    BY <2>1 DEF MaxInterval
  <2>3. CASE store = "none"
    <3>1. /\ rt' = rt /\ store' = store /\ age' = age
          /\ cyc' = [cyc EXCEPT !.pc = "record"]
      BY <1>8, <2>3 DEF AppliesResult
    <3>2. cyc' \in Threaded(CycleSteps) /\ cyc'.pc = "record" /\ cyc'.copy = cyc.copy
      BY <3>1 DEF SchedTypeOK, Threaded, CycleSteps
    <3>3. StateInv'
      BY <1>2, <2>1, <3>1, <3>2, StateInvAgain
    <3>4. SchedTypeOK'
      BY <2>1, <3>1, <3>2 DEF SchedTypeOK
    <3>5. ClockInv' /\ AgeInv'
      BY <1>1, <2>1, <2>2, <3>1, <3>2 DEF ClockInv, AgeInv
    <3> QED BY <3>3, <3>4, <3>5
  <2>4. CASE store # "none"
    <3> DEFINE st == Applied(cyc.copy, store = "live", draw)
    <3>1. /\ rt' = st /\ cyc' = [pc |-> "record", copy |-> st]
          /\ store' = "none" /\ age' = 0
      BY <1>8, <2>4 DEF AppliesResult
    <3>2. (store = "live") \in BOOLEAN
      OBVIOUS
    <3>3. Kept(st, 0)
      BY <1>1, <1>2, <3>2, AppliedIsKept
    <3> HIDE DEF st
    <3>4. st \in States
      BY <3>3 DEF Kept
    <3>5. cyc' \in Threaded(CycleSteps) /\ cyc'.pc = "record" /\ cyc'.copy = st
      BY <3>1, <3>4 DEF Threaded, CycleSteps
    <3>6. StateInv'
      BY <1>3, <2>1, <3>1, <3>3, <3>5, StateInvAgain
    <3>7. SchedTypeOK'
      BY <2>1, <3>1, <3>4, <3>5 DEF SchedTypeOK
    <3>8. ClockInv' /\ AgeInv'
      BY <1>1, <2>1, <2>2, <3>1, <3>5 DEF ClockInv, AgeInv
    <3> QED BY <3>6, <3>7, <3>8
  <2> QED BY <2>3, <2>4
<1>9. ASSUME NEW st, Records(st)
      PROVE  SchedInv'
  <2>1. /\ cyc.pc = "record" /\ clock' = clock /\ age' = age /\ thr' = thr
        /\ favorite' = favorite /\ enabled' = enabled /\ store' = store
        /\ cyc' = [pc |-> "others", copy |-> Nothing]
    BY <1>9 DEF Records, targetVars
  <2>2. Kept(rt', age)
    <3>1. Kept(WithSession(cyc.copy), age) /\ Kept(WithoutSession(cyc.copy), age)
      BY <1>1, <1>2, SessionIsKept
    <3> QED BY <1>2, <1>9, <3>1 DEF Records
  <2>3. rt' \in States
    BY <2>2 DEF Kept
  <2>4. StateInv'
    BY <1>1, <1>2, <2>1, <2>2, StateInvAgain
  <2>5. SchedTypeOK'
    BY <1>1, <2>1, <2>3 DEF SchedTypeOK, Threaded, CycleSteps
  <2>6. MaxInterval' = MaxInterval
    BY <2>1 DEF MaxInterval
  <2>7. ClockInv' /\ AgeInv'
    BY <1>1, <2>1, <2>6 DEF ClockInv, AgeInv
  <2> QED BY <2>4, <2>5, <2>7
<1>10. ASSUME CycleEnds
      PROVE  SchedInv'
  <2>1. /\ cyc.pc = "others" /\ clock' = 0 /\ age' = age /\ thr' = thr /\ rt' = rt
        /\ favorite' = favorite /\ enabled' = enabled /\ store' = store
        /\ cyc' = [cyc EXCEPT !.pc = "idle"]
    BY <1>10 DEF CycleEnds, targetVars
  <2>2. cyc' \in Threaded(CycleSteps) /\ cyc'.pc = "idle" /\ cyc'.copy = cyc.copy
    BY <2>1 DEF SchedTypeOK, Threaded, CycleSteps
  <2>3. StateInv'
    BY <1>2, <2>1, <2>2, StateInvAgain
  <2>4. SchedTypeOK'
    BY <2>1, <2>2 DEF SchedTypeOK
  <2>5. MaxInterval' = MaxInterval
    BY <2>1 DEF MaxInterval
  <2>6. ClockInv'
    BY <1>1, <2>1, <2>2 DEF ClockInv
  <2>7. AgeInv'
    BY <1>1, <2>1, <2>2, <2>5 DEF AgeInv, ClockInv
  <2> QED BY <2>3, <2>4, <2>6, <2>7
<1> QED BY <1>4, <1>5, <1>6, <1>7, <1>8, <1>9, <1>10 DEF CycleThread

\* The steps of the other threads, which take no time: only the state that is
\* stored, or the copy that is read, has to be kept.
LEMMA OthersKeep ==
  ASSUME SchedInv, NEW w \in Threads, OtherThread(w)
  PROVE  SchedInv'
<1> USE DEF SchedInv
<1>1. /\ favorite \in BOOLEAN /\ age \in Nat
      /\ Kept(Nothing, age) /\ Nothing \in States
  BY NothingIsKept DEF SchedTypeOK, Kept
<1>2. /\ Kept(rt, age) /\ Kept(cyc.copy, age)
      /\ \A v \in Threads : Kept(thr[v].copy, age)
  BY DEF StateInv
<1>3. /\ Kept(WithSession(thr[w].copy), age)
      /\ Kept([thr[w].copy EXCEPT !.wait = 0], age)
  BY <1>1, <1>2, SessionIsKept
<1>4. /\ enabled' = enabled /\ favorite' = favorite /\ store' = store
      /\ cyc' = cyc /\ clock' = clock /\ age' = age
  BY DEF OtherThread, CallbackReads, CallbackWrites, CallbackRaises, ForceReads,
         ForceWrites, targetVars
<1>5. Kept(rt', age)
  BY <1>2, <1>3 DEF OtherThread, CallbackReads, CallbackWrites, CallbackRaises,
                    ForceReads, ForceWrites
<1>6. \E pc \in ThreadSteps, st \in {rt, Nothing} :
        thr' = [thr EXCEPT ![w] = [pc |-> pc, copy |-> st]]
  BY DEF OtherThread, CallbackReads, CallbackWrites, CallbackRaises, ForceReads,
         ForceWrites, ThreadSteps
<1>7. PICK pc \in ThreadSteps, st \in {rt, Nothing} :
        thr' = [thr EXCEPT ![w] = [pc |-> pc, copy |-> st]]
  BY <1>6
<1>8. Kept(st, age) /\ st \in States
  BY <1>1, <1>2 DEF Kept
<1>9. thr' \in [Threads -> Threaded(ThreadSteps)]
  BY <1>7, <1>8 DEF SchedTypeOK, Threaded
<1>10. ASSUME NEW v \in Threads
       PROVE  Kept(thr'[v].copy, age)
  <2>1. CASE v = w
    BY <1>7, <1>8, <2>1 DEF SchedTypeOK
  <2>2. CASE v # w
    BY <1>2, <1>7, <2>2 DEF SchedTypeOK
  <2> QED BY <2>1, <2>2
<1>11. StateInv'
  BY <1>2, <1>4, <1>5, <1>10, StateInvAgain
<1>12. SchedTypeOK'
  <2>1. rt' \in States
    BY <1>5 DEF Kept
  <2> QED BY <1>4, <1>9, <2>1 DEF SchedTypeOK
<1>13. MaxInterval' = MaxInterval
  BY <1>4 DEF MaxInterval
<1>14. ClockInv' /\ AgeInv'
  BY <1>4, <1>13 DEF ClockInv, AgeInv
<1> QED BY <1>11, <1>12, <1>14

LEMMA SwitchKeeps ==
  ASSUME SchedInv, Enable \/ Disable
  PROVE  SchedInv'
<1> USE DEF SchedInv
<1>1. favorite \in BOOLEAN /\ age \in Nat /\ clock \in Nat
  BY DEF SchedTypeOK
<1>2. /\ favorite' = favorite /\ rt' = rt /\ store' = store /\ cyc' = cyc
      /\ thr' = thr /\ clock' = clock /\ age' = 0 /\ enabled' \in BOOLEAN
  BY DEF Enable, Disable
<1>3. Kept(rt, 0) /\ Kept(cyc.copy, 0)
  BY <1>1, KeptAnew DEF StateInv
<1>4. ASSUME NEW w \in Threads
      PROVE  Kept(thr[w].copy, 0)
  BY <1>1, KeptAnew DEF StateInv
<1>5. StateInv'
  BY <1>2, <1>3, <1>4, StateInvAgain
<1>6. SchedTypeOK'
  BY <1>2 DEF SchedTypeOK
<1>7. ClockInv'
  BY <1>2 DEF ClockInv
<1>8. AgeInv'
  BY <1>1, <1>2, YoungIsFine
<1> QED BY <1>5, <1>6, <1>7, <1>8

LEMMA AnswersKeeps ==
  ASSUME SchedInv, NEW result \in {"live", "offline"}, Answers(result)
  PROVE  SchedInv'
BY DEF SchedInv, Answers, targetVars, SchedTypeOK, StateInv, Kept, InRange, ClockInv,
       AgeInv, MaxInterval

LEMMA StutterKeeps ==
  ASSUME SchedInv, UNCHANGED vars
  PROVE  SchedInv'
BY DEF SchedInv, vars, SchedTypeOK, StateInv, Kept, InRange, ClockInv, AgeInv, MaxInterval

\* SchedInv is an inductive invariant: every runtime state, stored or copied,
\* holds a deadline that is no further than the longest interval from the last
\* check.
THEOREM ScheduleInvariant == Spec => []SchedInv
<1>1. Init => SchedInv
  BY InitIsKept
<1>2. SchedInv /\ [Next]_vars => SchedInv'
  <2> SUFFICES ASSUME SchedInv, [Next]_vars
               PROVE  SchedInv'
    OBVIOUS
  <2> QED BY ElapseKeeps, CycleKeeps, AnswersKeeps, OthersKeep, SwitchKeeps,
             StutterKeeps DEF Next
<1> QED BY <1>1, <1>2, PTL DEF Spec

\* No deadline is negative and no likelihood leaves the scores, whatever is drawn.
THEOREM ScheduleTypeCorrect == Spec => []SchedTypeOK
<1>1. SchedInv => SchedTypeOK
  BY DEF SchedInv
<1> QED BY <1>1, ScheduleInvariant, PTL

\* The likelihood that a thread may read is that of an offline result or in the
\* range that features.py documents.
THEOREM LikelihoodStaysInRange == Spec => []LikelihoodInRange
<1>1. SchedInv => LikelihoodInRange
  BY DEF SchedInv, StateInv, Kept, LikelihoodInRange
<1> QED BY <1>1, ScheduleInvariant, PTL

\* An enabled target is enqueued again within its longest interval and the wait
\* for a cycle, whichever stale copy of its runtime state is stored last.
THEOREM TargetsAreCheckedInTime == Spec => []CheckedInTime
<1>1. SchedInv => CheckedInTime
  <2> SUFFICES ASSUME SchedInv
               PROVE  CheckedInTime
    OBVIOUS
  <2>1. favorite \in BOOLEAN /\ age \in Nat /\ clock \in Nat
    BY DEF SchedInv, SchedTypeOK
  <2> QED BY <2>1, Numbers DEF SchedInv, CheckedInTime, ClockInv, AgeInv
<1> QED BY <1>1, ScheduleInvariant, PTL
=============================================================================
