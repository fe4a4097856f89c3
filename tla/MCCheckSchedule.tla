--------------------------- MODULE MCCheckSchedule ---------------------------
(* Values for CheckSchedule: see MCSchedule.cfg.                           *)
EXTENDS CheckSchedule, TLC

\* Three sessions of the last weeks, two of them at a quarter past eight in the
\* evening of this day of the week.
MCSessions ==
  <<[age |-> 7, sameDay |-> TRUE, minute |-> 1215],
    [age |-> 14, sameDay |-> TRUE, minute |-> 1215],
    [age |-> 3, sameDay |-> FALSE, minute |-> 600]>>

SignalsAt(sessions, count, hour) ==
  [consistency |-> Consistency(count, 30),
   hourly |-> HourlyPattern({sessions[i] : i \in DOMAIN sessions}, hour),
   session |-> SessionPattern(sessions, 60 * hour)]

\* A target that streams daily, in the evening
MCSignals == {SignalsAt(MCSessions, 30, 20)}

\* Never live, or live today
MCRecencies == {Baseline, Recency(0)}
MCDraws == {100}
=============================================================================
