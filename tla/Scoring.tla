------------------------------- MODULE Scoring -------------------------------
(***************************************************************************)
(* The pure part of the scoring: what a prediction is worth against a      *)
(* result (src/scoring.rs), which score of a feed report settles the bets  *)
(* (ApiScore in src/football_data.rs) and when a match takes bets          *)
(* (src/models.rs).  A score is a record [home, away] of goals.            *)
(***************************************************************************)
EXTENDS Integers

POINTS_EXACT == 3
POINTS_OUTCOME == 1

(***************************************************************************)
(* i32::signum, and the SQL sign() of recompute_all.                       *)
(***************************************************************************)
Sign(n) == IF n > 0 THEN 1 ELSE IF n < 0 THEN -1 ELSE 0

Outcome(score) == Sign(score.home - score.away)

\* Mutant of ComputePoints: an exact score also earns the outcome point.
ComputePointsAdding(predicted, actual) ==
  (IF predicted = actual THEN POINTS_EXACT ELSE 0)
    + (IF Outcome(predicted) = Outcome(actual) THEN POINTS_OUTCOME ELSE 0)

ComputePoints(predicted, actual) ==
  IF predicted = actual THEN POINTS_EXACT
  ELSE IF Outcome(predicted) = Outcome(actual) THEN POINTS_OUTCOME
  ELSE 0

(***************************************************************************)
(* bets.points holds the base points already multiplied by the joker.      *)
(***************************************************************************)
EffectivePoints(predicted, multiplier, actual) ==
  multiplier * ComputePoints(predicted, actual)

(***************************************************************************)
(* The feed's statuses, one per class the code tells apart: "TIMED" stands *)
(* for every status outside the list of has_kicked_off (SCHEDULED,         *)
(* POSTPONED, CANCELLED, ...), "IN_PLAY" for the listed ones other than    *)
(* FINISHED (PAUSED, EXTRA_TIME, AWARDED, SUSPENDED, ...).                 *)
(***************************************************************************)
Status == {"TIMED", "IN_PLAY", "FINISHED"}

has_kicked_off(status) == status \in {"IN_PLAY", "FINISHED"}

\* Mutant of betting_open: the kickoff time alone closes the bets.
betting_open_by_clock(kickoff, status, now) == kickoff > now

betting_open(kickoff, status, now) ==
  /\ kickoff > now
  /\ ~ has_kicked_off(status)

(***************************************************************************)
(* A score report of the feed: each part is present or not, and so is each *)
(* side of a part; Missing stands for None.                                *)
(***************************************************************************)
Missing == -1

sum_parts(a, b) ==
  IF a = Missing /\ b = Missing THEN Missing
  ELSE (IF a = Missing THEN 0 ELSE a) + (IF b = Missing THEN 0 ELSE b)

settled_score(report) ==
  IF report.duration = "PENALTY_SHOOTOUT"
  THEN [home |-> sum_parts(report.regular.home, report.extra.home),
        away |-> sum_parts(report.regular.away, report.extra.away)]
  ELSE report.fullTime
=============================================================================
