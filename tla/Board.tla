------------------------------- MODULE Board --------------------------------
(***************************************************************************)
(* The leaderboard of a space (load_leaderboard of src/stakes.rs): players *)
(* by points, then exact scores, then settled bets, then seniority.  Ranks *)
(* and the pot are read off it.  The points come out of modules Betting    *)
(* and Settlement; here a re-grading picks any of a set of standings.      *)
(***************************************************************************)
EXTENDS Integers, FiniteSets

CONSTANTS
  User,       \* the players
  Space,      \* the tenants
  SpaceOf,    \* SpaceOf[u]: the tenant of u
  Joined,     \* Joined[u]: users.created_at
  Standing,   \* bound: the standings a re-grading leads to
  Allowance,  \* bound: how much of each kind of event a behaviour may have
  NULL

ASSUME BoardAssumption ==
  /\ SpaceOf \in [User -> Space]
  /\ Joined \in [User -> Nat]
  /\ \A u, v \in User : Joined[u] = Joined[v] => u = v
  /\ IsFiniteSet(User)

\* What the bets of a player add up to.
ASSUME StandingAssumption ==
  Standing \subseteq [User -> [points : Nat, exact : Nat, settled : Nat]]

VARIABLES
  standing,   \* standing[u]: points, exact scores and settled bets of u
  left        \* what is left of the allowance: no part of the program

Spend(what) ==
  /\ left[what] > 0
  /\ left' = [left EXCEPT ![what] = @ - 1]

Members(s) == {u \in User : SpaceOf[u] = s}

\* The ORDER BY of load_leaderboard.
Ahead(u, v) ==
  LET a == standing[u]
      b == standing[v]
  IN  \/ a.points > b.points
      \/ a.points = b.points /\ a.exact > b.exact
      \/ a.points = b.points /\ a.exact = b.exact /\ a.settled > b.settled
      \/ a = b /\ Joined[u] < Joined[v]

Rank(u) == 1 + Cardinality({v \in Members(SpaceOf[u]) : Ahead(v, u)})
=============================================================================
