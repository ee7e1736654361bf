----------------------------- MODULE Settlement -----------------------------
(***************************************************************************)
(* What follows from settled bets: points (src/scoring.rs), streaks        *)
(* (src/streaks.rs), the players of the day (src/highlights.rs) and the    *)
(* badges (src/achievements.rs).                                           *)
(*                                                                         *)
(* Two tasks write these tables and share no lock: the background loop     *)
(* (src/main.rs) and the daily digest, scheduled or forced                 *)
(* (src/notifications.rs).  Each runs its jobs in order, one SQL statement *)
(* a step; what a job has read may be old when it writes.  Predictions are *)
(* given: module Betting is about them.  One space (tenant) is modelled:   *)
(* no statement here mixes two.                                            *)
(***************************************************************************)
EXTENDS Scoring, Sequences, FiniteSets, FiniteSetsExt

CONSTANTS
  User,
  Match,
  Score,
  Entered,      \* Entered[u][m]: the prediction of u on m, or NULL
  Doubled,      \* Doubled[u]: the matches u has set a joker on
  Kickoff,      \* Kickoff[m]: an instant; several matches may share it
  Orders,       \* the orders of the matches that ORDER BY kickoff_at allows
  UtcDate,      \* UtcDate[m]: the calendar date of the kickoff
  Matchday,     \* Matchday[m]: the window of matchday.rs it falls in, a number, or NULL
  Stage,        \* Stage[m]: the competition phase, or NULL
  NameRank,     \* NameRank[u]: place of u's display name in alphabetical order
  Reports,      \* Reports[m]: what the feed may say of m
  PastWinners,  \* players of the day recorded before the badges were deployed
  PointTiers, StreakTiers, PotdTiers,   \* thresholds of the tiered badges
  MaxDigests,   \* bound: digests that run
  MaxUpsets,    \* bound: changes of the matches, jobs that fail and restarts
  NULL

MARATHON_MIN_MATCHES == 2

Report == [status : Status, result : Score \union {NULL}]

Streak == [current : Nat, best : Nat]

Winner == [user : User, points : Nat, exact : Nat]

Day == {Matchday[m] : m \in Match} \ {NULL}

ASSUME SettlementAssumption ==
  /\ IsFiniteSet(User) /\ IsFiniteSet(Match)
  /\ NULL \notin Score \union Report \union User \union Int \union Streak
  /\ Entered \in [User -> [Match -> Score \union {NULL}]]
  /\ Doubled \in [User -> SUBSET Match]
  /\ Kickoff \in [Match -> Nat]
  /\ Orders = {o \in [1..Cardinality(Match) -> Match] :
                 /\ \A i, j \in DOMAIN o : i # j => o[i] # o[j]
                 /\ \A i, j \in DOMAIN o : i < j => Kickoff[o[i]] <= Kickoff[o[j]]}
  /\ Matchday \in [Match -> Nat \union {NULL}]
  /\ NameRank \in [User -> Nat]
  /\ \A m \in Match : Reports[m] \subseteq Report
  /\ PastWinners \in [Day -> Winner \union {NULL}]
  /\ PointTiers \union StreakTiers \union PotdTiers \subseteq Nat \ {0}

\* A badge: a rule of the catalogue and its tier, 0 when it has none.
Badge ==
  {<<rule, 0>> : rule \in {"first_exact", "perfect_day", "marathon"}} \union
  {<<"pts", t>> : t \in PointTiers} \union
  {<<"streak", t>> : t \in StreakTiers} \union
  {<<"potd", t>> : t \in PotdTiers}

VARIABLES
  match,    \* status and result of each match
  points,   \* bets.points
  streak,   \* users.current_streak and users.best_streak
  potd,     \* the table player_of_the_day, by day
  earned,   \* the table achievements: pairs <<user, badge>>
  task,     \* where the loop and the digest stand and what they have read
  spent     \* how much of each bound is used: no part of the program

vars == <<match, points, streak, potd, earned, task, spent>>

Multiplier(u, m) == IF m \in Doubled[u] THEN 2 ELSE 1

Settled(m) == match[m].status = "FINISHED" /\ match[m].result # NULL

\* What the prediction of u is worth, NULL when there is none.
Worth(u, m) ==
  IF Entered[u][m] = NULL THEN NULL
  ELSE EffectivePoints(Entered[u][m], Multiplier(u, m), match[m].result)

\* The bets with points whose match is settled still.
Graded(u) == {m \in Match : Settled(m) /\ points[u][m] # NULL}

\* A new user's row.
NoStreak == [current |-> 0, best |-> 0]

Rest == [pc |-> "rest", day |-> NULL, folded |-> [u \in User |-> NULL], winner |-> NULL]

(***************************************************************************)
(* The first start of the version that brings the badges and the streaks:  *)
(* bets have been graded before, and players of the day recorded.  At      *)
(* start-up the badges are evaluated before the loop runs                  *)
(* (init_badge_notifications).                                             *)
(***************************************************************************)
Init ==
  /\ match \in [Match -> UNION {Reports[m] : m \in Match}]
  /\ \A m \in Match : match[m] \in Reports[m]
  /\ points = [u \in User |-> [m \in Match |-> IF Settled(m) THEN Worth(u, m) ELSE NULL]]
  /\ streak = [u \in User |-> NoStreak]
  /\ potd = PastWinners
  /\ earned = {}
  /\ task = [loop |-> [Rest EXCEPT !.pc = "first_exact"], digest |-> Rest]
  /\ spent = [digests |-> 0, upsets |-> 0]

Spend(what) == spent' = [spent EXCEPT ![what] = @ + 1]

(***************************************************************************)
(* The jobs of the loop in their order, and those of the digest.  The loop *)
(* starts again with a sync, which is Reported below.                      *)
(***************************************************************************)
Following ==
  [loop |-> [score |-> "fold", fold |-> "streaks", streaks |-> "first_exact",
             first_exact |-> "perfect_day", perfect_day |-> "pts", pts |-> "streak",
             streak |-> "marathon", marathon |-> "potd", potd |-> "score"],
   digest |-> [score |-> "fold", fold |-> "streaks", streaks |-> "winner",
               winner |-> "upsert", upsert |-> "rest"]]

At(w, pc) == task[w].pc = pc

\* On to another job, with nothing of what this one has read.
Goto(w, pc) ==
  task' = [task EXCEPT ![w] = [Rest EXCEPT !.pc = pc,
                                           !.day = IF pc = "rest" THEN NULL ELSE task[w].day]]

Done(w) == Goto(w, Following[w][task[w].pc])

-----------------------------------------------------------------------------
(***************************************************************************)
(* A sync or an operator changes the matches (module Betting says how).    *)
(***************************************************************************)
Reported ==
  /\ spent.upsets < MaxUpsets
  /\ \E m \in Match : \E r \in Reports[m] \ {match[m]} : match' = [match EXCEPT ![m] = r]
  /\ Spend("upsets")
  /\ UNCHANGED <<points, streak, potd, earned, task>>

\* scoring::recompute_all.  A match that is not settled any more keeps its points.
Rescore(w) ==
  /\ At(w, "score")
  /\ points' = [u \in User |-> [m \in Match |-> IF Settled(m) THEN Worth(u, m) ELSE points[u][m]]]
  /\ Done(w)
  /\ UNCHANGED <<match, streak, potd, earned, spent>>

(***************************************************************************)
(* streaks::streak_of, a fold over the points in the order of the kickoffs.*)
(***************************************************************************)
\* Mutant of Extend: the best run is not kept up to date.
ExtendCurrent(s, p) == IF p > 0 THEN [s EXCEPT !.current = @ + 1] ELSE [s EXCEPT !.current = 0]

\* Mutant of Extend: the best run starts again with the current one.
ExtendFresh(s, p) ==
  IF p > 0 THEN [current |-> s.current + 1, best |-> Max({s.best, s.current + 1})]
           ELSE NoStreak

Extend(s, p) ==
  IF p > 0 THEN [current |-> s.current + 1, best |-> Max({s.best, s.current + 1})]
           ELSE [s EXCEPT !.current = 0]

streak_of(history) ==
  LET upTo[n \in 0..Len(history)] ==
        IF n = 0 THEN NoStreak ELSE Extend(upTo[n - 1], history[n])
  IN  upTo[Len(history)]

\* The points of u in the order of the matches, without those that are not graded.
HistoryIn(u, order) ==
  LET graded == {i \in DOMAIN order : order[i] \in Graded(u)}
      Nth(n) == CHOOSE i \in graded : Cardinality({j \in graded : j <= i}) = n
  IN  [n \in 1..Cardinality(graded) |-> points[u][order[Nth(n)]]]

Histories(u) == {HistoryIn(u, o) : o \in Orders}

\* streaks::recompute_all reads; a player without graded bets has no row.
Fold(w) ==
  /\ At(w, "fold")
  /\ \E order \in [User -> Orders] :
       task' = [task EXCEPT ![w].pc = Following[w][@],
                            ![w].folded = [u \in User |-> IF Graded(u) = {} THEN NULL
                                                           ELSE streak_of(HistoryIn(u, order[u]))]]
  /\ UNCHANGED <<match, points, streak, potd, earned, spent>>

\* It then writes all the rows it has folded, in one statement.
WriteStreaks(w) ==
  /\ At(w, "streaks")
  /\ streak' = [u \in User |-> IF task[w].folded[u] = NULL THEN streak[u] ELSE task[w].folded[u]]
  /\ Done(w)
  /\ UNCHANGED <<match, points, potd, earned, spent>>

-----------------------------------------------------------------------------
(***************************************************************************)
(* achievements::evaluate_all, one INSERT per rule.                        *)
(***************************************************************************)
Grant(w, rule, deserving) ==
  /\ At(w, rule)
  /\ earned' = earned \union deserving
  /\ Done(w)
  /\ UNCHANGED <<match, points, streak, potd, spent>>

\* Mutant of ExactPoints: the test from before the jokers.
ExactIsThree(p) == p # NULL /\ p = 3

\* b.points >= 3.
ExactPoints(p) == p # NULL /\ p >= 3

FirstExact(w) ==
  Grant(w, "first_exact",
        {<<u, <<"first_exact", 0>>>> : u \in {v \in User : \E m \in Match : ExactPoints(points[v][m])}})

PerfectDay(w) ==
  LET Counted(u, date) == {m \in Match : /\ UtcDate[m] = date
                                         /\ match[m].status = "FINISHED"
                                         /\ points[u][m] # NULL}
      Perfect(u) == \E date \in {UtcDate[m] : m \in Match} :
                      /\ Cardinality(Counted(u, date)) >= 2
                      /\ \A m \in Counted(u, date) : ExactPoints(points[u][m])
  IN  Grant(w, "perfect_day", {<<u, <<"perfect_day", 0>>>> : u \in {v \in User : Perfect(v)}})

Sum(u, M) == MapThenSumSet(LAMBDA m : IF points[u][m] = NULL THEN 0 ELSE points[u][m], M)

PointsReached(w) ==
  Grant(w, "pts", {<<ut[1], <<"pts", ut[2]>>>> :
                     ut \in {x \in User \X PointTiers : Sum(x[1], Match) >= x[2]}})

StreakReached(w) ==
  Grant(w, "streak", {<<ut[1], <<"streak", ut[2]>>>> :
                        ut \in {x \in User \X StreakTiers : streak[x[1]].best >= x[2]}})

Marathon(w) ==
  LET Phase(s) == {m \in Match : Stage[m] = s}
      Ran(u) == \E s \in {Stage[m] : m \in Match} \ {NULL} :
                  /\ Cardinality(Phase(s)) >= MARATHON_MIN_MATCHES
                  /\ Cardinality({m \in Phase(s) : Entered[u][m] # NULL}) = Cardinality(Phase(s))
  IN  Grant(w, "marathon", {<<u, <<"marathon", 0>>>> : u \in {v \in User : Ran(v)}})

Recorded == {d \in Day : potd[d] # NULL}

Won(u) == {d \in Recorded : potd[d].user = u}

UpTo(D, d) == Cardinality({e \in D : e <= d})

\* Mutant of Island: all the days a player has won, in a row or not.
IslandOfAll(u, d) == 0

\* rn - urn, the same for the days a player wins in a row.
Island(u, d) == UpTo(Recorded, d) - UpTo(Won(u), d)

PlayerOfDays(w) ==
  LET LongestRun(u) == {Cardinality({e \in Won(u) : Island(u, e) = Island(u, d)}) : d \in Won(u)}
  IN  Grant(w, "potd", {<<ut[1], <<"potd", ut[2]>>>> :
                          ut \in {x \in User \X PotdTiers : \E n \in LongestRun(x[1]) : n >= x[2]}})

-----------------------------------------------------------------------------
(***************************************************************************)
(* The digest of a matchday: scheduled, or forced as often as the          *)
(* administrators like.                                                    *)
(***************************************************************************)
DigestStarts(d) ==
  /\ At("digest", "rest")
  /\ spent.digests < MaxDigests
  /\ task' = [task EXCEPT !.digest = [Rest EXCEPT !.pc = "score", !.day = d]]
  /\ Spend("digests")
  /\ UNCHANGED <<match, points, streak, potd, earned>>

(***************************************************************************)
(* highlights::upsert_player_of_the_day, the SELECT: most points, then most*)
(* exact scores, then first by name.  Without a winner nothing is stored.  *)
(***************************************************************************)
Standing(d) ==
  {[user |-> u, points |-> Sum(u, {m \in Graded(u) : Matchday[m] = d}),
    exact |-> Cardinality({m \in Graded(u) : Matchday[m] = d /\ ExactPoints(points[u][m])})] : u \in User}

Before(a, b) ==
  \/ a.points > b.points
  \/ a.points = b.points /\ a.exact > b.exact
  \/ a.points = b.points /\ a.exact = b.exact /\ NameRank[a.user] <= NameRank[b.user]

PickWinner ==
  /\ At("digest", "winner")
  /\ LET scorers == {s \in Standing(task.digest.day) : s.points > 0} IN
     IF scorers = {} THEN Goto("digest", "rest")
     ELSE \E s \in scorers :
            /\ \A other \in scorers : Before(s, other)
            /\ task' = [task EXCEPT !.digest.pc = "upsert", !.digest.winner = s]
  /\ UNCHANGED <<match, points, streak, potd, earned, spent>>

UpsertWinner ==
  /\ At("digest", "upsert")
  /\ potd' = [potd EXCEPT ![task.digest.day] = task.digest.winner]
  /\ Done("digest")
  /\ UNCHANGED <<match, points, streak, earned, spent>>

-----------------------------------------------------------------------------
(***************************************************************************)
(* A statement fails: the rest of its job is skipped, and the next job     *)
(* runs.  The digest gives up when it cannot tell the winner.              *)
(***************************************************************************)
NextJob ==
  [pc \in DOMAIN Following.loop |-> IF pc = "score" THEN "fold"
                                    ELSE IF pc \in {"fold", "streaks"} THEN "first_exact"
                                    ELSE "score"]

NextDigestJob ==
  [score |-> "fold", fold |-> "winner", streaks |-> "winner", winner |-> "rest", upsert |-> "rest"]

Fails(w) ==
  /\ ~ At(w, "rest")
  /\ spent.upsets < MaxUpsets
  /\ Goto(w, IF w = "loop" THEN NextJob[task[w].pc] ELSE NextDigestJob[task[w].pc])
  /\ Spend("upsets")
  /\ UNCHANGED <<match, points, streak, potd, earned>>

Restart ==
  /\ spent.upsets < MaxUpsets
  /\ task' = [loop |-> [Rest EXCEPT !.pc = "first_exact"], digest |-> Rest]
  /\ Spend("upsets")
  /\ UNCHANGED <<match, points, streak, potd, earned>>

Jobs(w) == Rescore(w) \/ Fold(w) \/ WriteStreaks(w)

Evaluate ==
  \/ FirstExact("loop") \/ PerfectDay("loop") \/ PointsReached("loop")
  \/ StreakReached("loop") \/ Marathon("loop") \/ PlayerOfDays("loop")

Loop == Jobs("loop") \/ Evaluate

Digest == (\E d \in Day : DigestStarts(d)) \/ Jobs("digest") \/ PickWinner \/ UpsertWinner

Next ==
  \/ Reported
  \/ Loop
  \/ Digest
  \/ Fails("loop") \/ Fails("digest")
  \/ Restart

(***************************************************************************)
(* The loop goes on for ever; nothing obliges a digest to run or to end.   *)
(***************************************************************************)
Spec == Init /\ [][Next]_vars

FairSpec == Spec /\ WF_vars(Loop)

-----------------------------------------------------------------------------
TaskState ==
  [pc : {"rest", "score", "fold", "streaks", "first_exact", "perfect_day", "pts", "streak",
         "marathon", "potd", "winner", "upsert"},
   day : Day \union {NULL}, folded : [User -> Streak \union {NULL}], winner : Winner \union {NULL}]

(***************************************************************************)
(* The tables hold values of their types; a best streak covers the current *)
(* one, whichever task wrote the row from whatever it had read.            *)
(***************************************************************************)
TypeOK ==
  /\ match \in [Match -> Report]
  /\ points \in [User -> [Match -> Nat \union {NULL}]]
  /\ streak \in [User -> Streak]
  /\ \A u \in User : streak[u].current <= streak[u].best
  /\ potd \in [Day -> Winner \union {NULL}]
  /\ earned \subseteq User \X Badge
  /\ task \in [loop : TaskState, digest : TaskState]
  /\ spent \in [digests : Nat, upsets : Nat]

(***************************************************************************)
(* The runs of a history by their definition: consecutive predictions that *)
(* all scored.                                                             *)
(***************************************************************************)
AllScored(h, i, j) == \A k \in i..j : h[k] > 0

Runs(h) ==
  [current |-> Max({0} \union {n \in 1..Len(h) : AllScored(h, Len(h) - n + 1, Len(h))}),
   best |-> Max({0} \union {n \in 1..Len(h) : \E i \in 1..(Len(h) - n + 1) : AllScored(h, i, i + n - 1)})]

(***************************************************************************)
(* Once the results stay, the streaks shown to a player are the runs of    *)
(* the settled bets, in the order of the kickoffs, although the digest may *)
(* have written older ones over them.                                      *)
(***************************************************************************)
StreaksSettle ==
  <>[](\A u \in User : Graded(u) # {} => streak[u] \in {Runs(h) : h \in Histories(u)})

(***************************************************************************)
(* What each badge promises (CATALOG), over the tables as they stand.      *)
(***************************************************************************)
IsExact(u, m) == points[u][m] = POINTS_EXACT * Multiplier(u, m)

InARow(D) == \A d, e \in D, f \in Recorded : d < f /\ f < e => f \in D

Deserves(u, badge) ==
  CASE badge[1] = "first_exact" -> \E m \in Match : IsExact(u, m)
    [] badge[1] = "perfect_day" ->
         \E m, n \in Match :
           /\ m # n /\ UtcDate[m] = UtcDate[n]
           /\ {m, n} \subseteq {o \in Match : match[o].status = "FINISHED" /\ points[u][o] # NULL}
           /\ \A o \in Match :
                UtcDate[o] = UtcDate[m] /\ match[o].status = "FINISHED" /\ points[u][o] # NULL
                => IsExact(u, o)
    [] badge[1] = "pts" -> Sum(u, Match) >= badge[2]
    [] badge[1] = "streak" -> streak[u].best >= badge[2]
    [] badge[1] = "marathon" ->
         \E m, n \in Match :
           /\ m # n /\ Stage[m] = Stage[n] /\ Stage[m] # NULL
           /\ \A o \in Match : Stage[o] = Stage[m] => Entered[u][o] # NULL
    [] badge[1] = "potd" -> \E D \in SUBSET Won(u) : Cardinality(D) = badge[2] /\ InARow(D)

(***************************************************************************)
(* No badge is given that is not deserved when it is given, ...            *)
(***************************************************************************)
GivenAreDeserved ==
  [][\A given \in earned' \ earned : Deserves(given[1], given[2])]_vars

(***************************************************************************)
(* ... the job of a rule gives its badges to everyone who deserves them    *)
(* then (evaluate_all), ...                                                *)
(***************************************************************************)
Gives(rule) ==
  \A u \in User, badge \in Badge : badge[1] = rule /\ Deserves(u, badge) => <<u, badge>> \in earned'

EvaluationIsComplete ==
  [][/\ FirstExact("loop") => Gives("first_exact")
     /\ PerfectDay("loop") => Gives("perfect_day")
     /\ PointsReached("loop") => Gives("pts")
     /\ StreakReached("loop") => Gives("streak")
     /\ Marathon("loop") => Gives("marathon")
     /\ PlayerOfDays("loop") => Gives("potd")]_vars

(***************************************************************************)
(* ... and once the results stay, every deserved badge has been given,     *)
(* whatever jobs failed and restarts cut short.                            *)
(***************************************************************************)
DeservedAreGiven ==
  <>[](\A u \in User, badge \in Badge : <<u, badge>> \in earned \/ ~ Deserves(u, badge))

(***************************************************************************)
(* best_streak never comes down (specs/01-streaks.md).                     *)
(***************************************************************************)
BestStreakStays ==
  [][\A u \in User : streak'[u].best >= streak[u].best]_vars
=============================================================================
