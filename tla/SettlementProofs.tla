---------------------------- MODULE SettlementProofs ----------------------------
(***************************************************************************)
(* Theorems of Settlement, for any players, matches, kickoffs, tiers and   *)
(* schedules: the tables and the two tasks keep their types, a fold hands  *)
(* over the runs of the history of each player, and the evaluation gives a *)
(* badge when, and only when, its rule is met.                             *)
(***************************************************************************)
EXTENDS Settlement, Counting
-----------------------------------------------------------------------------
(***************************************************************************)
(* The fold of streak_of, with the prefix of a history it has seen: the    *)
(* run that ends there, and the longest one up to there.                   *)
(***************************************************************************)
RunsAt(h, n, s) ==
  /\ s \in Streak
  /\ s.current <= n /\ s.best <= n
  /\ AllScored(h, n - s.current + 1, n)
  /\ s.current < n => ~ h[n - s.current] > 0
  /\ s.best > 0 => \E i \in 1..(n - s.best + 1) : AllScored(h, i, i + s.best - 1)
  /\ \A i \in 1..n : \A j \in i..n : AllScored(h, i, j) => j - i + 1 <= s.best

LEMMA MaxIs ==
  ASSUME NEW S, S \subseteq Int, NEW x \in S, \A y \in S : y <= x
  PROVE  Max(S) = x
<1>1. x \in S /\ \A y \in S : x >= y
  OBVIOUS
<1>2. \E z : z \in S /\ \A y \in S : z >= y
  BY <1>1
<1>3. Max(S) \in S /\ \A y \in S : Max(S) >= y
  BY <1>2 DEF Max
<1> DEFINE m == Max(S)
<1> HIDE DEF m
<1>4. m \in S /\ m >= x /\ m <= x /\ m \in Int /\ x \in Int
  BY <1>1, <1>3 DEF m
<1>5. m = x
  BY <1>4
<1> QED BY <1>5 DEF m

LEMMA NoRunsYet ==
  ASSUME NEW h
  PROVE  RunsAt(h, 0, NoStreak)
BY DEF RunsAt, NoStreak, Streak, AllScored

LEMMA ExtendRuns ==
  ASSUME NEW n \in Nat, NEW h, \A k \in 1..(n + 1) : h[k] \in Nat, NEW s, RunsAt(h, n, s)
  PROVE  RunsAt(h, n + 1, Extend(s, h[n + 1]))
<1> DEFINE p == h[n + 1]
           t == Extend(s, p)
<1>0. p \in Nat /\ s \in Streak /\ s.current \in Nat /\ s.best \in Nat
  BY DEF RunsAt, Streak
<1>1. CASE p > 0
  <2>1. t = [current |-> s.current + 1, best |-> Max({s.best, s.current + 1})]
    BY <1>1 DEF Extend
  <2>2. Max({s.best, s.current + 1}) = IF s.best >= s.current + 1 THEN s.best ELSE s.current + 1
    BY <1>0, MaxIs
  <2>3. /\ t \in Streak /\ t.current = s.current + 1
        /\ t.best = IF s.best >= s.current + 1 THEN s.best ELSE s.current + 1
    BY <1>0, <2>1, <2>2 DEF Streak
  <2> HIDE DEF t
  <2>4. t.current <= n + 1 /\ t.best <= n + 1
    BY <1>0, <2>3 DEF RunsAt
  <2>5. AllScored(h, (n + 1) - t.current + 1, n + 1)
    BY <1>0, <1>1, <2>3 DEF RunsAt, AllScored
  <2>6. t.current < n + 1 => ~ h[(n + 1) - t.current] > 0
    <3>1. (n + 1) - t.current = n - s.current
      BY <1>0, <2>3
    <3> QED BY <1>0, <2>3, <3>1 DEF RunsAt
  <2>7. t.best > 0 => \E i \in 1..((n + 1) - t.best + 1) : AllScored(h, i, i + t.best - 1)
    <3>1. CASE s.best >= s.current + 1
      <4>1. t.best = s.best /\ s.best > 0
        BY <1>0, <2>3, <3>1
      <4>2. PICK i \in 1..(n - s.best + 1) : AllScored(h, i, i + s.best - 1)
        BY <4>1 DEF RunsAt
      <4>3. i \in 1..((n + 1) - t.best + 1)
        BY <1>0, <4>1, <4>2
      <4> QED BY <4>1, <4>2, <4>3
    <3>2. CASE ~ s.best >= s.current + 1
      <4> DEFINE i == (n + 1) - t.current + 1
      <4>1. t.best = t.current /\ i + t.best - 1 = n + 1 /\ i \in 1..((n + 1) - t.best + 1)
        BY <1>0, <2>3, <2>4, <3>2
      <4> QED BY <2>5, <4>1
    <3> QED BY <3>1, <3>2
  <2>8. ASSUME NEW i \in 1..(n + 1), NEW j \in i..(n + 1), AllScored(h, i, j) PROVE j - i + 1 <= t.best
    <3>1. CASE j <= n
      <4>1. i \in 1..n /\ j \in i..n
        BY <3>1
      <4>2. j - i + 1 <= s.best
        BY <2>8, <4>1 DEF RunsAt
      <4> QED BY <1>0, <2>3, <4>2
    <3>2. CASE j = n + 1
      <4>1. SUFFICES ASSUME ~ (j - i + 1 <= s.current + 1) PROVE FALSE
        BY <1>0, <2>3
      <4>2. s.current < n /\ n - s.current \in i..j
        BY <1>0, <3>2, <4>1
      <4>3. h[n - s.current] > 0
        BY <2>8, <4>2 DEF AllScored
      <4> QED BY <4>2, <4>3 DEF RunsAt
    <3> QED BY <3>1, <3>2
  <2>9. RunsAt(h, n + 1, t)
    BY <2>3, <2>4, <2>5, <2>6, <2>7, <2>8 DEF RunsAt
  <2> QED BY <2>9 DEF t
<1>2. CASE ~ p > 0
  <2>1. t = [s EXCEPT !.current = 0]
    BY <1>2 DEF Extend
  <2>2. t \in Streak /\ t.current = 0 /\ t.best = s.best
    BY <1>0, <2>1 DEF Streak
  <2> HIDE DEF t
  <2>3. t.current <= n + 1 /\ t.best <= n + 1 /\ AllScored(h, (n + 1) - t.current + 1, n + 1)
    BY <1>0, <2>2 DEF RunsAt, AllScored
  <2>4. ~ h[(n + 1) - t.current] > 0
    BY <1>2, <2>2
  <2>5. t.best > 0 => \E i \in 1..((n + 1) - t.best + 1) : AllScored(h, i, i + t.best - 1)
    <3>1. SUFFICES ASSUME s.best > 0 PROVE \E i \in 1..((n + 1) - s.best + 1) : AllScored(h, i, i + s.best - 1)
      BY <2>2
    <3>2. PICK i \in 1..(n - s.best + 1) : AllScored(h, i, i + s.best - 1)
      BY <3>1 DEF RunsAt
    <3>3. i \in 1..((n + 1) - s.best + 1)
      BY <1>0, <3>2
    <3> QED BY <3>2, <3>3
  <2>6. ASSUME NEW i \in 1..(n + 1), NEW j \in i..(n + 1), AllScored(h, i, j) PROVE j - i + 1 <= t.best
    <3>1. j # n + 1
      <4>1. n + 1 \in i..(n + 1)
        OBVIOUS
      <4> QED BY <1>2, <2>6, <4>1 DEF AllScored
    <3>2. i \in 1..n /\ j \in i..n
      BY <3>1
    <3> QED BY <2>2, <2>6, <3>2 DEF RunsAt
  <2>7. t.current < n + 1 => ~ h[(n + 1) - t.current] > 0
    BY <2>4
  <2>8. RunsAt(h, n + 1, t)
    BY <2>2, <2>3, <2>5, <2>6, <2>7 DEF RunsAt
  <2> QED BY <2>8 DEF t
<1> QED BY <1>1, <1>2

(***************************************************************************)
(* The recursive function of streak_of is one, as long as the history may  *)
(* be.                                                                     *)
(***************************************************************************)
IsFold(f, h, n) == f = [k \in 0..n |-> IF k = 0 THEN NoStreak ELSE Extend(f[k - 1], h[k])]

LEMMA FoldExists ==
  ASSUME NEW h, NEW n \in Nat
  PROVE  \E f : IsFold(f, h, n)
<1> DEFINE Upon(f, k) == IF k = 0 THEN NoStreak ELSE Extend(f[k - 1], h[k])
           Built == {m \in Nat : \E f : f = [k \in 0..m |-> Upon(f, k)]}
<1>1. 0 \in Built
  <2> DEFINE f == [k \in 0..0 |-> NoStreak]
  <2>1. f = [k \in 0..0 |-> Upon(f, k)]
    OBVIOUS
  <2> QED BY <2>1
<1>2. ASSUME NEW m \in Nat, m \in Built PROVE m + 1 \in Built
  <2>1. PICK g : g = [k \in 0..m |-> Upon(g, k)]
    BY <1>2
  <2> DEFINE f == [k \in 0..(m + 1) |-> Upon(g, k)]
  <2>2. \A k \in 0..m : g[k] = Upon(g, k)
    <3> HIDE DEF Upon
    <3> QED BY <2>1, Zenon
  <2>3. \A k \in 0..m : f[k] = g[k]
    <3> HIDE DEF Upon
    <3> QED BY <2>2
  <2> HIDE DEF f
  <2>4. \A k \in 0..(m + 1) : Upon(g, k) = Upon(f, k)
    <3>1. \A k \in 0..(m + 1) : k # 0 => k - 1 \in 0..m
      OBVIOUS
    <3> QED BY <2>3, <3>1
  <2>5. f = [k \in 0..(m + 1) |-> Upon(f, k)]
    <3> HIDE DEF Upon
    <3> QED BY <2>4 DEF f
  <2> HIDE DEF Upon
  <2> QED BY <2>5
<1>3. \A m \in Nat : m \in Built
  <2> HIDE DEF Built
  <2> QED BY <1>1, <1>2, NumberInduction
<1> QED BY <1>3 DEF IsFold

LEMMA FoldRuns ==
  ASSUME NEW n \in Nat, NEW h, \A k \in 1..n : h[k] \in Nat, NEW f, IsFold(f, h, n)
  PROVE  RunsAt(h, n, f[n])
<1> DEFINE Right == {k \in Nat : k <= n => RunsAt(h, k, f[k])}
<1>1. 0 \in Right
  BY NoRunsYet DEF IsFold
<1>2. ASSUME NEW k \in Nat, k \in Right PROVE k + 1 \in Right
  <2>1. SUFFICES ASSUME k + 1 <= n PROVE RunsAt(h, k + 1, f[k + 1])
    OBVIOUS
  <2>2. RunsAt(h, k, f[k])
    BY <1>2, <2>1
  <2>3. f[k + 1] = Extend(f[k], h[k + 1])
    <3>1. k + 1 \in 0..n /\ k + 1 # 0 /\ (k + 1) - 1 = k
      BY <2>1
    <3>2. f[k + 1] = Extend(f[(k + 1) - 1], h[k + 1])
      BY <3>1, Zenon DEF IsFold
    <3> QED BY <3>1, <3>2
  <2>4. \A i \in 1..(k + 1) : h[i] \in Nat
    BY <2>1
  <2> QED BY <2>2, <2>3, <2>4, ExtendRuns
<1>3. \A k \in Nat : k \in Right
  <2> HIDE DEF Right
  <2> QED BY <1>1, <1>2, NumberInduction
<1> QED BY <1>3

LEMMA StreakRuns ==
  ASSUME NEW h \in Seq(Nat)
  PROVE  RunsAt(h, Len(h), streak_of(h))
<1> DEFINE upTo == CHOOSE f : IsFold(f, h, Len(h))
<1>1. streak_of(h) = upTo[Len(h)]
  BY DEF streak_of, IsFold
<1>2. Len(h) \in Nat /\ \A k \in 1..Len(h) : h[k] \in Nat
  OBVIOUS
<1>3. IsFold(upTo, h, Len(h))
  <2>1. \E f : IsFold(f, h, Len(h))
    BY <1>2, FoldExists
  <2> QED BY <2>1
<1> HIDE DEF upTo
<1> QED BY <1>1, <1>2, <1>3, FoldRuns

(***************************************************************************)
(* streak_of (src/streaks.rs), one pass over a player's points, computes   *)
(* the run he is on and his longest one, by their definition.              *)
(***************************************************************************)
THEOREM FoldComputesRuns == \A h \in Seq(Nat) : streak_of(h) = Runs(h)
<1> SUFFICES ASSUME NEW h \in Seq(Nat) PROVE streak_of(h) = Runs(h)
  OBVIOUS
<1> DEFINE n == Len(h)
           s == streak_of(h)
           Ending == {0} \union {k \in 1..n : AllScored(h, n - k + 1, n)}
           Anywhere == {0} \union {k \in 1..n : \E i \in 1..(n - k + 1) : AllScored(h, i, i + k - 1)}
<1>1. n \in Nat /\ RunsAt(h, n, s)
  BY StreakRuns
<1> HIDE DEF n, s
<1>2. s \in Streak /\ s.current \in 0..n /\ s.best \in 0..n
  BY <1>1 DEF RunsAt, Streak
<1>3. Max(Ending) = s.current
  <2>1. s.current \in Ending
    <3>1. AllScored(h, n - s.current + 1, n)
      BY <1>1 DEF RunsAt
    <3>2. s.current = 0 \/ s.current \in 1..n
      BY <1>1, <1>2
    <3> QED BY <3>1, <3>2
  <2>2. ASSUME NEW k \in 1..n, AllScored(h, n - k + 1, n) PROVE k <= s.current
    <3>1. SUFFICES ASSUME k > s.current PROVE FALSE
      BY <1>2
    <3>2. s.current < n /\ n - s.current \in (n - k + 1)..n
      BY <1>1, <1>2, <3>1
    <3> QED BY <1>1, <2>2, <3>2 DEF RunsAt, AllScored
  <2>3. \A k \in Ending : k <= s.current
    BY <1>2, <2>2
  <2>4. Ending \subseteq Int
    BY <1>1
  <2> HIDE DEF Ending
  <2> QED BY <2>1, <2>3, <2>4, MaxIs
<1>4. Max(Anywhere) = s.best
  <2>1. s.best \in Anywhere
    <3>1. CASE s.best = 0
      BY <3>1
    <3>2. CASE s.best # 0
      <4>1. s.best \in 1..n /\ s.best > 0
        BY <1>1, <1>2, <3>2
      <4> QED BY <1>1, <4>1 DEF RunsAt
    <3> QED BY <3>1, <3>2
  <2>2. ASSUME NEW k \in 1..n, NEW i \in 1..(n - k + 1), AllScored(h, i, i + k - 1) PROVE k <= s.best
    <3>1. i \in 1..n /\ i + k - 1 \in i..n /\ (i + k - 1) - i + 1 = k
      BY <1>1
    <3> QED BY <1>1, <2>2, <3>1 DEF RunsAt
  <2>3. \A k \in Anywhere : k <= s.best
    BY <1>2, <2>2
  <2>4. Anywhere \subseteq Int
    BY <1>1
  <2> HIDE DEF Anywhere
  <2> QED BY <2>1, <2>3, <2>4, MaxIs
<1>5. Runs(h) = [current |-> Max(Ending), best |-> Max(Anywhere)]
  BY DEF Runs, n
<1>6. s = [current |-> s.current, best |-> s.best]
  BY <1>2 DEF Streak
<1> HIDE DEF Ending, Anywhere
<1> QED BY <1>3, <1>4, <1>5, <1>6 DEF s

-----------------------------------------------------------------------------
(***************************************************************************)
(* Types.  Apt says which states each task can be in: only the loop gives  *)
(* badges, only the digest rests and records winners, and it then has a    *)
(* day and a winner.  The points of a bet are those of an exact score, of  *)
(* an outcome or none, times the joker.                                    *)
(***************************************************************************)
LoopPc == {"score", "fold", "streaks", "first_exact", "perfect_day", "pts", "streak", "marathon", "potd"}
DigestPc == {"rest", "score", "fold", "streaks", "winner", "upsert"}

Covering(s) == s \in Streak /\ s.current <= s.best

Apt(w, r) ==
  /\ r \in TaskState
  /\ \A u \in User : r.folded[u] = NULL \/ Covering(r.folded[u])
  /\ IF w = "loop" THEN r.pc \in LoopPc
     ELSE /\ r.pc \in DigestPc
          /\ r.pc # "rest" => r.day \in Day
          /\ r.pc = "upsert" => r.winner \in Winner

Task == {"loop", "digest"}

Tasks == task \in [loop : TaskState, digest : TaskState] /\ \A w \in Task : Apt(w, task[w])

Worths(u, m) == {k * Multiplier(u, m) : k \in {0, 1, 3}}

Tables ==
  /\ match \in [Match -> Report]
  /\ points \in [User -> [Match -> Nat \union {NULL}]]
  /\ \A u \in User, m \in Match : points[u][m] \in Worths(u, m) \union {NULL}
  /\ streak \in [User -> Streak]
  /\ \A u \in User : streak[u].current <= streak[u].best
  /\ potd \in [Day -> Winner \union {NULL}]
  /\ earned \subseteq User \X Badge
  /\ spent \in [digests : Nat, upsets : Nat]

Typed == Tasks /\ Tables

LEMMA TypedIsTypeOK == Typed => TypeOK
BY DEF Typed, Tasks, Tables, TypeOK

LEMMA NullApart == NULL \notin Int /\ NULL \notin Nat
BY SettlementAssumption

(***************************************************************************)
(* Task w comes to r, the other stands still.                              *)
(***************************************************************************)
Comes(w, r) == Apt(w, r) /\ task' = [task EXCEPT ![w] = r]

LEMMA ComesApt ==
  ASSUME Tasks, NEW w \in Task, NEW r, Comes(w, r)
  PROVE  Tasks'
<1>1. r \in TaskState
  BY DEF Comes, Apt
<1>2. task' \in [loop : TaskState, digest : TaskState] /\ \A v \in Task : task'[v] = IF v = w THEN r ELSE task[v]
  BY <1>1 DEF Tasks, Comes, Task
<1>3. \A v \in Task : Apt(v, task'[v])
  BY <1>2 DEF Tasks, Comes
<1> QED BY <1>2, <1>3 DEF Tasks, Apt, Covering

LEMMA TaskOf ==
  ASSUME Tasks, NEW w \in Task
  PROVE  Apt(w, task[w]) /\ task[w] \in TaskState
BY DEF Tasks, Apt

LEMMA FreshApt ==
  ASSUME NEW w \in Task, NEW pc, NEW day \in Day \union {NULL},
         IF w = "loop" THEN pc \in LoopPc ELSE pc \in DigestPc \ {"upsert"},
         w = "digest" /\ pc # "rest" => day \in Day
  PROVE  Apt(w, [Rest EXCEPT !.pc = pc, !.day = day])
<1> DEFINE none == [u \in User |-> NULL]
           r == [Rest EXCEPT !.pc = pc, !.day = day]
<1>1. none \in [User -> Streak \union {NULL}] /\ \A u \in User : none[u] = NULL
  OBVIOUS
<1>2. Rest = [pc |-> "rest", day |-> NULL, folded |-> none, winner |-> NULL]
  BY DEF Rest
<1>3. pc \in {"rest", "score", "fold", "streaks", "first_exact", "perfect_day", "pts", "streak",
         "marathon", "potd", "winner", "upsert"}
  BY DEF LoopPc, DigestPc, Task
<1> HIDE DEF none
<1>4. r \in TaskState /\ r.pc = pc /\ r.day = day /\ r.folded = none
  BY <1>1, <1>2, <1>3 DEF TaskState
<1> HIDE DEF r
<1>5. Apt(w, r)
  BY <1>1, <1>4 DEF Apt, Task, LoopPc, DigestPc
<1> QED BY <1>5 DEF r

LEMMA GotoComes ==
  ASSUME Tasks, NEW w \in Task, NEW pc, Goto(w, pc),
         IF w = "loop" THEN pc \in LoopPc ELSE pc \in DigestPc \ {"upsert"} /\ task.digest.pc # "rest"
  PROVE  Tasks'
<1> DEFINE day == IF pc = "rest" THEN NULL ELSE task[w].day
           r == [Rest EXCEPT !.pc = pc, !.day = day]
<1>1. task' = [task EXCEPT ![w] = r]
  BY DEF Goto
<1>2. task[w] \in TaskState /\ Apt(w, task[w])
  BY TaskOf
<1>3. day \in Day \union {NULL} /\ (w = "digest" /\ pc # "rest" => day \in Day)
  BY <1>2 DEF TaskState, Apt, Task
<1>4. Apt(w, r)
  <2> HIDE DEF day
  <2> QED BY <1>3, FreshApt DEF Task
<1> HIDE DEF r
<1> QED BY <1>1, <1>4, ComesApt DEF Comes

LEMMA DoneComes ==
  ASSUME Tasks, NEW w \in Task, Done(w), task[w].pc \notin {"rest", "winner"}
  PROVE  Tasks'
<1>1. Apt(w, task[w])
  BY TaskOf
<1> DEFINE pc == Following[w][task[w].pc]
<1>2. IF w = "loop" THEN pc \in LoopPc ELSE pc \in DigestPc \ {"upsert"} /\ task.digest.pc # "rest"
  BY <1>1 DEF Following, Apt, LoopPc, DigestPc, Task
<1>3. Goto(w, pc)
  BY DEF Done
<1> HIDE DEF pc
<1> QED BY <1>2, <1>3, GotoComes

-----------------------------------------------------------------------------
(***************************************************************************)
(* What a bet is worth, and a history of graded bets.                      *)
(***************************************************************************)
LEMMA WorthType ==
  ASSUME NEW u \in User, NEW m \in Match
  PROVE  Worth(u, m) \in Worths(u, m) \union {NULL}
<1> DEFINE k == ComputePoints(Entered[u][m], match[m].result)
<1>1. k \in {0, 1, 3}
  BY DEF ComputePoints, POINTS_EXACT, POINTS_OUTCOME
<1>2. Worth(u, m) = NULL \/ Worth(u, m) = Multiplier(u, m) * k
  BY DEF Worth, EffectivePoints
<1> HIDE DEF k
<1>3. Multiplier(u, m) * k = k * Multiplier(u, m)
  BY <1>1 DEF Multiplier
<1> QED BY <1>1, <1>2, <1>3 DEF Worths

LEMMA WorthsAreNat == \A u \in User, m \in Match : Worths(u, m) \subseteq Nat
BY DEF Worths, Multiplier

LEMMA GradedFinite ==
  ASSUME NEW u \in User
  PROVE  IsFiniteSet(Graded(u)) /\ Cardinality(Graded(u)) \in Nat
BY SettlementAssumption, FS_Subset, FS_CardinalityType DEF Graded

LEMMA HistoryType ==
  ASSUME Tables, NEW u \in User, NEW o \in Orders
  PROVE  HistoryIn(u, o) \in Seq(Nat)
<1> DEFINE graded == {i \in DOMAIN o : o[i] \in Graded(u)}
           Nth(n) == CHOOSE i \in graded : Cardinality({j \in graded : j <= i}) = n
<1>1. o \in [1..Cardinality(Match) -> Match]
  BY SettlementAssumption
<1>2. Cardinality(Match) \in Nat /\ IsFiniteSet(1..Cardinality(Match))
  BY SettlementAssumption, FS_CardinalityType, FS_Interval
<1>3. graded \subseteq Nat /\ IsFiniteSet(graded) /\ Cardinality(graded) \in Nat
  <2>1. graded \subseteq 1..Cardinality(Match)
    BY <1>1
  <2> HIDE DEF graded
  <2>2. IsFiniteSet(graded)
    BY <1>2, <2>1, FS_Subset
  <2>3. Cardinality(graded) \in Nat
    BY <2>2, FS_CardinalityType
  <2>4. graded \subseteq Nat
    BY <1>2, <2>1
  <2> QED BY <2>2, <2>3, <2>4
<1>4. ASSUME NEW n \in 1..Cardinality(graded) PROVE points[u][o[Nth(n)]] \in Nat
  <2>1. \E i \in graded : Cardinality({j \in graded : j <= i}) = n
    <3> HIDE DEF graded
    <3> QED BY <1>3, NthOne
  <2>2. Nth(n) \in graded
    <3> HIDE DEF graded
    <3> QED BY <2>1
  <2> HIDE DEF Nth
  <2>3. o[Nth(n)] \in Graded(u)
    BY <2>2
  <2> QED BY <2>3 DEF Graded, Tables
<1>5. HistoryIn(u, o) = [n \in 1..Cardinality(graded) |-> points[u][o[Nth(n)]]]
  BY DEF HistoryIn
<1> HIDE DEF graded, Nth
<1>6. [n \in 1..Cardinality(graded) |-> points[u][o[Nth(n)]]] \in [1..Cardinality(graded) -> Nat]
  BY <1>4
<1>7. HistoryIn(u, o) \in [1..Cardinality(graded) -> Nat]
  BY <1>5, <1>6
<1> QED BY <1>3, <1>7

LEMMA StreakCovers ==
  ASSUME NEW h \in Seq(Nat)
  PROVE  Covering(streak_of(h))
<1> DEFINE n == Len(h)
           s == streak_of(h)
<1>1. n \in Nat /\ RunsAt(h, n, s)
  BY StreakRuns
<1> HIDE DEF n, s
<1>2. s \in Streak /\ s.current \in Nat /\ s.best \in Nat /\ s.current <= n
  BY <1>1 DEF RunsAt, Streak
<1>3. CASE s.current = 0
  BY <1>2, <1>3 DEF Covering, s
<1>4. CASE s.current # 0
  <2> DEFINE i == n - s.current + 1
  <2>1. i \in 1..n /\ n \in i..n /\ n - i + 1 = s.current
    BY <1>1, <1>2, <1>4
  <2>2. AllScored(h, i, n)
    BY <1>1 DEF RunsAt
  <2> HIDE DEF i
  <2>3. n - i + 1 <= s.best
    BY <1>1, <2>1, <2>2 DEF RunsAt
  <2> QED BY <1>2, <2>1, <2>3 DEF Covering, s
<1> QED BY <1>3, <1>4

-----------------------------------------------------------------------------
(***************************************************************************)
(* What the points of a player add up to.                                  *)
(***************************************************************************)
LEMMA SumType ==
  ASSUME Tables, NEW u \in User, NEW M, M \subseteq Match
  PROVE  Sum(u, M) \in Nat
<1> DEFINE w == [m \in Match |-> IF points[u][m] = NULL THEN 0 ELSE points[u][m]]
           One(s) == CHOOSE x \in s : TRUE
           Adds(f) == f = [s \in SUBSET M |->
                             IF s = {} THEN 0
                             ELSE (IF points[u][One(s)] = NULL THEN 0 ELSE points[u][One(s)]) + f[s \ {One(s)}]]
           total == CHOOSE f : Adds(f)
<1>1. Sum(u, M) = total[M]
  BY DEF Sum, MapThenSumSet, MapThenFoldSet
<1>2. ASSUME NEW f, IsTotal(f, w, M) PROVE Adds(f)
  <2>1. \A s \in SUBSET M : s # {} => One(s) \in Match
    OBVIOUS
  <2>2. \A s \in SUBSET M : s # {} => w[One(s)] = IF points[u][One(s)] = NULL THEN 0 ELSE points[u][One(s)]
    <3> HIDE DEF One
    <3> QED BY <2>1
  <2>3. f = [s \in SUBSET M |-> IF s = {} THEN 0 ELSE w[One(s)] + f[s \ {One(s)}]]
    BY <1>2 DEF IsTotal
  <2> HIDE DEF One, w
  <2> QED BY <2>2, <2>3
<1>3. ASSUME NEW f, Adds(f) PROVE IsTotal(f, w, M)
  <2>1. \A s \in SUBSET M : s # {} => One(s) \in Match
    OBVIOUS
  <2>2. \A s \in SUBSET M : s # {} => w[One(s)] = IF points[u][One(s)] = NULL THEN 0 ELSE points[u][One(s)]
    <3> HIDE DEF One
    <3> QED BY <2>1
  <2>3. f = [s \in SUBSET M |-> IF s = {} THEN 0 ELSE w[One(s)] + f[s \ {One(s)}]]
    <3> HIDE DEF One, w
    <3> QED BY <1>3, <2>2
  <2> QED BY <2>3 DEF IsTotal
<1>4. IsFiniteSet(M)
  BY SettlementAssumption, FS_Subset
<1>5. IsTotal(total, w, M)
  <2>1. \E f : Adds(f)
    <3> HIDE DEF Adds, w
    <3> QED BY <1>2, <1>4, TotalExists
  <2>2. Adds(total)
    <3> HIDE DEF Adds
    <3> QED BY <2>1
  <2> HIDE DEF Adds, total
  <2> QED BY <1>3, <2>2
<1>6. \A m \in M : w[m] \in Nat
  BY DEF Tables
<1> HIDE DEF total, w
<1>7. total[M] \in Nat
  BY <1>4, <1>5, <1>6, TotalIsNat
<1> QED BY <1>1, <1>7

LEMMA StandingType ==
  ASSUME Tables, NEW d
  PROVE  Standing(d) \subseteq Winner
<1>1. ASSUME NEW u \in User
      PROVE  /\ Sum(u, {m \in Graded(u) : Matchday[m] = d}) \in Nat
             /\ Cardinality({m \in Graded(u) : Matchday[m] = d /\ ExactPoints(points[u][m])}) \in Nat
  <2>1. {m \in Graded(u) : Matchday[m] = d} \subseteq Match
    BY DEF Graded
  <2>2. IsFiniteSet({m \in Graded(u) : Matchday[m] = d /\ ExactPoints(points[u][m])})
    BY GradedFinite, FS_Subset
  <2> QED BY <2>1, <2>2, SumType, FS_CardinalityType
<1>2. ASSUME NEW s \in Standing(d) PROVE s \in Winner
  <2>1. PICK u \in User :
          s = [user |-> u, points |-> Sum(u, {m \in Graded(u) : Matchday[m] = d}),
               exact |-> Cardinality({m \in Graded(u) : Matchday[m] = d /\ ExactPoints(points[u][m])})]
    BY DEF Standing
  <2> QED BY <1>1, <2>1 DEF Winner
<1> QED BY <1>2

-----------------------------------------------------------------------------
(***************************************************************************)
(* The jobs.                                                               *)
(***************************************************************************)
LEMMA ReportedTyped ==
  ASSUME Typed, Reported
  PROVE  Typed'
<1>1. PICK m \in Match : \E r \in Reports[m] \ {match[m]} : match' = [match EXCEPT ![m] = r]
  BY DEF Reported
<1>2. match' \in [Match -> Report]
  BY <1>1, SettlementAssumption DEF Typed, Tables
<1>3. spent' \in [digests : Nat, upsets : Nat]
  BY DEF Typed, Tables, Reported, Spend
<1> QED BY <1>2, <1>3 DEF Typed, Tables, Tasks, Reported, Apt, Covering

LEMMA PointsTyped ==
  ASSUME Tables, NEW w \in Task, Rescore(w)
  PROVE  Tables'
<1> DEFINE new(u, m) == IF Settled(m) THEN Worth(u, m) ELSE points[u][m]
<1>1. \A u \in User, m \in Match : new(u, m) \in Worths(u, m) \union {NULL} /\ new(u, m) \in Nat \union {NULL}
  BY WorthType, WorthsAreNat DEF Tables
<1>2. points' = [u \in User |-> [m \in Match |-> new(u, m)]]
  BY DEF Rescore
<1> HIDE DEF new
<1>3. points' \in [User -> [Match -> Nat \union {NULL}]]
  BY <1>1, <1>2
<1>4. \A u \in User, m \in Match : points'[u][m] \in Worths(u, m) \union {NULL}
  BY <1>1, <1>2
<1> QED BY <1>3, <1>4 DEF Tables, Rescore

LEMMA RescoreTyped ==
  ASSUME Typed, NEW w \in Task, Rescore(w)
  PROVE  Typed'
<1>1. Tasks'
  BY DoneComes DEF Typed, Rescore, At
<1> QED BY <1>1, PointsTyped DEF Typed

LEMMA FoldTyped ==
  ASSUME Typed, NEW w \in Task, Fold(w)
  PROVE  Typed'
<1>1. PICK order \in [User -> Orders] :
       task' = [task EXCEPT ![w].pc = Following[w][@],
                            ![w].folded = [u \in User |-> IF Graded(u) = {} THEN NULL
                                                           ELSE streak_of(HistoryIn(u, order[u]))]]
  BY DEF Fold
<1> DEFINE new(u) == IF Graded(u) = {} THEN NULL ELSE streak_of(HistoryIn(u, order[u]))
           folded == [u \in User |-> new(u)]
           r == [task[w] EXCEPT !.pc = "streaks", !.folded = folded]
<1>2. Tasks /\ task[w] \in TaskState /\ Apt(w, task[w]) /\ task[w].pc = "fold"
  BY TaskOf DEF Typed, Fold, At
<1>3. \A u \in User : new(u) = NULL \/ Covering(new(u))
  BY HistoryType, StreakCovers DEF Typed
<1>4. folded \in [User -> Streak \union {NULL}] /\ \A u \in User : folded[u] = NULL \/ Covering(folded[u])
  <2> HIDE DEF new
  <2> QED BY <1>3 DEF Covering
<1>5. Following[w][task[w].pc] = "streaks"
  BY <1>2 DEF Following, Task
<1>6. task' = [task EXCEPT ![w] = r]
  <2> HIDE DEF folded
  <2>1. task' = [task EXCEPT ![w] = [task[w] EXCEPT !.pc = Following[w][task[w].pc], !.folded = folded]]
    BY <1>1, <1>2 DEF Tasks, Task, folded
  <2> QED BY <1>5, <2>1
<1> HIDE DEF folded
<1>7. r \in TaskState /\ r.pc = "streaks" /\ r.folded = folded /\ r.day = task[w].day
  BY <1>2, <1>4 DEF TaskState
<1> HIDE DEF r
<1>8. Apt(w, r)
  BY <1>2, <1>4, <1>7 DEF Apt, LoopPc, DigestPc, Task
<1>9. Tasks'
  BY <1>2, <1>6, <1>8, ComesApt DEF Comes
<1> QED BY <1>9 DEF Typed, Tables, Fold

LEMMA WriteStreaksTyped ==
  ASSUME Typed, NEW w \in Task, WriteStreaks(w)
  PROVE  Typed'
<1>1. Tasks'
  BY DoneComes DEF Typed, WriteStreaks, At
<1>2. \A u \in User : task[w].folded[u] = NULL \/ Covering(task[w].folded[u])
  BY TaskOf DEF Typed, Apt
<1>3. streak' = [u \in User |-> IF task[w].folded[u] = NULL THEN streak[u] ELSE task[w].folded[u]]
  BY DEF WriteStreaks
<1>4. streak' \in [User -> Streak] /\ \A u \in User : streak'[u].current <= streak'[u].best
  BY <1>2, <1>3 DEF Typed, Tables, Covering
<1> QED BY <1>1, <1>4 DEF Typed, Tables, WriteStreaks

LEMMA GrantTyped ==
  ASSUME Typed, NEW rule \in {"first_exact", "perfect_day", "pts", "streak", "marathon", "potd"},
         NEW deserving, Grant("loop", rule, deserving), deserving \subseteq User \X Badge
  PROVE  Typed'
<1>1. Tasks'
  BY DoneComes DEF Typed, Grant, At, Task
<1> QED BY <1>1 DEF Typed, Tables, Grant

LEMMA EvaluateTyped ==
  ASSUME Typed, Evaluate
  PROVE  Typed'
<1>1. CASE FirstExact("loop")
  <2>1. {<<u, <<"first_exact", 0>>>> : u \in {v \in User : \E m \in Match : ExactPoints(points[v][m])}} \subseteq User \X Badge
    BY DEF Badge
  <2> QED BY <1>1, <2>1, GrantTyped DEF FirstExact
<1>2. CASE PerfectDay("loop")
  <2>1. PICK deserving : Grant("loop", "perfect_day", deserving) /\ deserving \subseteq User \X Badge
    BY <1>2 DEF PerfectDay, Badge
  <2> QED BY <2>1, GrantTyped
<1>3. CASE PointsReached("loop")
  <2>1. PICK deserving : Grant("loop", "pts", deserving) /\ deserving \subseteq User \X Badge
    BY <1>3 DEF PointsReached, Badge
  <2> QED BY <2>1, GrantTyped
<1>4. CASE StreakReached("loop")
  <2>1. PICK deserving : Grant("loop", "streak", deserving) /\ deserving \subseteq User \X Badge
    BY <1>4 DEF StreakReached, Badge
  <2> QED BY <2>1, GrantTyped
<1>5. CASE Marathon("loop")
  <2>1. PICK deserving : Grant("loop", "marathon", deserving) /\ deserving \subseteq User \X Badge
    BY <1>5 DEF Marathon, Badge
  <2> QED BY <2>1, GrantTyped
<1>6. CASE PlayerOfDays("loop")
  <2>1. PICK deserving : Grant("loop", "potd", deserving) /\ deserving \subseteq User \X Badge
    BY <1>6 DEF PlayerOfDays, Badge
  <2> QED BY <2>1, GrantTyped
<1> QED BY <1>1, <1>2, <1>3, <1>4, <1>5, <1>6 DEF Evaluate

LEMMA DigestStartsTyped ==
  ASSUME Typed, NEW d \in Day, DigestStarts(d)
  PROVE  Typed'
<1> DEFINE r == [Rest EXCEPT !.pc = "score", !.day = d]
<1>1. task' = [task EXCEPT !["digest"] = r]
  BY DEF DigestStarts
<1>2. Apt("digest", r)
  BY FreshApt DEF Task, DigestPc
<1> HIDE DEF r
<1>3. Tasks'
  BY <1>1, <1>2, ComesApt DEF Comes, Typed, Task
<1>4. spent' \in [digests : Nat, upsets : Nat]
  BY DEF Typed, Tables, DigestStarts, Spend
<1> QED BY <1>3, <1>4 DEF Typed, Tables, DigestStarts

LEMMA PickWinnerTyped ==
  ASSUME Typed, PickWinner
  PROVE  Typed'
<1> DEFINE scorers == {s \in Standing(task.digest.day) : s.points > 0}
<1>1. Tasks /\ task["digest"] \in TaskState /\ Apt("digest", task["digest"]) /\ task["digest"].pc = "winner"
  BY TaskOf DEF Typed, PickWinner, At, Task
<1>2. CASE Goto("digest", "rest")
  <2>1. Tasks'
    BY <1>1, <1>2, GotoComes DEF DigestPc, Task
  <2> QED BY <2>1 DEF Typed, Tables, PickWinner
<1>3. ASSUME NEW s \in scorers, task' = [task EXCEPT !.digest.pc = "upsert", !.digest.winner = s] PROVE Typed'
  <2> DEFINE r == [task["digest"] EXCEPT !.pc = "upsert", !.winner = s]
  <2>1. task' = [task EXCEPT !["digest"] = r]
    BY <1>1, <1>3 DEF Tasks
  <2>2. s \in Winner
    BY StandingType DEF Typed
  <2>3. r \in TaskState /\ r.pc = "upsert" /\ r.winner = s /\ r.day = task["digest"].day /\ r.folded = task["digest"].folded
    BY <1>1, <2>2 DEF TaskState
  <2> HIDE DEF r
  <2>4. Apt("digest", r)
    BY <1>1, <2>2, <2>3 DEF Apt, DigestPc
  <2>5. Tasks'
    BY <1>1, <2>1, <2>4, ComesApt DEF Comes, Task
  <2> QED BY <2>5 DEF Typed, Tables, PickWinner
<1> QED BY <1>2, <1>3 DEF PickWinner

LEMMA UpsertWinnerTyped ==
  ASSUME Typed, UpsertWinner
  PROVE  Typed'
<1>1. Tasks /\ Apt("digest", task["digest"]) /\ task["digest"].pc = "upsert"
  BY TaskOf DEF Typed, UpsertWinner, At, Task
<1>2. Tasks'
  BY <1>1, DoneComes DEF UpsertWinner, Task
<1>3. potd' \in [Day -> Winner \union {NULL}]
  BY <1>1 DEF Typed, Tables, UpsertWinner, Apt
<1> QED BY <1>2, <1>3 DEF Typed, Tables, UpsertWinner

LEMMA FailsTyped ==
  ASSUME Typed, NEW w \in Task, Fails(w)
  PROVE  Typed'
<1> DEFINE pc == IF w = "loop" THEN NextJob[task[w].pc] ELSE NextDigestJob[task[w].pc]
<1>1. Tasks /\ Apt(w, task[w]) /\ task[w].pc # "rest"
  BY TaskOf DEF Typed, Fails, At
<1>2. IF w = "loop" THEN pc \in LoopPc ELSE pc \in DigestPc \ {"upsert"} /\ task.digest.pc # "rest"
  <2>1. CASE w = "loop"
    <3>1. task[w].pc \in LoopPc
      BY <1>1, <2>1 DEF Apt
    <3>2. task[w].pc \in DOMAIN Following.loop
      BY <3>1 DEF Following, LoopPc
    <3> QED BY <2>1, <3>2 DEF NextJob, LoopPc
  <2>2. CASE w = "digest"
    BY <1>1, <2>2 DEF Apt, NextDigestJob, DigestPc
  <2> QED BY <2>1, <2>2 DEF Task
<1>3. Goto(w, pc)
  BY DEF Fails
<1> HIDE DEF pc
<1>4. Tasks'
  BY <1>1, <1>2, <1>3, GotoComes
<1>5. spent' \in [digests : Nat, upsets : Nat]
  BY DEF Typed, Tables, Fails, Spend
<1> QED BY <1>4, <1>5 DEF Typed, Tables, Fails

LEMMA StartApt ==
  ASSUME NEW w \in Task
  PROVE  Apt(w, IF w = "loop" THEN [Rest EXCEPT !.pc = "first_exact"] ELSE Rest)
<1> DEFINE none == [u \in User |-> NULL]
<1>1. none \in [User -> Streak \union {NULL}] /\ \A u \in User : none[u] = NULL
  OBVIOUS
<1>2. Rest = [pc |-> "rest", day |-> NULL, folded |-> none, winner |-> NULL]
  BY DEF Rest
<1> HIDE DEF none
<1>3. CASE w = "loop"
  <2> DEFINE r == [Rest EXCEPT !.pc = "first_exact"]
  <2>1. r \in TaskState /\ r.pc = "first_exact" /\ r.folded = none
    BY <1>1, <1>2 DEF TaskState
  <2> HIDE DEF r
  <2>2. Apt("loop", r)
    BY <1>1, <2>1 DEF Apt, LoopPc
  <2> QED BY <1>3, <2>2 DEF r
<1>4. CASE w = "digest"
  <2>1. Rest \in TaskState /\ Rest.pc = "rest" /\ Rest.folded = none
    BY <1>1, <1>2 DEF TaskState
  <2>2. Apt("digest", Rest)
    BY <1>1, <2>1 DEF Apt, DigestPc
  <2> QED BY <1>4, <2>2
<1> QED BY <1>3, <1>4 DEF Task

LEMMA StartTasks ==
  ASSUME NEW t, t = [loop |-> [Rest EXCEPT !.pc = "first_exact"], digest |-> Rest]
  PROVE  t \in [loop : TaskState, digest : TaskState] /\ \A w \in Task : Apt(w, t[w])
<1> DEFINE r == [Rest EXCEPT !.pc = "first_exact"]
<1>1. Apt("loop", r) /\ Apt("digest", Rest)
  BY StartApt DEF Task
<1> HIDE DEF r
<1>2. r \in TaskState /\ Rest \in TaskState
  BY <1>1 DEF Apt
<1>3. t = [loop |-> r, digest |-> Rest]
  BY DEF r
<1> QED BY <1>1, <1>2, <1>3 DEF Task

LEMMA RestartTyped ==
  ASSUME Typed, Restart
  PROVE  Typed'
<1>1. Tasks'
  <2>1. task' \in [loop : TaskState, digest : TaskState] /\ \A w \in Task : Apt(w, task'[w])
    BY StartTasks DEF Restart
  <2> QED BY <2>1 DEF Tasks, Apt, Covering
<1>2. spent' \in [digests : Nat, upsets : Nat]
  BY DEF Typed, Tables, Restart, Spend
<1> QED BY <1>1, <1>2 DEF Typed, Tables, Restart

LEMMA StepTyped ==
  ASSUME Typed, [Next]_vars
  PROVE  Typed'
<1>1. CASE Reported
  BY <1>1, ReportedTyped
<1>2. ASSUME NEW w \in Task, Jobs(w) PROVE Typed'
  BY <1>2, RescoreTyped, FoldTyped, WriteStreaksTyped DEF Jobs
<1>3. CASE Evaluate
  BY <1>3, EvaluateTyped
<1>4. CASE Digest
  BY <1>2, <1>4, DigestStartsTyped, PickWinnerTyped, UpsertWinnerTyped DEF Digest, Task
<1>5. CASE Fails("loop") \/ Fails("digest")
  BY <1>5, FailsTyped DEF Task
<1>6. CASE Restart
  BY <1>6, RestartTyped
<1>7. CASE UNCHANGED vars
  BY <1>7 DEF vars, Typed, Tables, Tasks, Apt, Covering
<1> QED BY <1>1, <1>2, <1>3, <1>4, <1>5, <1>6, <1>7 DEF Next, Loop, Task

LEMMA InitTyped == Init => Typed
<1> SUFFICES ASSUME Init PROVE Typed
  OBVIOUS
<1>1. match \in [Match -> Report]
  <2>1. \A m \in Match : match[m] \in Report
    BY SettlementAssumption DEF Init
  <2> QED BY <2>1 DEF Init
<1>2. points \in [User -> [Match -> Nat \union {NULL}]] /\ \A u \in User, m \in Match : points[u][m] \in Worths(u, m) \union {NULL}
  <2>1. points = [u \in User |-> [m \in Match |-> IF Settled(m) THEN Worth(u, m) ELSE NULL]]
    BY DEF Init
  <2> QED BY <2>1, WorthType, WorthsAreNat
<1>3. streak \in [User -> Streak] /\ \A u \in User : streak[u].current <= streak[u].best
  BY DEF Init, NoStreak, Streak
<1>4. Tasks
  BY StartTasks DEF Init, Tasks
<1>5. potd \in [Day -> Winner \union {NULL}]
  BY SettlementAssumption DEF Init
<1> QED BY <1>1, <1>2, <1>3, <1>4, <1>5 DEF Typed, Tables, Init

(***************************************************************************)
(* The points, the streaks, the players of the day and the badges are what *)
(* they should be, whatever the two tasks have read and overwrite: a best  *)
(* streak covers the current one (src/streaks.rs), a badge is one of the   *)
(* catalogue (src/achievements.rs), a winner is stored with a day          *)
(* (src/highlights.rs).                                                    *)
(***************************************************************************)
THEOREM TypeCorrect == Spec => []TypeOK
<1>1. Typed /\ [Next]_vars => Typed'
  BY StepTyped
<1> QED BY <1>1, InitTyped, TypedIsTypeOK, PTL DEF Spec

-----------------------------------------------------------------------------
(***************************************************************************)
(* The badges.  What the SQL of each rule finds is what the rule promises: *)
(* points of three and more are those of an exact score, with a joker or   *)
(* without; the days a player has won that stand as far apart among his    *)
(* own as among all days are won in a row.                                 *)
(***************************************************************************)
AllDeserved(S) == \A given \in S : Deserves(given[1], given[2])

LEMMA DeservesRule ==
  ASSUME NEW u, NEW t
  PROVE  /\ Deserves(u, <<"first_exact", t>>) = \E m \in Match : IsExact(u, m)
         /\ Deserves(u, <<"pts", t>>) = (Sum(u, Match) >= t)
         /\ Deserves(u, <<"streak", t>>) = (streak[u].best >= t)
         /\ Deserves(u, <<"potd", t>>) = \E D \in SUBSET Won(u) : Cardinality(D) = t /\ InARow(D)
BY DEF Deserves

LEMMA ExactIsExact ==
  ASSUME Tables, NEW u \in User, NEW m \in Match, ExactPoints(points[u][m])
  PROVE  IsExact(u, m)
<1>1. points[u][m] \in Worths(u, m) /\ points[u][m] >= 3
  BY DEF Tables, ExactPoints
<1> QED BY <1>1 DEF Worths, Multiplier, IsExact, POINTS_EXACT

LEMMA FirstExactDeserved ==
  ASSUME Typed, FirstExact("loop")
  PROVE  AllDeserved(earned' \ earned)
<1> DEFINE S == {<<u, <<"first_exact", 0>>>> : u \in {v \in User : \E m \in Match : ExactPoints(points[v][m])}}
<1>1. earned' = earned \union S
  BY DEF FirstExact, Grant
<1>2. ASSUME NEW u \in User, \E m \in Match : ExactPoints(points[u][m]) PROVE Deserves(u, <<"first_exact", 0>>)
  BY <1>2, ExactIsExact, DeservesRule DEF Typed
<1> QED BY <1>1, <1>2 DEF AllDeserved

LEMMA PerfectDayDeserved ==
  ASSUME Typed, PerfectDay("loop")
  PROVE  AllDeserved(earned' \ earned)
<1> DEFINE Counted(u, date) == {m \in Match : /\ UtcDate[m] = date
                                              /\ match[m].status = "FINISHED"
                                              /\ points[u][m] # NULL}
           Perfect(u) == \E date \in {UtcDate[m] : m \in Match} :
                           /\ Cardinality(Counted(u, date)) >= 2
                           /\ \A m \in Counted(u, date) : ExactPoints(points[u][m])
           S == {<<u, <<"perfect_day", 0>>>> : u \in {v \in User : Perfect(v)}}
<1>1. earned' = earned \union S
  BY DEF PerfectDay, Grant
<1>2. ASSUME NEW u \in User, Perfect(u) PROVE Deserves(u, <<"perfect_day", 0>>)
  <2>1. PICK date : /\ Cardinality(Counted(u, date)) >= 2
                    /\ \A m \in Counted(u, date) : ExactPoints(points[u][m])
    BY <1>2
  <2>2. IsFiniteSet(Counted(u, date)) /\ Counted(u, date) \subseteq Match
    BY SettlementAssumption, FS_Subset
  <2>3. PICK m \in Counted(u, date), n \in Counted(u, date) : m # n
    <3> HIDE DEF Counted
    <3> QED BY <2>1, <2>2, TwoOf
  <2>4. \A o \in Counted(u, date) : IsExact(u, o)
    BY <2>1, <2>2, ExactIsExact DEF Typed
  <2>5. /\ m # n /\ UtcDate[m] = UtcDate[n]
        /\ {m, n} \subseteq {o \in Match : match[o].status = "FINISHED" /\ points[u][o] # NULL}
        /\ \A o \in Match :
             UtcDate[o] = UtcDate[m] /\ match[o].status = "FINISHED" /\ points[u][o] # NULL
             => IsExact(u, o)
    BY <2>3, <2>4
  <2>6. m \in Match /\ n \in Match
    BY <2>2, <2>3
  <2> QED BY <2>5, <2>6 DEF Deserves
<1> HIDE DEF Perfect
<1> QED BY <1>1, <1>2 DEF AllDeserved

LEMMA PointsDeserved ==
  ASSUME Typed, PointsReached("loop")
  PROVE  AllDeserved(earned' \ earned)
<1> DEFINE S == {<<ut[1], <<"pts", ut[2]>>>> : ut \in {x \in User \X PointTiers : Sum(x[1], Match) >= x[2]}}
<1>1. earned' = earned \union S
  BY DEF PointsReached, Grant
<1>2. \A u, t : Sum(u, Match) >= t => Deserves(u, <<"pts", t>>)
  BY DeservesRule
<1> QED BY <1>1, <1>2 DEF AllDeserved

LEMMA StreakDeserved ==
  ASSUME Typed, StreakReached("loop")
  PROVE  AllDeserved(earned' \ earned)
<1> DEFINE S == {<<ut[1], <<"streak", ut[2]>>>> : ut \in {x \in User \X StreakTiers : streak[x[1]].best >= x[2]}}
<1>1. earned' = earned \union S
  BY DEF StreakReached, Grant
<1>2. \A u, t : streak[u].best >= t => Deserves(u, <<"streak", t>>)
  BY DeservesRule
<1> QED BY <1>1, <1>2 DEF AllDeserved

LEMMA MarathonDeserved ==
  ASSUME Typed, Marathon("loop")
  PROVE  AllDeserved(earned' \ earned)
<1> DEFINE Phase(s) == {m \in Match : Stage[m] = s}
           Ran(u) == \E s \in {Stage[m] : m \in Match} \ {NULL} :
                       /\ Cardinality(Phase(s)) >= MARATHON_MIN_MATCHES
                       /\ Cardinality({m \in Phase(s) : Entered[u][m] # NULL}) = Cardinality(Phase(s))
           S == {<<u, <<"marathon", 0>>>> : u \in {v \in User : Ran(v)}}
<1>1. earned' = earned \union S
  BY DEF Marathon, Grant
<1>2. ASSUME NEW u \in User, Ran(u) PROVE Deserves(u, <<"marathon", 0>>)
  <2>1. PICK s : /\ s # NULL
                 /\ Cardinality(Phase(s)) >= 2
                 /\ Cardinality({m \in Phase(s) : Entered[u][m] # NULL}) = Cardinality(Phase(s))
    BY <1>2 DEF MARATHON_MIN_MATCHES
  <2>2. IsFiniteSet(Phase(s)) /\ Phase(s) \subseteq Match
    BY SettlementAssumption, FS_Subset
  <2>3. PICK m \in Phase(s), n \in Phase(s) : m # n
    <3> HIDE DEF Phase
    <3> QED BY <2>1, <2>2, TwoOf
  <2>4. {o \in Phase(s) : Entered[u][o] # NULL} = Phase(s)
    <3> HIDE DEF Phase
    <3> QED BY <2>1, <2>2, FS_Subset
  <2>5. /\ m # n /\ Stage[m] = Stage[n] /\ Stage[m] # NULL
        /\ \A o \in Match : Stage[o] = Stage[m] => Entered[u][o] # NULL
    BY <2>1, <2>3, <2>4
  <2>6. m \in Match /\ n \in Match
    BY <2>2, <2>3
  <2> QED BY <2>5, <2>6 DEF Deserves
<1> HIDE DEF Ran
<1> QED BY <1>1, <1>2 DEF AllDeserved

(***************************************************************************)
(* Days in a row, as the difference of two row numbers.                    *)
(***************************************************************************)
LEMMA DaysFinite == IsFiniteSet(Day) /\ Day \subseteq Nat
<1> DEFINE T == {Matchday[m] : m \in Match}
           f == [m \in Match |-> Matchday[m]]
<1>1. f \in Surjection(Match, T)
  BY DEF Surjection
<1>2. IsFiniteSet(T)
  <2> HIDE DEF T, f
  <2> QED BY <1>1, SettlementAssumption, FS_Surjection
<1>3. IsFiniteSet(Day)
  <2>1. Day \subseteq T
    BY DEF Day
  <2> HIDE DEF T
  <2> QED BY <1>2, <2>1, FS_Subset
<1> QED BY <1>3, SettlementAssumption DEF Day

LEMMA UpToBetween ==
  ASSUME NEW D, D \subseteq Day, NEW a \in Day, NEW b \in Day, a <= b
  PROVE  /\ UpTo(D, a) \in Nat
         /\ UpTo(D, b) = UpTo(D, a) + Cardinality({e \in D : a < e /\ e <= b})
<1> DEFINE L == {e \in D : e <= a}
           M == {e \in D : a < e /\ e <= b}
<1>1. IsFiniteSet(L) /\ IsFiniteSet(M)
  BY DaysFinite, FS_Subset
<1>2. D \subseteq Nat /\ a \in Nat /\ b \in Nat
  BY DaysFinite
<1>3. L \intersect M = {} /\ {e \in D : e <= b} = L \union M
  <2>1. \A e \in D : e \in Nat
    BY <1>2
  <2>2. \A e \in D : e <= b <=> e \in L \union M
    BY <1>2, <2>1
  <2>3. L \union M \subseteq D
    OBVIOUS
  <2>4. {e \in D : e <= b} = L \union M
    <3> HIDE DEF L, M
    <3> QED BY <2>2, <2>3
  <2>5. L \intersect M = {}
    <3>1. SUFFICES ASSUME NEW e \in D, e <= a, a < e PROVE FALSE
      OBVIOUS
    <3> QED BY <1>2, <2>1, <3>1
  <2> QED BY <2>4, <2>5
<1> HIDE DEF L, M
<1>4. Cardinality(L \union M) = Cardinality(L) + Cardinality(M) - 0 /\ Cardinality(L) \in Nat /\ Cardinality(M) \in Nat
  BY <1>1, <1>3, FS_Union, FS_EmptySet, FS_CardinalityType
<1>5. UpTo(D, a) = Cardinality(L) /\ UpTo(D, b) = Cardinality(L \union M)
  BY <1>3 DEF UpTo, L
<1> QED BY <1>4, <1>5 DEF M

LEMMA SameIslandInARow ==
  ASSUME NEW u, NEW a \in Won(u), NEW b \in Won(u), a < b, Island(u, a) = Island(u, b),
         NEW f \in Recorded, a < f, f < b
  PROVE  f \in Won(u) /\ Island(u, f) = Island(u, a)
<1> DEFINE Among(D, x) == {e \in D : a < e /\ e <= x}
<1>1. /\ Recorded \subseteq Day /\ Won(u) \subseteq Recorded
      /\ a \in Day /\ b \in Day /\ f \in Day
      /\ a <= b /\ a <= f /\ a \in Nat /\ b \in Nat /\ f \in Nat
  BY DaysFinite DEF Recorded, Won
<1>2. /\ UpTo(Recorded, b) = UpTo(Recorded, a) + Cardinality(Among(Recorded, b))
      /\ UpTo(Won(u), b) = UpTo(Won(u), a) + Cardinality(Among(Won(u), b))
      /\ UpTo(Recorded, f) = UpTo(Recorded, a) + Cardinality(Among(Recorded, f))
      /\ UpTo(Won(u), f) = UpTo(Won(u), a) + Cardinality(Among(Won(u), f))
      /\ UpTo(Recorded, a) \in Nat /\ UpTo(Won(u), a) \in Nat
  <2>1. ASSUME NEW D, D \subseteq Day, NEW x \in Day, a <= x
        PROVE  UpTo(D, a) \in Nat /\ UpTo(D, x) = UpTo(D, a) + Cardinality(Among(D, x))
    <3>1. a \in Day
      BY <1>1
    <3>2. UpTo(D, a) \in Nat /\ UpTo(D, x) = UpTo(D, a) + Cardinality({e \in D : a < e /\ e <= x})
      BY <2>1, <3>1, UpToBetween
    <3> QED BY <3>2
  <2>2. Won(u) \subseteq Day
    BY <1>1
  <2> HIDE DEF Among
  <2> QED BY <1>1, <2>1, <2>2
<1>3. IsFiniteSet(Among(Recorded, b)) /\ Among(Won(u), b) \subseteq Among(Recorded, b)
  BY <1>1, DaysFinite, FS_Subset
<1>4. IsFiniteSet(Among(Won(u), b))
  <2> HIDE DEF Among
  <2> QED BY <1>3, FS_Subset
<1>5. Cardinality(Among(Recorded, b)) \in Nat /\ Cardinality(Among(Won(u), b)) \in Nat
  <2> HIDE DEF Among
  <2> QED BY <1>3, <1>4, FS_CardinalityType
<1>6. Cardinality(Among(Recorded, b)) = Cardinality(Among(Won(u), b))
  <2> HIDE DEF Among
  <2> QED BY <1>2, <1>5 DEF Island
<1>7. Among(Recorded, b) = Among(Won(u), b)
  <2> HIDE DEF Among
  <2> QED BY <1>3, <1>6, FS_Subset
<1>8. f \in Among(Recorded, b)
  BY <1>1
<1>9. f \in Won(u)
  BY <1>7, <1>8
<1>10. Among(Recorded, f) = Among(Won(u), f)
  <2>1. \A e \in Recorded : e \in Nat
    BY <1>1, DaysFinite
  <2>2. ASSUME NEW e \in Among(Recorded, f) PROVE e \in Among(Won(u), f)
    <3>1. e \in Among(Recorded, b)
      BY <1>1, <2>1
    <3>2. e \in Won(u)
      BY <1>7, <3>1
    <3> QED BY <3>2
  <2>3. Among(Won(u), f) \subseteq Among(Recorded, f)
    BY <1>1
  <2> QED BY <2>2, <2>3
<1>11. IsFiniteSet(Among(Won(u), f))
  BY <1>1, DaysFinite, FS_Subset
<1>12. Cardinality(Among(Won(u), f)) \in Nat
  <2> HIDE DEF Among
  <2> QED BY <1>11, FS_CardinalityType
<1> HIDE DEF Among
<1>13. Island(u, f) = Island(u, a)
  BY <1>2, <1>10, <1>12 DEF Island
<1> QED BY <1>9, <1>13

LEMMA PlayerOfDaysDeserved ==
  ASSUME Typed, PlayerOfDays("loop")
  PROVE  AllDeserved(earned' \ earned)
<1> DEFINE Isle(u, d) == {e \in Won(u) : Island(u, e) = Island(u, d)}
           LongestRun(u) == {Cardinality(Isle(u, d)) : d \in Won(u)}
           S == {<<ut[1], <<"potd", ut[2]>>>> :
                   ut \in {x \in User \X PotdTiers : \E n \in LongestRun(x[1]) : n >= x[2]}}
<1>1. earned' = earned \union S
  BY DEF PlayerOfDays, Grant
<1>2. ASSUME NEW u \in User, NEW t \in PotdTiers, NEW d \in Won(u), Cardinality(Isle(u, d)) >= t
      PROVE  \E D \in SUBSET Won(u) : Cardinality(D) = t /\ InARow(D)
  <2>1. IsFiniteSet(Isle(u, d)) /\ Isle(u, d) \subseteq Nat /\ Isle(u, d) \subseteq Won(u)
    <3>1. Isle(u, d) \subseteq Day /\ Isle(u, d) \subseteq Won(u)
      BY DEF Won, Recorded
    <3> HIDE DEF Isle
    <3> QED BY <3>1, DaysFinite, FS_Subset
  <2>2. Cardinality(Isle(u, d)) \in Nat /\ t \in Nat \ {0}
    <3> HIDE DEF Isle
    <3> QED BY <2>1, FS_CardinalityType, SettlementAssumption
  <2>3. PICK x \in Isle(u, d) : Cardinality({y \in Isle(u, d) : y <= x}) = t
    <3> HIDE DEF Isle
    <3>1. t \in 1..Cardinality(Isle(u, d))
      BY <1>2, <2>2
    <3> QED BY <2>1, <3>1, NthOne
  <2> DEFINE D == {y \in Isle(u, d) : y <= x}
  <2>4. ASSUME NEW a \in D, NEW b \in D, NEW f \in Recorded, a < f, f < b PROVE f \in D
    <3>1. /\ a \in Won(u) /\ b \in Won(u) /\ Island(u, a) = Island(u, d) /\ Island(u, b) = Island(u, d)
          /\ a \in Nat /\ b \in Nat /\ x \in Nat /\ f \in Nat /\ b <= x
      BY <2>1, DaysFinite DEF Recorded
    <3>2. a < b
      BY <2>4, <3>1
    <3>3. f \in Won(u) /\ Island(u, f) = Island(u, a)
      BY <2>4, <3>1, <3>2, SameIslandInARow
    <3>4. f <= x
      BY <2>4, <3>1
    <3> QED BY <3>1, <3>3, <3>4
  <2>5. D \in SUBSET Won(u) /\ Cardinality(D) = t
    BY <2>1, <2>3
  <2> HIDE DEF D
  <2>6. InARow(D)
    BY <2>4 DEF InARow
  <2> QED BY <2>5, <2>6
<1>3. ASSUME NEW x \in User \X PotdTiers, \E n \in LongestRun(x[1]) : n >= x[2]
      PROVE  Deserves(x[1], <<"potd", x[2]>>)
  <2>1. x[1] \in User /\ x[2] \in PotdTiers
    OBVIOUS
  <2>2. PICK d \in Won(x[1]) : Cardinality(Isle(x[1], d)) >= x[2]
    BY <1>3
  <2>3. \E D \in SUBSET Won(x[1]) : Cardinality(D) = x[2] /\ InARow(D)
    <3> HIDE DEF Isle
    <3> QED BY <1>2, <2>1, <2>2
  <2> QED BY <2>3, DeservesRule
<1> HIDE DEF LongestRun
<1> QED BY <1>1, <1>3 DEF AllDeserved

(***************************************************************************)
(* A badge is given when it is deserved, by the tables as they stand then, *)
(* whoever writes them in between (evaluate_all of src/achievements.rs).   *)
(***************************************************************************)
THEOREM BadgesAreDeserved == Spec => GivenAreDeserved
<1>1. Typed /\ [Next]_vars => [AllDeserved(earned' \ earned)]_vars
  <2>1. SUFFICES ASSUME Typed, Next PROVE AllDeserved(earned' \ earned)
    OBVIOUS
  <2>2. CASE Evaluate
    BY <2>1, <2>2, FirstExactDeserved, PerfectDayDeserved, PointsDeserved, StreakDeserved,
       MarathonDeserved, PlayerOfDaysDeserved DEF Evaluate
  <2>3. CASE earned' = earned
    BY <2>3 DEF AllDeserved
  <2>4. Evaluate \/ earned' = earned
    BY <2>1 DEF Next, Reported, Loop, Jobs, Rescore, Fold, WriteStreaks, Digest, DigestStarts,
                PickWinner, UpsertWinner, Fails, Restart
  <2> QED BY <2>2, <2>3, <2>4
<1>2. Typed /\ [Next]_vars => Typed'
  BY StepTyped
<1>3. Spec => []Typed
  BY <1>2, InitTyped, PTL DEF Spec
<1>4. Spec => [][AllDeserved(earned' \ earned)]_vars
  BY <1>1, <1>3, PTL DEF Spec
<1> QED BY <1>4, PTL DEF GivenAreDeserved, AllDeserved

-----------------------------------------------------------------------------
(***************************************************************************)
(* A history has each graded match once, in the order of the kickoffs.     *)
(***************************************************************************)
Rows(u) ==
  {rows \in [1..Cardinality(Graded(u)) -> Graded(u)] :
     \A i, j \in DOMAIN rows : i < j => rows[i] # rows[j] /\ Kickoff[rows[i]] <= Kickoff[rows[j]]}

LEMMA HistoryInOrder ==
  ASSUME NEW u \in User, NEW o \in Orders
  PROVE  \E rows \in Rows(u) : HistoryIn(u, o) = [n \in DOMAIN rows |-> points[u][rows[n]]]
<1> DEFINE N == Cardinality(Match)
           graded == {i \in DOMAIN o : o[i] \in Graded(u)}
           First(i) == {j \in graded : j <= i}
           Nth(n) == CHOOSE i \in graded : Cardinality(First(i)) = n
           G == Cardinality(graded)
           rows == [n \in 1..G |-> o[Nth(n)]]
<1>1. /\ o \in [1..N -> Match]
      /\ \A i, j \in 1..N : i # j => o[i] # o[j]
      /\ \A i, j \in 1..N : i < j => Kickoff[o[i]] <= Kickoff[o[j]]
  <2>1. /\ o \in [1..N -> Match]
        /\ \A i, j \in DOMAIN o : i # j => o[i] # o[j]
        /\ \A i, j \in DOMAIN o : i < j => Kickoff[o[i]] <= Kickoff[o[j]]
    BY SettlementAssumption
  <2> QED BY <2>1
<1>2. N \in Nat /\ IsFiniteSet(Match) /\ IsFiniteSet(1..N) /\ Cardinality(1..N) = N
  BY SettlementAssumption, FS_CardinalityType, FS_Interval
<1>3. o \in Surjection(1..N, Match)
  <2>1. o \in Injection(1..N, Match)
    BY <1>1 DEF Injection, IsInjective
  <2> HIDE DEF N
  <2> QED BY <1>2, <2>1, FS_Injection DEF N
<1>4. graded \subseteq 1..N /\ graded \subseteq Nat /\ IsFiniteSet(graded) /\ G \in Nat
  <2>1. graded \subseteq 1..N /\ 1..N \subseteq Nat
    BY <1>1, <1>2
  <2>2. IsFiniteSet(graded)
    <3> HIDE DEF graded, N
    <3> QED BY <1>2, <2>1, FS_Subset
  <2>3. G \in Nat
    <3> HIDE DEF graded
    <3> QED BY <2>2, FS_CardinalityType
  <2> HIDE DEF graded, G
  <2> QED BY <2>1, <2>2, <2>3
<1>5. Cardinality(Graded(u)) = G
  <2> DEFINE f == [i \in graded |-> o[i]]
  <2>1. f \in Surjection(graded, Graded(u))
    <3>1. f \in [graded -> Graded(u)]
      OBVIOUS
    <3>2. ASSUME NEW m \in Graded(u) PROVE \E i \in graded : f[i] = m
      <4>1. m \in Match
        BY DEF Graded
      <4>2. PICK i \in 1..N : o[i] = m
        BY <1>3, <4>1 DEF Surjection
      <4> QED BY <1>1, <4>2
    <3> QED BY <3>1, <3>2 DEF Surjection
  <2>2. f \in Injection(graded, Graded(u))
    <3>1. \A i, j \in graded : f[i] = f[j] => i = j
      BY <1>1, <1>4
    <3>2. f \in [graded -> Graded(u)]
      OBVIOUS
    <3> QED BY <3>1, <3>2 DEF Injection, IsInjective
  <2> HIDE DEF f, graded
  <2> QED BY <1>4, <2>1, <2>2, FS_Surjection
<1>6. ASSUME NEW n \in 1..G PROVE Nth(n) \in graded /\ Cardinality(First(Nth(n))) = n
  <2>1. \E i \in graded : Cardinality(First(i)) = n
    <3> HIDE DEF graded
    <3> QED BY <1>4, NthOne
  <2> HIDE DEF graded, First
  <2> QED BY <2>1
<1>7. ASSUME NEW i \in 1..G, NEW j \in 1..G, i < j PROVE Nth(i) < Nth(j)
  <2>1. Nth(i) \in graded /\ Nth(j) \in graded /\ Nth(i) \in Nat /\ Nth(j) \in Nat
    <3> HIDE DEF graded, Nth, G
    <3> QED BY <1>4, <1>6
  <2>2. SUFFICES ASSUME Nth(j) <= Nth(i) PROVE FALSE
    <3> HIDE DEF Nth
    <3> QED BY <2>1
  <2>3. First(Nth(j)) \subseteq First(Nth(i))
    <3> DEFINE a == Nth(i)
               b == Nth(j)
    <3>1. a \in Nat /\ b \in Nat /\ b <= a
      BY <2>1, <2>2
    <3> HIDE DEF a, b
    <3>2. ASSUME NEW k \in graded, k <= b PROVE k <= a
      <4>1. k \in Nat
        BY <1>4
      <4> HIDE DEF graded
      <4> QED BY <3>1, <3>2, <4>1
    <3>3. First(b) \subseteq First(a)
      <4> HIDE DEF graded
      <4> QED BY <3>2
    <3> HIDE DEF First
    <3> QED BY <3>3 DEF a, b
  <2>4. IsFiniteSet(First(Nth(i)))
    <3>1. First(Nth(i)) \subseteq graded
      OBVIOUS
    <3> HIDE DEF First, graded, Nth
    <3> QED BY <1>4, <3>1, FS_Subset
  <2>5. Cardinality(First(Nth(j))) <= Cardinality(First(Nth(i)))
    <3> HIDE DEF First, Nth
    <3> QED BY <2>3, <2>4, FS_Subset
  <2>6. j <= i
    <3> HIDE DEF First, Nth, G
    <3> QED BY <1>6, <2>5
  <2> QED BY <1>4, <1>7, <2>6
<1>8. rows \in [1..G -> Graded(u)]
  <2>1. \A n \in 1..G : o[Nth(n)] \in Graded(u)
    <3> HIDE DEF Nth, First, G
    <3> QED BY <1>6
  <2> HIDE DEF Nth, G
  <2> QED BY <2>1
<1>9. ASSUME NEW i \in 1..G, NEW j \in 1..G, i < j
      PROVE  rows[i] # rows[j] /\ Kickoff[rows[i]] <= Kickoff[rows[j]]
  <2>1. Nth(i) \in 1..N /\ Nth(j) \in 1..N /\ Nth(i) < Nth(j) /\ Nth(i) # Nth(j)
    <3> HIDE DEF Nth, graded, N, G, First
    <3>1. Nth(i) \in 1..N /\ Nth(j) \in 1..N
      BY <1>4, <1>6
    <3>2. Nth(i) \in Nat /\ Nth(j) \in Nat
      BY <1>4, <1>6
    <3> QED BY <1>7, <1>9, <3>1, <3>2
  <2> HIDE DEF Nth, N, G
  <2> QED BY <1>1, <2>1
<1>10. HistoryIn(u, o) = [n \in 1..G |-> points[u][rows[n]]]
  <2>1. HistoryIn(u, o) = [n \in 1..G |-> points[u][o[Nth(n)]]]
    BY DEF HistoryIn
  <2> HIDE DEF Nth, G
  <2> QED BY <2>1
<1> HIDE DEF rows, G
<1>11. DOMAIN rows = 1..G
  BY <1>8
<1>12. rows \in Rows(u)
  BY <1>5, <1>8, <1>9, <1>11 DEF Rows
<1> QED BY <1>10, <1>11, <1>12

(***************************************************************************)
(* What a fold hands over to be written (recompute_all of src/streaks.rs)  *)
(* is, for every player with graded bets, the run he is on and his longest *)
(* one in the points he has now, in the order of the kickoffs; for no one  *)
(* else anything.                                                          *)
(***************************************************************************)
RowsFolded(w) ==
  \A u \in User :
    IF Graded(u) = {} THEN task'[w].folded[u] = NULL
    ELSE \E rows \in Rows(u) : task'[w].folded[u] = Runs([n \in DOMAIN rows |-> points[u][rows[n]]])

FoldsAreRuns == [][\A w \in Task : Fold(w) => RowsFolded(w)]_vars

LEMMA FoldGivesRuns ==
  ASSUME Typed, NEW w \in Task, Fold(w)
  PROVE  RowsFolded(w)
<1>1. PICK order \in [User -> Orders] :
       task' = [task EXCEPT ![w].pc = Following[w][@],
                            ![w].folded = [u \in User |-> IF Graded(u) = {} THEN NULL
                                                           ELSE streak_of(HistoryIn(u, order[u]))]]
  BY DEF Fold
<1> DEFINE new(u) == IF Graded(u) = {} THEN NULL ELSE streak_of(HistoryIn(u, order[u]))
           folded == [u \in User |-> new(u)]
<1>2. task[w] \in TaskState /\ task \in [loop : TaskState, digest : TaskState]
  BY TaskOf DEF Typed, Tasks
<1>3. task'[w].folded = folded
  <2> HIDE DEF folded
  <2>1. task' = [task EXCEPT ![w] = [task[w] EXCEPT !.pc = Following[w][task[w].pc], !.folded = folded]]
    BY <1>1, <1>2 DEF Task, folded
  <2>2. task'[w] = [task[w] EXCEPT !.pc = Following[w][task[w].pc], !.folded = folded]
    BY <1>2, <2>1 DEF Task
  <2> QED BY <1>2, <2>2 DEF TaskState
<1>4. ASSUME NEW u \in User, Graded(u) # {}
      PROVE  \E rows \in Rows(u) : new(u) = Runs([n \in DOMAIN rows |-> points[u][rows[n]]])
  <2>1. HistoryIn(u, order[u]) \in Seq(Nat)
    BY HistoryType DEF Typed
  <2>2. new(u) = Runs(HistoryIn(u, order[u]))
    BY <1>4, <2>1, FoldComputesRuns
  <2>3. \E rows \in Rows(u) : HistoryIn(u, order[u]) = [n \in DOMAIN rows |-> points[u][rows[n]]]
    BY HistoryInOrder
  <2> HIDE DEF new
  <2> QED BY <2>2, <2>3
<1>5. \A u \in User : Graded(u) = {} => new(u) = NULL
  OBVIOUS
<1>6. \A u \in User : task'[w].folded[u] = new(u)
  BY <1>3
<1> HIDE DEF new, folded
<1> QED BY <1>4, <1>5, <1>6 DEF RowsFolded

(***************************************************************************)
(* What a task has computed from the bets it read when it replays a        *)
(* history (recompute_all of src/streaks.rs) is the current run and the    *)
(* longest one by their definition, whatever the other task does.          *)
(***************************************************************************)
THEOREM StreaksAreRuns == Spec => FoldsAreRuns
<1>1. Typed /\ [Next]_vars => [\A w \in Task : Fold(w) => RowsFolded(w)]_vars
  BY FoldGivesRuns
<1>2. Typed /\ [Next]_vars => Typed'
  BY StepTyped
<1> QED BY <1>1, <1>2, InitTyped, PTL DEF Spec, FoldsAreRuns

-----------------------------------------------------------------------------
(***************************************************************************)
(* The other direction, rule by rule: who deserves a badge is among those  *)
(* that the SQL of its rule finds.                                         *)
(***************************************************************************)
LEMMA IsExactPoints ==
  ASSUME Tables, NEW u \in User, NEW m \in Match, IsExact(u, m)
  PROVE  ExactPoints(points[u][m])
<1>1. points[u][m] = 3 \/ points[u][m] = 6
  BY DEF IsExact, POINTS_EXACT, Multiplier
<1> QED BY <1>1, NullApart DEF ExactPoints

LEMMA BadgeOfRule ==
  ASSUME NEW badge \in Badge
  PROVE  /\ badge[1] = "first_exact" => badge = <<"first_exact", 0>>
         /\ badge[1] = "perfect_day" => badge = <<"perfect_day", 0>>
         /\ badge[1] = "marathon" => badge = <<"marathon", 0>>
         /\ badge[1] = "pts" => badge[2] \in PointTiers /\ badge = <<"pts", badge[2]>>
         /\ badge[1] = "streak" => badge[2] \in StreakTiers /\ badge = <<"streak", badge[2]>>
         /\ badge[1] = "potd" => badge[2] \in PotdTiers /\ badge = <<"potd", badge[2]>>
BY DEF Badge

LEMMA FirstExactGives ==
  ASSUME Typed, FirstExact("loop")
  PROVE  Gives("first_exact")
<1> DEFINE S == {<<u, <<"first_exact", 0>>>> : u \in {v \in User : \E m \in Match : ExactPoints(points[v][m])}}
<1>1. earned' = earned \union S
  BY DEF FirstExact, Grant
<1>2. ASSUME NEW u \in User, Deserves(u, <<"first_exact", 0>>) PROVE <<u, <<"first_exact", 0>>>> \in S
  BY <1>2, IsExactPoints, DeservesRule DEF Typed
<1> HIDE DEF S
<1> QED BY <1>1, <1>2, BadgeOfRule DEF Gives

LEMMA PerfectDayGives ==
  ASSUME Typed, PerfectDay("loop")
  PROVE  Gives("perfect_day")
<1> DEFINE Counted(u, date) == {m \in Match : /\ UtcDate[m] = date
                                              /\ match[m].status = "FINISHED"
                                              /\ points[u][m] # NULL}
           Perfect(u) == \E date \in {UtcDate[m] : m \in Match} :
                           /\ Cardinality(Counted(u, date)) >= 2
                           /\ \A m \in Counted(u, date) : ExactPoints(points[u][m])
           S == {<<u, <<"perfect_day", 0>>>> : u \in {v \in User : Perfect(v)}}
<1>1. earned' = earned \union S
  BY DEF PerfectDay, Grant
<1>2. ASSUME NEW u \in User, Deserves(u, <<"perfect_day", 0>>) PROVE <<u, <<"perfect_day", 0>>>> \in S
  <2>1. PICK m \in Match, n \in Match :
           /\ m # n /\ UtcDate[m] = UtcDate[n]
           /\ {m, n} \subseteq {o \in Match : match[o].status = "FINISHED" /\ points[u][o] # NULL}
           /\ \A o \in Match :
                UtcDate[o] = UtcDate[m] /\ match[o].status = "FINISHED" /\ points[u][o] # NULL
                => IsExact(u, o)
    BY <1>2 DEF Deserves
  <2> DEFINE date == UtcDate[m]
  <2>2. m \in Counted(u, date) /\ n \in Counted(u, date)
    BY <2>1
  <2>3. \A o \in Counted(u, date) : ExactPoints(points[u][o])
    BY <2>1, IsExactPoints DEF Typed
  <2>4. IsFiniteSet(Counted(u, date))
    BY SettlementAssumption, FS_Subset
  <2>5. Cardinality(Counted(u, date)) >= 2
    <3> HIDE DEF Counted
    <3> QED BY <2>1, <2>2, <2>4, OfTwo
  <2>6. Perfect(u)
    <3> HIDE DEF Counted
    <3> QED BY <2>3, <2>5
  <2> HIDE DEF Perfect
  <2> QED BY <2>6
<1> HIDE DEF S
<1> QED BY <1>1, <1>2, BadgeOfRule DEF Gives

LEMMA TieredGives ==
  ASSUME Typed
  PROVE  /\ PointsReached("loop") => Gives("pts")
         /\ StreakReached("loop") => Gives("streak")
<1>1. ASSUME PointsReached("loop") PROVE Gives("pts")
  <2> DEFINE S == {<<ut[1], <<"pts", ut[2]>>>> : ut \in {x \in User \X PointTiers : Sum(x[1], Match) >= x[2]}}
  <2>1. earned' = earned \union S
    BY <1>1 DEF PointsReached, Grant
  <2>2. ASSUME NEW u \in User, NEW t \in PointTiers, Deserves(u, <<"pts", t>>) PROVE <<u, <<"pts", t>>>> \in S
    <3>1. Sum(u, Match) >= t
      BY <2>2, DeservesRule
    <3>2. <<u, t>> \in {x \in User \X PointTiers : Sum(x[1], Match) >= x[2]}
      BY <3>1
    <3> QED BY <3>2
  <2> HIDE DEF S
  <2> QED BY <2>1, <2>2, BadgeOfRule DEF Gives
<1>2. ASSUME StreakReached("loop") PROVE Gives("streak")
  <2> DEFINE S == {<<ut[1], <<"streak", ut[2]>>>> : ut \in {x \in User \X StreakTiers : streak[x[1]].best >= x[2]}}
  <2>1. earned' = earned \union S
    BY <1>2 DEF StreakReached, Grant
  <2>2. ASSUME NEW u \in User, NEW t \in StreakTiers, Deserves(u, <<"streak", t>>) PROVE <<u, <<"streak", t>>>> \in S
    <3>1. streak[u].best >= t
      BY <2>2, DeservesRule
    <3>2. <<u, t>> \in {x \in User \X StreakTiers : streak[x[1]].best >= x[2]}
      BY <3>1
    <3> QED BY <3>2
  <2> HIDE DEF S
  <2> QED BY <2>1, <2>2, BadgeOfRule DEF Gives
<1> QED BY <1>1, <1>2

LEMMA MarathonGives ==
  ASSUME Typed, Marathon("loop")
  PROVE  Gives("marathon")
<1> DEFINE Phase(s) == {m \in Match : Stage[m] = s}
           Ran(u) == \E s \in {Stage[m] : m \in Match} \ {NULL} :
                       /\ Cardinality(Phase(s)) >= MARATHON_MIN_MATCHES
                       /\ Cardinality({m \in Phase(s) : Entered[u][m] # NULL}) = Cardinality(Phase(s))
           S == {<<u, <<"marathon", 0>>>> : u \in {v \in User : Ran(v)}}
<1>1. earned' = earned \union S
  BY DEF Marathon, Grant
<1>2. ASSUME NEW u \in User, Deserves(u, <<"marathon", 0>>) PROVE <<u, <<"marathon", 0>>>> \in S
  <2>1. PICK m \in Match, n \in Match :
           /\ m # n /\ Stage[m] = Stage[n] /\ Stage[m] # NULL
           /\ \A o \in Match : Stage[o] = Stage[m] => Entered[u][o] # NULL
    BY <1>2 DEF Deserves
  <2> DEFINE s == Stage[m]
  <2>2. m \in Phase(s) /\ n \in Phase(s) /\ s \in {Stage[o] : o \in Match} \ {NULL}
    BY <2>1
  <2>3. IsFiniteSet(Phase(s))
    BY SettlementAssumption, FS_Subset
  <2>4. {o \in Phase(s) : Entered[u][o] # NULL} = Phase(s)
    BY <2>1
  <2>5. Cardinality(Phase(s)) >= MARATHON_MIN_MATCHES
    <3> HIDE DEF Phase
    <3> QED BY <2>1, <2>2, <2>3, OfTwo DEF MARATHON_MIN_MATCHES
  <2>6. Ran(u)
    <3> HIDE DEF Phase, s
    <3> QED BY <2>2, <2>4, <2>5
  <2> HIDE DEF Ran
  <2> QED BY <2>6
<1> HIDE DEF S
<1> QED BY <1>1, <1>2, BadgeOfRule DEF Gives

LEMMA InARowSameIsland ==
  ASSUME NEW u, NEW D, D \subseteq Won(u), InARow(D), NEW a \in D, NEW b \in D, a <= b
  PROVE  Island(u, a) = Island(u, b)
<1> DEFINE Among(E) == {e \in E : a < e /\ e <= b}
<1>1. /\ Recorded \subseteq Day /\ Won(u) \subseteq Recorded /\ Won(u) \subseteq Day
      /\ a \in Day /\ b \in Day /\ a \in Nat /\ b \in Nat
  BY DaysFinite DEF Recorded, Won
<1>2. \A e \in Recorded : e \in Nat
  BY <1>1, DaysFinite
<1>3. ASSUME NEW e \in Recorded, a < e, e <= b PROVE e \in Won(u)
  <2>1. e = b \/ e < b
    BY <1>1, <1>2, <1>3
  <2> QED BY <1>3, <2>1 DEF InARow
<1>4. Among(Recorded) = Among(Won(u))
  BY <1>1, <1>3
<1>5. ASSUME NEW E, E \subseteq Day
      PROVE  UpTo(E, a) \in Nat /\ UpTo(E, b) = UpTo(E, a) + Cardinality(Among(E))
  <2>1. a \in Day /\ b \in Day
    BY <1>1
  <2>2. UpTo(E, a) \in Nat /\ UpTo(E, b) = UpTo(E, a) + Cardinality({e \in E : a < e /\ e <= b})
    BY <1>5, <2>1, UpToBetween
  <2> QED BY <2>2
<1>6. Cardinality(Among(Won(u))) \in Nat
  <2>1. Among(Won(u)) \subseteq Day
    BY <1>1
  <2> HIDE DEF Among
  <2> QED BY <2>1, DaysFinite, FS_Subset, FS_CardinalityType
<1> HIDE DEF Among
<1>7. /\ UpTo(Recorded, a) \in Nat /\ UpTo(Recorded, b) = UpTo(Recorded, a) + Cardinality(Among(Recorded))
      /\ UpTo(Won(u), a) \in Nat /\ UpTo(Won(u), b) = UpTo(Won(u), a) + Cardinality(Among(Won(u)))
  BY <1>1, <1>5
<1> QED BY <1>4, <1>6, <1>7 DEF Island

LEMMA PlayerOfDaysGives ==
  ASSUME Typed, PlayerOfDays("loop")
  PROVE  Gives("potd")
<1> DEFINE Isle(u, d) == {e \in Won(u) : Island(u, e) = Island(u, d)}
           LongestRun(u) == {Cardinality(Isle(u, d)) : d \in Won(u)}
           S == {<<ut[1], <<"potd", ut[2]>>>> :
                   ut \in {x \in User \X PotdTiers : \E n \in LongestRun(x[1]) : n >= x[2]}}
<1>1. earned' = earned \union S
  BY DEF PlayerOfDays, Grant
<1>2. ASSUME NEW u \in User, NEW t \in PotdTiers, Deserves(u, <<"potd", t>>) PROVE <<u, <<"potd", t>>>> \in S
  <2>1. PICK D \in SUBSET Won(u) : Cardinality(D) = t /\ InARow(D)
    BY <1>2, DeservesRule
  <2>2. IsFiniteSet(Won(u)) /\ Won(u) \subseteq Nat
    <3>1. Won(u) \subseteq Day
      BY DEF Won, Recorded
    <3> QED BY <3>1, DaysFinite, FS_Subset
  <2>3. D # {}
    BY <2>1, FS_EmptySet, SettlementAssumption
  <2>4. PICK d : d \in D
    BY <2>3
  <2>5. \A e \in D : Island(u, e) = Island(u, d)
    <3>1. \A e \in D : e \in Nat
      BY <2>2
    <3>2. \A e \in D : e <= d \/ d <= e
      BY <2>4, <3>1
    <3> QED BY <2>1, <2>4, <3>2, InARowSameIsland
  <2>6. D \subseteq Isle(u, d)
    BY <2>1, <2>5
  <2>7. IsFiniteSet(Isle(u, d))
    BY <2>2, FS_Subset
  <2>8. Cardinality(D) <= Cardinality(Isle(u, d)) /\ Cardinality(Isle(u, d)) \in Nat
    <3> HIDE DEF Isle
    <3> QED BY <2>6, <2>7, FS_Subset, FS_CardinalityType
  <2>9. Cardinality(Isle(u, d)) \in LongestRun(u)
    BY <2>1, <2>4
  <2>10. Cardinality(Isle(u, d)) >= t
    BY <2>1, <2>8
  <2>11. \E n \in LongestRun(u) : n >= t
    <3> HIDE DEF LongestRun, Isle
    <3> QED BY <2>9, <2>10
  <2> HIDE DEF LongestRun
  <2>12. <<u, t>> \in {x \in User \X PotdTiers : \E n \in LongestRun(x[1]) : n >= x[2]}
    BY <2>11
  <2> QED BY <2>12
<1> HIDE DEF S
<1> QED BY <1>1, <1>2, BadgeOfRule DEF Gives

(***************************************************************************)
(* Each job of the evaluation leaves the badge of its rule with everyone   *)
(* who deserves it at that moment (evaluate_all of src/achievements.rs),   *)
(* so that a pass over tables that stay misses no badge.                   *)
(***************************************************************************)
THEOREM DeservedByRuleAreGiven == Spec => EvaluationIsComplete
<1> DEFINE Complete == /\ FirstExact("loop") => Gives("first_exact")
                       /\ PerfectDay("loop") => Gives("perfect_day")
                       /\ PointsReached("loop") => Gives("pts")
                       /\ StreakReached("loop") => Gives("streak")
                       /\ Marathon("loop") => Gives("marathon")
                       /\ PlayerOfDays("loop") => Gives("potd")
<1>1. Typed => Complete
  BY FirstExactGives, PerfectDayGives, TieredGives, MarathonGives, PlayerOfDaysGives
<1> HIDE DEF Complete
<1>2. Typed /\ [Next]_vars => Typed'
  BY StepTyped
<1>3. Spec => [][Complete]_vars
  BY <1>1, <1>2, InitTyped, PTL DEF Spec
<1> QED BY <1>3, PTL DEF EvaluationIsComplete, Complete

-----------------------------------------------------------------------------
(***************************************************************************)
(* What the loop settles.  From some time on only the loop writes, and it  *)
(* goes on: each pass re-grades, replays and evaluates all.                *)
(***************************************************************************)
OnlyTheLoop == <>[][Loop]_vars /\ []<><<Loop>>_vars

\* The order of the loop's jobs.
LEMMA LoopMoves ==
  ASSUME Typed, Loop
  PROVE  /\ task["loop"].pc \in LoopPc
         /\ task'["loop"].pc = Following.loop[task["loop"].pc]
<1>1. task["loop"] \in TaskState /\ task["loop"].pc \in LoopPc /\ task \in [loop : TaskState, digest : TaskState]
  BY TaskOf DEF Typed, Tasks, Task, Apt
<1>2. CASE Fold("loop")
  <2>1. PICK f : task' = [task EXCEPT !["loop"] = [task["loop"] EXCEPT !.pc = "streaks", !.folded = f]]
    <3>1. PICK order \in [User -> Orders] :
       task' = [task EXCEPT !["loop"].pc = Following["loop"][@],
                            !["loop"].folded = [u \in User |-> IF Graded(u) = {} THEN NULL
                                                           ELSE streak_of(HistoryIn(u, order[u]))]]
      BY <1>2 DEF Fold
    <3> DEFINE f == [u \in User |-> IF Graded(u) = {} THEN NULL ELSE streak_of(HistoryIn(u, order[u]))]
    <3>2. task' = [task EXCEPT !["loop"].pc = Following["loop"][@], !["loop"].folded = f]
      BY <3>1
    <3> HIDE DEF f
    <3>3. Following["loop"][task["loop"].pc] = "streaks"
      BY <1>2 DEF Fold, At, Following
    <3>4. task' = [task EXCEPT !["loop"] = [task["loop"] EXCEPT !.pc = "streaks", !.folded = f]]
      BY <1>1, <3>2, <3>3
    <3> QED BY <3>4
  <2>2. task'["loop"].pc = "streaks"
    BY <1>1, <2>1 DEF TaskState
  <2> QED BY <1>1, <1>2, <2>2 DEF Fold, At, Following
<1>3. CASE Done("loop")
  <2>1. task'["loop"] = [Rest EXCEPT !.pc = Following["loop"][task["loop"].pc],
                                     !.day = IF Following["loop"][task["loop"].pc] = "rest" THEN NULL ELSE task["loop"].day]
    BY <1>1, <1>3 DEF Done, Goto
  <2> DEFINE r == Rest
  <2>2. r = [pc |-> r.pc, day |-> r.day, folded |-> r.folded, winner |-> r.winner]
    BY DEF Rest
  <2>3. task'["loop"].pc = Following["loop"][task["loop"].pc]
    <3> HIDE DEF r
    <3>1. task'["loop"] = [r EXCEPT !.pc = Following["loop"][task["loop"].pc],
                                     !.day = IF Following["loop"][task["loop"].pc] = "rest" THEN NULL ELSE task["loop"].day]
      BY <2>1 DEF r
    <3> QED BY <2>2, <3>1
  <2> QED BY <1>1, <2>3 DEF Following
<1> QED BY <1>2, <1>3 DEF Loop, Jobs, Evaluate, Rescore, WriteStreaks, FirstExact, PerfectDay, PointsReached,
        StreakReached, Marathon, PlayerOfDays, Grant

Turn(pc) == task["loop"].pc = pc

LEMMA TurnsChange ==
  ASSUME Typed, NEW pc \in LoopPc, Turn(pc)
  PROVE  /\ UNCHANGED vars => Turn(pc)'
         /\ Loop => Turn(Following.loop[pc])'
BY LoopMoves DEF Turn, vars

\* Each job gets its turn again and again.
LEMMA PassesFollow ==
  Spec /\ OnlyTheLoop => []<>Turn("score") /\ []<>Turn("first_exact")
<1> DEFINE A == Turn("score")
           B == Turn("fold")
           C == Turn("streaks")
           D == Turn("first_exact")
           E == Turn("perfect_day")
           F == Turn("pts")
           G == Turn("streak")
           H == Turn("marathon")
           I == Turn("potd")
<1>1. Typed => A \/ B \/ C \/ D \/ E \/ F \/ G \/ H \/ I
  BY TaskOf DEF Typed, Task, Apt, LoopPc, Turn
<1>2. /\ Typed /\ A /\ [Loop]_vars => A' \/ B'
      /\ Typed /\ B /\ [Loop]_vars => B' \/ C'
      /\ Typed /\ C /\ [Loop]_vars => C' \/ D'
      /\ Typed /\ D /\ [Loop]_vars => D' \/ E'
      /\ Typed /\ E /\ [Loop]_vars => E' \/ F'
      /\ Typed /\ F /\ [Loop]_vars => F' \/ G'
      /\ Typed /\ G /\ [Loop]_vars => G' \/ H'
      /\ Typed /\ H /\ [Loop]_vars => H' \/ I'
      /\ Typed /\ I /\ [Loop]_vars => I' \/ A'
  BY TurnsChange DEF LoopPc, Following
<1>3. /\ Typed /\ A /\ Loop => B'
      /\ Typed /\ B /\ Loop => C'
      /\ Typed /\ C /\ Loop => D'
      /\ Typed /\ D /\ Loop => E'
      /\ Typed /\ E /\ Loop => F'
      /\ Typed /\ F /\ Loop => G'
      /\ Typed /\ G /\ Loop => H'
      /\ Typed /\ H /\ Loop => I'
      /\ Typed /\ I /\ Loop => A'
  BY TurnsChange DEF LoopPc, Following
<1>4. Spec => []Typed
  <2>1. Typed /\ [Next]_vars => Typed'
    BY StepTyped
  <2> QED BY <2>1, InitTyped, PTL DEF Spec
<1>5. OnlyTheLoop <=> <>[][Loop]_vars /\ []<><<Loop>>_vars
  BY DEF OnlyTheLoop
<1> HIDE DEF A, B, C, D, E, F, G, H, I
<1>6. Spec /\ OnlyTheLoop => []<>A /\ []<>D
  BY <1>1, <1>2, <1>3, <1>4, <1>5, PTL
<1> QED BY <1>6 DEF A, D

(***************************************************************************)
(* A pass of the grading leaves the points of the settled bets as they are *)
(* worth, and the next one then changes nothing.                           *)
(***************************************************************************)
PointsAreWorths == \A u \in User, m \in Match : Settled(m) => points[u][m] = Worth(u, m)

LEMMA ScoreMakesWorths ==
  ASSUME Typed, Rescore("loop")
  PROVE  PointsAreWorths'
<1>1. \A u \in User, m \in Match : Settled(m) => points'[u][m] = Worth(u, m)
  BY DEF Rescore
<1>2. match' = match
  BY DEF Rescore
<1> QED BY <1>1, <1>2 DEF PointsAreWorths, Settled, Worth

LEMMA LoopKeepsPoints ==
  ASSUME Typed, PointsAreWorths, [Loop]_vars
  PROVE  match' = match /\ potd' = potd /\ points' = points
<1>1. CASE Rescore("loop")
  <2> DEFINE new(u, m) == IF Settled(m) THEN Worth(u, m) ELSE points[u][m]
  <2>1. points' = [u \in User |-> [m \in Match |-> new(u, m)]]
    BY <1>1 DEF Rescore
  <2>2. \A u \in User, m \in Match : new(u, m) = points[u][m]
    BY DEF PointsAreWorths
  <2>3. points \in [User -> [Match -> Nat \union {NULL}]]
    BY DEF Typed, Tables
  <2> HIDE DEF new
  <2>4. points' = points
    BY <2>1, <2>2, <2>3
  <2> QED BY <1>1, <2>4 DEF Rescore
<1>2. CASE ~ Rescore("loop")
  BY <1>2 DEF vars, Loop, Jobs, Evaluate, Fold, WriteStreaks, FirstExact, PerfectDay, PointsReached,
              StreakReached, Marathon, PlayerOfDays, Grant
<1> QED BY <1>1, <1>2

LEMMA LoopKeepsWorths ==
  ASSUME Typed, PointsAreWorths, [Loop]_vars
  PROVE  PointsAreWorths'
BY LoopKeepsPoints DEF PointsAreWorths, Settled, Worth

(***************************************************************************)
(* A replay then hands over the runs of the settled bets, and writing it   *)
(* leaves them with the players.                                           *)
(***************************************************************************)
Best(u) == {Runs(h) : h \in Histories(u)}

FoldedIsRuns ==
  \A u \in User : Graded(u) # {} => task["loop"].folded[u] \in Best(u) /\ task["loop"].folded[u] # NULL

NothingFolded == \A u \in User : Graded(u) = {} => task["loop"].folded[u] = NULL

StreakIsRuns == \A u \in User : Graded(u) # {} => streak[u] \in Best(u)

LEMMA SameHistories ==
  ASSUME match' = match, points' = points
  PROVE  \A u \in User : Graded(u)' = Graded(u) /\ Best(u)' = Best(u)
BY DEF Graded, Settled, Best, Histories, HistoryIn

LEMMA FoldHandsOverRuns ==
  ASSUME Typed, Fold("loop")
  PROVE  FoldedIsRuns'
<1>1. PICK order \in [User -> Orders] :
       task' = [task EXCEPT !["loop"].pc = Following["loop"][@],
                            !["loop"].folded = [u \in User |-> IF Graded(u) = {} THEN NULL
                                                           ELSE streak_of(HistoryIn(u, order[u]))]]
  BY DEF Fold
<1> DEFINE new(u) == IF Graded(u) = {} THEN NULL ELSE streak_of(HistoryIn(u, order[u]))
           folded == [u \in User |-> new(u)]
<1>2. task["loop"] \in TaskState /\ task \in [loop : TaskState, digest : TaskState]
  BY TaskOf DEF Typed, Tasks, Task
<1>3. task'["loop"].folded = folded
  <2> HIDE DEF folded
  <2>1. task' = [task EXCEPT !["loop"] = [task["loop"] EXCEPT !.pc = Following["loop"][task["loop"].pc], !.folded = folded]]
    BY <1>1, <1>2 DEF folded
  <2>2. task'["loop"] = [task["loop"] EXCEPT !.pc = Following["loop"][task["loop"].pc], !.folded = folded]
    BY <1>2, <2>1
  <2> QED BY <1>2, <2>2 DEF TaskState
<1>4. ASSUME NEW u \in User, Graded(u) # {} PROVE new(u) \in Best(u) /\ new(u) # NULL
  <2>1. HistoryIn(u, order[u]) \in Seq(Nat)
    BY HistoryType DEF Typed
  <2>2. new(u) = Runs(HistoryIn(u, order[u])) /\ HistoryIn(u, order[u]) \in Histories(u)
    BY <1>4, <2>1, FoldComputesRuns DEF Histories
  <2>3. new(u) \in Streak
    BY <1>4, <2>1, StreakCovers DEF Covering
  <2> HIDE DEF new
  <2> QED BY <2>2, <2>3, SettlementAssumption DEF Best
<1>5. match' = match /\ points' = points
  BY DEF Fold
<1>6. \A u \in User : task'["loop"].folded[u] = new(u)
  BY <1>3
<1> HIDE DEF new, folded
<1> QED BY <1>4, <1>5, <1>6, SameHistories DEF FoldedIsRuns

LEMMA WritingLeavesRuns ==
  ASSUME Typed, FoldedIsRuns, WriteStreaks("loop")
  PROVE  StreakIsRuns'
<1>1. match' = match /\ points' = points
  BY DEF WriteStreaks
<1>2. \A u \in User : Graded(u) # {} => streak'[u] = task["loop"].folded[u]
  BY DEF FoldedIsRuns, WriteStreaks
<1> QED BY <1>1, <1>2, SameHistories DEF FoldedIsRuns, StreakIsRuns

LEMMA LoopKeepsRuns ==
  ASSUME Typed, PointsAreWorths, [Loop]_vars
  PROVE  /\ Turn("streaks") /\ ~ Turn("streaks")' /\ FoldedIsRuns => StreakIsRuns'
         /\ Turn("streaks") /\ Turn("streaks")' /\ FoldedIsRuns => FoldedIsRuns'
         /\ Turn("fold") /\ Turn("streaks")' => FoldedIsRuns'
         /\ ~ Turn("streaks") /\ StreakIsRuns => StreakIsRuns'
         /\ Turn("streaks") /\ Turn("streaks")' /\ StreakIsRuns => StreakIsRuns'
<1>1. \A u \in User : Graded(u)' = Graded(u) /\ Best(u)' = Best(u)
  BY LoopKeepsPoints, SameHistories
<1>2. CASE UNCHANGED vars
  BY <1>1, <1>2 DEF vars, Turn, StreakIsRuns, FoldedIsRuns
<1>3. CASE Fold("loop")
  <2>1. streak' = streak /\ Turn("fold")
    BY <1>3 DEF Fold, At, Turn
  <2> QED BY <1>1, <1>3, <2>1, FoldHandsOverRuns DEF StreakIsRuns, Turn
<1>4. CASE WriteStreaks("loop")
  <2>1. Turn("streaks") /\ ~ Turn("streaks")'
    <3>1. Turn("streaks")
      BY <1>4 DEF WriteStreaks, At, Turn
    <3>2. Turn("first_exact")'
      BY <1>4, <3>1, TurnsChange DEF Loop, Jobs, LoopPc, Following
    <3> QED BY <3>1, <3>2 DEF Turn
  <2> QED BY <1>4, <2>1, WritingLeavesRuns DEF Turn
<1>5. CASE Rescore("loop") \/ Evaluate
  <2>1. streak' = streak /\ ~ Turn("fold") /\ ~ Turn("streaks")
    BY <1>5 DEF Rescore, Evaluate, FirstExact, PerfectDay, PointsReached, StreakReached, Marathon,
                PlayerOfDays, Grant, At, Turn
  <2> QED BY <1>1, <2>1 DEF StreakIsRuns
<1> QED BY <1>2, <1>3, <1>4, <1>5 DEF Loop, Jobs

(***************************************************************************)
(* Whatever the digest has written over newer streaks, and whatever failed *)
(* before: when only the loop runs any more, the players have the runs of  *)
(* their settled bets in the end.                                          *)
(***************************************************************************)
THEOREM StreaksGetRight == Spec /\ OnlyTheLoop => StreaksSettle
<1> DEFINE A == Turn("score")
           B == Turn("fold")
           C == Turn("streaks")
           D == Turn("first_exact")
           R == PointsAreWorths
           F == FoldedIsRuns
           S == StreakIsRuns
<1>1. Typed /\ R /\ [Loop]_vars =>
        /\ R'
        /\ C /\ ~ C' /\ F => S'
        /\ C /\ C' /\ F => F'
        /\ B /\ C' => F'
        /\ ~ C /\ S => S'
        /\ C /\ C' /\ S => S'
  BY LoopKeepsWorths, LoopKeepsRuns
<1>2. Typed /\ [Loop]_vars =>
        /\ A => A' \/ (B' /\ R')
        /\ B => B' \/ C'
        /\ C => C' \/ D'
        /\ C' => B \/ C
  <2>1. ASSUME Typed, Loop, A PROVE R'
    <3>1. Rescore("loop")
      BY <2>1 DEF Loop, Jobs, Evaluate, Fold, WriteStreaks, FirstExact, PerfectDay, PointsReached,
                  StreakReached, Marathon, PlayerOfDays, Grant, At, Turn
    <3> QED BY <2>1, <3>1, ScoreMakesWorths
  <2> QED BY <2>1, TurnsChange, LoopMoves DEF LoopPc, Following, Turn, vars
<1>3. Typed /\ Loop => ~ (A /\ A') /\ ~ (B /\ B') /\ ~ (C /\ C')
  BY LoopMoves DEF LoopPc, Following, Turn
<1>4. Typed => ~ (A /\ B) /\ ~ (A /\ C) /\ ~ (B /\ C) /\ ~ (C /\ D)
  BY DEF Turn
<1>5. Spec => []Typed
  <2>1. Typed /\ [Next]_vars => Typed'
    BY StepTyped
  <2> QED BY <2>1, InitTyped, PTL DEF Spec
<1>6. Spec /\ OnlyTheLoop => []<>A
  BY PassesFollow, PTL
<1>7. OnlyTheLoop <=> <>[][Loop]_vars /\ []<><<Loop>>_vars
  BY DEF OnlyTheLoop
<1>8. StreaksSettle <=> <>[]S
  BY DEF StreaksSettle, StreakIsRuns, Best
<1> HIDE DEF A, B, C, D, R, F, S
<1> QED BY <1>1, <1>2, <1>3, <1>4, <1>5, <1>6, <1>7, <1>8, PTL

-----------------------------------------------------------------------------
(***************************************************************************)
(* The badges.  Ahead says which jobs of a pass come before that of a rule *)
(* or are it, once the streaks are written: until that job, what the rule  *)
(* looks at stays.                                                         *)
(***************************************************************************)
Ahead ==
  [first_exact |-> {"first_exact"},
   perfect_day |-> {"first_exact", "perfect_day"},
   pts |-> {"first_exact", "perfect_day", "pts"},
   streak |-> {"first_exact", "perfect_day", "pts", "streak"},
   marathon |-> {"first_exact", "perfect_day", "pts", "streak", "marathon"},
   potd |-> {"first_exact", "perfect_day", "pts", "streak", "marathon", "potd"}]

Coming(rule) == task["loop"].pc \in Ahead[rule]

Rule == {"first_exact", "perfect_day", "pts", "streak", "marathon", "potd"}

LEMMA RuleOfBadge == \A badge \in Badge : badge[1] \in Rule
BY DEF Badge, Rule

LEMMA DeservesStays ==
  ASSUME match' = match, points' = points, potd' = potd, streak' = streak, NEW u, NEW badge
  PROVE  Deserves(u, badge)' <=> Deserves(u, badge)
<1>1. Sum(u, Match)' = Sum(u, Match)
  BY DEF Sum, MapThenSumSet, MapThenFoldSet
<1>2. \A m : IsExact(u, m)' <=> IsExact(u, m)
  BY DEF IsExact, Multiplier
<1>3. Recorded' = Recorded /\ Won(u)' = Won(u)
  BY DEF Won, Recorded
<1>4. \A D : InARow(D)' <=> InARow(D)
  BY <1>3 DEF InARow
<1>5. (\E D \in SUBSET Won(u) : Cardinality(D) = badge[2] /\ InARow(D))'
      <=> \E D \in SUBSET Won(u) : Cardinality(D) = badge[2] /\ InARow(D)
  BY <1>3, <1>4
<1>6. (\E m \in Match : IsExact(u, m))' <=> \E m \in Match : IsExact(u, m)
  BY <1>2
<1>7. (\E m, n \in Match :
           /\ m # n /\ UtcDate[m] = UtcDate[n]
           /\ {m, n} \subseteq {o \in Match : match[o].status = "FINISHED" /\ points[u][o] # NULL}
           /\ \A o \in Match :
                UtcDate[o] = UtcDate[m] /\ match[o].status = "FINISHED" /\ points[u][o] # NULL
                => IsExact(u, o))'
      <=> \E m, n \in Match :
           /\ m # n /\ UtcDate[m] = UtcDate[n]
           /\ {m, n} \subseteq {o \in Match : match[o].status = "FINISHED" /\ points[u][o] # NULL}
           /\ \A o \in Match :
                UtcDate[o] = UtcDate[m] /\ match[o].status = "FINISHED" /\ points[u][o] # NULL
                => IsExact(u, o)
  BY DEF IsExact
<1> QED BY <1>1, <1>5, <1>6, <1>7, Zenon DEF Deserves

LEMMA RuleGivesIt ==
  ASSUME Typed, Loop, NEW u \in User, NEW badge \in Badge, Deserves(u, badge), Turn(badge[1])
  PROVE  <<u, badge>> \in earned'
<1>1. ASSUME NEW rule \in Rule, Turn(rule) PROVE Gives(rule)
  <2>1. \/ rule = "first_exact" /\ FirstExact("loop")
        \/ rule = "perfect_day" /\ PerfectDay("loop")
        \/ rule = "pts" /\ PointsReached("loop")
        \/ rule = "streak" /\ StreakReached("loop")
        \/ rule = "marathon" /\ Marathon("loop")
        \/ rule = "potd" /\ PlayerOfDays("loop")
    BY <1>1 DEF Rule, Loop, Jobs, Evaluate, Rescore, Fold, WriteStreaks, FirstExact, PerfectDay,
                PointsReached, StreakReached, Marathon, PlayerOfDays, Grant, At, Turn
  <2> QED BY <2>1, FirstExactGives, PerfectDayGives, TieredGives, MarathonGives, PlayerOfDaysGives
<1> QED BY <1>1, RuleOfBadge DEF Gives

LEMMA LoopOnBadges ==
  ASSUME Typed, PointsAreWorths, [Loop]_vars, NEW u \in User, NEW badge \in Badge
  PROVE  /\ ~ (~ Coming(badge[1]) /\ Coming(badge[1])') => (Deserves(u, badge)' <=> Deserves(u, badge))
         /\ Coming(badge[1]) /\ ~ Coming(badge[1])' /\ Deserves(u, badge) => <<u, badge>> \in earned'
         /\ <<u, badge>> \in earned => <<u, badge>> \in earned'
<1>1. match' = match /\ points' = points /\ potd' = potd
  BY LoopKeepsPoints
<1>2. badge[1] \in Rule
  BY RuleOfBadge
<1>3. CASE UNCHANGED vars
  BY <1>1, <1>3, DeservesStays DEF vars, Coming
<1>4. CASE Loop
  <2>1. ASSUME ~ (~ Coming(badge[1]) /\ Coming(badge[1])') PROVE streak' = streak
    <3>1. CASE WriteStreaks("loop")
      <4>1. task["loop"].pc = "streaks" /\ task'["loop"].pc = "first_exact"
        BY <1>4, <3>1, LoopMoves DEF WriteStreaks, At, Following
      <4> QED BY <1>2, <2>1, <4>1 DEF Coming, Ahead, Rule
    <3>2. CASE ~ WriteStreaks("loop")
      BY <1>4, <3>2 DEF Loop, Jobs, Evaluate, Rescore, Fold, FirstExact, PerfectDay,
              PointsReached, StreakReached, Marathon, PlayerOfDays, Grant
    <3> QED BY <3>1, <3>2
  <2>2. ASSUME Coming(badge[1]), ~ Coming(badge[1])' PROVE Turn(badge[1])
    <3>1. task["loop"].pc \in LoopPc /\ task'["loop"].pc = Following.loop[task["loop"].pc]
      BY <1>4, LoopMoves
    <3> QED BY <1>2, <2>2, <3>1 DEF Coming, Ahead, Rule, Following, LoopPc, Turn
  <2>3. earned \subseteq earned'
    BY <1>4 DEF Loop, Jobs, Evaluate, Rescore, Fold, WriteStreaks, FirstExact, PerfectDay,
              PointsReached, StreakReached, Marathon, PlayerOfDays, Grant
  <2> QED BY <1>1, <1>4, <2>1, <2>2, <2>3, DeservesStays, RuleGivesIt
<1> QED BY <1>3, <1>4

(***************************************************************************)
(* Once only the loop runs, a player either gets a badge in the end or     *)
(* does not deserve it any more, whatever cut earlier passes short.        *)
(***************************************************************************)
THEOREM EachDeservedIsGiven ==
  ASSUME NEW u \in User, NEW badge \in Badge
  PROVE  Spec /\ OnlyTheLoop => <>[](<<u, badge>> \in earned \/ ~ Deserves(u, badge))
<1> DEFINE A == Turn("score")
           B == Turn("first_exact")
           C == Coming(badge[1])
           R == PointsAreWorths
           D == Deserves(u, badge)
           G == <<u, badge>> \in earned
<1>1. Typed /\ R /\ [Loop]_vars =>
        /\ R'
        /\ (C \/ ~ C') => (D' <=> D)
        /\ C /\ ~ C' /\ D => G'
        /\ G => G'
  BY LoopKeepsWorths, LoopOnBadges
<1>2. Typed /\ A /\ [Loop]_vars => A' \/ R'
  <2>1. ASSUME Typed, Loop, A PROVE R'
    <3>1. Rescore("loop")
      BY <2>1 DEF Loop, Jobs, Evaluate, Fold, WriteStreaks, FirstExact, PerfectDay, PointsReached,
                  StreakReached, Marathon, PlayerOfDays, Grant, At, Turn
    <3> QED BY <2>1, <3>1, ScoreMakesWorths
  <2> QED BY <2>1 DEF Turn, vars
<1>3. Typed => (A => ~ C) /\ (B => C) /\ ~ (A /\ B)
  BY RuleOfBadge DEF Turn, Coming, Ahead, Rule
<1>4. Spec => []Typed
  <2>1. Typed /\ [Next]_vars => Typed'
    BY StepTyped
  <2> QED BY <2>1, InitTyped, PTL DEF Spec
<1>5. Spec /\ OnlyTheLoop => []<>A /\ []<>B
  BY PassesFollow
<1>6. OnlyTheLoop <=> <>[][Loop]_vars /\ []<><<Loop>>_vars
  BY DEF OnlyTheLoop
<1> HIDE DEF A, B, C, D, R, G
<1>7. Spec /\ OnlyTheLoop => <>[](G \/ ~ D)
  BY <1>1, <1>2, <1>3, <1>4, <1>5, <1>6, PTL
<1> QED BY <1>7 DEF D, G
=============================================================================
