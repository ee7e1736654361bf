---------------------------- MODULE BettingProofs ----------------------------
(***************************************************************************)
(* Theorems of Betting, for any number of players, matches, stages, scores *)
(* and requests in flight.                                                 *)
(***************************************************************************)
EXTENDS Betting, TLAPS

-----------------------------------------------------------------------------
(***************************************************************************)
(* Lemmas on the points (scoring.rs).                                      *)
(***************************************************************************)

(***************************************************************************)
(* Doubled or not, base points stay in the six values the points column    *)
(* may hold.                                                               *)
(***************************************************************************)
LEMMA PointsInRange ==
  ASSUME NEW predicted, NEW actual, NEW k \in {1, 2}
  PROVE  EffectivePoints(predicted, k, actual)
           \in {j * p : j \in {1, 2}, p \in {0, POINTS_OUTCOME, POINTS_EXACT}}
<1>1. ComputePoints(predicted, actual) \in {0, POINTS_OUTCOME, POINTS_EXACT}
  BY DEF ComputePoints
<1> QED BY <1>1 DEF EffectivePoints

(***************************************************************************)
(* points >= 3, the test by which the badges, the profile and the player   *)
(* of the day count exact scores, holds of exact predictions and of no     *)
(* other: a doubled right outcome is worth 2, an exact score never less    *)
(* than 3.                                                                 *)
(***************************************************************************)
THEOREM ThreePointsMeanExact ==
  ASSUME NEW predicted, NEW actual, NEW k \in {1, 2}
  PROVE  EffectivePoints(predicted, k, actual) >= 3 <=> predicted = actual
BY DEF EffectivePoints, ComputePoints, POINTS_EXACT, POINTS_OUTCOME

-----------------------------------------------------------------------------
(***************************************************************************)
(* Types and hindsight: one invariant carries both.                        *)
(***************************************************************************)

(***************************************************************************)
(* TypeOK alone is not inductive: what a handler will write was checked    *)
(* when it began, and must be remembered of the request.                   *)
(***************************************************************************)
RequestOK ==
  \A u \in User, t \in Tab :
    LET r == request[u][t] IN
    /\ r.pc # "idle" => r.match \in Match /\ r.match \notin r.closed
    /\ r.pc = "place" => r.score \in Score

LEMMA InitTyped == Init => TypeOK /\ RequestOK
<1> SUFFICES ASSUME Init PROVE TypeOK /\ RequestOK
  OBVIOUS
<1> USE NullAssumption, FeedAssumption, BoundAssumption DEF Init
<1>1. match \in [Match -> Row]
  BY DEF Fetched
<1>2. bet \in [User -> [Match -> Bet \union {NULL}]]
  <2>1. \A s \in Score : Fresh(s) \in Bet
    BY DEF Fresh, Bet
  <2> QED BY <2>1
<1>3. request \in [User -> [Tab -> Request]] /\ RequestOK
  BY DEF Request, Idle, RequestOK
<1>4. clock \in 0..Horizon /\ locked \in [Match -> BOOLEAN] /\ jokersOn \in BOOLEAN
  BY SMT
<1> QED BY <1>1, <1>2, <1>3, <1>4 DEF TypeOK

(***************************************************************************)
(* How the parts of the state keep their types.                            *)
(***************************************************************************)
LEMMA BeginTyped ==
  ASSUME TypeOK, RequestOK, NEW u \in User, NEW t \in Tab, NEW r \in Request,
         r.pc # "idle" => r.match \in Match /\ ~ Started(r.match),
         r.pc = "place" => r.score \in Score,
         Begin(u, t, r)
  PROVE  TypeOK' /\ RequestOK'
<1> DEFINE q == [r EXCEPT !.closed = {m \in Match : Started(m)}]
<1>1. q \in Request /\ q.pc = r.pc /\ q.match = r.match /\ q.score = r.score
        /\ q.closed = {m \in Match : Started(m)}
  BY DEF Request
<1>2. request' = [request EXCEPT ![u][t] = q]
  BY DEF Begin
<1> HIDE DEF q
<1>3. request' \in [User -> [Tab -> Request]]
  BY <1>1, <1>2 DEF TypeOK
<1>4. spent' \in [requests : Nat, syncs : Nat, faults : Nat]
  BY DEF TypeOK, Begin, Spend
<1>5. RequestOK'
  BY <1>1, <1>2 DEF RequestOK, TypeOK
<1> QED BY <1>3, <1>4, <1>5 DEF TypeOK, Begin

LEMMA GotoTyped ==
  ASSUME TypeOK, RequestOK, NEW u \in User, NEW t \in Tab, NEW r \in Request,
         r.pc # "idle" => r.match \in Match /\ r.match \notin r.closed,
         r.pc = "place" => r.score \in Score,
         Goto(u, t, r),
         bet' \in [User -> [Match -> Bet \union {NULL}]]
  PROVE  TypeOK' /\ RequestOK'
<1>1. request' = [request EXCEPT ![u][t] = r]
  BY DEF Goto
<1>2. request' \in [User -> [Tab -> Request]]
  BY <1>1 DEF TypeOK
<1>3. RequestOK'
  BY <1>1 DEF RequestOK, TypeOK
<1> QED BY <1>2, <1>3 DEF TypeOK, Goto

LEMMA IdleTyped == Idle \in Request /\ Idle.pc = "idle"
BY DEF Idle, Request

LEMMA MultiplierTyped ==
  ASSUME NEW b \in Bet \union {NULL}, NEW k \in {1, 2}
  PROVE  WithMultiplier(b, k) \in Bet \union {NULL}
BY DEF WithMultiplier, Bet

(***************************************************************************)
(* The handlers, one action a step.                                        *)
(***************************************************************************)
LEMMA HandlerTyped ==
  ASSUME TypeOK, RequestOK, NEW u \in User, NEW t \in Tab, Handler(u, t)
  PROVE  TypeOK' /\ RequestOK'
<1> DEFINE r == request[u][t]
<1>r. /\ r \in Request
      /\ r.pc # "idle" => r.match \in Match /\ r.match \notin r.closed
      /\ r.pc = "place" => r.score \in Score
  BY DEF TypeOK, RequestOK
<1>0. Idle \in Request /\ Idle.pc = "idle"
  BY IdleTyped
<1>b. bet \in [User -> [Match -> Bet \union {NULL}]]
  BY DEF TypeOK
<1>f. \A s \in Score : Fresh(s) \in Bet
  BY DEF Fresh, Bet
<1> HIDE DEF r
<1>1. ASSUME NEW m \in Match, NEW s \in Score, PlaceCheck(u, t, m, s)
      PROVE  TypeOK' /\ RequestOK'
  <2> DEFINE q == [Idle EXCEPT !.pc = "place", !.match = m, !.score = s]
  <2>1. q \in Request /\ q.match = m /\ q.score = s
    BY DEF Idle, Request
  <2>2. ~ Started(m)
    BY <1>1, FeedAssumption DEF PlaceCheck, Open, betting_open, has_kicked_off, Started, TypeOK, Row, Status
  <2>3. Begin(u, t, q)
    BY <1>1 DEF PlaceCheck
  <2> HIDE DEF q
  <2> QED BY <2>1, <2>2, <2>3, BeginTyped
<1>2. CASE PlaceWrite(u, t)
  <2>1. r.pc = "place" /\ Goto(u, t, Idle)
    BY <1>2 DEF PlaceWrite, r
  <2>2. r.match \in Match /\ r.score \in Score
    BY <1>r, <2>1
  <2>3. bet' = [bet EXCEPT ![u][r.match] =
                  IF @ = NULL THEN Fresh(r.score) ELSE [@ EXCEPT !.score = r.score]]
    BY <1>2 DEF PlaceWrite, r
  <2>4. \A b \in Bet : [b EXCEPT !.score = r.score] \in Bet
    BY <2>2 DEF Bet
  <2>5. bet' \in [User -> [Match -> Bet \union {NULL}]]
    BY <1>b, <1>f, <2>2, <2>3, <2>4
  <2> QED BY <1>0, <2>1, <2>5, GotoTyped
<1>3. ASSUME NEW m \in Match, ToggleCheck(u, t, m)
      PROVE  TypeOK' /\ RequestOK'
  <2> DEFINE q == [Idle EXCEPT !.pc = "toggle", !.match = m, !.stage = match[m].stage]
  <2>1. q \in Request /\ q.match = m /\ q.pc # "place"
    BY DEF Idle, Request, TypeOK, Row
  <2>2. ~ Started(m)
    BY <1>3 DEF ToggleCheck, Open, betting_open, has_kicked_off, Started, TypeOK, Row, Status
  <2>3. Begin(u, t, q)
    BY <1>3 DEF ToggleCheck
  <2> HIDE DEF q
  <2> QED BY <2>1, <2>2, <2>3, BeginTyped
<1>4. ASSUME NEW q, Goto(u, t, q), UNCHANGED bet, r.pc # "idle",
             \/ q = Idle
             \/ \E p \in {"off", "seek", "set"}, o \in Match \union {NULL} :
                  q = [r EXCEPT !.pc = p, !.old = o]
      PROVE  TypeOK' /\ RequestOK'
  <2>1. q \in Request /\ (q.pc # "idle" => q.match = r.match /\ q.closed = r.closed)
          /\ q.pc # "place"
    BY <1>r, <1>0, <1>4 DEF Request
  <2> QED BY <1>r, <1>b, <1>4, <2>1, GotoTyped
<1>5. \A p \in {"off", "seek", "set"} : [r EXCEPT !.pc = p] = [r EXCEPT !.pc = p, !.old = r.old]
  BY <1>r DEF Request
<1>6. CASE ReadMultiplier(u, t)
  <2>1. \E q : /\ Goto(u, t, q)
              /\ q \in {Idle, [r EXCEPT !.pc = "off"], [r EXCEPT !.pc = "seek"]}
    BY <1>6 DEF ReadMultiplier, r
  <2>2. UNCHANGED bet /\ r.pc # "idle" /\ r.old \in Match \union {NULL}
    BY <1>6, <1>r DEF ReadMultiplier, r, Request
  <2> QED BY <2>1, <2>2, <1>5, <1>4
<1>7. CASE Seek(u, t)
  <2>1. \E q : /\ Goto(u, t, q)
              /\ \/ q \in {Idle, [r EXCEPT !.pc = "set"]}
                 \/ \E old \in Match : q = [r EXCEPT !.pc = "set", !.old = old]
    BY <1>7 DEF Seek, Holding, r
  <2>2. UNCHANGED bet /\ r.pc # "idle" /\ r.old \in Match \union {NULL}
    BY <1>7, <1>r DEF Seek, r, Request
  <2> QED BY <2>1, <2>2, <1>5, <1>4
<1>8. CASE CommitOff(u, t)
  <2>1. bet' = [bet EXCEPT ![u][r.match] = WithMultiplier(@, 1)] /\ Goto(u, t, Idle)
    BY <1>8 DEF CommitOff, r
  <2>2. bet' \in [User -> [Match -> Bet \union {NULL}]]
    BY <1>b, <2>1, MultiplierTyped
  <2> QED BY <1>0, <2>1, <2>2, GotoTyped
<1>9. CASE CommitSet(u, t)
  <2>1. /\ bet' = [bet EXCEPT ![u] =
                     [m \in Match |-> IF m = r.match THEN WithMultiplier(@[m], 2)
                                  ELSE IF m = r.old THEN WithMultiplier(@[m], 1)
                                  ELSE @[m]]]
        /\ Goto(u, t, Idle)
    BY <1>9 DEF CommitSet, r
  <2>2. \A m \in Match : /\ WithMultiplier(bet[u][m], 1) \in Bet \union {NULL}
                        /\ WithMultiplier(bet[u][m], 2) \in Bet \union {NULL}
    BY <1>b, MultiplierTyped
  <2>3. bet' \in [User -> [Match -> Bet \union {NULL}]]
    BY <1>b, <2>1, <2>2
  <2> QED BY <1>0, <2>1, <2>3, GotoTyped
<1>10. CASE RequestFails(u, t)
  BY <1>0, <1>b, <1>10, GotoTyped DEF RequestFails
<1> QED BY <1>1, <1>2, <1>3, <1>6, <1>7, <1>8, <1>9, <1>10 DEF Handler

-----------------------------------------------------------------------------
(***************************************************************************)
(* The steps of the feed, the loop, the operator and the clock.            *)
(***************************************************************************)
LEMMA SyncTyped ==
  ASSUME TypeOK, SyncCommit \/ SyncSkips
  PROVE  /\ match' \in [Match -> Row]
         /\ spent' \in [requests : Nat, syncs : Nat, faults : Nat]
<1>1. CASE SyncSkips
  BY <1>1 DEF SyncSkips, TypeOK
<1>2. CASE SyncCommit
  <2>1. PICK rows \in Fetched : match' = [m \in Match |-> Stored(m, rows[m])]
    BY <1>2 DEF SyncCommit
  <2>2. \A m \in Match : rows[m] \in Row
    BY FeedAssumption DEF Fetched
  <2>3. \A m \in Match : Stored(m, rows[m]) \in Row
    BY <2>2 DEF Stored, TypeOK, Row
  <2>4. spent' \in [requests : Nat, syncs : Nat, faults : Nat]
    BY <1>2 DEF SyncCommit, Spend, TypeOK
  <2> QED BY <2>1, <2>3, <2>4
<1> QED BY <1>1, <1>2

LEMMA GradedTyped ==
  ASSUME TypeOK, NEW u \in User, NEW m \in Match
  PROVE  Graded(u, m) \in Bet \union {NULL}
<1>1. bet[u][m] \in Bet \union {NULL}
  BY DEF TypeOK
<1>2. CASE bet[u][m] = NULL \/ ~ Settled(m)
  BY <1>1, <1>2 DEF Graded
<1>3. CASE ~ (bet[u][m] = NULL \/ ~ Settled(m))
  <2>1. bet[u][m] \in Bet /\ bet[u][m].multiplier \in {1, 2}
    BY <1>1, <1>3 DEF Bet
  <2> DEFINE p == EffectivePoints(bet[u][m].score, bet[u][m].multiplier, match[m].result)
  <2>2. p \in {j * q : j \in {1, 2}, q \in {0, POINTS_OUTCOME, POINTS_EXACT}}
    BY <2>1, PointsInRange
  <2>3. Graded(u, m) = [bet[u][m] EXCEPT !.points = p]
    BY <1>3 DEF Graded
  <2> HIDE DEF p
  <2> QED BY <2>1, <2>2, <2>3 DEF Bet
<1> QED BY <1>2, <1>3

LEMMA ImportTyped ==
  ASSUME TypeOK, NEW u \in User, NEW source \in User, Import(u, source)
  PROVE  bet' \in [User -> [Match -> Bet \union {NULL}]]
<1>1. \A m \in Match : bet[source][m] # NULL => Fresh(bet[source][m].score) \in Bet
  BY DEF TypeOK, Fresh, Bet
<1> QED BY <1>1 DEF Import, TypeOK

LEMMA NextTyped ==
  ASSUME TypeOK, RequestOK, [Next]_vars
  PROVE  TypeOK' /\ RequestOK'
<1> USE DEF TypeOK
<1>1. ASSUME NEW u \in Active, NEW t \in Tab, Handler(u, t)
      PROVE  TypeOK' /\ RequestOK'
  BY <1>1, HandlerTyped, FeedAssumption
<1>2. ASSUME NEW u \in Active, NEW source \in User, Import(u, source)
      PROVE  TypeOK' /\ RequestOK'
  <2>1. bet' \in [User -> [Match -> Bet \union {NULL}]]
    BY <1>2, ImportTyped, FeedAssumption
  <2>2. spent' \in [requests : Nat, syncs : Nat, faults : Nat]
    BY <1>2 DEF Import, Spend
  <2> QED BY <1>2, <2>1, <2>2 DEF Import, RequestOK
<1>3. CASE LoopSync
  BY <1>3, SyncTyped DEF LoopSync, SyncCommit, SyncSkips, RequestOK
<1>4. CASE BootSync
  BY <1>4, SyncTyped DEF BootSync, SyncCommit, SyncSkips, RequestOK
<1>5. ASSUME RecomputeAll
      PROVE  bet' \in [User -> [Match -> Bet \union {NULL}]] /\ RequestOK'
  BY <1>5, GradedTyped DEF RecomputeAll, RequestOK
<1>6. CASE LoopScore
  <2>1. CASE RecomputeAll
    BY <1>5, <1>6, <2>1 DEF LoopScore, RecomputeAll
  <2>2. CASE ~ RecomputeAll
    BY <1>6, <2>2 DEF LoopScore, Spend, RequestOK
  <2> QED BY <2>1, <2>2
<1>7. CASE DigestRecompute
  BY <1>5, <1>7 DEF DigestRecompute, RecomputeAll
<1>8. CASE Restart
  <2>1. request' = [u \in User |-> [t \in Tab |-> Idle]] /\ booting' = TRUE /\ loop' = "sync"
    BY <1>8 DEF Restart
  <2>2. request' \in [User -> [Tab -> Request]] /\ RequestOK'
    BY <2>1, IdleTyped DEF RequestOK
  <2>3. spent' \in [requests : Nat, syncs : Nat, faults : Nat]
    BY <1>8 DEF Restart, Spend
  <2> QED BY <1>8, <2>1, <2>2, <2>3 DEF Restart
<1>9. ASSUME NEW m \in Match, NEW s \in Score, PinResult(m, s)
      PROVE  TypeOK' /\ RequestOK'
  <2>1. match' \in [Match -> Row]
    <3>1. \A row \in Row : [[row EXCEPT !.status = "FINISHED"] EXCEPT !.result = s] \in Row
      BY DEF Row, Status
    <3>2. match' = [match EXCEPT ![m] = [[@ EXCEPT !.status = "FINISHED"] EXCEPT !.result = s]]
      BY <1>9 DEF PinResult
    <3> QED BY <3>1, <3>2
  <2>2. spent' \in [requests : Nat, syncs : Nat, faults : Nat]
    BY <1>9 DEF PinResult, Spend
  <2> QED BY <1>9, <2>1, <2>2 DEF PinResult, RequestOK
<1>10. CASE SwitchJokers
  BY <1>10 DEF SwitchJokers, RequestOK
<1>11. CASE Tick
  <2>1. clock' \in 0..Horizon
    BY <1>11, BoundAssumption DEF Tick
  <2> QED BY <1>11, <2>1 DEF Tick, RequestOK
<1>12. CASE UNCHANGED vars
  BY <1>12 DEF vars, RequestOK
<1> QED BY <1>1, <1>2, <1>3, <1>4, <1>6, <1>7, <1>8, <1>9, <1>10, <1>11, <1>12 DEF Next

LEMMA Typed == Spec => [](TypeOK /\ RequestOK)
<1>1. Init => TypeOK /\ RequestOK
  BY InitTyped
<1>2. TypeOK /\ RequestOK /\ [Next]_vars => (TypeOK /\ RequestOK)'
  BY NextTyped
<1> QED BY <1>1, <1>2, PTL DEF Spec

(***************************************************************************)
(* Whatever the interleaving of handlers, syncs, passes, failures and      *)
(* restarts, the tables hold only values of their types: points above all, *)
(* which a handler, the sync and the re-grading all have a hand in.        *)
(***************************************************************************)
THEOREM TypeCorrect == Spec => []TypeOK
BY Typed, PTL

-----------------------------------------------------------------------------
(***************************************************************************)
(* The steps that write no bet.                                            *)
(***************************************************************************)
BetsUntouched ==
  \/ \E u \in Active, t \in Tab :
       \/ \E m \in Match, s \in Score : PlaceCheck(u, t, m, s)
       \/ \E m \in Match : ToggleCheck(u, t, m)
       \/ ReadMultiplier(u, t)
       \/ Seek(u, t)
       \/ RequestFails(u, t)
  \/ LoopSync \/ BootSync \/ Restart
  \/ LoopScore /\ ~ RecomputeAll
  \/ \E m \in Match, s \in Score : PinResult(m, s)
  \/ SwitchJokers
  \/ Tick
  \/ UNCHANGED vars

LEMMA UntouchedKeepsBets == BetsUntouched => UNCHANGED bet
BY DEF BetsUntouched, PlaceCheck, ToggleCheck, ReadMultiplier, Seek, RequestFails, Begin,
       LoopSync, BootSync, SyncCommit, SyncSkips, Restart, LoopScore, PinResult,
       SwitchJokers, Tick, vars

LEMMA StepsOnBets ==
  ASSUME [Next]_vars
  PROVE  \/ BetsUntouched
         \/ \E u \in Active, t \in Tab :
              PlaceWrite(u, t) \/ CommitOff(u, t) \/ CommitSet(u, t)
         \/ \E u \in Active, source \in User : Import(u, source)
         \/ RecomputeAll
BY DEF Next, Handler, BetsUntouched, DigestRecompute

(***************************************************************************)
(* Re-grading changes points and nothing else of a bet.                    *)
(***************************************************************************)
LEMMA GradingKeeps ==
  ASSUME TypeOK, NEW u \in User, NEW m \in Match
  PROVE  \/ Graded(u, m) = bet[u][m]
         \/ /\ bet[u][m] # NULL /\ Graded(u, m) # NULL
            /\ Graded(u, m).score = bet[u][m].score
            /\ Graded(u, m).multiplier = bet[u][m].multiplier
<1>1. CASE bet[u][m] = NULL \/ ~ Settled(m)
  BY <1>1 DEF Graded
<1>2. CASE ~ (bet[u][m] = NULL \/ ~ Settled(m))
  <2>1. bet[u][m] \in Bet /\ Graded(u, m) \in Bet \union {NULL}
    BY <1>2, GradedTyped DEF TypeOK
  <2> DEFINE p == EffectivePoints(bet[u][m].score, bet[u][m].multiplier, match[m].result)
  <2>2. Graded(u, m) = [bet[u][m] EXCEPT !.points = p]
    BY <1>2 DEF Graded
  <2>3. p \in {j * q : j \in {1, 2}, q \in {0, POINTS_OUTCOME, POINTS_EXACT}}
    BY <2>1, PointsInRange DEF Bet
  <2> HIDE DEF p
  <2>4. Graded(u, m) \in Bet
    BY <2>1, <2>2, <2>3 DEF Bet
  <2> QED BY <1>2, <2>1, <2>2, <2>4, NullAssumption DEF Bet
<1> QED BY <1>1, <1>2

LEMMA HindsightStep ==
  ASSUME TypeOK, RequestOK, [Next]_vars, NEW u \in User, NEW m \in Match
  PROVE  \/ bet'[u][m] = bet[u][m]
         \/ /\ bet[u][m] # NULL
            /\ bet'[u][m] # NULL
            /\ bet'[u][m].score = bet[u][m].score
            /\ Jokered(u, m)' => Jokered(u, m)
         \/ ~ Started(m)
         \/ \E t \in Tab : request[u][t] # Idle /\ m \notin request[u][t].closed
<1> DEFINE Goal == \/ bet'[u][m] = bet[u][m]
                   \/ /\ bet[u][m] # NULL
                      /\ bet'[u][m] # NULL
                      /\ bet'[u][m].score = bet[u][m].score
                      /\ Jokered(u, m)' => Jokered(u, m)
                   \/ ~ Started(m)
                   \/ \E t \in Tab : request[u][t] # Idle /\ m \notin request[u][t].closed
<1>b. bet[u] \in [Match -> Bet \union {NULL}] /\ bet \in [User -> [Match -> Bet \union {NULL}]]
  BY DEF TypeOK
<1>1. CASE BetsUntouched
  BY <1>1, UntouchedKeepsBets
<1>2. ASSUME NEW w \in Active, NEW t \in Tab, PlaceWrite(w, t)
      PROVE  Goal
  <2>1. CASE w = u /\ m = request[w][t].match
    BY <1>2, <2>1 DEF PlaceWrite, RequestOK, Idle
  <2>2. CASE ~ (w = u /\ m = request[w][t].match)
    BY <1>2, <2>2, <1>b DEF PlaceWrite
  <2> QED BY <2>1, <2>2
<1>3. ASSUME NEW b \in Bet \union {NULL}
      PROVE  \/ WithMultiplier(b, 1) = b
             \/ /\ b # NULL /\ WithMultiplier(b, 1) # NULL
                /\ WithMultiplier(b, 1).score = b.score
                /\ WithMultiplier(b, 1).multiplier = 1
  BY NullAssumption DEF WithMultiplier, Bet
<1>4. ASSUME NEW w \in Active, NEW t \in Tab, CommitOff(w, t)
      PROVE  Goal
  <2>1. bet'[u][m] = bet[u][m] \/ bet'[u][m] = WithMultiplier(bet[u][m], 1)
    BY <1>4, <1>b DEF CommitOff
  <2> QED BY <2>1, <1>3, <1>b DEF Jokered
<1>5. ASSUME NEW w \in Active, NEW t \in Tab, CommitSet(w, t)
      PROVE  Goal
  <2>1. CASE w = u /\ m = request[w][t].match
    BY <1>5, <2>1 DEF CommitSet, RequestOK, Idle
  <2>2. CASE ~ (w = u /\ m = request[w][t].match)
    <3>1. bet'[u][m] = bet[u][m] \/ bet'[u][m] = WithMultiplier(bet[u][m], 1)
      BY <1>5, <2>2, <1>b DEF CommitSet
    <3> QED BY <3>1, <1>3, <1>b DEF Jokered
  <2> QED BY <2>1, <2>2
<1>6. ASSUME NEW w \in Active, NEW source \in User, Import(w, source)
      PROVE  Goal
  <2>1. Open(m) => ~ Started(m)
    BY FeedAssumption DEF Open, betting_open, has_kicked_off, Started, TypeOK, Row, Status
  <2> QED BY <1>6, <1>b, <2>1 DEF Import
<1>7. CASE RecomputeAll
  <2>1. bet'[u][m] = Graded(u, m)
    BY <1>7 DEF RecomputeAll
  <2> QED BY <2>1, GradingKeeps DEF Jokered
<1> QED BY <1>1, <1>2, <1>4, <1>5, <1>6, <1>7, StepsOnBets

(***************************************************************************)
(* No prediction is entered, changed, imported or doubled with hindsight:  *)
(* at most the one request that came in before the kickoff writes after it.*)
(***************************************************************************)
THEOREM Hindsight == Spec => NoHindsight
<1>1. TypeOK /\ RequestOK /\ [Next]_vars
      => [\A u \in User, m \in Match :
            \/ bet'[u][m] = bet[u][m]
            \/ /\ bet[u][m] # NULL
               /\ bet'[u][m] # NULL
               /\ bet'[u][m].score = bet[u][m].score
               /\ Jokered(u, m)' => Jokered(u, m)
            \/ ~ Started(m)
            \/ \E t \in Tab : request[u][t] # Idle /\ m \notin request[u][t].closed]_vars
  BY HindsightStep
<1> QED BY <1>1, Typed, PTL DEF Spec, NoHindsight

-----------------------------------------------------------------------------
(***************************************************************************)
(* One joker per phase.                                                    *)
(*                                                                         *)
(* It takes two assumptions the code does not enforce: a player has one    *)
(* request in flight at a time, and the feed never moves a match to        *)
(* another stage.                                                          *)
(***************************************************************************)
OneAtATime == \A t1, t2 \in Tab : t1 = t2

StagesStay == \A m \in Match : Feed[m] # {} /\ \A row1, row2 \in Feed[m] : row1.stage = row2.stage

EnteredBy(u) == {m \in Match : bet[u][m] # NULL}

(***************************************************************************)
(* What a request has read of the player's jokers J and bets E still holds *)
(* when it writes.                                                         *)
(***************************************************************************)
StillTrue(r, J, E) ==
  /\ r.pc \in {"toggle", "off", "seek", "set"} => r.stage = PhaseOf(r.match)
  /\ r.pc \in {"toggle", "off", "seek"} => r.old = NULL
  /\ r.pc = "off" => r.match \in J
  /\ r.pc \in {"seek", "set"} => r.match \in E
  /\ r.pc = "set" => {m \in J : PhaseOf(m) = r.stage} \subseteq {r.old}
  /\ r.pc = "set" /\ r.old # NULL => PhaseOf(r.old) = r.stage

JokerInv ==
  /\ \A m \in Match : match[m].stage = PhaseOf(m)
  /\ \A u \in User : \A m, n \in JokersOf(u) : PhaseOf(m) = PhaseOf(n) => m = n
  /\ \A u \in User, t \in Tab : StillTrue(request[u][t], JokersOf(u), EnteredBy(u))

LEMMA PhaseIsTheStage ==
  ASSUME StagesStay, NEW m \in Match, NEW row \in Feed[m]
  PROVE  PhaseOf(m) = row.stage
<1>1. row.stage \in Stage
  BY FeedAssumption DEF Row
<1> QED BY <1>1 DEF StagesStay, PhaseOf

LEMMA StagesKept ==
  ASSUME TypeOK, JokerInv, StagesStay, [Next]_vars
  PROVE  \A m \in Match : match'[m].stage = PhaseOf(m)
<1>1. CASE UNCHANGED match
  BY <1>1 DEF JokerInv
<1>2. CASE SyncCommit
  <2>1. PICK rows \in Fetched : match' = [m \in Match |-> Stored(m, rows[m])]
    BY <1>2 DEF SyncCommit
  <2>2. ASSUME NEW m \in Match PROVE Stored(m, rows[m]).stage = PhaseOf(m)
    <3>1. rows[m] \in Feed[m] /\ rows[m] \in Row
      BY FeedAssumption DEF Fetched
    <3>2. Stored(m, rows[m]).stage = rows[m].stage
      BY <3>1 DEF Stored, Row
    <3> QED BY <3>1, <3>2, PhaseIsTheStage
  <2> QED BY <2>1, <2>2
<1>3. ASSUME NEW m \in Match, NEW s \in Score, PinResult(m, s)
      PROVE  \A n \in Match : match'[n].stage = PhaseOf(n)
  BY <1>3 DEF PinResult, JokerInv, TypeOK, Row
<1>4. ASSUME NEW u \in Active, NEW t \in Tab, Handler(u, t)
      PROVE  UNCHANGED match
  BY <1>4 DEF Handler, PlaceCheck, PlaceWrite, ToggleCheck, ReadMultiplier, Seek, CommitOff,
              CommitSet, RequestFails, Begin, Goto
<1>5. CASE LoopSync \/ BootSync
  BY <1>1, <1>2, <1>5 DEF LoopSync, BootSync, SyncSkips
<1>6. CASE LoopScore \/ DigestRecompute \/ Restart \/ SwitchJokers \/ Tick \/ UNCHANGED vars
  BY <1>1, <1>6 DEF LoopScore, DigestRecompute, RecomputeAll, Restart, SwitchJokers, Tick, vars
<1>7. ASSUME NEW u \in Active, NEW source \in User, Import(u, source)
      PROVE  UNCHANGED match
  BY <1>7 DEF Import
<1> QED BY <1>1, <1>3, <1>4, <1>5, <1>6, <1>7 DEF Next

(***************************************************************************)
(* What each step that writes bets does to the book.                       *)
(***************************************************************************)
LEMMA PlaceOnBook ==
  ASSUME TypeOK, RequestOK, NEW u \in User, NEW t \in Tab, PlaceWrite(u, t)
  PROVE  /\ Predicted(u)' = [Predicted(u) EXCEPT ![request[u][t].match] = request[u][t].score]
         /\ \A w \in User \ {u} : Predicted(w)' = Predicted(w)
         /\ \A w \in User : JokersOf(w)' = JokersOf(w)
<1> DEFINE r == request[u][t]
<1>1. r.match \in Match /\ r.score \in Score /\ r.score # NULL
  BY NullAssumption DEF PlaceWrite, RequestOK
<1>2. bet \in [User -> [Match -> Bet \union {NULL}]]
  BY DEF TypeOK
<1>3. bet' = [bet EXCEPT ![u][r.match] =
                IF @ = NULL THEN Fresh(r.score) ELSE [@ EXCEPT !.score = r.score]]
  BY DEF PlaceWrite
<1> HIDE DEF r
<1>4. \A b \in Bet : /\ b # NULL
                     /\ [b EXCEPT !.score = r.score] \in Bet
                     /\ [b EXCEPT !.score = r.score].score = r.score
                     /\ [b EXCEPT !.score = r.score].multiplier = b.multiplier
  BY <1>1, NullAssumption DEF Bet
<1>5. Fresh(r.score) \in Bet /\ Fresh(r.score).score = r.score /\ Fresh(r.score).multiplier = 1
  BY <1>1 DEF Fresh, Bet
<1>6. \A m \in Match \ {r.match} : bet'[u][m] = bet[u][m]
  BY <1>2, <1>3
<1>7. /\ bet'[u][r.match] # NULL /\ bet'[u][r.match].score = r.score
      /\ bet'[u][r.match].multiplier = 2 <=> Jokered(u, r.match)
  BY <1>1, <1>2, <1>3, <1>4, <1>5, NullAssumption DEF Jokered
<1>8. \A w \in User \ {u} : bet'[w] = bet[w]
  BY <1>2, <1>3
<1>9. Predicted(u)' = [Predicted(u) EXCEPT ![r.match] = r.score]
  BY <1>1, <1>6, <1>7 DEF Predicted
<1>10. \A w \in User \ {u} : Predicted(w)' = Predicted(w) /\ JokersOf(w)' = JokersOf(w)
  BY <1>8 DEF Predicted, JokersOf, Jokered
<1>11. JokersOf(u)' = JokersOf(u)
  BY <1>1, <1>6, <1>7 DEF JokersOf, Jokered
<1> QED BY <1>9, <1>10, <1>11 DEF r

LEMMA DoublingOnBet ==
  ASSUME NEW b \in Bet \union {NULL}, NEW k \in {1, 2}
  PROVE  /\ WithMultiplier(b, k) = NULL <=> b = NULL
         /\ b # NULL => /\ WithMultiplier(b, k).score = b.score
                        /\ WithMultiplier(b, k).multiplier = k
BY NullAssumption DEF WithMultiplier, Bet

LEMMA OffOnBook ==
  ASSUME TypeOK, RequestOK, NEW u \in User, NEW t \in Tab, CommitOff(u, t)
  PROVE  /\ \A w \in User : Predicted(w)' = Predicted(w)
         /\ \A w \in User \ {u} : JokersOf(w)' = JokersOf(w)
         /\ JokersOf(u)' = JokersOf(u) \ {request[u][t].match}
<1> DEFINE r == request[u][t]
<1>1. r.match \in Match
  BY DEF CommitOff, RequestOK
<1>2. bet \in [User -> [Match -> Bet \union {NULL}]]
  BY DEF TypeOK
<1>3. bet' = [bet EXCEPT ![u][r.match] = WithMultiplier(@, 1)]
  BY DEF CommitOff
<1> HIDE DEF r
<1>4. \A w \in User \ {u} : bet'[w] = bet[w]
  BY <1>2, <1>3
<1>5. \A m \in Match \ {r.match} : bet'[u][m] = bet[u][m]
  BY <1>2, <1>3
<1>6. bet'[u][r.match] = WithMultiplier(bet[u][r.match], 1)
  BY <1>1, <1>2, <1>3
<1>7. \A w \in User \ {u} : Predicted(w)' = Predicted(w) /\ JokersOf(w)' = JokersOf(w)
  BY <1>4 DEF Predicted, JokersOf, Jokered
<1>8. bet[u][r.match] \in Bet \union {NULL}
  BY <1>1, <1>2
<1>9. Predicted(u)' = Predicted(u)
  BY <1>5, <1>6, <1>8, DoublingOnBet DEF Predicted
<1>10. JokersOf(u)' = JokersOf(u) \ {r.match}
  BY <1>5, <1>6, <1>8, DoublingOnBet DEF JokersOf, Jokered
<1> QED BY <1>7, <1>9, <1>10 DEF r

LEMMA SetOnBook ==
  ASSUME TypeOK, RequestOK, NEW u \in User, NEW t \in Tab, CommitSet(u, t),
         bet[u][request[u][t].match] # NULL
  PROVE  /\ \A w \in User : Predicted(w)' = Predicted(w)
         /\ \A w \in User \ {u} : JokersOf(w)' = JokersOf(w)
         /\ JokersOf(u)' = (JokersOf(u) \ {request[u][t].old}) \union {request[u][t].match}
<1> DEFINE r == request[u][t]
<1>1. r.match \in Match
  BY DEF CommitSet, RequestOK
<1>2. bet \in [User -> [Match -> Bet \union {NULL}]]
  BY DEF TypeOK
<1>3. bet' = [bet EXCEPT ![u] =
                [m \in Match |-> IF m = r.match THEN WithMultiplier(@[m], 2)
                                  ELSE IF m = r.old THEN WithMultiplier(@[m], 1)
                                  ELSE @[m]]]
  BY DEF CommitSet
<1>s. bet'[u] = [m \in Match |-> IF m = r.match THEN WithMultiplier(bet[u][m], 2)
                                  ELSE IF m = r.old THEN WithMultiplier(bet[u][m], 1)
                                  ELSE bet[u][m]]
  BY <1>2, <1>3
<1>n. bet[u][r.match] # NULL
  OBVIOUS
<1> HIDE DEF r
<1>4. \A w \in User \ {u} : bet'[w] = bet[w]
  BY <1>2, <1>3
<1>5. \A m \in Match \ {r.match, r.old} : bet'[u][m] = bet[u][m]
  BY <1>s
<1>6. bet'[u][r.match] = WithMultiplier(bet[u][r.match], 2)
  BY <1>1, <1>s
<1>7. \A m \in Match : m = r.old /\ m # r.match => bet'[u][m] = WithMultiplier(bet[u][m], 1)
  BY <1>s
<1>8. \A m \in Match : bet[u][m] \in Bet \union {NULL}
  BY <1>2
<1>9. \A w \in User \ {u} : Predicted(w)' = Predicted(w) /\ JokersOf(w)' = JokersOf(w)
  BY <1>4 DEF Predicted, JokersOf, Jokered
<1>10. \A m \in Match :
         IF bet'[u][m] = NULL THEN bet[u][m] = NULL
         ELSE bet[u][m] # NULL /\ bet'[u][m].score = bet[u][m].score
  BY <1>1, <1>5, <1>6, <1>7, <1>8, DoublingOnBet
<1>11. Predicted(u)' = Predicted(u)
  BY <1>10 DEF Predicted
<1>12. \A m \in Match : Jokered(u, m)' <=> m = r.match \/ (Jokered(u, m) /\ m # r.old)
  BY <1>n, <1>1, <1>5, <1>6, <1>7, <1>8, DoublingOnBet DEF Jokered
<1>13. JokersOf(u)' = (JokersOf(u) \ {r.old}) \union {r.match}
  BY <1>1, <1>12 DEF JokersOf
<1> QED BY <1>9, <1>11, <1>13 DEF r

LEMMA ImportOnBook ==
  ASSUME TypeOK, NEW u \in User, NEW source \in User, Import(u, source)
  PROVE  /\ \A w \in User \ {u} : Predicted(w)' = Predicted(w)
         /\ \A w \in User : JokersOf(w)' = JokersOf(w)
         /\ \E copied \in [Match -> Score \union {NULL}] :
              Predicted(u)' = [m \in Match |-> IF Predicted(u)[m] = NULL THEN copied[m]
                                               ELSE Predicted(u)[m]]
<1>1. bet \in [User -> [Match -> Bet \union {NULL}]]
  BY DEF TypeOK
<1>2. \A w \in User \ {u} : bet'[w] = bet[w]
  BY <1>1 DEF Import
<1>3. \A w \in User \ {u} : Predicted(w)' = Predicted(w) /\ JokersOf(w)' = JokersOf(w)
  BY <1>2 DEF Predicted, JokersOf, Jokered
<1>4. \A m \in Match :
        \/ bet'[u][m] = bet[u][m]
        \/ /\ bet[u][m] = NULL /\ bet[source][m] \in Bet
           /\ bet'[u][m] = Fresh(bet[source][m].score)
  BY <1>1 DEF Import
<1>5. \A s : Fresh(s) = [score |-> s, multiplier |-> 1, points |-> NULL]
  BY DEF Fresh
<1>6. \A b \in Bet : b.score \in Score /\ Fresh(b.score) \in Bet /\ Fresh(b.score) # NULL
  BY <1>5, NullAssumption DEF Bet
<1>7. JokersOf(u)' = JokersOf(u)
  BY <1>4, <1>5, <1>6 DEF JokersOf, Jokered
<1> DEFINE copied == [m \in Match |-> IF bet'[u][m] = NULL THEN NULL ELSE bet'[u][m].score]
<1>8. copied \in [Match -> Score \union {NULL}]
  BY <1>1, <1>4, <1>5, <1>6 DEF Bet
<1>9. \A m \in Match : bet[u][m] # NULL => bet'[u][m] = bet[u][m] /\ bet[u][m].score # NULL
  BY <1>1, <1>4, NullAssumption DEF Bet
<1>10. Predicted(u)' = [m \in Match |-> IF Predicted(u)[m] = NULL THEN copied[m]
                                         ELSE Predicted(u)[m]]
  BY <1>9 DEF Predicted
<1> QED BY <1>3, <1>7, <1>8, <1>10

LEMMA GradingOnBook ==
  ASSUME TypeOK, RecomputeAll
  PROVE  \A w \in User : Predicted(w)' = Predicted(w) /\ JokersOf(w)' = JokersOf(w)
<1>1. \A w \in User, m \in Match : bet'[w][m] = Graded(w, m)
  BY DEF RecomputeAll
<1>2. \A w \in User, m \in Match :
        \/ bet'[w][m] = bet[w][m]
        \/ /\ bet[w][m] # NULL /\ bet'[w][m] # NULL
           /\ bet'[w][m].score = bet[w][m].score
           /\ bet'[w][m].multiplier = bet[w][m].multiplier
  BY <1>1, GradingKeeps
<1> QED BY <1>2 DEF Predicted, JokersOf, Jokered

LEMMA UntouchedOnBook ==
  ASSUME BetsUntouched
  PROVE  \A w \in User : Predicted(w)' = Predicted(w) /\ JokersOf(w)' = JokersOf(w)
BY UntouchedKeepsBets DEF Predicted, JokersOf, Jokered

(***************************************************************************)
(* EnteredBy is the domain of Predicted.                                   *)
(***************************************************************************)
LEMMA EnteredIsPredicted ==
  ASSUME TypeOK, NEW u \in User
  PROVE  EnteredBy(u) = {m \in Match : Predicted(u)[m] # NULL}
BY NullAssumption DEF TypeOK, Bet, EnteredBy, Predicted

-----------------------------------------------------------------------------
(***************************************************************************)
(* What happens to the requests.                                           *)
(***************************************************************************)

\* A request moves on: nobody else's does.
LEMMA GotoMoves ==
  ASSUME TypeOK, NEW u \in User, NEW t \in Tab, NEW r, Goto(u, t, r)
  PROVE  /\ request'[u][t] = r
         /\ \A w \in User, x \in Tab : w # u \/ x # t => request'[w][x] = request[w][x]
BY DEF TypeOK, Goto

LEMMA RestStillTrue ==
  ASSUME NEW J, NEW E
  PROVE  StillTrue(Idle, J, E)
BY DEF StillTrue, Idle

\* New bets make nothing a request has read untrue.
LEMMA MoreBetsStillTrue ==
  ASSUME NEW r, NEW J, NEW E, NEW F, E \subseteq F, StillTrue(r, J, E)
  PROVE  StillTrue(r, J, F)
BY DEF StillTrue

(***************************************************************************)
(* A handler that writes nothing moves on with what is true.               *)
(***************************************************************************)
LEMMA ReadersStillTrue ==
  ASSUME TypeOK, RequestOK, JokerInv, BetsUntouched, NEW u \in User, NEW t \in Tab
  PROVE  StillTrue(request'[u][t], JokersOf(u), EnteredBy(u))
<1> DEFINE J == JokersOf(u)
           E == EnteredBy(u)
<1>0. StillTrue(request[u][t], J, E) /\ StillTrue(Idle, J, E)
  BY RestStillTrue DEF JokerInv
<1>1. CASE request'[u][t] = request[u][t] \/ request'[u][t] = Idle
  BY <1>0, <1>1
<1>2. ASSUME NEW w \in Active, NEW x \in Tab, NEW m \in Match, NEW s \in Score,
             PlaceCheck(w, x, m, s)
      PROVE  request'[u][t] = request[u][t] \/ request'[u][t].pc = "place"
  BY <1>2, FeedAssumption DEF PlaceCheck, Begin, Idle, TypeOK
<1>3. ASSUME request'[u][t].pc = "place"
      PROVE  StillTrue(request'[u][t], J, E)
  BY <1>3 DEF StillTrue
<1>4. ASSUME NEW w \in Active, NEW x \in Tab, NEW m \in Match, ToggleCheck(w, x, m)
      PROVE  request'[u][t] = request[u][t] \/ StillTrue(request'[u][t], J, E)
  <2>1. request'[u][t] = request[u][t]
          \/ /\ request'[u][t].pc = "toggle" /\ request'[u][t].match = m
             /\ request'[u][t].stage = match[m].stage /\ request'[u][t].old = NULL
    BY <1>4, FeedAssumption DEF ToggleCheck, Begin, Idle, TypeOK
  <2> QED BY <2>1 DEF StillTrue, JokerInv
<1>5. ASSUME NEW w \in User, NEW x \in Tab, ReadMultiplier(w, x), w = u /\ x = t
      PROVE  StillTrue(request'[u][t], J, E)
  <2> DEFINE r == request[u][t]
  <2>1. /\ r \in Request /\ r.pc = "toggle" /\ r.match \in Match /\ StillTrue(r, J, E)
    BY <1>0, <1>5 DEF ReadMultiplier, RequestOK, TypeOK
  <2>2. \E q : /\ Goto(u, t, q)
              /\ \/ q = Idle
                 \/ q = [r EXCEPT !.pc = "off"] /\ r.match \in J
                 \/ q = [r EXCEPT !.pc = "seek"] /\ r.match \in E
    BY <1>5, <2>1 DEF ReadMultiplier, JokersOf, EnteredBy
  <2>3. PICK q : /\ request'[u][t] = q
                 /\ \/ q = Idle
                    \/ q = [r EXCEPT !.pc = "off"] /\ r.match \in J
                    \/ q = [r EXCEPT !.pc = "seek"] /\ r.match \in E
    BY <2>2, GotoMoves
  <2> HIDE DEF r, J, E
  <2> QED BY <1>0, <2>1, <2>3 DEF StillTrue, Request
<1>6. ASSUME NEW w \in User, NEW x \in Tab, Seek(w, x), w = u /\ x = t
      PROVE  StillTrue(request'[u][t], J, E)
  <2> DEFINE r == request[u][t]
  <2>1. /\ r \in Request /\ r.pc = "seek" /\ StillTrue(r, J, E)
    BY <1>0, <1>6 DEF Seek, TypeOK
  <2>2. Holding(u, r.stage) = {m \in J : PhaseOf(m) = r.stage}
    BY DEF Holding, JokersOf, JokerInv
  <2>3. \A m, n \in J : PhaseOf(m) = PhaseOf(n) => m = n
    BY DEF JokerInv
  <2>4. \E q : /\ Goto(u, t, q)
              /\ \/ q = Idle
                 \/ q = [r EXCEPT !.pc = "set"] /\ Holding(u, r.stage) = {}
                 \/ \E old \in Holding(u, r.stage) : q = [r EXCEPT !.pc = "set", !.old = old]
    BY <1>6 DEF Seek
  <2> HIDE DEF r, J, E
  <2>g. \A q : Goto(u, t, q) => request'[u][t] = q
    BY GotoMoves
  <2>5. PICK q : /\ request'[u][t] = q
                 /\ \/ q = Idle
                    \/ q = [r EXCEPT !.pc = "set"] /\ Holding(u, r.stage) = {}
                    \/ \E old \in Holding(u, r.stage) : q = [r EXCEPT !.pc = "set", !.old = old]
    BY <2>4, <2>g
  <2>6. CASE q = [r EXCEPT !.pc = "set"] /\ Holding(u, r.stage) = {}
    BY <2>1, <2>2, <2>5, <2>6 DEF StillTrue, Request
  <2>7. ASSUME NEW old \in Holding(u, r.stage), q = [r EXCEPT !.pc = "set", !.old = old]
        PROVE  StillTrue(q, J, E)
    <3>1. q.pc = "set" /\ q.old = old /\ q.match = r.match /\ q.stage = r.stage
      BY <2>1, <2>7 DEF Request
    <3>2. {m \in J : PhaseOf(m) = r.stage} \subseteq {old} /\ PhaseOf(old) = r.stage
      BY <2>2, <2>3, <2>7
    <3> QED BY <2>1, <3>1, <3>2 DEF StillTrue
  <2> QED BY <1>0, <2>5, <2>6, <2>7
<1>7. ASSUME NEW w \in User, NEW x \in Tab, ReadMultiplier(w, x) \/ Seek(w, x), w # u \/ x # t
      PROVE  request'[u][t] = request[u][t]
  <2>1. \E q : Goto(w, x, q)
    BY <1>7 DEF ReadMultiplier, Seek
  <2> QED BY <1>7, <2>1, GotoMoves
<1>8. ASSUME NEW w \in User, NEW x \in Tab, RequestFails(w, x)
      PROVE  request'[u][t] = request[u][t] \/ request'[u][t] = Idle
  BY <1>8 DEF RequestFails, Goto, TypeOK
<1>9. CASE LoopSync \/ BootSync \/ Restart \/ (LoopScore /\ ~ RecomputeAll) \/ SwitchJokers
             \/ Tick \/ UNCHANGED vars \/ \E m \in Match, s \in Score : PinResult(m, s)
  <2>1. UNCHANGED request \/ Restart
    BY <1>9 DEF LoopSync, BootSync, SyncCommit, SyncSkips, LoopScore, SwitchJokers, Tick, vars, PinResult
  <2> QED BY <1>1, <2>1 DEF Restart
<1> QED BY <1>1, <1>2, <1>3, <1>4, <1>5, <1>6, <1>7, <1>8, <1>9, FeedAssumption DEF BetsUntouched

-----------------------------------------------------------------------------
(***************************************************************************)
(* A bet, once there, stays.                                               *)
(***************************************************************************)
LEMMA BetsStay ==
  ASSUME TypeOK, RequestOK, [Next]_vars, NEW u \in User, NEW m \in Match, bet[u][m] # NULL
  PROVE  bet'[u][m] # NULL
<1>1. bet \in [User -> [Match -> Bet \union {NULL}]] /\ bet[u][m] \in Bet
  BY DEF TypeOK
<1>2. CASE BetsUntouched
  BY <1>2, UntouchedKeepsBets
<1>3. ASSUME NEW w \in Active, NEW t \in Tab, PlaceWrite(w, t)
      PROVE  bet'[u][m] # NULL
  <2>1. request[w][t].score \in Score
    BY <1>3, FeedAssumption DEF PlaceWrite, RequestOK
  <2>2. [bet[u][m] EXCEPT !.score = request[w][t].score] \in Bet
    BY <1>1, <2>1 DEF Bet
  <2>3. bet'[u][m] \in {bet[u][m], [bet[u][m] EXCEPT !.score = request[w][t].score]}
    BY <1>1, <1>3 DEF PlaceWrite
  <2> QED BY <2>2, <2>3, NullAssumption
<1>4. ASSUME NEW w \in Active, NEW t \in Tab, CommitOff(w, t) \/ CommitSet(w, t)
      PROVE  bet'[u][m] # NULL
  <2>1. bet'[u][m] \in {bet[u][m], WithMultiplier(bet[u][m], 1), WithMultiplier(bet[u][m], 2)}
    <3>1. CASE CommitOff(w, t)
      BY <1>1, <3>1 DEF CommitOff
    <3>2. CASE CommitSet(w, t)
      BY <1>1, <3>2 DEF CommitSet
    <3> QED BY <1>4, <3>1, <3>2
  <2> QED BY <1>1, <2>1, DoublingOnBet
<1>5. ASSUME NEW w \in Active, NEW source \in User, Import(w, source)
      PROVE  bet'[u][m] # NULL
  BY <1>1, <1>5 DEF Import
<1>6. CASE RecomputeAll
  BY <1>6, GradingKeeps DEF RecomputeAll
<1> QED BY <1>2, <1>3, <1>4, <1>5, <1>6, StepsOnBets

LEMMA JokersUnique ==
  ASSUME TypeOK, RequestOK, JokerInv, [Next]_vars
  PROVE  \A u \in User : \A m, n \in JokersOf(u)' : PhaseOf(m) = PhaseOf(n) => m = n
<1>1. ASSUME \A u \in User : JokersOf(u)' = JokersOf(u)
      PROVE  \A u \in User : \A m, n \in JokersOf(u)' : PhaseOf(m) = PhaseOf(n) => m = n
  BY <1>1 DEF JokerInv
<1>2. ASSUME NEW w \in Active, NEW x \in Tab, CommitOff(w, x), NEW u \in User,
             NEW m \in JokersOf(u)', NEW n \in JokersOf(u)', PhaseOf(m) = PhaseOf(n)
      PROVE  m = n
  BY <1>2, OffOnBook, FeedAssumption DEF JokerInv
<1>3. ASSUME NEW w \in Active, NEW x \in Tab, CommitSet(w, x), NEW u \in User,
             NEW m \in JokersOf(u)', NEW n \in JokersOf(u)', PhaseOf(m) = PhaseOf(n)
      PROVE  m = n
  <2> DEFINE r == request[w][x]
             J == JokersOf(w)
  <2>1. w \in User /\ r.pc = "set" /\ r.match \in Match
    BY <1>3, FeedAssumption DEF CommitSet, RequestOK
  <2>2. StillTrue(r, J, EnteredBy(w)) /\ bet[w][r.match] # NULL
    BY <2>1 DEF JokerInv, StillTrue, EnteredBy
  <2>3. CASE u # w
    BY <1>3, <2>1, <2>2, <2>3, SetOnBook DEF JokerInv
  <2>4. CASE u = w
    <3>1. JokersOf(u)' = (J \ {r.old}) \union {r.match}
      BY <1>3, <2>1, <2>2, <2>4, SetOnBook
    <3>2. \A j \in J : PhaseOf(j) = PhaseOf(r.match) => j = r.old
      BY <2>1, <2>2 DEF StillTrue
    <3>3. \A j, k \in J : PhaseOf(j) = PhaseOf(k) => j = k
      BY <2>1 DEF JokerInv
    <3> HIDE DEF r, J
    <3> QED BY <1>3, <3>1, <3>2, <3>3
  <2> QED BY <2>3, <2>4
<1>4. (\E u \in Active, t \in Tab : PlaceWrite(u, t)) => \A u \in User : JokersOf(u)' = JokersOf(u)
  BY PlaceOnBook, FeedAssumption
<1>5. (\E u \in Active, s \in User : Import(u, s)) => \A u \in User : JokersOf(u)' = JokersOf(u)
  BY ImportOnBook, FeedAssumption
<1> QED BY <1>1, <1>2, <1>3, <1>4, <1>5, StepsOnBets, UntouchedOnBook, GradingOnBook

LEMMA RequestsStillTrue ==
  ASSUME TypeOK, RequestOK, JokerInv, OneAtATime, [Next]_vars, NEW u \in User, NEW t \in Tab
  PROVE  StillTrue(request'[u][t], JokersOf(u)', EnteredBy(u)')
<1>1. EnteredBy(u) \subseteq EnteredBy(u)'
  BY BetsStay DEF EnteredBy
<1>2. ASSUME JokersOf(u)' = JokersOf(u), StillTrue(request'[u][t], JokersOf(u), EnteredBy(u))
      PROVE  StillTrue(request'[u][t], JokersOf(u)', EnteredBy(u)')
  BY <1>1, <1>2, MoreBetsStillTrue
<1>3. StillTrue(request[u][t], JokersOf(u), EnteredBy(u)) /\ StillTrue(Idle, JokersOf(u), EnteredBy(u))
        /\ StillTrue(Idle, JokersOf(u)', EnteredBy(u)')
  BY RestStillTrue DEF JokerInv
<1>4. CASE BetsUntouched
  BY <1>2, <1>4, ReadersStillTrue, UntouchedOnBook
<1>5. ASSUME NEW w \in Active, NEW x \in Tab, PlaceWrite(w, x)
      PROVE  StillTrue(request'[u][t], JokersOf(u)', EnteredBy(u)')
  <2>1. JokersOf(u)' = JokersOf(u)
    BY <1>5, PlaceOnBook, FeedAssumption
  <2>2. Goto(w, x, Idle) /\ w \in User
    BY <1>5, FeedAssumption DEF PlaceWrite
  <2>3. request'[u][t] \in {request[u][t], Idle}
    BY <2>2, GotoMoves
  <2> QED BY <1>2, <1>3, <2>1, <2>3
<1>6. ASSUME NEW w \in Active, NEW x \in Tab, CommitOff(w, x) \/ CommitSet(w, x)
      PROVE  StillTrue(request'[u][t], JokersOf(u)', EnteredBy(u)')
  <2>1. w \in User /\ request[w][x].match \in Match
    BY <1>6, FeedAssumption DEF CommitOff, CommitSet, RequestOK
  <2>2. Goto(w, x, Idle)
    BY <1>6 DEF CommitOff, CommitSet
  <2>3. CASE w = u
    <3>1. request'[u][t] = Idle
      BY <2>2, <2>3, GotoMoves DEF OneAtATime
    <3> QED BY <1>3, <3>1
  <2>4. CASE w # u
    <3>1. request'[u][t] = request[u][t]
      BY <2>1, <2>2, <2>4, GotoMoves
    <3>2. CASE CommitOff(w, x)
      BY <1>2, <1>3, <2>1, <2>4, <3>1, <3>2, OffOnBook
    <3>3. CASE CommitSet(w, x)
      <4>1. bet[w][request[w][x].match] # NULL
        BY <2>1, <3>3 DEF JokerInv, StillTrue, EnteredBy, CommitSet
      <4> QED BY <1>2, <1>3, <2>1, <2>4, <3>1, <3>3, <4>1, SetOnBook
    <3> QED BY <1>6, <3>2, <3>3
  <2> QED BY <2>3, <2>4
<1>7. ASSUME NEW w \in Active, NEW source \in User, Import(w, source)
      PROVE  StillTrue(request'[u][t], JokersOf(u)', EnteredBy(u)')
  <2>1. JokersOf(u)' = JokersOf(u)
    BY <1>7, ImportOnBook, FeedAssumption
  <2>2. request' = request
    BY <1>7 DEF Import
  <2> QED BY <1>2, <1>3, <2>1, <2>2
<1>8. CASE RecomputeAll
  BY <1>2, <1>3, <1>8, GradingOnBook DEF RecomputeAll
<1> QED BY <1>4, <1>5, <1>6, <1>7, <1>8, StepsOnBets

LEMMA InitJokers ==
  ASSUME StagesStay, Init
  PROVE  JokerInv
<1>1. \A m \in Match : match[m].stage = PhaseOf(m)
  BY PhaseIsTheStage, FeedAssumption DEF Init, Fetched
<1>2. \A u \in User : JokersOf(u) = {}
  BY DEF Init, Fresh, JokersOf, Jokered
<1>3. \A u \in User, t \in Tab : request[u][t] = Idle
  BY DEF Init
<1> QED BY <1>1, <1>2, <1>3, RestStillTrue DEF JokerInv

LEMMA JokersKept ==
  ASSUME OneAtATime, StagesStay
  PROVE  Spec => []JokerInv
<1>1. Init => JokerInv
  BY InitJokers
<1>2. TypeOK /\ RequestOK /\ JokerInv /\ [Next]_vars => JokerInv'
  <2> SUFFICES ASSUME TypeOK, RequestOK, JokerInv, [Next]_vars PROVE JokerInv'
    OBVIOUS
  <2>1. (\A m \in Match : match[m].stage = PhaseOf(m))'
    BY StagesKept
  <2>2. (\A u \in User : \A m, n \in JokersOf(u) : PhaseOf(m) = PhaseOf(n) => m = n)'
    BY JokersUnique
  <2>3. (\A u \in User, t \in Tab : StillTrue(request[u][t], JokersOf(u), EnteredBy(u)))'
    BY RequestsStillTrue
  <2> QED BY <2>1, <2>2, <2>3 DEF JokerInv
<1> QED BY <1>1, <1>2, Typed, PTL DEF Spec

(***************************************************************************)
(* A player who sends one request at a time never holds two jokers of one  *)
(* phase, whatever the sync, the loop, failures and restarts do in between.*)
(* With two requests at a time the player can: MCBettingTabs.              *)
(***************************************************************************)
THEOREM OneJoker ==
  ASSUME OneAtATime, StagesStay
  PROVE  Spec => []OneJokerPerPhase
<1>1. JokerInv => OneJokerPerPhase
  BY DEF JokerInv, OneJokerPerPhase, JokersOf
<1> QED BY <1>1, JokersKept, PTL

-----------------------------------------------------------------------------
(***************************************************************************)
(* The handlers implement the book.                                        *)
(***************************************************************************)
LEMMA BookStep ==
  ASSUME TypeOK, RequestOK, JokerInv, [Next]_vars
  PROVE  [Book!Next]_(Book!vars)
<1> DEFINE Kept == \A w \in User : Predicted(w)' = Predicted(w) /\ JokersOf(w)' = JokersOf(w)
<1>1. Kept => UNCHANGED Book!vars
  BY DEF Book!vars
<1> HIDE DEF Kept
<1>2. CASE BetsUntouched \/ RecomputeAll
  BY <1>1, <1>2, UntouchedOnBook, GradingOnBook DEF Kept
<1>3. ASSUME NEW u \in Active, NEW t \in Tab, PlaceWrite(u, t)
      PROVE  Book!Next
  <2> DEFINE r == request[u][t]
  <2>1. u \in User /\ r.match \in Match /\ r.score \in Score
    BY <1>3, FeedAssumption DEF PlaceWrite, RequestOK
  <2>2. /\ Predicted(u)' = [Predicted(u) EXCEPT ![r.match] = r.score]
        /\ \A w \in User \ {u} : Predicted(w)' = Predicted(w)
        /\ \A w \in User : JokersOf(w)' = JokersOf(w)
    BY <1>3, <2>1, PlaceOnBook
  <2> HIDE DEF r
  <2>3. Book!Predict(u, r.match, r.score)
    BY <2>1, <2>2 DEF Book!Predict
  <2> QED BY <2>1, <2>3 DEF Book!Next
<1>4. ASSUME NEW u \in Active, NEW t \in Tab, CommitOff(u, t)
      PROVE  Book!Next
  <2> DEFINE r == request[u][t]
  <2>1. u \in User /\ r.match \in Match /\ r.match \in JokersOf(u)
    BY <1>4, FeedAssumption DEF CommitOff, RequestOK, JokerInv, StillTrue
  <2>2. /\ \A w \in User : Predicted(w)' = Predicted(w)
        /\ \A w \in User \ {u} : JokersOf(w)' = JokersOf(w)
        /\ JokersOf(u)' = JokersOf(u) \ {r.match}
    BY <1>4, <2>1, OffOnBook
  <2> HIDE DEF r
  <2>3. Book!TakeBack(u, r.match)
    BY <2>1, <2>2 DEF Book!TakeBack
  <2> QED BY <2>1, <2>3 DEF Book!Next
<1>5. ASSUME NEW u \in Active, NEW t \in Tab, CommitSet(u, t)
      PROVE  Book!Next
  <2> DEFINE r == request[u][t]
             J == JokersOf(u)
  <2>1. u \in User /\ r.match \in Match /\ r.pc = "set"
    BY <1>5, FeedAssumption DEF CommitSet, RequestOK
  <2>2. StillTrue(r, J, EnteredBy(u)) /\ bet[u][r.match] # NULL
    BY <2>1 DEF JokerInv, StillTrue, EnteredBy
  <2>3. /\ \A w \in User : Predicted(w)' = Predicted(w)
        /\ \A w \in User \ {u} : JokersOf(w)' = JokersOf(w)
        /\ JokersOf(u)' = (J \ {r.old}) \union {r.match}
    BY <1>5, <2>1, <2>2, SetOnBook
  <2>4. Predicted(u)[r.match] # NULL
    BY <2>1, <2>2, NullAssumption DEF Predicted, TypeOK, Bet
  <2>5. J \subseteq Match
    BY DEF JokersOf
  <2>6. r.old \in J => PhaseOf(r.old) = PhaseOf(r.match)
    BY <2>1, <2>2, <2>5, NullAssumption DEF StillTrue
  <2>7. \A j \in J : PhaseOf(j) = PhaseOf(r.match) => j = r.old
    BY <2>1, <2>2 DEF StillTrue
  <2> HIDE DEF r, J
  <2>8. JokersOf(u)' = {r.match} \union {other \in J : PhaseOf(other) # PhaseOf(r.match)}
    BY <2>3, <2>6, <2>7
  <2>9. Book!Move(u, r.match)
    BY <2>1, <2>3, <2>4, <2>5, <2>8 DEF Book!Move, J
  <2> QED BY <2>1, <2>9 DEF Book!Next
<1>6. ASSUME NEW u \in Active, NEW source \in User, Import(u, source)
      PROVE  Book!Next
  <2>1. u \in User
    BY FeedAssumption
  <2>2. PICK copied \in [Match -> Score \union {NULL}] :
          Predicted(u)' = [m \in Match |-> IF Predicted(u)[m] = NULL THEN copied[m]
                                           ELSE Predicted(u)[m]]
    BY <1>6, <2>1, ImportOnBook
  <2>3. /\ \A w \in User \ {u} : Predicted(w)' = Predicted(w)
        /\ \A w \in User : JokersOf(w)' = JokersOf(w)
    BY <1>6, <2>1, ImportOnBook
  <2>4. Book!Fill(u, copied)
    BY <2>1, <2>2, <2>3 DEF Book!Fill
  <2> QED BY <2>1, <2>4 DEF Book!Next
<1> QED BY <1>2, <1>3, <1>4, <1>5, <1>6, StepsOnBets

(***************************************************************************)
(* One request at a time and stable stages: statement by statement, the    *)
(* handlers do to predictions and jokers what JokerBook does in one step.  *)
(***************************************************************************)
THEOREM Implements ==
  ASSUME OneAtATime, StagesStay
  PROVE  Spec => AtomicBook
<1>1. Init => Book!Init
  <2> SUFFICES ASSUME Init PROVE Book!Init
    OBVIOUS
  <2>1. \A u \in User : Predicted(u) \in [Match -> Score \union {NULL}]
    BY FeedAssumption, NullAssumption DEF Init, Predicted, Fresh
  <2>2. \A u \in User : JokersOf(u) = {}
    BY DEF Init, Fresh, JokersOf, Jokered
  <2> QED BY <2>1, <2>2 DEF Book!Init
<1>2. TypeOK /\ RequestOK /\ JokerInv /\ [Next]_vars => [Book!Next]_(Book!vars)
  BY BookStep
<1> QED BY <1>1, <1>2, Typed, JokersKept, PTL DEF Spec, AtomicBook, Book!Spec

-----------------------------------------------------------------------------
(***************************************************************************)
(* The points settle: once the players and the matches rest, and as the    *)
(* loop goes on grading, whatever other jobs do.                           *)
(***************************************************************************)
PlayersWrite ==
  \E u \in Active :
    \/ \E t \in Tab : PlaceWrite(u, t) \/ CommitOff(u, t) \/ CommitSet(u, t)
    \/ \E source \in User : Import(u, source)

Rest == ~ PlayersWrite /\ match' = match

LEMMA GradingIsRight == TypeOK /\ RecomputeAll => PointsRight'
<1> SUFFICES ASSUME TypeOK, RecomputeAll, NEW u \in User, NEW m \in Match,
                    bet'[u][m] # NULL, Settled(m)'
             PROVE  bet'[u][m].points =
                      EffectivePoints(bet'[u][m].score, bet'[u][m].multiplier, match'[m].result)
  BY DEF PointsRight, Settled
<1>1. bet'[u][m] = Graded(u, m) /\ match' = match /\ Settled(m)
  BY DEF RecomputeAll, Settled
<1>2. bet[u][m] # NULL /\ bet[u][m] \in Bet
  BY <1>1 DEF Graded, TypeOK
<1> QED BY <1>1, <1>2 DEF Graded, Bet

LEMMA RestKeepsPointsRight == TypeOK /\ PointsRight /\ [Next]_vars /\ [Rest]_vars => PointsRight'
<1> SUFFICES ASSUME TypeOK, PointsRight, [Next]_vars, [Rest]_vars, ~ RecomputeAll PROVE PointsRight'
  BY GradingIsRight
<1>1. match' = match
  BY DEF Rest, vars
<1>2. bet' = bet
  <2>1. CASE UNCHANGED vars
    BY <2>1 DEF vars
  <2>2. CASE BetsUntouched
    BY <2>2, UntouchedKeepsBets
  <2> QED BY <2>1, <2>2, StepsOnBets DEF Rest, PlayersWrite
<1> QED BY <1>1, <1>2 DEF PointsRight, Settled

(***************************************************************************)
(* PointsSettle, whatever was written, corrected and pinned, and whatever  *)
(* failed, before: every pass of the loop that does not fail re-grades all *)
(* (recompute_all of src/scoring.rs), and no other job unsettles it.       *)
(***************************************************************************)
THEOREM PointsGetRight ==
  Spec /\ GradingGoesOn /\ <>[][Rest]_vars => PointsSettle
<1>1. TypeOK /\ GradingPass => PointsRight'
  BY GradingIsRight DEF GradingPass
<1> QED BY <1>1, RestKeepsPointsRight, Typed, PTL DEF PointsSettle, GradingGoesOn, Spec
=============================================================================
