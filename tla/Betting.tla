------------------------------- MODULE Betting -------------------------------
(***************************************************************************)
(* Predictions, jokers and their points.                                   *)
(*                                                                         *)
(* The players' requests (src/routes/bets.rs, src/routes/import_bets.rs)   *)
(* are web handlers that run concurrently, statement by statement, against *)
(* the matches table that the fixture sync (src/football_data.rs) rewrites *)
(* and the clock that closes the bets (src/models.rs); the background loop *)
(* (src/main.rs) re-grades every prediction after each sync                *)
(* (src/scoring.rs).  Every SQL statement is one atomic step, as PostgreSQL*)
(* runs it under READ COMMITTED; the two UPDATEs that move a joker write   *)
(* rows they lock until the commit and read nothing, so they are one step, *)
(* at the commit.                                                          *)
(***************************************************************************)
EXTENDS Scoring

CONSTANTS
  User,         \* memberships: one player in one space
  Match,
  Stage,        \* values of matches.stage (NULL among them: it groups too)
  Score,        \* predictions the form accepts, and results the feed reports
  Tab,          \* requests a player may have in flight at once
  Elsewhere,    \* Elsewhere[u]: the same person's memberships of other spaces
  Feed,         \* Feed[m]: the rows the feed may report for m, as the sync reads them
  Calendars,    \* matches tables to start from: rows the feed has reported
  Entered,      \* Entered[u][m]: the prediction u has made already, or NULL
  Active,       \* bound: the memberships that send requests
  Horizon,      \* bound: the last instant of the clock
  MaxRequests,  \* bound: requests that reach the database
  MaxSyncs,     \* bound: fetches of the feed that commit, and results pinned by hand
  MaxFaults,    \* bound: passes of the loop whose sync or re-grading fails
  NULL          \* SQL NULL: no prediction, no score, no points

Bet == [score : Score, multiplier : {1, 2},
        points : {NULL} \union {k * p : k \in {1, 2}, p \in {0, POINTS_OUTCOME, POINTS_EXACT}}]

Row == [stage : Stage, kickoff : 1..Horizon, status : Status,
        result : Score \union {NULL}]

\* The result a score report leaves in a row: it counts with both its sides only.
ResultOf(report) ==
  IF report = NULL \/ Missing \in {settled_score(report).home, settled_score(report).away}
  THEN NULL ELSE settled_score(report)

(***************************************************************************)
(* One row per match, as one fetch of the feed may give them.              *)
(***************************************************************************)
Fetched == {rows \in [Match -> UNION {Feed[m] : m \in Match}] :
              \A m \in Match : rows[m] \in Feed[m]}

ASSUME ScoreAssumption == Score \subseteq [home : 0..30, away : 0..30]
ASSUME NullAssumption == NULL \notin Score \union Bet \union Match \union Int
ASSUME FeedAssumption ==
  /\ \A m \in Match : Feed[m] \subseteq Row
  /\ Calendars \subseteq Fetched
  /\ Entered \in [User -> [Match -> Score \union {NULL}]]
  /\ Active \subseteq User
  /\ Elsewhere \in [User -> SUBSET User]
ASSUME BoundAssumption ==
  {Horizon, MaxRequests, MaxSyncs, MaxFaults} \subseteq Nat

VARIABLES
  clock,     \* NOW()
  match,     \* the matches table, but for score_locked
  locked,    \* matches.score_locked
  bet,       \* bet[u][m]: the row of bets, or NULL
  jokersOn,  \* tenants.jokers_enabled
  request,   \* request[u][t]: where a handler stands and what it has read
  loop,      \* the next step of the background loop
  booting,   \* the sync spawned at start-up has not run yet
  spent      \* how much of each bound is used: no part of the program

vars == <<clock, match, locked, bet, jokersOn, request, loop, booting, spent>>

(***************************************************************************)
(* closed is no part of the program: the matches that had kicked off, by   *)
(* the clock or by the feed, when the request came in.                     *)
(***************************************************************************)
Started(m) == match[m].kickoff <= clock \/ match[m].status # "TIMED"

Idle == [pc |-> "idle", match |-> NULL, score |-> NULL, stage |-> NULL,
         old |-> NULL, closed |-> {}]

Jokered(u, m) == bet[u][m] # NULL /\ bet[u][m].multiplier = 2

Open(m) == betting_open(match[m].kickoff, match[m].status, clock)

\* A row of bets as an INSERT leaves it.
Fresh(s) == [score |-> s, multiplier |-> 1, points |-> NULL]

Spend(what) == spent' = [spent EXCEPT ![what] = @ + 1]

Init ==
  /\ clock = 0
  /\ match \in Calendars
  /\ locked = [m \in Match |-> FALSE]
  /\ bet = [u \in User |-> [m \in Match |-> IF Entered[u][m] = NULL THEN NULL ELSE Fresh(Entered[u][m])]]
  /\ jokersOn \in BOOLEAN
  /\ request = [u \in User |-> [t \in Tab |-> Idle]]
  /\ loop = "sync"
  /\ booting = TRUE
  /\ spent = [requests |-> 0, syncs |-> 0, faults |-> 0]

-----------------------------------------------------------------------------
(***************************************************************************)
(* The handlers.  A handler that answers an error leaves no trace.         *)
(***************************************************************************)
Begin(u, t, r) ==
  /\ request[u][t] = Idle
  /\ spent.requests < MaxRequests
  /\ request' = [request EXCEPT ![u][t] =
                   [r EXCEPT !.closed = {m \in Match : Started(m)}]]
  /\ Spend("requests")
  /\ UNCHANGED <<clock, match, locked, bet, jokersOn, loop, booting>>

Goto(u, t, r) ==
  /\ request' = [request EXCEPT ![u][t] = r]
  /\ UNCHANGED <<clock, match, locked, jokersOn, loop, booting, spent>>

\* place_or_update: the SELECT and the test that the match is open ...
PlaceCheck(u, t, m, s) ==
  /\ Open(m)
  /\ Begin(u, t, [Idle EXCEPT !.pc = "place", !.match = m, !.score = s])

\* ... and the upsert, another statement: joker and points stay.
PlaceWrite(u, t) ==
  LET r == request[u][t] IN
  /\ r.pc = "place"
  /\ bet' = [bet EXCEPT ![u][r.match] =
               IF @ = NULL THEN Fresh(r.score) ELSE [@ EXCEPT !.score = r.score]]
  /\ Goto(u, t, Idle)

\* toggle_joker: the tests made before the transaction.
ToggleCheck(u, t, m) ==
  /\ jokersOn
  /\ Open(m)
  /\ Begin(u, t, [Idle EXCEPT !.pc = "toggle", !.match = m, !.stage = match[m].stage])

\* The transaction reads the multiplier; without a bet it gives up.
ReadMultiplier(u, t) ==
  LET r == request[u][t] IN
  /\ r.pc = "toggle"
  /\ Goto(u, t, CASE bet[u][r.match] = NULL -> Idle
                  [] Jokered(u, r.match)    -> [r EXCEPT !.pc = "off"]
                  [] OTHER                  -> [r EXCEPT !.pc = "seek"])
  /\ UNCHANGED bet

Holding(u, stage) == {m \in Match : Jokered(u, m) /\ match[m].stage = stage}

\* Mutant of Seek: the joker already set in the phase is not looked up.
SeekNothing(u, t) ==
  LET r == request[u][t] IN
  /\ r.pc = "seek"
  /\ Goto(u, t, [r EXCEPT !.pc = "set"])
  /\ UNCHANGED bet

\* It looks for a joker in the phase: any one of them.  A joker whose kickoff
\* has passed is locked, and the request is refused.
Seek(u, t) ==
  LET r == request[u][t] IN
  /\ r.pc = "seek"
  /\ \/ /\ Holding(u, r.stage) = {}
        /\ Goto(u, t, [r EXCEPT !.pc = "set"])
     \/ \E old \in Holding(u, r.stage) :
          Goto(u, t, IF match[old].kickoff <= clock THEN Idle
                     ELSE [r EXCEPT !.pc = "set", !.old = old])
  /\ UNCHANGED bet

WithMultiplier(b, k) == IF b = NULL THEN NULL ELSE [b EXCEPT !.multiplier = k]

CommitOff(u, t) ==
  LET r == request[u][t] IN
  /\ r.pc = "off"
  /\ bet' = [bet EXCEPT ![u][r.match] = WithMultiplier(@, 1)]
  /\ Goto(u, t, Idle)

\* Mutant of CommitSet: the joker is set, and the old one forgotten.
CommitSetOnly(u, t) ==
  LET r == request[u][t] IN
  /\ r.pc = "set"
  /\ bet' = [bet EXCEPT ![u][r.match] = WithMultiplier(@, 2)]
  /\ Goto(u, t, Idle)

CommitSet(u, t) ==
  LET r == request[u][t] IN
  /\ r.pc = "set"
  /\ bet' = [bet EXCEPT ![u] =
               [m \in Match |-> IF m = r.match THEN WithMultiplier(@[m], 2)
                                  ELSE IF m = r.old THEN WithMultiplier(@[m], 1)
                                  ELSE @[m]]]
  /\ Goto(u, t, Idle)

\* A statement fails, the client goes away: the transaction rolls back.
RequestFails(u, t) ==
  /\ request[u][t] # Idle
  /\ Goto(u, t, Idle)
  /\ UNCHANGED bet

\* import: one INSERT ... SELECT of the predictions made in another space.
Import(u, source) ==
  /\ source \in Elsewhere[u]
  /\ spent.requests < MaxRequests
  /\ bet' = [bet EXCEPT ![u] =
               [m \in Match |->
                  IF @[m] = NULL /\ Open(m) /\ bet[source][m] # NULL
                  THEN Fresh(bet[source][m].score)
                  ELSE @[m]]]
  /\ Spend("requests")
  /\ UNCHANGED <<clock, match, locked, jokersOn, request, loop, booting>>

-----------------------------------------------------------------------------
(***************************************************************************)
(* The matches: the feed, the operator and the clock.                      *)
(***************************************************************************)
\* The upsert of one match: a pinned match keeps its status and its result.
Stored(m, row) ==
  IF locked[m]
  THEN [row EXCEPT !.status = match[m].status, !.result = match[m].result]
  ELSE row

\* sync_one_competition: the fetch is over, one transaction stores every row.
SyncCommit ==
  /\ spent.syncs < MaxSyncs
  /\ \E rows \in Fetched : match' = [m \in Match |-> Stored(m, rows[m])]
  /\ Spend("syncs")
  /\ UNCHANGED <<clock, locked, bet, jokersOn, request>>

\* No API key, an HTTP error, nothing new: the loop goes on in any case.
SyncSkips == UNCHANGED <<clock, match, locked, bet, jokersOn, request, spent>>

\* Mutant of LoopSync: the loop waits for a sync that stores something.
LoopSyncCommits ==
  /\ loop = "sync"
  /\ loop' = "score"
  /\ UNCHANGED booting
  /\ SyncCommit

LoopSync ==
  /\ loop = "sync"
  /\ loop' = "score"
  /\ UNCHANGED booting
  /\ SyncCommit \/ SyncSkips

BootSync ==
  /\ booting
  /\ booting' = FALSE
  /\ UNCHANGED loop
  /\ SyncCommit \/ SyncSkips

Settled(m) == match[m].status = "FINISHED" /\ match[m].result # NULL

\* Mutant of Graded: what has points keeps them.
GradedOnce(u, m) ==
  IF bet[u][m] = NULL \/ ~ Settled(m) THEN bet[u][m]
  ELSE IF bet[u][m].points # NULL THEN bet[u][m]
  ELSE [bet[u][m] EXCEPT !.points =
          EffectivePoints(bet[u][m].score, bet[u][m].multiplier, match[m].result)]

Graded(u, m) ==
  IF bet[u][m] = NULL \/ ~ Settled(m) THEN bet[u][m]
  ELSE [bet[u][m] EXCEPT !.points =
          EffectivePoints(bet[u][m].score, bet[u][m].multiplier, match[m].result)]

\* scoring::recompute_all: one UPDATE over every bet.
RecomputeAll ==
  /\ bet' = [u \in User |-> [m \in Match |-> Graded(u, m)]]
  /\ UNCHANGED <<clock, match, locked, jokersOn, request, booting, spent>>

\* The loop logs an error of the re-grading and goes on.
LoopScore ==
  /\ loop = "score"
  /\ loop' = "sync"
  /\ \/ RecomputeAll
     \/ /\ spent.faults < MaxFaults
        /\ Spend("faults")
        /\ UNCHANGED <<clock, match, locked, bet, jokersOn, request, booting>>

\* The daily digest re-grades too, from another task.
DigestRecompute ==
  /\ RecomputeAll
  /\ UNCHANGED loop

\* The server stops and starts again: transactions roll back.
Restart ==
  /\ spent.faults < MaxFaults
  /\ Spend("faults")
  /\ request' = [u \in User |-> [t \in Tab |-> Idle]]
  /\ loop' = "sync"
  /\ booting' = TRUE
  /\ UNCHANGED <<clock, match, locked, bet, jokersOn>>

\* An operator corrects a result the feed has wrong, and pins it.
PinResult(m, s) ==
  /\ spent.syncs < MaxSyncs
  /\ locked' = [locked EXCEPT ![m] = TRUE]
  /\ match' = [match EXCEPT ![m].status = "FINISHED", ![m].result = s]
  /\ Spend("syncs")
  /\ UNCHANGED <<clock, bet, jokersOn, request, loop, booting>>

\* tenant_settings: an admin opens or closes the jokers of the space.
SwitchJokers ==
  /\ jokersOn' = ~ jokersOn
  /\ UNCHANGED <<clock, match, locked, bet, request, loop, booting, spent>>

Tick ==
  /\ clock < Horizon
  /\ clock' = clock + 1
  /\ UNCHANGED <<match, locked, bet, jokersOn, request, loop, booting, spent>>

Handler(u, t) ==
  \/ \E m \in Match, s \in Score : PlaceCheck(u, t, m, s)
  \/ PlaceWrite(u, t)
  \/ \E m \in Match : ToggleCheck(u, t, m)
  \/ ReadMultiplier(u, t)
  \/ Seek(u, t)
  \/ CommitOff(u, t)
  \/ CommitSet(u, t)
  \/ RequestFails(u, t)

Next ==
  \/ \E u \in Active, t \in Tab : Handler(u, t)
  \/ \E u \in Active, source \in User : Import(u, source)
  \/ LoopSync \/ LoopScore \/ BootSync \/ DigestRecompute \/ Restart
  \/ \E m \in Match, s \in Score : PinResult(m, s)
  \/ SwitchJokers
  \/ Tick

(***************************************************************************)
(* The loop of main.rs never ends: each of its steps is eventually run.    *)
(***************************************************************************)
Fairness == WF_vars(LoopSync) /\ WF_vars(LoopScore)

Spec == Init /\ [][Next]_vars

FairSpec == Spec /\ Fairness

-----------------------------------------------------------------------------
Request == [pc : {"idle", "place", "toggle", "off", "seek", "set"},
            match : Match \union {NULL}, score : Score \union {NULL},
            stage : Stage \union {NULL}, old : Match \union {NULL},
            closed : SUBSET Match]

(***************************************************************************)
(* The tables hold the values their CHECK constraints and the comment of   *)
(* scoring.rs promise: points are 0, 1 or 3, or twice that.                *)
(***************************************************************************)
TypeOK ==
  /\ clock \in 0..Horizon
  /\ match \in [Match -> Row]
  /\ locked \in [Match -> BOOLEAN]
  /\ bet \in [User -> [Match -> Bet \union {NULL}]]
  /\ jokersOn \in BOOLEAN
  /\ request \in [User -> [Tab -> Request]]
  /\ loop \in {"sync", "score"}
  /\ booting \in BOOLEAN
  /\ spent \in [requests : Nat, syncs : Nat, faults : Nat]

(***************************************************************************)
(* At most one joker per player and competition phase (doc of toggle_joker,*)
(* migrations/20260614000008_multipliers.sql).  The application alone      *)
(* enforces it: no index can.                                              *)
(***************************************************************************)
OneJokerPerPhase ==
  \A u \in User, m, n \in Match :
    /\ Jokered(u, m) /\ Jokered(u, n)
    /\ match[m].stage = match[n].stage
    => m = n

(***************************************************************************)
(* Seen from the book of predictions and jokers alone, the handlers are    *)
(* atomic: a joker is moved, and nothing else in the book changes with it. *)
(***************************************************************************)
\* The one stage the feed gives m, when it does not change its mind.
PhaseOf(m) == CHOOSE s \in Stage : \A row \in Feed[m] : row.stage = s

Predicted(u) == [m \in Match |-> IF bet[u][m] = NULL THEN NULL ELSE bet[u][m].score]

JokersOf(u) == {m \in Match : Jokered(u, m)}

Book == INSTANCE JokerBook WITH
  Phase <- [m \in Match |-> PhaseOf(m)],
  predicted <- [u \in User |-> Predicted(u)],
  joker <- [u \in User |-> JokersOf(u)]

AtomicBook == Book!Spec

(***************************************************************************)
(* No hindsight: whichever way a prediction is entered, changed, imported  *)
(* or doubled, the match had not started when the request came in.  (It    *)
(* may kick off before the request writes: test and write are two          *)
(* statements.)                                                            *)
(***************************************************************************)
NoHindsight ==
  [][\A u \in User, m \in Match :
       \/ bet'[u][m] = bet[u][m]
       \/ /\ bet[u][m] # NULL
          /\ bet'[u][m] # NULL
          /\ bet'[u][m].score = bet[u][m].score
          /\ Jokered(u, m)' => Jokered(u, m)
       \/ ~ Started(m)
       \/ \E t \in Tab : request[u][t] # Idle /\ m \notin request[u][t].closed]_vars

(***************************************************************************)
(* Whatever corrections of the feed, pinned results, late writes, moved    *)
(* jokers, failed passes and restarts came before, once the world is quiet *)
(* every prediction on a settled match carries its joker times its base    *)
(* points, and keeps them.                                                 *)
(***************************************************************************)
PointsRight ==
  \A u \in User, m \in Match :
    bet[u][m] # NULL /\ Settled(m)
    => bet[u][m].points =
         EffectivePoints(bet[u][m].score, bet[u][m].multiplier, match[m].result)

PointsSettle == <>[]PointsRight

(***************************************************************************)
(* The loop grades again and again, whatever its syncs meet: how often is  *)
(* only a matter of freshness (the comment over the intervals in main.rs). *)
(***************************************************************************)
GradingPass == LoopScore /\ RecomputeAll

GradingGoesOn == []<><<GradingPass>>_vars

=============================================================================
