------------------------------ MODULE LivePush ------------------------------
(***************************************************************************)
(* The pushes of a match being played (src/notifications.rs): each goal    *)
(* and the final whistle to every player who wants pushes                  *)
(* (send_live_score_updates), and "you climbed to #n" to those the         *)
(* standings moved up (send_rank_alerts).  Both compare what is in the     *)
(* database with what they last reacted to, matches.last_pushed_* and      *)
(* users.last_notified_rank, and write the new value down: the first       *)
(* before it pushes, the second after.                                     *)
(*                                                                         *)
(* Each action is one statement, or the pushes of one player.  The scoring *)
(* loop syncs, re-grades and pushes; another sync (the one of the start of *)
(* the server, or a one-off command) may store scores at any time, and the *)
(* pushes may also be run by hand, as a process of its own.                *)
(***************************************************************************)
EXTENDS Board

CONSTANTS
  Match,
  Score,     \* scorelines, as pairs of goals
  Device,    \* push endpoints
  Native     \* endpoints of the mobile apps, which are not delivered to yet

ASSUME PushAssumption ==
  /\ Score \subseteq Nat \X Nat
  /\ NULL \notin Score \union {"TIMED", "IN_PLAY", "PAUSED", "FINISHED"}
  /\ Native \subseteq Device

VARIABLES
  row,        \* row[m]: score and status of the row of matches
  version,    \* version[m]: how often the row was stored: no part of the program
  recent,     \* matches that kicked off less than six hours ago
  pushed,     \* pushed[m]: last_pushed_home, last_pushed_away, last_pushed_status
  based,      \* based[m]: the version last_pushed_* comes from: no part of the program
  wants,      \* players with notify_push
  subs,       \* push_subscriptions, as pairs <<player, endpoint>>
  gone,       \* endpoints the push service answers 404 or 410 for
  lastRank,   \* users.last_notified_rank, 0 for NULL
  job,        \* the loop, and pushes run by hand

  \* No part of the program:
  known,      \* known[u][m]: what u was told last of m, or what is never told
  told,       \* what was told, as <<player, match, version>>
  missed,     \* pairs <<player, match>> whose last push went wrong
  doubled,    \* pairs <<match, version>> that both jobs found at the same time
  alerted,    \* alerted[u]: the rank of the last alert to u, 0 for none
  fell,       \* players stored at a lower place since their last alert
  blurred     \* players whose rank was not stored after an alert, or by both jobs

matchVars == <<row, version, recent>>
basisVars == <<pushed, based>>
deviceVars == <<wants, subs, gone>>
scoreGhosts == <<known, told, missed, doubled>>
rankVars == <<lastRank, alerted, fell, blurred>>
pushVars == <<matchVars, basisVars, deviceVars, scoreGhosts, rankVars, job>>

Job == {"loop", "manual"}

\* kind: live score or rank alerts; events: what to push; ranks: the board of the space.
Idle == [pc |-> "idle", kind |-> NULL, seen |-> {}, events |-> {}, spaces |-> {}, space |-> NULL,
         todo |-> {}, ranks |-> NULL, sent |-> {}]

At(j, kind, pc) == job[j].kind = kind /\ job[j].pc = pc

\* A push job by hand ends here; in the loop the rank alerts follow the live scores.
After(j) ==
  IF j = "loop" /\ job[j].kind = "live"
    THEN [Idle EXCEPT !.pc = "tenants", !.kind = "ranks"]
    ELSE Idle

\* On to the next tenant.
NextSpace(j) ==
  IF job[j].spaces = {} THEN After(j)
  ELSE [job[j] EXCEPT !.pc = "space", !.space = NULL, !.todo = {}, !.ranks = NULL, !.sent = {}]

Set(j, record) == job' = [job EXCEPT ![j] = record]

Unseen == [score |-> NULL, status |-> NULL]

PushInit ==
  /\ row = [m \in Match |-> [score |-> NULL, status |-> "TIMED"]]
  /\ version = [m \in Match |-> 0]
  /\ recent = Match
  /\ pushed = [m \in Match |-> Unseen]
  /\ based = version
  /\ wants = User
  /\ gone = {}
  /\ lastRank = [u \in User |-> 0]
  /\ job = [j \in Job |-> Idle]
  /\ known = [u \in User |-> [m \in Match |-> [score |-> NULL, over |-> FALSE]]]
  /\ told = {} /\ missed = {} /\ doubled = {}
  /\ alerted = [u \in User |-> 0]
  /\ fell = {} /\ blurred = {}

-----------------------------------------------------------------------------
(***************************************************************************)
(* What the pushes are about: the sync and the re-grading.                 *)
(***************************************************************************)
Stored ==
  {[score |-> s, status |-> t] : s \in Score \union {NULL}, t \in {"IN_PLAY", "PAUSED", "FINISHED"}}

Store(m, new) ==
  /\ new # row[m]
  /\ row' = [row EXCEPT ![m] = new]
  /\ version' = [version EXCEPT ![m] = @ + 1]
  /\ UNCHANGED <<recent, basisVars, deviceVars, scoreGhosts, rankVars, standing>>

LoopSync ==
  /\ job["loop"] = Idle
  /\ Set("loop", [Idle EXCEPT !.pc = "sync"])
  /\ UNCHANGED <<matchVars, basisVars, deviceVars, scoreGhosts, rankVars, standing, left>>

LoopStores(m, new) ==
  /\ job["loop"].pc = "sync"
  /\ Spend("reports")
  /\ Store(m, new)
  /\ UNCHANGED job

\* The sync at the start of the server, or the one-off command.
OtherStores(m, new) ==
  /\ Spend("others")
  /\ Store(m, new)
  /\ UNCHANGED job

\* Scoring, streaks, badges; an error of the scoring leaves the points alone.
LoopGrades(to) ==
  /\ job["loop"].pc = "sync"
  /\ to # standing => left.grades > 0
  /\ standing' = to
  /\ left' = IF to = standing THEN left ELSE [left EXCEPT !.grades = @ - 1]
  /\ Set("loop", [Idle EXCEPT !.pc = "scan", !.kind = "live"])
  /\ UNCHANGED <<matchVars, basisVars, deviceVars, scoreGhosts, rankVars>>

\* Six hours have gone by since the kick-off.
Ages(m) ==
  /\ m \in recent
  /\ Spend("ages")
  /\ recent' = recent \ {m}
  /\ UNCHANGED <<row, version, basisVars, deviceVars, scoreGhosts, rankVars, job, standing>>

-----------------------------------------------------------------------------
(***************************************************************************)
(* The endpoints: subscribe, unsubscribe, preferences (routes/push.rs).    *)
(***************************************************************************)
Subscribe(u, d) ==
  /\ <<u, d>> \notin subs /\ d \notin gone
  /\ Spend("devices")
  /\ subs' = subs \union {<<u, d>>}
  /\ UNCHANGED <<matchVars, basisVars, wants, gone, scoreGhosts, rankVars, job, standing>>

Unsubscribe(u, d) ==
  /\ <<u, d>> \in subs
  /\ Spend("devices")
  /\ subs' = subs \ {<<u, d>>}
  /\ UNCHANGED <<matchVars, basisVars, wants, gone, scoreGhosts, rankVars, job, standing>>

SetPreference(u, on) ==
  /\ on # (u \in wants)
  /\ Spend("devices")
  /\ wants' = IF on THEN wants \union {u} ELSE wants \ {u}
  /\ UNCHANGED <<matchVars, basisVars, subs, gone, scoreGhosts, rankVars, job, standing>>

\* The browser drops an endpoint without telling the server.
EndpointDies(d) ==
  /\ d \notin gone
  /\ Spend("devices")
  /\ gone' = gone \union {d}
  /\ UNCHANGED <<matchVars, basisVars, wants, subs, scoreGhosts, rankVars, job, standing>>

(***************************************************************************)
(* push_to_user and push_channel::deliver, towards the endpoints of u.     *)
(* lost are those the push or the pruning fails for; all of them are when  *)
(* the SELECT fails.                                                       *)
(***************************************************************************)
Endpoints(u) == {d \in Device : <<u, d>> \in subs}

Delivered(u, lost) == (Endpoints(u) \ Native) \ (gone \union lost)

\* Mutant of Pruned: an endpoint that cannot be reached now is dropped as well.
PrunedOnError(u, lost) == (Endpoints(u) \ Native) \intersect (gone \union lost)

Pruned(u, lost) == ((Endpoints(u) \ Native) \intersect gone) \ lost

PushToUser(u, lost) ==
  /\ lost \subseteq Endpoints(u)
  /\ lost # {} => left.mishaps > 0
  /\ left' = IF lost = {} THEN left ELSE [left EXCEPT !.mishaps = @ - 1]
  /\ subs' = subs \ {<<u, d>> : d \in Pruned(u, lost)}

-----------------------------------------------------------------------------
(***************************************************************************)
(* Live scores: send_live_score_updates.                                   *)
(***************************************************************************)
InScope(m) == row[m].status \in {"IN_PLAY", "PAUSED"} \/ m \in recent

Candidates == {m \in Match : row[m] # pushed[m] /\ InScope(m)}

IsFinal(prior, now) == now.status = "FINISHED" /\ prior.status # "FINISHED"

OpeningNil(prior, now) == prior.score = NULL /\ now.score = <<0, 0>>

\* Mutant of IsGoal: a goal that is taken back is none.
IsGoalUp(prior, now) ==
  /\ now.score # prior.score /\ now.score # NULL /\ ~ OpeningNil(prior, now)
  /\ prior.score # NULL => now.score[1] + now.score[2] > prior.score[1] + prior.score[2]

IsGoal(prior, now) == now.score # prior.score /\ now.score # NULL /\ ~ OpeningNil(prior, now)

\* A match seen for the first time is not pushed.
WorthAPush(prior, now) == prior.status # NULL /\ (IsGoal(prior, now) \/ IsFinal(prior, now))

\* The goals of a match without a score are pushed as 0.
Event(m) ==
  [match |-> m, score |-> IF row[m].score = NULL THEN <<0, 0>> ELSE row[m].score,
   over |-> IsFinal(pushed[m], row[m]), version |-> version[m]]

StartLive ==
  /\ job["manual"] = Idle
  /\ Spend("manual")
  /\ Set("manual", [Idle EXCEPT !.pc = "scan", !.kind = "live"])
  /\ UNCHANGED <<matchVars, basisVars, deviceVars, scoreGhosts, rankVars, standing>>

Scan(j) ==
  /\ At(j, "live", "scan")
  /\ Set(j, IF Candidates = {} THEN After(j)
            ELSE [job[j] EXCEPT !.pc = "baseline", !.seen = {<<m, version[m]>> : m \in Candidates},
                    !.events = {Event(m) : m \in {n \in Candidates : WorthAPush(pushed[n], row[n])}}])
  /\ doubled' = doubled \union
       ({<<m, version[m]>> : m \in Candidates}
          \intersect UNION {job[k].seen : k \in {i \in Job \ {j} : At(i, "live", "baseline")}})
  /\ UNCHANGED <<matchVars, basisVars, deviceVars, known, told, missed, rankVars, standing, left>>

\* What is not worth a push by design: players are taken to know it.
Silent(prior, now) ==
  \/ prior.status = NULL
  \/ /\ now.status = "FINISHED" => prior.status = "FINISHED"
     /\ now.score \in {NULL, prior.score} \/ (prior.score = NULL /\ now.score = <<0, 0>>)

\* Mutant of WrittenDown: what is to be pushed is left out, to be written down once pushed.
WrittenDownIfSilent(j) == {seen[1] : seen \in job[j].seen} \ {e.match : e \in job[j].events}

\* The rows the UPDATE writes down: all that were read, as they are now.
WrittenDown(j) == {seen[1] : seen \in job[j].seen}

Baseline(j) ==
  /\ At(j, "live", "baseline")
  /\ pushed' = [m \in Match |-> IF m \in WrittenDown(j) THEN row[m] ELSE pushed[m]]
  /\ based' = [m \in Match |-> IF m \in WrittenDown(j) THEN version[m] ELSE based[m]]
  /\ known' = [u \in User |-> [m \in Match |->
       IF m \in WrittenDown(j) /\ Silent(pushed[m], row[m])
         THEN [score |-> row[m].score, over |-> row[m].status = "FINISHED"]
         ELSE known[u][m]]]
  /\ missed' = missed \union
       (User \X {m \in Match : \E v \in 0..version[m] - 1 : <<m, v>> \in job[j].seen})
  /\ Set(j, IF job[j].events = {} THEN After(j) ELSE [job[j] EXCEPT !.pc = "tenants", !.seen = {}])
  /\ UNCHANGED <<matchVars, deviceVars, told, doubled, rankVars, standing, left>>

LoadTenants(j) ==
  /\ job[j].pc = "tenants"
  /\ Set(j, [job[j] EXCEPT !.pc = "space", !.spaces = Space])
  /\ UNCHANGED <<matchVars, basisVars, deviceVars, scoreGhosts, rankVars, standing, left>>

\* Mutant of Recipients: the tenant is left out of the SELECT.
RecipientsAnywhere(s) == wants

Recipients(s) == Members(s) \intersect wants

\* live_score_for_tenant: each event for each player of the tenant who wants pushes.
ReadRecipients(j, s) ==
  /\ At(j, "live", "space") /\ s \in job[j].spaces
  /\ missed' = missed \union ((Members(s) \ wants) \X {e.match : e \in job[j].events})
  /\ Set(j, [job[j] EXCEPT !.pc = "push", !.space = s, !.spaces = @ \ {s},
                           !.todo = Recipients(s) \X job[j].events])
  /\ UNCHANGED <<matchVars, basisVars, deviceVars, known, told, doubled, rankVars, standing, left>>

Push(j, u, e, lost) ==
  /\ At(j, "live", "push") /\ <<u, e>> \in job[j].todo
  /\ PushToUser(u, lost)
  /\ Set(j, [job[j] EXCEPT !.todo = @ \ {<<u, e>>}])
  /\ IF Delivered(u, lost) = {}
       THEN /\ missed' = missed \union {<<u, e.match>>}
            /\ UNCHANGED <<known, told>>
       ELSE /\ missed' = IF e.version = based[e.match] THEN missed \ {<<u, e.match>>}
                         ELSE missed \union {<<u, e.match>>}
            /\ known' = [known EXCEPT ![u][e.match] =
                           [score |-> e.score, over |-> e.over \/ pushed[e.match].status = "FINISHED"]]
            /\ told' = told \union {<<u, e.match, e.version>>}
  /\ UNCHANGED <<matchVars, basisVars, wants, gone, doubled, rankVars, standing>>

Pushed(j) ==
  /\ At(j, "live", "push") /\ job[j].todo = {}
  /\ Set(j, NextSpace(j))
  /\ UNCHANGED <<matchVars, basisVars, deviceVars, scoreGhosts, rankVars, standing, left>>

-----------------------------------------------------------------------------
(***************************************************************************)
(* Climbs: send_rank_alerts and rank_alerts_for_tenant.                    *)
(***************************************************************************)
StartRanks ==
  /\ job["manual"] = Idle
  /\ Spend("manual")
  /\ Set("manual", [Idle EXCEPT !.pc = "tenants", !.kind = "ranks"])
  /\ UNCHANGED <<matchVars, basisVars, deviceVars, scoreGhosts, rankVars, standing>>

\* The board of the next tenant; one without players is passed over.
ReadStandings(j, s) ==
  /\ At(j, "ranks", "space") /\ s \in job[j].spaces
  /\ LET on == [job[j] EXCEPT !.pc = "prefs", !.space = s, !.spaces = @ \ {s},
                  !.ranks = [u \in Members(s) |-> [rank |-> Rank(u), points |-> standing[u].points]]]
     IN  Set(j, IF Members(s) # {} THEN on
                ELSE IF on.spaces = {} THEN After(j) ELSE [job[j] EXCEPT !.spaces = on.spaces])
  /\ UNCHANGED <<matchVars, basisVars, deviceVars, scoreGhosts, rankVars, standing, left>>

\* Mutant of Climbed: the first observation counts as a climb, and so does a rank kept.
ClimbedOrKept(u, rank) == rank <= lastRank[u]

\* A rank that was never stored is no climb.
Climbed(u, rank) == lastRank[u] # 0 /\ rank < lastRank[u]

Climbers(j) ==
  {u \in Members(job[j].space) : /\ u \in wants
                                 /\ job[j].ranks[u].points > 0
                                 /\ Climbed(u, job[j].ranks[u].rank)}

ReadPrefs(j) ==
  /\ At(j, "ranks", "prefs")
  /\ Set(j, [job[j] EXCEPT !.pc = "alert", !.todo = Climbers(j)])
  /\ blurred' = IF \E k \in Job \ {j} : At(k, "ranks", "alert") /\ job[k].space = job[j].space
                  THEN blurred \union Members(job[j].space) ELSE blurred
  /\ UNCHANGED <<matchVars, basisVars, deviceVars, scoreGhosts, lastRank, alerted, fell,
                 standing, left>>

Alert(j, u, lost) ==
  /\ At(j, "ranks", "alert") /\ u \in job[j].todo
  /\ PushToUser(u, lost)
  /\ Set(j, [job[j] EXCEPT !.todo = @ \ {u}, !.sent = @ \union {u}])
  /\ IF Delivered(u, lost) = {}
       THEN UNCHANGED <<alerted, fell>>
       ELSE /\ alerted' = [alerted EXCEPT ![u] = job[j].ranks[u].rank]
            /\ fell' = fell \ {u}
  /\ UNCHANGED <<matchVars, basisVars, wants, gone, scoreGhosts, lastRank, blurred, standing>>

Rebased(j) ==
  [u \in User |-> IF u \in Members(job[j].space) THEN job[j].ranks[u].rank ELSE lastRank[u]]

Rebase(j) ==
  /\ At(j, "ranks", "alert") /\ job[j].todo = {}
  /\ lastRank' = Rebased(j)
  /\ fell' = fell \union {u \in User : alerted[u] # 0 /\ lastRank'[u] > alerted[u]}
  /\ Set(j, NextSpace(j))
  /\ UNCHANGED <<matchVars, basisVars, deviceVars, scoreGhosts, alerted, blurred, standing, left>>

-----------------------------------------------------------------------------
(***************************************************************************)
(* What goes wrong: a statement fails, a process dies.                     *)
(***************************************************************************)
\* The pairs a job still has to push for.
Pending(j) ==
  IF job[j].kind # "live" THEN {}
  ELSE CASE job[j].pc = "tenants" -> User \X {e.match : e \in job[j].events}
         [] job[j].pc \in {"space", "push"} ->
              {<<t[1], t[2].match>> : t \in job[j].todo}
                \union ({u \in User : SpaceOf[u] \in job[j].spaces} \X {e.match : e \in job[j].events})
         [] OTHER -> {}

\* The SELECT of the matches, their UPDATE, or the SELECT of the tenants: the job is given up.
JobFails(j) ==
  /\ job[j].pc \in {"scan", "baseline", "tenants"}
  /\ Spend("mishaps")
  /\ Set(j, After(j))
  /\ missed' = missed \union Pending(j)
  /\ UNCHANGED <<matchVars, basisVars, deviceVars, known, told, doubled, rankVars, standing>>

\* A statement about one tenant: the next one is tried.
TenantFails(j) ==
  /\ Spend("mishaps")
  /\ \/ \E s \in job[j].spaces :
          /\ job[j].pc = "space"
          /\ Set(j, IF job[j].spaces = {s} THEN After(j) ELSE [job[j] EXCEPT !.spaces = @ \ {s}])
          /\ missed' = missed \union
               (IF job[j].kind = "live" THEN Members(s) \X {e.match : e \in job[j].events} ELSE {})
          /\ UNCHANGED blurred
     \/ /\ job[j].pc = "prefs" \/ (At(j, "ranks", "alert") /\ job[j].todo = {})
        /\ Set(j, NextSpace(j))
        /\ blurred' = blurred \union job[j].sent
        /\ UNCHANGED missed
  /\ UNCHANGED <<matchVars, basisVars, deviceVars, known, told, doubled, lastRank, alerted, fell,
                 standing>>

Crash(j) ==
  /\ job[j] # Idle
  /\ Spend("mishaps")
  /\ Set(j, Idle)
  /\ missed' = missed \union Pending(j)
  /\ blurred' = blurred \union job[j].sent
  /\ UNCHANGED <<matchVars, basisVars, deviceVars, known, told, doubled, lastRank, alerted, fell,
                 standing>>
=============================================================================
