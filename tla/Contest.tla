------------------------------ MODULE Contest -------------------------------
(***************************************************************************)
(* Everything that reads the leaderboard while a match is played: the      *)
(* pushes of the scoring loop (LivePush) and the stakes and the pot        *)
(* (Stakes).  They meet in the standings and in the rows of the players.   *)
(***************************************************************************)
EXTENDS LivePush, Stakes

CONSTANT FirstSubs   \* the subscriptions at the start

ASSUME SubsAssumption == FirstSubs \subseteq User \X Device

vars == <<standing, left, pushVars, stakeVars>>

Level == [u \in User |-> [points |-> 0, exact |-> 0, settled |-> 0]]

Init ==
  /\ standing = Level
  /\ left \in Allowance
  /\ subs = FirstSubs
  /\ PushInit
  /\ StakesInit

Feed ==
  \/ LoopSync
  \/ \E m \in Match : Ages(m) \/ \E new \in Stored : LoopStores(m, new) \/ OtherStores(m, new)
  \/ \E to \in Standing : LoopGrades(to)

Devices ==
  \/ \E u \in User, d \in Device : Subscribe(u, d) \/ Unsubscribe(u, d)
  \/ \E u \in User, on \in BOOLEAN : SetPreference(u, on)
  \/ \E d \in Device : EndpointDies(d)

LiveScores ==
  \/ StartLive
  \/ \E j \in Job :
       \/ Scan(j) \/ Baseline(j) \/ LoadTenants(j) \/ Pushed(j)
       \/ \E s \in Space : ReadRecipients(j, s)
       \/ \E todo \in job[j].todo, lost \in SUBSET Device :
            job[j].kind = "live" /\ Push(j, todo[1], todo[2], lost)

RankAlerts ==
  \/ StartRanks
  \/ \E j \in Job :
       \/ \E s \in Space : ReadStandings(j, s)
       \/ ReadPrefs(j) \/ Rebase(j)
       \/ \E u \in User, lost \in SUBSET Device : Alert(j, u, lost)

Mishaps == \E j \in Job : JobFails(j) \/ TenantFails(j) \/ Crash(j)

Bets ==
  \/ \E u \in User, tier \in AskedTier : AskStake(u, tier)
  \/ \E ask \in asking : StoreStake(ask[1], ask[2], ask[3])
  \/ \E u \in User : MarkPaid(u) \/ MarkUnpaid(u)
  \/ DeadlinePasses
  \/ \E s \in Space : ReadBoard(s)
  \/ ReadPot \/ LeavePage

Next ==
  \/ (Feed \/ Devices \/ LiveScores \/ RankAlerts \/ Mishaps) /\ UNCHANGED stakeVars
  \/ Bets /\ UNCHANGED <<standing, pushVars>>

Spec == Init /\ [][Next]_vars

-----------------------------------------------------------------------------
(***************************************************************************)
(* What the rows and the jobs hold: in particular an endpoint, a recipient *)
(* and an alert belong to players, and a job that pushes has a tenant.     *)
(***************************************************************************)
EventSet == [match : Match, score : Score \union {<<0, 0>>}, over : BOOLEAN, version : Nat]

JobTypeOK(j) ==
  /\ job[j].pc \in {"idle", "sync", "scan", "baseline", "tenants", "space", "push", "prefs", "alert"}
  /\ job[j].kind \in {"live", "ranks", NULL}
  /\ job[j].events \subseteq EventSet
  /\ job[j].spaces \subseteq Space
  /\ job[j].sent \subseteq User
  /\ At(j, "live", "push") =>
       job[j].todo \subseteq (Members(job[j].space) \X job[j].events)
  /\ At(j, "ranks", "alert") => job[j].todo \subseteq Members(job[j].space)

TypeOK ==
  /\ standing \in [User -> [points : Nat, exact : Nat, settled : Nat]]
  /\ \A m \in Match : /\ row[m].score \in Score \union {NULL}
                      /\ pushed[m].score \in Score \union {NULL}
  /\ subs \subseteq User \X Device
  /\ lastRank \in [User -> 0..Cardinality(User)]
  /\ \A j \in Job : JobTypeOK(j)
  /\ stake \in [User -> Tier \union {0}]
  /\ paid \subseteq User

(***************************************************************************)
(* A player is told once of what the feed stored of a match, whatever      *)
(* crashes or fails between the statements: what is still to be pushed was *)
(* not pushed before.  Only two jobs that found the same change at the     *)
(* same time push it twice.                                                *)
(***************************************************************************)
NoRepeat ==
  \A j \in Job : At(j, "live", "push") =>
    \A todo \in job[j].todo :
      <<todo[1], todo[2].match, todo[2].version>> \in told =>
        <<todo[2].match, todo[2].version>> \in doubled

(***************************************************************************)
(* When no live score job runs, a player knows the score that was written  *)
(* down of each match, and that it is over: every goal, taken back or      *)
(* given, and the final whistle reached him, unless a push to him went     *)
(* wrong, or the row was stored between the SELECT and the UPDATE.         *)
(***************************************************************************)
GoalsAreTold ==
  (\A j \in Job : job[j].kind # "live") =>
    \A u \in User, m \in Match :
      <<u, m>> \notin missed /\ pushed[m].score # NULL =>
        known[u][m] = [score |-> pushed[m].score, over |-> pushed[m].status = "FINISHED"]

(***************************************************************************)
(* A player is told of a climb to the same place, or a worse one, only     *)
(* after the board had him lower: the rank is stored after the alert, so   *)
(* only a crash, a failed UPDATE or a second job repeats an alert.         *)
(***************************************************************************)
ClimbsToldOnce ==
  \A j \in Job : At(j, "ranks", "alert") =>
    \A u \in job[j].todo :
      alerted[u] # 0 /\ alerted[u] <= job[j].ranks[u].rank => u \in fell \union blurred

(***************************************************************************)
(* An endpoint that still works is dropped by its player only: no error of *)
(* the push service costs a subscription.                                  *)
(***************************************************************************)
LiveSubsStay ==
  [][\A u \in User, d \in Device :
       <<u, d>> \in subs /\ <<u, d>> \notin subs' => d \in gone \/ Unsubscribe(u, d)]_vars

(***************************************************************************)
(* The pot is the money collected: the stake of each player who paid is    *)
(* what the administrator took, unless the player's last choice was let in *)
(* before the payment and stored after it.                                 *)
(***************************************************************************)
PotIsCash == \A u \in paid \ slipped : stake[u] = cashed[u]

(***************************************************************************)
(* A page that shows a pot shows who wins it, and the other way round,     *)
(* unless a payment was marked between its two statements.                 *)
(***************************************************************************)
PotIsWon == page.pc = "shown" /\ ~ page.torn => (page.pot > 0 <=> page.won # {})
=============================================================================
