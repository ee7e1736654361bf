# LunaBet in TLA+

Models, model-checking runs and machine-checked proofs of LunaBet, the multi-tenant exact-score betting
application of this repository (Rust, Axum, sqlx, PostgreSQL). Paths below are relative to the repository root.

    tlc -workers 2 -config MCBetting.cfg MCBetting.tla      # any run of PROJECT.json
    tlapm BettingProofs.tla                                 # any *Proofs module, SpacesRaces, Counting

## 1. The system

| Component | State | Operations | Models |
|---|---|---|---|
| Scoring rules (`src/scoring.rs`, `src/models.rs`, `ApiScore` in `src/football_data.rs`) | none | points of a prediction, settled score of a report, is a match open | `Scoring` |
| Predictions and jokers (`src/routes/bets.rs`, `src/routes/import_bets.rs`) | table `bets` | `place_or_update`, `toggle_joker`, `import` | `Betting`, `JokerBook` |
| Fixture sync (`src/football_data.rs`) | table `matches` | fetch, upsert of every match in one transaction; pinned matches | `Betting`, `Settlement` |
| Background loop (`src/main.rs`) | none of its own | sync, scoring, streaks, badges, badge e-mails, live scores, rank alerts, reminders, in this order, every 1 or 10 minutes; errors are logged | `Betting`, `Settlement`, `BadgeMail`, `LivePush`, `Mailings` |
| Streaks (`src/streaks.rs`) | `users.current_streak`, `best_streak` | `recompute_all` | `Settlement` |
| Badges (`src/achievements.rs`) | table `achievements` | `evaluate_all` | `Settlement` |
| Player of the day (`src/highlights.rs`, `src/matchday.rs`) | table `player_of_the_day` | `upsert_player_of_the_day` | `Settlement` |
| Badge e-mails (`src/notifications.rs`) | `achievements.notified_at`, table `badge_notify_codes` | `init_badge_notifications`, `send_badge_unlocks` | `BadgeMail` |
| Reminders, daily digest, today's matches (`src/notifications.rs`) | `match_reminders`, `daily_digests`, `today_matches_emails` | send, then record; scheduled, forced or one-off | `Mailings` |
| Live score, rank alerts (`src/notifications.rs`, `src/push_channel.rs`, `src/routes/push.rs`) | `matches.last_pushed_*`, `users.last_notified_rank`, `push_subscriptions` | compare with the baseline, push; subscribe, prefer, prune | `Board`, `LivePush`, `Contest` |
| Stakes and pot (`src/stakes.rs`, `src/routes/stake.rs`, `src/routes/admin.rs`, `src/routes/leaderboard.rs`) | `users.stake_eur`, `paid_at` | submit, mark paid and unpaid, leaderboard, payouts | `Board`, `Stakes`, `Contest` |
| Tenant registry (`src/tenant.rs`) | a cache over `tenants`, its snapshot of the default tenant | resolve, invalidate, start of the server | `Tenancy`, `Spaces` |
| Magic links, sessions (`src/routes/auth.rs`) | `magic_links`, `sessions` | request on a space or at the apex, callback, logout | `SignIn`, `Spaces` |
| Invitations, members (`src/routes/invitations.rs`) | `invitations`, `users` | create, refresh, revoke, accept, remove | `SignIn`, `Spaces` |
| Signup of a space (`src/routes/signup.rs`) | `pending_tenants` | submit, verify, hourly cleanup | `SignUp`, `Spaces` |
| Administration (`src/routes/super_admin.rs`, `src/routes/platform.rs`, `src/routes/tenant_settings.rs`) | `tenants` | create, update, delete, drop a space; settings | `Console`, `Spaces` |
| Rate limits (`src/rate_limit.rs`) | sliding windows in memory | allow or refuse | not modelled |
| Screens, translations, templates, mail transport, web push, logos, configuration | none, or files | queries, formatting, I/O | not modelled |

How they interact: web handlers, the loop, the digest ticker and the tasks spawned at start-up share nothing but
the database, under PostgreSQL's default READ COMMITTED, and a cache of tenants. There is no lock between tasks and
nearly every job is several statements, so what is hard is:

- **a read used after it is stale**: the test that a match is open and the write of the bet; the search for a joker
  and its move; the history folded by a task and overwritten by the other; the codes read before grants are stamped;
- **order**: the sync of start-up beside the loop's, corrections of results, matches that kick off together;
- **partial failure**: each job, e-mail and statement fails alone, and the next pass must repair it;
- **crashes** between what is sent and what records it, or between two records;
- **several releases at once**, during a rolling deploy.

What makes each component right: the points of a settled match follow its result and its jokers (scoring); no
prediction with hindsight and at most one joker per phase, moved atomically (predictions); streaks are the runs of
the history and badges are given when, and only when, they are deserved (settlement); every unlock is announced and
history never is (badge e-mails); a mail goes out once per event although its record comes after (mailings); each
goal and each climb is told, once (pushes); the pot is the money collected (stakes); a link opens one session, a dead
invitation stays dead, nobody enters uninvited, a space keeps an admin (members); a slug is reserved for whoever asked
first (signup); the cache follows the table (registry).

`PROJECT.json` lists the hazards at their lines with the properties that cover them.

## 2. The modules

Conventions: every SQL statement is one step; a transaction that only reads its own rows until the commit is one
step at the commit. Variables named after tables and columns hold rows as functions; `NULL` is SQL's. `spent` counts
how much of each bound is used and is no part of the program. An operator commented "Mutant of X" is no part of the
model: it is a wrong version of `X`, kept beside it to show which property catches it.

### Scoring, JokerBook, Betting

`Scoring` holds the pure rules. `Betting` composes the handlers of `bets.rs` and `import_bets.rs` (a request per
user and tab, its `pc` and the values it has read), the sync, the grading and the clock:

| Action | Code |
|---|---|
| `PlaceCheck`, `PlaceWrite` | `place_or_update`: SELECT and test, then the upsert |
| `ToggleCheck`, `ReadMultiplier`, `Seek`, `CommitOff`/`CommitSet`, `RequestFails` | `toggle_joker`: tests, then the statements of its transaction, or its rollback |
| `Import` | the one INSERT ... SELECT of `import` |
| `LoopSync`, `BootSync` | `sync_fixtures` in the loop and at start-up, `SyncCommit` with the CASEs on `score_locked` |
| `LoopScore`, `DigestRecompute` | `scoring::recompute_all` from the two tasks |
| `PinResult`, `SwitchJokers`, `Restart`, `Tick` | an operator's correction, the setting of the space, a restart, NOW() |

The two UPDATEs of `CommitSet` only write rows of the same player that stay locked until the commit, hence one step.
Statuses of the feed are classes (`Status`): the code tells apart only `has_kicked_off` and `FINISHED`. A match's
row is what the feed may say (`Feed`), with its result read by `ResultOf` from a report that may be a shootout.

`JokerBook` is the abstract promise: predictions and jokers change in atomic steps. `Book` in `Betting` is the
refinement mapping.

| Property | What it says |
|---|---|
| `OneJokerPerPhase` | two doubled bets of a player are in different phases |
| `AtomicBook` | the statements implement `JokerBook` |
| `NoHindsight` | a bet changes only if its match had not started when the request came in |
| `PointsSettle` | in the end every settled bet carries joker times base points, whatever came before |
| `GradingGoesOn` | the loop re-grades again and again, whatever its syncs meet |
| `TypeOK` | points are 0, 1, 3 or twice that; all else has its type |

`NoHindsight` speaks of the moment the request came in: the code itself tests and writes in two statements, so a bet
can be written some milliseconds after the kickoff.

### Settlement

The loop (`task.loop`) and a digest (`task.digest`), each running its jobs in order over the same tables; `Fold`
and `WriteStreaks` are the read and the write of `streaks::recompute_all`, `PickWinner` and `UpsertWinner` those of
`upsert_player_of_the_day`; the rules of `evaluate_all` are one action each. `Reported` changes a match as a sync or
an operator may; `Fails` skips the rest of a job as the error handling does; `Restart` starts with the evaluation
that `init_badge_notifications` makes. Orders of simultaneous kickoffs are chosen anew in each fold (`Orders`).
Predictions are given, and one space is modelled: no statement mixes two.

| Property | What it says |
|---|---|
| `StreaksSettle` | in the end the streaks are the runs (by definition, not by the fold) of the settled history |
| `GivenAreDeserved` | a badge is given only in a state where its rule, restated independently, holds |
| `EvaluationIsComplete` | the job of a rule leaves its badge with everyone who deserves it at that moment |
| `DeservedAreGiven` | in the end every badge whose rule holds is given |
| `TypeOK` | types, and a best streak covers the current one |
| `BestStreakStays` | best streaks never come down: **violated**, see section 4 |

`GivenAreDeserved` reads exact scores from the multiplier, gaps-and-islands as days won in a row, and so on: the
definitions under `Deserves` share nothing with the queries but the tables.

### BadgeMail

Nodes, each of a release (`Catalog[n]`), on the same tables: start-up (`Start` ... `InitEnds`, or `InitFails`) then
the loop (`LoopEvaluate`, `ReadRows`, `Send`, `Mark`, `PassEnds`), with e-mails refused, stamps that fail, jobs that
fail and crashes. Which player meets which rule changes freely (`Change`). Two history variables are no part of the
program: `mailed`, and `unlocked`, the grants of a code that was already recorded.

| Property | What it says |
|---|---|
| `StampedWasMailed` | an unlock is stamped as announced only after an e-mail: none is dropped by an old node or an initialisation |
| `NoBlastOnceInitialised` | as long as no initialisation has failed only unlocks are announced, never history |
| `UnlocksAreMailed` | every unlock is announced in the end |
| `PassesEnd` | no pass of a node kept up lasts for ever: the next one reads the rows again |
| `TypeOK` | types, and announced or unlocked badges keep their row |
| `NoBlast` | the same as the second without its condition: **violated**, see section 4 |

### Mailings

The three mailings of a matchday (reminders, preview, digest) and the jobs that send them: the loop, the ticker of
the daily mailings, and what is started by hand, forced from the platform dashboard or as a one-off command. A job is
a `pc` and what it has read. Time is one matchday: the kickoffs, the midnight after which it is "yesterday", the hour
of the digest and the cutoff of its patience.

| Action | Code |
|---|---|
| `StartReminders`, `ReadUnbet` | `send_for_tenant`: the matches in the window not in `match_reminders`, then per match the members without a bet |
| `StartPreview` | `send_today_matches` |
| `StartDigest`, `CheckPending`, `Regrade`, `ReadResults`, `ReadDay` | the statements of `send_daily_digest` and `digest_for_tenant` in their order; an error of the re-grading is skipped |
| `CheckAlready` | the look into `daily_digests` or `today_matches_emails`; a forced mailing does not look |
| `Mail`, `Record` | one e-mail, accepted or refused; then the INSERT ... ON CONFLICT DO NOTHING |
| `TickerFires`, `LoopReminds`, `StartManual` | the ticker and the loop of `main`, the dashboard and the commands |
| `Report`, `LoopRecompute`, `PlaceBet` | sync (of the loop or of start-up), grading and members, beside the mailings |
| `Fault`, `Crash` | a statement fails and the mailing is given up; the server stops, one-off commands do not |

A report moves one match, while a real sync stores all in one transaction: two reports in a row stand for it. A
withdrawn result keeps its points, as `recompute_all` never clears them. The Slack post and the push beside a
reminder go out with its e-mails and are left out, as is `matches.reminded_at`, which no query reads. The only
history is `tries`, and the fields `owed` and `firm` of a job.

| Property | What it says |
|---|---|
| `RecordedWasTried` | what is recorded, and so never sent again, was tried for every member, or they had bet |
| `NoSpareCopies` | a member gets one copy, and at most one more for each crash, failed statement or mailing by hand |
| `DigestIsComplete` | a scheduled digest before the cutoff reports every match that had kicked off |
| `FirmPointsAgree` | points and results of a digest belong together for each match not reported since it graded |
| `DigestGoesOut` | a matchday with a result gets its digest, even with a match that never ends |
| `TickerComesBack` | the task of the ticker always comes to its end, and the ticker fires again |
| `TypeOK` | types, and a job holds what its place asks for |
| `PointsAgree` | `FirmPointsAgree` for every match: **violated**, see section 4 |

### Board, LivePush, Stakes, Contest

`Board` is the ranking of `load_leaderboard`: points, exact scores, settled bets, seniority. Points come from a set
of standings, as `Betting` and `Settlement` compute them. `LivePush` has two jobs (the loop, and pushes run by hand
as a process of its own), each a `pc` and what it has read:

| Action | Code |
|---|---|
| `LoopSync`, `LoopStores`, `LoopGrades`, `OtherStores` | the part of the loop before the pushes; a sync of start-up or by hand, at any time |
| `Scan`, `Baseline` | `send_live_score_updates`: the SELECT of the candidates with the events found in them, then the UPDATE of all of them to what is stored *now* |
| `LoadTenants`, `ReadRecipients`, `Push`, `Pushed` | the tenants, then per tenant the players and per player and event one push |
| `ReadStandings`, `ReadPrefs`, `Alert`, `Rebase` | `rank_alerts_for_tenant`: board, preferences and stored ranks, pushes, then the UPDATE of the ranks |
| `PushToUser` (in `Push`, `Alert`) | `push_to_user` and `deliver`: endpoints answered 404 or 410 are pruned, others may fail, native ones are skipped |
| `Subscribe`, `Unsubscribe`, `SetPreference`, `EndpointDies` | `routes/push.rs`, and the browser |
| `JobFails`, `TenantFails`, `Crash` | an error gives the job or the tenant up; a process dies |

`Stakes` has the form of a player (`AskStake` reads and tests, `StoreStake` writes), the administrator (`MarkPaid`,
`MarkUnpaid`), the deadline, and the leaderboard page (`ReadBoard`, then `ReadPot`; `Payouts` by weight, without the
division into cents). `Contest` composes the two over one board.

| Property | What it says |
|---|---|
| `NoRepeat` | what a job still has to push was not told to that player before, unless two jobs found it at once |
| `GoalsAreTold` | between the live score jobs each player knows the score written down and whether the match is over, unless a push to him went wrong or the row was stored between SELECT and UPDATE |
| `ClimbsToldOnce` | an alert of the same or a worse place comes only after the board had the player lower |
| `LiveSubsStay` | a subscription that works is deleted by its player only |
| `PotIsCash` | a paid stake is what was collected, unless it was chosen before the payment and stored after |
| `PotIsWon` | a page shows a pot if and only if it shows winners, unless a payment came between its two statements |
| `TypeOK` | types, and a job pushes to players of the space it is at |

History variables, no part of the program: `version` (how often a row was stored) and `based`; `known` and `told`,
what each player was told; `alerted`, the rank of the last alert; `cashed`, what was collected. The exceptions of the
properties are recorded where they arise: `missed`, `doubled`, `fell`, `blurred`, `slipped`, `page.torn`.

### Tenancy, SignIn, SignUp, Console, Spaces

The tables behind the spaces, and the requests over them. A request is a record: its operation, its `pc`, and what it
has read (`space`, the tenant it was resolved to, as cached; `who`, the user of its session; `ref`, the row it is
about). Each statement, or transaction, is a step, and between any two the others run. Ids are not used again: a
deleted row is `GONE`. Foreign keys and UNIQUE columns are guards: an INSERT they refuse ends the request.

| Module, action | Code |
|---|---|
| `Tenancy`: `Resolve`, `Fallback`, `Fill`, `Invalidate` | `TenantRegistry::resolve` (cache, SELECT, then the write of the cache under another lock), `resolve_default`, `invalidate` |
| `Auth`, `Stops`, `Restart` | the session of the cookie; a statement that fails or a client that hangs up; `ensure_default` at the start |
| `SignIn`: `AskMember`, `AskInvited`, `AskWhose`, `SendLink` | `request_magic_link` on a space, and at the apex where the space is looked up by address |
| `ReadLink`, `UseLink`, `Enter`, `OpenSession`, `Logout` | `callback` in its four statements; `logout` |
| `FindInvite`, `RefreshInvite`, `InsertInvite`, `Revoke` | `create` and `revoke` of `invitations.rs` |
| `ReadInvite`, `ExpireInvite`, `Join` | `accept`: the tests, then its transaction |
| `StartRemove`, `RemoveMember` | `remove_member`: the tests, then its transaction with the cascades |
| `SignUp`: `AskTaken`, `AskCooldown`, `InsertPending`, `ReadPending`, `CreateSpace` | `submit` and `verify` of `signup.rs` |
| `Purge`, `ExpireInvites` | the hourly cleanup of `main.rs` |
| `Console`: `CreateTenant`, `UpdateTenant`, `CountUsers`, `DeleteTenant` | `super_admin.rs` |
| `DropTenant`, `WriteSettings` | `platform::delete_tenant`; `tenant_settings::update` |

An e-mail pattern is the set of addresses that match it; the token of an invitation is the number of times it was
refreshed; time is what expires (`LinkExpires`, `InviteOverdue`, `Ages`). Three fields belong to no row of the
program: `stray` of a link asked for at the apex whose space changed, `link` of a session, `founder` of a space.

| Property | What it says |
|---|---|
| `NobodySlipsIn` | a member of a space on invitation founded it, was invited, or came by a stray link |
| `OpenedOnce` | a link opens one session, unless callbacks all read it before one used it (`overlapped`) |
| `StaleOnlyByRace` | the cache says what the table says, for slugs nobody is about to invalidate and that were not `raced`: filled over an invalidation, or left by a request dropped before its own |
| `ReservedSlugs` | no space takes the slug of a live sign-up, but one the console or a start made, or over a slug the console has freed (`made`) |
| `KeepsAnAdmin` | a space with an administrator keeps one, unless the console set the list anew (`edited`) or a removed administrator's request removed another (`orphaned`) |
| `DeadStaysDead` | an invitation that was accepted, revoked or expired is never pending again, and only an acceptance that found it pending overwrites how it ended |
| `TypeOK` | types, and rows refer to rows that exist, sessions to users of their own space |

## 3. The runs

| Run | Instance and bounds | Result |
|---|---|---|
| `betting` | 1 person in 2 spaces, 2 matches of a phase, 2 scores, 1 request in flight, instants 0..2; `MaxRequests` 3, `MaxSyncs` 1 (a fetch that commits or a pin), `MaxFaults` 1 (a grading that fails or a restart) | passes, 429,058 states |
| `betting_two_tabs` | the same with two requests in flight, no sync | `OneJokerPerPhase` violated |
| `settlement` | 2 players, 4 matches on 3 matchdays, two of them simultaneous; 2 digests, 1 change of a result, failed job or restart | passes, 139,039 states |
| `settlement_best_drops` | the same | `BestStreakStays` violated |
| `badge_mail` | 2 players, 2 badges, an old node that knows one and a new one that knows both; 2 changes of a rule, 1 fault of the loop or crash, 1 failed initialisation | passes, 99,754 states |
| `badge_mail_init_fails` | the same | `NoBlast` violated |
| `badge_mail_twins` | two nodes of one release started together, no fault | `StampedWasMailed` violated |
| `mailings_evening` | 2 members, 2 matches in the reminder window, no digest; 1 bet, 1 mishap, 1 mailing by hand; members symmetric | passes, 1,083,408 states |
| `mailings_digest` | 2 members, a match before midnight and one after, digest and cutoff, no reminder; 2 reports, 1 mishap, 1 mailing by hand | passes, 927,919 states |
| `mailings_stale_points` | the same without mishap and by hand | `PointsAgree` violated |
| `contest` | 3 players in 2 spaces, 1 match, 2 scores, 2 browsers (one shared by two players) and a phone; 9 allowances of events | passes, 593,669 states |
| `spaces` | 3 addresses, 2 slugs, 2 requests at a time (symmetric), 4 populations, 16 allowances of requests and events | passes, 167,014 states |

Why the bounds are enough. Betting: a joker needs two matches of a phase and two requests to be moved, hindsight
needs a kickoff between two requests, settling needs a correction after a grading: all are within them; a second
match of another phase adds nothing since phases do not interact. Its two scores are draws so that a wrong exact
score is still worth a point and a result can come from a shootout. Settlement: one correction, of either of two
simultaneous matches, changes the streak, the winner of its day and the badges; two digests interleave with the loop
and with each other's leftovers. BadgeMail: one crash at any step and one refused e-mail are the program's whole
repertoire; two players make the batch of a pass more than one e-mail. Mailings: two members put a crash between two
e-mails, two matches make a list with a rest, and a mailing by hand meets a scheduled one at every step; reminders
and digests share no table and no hour, so they are run apart, and `NoSpareCopies` and `RecordedWasTried` are proved
for all bounds. Two reports finish both matches, or finish one and correct it; the second match of a deferral simply
never ends. Contest and Spaces: each behaviour has one of a few allowances (`Allowance`, `Start`), every one a case of
section 1 with what it takes: a goal, its correction and a whistle; two stores around one scan; a job by hand beside
the loop; a climb, a fall and a climb; a stake, a payment and a page. In Spaces, two callbacks of one link, two
acceptances, two removals, an invitation refreshed while it is revoked or accepted, two sign-ups of a slug, a slug
that changes hands, a row cached while it is edited, a restart. Two requests at a time suffice for each: every hazard
listed is between two. All the properties of both are proved for all bounds, and so is
the safety of the others.

Fairness. `Betting`: `WF` of the loop's sync and grading, which `main.rs` runs in an endless loop whose errors are
logged and skipped. `Settlement`: `WF` of the loop; nothing obliges a digest to run or to end. `BadgeMail`: `WF` of
the loop of the nodes kept up (`Successor`), none for the old ones. `Mailings`: `WF` of the clock, of the ticker
(every 15 minutes) and of its task, whose e-mails end accepted or refused; none for the loop or what is done by hand.
`Contest` and `Spaces`: none, they check safety only (a push that fails is not tried again, a request may be dropped).
Faults are bounded, so that liveness says: once
faults stop, the promise is kept. The fetch is assumed to end, although `main.rs:249` builds a client without
timeout: that is a hazard of its own. Deadlock is checked in every passing run.

## 4. Where code and documentation disagree

- **Two jokers in a phase** (`betting_two_tabs`). `toggle_joker` says at most one, "all in one transaction"; two
  transactions under READ COMMITTED both find none and both set theirs. No index forbids it.
- **The best streak comes down** (`settlement_best_drops`). `specs/01-streaks.md` says it never does; it is
  recomputed from the history, which a corrected result may shorten.
- **An initialisation that fails** (`badge_mail_init_fails`). `main.rs` says no history is ever announced; the loop
  starts after a failure too, and announces it.
- **Two nodes that start together** (`badge_mail_twins`). "Grants of an already-recorded code are left untouched";
  the recorded codes are read once, and the slower node stamps an unlock of a code the other has recorded since: the
  player is never told.
- **A result with the points of another** (`mailings_stale_points`). The digest re-grades first because a match may
  be finished and its bets not graded; "recomputing here closes that race". The sync may store a result between the
  re-grading and the SELECT of the results: the race is narrower, and open.

Read, and left as notes, here or among the hazards.

- Predictions, settlement, mailings: a match without a prediction does not break a streak although
  `specs/01-streaks.md:71` says it does; a perfect day is given before the day is over; a joker is locked by the clock
  and not by the feed; a day whose only scorer is corrected away keeps its winner; a score withdrawn from a finished
  match still counts in the points of the day, whose results no longer list it; a digest forced early is recorded, and
  the scheduled one does not follow. `README.md:87-89` says each mailing goes out once: `NoSpareCopies` says how often
  it may be more.
- Pushes: a finished match without a score is pushed as 0-0; a match that leaves FINISHED and comes back is whistled
  again, as another version of its row; a goal stored between the SELECT and the UPDATE of a job is never told.
- Cache: `invalidate` is called "so edits show up immediately" (`src/tenant.rs:286-287`); a request that has read the
  old row caches it after that, and the registry has no expiry, so the edit shows at the next write or restart. The
  same holds when the request is dropped between its write and `invalidate`.
- Members: "the space always keeps at least one admin" (`src/routes/invitations.rs:305`) rests on an administrator who
  cannot remove himself; two who remove each other both can. A magic link asked for before the removal lets a removed
  member of a space on invitation back in: he was invited, and `callback` asks for no more. The refresh of an
  invitation that was revoked or accepted meanwhile succeeds and mails a link that cannot be accepted.
- Signup: the slug is reserved "while the link is alive" (`migrations/20260525000008_pending_tenants.sql:14`); UNIQUE
  holds it for expired rows until the cleanup, and for used rows for ever: `super_admin::delete` leaves the row, and
  the slug can be given by the console only. `super_admin::create` does not look at pending spaces at all.
- Deletion: `platform::delete_tenant` says it deletes "every row that references" the space (`platform.rs:327`); an
  invitation, a table added later, stops it with an error. A space without users is kept by its old magic links.
- Configuration: `README.md:141` has `ADMIN_EMAILS` apply at every sign-in; it is read into the default tenant's row
  when that is created, and the row decides from then on.

## 5. What is proved

For every value of the constants, by TLAPS.

`BettingProofs`:
- `ThreePointsMeanExact`: `points >= 3` tells exact scores, jokers or not.
- `TypeCorrect`, `Hindsight`: from `NullAssumption`, `FeedAssumption`, `BoundAssumption`. `TypeOK` is not inductive:
  what a handler will write was tested when it began, so the invariant adds `RequestOK`, that a request in flight is
  for a match that was not closed when it came in.
- `PointsGetRight` (`PointsSettle`): if the loop grades again and again (`GradingGoesOn`) and, from some time on, nobody
  writes a bet or a match (`Rest`). Re-gradings of either task, requests that write nothing and restarts may go on.
- `OneJoker`, `Implements`: with two more assumptions, `OneAtATime` (a player has one request in flight) and
  `StagesStay` (the feed does not move a match to another phase). The first is exactly what the violated run drops.
  The invariant `JokerInv` says what a transaction has read still holds when it commits.

`BadgeMailProofs`:
- `TypeCorrect`: the inductive invariant `Typed` adds that a batch names rows that exist.
- `NoUnlockIsDropped` (`StampedWasMailed`): under `OneInitialiser`, each new badge comes with one node, which the
  run `badge_mail_twins` drops. `Stamped` adds that the codes being stamped are not recorded, that unlocked badges
  are of recorded codes, and that what is being stamped was mailed.
- `NoHistoryIsAnnounced` (`NoBlastOnceInitialised`): `Historyless` adds that unannounced rows of recorded codes are
  unlocks, that the loop runs with all its codes recorded, and that between stamp and record no grant of the code
  appears.

- `UnlocksGetMailed` (`UnlocksAreMailed`): under `OneInitialiser`, if each pair of a player and a badge is `Served` by
  some node: its release knows the badge, its passes end again and again, and from some time on it is not refused the
  e-mails of that player. An unlock in the table is in the next batch of that node (`StampedWasMailed` keeps its row
  unannounced), a batch leaves a player out only when he was mailed or refused, and no pass ends with the pair in it.
  Other nodes may crash, fail and start for ever, and so may that one, as long as it comes back.

`MailingsProofs`, with no assumption but those of the module:
- `TypeCorrect`: `Fit` adds what each job can be: the loop sends reminders only, the ticker none.
- `NobodyIsForgotten` (`RecordedWasTried`): while a job mails, whoever it no longer holds was tried or had bet
  (`Told`).
- `CopiesArePaidFor` (`NoSpareCopies`): the invariant `Counted` adds to the copies sent those each job still has to
  send, and pays for them with the one scheduled sending (under way past its check, or recorded), the mailings by
  hand and the mishaps. It rests on each mailing having one scheduled job (`Scheduled`).
- `NoMatchIsLeftOut` (`DigestIsComplete`) and `PointsFollowResults` (`FirmPointsAgree`), on top of `Typed`. The invariant `Reporting` follows a digest from statement to statement: until it reads the results,
  what it owes is over and firm points are those of the stored result; then what it has read is what is stored, for the
  firm matches; then it is what the e-mail says. A report takes its match off what is firm, and a re-grading by anyone
  leaves firm points as they are.
- `DigestsGoOut` (`DigestGoesOut`): if the ticker comes back again and again (`TickerComesBack`), the clock passes the
  cutoff, and from some time on neither the process nor the task of the ticker fails (`TickerIsKept`). Past the cutoff
  nothing defers a digest, so that from its start on it is under way until it is recorded or finds itself recorded.

`ContestProofs`, from `BoardAssumption` (seniority tells players apart), `StandingAssumption`, `PushAssumption`,
`SubsAssumption` and `TierAssumption`, which only give the constants their types:
- `TypeCorrect`: the invariant `Typed` adds what a job can be at each `pc` (`Fit`), and that it has one event per match.
- `NeverRepeats` (`NoRepeat`): `ToldOnce` follows the version of a row from the SELECT to the pushes. The baseline is
  no newer than the row; what a running job found is no newer than the baseline once it is written down, so that the
  next job cannot find it; two jobs that hold the same version found it at once; what is owed is untold.
- `GoalsReachPlayers` (`GoalsAreTold`): `Tidings`, on top of that, says that each event tells what its version was,
  that a job between SELECT and UPDATE has an event for all that is worth it, and that a player knows the baseline or
  is owed the event that tells him.
- `ClimbsNeverRepeat` (`ClimbsToldOnce`): `ClimbOnce` says that the last alert is the rank stored, or that of the job
  that still has to store it, until the board had the player lower.
- `LiveSubscriptionsStay`, `PotIsCollected` (`PotIsCash`).
- `PotHasWinners` (`PotIsWon`): who has paid has staked; unless the page was read across a payment, its top players are
  those of the payers it counts; and someone is at the top of any payers, by the least of their places.
- `RanksAreOneEach`, `PotSharesAreOneEach`: the code numbers the rows of a sorted board, the model counts who is ahead.
  They agree: `Ahead` is a strict total order as seniorities differ, so that the counts are 1, 2, 3 and so on, one player
  each; the top of a page has the places 1 to three, or to the number of the payers.

`SpacesProofs`, from `IdAssumption`, `DomainAssumption`, `ModeAssumption`, `NobodyAssumption` and `StartAssumption`:
the deployment starts with its default tenant and with tables whose rows refer to each other, administrators are in
the lists of their spaces, and members of a space on invitation founded it or were invited.
- `Invariance`: `IInv` is `TypeOK`, `Registered` (what the cache and the snapshot hold was a row), `Listed`
  (administrators are in their lists, members are entitled) and `Requests`: each request is `Sound`, that is `Fit` for
  its `pc` and `Truthful` about what it read. What it read are facts that last: as ids are not used again, a row that
  was a user of a space is one still or is gone, an address once invited stays invited, and the slug, the mode and,
  unless edited, the list of a space stay. So no step of others spoils a request (`Lasting`).
- `TypeCorrect`, `NobodyGetsIn` (`NobodySlipsIn`), `DeadInvitationsStayDead`, `SpacesKeepAnAdmin`: from `IInv`. For
  the last, whoever removes is not whom he removes, and is still an administrator of the same space or the exception
  is recorded.

`SpacesRaces`: `LinksOpenOnce` adds to `OpenedOnce` that a link with a session is used and that a callback past
`UseLink` has it used; `CacheIsFresh` adds to `StaleOnlyByRace` that a row about to be cached is the row of the table,
or the slug is being invalidated or was raced.

`SpacesRaces` also proves `SlugsStayReserved`. Pending spaces do not share a slug; a sign-up past its look at the tables finds no
space of its slug when it inserts, or one made from a pending space, whose row then refuses the INSERT; the row of a
verification that is about to create still holds the slug, unless the console has freed it.

`SettlementProofs`, from `SettlementAssumption`:
- `FoldComputesRuns`: for every history, the fold of `streak_of` gives the runs by their definition (`RunsAt` is its
  invariant: what the run that ends here and the longest one so far are, after each prefix).
- `TypeCorrect`: `Typed` adds to `TypeOK` what the tasks can be at each `pc` (`Apt`), that what they have folded has a
  best that covers its current, and that the points of a bet are those of an exact score, of an outcome or none, times
  the joker: the last is what lets `points >= 3` stand for an exact score.
- `StreaksAreRuns` (`FoldsAreRuns`): what a replay hands over are the runs of the bets settled at that moment. The
  history lists each once, in the order of the kickoffs (`HistoryInOrder`), whatever order simultaneous ones take.
- `BadgesAreDeserved` (`GivenAreDeserved`) and `DeservedByRuleAreGiven` (`EvaluationIsComplete`): in each direction one
  lemma per rule. That two days a player has won have the same difference of row numbers exactly when he has won every
  recorded day between them is `SameIslandInARow` and `InARowSameIsland`.
- `StreaksGetRight` (`StreaksSettle`): if from some time on only the loop runs, and it goes on (`OnlyTheLoop`). A grading
  leaves points that the next one does not change (`PointsAreWorths`), a replay of them hands over their runs
  (`FoldedIsRuns`), and writing these leaves them with the players (`StreakIsRuns`), whatever a digest had written.
- `EachDeservedIsGiven`: under the same hypothesis, for each player and badge, the badge has been given or is not
  deserved from some time on. Only the writing of the streaks can still change who deserves what (simultaneous matches
  may be taken in another order), and between it and the job of a rule nothing does.

`Counting` is what those proofs count with. A set of numbers that is not empty has a least one; this replaces induction,
whose theorems in the library take an operator as a parameter, by the least number of a set of counterexamples. From it
follow induction over the numbers up to a bound, that a function defined by recursion on the length of a prefix or on
subsets of a finite set is what its definition says (such a definition is a CHOOSE, and it has to be shown that one
exists), the n-th element of a set of numbers, and when a set has two elements.

The theorems about what happens in the end are stated with progress and quiet as their hypotheses: some action happens
again and again (`[]<><<A>>_vars`), and from some time on some others do not. The first follows from the fairness of
section 3 only by way of ENABLED, which the prover does not have, so TLC checks it, as `GradingGoesOn`, `PassesEnd`
and `TickerComesBack` (the loop of `Settlement` always has a step to take). The second is what the bounds on faults,
reports and requests give the instances. The theorems need no bound: they hold of any number of faults before the quiet.

Only model-checked: those three properties; and `DeservedAreGiven`, which says of all players and badges at once what
`EachDeservedIsGiven` says of each. The two mean the same for the finite catalogue, by an induction over it under the
temporal operators, which is out of the prover's reach.

## 6. Not modelled

- **Rate limits** (`src/rate_limit.rs`): windows in memory, each read and written under one mutex. Nothing interleaves
  and nothing else reads them; the properties hold whether or not a request is refused.
- **Of the sessions**: their expiry, and the switcher between spaces, which only reads; the login of a development
  build. The magic links of the platform console (`platform.rs`) have the shape of those of `SignIn`.
- **Of the settings and the console's form**: columns no other request takes as a right (names, colours, logo,
  deadline); the stake deadline is an event of `Stakes`. Who may use the console is given by the environment.
- **Of a removal and a deletion**: the rows of bets, badges and subscriptions that go with a user.
- **Of the loop**: the length of its pause (`any_match_active`).
- **Web push**: encryption and HTTP; an endpoint answers, is gone or fails. **Mail**: templates and SMTP; an e-mail is
  accepted or refused. **Screens, translations, assets, configuration, logos**: formatting, queries and I/O.
- **An import between spaces** is in `Betting` as one statement; that the spaces are of one person is the identity of
  the player there.
