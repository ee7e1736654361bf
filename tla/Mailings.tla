------------------------------ MODULE Mailings ------------------------------
(***************************************************************************)
(* The e-mails of a matchday (src/notifications.rs): the kick-off          *)
(* reminders of the scoring loop, the preview of the day's matches and the *)
(* morning recap, the digest.  All work the same way: read whom to mail,   *)
(* mail each, then record in a table that the mailing is done.  A digest   *)
(* also re-grades the bets, and reads the results and the points it        *)
(* reports in two statements.                                              *)
(*                                                                         *)
(* Each action is one statement or one e-mail.  One space and one matchday *)
(* are followed; the feed reports matches, and a platform administrator or *)
(* a one-off command starts mailings of their own, beside the scheduled    *)
(* ones.                                                                   *)
(***************************************************************************)
EXTENDS Integers

CONSTANTS
  User,         \* the members of the space
  Match,        \* the matches of the matchday
  Score,        \* settled scores
  Kickoff,      \* Kickoff[m]: when match m starts
  Lead,         \* reminder_lead_minutes of the space
  PreviewHour,  \* TODAY_MATCHES_HOUR
  Midnight,     \* when the matchday becomes "yesterday", UTC
  DigestHour,   \* DAILY_DIGEST_HOUR
  Cutoff,       \* end of the matchday window and DIGEST_COMPLETION_GRACE_HOURS
  Horizon,      \* bound: the last instant of the model, before the next midnight
  MaxReports,   \* bound: reports of the feed
  MaxBets,      \* bound: bets placed
  MaxMishaps,   \* bound: crashes, and statements that fail
  MaxManual,    \* bound: mailings started by hand
  NULL

ASSUME DayAssumption ==
  /\ Kickoff \in [Match -> Nat]
  /\ {Lead, PreviewHour, Midnight, DigestHour, Cutoff, Horizon} \subseteq Nat
  /\ Midnight <= DigestHour

ASSUME NamesAssumption ==
  /\ {"digest", "preview"} \intersect Match = {}
  /\ NULL \notin Match \union Score \union {"digest", "preview"}

VARIABLES
  clock,
  match,     \* match[m]: the status and the result of the row of matches
  graded,    \* graded[m]: the result the points of the bets on m come from
  bet,       \* pairs <<user, match>>: the member has a bet on the match
  recorded,  \* match_reminders, today_matches_emails, daily_digests
  job,       \* the mailings under way; owed and firm are no part of the program
  tries,     \* tries[k][u]: how often mailing k was sent to u: no part of the program
  spent      \* how much of each bound is used: no part of the program

mailVars == <<recorded, tries>>
dataVars == <<match, graded, bet>>
vars == <<clock, match, graded, bet, recorded, job, tries, spent>>

\* A reminder is named by its match.
Mailing == Match \union {"digest", "preview"}

\* The scoring loop, the ticker of the daily mailings, and what is started by hand.
Job == {"loop", "ticker", "manual"}

NoResults == [m \in Match |-> NULL]

\* owed: matches the digest has to report; firm: matches not reported anew since it graded.
Idle == [pc |-> "idle", mailing |-> NULL, force |-> FALSE, due |-> {}, todo |-> {},
         results |-> NoResults, day |-> NoResults, owed |-> {}, firm |-> {}]

Settled(m) == match[m].status = "FINISHED" /\ match[m].result # NULL

At(j, pc) == job[j].pc = pc

Spend(what) == spent' = [spent EXCEPT ![what] = @ + 1]

Init ==
  /\ clock = 0
  /\ match = [m \in Match |-> [status |-> "TIMED", result |-> NULL]]
  /\ graded = NoResults
  /\ bet = {}
  /\ recorded = {}
  /\ job = [j \in Job |-> Idle]
  /\ tries = [k \in Mailing |-> [u \in User |-> 0]]
  /\ spent = [reports |-> 0, bets |-> 0, mishaps |-> 0, manual |-> 0]

-----------------------------------------------------------------------------
(***************************************************************************)
(* What goes on around the mailings.                                       *)
(***************************************************************************)
Tick ==
  /\ clock < Horizon
  /\ clock' = clock + 1
  /\ UNCHANGED <<dataVars, mailVars, job, spent>>

PlaceBet(u, m) ==
  /\ spent.bets < MaxBets
  /\ <<u, m>> \notin bet
  /\ match[m].status = "TIMED" /\ clock < Kickoff[m]
  /\ bet' = bet \union {<<u, m>>}
  /\ Spend("bets")
  /\ UNCHANGED <<clock, match, graded, mailVars, job>>

(***************************************************************************)
(* The sync stores what the feed says of a match that has kicked off: it   *)
(* is played, it is over with or without a score, a score is corrected, or *)
(* a match that was over is played again.                                  *)
(***************************************************************************)
Report(m, row) ==
  /\ spent.reports < MaxReports
  /\ clock >= Kickoff[m]
  /\ row # match[m]
  /\ match' = [match EXCEPT ![m] = row]
  /\ job' = [j \in Job |->
               [job[j] EXCEPT !.firm = @ \ {m}, !.owed = IF row.result = NULL THEN @ \ {m} ELSE @]]
  /\ Spend("reports")
  /\ UNCHANGED <<clock, graded, bet, mailVars>>

Reported ==
  {[status |-> "IN_PLAY", result |-> NULL]} \union
  {[status |-> "FINISHED", result |-> s] : s \in Score \union {NULL}}

\* Mutant of RecomputeAll: what has points keeps them.
RecomputeNew ==
  graded' = [m \in Match |-> IF Settled(m) /\ graded[m] = NULL THEN match[m].result ELSE graded[m]]

\* scoring::recompute_all: the points of a match that is not over stay.
RecomputeAll == graded' = [m \in Match |-> IF Settled(m) THEN match[m].result ELSE graded[m]]

LoopRecompute ==
  /\ At("loop", "idle")
  /\ RecomputeAll
  /\ UNCHANGED <<clock, match, bet, mailVars, job, spent>>

-----------------------------------------------------------------------------
(***************************************************************************)
(* Kick-off reminders: send_for_tenant.                                    *)
(***************************************************************************)
\* Mutant of Due: the table of reminders is not asked.
DueAgain ==
  {m \in Match : /\ clock < Kickoff[m] /\ Kickoff[m] <= clock + Lead
                 /\ match[m].status = "TIMED"}

Due ==
  {m \in Match : /\ clock < Kickoff[m] /\ Kickoff[m] <= clock + Lead
                 /\ match[m].status = "TIMED"
                 /\ m \notin recorded}

StartReminders(j) ==
  /\ At(j, "idle")
  /\ Due # {}
  /\ job' = [job EXCEPT ![j] = [Idle EXCEPT !.pc = "unbet", !.due = Due]]
  /\ UNCHANGED <<clock, dataVars, mailVars>>

\* The members without a bet on the next match of the list.
ReadUnbet(j) ==
  /\ At(j, "unbet")
  /\ \E m \in job[j].due :
       /\ \A other \in job[j].due : Kickoff[m] <= Kickoff[other]
       /\ job' = [job EXCEPT ![j].pc = "mail", ![j].mailing = m, ![j].due = @ \ {m},
                             ![j].todo = {u \in User : <<u, m>> \notin bet}]
  /\ UNCHANGED <<clock, dataVars, mailVars, spent>>

-----------------------------------------------------------------------------
(***************************************************************************)
(* The preview of the day's matches: send_today_matches.                   *)
(***************************************************************************)
StartPreview(j, force) ==
  /\ At(j, "idle")
  /\ job' = [job EXCEPT ![j] = [Idle EXCEPT !.pc = "already", !.mailing = "preview",
                                            !.force = force]]
  /\ UNCHANGED <<clock, dataVars, mailVars>>

-----------------------------------------------------------------------------
(***************************************************************************)
(* The digest: send_daily_digest and digest_for_tenant.                    *)
(***************************************************************************)
StartDigest(j, force) ==
  /\ At(j, "idle")
  /\ job' = [job EXCEPT ![j] = [Idle EXCEPT !.pc = IF force THEN "regrade" ELSE "pending",
                                            !.mailing = "digest", !.force = force]]
  /\ UNCHANGED <<clock, dataVars, mailVars>>

KickedOff == {m \in Match : Kickoff[m] <= clock}

\* Mutant of Defers: the digest waits for ever for a match that never ends.
DefersForever == \E m \in KickedOff : ~ Settled(m)

\* Mutant of Defers: only a match the feed says is played holds up the digest.
DefersInPlay == clock < Cutoff /\ \E m \in KickedOff : match[m].status = "IN_PLAY"

Defers == clock < Cutoff /\ \E m \in KickedOff : ~ Settled(m)

\* A digest waits for the matches under way, until the cutoff.
CheckPending(j) ==
  /\ At(j, "pending")
  /\ job' = [job EXCEPT ![j] =
               IF Defers THEN Idle
               ELSE [@ EXCEPT !.pc = "regrade", !.owed = IF clock < Cutoff THEN KickedOff ELSE {}]]
  /\ UNCHANGED <<clock, dataVars, mailVars, spent>>

\* An error of the re-grading is logged, and the digest goes on.
Regrade(j) ==
  /\ At(j, "regrade")
  /\ \/ /\ RecomputeAll
        /\ job' = [job EXCEPT ![j].pc = "results", ![j].firm = Match]
        /\ UNCHANGED spent
     \/ /\ spent.mishaps < MaxMishaps
        /\ Spend("mishaps")
        /\ job' = [job EXCEPT ![j].pc = "results"]
        /\ UNCHANGED graded
  /\ UNCHANGED <<clock, match, bet, mailVars>>

\* Mutant of ReadResults: the task waits for a result.
ReadResultsWaiting(j) ==
  /\ At(j, "results")
  /\ LET results == [m \in Match |-> IF Settled(m) THEN match[m].result ELSE NULL] IN
     job' = [job EXCEPT ![j] = IF results = NoResults THEN @
                               ELSE [@ EXCEPT !.pc = "already", !.results = results]]
  /\ UNCHANGED <<clock, dataVars, mailVars, spent>>

ReadResults(j) ==
  /\ At(j, "results")
  /\ LET results == [m \in Match |-> IF Settled(m) THEN match[m].result ELSE NULL] IN
     job' = [job EXCEPT ![j] = IF results = NoResults THEN Idle
                               ELSE [@ EXCEPT !.pc = "already", !.results = results]]
  /\ UNCHANGED <<clock, dataVars, mailVars, spent>>

\* Mutant of CheckAlready: the table of sent mailings is not asked.
CheckNothing(j) ==
  /\ At(j, "already")
  /\ job' = [job EXCEPT ![j] =
               IF @.mailing = "digest" THEN [@ EXCEPT !.pc = "day"]
               ELSE [@ EXCEPT !.pc = "mail", !.todo = User]]
  /\ UNCHANGED <<clock, dataVars, mailVars, spent>>

\* Has the mailing gone out?  A forced one does not ask.
CheckAlready(j) ==
  /\ At(j, "already")
  /\ LET k == job[j].mailing IN
     job' = [job EXCEPT ![j] =
               IF k \in recorded /\ ~ @.force THEN Idle
               ELSE IF k = "digest" THEN [@ EXCEPT !.pc = "day"]
               ELSE [@ EXCEPT !.pc = "mail", !.todo = User]]
  /\ UNCHANGED <<clock, dataVars, mailVars, spent>>

\* The points of the day, match by match: those of the matches that are over now.
ReadDay(j) ==
  /\ At(j, "day")
  /\ job' = [job EXCEPT ![j].pc = "mail", ![j].todo = User,
                        ![j].day = [m \in Match |-> IF match[m].status = "FINISHED"
                                                    THEN graded[m] ELSE NULL]]
  /\ UNCHANGED <<clock, dataVars, mailVars, spent>>

-----------------------------------------------------------------------------
(***************************************************************************)
(* Sending, recording, and what may go wrong.                              *)
(***************************************************************************)
\* An e-mail that is refused is logged like one that is accepted.
Mail(j, u) ==
  /\ At(j, "mail") /\ u \in job[j].todo
  /\ job' = [job EXCEPT ![j].todo = @ \ {u}]
  /\ tries' = [tries EXCEPT ![job[j].mailing][u] = @ + 1]
  /\ UNCHANGED <<clock, dataVars, recorded, spent>>

\* Mutant of AfterRecord: the end of the list is not seen.
AfterRecordEndless(j) ==
  IF job[j].mailing \in {"digest", "preview"} THEN Idle
  ELSE [Idle EXCEPT !.pc = "unbet", !.due = job[j].due]

AfterRecord(j) ==
  IF job[j].due = {} THEN Idle ELSE [Idle EXCEPT !.pc = "unbet", !.due = job[j].due]

\* Mutant of Record: the e-mails are spawned, and not awaited.
RecordAtOnce(j) ==
  /\ At(j, "mail")
  /\ recorded' = recorded \union {job[j].mailing}
  /\ job' = [job EXCEPT ![j] = IF @.todo = {} THEN AfterRecord(j) ELSE @]
  /\ UNCHANGED <<clock, dataVars, tries, spent>>

Record(j) ==
  /\ At(j, "mail") /\ job[j].todo = {}
  /\ recorded' = recorded \union {job[j].mailing}
  /\ job' = [job EXCEPT ![j] = AfterRecord(j)]
  /\ UNCHANGED <<clock, dataVars, tries, spent>>

Step(j) ==
  \/ ReadUnbet(j) \/ CheckPending(j) \/ Regrade(j) \/ ReadResults(j) \/ CheckAlready(j)
  \/ ReadDay(j) \/ (\E u \in User : Mail(j, u)) \/ Record(j)

\* main: the ticker looks at the hour and starts what is due for this matchday.
TickerFires ==
  /\ \/ clock >= DigestHour /\ StartDigest("ticker", FALSE)
     \/ clock \in PreviewHour..(Midnight - 1) /\ StartPreview("ticker", FALSE)
  /\ UNCHANGED spent

LoopReminds == StartReminders("loop") /\ UNCHANGED spent

(***************************************************************************)
(* By hand: the forced mailings of the platform dashboard, for yesterday   *)
(* and for today, and the one-off commands, for any date and not forced.   *)
(***************************************************************************)
StartManual ==
  /\ spent.manual < MaxManual
  /\ Spend("manual")
  /\ \/ clock >= Midnight /\ StartDigest("manual", TRUE)
     \/ clock < Midnight /\ StartPreview("manual", TRUE)
     \/ StartDigest("manual", FALSE)
     \/ StartPreview("manual", FALSE)
     \/ StartReminders("manual")

\* A statement fails: the mailing is given up.
Fault(j) ==
  /\ spent.mishaps < MaxMishaps
  /\ job[j].pc # "idle" /\ (At(j, "mail") => job[j].todo = {})
  /\ Spend("mishaps")
  /\ job' = [job EXCEPT ![j] = Idle]
  /\ UNCHANGED <<clock, dataVars, mailVars>>

\* The server stops and starts again; a one-off command is a process of its own.
Crash ==
  /\ spent.mishaps < MaxMishaps
  /\ Spend("mishaps")
  /\ job' = [j \in Job |-> IF j = "manual" /\ ~ job[j].force THEN job[j] ELSE Idle]
  /\ UNCHANGED <<clock, dataVars, mailVars>>

Next ==
  \/ Tick \/ LoopRecompute \/ TickerFires \/ LoopReminds \/ StartManual \/ Crash
  \/ \E u \in User, m \in Match : PlaceBet(u, m)
  \/ \E m \in Match : \E row \in Reported : Report(m, row)
  \/ \E j \in Job : Step(j) \/ Fault(j)

Spec == Init /\ [][Next]_vars

(***************************************************************************)
(* The clock goes on, the ticker fires every 15 minutes and its task is    *)
(* scheduled: an e-mail is accepted or refused.                            *)
(***************************************************************************)
Fairness == WF_vars(Tick) /\ WF_vars(TickerFires) /\ WF_vars(Step("ticker"))

FairSpec == Spec /\ Fairness

-----------------------------------------------------------------------------
JobState ==
  [pc : {"idle", "unbet", "pending", "regrade", "results", "already", "day", "mail"},
   mailing : Mailing \union {NULL}, force : BOOLEAN, due : SUBSET Match, todo : SUBSET User,
   results : [Match -> Score \union {NULL}], day : [Match -> Score \union {NULL}],
   owed : SUBSET Match, firm : SUBSET Match]

\* The type invariant: what each job holds where it stands.
TypeOK ==
  /\ clock \in 0..Horizon
  /\ match \in [Match -> [status : {"TIMED", "IN_PLAY", "FINISHED"}, result : Score \union {NULL}]]
  /\ graded \in [Match -> Score \union {NULL}]
  /\ bet \subseteq User \X Match
  /\ recorded \subseteq Mailing
  /\ job \in [Job -> JobState]
  /\ \A j \in Job :
       /\ At(j, "mail") => job[j].mailing # NULL
       /\ job[j].todo # {} => At(j, "mail")
       /\ At(j, "unbet") => job[j].due # {}
  /\ tries \in [Mailing -> [User -> Nat]]
  /\ spent \in [reports : Nat, bets : Nat, mishaps : Nat, manual : Nat]

(***************************************************************************)
(* A mailing is recorded only when every member was tried; a reminder may  *)
(* have spared those who had bet.  What is recorded is never sent again,   *)
(* so a member left out would never hear of the match or of the day.       *)
(***************************************************************************)
RecordedWasTried ==
  \A k \in recorded, u \in User : tries[k][u] > 0 \/ <<u, k>> \in bet

(***************************************************************************)
(* Nobody gets a mailing twice, but for one copy at most for each crash,   *)
(* failed statement or mailing started by hand, although the tables are    *)
(* read long before they are written.                                      *)
(***************************************************************************)
NoSpareCopies ==
  \A k \in Mailing, u \in User : tries[k][u] <= 1 + spent.mishaps + spent.manual

(***************************************************************************)
(* A scheduled digest that goes out before the cutoff reports every match  *)
(* that had kicked off when it stopped waiting, unless the feed has taken  *)
(* the result back since.                                                  *)
(***************************************************************************)
DigestIsComplete ==
  \A j \in Job : At(j, "mail") /\ job[j].mailing = "digest" =>
    \A m \in job[j].owed : job[j].results[m] # NULL

(***************************************************************************)
(* For each match that was not reported anew since the digest re-graded,   *)
(* the points in the e-mails are those of the result in the e-mails.       *)
(***************************************************************************)
FirmPointsAgree ==
  \A j \in Job : At(j, "mail") /\ job[j].mailing = "digest" =>
    \A m \in job[j].firm : job[j].results[m] # NULL => job[j].day[m] = job[j].results[m]

(***************************************************************************)
(* What the comment in send_daily_digest says of the re-grading: a match   *)
(* that appears in the results has its points in the e-mail.  The sync may *)
(* store a result between the two.                                         *)
(***************************************************************************)
PointsAgree ==
  \A j \in Job : At(j, "mail") /\ job[j].mailing = "digest" =>
    \A m \in Match : job[j].results[m] # NULL => job[j].day[m] = job[j].results[m]

(***************************************************************************)
(* A matchday with a result gets its digest, however the matches end: one  *)
(* that never does holds it up until the cutoff only.                      *)
(***************************************************************************)
DigestGoesOut ==
  <>[](\E m \in Match : Settled(m)) => <>("digest" \in recorded)

(***************************************************************************)
(* The ticker's task always comes to its end, and the ticker looks at the  *)
(* hour again.                                                             *)
(***************************************************************************)
TickerComesBack == []<><<TickerFires>>_vars
=============================================================================
