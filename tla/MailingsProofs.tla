--------------------------- MODULE MailingsProofs ---------------------------
(***************************************************************************)
(* Theorems of Mailings, for any number of members and matches, any hours  *)
(* and any bounds: who is mailed, and what a digest reports.               *)
(***************************************************************************)
EXTENDS Mailings, TLAPS

-----------------------------------------------------------------------------
(***************************************************************************)
(* Types.  Fit says which states a job can be in: the loop sends nothing   *)
(* but reminders, the ticker none, and a job that mails has left the list  *)
(* it works through.                                                       *)
(***************************************************************************)
Fit(j, r) ==
  /\ r \in JobState
  /\ r.pc = "idle" => r.mailing = NULL /\ r.due = {} /\ r.todo = {}
  /\ r.pc = "unbet" => r.mailing = NULL /\ r.due # {} /\ r.todo = {}
  /\ r.pc \in {"pending", "regrade", "results", "already", "day"} =>
       r.mailing \in {"digest", "preview"} /\ r.due = {} /\ r.todo = {}
  /\ r.pc = "mail" => r.mailing \in Mailing /\ r.mailing \notin r.due
  /\ j = "loop" => r.pc \in {"idle", "unbet", "mail"} /\ r.mailing \in Match \union {NULL}
  /\ j = "ticker" => r.mailing \notin Match /\ r.due = {} /\ r.force = FALSE

Spent == [reports : Nat, bets : Nat, mishaps : Nat, manual : Nat]

Rows == [Match -> [status : {"TIMED", "IN_PLAY", "FINISHED"}, result : Score \union {NULL}]]

Tables ==
  /\ clock \in 0..Horizon
  /\ match \in Rows
  /\ graded \in [Match -> Score \union {NULL}]
  /\ bet \subseteq User \X Match
  /\ recorded \subseteq Mailing
  /\ tries \in [Mailing -> [User -> Nat]]
  /\ spent \in Spent

Typed ==
  /\ Tables
  /\ job \in [Job -> JobState]
  /\ \A j \in Job : Fit(j, job[j])

LEMMA TypedIsTypeOK == Typed => TypeOK
<1> SUFFICES ASSUME Typed PROVE TypeOK
  OBVIOUS
<1>1. ASSUME NEW j \in Job
      PROVE  /\ At(j, "mail") => job[j].mailing # NULL
             /\ job[j].todo # {} => At(j, "mail")
             /\ At(j, "unbet") => job[j].due # {}
  BY NamesAssumption DEF Typed, Fit, At, JobState, Mailing
<1> QED BY <1>1 DEF Typed, Tables, Rows, Spent, TypeOK

(***************************************************************************)
(* One job moves to the state r, the others stand still.                   *)
(***************************************************************************)
Moves(j, r) == Fit(j, r) /\ job' = [job EXCEPT ![j] = r]

LEMMA MoveTyped ==
  ASSUME Typed, NEW j \in Job, NEW r, Moves(j, r)
  PROVE  /\ job' \in [Job -> JobState]
         /\ job'[j] = r
         /\ \A i \in Job : i # j => job'[i] = job[i]
         /\ \A i \in Job : Fit(i, job'[i])
<1>1. r \in JobState
  BY DEF Moves, Fit
<1> QED BY <1>1 DEF Typed, Moves

LEMMA NoResultsType == NoResults \in [Match -> Score \union {NULL}]
BY DEF NoResults

LEMMA IdleFit ==
  /\ \A j \in Job : Fit(j, Idle)
  /\ Idle.pc = "idle" /\ Idle.mailing = NULL /\ Idle.due = {} /\ Idle.todo = {}
<1>1. Idle \in JobState
  BY NoResultsType DEF Idle, JobState
<1> QED BY <1>1, NamesAssumption DEF Fit, Idle, Mailing

LEMMA SpendTyped ==
  ASSUME Typed, NEW what \in {"reports", "bets", "mishaps", "manual"}, Spend(what)
  PROVE  /\ spent' \in Spent
         /\ spent'[what] = spent[what] + 1
         /\ \A other \in {"reports", "bets", "mishaps", "manual"} :
              other # what => spent'[other] = spent[other]
BY DEF Typed, Tables, Spent, Spend

-----------------------------------------------------------------------------
(***************************************************************************)
(* What each action does to the job it moves.                              *)
(***************************************************************************)
LEMMA DueType == Due \subseteq Match
BY DEF Due

LEMMA StartRemindersMoves ==
  ASSUME Typed, NEW j \in {"loop", "manual"}, StartReminders(j)
  PROVE  LET r == [Idle EXCEPT !.pc = "unbet", !.due = Due] IN
         Moves(j, r) /\ r.pc = "unbet" /\ r.mailing = NULL /\ r.due = Due
<1> DEFINE r == [Idle EXCEPT !.pc = "unbet", !.due = Due]
<1>1. r \in JobState /\ r.pc = "unbet" /\ r.due = Due /\ r.mailing = NULL /\ r.todo = {}
  BY DueType, NoResultsType DEF Idle, JobState
<1>2. job' = [job EXCEPT ![j] = r] /\ Due # {}
  BY DEF StartReminders
<1> HIDE DEF r
<1>3. Moves(j, r)
  BY <1>1, <1>2, NamesAssumption DEF Moves, Fit, Mailing
<1> QED BY <1>1, <1>3 DEF r

LEMMA StartPreviewMoves ==
  ASSUME Typed, NEW j \in {"ticker", "manual"}, NEW force \in BOOLEAN, StartPreview(j, force),
         j = "ticker" => force = FALSE
  PROVE  LET r == [Idle EXCEPT !.pc = "already", !.mailing = "preview", !.force = force] IN
         Moves(j, r) /\ r.pc = "already" /\ r.mailing = "preview" /\ r.due = {}
<1> DEFINE r == [Idle EXCEPT !.pc = "already", !.mailing = "preview", !.force = force]
<1>1. /\ r \in JobState /\ r.pc = "already" /\ r.due = {} /\ r.mailing = "preview"
      /\ r.todo = {} /\ r.force = force
  BY NoResultsType DEF Idle, JobState, Mailing
<1>2. job' = [job EXCEPT ![j] = r]
  BY DEF StartPreview
<1> HIDE DEF r
<1>3. Moves(j, r)
  BY <1>1, <1>2, NamesAssumption DEF Moves, Fit, Mailing
<1> QED BY <1>1, <1>3 DEF r

LEMMA StartDigestMoves ==
  ASSUME Typed, NEW j \in {"ticker", "manual"}, NEW force \in BOOLEAN, StartDigest(j, force),
         j = "ticker" => force = FALSE
  PROVE  \E r : /\ Moves(j, r) /\ r.pc \in {"pending", "regrade"}
                /\ r.mailing = "digest" /\ r.due = {}
<1> DEFINE r == [Idle EXCEPT !.pc = IF force THEN "regrade" ELSE "pending",
                             !.mailing = "digest", !.force = force]
<1>1. /\ r \in JobState /\ r.pc \in {"pending", "regrade"} /\ r.due = {}
      /\ r.mailing = "digest" /\ r.todo = {} /\ r.force = force
  BY NoResultsType DEF Idle, JobState, Mailing
<1>2. job' = [job EXCEPT ![j] = r]
  BY DEF StartDigest
<1> HIDE DEF r
<1>3. Moves(j, r)
  BY <1>1, <1>2, NamesAssumption DEF Moves, Fit, Mailing
<1> QED BY <1>1, <1>3

LEMMA ReadUnbetMoves ==
  ASSUME Typed, NEW j \in Job, ReadUnbet(j)
  PROVE  \E r : /\ Moves(j, r)
                /\ r.pc = "mail" /\ r.mailing \in job[j].due
                /\ r.due = job[j].due \ {r.mailing}
                /\ r.todo = {u \in User : <<u, r.mailing>> \notin bet}
<1>1. PICK m \in job[j].due :
        job' = [job EXCEPT ![j].pc = "mail", ![j].mailing = m, ![j].due = @ \ {m},
                           ![j].todo = {u \in User : <<u, m>> \notin bet}]
  BY DEF ReadUnbet
<1> DEFINE todo == {u \in User : <<u, m>> \notin bet}
           r == [job[j] EXCEPT !.pc = "mail", !.mailing = m, !.due = @ \ {m}, !.todo = todo]
<1>2. job[j] \in JobState /\ Fit(j, job[j])
  BY DEF Typed
<1>3. m \in Match /\ todo \subseteq User
  BY <1>2 DEF JobState
<1> HIDE DEF todo
<1>4. /\ r \in JobState /\ r.pc = "mail" /\ r.due = job[j].due \ {m}
      /\ r.mailing = m /\ r.todo = todo
  BY <1>2, <1>3 DEF JobState, Mailing
<1>5. job' = [job EXCEPT ![j] = r]
  BY <1>1, <1>2 DEF Typed, JobState, todo
<1>6. j # "ticker"
  BY <1>2 DEF Fit
<1> HIDE DEF r
<1>7. Moves(j, r)
  BY <1>2, <1>3, <1>4, <1>5, <1>6 DEF Moves, Fit, Mailing
<1> QED BY <1>4, <1>7 DEF todo

(***************************************************************************)
(* A digest on its way keeps its mailing, its empty list and its empty     *)
(* todo until it is "mail", or gives up.                                   *)
(***************************************************************************)
LEMMA AdvanceFits ==
  ASSUME Typed, NEW j \in Job, NEW r \in JobState,
         job[j].pc \in {"pending", "regrade", "results", "already", "day"},
         r.mailing = job[j].mailing, r.due = job[j].due, r.force = job[j].force, r.pc # "idle", r.pc # "unbet",
         r.pc # "mail" => r.todo = {}
  PROVE  Fit(j, r) /\ r.mailing \in {"digest", "preview"} /\ r.due = {} /\ job[j].todo = {}
<1>1. Fit(j, job[j])
  BY DEF Typed
<1> QED BY <1>1 DEF Fit, Mailing, JobState

LEMMA CheckPendingMoves ==
  ASSUME Typed, NEW j \in Job, CheckPending(j)
  PROVE  \E r : /\ Moves(j, r)
                /\ \/ r = Idle
                   \/ r.pc = "regrade" /\ r.mailing = job[j].mailing /\ r.due = {}
<1> DEFINE owed == IF clock < Cutoff THEN KickedOff ELSE {}
           r == [job[j] EXCEPT !.pc = "regrade", !.owed = owed]
<1>1. CASE Defers
  <2>1. job' = [job EXCEPT ![j] = Idle]
    BY <1>1 DEF CheckPending
  <2> QED BY <2>1, IdleFit DEF Moves
<1>2. CASE ~ Defers
  <2>1. job' = [job EXCEPT ![j] = r]
    BY <1>2 DEF CheckPending, Typed
  <2>2. owed \subseteq Match
    BY DEF KickedOff
  <2>3. job[j] \in JobState /\ job[j].todo = {} /\ job[j].pc = "pending"
    BY DEF Typed, Fit, CheckPending, At
  <2> HIDE DEF owed
  <2>4. /\ r \in JobState /\ r.pc = "regrade" /\ r.mailing = job[j].mailing
        /\ r.due = job[j].due /\ r.todo = {} /\ r.force = job[j].force
    BY <2>2, <2>3 DEF JobState
  <2> HIDE DEF r
  <2> QED BY <2>1, <2>3, <2>4, AdvanceFits DEF Moves
<1> QED BY <1>1, <1>2

LEMMA RegradeMoves ==
  ASSUME Typed, NEW j \in Job, Regrade(j)
  PROVE  \E r : /\ Moves(j, r)
                /\ r.pc = "results" /\ r.mailing = job[j].mailing /\ r.due = {}
<1>1. job[j] \in JobState /\ job[j].todo = {} /\ job[j].pc = "regrade"
  BY DEF Typed, Fit, Regrade, At
<1>2. ASSUME NEW firm \in SUBSET Match,
             job' = [job EXCEPT ![j] = [job[j] EXCEPT !.pc = "results", !.firm = firm]]
      PROVE  \E r : /\ Moves(j, r)
                    /\ r.pc = "results" /\ r.mailing = job[j].mailing /\ r.due = {}
  <2> DEFINE r == [job[j] EXCEPT !.pc = "results", !.firm = firm]
  <2>1. /\ r \in JobState /\ r.pc = "results" /\ r.mailing = job[j].mailing
        /\ r.due = job[j].due /\ r.todo = {} /\ r.force = job[j].force
    BY <1>1 DEF JobState
  <2>2. job' = [job EXCEPT ![j] = r]
    BY <1>2
  <2> HIDE DEF r
  <2> QED BY <1>1, <2>1, <2>2, AdvanceFits DEF Moves
<1>3. CASE job' = [job EXCEPT ![j].pc = "results", ![j].firm = Match]
  <2>1. job' = [job EXCEPT ![j] = [job[j] EXCEPT !.pc = "results", !.firm = Match]]
    BY <1>1, <1>3 DEF Typed, JobState
  <2> QED BY <1>2, <2>1
<1>4. CASE job' = [job EXCEPT ![j].pc = "results"]
  <2>1. [job[j] EXCEPT !.pc = "results"]
          = [job[j] EXCEPT !.pc = "results", !.firm = job[j].firm]
    BY <1>1 DEF JobState
  <2>2. job' = [job EXCEPT ![j] = [job[j] EXCEPT !.pc = "results"]]
    BY <1>1, <1>4 DEF Typed, JobState
  <2>3. job[j].firm \in SUBSET Match
    BY <1>1 DEF JobState
  <2> QED BY <1>2, <2>1, <2>2, <2>3
<1> QED BY <1>3, <1>4 DEF Regrade

LEMMA ReadResultsMoves ==
  ASSUME Typed, NEW j \in Job, ReadResults(j)
  PROVE  \E r : /\ Moves(j, r)
                /\ \/ r = Idle
                   \/ r.pc = "already" /\ r.mailing = job[j].mailing /\ r.due = {}
<1> DEFINE results == [m \in Match |-> IF Settled(m) THEN match[m].result ELSE NULL]
           r == [job[j] EXCEPT !.pc = "already", !.results = results]
<1>1. results \in [Match -> Score \union {NULL}]
  BY DEF Typed, Tables, Rows
<1>2. job[j] \in JobState /\ job[j].todo = {} /\ job[j].pc = "results"
  BY DEF Typed, Fit, ReadResults, At
<1>3. job' = [job EXCEPT ![j] = IF results = NoResults THEN Idle ELSE r]
  BY <1>2 DEF ReadResults, Typed
<1> HIDE DEF results
<1>4. /\ r \in JobState /\ r.pc = "already" /\ r.mailing = job[j].mailing
      /\ r.due = job[j].due /\ r.todo = {} /\ r.force = job[j].force
  BY <1>1, <1>2 DEF JobState
<1> HIDE DEF r
<1>5. CASE results = NoResults
  <2>1. job' = [job EXCEPT ![j] = Idle]
    BY <1>3, <1>5
  <2> QED BY <2>1, IdleFit DEF Moves
<1>6. CASE results # NoResults
  <2>1. job' = [job EXCEPT ![j] = r]
    BY <1>3, <1>6
  <2> QED BY <2>1, <1>2, <1>4, AdvanceFits DEF Moves
<1> QED BY <1>5, <1>6

LEMMA CheckAlreadyMoves ==
  ASSUME Typed, NEW j \in Job, CheckAlready(j)
  PROVE  \E r : /\ Moves(j, r)
                /\ \/ r = Idle
                   \/ /\ r.pc = "day" \/ (r.pc = "mail" /\ r.todo = User)
                      /\ r.mailing = job[j].mailing /\ r.due = {}
                      /\ job[j].mailing \notin recorded \/ job[j].force
<1> DEFINE k == job[j].mailing
           day == [job[j] EXCEPT !.pc = "day"]
           mail == [job[j] EXCEPT !.pc = "mail", !.todo = User]
<1>1. job[j] \in JobState /\ job[j].todo = {} /\ job[j].pc = "already"
  BY DEF Typed, Fit, CheckAlready, At
<1>2. job' = [job EXCEPT ![j] = IF k \in recorded /\ ~ job[j].force THEN Idle
                                ELSE IF k = "digest" THEN day ELSE mail]
  BY DEF CheckAlready, Typed
<1>3. /\ day \in JobState /\ day.pc = "day" /\ day.mailing = k
      /\ day.due = job[j].due /\ day.todo = {} /\ day.force = job[j].force
  BY <1>1 DEF JobState
<1>4. /\ mail \in JobState /\ mail.pc = "mail" /\ mail.mailing = k
      /\ mail.due = job[j].due /\ mail.todo = User /\ mail.force = job[j].force
  BY <1>1 DEF JobState
<1>5. Fit(j, day) /\ Fit(j, mail) /\ day.due = {} /\ mail.due = {}
  <2> HIDE DEF day, mail
  <2> QED BY <1>1, <1>3, <1>4, AdvanceFits
<1> HIDE DEF day, mail
<1>6. CASE k \in recorded /\ ~ job[j].force
  BY <1>2, <1>6, IdleFit DEF Moves
<1>7. CASE ~ (k \in recorded /\ ~ job[j].force) /\ k = "digest"
  BY <1>2, <1>3, <1>5, <1>7 DEF Moves
<1>8. CASE ~ (k \in recorded /\ ~ job[j].force) /\ k # "digest"
  BY <1>2, <1>4, <1>5, <1>8 DEF Moves
<1> QED BY <1>6, <1>7, <1>8

LEMMA ReadDayMoves ==
  ASSUME Typed, NEW j \in Job, ReadDay(j)
  PROVE  \E r : /\ Moves(j, r)
                /\ r.pc = "mail" /\ r.todo = User /\ r.mailing = job[j].mailing /\ r.due = {}
<1> DEFINE day == [m \in Match |-> IF match[m].status = "FINISHED" THEN graded[m] ELSE NULL]
           r == [job[j] EXCEPT !.pc = "mail", !.todo = User, !.day = day]
<1>1. day \in [Match -> Score \union {NULL}]
  BY DEF Typed, Tables
<1>2. job[j] \in JobState /\ job[j].pc = "day"
  BY DEF Typed, ReadDay, At
<1>3. job' = [job EXCEPT ![j] = r]
  BY <1>2 DEF ReadDay, Typed, JobState
<1> HIDE DEF day
<1>4. /\ r \in JobState /\ r.pc = "mail" /\ r.mailing = job[j].mailing
      /\ r.due = job[j].due /\ r.todo = User /\ r.force = job[j].force
  BY <1>1, <1>2 DEF JobState
<1> HIDE DEF r
<1> QED BY <1>2, <1>3, <1>4, AdvanceFits DEF Moves

LEMMA MailMoves ==
  ASSUME Typed, NEW j \in Job, NEW u \in User, Mail(j, u)
  PROVE  LET k == job[j].mailing IN
         /\ \E r : /\ Moves(j, r)
                   /\ r.pc = "mail" /\ r.todo = job[j].todo \ {u}
                   /\ r.mailing = k /\ r.due = job[j].due
         /\ k \in Mailing /\ k \notin job[j].due
         /\ tries' \in [Mailing -> [User -> Nat]]
         /\ \A l \in Mailing, v \in User :
              tries'[l][v] = IF l = k /\ v = u THEN tries[l][v] + 1 ELSE tries[l][v]
<1> DEFINE k == job[j].mailing
           r == [job[j] EXCEPT !.todo = @ \ {u}]
<1>1. job[j] \in JobState /\ job[j].pc = "mail" /\ Fit(j, job[j])
  BY DEF Typed, Mail, At
<1>2. k \in Mailing /\ k \notin job[j].due
  BY <1>1 DEF Fit
<1>3. job' = [job EXCEPT ![j] = r]
  BY <1>1 DEF Mail, Typed, JobState
<1>4. /\ r \in JobState /\ r.pc = "mail" /\ r.mailing = k
      /\ r.due = job[j].due /\ r.todo = job[j].todo \ {u} /\ r.force = job[j].force
  BY <1>1 DEF JobState
<1>5. Moves(j, r)
  <2> HIDE DEF r
  <2> QED BY <1>1, <1>3, <1>4 DEF Moves, Fit
<1>6. tries' = [tries EXCEPT ![k][u] = @ + 1]
  BY DEF Mail
<1> HIDE DEF k, r
<1>7. /\ tries' \in [Mailing -> [User -> Nat]]
      /\ \A l \in Mailing, v \in User :
           tries'[l][v] = IF l = k /\ v = u THEN tries[l][v] + 1 ELSE tries[l][v]
  BY <1>2, <1>6 DEF Typed, Tables
<1> QED BY <1>2, <1>4, <1>5, <1>7 DEF k

LEMMA RecordMoves ==
  ASSUME Typed, NEW j \in Job, Record(j)
  PROVE  /\ \E r : /\ Moves(j, r)
                   /\ \/ r = Idle /\ job[j].due = {}
                      \/ r.pc = "unbet" /\ r.mailing = NULL /\ r.due = job[j].due
         /\ job[j].mailing \in Mailing
         /\ recorded' = recorded \union {job[j].mailing}
<1> DEFINE r == [Idle EXCEPT !.pc = "unbet", !.due = job[j].due]
<1>1. job[j] \in JobState /\ job[j].pc = "mail" /\ Fit(j, job[j])
  BY DEF Typed, Record, At
<1>2. job' = [job EXCEPT ![j] = IF job[j].due = {} THEN Idle ELSE r]
  BY DEF Record, AfterRecord
<1>3. /\ r \in JobState /\ r.pc = "unbet" /\ r.mailing = NULL
      /\ r.due = job[j].due /\ r.todo = {}
  BY <1>1, NoResultsType DEF Idle, JobState
<1> HIDE DEF r
<1>4. CASE job[j].due = {}
  BY <1>1, <1>2, <1>4, IdleFit DEF Moves, Record, Fit
<1>5. CASE job[j].due # {}
  <2>1. job' = [job EXCEPT ![j] = r]
    BY <1>2, <1>5
  <2>2. j # "ticker"
    BY <1>1, <1>5 DEF Fit
  <2>3. Fit(j, r)
    BY <1>3, <1>5, <2>2 DEF Fit
  <2> QED BY <1>1, <1>3, <2>1, <2>3 DEF Moves, Record, Fit
<1> QED BY <1>4, <1>5

LEMMA FaultMoves ==
  ASSUME Typed, NEW j \in Job, Fault(j)
  PROVE  Moves(j, Idle)
BY IdleFit DEF Moves, Fault

(***************************************************************************)
(* The two actions that touch every job.  A report leaves alone what a job *)
(* is doing.                                                               *)
(***************************************************************************)
SameWork(r, q) ==
  /\ r.pc = q.pc /\ r.mailing = q.mailing /\ r.force = q.force
  /\ r.due = q.due /\ r.todo = q.todo

LEMMA ReportKeepsWork ==
  ASSUME Typed, NEW m \in Match, NEW row \in Reported, Report(m, row)
  PROVE  /\ job' \in [Job -> JobState]
         /\ \A j \in Job : SameWork(job'[j], job[j]) /\ Fit(j, job'[j])
         /\ match' \in Rows
<1>1. ASSUME NEW j \in Job
      PROVE  job'[j] \in JobState /\ SameWork(job'[j], job[j]) /\ Fit(j, job'[j])
  <2> DEFINE owed == IF row.result = NULL THEN job[j].owed \ {m} ELSE job[j].owed
             r == [job[j] EXCEPT !.firm = @ \ {m}, !.owed = owed]
  <2>1. job[j] \in JobState /\ Fit(j, job[j])
    BY DEF Typed
  <2>2. job'[j] = r
    BY DEF Report
  <2>3. owed \subseteq Match
    BY <2>1 DEF JobState
  <2> HIDE DEF owed
  <2>4. r \in JobState /\ SameWork(r, job[j])
    BY <2>1, <2>3 DEF JobState, SameWork
  <2> HIDE DEF r
  <2> QED BY <2>1, <2>2, <2>4 DEF Fit, SameWork
<1>2. job' = [j \in Job |-> job'[j]]
  BY DEF Report
<1>3. row \in [status : {"TIMED", "IN_PLAY", "FINISHED"}, result : Score \union {NULL}]
  BY DEF Reported
<1>4. match' = [match EXCEPT ![m] = row]
  BY DEF Report
<1> QED BY <1>1, <1>2, <1>3, <1>4 DEF Typed, Tables, Rows

LEMMA CrashStops ==
  ASSUME Typed, Crash
  PROVE  /\ job' \in [Job -> JobState]
         /\ \A j \in Job : Fit(j, job'[j])
         /\ \A j \in Job : job'[j] = Idle \/ (j = "manual" /\ job'[j] = job[j])
<1>1. \A j \in Job : job'[j] = Idle \/ (j = "manual" /\ job'[j] = job[j])
  BY DEF Crash
<1>2. job' = [j \in Job |-> job'[j]]
  BY DEF Crash
<1>3. \A j \in Job : Fit(j, job'[j])
  BY <1>1, IdleFit DEF Typed
<1> QED BY <1>1, <1>2, <1>3 DEF Fit

LEMMA RecomputeTyped ==
  ASSUME Typed, RecomputeAll
  PROVE  graded' \in [Match -> Score \union {NULL}]
BY DEF Typed, Tables, Rows, RecomputeAll

-----------------------------------------------------------------------------
(***************************************************************************)
(* Typed is inductive.                                                     *)
(***************************************************************************)
LEMMA InitTyped == Init => Typed
<1> SUFFICES ASSUME Init PROVE Typed
  OBVIOUS
<1>1. Tables
  BY NoResultsType, DayAssumption DEF Init, Tables, Rows, Spent
<1>2. job \in [Job -> JobState] /\ \A j \in Job : Fit(j, job[j])
  BY IdleFit DEF Init, Fit
<1> QED BY <1>1, <1>2 DEF Typed

LEMMA StepTyped ==
  ASSUME Typed, NEW j \in Job, Step(j)
  PROVE  Typed'
<1>1. ASSUME NEW r, Moves(j, r), Tables' PROVE Typed'
  BY <1>1, MoveTyped DEF Typed
<1>2. CASE ReadUnbet(j)
  <2>1. Tables'
    BY <1>2 DEF ReadUnbet, Typed, Tables, dataVars, mailVars
  <2> QED BY <1>1, <1>2, <2>1, ReadUnbetMoves
<1>3. CASE CheckPending(j)
  <2>1. Tables'
    BY <1>3 DEF CheckPending, Typed, Tables, dataVars, mailVars
  <2> QED BY <1>1, <1>3, <2>1, CheckPendingMoves
<1>4. CASE Regrade(j)
  <2>1. graded' \in [Match -> Score \union {NULL}]
    BY <1>4, RecomputeTyped DEF Regrade, Typed, Tables
  <2>2. spent' \in Spent
    BY <1>4, SpendTyped DEF Regrade, Typed, Tables
  <2>3. Tables'
    BY <1>4, <2>1, <2>2 DEF Regrade, Typed, Tables, mailVars
  <2> QED BY <1>1, <1>4, <2>3, RegradeMoves
<1>5. CASE ReadResults(j)
  <2>1. Tables'
    BY <1>5 DEF ReadResults, Typed, Tables, dataVars, mailVars
  <2> QED BY <1>1, <1>5, <2>1, ReadResultsMoves
<1>6. CASE CheckAlready(j)
  <2>1. Tables'
    BY <1>6 DEF CheckAlready, Typed, Tables, dataVars, mailVars
  <2> QED BY <1>1, <1>6, <2>1, CheckAlreadyMoves
<1>7. CASE ReadDay(j)
  <2>1. Tables'
    BY <1>7 DEF ReadDay, Typed, Tables, dataVars, mailVars
  <2> QED BY <1>1, <1>7, <2>1, ReadDayMoves
<1>8. ASSUME NEW u \in User, Mail(j, u) PROVE Typed'
  <2>1. tries' \in [Mailing -> [User -> Nat]] /\ \E r : Moves(j, r)
    BY <1>8, MailMoves
  <2>2. Tables'
    BY <1>8, <2>1 DEF Mail, Typed, Tables, dataVars
  <2> QED BY <1>1, <2>1, <2>2
<1>9. CASE Record(j)
  <2>1. recorded' \subseteq Mailing /\ \E r : Moves(j, r)
    BY <1>9, RecordMoves DEF Typed, Tables
  <2>2. Tables'
    BY <1>9, <2>1 DEF Record, Typed, Tables, dataVars
  <2> QED BY <1>1, <2>1, <2>2
<1> QED BY <1>2, <1>3, <1>4, <1>5, <1>6, <1>7, <1>8, <1>9 DEF Step

LEMMA NextTyped == Typed /\ [Next]_vars => Typed'
<1> SUFFICES ASSUME Typed, [Next]_vars PROVE Typed'
  OBVIOUS
<1>1. ASSUME NEW j \in Job, NEW r, Moves(j, r), Tables' PROVE Typed'
  BY <1>1, MoveTyped DEF Typed
<1>2. ASSUME UNCHANGED job, Tables' PROVE Typed'
  BY <1>2 DEF Typed
<1>3. CASE Tick
  BY <1>2, <1>3, DayAssumption DEF Tick, Typed, Tables, dataVars, mailVars
<1>4. CASE LoopRecompute
  BY <1>2, <1>4, RecomputeTyped DEF LoopRecompute, Typed, Tables, mailVars
<1>5. CASE TickerFires
  <2>1. Tables'
    BY <1>5 DEF TickerFires, StartDigest, StartPreview, Typed, Tables, dataVars, mailVars
  <2> QED BY <1>1, <1>5, <2>1, StartDigestMoves, StartPreviewMoves DEF TickerFires, Job
<1>6. CASE LoopReminds
  <2>1. Tables'
    BY <1>6 DEF LoopReminds, StartReminders, Typed, Tables, dataVars, mailVars
  <2> QED BY <1>1, <1>6, <2>1, StartRemindersMoves DEF LoopReminds, Job
<1>7. CASE StartManual
  <2>1. spent' \in Spent
    BY <1>7, SpendTyped DEF StartManual
  <2>2. Tables'
    BY <1>7, <2>1 DEF StartManual, StartDigest, StartPreview, StartReminders,
                      Typed, Tables, dataVars, mailVars
  <2>3. \E r : Moves("manual", r)
    BY <1>7, StartDigestMoves, StartPreviewMoves, StartRemindersMoves DEF StartManual
  <2> QED BY <1>1, <2>2, <2>3 DEF Job
<1>8. CASE Crash
  <2>1. spent' \in Spent
    BY <1>8, SpendTyped DEF Crash
  <2>2. Tables'
    BY <1>8, <2>1 DEF Crash, Typed, Tables, dataVars, mailVars
  <2> QED BY <1>8, <2>2, CrashStops DEF Typed
<1>9. ASSUME NEW u \in User, NEW m \in Match, PlaceBet(u, m) PROVE Typed'
  <2>1. spent' \in Spent
    BY <1>9, SpendTyped DEF PlaceBet
  <2> QED BY <1>2, <1>9, <2>1 DEF PlaceBet, Typed, Tables, mailVars
<1>10. ASSUME NEW m \in Match, NEW row \in Reported, Report(m, row) PROVE Typed'
  <2>1. spent' \in Spent
    BY <1>10, SpendTyped DEF Report
  <2>2. Tables'
    BY <1>10, <2>1, ReportKeepsWork DEF Report, Typed, Tables, mailVars
  <2> QED BY <1>10, <2>2, ReportKeepsWork DEF Typed
<1>11. ASSUME NEW j \in Job, Fault(j) PROVE Typed'
  <2>1. spent' \in Spent
    BY <1>11, SpendTyped DEF Fault
  <2>2. Tables'
    BY <1>11, <2>1 DEF Fault, Typed, Tables, dataVars, mailVars
  <2> QED BY <1>1, <1>11, <2>2, FaultMoves
<1>12. CASE UNCHANGED vars
  BY <1>2, <1>12 DEF vars, Typed, Tables
<1> QED BY <1>3, <1>4, <1>5, <1>6, <1>7, <1>8, <1>9, <1>10, <1>11, <1>12, StepTyped DEF Next

LEMMA AlwaysTyped == Spec => []Typed
<1> QED BY InitTyped, NextTyped, PTL DEF Spec

(***************************************************************************)
(* Every variable keeps its type, and every job is in a state its code can *)
(* reach.                                                                  *)
(***************************************************************************)
THEOREM TypeCorrect == Spec => []TypeOK
<1> QED BY AlwaysTyped, TypedIsTypeOK, PTL

-----------------------------------------------------------------------------
(***************************************************************************)
(* Nobody is forgotten.  While a job mails, whoever it no longer holds was *)
(* tried, or had bet.                                                      *)
(***************************************************************************)
Reached(t, b, k, u) == t[k][u] > 0 \/ <<u, k>> \in b

Told(t, b, r) ==
  r.pc = "mail" => \A u \in User : u \in r.todo \/ Reached(t, b, r.mailing, u)

AllTold ==
  /\ RecordedWasTried
  /\ \A j \in Job : Told(tries, bet, job[j])

LEMMA ReachedStays ==
  ASSUME Typed, [Next]_vars, NEW k \in Mailing, NEW u \in User, Reached(tries, bet, k, u)
  PROVE  Reached(tries', bet', k, u)
<1>1. CASE tries' = tries
  <2>1. bet \subseteq bet'
    BY DEF Next, vars, dataVars, Tick, LoopRecompute, TickerFires, StartDigest, StartPreview,
           LoopReminds, StartReminders, StartManual, Crash, PlaceBet, Report, Step, Fault,
           ReadUnbet, CheckPending, Regrade, ReadResults, CheckAlready, ReadDay, Mail, Record
  <2> QED BY <1>1, <2>1 DEF Reached
<1>2. ASSUME NEW j \in Job, NEW v \in User, Mail(j, v) PROVE Reached(tries', bet', k, u)
  <2>1. tries'[k][u] \in {tries[k][u], tries[k][u] + 1} /\ tries[k][u] \in Nat
    BY <1>2, MailMoves DEF Typed, Tables
  <2>2. bet' = bet
    BY <1>2 DEF Mail, dataVars
  <2> QED BY <2>1, <2>2 DEF Reached
<1> QED BY <1>1, <1>2
        DEF Next, vars, mailVars, Tick, LoopRecompute, TickerFires, StartDigest, StartPreview,
            LoopReminds, StartReminders, StartManual, Crash, PlaceBet, Report, Step, Fault,
            ReadUnbet, CheckPending, Regrade, ReadResults, CheckAlready, ReadDay, Record

\* A job that does not begin to mail, or begins with everybody, tells what it told.
LEMMA ToldStays ==
  ASSUME Typed, AllTold, [Next]_vars, NEW r, NEW q \in JobState, Told(tries, bet, r),
         r.mailing \in Mailing \/ r.pc # "mail",
         q.pc = "mail" => q.todo = User \/ (r.pc = "mail" /\ SameWork(q, r))
  PROVE  Told(tries', bet', q)
BY ReachedStays DEF Told, SameWork

LEMMA InitTold == Init => AllTold
BY IdleFit DEF Init, AllTold, RecordedWasTried, Told

LEMMA NextTold == Typed /\ AllTold /\ [Next]_vars => AllTold'
<1> SUFFICES ASSUME Typed, AllTold, [Next]_vars PROVE AllTold'
  OBVIOUS
<1>1. ASSUME NEW j \in Job
      PROVE  job[j].mailing \in Mailing \/ job[j].pc # "mail"
  BY DEF Typed, Fit
<1>2. ASSUME recorded' = recorded PROVE RecordedWasTried'
  BY <1>2, ReachedStays DEF AllTold, RecordedWasTried, Reached, Typed, Tables
<1>3. ASSUME NEW i \in Job, job'[i] = job[i] PROVE Told(tries', bet', job'[i])
  BY <1>1, <1>3, ToldStays DEF AllTold, Typed, SameWork
<1>4. ASSUME NEW j \in Job, NEW r, Moves(j, r), recorded' = recorded, Told(tries', bet', r) PROVE AllTold'
  BY <1>2, <1>3, <1>4, MoveTyped DEF AllTold
<1>5. ASSUME NEW j \in Job, NEW r, Moves(j, r), recorded' = recorded,
             r.pc = "mail" => r.todo = User
      PROVE  AllTold'
  BY <1>4, <1>5 DEF Told
<1>6. ASSUME UNCHANGED <<job, recorded>> PROVE AllTold'
  BY <1>2, <1>3, <1>6 DEF AllTold
<1>7. ASSUME NEW j \in Job, ReadUnbet(j) PROVE AllTold'
  <2>1. PICK r : /\ Moves(j, r)
                 /\ r.pc = "mail" /\ r.mailing \in job[j].due
                 /\ r.todo = {u \in User : <<u, r.mailing>> \notin bet}
    BY <1>7, ReadUnbetMoves
  <2>2. bet' = bet /\ recorded' = recorded
    BY <1>7 DEF ReadUnbet, dataVars, mailVars
  <2> QED BY <1>4, <2>1, <2>2 DEF Told, Reached
<1>8. ASSUME NEW j \in Job, NEW u \in User, Mail(j, u) PROVE AllTold'
  <2> DEFINE k == job[j].mailing
  <2>1. PICK r : /\ Moves(j, r)
                 /\ r.pc = "mail" /\ r.todo = job[j].todo \ {u} /\ r.mailing = k
    BY <1>8, MailMoves
  <2>2. k \in Mailing /\ tries'[k][u] = tries[k][u] + 1 /\ tries[k][u] \in Nat
    BY <1>8, MailMoves DEF Typed, Tables
  <2>3. recorded' = recorded /\ job[j].pc = "mail"
    BY <1>8 DEF Mail, At
  <2>4. Reached(tries', bet', k, u)
    BY <2>2 DEF Reached
  <2>5. Told(tries, bet, job[j])
    BY DEF AllTold
  <2>6. Told(tries', bet', r)
    BY <2>1, <2>2, <2>3, <2>4, <2>5, ReachedStays DEF Told
  <2> QED BY <1>4, <2>1, <2>3, <2>6
<1>9. ASSUME NEW j \in Job, Record(j) PROVE AllTold'
  <2>1. PICK r : Moves(j, r) /\ r.pc # "mail"
    BY <1>9, RecordMoves, IdleFit
  <2>2. job[j].pc = "mail" /\ job[j].todo = {}
    BY <1>9 DEF Record, At
  <2>3. job[j].mailing \in Mailing /\ recorded' = recorded \union {job[j].mailing}
    BY <1>9, RecordMoves
  <2>4. ASSUME NEW k \in recorded', NEW u \in User PROVE Reached(tries', bet', k, u)
    <3>1. Reached(tries, bet, k, u) /\ k \in Mailing
      BY <2>2, <2>3 DEF AllTold, Told, RecordedWasTried, Reached, Typed, Tables
    <3> QED BY <3>1, ReachedStays
  <2>5. RecordedWasTried'
    BY <2>4 DEF RecordedWasTried, Reached
  <2>6. \A i \in Job : Told(tries', bet', job'[i])
    BY <1>3, <2>1, MoveTyped DEF Told
  <2> QED BY <2>5, <2>6 DEF AllTold
<1>10. ASSUME NEW j \in Job, Step(j) PROVE AllTold'
  <2>1. CASE CheckPending(j)
    BY <1>5, <2>1, CheckPendingMoves, IdleFit DEF CheckPending, mailVars
  <2>2. CASE Regrade(j)
    BY <1>5, <2>2, RegradeMoves DEF Regrade, mailVars
  <2>3. CASE ReadResults(j)
    BY <1>5, <2>3, ReadResultsMoves, IdleFit DEF ReadResults, mailVars
  <2>4. CASE CheckAlready(j)
    BY <1>5, <2>4, CheckAlreadyMoves, IdleFit DEF CheckAlready, mailVars
  <2>5. CASE ReadDay(j)
    BY <1>5, <2>5, ReadDayMoves DEF ReadDay, mailVars
  <2> QED BY <1>7, <1>8, <1>9, <1>10, <2>1, <2>2, <2>3, <2>4, <2>5 DEF Step
<1>11. CASE TickerFires
  <2>1. \E r : Moves("ticker", r) /\ r.pc # "mail"
    BY <1>11, StartDigestMoves, StartPreviewMoves DEF TickerFires
  <2>2. recorded' = recorded
    BY <1>11 DEF TickerFires, StartDigest, StartPreview, mailVars
  <2> QED BY <1>5, <2>1, <2>2 DEF Job
<1>12. CASE LoopReminds
  <2>1. \E r : Moves("loop", r) /\ r.pc # "mail"
    BY <1>12, StartRemindersMoves DEF LoopReminds
  <2>2. recorded' = recorded
    BY <1>12 DEF LoopReminds, StartReminders, mailVars
  <2> QED BY <1>5, <2>1, <2>2 DEF Job
<1>13. CASE StartManual
  <2>1. \E r : Moves("manual", r) /\ r.pc # "mail"
    BY <1>13, StartDigestMoves, StartPreviewMoves, StartRemindersMoves DEF StartManual
  <2>2. recorded' = recorded
    BY <1>13 DEF StartManual, StartDigest, StartPreview, StartReminders, mailVars
  <2> QED BY <1>5, <2>1, <2>2 DEF Job
<1>14. CASE Crash
  <2>1. \A j \in Job : job'[j].pc = "idle" \/ job'[j] = job[j]
    BY <1>14, CrashStops, IdleFit
  <2>2. \A j \in Job : Told(tries', bet', job'[j])
    BY <1>3, <2>1 DEF Told
  <2> QED BY <1>2, <1>14, <2>2 DEF AllTold, Crash, mailVars
<1>15. ASSUME NEW m \in Match, NEW row \in Reported, Report(m, row) PROVE AllTold'
  <2>1. \A j \in Job : Told(tries', bet', job'[j])
    BY <1>1, <1>15, ReportKeepsWork, ToldStays DEF AllTold, SameWork
  <2> QED BY <1>2, <1>15, <2>1 DEF AllTold, Report, mailVars
<1>16. ASSUME NEW j \in Job, Fault(j) PROVE AllTold'
  BY <1>5, <1>16, FaultMoves, IdleFit DEF Fault, mailVars
<1> QED BY <1>6, <1>10, <1>11, <1>12, <1>13, <1>14, <1>15, <1>16
        DEF Next, Tick, LoopRecompute, PlaceBet, vars, mailVars

(***************************************************************************)
(* A reminder, a preview or a digest is recorded only when each member was *)
(* tried, or had bet on the match of the reminder: however the mailings    *)
(* are interleaved, and wherever they crash.                               *)
(***************************************************************************)
THEOREM NobodyIsForgotten == Spec => []RecordedWasTried
<1>1. AllTold => RecordedWasTried
  BY DEF AllTold
<1> QED BY <1>1, InitTold, NextTold, AlwaysTyped, PTL DEF Spec

-----------------------------------------------------------------------------
(***************************************************************************)
(* No spare copies.  Each mailing has one scheduled job.  A job is past    *)
(* the check of mailing k once it has found it not recorded, and will try  *)
(* member u when it still holds u for k.  Counting the copies to come with *)
(* those sent: a copy is paid for by the one scheduled sending (under way  *)
(* or recorded), by a mailing started by hand or by a mishap.              *)
(***************************************************************************)
Scheduled(k) == IF k \in Match THEN "loop" ELSE "ticker"

Past(r, k) == k \in r.due \/ (r.mailing = k /\ r.pc \in {"day", "mail"})

Will(r, k, u) == k \in r.due \/ (r.mailing = k /\ (r.pc = "mail" => u \in r.todo))

One(p) == IF p THEN 1 ELSE 0

Counted(k, u) ==
  LET s == job[Scheduled(k)] IN
  tries[k][u] + One(Past(s, k) /\ Will(s, k, u)) + One(Will(job["manual"], k, u))
    <= spent.mishaps + spent.manual + One(k \in recorded \/ Past(s, k))

AllCounted == \A k \in Mailing, u \in User : Counted(k, u)

LEMMA CountedIsEnough == Typed /\ AllCounted => NoSpareCopies
<1> SUFFICES ASSUME Typed, AllCounted, NEW k \in Mailing, NEW u \in User
             PROVE  tries[k][u] <= 1 + spent.mishaps + spent.manual
  BY DEF NoSpareCopies
<1>1. tries[k][u] \in Nat /\ spent.mishaps \in Nat /\ spent.manual \in Nat
  BY DEF Typed, Tables, Spent
<1> QED BY <1>1 DEF AllCounted, Counted, One

Scheduling == \A k \in Mailing : Scheduled(k) \in Job /\ Scheduled(k) # "manual"

LEMMA SchedulingHolds == Scheduling
BY DEF Scheduling, Scheduled, Job

\* What is spent is never taken back.
LEMMA SpentGrows ==
  ASSUME Typed, [Next]_vars
  PROVE  /\ spent.mishaps \in Nat /\ spent.manual \in Nat
         /\ spent'.mishaps \in Nat /\ spent'.manual \in Nat
         /\ spent'.mishaps >= spent.mishaps /\ spent'.manual >= spent.manual
<1>1. spent \in Spent /\ spent' \in Spent
  BY NextTyped DEF Typed, Tables
<1>2. spent' = spent \/ \E what \in {"reports", "bets", "mishaps", "manual"} : Spend(what)
  BY DEF Next, vars, Tick, LoopRecompute, TickerFires, LoopReminds, StartManual, Crash,
         PlaceBet, Report, Step, Fault, ReadUnbet, CheckPending, Regrade, ReadResults,
         CheckAlready, ReadDay, Mail, Record
<1>3. CASE spent' = spent
  BY <1>1, <1>3 DEF Spent
<1>4. ASSUME NEW what \in {"reports", "bets", "mishaps", "manual"}, Spend(what)
      PROVE  spent'.mishaps >= spent.mishaps /\ spent'.manual >= spent.manual
  BY <1>1, <1>4 DEF Spent, Spend
<1> QED BY <1>1, <1>2, <1>3, <1>4 DEF Spent

(***************************************************************************)
(* A move that sends nothing: when it keeps the count of mailing k and     *)
(* member u.                                                               *)
(***************************************************************************)
Pays(j, r, k, u) ==
  /\ j = Scheduled(k) =>
       /\ Past(r, k) /\ Past(job[j], k) /\ Will(r, k, u) => Will(job[j], k, u)
       /\ Past(r, k) /\ ~ Past(job[j], k) => k \notin recorded
       /\ Past(job[j], k) /\ ~ Past(r, k) =>
            k \in recorded' \/ spent'.mishaps > spent.mishaps
  /\ j = "manual" /\ Will(r, k, u) =>
       Will(job[j], k, u) \/ spent'.manual > spent.manual

LEMMA QuietMove ==
  ASSUME Typed, AllCounted, [Next]_vars, NEW j \in Job, NEW r, Moves(j, r),
         tries' = tries, recorded \subseteq recorded',
         \A k \in Mailing, u \in User : Pays(j, r, k, u)
  PROVE  AllCounted'
<1> SUFFICES ASSUME NEW k \in Mailing, NEW u \in User PROVE Counted(k, u)'
  BY DEF AllCounted
<1>1. tries[k][u] \in Nat /\ tries'[k][u] = tries[k][u]
  BY DEF Typed, Tables
<1> DEFINE s == job[Scheduled(k)]
           t == job'[Scheduled(k)]
           m == job["manual"]
           n == job'["manual"]
<1>2. tries[k][u] + One(Past(s, k) /\ Will(s, k, u)) + One(Will(m, k, u))
        <= spent.mishaps + spent.manual + One(k \in recorded \/ Past(s, k))
  BY DEF AllCounted, Counted
<1>3. SUFFICES
        tries'[k][u] + One(Past(t, k) /\ Will(t, k, u)) + One(Will(n, k, u))
          <= spent'.mishaps + spent'.manual + One(k \in recorded' \/ Past(t, k))
  BY DEF Counted, Scheduled, Past, Will, One
<1>4. Scheduled(k) \in Job /\ Scheduled(k) # "manual" /\ "manual" \in Job
  BY SchedulingHolds DEF Scheduling, Job
<1>5. job'[j] = r /\ \A i \in Job : i # j => job'[i] = job[i]
  BY MoveTyped
<1>6. Pays(j, r, k, u)
  OBVIOUS
<1>7. CASE j = Scheduled(k)
  <2>1. t = r /\ n = m
    BY <1>4, <1>5, <1>7
  <2> HIDE DEF s, t, m, n
  <2>2. /\ Past(t, k) /\ Past(s, k) /\ Will(t, k, u) => Will(s, k, u)
        /\ Past(t, k) /\ ~ Past(s, k) => k \notin recorded
        /\ Past(s, k) /\ ~ Past(t, k) => k \in recorded' \/ spent'.mishaps > spent.mishaps
    BY <1>6, <1>7, <2>1 DEF Pays, s
  <2> QED BY <1>1, <1>2, <2>1, <2>2, SpentGrows DEF One
<1>8. CASE j = "manual"
  <2>1. t = s /\ n = r
    BY <1>4, <1>5, <1>8
  <2> HIDE DEF s, t, m, n
  <2>2. Will(n, k, u) => Will(m, k, u) \/ spent'.manual > spent.manual
    BY <1>6, <1>8, <2>1 DEF Pays, m
  <2> QED BY <1>1, <1>2, <2>1, <2>2, SpentGrows DEF One
<1>9. CASE j # Scheduled(k) /\ j # "manual"
  <2>1. t = s /\ n = m
    BY <1>4, <1>5, <1>9
  <2> HIDE DEF s, t, m, n
  <2> QED BY <1>1, <1>2, <2>1, SpentGrows DEF One
<1> QED BY <1>7, <1>8, <1>9

\* A job that is idle, or looks things up, is past no check.
LEMMA LookingUp ==
  ASSUME Typed, NEW j \in Job
  PROVE  /\ job[j].pc \in {"idle", "pending", "regrade", "results", "already"} =>
              \A k \in Mailing : ~ Past(job[j], k)
         /\ job[j].pc = "idle" => \A k \in Mailing, u \in User : ~ Will(job[j], k, u)
<1>1. Fit(j, job[j])
  BY DEF Typed
<1> QED BY <1>1, NamesAssumption DEF Fit, Past, Will, Mailing

LEMMA IdlePays ==
  ASSUME Typed, NEW j \in Job, NEW k \in Mailing, NEW u \in User,
         Past(job[j], k) => spent'.mishaps > spent.mishaps
  PROVE  Pays(j, Idle, k, u)
BY IdleFit, NamesAssumption DEF Pays, Past, Will, Mailing

(***************************************************************************)
(* A digest that goes on: it is past no new check, and will try no one it  *)
(* would not have tried.                                                   *)
(***************************************************************************)
LEMMA AdvancePays ==
  ASSUME Typed, NEW j \in Job, NEW r, NEW k \in Mailing, NEW u \in User,
         job[j].pc \in {"pending", "regrade", "results", "already", "day"},
         r.mailing = job[j].mailing, r.due = {},
         r.pc \in {"day", "mail"} => Past(job[j], k) \/ k # r.mailing
                                     \/ k \notin recorded \/ job[j].force,
         Past(job[j], k) => r.pc \in {"day", "mail"}
  PROVE  Pays(j, r, k, u)
<1>1. Fit(j, job[j]) /\ job[j].due = {}
  BY DEF Typed, Fit
<1>2. Will(r, k, u) => Will(job[j], k, u)
  BY <1>1 DEF Will
<1>3. Past(r, k) => Past(job[j], k) \/ k \notin recorded \/ j # Scheduled(k)
  BY <1>1 DEF Past, Fit, Scheduled
<1>4. Past(job[j], k) => Past(r, k)
  BY <1>1 DEF Past
<1> QED BY <1>2, <1>3, <1>4 DEF Pays

LEMMA StepCounted ==
  ASSUME Typed, AllCounted, [Next]_vars, NEW j \in Job, Step(j)
  PROVE  AllCounted'
<1> USE DEF mailVars
<1>1. ASSUME NEW r, Moves(j, r), tries' = tries, recorded \subseteq recorded',
             \A k \in Mailing, u \in User : Pays(j, r, k, u)
      PROVE  AllCounted'
  BY <1>1, QuietMove
<1>2. CASE ReadUnbet(j)
  <2>1. PICK r : /\ Moves(j, r)
                 /\ r.pc = "mail" /\ r.mailing \in job[j].due
                 /\ r.due = job[j].due \ {r.mailing}
    BY <1>2, ReadUnbetMoves
  <2>2. job[j].mailing = NULL
    BY <1>2 DEF ReadUnbet, At, Typed, Fit
  <2>3. ASSUME NEW k \in Mailing, NEW u \in User PROVE Pays(j, r, k, u)
    BY <2>1, <2>2, NamesAssumption DEF Pays, Past, Will, Mailing
  <2> QED BY <1>1, <1>2, <2>1, <2>3 DEF ReadUnbet
<1>3. CASE CheckPending(j)
  <2>1. PICK r : /\ Moves(j, r)
                 /\ \/ r = Idle
                    \/ r.pc = "regrade" /\ r.mailing = job[j].mailing /\ r.due = {}
    BY <1>3, CheckPendingMoves
  <2>2. job[j].pc = "pending"
    BY <1>3 DEF CheckPending, At
  <2>3. ASSUME NEW k \in Mailing, NEW u \in User PROVE Pays(j, r, k, u)
    BY <2>1, <2>2, LookingUp, IdlePays, AdvancePays
  <2> QED BY <1>1, <1>3, <2>1, <2>3 DEF CheckPending
<1>4. CASE Regrade(j)
  <2>1. PICK r : /\ Moves(j, r)
                 /\ r.pc = "results" /\ r.mailing = job[j].mailing /\ r.due = {}
    BY <1>4, RegradeMoves
  <2>2. job[j].pc = "regrade"
    BY <1>4 DEF Regrade, At
  <2>3. ASSUME NEW k \in Mailing, NEW u \in User PROVE Pays(j, r, k, u)
    BY <2>1, <2>2, LookingUp, AdvancePays
  <2> QED BY <1>1, <1>4, <2>1, <2>3 DEF Regrade
<1>5. CASE ReadResults(j)
  <2>1. PICK r : /\ Moves(j, r)
                 /\ \/ r = Idle
                    \/ r.pc = "already" /\ r.mailing = job[j].mailing /\ r.due = {}
    BY <1>5, ReadResultsMoves
  <2>2. job[j].pc = "results"
    BY <1>5 DEF ReadResults, At
  <2>3. ASSUME NEW k \in Mailing, NEW u \in User PROVE Pays(j, r, k, u)
    BY <2>1, <2>2, LookingUp, IdlePays, AdvancePays
  <2> QED BY <1>1, <1>5, <2>1, <2>3 DEF ReadResults
<1>6. CASE CheckAlready(j)
  <2>1. PICK r : /\ Moves(j, r)
                 /\ \/ r = Idle
                    \/ /\ r.pc = "day" \/ (r.pc = "mail" /\ r.todo = User)
                       /\ r.mailing = job[j].mailing /\ r.due = {}
                       /\ job[j].mailing \notin recorded \/ job[j].force
    BY <1>6, CheckAlreadyMoves
  <2>2. job[j].pc = "already"
    BY <1>6 DEF CheckAlready, At
  <2>3. ASSUME NEW k \in Mailing, NEW u \in User PROVE Pays(j, r, k, u)
    BY <2>1, <2>2, LookingUp, IdlePays, AdvancePays
  <2> QED BY <1>1, <1>6, <2>1, <2>3 DEF CheckAlready
<1>7. CASE ReadDay(j)
  <2>1. PICK r : /\ Moves(j, r)
                 /\ r.pc = "mail" /\ r.todo = User /\ r.mailing = job[j].mailing /\ r.due = {}
    BY <1>7, ReadDayMoves
  <2>2. job[j].pc = "day"
    BY <1>7 DEF ReadDay, At
  <2>3. ASSUME NEW k \in Mailing PROVE Past(job[j], k) \/ k # r.mailing
    BY <2>1, <2>2 DEF Past
  <2>4. ASSUME NEW k \in Mailing, NEW u \in User PROVE Pays(j, r, k, u)
    BY <2>1, <2>2, <2>3, AdvancePays
  <2> QED BY <1>1, <1>7, <2>1, <2>4 DEF ReadDay
<1>8. CASE Record(j)
  <2>1. PICK r : /\ Moves(j, r)
                 /\ \/ r = Idle /\ job[j].due = {}
                    \/ r.pc = "unbet" /\ r.mailing = NULL /\ r.due = job[j].due
    BY <1>8, RecordMoves
  <2>2. recorded' = recorded \union {job[j].mailing} /\ tries' = tries
    BY <1>8, RecordMoves DEF Record
  <2>3. r.due = job[j].due /\ r.mailing = NULL
    BY <2>1, IdleFit
  <2>4. ASSUME NEW k \in Mailing, NEW u \in User PROVE Pays(j, r, k, u)
    BY <2>2, <2>3, NamesAssumption DEF Pays, Past, Will, Mailing
  <2> QED BY <1>1, <2>1, <2>2, <2>4
<1>9. ASSUME NEW v \in User, Mail(j, v) PROVE AllCounted'
  <2> DEFINE l == job[j].mailing
  <2>1. PICK r : /\ Moves(j, r)
                 /\ r.pc = "mail" /\ r.todo = job[j].todo \ {v}
                 /\ r.mailing = l /\ r.due = job[j].due
    BY <1>9, MailMoves
  <2>2. /\ l \in Mailing /\ l \notin job[j].due
        /\ \A k \in Mailing, u \in User :
             tries'[k][u] = IF k = l /\ u = v THEN tries[k][u] + 1 ELSE tries[k][u]
    BY <1>9, MailMoves
  <2>3. job[j].pc = "mail" /\ v \in job[j].todo /\ UNCHANGED <<recorded, spent>>
    BY <1>9 DEF Mail, At
  <2>4. j = "manual" \/ j = Scheduled(l)
    BY <2>2, NamesAssumption DEF Typed, Fit, Scheduled, Job, Mailing
  <2>5. job'[j] = r /\ \A i \in Job : i # j => job'[i] = job[i]
    BY <2>1, MoveTyped
  <2> SUFFICES ASSUME NEW k \in Mailing, NEW u \in User PROVE Counted(k, u)'
    BY DEF AllCounted
  <2> DEFINE s == job[Scheduled(k)]
             t == job'[Scheduled(k)]
             m == job["manual"]
             n == job'["manual"]
  <2>6. tries[k][u] + One(Past(s, k) /\ Will(s, k, u)) + One(Will(m, k, u))
          <= spent.mishaps + spent.manual + One(k \in recorded \/ Past(s, k))
    BY DEF AllCounted, Counted
  <2>7. SUFFICES
          tries'[k][u] + One(Past(t, k) /\ Will(t, k, u)) + One(Will(n, k, u))
            <= spent'.mishaps + spent'.manual + One(k \in recorded' \/ Past(t, k))
    BY DEF Counted, Scheduled, Past, Will, One
  <2>8. Scheduled(k) \in Job /\ Scheduled(k) # "manual" /\ "manual" \in Job
    BY SchedulingHolds DEF Scheduling, Job
  <2>9. /\ tries[k][u] \in Nat
        /\ tries'[k][u] = IF k = l /\ u = v THEN tries[k][u] + 1 ELSE tries[k][u]
    BY <2>2 DEF Typed, Tables
  <2>10. Past(r, k) <=> Past(job[j], k)
    BY <2>1, <2>3 DEF Past
  <2>11. Will(r, k, u) <=> (Will(job[j], k, u) /\ ~ (k = l /\ u = v))
    BY <2>1, <2>2, <2>3 DEF Will
  <2>12. k = l /\ u = v => Past(job[j], k) /\ Will(job[j], k, u)
    BY <2>3 DEF Past, Will
  <2>13. spent.mishaps \in Nat /\ spent.manual \in Nat
    BY SpentGrows
  <2>14. k = l => j = "manual" \/ j = Scheduled(k)
    BY <2>4
  <2> HIDE DEF l
  <2>15. CASE j = Scheduled(k)
    <3>1. s = job[j] /\ t = r /\ n = m
      BY <2>5, <2>8, <2>15
    <3> HIDE DEF s, t, m, n
    <3> QED BY <2>3, <2>6, <2>9, <2>10, <2>11, <2>12, <2>13, <3>1 DEF One
  <2>16. CASE j = "manual"
    <3>1. m = job[j] /\ n = r /\ t = s
      BY <2>5, <2>8, <2>16
    <3> HIDE DEF s, t, m, n
    <3> QED BY <2>3, <2>6, <2>9, <2>11, <2>12, <2>13, <3>1 DEF One
  <2>17. CASE j # "manual" /\ j # Scheduled(k)
    <3>1. t = s /\ n = m /\ tries'[k][u] = tries[k][u]
      BY <2>5, <2>8, <2>9, <2>14, <2>17
    <3> HIDE DEF s, t, m, n
    <3> QED BY <2>3, <2>6, <3>1
  <2> QED BY <2>15, <2>16, <2>17
<1> QED BY <1>2, <1>3, <1>4, <1>5, <1>6, <1>7, <1>8, <1>9 DEF Step

LEMMA InitCounted == Init => AllCounted
<1> SUFFICES ASSUME Init, NEW k \in Mailing, NEW u \in User PROVE Counted(k, u)
  BY DEF AllCounted
<1>1. Scheduled(k) \in Job /\ "manual" \in Job
  BY SchedulingHolds DEF Scheduling, Job
<1>2. job[Scheduled(k)] = Idle /\ job["manual"] = Idle
  BY <1>1 DEF Init
<1>3. ~ Will(Idle, k, u)
  BY IdleFit, NamesAssumption DEF Will, Mailing
<1>4. tries[k][u] = 0 /\ spent.mishaps = 0 /\ spent.manual = 0
  BY DEF Init
<1> QED BY <1>2, <1>3, <1>4 DEF Counted, One

LEMMA CrashCounted ==
  ASSUME Typed, AllCounted, [Next]_vars, Crash
  PROVE  AllCounted'
<1> SUFFICES ASSUME NEW k \in Mailing, NEW u \in User PROVE Counted(k, u)'
  BY DEF AllCounted
<1> DEFINE s == job[Scheduled(k)]
           t == job'[Scheduled(k)]
           m == job["manual"]
           n == job'["manual"]
<1>1. tries[k][u] + One(Past(s, k) /\ Will(s, k, u)) + One(Will(m, k, u))
        <= spent.mishaps + spent.manual + One(k \in recorded \/ Past(s, k))
  BY DEF AllCounted, Counted
<1>2. SUFFICES
        tries'[k][u] + One(Past(t, k) /\ Will(t, k, u)) + One(Will(n, k, u))
          <= spent'.mishaps + spent'.manual + One(k \in recorded' \/ Past(t, k))
  BY DEF Counted, Scheduled, Past, Will, One
<1>3. Scheduled(k) \in Job /\ Scheduled(k) # "manual" /\ "manual" \in Job
  BY SchedulingHolds DEF Scheduling, Job
<1>4. t = Idle /\ n \in {Idle, m}
  BY <1>3, CrashStops
<1>5. ~ Will(Idle, k, u) /\ ~ Past(Idle, k)
  BY IdleFit, NamesAssumption DEF Will, Past, Mailing
<1>6. tries' = tries /\ recorded' = recorded
  BY DEF Crash, mailVars
<1>7. tries[k][u] \in Nat
  BY DEF Typed, Tables
<1>8. spent'.mishaps = spent.mishaps + 1 /\ spent'.manual = spent.manual
  BY SpendTyped DEF Crash, Spent
<1>9. spent.mishaps \in Nat /\ spent.manual \in Nat
  BY SpentGrows
<1> HIDE DEF s, t, m, n
<1> QED BY <1>1, <1>4, <1>5, <1>6, <1>7, <1>8, <1>9 DEF One

\* What leaves the work of every job, and the tables, alone.
LEMMA SameWorkCounted ==
  ASSUME Typed, AllCounted, [Next]_vars, UNCHANGED <<recorded, tries>>,
         \A j \in Job : SameWork(job'[j], job[j])
  PROVE  AllCounted'
<1> SUFFICES ASSUME NEW k \in Mailing, NEW u \in User PROVE Counted(k, u)'
  BY DEF AllCounted
<1> DEFINE s == job[Scheduled(k)]
           t == job'[Scheduled(k)]
           m == job["manual"]
           n == job'["manual"]
<1>1. tries[k][u] + One(Past(s, k) /\ Will(s, k, u)) + One(Will(m, k, u))
        <= spent.mishaps + spent.manual + One(k \in recorded \/ Past(s, k))
  BY DEF AllCounted, Counted
<1>2. SUFFICES
        tries'[k][u] + One(Past(t, k) /\ Will(t, k, u)) + One(Will(n, k, u))
          <= spent'.mishaps + spent'.manual + One(k \in recorded' \/ Past(t, k))
  BY DEF Counted, Scheduled, Past, Will, One
<1>3. Scheduled(k) \in Job /\ "manual" \in Job
  BY SchedulingHolds DEF Scheduling, Job
<1>4. SameWork(t, s) /\ SameWork(n, m)
  BY <1>3
<1> HIDE DEF s, t, m, n
<1>5. /\ Past(t, k) <=> Past(s, k)
      /\ Will(t, k, u) <=> Will(s, k, u)
      /\ Will(n, k, u) <=> Will(m, k, u)
  BY <1>4 DEF SameWork, Past, Will
<1>6. tries[k][u] \in Nat
  BY DEF Typed, Tables
<1> QED BY <1>1, <1>5, <1>6, SpentGrows DEF One

LEMMA NextCounted == Typed /\ AllCounted /\ [Next]_vars => AllCounted'
<1> SUFFICES ASSUME Typed, AllCounted, [Next]_vars PROVE AllCounted'
  OBVIOUS
<1> USE DEF mailVars
<1>1. ASSUME NEW j \in Job, NEW r, Moves(j, r), UNCHANGED <<tries, recorded>>,
             \A k \in Mailing, u \in User : Pays(j, r, k, u)
      PROVE  AllCounted'
  BY <1>1, QuietMove
<1>2. ASSUME UNCHANGED <<recorded, tries, job>> PROVE AllCounted'
  BY <1>2, SameWorkCounted DEF SameWork
<1>3. CASE TickerFires
  <2>1. PICK r : /\ Moves("ticker", r) /\ r.due = {}
                 /\ r.pc \in {"pending", "regrade", "already"}
    BY <1>3, StartDigestMoves, StartPreviewMoves DEF TickerFires
  <2>2. job["ticker"].pc = "idle" /\ "ticker" \in Job
    BY <1>3 DEF TickerFires, StartDigest, StartPreview, At, Job
  <2>3. ASSUME NEW k \in Mailing, NEW u \in User PROVE Pays("ticker", r, k, u)
    BY <2>1, <2>2, LookingUp DEF Pays, Past
  <2>4. UNCHANGED <<tries, recorded>>
    BY <1>3 DEF TickerFires, StartDigest, StartPreview
  <2> QED BY <1>1, <2>1, <2>2, <2>3, <2>4
<1>4. CASE LoopReminds
  <2>1. PICK r : Moves("loop", r) /\ r.pc = "unbet" /\ r.mailing = NULL /\ r.due = Due
    BY <1>4, StartRemindersMoves DEF LoopReminds
  <2>2. job["loop"].pc = "idle" /\ "loop" \in Job
    BY <1>4 DEF LoopReminds, StartReminders, At, Job
  <2>3. ASSUME NEW k \in Mailing, NEW u \in User PROVE Pays("loop", r, k, u)
    BY <2>1, <2>2, LookingUp, NamesAssumption DEF Pays, Past, Due
  <2>4. UNCHANGED <<tries, recorded>>
    BY <1>4 DEF LoopReminds, StartReminders
  <2> QED BY <1>1, <2>1, <2>2, <2>3, <2>4
<1>5. CASE StartManual
  <2>1. PICK r : Moves("manual", r)
    BY <1>5, StartDigestMoves, StartPreviewMoves, StartRemindersMoves DEF StartManual
  <2>2. spent'.manual > spent.manual
    BY <1>5, SpendTyped, SpentGrows DEF StartManual
  <2>3. "manual" \in Job
    BY DEF Job
  <2>4. ASSUME NEW k \in Mailing, NEW u \in User PROVE Pays("manual", r, k, u)
    BY <2>2, SchedulingHolds DEF Pays, Scheduling
  <2>5. UNCHANGED <<tries, recorded>>
    BY <1>5 DEF StartManual, StartDigest, StartPreview, StartReminders
  <2> QED BY <1>1, <2>1, <2>3, <2>4, <2>5
<1>6. ASSUME NEW m \in Match, NEW row \in Reported, Report(m, row) PROVE AllCounted'
  BY <1>6, ReportKeepsWork, SameWorkCounted DEF Report
<1>7. ASSUME NEW j \in Job, Fault(j) PROVE AllCounted'
  <2>1. spent'.mishaps > spent.mishaps
    BY <1>7, SpendTyped, SpentGrows DEF Fault
  <2> QED BY <1>1, <1>7, <2>1, FaultMoves, IdlePays DEF Fault
<1> QED BY <1>2, <1>3, <1>4, <1>5, <1>6, <1>7, CrashCounted, StepCounted
        DEF Next, Tick, LoopRecompute, PlaceBet, vars

(***************************************************************************)
(* Nobody gets a mailing twice, but for a copy at most for each crash,     *)
(* each statement that fails and each mailing started by hand.             *)
(***************************************************************************)
THEOREM CopiesArePaidFor == Spec => []NoSpareCopies
<1> QED BY InitCounted, NextCounted, AlwaysTyped, CountedIsEnough, PTL DEF Spec

-----------------------------------------------------------------------------
(***************************************************************************)
(* The invariant, for a job r over the rows of matches and the points as   *)
(* they stand.  Until the results are read, what is owed is over, and firm *)
(* points are those of the result; then what was read is what stands, for  *)
(* the matches that are firm; then it is what the e-mail says.             *)
(***************************************************************************)
Over(rows, m) == rows[m].status = "FINISHED" /\ rows[m].result # NULL

Complete(rows, r) ==
  /\ r.pc \in {"idle", "unbet", "pending"} => r.owed = {}
  /\ r.pc \in {"regrade", "results"} => \A m \in r.owed : Over(rows, m)
  /\ r.pc \in {"already", "day", "mail"} => \A m \in r.owed : r.results[m] # NULL

Firm(rows, points, r) ==
  /\ r.pc \in {"idle", "unbet", "pending", "regrade"} => r.firm = {}
  /\ r.pc = "results" => \A m \in r.firm : Over(rows, m) => points[m] = rows[m].result
  /\ r.pc \in {"already", "day"} => \A m \in r.firm : r.results[m] # NULL =>
       rows[m].status = "FINISHED" /\ rows[m].result = r.results[m] /\ points[m] = r.results[m]
  /\ r.pc = "mail" /\ r.mailing = "digest" => \A m \in r.firm : r.results[m] # NULL =>
       r.day[m] = r.results[m]

Reporting(rows, points, r) == Complete(rows, r) /\ Firm(rows, points, r)

AllReporting == \A j \in Job : Reporting(match, graded, job[j])

LEMMA ReportingIsEnough == Typed /\ AllReporting => DigestIsComplete /\ FirmPointsAgree
BY DEF AllReporting, Reporting, Complete, Firm, DigestIsComplete, FirmPointsAgree, At

LEMMA IdleReports == \A rows, points : Reporting(rows, points, Idle)
BY DEF Reporting, Complete, Firm, Idle

\* A re-grading, of whoever, leaves firm points as they are.
Regrades == graded' = graded \/ RecomputeAll

LEMMA RegradingReports ==
  ASSUME Typed, NEW r \in JobState, Reporting(match, graded, r), match' = match, Regrades
  PROVE  Reporting(match', graded', r)
<1>1. CASE graded' = graded
  BY <1>1
<1>2. CASE RecomputeAll
  <2>1. \A m \in Match : graded'[m] = IF Over(match, m) THEN match[m].result ELSE graded[m]
    BY <1>2 DEF RecomputeAll, Settled, Over
  <2>2. r.firm \subseteq Match
    BY DEF JobState
  <2>3. Complete(match', r)
    BY DEF Reporting
  <2>4. Firm(match', graded', r)
    BY <2>1, <2>2 DEF Reporting, Firm, Over
  <2> QED BY <2>3, <2>4 DEF Reporting
<1> QED BY <1>1, <1>2 DEF Regrades

\* Job j comes to r, while the matches stay as they are.
LEMMA MoveReports ==
  ASSUME Typed, AllReporting, NEW j \in Job, NEW r, job' = [job EXCEPT ![j] = r],
         Reporting(match', graded', r), match' = match, Regrades
  PROVE  AllReporting'
<1> SUFFICES ASSUME NEW i \in Job PROVE Reporting(match', graded', job'[i])
  BY DEF AllReporting
<1>1. CASE i = j
  BY <1>1 DEF Typed
<1>2. CASE i # j
  <2>1. job'[i] = job[i] /\ job[i] \in JobState
    BY <1>2 DEF Typed
  <2> QED BY <2>1, RegradingReports DEF AllReporting
<1> QED BY <1>1, <1>2

\* A job that starts, or takes the next reminder of its list, reports nothing.
LEMMA StartReports ==
  ASSUME Typed, AllReporting, NEW j \in Job, NEW r \in JobState, job' = [job EXCEPT ![j] = r],
         r.owed = {}, r.firm = {}, UNCHANGED <<match, graded>>
  PROVE  AllReporting'
<1>1. Reporting(match', graded', r)
  BY DEF Reporting, Complete, Firm
<1> QED BY <1>1, MoveReports DEF Regrades

-----------------------------------------------------------------------------
(***************************************************************************)
(* The statements of a digest.                                             *)
(***************************************************************************)
LEMMA CheckPendingReports ==
  ASSUME Typed, AllReporting, NEW j \in Job, CheckPending(j)
  PROVE  AllReporting'
<1> DEFINE owed == IF clock < Cutoff THEN KickedOff ELSE {}
           r == [job[j] EXCEPT !.pc = "regrade", !.owed = owed]
<1>1. /\ job[j] \in JobState /\ job[j].pc = "pending" /\ Reporting(match, graded, job[j])
      /\ UNCHANGED <<match, graded>>
  BY DEF Typed, AllReporting, CheckPending, At, dataVars
<1>2. CASE Defers
  BY <1>1, <1>2, IdleReports, MoveReports DEF CheckPending, Regrades
<1>3. CASE ~ Defers
  <2>1. r.pc = "regrade" /\ r.owed = owed /\ r.firm = {}
    BY <1>1 DEF JobState, Reporting, Firm
  <2>2. \A m \in owed : Over(match, m)
    BY <1>3 DEF Defers, Settled, Over, KickedOff
  <2>3. Reporting(match', graded', r)
    BY <1>1, <2>1, <2>2 DEF Reporting, Complete, Firm
  <2> QED BY <1>1, <1>3, <2>3, MoveReports DEF CheckPending, Regrades
<1> QED BY <1>2, <1>3

LEMMA RegradeReports ==
  ASSUME Typed, AllReporting, NEW j \in Job, Regrade(j)
  PROVE  AllReporting'
<1>1. /\ job[j] \in JobState /\ job[j].pc = "regrade" /\ Reporting(match, graded, job[j])
      /\ UNCHANGED match
  BY DEF Typed, AllReporting, Regrade, At
<1>2. CASE RecomputeAll /\ job' = [job EXCEPT ![j].pc = "results", ![j].firm = Match]
  <2> DEFINE r == [job[j] EXCEPT !.pc = "results", !.firm = Match]
  <2>1. r.pc = "results" /\ r.firm = Match /\ r.owed = job[j].owed
    BY <1>1 DEF JobState
  <2>2. \A m \in Match : Over(match, m) => graded'[m] = match[m].result
    BY <1>2 DEF RecomputeAll, Settled, Over
  <2>3. Reporting(match', graded', r)
    BY <1>1, <2>1, <2>2 DEF Reporting, Complete, Firm
  <2>4. job' = [job EXCEPT ![j] = r]
    BY <1>2 DEF Typed
  <2> QED BY <1>1, <1>2, <2>3, <2>4, MoveReports DEF Regrades
<1>3. CASE job' = [job EXCEPT ![j].pc = "results"] /\ UNCHANGED graded
  <2> DEFINE r == [job[j] EXCEPT !.pc = "results"]
  <2>1. r.pc = "results" /\ r.firm = {} /\ r.owed = job[j].owed
    BY <1>1 DEF JobState, Reporting, Firm
  <2>2. Reporting(match', graded', r)
    BY <1>1, <2>1 DEF Reporting, Complete, Firm
  <2>3. job' = [job EXCEPT ![j] = r]
    BY <1>3 DEF Typed
  <2> QED BY <1>1, <1>3, <2>2, <2>3, MoveReports DEF Regrades
<1> QED BY <1>2, <1>3 DEF Regrade

LEMMA ReadResultsReports ==
  ASSUME Typed, AllReporting, NEW j \in Job, ReadResults(j)
  PROVE  AllReporting'
<1> DEFINE results == [m \in Match |-> IF Settled(m) THEN match[m].result ELSE NULL]
           r == [job[j] EXCEPT !.pc = "already", !.results = results]
<1>1. /\ job[j] \in JobState /\ job[j].pc = "results" /\ Reporting(match, graded, job[j])
      /\ UNCHANGED <<match, graded>>
  BY DEF Typed, AllReporting, ReadResults, At, dataVars
<1>2. /\ r.pc = "already" /\ r.results = results /\ r.owed = job[j].owed /\ r.firm = job[j].firm
      /\ r.owed \subseteq Match /\ r.firm \subseteq Match
  BY <1>1 DEF JobState
<1>3. \A m \in Match : results[m] = IF Over(match, m) THEN match[m].result ELSE NULL
  BY DEF Settled, Over
<1>4. Complete(match', r)
  BY <1>1, <1>2, <1>3 DEF Reporting, Complete, Over
<1>5. Firm(match', graded', r)
  BY <1>1, <1>2, <1>3 DEF Reporting, Firm, Over
<1>6. job' = [job EXCEPT ![j] = IF results = NoResults THEN Idle ELSE r]
  BY DEF ReadResults
<1> QED BY <1>1, <1>4, <1>5, <1>6, IdleReports, MoveReports DEF Reporting, Regrades

LEMMA CheckAlreadyReports ==
  ASSUME Typed, AllReporting, NEW j \in Job, CheckAlready(j)
  PROVE  AllReporting'
<1> DEFINE k == job[j].mailing
           day == [job[j] EXCEPT !.pc = "day"]
           mail == [job[j] EXCEPT !.pc = "mail", !.todo = User]
<1>1. /\ job[j] \in JobState /\ job[j].pc = "already" /\ Reporting(match, graded, job[j])
      /\ UNCHANGED <<match, graded>>
  BY DEF Typed, AllReporting, CheckAlready, At, dataVars
<1>2. job' = [job EXCEPT ![j] = IF k \in recorded /\ ~ job[j].force THEN Idle
                                ELSE IF k = "digest" THEN day ELSE mail]
  BY DEF CheckAlready
<1>3. /\ day.pc = "day" /\ day.owed = job[j].owed /\ day.firm = job[j].firm
      /\ day.results = job[j].results
      /\ mail.pc = "mail" /\ mail.owed = job[j].owed /\ mail.mailing = k
      /\ mail.results = job[j].results
  BY <1>1 DEF JobState
<1>4. Reporting(match', graded', day)
  BY <1>1, <1>3 DEF Reporting, Complete, Firm
<1>5. k # "digest" => Reporting(match', graded', mail)
  BY <1>1, <1>3 DEF Reporting, Complete, Firm
<1> QED BY <1>1, <1>2, <1>4, <1>5, IdleReports, MoveReports DEF Regrades

LEMMA ReadDayReports ==
  ASSUME Typed, AllReporting, NEW j \in Job, ReadDay(j)
  PROVE  AllReporting'
<1> DEFINE day == [m \in Match |-> IF match[m].status = "FINISHED" THEN graded[m] ELSE NULL]
           r == [job[j] EXCEPT !.pc = "mail", !.todo = User, !.day = day]
<1>1. /\ job[j] \in JobState /\ job[j].pc = "day" /\ Reporting(match, graded, job[j])
      /\ UNCHANGED <<match, graded>>
  BY DEF Typed, AllReporting, ReadDay, At, dataVars
<1>2. /\ r.pc = "mail" /\ r.day = day /\ r.results = job[j].results
      /\ r.owed = job[j].owed /\ r.firm = job[j].firm /\ r.firm \subseteq Match
  BY <1>1 DEF JobState
<1>3. Reporting(match', graded', r)
  BY <1>1, <1>2 DEF Reporting, Complete, Firm
<1>4. job' = [job EXCEPT ![j] = r]
  BY DEF ReadDay, Typed
<1> QED BY <1>1, <1>3, <1>4, MoveReports DEF Regrades

LEMMA MailReports ==
  ASSUME Typed, AllReporting, NEW j \in Job, NEW u \in User, Mail(j, u)
  PROVE  AllReporting'
<1> DEFINE r == [job[j] EXCEPT !.todo = @ \ {u}]
<1>1. /\ job[j] \in JobState /\ Reporting(match, graded, job[j]) /\ UNCHANGED <<match, graded>>
  BY DEF Typed, AllReporting, Mail, dataVars
<1>2. /\ r.pc = job[j].pc /\ r.mailing = job[j].mailing /\ r.owed = job[j].owed
      /\ r.firm = job[j].firm /\ r.results = job[j].results /\ r.day = job[j].day
  BY <1>1 DEF JobState
<1>3. Reporting(match', graded', r)
  BY <1>1, <1>2 DEF Reporting, Complete, Firm
<1>4. job' = [job EXCEPT ![j] = r]
  BY DEF Mail, Typed
<1> QED BY <1>1, <1>3, <1>4, MoveReports DEF Regrades

-----------------------------------------------------------------------------
(***************************************************************************)
(* Everything else.  A report takes its match off what is firm, and what   *)
(* it leaves without a result off what is owed.                            *)
(***************************************************************************)
LEMMA ReportReports ==
  ASSUME Typed, AllReporting, NEW m \in Match, NEW row \in Reported, Report(m, row)
  PROVE  AllReporting'
<1> SUFFICES ASSUME NEW j \in Job PROVE Reporting(match', graded', job'[j])
  BY DEF AllReporting
<1> DEFINE q == job[j]
           r == [q EXCEPT !.firm = @ \ {m}, !.owed = IF row.result = NULL THEN @ \ {m} ELSE @]
<1>1. /\ q \in JobState /\ Reporting(match, graded, q) /\ graded' = graded
      /\ match' = [match EXCEPT ![m] = row] /\ job'[j] = r
  BY DEF Typed, AllReporting, Report
<1>2. /\ r.pc = q.pc /\ r.mailing = q.mailing /\ r.results = q.results /\ r.day = q.day
      /\ r.firm = q.firm \ {m}
      /\ r.owed \subseteq q.owed /\ (row.result = NULL => m \notin r.owed)
      /\ q.owed \subseteq Match /\ q.firm \subseteq Match
  BY <1>1 DEF JobState
<1>3. match'[m] = row /\ \A n \in Match : n # m => match'[n] = match[n]
  BY <1>1 DEF Typed, Tables, Rows
<1>4. row.result # NULL => row.status = "FINISHED"
  BY DEF Reported
<1>5. Complete(match', r)
  BY <1>1, <1>2, <1>3, <1>4 DEF Reporting, Complete, Over
<1>6. Firm(match', graded', r)
  BY <1>1, <1>2, <1>3 DEF Reporting, Firm, Over
<1> QED BY <1>1, <1>5, <1>6 DEF Reporting

LEMMA StartsReport ==
  ASSUME Typed, AllReporting, NEW j \in Job, NEW force \in BOOLEAN,
         StartDigest(j, force) \/ StartPreview(j, force) \/ StartReminders(j)
  PROVE  AllReporting'
<1>1. PICK r \in JobState : job' = [job EXCEPT ![j] = r] /\ r.owed = {} /\ r.firm = {}
  <2>1. [Idle EXCEPT !.pc = IF force THEN "regrade" ELSE "pending", !.mailing = "digest",
                     !.force = force] \in JobState
    BY NoResultsType DEF Idle, JobState, Mailing
  <2>2. [Idle EXCEPT !.pc = "already", !.mailing = "preview", !.force = force] \in JobState
    BY NoResultsType DEF Idle, JobState, Mailing
  <2>3. [Idle EXCEPT !.pc = "unbet", !.due = Due] \in JobState
    BY NoResultsType, DueType DEF Idle, JobState
  <2> QED BY <2>1, <2>2, <2>3 DEF StartDigest, StartPreview, StartReminders, Idle
<1>2. UNCHANGED <<match, graded>>
  BY DEF StartDigest, StartPreview, StartReminders, dataVars
<1> QED BY <1>1, <1>2, StartReports

LEMMA StepReports ==
  ASSUME Typed, AllReporting, NEW j \in Job, Step(j)
  PROVE  AllReporting'
<1>1. ASSUME ReadUnbet(j) PROVE AllReporting'
  <2>1. PICK m \in job[j].due :
          job' = [job EXCEPT ![j].pc = "mail", ![j].mailing = m, ![j].due = @ \ {m},
                             ![j].todo = {u \in User : <<u, m>> \notin bet}]
    BY <1>1 DEF ReadUnbet
  <2> DEFINE r == [job[j] EXCEPT !.pc = "mail", !.mailing = m, !.due = @ \ {m},
                                 !.todo = {u \in User : <<u, m>> \notin bet}]
  <2>2. job[j] \in JobState /\ job[j].pc = "unbet" /\ Reporting(match, graded, job[j])
    BY <1>1 DEF Typed, AllReporting, ReadUnbet, At
  <2>3. r \in JobState /\ r.owed = {} /\ r.firm = {}
    BY <2>2 DEF JobState, Mailing, Reporting, Complete, Firm
  <2>4. job' = [job EXCEPT ![j] = r] /\ UNCHANGED <<match, graded>>
    BY <1>1, <2>1 DEF Typed, ReadUnbet, dataVars
  <2> QED BY <2>3, <2>4, StartReports
<1>2. ASSUME Record(j) PROVE AllReporting'
  <2>1. job' = [job EXCEPT ![j] = AfterRecord(j)] /\ UNCHANGED <<match, graded>>
    BY <1>2 DEF Record, dataVars
  <2>2. AfterRecord(j) \in JobState /\ AfterRecord(j).owed = {} /\ AfterRecord(j).firm = {}
    BY NoResultsType DEF Typed, AfterRecord, Idle, JobState
  <2> QED BY <2>1, <2>2, StartReports
<1> QED BY <1>1, <1>2, CheckPendingReports, RegradeReports, ReadResultsReports, CheckAlreadyReports,
           ReadDayReports, MailReports DEF Step

LEMMA NextReports == Typed /\ AllReporting /\ [Next]_vars => AllReporting'
<1> SUFFICES ASSUME Typed, AllReporting, [Next]_vars PROVE AllReporting'
  OBVIOUS
<1>1. ASSUME UNCHANGED <<match, graded, job>> PROVE AllReporting'
  BY <1>1 DEF AllReporting
<1>2. CASE LoopRecompute
  BY <1>2, RegradingReports DEF LoopRecompute, AllReporting, Typed, Regrades
<1>3. CASE TickerFires \/ LoopReminds \/ StartManual
  BY <1>3, StartsReport DEF TickerFires, LoopReminds, StartManual, Job
<1>4. CASE Crash
  <2>1. UNCHANGED <<match, graded>> /\ \A j \in Job : job'[j] \in {Idle, job[j]}
    BY <1>4 DEF Crash, dataVars
  <2> QED BY <2>1, IdleReports DEF AllReporting
<1>5. ASSUME NEW j \in Job, Fault(j) PROVE AllReporting'
  BY <1>5, IdleReports, MoveReports DEF Fault, dataVars, Regrades
<1>6. CASE Tick \/ (\E u \in User, m \in Match : PlaceBet(u, m)) \/ UNCHANGED vars
  BY <1>1, <1>6 DEF Tick, PlaceBet, vars, dataVars
<1> QED BY <1>2, <1>3, <1>4, <1>5, <1>6, ReportReports, StepReports DEF Next

LEMMA AlwaysReporting == Spec => []AllReporting
<1>1. Init => AllReporting
  BY IdleReports DEF Init, AllReporting
<1> QED BY <1>1, NextReports, AlwaysTyped, PTL DEF Spec

(***************************************************************************)
(* A scheduled digest before the cutoff reports every match that had       *)
(* kicked off when it stopped waiting and that still has a result.         *)
(***************************************************************************)
THEOREM NoMatchIsLeftOut == Spec => []DigestIsComplete
<1> QED BY AlwaysReporting, AlwaysTyped, ReportingIsEnough, PTL

(***************************************************************************)
(* The points of a digest are those of its results, for each match not     *)
(* reported anew since it re-graded: another re-grading changes nothing.   *)
(***************************************************************************)
THEOREM PointsFollowResults == Spec => []FirmPointsAgree
<1> QED BY AlwaysReporting, AlwaysTyped, ReportingIsEnough, PTL

-----------------------------------------------------------------------------
(***************************************************************************)
(* A matchday gets its digest once its cutoff has gone by, when the ticker *)
(* goes on firing, that is, when its task comes to an end each time, and   *)
(* nothing fails any more: a digest the ticker has started gets recorded   *)
(* or finds itself recorded, before the ticker fires again.                *)
(***************************************************************************)
OnItsWay == job["ticker"].mailing = "digest"

Sent == "digest" \in recorded

HasResults == \E m \in Match : Settled(m)

Late == clock >= Cutoff /\ clock >= DigestHour

Smooth == ~ Crash /\ ~ Fault("ticker")

LEMMA TickerKeeps ==
  ASSUME Typed, OnItsWay, [Next]_vars, job'["ticker"].mailing = job["ticker"].mailing
  PROVE  OnItsWay'
BY DEF OnItsWay

LEMMA OthersKeepTicker ==
  ASSUME Typed, [Next]_vars, Smooth, ~ TickerFires, ~ Step("ticker")
  PROVE  job'["ticker"].mailing = job["ticker"].mailing
<1> USE DEF Job
<1>1. CASE Tick \/ LoopRecompute \/ (\E u \in User, m \in Match : PlaceBet(u, m)) \/ UNCHANGED vars
  BY <1>1 DEF Tick, LoopRecompute, PlaceBet, vars
<1>2. CASE LoopReminds \/ StartManual
  <2>1. job'["ticker"] = job["ticker"]
    BY <1>2 DEF LoopReminds, StartManual, StartReminders, StartPreview, StartDigest, Typed
  <2> QED BY <2>1
<1>3. ASSUME NEW m \in Match, NEW row \in Reported, Report(m, row)
      PROVE  job'["ticker"].mailing = job["ticker"].mailing
  BY <1>3, ReportKeepsWork DEF SameWork
<1>4. ASSUME NEW j \in Job \ {"ticker"}, Step(j) \/ Fault(j) PROVE job'["ticker"] = job["ticker"]
  <2>1. ASSUME NEW u \in User, Mail(j, u) PROVE job'["ticker"] = job["ticker"]
    BY <2>1 DEF Mail, Typed
  <2>2. CASE ReadUnbet(j) \/ CheckPending(j) \/ ReadResults(j) \/ CheckAlready(j)
    BY <2>2 DEF ReadUnbet, CheckPending, ReadResults, CheckAlready, Typed
  <2>3. CASE Regrade(j) \/ ReadDay(j) \/ Record(j) \/ Fault(j)
    BY <2>3 DEF Regrade, ReadDay, Record, Fault, Typed
  <2> QED BY <1>4, <2>1, <2>2, <2>3 DEF Step
<1> QED BY <1>1, <1>2, <1>3, <1>4 DEF Next, Smooth

LEMMA TickerGoesOn ==
  ASSUME Typed, OnItsWay, HasResults, Late, Step("ticker")
  PROVE  OnItsWay' \/ Sent'
<1> DEFINE r == job["ticker"]
<1>1. /\ r \in JobState /\ Fit("ticker", r) /\ r.mailing = "digest" /\ r.force = FALSE
      /\ "ticker" \in Job /\ DOMAIN job = Job
  BY DEF Typed, Job, OnItsWay, Fit
<1>2. ASSUME ReadUnbet("ticker") PROVE FALSE
  BY <1>1, <1>2, NamesAssumption DEF ReadUnbet, At, Fit
<1>3. ASSUME CheckPending("ticker") PROVE OnItsWay'
  <2>1. ~ Defers
    BY DayAssumption DEF Late, Defers, Typed, Tables
  <2> QED BY <1>1, <1>3, <2>1 DEF CheckPending, OnItsWay, JobState
<1>4. ASSUME Regrade("ticker") PROVE OnItsWay'
  BY <1>1, <1>4 DEF Regrade, OnItsWay, JobState
<1>5. ASSUME ReadResults("ticker") PROVE OnItsWay'
  <2> DEFINE results == [m \in Match |-> IF Settled(m) THEN match[m].result ELSE NULL]
  <2>1. results # NoResults
    <3>1. PICK m \in Match : Settled(m)
      BY DEF HasResults
    <3>2. results[m] # NULL /\ NoResults[m] = NULL
      BY <3>1 DEF Settled, NoResults
    <3> HIDE DEF results
    <3> QED BY <3>2
  <2>2. job'["ticker"] = [r EXCEPT !.pc = "already", !.results = results]
    BY <1>1, <1>5, <2>1 DEF ReadResults
  <2> HIDE DEF results
  <2> QED BY <1>1, <2>2 DEF OnItsWay, JobState
<1>6. ASSUME CheckAlready("ticker") PROVE OnItsWay' \/ Sent'
  <2>1. CASE "digest" \in recorded
    BY <1>6, <2>1 DEF CheckAlready, mailVars, Sent
  <2>2. CASE "digest" \notin recorded
    BY <1>1, <1>6, <2>2 DEF CheckAlready, OnItsWay, JobState
  <2> QED BY <2>1, <2>2
<1>7. ASSUME ReadDay("ticker") PROVE OnItsWay'
  BY <1>1, <1>7 DEF ReadDay, OnItsWay, JobState
<1>8. ASSUME NEW u \in User, Mail("ticker", u) PROVE OnItsWay'
  BY <1>1, <1>8 DEF Mail, OnItsWay, JobState
<1>9. ASSUME Record("ticker") PROVE Sent'
  BY <1>1, <1>9 DEF Record, Sent
<1> QED BY <1>2, <1>3, <1>4, <1>5, <1>6, <1>7, <1>8, <1>9 DEF Step

LEMMA DigestStaysOnItsWay ==
  Typed /\ OnItsWay /\ HasResults /\ Late /\ [Next]_vars /\ Smooth => OnItsWay' \/ Sent'
<1> SUFFICES ASSUME Typed, OnItsWay, HasResults, Late, [Next]_vars, Smooth PROVE OnItsWay' \/ Sent'
  OBVIOUS
<1>1. ~ TickerFires
  BY NamesAssumption DEF TickerFires, StartDigest, StartPreview, At, OnItsWay, Typed, Fit, Job
<1>2. CASE Step("ticker")
  BY <1>2, TickerGoesOn
<1>3. CASE ~ Step("ticker")
  BY <1>1, <1>3, OthersKeepTicker, TickerKeeps
<1> QED BY <1>2, <1>3

LEMMA TickerStartsIt ==
  Typed /\ Late /\ TickerFires => ~ OnItsWay /\ OnItsWay'
<1> SUFFICES ASSUME Typed, Late, TickerFires PROVE ~ OnItsWay /\ OnItsWay'
  OBVIOUS
<1>1. clock \in Nat /\ ~ clock \in PreviewHour..(Midnight - 1)
  BY DayAssumption DEF Late, Typed, Tables
<1>2. StartDigest("ticker", FALSE)
  BY <1>1 DEF TickerFires
<1>3. ~ OnItsWay
  BY <1>2, NamesAssumption DEF StartDigest, At, OnItsWay, Typed, Fit, Job
<1>4. OnItsWay'
  BY <1>2 DEF StartDigest, OnItsWay, Typed, Job, Idle
<1> QED BY <1>3, <1>4

LEMMA LateStays ==
  ASSUME Typed, [Next]_vars
  PROVE  (Late => Late') /\ (Sent => Sent')
<1>1. clock' \in {clock, clock + 1} /\ recorded \subseteq recorded'
  BY DEF Next, vars, dataVars, mailVars, Tick, LoopRecompute, TickerFires, LoopReminds, StartManual, Crash, PlaceBet, Report,
         Step, Fault, StartReminders, StartPreview, StartDigest, ReadUnbet, CheckPending, Regrade,
         ReadResults, CheckAlready, ReadDay, Mail, Record
<1>2. clock \in Nat /\ Cutoff \in Nat /\ DigestHour \in Nat
  BY DayAssumption DEF Typed, Tables
<1> QED BY <1>1, <1>2 DEF Late, Sent

(***************************************************************************)
(* The ticker's task comes back to fire again and again; from some time on *)
(* the process does not crash and the task does not fail.                  *)
(***************************************************************************)
TickerIsKept ==
  /\ <>(clock >= Cutoff /\ clock >= DigestHour)
  /\ TickerComesBack
  /\ <>[][~ Crash /\ ~ Fault("ticker")]_vars

(***************************************************************************)
(* A matchday with settled matches gets its digest (send_daily_digest of   *)
(* src/notifications.rs), whatever crashed, failed or was postponed        *)
(* before: the dedup table takes the digest only once it has been sent.    *)
(***************************************************************************)
THEOREM DigestsGoOut == Spec /\ TickerIsKept => DigestGoesOut
<1>1. Spec => []Typed
  BY AlwaysTyped
<1>2. Typed /\ OnItsWay /\ HasResults /\ Late /\ [Next]_vars /\ [Smooth]_vars => OnItsWay' \/ Sent'
  <2>1. OnItsWay /\ UNCHANGED vars => OnItsWay'
    BY DEF OnItsWay, vars
  <2> QED BY <2>1, DigestStaysOnItsWay
<1>3. Typed /\ Late /\ TickerFires => ~ OnItsWay /\ OnItsWay'
  BY TickerStartsIt
<1>4. Typed /\ [Next]_vars => (Late => Late') /\ (Sent => Sent')
  BY LateStays
<1>5. DigestGoesOut <=> (<>[]HasResults => <>Sent)
  BY DEF DigestGoesOut, HasResults, Sent
<1>6. TickerIsKept <=> <>Late /\ []<><<TickerFires>>_vars /\ <>[][Smooth]_vars
  BY DEF TickerIsKept, TickerComesBack, Late, Smooth
<1> QED BY <1>1, <1>2, <1>3, <1>4, <1>5, <1>6, PTL DEF Spec
=============================================================================
