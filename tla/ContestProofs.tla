--------------------------- MODULE ContestProofs ----------------------------
(***************************************************************************)
(* Theorems of Contest, for any players, spaces, matches and endpoints,    *)
(* any scores and standings, and any bounds.                               *)
(***************************************************************************)
EXTENDS Contest, Counting

-----------------------------------------------------------------------------
(***************************************************************************)
(* Types.  Fit says which states a job can be in: what it reads, what it   *)
(* pushes for, and whose ranks it holds.                                   *)
(***************************************************************************)
PC == {"idle", "sync", "scan", "baseline", "tenants", "space", "push", "prefs", "alert"}

Places == 1..Cardinality(User)

BoardOf(s) == [Members(s) -> [rank : Places, points : Nat]]

JobState ==
  [pc : PC, kind : {"live", "ranks", NULL}, seen : SUBSET (Match \X Nat), events : SUBSET EventSet,
   spaces : SUBSET Space, space : Space \union {NULL},
   todo : SUBSET ((User \X EventSet) \union User),
   ranks : {NULL} \union UNION {BoardOf(s) : s \in Space}, sent : SUBSET User]

Fit(r) ==
  /\ r \in JobState
  /\ \A e, f \in r.events : e.match = f.match => e = f
  /\ r.pc = "baseline" => /\ r.kind = "live"
                          /\ \A e \in r.events : <<e.match, e.version>> \in r.seen
  /\ r.pc = "push" => /\ r.kind = "live" /\ r.space \in Space \ r.spaces
                      /\ r.todo \subseteq (Members(r.space) \X r.events)
  /\ r.pc \in {"prefs", "alert"} => /\ r.kind = "ranks" /\ r.space \in Space
                                    /\ r.ranks \in BoardOf(r.space)
  /\ IF r.pc = "alert" THEN r.todo \union r.sent \subseteq Members(r.space) ELSE r.sent = {}

Status == {"TIMED", "IN_PLAY", "PAUSED", "FINISHED"}

Tables ==
  /\ standing \in [User -> [points : Nat, exact : Nat, settled : Nat]]
  /\ row \in [Match -> [score : Score \union {NULL}, status : Status]]
  /\ pushed \in [Match -> [score : Score \union {NULL}, status : Status \union {NULL}]]
  /\ version \in [Match -> Nat]
  /\ based \in [Match -> Nat]
  /\ subs \subseteq User \X Device
  /\ wants \subseteq User
  /\ lastRank \in [User -> 0..Cardinality(User)]
  /\ alerted \in [User -> 0..Cardinality(User)]
  /\ known \in [User -> [Match -> [score : Score \union {NULL, <<0, 0>>}, over : BOOLEAN]]]

StakeTyped ==
  /\ stake \in [User -> Tier \union {0}]
  /\ cashed \in [User -> Tier \union {0}]
  /\ paid \subseteq User
  /\ asking \subseteq (User \X Tier \X {FALSE})

Jobs ==
  /\ job \in [Job -> JobState]
  /\ \A j \in Job : Fit(job[j])

Typed == Tables /\ Jobs /\ StakeTyped

LEMMA TypedIsTypeOK == Typed => TypeOK
<1> SUFFICES ASSUME Typed PROVE TypeOK
  OBVIOUS
<1>1. ASSUME NEW j \in Job PROVE JobTypeOK(j)
  <2>1. Fit(job[j]) /\ job[j] \in JobState
    BY DEF Typed, Jobs
  <2> QED BY <2>1 DEF Fit, JobState, JobTypeOK, At, PC
<1>2. ASSUME NEW m \in Match
      PROVE row[m].score \in Score \union {NULL} /\ pushed[m].score \in Score \union {NULL}
  BY DEF Typed, Tables
<1> QED BY <1>1, <1>2 DEF Typed, Tables, StakeTyped, TypeOK

(***************************************************************************)
(* Job j comes to r, the other stands still.                               *)
(***************************************************************************)
Comes(j, r) == Fit(r) /\ job' = [job EXCEPT ![j] = r]

LEMMA ComesTyped ==
  ASSUME Jobs, NEW j \in Job, NEW r, Comes(j, r)
  PROVE  /\ Jobs'
         /\ job'[j] = r
         /\ \A i \in Job : i # j => job'[i] = job[i]
<1>1. r \in JobState
  BY DEF Comes, Fit
<1>2. job' \in [Job -> JobState] /\ job'[j] = r /\ \A i \in Job : i # j => job'[i] = job[i]
  BY <1>1 DEF Jobs, Comes
<1>3. \A i \in Job : Fit(job'[i])
  BY <1>2 DEF Jobs, Comes
<1>4. (\A i \in Job : Fit(job[i]))'
  BY <1>3 DEF Fit, JobState, EventSet, BoardOf, Members, Places, PC
<1> QED BY <1>2, <1>4 DEF Jobs, JobState, EventSet, BoardOf, Members, Places, PC

LEMMA IdleFit ==
  /\ Fit(Idle) /\ Idle.pc = "idle"
  /\ Idle \in JobState
BY DEF Idle, JobState, Fit, PC

LEMMA AfterFit ==
  ASSUME NEW j \in Job
  PROVE  /\ Fit(After(j))
         /\ \/ After(j).pc = "idle"
            \/ After(j).pc = "tenants" /\ After(j).kind = "ranks"
         /\ After(j).sent = {} /\ After(j).events = {}
BY DEF After, Idle, JobState, Fit, PC

LEMMA NextSpaceFit ==
  ASSUME NEW j \in Job, Fit(job[j])
  PROVE  /\ Fit(NextSpace(j))
         /\ \/ NextSpace(j) = After(j) /\ job[j].spaces = {}
            \/ /\ NextSpace(j).pc = "space" /\ NextSpace(j).kind = job[j].kind
               /\ NextSpace(j).spaces = job[j].spaces /\ NextSpace(j).events = job[j].events
<1>1. CASE job[j].spaces = {}
  BY <1>1, AfterFit DEF NextSpace
<1>2. CASE job[j].spaces # {}
  <2> DEFINE r == [job[j] EXCEPT !.pc = "space", !.space = NULL, !.todo = {}, !.ranks = NULL, !.sent = {}]
  <2>1. NextSpace(j) = r
    BY <1>2 DEF NextSpace
  <2>2. /\ r \in JobState /\ r.pc = "space" /\ r.kind = job[j].kind
        /\ r.spaces = job[j].spaces /\ r.events = job[j].events
    BY DEF Fit, JobState, PC
  <2>3. Fit(r)
    BY <2>2 DEF Fit
  <2> QED BY <2>1, <2>2, <2>3
<1> QED BY <1>1, <1>2

-----------------------------------------------------------------------------
(***************************************************************************)
(* Ranks: a player has one, from 1 to the number of players.               *)
(***************************************************************************)
LEMMA RankType ==
  ASSUME Tables, NEW u \in User
  PROVE  Rank(u) \in Places
<1> DEFINE before == {v \in Members(SpaceOf[u]) : Ahead(v, u)}
<1>1. before \subseteq User \ {u}
  <2>1. standing[u] \in [points : Nat, exact : Nat, settled : Nat] /\ Joined[u] \in Nat
    BY BoardAssumption DEF Tables
  <2>2. ~ Ahead(u, u)
    BY <2>1 DEF Ahead
  <2> QED BY <2>2 DEF Members
<1>2. IsFiniteSet(User \ {u}) /\ Cardinality(User \ {u}) = Cardinality(User) - 1 /\ Cardinality(User) \in Nat
  BY BoardAssumption, FS_RemoveElement, FS_CardinalityType
<1>3. Cardinality(before) <= Cardinality(User) - 1 /\ Cardinality(before) \in Nat
  <2> HIDE DEF before
  <2>1. IsFiniteSet(before) /\ Cardinality(before) <= Cardinality(User \ {u})
    BY <1>1, <1>2, FS_Subset
  <2>2. Cardinality(before) \in Nat
    BY <2>1, FS_CardinalityType
  <2> QED BY <2>1, <2>2, <1>2
<1>4. Rank(u) = 1 + Cardinality(before)
  BY DEF Rank
<1> HIDE DEF before
<1> QED BY <1>2, <1>3, <1>4 DEF Places

-----------------------------------------------------------------------------
(***************************************************************************)
(* What a job owes: a push of the event e to the player u.  Onward is a    *)
(* step of j that reads no match and owes nothing new; what it gives up is *)
(* counted as missed.                                                      *)
(***************************************************************************)
Reading(r) == r.kind = "live" /\ r.pc = "baseline"

Live(r) == r.kind = "live" /\ r.pc \in {"tenants", "space", "push"}

Owes(r, u, e) ==
  /\ r.kind = "live" /\ e \in r.events
  /\ \/ r.pc = "tenants"
     \/ r.pc \in {"space", "push"} /\ SpaceOf[u] \in r.spaces
     \/ r.pc = "push" /\ <<u, e>> \in r.todo

Onward(j) ==
  /\ Comes(j, job'[j])
  /\ ~ Reading(job'[j])
  /\ Live(job'[j]) => Live(job[j]) /\ job'[j].events = job[j].events
  /\ \A u \in User, e \in EventSet :
       /\ Owes(job'[j], u, e) => Owes(job[j], u, e)
       /\ Owes(job[j], u, e) => Owes(job'[j], u, e) \/ <<u, e.match>> \in missed'

\* The ranks a job holds while it alerts; Calm is a step of j that does not.
Alerting(r) == r.kind = "ranks" /\ r.pc = "alert"

Calm(j) ==
  /\ Comes(j, job'[j])
  /\ ~ Alerting(job'[j])
  /\ Alerting(job[j]) => job[j].sent \subseteq blurred'

LEMMA OnwardWith ==
  ASSUME Jobs, NEW j \in Job, NEW r, Comes(j, r), ~ Reading(r),
         Live(r) => Live(job[j]) /\ r.events = job[j].events,
         \A u \in User, e \in EventSet :
           /\ Owes(r, u, e) => Owes(job[j], u, e)
           /\ Owes(job[j], u, e) => Owes(r, u, e) \/ <<u, e.match>> \in missed'
  PROVE  Onward(j)
BY ComesTyped DEF Onward

LEMMA CalmWith ==
  ASSUME Jobs, NEW j \in Job, NEW r, Comes(j, r), ~ Alerting(r),
         Alerting(job[j]) => job[j].sent \subseteq blurred'
  PROVE  Calm(j)
BY ComesTyped DEF Calm

\* A job that is not pushing, before and after.
LEMMA ApartOnward ==
  ASSUME Jobs, NEW j \in Job, NEW r, Comes(j, r), ~ Live(job[j]), ~ Live(r), ~ Reading(r)
  PROVE  Onward(j)
<1>1. \A u \in User, e \in EventSet : ~ Owes(job[j], u, e) /\ ~ Owes(r, u, e)
  BY DEF Owes, Live
<1> QED BY <1>1, OnwardWith

-----------------------------------------------------------------------------
(***************************************************************************)
(* What each action does to its job.                                       *)
(***************************************************************************)
LEMMA LoopSyncMoves ==
  ASSUME Typed, LoopSync
  PROVE  Onward("loop") /\ Calm("loop")
<1> DEFINE r == [Idle EXCEPT !.pc = "sync"]
<1>1. r \in JobState /\ r.pc = "sync" /\ r.events = {} /\ r.sent = {}
  BY DEF Idle, JobState, PC
<1>2. job' = [job EXCEPT !["loop"] = r] /\ job["loop"].pc = "idle"
  BY IdleFit DEF LoopSync, Set
<1> HIDE DEF r
<1>3. Comes("loop", r)
  BY <1>1, <1>2 DEF Comes, Fit
<1>4. ~ Live(r) /\ ~ Reading(r) /\ ~ Alerting(r) /\ ~ Live(job["loop"]) /\ ~ Alerting(job["loop"])
  BY <1>1, <1>2 DEF Live, Reading, Alerting
<1> QED BY <1>3, <1>4, ApartOnward, CalmWith DEF Typed, Job

LEMMA LoopGradesMoves ==
  ASSUME Typed, NEW to \in Standing, LoopGrades(to)
  PROVE  Onward("loop") /\ Calm("loop")
<1> DEFINE r == [Idle EXCEPT !.pc = "scan", !.kind = "live"]
<1>1. r \in JobState /\ r.pc = "scan" /\ r.events = {} /\ r.sent = {}
  BY DEF Idle, JobState, PC
<1>2. job' = [job EXCEPT !["loop"] = r] /\ job["loop"].pc = "sync"
  BY DEF LoopGrades, Set
<1> HIDE DEF r
<1>3. Comes("loop", r)
  BY <1>1, <1>2 DEF Comes, Fit
<1>4. ~ Live(r) /\ ~ Reading(r) /\ ~ Alerting(r) /\ ~ Live(job["loop"]) /\ ~ Alerting(job["loop"])
  BY <1>1, <1>2 DEF Live, Reading, Alerting
<1> QED BY <1>3, <1>4, ApartOnward, CalmWith DEF Typed, Job

LEMMA StartLiveMoves ==
  ASSUME Typed, StartLive
  PROVE  Onward("manual") /\ Calm("manual")
<1> DEFINE r == [Idle EXCEPT !.pc = "scan", !.kind = "live"]
<1>1. r \in JobState /\ r.pc = "scan" /\ r.events = {} /\ r.sent = {}
  BY DEF Idle, JobState, PC
<1>2. job' = [job EXCEPT !["manual"] = r] /\ job["manual"].pc = "idle"
  BY IdleFit DEF StartLive, Set
<1> HIDE DEF r
<1>3. Comes("manual", r)
  BY <1>1, <1>2 DEF Comes, Fit
<1>4. ~ Live(r) /\ ~ Reading(r) /\ ~ Alerting(r) /\ ~ Live(job["manual"]) /\ ~ Alerting(job["manual"])
  BY <1>1, <1>2 DEF Live, Reading, Alerting
<1> QED BY <1>3, <1>4, ApartOnward, CalmWith DEF Typed, Job

LEMMA StartRanksMoves ==
  ASSUME Typed, StartRanks
  PROVE  Onward("manual") /\ Calm("manual")
<1> DEFINE r == [Idle EXCEPT !.pc = "tenants", !.kind = "ranks"]
<1>1. r \in JobState /\ r.pc = "tenants" /\ r.kind = "ranks" /\ r.events = {} /\ r.sent = {}
  BY DEF Idle, JobState, PC
<1>2. job' = [job EXCEPT !["manual"] = r] /\ job["manual"].pc = "idle"
  BY IdleFit DEF StartRanks, Set
<1> HIDE DEF r
<1>3. Comes("manual", r)
  BY <1>1, <1>2 DEF Comes, Fit
<1>4. ~ Live(r) /\ ~ Reading(r) /\ ~ Alerting(r) /\ ~ Live(job["manual"]) /\ ~ Alerting(job["manual"])
  BY <1>1, <1>2 DEF Live, Reading, Alerting
<1> QED BY <1>3, <1>4, ApartOnward, CalmWith DEF Typed, Job

LEMMA EventType ==
  ASSUME Tables, NEW m \in Match
  PROVE  Event(m) \in EventSet /\ Event(m).match = m /\ Event(m).version = version[m]
<1>1. /\ row[m].score \in Score \union {NULL} /\ version[m] \in Nat
  BY DEF Tables
<1>2. IsFinal(pushed[m], row[m]) \in BOOLEAN
  BY DEF IsFinal
<1> QED BY <1>1, <1>2 DEF Event, EventSet

\* A job that finds something worth looking at has read it, with an event per match at most.
Worthwhile == {m \in Candidates : WorthAPush(pushed[m], row[m])}

LEMMA ScanMoves ==
  ASSUME Typed, NEW j \in Job, Scan(j)
  PROVE  /\ Comes(j, job'[j]) /\ Calm(j)
         /\ \/ Onward(j)
            \/ /\ Reading(job'[j])
               /\ job'[j].seen = {<<m, version[m]>> : m \in Candidates}
               /\ job'[j].events = {Event(m) : m \in Worthwhile}
         /\ ~ Live(job[j]) /\ ~ Live(job'[j])
<1>1. Fit(job[j]) /\ job[j] \in JobState /\ job[j].pc = "scan" /\ job[j].kind = "live"
  BY DEF Typed, Jobs, Scan, At
<1>2. ~ Live(job[j]) /\ ~ Alerting(job[j])
  BY <1>1 DEF Live, Alerting
<1>3. CASE Candidates = {}
  <2>1. Comes(j, After(j))
    BY <1>3, AfterFit DEF Scan, Set, Comes
  <2>2. ~ Live(After(j)) /\ ~ Reading(After(j)) /\ ~ Alerting(After(j))
    BY AfterFit DEF Live, Reading, Alerting
  <2> QED BY <2>1, <2>2, <1>2, ApartOnward, CalmWith, ComesTyped DEF Typed
<1>4. CASE Candidates # {}
  <2> DEFINE seen == {<<m, version[m]>> : m \in Candidates}
             events == {Event(m) : m \in Worthwhile}
             r == [job[j] EXCEPT !.pc = "baseline", !.seen = seen, !.events = events]
  <2>1. job' = [job EXCEPT ![j] = r]
    BY <1>4 DEF Scan, Set, Worthwhile
  <2>2. Candidates \subseteq Match /\ Worthwhile \subseteq Candidates
    BY DEF Candidates, Worthwhile
  <2>3. seen \subseteq Match \X Nat /\ events \subseteq EventSet
    BY <2>2, EventType DEF Typed, Tables
  <2>4. \A e \in events : <<e.match, e.version>> \in seen
    BY <2>2, EventType DEF Typed
  <2>5. \A e, f \in events : e.match = f.match => e = f
    BY <2>2, EventType DEF Typed
  <2> HIDE DEF seen, events
  <2>6. /\ r \in JobState /\ r.pc = "baseline" /\ r.kind = "live" /\ r.seen = seen
        /\ r.events = events /\ r.sent = {}
    BY <1>1, <2>3 DEF JobState, PC, Fit
  <2> HIDE DEF r
  <2>7. Comes(j, r)
    BY <2>1, <2>4, <2>5, <2>6 DEF Comes, Fit
  <2>8. Reading(r) /\ ~ Live(r) /\ ~ Alerting(r)
    BY <2>6 DEF Reading, Live, Alerting
  <2>9. job'[j] = r
    BY <2>7, ComesTyped DEF Typed
  <2> QED BY <1>2, <2>6, <2>7, <2>8, <2>9, CalmWith DEF seen, events, Typed
<1> QED BY <1>3, <1>4

LEMMA BaselineMoves ==
  ASSUME Typed, NEW j \in Job, Baseline(j)
  PROVE  /\ Comes(j, job'[j]) /\ Calm(j)
         /\ Reading(job[j]) /\ ~ Reading(job'[j]) /\ ~ Live(job[j])
         /\ IF job[j].events = {} THEN ~ Live(job'[j])
            ELSE Live(job'[j]) /\ job'[j].pc = "tenants" /\ job'[j].events = job[j].events
<1>1. Fit(job[j]) /\ job[j] \in JobState /\ job[j].pc = "baseline" /\ job[j].kind = "live"
  BY DEF Typed, Jobs, Baseline, At
<1>2. Reading(job[j]) /\ ~ Live(job[j]) /\ ~ Alerting(job[j])
  BY <1>1 DEF Live, Reading, Alerting
<1>3. CASE job[j].events = {}
  <2>1. Comes(j, After(j))
    BY <1>3, AfterFit DEF Baseline, Set, Comes
  <2>2. ~ Live(After(j)) /\ ~ Reading(After(j)) /\ ~ Alerting(After(j))
    BY AfterFit DEF Live, Reading, Alerting
  <2> QED BY <2>1, <2>2, <1>2, <1>3, CalmWith, ComesTyped DEF Typed
<1>4. CASE job[j].events # {}
  <2> DEFINE r == [job[j] EXCEPT !.pc = "tenants", !.seen = {}]
  <2>1. job' = [job EXCEPT ![j] = r]
    BY <1>4 DEF Baseline, Set
  <2>2. /\ r \in JobState /\ r.pc = "tenants" /\ r.kind = "live" /\ r.events = job[j].events
        /\ r.sent = {}
    BY <1>1 DEF JobState, PC, Fit
  <2> HIDE DEF r
  <2>3. Comes(j, r)
    BY <1>1, <2>1, <2>2 DEF Comes, Fit
  <2>4. Live(r) /\ ~ Reading(r) /\ ~ Alerting(r)
    BY <2>2 DEF Live, Reading, Alerting
  <2>5. job'[j] = r
    BY <2>3, ComesTyped DEF Typed
  <2> QED BY <1>2, <1>4, <2>2, <2>3, <2>4, <2>5, CalmWith DEF Typed
<1> QED BY <1>3, <1>4

LEMMA LoadTenantsMoves ==
  ASSUME Typed, NEW j \in Job, LoadTenants(j)
  PROVE  Onward(j) /\ Calm(j)
<1> DEFINE r == [job[j] EXCEPT !.pc = "space", !.spaces = Space]
<1>1. Fit(job[j]) /\ job[j] \in JobState /\ job[j].pc = "tenants"
  BY DEF Typed, Jobs, LoadTenants
<1>2. /\ r \in JobState /\ r.pc = "space" /\ r.kind = job[j].kind /\ r.spaces = Space
      /\ r.events = job[j].events /\ r.sent = {}
  BY <1>1 DEF JobState, PC, Fit
<1>3. job' = [job EXCEPT ![j] = r]
  BY DEF LoadTenants, Set
<1> HIDE DEF r
<1>4. Comes(j, r)
  BY <1>1, <1>2, <1>3 DEF Comes, Fit
<1>5. ~ Reading(r) /\ ~ Alerting(r) /\ ~ Alerting(job[j]) /\ (Live(r) => Live(job[j]))
  BY <1>1, <1>2 DEF Reading, Alerting, Live
<1>6. ASSUME NEW u \in User, NEW e \in EventSet
      PROVE  Owes(r, u, e) <=> Owes(job[j], u, e)
  BY <1>1, <1>2, BoardAssumption DEF Owes
<1> QED BY <1>2, <1>4, <1>5, <1>6, OnwardWith, CalmWith DEF Typed

LEMMA ReadRecipientsMoves ==
  ASSUME Typed, NEW j \in Job, NEW s \in Space, ReadRecipients(j, s)
  PROVE  Onward(j) /\ Calm(j)
<1> DEFINE todo == Recipients(s) \X job[j].events
           r == [job[j] EXCEPT !.pc = "push", !.space = s, !.spaces = @ \ {s}, !.todo = todo]
<1>1. /\ Fit(job[j]) /\ job[j] \in JobState /\ job[j].pc = "space" /\ job[j].kind = "live"
      /\ s \in job[j].spaces /\ job[j].events \subseteq EventSet
  BY DEF Typed, Jobs, ReadRecipients, At, JobState
<1>2. Recipients(s) \subseteq Members(s) /\ Members(s) \subseteq User
  BY DEF Recipients, Members
<1>3. todo \subseteq (User \X EventSet)
  BY <1>1, <1>2
<1>4. job' = [job EXCEPT ![j] = r]
  BY DEF ReadRecipients, Set
<1>5. /\ r \in JobState /\ r.pc = "push" /\ r.kind = "live" /\ r.space = s
      /\ r.spaces = job[j].spaces \ {s} /\ r.todo = todo /\ r.events = job[j].events
      /\ r.sent = {}
  <2>1. job[j].sent = {}
    BY <1>1 DEF Fit
  <2> HIDE DEF todo
  <2> QED BY <1>1, <1>3, <2>1 DEF JobState, PC
<1> HIDE DEF r
<1>6. Comes(j, r)
  BY <1>1, <1>2, <1>4, <1>5 DEF Comes, Fit
<1>7. ~ Reading(r) /\ ~ Alerting(r) /\ ~ Alerting(job[j]) /\ Live(job[j])
  BY <1>1, <1>5 DEF Reading, Alerting, Live
<1>8. ASSUME NEW u \in User, NEW e \in EventSet, Owes(r, u, e)
      PROVE  Owes(job[j], u, e)
  <2>1. e \in job[j].events
    BY <1>8, <1>5 DEF Owes
  <2>2. SpaceOf[u] \in job[j].spaces \/ u \in Members(s)
    BY <1>8, <1>5, <1>2 DEF Owes
  <2> QED BY <2>1, <2>2, <1>1 DEF Owes, Members
<1>9. ASSUME NEW u \in User, NEW e \in EventSet, Owes(job[j], u, e)
      PROVE  Owes(r, u, e) \/ <<u, e.match>> \in missed'
  <2>1. e \in job[j].events /\ SpaceOf[u] \in job[j].spaces
    BY <1>9, <1>1 DEF Owes
  <2>2. CASE SpaceOf[u] # s
    BY <2>1, <2>2, <1>5 DEF Owes
  <2>3. CASE SpaceOf[u] = s /\ u \in wants
    BY <2>1, <2>3, <1>5 DEF Owes, Recipients, Members
  <2>4. CASE SpaceOf[u] = s /\ u \notin wants
    BY <2>1, <2>4 DEF ReadRecipients, Members
  <2> QED BY <2>2, <2>3, <2>4
<1> QED BY <1>5, <1>6, <1>7, <1>8, <1>9, OnwardWith, CalmWith DEF Typed

LEMMA PushMoves ==
  ASSUME Typed, NEW j \in Job, NEW u \in User, NEW e \in EventSet, NEW lost, Push(j, u, e, lost)
  PROVE  /\ Comes(j, job'[j]) /\ Calm(j) /\ ~ Reading(job'[j])
         /\ Live(job[j]) /\ Live(job'[j]) /\ job'[j].events = job[j].events
         /\ Owes(job[j], u, e)
         /\ \A v \in User, f \in EventSet :
              Owes(job'[j], v, f) <=> Owes(job[j], v, f) /\ <<v, f>> # <<u, e>>
<1> DEFINE todo == job[j].todo \ {<<u, e>>}
           r == [job[j] EXCEPT !.todo = todo]
<1>1. /\ Fit(job[j]) /\ job[j] \in JobState /\ job[j].pc = "push" /\ job[j].kind = "live"
      /\ <<u, e>> \in job[j].todo /\ job[j].space \notin job[j].spaces
      /\ job[j].todo \subseteq (Members(job[j].space) \X job[j].events)
  BY DEF Typed, Jobs, Push, At, Fit
<1>2. job' = [job EXCEPT ![j] = r]
  BY DEF Push, Set
<1>3. todo \subseteq job[j].todo
  OBVIOUS
<1>4. /\ r \in JobState /\ r.pc = "push" /\ r.kind = "live" /\ r.space = job[j].space
      /\ r.spaces = job[j].spaces /\ r.todo = todo /\ r.events = job[j].events
      /\ r.sent = {}
  <2>1. job[j].sent = {}
    BY <1>1 DEF Fit
  <2> HIDE DEF todo
  <2> QED BY <1>1, <1>3, <2>1 DEF JobState, PC
<1> HIDE DEF r
<1>5. Comes(j, r)
  <2> HIDE DEF todo
  <2> QED BY <1>1, <1>2, <1>3, <1>4 DEF Comes, Fit
<1>6. ~ Reading(r) /\ ~ Alerting(r) /\ ~ Alerting(job[j]) /\ Live(job[j]) /\ Live(r)
  BY <1>1, <1>4 DEF Reading, Alerting, Live
<1>7. job'[j] = r
  BY <1>5, ComesTyped DEF Typed
<1>8. e \in job[j].events /\ u \in Members(job[j].space)
  BY <1>1
<1>9. Owes(job[j], u, e) /\ SpaceOf[u] \notin job[j].spaces
  BY <1>1, <1>8 DEF Owes, Members
<1>10. ASSUME NEW v \in User, NEW f \in EventSet
       PROVE  Owes(r, v, f) <=> Owes(job[j], v, f) /\ <<v, f>> # <<u, e>>
  BY <1>1, <1>4, <1>9 DEF Owes
<1> QED BY <1>4, <1>5, <1>6, <1>7, <1>9, <1>10, CalmWith DEF Typed

\* On to the next space, with nothing left to do in this one.
LEMMA NextSpaceMoves ==
  ASSUME Typed, NEW j \in Job, Comes(j, NextSpace(j)),
         \/ job[j].pc = "push" /\ job[j].todo = {}
         \/ job[j].kind = "ranks" /\ (Alerting(job[j]) => job[j].sent \subseteq blurred')
  PROVE  Onward(j) /\ Calm(j)
<1> DEFINE r == NextSpace(j)
<1>1. Fit(job[j])
  BY DEF Typed, Jobs
<1>2. CASE r = After(j) /\ job[j].spaces = {}
  <2>1. ~ Reading(r) /\ ~ Live(r) /\ ~ Alerting(r)
    BY <1>2, AfterFit DEF Reading, Live, Alerting
  <2>2. Alerting(job[j]) => job[j].sent \subseteq blurred'
    BY <1>1 DEF Alerting, Fit
  <2>3. \A u \in User, e \in EventSet : ~ Owes(job[j], u, e) /\ ~ Owes(r, u, e)
    <3>1. \A u \in User, e \in EventSet : ~ Owes(job[j], u, e)
      BY <1>2, <1>1 DEF Owes, Fit
    <3>2. \A u \in User, e \in EventSet : ~ Owes(r, u, e)
      BY <2>1 DEF Owes, Live
    <3> QED BY <3>1, <3>2
  <2> HIDE DEF r
  <2> QED BY <2>1, <2>2, <2>3, OnwardWith, CalmWith DEF r, Typed
<1>3. CASE /\ r.pc = "space" /\ r.kind = job[j].kind
           /\ r.spaces = job[j].spaces /\ r.events = job[j].events
  <2>1. ~ Reading(r) /\ ~ Alerting(r)
    BY <1>3 DEF Reading, Alerting
  <2>2. Alerting(job[j]) => job[j].sent \subseteq blurred'
    BY <1>1 DEF Alerting, Fit
  <2>3. Live(r) => Live(job[j]) /\ r.events = job[j].events
    BY <1>1, <1>3 DEF Live, Fit
  <2>4. \A u \in User, e \in EventSet : Owes(r, u, e) <=> Owes(job[j], u, e)
    BY <1>1, <1>3 DEF Owes, Fit
  <2> HIDE DEF r
  <2> QED BY <2>1, <2>2, <2>3, <2>4, OnwardWith, CalmWith DEF r, Typed
<1> QED BY <1>1, <1>2, <1>3, NextSpaceFit

LEMMA PushedMoves ==
  ASSUME Typed, NEW j \in Job, Pushed(j)
  PROVE  Onward(j) /\ Calm(j)
<1>1. Fit(job[j]) /\ job[j].pc = "push" /\ job[j].todo = {}
  BY DEF Typed, Jobs, Pushed, At
<1>2. Comes(j, NextSpace(j))
  BY <1>1, NextSpaceFit DEF Comes, Pushed, Set
<1> QED BY <1>1, <1>2, NextSpaceMoves

LEMMA ReadStandingsMoves ==
  ASSUME Typed, NEW j \in Job, NEW s \in Space, ReadStandings(j, s)
  PROVE  Onward(j) /\ Calm(j)
<1> DEFINE ranks == [u \in Members(s) |-> [rank |-> Rank(u), points |-> standing[u].points]]
           spaces == job[j].spaces \ {s}
           on == [job[j] EXCEPT !.pc = "prefs", !.space = s, !.spaces = @ \ {s}, !.ranks = ranks]
           off == [job[j] EXCEPT !.spaces = spaces]
<1>1. Fit(job[j]) /\ job[j] \in JobState /\ job[j].pc = "space" /\ job[j].kind = "ranks" /\ job[j].sent = {}
  BY DEF Typed, Jobs, ReadStandings, At, Fit
<1>2. ~ Live(job[j]) /\ ~ Alerting(job[j])
  BY <1>1 DEF Live, Alerting
<1>3. ranks \in BoardOf(s)
  <2>1. \A u \in Members(s) : u \in User /\ Rank(u) \in Places /\ standing[u].points \in Nat
    BY RankType DEF Typed, Tables, Members
  <2> QED BY <2>1 DEF BoardOf
<1>4. on.spaces = spaces
  <2> HIDE DEF ranks
  <2> QED BY <1>1 DEF JobState
<1>5. job' = [job EXCEPT ![j] = IF Members(s) # {} THEN on
                                ELSE IF spaces = {} THEN After(j) ELSE off]
  BY <1>4 DEF ReadStandings, Set
<1>6. CASE Members(s) # {}
  <2> HIDE DEF ranks
  <2>1. /\ on \in JobState /\ on.pc = "prefs" /\ on.kind = "ranks" /\ on.space = s
        /\ on.ranks = ranks /\ on.sent = {} /\ on.events = job[j].events
    BY <1>1, <1>3 DEF JobState, PC
  <2>2. job' = [job EXCEPT ![j] = on]
    BY <1>5, <1>6
  <2> HIDE DEF on
  <2>3. Comes(j, on)
    BY <1>1, <1>3, <2>1, <2>2 DEF Comes, Fit
  <2>4. ~ Live(on) /\ ~ Reading(on) /\ ~ Alerting(on)
    BY <2>1 DEF Live, Reading, Alerting
  <2> QED BY <1>2, <2>3, <2>4, ApartOnward, CalmWith DEF Typed
<1>7. CASE Members(s) = {} /\ spaces = {}
  <2>1. Comes(j, After(j))
    BY <1>5, <1>7, AfterFit DEF Comes
  <2>2. ~ Live(After(j)) /\ ~ Reading(After(j)) /\ ~ Alerting(After(j))
    BY AfterFit DEF Live, Reading, Alerting
  <2> QED BY <1>2, <2>1, <2>2, ApartOnward, CalmWith DEF Typed
<1>8. CASE Members(s) = {} /\ spaces # {}
  <2>1. /\ off \in JobState /\ off.pc = "space" /\ off.kind = "ranks"
        /\ off.sent = {} /\ off.events = job[j].events
    BY <1>1 DEF JobState, PC
  <2>2. job' = [job EXCEPT ![j] = off]
    BY <1>5, <1>8
  <2> HIDE DEF off
  <2>3. Comes(j, off)
    BY <1>1, <2>1, <2>2 DEF Comes, Fit
  <2>4. ~ Live(off) /\ ~ Reading(off) /\ ~ Alerting(off)
    BY <2>1 DEF Live, Reading, Alerting
  <2> QED BY <1>2, <2>3, <2>4, ApartOnward, CalmWith DEF Typed
<1> QED BY <1>6, <1>7, <1>8

LEMMA ReadPrefsMoves ==
  ASSUME Typed, NEW j \in Job, ReadPrefs(j)
  PROVE  /\ Onward(j) /\ Comes(j, job'[j]) /\ Alerting(job'[j])
         /\ ~ Alerting(job[j]) /\ job[j].space \in Space /\ job[j].ranks \in BoardOf(job[j].space)
         /\ job'[j].space = job[j].space /\ job'[j].ranks = job[j].ranks
         /\ job'[j].todo = Climbers(j) /\ job'[j].sent = {}
<1> DEFINE r == [job[j] EXCEPT !.pc = "alert", !.todo = Climbers(j)]
<1>1. /\ Fit(job[j]) /\ job[j] \in JobState /\ job[j].pc = "prefs" /\ job[j].kind = "ranks"
      /\ job[j].sent = {}
  BY DEF Typed, Jobs, ReadPrefs, At, Fit
<1>2. Climbers(j) \subseteq Members(job[j].space) /\ Members(job[j].space) \subseteq User
  BY DEF Climbers, Members
<1>3. job' = [job EXCEPT ![j] = r]
  BY DEF ReadPrefs, Set
<1>4. /\ r \in JobState /\ r.pc = "alert" /\ r.kind = "ranks" /\ r.space = job[j].space
      /\ r.ranks = job[j].ranks /\ r.sent = {} /\ r.todo = Climbers(j) /\ r.events = job[j].events
  BY <1>1, <1>2 DEF JobState, PC
<1> HIDE DEF r
<1>5. Comes(j, r)
  BY <1>1, <1>2, <1>3, <1>4 DEF Comes, Fit
<1>6. ~ Live(r) /\ ~ Reading(r) /\ Alerting(r) /\ ~ Live(job[j]) /\ ~ Alerting(job[j])
  BY <1>1, <1>4 DEF Live, Reading, Alerting
<1>7. job'[j] = r
  BY <1>5, ComesTyped DEF Typed
<1>8. job[j].space \in Space /\ job[j].ranks \in BoardOf(job[j].space)
  BY <1>1 DEF Fit
<1> QED BY <1>4, <1>5, <1>6, <1>7, <1>8, ApartOnward DEF Typed

LEMMA AlertMoves ==
  ASSUME Typed, NEW j \in Job, NEW u \in User, NEW lost, Alert(j, u, lost)
  PROVE  /\ Onward(j) /\ Comes(j, job'[j]) /\ Alerting(job'[j]) /\ Alerting(job[j])
         /\ u \in job[j].todo /\ job[j].space \in Space /\ job[j].ranks \in BoardOf(job[j].space)
         /\ job[j].todo \subseteq Members(job[j].space)
         /\ job'[j].space = job[j].space /\ job'[j].ranks = job[j].ranks
         /\ job'[j].todo = job[j].todo \ {u} /\ job'[j].sent = job[j].sent \union {u}
<1> DEFINE todo == job[j].todo \ {u}
           sent == job[j].sent \union {u}
           r == [job[j] EXCEPT !.todo = todo, !.sent = sent]
<1>1. /\ Fit(job[j]) /\ job[j] \in JobState /\ job[j].pc = "alert" /\ job[j].kind = "ranks"
      /\ u \in job[j].todo /\ job[j].todo \subseteq Members(job[j].space)
      /\ job[j].sent \subseteq Members(job[j].space)
  BY DEF Typed, Jobs, Alert, At, Fit
<1>2. /\ todo \subseteq Members(job[j].space) /\ sent \subseteq Members(job[j].space)
      /\ Members(job[j].space) \subseteq User
  BY <1>1 DEF Members
<1>3. job' = [job EXCEPT ![j] = r]
  BY DEF Alert, Set
<1> HIDE DEF todo, sent
<1>4. /\ r \in JobState /\ r.pc = "alert" /\ r.kind = "ranks" /\ r.space = job[j].space
      /\ r.ranks = job[j].ranks /\ r.sent = sent /\ r.todo = todo /\ r.events = job[j].events
  BY <1>1, <1>2 DEF JobState, PC
<1> HIDE DEF r
<1>5. Comes(j, r)
  BY <1>1, <1>2, <1>3, <1>4 DEF Comes, Fit
<1>6. ~ Live(r) /\ ~ Reading(r) /\ Alerting(r) /\ ~ Live(job[j]) /\ Alerting(job[j])
  BY <1>1, <1>4 DEF Live, Reading, Alerting
<1>7. job'[j] = r
  BY <1>5, ComesTyped DEF Typed
<1>8. job[j].space \in Space /\ job[j].ranks \in BoardOf(job[j].space)
  BY <1>1 DEF Fit
<1> QED BY <1>1, <1>4, <1>5, <1>6, <1>7, <1>8, ApartOnward DEF Typed, todo, sent

LEMMA RebaseMoves ==
  ASSUME Typed, NEW j \in Job, Rebase(j)
  PROVE  /\ Onward(j) /\ Comes(j, job'[j]) /\ ~ Alerting(job'[j]) /\ Alerting(job[j])
         /\ job[j].space \in Space /\ job[j].ranks \in BoardOf(job[j].space)
<1>1. /\ Fit(job[j]) /\ job[j].pc = "alert" /\ job[j].kind = "ranks"
      /\ job[j].space \in Space /\ job[j].ranks \in BoardOf(job[j].space)
  BY DEF Typed, Jobs, Rebase, At, Fit
<1>2. Comes(j, NextSpace(j))
  BY <1>1, NextSpaceFit DEF Comes, Rebase, Set
<1>3. ~ Live(NextSpace(j)) /\ ~ Reading(NextSpace(j)) /\ ~ Alerting(NextSpace(j))
  BY <1>1, NextSpaceFit, AfterFit DEF Live, Reading, Alerting
<1>4. ~ Live(job[j]) /\ Alerting(job[j])
  BY <1>1 DEF Live, Alerting
<1>5. job'[j] = NextSpace(j)
  BY <1>2, ComesTyped DEF Typed
<1> QED BY <1>1, <1>2, <1>3, <1>4, <1>5, ApartOnward DEF Typed

\* Pending names the pairs of a player and a match that a job owes.
LEMMA OwedIsPending ==
  ASSUME Typed, NEW j \in Job, NEW u \in User, NEW e \in EventSet, Owes(job[j], u, e)
  PROVE  <<u, e.match>> \in Pending(j)
<1>1. Fit(job[j]) /\ job[j].kind = "live" /\ e \in job[j].events
  BY DEF Typed, Jobs, Owes
<1>2. CASE job[j].pc = "tenants"
  BY <1>1, <1>2 DEF Pending
<1>3. CASE job[j].pc \in {"space", "push"} /\ SpaceOf[u] \in job[j].spaces
  <2>1. <<u, e.match>> \in ({v \in User : SpaceOf[v] \in job[j].spaces} \X {f.match : f \in job[j].events})
    BY <1>1, <1>3
  <2> QED BY <1>1, <1>3, <2>1 DEF Pending
<1>4. CASE job[j].pc = "push" /\ <<u, e>> \in job[j].todo
  <2>1. <<u, e.match>> \in {<<t[1], t[2].match>> : t \in job[j].todo}
    BY <1>4
  <2> QED BY <1>1, <1>4, <2>1 DEF Pending
<1> QED BY <1>2, <1>3, <1>4 DEF Owes

LEMMA JobFailsMoves ==
  ASSUME Typed, NEW j \in Job, JobFails(j)
  PROVE  Onward(j) /\ Calm(j)
<1>1. Comes(j, After(j))
  BY AfterFit DEF Comes, JobFails, Set
<1>2. ~ Live(After(j)) /\ ~ Reading(After(j)) /\ ~ Alerting(After(j)) /\ ~ Alerting(job[j])
  BY AfterFit DEF Live, Reading, Alerting, JobFails
<1>3. ASSUME NEW u \in User, NEW e \in EventSet
      PROVE  ~ Owes(After(j), u, e) /\ (Owes(job[j], u, e) => <<u, e.match>> \in missed')
  <2>1. ~ Owes(After(j), u, e)
    BY <1>2 DEF Owes, Live
  <2>2. Owes(job[j], u, e) => <<u, e.match>> \in missed'
    BY OwedIsPending DEF JobFails
  <2> QED BY <2>1, <2>2
<1> QED BY <1>1, <1>2, <1>3, OnwardWith, CalmWith DEF Typed

LEMMA CrashMoves ==
  ASSUME Typed, NEW j \in Job, Crash(j)
  PROVE  Onward(j) /\ Calm(j)
<1>1. Comes(j, Idle)
  BY IdleFit DEF Comes, Crash, Set
<1>2. ~ Live(Idle) /\ ~ Reading(Idle) /\ ~ Alerting(Idle) /\ job[j].sent \subseteq blurred'
  BY IdleFit DEF Live, Reading, Alerting, Crash
<1>3. ASSUME NEW u \in User, NEW e \in EventSet
      PROVE  ~ Owes(Idle, u, e) /\ (Owes(job[j], u, e) => <<u, e.match>> \in missed')
  <2>1. ~ Owes(Idle, u, e)
    BY <1>2 DEF Owes, Live
  <2>2. Owes(job[j], u, e) => <<u, e.match>> \in missed'
    BY OwedIsPending DEF Crash
  <2> QED BY <2>1, <2>2
<1> QED BY <1>1, <1>2, <1>3, OnwardWith, CalmWith DEF Typed

LEMMA SpacePassedMoves ==
  ASSUME Typed, NEW j \in Job, NEW s \in job[j].spaces, job[j].pc = "space",
         Set(j, IF job[j].spaces = {s} THEN After(j) ELSE [job[j] EXCEPT !.spaces = @ \ {s}]),
         missed' = missed \union
           (IF job[j].kind = "live" THEN Members(s) \X {e.match : e \in job[j].events} ELSE {})
  PROVE  Onward(j) /\ Calm(j)
<1> DEFINE spaces == job[j].spaces \ {s}
           r == [job[j] EXCEPT !.spaces = spaces]
<1>1. Fit(job[j]) /\ job[j] \in JobState /\ job[j].sent = {} /\ ~ Alerting(job[j])
  BY DEF Typed, Jobs, Fit, Alerting
<1>2. ASSUME NEW u \in User, NEW e \in EventSet, Owes(job[j], u, e), SpaceOf[u] = s
      PROVE  <<u, e.match>> \in missed'
  BY <1>2 DEF Owes, Members
<1>3. CASE job[j].spaces = {s}
  <2>1. Comes(j, After(j))
    BY <1>3, AfterFit DEF Comes, Set
  <2>2. ~ Live(After(j)) /\ ~ Reading(After(j)) /\ ~ Alerting(After(j))
    BY AfterFit DEF Live, Reading, Alerting
  <2>3. \A u \in User, e \in EventSet : ~ Owes(After(j), u, e)
    BY <2>2 DEF Owes, Live
  <2>4. \A u \in User, e \in EventSet : Owes(job[j], u, e) => SpaceOf[u] = s
    BY <1>3 DEF Owes
  <2> QED BY <1>1, <1>2, <2>1, <2>2, <2>3, <2>4, OnwardWith, CalmWith DEF Typed
<1>4. CASE job[j].spaces # {s}
  <2>1. job' = [job EXCEPT ![j] = r]
    BY <1>4 DEF Set
  <2>2. /\ r \in JobState /\ r.pc = "space" /\ r.kind = job[j].kind /\ r.spaces = spaces
        /\ r.events = job[j].events /\ r.sent = {}
    BY <1>1 DEF JobState, PC
  <2> HIDE DEF r
  <2>3. Comes(j, r)
    BY <1>1, <2>1, <2>2 DEF Comes, Fit
  <2>4. ~ Reading(r) /\ ~ Alerting(r) /\ (Live(r) => Live(job[j]))
    BY <2>2 DEF Reading, Alerting, Live
  <2>5. ASSUME NEW u \in User, NEW e \in EventSet
        PROVE  /\ Owes(r, u, e) => Owes(job[j], u, e)
               /\ Owes(job[j], u, e) => Owes(r, u, e) \/ SpaceOf[u] = s
    BY <2>2 DEF Owes
  <2> QED BY <1>1, <1>2, <2>2, <2>3, <2>4, <2>5, OnwardWith, CalmWith DEF Typed
<1> QED BY <1>3, <1>4

LEMMA TenantFailsMoves ==
  ASSUME Typed, NEW j \in Job, TenantFails(j)
  PROVE  Onward(j) /\ Calm(j)
<1>1. CASE \E s \in job[j].spaces :
             /\ job[j].pc = "space"
             /\ Set(j, IF job[j].spaces = {s} THEN After(j) ELSE [job[j] EXCEPT !.spaces = @ \ {s}])
             /\ missed' = missed \union
                  (IF job[j].kind = "live" THEN Members(s) \X {e.match : e \in job[j].events} ELSE {})
  BY <1>1, SpacePassedMoves
<1>2. CASE /\ job[j].pc = "prefs" \/ (At(j, "ranks", "alert") /\ job[j].todo = {})
           /\ Set(j, NextSpace(j))
           /\ blurred' = blurred \union job[j].sent
  <2>1. Fit(job[j])
    BY DEF Typed, Jobs
  <2>2. Comes(j, NextSpace(j)) /\ job[j].kind = "ranks"
    BY <1>2, <2>1, NextSpaceFit DEF Comes, Set, At, Fit
  <2> QED BY <1>2, <2>2, NextSpaceMoves
<1> QED BY <1>1, <1>2 DEF TenantFails

-----------------------------------------------------------------------------
(***************************************************************************)
(* The kinds of steps.  What the invariants need to know of an action is   *)
(* which of these it is.                                                   *)
(***************************************************************************)
\* The feed stores a match.
Stores ==
  /\ \E m \in Match, new \in Stored : Store(m, new)
  /\ UNCHANGED job

\* Neither the jobs nor what they wrote change.
Aside == UNCHANGED <<row, version, basisVars, scoreGhosts, rankVars, job>>

\* A job goes on without a push or an alert.
Proceeds(j) ==
  /\ Onward(j) /\ Calm(j)
  /\ missed \subseteq missed' /\ blurred \subseteq blurred'
  /\ UNCHANGED <<row, version, basisVars, known, told, doubled, lastRank, alerted, fell>>

Kinds ==
  \/ Aside
  \/ Stores
  \/ \E j \in Job :
       \/ Proceeds(j) \/ Scan(j) \/ Baseline(j) \/ ReadPrefs(j) \/ Rebase(j)
       \/ \E u \in User, e \in EventSet, lost \in SUBSET Device : Push(j, u, e, lost)
       \/ \E u \in User, lost \in SUBSET Device : Alert(j, u, lost)

LEMMA StepKinds ==
  ASSUME Typed, [Next]_vars
  PROVE  Kinds
<1>1. CASE Feed
  <2>1. CASE LoopSync
    BY <2>1, LoopSyncMoves DEF Kinds, Proceeds, Job, LoopSync, matchVars, basisVars, scoreGhosts, rankVars
  <2>2. CASE \E m \in Match : Ages(m)
    BY <2>2 DEF Kinds, Aside, Ages
  <2>3. CASE \E m \in Match, new \in Stored : LoopStores(m, new) \/ OtherStores(m, new)
    BY <2>3 DEF Kinds, Stores, LoopStores, OtherStores
  <2>4. CASE \E to \in Standing : LoopGrades(to)
    BY <2>4, LoopGradesMoves DEF Kinds, Proceeds, Job, LoopGrades, matchVars, basisVars, scoreGhosts, rankVars
  <2> QED BY <1>1, <2>1, <2>2, <2>3, <2>4 DEF Feed
<1>2. CASE Devices
  BY <1>2 DEF Kinds, Aside, Devices, Subscribe, Unsubscribe, SetPreference, EndpointDies, matchVars
<1>3. CASE LiveScores
  <2>1. CASE StartLive
    BY <2>1, StartLiveMoves DEF Kinds, Proceeds, Job, StartLive, matchVars, basisVars, scoreGhosts, rankVars
  <2>2. ASSUME NEW j \in Job, Scan(j) \/ Baseline(j) PROVE Kinds
    BY <2>2 DEF Kinds
  <2>3. ASSUME NEW j \in Job, LoadTenants(j) PROVE Kinds
    BY <2>3, LoadTenantsMoves DEF Kinds, Proceeds, LoadTenants, matchVars, basisVars, scoreGhosts, rankVars
  <2>4. ASSUME NEW j \in Job, Pushed(j) PROVE Kinds
    BY <2>4, PushedMoves DEF Kinds, Proceeds, Pushed, matchVars, basisVars, scoreGhosts, rankVars
  <2>5. ASSUME NEW j \in Job, NEW s \in Space, ReadRecipients(j, s) PROVE Kinds
    BY <2>5, ReadRecipientsMoves DEF Kinds, Proceeds, ReadRecipients, matchVars, basisVars, rankVars
  <2>6. ASSUME NEW j \in Job, NEW todo \in job[j].todo, NEW lost \in SUBSET Device,
               Push(j, todo[1], todo[2], lost)
        PROVE  Kinds
    <3>1. job[j].pc = "push" /\ Fit(job[j])
      BY <2>6 DEF Push, At, Typed, Jobs
    <3>2. todo \in Members(job[j].space) \X job[j].events
      BY <3>1 DEF Fit
    <3>3. todo[1] \in User /\ todo[2] \in EventSet
      BY <3>1, <3>2 DEF Fit, JobState, Members
    <3> QED BY <2>6, <3>3 DEF Kinds
  <2> QED BY <1>3, <2>1, <2>2, <2>3, <2>4, <2>5, <2>6 DEF LiveScores
<1>4. CASE RankAlerts
  <2>1. CASE StartRanks
    BY <2>1, StartRanksMoves DEF Kinds, Proceeds, Job, StartRanks, matchVars, basisVars, scoreGhosts, rankVars
  <2>2. ASSUME NEW j \in Job, NEW s \in Space, ReadStandings(j, s) PROVE Kinds
    BY <2>2, ReadStandingsMoves DEF Kinds, Proceeds, ReadStandings, matchVars, basisVars, scoreGhosts, rankVars
  <2>3. ASSUME NEW j \in Job, ReadPrefs(j) \/ Rebase(j) PROVE Kinds
    BY <2>3 DEF Kinds
  <2> QED BY <1>4, <2>1, <2>2, <2>3 DEF RankAlerts, Kinds
<1>5. CASE Mishaps
  <2>1. ASSUME NEW j \in Job, JobFails(j) PROVE Kinds
    BY <2>1, JobFailsMoves DEF Kinds, Proceeds, JobFails, matchVars, basisVars, rankVars
  <2>2. ASSUME NEW j \in Job, TenantFails(j) PROVE Kinds
    BY <2>2, TenantFailsMoves DEF Kinds, Proceeds, TenantFails, matchVars, basisVars
  <2>3. ASSUME NEW j \in Job, Crash(j) PROVE Kinds
    BY <2>3, CrashMoves DEF Kinds, Proceeds, Crash, matchVars, basisVars
  <2> QED BY <1>5, <2>1, <2>2, <2>3 DEF Mishaps
<1>6. CASE UNCHANGED pushVars
  BY <1>6 DEF Kinds, Aside, pushVars, matchVars
<1> QED BY <1>1, <1>2, <1>3, <1>4, <1>5, <1>6 DEF Next, vars

-----------------------------------------------------------------------------
(***************************************************************************)
(* The types hold.                                                         *)
(***************************************************************************)
LEMMA JobsStay ==
  ASSUME Typed, Kinds
  PROVE  Jobs'
<1>1. Jobs
  BY DEF Typed
<1>2. CASE UNCHANGED job
  <2>1. job' \in [Job -> JobState] /\ \A i \in Job : Fit(job'[i])
    BY <1>1, <1>2 DEF Jobs
  <2>2. (\A i \in Job : Fit(job[i]))'
    BY <2>1 DEF Fit, JobState, EventSet, BoardOf, Members, Places, PC
  <2> QED BY <2>1, <2>2 DEF Jobs, JobState, EventSet, BoardOf, Members, Places, PC
<1>3. ASSUME NEW j \in Job, Comes(j, job'[j])
      PROVE  Jobs'
  BY <1>1, <1>3, ComesTyped
<1>4. ASSUME NEW j \in Job,
             \/ Proceeds(j) \/ Scan(j) \/ Baseline(j) \/ ReadPrefs(j) \/ Rebase(j)
             \/ \E u \in User, e \in EventSet, lost \in SUBSET Device : Push(j, u, e, lost)
             \/ \E u \in User, lost \in SUBSET Device : Alert(j, u, lost)
      PROVE  Comes(j, job'[j])
  BY <1>4, ScanMoves, BaselineMoves, ReadPrefsMoves, RebaseMoves, PushMoves, AlertMoves
     DEF Proceeds, Onward
<1> QED BY <1>2, <1>3, <1>4 DEF Kinds, Aside, Stores

LEMMA StoredType == Stored \subseteq [score : Score \union {NULL}, status : Status]
BY DEF Stored, Status

LEMMA SubsStay ==
  ASSUME Typed, [Next]_vars
  PROVE  (subs' \subseteq User \X Device) /\ wants' \subseteq User
<1>1. (subs \subseteq User \X Device) /\ wants \subseteq User
  BY DEF Typed, Tables
<1>2. CASE Feed
  BY <1>1, <1>2 DEF Feed, LoopSync, Ages, LoopStores, OtherStores, Store, LoopGrades, deviceVars
<1>3. CASE Devices
  <2>1. ASSUME NEW u \in User, NEW d \in Device, Subscribe(u, d) \/ Unsubscribe(u, d)
        PROVE  (subs' \subseteq User \X Device) /\ wants' \subseteq User
    BY <1>1, <2>1 DEF Subscribe, Unsubscribe
  <2>2. ASSUME NEW u \in User, NEW on \in BOOLEAN, SetPreference(u, on)
        PROVE  (subs' \subseteq User \X Device) /\ wants' \subseteq User
    BY <1>1, <2>2 DEF SetPreference
  <2>3. ASSUME NEW d \in Device, EndpointDies(d)
        PROVE  (subs' \subseteq User \X Device) /\ wants' \subseteq User
    BY <1>1, <2>3 DEF EndpointDies
  <2> QED BY <1>3, <2>1, <2>2, <2>3 DEF Devices
<1>4. CASE LiveScores
  <2>1. ASSUME NEW j \in Job, NEW u, NEW e, NEW lost, Push(j, u, e, lost)
        PROVE  subs' \subseteq subs /\ wants' = wants
    BY <2>1 DEF Push, PushToUser
  <2> QED BY <1>1, <1>4, <2>1 DEF LiveScores, StartLive, Scan, Baseline, LoadTenants, Pushed,
            ReadRecipients, deviceVars
<1>5. CASE RankAlerts
  <2>1. ASSUME NEW j \in Job, NEW u, NEW lost, Alert(j, u, lost)
        PROVE  subs' \subseteq subs /\ wants' = wants
    BY <2>1 DEF Alert, PushToUser
  <2> QED BY <1>1, <1>5, <2>1 DEF RankAlerts, StartRanks, ReadStandings, ReadPrefs, Rebase, deviceVars
<1>6. CASE Mishaps
  BY <1>1, <1>6 DEF Mishaps, JobFails, TenantFails, Crash, deviceVars
<1>7. CASE UNCHANGED pushVars
  BY <1>1, <1>7 DEF pushVars, deviceVars
<1> QED BY <1>2, <1>3, <1>4, <1>5, <1>6, <1>7 DEF Next, vars

LEMMA StandingStays ==
  ASSUME Typed, [Next]_vars
  PROVE  standing' \in [User -> [points : Nat, exact : Nat, settled : Nat]]
<1>1. standing \in [User -> [points : Nat, exact : Nat, settled : Nat]]
  BY DEF Typed, Tables
<1>2. CASE Feed
  BY <1>1, <1>2, StandingAssumption DEF Feed, LoopSync, Ages, LoopStores, OtherStores, Store, LoopGrades
<1>3. CASE Devices
  BY <1>1, <1>3 DEF Devices, Subscribe, Unsubscribe, SetPreference, EndpointDies
<1>4. CASE LiveScores
  BY <1>1, <1>4 DEF LiveScores, StartLive, Scan, Baseline, LoadTenants, Pushed, ReadRecipients, Push
<1>5. CASE RankAlerts
  BY <1>1, <1>5 DEF RankAlerts, StartRanks, ReadStandings, ReadPrefs, Rebase, Alert
<1>6. CASE Mishaps
  BY <1>1, <1>6 DEF Mishaps, JobFails, TenantFails, Crash
<1>7. CASE UNCHANGED standing
  BY <1>1, <1>7
<1> QED BY <1>2, <1>3, <1>4, <1>5, <1>6, <1>7 DEF Next, vars

\* What the pushes write, by the kind of step.
Written ==
  /\ row \in [Match -> [score : Score \union {NULL}, status : Status]]
  /\ pushed \in [Match -> [score : Score \union {NULL}, status : Status \union {NULL}]]
  /\ version \in [Match -> Nat]
  /\ based \in [Match -> Nat]
  /\ lastRank \in [User -> 0..Cardinality(User)]
  /\ alerted \in [User -> 0..Cardinality(User)]
  /\ known \in [User -> [Match -> [score : Score \union {NULL, <<0, 0>>}, over : BOOLEAN]]]

LEMMA WrittenStays ==
  ASSUME Typed, Kinds
  PROVE  Written'
<1>1. Written
  BY DEF Typed, Tables, Written
<1>2. CASE Aside
  BY <1>1, <1>2 DEF Aside, Written, basisVars, scoreGhosts, rankVars, Status
<1>3. CASE Stores
  <2>1. PICK m \in Match, new \in Stored : Store(m, new)
    BY <1>3 DEF Stores
  <2>2. /\ row' \in [Match -> [score : Score \union {NULL}, status : Status]]
        /\ version' \in [Match -> Nat]
    BY <1>1, <2>1, StoredType DEF Store, Written
  <2> QED BY <1>1, <2>1, <2>2 DEF Written, Store, basisVars, scoreGhosts, rankVars, Status
<1>4. ASSUME NEW j \in Job, Proceeds(j) PROVE Written'
  BY <1>1, <1>4 DEF Proceeds, Written, basisVars, Status
<1>5. ASSUME NEW j \in Job, Scan(j) \/ ReadPrefs(j) PROVE Written'
  BY <1>1, <1>5 DEF Scan, ReadPrefs, Written, matchVars, basisVars, rankVars, scoreGhosts, Status
<1>6. ASSUME NEW j \in Job, Baseline(j) PROVE Written'
  <2>1. /\ pushed' \in [Match -> [score : Score \union {NULL}, status : Status \union {NULL}]]
        /\ based' \in [Match -> Nat]
    BY <1>1, <1>6 DEF Baseline, Written
  <2>2. known' \in [User -> [Match -> [score : Score \union {NULL, <<0, 0>>}, over : BOOLEAN]]]
    BY <1>1, <1>6 DEF Baseline, Written
  <2> QED BY <1>1, <1>6, <2>1, <2>2 DEF Written, Baseline, matchVars, rankVars, Status
<1>7. ASSUME NEW j \in Job, NEW u \in User, NEW e \in EventSet, NEW lost, Push(j, u, e, lost)
      PROVE  Written'
  <2>1. known' \in [User -> [Match -> [score : Score \union {NULL, <<0, 0>>}, over : BOOLEAN]]]
    <3> DEFINE over == e.over \/ pushed[e.match].status = "FINISHED"
               news == [score |-> e.score, over |-> over]
    <3>1. /\ e.match \in Match /\ e.score \in Score \union {NULL, <<0, 0>>}
          /\ over \in BOOLEAN
      BY DEF EventSet
    <3>2. known' = known \/ known' = [known EXCEPT ![u][e.match] = news]
      BY <1>7 DEF Push
    <3> HIDE DEF over
    <3>3. news \in [score : Score \union {NULL, <<0, 0>>}, over : BOOLEAN]
      BY <3>1
    <3> DEFINE News == [score : Score \union {NULL, <<0, 0>>}, over : BOOLEAN]
    <3>4. known \in [User -> [Match -> News]] /\ news \in News
      BY <1>1, <3>3 DEF Written
    <3> HIDE DEF news, News
    <3>5. known' \in [User -> [Match -> News]]
      BY <3>1, <3>2, <3>4
    <3> QED BY <3>5 DEF News
  <2> QED BY <1>1, <1>7, <2>1 DEF Written, Push, matchVars, basisVars, rankVars, Status
<1>8. ASSUME NEW j \in Job, NEW u \in User, NEW lost, Alert(j, u, lost)
      PROVE  Written'
  <2>1. job[j].ranks \in BoardOf(job[j].space) /\ u \in Members(job[j].space)
    BY <1>8, AlertMoves
  <2>2. job[j].ranks[u].rank \in 0..Cardinality(User)
    BY <2>1, FS_CardinalityType, BoardAssumption DEF BoardOf, Places
  <2>3. alerted' \in [User -> 0..Cardinality(User)]
    BY <1>1, <1>8, <2>2 DEF Written, Alert
  <2> QED BY <1>1, <1>8, <2>3 DEF Written, Alert, matchVars, basisVars, scoreGhosts, Status
<1>9. ASSUME NEW j \in Job, Rebase(j)
      PROVE  Written'
  <2>1. job[j].ranks \in BoardOf(job[j].space)
    BY <1>9, RebaseMoves
  <2>2. \A u \in Members(job[j].space) : job[j].ranks[u].rank \in 0..Cardinality(User)
    BY <2>1, FS_CardinalityType, BoardAssumption DEF BoardOf, Places
  <2>3. lastRank' \in [User -> 0..Cardinality(User)]
    BY <1>1, <1>9, <2>2 DEF Written, Rebase, Rebased
  <2> QED BY <1>1, <1>9, <2>3 DEF Written, Rebase, matchVars, basisVars, scoreGhosts, Status
<1> QED BY <1>2, <1>3, <1>4, <1>5, <1>6, <1>7, <1>8, <1>9 DEF Kinds

LEMMA StakesStay ==
  ASSUME Typed, [Next]_vars
  PROVE  StakeTyped'
<1>1. StakeTyped
  BY DEF Typed
<1>2. ASSUME NEW u \in User, NEW tier \in AskedTier, AskStake(u, tier) PROVE StakeTyped'
  <2>1. tier \in Tier /\ (u \in paid) = FALSE
    BY <1>2 DEF AskStake, MayChoose
  <2>2. asking' = asking \union {<<u, tier, FALSE>>}
    BY <1>2, <2>1 DEF AskStake
  <2>3. <<u, tier, FALSE>> \in User \X Tier \X {FALSE}
    BY <2>1
  <2>4. asking' \subseteq User \X Tier \X {FALSE}
    BY <1>1, <2>2, <2>3 DEF StakeTyped
  <2>5. UNCHANGED <<stake, paid, cashed>>
    BY <1>2 DEF AskStake
  <2> QED BY <1>1, <2>4, <2>5 DEF StakeTyped
<1>3. ASSUME NEW ask \in asking, StoreStake(ask[1], ask[2], ask[3]) PROVE StakeTyped'
  <2>1. ask[1] \in User /\ ask[2] \in Tier
    BY <1>1 DEF StakeTyped
  <2> QED BY <1>1, <1>3, <2>1 DEF StakeTyped, StoreStake
<1>4. ASSUME NEW u \in User, MarkPaid(u) \/ MarkUnpaid(u) PROVE StakeTyped'
  BY <1>1, <1>4 DEF StakeTyped, MarkPaid, MarkUnpaid
<1>5. CASE DeadlinePasses \/ (\E s \in Space : ReadBoard(s)) \/ ReadPot \/ LeavePage
  BY <1>1, <1>5 DEF StakeTyped, DeadlinePasses, ReadBoard, ReadPot, LeavePage
<1>6. CASE UNCHANGED stakeVars
  BY <1>1, <1>6 DEF StakeTyped, stakeVars
<1> QED BY <1>2, <1>3, <1>4, <1>5, <1>6 DEF Next, Bets, vars

LEMMA InitTyped == Init => Typed
<1> SUFFICES ASSUME Init PROVE Typed
  OBVIOUS
<1>1. standing \in [User -> [points : Nat, exact : Nat, settled : Nat]]
  BY DEF Init, Level
<1>2. Written
  <2>1. 0 \in 0..Cardinality(User)
    BY FS_CardinalityType, BoardAssumption
  <2> QED BY <2>1 DEF Init, PushInit, Written, Unseen, Status
<1>3. (subs \subseteq User \X Device) /\ wants \subseteq User
  BY SubsAssumption DEF Init, PushInit
<1>4. Jobs
  BY IdleFit DEF Init, PushInit, Jobs
<1>5. StakeTyped
  BY DEF Init, StakesInit, StakeTyped
<1> QED BY <1>1, <1>2, <1>3, <1>4, <1>5 DEF Typed, Tables, Written

LEMMA StepTyped ==
  ASSUME Typed, [Next]_vars
  PROVE  Typed'
<1>1. Kinds
  BY StepKinds
<1>2. Written'
  BY <1>1, WrittenStays
<1>3. Jobs' /\ StakeTyped'
  BY <1>1, JobsStay, StakesStay
<1>4. /\ (subs' \subseteq User \X Device) /\ wants' \subseteq User
      /\ standing' \in [User -> [points : Nat, exact : Nat, settled : Nat]]
  BY SubsStay, StandingStays
<1> QED BY <1>2, <1>3, <1>4 DEF Typed, Tables, Written, Status

(***************************************************************************)
(* The rows, the endpoints, the jobs of the pushes and the stakes are what *)
(* they should be, whatever players, spaces, matches and failures: TypeOK  *)
(* of LivePush and Stakes (src/notifications.rs, src/stakes.rs).           *)
(***************************************************************************)
THEOREM TypeCorrect == Spec => []TypeOK
<1>1. Typed /\ [Next]_vars => Typed'
  BY StepTyped
<1> QED BY <1>1, InitTyped, TypedIsTypeOK, PTL DEF Spec

-----------------------------------------------------------------------------
(***************************************************************************)
(* An endpoint that still works is dropped by its player only: pruning     *)
(* (push_to_user of src/notifications.rs) never takes one the push service *)
(* would still deliver to.                                                 *)
(***************************************************************************)
LEMMA PruneSpares ==
  ASSUME NEW v, NEW lost, PushToUser(v, lost), NEW u \in User, NEW d \in Device,
         <<u, d>> \in subs, <<u, d>> \notin subs'
  PROVE  d \in gone
BY DEF PushToUser, Pruned

THEOREM LiveSubscriptionsStay == Spec => LiveSubsStay
<1> DEFINE Kept == \A u \in User, d \in Device :
                     <<u, d>> \in subs /\ <<u, d>> \notin subs' => d \in gone \/ Unsubscribe(u, d)
<1>1. ASSUME [Next]_vars, NEW u \in User, NEW d \in Device, <<u, d>> \in subs, <<u, d>> \notin subs'
      PROVE  d \in gone \/ Unsubscribe(u, d)
  <2>1. CASE Feed
    BY <1>1, <2>1 DEF Feed, LoopSync, Ages, LoopStores, OtherStores, Store, LoopGrades, deviceVars
  <2>2. CASE Devices
    <3>1. ASSUME NEW v \in User, NEW c \in Device, Unsubscribe(v, c)
          PROVE  v = u /\ c = d
      BY <1>1, <3>1 DEF Unsubscribe
    <3>2. ASSUME NEW v \in User, NEW c \in Device, Subscribe(v, c) \/ EndpointDies(c)
          PROVE  FALSE
      BY <1>1, <3>2 DEF Subscribe, EndpointDies
    <3>3. ASSUME NEW v \in User, NEW on \in BOOLEAN, SetPreference(v, on)
          PROVE  FALSE
      BY <1>1, <3>3 DEF SetPreference
    <3> QED BY <2>2, <3>1, <3>2, <3>3 DEF Devices
  <2>3. CASE LiveScores
    BY <1>1, <2>3, PruneSpares
       DEF LiveScores, StartLive, Scan, Baseline, LoadTenants, Pushed, ReadRecipients, Push, deviceVars
  <2>4. CASE RankAlerts
    BY <1>1, <2>4, PruneSpares
       DEF RankAlerts, StartRanks, ReadStandings, ReadPrefs, Rebase, Alert, deviceVars
  <2>5. CASE Mishaps
    BY <1>1, <2>5 DEF Mishaps, JobFails, TenantFails, Crash, deviceVars
  <2>6. CASE UNCHANGED pushVars
    BY <1>1, <2>6 DEF pushVars, deviceVars
  <2> QED BY <1>1, <2>1, <2>2, <2>3, <2>4, <2>5, <2>6 DEF Next, vars
<1>2. [Next]_vars => [Kept]_vars
  BY <1>1
<1> QED BY <1>2, PTL DEF Spec, LiveSubsStay

-----------------------------------------------------------------------------
(***************************************************************************)
(* The pot is the money collected, but for a choice let in before the      *)
(* payment and stored after it: submit (src/routes/stake.rs) lets no one   *)
(* choose who has paid, and mark_paid (src/routes/admin.rs) takes the      *)
(* stake as it is.  A choice under way is always of a player who had not   *)
(* paid when it was let in (StakeTyped).                                   *)
(***************************************************************************)
LEMMA CashStep ==
  ASSUME Typed, PotIsCash, [Next]_vars
  PROVE  PotIsCash'
<1>1. StakeTyped
  BY DEF Typed
<1>2. ASSUME NEW u \in User, NEW tier \in AskedTier, AskStake(u, tier) PROVE PotIsCash'
  BY <1>2 DEF PotIsCash, AskStake
<1>3. ASSUME NEW ask \in asking, StoreStake(ask[1], ask[2], ask[3]) PROVE PotIsCash'
  <2>1. ask[1] \in User /\ ask[3] = FALSE
    BY <1>1 DEF StakeTyped
  <2>2. ASSUME NEW u \in paid \ slipped' PROVE u # ask[1] /\ u \notin slipped
    BY <1>3, <2>1, <2>2 DEF StoreStake
  <2>3. \A u \in User : u # ask[1] => stake'[u] = stake[u]
    BY <1>1, <1>3, <2>1 DEF StoreStake, StakeTyped
  <2> QED BY <1>1, <1>3, <2>2, <2>3 DEF PotIsCash, StoreStake, StakeTyped
<1>4. ASSUME NEW u \in User, MarkPaid(u) PROVE PotIsCash'
  <2>1. ASSUME NEW v \in paid' \ slipped' PROVE stake'[v] = cashed'[v]
    <3>1. stake' = stake /\ slipped' = slipped /\ v \in User
      BY <1>1, <1>4, <2>1 DEF MarkPaid, StakeTyped
    <3>2. CASE v \in paid
      BY <1>1, <1>4, <2>1, <3>1, <3>2 DEF MarkPaid, PotIsCash, StakeTyped
    <3>3. CASE v \notin paid
      BY <1>1, <1>4, <2>1, <3>1, <3>3 DEF MarkPaid, PotIsCash, StakeTyped
    <3> QED BY <3>2, <3>3
  <2> QED BY <2>1 DEF PotIsCash
<1>5. ASSUME NEW u \in User, MarkUnpaid(u) PROVE PotIsCash'
  BY <1>1, <1>5 DEF MarkUnpaid, PotIsCash, StakeTyped
<1>6. CASE DeadlinePasses \/ (\E s \in Space : ReadBoard(s)) \/ ReadPot \/ LeavePage
  BY <1>6 DEF PotIsCash, DeadlinePasses, ReadBoard, ReadPot, LeavePage
<1>7. CASE UNCHANGED stakeVars
  BY <1>7 DEF PotIsCash, stakeVars
<1> QED BY <1>2, <1>3, <1>4, <1>5, <1>6, <1>7 DEF Next, Bets, vars

THEOREM PotIsCollected == Spec => []PotIsCash
<1>1. Init => Typed /\ PotIsCash
  BY InitTyped DEF Init, StakesInit, PotIsCash
<1>2. Typed /\ PotIsCash /\ [Next]_vars => Typed' /\ PotIsCash'
  BY StepTyped, CashStep
<1> QED BY <1>1, <1>2, PTL DEF Spec

-----------------------------------------------------------------------------
(***************************************************************************)
(* A player is told once.  A push is owed for a version of the row that is *)
(* newer than what was written down when the job read it, and is written   *)
(* down before it is pushed; so what was told is never newer than what is  *)
(* written down, and what is read next is.  Two jobs owe the same only if  *)
(* one read it before the other wrote it down: it is doubled then.         *)
(***************************************************************************)
Busy(r) == Reading(r) \/ Live(r)

VersionsAgree ==
  /\ told \subseteq User \X Match \X Nat
  /\ \A t \in told : t[3] <= based[t[2]]
  /\ \A m \in Match : /\ based[m] <= version[m]
                      /\ based[m] = version[m] /\ pushed[m].status # NULL => pushed[m] = row[m]

EventsAreOld ==
  \A j \in Job :
    /\ Reading(job[j]) => \A p \in job[j].seen : p[2] <= version[p[1]]
    /\ Live(job[j]) => \A e \in job[j].events : e.version <= based[e.match]

SharedIsDoubled ==
  \A i, j \in Job : i # j /\ Busy(job[i]) /\ Busy(job[j]) =>
    \A e \in job[i].events, f \in job[j].events :
      e.match = f.match /\ e.version = f.version => <<e.match, e.version>> \in doubled

OwedIsUntold ==
  \A j \in Job, u \in User : \A e \in job[j].events :
    (Reading(job[j]) \/ Owes(job[j], u, e)) /\ <<u, e.match, e.version>> \in told =>
      <<e.match, e.version>> \in doubled

ToldOnce == VersionsAgree /\ EventsAreOld /\ SharedIsDoubled /\ OwedIsUntold

LEMMA ToldOnceIsNoRepeat ==
  ASSUME Typed, ToldOnce
  PROVE  NoRepeat
<1> SUFFICES ASSUME NEW j \in Job, At(j, "live", "push"), NEW todo \in job[j].todo,
                    <<todo[1], todo[2].match, todo[2].version>> \in told
             PROVE  <<todo[2].match, todo[2].version>> \in doubled
  BY DEF NoRepeat
<1>1. todo \in Members(job[j].space) \X job[j].events /\ job[j].pc = "push" /\ job[j].kind = "live"
  BY DEF Typed, Jobs, Fit, At
<1>2. todo[1] \in User /\ todo[2] \in job[j].events /\ <<todo[1], todo[2]>> \in job[j].todo
  BY <1>1 DEF Members
<1>3. Owes(job[j], todo[1], todo[2])
  BY <1>1, <1>2 DEF Owes
<1> QED BY <1>2, <1>3 DEF ToldOnce, OwedIsUntold

LEMMA EventOf ==
  ASSUME Typed, NEW j \in Job, NEW e \in job[j].events
  PROVE  e \in EventSet /\ e.match \in Match /\ e.version \in Nat
BY DEF Typed, Jobs, JobState, EventSet

LEMMA OnwardKeepsToldOnce ==
  ASSUME Typed, ToldOnce, NEW j \in Job, Onward(j), doubled \subseteq doubled',
         UNCHANGED <<row, version, basisVars, told>>
  PROVE  ToldOnce'
<1>1. /\ ~ Reading(job'[j]) /\ \A i \in Job : i # j => job'[i] = job[i]
      /\ Live(job'[j]) => Live(job[j]) /\ job'[j].events = job[j].events
  BY ComesTyped DEF Onward, Typed
<1>2. VersionsAgree'
  BY DEF ToldOnce, VersionsAgree, basisVars
<1>3. EventsAreOld'
  <2> SUFFICES ASSUME NEW i \in Job
               PROVE  /\ Reading(job'[i]) => \A p \in job'[i].seen : p[2] <= version[p[1]]
                      /\ Live(job'[i]) => \A e \in job'[i].events : e.version <= based[e.match]
    BY DEF EventsAreOld, Reading, Live, basisVars
  <2> QED BY <1>1 DEF ToldOnce, EventsAreOld
<1>4. SharedIsDoubled'
  <2> SUFFICES ASSUME NEW i \in Job, NEW k \in Job, i # k, Busy(job'[i]), Busy(job'[k]),
                      NEW e \in job'[i].events, NEW f \in job'[k].events,
                      e.match = f.match, e.version = f.version
               PROVE  <<e.match, e.version>> \in doubled
    BY DEF SharedIsDoubled, Busy, Reading, Live
  <2>1. Busy(job[i]) /\ Busy(job[k]) /\ e \in job[i].events /\ f \in job[k].events
    BY <1>1 DEF Busy
  <2> QED BY <2>1 DEF ToldOnce, SharedIsDoubled
<1>5. OwedIsUntold'
  <2> SUFFICES ASSUME NEW i \in Job, NEW u \in User, NEW e \in job'[i].events,
                      Reading(job'[i]) \/ Owes(job'[i], u, e), <<u, e.match, e.version>> \in told
               PROVE  <<e.match, e.version>> \in doubled
    BY DEF OwedIsUntold, Reading, Owes
  <2>1. CASE i # j
    BY <1>1, <2>1 DEF ToldOnce, OwedIsUntold
  <2>2. CASE i = j
    <3>1. Owes(job'[j], u, e) /\ Live(job'[j])
      BY <1>1, <2>2 DEF Owes, Live
    <3>2. e \in job[j].events
      BY <1>1, <2>2, <3>1
    <3>3. Owes(job[j], u, e)
      BY <3>1, <3>2, EventOf DEF Onward
    <3> QED BY <3>2, <3>3 DEF ToldOnce, OwedIsUntold
  <2> QED BY <2>1, <2>2
<1> QED BY <1>2, <1>3, <1>4, <1>5 DEF ToldOnce

LEMMA ScanKeepsToldOnce ==
  ASSUME Typed, ToldOnce, NEW j \in Job, Scan(j)
  PROVE  ToldOnce'
<1>1. /\ UNCHANGED <<row, version, basisVars, told>> /\ doubled \subseteq doubled'
      /\ \A k \in Job \ {j} : At(k, "live", "baseline") =>
           \A m \in Candidates : <<m, version[m]>> \in job[k].seen => <<m, version[m]>> \in doubled'
  BY DEF Scan, matchVars
<1>2. CASE Onward(j)
  BY <1>1, <1>2, OnwardKeepsToldOnce
<1>3. CASE /\ Reading(job'[j])
           /\ job'[j].seen = {<<m, version[m]>> : m \in Candidates}
           /\ job'[j].events = {Event(m) : m \in Worthwhile}
  <2>1. ~ Live(job'[j]) /\ \A i \in Job : i # j => job'[i] = job[i]
    BY ScanMoves, ComesTyped DEF Typed
  <2>2. \A e \in job'[j].events :
          /\ e.match \in Worthwhile /\ e.version = version[e.match] /\ e.match \in Match
          /\ e.match \in Candidates
    BY <1>3, EventType DEF Worthwhile, Candidates, Typed
  \* Read because it differs from what is written down, so it is newer.
  <2>3. \A m \in Worthwhile : m \in Match /\ based[m] < version[m]
    <3> SUFFICES ASSUME NEW m \in Worthwhile PROVE m \in Match /\ based[m] < version[m]
      OBVIOUS
    <3>1. m \in Match /\ pushed[m].status # NULL /\ pushed[m] # row[m]
      BY DEF Worthwhile, Candidates, WorthAPush
    <3>2. based[m] \in Nat /\ version[m] \in Nat
      BY <3>1 DEF Typed, Tables
    <3> QED BY <3>1, <3>2 DEF ToldOnce, VersionsAgree
  <2>4. VersionsAgree'
    BY <1>1 DEF ToldOnce, VersionsAgree, basisVars
  <2>5. EventsAreOld'
    <3> SUFFICES ASSUME NEW i \in Job
                 PROVE  /\ Reading(job'[i]) => \A p \in job'[i].seen : p[2] <= version[p[1]]
                        /\ Live(job'[i]) => \A e \in job'[i].events : e.version <= based[e.match]
      BY <1>1 DEF EventsAreOld, Reading, Live, basisVars
    <3>1. CASE i = j
      <4>1. \A m \in Candidates : version[m] <= version[m]
        BY DEF Candidates, Typed, Tables
      <4> QED BY <1>3, <2>1, <3>1, <4>1
    <3>2. CASE i # j
      BY <2>1, <3>2 DEF ToldOnce, EventsAreOld
    <3> QED BY <3>1, <3>2
  \* Another job that owes the same reads it just now.
  <2>6. ASSUME NEW k \in Job, k # j, Busy(job[k]), NEW e \in job'[j].events, NEW f \in job[k].events,
               e.match = f.match, e.version = f.version
        PROVE  <<e.match, e.version>> \in doubled'
    <3>1. e.match \in Match /\ e.version = version[e.match] /\ based[e.match] < version[e.match]
      BY <2>2, <2>3
    <3>2. based[e.match] \in Nat /\ version[e.match] \in Nat
      BY <3>1 DEF Typed, Tables
    <3>3. ASSUME Live(job[k]) PROVE FALSE
      <4>1. f.version <= based[f.match]
        BY <2>6, <3>3 DEF ToldOnce, EventsAreOld
      <4>2. version[e.match] <= based[e.match]
        BY <2>6, <3>1, <4>1
      <4> QED BY <3>1, <3>2, <4>2
    <3>4. Reading(job[k]) /\ Fit(job[k])
      BY <2>6, <3>3 DEF Busy, Typed, Jobs
    <3>5. <<e.match, version[e.match]>> \in job[k].seen /\ At(k, "live", "baseline")
      BY <2>6, <3>1, <3>4 DEF Fit, Reading, At
    <3> QED BY <1>1, <2>2, <2>6, <3>1, <3>5
  <2>7. SharedIsDoubled'
    <3> SUFFICES ASSUME NEW i \in Job, NEW k \in Job, i # k, Busy(job'[i]), Busy(job'[k]),
                        NEW e \in job'[i].events, NEW f \in job'[k].events,
                        e.match = f.match, e.version = f.version
                 PROVE  <<e.match, e.version>> \in doubled'
      BY DEF SharedIsDoubled, Busy, Reading, Live
    <3>1. CASE i = j
      BY <2>1, <2>6, <3>1
    <3>2. CASE k = j
      BY <2>1, <2>6, <3>2
    <3>3. CASE i # j /\ k # j
      BY <1>1, <2>1, <3>3 DEF ToldOnce, SharedIsDoubled
    <3> QED BY <3>1, <3>2, <3>3
  <2>8. OwedIsUntold'
    <3> SUFFICES ASSUME NEW i \in Job, NEW u \in User, NEW e \in job'[i].events,
                        Reading(job'[i]) \/ Owes(job'[i], u, e), <<u, e.match, e.version>> \in told
                 PROVE  <<e.match, e.version>> \in doubled'
      BY <1>1 DEF OwedIsUntold, Reading, Owes
    <3>1. CASE i # j
      BY <1>1, <2>1, <3>1 DEF ToldOnce, OwedIsUntold
    <3>2. CASE i = j
      <4>1. e.match \in Match /\ e.version = version[e.match] /\ based[e.match] < version[e.match]
        BY <2>2, <2>3, <3>2
      <4>2. e.version <= based[e.match]
        BY DEF ToldOnce, VersionsAgree
      <4>3. based[e.match] \in Nat /\ version[e.match] \in Nat
        BY <4>1 DEF Typed, Tables
      <4> QED BY <4>1, <4>2, <4>3
    <3> QED BY <3>1, <3>2
  <2> QED BY <2>4, <2>5, <2>7, <2>8 DEF ToldOnce
<1> QED BY <1>2, <1>3, ScanMoves

LEMMA BaselineKeepsToldOnce ==
  ASSUME Typed, ToldOnce, NEW j \in Job, Baseline(j)
  PROVE  ToldOnce'
<1>1. /\ UNCHANGED <<row, version, told, doubled>>
      /\ pushed' = [m \in Match |-> IF m \in WrittenDown(j) THEN row[m] ELSE pushed[m]]
      /\ based' = [m \in Match |-> IF m \in WrittenDown(j) THEN version[m] ELSE based[m]]
  BY DEF Baseline, matchVars
<1>2. /\ Reading(job[j]) /\ ~ Reading(job'[j]) /\ Fit(job[j])
      /\ \A i \in Job : i # j => job'[i] = job[i]
      /\ Live(job'[j]) => job'[j].events = job[j].events
  BY BaselineMoves, ComesTyped DEF Typed, Jobs
<1>3. \A m \in Match : /\ based[m] \in Nat /\ version[m] \in Nat /\ based'[m] \in Nat
                       /\ based[m] <= based'[m] /\ based'[m] <= version[m]
  BY <1>1 DEF ToldOnce, VersionsAgree, Typed, Tables
<1>4. VersionsAgree'
  <2>1. ASSUME NEW t \in told PROVE t[3] <= based'[t[2]]
    <3>1. t[2] \in Match /\ t[3] \in Nat /\ t[3] <= based[t[2]]
      BY DEF ToldOnce, VersionsAgree
    <3> QED BY <1>3, <3>1
  <2>2. ASSUME NEW m \in Match, based'[m] = version[m], pushed'[m].status # NULL
        PROVE  pushed'[m] = row[m]
    BY <1>1, <2>2 DEF ToldOnce, VersionsAgree
  <2> QED BY <1>1, <1>3, <2>1, <2>2 DEF ToldOnce, VersionsAgree
<1>5. EventsAreOld'
  <2> SUFFICES ASSUME NEW i \in Job
               PROVE  /\ Reading(job'[i]) => \A p \in job'[i].seen : p[2] <= version[p[1]]
                      /\ Live(job'[i]) => \A e \in job'[i].events : e.version <= based'[e.match]
    BY <1>1 DEF EventsAreOld, Reading, Live
  <2>1. CASE i = j
    <3> SUFFICES ASSUME Live(job'[j]), NEW e \in job[j].events
                 PROVE  e.version <= based'[e.match]
      BY <1>2, <2>1
    <3>1. e.match \in Match /\ e.version \in Nat /\ <<e.match, e.version>> \in job[j].seen
      BY <1>2, EventOf DEF Reading, Fit
    <3>2. e.version <= version[e.match]
      <4>1. \A p \in job[j].seen : p[2] <= version[p[1]]
        BY <1>2 DEF ToldOnce, EventsAreOld
      <4> QED BY <3>1, <4>1
    <3>3. e.match \in WrittenDown(j)
      BY <3>1 DEF WrittenDown
    <3> QED BY <1>1, <3>1, <3>2, <3>3
  <2>2. CASE i # j
    <3>1. ASSUME Live(job[i]), NEW e \in job[i].events
          PROVE  e.version <= based'[e.match]
      <4>1. e.version <= based[e.match] /\ e.match \in Match /\ e.version \in Nat
        BY <3>1, EventOf DEF ToldOnce, EventsAreOld
      <4> QED BY <1>3, <4>1
    <3> QED BY <1>2, <2>2, <3>1 DEF ToldOnce, EventsAreOld
  <2> QED BY <2>1, <2>2
<1>6. \A i \in Job : Busy(job'[i]) => Busy(job[i]) /\ job'[i].events = job[i].events
  BY <1>2 DEF Busy
<1>7. SharedIsDoubled'
  <2> SUFFICES ASSUME NEW i \in Job, NEW k \in Job, i # k, Busy(job'[i]), Busy(job'[k]),
                      NEW e \in job'[i].events, NEW f \in job'[k].events,
                      e.match = f.match, e.version = f.version
               PROVE  <<e.match, e.version>> \in doubled
    BY <1>1 DEF SharedIsDoubled, Busy, Reading, Live
  <2> QED BY <1>6 DEF ToldOnce, SharedIsDoubled
<1>8. OwedIsUntold'
  <2> SUFFICES ASSUME NEW i \in Job, NEW u \in User, NEW e \in job'[i].events,
                      Reading(job'[i]) \/ Owes(job'[i], u, e), <<u, e.match, e.version>> \in told
               PROVE  <<e.match, e.version>> \in doubled
    BY <1>1 DEF OwedIsUntold, Reading, Owes
  <2>1. CASE i # j
    BY <1>2, <2>1 DEF ToldOnce, OwedIsUntold
  <2>2. CASE i = j
    <3>1. Live(job'[j])
      BY <1>2, <2>2 DEF Owes, Live
    <3> QED BY <1>2, <2>2, <3>1 DEF ToldOnce, OwedIsUntold
  <2> QED BY <2>1, <2>2
<1> QED BY <1>4, <1>5, <1>7, <1>8 DEF ToldOnce

LEMMA PushKeepsToldOnce ==
  ASSUME Typed, ToldOnce, NEW j \in Job, NEW u \in User, NEW e \in EventSet, NEW lost,
         Push(j, u, e, lost)
  PROVE  ToldOnce'
<1>1. /\ UNCHANGED <<row, version, basisVars, doubled>>
      /\ told \subseteq told' /\ told' \subseteq told \union {<<u, e.match, e.version>>}
  BY DEF Push, matchVars
<1>2. /\ ~ Reading(job'[j]) /\ Live(job[j]) /\ Live(job'[j]) /\ job'[j].events = job[j].events
      /\ Owes(job[j], u, e) /\ \A i \in Job : i # j => job'[i] = job[i]
      /\ \A v \in User, f \in EventSet :
           Owes(job'[j], v, f) <=> Owes(job[j], v, f) /\ <<v, f>> # <<u, e>>
  BY PushMoves, ComesTyped DEF Typed
<1>3. e \in job[j].events /\ e.match \in Match /\ e.version \in Nat /\ Fit(job[j])
  BY <1>2 DEF Owes, EventSet, Typed, Jobs
<1>4. VersionsAgree'
  <2>1. e.version <= based[e.match]
    BY <1>2, <1>3 DEF ToldOnce, EventsAreOld
  <2>2. told' \subseteq User \X Match \X Nat
    BY <1>1, <1>3 DEF ToldOnce, VersionsAgree
  <2>3. ASSUME NEW t \in told' PROVE t[3] <= based[t[2]]
    BY <1>1, <1>3, <2>1 DEF ToldOnce, VersionsAgree
  <2> QED BY <1>1, <2>2, <2>3 DEF ToldOnce, VersionsAgree, basisVars
<1>5. EventsAreOld'
  <2> SUFFICES ASSUME NEW i \in Job
               PROVE  /\ Reading(job'[i]) => \A p \in job'[i].seen : p[2] <= version[p[1]]
                      /\ Live(job'[i]) => \A f \in job'[i].events : f.version <= based[f.match]
    BY <1>1 DEF EventsAreOld, Reading, Live, basisVars
  <2> QED BY <1>2 DEF ToldOnce, EventsAreOld
<1>6. SharedIsDoubled'
  <2> SUFFICES ASSUME NEW i \in Job, NEW k \in Job, i # k, Busy(job'[i]), Busy(job'[k]),
                      NEW f \in job'[i].events, NEW g \in job'[k].events,
                      f.match = g.match, f.version = g.version
               PROVE  <<f.match, f.version>> \in doubled
    BY <1>1 DEF SharedIsDoubled, Busy, Reading, Live
  <2>1. Busy(job[i]) /\ Busy(job[k]) /\ f \in job[i].events /\ g \in job[k].events
    BY <1>2 DEF Busy
  <2> QED BY <2>1 DEF ToldOnce, SharedIsDoubled
<1>7. OwedIsUntold'
  <2> SUFFICES ASSUME NEW i \in Job, NEW v \in User, NEW f \in job'[i].events,
                      Reading(job'[i]) \/ Owes(job'[i], v, f), <<v, f.match, f.version>> \in told'
               PROVE  <<f.match, f.version>> \in doubled
    BY <1>1 DEF OwedIsUntold, Reading, Owes
  <2>1. f \in job[i].events /\ f \in EventSet /\ (Reading(job[i]) \/ Owes(job[i], v, f))
    BY <1>2, EventOf
  <2>2. CASE <<v, f.match, f.version>> \in told
    BY <2>1, <2>2 DEF ToldOnce, OwedIsUntold
  <2>3. CASE v = u /\ f.match = e.match /\ f.version = e.version
    <3>1. CASE i = j
      <4>1. f = e
        BY <1>3, <2>1, <2>3, <3>1 DEF Fit
      <4> QED BY <1>2, <2>3, <3>1, <4>1
    <3>2. CASE i # j
      <4>1. Busy(job[i]) /\ Busy(job[j])
        BY <1>2, <2>1 DEF Busy, Owes, Live
      <4> QED BY <1>3, <2>1, <2>3, <3>2, <4>1 DEF ToldOnce, SharedIsDoubled
    <3> QED BY <3>1, <3>2
  <2> QED BY <1>1, <2>2, <2>3
<1> QED BY <1>4, <1>5, <1>6, <1>7 DEF ToldOnce

LEMMA StoresKeepsToldOnce ==
  ASSUME Typed, ToldOnce, Stores
  PROVE  ToldOnce'
<1>1. PICK n \in Match, new \in Stored : Store(n, new)
  BY DEF Stores
<1>2. /\ UNCHANGED <<pushed, based, told, doubled, job>>
      /\ row' = [row EXCEPT ![n] = new] /\ version' = [version EXCEPT ![n] = @ + 1]
  BY <1>1 DEF Stores, Store, basisVars, scoreGhosts
<1>3. \A m \in Match : /\ version[m] \in Nat /\ based[m] \in Nat /\ based[m] <= version[m]
                       /\ version[m] <= version'[m] /\ version'[m] \in Nat
                       /\ m # n => version'[m] = version[m] /\ row'[m] = row[m]
                       /\ m = n => based[m] < version'[m]
  BY <1>2 DEF ToldOnce, VersionsAgree, Typed, Tables
<1>4. VersionsAgree'
  BY <1>2, <1>3 DEF ToldOnce, VersionsAgree
<1>5. EventsAreOld'
  <2> SUFFICES ASSUME NEW i \in Job
               PROVE  /\ Reading(job[i]) => \A p \in job[i].seen : p[2] <= version'[p[1]]
                      /\ Live(job[i]) => \A e \in job[i].events : e.version <= based[e.match]
    BY <1>2 DEF EventsAreOld, Reading, Live
  <2>1. ASSUME Reading(job[i]), NEW p \in job[i].seen PROVE p[2] <= version'[p[1]]
    <3>1. p[1] \in Match /\ p[2] \in Nat
      BY DEF Typed, Jobs, JobState
    <3>2. p[2] <= version[p[1]]
      BY <2>1 DEF ToldOnce, EventsAreOld
    <3> QED BY <1>3, <3>1, <3>2
  <2> QED BY <2>1 DEF ToldOnce, EventsAreOld
<1>6. SharedIsDoubled' /\ OwedIsUntold'
  BY <1>2 DEF ToldOnce, SharedIsDoubled, OwedIsUntold, Busy, Reading, Live, Owes
<1> QED BY <1>4, <1>5, <1>6 DEF ToldOnce

LEMMA ToldOnceStays ==
  ASSUME Typed, ToldOnce, Kinds
  PROVE  ToldOnce'
<1>1. CASE Aside
  BY <1>1 DEF Aside, ToldOnce, VersionsAgree, EventsAreOld, SharedIsDoubled, OwedIsUntold, Busy,
              Reading, Live, Owes, basisVars, scoreGhosts
<1>2. CASE Stores
  BY <1>2, StoresKeepsToldOnce
<1>3. ASSUME NEW j \in Job, Proceeds(j) PROVE ToldOnce'
  BY <1>3, OnwardKeepsToldOnce DEF Proceeds
<1>4. ASSUME NEW j \in Job, ReadPrefs(j) \/ Rebase(j) PROVE ToldOnce'
  BY <1>4, OnwardKeepsToldOnce, ReadPrefsMoves, RebaseMoves
     DEF ReadPrefs, Rebase, matchVars, scoreGhosts
<1>5. ASSUME NEW j \in Job, NEW u \in User, NEW lost, Alert(j, u, lost) PROVE ToldOnce'
  BY <1>5, OnwardKeepsToldOnce, AlertMoves DEF Alert, matchVars, scoreGhosts
<1> QED BY <1>1, <1>2, <1>3, <1>4, <1>5, ScanKeepsToldOnce, BaselineKeepsToldOnce, PushKeepsToldOnce
        DEF Kinds

LEMMA InitToldOnce == Init => ToldOnce
BY DEF Init, PushInit, ToldOnce, VersionsAgree, EventsAreOld, SharedIsDoubled, OwedIsUntold, Unseen,
       Idle, Reading, Live, Busy, Owes

(***************************************************************************)
(* No player is pushed the same version of a match twice, whatever crashes *)
(* and fails between the statements of send_live_score_updates, but for    *)
(* two jobs that found it at the same time.                                *)
(***************************************************************************)
THEOREM NeverRepeats == Spec => []NoRepeat
<1>1. Typed /\ ToldOnce /\ [Next]_vars => Typed' /\ ToldOnce'
  BY StepTyped, StepKinds, ToldOnceStays
<1>2. Typed /\ ToldOnce => NoRepeat
  BY ToldOnceIsNoRepeat
<1> QED BY <1>1, <1>2, InitTyped, InitToldOnce, PTL DEF Spec

-----------------------------------------------------------------------------
(***************************************************************************)
(* A climb is told once.  The rank an alert gave is stored when the job    *)
(* leaves the space, so until then it is in the job that gave it (sent);   *)
(* what is left to alert is ahead of the rank of the last alert.  Two jobs *)
(* in the same space blur it.                                              *)
(***************************************************************************)
Sharp(u) == alerted[u] # 0 /\ u \notin fell \union blurred

SharedIsBlurred ==
  \A i, j \in Job :
    i # j /\ Alerting(job[i]) /\ Alerting(job[j]) /\ job[i].space = job[j].space =>
      Members(job[i].space) \subseteq blurred

AlertsClimb ==
  \A j \in Job : Alerting(job[j]) =>
    \A u \in job[j].todo : Sharp(u) => job[j].ranks[u].rank < alerted[u]

AlertedIsStored ==
  \A u \in User : Sharp(u) =>
    \/ lastRank[u] <= alerted[u]
    \/ \E k \in Job : Alerting(job[k]) /\ u \in job[k].sent /\ job[k].ranks[u].rank = alerted[u]

ClimbOnce == SharedIsBlurred /\ AlertsClimb /\ AlertedIsStored

\* What an alerting job holds.
LEMMA AlertingHolds ==
  ASSUME Typed, NEW j \in Job, Alerting(job[j])
  PROVE  /\ job[j].space \in Space
         /\ job[j].todo \subseteq Members(job[j].space) /\ job[j].sent \subseteq Members(job[j].space)
         /\ \A u \in Members(job[j].space) : u \in User /\ job[j].ranks[u].rank \in Nat
<1>1. Fit(job[j]) /\ job[j].pc = "alert" /\ Cardinality(User) \in Nat
  BY FS_CardinalityType, BoardAssumption DEF Typed, Jobs, Alerting
<1>2. job[j].ranks \in BoardOf(job[j].space) /\ job[j].space \in Space
  BY <1>1 DEF Fit
<1>3. \A u \in Members(job[j].space) : u \in User /\ job[j].ranks[u].rank \in Nat
  BY <1>1, <1>2 DEF BoardOf, Places, Members
<1> QED BY <1>1, <1>2, <1>3 DEF Fit

LEMMA OneSpace ==
  ASSUME NEW s, NEW t, NEW u \in Members(s), u \in Members(t)
  PROVE  s = t
BY DEF Members

LEMMA CalmKeepsClimbOnce ==
  ASSUME Typed, ClimbOnce, NEW j \in Job, Calm(j), blurred \subseteq blurred',
         UNCHANGED <<lastRank, alerted, fell>>
  PROVE  ClimbOnce'
<1>1. ~ Alerting(job'[j]) /\ \A i \in Job : i # j => job'[i] = job[i]
  BY ComesTyped DEF Calm, Typed
<1>2. \A u : Sharp(u)' => Sharp(u)
  BY DEF Sharp
<1>3. SharedIsBlurred'
  BY <1>1 DEF ClimbOnce, SharedIsBlurred, Alerting, Members
<1>4. AlertsClimb'
  BY <1>1, <1>2 DEF ClimbOnce, AlertsClimb, Alerting
<1>5. AlertedIsStored'
  <2> SUFFICES ASSUME NEW u \in User, Sharp(u)', ~ lastRank[u] <= alerted[u]
               PROVE  \E k \in Job : /\ Alerting(job'[k]) /\ u \in job'[k].sent
                                     /\ job'[k].ranks[u].rank = alerted[u]
    BY DEF AlertedIsStored, Alerting
  <2>1. PICK k \in Job : Alerting(job[k]) /\ u \in job[k].sent /\ job[k].ranks[u].rank = alerted[u]
    BY <1>2 DEF ClimbOnce, AlertedIsStored
  <2>2. k # j
    BY <2>1 DEF Calm, Sharp
  <2> QED BY <1>1, <2>1, <2>2
<1> QED BY <1>3, <1>4, <1>5 DEF ClimbOnce

LEMMA ReadPrefsKeepsClimbOnce ==
  ASSUME Typed, ClimbOnce, NEW j \in Job, ReadPrefs(j)
  PROVE  ClimbOnce'
<1>1. /\ ~ Alerting(job[j]) /\ Alerting(job'[j]) /\ \A i \in Job : i # j => job'[i] = job[i]
      /\ job'[j].space = job[j].space /\ job'[j].ranks = job[j].ranks
      /\ job'[j].todo = Climbers(j) /\ job[j].ranks \in BoardOf(job[j].space)
  BY ReadPrefsMoves, ComesTyped DEF Typed
<1>2. /\ UNCHANGED <<lastRank, alerted, fell>> /\ blurred \subseteq blurred'
      /\ \A k \in Job \ {j} : Alerting(job[k]) /\ job[k].space = job[j].space =>
           Members(job[j].space) \subseteq blurred'
  BY DEF ReadPrefs, Alerting, At
<1>3. \A u : Sharp(u)' => Sharp(u) /\ u \notin blurred'
  BY <1>2 DEF Sharp
<1>4. SharedIsBlurred'
  BY <1>1, <1>2 DEF ClimbOnce, SharedIsBlurred, Alerting, Members
<1>5. AlertsClimb'
  <2> SUFFICES ASSUME NEW i \in Job, Alerting(job'[i]), NEW u \in job'[i].todo, Sharp(u)'
               PROVE  job'[i].ranks[u].rank < alerted[u]
    BY <1>2 DEF AlertsClimb, Alerting
  <2>1. CASE i # j
    BY <1>1, <1>3, <2>1 DEF ClimbOnce, AlertsClimb
  <2>2. CASE i = j
    <3>1. u \in Members(job[j].space) /\ u \in User /\ job[j].ranks[u].rank < lastRank[u]
      BY <1>1, <2>2 DEF Climbers, Climbed, Members
    \* A job that gave the last alert and has not stored it is in the same space.
    <3>2. ASSUME NEW k \in Job, Alerting(job[k]), u \in job[k].sent PROVE FALSE
      <4>1. k # j /\ u \in Members(job[k].space)
        BY <1>1, <3>2, AlertingHolds
      <4>2. job[k].space = job[j].space
        BY <3>1, <4>1, OneSpace
      <4> QED BY <1>2, <1>3, <3>1, <3>2, <4>1, <4>2
    <3>3. lastRank[u] <= alerted[u]
      BY <1>3, <3>1, <3>2 DEF ClimbOnce, AlertedIsStored
    <3>4. lastRank[u] \in Nat /\ alerted[u] \in Nat /\ job[j].ranks[u].rank \in Nat
      BY <1>1, <3>1, FS_CardinalityType, BoardAssumption DEF Typed, Tables, BoardOf, Places
    <3> QED BY <1>1, <2>2, <3>1, <3>3, <3>4
  <2> QED BY <2>1, <2>2
<1>6. AlertedIsStored'
  <2> SUFFICES ASSUME NEW u \in User, Sharp(u)', ~ lastRank[u] <= alerted[u]
               PROVE  \E k \in Job : /\ Alerting(job'[k]) /\ u \in job'[k].sent
                                     /\ job'[k].ranks[u].rank = alerted[u]
    BY <1>2 DEF AlertedIsStored, Alerting
  <2>1. PICK k \in Job : Alerting(job[k]) /\ u \in job[k].sent /\ job[k].ranks[u].rank = alerted[u]
    BY <1>3 DEF ClimbOnce, AlertedIsStored
  <2> QED BY <1>1, <2>1
<1> QED BY <1>4, <1>5, <1>6 DEF ClimbOnce

LEMMA AlertKeepsClimbOnce ==
  ASSUME Typed, ClimbOnce, NEW j \in Job, NEW u \in User, NEW lost, Alert(j, u, lost)
  PROVE  ClimbOnce'
<1>1. /\ Alerting(job[j]) /\ Alerting(job'[j]) /\ \A i \in Job : i # j => job'[i] = job[i]
      /\ job'[j].space = job[j].space /\ job'[j].ranks = job[j].ranks
      /\ job'[j].todo = job[j].todo \ {u} /\ job'[j].sent = job[j].sent \union {u}
      /\ u \in Members(job[j].space)
  BY AlertMoves, ComesTyped DEF Typed
<1>2. /\ UNCHANGED <<lastRank, blurred>>
      /\ \/ UNCHANGED <<alerted, fell>>
         \/ alerted' = [alerted EXCEPT ![u] = job[j].ranks[u].rank] /\ fell' = fell \ {u}
  BY DEF Alert
<1>3. \A v \in User : v # u => alerted'[v] = alerted[v] /\ (Sharp(v)' => Sharp(v))
  BY <1>2 DEF Sharp, Typed, Tables
<1>4. SharedIsBlurred'
  BY <1>1, <1>2 DEF ClimbOnce, SharedIsBlurred, Alerting, Members
<1>5. AlertsClimb'
  <2> SUFFICES ASSUME NEW i \in Job, Alerting(job'[i]), NEW v \in job'[i].todo, Sharp(v)'
               PROVE  job'[i].ranks[v].rank < alerted'[v]
    BY DEF AlertsClimb, Alerting
  <2>1. Alerting(job[i]) /\ v \in job[i].todo /\ job'[i].ranks = job[i].ranks
    BY <1>1
  <2>2. v \in Members(job[i].space) /\ v \in User
    BY <2>1, AlertingHolds
  <2>3. v # u
    <3>1. CASE i = j
      BY <1>1, <3>1
    <3>2. CASE i # j
      <4> SUFFICES ASSUME v = u PROVE FALSE
        OBVIOUS
      <4>1. job[i].space = job[j].space
        BY <1>1, <2>2, OneSpace
      <4>2. Members(job[j].space) \subseteq blurred
        BY <1>1, <2>1, <3>2, <4>1 DEF ClimbOnce, SharedIsBlurred
      <4> QED BY <1>1, <1>2, <4>2 DEF Sharp
    <3> QED BY <3>1, <3>2
  <2> QED BY <1>3, <2>1, <2>2, <2>3 DEF ClimbOnce, AlertsClimb
<1>6. AlertedIsStored'
  <2> SUFFICES ASSUME NEW v \in User, Sharp(v)', ~ lastRank[v] <= alerted'[v]
               PROVE  \E k \in Job : /\ Alerting(job'[k]) /\ v \in job'[k].sent
                                     /\ job'[k].ranks[v].rank = alerted'[v]
    BY <1>2 DEF AlertedIsStored, Alerting
  <2>1. CASE alerted'[v] = alerted[v] /\ Sharp(v)
    <3>1. PICK k \in Job : Alerting(job[k]) /\ v \in job[k].sent /\ job[k].ranks[v].rank = alerted[v]
      BY <2>1 DEF ClimbOnce, AlertedIsStored
    <3> QED BY <1>1, <2>1, <3>1
  <2>2. CASE v = u /\ alerted' = [alerted EXCEPT ![u] = job[j].ranks[u].rank]
    <3>1. alerted'[u] = job[j].ranks[u].rank
      BY <2>2 DEF Typed, Tables
    <3> QED BY <1>1, <2>2, <3>1
  <2> QED BY <1>2, <1>3, <2>1, <2>2 DEF Sharp
<1> QED BY <1>4, <1>5, <1>6 DEF ClimbOnce

LEMMA RebaseKeepsClimbOnce ==
  ASSUME Typed, ClimbOnce, NEW j \in Job, Rebase(j)
  PROVE  ClimbOnce'
<1>1. ~ Alerting(job'[j]) /\ \A i \in Job : i # j => job'[i] = job[i]
  BY RebaseMoves, ComesTyped DEF Typed
<1>2. /\ UNCHANGED <<alerted, blurred>> /\ fell \subseteq fell'
      /\ \A u \in User : alerted[u] # 0 /\ lastRank'[u] > alerted[u] => u \in fell'
  BY DEF Rebase
<1>3. \A u : Sharp(u)' => Sharp(u)
  BY <1>2 DEF Sharp
<1>4. SharedIsBlurred'
  BY <1>1, <1>2 DEF ClimbOnce, SharedIsBlurred, Alerting, Members
<1>5. AlertsClimb'
  BY <1>1, <1>2, <1>3 DEF ClimbOnce, AlertsClimb, Alerting
<1>6. AlertedIsStored'
  <2> SUFFICES ASSUME NEW u \in User, Sharp(u)' PROVE lastRank'[u] <= alerted[u]
    BY <1>2 DEF AlertedIsStored
  <2>1. lastRank'[u] \in Nat /\ alerted[u] \in Nat
    <3>1. Written'
      BY WrittenStays DEF Kinds
    <3> QED BY <3>1, FS_CardinalityType, BoardAssumption DEF Written, Typed, Tables
  <2> QED BY <1>2, <2>1 DEF Sharp
<1> QED BY <1>4, <1>5, <1>6 DEF ClimbOnce

LEMMA ClimbOnceStays ==
  ASSUME Typed, ClimbOnce, Kinds
  PROVE  ClimbOnce'
<1>1. CASE Aside
  BY <1>1 DEF Aside, ClimbOnce, SharedIsBlurred, AlertsClimb, AlertedIsStored, Sharp, Alerting,
              Members, rankVars
<1>2. CASE Stores
  <2>1. UNCHANGED <<rankVars, job>>
    BY <1>2 DEF Stores, Store
  <2> QED BY <2>1 DEF ClimbOnce, SharedIsBlurred, AlertsClimb, AlertedIsStored, Sharp, Alerting,
            Members, rankVars
<1>3. ASSUME NEW j \in Job, Proceeds(j) \/ Scan(j) \/ Baseline(j) PROVE ClimbOnce'
  BY <1>3, CalmKeepsClimbOnce, ScanMoves, BaselineMoves DEF Proceeds, Scan, Baseline, rankVars
<1>4. ASSUME NEW j \in Job, NEW u \in User, NEW e \in EventSet, NEW lost, Push(j, u, e, lost)
      PROVE  ClimbOnce'
  BY <1>4, CalmKeepsClimbOnce, PushMoves DEF Push, rankVars
<1> QED BY <1>1, <1>2, <1>3, <1>4, ReadPrefsKeepsClimbOnce, AlertKeepsClimbOnce, RebaseKeepsClimbOnce
        DEF Kinds

LEMMA InitClimbOnce == Init => ClimbOnce
BY DEF Init, PushInit, ClimbOnce, SharedIsBlurred, AlertsClimb, AlertedIsStored, Sharp, Idle, Alerting

(***************************************************************************)
(* No player is told twice of a climb to the same place, unless the board  *)
(* had him lower meanwhile, his rank was not stored after the alert (a     *)
(* crash, a failed UPDATE of rank_alerts_for_tenant), or two jobs were in  *)
(* his space at once.                                                      *)
(***************************************************************************)
THEOREM ClimbsNeverRepeat == Spec => []ClimbsToldOnce
<1>1. Typed /\ ClimbOnce /\ [Next]_vars => Typed' /\ ClimbOnce'
  BY StepTyped, StepKinds, ClimbOnceStays
<1>2. ASSUME Typed, ClimbOnce PROVE ClimbsToldOnce
  <2> SUFFICES ASSUME NEW j \in Job, At(j, "ranks", "alert"), NEW u \in job[j].todo,
                      alerted[u] # 0, alerted[u] <= job[j].ranks[u].rank, ~ u \in fell \union blurred
               PROVE  FALSE
    BY DEF ClimbsToldOnce
  <2>1. Alerting(job[j])
    BY DEF Alerting, At
  <2>2. job[j].ranks[u].rank < alerted[u]
    BY <1>2, <2>1 DEF ClimbOnce, AlertsClimb, Sharp
  <2>3. u \in User /\ job[j].ranks[u].rank \in Nat
    BY <1>2, <2>1, AlertingHolds
  <2>4. alerted[u] \in Nat
    BY <1>2, <2>3, FS_CardinalityType, BoardAssumption DEF Typed, Tables
  <2> QED BY <2>2, <2>3, <2>4
<1> QED BY <1>1, <1>2, InitTyped, InitClimbOnce, PTL DEF Spec

-----------------------------------------------------------------------------
(***************************************************************************)
(* Goals are told.  What is written down of a match is known to a player,  *)
(* or a job still owes him the push that says so, or a push to him is      *)
(* missed.  For that, an event says what the row says as long as the row   *)
(* has its version, and a job that is about to write a row down has an     *)
(* event for it if it is worth a push, unless another has written it down. *)
(***************************************************************************)
Tells(e, x) ==
  /\ e.score = IF x.score = NULL THEN <<0, 0>> ELSE x.score
  /\ e.over => x.status = "FINISHED"

News(x) == [score |-> x.score, over |-> x.status = "FINISHED"]

EventsTell ==
  \A j \in Job : \A e \in job[j].events :
    /\ Busy(job[j]) /\ e.version = version[e.match] => Tells(e, row[e.match])
    /\ Live(job[j]) /\ e.version = based[e.match] => Tells(e, pushed[e.match])

WorthIsSeen ==
  \A j \in Job, m \in Match :
    Reading(job[j]) /\ <<m, version[m]>> \in job[j].seen =>
      \/ pushed[m] = row[m]
      \/ ~ WorthAPush(pushed[m], row[m])
      \/ \E e \in job[j].events : e.match = m /\ e.version = version[m]

Owed(u, m) == \E j \in Job : \E e \in job[j].events :
                Owes(job[j], u, e) /\ e.match = m /\ e.version = based[m]

KnownOrOwed ==
  \A u \in User, m \in Match :
    <<u, m>> \notin missed /\ pushed[m].score # NULL =>
      known[u][m] = News(pushed[m]) \/ Owed(u, m)

Tidings == EventsTell /\ WorthIsSeen /\ KnownOrOwed

LEMMA OwedThen ==
  ASSUME NEW u, NEW m, NEW i \in Job, NEW e, Owes(job'[i], u, e), e.match = m, e.version = based'[m]
  PROVE  Owed(u, m)'
BY DEF Owed, Owes

LEMMA KnownOrOwedStays ==
  ASSUME KnownOrOwed, UNCHANGED <<basisVars, known, missed, job>>
  PROVE  KnownOrOwed'
<1>1. \A u, m : Owed(u, m) => Owed(u, m)'
  BY DEF Owed, Owes, basisVars
<1> QED BY <1>1 DEF KnownOrOwed, News, basisVars

LEMMA SilentIfNotWorth ==
  ASSUME NEW prior, NEW now
  PROVE  Silent(prior, now) <=> ~ WorthAPush(prior, now)
BY DEF Silent, WorthAPush, IsGoal, IsFinal, OpeningNil

LEMMA SameIsNotWorth ==
  ASSUME NEW x
  PROVE  ~ WorthAPush(x, x)
BY DEF WorthAPush, IsGoal, IsFinal

LEMMA OnwardKeepsTidings ==
  ASSUME Typed, Tidings, NEW j \in Job, Onward(j), missed \subseteq missed',
         UNCHANGED <<row, version, basisVars, known>>
  PROVE  Tidings'
<1>1. /\ ~ Reading(job'[j]) /\ \A i \in Job : i # j => job'[i] = job[i]
      /\ Live(job'[j]) => Live(job[j]) /\ job'[j].events = job[j].events
  BY ComesTyped DEF Onward, Typed
<1>2. EventsTell'
  <2> SUFFICES ASSUME NEW i \in Job, NEW e \in job'[i].events
               PROVE  /\ Busy(job'[i]) /\ e.version = version[e.match] => Tells(e, row[e.match])
                      /\ Live(job'[i]) /\ e.version = based[e.match] => Tells(e, pushed[e.match])
    BY DEF EventsTell, Busy, Reading, Live, basisVars, Tells
  <2> QED BY <1>1 DEF Tidings, EventsTell, Busy
<1>3. WorthIsSeen'
  <2> SUFFICES ASSUME NEW i \in Job, NEW m \in Match,
                      Reading(job'[i]), <<m, version[m]>> \in job'[i].seen
               PROVE  \/ pushed[m] = row[m]
                      \/ ~ WorthAPush(pushed[m], row[m])
                      \/ \E e \in job'[i].events : e.match = m /\ e.version = version[m]
    BY DEF WorthIsSeen, Reading, basisVars, WorthAPush, IsGoal, IsFinal, OpeningNil
  <2> QED BY <1>1 DEF Tidings, WorthIsSeen
<1>4. KnownOrOwed'
  <2> SUFFICES ASSUME NEW u \in User, NEW m \in Match, <<u, m>> \notin missed', pushed[m].score # NULL,
                      known[u][m] # News(pushed[m])
               PROVE  Owed(u, m)'
    BY DEF KnownOrOwed, basisVars, News
  <2>1. PICK i \in Job, e \in EventSet : Owes(job[i], u, e) /\ e.match = m /\ e.version = based[m]
    BY EventOf DEF Tidings, KnownOrOwed, Owed
  <2>2. e \in EventSet
    BY EventOf
  <2>3. Owes(job'[i], u, e)
    BY <1>1, <2>1, <2>2 DEF Onward
  <2> QED BY <2>1, <2>3, OwedThen DEF basisVars
<1> QED BY <1>2, <1>3, <1>4 DEF Tidings

LEMMA ScanKeepsTidings ==
  ASSUME Typed, Tidings, NEW j \in Job, Scan(j)
  PROVE  Tidings'
<1>1. UNCHANGED <<row, version, basisVars, known, missed>>
  BY DEF Scan, matchVars
<1>2. CASE Onward(j)
  BY <1>1, <1>2, OnwardKeepsTidings
<1>3. CASE /\ Reading(job'[j])
           /\ job'[j].seen = {<<m, version[m]>> : m \in Candidates}
           /\ job'[j].events = {Event(m) : m \in Worthwhile}
  <2>1. ~ Live(job[j]) /\ ~ Live(job'[j]) /\ \A i \in Job : i # j => job'[i] = job[i]
    BY ScanMoves, ComesTyped DEF Typed
  <2>2. \A m \in Worthwhile : m \in Match /\ Tells(Event(m), row[m])
    BY DEF Worthwhile, Candidates, Tells, Event, IsFinal
  <2>3. \A m \in Worthwhile : Event(m).match = m /\ Event(m).version = version[m]
    BY DEF Event
  <2>4. EventsTell'
    <3> SUFFICES ASSUME NEW i \in Job, NEW e \in job'[i].events
                 PROVE  /\ Busy(job'[i]) /\ e.version = version[e.match] => Tells(e, row[e.match])
                        /\ Live(job'[i]) /\ e.version = based[e.match] => Tells(e, pushed[e.match])
      BY <1>1 DEF EventsTell, Busy, Reading, Live, basisVars, Tells
    <3>1. CASE i = j
      BY <1>3, <2>1, <2>2, <2>3, <3>1
    <3>2. CASE i # j
      BY <2>1, <3>2 DEF Tidings, EventsTell
    <3> QED BY <3>1, <3>2
  <2>5. WorthIsSeen'
    <3> SUFFICES ASSUME NEW i \in Job, NEW m \in Match,
                        Reading(job'[i]), <<m, version[m]>> \in job'[i].seen
                 PROVE  \/ pushed[m] = row[m]
                        \/ ~ WorthAPush(pushed[m], row[m])
                        \/ \E e \in job'[i].events : e.match = m /\ e.version = version[m]
      BY <1>1 DEF WorthIsSeen, Reading, basisVars, WorthAPush, IsGoal, IsFinal, OpeningNil
    <3>1. CASE i = j
      <4>1. m \in Candidates
        BY <1>3, <3>1
      <4>2. WorthAPush(pushed[m], row[m]) => Event(m) \in job'[j].events
        BY <1>3, <4>1 DEF Worthwhile
      <4> QED BY <3>1, <4>2 DEF Event
    <3>2. CASE i # j
      BY <2>1, <3>2 DEF Tidings, WorthIsSeen
    <3> QED BY <3>1, <3>2
  <2>6. KnownOrOwed'
    <3> SUFFICES ASSUME NEW u \in User, NEW m \in Match, <<u, m>> \notin missed, pushed[m].score # NULL,
                        known[u][m] # News(pushed[m])
                 PROVE  Owed(u, m)'
      BY <1>1 DEF KnownOrOwed, basisVars, News
    <3>1. PICK i \in Job, e \in EventSet : Owes(job[i], u, e) /\ e.match = m /\ e.version = based[m]
      BY EventOf DEF Tidings, KnownOrOwed, Owed
    <3>2. i # j
      BY <2>1, <3>1 DEF Owes, Live
    <3> QED BY <1>1, <2>1, <3>1, <3>2, OwedThen DEF basisVars
  <2> QED BY <2>4, <2>5, <2>6 DEF Tidings
<1> QED BY <1>2, <1>3, ScanMoves

LEMMA BaselineKeepsTidings ==
  ASSUME Typed, ToldOnce, Tidings, NEW j \in Job, Baseline(j)
  PROVE  Tidings'
<1>1. /\ UNCHANGED <<row, version>> /\ missed \subseteq missed'
      /\ pushed' = [m \in Match |-> IF m \in WrittenDown(j) THEN row[m] ELSE pushed[m]]
      /\ based' = [m \in Match |-> IF m \in WrittenDown(j) THEN version[m] ELSE based[m]]
      /\ known' = [u \in User |-> [m \in Match |->
           IF m \in WrittenDown(j) /\ Silent(pushed[m], row[m]) THEN News(row[m]) ELSE known[u][m]]]
      /\ \A u \in User, m \in Match : \A v \in 0..version[m] - 1 :
           <<m, v>> \in job[j].seen => <<u, m>> \in missed'
  BY DEF Baseline, matchVars, News
<1>2. /\ Reading(job[j]) /\ ~ Reading(job'[j]) /\ ~ Live(job[j]) /\ Fit(job[j])
      /\ \A i \in Job : i # j => job'[i] = job[i]
      /\ Live(job'[j]) => job'[j].events = job[j].events
      /\ job[j].events # {} =>
           job'[j].kind = "live" /\ job'[j].pc = "tenants" /\ job'[j].events = job[j].events
  BY BaselineMoves, ComesTyped DEF Typed, Jobs, Live
<1>3. \A e \in job[j].events : e.match \in WrittenDown(j) /\ e.match \in Match
  <2>1. \A e \in job[j].events : <<e.match, e.version>> \in job[j].seen /\ e.match \in Match
    BY <1>2, EventOf DEF Fit, Reading
  <2>2. ASSUME NEW e \in job[j].events PROVE e.match \in WrittenDown(j)
    <3>1. <<e.match, e.version>> \in job[j].seen
      BY <2>1
    <3>2. <<e.match, e.version>>[1] = e.match
      OBVIOUS
    <3> QED BY <3>1, <3>2 DEF WrittenDown
  <2> QED BY <2>1, <2>2
<1>4. EventsTell'
  <2> SUFFICES ASSUME NEW i \in Job, NEW e \in job'[i].events, Busy(job'[i])
               PROVE  /\ e.version = version[e.match] => Tells(e, row[e.match])
                      /\ Live(job'[i]) /\ e.version = based'[e.match] => Tells(e, pushed'[e.match])
    BY <1>1 DEF EventsTell, Busy, Reading, Live, Tells
  <2>1. Busy(job[i]) /\ e \in job[i].events
    BY <1>2 DEF Busy
  <2>2. e.version = version[e.match] => Tells(e, row[e.match])
    BY <2>1 DEF Tidings, EventsTell
  <2>3. e.match \in Match
    BY <2>1, EventOf
  <2>4. CASE e.match \in WrittenDown(j)
    BY <1>1, <2>2, <2>3, <2>4
  <2>5. CASE e.match \notin WrittenDown(j)
    <3>1. i # j
      BY <1>3, <2>1, <2>5
    <3>2. Live(job'[i]) => Live(job[i])
      BY <1>2, <3>1
    <3> QED BY <1>1, <2>1, <2>2, <2>3, <2>5, <3>2 DEF Tidings, EventsTell
  <2> QED BY <2>4, <2>5
<1>5. WorthIsSeen'
  <2> SUFFICES ASSUME NEW i \in Job, NEW m \in Match,
                      Reading(job'[i]), <<m, version[m]>> \in job'[i].seen
               PROVE  \/ pushed'[m] = row[m]
                      \/ ~ WorthAPush(pushed'[m], row[m])
                      \/ \E e \in job'[i].events : e.match = m /\ e.version = version[m]
    BY <1>1 DEF WorthIsSeen, Reading, WorthAPush, IsGoal, IsFinal, OpeningNil
  <2>1. i # j /\ job'[i] = job[i]
    BY <1>2
  <2>2. CASE m \in WrittenDown(j)
    BY <1>1, <2>2
  <2>3. CASE m \notin WrittenDown(j)
    BY <1>1, <2>1, <2>3 DEF Tidings, WorthIsSeen
  <2> QED BY <2>2, <2>3
<1>6. KnownOrOwed'
  <2> SUFFICES ASSUME NEW u \in User, NEW m \in Match, <<u, m>> \notin missed', pushed'[m].score # NULL,
                      known'[u][m] # News(pushed'[m])
               PROVE  Owed(u, m)'
    BY DEF KnownOrOwed, News
  <2>1. CASE m \notin WrittenDown(j)
    <3>1. /\ <<u, m>> \notin missed /\ pushed[m].score # NULL /\ known[u][m] # News(pushed[m])
          /\ based'[m] = based[m]
      BY <1>1, <2>1 DEF News
    <3>2. PICK i \in Job, e \in EventSet : Owes(job[i], u, e) /\ e.match = m /\ e.version = based[m]
      BY EventOf, <3>1 DEF Tidings, KnownOrOwed, Owed
    <3>3. i # j
      BY <1>2, <3>2 DEF Owes, Live
    <3> QED BY <1>2, <3>1, <3>2, <3>3, OwedThen
  <2>2. CASE m \in WrittenDown(j)
    <3>1. pushed'[m] = row[m] /\ based'[m] = version[m] /\ version[m] \in Nat
      BY <1>1, <2>2 DEF Typed, Tables
    <3>2. WorthAPush(pushed[m], row[m])
      <4>1. known'[u][m] = IF Silent(pushed[m], row[m]) THEN News(row[m]) ELSE known[u][m]
        BY <1>1, <2>2
      <4>2. ~ Silent(pushed[m], row[m])
        BY <3>1, <4>1
      <4> QED BY <4>2, SilentIfNotWorth
    <3>3. <<m, version[m]>> \in job[j].seen
      <4>1. PICK p \in job[j].seen : p[1] = m
        BY <2>2 DEF WrittenDown
      <4>2. p = <<m, p[2]>> /\ p[2] \in Nat
        BY <4>1 DEF Typed, Jobs, JobState
      <4>3. p[2] <= version[m]
        BY <1>2, <4>1 DEF ToldOnce, EventsAreOld
      <4>4. ~ p[2] < version[m]
        <5> SUFFICES ASSUME p[2] < version[m] PROVE FALSE
          OBVIOUS
        <5>1. p[2] \in 0..version[m] - 1
          BY <3>1, <4>2
        <5> QED BY <1>1, <4>2, <5>1
      <4> QED BY <3>1, <4>2, <4>3, <4>4
    <3>4. pushed[m] # row[m]
      BY <3>2, SameIsNotWorth
    <3>5. PICK e \in job[j].events : e.match = m /\ e.version = version[m]
      BY <1>2, <3>2, <3>3, <3>4 DEF Tidings, WorthIsSeen
    <3>6. e \in job'[j].events /\ Owes(job'[j], u, e)
      BY <1>2, <3>5 DEF Owes
    <3> QED BY <3>1, <3>5, <3>6, OwedThen
  <2> QED BY <2>1, <2>2
<1> QED BY <1>4, <1>5, <1>6 DEF Tidings

LEMMA PushKeepsTidings ==
  ASSUME Typed, Tidings, NEW j \in Job, NEW u \in User, NEW e \in EventSet, NEW lost,
         Push(j, u, e, lost)
  PROVE  Tidings'
<1>1. UNCHANGED <<row, version, basisVars>>
  BY DEF Push, matchVars
<1>2. /\ ~ Reading(job'[j]) /\ Live(job[j]) /\ Live(job'[j]) /\ job'[j].events = job[j].events
      /\ Owes(job[j], u, e) /\ \A i \in Job : i # j => job'[i] = job[i]
      /\ \A v \in User, f \in EventSet :
           Owes(job'[j], v, f) <=> Owes(job[j], v, f) /\ <<v, f>> # <<u, e>>
  BY PushMoves, ComesTyped DEF Typed
<1>3. e \in job[j].events /\ e.match \in Match
  BY <1>2 DEF Owes, EventSet
<1>4. EventsTell'
  <2> SUFFICES ASSUME NEW i \in Job, NEW f \in job'[i].events
               PROVE  /\ Busy(job'[i]) /\ f.version = version[f.match] => Tells(f, row[f.match])
                      /\ Live(job'[i]) /\ f.version = based[f.match] => Tells(f, pushed[f.match])
    BY <1>1 DEF EventsTell, Busy, Reading, Live, basisVars, Tells
  <2> QED BY <1>2 DEF Tidings, EventsTell, Busy
<1>5. WorthIsSeen'
  <2> SUFFICES ASSUME NEW i \in Job, NEW m \in Match,
                      Reading(job'[i]), <<m, version[m]>> \in job'[i].seen
               PROVE  \/ pushed[m] = row[m]
                      \/ ~ WorthAPush(pushed[m], row[m])
                      \/ \E f \in job'[i].events : f.match = m /\ f.version = version[m]
    BY <1>1 DEF WorthIsSeen, Reading, basisVars, WorthAPush, IsGoal, IsFinal, OpeningNil
  <2> QED BY <1>2 DEF Tidings, WorthIsSeen
<1>6. KnownOrOwed'
  <2> SUFFICES ASSUME NEW v \in User, NEW m \in Match, <<v, m>> \notin missed', pushed[m].score # NULL,
                      known'[v][m] # News(pushed[m])
               PROVE  Owed(v, m)'
    BY <1>1 DEF KnownOrOwed, basisVars, News
  \* A push that went well says what is written down.
  <2>1. <<v, m>> # <<u, e.match>>
    <3> SUFFICES ASSUME v = u, m = e.match PROVE FALSE
      OBVIOUS
    <3>1. /\ e.version = based[m]
          /\ known' = [known EXCEPT ![u][m] =
                         [score |-> e.score, over |-> e.over \/ pushed[m].status = "FINISHED"]]
      BY DEF Push
    <3>2. Tells(e, pushed[m])
      BY <1>2, <1>3, <3>1 DEF Tidings, EventsTell
    <3>3. known'[u][m] = [score |-> e.score, over |-> e.over \/ pushed[m].status = "FINISHED"]
      BY <3>1 DEF Typed, Tables
    <3>4. e.score = pushed[m].score
      BY <3>2 DEF Tells
    <3>5. (e.over \/ pushed[m].status = "FINISHED") = (pushed[m].status = "FINISHED")
      <4>1. e.over \in BOOLEAN
        BY DEF EventSet
      <4> QED BY <3>2, <4>1 DEF Tells
    <3> QED BY <3>3, <3>4, <3>5 DEF News
  <2>2. known'[v][m] = known[v][m] /\ <<v, m>> \notin missed
    <3>1. CASE UNCHANGED known /\ missed' = missed \union {<<u, e.match>>}
      BY <3>1
    <3>2. CASE /\ missed \ {<<u, e.match>>} \subseteq missed'
               /\ known' = [known EXCEPT ![u][e.match] =
                    [score |-> e.score, over |-> e.over \/ pushed[e.match].status = "FINISHED"]]
      BY <2>1, <3>2 DEF Typed, Tables
    <3> QED BY <3>1, <3>2 DEF Push
  <2>3. PICK i \in Job, f \in EventSet : Owes(job[i], v, f) /\ f.match = m /\ f.version = based[m]
    BY EventOf, <2>2 DEF Tidings, KnownOrOwed, Owed
  <2>4. Owes(job'[i], v, f)
    BY <1>2, <2>1, <2>3
  <2> QED BY <1>1, <2>3, <2>4, OwedThen DEF basisVars
<1> QED BY <1>4, <1>5, <1>6 DEF Tidings

LEMMA StoresKeepsTidings ==
  ASSUME Typed, ToldOnce, Tidings, Stores
  PROVE  Tidings'
<1>1. PICK n \in Match, new \in Stored : Store(n, new)
  BY DEF Stores
<1>2. /\ UNCHANGED <<pushed, based, known, missed, job>>
      /\ row' = [row EXCEPT ![n] = new] /\ version' = [version EXCEPT ![n] = @ + 1]
  BY <1>1 DEF Stores, Store, basisVars, scoreGhosts
<1>3. \A m \in Match : /\ version[m] \in Nat /\ based[m] \in Nat /\ based[m] <= version[m]
                       /\ m # n => version'[m] = version[m] /\ row'[m] = row[m]
                       /\ m = n => version'[m] = version[m] + 1
  BY <1>2 DEF ToldOnce, VersionsAgree, Typed, Tables
\* What a job has read or owes is older than the new version.
<1>4. ASSUME NEW i \in Job, NEW e \in job[i].events, Busy(job[i]), e.version = version'[e.match]
      PROVE  e.match # n /\ e.match \in Match
  <2>1. e.match \in Match /\ e.version \in Nat
    BY EventOf
  <2>2. e.version <= version[e.match]
    <3>1. CASE Live(job[i])
      <4>1. e.version <= based[e.match]
        BY <3>1 DEF ToldOnce, EventsAreOld
      <4> QED BY <1>3, <2>1, <4>1
    <3>2. CASE Reading(job[i])
      <4>1. <<e.match, e.version>> \in job[i].seen
        BY <3>2 DEF Typed, Jobs, Fit, Reading
      <4>2. \A p \in job[i].seen : p[2] <= version[p[1]]
        BY <3>2 DEF ToldOnce, EventsAreOld
      <4> QED BY <4>1, <4>2
    <3> QED BY <1>4, <3>1, <3>2 DEF Busy
  <2> QED BY <1>3, <1>4, <2>1, <2>2
<1>5. EventsTell'
  <2> SUFFICES ASSUME NEW i \in Job, NEW e \in job[i].events
               PROVE  /\ Busy(job[i]) /\ e.version = version'[e.match] => Tells(e, row'[e.match])
                      /\ Live(job[i]) /\ e.version = based[e.match] => Tells(e, pushed[e.match])
    BY <1>2 DEF EventsTell, Busy, Reading, Live, Tells
  <2>1. ASSUME Busy(job[i]), e.version = version'[e.match] PROVE Tells(e, row'[e.match])
    <3>1. e.match # n /\ e.match \in Match
      BY <1>4, <2>1
    <3>2. version'[e.match] = version[e.match] /\ row'[e.match] = row[e.match]
      BY <1>3, <3>1
    <3> QED BY <2>1, <3>2 DEF Tidings, EventsTell
  <2> QED BY <2>1 DEF Tidings, EventsTell
<1>6. WorthIsSeen'
  <2> SUFFICES ASSUME NEW i \in Job, NEW m \in Match,
                      Reading(job[i]), <<m, version'[m]>> \in job[i].seen
               PROVE  \/ pushed[m] = row'[m]
                      \/ ~ WorthAPush(pushed[m], row'[m])
                      \/ \E e \in job[i].events : e.match = m /\ e.version = version'[m]
    BY <1>2 DEF WorthIsSeen, Reading, WorthAPush, IsGoal, IsFinal, OpeningNil
  <2>1. m # n
    <3>1. version'[m] <= version[m]
      <4>1. \A p \in job[i].seen : p[2] <= version[p[1]]
        BY DEF ToldOnce, EventsAreOld
      <4> QED BY <4>1
    <3> QED BY <1>3, <3>1
  <2> QED BY <1>3, <2>1 DEF Tidings, WorthIsSeen
<1>7. KnownOrOwed'
  BY <1>2, KnownOrOwedStays DEF Tidings, basisVars
<1> QED BY <1>5, <1>6, <1>7 DEF Tidings

LEMMA TidingsStay ==
  ASSUME Typed, ToldOnce, Tidings, Kinds
  PROVE  Tidings'
<1>1. CASE Aside
  <2>1. UNCHANGED <<row, version, basisVars, known, missed, job>>
    BY <1>1 DEF Aside, scoreGhosts
  <2>2. EventsTell'
    BY <2>1 DEF Tidings, EventsTell, Tells, Busy, Reading, Live, basisVars
  <2>3. WorthIsSeen'
    BY <2>1 DEF Tidings, WorthIsSeen, Reading, WorthAPush, IsGoal, IsFinal, OpeningNil, basisVars
  <2> QED BY <2>1, <2>2, <2>3, KnownOrOwedStays DEF Tidings
<1>2. ASSUME NEW j \in Job, Proceeds(j) PROVE Tidings'
  BY <1>2, OnwardKeepsTidings DEF Proceeds
<1>3. ASSUME NEW j \in Job, ReadPrefs(j) \/ Rebase(j) PROVE Tidings'
  BY <1>3, OnwardKeepsTidings, ReadPrefsMoves, RebaseMoves
     DEF ReadPrefs, Rebase, matchVars, scoreGhosts
<1>4. ASSUME NEW j \in Job, NEW u \in User, NEW lost, Alert(j, u, lost) PROVE Tidings'
  BY <1>4, OnwardKeepsTidings, AlertMoves DEF Alert, matchVars, scoreGhosts
<1> QED BY <1>1, <1>2, <1>3, <1>4, StoresKeepsTidings, ScanKeepsTidings, BaselineKeepsTidings,
           PushKeepsTidings DEF Kinds

LEMMA InitTidings == Init => Tidings
BY DEF Init, PushInit, Tidings, EventsTell, WorthIsSeen, KnownOrOwed, Unseen, Idle, Reading

(***************************************************************************)
(* Every goal and final whistle that send_live_score_updates writes down   *)
(* reaches every player, unless a push to him went wrong or the row was    *)
(* stored between the SELECT and the UPDATE: when no live score job runs,  *)
(* what a player was told last of a match is what is written down of it.   *)
(***************************************************************************)
THEOREM GoalsReachPlayers == Spec => []GoalsAreTold
<1>1. Typed /\ ToldOnce /\ Tidings /\ [Next]_vars => Typed' /\ ToldOnce' /\ Tidings'
  BY StepTyped, StepKinds, ToldOnceStays, TidingsStay
<1>2. ASSUME Tidings PROVE GoalsAreTold
  <2> SUFFICES ASSUME \A j \in Job : job[j].kind # "live", NEW u \in User, NEW m \in Match,
                      <<u, m>> \notin missed, pushed[m].score # NULL
               PROVE  known[u][m] = News(pushed[m])
    BY DEF GoalsAreTold, News
  <2>1. ~ Owed(u, m)
    BY DEF Owed, Owes
  <2> QED BY <1>2, <2>1 DEF Tidings, KnownOrOwed
<1> QED BY <1>1, <1>2, InitTyped, InitToldOnce, InitTidings, PTL DEF Spec


-----------------------------------------------------------------------------
(***************************************************************************)
(* A page that shows a pot shows who wins it.  The board and the pot are   *)
(* read by two statements (src/routes/leaderboard.rs): the first three of  *)
(* those who paid (top_paid_from_leaderboard of src/stakes.rs), and the    *)
(* sum of their stakes (load_pot).  Both are empty when no one has paid,   *)
(* and neither is when someone has: the first of the board has place 1,    *)
(* and a stake that is paid is not zero.                                   *)
(***************************************************************************)
Paying(s) == Members(s) \intersect paid

PageRow ==
  [pc : {"none", "pot", "shown"}, space : Space \union {NULL},
   top : SUBSET [user : User, place : 1..3, stake : Tier \union {0}], pot : Nat,
   won : SUBSET [user : User, weight : Nat], torn : BOOLEAN]

PaidIsStaked == \A u \in paid : stake[u] # 0

PageAgrees ==
  /\ page \in PageRow
  /\ page.pc = "pot" /\ ~ page.torn => (page.top # {} <=> Paying(page.space) # {})

PotHolds == PaidIsStaked /\ PageAgrees /\ PotIsWon

LEMMA PayingFinite ==
  ASSUME NEW s
  PROVE  IsFiniteSet(Paying(s)) /\ Paying(s) \subseteq User
BY BoardAssumption, FS_Subset DEF Paying, Members

LEMMA TierType == \A t \in Tier : t \in Nat /\ t > 0
<1>1. \A t \in Tier : t \in Nat \ {0}
  BY TierAssumption
<1> QED BY <1>1

LEMMA PotType ==
  ASSUME StakeTyped, NEW s
  PROVE  Pot(s) \in Nat /\ (Pot(s) > 0 <=> \E u \in Paying(s) : stake[u] > 0)
<1> DEFINE total == CHOOSE f : IsTotal(f, stake, Paying(s))
<1>1. Pot(s) = total[Paying(s)]
  BY DEF Pot, Paying, FoldSet, MapThenFoldSet, IsTotal
<1>2. IsTotal(total, stake, Paying(s))
  <2>1. \E f : IsTotal(f, stake, Paying(s))
    BY PayingFinite, TotalExists
  <2> QED BY <2>1
<1>3. \A u \in Paying(s) : stake[u] \in Nat
  <2>1. \A u \in Paying(s) : u \in User /\ stake[u] \in Tier \union {0}
    BY PayingFinite DEF StakeTyped
  <2> QED BY <2>1, TierType
<1> HIDE DEF total
<1>4. total[Paying(s)] \in Nat
  BY <1>2, <1>3, PayingFinite, TotalIsNat
<1>5. total[Paying(s)] > 0 <=> \E u \in Paying(s) : stake[u] > 0
  BY <1>2, <1>3, PayingFinite, TotalIsPositive
<1> QED BY <1>1, <1>4, <1>5

LEMMA AheadOrders ==
  ASSUME Tables, NEW u \in User, NEW v \in User, NEW w \in User
  PROVE  ~ Ahead(u, u) /\ (Ahead(u, v) /\ Ahead(v, w) => Ahead(u, w))
<1>1. \A x \in User : standing[x] \in [points : Nat, exact : Nat, settled : Nat] /\ Joined[x] \in Nat
  BY BoardAssumption DEF Tables
<1> QED BY <1>1 DEF Ahead

(***************************************************************************)
(* The one with the fewest players ahead has none.                         *)
(***************************************************************************)
LEMMA SomeoneLeads ==
  ASSUME Tables, NEW P, P \subseteq User, P # {}
  PROVE  \E u \in P : {v \in P : Ahead(v, u)} = {}
<1> DEFINE Front(u) == {v \in P : Ahead(v, u)}
           Counts == {Cardinality(Front(u)) : u \in P}
<1>1. \A u \in P : IsFiniteSet(Front(u)) /\ Cardinality(Front(u)) \in Nat
  BY BoardAssumption, FS_Subset, FS_CardinalityType
<1>2. \E n \in Counts : \A k \in Counts : n <= k
  <2>1. Counts \subseteq Nat /\ Counts # {}
    BY <1>1
  <2> HIDE DEF Counts
  <2> QED BY <2>1, LeastNumber
<1>3. PICK u \in P : \A v \in P : Cardinality(Front(u)) <= Cardinality(Front(v))
  BY <1>2
<1>4. ASSUME NEW v \in Front(u) PROVE FALSE
  <2>1. v \in P /\ Front(v) \subseteq Front(u) /\ v \notin Front(v)
    BY AheadOrders
  <2>2. Cardinality(Front(v)) <= Cardinality(Front(u))
        /\ (Cardinality(Front(v)) = Cardinality(Front(u)) => Front(v) = Front(u))
    <3> HIDE DEF Front
    <3> QED BY <1>1, <1>3, <2>1, FS_Subset
  <2>3. Cardinality(Front(v)) = Cardinality(Front(u))
    <3> HIDE DEF Front
    <3> QED BY <1>1, <1>3, <2>1, <2>2
  <2> QED BY <2>1, <2>2, <2>3
<1> QED BY <1>4

LEMMA TopOfPaying ==
  ASSUME Tables, StakeTyped, PaidIsStaked, NEW s
  PROVE  /\ TopPaid(s) # {} <=> Paying(s) # {}
         /\ TopPaid(s) \subseteq [user : User, place : 1..3, stake : Tier \union {0}]
<1> DEFINE Payers == {u \in Members(s) : u \in paid /\ stake[u] # 0}
           Place(u) == 1 + Cardinality({v \in Payers : Ahead(v, u)})
<1>1. Payers = Paying(s) /\ Payers \subseteq User
  BY DEF PaidIsStaked, Paying, Members
<1>2. TopPaid(s) = {[user |-> u, place |-> Place(u), stake |-> stake[u]] : u \in {v \in Payers : Place(v) <= 3}}
  BY DEF TopPaid
<1>3. ASSUME Payers # {} PROVE \E u \in Payers : Place(u) <= 3
  <2>1. PICK u \in Payers : {v \in Payers : Ahead(v, u)} = {}
    <3> HIDE DEF Payers
    <3> QED BY <1>1, <1>3, SomeoneLeads
  <2>2. Place(u) = 1
    BY <2>1, FS_EmptySet
  <2> QED BY <2>2
<1>4. ASSUME NEW u \in Payers, Place(u) <= 3 PROVE Place(u) \in 1..3
  <2> DEFINE before == {v \in Payers : Ahead(v, u)}
  <2>1. Cardinality(before) \in Nat
    BY <1>1, BoardAssumption, FS_Subset, FS_CardinalityType
  <2> HIDE DEF before
  <2>2. 1 + Cardinality(before) \in 1..3
    <3>1. 1 + Cardinality(before) <= 3
      BY <1>4 DEF before
    <3> QED BY <2>1, <3>1
  <2> QED BY <2>2 DEF before
<1>5. \A u \in Payers : stake[u] \in Tier \union {0}
  BY <1>1 DEF StakeTyped
<1>6. \A u \in Payers : u \in User
  BY <1>1
<1> HIDE DEF Payers, Place
<1>7. TopPaid(s) # {} <=> Payers # {}
  BY <1>2, <1>3
<1>8. ASSUME NEW t \in TopPaid(s) PROVE t \in [user : User, place : 1..3, stake : Tier \union {0}]
  <2>1. PICK u \in Payers : Place(u) <= 3 /\ t = [user |-> u, place |-> Place(u), stake |-> stake[u]]
    BY <1>2
  <2> QED BY <2>1, <1>4, <1>5, <1>6
<1> QED BY <1>1, <1>7, <1>8

LEMMA PayoutsType ==
  ASSUME NEW pot \in Nat, NEW top \in SUBSET [user : User, place : 1..3, stake : Tier \union {0}]
  PROVE  /\ Payouts(pot, top) # {} <=> pot > 0 /\ top # {}
         /\ Payouts(pot, top) \subseteq [user : User, weight : Nat]
<1>1. ASSUME NEW t \in top PROVE BaseShare[t.place] * t.stake \in Nat
  <2>1. t.stake \in Nat
    <3>1. t.stake \in Tier \union {0}
      OBVIOUS
    <3> QED BY <3>1, TierType
  <2>2. t.place = 1 \/ t.place = 2 \/ t.place = 3
    OBVIOUS
  <2>3. BaseShare[t.place] = 5 \/ BaseShare[t.place] = 3 \/ BaseShare[t.place] = 2
    BY <2>2 DEF BaseShare
  <2> QED BY <2>1, <2>3
<1>2. \A t \in top : [user |-> t.user, weight |-> BaseShare[t.place] * t.stake] \in [user : User, weight : Nat]
  BY <1>1
<1>3. CASE pot > 0
  <2>1. Payouts(pot, top) = {[user |-> t.user, weight |-> BaseShare[t.place] * t.stake] : t \in top}
    BY <1>3 DEF Payouts
  <2>2. Payouts(pot, top) # {} <=> top # {}
    BY <2>1
  <2>3. Payouts(pot, top) \subseteq [user : User, weight : Nat]
    BY <1>2, <2>1
  <2> QED BY <1>3, <2>2, <2>3
<1>4. CASE ~ pot > 0
  BY <1>4 DEF Payouts
<1> QED BY <1>3, <1>4

LEMMA ReadPotKeeps ==
  ASSUME StakeTyped, PaidIsStaked, PageAgrees, ReadPot
  PROVE  PageAgrees' /\ PotIsWon'
<1> DEFINE pot == Pot(page.space)
           won == Payouts(pot, page.top)
<1>1. page' = [page EXCEPT !.pc = "shown", !.pot = pot, !.won = won] /\ page.pc = "pot"
  BY DEF ReadPot
<1>2. /\ page \in PageRow
      /\ pot \in Nat /\ (pot > 0 <=> \E u \in Paying(page.space) : stake[u] > 0)
  BY PotType DEF PageAgrees
<1>3. /\ won \subseteq [user : User, weight : Nat]
      /\ won # {} <=> pot > 0 /\ page.top # {}
  <2>1. page.top \in SUBSET [user : User, place : 1..3, stake : Tier \union {0}]
    BY <1>2 DEF PageRow
  <2> HIDE DEF pot
  <2> QED BY <1>2, <2>1, PayoutsType
<1>4. pot > 0 <=> Paying(page.space) # {}
  <2>1. \A u \in Paying(page.space) : stake[u] > 0
    <3>1. \A u \in Paying(page.space) : stake[u] \in Tier \union {0} /\ stake[u] # 0
      BY DEF Paying, Members, PaidIsStaked, StakeTyped
    <3> QED BY <3>1, TierType
  <2> HIDE DEF pot
  <2> QED BY <1>2, <2>1
<1> HIDE DEF pot, won
<1>5. page' \in PageRow /\ page'.pc = "shown" /\ page'.torn = page.torn /\ page'.pot = pot /\ page'.won = won
  BY <1>1, <1>2, <1>3 DEF PageRow
<1>6. ~ page.torn => (page.top # {} <=> Paying(page.space) # {})
  BY <1>1 DEF PageAgrees
<1>7. PotIsWon'
  BY <1>3, <1>4, <1>5, <1>6 DEF PotIsWon
<1>8. PageAgrees'
  BY <1>5 DEF PageAgrees, PageRow
<1> QED BY <1>7, <1>8

LEMMA ReadBoardKeeps ==
  ASSUME Tables, StakeTyped, PaidIsStaked, NEW s \in Space, ReadBoard(s)
  PROVE  PageAgrees' /\ PotIsWon'
<1>1. page' = [NoPage EXCEPT !.pc = "pot", !.space = s, !.top = TopPaid(s)] /\ paid' = paid
  BY DEF ReadBoard
<1>2. /\ page'.pc = "pot" /\ page'.space = s /\ page'.top = TopPaid(s)
      /\ page' \in PageRow
  BY <1>1, TopOfPaying DEF NoPage, PageRow
<1>3. Paying(s)' = Paying(s)
  BY <1>1 DEF Paying, Members
<1>4. page'.top # {} <=> Paying(s) # {}
  BY <1>2, TopOfPaying
<1>5. Paying(page.space)' = Paying(s)
  BY <1>1, <1>2 DEF Paying, Members
<1>6. page' \in PageRow /\ (page'.pc = "pot" /\ ~ page'.torn => (page'.top # {} <=> Paying(page.space)' # {}))
  BY <1>2, <1>4, <1>5
<1> QED BY <1>2, <1>6 DEF PageAgrees, PotIsWon, PageRow

(***************************************************************************)
(* A mark tears the page that is between its statements; one that is shown *)
(* stays as it is.                                                         *)
(***************************************************************************)
LEMMA TornKeeps ==
  ASSUME PageAgrees, PotIsWon, page' = Torn
  PROVE  PageAgrees' /\ PotIsWon'
<1>1. page \in PageRow
  BY DEF PageAgrees
<1>2. /\ page' \in PageRow /\ page'.pc = page.pc /\ page'.pot = page.pot /\ page'.won = page.won
      /\ page'.torn = (page.torn \/ page.pc = "pot")
  BY <1>1 DEF Torn, PageRow
<1>3. page.pc # "pot" => page'.torn = page.torn
  BY <1>1, <1>2 DEF PageRow
<1>4. ~ (page'.pc = "pot" /\ ~ page'.torn)
  BY <1>2
<1>5. PageAgrees'
  BY <1>2, <1>4 DEF PageAgrees, PageRow
<1>6. PotIsWon'
  BY <1>2, <1>3 DEF PotIsWon
<1> QED BY <1>5, <1>6

LEMMA PageStays ==
  ASSUME PageAgrees, PotIsWon, UNCHANGED <<page, paid>>
  PROVE  PageAgrees' /\ PotIsWon'
BY DEF PageAgrees, PotIsWon, PageRow, Paying, Members

LEMMA PotStep ==
  ASSUME Typed, PotHolds, [Next]_vars
  PROVE  PotHolds'
<1>1. Tables /\ StakeTyped /\ PaidIsStaked /\ PageAgrees /\ PotIsWon
  BY DEF Typed, PotHolds
<1>2. ASSUME NEW u \in User, NEW tier \in AskedTier, AskStake(u, tier) PROVE PotHolds'
  BY <1>1, <1>2, PageStays DEF AskStake, PotHolds, PaidIsStaked
<1>3. ASSUME NEW ask \in asking, StoreStake(ask[1], ask[2], ask[3]) PROVE PotHolds'
  <2>1. ask[1] \in User /\ ask[2] # 0
    BY <1>1, TierAssumption DEF StakeTyped
  <2>2. PaidIsStaked'
    BY <1>1, <1>3, <2>1 DEF StoreStake, PaidIsStaked, StakeTyped
  <2> QED BY <1>1, <1>3, <2>2, PageStays DEF StoreStake, PotHolds
<1>4. ASSUME NEW u \in User, MarkPaid(u) \/ MarkUnpaid(u) PROVE PotHolds'
  <2>1. page' = Torn
    BY <1>4 DEF MarkPaid, MarkUnpaid
  <2>2. PaidIsStaked'
    BY <1>1, <1>4 DEF MarkPaid, MarkUnpaid, PaidIsStaked
  <2> QED BY <1>1, <2>1, <2>2, TornKeeps DEF PotHolds
<1>5. CASE DeadlinePasses
  BY <1>1, <1>5, PageStays DEF DeadlinePasses, PotHolds, PaidIsStaked
<1>6. ASSUME NEW s \in Space, ReadBoard(s) PROVE PotHolds'
  <2>1. PaidIsStaked'
    BY <1>1, <1>6 DEF ReadBoard, PaidIsStaked
  <2> QED BY <1>1, <1>6, <2>1, ReadBoardKeeps DEF PotHolds
<1>7. CASE ReadPot
  <2>1. PaidIsStaked'
    BY <1>1, <1>7 DEF ReadPot, PaidIsStaked
  <2> QED BY <1>1, <1>7, <2>1, ReadPotKeeps DEF PotHolds
<1>8. CASE LeavePage
  <2>1. page' = NoPage /\ PaidIsStaked'
    BY <1>1, <1>8 DEF LeavePage, PaidIsStaked
  <2>2. page' \in PageRow /\ page'.pc = "none"
    BY <2>1 DEF NoPage, PageRow
  <2> QED BY <2>1, <2>2 DEF PotHolds, PageAgrees, PotIsWon, PageRow
<1>9. CASE UNCHANGED stakeVars
  BY <1>1, <1>9, PageStays DEF stakeVars, PotHolds, PaidIsStaked
<1> QED BY <1>2, <1>3, <1>4, <1>5, <1>6, <1>7, <1>8, <1>9 DEF Next, Bets, vars

THEOREM PotHasWinners == Spec => []PotIsWon
<1>1. Init => Typed /\ PotHolds
  <2>1. SUFFICES ASSUME Init PROVE PotHolds
    BY InitTyped
  <2>2. page \in PageRow /\ page.pc = "none"
    BY <2>1 DEF Init, StakesInit, NoPage, PageRow
  <2>3. PaidIsStaked
    BY <2>1 DEF Init, StakesInit, PaidIsStaked
  <2> QED BY <2>2, <2>3 DEF PotHolds, PageAgrees, PotIsWon
<1>2. Typed /\ PotHolds /\ [Next]_vars => Typed' /\ PotHolds'
  BY StepTyped, PotStep
<1>3. PotHolds => PotIsWon
  BY DEF PotHolds
<1> QED BY <1>1, <1>2, <1>3, PTL DEF Spec

-----------------------------------------------------------------------------
(***************************************************************************)
(* Places.  The code numbers the rows of a sorted board; the model counts  *)
(* who is ahead.  They are one: the counts are 1, 2, 3 and so on, each     *)
(* once, because no two players tie (load_leaderboard of src/stakes.rs     *)
(* ends its ORDER BY with the seniority, and seniorities differ).          *)
(***************************************************************************)
PlaceIn(P, u) == 1 + Cardinality({v \in P : Ahead(v, u)})

LEMMA AheadConnects ==
  ASSUME Tables, NEW u \in User, NEW v \in User, u # v
  PROVE  Ahead(u, v) \/ Ahead(v, u)
<1>1. \A x \in User : standing[x] \in [points : Nat, exact : Nat, settled : Nat] /\ Joined[x] \in Nat
  BY BoardAssumption DEF Tables
<1>2. Joined[u] # Joined[v]
  BY BoardAssumption
<1>3. \/ standing[u].points # standing[v].points \/ standing[u].exact # standing[v].exact
      \/ standing[u].settled # standing[v].settled
      \/ standing[u] = standing[v]
  BY <1>1
<1> QED BY <1>1, <1>2, <1>3 DEF Ahead

LEMMA PlaceType ==
  ASSUME Tables, NEW P, P \subseteq User, NEW u \in P
  PROVE  PlaceIn(P, u) \in 1..Cardinality(P) /\ Cardinality(P) \in Nat
<1> DEFINE front == {v \in P : Ahead(v, u)}
<1>1. IsFiniteSet(P) /\ Cardinality(P) \in Nat
  BY BoardAssumption, FS_Subset, FS_CardinalityType
<1>2. front \subseteq P /\ front # P
  BY AheadOrders
<1> HIDE DEF front
<1>3. Cardinality(front) \in Nat /\ Cardinality(front) < Cardinality(P)
  BY <1>1, <1>2, FS_Subset, FS_CardinalityType
<1>4. 1 + Cardinality(front) \in 1..Cardinality(P)
  BY <1>1, <1>3
<1> QED BY <1>1, <1>4 DEF front, PlaceIn

(***************************************************************************)
(* Who is ahead of another has the smaller place.                          *)
(***************************************************************************)
LEMMA PlaceOrders ==
  ASSUME Tables, NEW P, P \subseteq User, NEW u \in P, NEW v \in P, Ahead(u, v)
  PROVE  PlaceIn(P, u) < PlaceIn(P, v)
<1> DEFINE Front(x) == {w \in P : Ahead(w, x)}
<1>1. IsFiniteSet(Front(u)) /\ IsFiniteSet(Front(v))
  BY BoardAssumption, FS_Subset
<1>2. Front(u) \subseteq Front(v) /\ u \in Front(v) /\ u \notin Front(u)
  BY AheadOrders
<1>3. PlaceIn(P, u) = 1 + Cardinality(Front(u)) /\ PlaceIn(P, v) = 1 + Cardinality(Front(v))
  BY DEF PlaceIn
<1> HIDE DEF Front
<1>4. /\ Cardinality(Front(u)) \in Nat /\ Cardinality(Front(v)) \in Nat
      /\ Cardinality(Front(u)) < Cardinality(Front(v))
  BY <1>1, <1>2, FS_Subset, FS_CardinalityType
<1> QED BY <1>3, <1>4

LEMMA PlacesEnumerate ==
  ASSUME Tables, NEW P, P \subseteq User
  PROVE  /\ {PlaceIn(P, u) : u \in P} = 1..Cardinality(P)
         /\ \A u, v \in P : PlaceIn(P, u) = PlaceIn(P, v) => u = v
<1> DEFINE places == {PlaceIn(P, u) : u \in P}
           f == [u \in P |-> PlaceIn(P, u)]
<1>1. IsFiniteSet(P) /\ Cardinality(P) \in Nat
  BY BoardAssumption, FS_Subset, FS_CardinalityType
<1>2. \A u \in P : PlaceIn(P, u) \in 1..Cardinality(P)
  BY PlaceType
<1>3. ASSUME NEW u \in P, NEW v \in P, u # v PROVE PlaceIn(P, u) # PlaceIn(P, v)
  <2>1. Ahead(u, v) \/ Ahead(v, u)
    BY <1>3, AheadConnects
  <2>2. PlaceIn(P, u) \in Int /\ PlaceIn(P, v) \in Int
    BY <1>1, <1>2
  <2>3. PlaceIn(P, u) < PlaceIn(P, v) \/ PlaceIn(P, v) < PlaceIn(P, u)
    BY <2>1, PlaceOrders
  <2> QED BY <2>2, <2>3
<1>4. f \in Injection(P, places) /\ f \in Surjection(P, places)
  BY <1>3 DEF Injection, Surjection, IsInjective
<1>5. IsFiniteSet(places) /\ Cardinality(places) = Cardinality(P)
  <2> HIDE DEF f, places
  <2> QED BY <1>1, <1>4, FS_Surjection
<1>6. IsFiniteSet(1..Cardinality(P)) /\ Cardinality(1..Cardinality(P)) = Cardinality(P)
  BY <1>1, FS_Interval
<1>7. places \subseteq 1..Cardinality(P)
  BY <1>2
<1>8. places = 1..Cardinality(P)
  <2> HIDE DEF places
  <2> QED BY <1>5, <1>6, <1>7, FS_Subset
<1> QED BY <1>3, <1>8

\* The ranks of each space are 1 to the number of its members, one each.
RanksEnumerate ==
  \A s \in Space :
    /\ {Rank(u) : u \in Members(s)} = 1..Cardinality(Members(s))
    /\ \A u, v \in Members(s) : Rank(u) = Rank(v) => u = v

(***************************************************************************)
(* On every board of every state, the ranks of the members of a space are  *)
(* 1 to their number, each had by one player: what load_leaderboard gives  *)
(* out (src/stakes.rs), and the rank alerts compare and store              *)
(* (rank_alerts_for_tenant of src/notifications.rs).                       *)
(***************************************************************************)
THEOREM RanksAreOneEach == Spec => []RanksEnumerate
<1>1. ASSUME Tables PROVE RanksEnumerate
  <2>1. SUFFICES ASSUME NEW s \in Space
                 PROVE  /\ {Rank(u) : u \in Members(s)} = 1..Cardinality(Members(s))
                        /\ \A u, v \in Members(s) : Rank(u) = Rank(v) => u = v
    BY DEF RanksEnumerate
  <2>2. Members(s) \subseteq User
    BY DEF Members
  <2>3. \A u \in Members(s) : Rank(u) = PlaceIn(Members(s), u)
    <3>1. \A u \in Members(s) : SpaceOf[u] = s
      BY DEF Members
    <3> QED BY <3>1 DEF Rank, PlaceIn
  <2> DEFINE P == Members(s)
  <2>4. /\ {PlaceIn(P, u) : u \in P} = 1..Cardinality(P)
        /\ \A u, v \in P : PlaceIn(P, u) = PlaceIn(P, v) => u = v
    <3> HIDE DEF P
    <3>1. P \subseteq User
      BY <2>2 DEF P
    <3> QED BY <1>1, <3>1, PlacesEnumerate
  <2> QED BY <2>3, <2>4
<1>2. Typed => Tables
  BY DEF Typed
<1> QED BY <1>1, <1>2, InitTyped, StepTyped, PTL DEF Spec

\* The places of a top are 1 to three or fewer, one each.
OneEach(top) ==
  /\ \E n \in 0..3 : {t.place : t \in top} = 1..n
  /\ \A t, r \in top : t.place = r.place => t = r

SharesAreOneEach == OneEach(page.top)

LEMMA TopEnumerates ==
  ASSUME Tables, NEW s
  PROVE  OneEach(TopPaid(s))
<1> DEFINE Payers == {u \in Members(s) : u \in paid /\ stake[u] # 0}
           places == {t.place : t \in TopPaid(s)}
           n == IF Cardinality(Payers) <= 3 THEN Cardinality(Payers) ELSE 3
<1>1. Payers \subseteq User
  BY DEF Members
<1>2. TopPaid(s) = {[user |-> u, place |-> PlaceIn(Payers, u), stake |-> stake[u]]
                      : u \in {v \in Payers : PlaceIn(Payers, v) <= 3}}
  BY DEF TopPaid, PlaceIn
<1> HIDE DEF Payers
<1>3. /\ {PlaceIn(Payers, u) : u \in Payers} = 1..Cardinality(Payers)
      /\ \A u, v \in Payers : PlaceIn(Payers, u) = PlaceIn(Payers, v) => u = v
  BY <1>1, PlacesEnumerate
<1>4. Cardinality(Payers) \in Nat
  BY <1>1, BoardAssumption, FS_Subset, FS_CardinalityType
<1>5. n \in 0..3 /\ \A k \in Nat : k \in 1..n <=> k \in 1..Cardinality(Payers) /\ k <= 3
  BY <1>4
<1>6. ASSUME NEW k PROVE k \in places <=> k \in 1..n
  <2>1. k \in places <=> \E u \in Payers : PlaceIn(Payers, u) <= 3 /\ k = PlaceIn(Payers, u)
    <3> DEFINE Line(u) == [user |-> u, place |-> PlaceIn(Payers, u), stake |-> stake[u]]
    <3>1. \A u : Line(u).place = PlaceIn(Payers, u)
      OBVIOUS
    <3>2. \A t : t \in TopPaid(s) <=> \E u \in Payers : PlaceIn(Payers, u) <= 3 /\ t = Line(u)
      BY <1>2
    <3> HIDE DEF Line
    <3> QED BY <3>1, <3>2
  <2>2. k \in places <=> k \in 1..Cardinality(Payers) /\ k <= 3
    BY <1>3, <2>1
  <2> QED BY <1>4, <1>5, <2>2
<1>7. places = 1..n
  <2> HIDE DEF places, n
  <2> QED BY <1>5, <1>6
<1>8. ASSUME NEW t \in TopPaid(s), NEW r \in TopPaid(s), t.place = r.place PROVE t = r
  <2>1. PICK u \in Payers : t = [user |-> u, place |-> PlaceIn(Payers, u), stake |-> stake[u]]
    BY <1>2
  <2>2. PICK v \in Payers : r = [user |-> v, place |-> PlaceIn(Payers, v), stake |-> stake[v]]
    BY <1>2
  <2> QED BY <1>3, <1>8, <2>1, <2>2
<1> HIDE DEF n
<1> QED BY <1>5, <1>7, <1>8 DEF OneEach

(***************************************************************************)
(* The three who win the pot: the board that the page reads has, of those  *)
(* who paid, the first three or all of them if they are fewer, each place  *)
(* once, so that no share of BASE_SHARES is given twice or skipped         *)
(* (top_paid_from_leaderboard and compute_payouts of src/stakes.rs).       *)
(***************************************************************************)
THEOREM PotSharesAreOneEach == Spec => []SharesAreOneEach
<1>1. OneEach({})
  <2>1. {t.place : t \in {}} = 1..0 /\ 0 \in 0..3
    OBVIOUS
  <2> QED BY <2>1 DEF OneEach
<1>2. Init => Typed /\ SharesAreOneEach
  <2>1. ASSUME Init PROVE page.top = {}
    BY <2>1 DEF Init, StakesInit, NoPage
  <2> QED BY <1>1, <2>1, InitTyped DEF SharesAreOneEach
<1>3. ASSUME page'.top = page.top, SharesAreOneEach PROVE SharesAreOneEach'
  BY <1>3 DEF SharesAreOneEach
<1>4. ASSUME Typed, PotHolds, SharesAreOneEach, [Next]_vars PROVE SharesAreOneEach'
  <2>1. page \in PageRow /\ Tables
    BY <1>4 DEF PotHolds, PageAgrees, Typed
  <2>2. ASSUME NEW u \in User, MarkPaid(u) \/ MarkUnpaid(u) PROVE page'.top = page.top
    BY <2>1, <2>2 DEF MarkPaid, MarkUnpaid, Torn, PageRow
  <2>3. ASSUME NEW s \in Space, ReadBoard(s) PROVE SharesAreOneEach'
    <3>1. page'.top = TopPaid(s)
      BY <2>3 DEF ReadBoard, NoPage
    <3> QED BY <2>1, <3>1, TopEnumerates DEF SharesAreOneEach
  <2>4. ReadPot => page'.top = page.top
    BY <2>1 DEF ReadPot, PageRow
  <2>5. ASSUME LeavePage PROVE SharesAreOneEach'
    <3>1. page'.top = {}
      BY <2>5 DEF LeavePage, NoPage
    <3> QED BY <1>1, <3>1 DEF SharesAreOneEach
  <2>6. \/ page' = page
        \/ \E u \in User : MarkPaid(u) \/ MarkUnpaid(u)
        \/ \E s \in Space : ReadBoard(s)
        \/ ReadPot
        \/ LeavePage
    BY <1>4 DEF Next, Bets, vars, stakeVars, AskStake, StoreStake, DeadlinePasses
  <2> QED BY <1>3, <1>4, <2>2, <2>3, <2>4, <2>5, <2>6
<1>5. Init => PotHolds
  <2>1. SUFFICES ASSUME Init PROVE PotHolds
    OBVIOUS
  <2>2. page \in PageRow /\ page.pc = "none"
    BY <2>1 DEF Init, StakesInit, NoPage, PageRow
  <2>3. PaidIsStaked
    BY <2>1 DEF Init, StakesInit, PaidIsStaked
  <2> QED BY <2>2, <2>3 DEF PotHolds, PageAgrees, PotIsWon
<1> QED BY <1>2, <1>4, <1>5, StepTyped, PotStep, PTL DEF Spec
=============================================================================
