----------------------------- MODULE SpacesRaces ----------------------------
(***************************************************************************)
(* Theorems of Spaces about requests that overtake each other: two         *)
(* callbacks of one magic link, a row that is cached while it changes, two *)
(* sign-ups of new spaces that want the same slug.                         *)
(***************************************************************************)
EXTENDS SpacesProofs

-----------------------------------------------------------------------------
(***************************************************************************)
(* Most statements move one request on, away from the places where a race  *)
(* is decided: between reading a link and the session it opens, between    *)
(* reading a space and caching it, between writing it and forgetting it.   *)
(***************************************************************************)
Racing == {"use", "enter", "session", "fill"}

Plain(r) ==
  /\ req[r].pc # "invalidate"
  /\ \E m : Set(r, m) /\ m.pc \notin Racing

\* A statement that reads, or writes what no race is about.
Reads(r) == Plain(r) /\ UNCHANGED <<tenants, links, sessions, cache, boot, overlapped, raced>>

LEMMA GotoPlain ==
  ASSUME IInv, NEW r \in Request, NEW pc \in PC, Goto(r, pc), pc \notin Racing, req[r].pc # "invalidate"
  PROVE  Plain(r)
<1>1. PICK m : m = [req[r] EXCEPT !.pc = pc]
  OBVIOUS
<1>2. req[r] \in ReqRow
  BY DEF IInv, Requests
<1>3. m.pc = pc
  BY <1>1, <1>2 DEF ReqRow
<1> QED BY <1>1, <1>3 DEF Goto, Plain

LEMMA EndPlain ==
  ASSUME NEW r \in Request, End(r), req[r].pc # "invalidate"
  PROVE  Plain(r)
BY DEF End, Quiet, Plain, Racing

\* A request comes in, where requests do.
Doors == {"whose", "resolve", "taken", "read", "write"}

Comes(r) == UNCHANGED <<tables, cache, boot, ghosts>> /\ \E m : Set(r, m) /\ m.pc \in Doors

LEMMA ArriveComes ==
  ASSUME NEW r \in Request, NEW op, NEW m, Arrive(r, op, m), m.pc \in Doors
  PROVE  Comes(r) /\ req[r].pc # "invalidate"
BY DEF Arrive, Comes

LEMMA ArrivalsRead ==
  ASSUME IInv, NEW r \in Request,
         \/ \E e \in Email : AskLinkAtApex(r, e) \/ \E slug \in Slug : AskLink(r, slug, e)
         \/ \E l \in Lid, slug \in Slug : Follow(r, l, slug)
         \/ \E s \in Sid, slug \in Slug : AskLogout(r, s, slug)
         \/ \E op, s, slug, e, ref : Visit(r, op, s, slug, e, ref)
         \/ \E i \in Iid, token \in 0..1, slug \in Slug : FollowInvite(r, i, token, slug)
         \/ \E e \in Email, slug \in Slug, mode \in Mode : Submit(r, e, slug, mode)
         \/ \E p \in Pid : FollowSignup(r, p)
         \/ \E op, slug, saw : Command(r, op, slug, saw)
  PROVE  Reads(r) /\ Comes(r)
<1>1. ASSUME NEW e, AskLinkAtApex(r, e)
      PROVE  Comes(r) /\ req[r].pc # "invalidate"
  <2>1. PICK m : m = [Quiet EXCEPT !.op = "apex", !.pc = "whose", !.email = e]
    OBVIOUS
  <2>2. m.pc = "whose"
    BY <2>1 DEF Quiet
  <2> QED BY <1>1, <2>1, <2>2, ArriveComes DEF AskLinkAtApex, Doors
<1>2. ASSUME NEW e, NEW slug, AskLink(r, slug, e)
      PROVE  Comes(r) /\ req[r].pc # "invalidate"
  <2>1. PICK m : m = [Quiet EXCEPT !.op = "login", !.pc = "resolve", !.slug = slug, !.email = e]
    OBVIOUS
  <2>2. m.pc = "resolve"
    BY <2>1 DEF Quiet
  <2> QED BY <1>2, <2>1, <2>2, ArriveComes DEF AskLink, Doors
<1>3. ASSUME NEW l, NEW slug, Follow(r, l, slug)
      PROVE  Comes(r) /\ req[r].pc # "invalidate"
  <2>1. PICK m : m = [Quiet EXCEPT !.op = "callback", !.pc = "resolve", !.slug = slug, !.ref = l]
    OBVIOUS
  <2>2. m.pc = "resolve"
    BY <2>1 DEF Quiet
  <2> QED BY <1>3, <2>1, <2>2, ArriveComes DEF Follow, Doors
<1>4. ASSUME NEW s, NEW slug, AskLogout(r, s, slug)
      PROVE  Comes(r) /\ req[r].pc # "invalidate"
  <2>1. PICK m : m = [Quiet EXCEPT !.op = "logout", !.pc = "resolve", !.slug = slug, !.sid = s]
    OBVIOUS
  <2>2. m.pc = "resolve"
    BY <2>1 DEF Quiet
  <2> QED BY <1>4, <2>1, <2>2, ArriveComes DEF AskLogout, Doors
<1>5. ASSUME NEW op, NEW s, NEW slug, NEW e, NEW ref, Visit(r, op, s, slug, e, ref)
      PROVE  Comes(r) /\ req[r].pc # "invalidate"
  <2>1. PICK m : m = [Quiet EXCEPT !.op = op, !.pc = "resolve", !.slug = slug, !.sid = s,
                                   !.email = e, !.ref = ref]
    OBVIOUS
  <2>2. m.pc = "resolve"
    BY <2>1 DEF Quiet
  <2> QED BY <1>5, <2>1, <2>2, ArriveComes DEF Visit, Doors
<1>6. ASSUME NEW i, NEW token, NEW slug, FollowInvite(r, i, token, slug)
      PROVE  Comes(r) /\ req[r].pc # "invalidate"
  <2>1. PICK m : m = [Quiet EXCEPT !.op = "accept", !.pc = "resolve", !.slug = slug,
                                   !.ref = i, !.saw = token]
    OBVIOUS
  <2>2. m.pc = "resolve"
    BY <2>1 DEF Quiet
  <2> QED BY <1>6, <2>1, <2>2, ArriveComes DEF FollowInvite, Doors
<1>7. ASSUME NEW e, NEW slug, NEW mode, Submit(r, e, slug, mode)
      PROVE  Comes(r) /\ req[r].pc # "invalidate"
  <2>1. PICK m : m = [Quiet EXCEPT !.op = "signup", !.pc = "taken", !.slug = slug, !.email = e,
                                   !.saw = mode]
    OBVIOUS
  <2>2. m.pc = "taken"
    BY <2>1 DEF Quiet
  <2> QED BY <1>7, <2>1, <2>2, ArriveComes DEF Submit, Doors
<1>8. ASSUME NEW p, FollowSignup(r, p)
      PROVE  Comes(r) /\ req[r].pc # "invalidate"
  <2>1. PICK m : m = [Quiet EXCEPT !.op = "verify", !.pc = "read", !.ref = p]
    OBVIOUS
  <2>2. m.pc = "read"
    BY <2>1 DEF Quiet
  <2> QED BY <1>8, <2>1, <2>2, ArriveComes DEF FollowSignup, Doors
<1>9. ASSUME NEW op, NEW slug, NEW saw, Command(r, op, slug, saw)
      PROVE  Comes(r) /\ req[r].pc # "invalidate"
  <2>1. PICK m : m = [Quiet EXCEPT !.op = op, !.pc = "write", !.slug = slug, !.saw = saw]
    OBVIOUS
  <2>2. m.pc = "write"
    BY <2>1 DEF Quiet
  <2> QED BY <1>9, <2>1, <2>2, ArriveComes DEF Command, Doors
<1>10. Comes(r) /\ req[r].pc # "invalidate"
  BY <1>1, <1>2, <1>3, <1>4, <1>5, <1>6, <1>7, <1>8, <1>9
<1> QED BY <1>10 DEF Comes, Doors, Reads, Plain, Racing, tables, ghosts

LEMMA StatementsRead ==
  ASSUME IInv, NEW r \in Request,
         \/ Reloaded(r) \/ Auth(r) \/ AskMember(r) \/ AskInvited(r) \/ AskWhose(r)
         \/ StartInvite(r) \/ FindInvite(r) \/ RefreshInvite(r) \/ InsertInvite(r) \/ Revoke(r)
         \/ ReadInvite(r) \/ ExpireInvite(r) \/ StartRemove(r)
         \/ AskTaken(r) \/ AskCooldown(r) \/ InsertPending(r) \/ ReadPending(r)
         \/ CountUsers(r) \/ StartSettings(r)
  PROVE  Reads(r)
<1>1. ASSUME NEW pc \in {"send", "invited", "existing", "insert", "remove", "cooldown", "delete", "write"},
             Goto(r, pc), req[r].pc # "invalidate"
      PROVE  Plain(r)
  BY <1>1, GotoPlain DEF PC, Racing
<1>2. req[r] \in ReqRow
  BY DEF IInv, Requests
<1>3. CASE Reloaded(r) \/ RefreshInvite(r) \/ InsertInvite(r) \/ Revoke(r) \/ ExpireInvite(r) \/ InsertPending(r)
  BY <1>3, EndPlain
  DEF Reloaded, RefreshInvite, InsertInvite, Revoke, ExpireInvite, InsertPending, At, Reads, tables, ghosts
<1>4. CASE AskMember(r) \/ AskInvited(r) \/ StartInvite(r) \/ StartRemove(r)
  BY <1>1, <1>4, EndPlain DEF AskMember, AskInvited, StartInvite, StartRemove, At, Reads, tables, ghosts
<1>5. CASE AskTaken(r) \/ AskCooldown(r) \/ CountUsers(r) \/ StartSettings(r)
  BY <1>1, <1>5, EndPlain DEF AskTaken, AskCooldown, CountUsers, StartSettings, At, Reads, tables, ghosts
<1>6. CASE Auth(r)
  <2>1. ASSUME NEW w, Set(r, [req[r] EXCEPT !.pc = "admitted", !.who = w]), req[r].pc # "invalidate"
        PROVE  Plain(r)
    <3>1. PICK m : m = [req[r] EXCEPT !.pc = "admitted", !.who = w]
      OBVIOUS
    <3>2. m.pc = "admitted"
      BY <1>2, <3>1 DEF ReqRow
    <3> QED BY <2>1, <3>1, <3>2 DEF Plain, Racing
  <2> QED BY <1>6, <2>1, EndPlain DEF Auth, Reads, tables, ghosts
<1>7. CASE AskWhose(r)
  <2>1. ASSUME NEW slug, NEW t, Set(r, [req[r] EXCEPT !.slug = slug, !.ref = t, !.pc = "resolve"]),
               req[r].pc # "invalidate"
        PROVE  Plain(r)
    <3>1. PICK m : m = [req[r] EXCEPT !.slug = slug, !.ref = t, !.pc = "resolve"]
      OBVIOUS
    <3>2. m.pc = "resolve"
      BY <1>2, <3>1 DEF ReqRow
    <3> QED BY <2>1, <3>1, <3>2 DEF Plain, Racing
  <2> QED BY <1>7, <2>1, EndPlain DEF AskWhose, At, Reads, tables, ghosts
<1>8. CASE FindInvite(r)
  <2>1. ASSUME NEW i, Set(r, [req[r] EXCEPT !.pc = "refresh", !.ref = i]), req[r].pc # "invalidate"
        PROVE  Plain(r)
    <3>1. PICK m : m = [req[r] EXCEPT !.pc = "refresh", !.ref = i]
      OBVIOUS
    <3>2. m.pc = "refresh"
      BY <1>2, <3>1 DEF ReqRow
    <3> QED BY <2>1, <3>1, <3>2 DEF Plain, Racing
  <2> QED BY <1>1, <1>8, <2>1 DEF FindInvite, At, Reads, tables, ghosts
<1>9. CASE ReadInvite(r)
  <2>1. ASSUME NEW pc \in {"late", "join"}, NEW e, Set(r, [req[r] EXCEPT !.pc = pc, !.email = e]),
               req[r].pc # "invalidate"
        PROVE  Plain(r)
    <3>1. PICK m : m = [req[r] EXCEPT !.pc = pc, !.email = e]
      OBVIOUS
    <3>2. m.pc = pc
      BY <1>2, <3>1 DEF ReqRow
    <3> QED BY <2>1, <3>1, <3>2 DEF Plain, Racing
  <2>2. (IF invs[req[r].ref].overdue THEN "late" ELSE "join") \in {"late", "join"}
    OBVIOUS
  <2> QED BY <1>9, <2>1, <2>2, EndPlain DEF ReadInvite, At, Reads, tables, ghosts
<1>10. CASE ReadPending(r)
  <2>1. ASSUME NEW x, Set(r, [req[r] EXCEPT !.pc = "create", !.saw = x]), req[r].pc # "invalidate"
        PROVE  Plain(r)
    <3>1. PICK m : m = [req[r] EXCEPT !.pc = "create", !.saw = x]
      OBVIOUS
    <3>2. m.pc = "create"
      BY <1>2, <3>1 DEF ReqRow
    <3> QED BY <2>1, <3>1, <3>2 DEF Plain, Racing
  <2> QED BY <1>10, <2>1, EndPlain DEF ReadPending, At, Reads, tables, ghosts
<1> QED BY <1>3, <1>4, <1>5, <1>6, <1>7, <1>8, <1>9, <1>10

-----------------------------------------------------------------------------
(***************************************************************************)
(* One link, one session.  The invariant: a link that opened a session is  *)
(* used, and so is one that a callback is past using; who else is between  *)
(* reading that link and its session makes it one of the overlapped.       *)
(***************************************************************************)
Opening(q) == q.op = "callback" /\ q.pc \in {"use", "enter", "session"}

SpentLinks ==
  \A s \in Rows(sessions) : sessions[s].link # NULL =>
    LET l == sessions[s].link
    IN  /\ links[l] # NULL /\ (l \in Rows(links) => links[l].used)
        /\ \A r \in Request : Opening(req[r]) /\ req[r].ref = l => l \in overlapped

UsedLinks ==
  \A r \in Request : Opening(req[r]) =>
    /\ links[req[r].ref] # NULL
    /\ req[r].pc # "use" /\ req[r].ref \in Rows(links) => links[req[r].ref].used
    /\ \A k \in Request : k # r /\ Opening(req[k]) /\ req[k].ref = req[r].ref => req[r].ref \in overlapped

Once == SpentLinks /\ UsedLinks /\ OpenedOnce

\* What bystanders do: no link is used less, no session is of a link, no callback is further.
LinksSettle ==
  \A l \in Lid : links[l] # NULL =>
    /\ links'[l] # NULL
    /\ l \in Rows(links') => l \in Rows(links) /\ (links[l].used => links'[l].used)

SessionsSettle ==
  \A s \in Rows(sessions') : sessions'[s].link # NULL =>
    s \in Rows(sessions) /\ sessions'[s].link = sessions[s].link

NoneOpens == \A k \in Request : Opening(req'[k]) => req'[k] = req[k]

LEMMA OpeningsHaveLinks ==
  ASSUME IInv
  PROVE  /\ \A r \in Request : Opening(req[r]) => req[r].ref \in Lid
         /\ \A s \in Rows(sessions) : sessions[s].link # NULL => sessions[s].link \in Lid
<1>1. \A r \in Request : Opening(req[r]) => req[r].ref \in Lid
  BY DEF IInv, Requests, Sound, Fit, Opening, Does
<1>2. \A s \in Rows(sessions) : sessions[s] \in SessionRow
  BY RowsAre DEF IInv
<1> QED BY <1>1, <1>2 DEF SessionRow

LEMMA BystandersKeepOnce ==
  ASSUME IInv, Once, LinksSettle, SessionsSettle, NoneOpens, overlapped' = overlapped
  PROVE  Once'
<1>1. SpentLinks'
  <2> SUFFICES ASSUME NEW s \in Rows(sessions'), sessions'[s].link # NULL
               PROVE  LET l == sessions'[s].link
                      IN  /\ links'[l] # NULL /\ (l \in Rows(links') => links'[l].used)
                          /\ \A r \in Request : Opening(req'[r]) /\ req'[r].ref = l => l \in overlapped
    BY DEF SpentLinks, Opening
  <2> DEFINE l == sessions'[s].link
  <2>1. s \in Rows(sessions) /\ l = sessions[s].link /\ l # NULL
    BY DEF SessionsSettle
  <2>2. l \in Lid /\ links[l] # NULL /\ (l \in Rows(links) => links[l].used)
    BY <2>1, OpeningsHaveLinks DEF Once, SpentLinks
  <2>3. links'[l] # NULL /\ (l \in Rows(links') => links'[l].used)
    BY <2>2 DEF LinksSettle
  <2>4. \A r \in Request : Opening(req'[r]) /\ req'[r].ref = l => l \in overlapped
    BY <2>1 DEF NoneOpens, Once, SpentLinks
  <2> QED BY <2>3, <2>4
<1>2. UsedLinks'
  <2> SUFFICES ASSUME NEW r \in Request, Opening(req'[r])
               PROVE  /\ links'[req'[r].ref] # NULL
                      /\ req'[r].pc # "use" /\ req'[r].ref \in Rows(links') => links'[req'[r].ref].used
                      /\ \A k \in Request : k # r /\ Opening(req'[k]) /\ req'[k].ref = req'[r].ref =>
                           req'[r].ref \in overlapped
    BY DEF UsedLinks, Opening
  <2>1. req'[r] = req[r] /\ Opening(req[r]) /\ req[r].ref \in Lid
    BY OpeningsHaveLinks DEF NoneOpens
  <2>2. /\ links[req[r].ref] # NULL
        /\ req[r].pc # "use" /\ req[r].ref \in Rows(links) => links[req[r].ref].used
    BY <2>1 DEF Once, UsedLinks
  <2>3. \A k \in Request : k # r /\ Opening(req'[k]) /\ req'[k].ref = req'[r].ref => req'[r].ref \in overlapped
    BY <2>1 DEF NoneOpens, Once, UsedLinks
  <2> QED BY <2>1, <2>2, <2>3 DEF LinksSettle
<1>3. OpenedOnce'
  <2> SUFFICES ASSUME NEW s1 \in Rows(sessions'), NEW s2 \in Rows(sessions'), s1 # s2,
                      sessions'[s1].link = sessions'[s2].link, sessions'[s1].link # NULL
               PROVE  sessions'[s1].link \in overlapped
    BY DEF OpenedOnce
  <2> QED BY DEF SessionsSettle, Once, OpenedOnce
<1> QED BY <1>1, <1>2, <1>3 DEF Once

\* A callback that goes on with a link it finds used.
LEMMA AdvancingKeepsOnce ==
  ASSUME IInv, Once, LinksSettle, SessionsSettle, overlapped' = overlapped,
         NEW r \in Request, Opening(req[r]), NEW m, Set(r, m), Opening(m), m.ref = req[r].ref, m.pc # "use",
         m.ref \in Rows(links') => links'[m.ref].used
  PROVE  Once'
<1>1. req'[r] = m /\ \A k \in Request : k # r => req'[k] = req[k]
  BY DEF Set, IInv, Requests
<1>2. \A k \in Request : Opening(req'[k]) => Opening(req[k]) /\ req'[k].ref = req[k].ref
  BY <1>1
<1>3. SpentLinks'
  <2> SUFFICES ASSUME NEW s \in Rows(sessions'), sessions'[s].link # NULL
               PROVE  LET l == sessions'[s].link
                      IN  /\ links'[l] # NULL /\ (l \in Rows(links') => links'[l].used)
                          /\ \A k \in Request : Opening(req'[k]) /\ req'[k].ref = l => l \in overlapped
    BY DEF SpentLinks, Opening
  <2> DEFINE l == sessions'[s].link
  <2>1. s \in Rows(sessions) /\ l = sessions[s].link /\ l # NULL
    BY DEF SessionsSettle
  <2>2. l \in Lid /\ links[l] # NULL /\ (l \in Rows(links) => links[l].used)
    BY <2>1, OpeningsHaveLinks DEF Once, SpentLinks
  <2>3. links'[l] # NULL /\ (l \in Rows(links') => links'[l].used)
    BY <2>2 DEF LinksSettle
  <2>4. \A k \in Request : Opening(req'[k]) /\ req'[k].ref = l => l \in overlapped
    BY <1>2, <2>1 DEF Once, SpentLinks
  <2> QED BY <2>3, <2>4
<1>4. UsedLinks'
  <2> SUFFICES ASSUME NEW k \in Request, Opening(req'[k])
               PROVE  /\ links'[req'[k].ref] # NULL
                      /\ req'[k].pc # "use" /\ req'[k].ref \in Rows(links') => links'[req'[k].ref].used
                      /\ \A j \in Request : j # k /\ Opening(req'[j]) /\ req'[j].ref = req'[k].ref =>
                           req'[k].ref \in overlapped
    BY DEF UsedLinks, Opening
  <2>1. Opening(req[k]) /\ req'[k].ref = req[k].ref /\ req[k].ref \in Lid
    BY <1>2, OpeningsHaveLinks
  <2>2. links'[req'[k].ref] # NULL
    BY <2>1 DEF Once, UsedLinks, LinksSettle
  <2>3. ASSUME req'[k].pc # "use", req'[k].ref \in Rows(links')
        PROVE  links'[req'[k].ref].used
    <3>1. CASE k = r
      BY <1>1, <2>3, <3>1
    <3>2. CASE k # r
      BY <1>1, <2>1, <2>3, <3>2 DEF Once, UsedLinks, LinksSettle
    <3> QED BY <3>1, <3>2
  <2>4. \A j \in Request : j # k /\ Opening(req'[j]) /\ req'[j].ref = req'[k].ref => req'[k].ref \in overlapped
    BY <1>2, <2>1 DEF Once, UsedLinks
  <2> QED BY <2>2, <2>3, <2>4
<1>5. OpenedOnce'
  <2> SUFFICES ASSUME NEW s1 \in Rows(sessions'), NEW s2 \in Rows(sessions'), s1 # s2,
                      sessions'[s1].link = sessions'[s2].link, sessions'[s1].link # NULL
               PROVE  sessions'[s1].link \in overlapped
    BY DEF OpenedOnce
  <2> QED BY DEF SessionsSettle, Once, OpenedOnce
<1> QED BY <1>3, <1>4, <1>5 DEF Once

LEMMA SetOpensNone ==
  ASSUME IInv, NEW r \in Request, NEW m, Set(r, m), ~ Opening(m)
  PROVE  NoneOpens
BY DEF IInv, Requests, Set, NoneOpens

LEMMA EndOpensNone ==
  ASSUME IInv, NEW r \in Request, End(r)
  PROVE  NoneOpens
BY SetOpensNone, NobodyAssumption DEF End, Quiet, Opening

LEMMA GotoOpensNone ==
  ASSUME IInv, NEW r \in Request, NEW pc \in PC, Goto(r, pc), pc \notin Racing
  PROVE  NoneOpens
<1>1. PICK m : m = [req[r] EXCEPT !.pc = pc]
  OBVIOUS
<1>2. req[r] \in ReqRow
  BY DEF IInv, Requests
<1>3. m.pc = pc
  BY <1>1, <1>2 DEF ReqRow
<1> QED BY <1>1, <1>3, SetOpensNone DEF Goto, Opening, Racing

LEMMA UntouchedKeepOnce ==
  ASSUME IInv, Once, NoneOpens, UNCHANGED <<links, sessions, overlapped>>
  PROVE  Once'
<1>1. LinksSettle /\ SessionsSettle
  BY DEF LinksSettle, SessionsSettle, Rows
<1> QED BY <1>1, BystandersKeepOnce

LEMMA ReadsKeepOnce ==
  ASSUME IInv, Once, NEW r \in Request, Reads(r)
  PROVE  Once'
<1>1. PICK m : Set(r, m) /\ m.pc \notin Racing
  BY DEF Reads, Plain
<1>2. NoneOpens
  BY <1>1, SetOpensNone DEF Opening, Racing
<1> QED BY <1>2, UntouchedKeepOnce DEF Reads

LEMMA FirstStepIs ==
  ASSUME NEW op \in Served \ {"drop"}
  PROVE  FirstStep[op] \in PC /\ FirstStep[op] \notin Racing /\ FirstStep[op] \notin {"idle", "invalidate"}
BY DEF Served, ByMember, FirstStep, PC, Racing

LEMMA RegistryKeepsOnce ==
  ASSUME IInv, Once, NEW r \in Request, Registry(r)
  PROVE  Once'
<1> DEFINE q == req[r]
<1>1. q \in ReqRow /\ (q.pc \in {"resolve", "fill"} => q.op \in Served)
  BY DEF IInv, Requests, Sound, Fit
<1>2. ASSUME q.pc \in {"resolve", "fill"}
      PROVE  FirstStep[q.op] \in PC /\ FirstStep[q.op] \notin Racing
  BY <1>1, <1>2, FirstStepIs DEF Served, ByMember
<1>3. ASSUME NEW x, q.pc = "resolve", Set(r, [q EXCEPT !.space = x, !.pc = FirstStep[q.op]])
      PROVE  NoneOpens
  <2>1. PICK m : m = [q EXCEPT !.space = x, !.pc = FirstStep[q.op]]
    OBVIOUS
  <2>2. m.pc = FirstStep[q.op]
    BY <1>1, <2>1 DEF ReqRow
  <2> QED BY <1>2, <1>3, <2>1, <2>2, SetOpensNone DEF Opening, Racing
<1>4. ASSUME NEW x, Set(r, [q EXCEPT !.space = x, !.pc = "fill"])
      PROVE  NoneOpens
  <2>1. PICK m : m = [q EXCEPT !.space = x, !.pc = "fill"]
    OBVIOUS
  <2>2. m.pc = "fill"
    BY <1>1, <2>1 DEF ReqRow
  <2> QED BY <1>4, <2>1, <2>2, SetOpensNone DEF Opening
<1>5. CASE Resolve(r) \/ Fallback(r)
  BY <1>3, <1>4, <1>5, EndOpensNone, UntouchedKeepOnce DEF Resolve, Fallback, tables, ghosts
<1>6. CASE Fill(r)
  BY <1>2, <1>6, GotoOpensNone, UntouchedKeepOnce DEF Fill, tables, ghosts
<1>7. CASE Invalidate(r)
  <2>1. ASSUME Set(r, [q EXCEPT !.op = "reload", !.pc = "resolve"])
        PROVE  NoneOpens
    <3>1. PICK m : m = [q EXCEPT !.op = "reload", !.pc = "resolve"]
      OBVIOUS
    <3>2. m.pc = "resolve"
      BY <1>1, <3>1 DEF ReqRow
    <3> QED BY <2>1, <3>1, <3>2, SetOpensNone DEF Opening
  <2> QED BY <1>7, <2>1, EndOpensNone, UntouchedKeepOnce DEF Invalidate, tables
<1>8. CASE Stops(r)
  BY <1>8, EndOpensNone, UntouchedKeepOnce DEF Stops, tables
<1>9. CASE Reloaded(r) \/ Auth(r)
  BY <1>9, StatementsRead, ReadsKeepOnce
<1> QED BY <1>5, <1>6, <1>7, <1>8, <1>9 DEF Registry

\* One row of the links or of the sessions is set.
LEMMA LinkSetSettles ==
  ASSUME TypeOK, NEW l \in Lid, NEW row \in LinkRow, links' = [links EXCEPT ![l] = row],
         \/ links[l] = NULL
         \/ l \in Rows(links) /\ (links[l].used => row.used)
  PROVE  LinksSettle
<1>1. \A k \in Lid : links'[k] = IF k = l THEN row ELSE links[k]
  BY DEF TypeOK
<1>2. row # NULL
  BY RowIsSome
<1>3. DOMAIN links = Lid /\ DOMAIN links' = Lid
  BY DEF TypeOK
<1> QED BY <1>1, <1>2, <1>3 DEF LinksSettle, Rows

LEMMA SessionSetSettles ==
  ASSUME TypeOK, NEW s \in Sid, NEW row, sessions' = [sessions EXCEPT ![s] = row],
         row = GONE \/ row.link = NULL
  PROVE  SessionsSettle
<1>1. \A k \in Sid : sessions'[k] = IF k = s THEN row ELSE sessions[k]
  BY DEF TypeOK
<1>2. DOMAIN sessions = Sid /\ DOMAIN sessions' = Sid
  BY DEF TypeOK
<1> QED BY <1>1, <1>2 DEF SessionsSettle, Rows

LEMMA SessionsGoSettles ==
  ASSUME TypeOK, NEW dead, sessions' = [s \in Sid |-> IF s \in dead THEN GONE ELSE sessions[s]]
  PROVE  SessionsSettle
BY DEF TypeOK, SessionsSettle, Rows

LEMMA SameLinksSettle ==
  ASSUME UNCHANGED links
  PROVE  LinksSettle
BY DEF LinksSettle, Rows

LEMMA SameSessionsSettle ==
  ASSUME UNCHANGED sessions
  PROVE  SessionsSettle
BY DEF SessionsSettle, Rows

LEMMA SendLinkKeepsOnce ==
  ASSUME IInv, Once, NEW r \in Request, SendLink(r)
  PROVE  Once'
<1> DEFINE q == req[r]
           row == [tenant |-> q.space.id, email |-> q.email, used |-> FALSE, expired |-> FALSE,
                   stray |-> Strayed(r)]
<1>1. q.op \in {"login", "apex"} /\ q.pc = "send" /\ End(r) /\ UNCHANGED <<sessions, overlapped>>
  BY DEF SendLink, ghosts
<1>2. q.space.id \in Tid /\ q.email \in Email
  BY <1>1, Standing DEF Placed, Served, ByMember, Sound, Fit, Does
<1>3. LinksSettle
  <2>1. CASE UNCHANGED links
    BY <2>1, SameLinksSettle
  <2>2. CASE ~ UNCHANGED links
    <3>1. PICK l \in Free(links) : links' = [links EXCEPT ![l] = row]
      BY <2>2 DEF SendLink
    <3>2. l \in Lid /\ links[l] = NULL
      BY <3>1 DEF Free, IInv, TypeOK
    <3>3. PICK stray \in BOOLEAN : stray = Strayed(r)
      BY DEF Strayed
    <3> HIDE DEF Strayed
    <3>4. row \in LinkRow
      BY <1>2, <3>3 DEF LinkRow
    <3> QED BY <3>1, <3>2, <3>4, LinkSetSettles DEF IInv
  <2> QED BY <2>1, <2>2
<1> QED BY <1>1, <1>3, SameSessionsSettle, EndOpensNone, BystandersKeepOnce

LEMMA LinkExpiresKeepsOnce ==
  ASSUME IInv, Once, NEW l \in Lid, LinkExpires(l)
  PROVE  Once'
<1>1. l \in Rows(links) /\ UNCHANGED <<req, sessions, overlapped>>
  BY DEF LinkExpires, ghosts
<1>2. PICK row : row = [links[l] EXCEPT !.expired = TRUE]
  OBVIOUS
<1>3. links[l] \in LinkRow
  BY <1>1, RowsAre DEF IInv
<1>4. row \in LinkRow /\ row.used = links[l].used
  BY <1>2, <1>3 DEF LinkRow
<1>5. links' = [links EXCEPT ![l] = row]
  BY <1>2 DEF LinkExpires
<1>6. LinksSettle
  BY <1>1, <1>4, <1>5, LinkSetSettles DEF IInv
<1>7. NoneOpens
  BY <1>1 DEF NoneOpens
<1> QED BY <1>1, <1>6, <1>7, SameSessionsSettle, BystandersKeepOnce

LEMMA OpeningsStay ==
  ASSUME IInv, NEW r \in Request, Opening(req[r])
  PROVE  /\ req[r] \in ReqRow /\ req[r].op = "callback" /\ req[r].ref \in Lid
         /\ req[r].pc \in {"use", "enter", "session"}
BY DEF IInv, Requests, Sound, Fit, Opening, Does

LEMMA UseLinkKeepsOnce ==
  ASSUME IInv, Once, NEW r \in Request, UseLink(r)
  PROVE  Once'
<1> DEFINE q == req[r]
           l == q.ref
<1>1. Opening(q) /\ UNCHANGED <<sessions, overlapped>>
  BY DEF UseLink, At, Opening, ghosts
<1>2. q \in ReqRow /\ q.op = "callback" /\ l \in Lid
  BY <1>1, OpeningsStay
<1>3. PICK m : m = [q EXCEPT !.pc = "enter"]
  OBVIOUS
<1>4. Set(r, m) /\ Opening(m) /\ m.ref = l /\ m.pc # "use"
  BY <1>2, <1>3 DEF UseLink, Goto, ReqRow, Opening
<1>5. LinksSettle /\ (l \in Rows(links') => links'[l].used)
  <2>1. CASE l \in Rows(links)
    <3>1. PICK row : row = [links[l] EXCEPT !.used = TRUE]
      OBVIOUS
    <3>2. links[l] \in LinkRow
      BY <2>1, RowsAre DEF IInv
    <3>3. row \in LinkRow /\ row.used
      BY <3>1, <3>2 DEF LinkRow
    <3>4. links' = [links EXCEPT ![l] = row]
      BY <2>1, <3>1 DEF UseLink
    <3>5. LinksSettle
      BY <1>2, <2>1, <3>3, <3>4, LinkSetSettles DEF IInv
    <3>6. links'[l] = row
      BY <1>2, <3>4 DEF IInv, TypeOK
    <3> QED BY <3>3, <3>5, <3>6
  <2>2. CASE l \notin Rows(links)
    <3>1. links' = links
      BY <2>2 DEF UseLink
    <3> QED BY <2>2, <3>1, SameLinksSettle
  <2> QED BY <2>1, <2>2
<1> QED BY <1>1, <1>4, <1>5, SameSessionsSettle, AdvancingKeepsOnce

LEMMA EnterKeepsOnce ==
  ASSUME IInv, Once, NEW r \in Request, Enter(r)
  PROVE  Once'
<1> DEFINE q == req[r]
<1>1. Opening(q) /\ q.pc = "enter" /\ UNCHANGED <<links, sessions, overlapped>>
  BY DEF Enter, At, Opening, ghosts
<1>2. q \in ReqRow /\ q.op = "callback" /\ q.ref \in Lid
  BY <1>1, OpeningsStay
<1>3. q.ref \in Rows(links) => links[q.ref].used
  BY <1>1 DEF Once, UsedLinks
<1>4. ASSUME NEW w, Set(r, [q EXCEPT !.pc = "session", !.who = w])
      PROVE  Once'
  <2>1. PICK m : m = [q EXCEPT !.pc = "session", !.who = w]
    OBVIOUS
  <2>2. Opening(m) /\ m.ref = q.ref /\ m.pc # "use"
    BY <1>2, <2>1 DEF ReqRow, Opening
  <2>3. m.ref \in Rows(links') => links'[m.ref].used
    BY <1>1, <1>3, <2>2 DEF Rows
  <2> QED BY <1>1, <1>4, <2>1, <2>2, <2>3, SameLinksSettle, SameSessionsSettle, AdvancingKeepsOnce
<1> QED BY <1>1, <1>4, EndOpensNone, UntouchedKeepOnce DEF Enter

\* The link that is read is not used: no session is of it, and who else has read it is about to use it.
LEMMA ReadLinkKeepsOnce ==
  ASSUME IInv, Once, NEW r \in Request, ReadLink(r)
  PROVE  Once'
<1> DEFINE q == req[r]
           l == q.ref
<1>1. q.op = "callback" /\ q.pc = "read" /\ UNCHANGED <<links, sessions>>
  BY DEF ReadLink, At, tables
<1>2. CASE End(r) /\ UNCHANGED overlapped
  BY <1>1, <1>2, EndOpensNone, UntouchedKeepOnce
<1>3. CASE ~ (End(r) /\ UNCHANGED overlapped)
  <2>1. /\ l \in Rows(links) /\ ~ links[l].used
        /\ Set(r, [q EXCEPT !.pc = "use", !.email = links[l].email])
        /\ overlapped' = IF \E k \in Request : At(k, "callback", "use") /\ req[k].ref = l
                           THEN overlapped \union {l} ELSE overlapped
    BY <1>3 DEF ReadLink, LinkOpens
  <2>2. PICK m : m = [q EXCEPT !.pc = "use", !.email = links[l].email]
    OBVIOUS
  <2>3. q \in ReqRow /\ l \in Lid /\ links[l] \in LinkRow
    BY <2>1, RowsAre DEF IInv, Requests
  <2>4. m.pc = "use" /\ m.op = "callback" /\ m.ref = l
    BY <1>1, <2>2, <2>3 DEF ReqRow
  <2>5. req'[r] = m /\ \A k \in Request : k # r => req'[k] = req[k]
    BY <2>1, <2>2 DEF Set, IInv, Requests
  <2>6. \A s \in Rows(sessions) : sessions[s].link # l
    BY <2>1, <2>3, NobodyAssumption DEF Once, SpentLinks, Nobody
  <2>7. overlapped \subseteq overlapped'
    BY <2>1
  <2>8. ASSUME NEW k \in Request, k # r, Opening(req[k]), req[k].ref = l
        PROVE  l \in overlapped'
    <3>1. req[k].pc = "use"
      BY <2>1, <2>8 DEF Once, UsedLinks
    <3> QED BY <2>1, <2>8, <3>1 DEF At, Opening
  <2>9. SpentLinks'
    <3> SUFFICES ASSUME NEW s \in Rows(sessions), sessions[s].link # NULL
                 PROVE  LET x == sessions[s].link
                        IN  /\ links[x] # NULL /\ (x \in Rows(links) => links[x].used)
                            /\ \A k \in Request : Opening(req'[k]) /\ req'[k].ref = x => x \in overlapped'
      BY <1>1 DEF SpentLinks, Opening, Rows
    <3> DEFINE x == sessions[s].link
    <3>1. links[x] # NULL /\ (x \in Rows(links) => links[x].used)
      BY DEF Once, SpentLinks
    <3>2. ASSUME NEW k \in Request, Opening(req'[k]), req'[k].ref = x
          PROVE  x \in overlapped'
      <4>1. k # r
        BY <2>4, <2>5, <2>6, <3>2
      <4> QED BY <2>5, <2>7, <3>2, <4>1 DEF Once, SpentLinks
    <3> QED BY <3>1, <3>2
  <2>10. UsedLinks'
    <3> SUFFICES ASSUME NEW k \in Request, Opening(req'[k])
                 PROVE  /\ links[req'[k].ref] # NULL
                        /\ req'[k].pc # "use" /\ req'[k].ref \in Rows(links) => links[req'[k].ref].used
                        /\ \A j \in Request : j # k /\ Opening(req'[j]) /\ req'[j].ref = req'[k].ref =>
                             req'[k].ref \in overlapped'
      BY <1>1 DEF UsedLinks, Opening, Rows
    <3>1. CASE k = r
      <4>1. req'[k].pc = "use" /\ req'[k].ref = l
        BY <2>4, <2>5, <3>1
      <4>2. links[l] # NULL
        BY <2>3, RowIsSome
      <4>3. \A j \in Request : j # k /\ Opening(req'[j]) /\ req'[j].ref = l => l \in overlapped'
        BY <2>5, <2>8, <3>1
      <4> QED BY <4>1, <4>2, <4>3
    <3>2. CASE k # r
      <4>1. req'[k] = req[k] /\ Opening(req[k])
        BY <2>5, <3>2
      <4>2. /\ links[req[k].ref] # NULL
            /\ req[k].pc # "use" /\ req[k].ref \in Rows(links) => links[req[k].ref].used
        BY <4>1 DEF Once, UsedLinks
      <4>3. ASSUME NEW j \in Request, j # k, Opening(req'[j]), req'[j].ref = req[k].ref
            PROVE  req[k].ref \in overlapped'
        <5>1. CASE j = r
          BY <2>4, <2>5, <2>8, <3>2, <4>1, <4>3, <5>1
        <5>2. CASE j # r
          BY <2>5, <2>7, <4>1, <4>3, <5>2 DEF Once, UsedLinks
        <5> QED BY <5>1, <5>2
      <4> QED BY <4>1, <4>2, <4>3
    <3> QED BY <3>1, <3>2
  <2>11. OpenedOnce'
    <3> SUFFICES ASSUME NEW s1 \in Rows(sessions), NEW s2 \in Rows(sessions), s1 # s2,
                        sessions[s1].link = sessions[s2].link, sessions[s1].link # NULL
                 PROVE  sessions[s1].link \in overlapped'
      BY <1>1 DEF OpenedOnce, Rows
    <3> QED BY <2>7 DEF Once, OpenedOnce
  <2> QED BY <2>9, <2>10, <2>11 DEF Once
<1> QED BY <1>2, <1>3

\* A session is opened of a link that is used, and that another callback has read only if it overlapped.
LEMMA OpenSessionKeepsOnce ==
  ASSUME IInv, Once, NEW r \in Request, OpenSession(r)
  PROVE  Once'
<1> DEFINE q == req[r]
           l == q.ref
           row == [tenant |-> q.space.id, user |-> q.who.id, link |-> l]
<1>1. Opening(q) /\ q.pc = "session" /\ End(r) /\ UNCHANGED <<links, overlapped>>
  BY DEF OpenSession, At, Opening, ghosts
<1>2. NoneOpens
  BY <1>1, EndOpensNone
<1>3. CASE UNCHANGED sessions
  BY <1>1, <1>2, <1>3, UntouchedKeepOnce
<1>4. CASE ~ UNCHANGED sessions
  <2>1. PICK s \in Free(sessions) : sessions' = [sessions EXCEPT ![s] = row]
    BY <1>4 DEF OpenSession
  <2>2. s \in Sid /\ l \in Lid /\ DOMAIN sessions = Sid /\ DOMAIN sessions' = Sid
    BY <1>1, <2>1, OpeningsStay DEF Free, IInv, TypeOK
  <2>3. sessions'[s].link = l /\ \A k \in Sid : k # s => sessions'[k] = sessions[k]
    BY <2>1, <2>2 DEF IInv, TypeOK
  <2>4. links[l] # NULL /\ (l \in Rows(links) => links[l].used)
    BY <1>1 DEF Once, UsedLinks
  <2>5. req'[r] = Quiet /\ \A k \in Request : k # r => req'[k] = req[k]
    BY <1>1 DEF End, Set, IInv, Requests
  <2>6. ~ Opening(req'[r])
    BY <2>5 DEF Quiet, Opening
  <2>7. SpentLinks'
    <3> SUFFICES ASSUME NEW x \in Rows(sessions'), sessions'[x].link # NULL
                 PROVE  LET y == sessions'[x].link
                        IN  /\ links[y] # NULL /\ (y \in Rows(links) => links[y].used)
                            /\ \A k \in Request : Opening(req'[k]) /\ req'[k].ref = y => y \in overlapped
      BY <1>1 DEF SpentLinks, Opening, Rows
    <3>1. CASE x = s
      <4>1. ASSUME NEW k \in Request, Opening(req'[k]), req'[k].ref = l
            PROVE  l \in overlapped
        BY <1>1, <2>5, <2>6, <4>1 DEF Once, UsedLinks
      <4> QED BY <2>3, <2>4, <3>1, <4>1
    <3>2. CASE x # s
      <4>1. x \in Rows(sessions) /\ sessions'[x] = sessions[x]
        BY <2>2, <2>3, <3>2 DEF Rows
      <4> QED BY <1>2, <4>1 DEF NoneOpens, Once, SpentLinks
    <3> QED BY <3>1, <3>2
  <2>8. UsedLinks'
    <3> SUFFICES ASSUME NEW k \in Request, Opening(req'[k])
                 PROVE  /\ links[req'[k].ref] # NULL
                        /\ req'[k].pc # "use" /\ req'[k].ref \in Rows(links) => links[req'[k].ref].used
                        /\ \A j \in Request : j # k /\ Opening(req'[j]) /\ req'[j].ref = req'[k].ref =>
                             req'[k].ref \in overlapped
      BY <1>1 DEF UsedLinks, Opening, Rows
    <3> QED BY <1>2 DEF NoneOpens, Once, UsedLinks
  <2>9. OpenedOnce'
    <3> SUFFICES ASSUME NEW s1 \in Rows(sessions'), NEW s2 \in Rows(sessions'), s1 # s2,
                        sessions'[s1].link = sessions'[s2].link, sessions'[s1].link # NULL
                 PROVE  sessions'[s1].link \in overlapped
      BY <1>1 DEF OpenedOnce, Rows
    <3>1. ASSUME NEW x \in Rows(sessions'), x # s, sessions'[x].link = l
          PROVE  l \in overlapped
      <4>1. x \in Rows(sessions) /\ sessions[x].link = l /\ l # NULL
        BY <2>2, <2>3, <3>1, NobodyAssumption DEF Rows, Nobody
      <4> QED BY <1>1, <4>1 DEF Once, SpentLinks
    <3>2. CASE s1 = s \/ s2 = s
      BY <2>3, <3>1, <3>2
    <3>3. CASE s1 # s /\ s2 # s
      <4>1. /\ s1 \in Rows(sessions) /\ sessions'[s1] = sessions[s1]
            /\ s2 \in Rows(sessions) /\ sessions'[s2] = sessions[s2]
        BY <2>2, <2>3, <3>3 DEF Rows
      <4> QED BY <4>1 DEF Once, OpenedOnce
    <3> QED BY <3>2, <3>3
  <2> QED BY <2>7, <2>8, <2>9 DEF Once
<1> QED BY <1>3, <1>4

LEMMA LogoutKeepsOnce ==
  ASSUME IInv, Once, NEW r \in Request, Logout(r)
  PROVE  Once'
<1>1. SessionsSettle
  <2>1. DOMAIN sessions = Sid /\ DOMAIN sessions' = Sid
    BY DEF Logout, IInv, TypeOK
  <2>2. \A s \in Rows(sessions') : s \in Rows(sessions) /\ sessions'[s] = sessions[s]
    BY <2>1 DEF Logout, IInv, TypeOK, Rows
  <2> QED BY <2>2 DEF SessionsSettle
<1> QED BY <1>1, SameLinksSettle, EndOpensNone, BystandersKeepOnce DEF Logout, ghosts

\* A session that an invitation or a new space opens is of no link.
LEMMA AddingKeepsOnce ==
  ASSUME IInv, Once, NEW r \in Request, Join(r) \/ CreateSpace(r)
  PROVE  Once'
<1>1. End(r) /\ UNCHANGED <<links, overlapped>>
  BY DEF Join, CreateSpace, ghosts
<1>2. SessionsSettle
  <2>1. ASSUME NEW s \in Free(sessions), NEW t, NEW u,
               sessions' = [sessions EXCEPT ![s] = [tenant |-> t, user |-> u, link |-> NULL]]
        PROVE  SessionsSettle
    <3>1. PICK row : row = [tenant |-> t, user |-> u, link |-> NULL]
      OBVIOUS
    <3>2. row.link = NULL /\ s \in Sid
      BY <3>1 DEF Free, IInv, TypeOK
    <3> QED BY <2>1, <3>1, <3>2, SessionSetSettles DEF IInv
  <2> QED BY <2>1, SameSessionsSettle DEF Join, CreateSpace
<1> QED BY <1>1, <1>2, SameLinksSettle, EndOpensNone, BystandersKeepOnce

LEMMA RemoveMemberKeepsOnce ==
  ASSUME IInv, Once, NEW r \in Request, RemoveMember(r)
  PROVE  Once'
<1>1. End(r) /\ UNCHANGED <<links, overlapped>>
  BY DEF RemoveMember
<1>2. SessionsSettle
  <2>1. CASE UNCHANGED sessions
    BY <2>1, SameSessionsSettle
  <2>2. CASE ~ UNCHANGED sessions
    <3> DEFINE dead == {s \in Rows(sessions) : sessions[s].user = req[r].ref}
    <3>1. sessions' = [s \in Sid |-> IF s \in dead THEN GONE ELSE sessions[s]]
      BY <2>2 DEF RemoveMember
    <3> QED BY <3>1, SessionsGoSettles DEF IInv
  <2> QED BY <2>1, <2>2
<1> QED BY <1>1, <1>2, SameLinksSettle, EndOpensNone, BystandersKeepOnce

LEMMA TenantWritesKeepOnce ==
  ASSUME IInv, Once, NEW r \in Request,
         \/ CreateTenant(r) \/ UpdateTenant(r) \/ DeleteTenant(r) \/ \E open \in BOOLEAN : WriteSettings(r, open)
  PROVE  Once'
<1>1. (Goto(r, "invalidate") \/ End(r)) /\ UNCHANGED <<links, sessions, overlapped>>
  BY DEF CreateTenant, UpdateTenant, DeleteTenant, WriteSettings, ghosts
<1>2. NoneOpens
  BY <1>1, EndOpensNone, GotoOpensNone DEF PC, Racing
<1> QED BY <1>1, <1>2, UntouchedKeepOnce

LEMMA DropTenantKeepsOnce ==
  ASSUME IInv, Once, NEW r \in Request, DropTenant(r)
  PROVE  Once'
<1>1. (Goto(r, "invalidate") \/ End(r)) /\ overlapped' = overlapped
  BY DEF DropTenant
<1>2. NoneOpens
  BY <1>1, EndOpensNone, GotoOpensNone DEF PC, Racing
<1>3. CASE UNCHANGED <<links, sessions>>
  BY <1>1, <1>2, <1>3, UntouchedKeepOnce
<1>4. CASE ~ UNCHANGED <<links, sessions>>
  <2> DEFINE ts == TenantsOf(req[r].slug)
             deadLinks == {l \in Rows(links) : links[l].tenant \in ts}
             deadSessions == {s \in Rows(sessions) : sessions[s].tenant \in ts}
  <2>1. /\ links' = [l \in Lid |-> IF l \in deadLinks THEN GONE ELSE links[l]]
        /\ sessions' = [s \in Sid |-> IF s \in deadSessions THEN GONE ELSE sessions[s]]
    BY <1>4 DEF DropTenant
  <2>2. SessionsSettle
    BY <2>1, SessionsGoSettles DEF IInv
  <2>3. LinksSettle
    <3>1. DOMAIN links = Lid /\ DOMAIN links' = Lid
      BY <2>1 DEF IInv, TypeOK
    <3>2. \A l \in Lid : links'[l] = GONE \/ links'[l] = links[l]
      BY <2>1
    <3> HIDE DEF deadLinks
    <3> QED BY <3>1, <3>2, NobodyAssumption DEF LinksSettle, Rows
  <2> QED BY <1>1, <1>2, <2>2, <2>3, BystandersKeepOnce
<1> QED BY <1>3, <1>4

LEMMA TimeKeepsOnce ==
  ASSUME IInv, Once, TimePasses \/ Restart \/ UNCHANGED vars
  PROVE  Once'
<1>1. CASE \E l \in Lid : LinkExpires(l)
  BY <1>1, LinkExpiresKeepsOnce
<1>2. CASE UNCHANGED <<req, links, sessions, overlapped>>
  BY <1>2, UntouchedKeepOnce DEF NoneOpens
<1>3. CASE Restart
  <2>1. NoneOpens
    BY <1>3 DEF Restart, NoneOpens, Quiet, Opening
  <2> QED BY <1>3, <2>1, UntouchedKeepOnce DEF Restart
<1> QED BY <1>1, <1>2, <1>3
    DEF TimePasses, InviteOverdue, Ages, Purge, ExpireInvites, vars, tables, ghosts

LEMMA StepKeepsOnce ==
  ASSUME IInv, Once, [Next]_vars
  PROVE  Once'
<1>1. ASSUME NEW r \in Request, Reads(r)
      PROVE  Once'
  BY <1>1, ReadsKeepOnce
<1>2. ASSUME NEW r \in Request, MagicLinks(r)
      PROVE  Once'
  BY <1>1, <1>2, ArrivalsRead, StatementsRead, SendLinkKeepsOnce, ReadLinkKeepsOnce, UseLinkKeepsOnce,
     EnterKeepsOnce, OpenSessionKeepsOnce, LogoutKeepsOnce DEF MagicLinks
<1>3. ASSUME NEW r \in Request, Invitations(r)
      PROVE  Once'
  BY <1>1, <1>3, ArrivalsRead, StatementsRead, AddingKeepsOnce, RemoveMemberKeepsOnce DEF Invitations
<1>4. ASSUME NEW r \in Request, Signups(r)
      PROVE  Once'
  BY <1>1, <1>4, ArrivalsRead, StatementsRead, AddingKeepsOnce DEF Signups
<1>5. ASSUME NEW r \in Request, Administration(r)
      PROVE  Once'
  BY <1>1, <1>5, ArrivalsRead, StatementsRead, TenantWritesKeepOnce, DropTenantKeepsOnce DEF Administration
<1> QED BY <1>2, <1>3, <1>4, <1>5, RegistryKeepsOnce, TimeKeepsOnce DEF Next

LEMMA InitOnce ==
  ASSUME Init
  PROVE  Once
<1>1. PICK s \in Start : sessions = s.sessions
  BY DEF Init
<1>2. sessions \in [Sid -> [tenant : Tid, user : Uid, link : {NULL}] \union {NULL}]
  BY <1>1, StartAssumption
<1>3. \A x \in Rows(sessions) : sessions[x].link = NULL
  BY <1>2 DEF Rows
<1>4. \A r \in Request : ~ Opening(req[r])
  BY DEF Init, Quiet, Opening
<1> QED BY <1>3, <1>4 DEF Once, SpentLinks, UsedLinks, OpenedOnce

(***************************************************************************)
(* A magic link opens one session, unless callbacks read it before one of  *)
(* them had marked it used (callback of src/routes/auth.rs).               *)
(***************************************************************************)
THEOREM LinksOpenOnce == Spec => []OpenedOnce
<1>1. Init => Once
  BY InitOnce
<1>2. IInv /\ Once /\ [Next]_vars => Once'
  BY StepKeepsOnce
<1>3. Once => OpenedOnce
  BY DEF Once
<1> QED BY <1>1, <1>2, <1>3, Invariance, PTL DEF Spec

-----------------------------------------------------------------------------
(***************************************************************************)
(* Nothing stale in the cache.  The invariant: the row that a request is   *)
(* about to cache is the one in the table, unless its slug is raced or     *)
(* still to be invalidated.                                                *)
(***************************************************************************)
FreshFills ==
  \A slug \in Slug \ raced, r \in Request : req[r].pc = "fill" /\ req[r].slug = slug =>
    Invalidating(slug) \/ tenants[req[r].space.id] = req[r].space.row

FreshCache == StaleOnlyByRace /\ FreshFills

LEMMA CachedIs ==
  ASSUME IInv
  PROVE  /\ \A slug \in Slug : cache[slug] # NULL =>
              cache[slug].id \in Tid /\ cache[slug].row \in TenantRow /\ cache[slug].row.slug = slug
         /\ \A r \in Request : req[r].pc = "fill" =>
              /\ req[r].slug \in Slug /\ req[r].space \in Space /\ req[r].space.row.slug = req[r].slug
              /\ req[r].space.id \in Tid /\ req[r].space.row \in TenantRow
<1>1. \A slug \in Slug : cache[slug] # NULL => cache[slug] \in Space /\ cache[slug].row.slug = slug
  BY DEF IInv, Registered, KnownSpaces
<1>2. ASSUME NEW r \in Request, req[r].pc = "fill"
      PROVE  Placed(req[r]) /\ req[r].slug \in Slug
  BY <1>2 DEF IInv, Requests, Sound, Fit, Placed
<1> QED BY <1>1, <1>2, Standing DEF Space

\* A request goes on, and of the spaces only those change whose slug it will invalidate.
LEMMA OthersKeepFresh ==
  ASSUME IInv, FreshCache, NEW r \in Request, NEW m, Set(r, m), m.pc # "fill", req[r].pc # "invalidate",
         UNCHANGED <<cache, raced>>,
         \A t \in Tid : \/ tenants'[t] = tenants[t] \/ tenants[t] = NULL
                        \/ m.pc = "invalidate" /\ t \in TenantsOf(m.slug)
  PROVE  FreshCache'
<1>1. req'[r] = m /\ \A k \in Request : k # r => req'[k] = req[k]
  BY DEF Set, IInv, Requests
<1>2. \A slug : Invalidating(slug) \/ (m.pc = "invalidate" /\ m.slug = slug) => Invalidating(slug)'
  BY <1>1 DEF Invalidating
<1>3. ASSUME NEW t \in Tid, NEW row \in TenantRow, tenants[t] = row, ~ Invalidating(row.slug)'
      PROVE  tenants'[t] = row
  <2>1. tenants[t] # NULL
    BY <1>3, RowIsSome
  <2>2. ~ (m.pc = "invalidate" /\ t \in TenantsOf(m.slug))
    BY <1>2, <1>3 DEF TenantsOf
  <2> QED BY <1>3, <2>1, <2>2
<1>4. StaleOnlyByRace'
  <2> SUFFICES ASSUME NEW slug \in Slug, slug \notin raced, cache[slug] # NULL, ~ Invalidating(slug)'
               PROVE  tenants'[cache[slug].id] = cache[slug].row
    BY DEF StaleOnlyByRace
  <2>1. cache[slug].id \in Tid /\ cache[slug].row \in TenantRow /\ cache[slug].row.slug = slug
    BY CachedIs
  <2>2. tenants[cache[slug].id] = cache[slug].row
    BY <1>2 DEF FreshCache, StaleOnlyByRace
  <2> QED BY <1>3, <2>1, <2>2
<1>5. FreshFills'
  <2> SUFFICES ASSUME NEW slug \in Slug, slug \notin raced, NEW k \in Request, req'[k].pc = "fill",
                      req'[k].slug = slug, ~ Invalidating(slug)'
               PROVE  tenants'[req'[k].space.id] = req'[k].space.row
    BY DEF FreshFills
  <2>1. req'[k] = req[k] /\ req[k].pc = "fill"
    BY <1>1
  <2>2. /\ req[k].space.id \in Tid /\ req[k].space.row \in TenantRow
        /\ req[k].space.row.slug = req[k].slug
    BY <2>1, CachedIs
  <2>3. tenants[req[k].space.id] = req[k].space.row
    BY <1>2, <2>1 DEF FreshCache, FreshFills
  <2> QED BY <1>3, <2>1, <2>2, <2>3
<1> QED BY <1>4, <1>5 DEF FreshCache

LEMMA CalmKeepsFresh ==
  ASSUME IInv, FreshCache, NEW r \in Request, NEW m, Set(r, m), m.pc # "fill", req[r].pc # "invalidate",
         UNCHANGED <<tenants, cache, raced>>
  PROVE  FreshCache'
BY OthersKeepFresh

LEMMA EndKeepsFresh ==
  ASSUME IInv, FreshCache, NEW r \in Request, End(r), req[r].pc # "invalidate", UNCHANGED <<tenants, cache, raced>>
  PROVE  FreshCache'
BY CalmKeepsFresh DEF End, Quiet

LEMMA ReadsKeepFresh ==
  ASSUME IInv, FreshCache, NEW r \in Request, Reads(r)
  PROVE  FreshCache'
<1>1. PICK m : Set(r, m) /\ m.pc \notin Racing
  BY DEF Reads, Plain
<1> QED BY <1>1, CalmKeepsFresh DEF Reads, Plain, Racing

LEMMA ResolveKeepsFresh ==
  ASSUME IInv, FreshCache, NEW r \in Request, Resolve(r) \/ Fallback(r)
  PROVE  FreshCache'
<1> DEFINE q == req[r]
<1>1. q \in ReqRow /\ q.pc = "resolve" /\ q.op \in Served /\ UNCHANGED <<tenants, cache, raced>>
  BY DEF Resolve, Fallback, IInv, Requests, Sound, Fit, tables, ghosts
<1>2. FirstStep[q.op] \notin Racing
  BY <1>1, FirstStepIs DEF Served, ByMember
<1>3. ASSUME NEW x, Set(r, [q EXCEPT !.space = x, !.pc = FirstStep[q.op]])
      PROVE  FreshCache'
  <2>1. PICK m : m = [q EXCEPT !.space = x, !.pc = FirstStep[q.op]]
    OBVIOUS
  <2>2. m.pc = FirstStep[q.op]
    BY <1>1, <2>1 DEF ReqRow
  <2> QED BY <1>1, <1>2, <1>3, <2>1, <2>2, CalmKeepsFresh DEF Racing
<1>4. ASSUME NEW t \in TenantsOf(q.slug),
             Set(r, [q EXCEPT !.space = [id |-> t, row |-> tenants[t]], !.pc = "fill"])
      PROVE  FreshCache'
  <2>1. PICK m : m = [q EXCEPT !.space = [id |-> t, row |-> tenants[t]], !.pc = "fill"]
    OBVIOUS
  <2>2. m.pc = "fill" /\ m.space = [id |-> t, row |-> tenants[t]]
    BY <1>1, <2>1 DEF ReqRow
  <2>3. req'[r] = m /\ \A k \in Request : k # r => req'[k] = req[k]
    BY <1>4, <2>1 DEF Set, IInv, Requests
  <2>4. \A slug : Invalidating(slug) => Invalidating(slug)'
    BY <1>1, <2>3 DEF Invalidating
  <2>5. StaleOnlyByRace'
    BY <1>1, <2>4 DEF FreshCache, StaleOnlyByRace
  <2>6. FreshFills'
    <3> SUFFICES ASSUME NEW slug \in Slug, slug \notin raced, NEW k \in Request, req'[k].pc = "fill",
                        req'[k].slug = slug, ~ Invalidating(slug)'
                 PROVE  tenants[req'[k].space.id] = req'[k].space.row
      BY <1>1 DEF FreshFills
    <3>1. CASE k = r
      BY <2>2, <2>3, <3>1
    <3>2. CASE k # r
      BY <2>3, <2>4, <3>2 DEF FreshCache, FreshFills
    <3> QED BY <3>1, <3>2
  <2> QED BY <2>5, <2>6 DEF FreshCache
<1>5. CASE Fallback(r)
  BY <1>3, <1>5 DEF Fallback
<1>6. CASE Resolve(r)
  BY <1>1, <1>3, <1>4, <1>6, EndKeepsFresh DEF Resolve
<1> QED BY <1>5, <1>6

LEMMA FillKeepsFresh ==
  ASSUME IInv, FreshCache, NEW r \in Request, Fill(r)
  PROVE  FreshCache'
<1> DEFINE q == req[r]
<1>1. /\ q \in ReqRow /\ q.pc = "fill" /\ q.op \in Served
      /\ cache' = [cache EXCEPT ![q.slug] = q.space] /\ UNCHANGED <<tenants, raced>>
  BY DEF Fill, IInv, Requests, Sound, Fit, tables, ghosts
<1>2. FirstStep[q.op] \notin Racing
  BY <1>1, FirstStepIs DEF Served, ByMember
<1>3. PICK m : m = [q EXCEPT !.pc = FirstStep[q.op]]
  OBVIOUS
<1>4. m.pc = FirstStep[q.op]
  BY <1>1, <1>3 DEF ReqRow
<1>5. req'[r] = m /\ \A k \in Request : k # r => req'[k] = req[k]
  BY <1>3 DEF Fill, Goto, Set, IInv, Requests
<1>6. \A slug : Invalidating(slug) => Invalidating(slug)'
  BY <1>1, <1>5 DEF Invalidating
<1>7. q.slug \in Slug /\ \A slug \in Slug : cache'[slug] = IF slug = q.slug THEN q.space ELSE cache[slug]
  BY <1>1, CachedIs DEF IInv, TypeOK
<1>8. StaleOnlyByRace'
  <2> SUFFICES ASSUME NEW slug \in Slug, slug \notin raced, cache'[slug] # NULL, ~ Invalidating(slug)'
               PROVE  tenants[cache'[slug].id] = cache'[slug].row
    BY <1>1 DEF StaleOnlyByRace
  <2>1. CASE slug = q.slug
    BY <1>1, <1>6, <1>7, <2>1 DEF FreshCache, FreshFills
  <2>2. CASE slug # q.slug
    BY <1>6, <1>7, <2>2 DEF FreshCache, StaleOnlyByRace
  <2> QED BY <2>1, <2>2
<1>9. FreshFills'
  <2> SUFFICES ASSUME NEW slug \in Slug, slug \notin raced, NEW k \in Request, req'[k].pc = "fill",
                      req'[k].slug = slug, ~ Invalidating(slug)'
               PROVE  tenants[req'[k].space.id] = req'[k].space.row
    BY <1>1 DEF FreshFills
  <2>1. req'[k] = req[k]
    BY <1>2, <1>4, <1>5 DEF Racing
  <2> QED BY <1>6, <2>1 DEF FreshCache, FreshFills
<1> QED BY <1>8, <1>9 DEF FreshCache

\* A slug is forgotten; who is about to cache it makes it raced.
LEMMA InvalidateKeepsFresh ==
  ASSUME IInv, FreshCache, NEW r \in Request, Invalidate(r)
  PROVE  FreshCache'
<1> DEFINE q == req[r]
<1>1. /\ q \in ReqRow /\ q.pc = "invalidate"
      /\ cache' = [cache EXCEPT ![q.slug] = NULL] /\ UNCHANGED tenants
      /\ raced' = IF \E k \in Request : req[k].pc = "fill" /\ req[k].slug = q.slug
                    THEN raced \union {q.slug} ELSE raced \ {q.slug}
  BY DEF Invalidate, Forget, IInv, Requests, tables
<1>2. PICK m : Set(r, m) /\ m.pc # "fill"
  <2>1. PICK n : n = [q EXCEPT !.op = "reload", !.pc = "resolve"]
    OBVIOUS
  <2>2. n.pc = "resolve"
    BY <1>1, <2>1 DEF ReqRow
  <2>3. Set(r, n) \/ Set(r, Quiet)
    BY <2>1 DEF Invalidate, End
  <2> QED BY <2>2, <2>3 DEF Quiet
<1>3. req'[r] = m /\ \A k \in Request : k # r => req'[k] = req[k]
  BY <1>2 DEF Set, IInv, Requests
<1>4. \A slug : slug # q.slug /\ Invalidating(slug) => Invalidating(slug)'
  BY <1>3 DEF Invalidating
<1>5. \A slug \in Slug : cache'[slug] = IF slug = q.slug THEN NULL ELSE cache[slug]
  BY <1>1 DEF IInv, TypeOK
<1>6. StaleOnlyByRace'
  <2> SUFFICES ASSUME NEW slug \in Slug, slug \notin raced', cache'[slug] # NULL, ~ Invalidating(slug)'
               PROVE  tenants[cache'[slug].id] = cache'[slug].row
    BY <1>1 DEF StaleOnlyByRace
  <2>1. slug # q.slug /\ slug \notin raced
    BY <1>1, <1>5
  <2> QED BY <1>4, <1>5, <2>1 DEF FreshCache, StaleOnlyByRace
<1>7. FreshFills'
  <2> SUFFICES ASSUME NEW slug \in Slug, slug \notin raced', NEW k \in Request, req'[k].pc = "fill",
                      req'[k].slug = slug, ~ Invalidating(slug)'
               PROVE  tenants[req'[k].space.id] = req'[k].space.row
    BY <1>1 DEF FreshFills
  <2>1. req'[k] = req[k]
    BY <1>2, <1>3
  <2>2. slug # q.slug /\ slug \notin raced
    BY <1>1, <2>1
  <2> QED BY <1>4, <2>1, <2>2 DEF FreshCache, FreshFills
<1> QED BY <1>6, <1>7 DEF FreshCache

LEMMA StopsKeepsFresh ==
  ASSUME IInv, FreshCache, NEW r \in Request, Stops(r)
  PROVE  FreshCache'
<1>1. End(r) /\ UNCHANGED <<tenants, cache>>
  BY DEF Stops, tables
<1>2. CASE req[r].pc # "invalidate"
  BY <1>1, <1>2, EndKeepsFresh DEF Stops
<1>3. CASE req[r].pc = "invalidate"
  <2>1. raced' = raced \union {req[r].slug}
    BY <1>3 DEF Stops
  <2>2. req'[r].pc # "fill" /\ \A k \in Request : k # r => req'[k] = req[k]
    BY <1>1 DEF End, Set, Quiet, IInv, Requests
  <2>3. \A slug : slug \notin raced' => slug \notin raced /\ (Invalidating(slug) => Invalidating(slug)')
    BY <2>1, <2>2 DEF Invalidating
  <2>4. StaleOnlyByRace'
    BY <1>1, <2>3 DEF FreshCache, StaleOnlyByRace
  <2>5. FreshFills'
    BY <1>1, <2>2, <2>3 DEF FreshCache, FreshFills
  <2> QED BY <2>4, <2>5 DEF FreshCache
<1> QED BY <1>2, <1>3

\* The handler goes on to invalidate the slug of the spaces it wrote.
LEMMA ForgetsLater ==
  ASSUME IInv, FreshCache, NEW r \in Request, Goto(r, "invalidate"), req[r].pc # "invalidate",
         UNCHANGED <<cache, raced>>,
         \A t \in Tid : \/ tenants'[t] = tenants[t] \/ tenants[t] = NULL
                        \/ t \in TenantsOf(req[r].slug)
  PROVE  FreshCache'
<1>1. PICK m : m = [req[r] EXCEPT !.pc = "invalidate"]
  OBVIOUS
<1>2. req[r] \in ReqRow
  BY DEF IInv, Requests
<1>3. m.pc = "invalidate" /\ m.slug = req[r].slug
  BY <1>1, <1>2 DEF ReqRow
<1>4. Set(r, m)
  BY <1>1 DEF Goto
<1> QED BY <1>3, <1>4, OthersKeepFresh

LEMMA CreateTenantKeepsFresh ==
  ASSUME IInv, FreshCache, NEW r \in Request, CreateTenant(r)
  PROVE  FreshCache'
<1>1. req[r].pc = "write" /\ UNCHANGED <<cache, raced>>
  BY DEF CreateTenant, At
<1>2. CASE End(r) /\ UNCHANGED tenants
  BY <1>1, <1>2, EndKeepsFresh
<1>3. CASE ~ (End(r) /\ UNCHANGED tenants)
  <2>1. PICK t \in Free(tenants) : \E x : tenants' = [tenants EXCEPT ![t] = x]
    BY <1>3 DEF CreateTenant
  <2>2. \A k \in Tid : tenants'[k] = tenants[k] \/ tenants[k] = NULL
    BY <2>1 DEF Free, IInv, TypeOK
  <2> QED BY <1>1, <1>3, <2>2, ForgetsLater DEF CreateTenant
<1> QED BY <1>2, <1>3

LEMMA UpdateTenantKeepsFresh ==
  ASSUME IInv, FreshCache, NEW r \in Request, UpdateTenant(r)
  PROVE  FreshCache'
<1>1. req[r].pc = "write" /\ UNCHANGED <<cache, raced>>
  BY DEF UpdateTenant, At
<1>2. CASE End(r) /\ UNCHANGED tenants
  BY <1>1, <1>2, EndKeepsFresh
<1>3. CASE ~ (End(r) /\ UNCHANGED tenants)
  <2>1. PICK t \in TenantsOf(req[r].slug) :
          tenants' = [tenants EXCEPT ![t].admins = req[r].saw.admins, ![t].domain = req[r].saw.domain]
    BY <1>3 DEF UpdateTenant
  <2>2. \A k \in Tid : k # t => tenants'[k] = tenants[k]
    BY <2>1 DEF IInv, TypeOK
  <2> QED BY <1>1, <1>3, <2>1, <2>2, ForgetsLater DEF UpdateTenant
<1> QED BY <1>2, <1>3

LEMMA WriteSettingsKeepsFresh ==
  ASSUME IInv, FreshCache, NEW r \in Request, NEW open \in BOOLEAN, WriteSettings(r, open)
  PROVE  FreshCache'
<1> DEFINE q == req[r]
           t == q.space.id
<1>1. q.op = "settings" /\ q.pc = "write" /\ UNCHANGED <<cache, raced>>
  BY DEF WriteSettings, At, ghosts
<1>2. CASE End(r) /\ UNCHANGED tenants
  BY <1>1, <1>2, EndKeepsFresh
<1>3. CASE t \in Rows(tenants) /\ tenants' = [tenants EXCEPT ![t].open = open] /\ Goto(r, "invalidate")
  <2>1. q.space \in KnownSpaces /\ q.space.row.slug = q.slug
    BY <1>1, Standing DEF Placed, Served, ByMember
  <2>2. t \in TenantsOf(q.slug)
    BY <1>3, <2>1 DEF KnownSpaces, Known, TenantsOf
  <2>3. \A k \in Tid : k # t => tenants'[k] = tenants[k]
    BY <1>3 DEF IInv, TypeOK
  <2> QED BY <1>1, <1>3, <2>2, <2>3, ForgetsLater
<1> QED BY <1>2, <1>3 DEF WriteSettings

LEMMA GoneKeepFresh ==
  ASSUME IInv, FreshCache, NEW r \in Request, DeleteTenant(r) \/ DropTenant(r)
  PROVE  FreshCache'
<1> DEFINE ts == TenantsOf(req[r].slug)
<1>1. req[r].pc \in {"delete", "write"} /\ UNCHANGED <<cache, raced>>
  BY DEF DeleteTenant, DropTenant, At, ghosts
<1>2. CASE End(r) /\ UNCHANGED tenants
  BY <1>1, <1>2, EndKeepsFresh
<1>3. CASE ~ (End(r) /\ UNCHANGED tenants)
  <2>1. tenants' = [t \in Tid |-> IF t \in ts THEN GONE ELSE tenants[t]] /\ Goto(r, "invalidate")
    BY <1>3 DEF DeleteTenant, DropTenant
  <2>2. \A t \in Tid : tenants'[t] = tenants[t] \/ t \in ts
    BY <2>1
  <2> QED BY <1>1, <2>1, <2>2, ForgetsLater
<1> QED BY <1>2, <1>3

\* A new space is in no cache: its id was not used before.
LEMMA CreateSpaceKeepsFresh ==
  ASSUME IInv, FreshCache, NEW r \in Request, CreateSpace(r)
  PROVE  FreshCache'
<1>1. req[r].pc = "create" /\ End(r) /\ UNCHANGED <<cache, raced>>
  BY DEF CreateSpace, At, ghosts
<1>2. CASE UNCHANGED tenants
  BY <1>1, <1>2, EndKeepsFresh
<1>3. CASE ~ UNCHANGED tenants
  <2>1. PICK t \in Free(tenants) : \E x : tenants' = [tenants EXCEPT ![t] = x]
    BY <1>3 DEF CreateSpace
  <2>2. \A k \in Tid : tenants'[k] = tenants[k] \/ tenants[k] = NULL
    BY <2>1 DEF Free, IInv, TypeOK
  <2> QED BY <1>1, <2>2, OthersKeepFresh DEF End, Quiet
<1> QED BY <1>2, <1>3

LEMMA RestartKeepsFresh ==
  ASSUME IInv, Restart
  PROVE  FreshCache'
<1>1. PICK t, row : Boot(t, row) /\ tenants'[t] = row
  <2>1. ASSUME NEW t, Boot(t, tenants[t]), UNCHANGED tenants
        PROVE  tenants'[t] = tenants[t]
    BY <2>1
  <2>2. ASSUME NEW t \in Free(tenants), Boot(t, HomeRow), tenants' = [tenants EXCEPT ![t] = HomeRow]
        PROVE  tenants'[t] = HomeRow
    BY <2>2 DEF Free, IInv, TypeOK
  <2> QED BY <2>1, <2>2 DEF Restart
<1>2. StaleOnlyByRace'
  BY <1>1 DEF Boot, StaleOnlyByRace
<1>3. FreshFills'
  BY DEF Restart, FreshFills, Quiet
<1> QED BY <1>2, <1>3 DEF FreshCache

\* The callback reads or writes no space.
LEMMA CallbackKeepsFresh ==
  ASSUME IInv, FreshCache, NEW r \in Request, ReadLink(r) \/ UseLink(r) \/ Enter(r)
  PROVE  FreshCache'
<1> DEFINE q == req[r]
<1>1. q \in ReqRow /\ q.pc \in {"read", "use", "enter"} /\ UNCHANGED <<tenants, cache, raced>>
  BY DEF ReadLink, UseLink, Enter, At, IInv, Requests, tables, ghosts
<1>2. CASE End(r)
  BY <1>1, <1>2, EndKeepsFresh
<1>3. ASSUME NEW e, Set(r, [q EXCEPT !.pc = "use", !.email = e])
      PROVE  FreshCache'
  <2>1. PICK m : m = [q EXCEPT !.pc = "use", !.email = e]
    OBVIOUS
  <2>2. m.pc = "use"
    BY <1>1, <2>1 DEF ReqRow
  <2> QED BY <1>1, <1>3, <2>1, <2>2, CalmKeepsFresh
<1>4. ASSUME Goto(r, "enter")
      PROVE  FreshCache'
  <2>1. PICK m : m = [q EXCEPT !.pc = "enter"]
    OBVIOUS
  <2>2. m.pc = "enter"
    BY <1>1, <2>1 DEF ReqRow
  <2> QED BY <1>1, <1>4, <2>1, <2>2, CalmKeepsFresh DEF Goto
<1>5. ASSUME NEW w, Set(r, [q EXCEPT !.pc = "session", !.who = w])
      PROVE  FreshCache'
  <2>1. PICK m : m = [q EXCEPT !.pc = "session", !.who = w]
    OBVIOUS
  <2>2. m.pc = "session"
    BY <1>1, <2>1 DEF ReqRow
  <2> QED BY <1>1, <1>5, <2>1, <2>2, CalmKeepsFresh
<1> QED BY <1>2, <1>3, <1>4, <1>5 DEF ReadLink, UseLink, Enter

LEMMA EndingsKeepFresh ==
  ASSUME IInv, FreshCache, NEW r \in Request,
         SendLink(r) \/ OpenSession(r) \/ Logout(r) \/ Join(r) \/ RemoveMember(r)
  PROVE  FreshCache'
BY EndKeepsFresh DEF SendLink, OpenSession, Logout, Join, RemoveMember, At, ghosts

LEMMA TimeKeepsFresh ==
  ASSUME FreshCache, TimePasses \/ UNCHANGED vars
  PROVE  FreshCache'
<1>1. UNCHANGED <<tenants, cache, req, raced>>
  BY DEF TimePasses, LinkExpires, InviteOverdue, Ages, Purge, ExpireInvites, vars, tables, ghosts
<1> QED BY <1>1 DEF FreshCache, StaleOnlyByRace, FreshFills, Invalidating

LEMMA StepKeepsFresh ==
  ASSUME IInv, FreshCache, [Next]_vars
  PROVE  FreshCache'
<1>1. ASSUME NEW r \in Request, Reads(r)
      PROVE  FreshCache'
  BY <1>1, ReadsKeepFresh
<1>2. ASSUME NEW r \in Request, Registry(r)
      PROVE  FreshCache'
  BY <1>1, <1>2, StatementsRead, ResolveKeepsFresh, FillKeepsFresh, InvalidateKeepsFresh, StopsKeepsFresh
  DEF Registry
<1>3. ASSUME NEW r \in Request, MagicLinks(r)
      PROVE  FreshCache'
  BY <1>1, <1>3, ArrivalsRead, StatementsRead, CallbackKeepsFresh, EndingsKeepFresh DEF MagicLinks
<1>4. ASSUME NEW r \in Request, Invitations(r)
      PROVE  FreshCache'
  BY <1>1, <1>4, ArrivalsRead, StatementsRead, EndingsKeepFresh DEF Invitations
<1>5. ASSUME NEW r \in Request, Signups(r)
      PROVE  FreshCache'
  BY <1>1, <1>5, ArrivalsRead, StatementsRead, CreateSpaceKeepsFresh DEF Signups
<1>6. ASSUME NEW r \in Request, Administration(r)
      PROVE  FreshCache'
  BY <1>1, <1>6, ArrivalsRead, StatementsRead, CreateTenantKeepsFresh, UpdateTenantKeepsFresh,
     WriteSettingsKeepsFresh, GoneKeepFresh DEF Administration
<1> QED BY <1>2, <1>3, <1>4, <1>5, <1>6, TimeKeepsFresh, RestartKeepsFresh DEF Next

LEMMA InitFresh ==
  ASSUME Init
  PROVE  FreshCache
<1>1. \E t : boot = [id |-> t, row |-> tenants[t]]
  BY DEF Init
<1>2. \A slug \in Slug : cache[slug] = IF slug = Home THEN boot ELSE NULL
  BY DEF Init
<1>3. StaleOnlyByRace
  BY <1>1, <1>2 DEF StaleOnlyByRace
<1>4. FreshFills
  BY DEF Init, FreshFills, Quiet
<1> QED BY <1>3, <1>4 DEF FreshCache

(***************************************************************************)
(* What the registry has cached is what the table says, but for a slug     *)
(* that was raced, or is still to be invalidated (TenantRegistry of        *)
(* src/tenant.rs, and the handlers that write tenants).                    *)
(***************************************************************************)
THEOREM CacheIsFresh == Spec => []StaleOnlyByRace
<1>1. Init => FreshCache
  BY InitFresh
<1>2. IInv /\ FreshCache /\ [Next]_vars => FreshCache'
  BY StepKeepsFresh
<1>3. FreshCache => StaleOnlyByRace
  BY DEF FreshCache
<1> QED BY <1>1, <1>2, <1>3, Invariance, PTL DEF Spec

-----------------------------------------------------------------------------
(***************************************************************************)
(* The invariant: pending spaces do not share a slug; a sign-up past the   *)
(* look at the tables finds no space of its slug, or one that came from a  *)
(* pending space; what a verification creates is still held by its row.    *)
(***************************************************************************)
OnePerSlug == \A p, q \in Rows(pendings) : pendings[p].slug = pendings[q].slug => p = q

Forming(q) == q.op = "signup" /\ q.pc \in {"cooldown", "insert"}
Creating(q) == q.op = "verify" /\ q.pc = "create"

Settled(slug) ==
  \/ TenantsOf(slug) = {} \/ slug \in made
  \/ \E p \in Rows(pendings) : pendings[p].slug = slug /\ pendings[p].used

Held(p, slug) ==
  \/ slug \in made
  \/ /\ p \in Rows(pendings) /\ pendings[p].slug = slug
     /\ pendings[p].used \/ pendings[p].age # "old"

FormsSettled == \A slug \in Slug, r \in Request : Forming(req[r]) /\ req[r].slug = slug => Settled(slug)

CreationsHeld ==
  \A slug \in Slug, p \in Pid, r \in Request :
    Creating(req[r]) /\ req[r].ref = p /\ req[r].saw.slug = slug => Held(p, slug)

Reserving == OnePerSlug /\ ReservedSlugs /\ FormsSettled /\ CreationsHeld

\* What others do to the tables: no space comes but one that counts as made, no pending space
\* comes or comes alive, and one goes with its space or when it is old.
SpacesShrink ==
  /\ made \subseteq made'
  /\ \A t \in Rows(tenants') :
       \/ tenants'[t].slug \in made'
       \/ t \in Rows(tenants) /\ tenants'[t].slug = tenants[t].slug

PendingsShrink ==
  /\ \A p \in Rows(pendings') :
       /\ p \in Rows(pendings) /\ pendings'[p].slug = pendings[p].slug
       /\ pendings[p].used => pendings'[p].used
       /\ pendings'[p].age = "live" => pendings[p].age = "live"
       /\ pendings'[p].age = "old" =>
            pendings[p].age = "old" \/ \A r \in Request : Creating(req[r]) => req[r].ref # p
  /\ \A p \in Rows(pendings) \ Rows(pendings') :
       pendings[p].slug \in made' \/ (~ pendings[p].used /\ pendings[p].age = "old")

\* No request comes to where a slug is settled or held.
NoneForms == \A k \in Request : Forming(req'[k]) \/ Creating(req'[k]) => req'[k] = req[k]

LEMMA SettledLasts ==
  ASSUME SpacesShrink, PendingsShrink, NEW slug, Settled(slug)
  PROVE  Settled(slug)'
<1>1. CASE TenantsOf(slug) = {} \/ slug \in made
  BY <1>1 DEF SpacesShrink, Settled, TenantsOf
<1>2. ASSUME NEW p \in Rows(pendings), pendings[p].slug = slug, pendings[p].used
      PROVE  Settled(slug)'
  <2>1. CASE p \in Rows(pendings')
    BY <1>2, <2>1 DEF PendingsShrink, Settled
  <2>2. CASE p \notin Rows(pendings')
    BY <1>2, <2>2 DEF PendingsShrink, Settled
  <2> QED BY <2>1, <2>2
<1> QED BY <1>1, <1>2 DEF Settled

LEMMA HeldLasts ==
  ASSUME SpacesShrink, PendingsShrink, NEW r \in Request, Creating(req[r]), NEW slug, NEW p, req[r].ref = p,
         Held(p, slug)
  PROVE  Held(p, slug)'
<1>1. CASE slug \in made
  BY <1>1 DEF SpacesShrink, Held
<1>2. CASE /\ p \in Rows(pendings) /\ pendings[p].slug = slug
           /\ pendings[p].used \/ pendings[p].age # "old"
  <2>1. CASE p \in Rows(pendings')
    BY <1>2, <2>1 DEF PendingsShrink, Held
  <2>2. CASE p \notin Rows(pendings')
    BY <1>2, <2>2 DEF PendingsShrink, Held
  <2> QED BY <2>1, <2>2
<1> QED BY <1>1, <1>2 DEF Held

LEMMA ReservedLasts ==
  ASSUME SpacesShrink, PendingsShrink, OnePerSlug, ReservedSlugs
  PROVE  OnePerSlug' /\ ReservedSlugs'
<1>1. OnePerSlug'
  BY DEF PendingsShrink, OnePerSlug
<1>2. ReservedSlugs'
  <2> SUFFICES ASSUME NEW p \in Rows(pendings'), ~ pendings'[p].used, pendings'[p].age = "live",
                      NEW t \in Rows(tenants'), tenants'[t].slug = pendings'[p].slug
               PROVE  pendings'[p].slug \in made'
    BY DEF ReservedSlugs, IsLive, TenantsOf
  <2>1. p \in Rows(pendings) /\ IsLive(p) /\ pendings'[p].slug = pendings[p].slug
    BY DEF PendingsShrink, IsLive
  <2>2. CASE t \in Rows(tenants) /\ tenants'[t].slug = tenants[t].slug
    BY <2>1, <2>2 DEF ReservedSlugs, TenantsOf, SpacesShrink
  <2> QED BY <2>2 DEF SpacesShrink
<1> QED BY <1>1, <1>2

LEMMA OthersKeepReserving ==
  ASSUME Reserving, SpacesShrink, PendingsShrink, NoneForms
  PROVE  Reserving'
<1>1. OnePerSlug' /\ ReservedSlugs'
  BY ReservedLasts DEF Reserving
<1>2. FormsSettled'
  <2> SUFFICES ASSUME NEW slug \in Slug, NEW k \in Request, Forming(req'[k]), req'[k].slug = slug
               PROVE  Settled(slug)'
    BY DEF FormsSettled, Forming
  <2> QED BY SettledLasts DEF NoneForms, Reserving, FormsSettled
<1>3. CreationsHeld'
  <2> SUFFICES ASSUME NEW slug \in Slug, NEW p \in Pid, NEW k \in Request, Creating(req'[k]),
                      req'[k].ref = p, req'[k].saw.slug = slug
               PROVE  Held(p, slug)'
    BY DEF CreationsHeld, Creating
  <2> QED BY HeldLasts DEF NoneForms, Reserving, CreationsHeld
<1> QED BY <1>1, <1>2, <1>3 DEF Reserving

LEMMA SameShrinks ==
  /\ UNCHANGED <<tenants, made>> => SpacesShrink
  /\ UNCHANGED pendings => PendingsShrink
BY DEF SpacesShrink, PendingsShrink, Rows

-----------------------------------------------------------------------------
(***************************************************************************)
(* A request of another kind does not come there.                          *)
(***************************************************************************)
\* How a request goes on.
Onward(q, m) ==
  \/ \E pc : m = [q EXCEPT !.pc = pc]
  \/ \E x, pc : m = [q EXCEPT !.space = x, !.pc = pc]
  \/ \E x, pc : m = [q EXCEPT !.pc = pc, !.who = x]
  \/ \E x, y, pc : m = [q EXCEPT !.slug = x, !.ref = y, !.pc = pc]
  \/ \E x, pc : m = [q EXCEPT !.pc = pc, !.ref = x]
  \/ \E x, pc : m = [q EXCEPT !.pc = pc, !.email = x]

GoesOnward(r) == \E m : Set(r, m) /\ Onward(req[r], m)

LEMMA GotoOnward ==
  ASSUME NEW r \in Request, NEW pc, Goto(r, pc)
  PROVE  GoesOnward(r)
BY DEF Goto, GoesOnward, Onward

LEMMA ResolvedOnward ==
  ASSUME NEW r \in Request, NEW x, NEW pc, Set(r, [req[r] EXCEPT !.space = x, !.pc = pc])
  PROVE  GoesOnward(r)
<1>1. PICK m : m = [req[r] EXCEPT !.space = x, !.pc = pc]
  OBVIOUS
<1>2. Onward(req[r], m)
  BY <1>1, Zenon DEF Onward
<1> QED BY <1>1, <1>2 DEF GoesOnward

LEMMA LocatedOnward ==
  ASSUME NEW r \in Request, NEW x, NEW y, NEW pc, Set(r, [req[r] EXCEPT !.slug = x, !.ref = y, !.pc = pc])
  PROVE  GoesOnward(r)
<1>1. PICK m : m = [req[r] EXCEPT !.slug = x, !.ref = y, !.pc = pc]
  OBVIOUS
<1>2. Onward(req[r], m)
  BY <1>1, Zenon DEF Onward
<1> QED BY <1>1, <1>2 DEF GoesOnward

LEMMA AdmittedOnward ==
  ASSUME NEW r \in Request, NEW x, NEW pc, Set(r, [req[r] EXCEPT !.pc = pc, !.who = x])
  PROVE  GoesOnward(r)
BY DEF GoesOnward, Onward

LEMMA OnwardForms ==
  ASSUME IInv, NEW r \in Request, GoesOnward(r), req[r].op \notin {"signup", "verify"}
  PROVE  NoneForms
<1>1. PICK m : Set(r, m) /\ Onward(req[r], m)
  BY DEF GoesOnward
<1>2. req[r] \in ReqRow
  BY DEF IInv, Requests
<1>3. m.op = req[r].op
  BY <1>1, <1>2 DEF Onward, ReqRow
<1> QED BY <1>1, <1>3 DEF NoneForms, Forming, Creating, Set, IInv, Requests

LEMMA EndsForms ==
  ASSUME IInv, NEW r \in Request, End(r)
  PROVE  NoneForms
BY NobodyAssumption DEF End, Set, Quiet, NoneForms, Forming, Creating, IInv, Requests

LEMMA ComesForms ==
  ASSUME IInv, NEW r \in Request, Comes(r)
  PROVE  NoneForms /\ UNCHANGED <<tenants, pendings, made>>
BY DEF Comes, Doors, Set, NoneForms, Forming, Creating, IInv, Requests, tables, ghosts

LEMMA RegistryForms ==
  ASSUME IInv, NEW r \in Request, Registry(r)
  PROVE  NoneForms /\ UNCHANGED <<tenants, pendings, made>>
<1> DEFINE q == req[r]
<1>1. q \in ReqRow /\ (q.pc \in {"resolve", "fill", "auth"} => q.op \in Served)
  BY DEF IInv, Requests, Sound, Fit
<1>2. q.pc \in {"resolve", "fill", "auth"} => q.op \notin {"signup", "verify"}
  BY <1>1 DEF Served, ByMember
<1>3. UNCHANGED <<tenants, pendings, made>>
  BY RegistryReads DEF Registry, Resolve, Fallback, Fill, Invalidate, Reloaded, Auth, Stops, tables, ghosts
<1>4. CASE Resolve(r) \/ Fallback(r) \/ Fill(r) \/ Auth(r)
  <2>1. q.pc \in {"resolve", "fill", "auth"}
    BY <1>4 DEF Resolve, Fallback, Fill, Auth
  <2>2. GoesOnward(r) \/ End(r)
    <3>1. CASE Resolve(r)
      BY <3>1, ResolvedOnward DEF Resolve
    <3>2. CASE Fallback(r) \/ Fill(r)
      BY <3>2, ResolvedOnward, GotoOnward DEF Fallback, Fill
    <3>3. CASE Auth(r)
      BY <3>3, AdmittedOnward DEF Auth
    <3> QED BY <1>4, <3>1, <3>2, <3>3
  <2> QED BY <1>2, <1>3, <2>1, <2>2, OnwardForms, EndsForms
<1>5. CASE Reloaded(r) \/ Stops(r)
  BY <1>3, <1>5, EndsForms DEF Reloaded, Stops
<1>6. CASE Invalidate(r)
  <2>1. PICK m : m = [q EXCEPT !.op = "reload", !.pc = "resolve"]
    OBVIOUS
  <2>2. m.op = "reload"
    BY <1>1, <2>1 DEF ReqRow
  <2>3. End(r) \/ Set(r, m)
    BY <1>6, <2>1 DEF Invalidate
  <2> QED BY <1>3, <2>2, <2>3, EndsForms DEF NoneForms, Forming, Creating, Set, IInv, Requests
<1> QED BY <1>4, <1>5, <1>6 DEF Registry

LEMMA MagicLinksForms ==
  ASSUME IInv, NEW r \in Request, MagicLinks(r)
  PROVE  NoneForms /\ UNCHANGED <<tenants, pendings, made>>
<1>1. CASE Comes(r)
  BY <1>1, ComesForms
<1>2. CASE AskMember(r) \/ AskInvited(r) \/ AskWhose(r) \/ SendLink(r)
  <2>1. /\ req[r].op \notin {"signup", "verify"}
        /\ UNCHANGED <<tenants, pendings, made>>
    BY <1>2 DEF AskMember, AskInvited, AskWhose, SendLink, At, tables, ghosts
  <2>2. GoesOnward(r) \/ End(r)
    <3>1. CASE AskMember(r)
      BY <3>1, GotoOnward DEF AskMember
    <3>2. CASE AskInvited(r)
      BY <3>2, GotoOnward DEF AskInvited
    <3>3. CASE AskWhose(r)
      BY <3>3, LocatedOnward DEF AskWhose
    <3>4. CASE SendLink(r)
      BY <3>4 DEF SendLink
    <3> QED BY <1>2, <3>1, <3>2, <3>3, <3>4
  <2> QED BY <2>1, <2>2, OnwardForms, EndsForms
<1>3. CASE ReadLink(r) \/ UseLink(r) \/ Enter(r) \/ OpenSession(r) \/ Logout(r)
  <2>1. /\ req[r].op \notin {"signup", "verify"}
        /\ UNCHANGED <<tenants, pendings, made>>
    BY <1>3 DEF ReadLink, UseLink, Enter, OpenSession, Logout, At, tables, ghosts
  <2>2. GoesOnward(r) \/ End(r)
    BY <1>3 DEF ReadLink, UseLink, Enter, OpenSession, Logout, Goto, GoesOnward, Onward
  <2> QED BY <2>1, <2>2, OnwardForms, EndsForms
<1> QED BY <1>1, <1>2, <1>3, ArrivalsRead DEF MagicLinks

LEMMA InvitationsForms ==
  ASSUME IInv, NEW r \in Request, Invitations(r)
  PROVE  NoneForms /\ UNCHANGED <<tenants, pendings, made>>
<1>1. CASE Comes(r)
  BY <1>1, ComesForms
<1>2. CASE StartInvite(r) \/ FindInvite(r) \/ RefreshInvite(r) \/ InsertInvite(r) \/ Revoke(r)
  <2>1. /\ req[r].op \notin {"signup", "verify"}
        /\ UNCHANGED <<tenants, pendings, made>>
    BY <1>2 DEF StartInvite, FindInvite, RefreshInvite, InsertInvite, Revoke, At, tables, ghosts
  <2>2. GoesOnward(r) \/ End(r)
    <3>1. CASE StartInvite(r)
      BY <3>1, GotoOnward DEF StartInvite
    <3>2. CASE FindInvite(r)
      <4>1. CASE \E i : Set(r, [req[r] EXCEPT !.pc = "refresh", !.ref = i])
        BY <4>1 DEF GoesOnward, Onward
      <4>2. CASE Goto(r, "insert")
        BY <4>2, GotoOnward
      <4> QED BY <3>2, <4>1, <4>2 DEF FindInvite
    <3>3. CASE RefreshInvite(r) \/ InsertInvite(r) \/ Revoke(r)
      BY <3>3 DEF RefreshInvite, InsertInvite, Revoke
    <3> QED BY <1>2, <3>1, <3>2, <3>3
  <2> QED BY <2>1, <2>2, OnwardForms, EndsForms
<1>3. CASE ReadInvite(r) \/ ExpireInvite(r) \/ Join(r) \/ StartRemove(r) \/ RemoveMember(r)
  <2>1. /\ req[r].op \notin {"signup", "verify"}
        /\ UNCHANGED <<tenants, pendings, made>>
    BY <1>3 DEF ReadInvite, ExpireInvite, Join, StartRemove, RemoveMember, At, tables, ghosts
  <2>2. GoesOnward(r) \/ End(r)
    BY <1>3 DEF ReadInvite, ExpireInvite, Join, StartRemove, RemoveMember, Goto, GoesOnward, Onward
  <2> QED BY <2>1, <2>2, OnwardForms, EndsForms
<1> QED BY <1>1, <1>2, <1>3, ArrivalsRead DEF Invitations

LEMMA AdministrationForms ==
  ASSUME IInv, NEW r \in Request, Administration(r)
  PROVE  NoneForms
<1>1. CASE Comes(r)
  BY <1>1, ComesForms
<1>2. CASE \/ CreateTenant(r) \/ UpdateTenant(r) \/ CountUsers(r) \/ DeleteTenant(r) \/ DropTenant(r)
           \/ StartSettings(r) \/ \E open \in BOOLEAN : WriteSettings(r, open)
  <2>1. req[r].op \notin {"signup", "verify"}
    BY <1>2 DEF CreateTenant, UpdateTenant, CountUsers, DeleteTenant, DropTenant, StartSettings, WriteSettings, At
  <2>2. (\E pc : Goto(r, pc)) \/ End(r)
    BY <1>2 DEF CreateTenant, UpdateTenant, CountUsers, DeleteTenant, DropTenant, StartSettings, WriteSettings
  <2>3. GoesOnward(r) \/ End(r)
    BY <2>2, GotoOnward
  <2> QED BY <2>1, <2>3, OnwardForms, EndsForms
<1> QED BY <1>1, <1>2, ArrivalsRead DEF Administration

-----------------------------------------------------------------------------
(***************************************************************************)
(* The sign-up itself.                                                     *)
(***************************************************************************)
LEMMA FormsGoOn ==
  ASSUME IInv, Reserving, UNCHANGED <<tenants, pendings, made>>, NEW r \in Request, NEW m, Set(r, m),
         \A slug \in Slug : Forming(m) /\ m.slug = slug => Settled(slug),
         \A slug \in Slug, p \in Pid : Creating(m) /\ m.ref = p /\ m.saw.slug = slug => Held(p, slug)
  PROVE  Reserving'
<1>1. req'[r] = m /\ \A k \in Request : k # r => req'[k] = req[k]
  BY DEF Set, IInv, Requests
<1>2. SpacesShrink /\ PendingsShrink
  BY SameShrinks
<1>3. OnePerSlug' /\ ReservedSlugs'
  BY <1>2, ReservedLasts DEF Reserving
<1>4. FormsSettled'
  <2> SUFFICES ASSUME NEW slug \in Slug, NEW k \in Request, Forming(req'[k]), req'[k].slug = slug
               PROVE  Settled(slug)'
    BY DEF FormsSettled, Forming
  <2>1. Settled(slug)
    BY <1>1 DEF Reserving, FormsSettled
  <2> QED BY <1>2, <2>1, SettledLasts
<1>5. CreationsHeld'
  <2> SUFFICES ASSUME NEW slug \in Slug, NEW p \in Pid, NEW k \in Request, Creating(req'[k]),
                      req'[k].ref = p, req'[k].saw.slug = slug
               PROVE  Held(p, slug)'
    BY DEF CreationsHeld, Creating
  <2>1. Held(p, slug)
    BY <1>1 DEF Reserving, CreationsHeld
  <2> QED BY <2>1 DEF Held, Rows
<1> QED BY <1>3, <1>4, <1>5 DEF Reserving

LEMMA EndsReserving ==
  ASSUME IInv, Reserving, NEW r \in Request, End(r), UNCHANGED <<tenants, pendings, made>>
  PROVE  Reserving'
BY EndsForms, SameShrinks, OthersKeepReserving

LEMMA FormsKeepReserving ==
  ASSUME IInv, Reserving, NEW r \in Request, AskTaken(r) \/ AskCooldown(r) \/ ReadPending(r)
  PROVE  Reserving'
<1> DEFINE q == req[r]
<1>1. q \in ReqRow /\ UNCHANGED <<tenants, pendings, made>>
  BY DEF AskTaken, AskCooldown, ReadPending, IInv, Requests, tables, ghosts
<1>2. CASE End(r)
  BY <1>1, <1>2, EndsReserving
<1>3. CASE AskTaken(r) /\ ~ End(r)
  <2>1. q.op = "signup" /\ ~ SlugTaken(q.slug) /\ Goto(r, "cooldown")
    BY <1>3 DEF AskTaken, At
  <2>2. PICK m : m = [q EXCEPT !.pc = "cooldown"]
    OBVIOUS
  <2>3. m.op = "signup" /\ m.slug = q.slug /\ Set(r, m)
    BY <1>1, <2>1, <2>2 DEF ReqRow, Goto
  <2>4. Settled(q.slug)
    BY <2>1 DEF SlugTaken, Settled
  <2> QED BY <1>1, <2>3, <2>4, FormsGoOn DEF Creating
<1>4. CASE AskCooldown(r) /\ ~ End(r)
  <2>1. Forming(q) /\ q.op = "signup" /\ Goto(r, "insert")
    BY <1>4 DEF AskCooldown, At, Forming
  <2>2. PICK m : m = [q EXCEPT !.pc = "insert"]
    OBVIOUS
  <2>3. m.op = "signup" /\ m.slug = q.slug /\ Set(r, m)
    BY <1>1, <2>1, <2>2 DEF ReqRow, Goto
  <2>4. \A slug \in Slug : q.slug = slug => Settled(slug)
    BY <2>1 DEF Reserving, FormsSettled
  <2> QED BY <1>1, <2>3, <2>4, FormsGoOn DEF Creating
<1>5. CASE ReadPending(r) /\ ~ End(r)
  <2>1. /\ q.op = "verify" /\ q.ref \in Rows(pendings) /\ IsLive(q.ref)
        /\ Set(r, [q EXCEPT !.pc = "create", !.saw = pendings[q.ref]])
    BY <1>5 DEF ReadPending, At
  <2>2. PICK m : m = [q EXCEPT !.pc = "create", !.saw = pendings[q.ref]]
    OBVIOUS
  <2>3. m.op = "verify" /\ m.ref = q.ref /\ m.saw = pendings[q.ref] /\ Set(r, m)
    BY <1>1, <2>1, <2>2 DEF ReqRow
  <2>4. Held(q.ref, pendings[q.ref].slug)
    BY <2>1 DEF Held, IsLive
  <2> QED BY <1>1, <2>3, <2>4, FormsGoOn DEF Forming
<1> QED BY <1>2, <1>3, <1>4, <1>5

LEMMA InsertPendingKeepsReserving ==
  ASSUME IInv, Reserving, NEW r \in Request, InsertPending(r)
  PROVE  Reserving'
<1> DEFINE q == req[r]
           row == [slug |-> q.slug, email |-> q.email, mode |-> q.saw, used |-> FALSE, age |-> "live"]
<1>1. Forming(q) /\ q.op = "signup" /\ q.pc = "insert" /\ End(r) /\ UNCHANGED <<tenants, made>>
  BY DEF InsertPending, At, Forming, ghosts
<1>2. CASE UNCHANGED pendings
  BY <1>1, <1>2, EndsReserving
<1>3. CASE ~ UNCHANGED pendings
  <2>1. /\ \A p \in Rows(pendings) : pendings[p].slug # q.slug
        /\ \E p \in Free(pendings) : pendings' = [pendings EXCEPT ![p] = row]
    BY <1>3 DEF InsertPending
  <2>2. PICK n \in Free(pendings) : pendings' = [pendings EXCEPT ![n] = row]
    BY <2>1
  <2>3. n \in Pid /\ DOMAIN pendings = Pid /\ DOMAIN pendings' = Pid /\ pendings[n] = NULL
    BY <2>2 DEF Free, IInv, TypeOK
  <2>4. pendings'[n] = row /\ \A p \in Pid : p # n => pendings'[p] = pendings[p]
    BY <2>2, <2>3 DEF IInv, TypeOK
  <2>5. row.slug = q.slug /\ Rows(pendings') \subseteq Rows(pendings) \union {n}
    BY <2>3, <2>4 DEF Rows
  <2>6. \A p \in Rows(pendings) : p \in Rows(pendings') /\ pendings'[p] = pendings[p]
    BY <2>3, <2>4 DEF Rows
  <2>7. q.slug \in Slug
    BY <1>1, Standing DEF Sound, Fit, Does
  <2>8. TenantsOf(q.slug) = {} \/ q.slug \in made
    BY <1>1, <2>1, <2>7 DEF Reserving, FormsSettled, Settled
  <2>9. NoneForms
    BY <1>1, EndsForms
  <2>10. OnePerSlug'
    BY <2>1, <2>4, <2>5, <2>6 DEF Reserving, OnePerSlug
  <2>11. ReservedSlugs'
    <3> SUFFICES ASSUME NEW p \in Rows(pendings'), ~ pendings'[p].used, pendings'[p].age = "live",
                        NEW t \in Rows(tenants), tenants[t].slug = pendings'[p].slug
                 PROVE  pendings'[p].slug \in made
      BY <1>1 DEF ReservedSlugs, IsLive, TenantsOf, Rows
    <3>1. CASE p = n
      BY <2>4, <2>5, <2>8, <3>1 DEF TenantsOf
    <3>2. CASE p # n
      BY <2>5, <2>6, <3>2 DEF Reserving, ReservedSlugs, IsLive, TenantsOf
    <3> QED BY <3>1, <3>2
  <2>12. FormsSettled'
    <3> SUFFICES ASSUME NEW slug \in Slug, NEW k \in Request, Forming(req'[k]), req'[k].slug = slug
                 PROVE  Settled(slug)'
      BY DEF FormsSettled, Forming
    <3>1. Settled(slug)
      BY <2>9 DEF NoneForms, Reserving, FormsSettled
    <3> QED BY <1>1, <2>6, <3>1 DEF Settled, TenantsOf, Rows
  <2>13. CreationsHeld'
    <3> SUFFICES ASSUME NEW slug \in Slug, NEW p \in Pid, NEW k \in Request, Creating(req'[k]),
                        req'[k].ref = p, req'[k].saw.slug = slug
                 PROVE  Held(p, slug)'
      BY DEF CreationsHeld, Creating
    <3>1. Held(p, slug)
      BY <2>9 DEF NoneForms, Reserving, CreationsHeld
    <3> QED BY <1>1, <2>6, <3>1 DEF Held
  <2> QED BY <2>10, <2>11, <2>12, <2>13 DEF Reserving
<1> QED BY <1>2, <1>3

\* A space is created from its pending space, which no other shares the slug of: no one finds it alive.
LEMMA CreateSpaceKeepsReserving ==
  ASSUME IInv, Reserving, NEW r \in Request, CreateSpace(r)
  PROVE  Reserving'
<1> DEFINE q == req[r]
           new == q.saw
           p0 == q.ref
<1>1. Creating(q) /\ q.op = "verify" /\ End(r) /\ UNCHANGED made
  BY DEF CreateSpace, At, Creating, ghosts
<1>2. CASE UNCHANGED <<tenants, pendings>>
  BY <1>1, <1>2, EndsReserving
<1>3. CASE ~ UNCHANGED <<tenants, pendings>>
  <2>1. PICK t, row :
          t \in Free(tenants) /\ tenants' = [tenants EXCEPT ![t] = row] /\ row.slug = new.slug
    <3>1. PICK t \in Free(tenants) :
            tenants' = [tenants EXCEPT ![t] =
              NewTenant(new.slug, new.mode, {new.email},
                        IF new.mode = "invite" THEN {} ELSE DomainOf[new.email], new.email)]
      BY <1>3 DEF CreateSpace
    <3>2. PICK row : row = NewTenant(new.slug, new.mode, {new.email},
                                     IF new.mode = "invite" THEN {} ELSE DomainOf[new.email], new.email)
      OBVIOUS
    <3>3. row.slug = new.slug
      BY <3>2 DEF NewTenant
    <3> QED BY <3>1, <3>2, <3>3
  <2>2. /\ TenantsOf(new.slug) = {}
        /\ pendings' = IF p0 \in Rows(pendings) THEN [pendings EXCEPT ![p0].used = TRUE] ELSE pendings
    BY <1>3 DEF CreateSpace
  <2>3. p0 \in Pid /\ new \in PendingRow /\ new.slug \in Slug
    BY <1>1, Standing DEF Sound, Fit, Does, Creating, PendingRow
  <2>4. Held(p0, new.slug)
    BY <1>1, <2>3 DEF Reserving, CreationsHeld
  <2>5. \A k \in Tid : k # t => tenants'[k] = tenants[k]
    BY <2>1 DEF IInv, TypeOK
  <2>6. \A k \in Rows(tenants') : k # t => k \in Rows(tenants) /\ tenants'[k] = tenants[k]
    BY <2>1, <2>5 DEF Rows, IInv, TypeOK
  <2>7. tenants'[t] = row
    BY <2>1 DEF Free, IInv, TypeOK
  <2>8. /\ Rows(pendings') = Rows(pendings)
        /\ \A p \in Rows(pendings) :
             /\ pendings'[p].slug = pendings[p].slug /\ pendings'[p].age = pendings[p].age
             /\ pendings'[p].used = (pendings[p].used \/ p = p0)
    <3>1. CASE p0 \in Rows(pendings)
      <4>1. PICK x : x = [pendings[p0] EXCEPT !.used = TRUE]
        OBVIOUS
      <4>2. pendings[p0] \in PendingRow
        BY <3>1, RowsAre DEF IInv
      <4>3. x \in PendingRow /\ x.used /\ x.slug = pendings[p0].slug /\ x.age = pendings[p0].age
        BY <4>1, <4>2 DEF PendingRow
      <4>4. pendings' = [pendings EXCEPT ![p0] = x]
        BY <2>2, <3>1, <4>1
      <4>5. pendings'[p0] = x /\ \A p \in Pid : p # p0 => pendings'[p] = pendings[p]
        BY <2>3, <4>4 DEF IInv, TypeOK
      <4>6. DOMAIN pendings = Pid /\ DOMAIN pendings' = Pid
        BY <4>4 DEF IInv, TypeOK
      <4>7. Rows(pendings') = Rows(pendings)
        BY <2>3, <3>1, <4>3, <4>5, <4>6, RowIsSome DEF Rows
      <4>8. ASSUME NEW p \in Rows(pendings)
            PROVE  /\ pendings'[p].slug = pendings[p].slug /\ pendings'[p].age = pendings[p].age
                   /\ pendings'[p].used = (pendings[p].used \/ p = p0)
        <5>1. CASE p = p0
          <6>1. pendings'[p] = x
            BY <4>5, <5>1
          <6>2. x.used = TRUE
            BY <4>3 DEF PendingRow
          <6> QED BY <4>3, <5>1, <6>1, <6>2
        <5>2. CASE p # p0
          <6>1. pendings'[p] = pendings[p] /\ pendings[p] \in PendingRow
            BY <4>5, <5>2, RowsAre DEF IInv
          <6>2. pendings[p].used \in BOOLEAN
            BY <6>1 DEF PendingRow
          <6> QED BY <5>2, <6>1, <6>2
        <5> QED BY <5>1, <5>2
      <4> QED BY <4>7, <4>8
    <3>2. CASE p0 \notin Rows(pendings)
      <4>1. \A p \in Rows(pendings) : pendings[p].used \in BOOLEAN
        BY RowsAre DEF IInv, PendingRow
      <4> QED BY <2>2, <3>2, <4>1
    <3> QED BY <3>1, <3>2
  <2>9. NoneForms
    BY <1>1, EndsForms
  <2>10. OnePerSlug'
    BY <2>8 DEF Reserving, OnePerSlug
  <2>11. ReservedSlugs'
    <3> SUFFICES ASSUME NEW p \in Rows(pendings'), ~ pendings'[p].used, pendings'[p].age = "live",
                        NEW k \in Rows(tenants'), tenants'[k].slug = pendings'[p].slug
                 PROVE  pendings'[p].slug \in made
      BY <1>1 DEF ReservedSlugs, IsLive, TenantsOf
    <3>1. p \in Rows(pendings) /\ IsLive(p) /\ p # p0 /\ pendings'[p].slug = pendings[p].slug
      BY <2>8 DEF IsLive
    <3>2. CASE k = t
      BY <2>1, <2>4, <2>7, <3>1, <3>2 DEF Held, Reserving, OnePerSlug
    <3>3. CASE k # t
      BY <2>6, <3>1, <3>3 DEF Reserving, ReservedSlugs, TenantsOf
    <3> QED BY <3>2, <3>3
  <2>12. FormsSettled'
    <3> SUFFICES ASSUME NEW slug \in Slug, NEW k \in Request, Forming(req'[k]), req'[k].slug = slug
                 PROVE  Settled(slug)'
      BY DEF FormsSettled, Forming
    <3>1. Settled(slug)
      BY <2>9 DEF NoneForms, Reserving, FormsSettled
    <3>2. CASE slug = new.slug
      BY <1>1, <2>4, <2>8, <3>2 DEF Held, Settled
    <3>3. CASE slug # new.slug
      <4>1. TenantsOf(slug)' \subseteq TenantsOf(slug)
        BY <2>1, <2>6, <2>7, <3>3 DEF TenantsOf
      <4> QED BY <1>1, <2>8, <3>1, <4>1 DEF Settled
    <3> QED BY <3>2, <3>3
  <2>13. CreationsHeld'
    <3> SUFFICES ASSUME NEW slug \in Slug, NEW p \in Pid, NEW k \in Request, Creating(req'[k]),
                        req'[k].ref = p, req'[k].saw.slug = slug
                 PROVE  Held(p, slug)'
      BY DEF CreationsHeld, Creating
    <3>1. Held(p, slug)
      BY <2>9 DEF NoneForms, Reserving, CreationsHeld
    <3> QED BY <1>1, <2>8, <3>1 DEF Held
  <2> QED BY <2>10, <2>11, <2>12, <2>13 DEF Reserving
<1> QED BY <1>2, <1>3

-----------------------------------------------------------------------------
(***************************************************************************)
(* The console, the start and the cleanup.                                 *)
(***************************************************************************)
LEMMA TenantsShrink ==
  ASSUME IInv, made \subseteq made',
         \/ UNCHANGED tenants
         \/ \E t \in Tid : \E x :
              /\ tenants' = [tenants EXCEPT ![t] = x]
              /\ x.slug \in made' \/ (t \in Rows(tenants) /\ x.slug = tenants[t].slug)
         \/ \E ts : tenants' = [t \in Tid |-> IF t \in ts THEN GONE ELSE tenants[t]]
  PROVE  SpacesShrink
<1>1. CASE UNCHANGED tenants
  BY <1>1 DEF SpacesShrink
<1>2. ASSUME NEW t \in Tid, NEW x, tenants' = [tenants EXCEPT ![t] = x],
             x.slug \in made' \/ (t \in Rows(tenants) /\ x.slug = tenants[t].slug)
      PROVE  SpacesShrink
  <2>1. tenants'[t] = x /\ \A k \in Tid : k # t => tenants'[k] = tenants[k]
    BY <1>2 DEF IInv, TypeOK
  <2>2. DOMAIN tenants = Tid /\ DOMAIN tenants' = Tid
    BY <1>2 DEF IInv, TypeOK
  <2> QED BY <1>2, <2>1, <2>2 DEF SpacesShrink, Rows
<1>3. ASSUME NEW ts, tenants' = [t \in Tid |-> IF t \in ts THEN GONE ELSE tenants[t]]
      PROVE  SpacesShrink
  BY <1>3 DEF SpacesShrink, Rows, IInv, TypeOK
<1> QED BY <1>1, <1>2, <1>3

LEMMA AdministrationKeepsReserving ==
  ASSUME IInv, Reserving, NEW r \in Request, Administration(r)
  PROVE  Reserving'
<1> DEFINE q == req[r]
           slug == q.slug
<1>1. NoneForms
  BY AdministrationForms
<1>2. CASE UNCHANGED <<tenants, pendings, made>>
  BY <1>1, <1>2, SameShrinks, OthersKeepReserving
<1>3. CASE CreateTenant(r) /\ ~ UNCHANGED <<tenants, pendings, made>>
  <2>1. PICK t, x :
          /\ t \in Free(tenants)
          /\ x = NewTenant(slug, "domain", q.saw.admins, q.saw.domain, NULL)
          /\ tenants' = [tenants EXCEPT ![t] = x]
    BY <1>3 DEF CreateTenant
  <2>2. x.slug = slug /\ t \in Tid
    BY <2>1 DEF NewTenant, Free, IInv, TypeOK
  <2>3. UNCHANGED pendings /\ made' = made \union {slug}
    BY <1>3 DEF CreateTenant
  <2>4. SpacesShrink
    BY <2>1, <2>2, <2>3, TenantsShrink
  <2> QED BY <1>1, <2>3, <2>4, SameShrinks, OthersKeepReserving
<1>4. CASE UpdateTenant(r) /\ ~ UNCHANGED <<tenants, pendings, made>>
  <2>1. PICK t \in TenantsOf(slug) :
          tenants' = [tenants EXCEPT ![t].admins = q.saw.admins, ![t].domain = q.saw.domain]
    BY <1>4 DEF UpdateTenant
  <2>2. t \in Rows(tenants) /\ t \in Tid /\ tenants[t] \in TenantRow
    BY <2>1, RowsAre DEF TenantsOf, IInv
  <2>3. PICK x : x = [tenants[t] EXCEPT !.admins = q.saw.admins, !.domain = q.saw.domain]
    OBVIOUS
  <2>4. x.slug = tenants[t].slug
    BY <2>2, <2>3 DEF TenantRow
  <2>5. tenants' = [tenants EXCEPT ![t] = x]
    BY <2>1, <2>2, <2>3 DEF IInv, TypeOK
  <2>6. UNCHANGED <<pendings, made>>
    BY <1>4 DEF UpdateTenant
  <2>7. SpacesShrink
    BY <2>2, <2>4, <2>5, <2>6, TenantsShrink
  <2> QED BY <1>1, <2>6, <2>7, SameShrinks, OthersKeepReserving
<1>5. CASE (\E open \in BOOLEAN : WriteSettings(r, open)) /\ ~ UNCHANGED <<tenants, pendings, made>>
  <2>1. PICK open \in BOOLEAN : WriteSettings(r, open)
    BY <1>5
  <2>2. PICK t : t = q.space.id
    OBVIOUS
  <2>3. t \in Rows(tenants) /\ tenants' = [tenants EXCEPT ![t].open = open] /\ UNCHANGED <<pendings, made>>
    BY <1>5, <2>1, <2>2 DEF WriteSettings, ghosts
  <2>4. t \in Tid /\ tenants[t] \in TenantRow
    BY <2>3, RowsAre DEF IInv
  <2>5. PICK x : x = [tenants[t] EXCEPT !.open = open]
    OBVIOUS
  <2>6. x.slug = tenants[t].slug
    BY <2>4, <2>5 DEF TenantRow
  <2>7. tenants' = [tenants EXCEPT ![t] = x]
    BY <2>3, <2>5
  <2>8. SpacesShrink
    BY <2>3, <2>4, <2>6, <2>7, TenantsShrink
  <2> QED BY <1>1, <2>3, <2>8, SameShrinks, OthersKeepReserving
<1>6. CASE DeleteTenant(r) /\ ~ UNCHANGED <<tenants, pendings, made>>
  <2>1. /\ tenants' = [t \in Tid |-> IF t \in TenantsOf(slug) THEN GONE ELSE tenants[t]]
        /\ UNCHANGED <<pendings, made>>
    BY <1>6 DEF DeleteTenant, ghosts
  <2>2. SpacesShrink
    BY <2>1, TenantsShrink
  <2> QED BY <1>1, <2>1, <2>2, SameShrinks, OthersKeepReserving
<1>7. CASE DropTenant(r) /\ ~ UNCHANGED <<tenants, pendings, made>>
  <2>1. /\ tenants' = [t \in Tid |-> IF t \in TenantsOf(slug) THEN GONE ELSE tenants[t]]
        /\ pendings' = [p \in Pid |-> IF p \in Rows(pendings) /\ pendings[p].slug = slug
                                        THEN GONE ELSE pendings[p]]
        /\ made' = made \union {slug}
    BY <1>7 DEF DropTenant
  <2>2. SpacesShrink
    BY <2>1, TenantsShrink
  <2>3. DOMAIN pendings = Pid /\ DOMAIN pendings' = Pid
    BY <2>1 DEF IInv, TypeOK
  <2>4. \A p \in Pid : pendings'[p] = pendings[p] \/ (pendings[p].slug = slug /\ pendings'[p] = GONE)
    BY <2>1
  <2>5. PendingsShrink
    BY <2>1, <2>3, <2>4 DEF PendingsShrink, Rows
  <2> QED BY <1>1, <2>2, <2>5, OthersKeepReserving
<1>8. CASE \/ CountUsers(r) \/ StartSettings(r) \/ Comes(r)
  BY <1>2, <1>8 DEF CountUsers, StartSettings, Comes, tables, ghosts
<1> QED BY <1>2, <1>3, <1>4, <1>5, <1>6, <1>7, <1>8, ArrivalsRead DEF Administration

LEMMA TimeKeepsReserving ==
  ASSUME IInv, Reserving, TimePasses \/ Restart \/ UNCHANGED vars
  PROVE  Reserving'
<1>1. CASE UNCHANGED <<tenants, pendings, made, req>>
  BY <1>1, SameShrinks, OthersKeepReserving DEF NoneForms
<1>2. ASSUME NEW p \in Pid, Ages(p)
      PROVE  Reserving'
  <2>1. /\ p \in Rows(pendings) /\ pendings[p].age # "old" /\ UNCHANGED <<tenants, made, req>>
        /\ pendings[p].age = "expired" => \A r \in Request : Creating(req[r]) => req[r].ref # p
    BY <1>2 DEF Ages, At, Creating, ghosts
  <2>2. PICK x : x = [pendings[p] EXCEPT !.age = IF pendings[p].age = "live" THEN "expired" ELSE "old"]
    OBVIOUS
  <2>3. pendings[p] \in PendingRow
    BY <2>1, RowsAre DEF IInv
  <2>4. pendings[p].age \in {"live", "expired"}
    BY <2>1, <2>3 DEF PendingRow
  <2>5. /\ x.slug = pendings[p].slug /\ x.used = pendings[p].used
        /\ x.age = IF pendings[p].age = "live" THEN "expired" ELSE "old"
    BY <2>2, <2>3 DEF PendingRow
  <2>6. pendings' = [pendings EXCEPT ![p] = x]
    BY <1>2, <2>2 DEF Ages
  <2>7. /\ DOMAIN pendings = Pid /\ DOMAIN pendings' = Pid
        /\ \A k \in Pid : pendings'[k] = IF k = p THEN x ELSE pendings[k]
    BY <2>6 DEF IInv, TypeOK
  <2>8. x \in PendingRow
    BY <2>2, <2>3, <2>4 DEF PendingRow
  <2>9. Rows(pendings') = Rows(pendings)
    BY <2>1, <2>7, <2>8, RowIsSome DEF Rows
  <2>10. PendingsShrink
    BY <2>1, <2>4, <2>5, <2>7, <2>9 DEF PendingsShrink, Rows
  <2> QED BY <2>1, <2>10, SameShrinks, OthersKeepReserving DEF NoneForms
<1>3. CASE Purge
  <2>1. /\ UNCHANGED <<tenants, made, req>>
        /\ pendings' = [p \in Pid |-> IF p \in Rows(pendings) /\ ~ pendings[p].used /\ pendings[p].age = "old"
                                        THEN GONE ELSE pendings[p]]
    BY <1>3 DEF Purge, ghosts
  <2>2. DOMAIN pendings = Pid /\ DOMAIN pendings' = Pid
    BY <2>1 DEF IInv, TypeOK
  <2>3. \A p \in Pid : \/ pendings'[p] = pendings[p]
                       \/ ~ pendings[p].used /\ pendings[p].age = "old" /\ pendings'[p] = GONE
    BY <2>1
  <2>4. PendingsShrink
    BY <2>2, <2>3 DEF PendingsShrink, Rows
  <2> QED BY <2>1, <2>4, SameShrinks, OthersKeepReserving DEF NoneForms
<1>4. CASE Restart
  <2>1. /\ UNCHANGED pendings
        /\ \/ UNCHANGED <<tenants, made>>
           \/ /\ \E t \in Free(tenants) : tenants' = [tenants EXCEPT ![t] = HomeRow]
              /\ made' = made \union {Home}
    BY <1>4 DEF Restart
  <2>2. NoneForms
    BY <1>4, NobodyAssumption DEF Restart, NoneForms, Forming, Creating, Quiet
  <2>3. SpacesShrink
    <3>1. CASE UNCHANGED <<tenants, made>>
      BY <3>1, SameShrinks
    <3>2. ASSUME NEW t \in Free(tenants), tenants' = [tenants EXCEPT ![t] = HomeRow], made' = made \union {Home}
          PROVE  SpacesShrink
      <4>1. t \in Tid /\ HomeRow.slug \in made'
        BY <3>2, ModeAssumption DEF Free, IInv, TypeOK
      <4> QED BY <3>2, <4>1, TenantsShrink
    <3> QED BY <2>1, <3>1, <3>2
  <2> QED BY <2>1, <2>2, <2>3, SameShrinks, OthersKeepReserving
<1> QED BY <1>1, <1>2, <1>3, <1>4
    DEF TimePasses, LinkExpires, InviteOverdue, ExpireInvites, vars, tables, ghosts

LEMMA StepKeepsReserving ==
  ASSUME IInv, Reserving, [Next]_vars
  PROVE  Reserving'
<1>1. ASSUME NEW r \in Request, Comes(r)
      PROVE  Reserving'
  BY <1>1, ComesForms, SameShrinks, OthersKeepReserving
<1>2. ASSUME NEW r \in Request, Registry(r) \/ MagicLinks(r) \/ Invitations(r)
      PROVE  Reserving'
  BY <1>2, RegistryForms, MagicLinksForms, InvitationsForms, SameShrinks, OthersKeepReserving
<1>3. ASSUME NEW r \in Request, Signups(r)
      PROVE  Reserving'
  BY <1>1, <1>3, ArrivalsRead, FormsKeepReserving, InsertPendingKeepsReserving, CreateSpaceKeepsReserving
  DEF Signups
<1> QED BY <1>2, <1>3, AdministrationKeepsReserving, TimeKeepsReserving DEF Next

(***************************************************************************)
(* While the link of a sign-up is alive no other space has its slug, but   *)
(* by the console or a start (create and verify of src/routes/signup.rs).  *)
(***************************************************************************)
THEOREM SlugsStayReserved == Spec => []ReservedSlugs
<1>1. Init => Reserving
  BY DEF Init, Reserving, OnePerSlug, ReservedSlugs, FormsSettled, CreationsHeld, Rows, Quiet, Forming, Creating
<1>2. IInv /\ Reserving /\ [Next]_vars => Reserving'
  BY StepKeepsReserving
<1>3. Reserving => ReservedSlugs
  BY DEF Reserving
<1> QED BY <1>1, <1>2, <1>3, Invariance, PTL DEF Spec

=============================================================================
