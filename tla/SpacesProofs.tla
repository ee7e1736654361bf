---------------------------- MODULE SpacesProofs ----------------------------
(***************************************************************************)
(* Theorems of Spaces, for any addresses, slugs and ids, any number of     *)
(* requests, any start that StartAssumption allows, and any bounds.        *)
(***************************************************************************)
EXTENDS Spaces, TLAPS

-----------------------------------------------------------------------------
(***************************************************************************)
(* The facts a request may rely on: once true they stay true, whatever     *)
(* others do to the tables, since an id is never used again.               *)
(***************************************************************************)
\* What the registry or a request holds of a space that is still there.
Known(x) ==
  /\ tenants[x.id] # NULL
  /\ x.id \in Rows(tenants) =>
       /\ tenants[x.id].slug = x.row.slug /\ tenants[x.id].mode = x.row.mode
       /\ x.id \notin edited => tenants[x.id].admins = x.row.admins

KnownSpaces == {x \in Space : Known(x)}

\* Entitled, if the space is still there and on invitation.
Welcome(t, email) ==
  /\ tenants[t] # NULL
  /\ t \in Rows(tenants) /\ tenants[t].mode = "invite" => Entitled(t, email)

Welcomed == {p \in Tid \X Email : Welcome(p[1], p[2])}

Belongs(u, t) == users[u] # NULL /\ (u \in Rows(users) => users[u].tenant = t)

Belonging == {p \in Uid \X Tid : Belongs(p[1], p[2])}

IsInvited(i, t, email) == i \in Rows(invs) /\ invs[i].tenant = t /\ invs[i].email = email

Inviting == {p \in Iid \X Tid \X Email : IsInvited(p[1], p[2], p[3])}

-----------------------------------------------------------------------------
(***************************************************************************)
(* Requests.  Fit says what the fields of a request are, Truthful that     *)
(* what it read of the tables is still so, as far as it matters.           *)
(***************************************************************************)
Who == [id : Uid, admin : BOOLEAN]
FormRow == [admins : SUBSET Email, domain : SUBSET Email]

ByMember == {"invite", "revoke", "remove", "settings"}
Served == ByMember \union {"login", "apex", "callback", "logout", "accept", "reload"}
Op == Served \union {"signup", "verify", "create", "update", "delete", "drop"}

PC == {"idle", "resolve", "fill", "whose", "member", "invited", "send", "read", "use", "enter",
       "session", "out", "auth", "admitted", "existing", "refresh", "insert", "late", "join", "remove",
       "write", "invalidate", "done", "taken", "cooldown", "create", "delete"}

ReqRow ==
  [op : Op \union {NULL}, pc : PC, slug : Slug \union {NULL}, space : Space \union {NULL},
   sid : Sid \union {NULL}, who : Who \union {NULL}, email : Email \union {NULL},
   ref : Tid \union Uid \union Lid \union Iid \union Pid \union {NULL},
   saw : Nat \union Mode \union FormRow \union PendingRow \union {NULL}]

Does(q, op) == q.op = op /\ q.pc # "idle"

\* The space of a request is known, and its user.
Placed(q) == q.op \in Served /\ q.pc \notin {"idle", "whose", "resolve"}

Admitted(q) ==
  \/ q.op \in ByMember /\ q.pc \notin {"idle", "resolve", "fill", "auth", "invalidate"}
  \/ q.op = "callback" /\ q.pc = "session"

Fit(q) ==
  /\ q \in ReqRow
  /\ q.pc \in {"resolve", "fill", "auth", "admitted"} => q.op \in Served
  /\ q.op \in Served /\ q.pc \notin {"idle", "whose"} => q.slug \in Slug
  /\ Admitted(q) => q.who \in Who
  /\ Does(q, "login") \/ Does(q, "apex") \/ Does(q, "invite") \/ Does(q, "signup") => q.email \in Email
  /\ Does(q, "callback") => q.ref \in Lid
  /\ Does(q, "revoke") => q.ref \in Iid
  /\ Does(q, "remove") => q.ref \in Uid
  /\ Does(q, "signup") => q.slug \in Slug /\ q.saw \in Mode
  /\ Does(q, "verify") => q.ref \in Pid /\ (q.pc = "create" => q.saw \in PendingRow)
  /\ Does(q, "create") \/ Does(q, "update") => q.saw \in FormRow
  /\ q.op \in {"create", "update", "delete", "drop"} /\ q.pc # "idle" => q.slug \in Slug

Truthful(q, known, welcome, belongs, invited) ==
  /\ Placed(q) => q.space \in known /\ q.space.row.slug = q.slug
  /\ Admitted(q) => <<q.who.id, q.space.id>> \in belongs
  /\ Does(q, "login") /\ q.pc = "send" => <<q.space.id, q.email>> \in welcome
  /\ Does(q, "apex") /\ q.pc # "whose" => <<q.ref, q.email>> \in welcome
  /\ Does(q, "callback") /\ q.pc \in {"use", "enter", "session"} => <<q.space.id, q.email>> \in welcome
  /\ Does(q, "accept") => \E t, email : <<q.ref, t, email>> \in invited
  /\ Does(q, "accept") /\ q.pc \in {"late", "join"} => <<q.ref, q.space.id, q.email>> \in invited
  /\ Does(q, "invite") /\ q.pc = "refresh" => \E t, email : <<q.ref, t, email>> \in invited
  /\ Does(q, "remove") /\ q.pc = "remove" => q.ref # q.who.id

Sound(q) == Fit(q) /\ Truthful(q, KnownSpaces, Welcomed, Belonging, Inviting)

SoundThen(q) == Fit(q) /\ Truthful(q, KnownSpaces', Welcomed', Belonging', Inviting')

Requests == req \in [Request -> ReqRow] /\ \A r \in Request : Sound(req[r])

\* A request goes on with q.
Turn(r, q) == req' = [req EXCEPT ![r] = q] /\ Sound(q)

\* Facts last.
Lasting ==
  /\ KnownSpaces \subseteq KnownSpaces' /\ Welcomed \subseteq Welcomed'
  /\ Belonging \subseteq Belonging' /\ Inviting \subseteq Inviting'

LEMMA SoundLasts ==
  ASSUME Lasting, NEW q, Sound(q)
  PROVE  SoundThen(q)
BY DEF Lasting, Sound, SoundThen, Truthful

LEMMA TurnStays ==
  ASSUME Requests, Lasting, NEW r \in Request, NEW q, req' = [req EXCEPT ![r] = q], SoundThen(q)
  PROVE  /\ Requests'
         /\ req'[r] = q /\ \A k \in Request : k # r => req'[k] = req[k]
<1>1. q \in ReqRow
  BY DEF SoundThen, Fit
<1>2. /\ req' \in [Request -> ReqRow]
      /\ req'[r] = q /\ \A k \in Request : k # r => req'[k] = req[k]
  BY <1>1 DEF Requests
<1>3. \A k \in Request : SoundThen(req'[k])
  BY <1>2, SoundLasts DEF Requests
<1>4. (\A k \in Request : Sound(req[k]))'
  BY <1>3 DEF Sound, SoundThen, Fit, ReqRow, Truthful
<1> QED BY <1>2, <1>4 DEF Requests, ReqRow

LEMMA RestStays ==
  ASSUME Requests, Lasting, UNCHANGED req
  PROVE  Requests'
<1>1. \A k \in Request : SoundThen(req'[k])
  BY SoundLasts DEF Requests
<1>2. (\A k \in Request : Sound(req[k]))'
  BY <1>1 DEF Sound, SoundThen
<1> QED BY <1>2 DEF Requests

LEMMA QuietSound == Sound(Quiet) /\ SoundThen(Quiet)
BY DEF Quiet, Sound, SoundThen, Fit, Truthful, ReqRow, PC, Placed, Admitted, Does

-----------------------------------------------------------------------------
(***************************************************************************)
(* The invariant: the tables are typed, what the registry holds is known,  *)
(* who has a link or an account is welcome, and requests are sound.        *)
(***************************************************************************)
Registered ==
  /\ boot \in KnownSpaces /\ boot.row.slug = Home
  /\ \A slug \in Slug : cache[slug] # NULL => cache[slug] \in KnownSpaces /\ cache[slug].row.slug = slug

Listed ==
  /\ \A l \in Rows(links) : <<links[l].tenant, links[l].email>> \in Welcomed
  /\ \A u \in Rows(users) :
       /\ <<users[u].tenant, users[u].email>> \in Welcomed
       /\ users[u].admin =>
            users[u].tenant \in edited \/ users[u].email \in tenants[users[u].tenant].admins

IInv == TypeOK /\ Registered /\ Listed /\ Requests

\* The tables as a whole.
Stored == <<tenants, users, links, invs, pendings, sessions, cache, boot, edited>>

LEMMA RowsAre ==
  ASSUME TypeOK
  PROVE  /\ \A t \in Rows(tenants) : t \in Tid /\ tenants[t] \in TenantRow
         /\ \A u \in Rows(users) : u \in Uid /\ users[u] \in UserRow
         /\ \A l \in Rows(links) : l \in Lid /\ links[l] \in LinkRow
         /\ \A i \in Rows(invs) : i \in Iid /\ invs[i] \in InvRow
         /\ \A p \in Rows(pendings) : p \in Pid /\ pendings[p] \in PendingRow
         /\ \A s \in Rows(sessions) : s \in Sid /\ sessions[s] \in SessionRow
BY DEF TypeOK, Rows, Nobody

LEMMA OnlyTurns ==
  ASSUME IInv, UNCHANGED Stored, NEW r \in Request, NEW q, Turn(r, q)
  PROVE  IInv'
<1>1. Lasting
  BY DEF Lasting, Stored, KnownSpaces, Known, Welcomed, Welcome, Entitled, Belonging, Belongs, Inviting,
         IsInvited, Rows
<1>2. Requests'
  BY <1>1, TurnStays, SoundLasts DEF IInv, Turn
<1>3. TypeOK' /\ Registered' /\ Listed'
  BY DEF IInv, TypeOK, Integrity, Registered, Listed, Stored, KnownSpaces, Known, Welcomed, Welcome,
         Entitled, Rows
<1> QED BY <1>2, <1>3 DEF IInv

\* m is q, but for its place.
Moves(m, q, pc) ==
  /\ m \in ReqRow /\ m.pc = pc
  /\ m.op = q.op /\ m.slug = q.slug /\ m.space = q.space /\ m.sid = q.sid /\ m.who = q.who
  /\ m.email = q.email /\ m.ref = q.ref /\ m.saw = q.saw

LEMMA GoesOn ==
  ASSUME IInv, UNCHANGED Stored, NEW r \in Request, NEW pc \in PC, Goto(r, pc),
         \A m : Moves(m, req[r], pc) => Sound(m)
  PROVE  IInv'
<1>1. PICK m : m = [req[r] EXCEPT !.pc = pc]
  OBVIOUS
<1>2. req[r] \in ReqRow
  BY DEF IInv, Requests
<1>3. m \in ReqRow
  BY <1>1, <1>2 DEF ReqRow
<1>4. Moves(m, req[r], pc)
  BY <1>1, <1>2, <1>3 DEF ReqRow, Moves
<1> QED BY <1>1, <1>4, OnlyTurns DEF Goto, Set, Turn

LEMMA Ends ==
  ASSUME IInv, UNCHANGED Stored, NEW r \in Request, End(r)
  PROVE  IInv'
BY QuietSound, OnlyTurns DEF End, Set, Turn

\* The space of a request is found, in the registry, in the table or in the snapshot.
LEMMA Located ==
  ASSUME NEW q, Sound(q), q.pc = "resolve", NEW x \in KnownSpaces, x.row.slug = q.slug,
         NEW pc, pc = "fill" \/ pc = FirstStep[q.op]
  PROVE  Sound([q EXCEPT !.space = x, !.pc = pc])
<1>0. PICK m : m = [q EXCEPT !.space = x, !.pc = pc]
  OBVIOUS
<1>1. q \in ReqRow /\ q.op \in Served
  BY DEF Sound, Fit
<1>2. /\ pc = "fill" \/ pc \in {"member", "send", "read", "out", "auth", "done"}
      /\ pc = "member" => q.op = "login"
      /\ pc = "send" => q.op = "apex"
      /\ pc = "read" => q.op \in {"callback", "accept"}
      /\ pc = "auth" => q.op \in ByMember
      /\ pc = "done" => q.op = "reload"
      /\ pc = "out" => q.op = "logout"
      /\ pc \in PC
  BY <1>1 DEF FirstStep, Served, ByMember, PC
<1>3. x \in Space
  BY DEF KnownSpaces
<1>4. m \in ReqRow
  BY <1>0, <1>1, <1>2, <1>3 DEF ReqRow
<1>5. /\ m \in ReqRow /\ m.pc = pc /\ m.space = x
      /\ m.op = q.op /\ m.slug = q.slug /\ m.sid = q.sid /\ m.who = q.who
      /\ m.email = q.email /\ m.ref = q.ref /\ m.saw = q.saw
  BY <1>0, <1>1, <1>2, <1>3, <1>4 DEF ReqRow
<1>6. ~ Admitted(m)
  BY <1>1, <1>2, <1>5 DEF Admitted, Served, ByMember
<1>7. Fit(m)
  BY <1>1, <1>2, <1>6, <1>5 DEF Sound, Fit, Does, Served, ByMember
<1>8. Truthful(m, KnownSpaces, Welcomed, Belonging, Inviting)
  BY <1>1, <1>2, <1>6, <1>5 DEF Sound, Truthful, Does, Served, ByMember
<1> QED BY <1>0, <1>7, <1>8 DEF Sound

LEMMA ResolveTurns ==
  ASSUME IInv, NEW r \in Request, Resolve(r) \/ Fallback(r)
  PROVE  IInv'
<1> DEFINE q == req[r]
<1>1. Sound(q) /\ q.pc = "resolve" /\ q \in ReqRow /\ q.op \in Served /\ q.slug \in Slug
  BY DEF Resolve, Fallback, IInv, Requests, Sound, Fit, Served, ByMember
<1>2. CASE End(r)
  BY <1>2, Ends DEF Resolve, Fallback, Stored, tables, ghosts
<1>3. ASSUME NEW x \in KnownSpaces, x.row.slug = q.slug, NEW pc, pc = "fill" \/ pc = FirstStep[q.op],
             Set(r, [q EXCEPT !.space = x, !.pc = pc])
      PROVE  IInv'
  <2>1. Sound([q EXCEPT !.space = x, !.pc = pc])
    BY <1>1, <1>3, Located
  <2> QED BY <2>1, <1>3, OnlyTurns DEF Resolve, Fallback, Turn, Set, Stored, tables, ghosts
<1>4. CASE Resolve(r)
  <2>1. CASE cache[q.slug] # NULL
    BY <2>1, <1>1, <1>3, <1>4 DEF Resolve, IInv, Registered
  <2>2. CASE cache[q.slug] = NULL /\ TenantsOf(q.slug) = {}
    BY <2>2, <1>2, <1>4 DEF Resolve
  <2>3. CASE cache[q.slug] = NULL /\ TenantsOf(q.slug) # {}
    <3>1. PICK t \in TenantsOf(q.slug) : Set(r, [q EXCEPT !.space = [id |-> t, row |-> tenants[t]], !.pc = "fill"])
      BY <2>3, <1>4 DEF Resolve
    <3>2. t \in Tid /\ tenants[t] \in TenantRow /\ tenants[t].slug = q.slug /\ tenants[t] # NULL
      BY RowsAre DEF TenantsOf, IInv, Rows
    <3>3. [id |-> t, row |-> tenants[t]] \in KnownSpaces
      BY <3>2 DEF KnownSpaces, Known, Space
    <3> QED BY <3>1, <3>2, <3>3, <1>3
  <2> QED BY <2>1, <2>2, <2>3
<1>5. CASE Fallback(r)
  BY <1>5, <1>1, <1>3 DEF Fallback, IInv, Registered
<1> QED BY <1>4, <1>5

\* The tables keep what Listed, Registered and the requests rely on: see Lasting.
Same == UNCHANGED <<tenants, users, links, invs, edited>>

LEMMA SameLasts ==
  ASSUME Same
  PROVE  /\ Lasting
         /\ KnownSpaces' = KnownSpaces
         /\ Listed => Listed'
BY DEF Same, Lasting, Listed, KnownSpaces, Known, Welcomed, Welcome, Entitled, Belonging, Belongs, Inviting,
       IsInvited, Rows

LEMMA Turned ==
  ASSUME IInv, Lasting, TypeOK', Registered', Listed', NEW r \in Request, NEW q, Sound(q) \/ SoundThen(q),
         Set(r, q)
  PROVE  IInv'
BY TurnStays, SoundLasts DEF IInv, Set

LEMMA FillKeeps ==
  ASSUME IInv, NEW r \in Request, Fill(r)
  PROVE  IInv'
<1> DEFINE q == req[r]
<1>1. Sound(q) /\ q.pc = "fill" /\ q \in ReqRow /\ q.op \in Served /\ q.slug \in Slug
  BY DEF Fill, IInv, Requests, Sound, Fit, Served, ByMember
<1>2. q.space \in KnownSpaces /\ q.space.row.slug = q.slug
  BY <1>1 DEF Sound, Truthful, Placed
<1>3. Same
  BY DEF Fill, Same, tables, ghosts
<1>4. TypeOK' /\ Registered'
  <2>1. q.space \in Space /\ cache' = [cache EXCEPT ![q.slug] = q.space] /\ boot' = boot
    BY <1>2 DEF KnownSpaces, Fill
  <2>2. TypeOK'
    BY <2>1, <1>1, <1>3 DEF Same, Fill, IInv, TypeOK, Integrity, tables, Rows
  <2>3. Registered'
    BY <2>1, <1>1, <1>2, <1>3, SameLasts DEF IInv, TypeOK, Registered
  <2> QED BY <2>2, <2>3
<1>5. ASSUME NEW m, Moves(m, q, FirstStep[q.op])
      PROVE  Sound(m)
  <2>1. /\ m.pc \in {"member", "send", "read", "out", "auth", "done"}
        /\ m.pc = "member" => q.op = "login"
        /\ m.pc = "send" => q.op = "apex"
        /\ m.pc = "read" => q.op \in {"callback", "accept"}
        /\ m.pc = "auth" => q.op \in ByMember
        /\ m.pc = "done" => q.op = "reload"
        /\ m.pc = "out" => q.op = "logout"
    BY <1>1, <1>5 DEF Moves, FirstStep, Served, ByMember
  <2>2. ~ Admitted(m)
    BY <1>1, <1>5, <2>1 DEF Moves, Admitted, Served, ByMember
  <2>3. Fit(m)
    BY <1>1, <1>5, <2>1, <2>2 DEF Moves, Sound, Fit, Does, Served, ByMember
  <2>4. Truthful(m, KnownSpaces, Welcomed, Belonging, Inviting)
    BY <1>1, <1>2, <1>5, <2>1, <2>2 DEF Moves, Sound, Truthful, Does, Served, ByMember
  <2> QED BY <2>3, <2>4 DEF Sound
<1>6. FirstStep[q.op] \in PC
  BY <1>1 DEF FirstStep, Served, ByMember, PC
<1>7. PICK m : m = [q EXCEPT !.pc = FirstStep[q.op]]
  OBVIOUS
<1>8. m \in ReqRow
  BY <1>1, <1>6, <1>7 DEF ReqRow
<1>9. Moves(m, q, FirstStep[q.op])
  BY <1>1, <1>6, <1>7, <1>8 DEF ReqRow, Moves
<1> QED BY <1>3, <1>4, <1>5, <1>7, <1>9, SameLasts, Turned DEF Fill, Goto, IInv

LEMMA InvalidateKeeps ==
  ASSUME IInv, NEW r \in Request, Invalidate(r)
  PROVE  IInv'
<1> DEFINE q == req[r]
<1>1. Sound(q) /\ q.pc = "invalidate" /\ q \in ReqRow
  BY DEF Invalidate, IInv, Requests, Sound, Fit
<1>2. Same
  BY DEF Invalidate, Same, tables
<1>3. cache' = [cache EXCEPT ![q.slug] = NULL] /\ boot' = boot
  BY DEF Invalidate, Forget
<1>4. TypeOK'
  BY <1>2, <1>3 DEF Same, Invalidate, IInv, TypeOK, Integrity, tables, Rows
<1>5. Registered'
  BY <1>2, <1>3, SameLasts DEF IInv, TypeOK, Registered
<1>6. CASE End(r)
  BY <1>2, <1>4, <1>5, <1>6, SameLasts, Turned, QuietSound DEF End, IInv
<1>7. CASE q.op = "settings" /\ Set(r, [q EXCEPT !.op = "reload", !.pc = "resolve"])
  <2>1. PICK m : m = [q EXCEPT !.op = "reload", !.pc = "resolve"]
    OBVIOUS
  <2>2. m \in ReqRow
    BY <1>1, <2>1 DEF ReqRow, Op, Served, PC
  <2>3. m.op = "reload" /\ m.pc = "resolve" /\ m.slug = q.slug
    BY <1>1, <2>1, <2>2 DEF ReqRow
  <2>4. Sound(m)
    BY <1>1, <1>7, <2>2, <2>3
    DEF Sound, Fit, Truthful, Placed, Admitted, Does, Served, ByMember
  <2> QED BY <1>2, <1>4, <1>5, <1>7, <2>1, <2>4, SameLasts, Turned DEF IInv
<1> QED BY <1>6, <1>7 DEF Invalidate

LEMMA StopsKeeps ==
  ASSUME IInv, NEW r \in Request, Stops(r) \/ Reloaded(r)
  PROVE  IInv'
BY Ends DEF Stops, Reloaded, Stored, tables, ghosts

LEMMA AuthKeeps ==
  ASSUME IInv, NEW r \in Request, Auth(r)
  PROVE  IInv'
<1> DEFINE q == req[r]
           s == q.sid
           u == sessions[s].user
<1>1. Sound(q) /\ q.pc = "auth" /\ q \in ReqRow /\ q.op \in Served /\ UNCHANGED Stored
  BY DEF Auth, IInv, Requests, Sound, Fit, Stored, tables, ghosts
<1>2. CASE End(r)
  BY <1>1, <1>2, Ends
<1>3. CASE /\ s \in Rows(sessions) /\ sessions[s].tenant = q.space.id
           /\ Set(r, [q EXCEPT !.pc = "admitted", !.who = [id |-> u, admin |-> users[u].admin]])
  <2>1. u \in Rows(users) /\ users[u].tenant = q.space.id /\ u \in Uid /\ users[u] \in UserRow
    BY <1>3, RowsAre DEF IInv, TypeOK, Integrity
  <2>2. PICK w : w = [id |-> u, admin |-> users[u].admin]
    OBVIOUS
  <2>3. w \in Who /\ w.id = u
    BY <2>1, <2>2 DEF Who, UserRow
  <2>4. PICK m : m = [q EXCEPT !.pc = "admitted", !.who = w]
    OBVIOUS
  <2>5. m \in ReqRow
    BY <1>1, <2>3, <2>4 DEF ReqRow, PC
  <2>6. /\ m.op = q.op /\ m.pc = "admitted" /\ m.slug = q.slug /\ m.who = w
        /\ m.email = q.email /\ m.ref = q.ref /\ m.saw = q.saw /\ m.space = q.space
    BY <1>1, <2>4, <2>5 DEF ReqRow
  <2>7. q.space \in KnownSpaces /\ q.space.row.slug = q.slug /\ q.space.id \in Tid
    BY <1>1 DEF Sound, Truthful, Placed, KnownSpaces, Space
  <2>8. <<w.id, q.space.id>> \in Belonging
    BY <2>1, <2>3, <2>7 DEF Belonging, Belongs, Rows
  <2>9. Fit(m)
    BY <1>1, <2>3, <2>5, <2>6 DEF Sound, Fit, Does, Served, ByMember
  <2>10. Truthful(m, KnownSpaces, Welcomed, Belonging, Inviting)
    BY <1>1, <2>6, <2>7, <2>8 DEF Sound, Fit, Truthful, Does, Served, ByMember
  <2> QED BY <1>1, <1>3, <2>2, <2>4, <2>9, <2>10, OnlyTurns DEF Set, Turn, Sound
<1> QED BY <1>2, <1>3 DEF Auth

-----------------------------------------------------------------------------
(***************************************************************************)
(* Requests that come in, and the statements that only read.               *)
(***************************************************************************)
LEMMA Arrives ==
  ASSUME IInv, NEW r \in Request, NEW op, NEW q, Arrive(r, op, q), Sound(q)
  PROVE  IInv'
BY OnlyTurns DEF Arrive, Set, Turn, Stored, tables, ghosts

\* The fields of a request as it comes in.
Fresh(q, op, pc, slug, sid, email, ref, saw) ==
  q = [op |-> op, pc |-> pc, slug |-> slug, space |-> NULL, sid |-> sid, who |-> NULL,
       email |-> email, ref |-> ref, saw |-> saw]

LEMMA FreshIs ==
  ASSUME NEW q, NEW op, NEW pc, NEW slug, NEW sid, NEW email, NEW ref, NEW saw,
         Fresh(q, op, pc, slug, sid, email, ref, saw),
         op \in Op, pc \in PC, slug \in Slug \/ slug = NULL, sid \in Sid \/ sid = NULL,
         email \in Email \/ email = NULL, ref \in Lid \union Uid \union Iid \union Pid \/ ref = NULL,
         saw \in Nat \union Mode \union FormRow \/ saw = NULL
  PROVE  /\ q \in ReqRow
         /\ q.op = op /\ q.pc = pc /\ q.slug = slug /\ q.email = email /\ q.ref = ref /\ q.saw = saw
<1>1. q.pc = pc /\ q.op = op /\ q.slug = slug /\ q.email = email /\ q.ref = ref /\ q.saw = saw
  BY DEF Fresh
<1>2. q \in ReqRow
  BY DEF Fresh, ReqRow
<1> QED BY <1>1, <1>2

LEMMA LoginArrives ==
  ASSUME IInv, NEW r \in Request, NEW slug \in Slug, NEW e \in Email, AskLink(r, slug, e)
  PROVE  IInv'
<1>1. PICK q : q = [Quiet EXCEPT !.op = "login", !.pc = "resolve", !.slug = slug, !.email = e]
  OBVIOUS
<1>2. Fresh(q, "login", "resolve", slug, NULL, e, NULL, NULL)
  BY <1>1 DEF Fresh, Quiet
<1>3. "login" \in Op /\ "resolve" \in PC
  BY DEF Op, Served, PC
<1>4. /\ q \in ReqRow
      /\ q.op = "login" /\ q.pc = "resolve" /\ q.slug = slug /\ q.email = e
  BY <1>2, <1>3, FreshIs
<1>5. Sound(q)
  BY <1>4 DEF Sound, Fit, Truthful, Placed, Admitted, Does, Served, ByMember
<1> QED BY <1>1, <1>5, Arrives DEF AskLink

LEMMA ApexArrives ==
  ASSUME IInv, NEW r \in Request, NEW e \in Email, AskLinkAtApex(r, e)
  PROVE  IInv'
<1>1. PICK q : q = [Quiet EXCEPT !.op = "apex", !.pc = "whose", !.email = e]
  OBVIOUS
<1>2. Fresh(q, "apex", "whose", NULL, NULL, e, NULL, NULL)
  BY <1>1 DEF Fresh, Quiet
<1>3. "apex" \in Op /\ "whose" \in PC
  BY DEF Op, Served, PC
<1>4. /\ q \in ReqRow
      /\ q.op = "apex" /\ q.pc = "whose" /\ q.email = e
  BY <1>2, <1>3, FreshIs
<1>5. Sound(q)
  BY <1>4 DEF Sound, Fit, Truthful, Placed, Admitted, Does, Served, ByMember
<1> QED BY <1>1, <1>5, Arrives DEF AskLinkAtApex

LEMMA CallbackArrives ==
  ASSUME IInv, NEW r \in Request, NEW slug \in Slug, NEW l \in Lid, Follow(r, l, slug)
  PROVE  IInv'
<1>1. PICK q : q = [Quiet EXCEPT !.op = "callback", !.pc = "resolve", !.slug = slug, !.ref = l]
  OBVIOUS
<1>2. Fresh(q, "callback", "resolve", slug, NULL, NULL, l, NULL)
  BY <1>1 DEF Fresh, Quiet
<1>3. "callback" \in Op /\ "resolve" \in PC
  BY DEF Op, Served, PC
<1>4. /\ q \in ReqRow
      /\ q.op = "callback" /\ q.pc = "resolve" /\ q.slug = slug /\ q.ref = l
  BY <1>2, <1>3, FreshIs
<1>5. Sound(q)
  BY <1>4 DEF Sound, Fit, Truthful, Placed, Admitted, Does, Served, ByMember
<1> QED BY <1>1, <1>5, Arrives DEF Follow

LEMMA LogoutArrives ==
  ASSUME IInv, NEW r \in Request, NEW slug \in Slug, NEW s \in Sid, AskLogout(r, s, slug)
  PROVE  IInv'
<1>1. PICK q : q = [Quiet EXCEPT !.op = "logout", !.pc = "resolve", !.slug = slug, !.sid = s]
  OBVIOUS
<1>2. Fresh(q, "logout", "resolve", slug, s, NULL, NULL, NULL)
  BY <1>1 DEF Fresh, Quiet
<1>3. "logout" \in Op /\ "resolve" \in PC
  BY DEF Op, Served, PC
<1>4. /\ q \in ReqRow
      /\ q.op = "logout" /\ q.pc = "resolve" /\ q.slug = slug
  BY <1>2, <1>3, FreshIs
<1>5. Sound(q)
  BY <1>4 DEF Sound, Fit, Truthful, Placed, Admitted, Does, Served, ByMember
<1> QED BY <1>1, <1>5, Arrives DEF AskLogout

LEMMA VisitArrives ==
  ASSUME IInv, NEW r \in Request, NEW op \in ByMember, NEW slug \in Slug, NEW s \in Sid,
         NEW e \in Email \union {NULL}, NEW ref \in Iid \union Uid \union {NULL},
         op = "invite" => e \in Email, op = "revoke" => ref \in Iid, op = "remove" => ref \in Uid,
         Visit(r, op, s, slug, e, ref)
  PROVE  IInv'
<1>1. PICK q : q = [Quiet EXCEPT !.op = op, !.pc = "resolve", !.slug = slug, !.sid = s,
                                 !.email = e, !.ref = ref]
  OBVIOUS
<1>2. Fresh(q, op, "resolve", slug, s, e, ref, NULL)
  BY <1>1 DEF Fresh, Quiet
<1>3. op \in Op /\ "resolve" \in PC
  BY DEF Op, Served, PC
<1>4. /\ q \in ReqRow
      /\ q.op = op /\ q.pc = "resolve" /\ q.slug = slug /\ q.email = e /\ q.ref = ref
  BY <1>2, <1>3, FreshIs
<1>5. Sound(q)
  BY <1>4 DEF Sound, Fit, Truthful, Placed, Admitted, Does, Served, ByMember
<1> QED BY <1>1, <1>5, Arrives DEF Visit

LEMMA AcceptArrives ==
  ASSUME IInv, NEW r \in Request, NEW slug \in Slug, NEW i \in Iid, NEW token \in 0..1,
         FollowInvite(r, i, token, slug)
  PROVE  IInv'
<1>1. PICK q : q = [Quiet EXCEPT !.op = "accept", !.pc = "resolve", !.slug = slug,
                                 !.ref = i, !.saw = token]
  OBVIOUS
<1>2. Fresh(q, "accept", "resolve", slug, NULL, NULL, i, token)
  BY <1>1 DEF Fresh, Quiet
<1>3. "accept" \in Op /\ "resolve" \in PC /\ token \in Nat
  BY DEF Op, Served, PC
<1>4. /\ q \in ReqRow
      /\ q.op = "accept" /\ q.pc = "resolve" /\ q.slug = slug /\ q.ref = i
  BY <1>2, <1>3, FreshIs
<1>5. i \in Rows(invs) /\ invs[i] \in InvRow
  BY RowsAre DEF FollowInvite, IInv
<1>6. <<i, invs[i].tenant, invs[i].email>> \in Inviting
  BY <1>5 DEF Inviting, IsInvited, InvRow
<1>7. Fit(q)
  BY <1>4 DEF Fit, Admitted, Does, Served, ByMember
<1>8. \E t, email : <<q.ref, t, email>> \in Inviting
  BY <1>4, <1>6
<1>9. Truthful(q, KnownSpaces, Welcomed, Belonging, Inviting)
  BY <1>4, <1>8 DEF Truthful, Placed, Admitted, Does, Served, ByMember
<1> QED BY <1>1, <1>7, <1>9, Arrives DEF FollowInvite, Sound

LEMMA SignupArrives ==
  ASSUME IInv, NEW r \in Request, NEW e \in Email, NEW slug \in Slug, NEW mode \in Mode,
         Submit(r, e, slug, mode)
  PROVE  IInv'
<1>1. PICK q : q = [Quiet EXCEPT !.op = "signup", !.pc = "taken", !.slug = slug, !.email = e,
                                 !.saw = mode]
  OBVIOUS
<1>2. Fresh(q, "signup", "taken", slug, NULL, e, NULL, mode)
  BY <1>1 DEF Fresh, Quiet
<1>3. "signup" \in Op /\ "taken" \in PC
  BY DEF Op, PC
<1>4. /\ q \in ReqRow
      /\ q.op = "signup" /\ q.pc = "taken" /\ q.slug = slug /\ q.email = e /\ q.saw = mode
  BY <1>2, <1>3, FreshIs
<1>5. Sound(q)
  BY <1>4 DEF Sound, Fit, Truthful, Placed, Admitted, Does, Served, ByMember
<1> QED BY <1>1, <1>5, Arrives DEF Submit

LEMMA VerifyArrives ==
  ASSUME IInv, NEW r \in Request, NEW p \in Pid, FollowSignup(r, p)
  PROVE  IInv'
<1>1. PICK q : q = [Quiet EXCEPT !.op = "verify", !.pc = "read", !.ref = p]
  OBVIOUS
<1>2. Fresh(q, "verify", "read", NULL, NULL, NULL, p, NULL)
  BY <1>1 DEF Fresh, Quiet
<1>3. "verify" \in Op /\ "read" \in PC
  BY DEF Op, PC
<1>4. q \in ReqRow /\ q.op = "verify" /\ q.pc = "read" /\ q.ref = p
  BY <1>2, <1>3, FreshIs
<1>5. Sound(q)
  BY <1>4 DEF Sound, Fit, Truthful, Placed, Admitted, Does, Served, ByMember
<1> QED BY <1>1, <1>5, Arrives DEF FollowSignup

LEMMA CommandArrives ==
  ASSUME IInv, NEW r \in Request, NEW op \in {"create", "update", "delete", "drop"}, NEW slug \in Slug,
         NEW saw \in FormRow \union {NULL}, op \in {"create", "update"} => saw \in FormRow,
         Command(r, op, slug, saw)
  PROVE  IInv'
<1>1. PICK q : q = [Quiet EXCEPT !.op = op, !.pc = "write", !.slug = slug, !.saw = saw]
  OBVIOUS
<1>2. Fresh(q, op, "write", slug, NULL, NULL, NULL, saw)
  BY <1>1 DEF Fresh, Quiet
<1>3. op \in Op /\ "write" \in PC
  BY DEF Op, PC
<1>4. /\ q \in ReqRow
      /\ q.op = op /\ q.pc = "write" /\ q.slug = slug /\ q.saw = saw
  BY <1>2, <1>3, FreshIs
<1>5. Sound(q)
  BY <1>4 DEF Sound, Fit, Truthful, Placed, Admitted, Does, Served, ByMember
<1> QED BY <1>1, <1>5, Arrives DEF Command

\* What a request stands on: its space, its user.
LEMMA Standing ==
  ASSUME IInv, NEW r \in Request
  PROVE  LET q == req[r]
         IN  /\ Sound(q) /\ q \in ReqRow
             /\ Placed(q) => /\ q.space \in KnownSpaces /\ q.space \in Space /\ q.space.id \in Tid
                             /\ q.space.row \in TenantRow /\ q.space.row.slug = q.slug
             /\ Admitted(q) => q.who \in Who /\ q.who.id \in Uid /\ <<q.who.id, q.space.id>> \in Belonging
BY DEF IInv, Requests, Sound, Fit, Truthful, KnownSpaces, Space, Who

LEMMA AskMemberKeeps ==
  ASSUME IInv, NEW r \in Request, AskMember(r)
  PROVE  IInv'
<1> DEFINE q == req[r]
<1>1. q.op = "login" /\ q.pc = "member" /\ UNCHANGED Stored
  BY DEF AskMember, At, Stored, tables, ghosts
<1>2. /\ Sound(q) /\ q \in ReqRow /\ q.email \in Email
      /\ q.space \in KnownSpaces /\ q.space.id \in Tid
  BY <1>1, Standing DEF Sound, Fit, Does, Placed, Served
<1>3. CASE Accounts(q.space.id, q.email) # {} \/ ByDomain(r)
  <2>1. <<q.space.id, q.email>> \in Welcomed
    <3>1. CASE Accounts(q.space.id, q.email) # {}
      BY <3>1 DEF Accounts, UsersOf, IInv, Listed
    <3>2. CASE ByDomain(r)
      <4>1. /\ tenants[q.space.id] # NULL
            /\ q.space.id \in Rows(tenants) => tenants[q.space.id].mode # "invite"
        BY <1>2, <3>2 DEF KnownSpaces, Known, ByDomain
      <4> QED BY <1>2, <4>1 DEF Welcomed, Welcome
    <3> QED BY <1>3, <3>1, <3>2
  <2>2. ASSUME NEW m, Moves(m, q, "send") PROVE Sound(m)
    BY <1>1, <1>2, <2>1, <2>2
    DEF Moves, Sound, Fit, Truthful, Placed, Admitted, Does, Served, ByMember
  <2> QED BY <1>1, <1>3, <2>2, GoesOn DEF AskMember, PC
<1>4. CASE ~ (Accounts(q.space.id, q.email) # {} \/ ByDomain(r))
  <2>1. ASSUME NEW m, Moves(m, q, "invited") PROVE Sound(m)
    BY <1>1, <1>2, <2>1
    DEF Moves, Sound, Fit, Truthful, Placed, Admitted, Does, Served, ByMember
  <2> QED BY <1>1, <1>4, <2>1, GoesOn DEF AskMember, PC
<1> QED BY <1>3, <1>4

LEMMA AskInvitedKeeps ==
  ASSUME IInv, NEW r \in Request, AskInvited(r)
  PROVE  IInv'
<1> DEFINE q == req[r]
<1>1. q.op = "login" /\ q.pc = "invited" /\ UNCHANGED Stored
  BY DEF AskInvited, At, Stored, tables, ghosts
<1>2. /\ Sound(q) /\ q \in ReqRow /\ q.email \in Email
      /\ q.space \in KnownSpaces /\ q.space.id \in Tid
  BY <1>1, Standing DEF Sound, Fit, Does, Placed, Served
<1>3. CASE Invited(q.space.id, q.email)
  <2>1. <<q.space.id, q.email>> \in Welcomed
    BY <1>2, <1>3 DEF Invited, Welcomed, Welcome, Entitled, KnownSpaces, Known
  <2>2. ASSUME NEW m, Moves(m, q, "send") PROVE Sound(m)
    BY <1>1, <1>2, <2>1, <2>2
    DEF Moves, Sound, Fit, Truthful, Placed, Admitted, Does, Served, ByMember
  <2> QED BY <1>1, <1>3, <2>2, GoesOn DEF AskInvited, PC
<1> QED BY <1>1, <1>3, Ends DEF AskInvited

LEMMA AskWhoseKeeps ==
  ASSUME IInv, NEW r \in Request, AskWhose(r)
  PROVE  IInv'
<1> DEFINE q == req[r]
           own == {t \in Rows(tenants) : Accounts(t, q.email) # {}}
<1>1. q.op = "apex" /\ q.pc = "whose" /\ UNCHANGED Stored
  BY DEF AskWhose, At, Stored, tables, ghosts
<1>2. CASE End(r)
  BY <1>1, <1>2, Ends
<1>3. CASE \E t \in own : Set(r, [q EXCEPT !.slug = tenants[t].slug, !.ref = t, !.pc = "resolve"])
  <2>1. PICK t \in own : Set(r, [q EXCEPT !.slug = tenants[t].slug, !.ref = t, !.pc = "resolve"])
    BY <1>3
  <2>2. PICK slug : slug = tenants[t].slug
    OBVIOUS
  <2>3. t \in Tid /\ slug \in Slug
    BY <2>2, RowsAre DEF IInv, TenantRow
  <2>4. <<t, q.email>> \in Welcomed
    BY DEF Accounts, UsersOf, IInv, Listed
  <2>5. Sound(q) /\ q \in ReqRow /\ q.email \in Email
    BY <1>1, Standing DEF Sound, Fit, Does
  <2>6. PICK m : m = [q EXCEPT !.slug = slug, !.ref = t, !.pc = "resolve"]
    OBVIOUS
  <2>7. m \in ReqRow
    BY <2>3, <2>5, <2>6 DEF ReqRow, PC
  <2>8. m.op = q.op /\ m.pc = "resolve" /\ m.slug = slug /\ m.ref = t /\ m.email = q.email
    BY <2>5, <2>6, <2>7 DEF ReqRow
  <2>9. Sound(m)
    BY <1>1, <2>3, <2>4, <2>5, <2>7, <2>8
    DEF Sound, Fit, Truthful, Placed, Admitted, Does, Served, ByMember
  <2> QED BY <1>1, <2>1, <2>2, <2>6, <2>9, OnlyTurns DEF Set, Turn
<1> QED BY <1>2, <1>3 DEF AskWhose

LEMMA ReadLinkKeeps ==
  ASSUME IInv, NEW r \in Request, ReadLink(r)
  PROVE  IInv'
<1> DEFINE q == req[r]
           l == q.ref
<1>1. q.op = "callback" /\ q.pc = "read" /\ UNCHANGED Stored
  BY DEF ReadLink, At, Stored, tables, ghosts
<1>2. Sound(q) /\ q \in ReqRow /\ q.space \in KnownSpaces /\ l \in Lid
  BY <1>1, Standing DEF Sound, Fit, Does, Placed, Served
<1>3. CASE End(r)
  BY <1>1, <1>3, Ends
<1>4. CASE /\ l \in Rows(links) /\ LinkOpens(r)
           /\ Set(r, [q EXCEPT !.pc = "use", !.email = links[l].email])
  <2>1. PICK e : e = links[l].email
    OBVIOUS
  <2>2. e \in Email /\ <<q.space.id, e>> \in Welcomed
    BY <1>4, <2>1, RowsAre DEF LinkOpens, IInv, Listed, LinkRow
  <2>3. PICK m : m = [q EXCEPT !.pc = "use", !.email = e]
    OBVIOUS
  <2>4. m \in ReqRow
    BY <1>2, <2>2, <2>3 DEF ReqRow, PC
  <2>5. /\ m.op = q.op /\ m.pc = "use" /\ m.slug = q.slug /\ m.space = q.space /\ m.ref = l /\ m.email = e
    BY <1>2, <2>3, <2>4 DEF ReqRow
  <2>6. Sound(m)
    BY <1>1, <1>2, <2>2, <2>4, <2>5
    DEF Sound, Fit, Truthful, Placed, Admitted, Does, Served, ByMember
  <2> QED BY <1>1, <1>4, <2>1, <2>3, <2>6, OnlyTurns DEF Set, Turn
<1> QED BY <1>3, <1>4 DEF ReadLink

LEMMA StartInviteKeeps ==
  ASSUME IInv, NEW r \in Request, StartInvite(r)
  PROVE  IInv'
<1> DEFINE q == req[r]
<1>1. q.op = "invite" /\ q.pc = "admitted" /\ UNCHANGED Stored /\ Sound(q)
  BY Standing DEF StartInvite, At, Stored, tables, ghosts
<1>2. ASSUME NEW m, Moves(m, q, "existing") PROVE Sound(m)
  BY <1>1, <1>2 DEF Moves, Sound, Fit, Truthful, Placed, Admitted, Does, Served, ByMember
<1> QED BY <1>1, <1>2, GoesOn, Ends DEF StartInvite, PC

LEMMA FindInviteKeeps ==
  ASSUME IInv, NEW r \in Request, FindInvite(r)
  PROVE  IInv'
<1> DEFINE q == req[r]
           found == PendingInvs(q.space.id, q.email)
<1>1. q.op = "invite" /\ q.pc = "existing" /\ UNCHANGED Stored /\ Sound(q) /\ q \in ReqRow
  BY Standing DEF FindInvite, At, Stored, tables, ghosts
<1>2. CASE Goto(r, "insert")
  <2>1. ASSUME NEW m, Moves(m, q, "insert") PROVE Sound(m)
    BY <1>1, <2>1 DEF Moves, Sound, Fit, Truthful, Placed, Admitted, Does, Served, ByMember
  <2> QED BY <1>1, <1>2, <2>1, GoesOn DEF PC
<1>3. CASE \E i \in found : Set(r, [q EXCEPT !.pc = "refresh", !.ref = i])
  <2>1. PICK i \in found : Set(r, [q EXCEPT !.pc = "refresh", !.ref = i])
    BY <1>3
  <2>2. i \in Iid /\ <<i, invs[i].tenant, invs[i].email>> \in Inviting
    BY RowsAre DEF IInv, PendingInvs, Inviting, IsInvited, InvRow
  <2>3. PICK m : m = [q EXCEPT !.pc = "refresh", !.ref = i]
    OBVIOUS
  <2>4. m \in ReqRow
    BY <1>1, <2>2, <2>3 DEF ReqRow, PC
  <2>5. /\ m.op = q.op /\ m.pc = "refresh" /\ m.slug = q.slug /\ m.space = q.space /\ m.ref = i
        /\ m.email = q.email /\ m.who = q.who
    BY <1>1, <2>3, <2>4 DEF ReqRow
  <2>6. \E t, email : <<m.ref, t, email>> \in Inviting
    BY <2>2, <2>5
  <2>7. Sound(m)
    BY <1>1, <2>4, <2>5, <2>6
    DEF Sound, Fit, Truthful, Placed, Admitted, Does, Served, ByMember
  <2> QED BY <1>1, <2>1, <2>3, <2>7, OnlyTurns DEF Set, Turn
<1> QED BY <1>2, <1>3 DEF FindInvite

LEMMA ReadInviteKeeps ==
  ASSUME IInv, NEW r \in Request, ReadInvite(r)
  PROVE  IInv'
<1> DEFINE q == req[r]
           inv == invs[q.ref]
           to == IF inv.overdue THEN "late" ELSE "join"
<1>1. q.op = "accept" /\ q.pc = "read" /\ UNCHANGED Stored /\ Sound(q) /\ q \in ReqRow
  BY Standing DEF ReadInvite, At, Stored, tables, ghosts
<1>2. CASE End(r)
  BY <1>1, <1>2, Ends
<1>3. CASE inv.tenant = q.space.id /\ Set(r, [q EXCEPT !.pc = to, !.email = inv.email])
  <2>1. q.ref \in Rows(invs) /\ q.ref \in Iid /\ inv \in InvRow
    BY <1>1, RowsAre DEF Sound, Truthful, Does, Inviting, IsInvited, IInv
  <2>2. PICK e : e = inv.email
    OBVIOUS
  <2>3. PICK pc \in {"late", "join"} : pc = to
    OBVIOUS
  <2>4. e \in Email /\ <<q.ref, q.space.id, e>> \in Inviting
    BY <1>3, <2>1, <2>2 DEF Inviting, IsInvited, InvRow
  <2>5. pc \in PC
    BY <2>3 DEF PC
  <2>6. PICK m : m = [q EXCEPT !.pc = pc, !.email = e]
    OBVIOUS
  <2>7. m \in ReqRow
    BY <1>1, <2>4, <2>6, <2>5 DEF ReqRow
  <2>8. /\ m.op = q.op /\ m.pc = pc /\ m.slug = q.slug /\ m.space = q.space /\ m.ref = q.ref
        /\ m.email = e /\ m.who = q.who
    BY <1>1, <2>6, <2>7 DEF ReqRow
  <2>9. \E t, email : <<m.ref, t, email>> \in Inviting
    BY <2>4, <2>8
  <2>10. Sound(m)
    BY <1>1, <2>3, <2>4, <2>7, <2>8, <2>9
    DEF Sound, Fit, Truthful, Placed, Admitted, Does, Served, ByMember
  <2> QED BY <1>1, <1>3, <2>2, <2>3, <2>6, <2>10, OnlyTurns DEF Set, Turn
<1> QED BY <1>2, <1>3 DEF ReadInvite

LEMMA StartRemoveKeeps ==
  ASSUME IInv, NEW r \in Request, StartRemove(r)
  PROVE  IInv'
<1> DEFINE q == req[r]
<1>1. q.op = "remove" /\ q.pc = "admitted" /\ UNCHANGED Stored /\ Sound(q)
  BY Standing DEF StartRemove, At, Stored, tables, ghosts
<1>2. CASE MayRemove(r) /\ Goto(r, "remove")
  <2>1. ASSUME NEW m, Moves(m, q, "remove") PROVE Sound(m)
    BY <1>1, <1>2, <2>1
    DEF Moves, Sound, Fit, Truthful, Placed, Admitted, Does, Served, ByMember, MayRemove
  <2> QED BY <1>1, <1>2, <2>1, GoesOn DEF PC
<1> QED BY <1>1, <1>2, Ends DEF StartRemove

LEMMA AskTakenKeeps ==
  ASSUME IInv, NEW r \in Request, AskTaken(r) \/ AskCooldown(r)
  PROVE  IInv'
<1> DEFINE q == req[r]
<1>1. q.op = "signup" /\ UNCHANGED Stored /\ Sound(q) /\ q.pc # "idle"
  BY Standing DEF AskTaken, AskCooldown, At, Stored, tables, ghosts
<1>2. ASSUME NEW m, NEW pc \in {"cooldown", "insert"}, Moves(m, q, pc) PROVE Sound(m)
  BY <1>1, <1>2 DEF Moves, Sound, Fit, Truthful, Placed, Admitted, Does, Served, ByMember
<1>3. "cooldown" \in PC /\ "insert" \in PC
  BY DEF PC
<1> QED BY <1>1, <1>2, <1>3, GoesOn, Ends DEF AskTaken, AskCooldown

LEMMA ReadPendingKeeps ==
  ASSUME IInv, NEW r \in Request, ReadPending(r)
  PROVE  IInv'
<1> DEFINE q == req[r]
           p == q.ref
<1>1. q.op = "verify" /\ q.pc = "read" /\ UNCHANGED Stored /\ Sound(q) /\ q \in ReqRow
  BY Standing DEF ReadPending, At, Stored, tables, ghosts
<1>2. CASE End(r)
  BY <1>1, <1>2, Ends
<1>3. CASE p \in Rows(pendings) /\ Set(r, [q EXCEPT !.pc = "create", !.saw = pendings[p]])
  <2>1. PICK x : x = pendings[p]
    OBVIOUS
  <2>2. x \in PendingRow /\ p \in Pid
    BY <1>3, <2>1, RowsAre DEF IInv
  <2>3. PICK m : m = [q EXCEPT !.pc = "create", !.saw = x]
    OBVIOUS
  <2>4. m \in ReqRow
    BY <1>1, <2>2, <2>3 DEF ReqRow, PC
  <2>5. m.op = q.op /\ m.pc = "create" /\ m.saw = x /\ m.ref = p
    BY <1>1, <2>3, <2>4 DEF ReqRow
  <2>6. Sound(m)
    BY <1>1, <2>2, <2>4, <2>5
    DEF Sound, Fit, Truthful, Placed, Admitted, Does, Served, ByMember
  <2> QED BY <1>1, <1>3, <2>1, <2>3, <2>6, OnlyTurns DEF Set, Turn
<1> QED BY <1>2, <1>3 DEF ReadPending

LEMMA CountUsersKeeps ==
  ASSUME IInv, NEW r \in Request, CountUsers(r)
  PROVE  IInv'
<1> DEFINE q == req[r]
<1>1. q.op = "delete" /\ q.pc = "write" /\ UNCHANGED Stored /\ Sound(q)
  BY Standing DEF CountUsers, At, Stored, tables, ghosts
<1>2. ASSUME NEW m, Moves(m, q, "delete") PROVE Sound(m)
  BY <1>1, <1>2 DEF Moves, Sound, Fit, Truthful, Placed, Admitted, Does, Served, ByMember
<1> QED BY <1>1, <1>2, GoesOn, Ends DEF CountUsers, PC

LEMMA StartSettingsKeeps ==
  ASSUME IInv, NEW r \in Request, StartSettings(r)
  PROVE  IInv'
<1> DEFINE q == req[r]
<1>1. q.op = "settings" /\ q.pc = "admitted" /\ UNCHANGED Stored /\ Sound(q)
  BY Standing DEF StartSettings, At, Stored, tables, ghosts
<1>2. ASSUME NEW m, Moves(m, q, "write") PROVE Sound(m)
  BY <1>1, <1>2 DEF Moves, Sound, Fit, Truthful, Placed, Admitted, Does, Served, ByMember
<1> QED BY <1>1, <1>2, GoesOn, Ends DEF StartSettings, PC

-----------------------------------------------------------------------------
(***************************************************************************)
(* What writing a table may not undo: a row stays, or is gone for good,    *)
(* and its key columns stay with it.                                       *)
(***************************************************************************)
TenantsKeep ==
  /\ edited \subseteq edited'
  /\ \A t \in Tid : tenants[t] # NULL =>
       /\ tenants'[t] # NULL
       /\ t \in Rows(tenants') =>
            /\ t \in Rows(tenants)
            /\ tenants'[t].slug = tenants[t].slug /\ tenants'[t].mode = tenants[t].mode
            /\ tenants'[t].founder = tenants[t].founder
            /\ t \notin edited' => tenants'[t].admins = tenants[t].admins

UsersKeep ==
  \A u \in Uid : users[u] # NULL =>
    /\ users'[u] # NULL
    /\ u \in Rows(users') => u \in Rows(users) /\ users'[u].tenant = users[u].tenant

InvsKeep ==
  \A i \in Rows(invs) :
    i \in Rows(invs') /\ invs'[i].tenant = invs[i].tenant /\ invs'[i].email = invs[i].email

LinksKeep ==
  \A l \in Rows(links) :
    \/ links[l].tenant \notin Rows(tenants')
    \/ /\ l \in Rows(links')
       /\ links'[l].tenant = links[l].tenant /\ links'[l].email = links[l].email
       /\ links'[l].stray = links[l].stray

\* What is new in links and users is as Listed says.
LinksListed ==
  \A l \in Rows(links') :
    \/ l \in Rows(links) /\ links'[l].tenant = links[l].tenant /\ links'[l].email = links[l].email
    \/ <<links'[l].tenant, links'[l].email>> \in Welcomed'

UsersListed ==
  \A u \in Rows(users') :
    LET t == users'[u].tenant
        old == u \in Rows(users) /\ t = users[u].tenant /\ users'[u].email = users[u].email
    IN  /\ old \/ <<t, users'[u].email>> \in Welcomed'
        /\ users'[u].admin =>
             \/ old /\ users[u].admin
             \/ t \in edited' \/ users'[u].email \in tenants'[t].admins

LEMMA Untouched ==
  /\ UNCHANGED <<tenants, edited>> => TenantsKeep
  /\ UNCHANGED users => UsersKeep
  /\ UNCHANGED invs => InvsKeep
  /\ UNCHANGED links => LinksKeep /\ LinksListed
  /\ UNCHANGED users => UsersListed
BY DEF TenantsKeep, UsersKeep, InvsKeep, LinksKeep, LinksListed, UsersListed

LEMMA KeepLasts ==
  ASSUME IInv, TenantsKeep, UsersKeep, InvsKeep, LinksKeep
  PROVE  Lasting
<1>1. KnownSpaces \subseteq KnownSpaces'
  <2> SUFFICES ASSUME NEW x \in KnownSpaces PROVE x \in KnownSpaces'
    OBVIOUS
  <2>1. x \in Space /\ x.id \in Tid /\ Known(x)
    BY DEF KnownSpaces, Space
  <2> QED BY <2>1 DEF KnownSpaces, Known, TenantsKeep
<1>2. Inviting \subseteq Inviting'
  BY DEF Inviting, IsInvited, InvsKeep
<1>3. Belonging \subseteq Belonging'
  <2> SUFFICES ASSUME NEW p \in Belonging PROVE p \in Belonging'
    OBVIOUS
  <2>1. p \in Uid \X Tid /\ p[1] \in Uid /\ Belongs(p[1], p[2])
    BY DEF Belonging
  <2> QED BY <2>1 DEF Belonging, Belongs, UsersKeep
<1>4. Welcomed \subseteq Welcomed'
  <2> SUFFICES ASSUME NEW p \in Welcomed PROVE p \in Welcomed'
    OBVIOUS
  <2> DEFINE t == p[1]
             e == p[2]
  <2>1. p \in Tid \X Email /\ t \in Tid /\ Welcome(t, e)
    BY DEF Welcomed
  <2>2. tenants'[t] # NULL
    BY <2>1 DEF Welcome, TenantsKeep
  <2>3. ASSUME t \in Rows(tenants'), tenants'[t].mode = "invite"
        PROVE  Entitled(t, e)'
    <3>1. /\ t \in Rows(tenants) /\ tenants[t].mode = "invite"
          /\ tenants'[t].founder = tenants[t].founder
      BY <2>1, <2>3 DEF Welcome, TenantsKeep
    <3>2. Entitled(t, e)
      BY <2>1, <3>1 DEF Welcome
    <3>3. CASE tenants[t].founder = e
      BY <3>1, <3>3 DEF Entitled
    <3>4. CASE \E i \in Rows(invs) : invs[i].tenant = t /\ invs[i].email = e
      BY <3>4 DEF Entitled, InvsKeep
    <3>5. CASE \E l \in Rows(links) : links[l].tenant = t /\ links[l].email = e /\ links[l].stray
      BY <2>3, <3>5 DEF Entitled, LinksKeep
    <3> QED BY <3>2, <3>3, <3>4, <3>5 DEF Entitled
  <2> QED BY <2>1, <2>2, <2>3 DEF Welcomed, Welcome
<1> QED BY <1>1, <1>2, <1>3, <1>4 DEF Lasting

LEMMA StayListed ==
  ASSUME IInv, TypeOK', Lasting, TenantsKeep, LinksListed, UsersListed
  PROVE  Listed'
<1>1. ASSUME NEW l \in Rows(links')
      PROVE  <<links'[l].tenant, links'[l].email>> \in Welcomed'
  BY <1>1 DEF LinksListed, Lasting, IInv, Listed
<1>2. ASSUME NEW u \in Rows(users')
      PROVE  /\ <<users'[u].tenant, users'[u].email>> \in Welcomed'
             /\ users'[u].admin =>
                  users'[u].tenant \in edited' \/ users'[u].email \in tenants'[users'[u].tenant].admins
  <2> DEFINE t == users'[u].tenant
  <2>1. <<t, users'[u].email>> \in Welcomed'
    BY <1>2 DEF UsersListed, Lasting, IInv, Listed
  <2>2. ASSUME u \in Rows(users), t = users[u].tenant, users'[u].email = users[u].email, users[u].admin
        PROVE  t \in edited' \/ users'[u].email \in tenants'[t].admins
    <3>1. t \in edited \/ users'[u].email \in tenants[t].admins
      BY <2>2 DEF IInv, Listed
    <3>2. t \in Tid /\ tenants[t] # NULL /\ t \in Rows(tenants')
      <4>1. t \in Rows(tenants) /\ t \in Rows(tenants')
        BY <1>2, <2>2 DEF IInv, TypeOK, Integrity
      <4> QED BY <4>1, RowsAre DEF IInv, Rows
    <3> QED BY <3>1, <3>2 DEF TenantsKeep
  <2> QED BY <1>2, <2>1, <2>2 DEF UsersListed
<1> QED BY <1>1, <1>2 DEF Listed

LEMMA StayRegistered ==
  ASSUME IInv, Lasting, UNCHANGED <<cache, boot>>
  PROVE  Registered'
BY DEF IInv, Registered, Lasting

\* The whole argument for an action of a request, and for one of nobody's.
LEMMA Written ==
  ASSUME IInv, TypeOK', TenantsKeep, UsersKeep, InvsKeep, LinksKeep, LinksListed, UsersListed,
         UNCHANGED <<cache, boot>>, NEW r \in Request, NEW q, Sound(q) \/ SoundThen(q), Set(r, q)
  PROVE  IInv'
BY KeepLasts, StayListed, StayRegistered, Turned

LEMMA WrittenAnd ==
  ASSUME IInv, TypeOK', TenantsKeep, UsersKeep, InvsKeep, LinksKeep, LinksListed, UsersListed,
         UNCHANGED <<cache, boot, req>>
  PROVE  IInv'
BY KeepLasts, StayListed, StayRegistered, RestStays DEF IInv

-----------------------------------------------------------------------------
(***************************************************************************)
(* The statements that write the tables.                                   *)
(***************************************************************************)
LEMMA IsWelcome ==
  ASSUME NEW t \in Tid, NEW e \in Email, tenants'[t] # NULL,
         t \in Rows(tenants') /\ tenants'[t].mode = "invite" => Entitled(t, e)'
  PROVE  <<t, e>> \in Welcomed'
<1>1. Welcome(t, e)'
  BY DEF Welcome
<1> QED BY <1>1 DEF Welcomed, Welcome, Entitled

LEMMA RowIsSome ==
  ASSUME NEW x, x \in TenantRow \/ x \in UserRow \/ x \in LinkRow \/ x \in InvRow \/ x \in PendingRow
                \/ x \in SessionRow
  PROVE  x \notin {NULL, GONE} /\ x # NULL /\ x # GONE
BY NobodyAssumption DEF Nobody

LEMMA SendLinkKeeps ==
  ASSUME IInv, NEW r \in Request, SendLink(r)
  PROVE  IInv'
<1> DEFINE q == req[r]
           t == q.space.id
<1>1. /\ q.op \in {"login", "apex"} /\ q.pc = "send" /\ End(r) /\ Set(r, Quiet)
      /\ UNCHANGED <<tenants, users, invs, pendings, sessions, cache, boot, edited>>
  BY DEF SendLink, End, ghosts
<1>2. /\ Sound(q) /\ q \in ReqRow /\ q.email \in Email
      /\ q.space \in KnownSpaces /\ t \in Tid
  BY <1>1, Standing DEF Sound, Fit, Does, Placed, Served
<1>3. CASE UNCHANGED links
  BY <1>1, <1>3, Ends DEF Stored
<1>4. ASSUME t \in Rows(tenants), NEW l \in Free(links), NEW x,
             x = [tenant |-> t, email |-> q.email, used |-> FALSE, expired |-> FALSE, stray |-> Strayed(r)],
             links' = [links EXCEPT ![l] = x]
      PROVE  IInv'
  <2>1. x \in LinkRow /\ x.tenant = t /\ x.email = q.email /\ x.stray = Strayed(r)
    BY <1>2, <1>4 DEF LinkRow, Strayed
  <2>2. l \in Lid /\ links[l] = NULL /\ l \notin Rows(links) /\ links \in [Lid -> LinkRow \union Nobody]
    BY DEF IInv, TypeOK, Free, Rows
  <2>3. /\ links'[l] = x /\ \A k \in Lid : k # l => links'[k] = links[k]
        /\ Rows(links') = Rows(links) \union {l}
    BY <1>4, <2>1, <2>2, RowIsSome DEF Rows
  <2>4. links' \in [Lid -> LinkRow \union Nobody]
    BY <1>4, <2>1, <2>2
  <2>5. \A k \in Rows(links) : k \in Lid /\ k # l
    BY <2>2 DEF Rows
  <2>6. TypeOK'
    BY <1>1, <1>4, <2>1, <2>3, <2>4, <2>5 DEF IInv, TypeOK, Integrity
  <2>7. TenantsKeep /\ UsersKeep /\ InvsKeep /\ UsersListed
    BY <1>1, Untouched
  <2>8. LinksKeep
    BY <2>3, <2>5 DEF LinksKeep
  <2>9. <<t, q.email>> \in Welcomed'
    <3>1. CASE Strayed(r)
      <4>1. l \in Rows(links') /\ links'[l].tenant = x.tenant /\ links'[l].email = x.email /\ links'[l].stray
        BY <2>1, <2>3, <3>1
      <4>2. Entitled(x.tenant, x.email)'
        BY <4>1 DEF Entitled
      <4>3. tenants'[x.tenant] # NULL /\ x.tenant \in Tid /\ x.email \in Email
        BY <1>1, <1>2, <1>4, <2>1 DEF Rows
      <4> QED BY <2>1, <4>2, <4>3, IsWelcome
    <3>2. CASE ~ Strayed(r)
      <4>1. <<t, q.email>> \in Welcomed
        BY <1>1, <1>2, <3>2 DEF Strayed, Sound, Truthful, Does
      <4> QED BY <4>1, <2>7, <2>8, KeepLasts DEF Lasting
    <3> QED BY <3>1, <3>2
  <2>10. LinksListed
    BY <2>1, <2>3, <2>5, <2>9 DEF LinksListed
  <2> QED BY <1>1, <2>6, <2>7, <2>8, <2>10, Written, QuietSound
<1> QED BY <1>1, <1>3, <1>4 DEF SendLink

LEMMA MarkLinkKeeps ==
  ASSUME IInv, NEW l \in Lid, NEW x, x \in LinkRow,
         links' = [links EXCEPT ![l] = x], l \in Rows(links),
         x.tenant = links[l].tenant, x.email = links[l].email, x.stray = links[l].stray,
         UNCHANGED <<tenants, users, invs, pendings, sessions, cache, boot, edited>>
  PROVE  /\ TypeOK'
         /\ TenantsKeep /\ UsersKeep /\ InvsKeep /\ UsersListed
         /\ LinksKeep /\ LinksListed
<1>1. links \in [Lid -> LinkRow \union Nobody]
  BY DEF IInv, TypeOK
<1>2. /\ links'[l] = x /\ \A k \in Lid : k # l => links'[k] = links[k]
      /\ Rows(links') = Rows(links)
  BY <1>1, RowIsSome DEF Rows
<1>3. links' \in [Lid -> LinkRow \union Nobody]
  BY <1>1
<1>4. \A k \in Rows(links) : k \in Lid
  BY <1>1 DEF Rows
<1>5. TypeOK'
  BY <1>2, <1>3, <1>4 DEF IInv, TypeOK, Integrity
<1>6. TenantsKeep /\ UsersKeep /\ InvsKeep /\ UsersListed
  BY Untouched
<1>7. LinksKeep /\ LinksListed
  BY <1>2, <1>4 DEF LinksKeep, LinksListed
<1> QED BY <1>5, <1>6, <1>7

LEMMA LinkExpiresKeeps ==
  ASSUME IInv, NEW l \in Lid, LinkExpires(l)
  PROVE  IInv'
<1>1. PICK x : x = [links[l] EXCEPT !.expired = TRUE]
  OBVIOUS
<1>2. l \in Rows(links) /\ links[l] \in LinkRow
  BY RowsAre DEF LinkExpires, IInv
<1>3. x \in LinkRow
  BY <1>1, <1>2 DEF LinkRow
<1>4. x.tenant = links[l].tenant /\ x.email = links[l].email /\ x.stray = links[l].stray
  BY <1>1, <1>2, <1>3 DEF LinkRow
<1>5. /\ links' = [links EXCEPT ![l] = x]
      /\ UNCHANGED <<tenants, users, invs, pendings, sessions, cache, boot, edited, req>>
  BY <1>1 DEF LinkExpires, ghosts
<1> QED BY <1>2, <1>3, <1>4, <1>5, MarkLinkKeeps, WrittenAnd

LEMMA UseLinkKeeps ==
  ASSUME IInv, NEW r \in Request, UseLink(r)
  PROVE  IInv'
<1> DEFINE q == req[r]
           l == q.ref
<1>1. /\ q.op = "callback" /\ q.pc = "use" /\ Sound(q) /\ q \in ReqRow
      /\ UNCHANGED <<tenants, users, invs, pendings, sessions, cache, boot, edited>>
  BY Standing DEF UseLink, At, ghosts
<1>2. ASSUME NEW m, Moves(m, q, "enter") PROVE Sound(m)
  BY <1>1, <1>2 DEF Moves, Sound, Fit, Truthful, Placed, Admitted, Does, Served, ByMember
<1>3. CASE UNCHANGED links
  BY <1>1, <1>2, <1>3, GoesOn DEF UseLink, Stored, PC
<1>4. CASE l \in Rows(links) /\ links' = [links EXCEPT ![l].used = TRUE]
  <2>1. PICK x : x = [links[l] EXCEPT !.used = TRUE]
    OBVIOUS
  <2>2. links[l] \in LinkRow /\ l \in Lid
    BY <1>4, RowsAre DEF IInv
  <2>3. x \in LinkRow
    BY <2>1, <2>2 DEF LinkRow
  <2>4. x.tenant = links[l].tenant /\ x.email = links[l].email /\ x.stray = links[l].stray
    BY <2>1, <2>2, <2>3 DEF LinkRow
  <2>5. links' = [links EXCEPT ![l] = x]
    BY <1>4, <2>1
  <2>6. PICK m : m = [q EXCEPT !.pc = "enter"]
    OBVIOUS
  <2>7. m \in ReqRow
    BY <1>1, <2>6 DEF ReqRow, PC
  <2>8. Moves(m, q, "enter")
    BY <1>1, <2>6, <2>7 DEF ReqRow, Moves
  <2>9. Sound(m) /\ Set(r, m)
    BY <1>2, <2>6, <2>8 DEF UseLink, Goto
  <2> QED BY <1>1, <1>4, <2>2, <2>3, <2>4, <2>5, <2>9, MarkLinkKeeps, Written
<1> QED BY <1>3, <1>4 DEF UseLink

\* A user row is changed, or added.
LEMMA UserPut ==
  ASSUME IInv, NEW u \in Uid, NEW x \in UserRow, users' = [users EXCEPT ![u] = x],
         \/ u \in Rows(users) /\ x.tenant = users[u].tenant
         \/ users[u] = NULL
  PROVE  /\ users' \in [Uid -> UserRow \union Nobody]
         /\ users'[u] = x /\ \A k \in Uid : k # u => users'[k] = users[k]
         /\ Rows(users') = Rows(users) \union {u}
         /\ \A k \in Rows(users) : k \in Uid /\ users'[k].tenant = users[k].tenant
         /\ UsersKeep
<1>1. users \in [Uid -> UserRow \union Nobody]
  BY DEF IInv, TypeOK
<1>2. users' \in [Uid -> UserRow \union Nobody]
  BY <1>1
<1>3. /\ users'[u] = x /\ \A k \in Uid : k # u => users'[k] = users[k]
      /\ Rows(users') = Rows(users) \union {u}
  BY <1>1, RowIsSome DEF Rows
<1>4. \A k \in Rows(users) : k \in Uid /\ users[k] # NULL
  BY <1>1 DEF Rows
<1>5. \A k \in Rows(users) : users'[k].tenant = users[k].tenant
  BY <1>3, <1>4
<1>6. UsersKeep
  <2> SUFFICES ASSUME NEW k \in Uid, users[k] # NULL
               PROVE  /\ users'[k] # NULL
                      /\ k \in Rows(users') => k \in Rows(users) /\ users'[k].tenant = users[k].tenant
    BY DEF UsersKeep
  <2>1. CASE k = u
    BY <2>1, <1>3, RowIsSome
  <2>2. CASE k # u
    BY <2>2, <1>3
  <2> QED BY <2>1, <2>2
<1> QED BY <1>2, <1>3, <1>4, <1>5, <1>6

LEMMA UserPutListed ==
  ASSUME IInv, NEW u \in Uid, NEW x \in UserRow, Lasting, TenantsKeep,
         \A k \in Uid : k # u => users'[k] = users[k],
         users'[u] = x, Rows(users') = Rows(users) \union {u},
         \/ u \in Rows(users) /\ x.tenant = users[u].tenant /\ x.email = users[u].email
         \/ <<x.tenant, x.email>> \in Welcomed',
         x.admin => x.tenant \in edited' \/ x.email \in tenants'[x.tenant].admins
  PROVE  UsersListed
<1>1. \A k \in Rows(users) : k \in Uid
  BY RowsAre DEF IInv
<1> SUFFICES ASSUME NEW k \in Rows(users')
             PROVE  LET t == users'[k].tenant
                        old == k \in Rows(users) /\ t = users[k].tenant /\ users'[k].email = users[k].email
                    IN  /\ old \/ <<t, users'[k].email>> \in Welcomed'
                        /\ users'[k].admin =>
                             \/ old /\ users[k].admin
                             \/ t \in edited' \/ users'[k].email \in tenants'[t].admins
  BY DEF UsersListed
<1>2. CASE k = u
  BY <1>2
<1>3. CASE k # u
  BY <1>1, <1>3
<1> QED BY <1>2, <1>3

LEMMA EnterKeeps ==
  ASSUME IInv, NEW r \in Request, Enter(r)
  PROVE  IInv'
<1> DEFINE q == req[r]
           t == q.space.id
           admin == q.email \in q.space.row.admins
<1>1. /\ q.op = "callback" /\ q.pc = "enter" /\ Sound(q) /\ q \in ReqRow
      /\ UNCHANGED <<tenants, links, invs, pendings, sessions, cache, boot, edited>>
  BY Standing DEF Enter, At, ghosts
<1>2. /\ q.space \in KnownSpaces /\ q.space \in Space /\ t \in Tid /\ <<t, q.email>> \in Welcomed
      /\ Known(q.space) /\ q.space.row \in TenantRow
  BY <1>1, Standing DEF Sound, Fit, Truthful, Does, Placed, Served, KnownSpaces
<1>3. CASE End(r) /\ UNCHANGED users
  BY <1>1, <1>3, Ends DEF Stored
<1>4. ASSUME t \in Rows(tenants), NEW u \in Uid, NEW x, x \in UserRow,
             users' = [users EXCEPT ![u] = x], x.tenant = t, x.email = q.email, x.admin = admin,
             \/ u \in Rows(users) /\ users[u].tenant = t /\ users[u].email = q.email
             \/ users[u] = NULL,
             Set(r, [q EXCEPT !.pc = "session", !.who = [id |-> u, admin |-> admin]])
      PROVE  IInv'
  <2>1. /\ users' \in [Uid -> UserRow \union Nobody]
        /\ users'[u] = x /\ \A k \in Uid : k # u => users'[k] = users[k]
        /\ Rows(users') = Rows(users) \union {u}
        /\ \A k \in Rows(users) : k \in Uid /\ users'[k].tenant = users[k].tenant
        /\ UsersKeep
    BY <1>4, UserPut
  <2>2. TenantsKeep /\ InvsKeep /\ LinksKeep /\ LinksListed
    BY <1>1, Untouched
  <2>3. Lasting
    BY <2>1, <2>2, KeepLasts
  <2>4. x.admin => x.tenant \in edited' \/ x.email \in tenants'[x.tenant].admins
    BY <1>1, <1>2, <1>4 DEF Known
  <2>5. <<x.tenant, x.email>> \in Welcomed'
    BY <1>2, <1>4, <2>3 DEF Lasting
  <2>6. UsersListed
    BY <1>4, <2>1, <2>2, <2>3, <2>4, <2>5, UserPutListed
  <2>7. TypeOK'
    <3>1. \A k \in Rows(users') : users'[k].tenant \in Rows(tenants')
      <4> SUFFICES ASSUME NEW k \in Rows(users') PROVE users'[k].tenant \in Rows(tenants')
        OBVIOUS
      <4>1. CASE k = u
        BY <1>1, <1>4, <2>1, <4>1
      <4>2. CASE k \in Rows(users)
        BY <1>1, <2>1, <4>2 DEF IInv, TypeOK, Integrity
      <4> QED BY <2>1, <4>1, <4>2
    <3>2. \A s \in Rows(sessions) : /\ sessions[s].user \in Rows(users')
                                   /\ users'[sessions[s].user].tenant = sessions[s].tenant
      BY <2>1 DEF IInv, TypeOK, Integrity
    <3>3. Integrity'
      BY <1>1, <3>1, <3>2 DEF IInv, TypeOK, Integrity
    <3> QED BY <1>1, <2>1, <3>3 DEF IInv, TypeOK
  <2>8. PICK w : w = [id |-> u, admin |-> admin]
    OBVIOUS
  <2>9. w \in Who /\ w.id = u
    BY <2>8 DEF Who
  <2>10. PICK m : m = [q EXCEPT !.pc = "session", !.who = w]
    OBVIOUS
  <2>11. m \in ReqRow
    BY <1>1, <2>9, <2>10 DEF ReqRow, PC
  <2>12. /\ m.op = q.op /\ m.pc = "session" /\ m.slug = q.slug /\ m.who = w
         /\ m.email = q.email /\ m.ref = q.ref /\ m.saw = q.saw /\ m.space = q.space
    BY <1>1, <2>10, <2>11 DEF ReqRow
  <2>13. /\ <<u, t>> \in Belonging' /\ q.space \in KnownSpaces' /\ <<t, q.email>> \in Welcomed'
    <3>1. users'[u] # NULL /\ users'[u].tenant = t
      BY <1>4, <2>1, RowIsSome
    <3> QED BY <1>2, <2>3, <3>1 DEF Belonging, Belongs, Lasting
  <2>14. Fit(m)
    BY <1>1, <2>9, <2>11, <2>12 DEF Sound, Fit, Does, Served, ByMember
  <2>15. Truthful(m, KnownSpaces', Welcomed', Belonging', Inviting')
    BY <1>1, <2>9, <2>12, <2>13, Standing DEF Truthful, Does, Placed, Admitted, Served, ByMember
  <2> QED BY <1>1, <1>4, <2>1, <2>2, <2>6, <2>7, <2>8, <2>10, <2>14, <2>15, Written DEF SoundThen
<1>5. ASSUME NEW u \in Accounts(t, q.email), users' = [users EXCEPT ![u].admin = admin],
             Set(r, [q EXCEPT !.pc = "session", !.who = [id |-> u, admin |-> admin]])
      PROVE  IInv'
  <2>1. /\ u \in Rows(users) /\ u \in Uid /\ users[u] \in UserRow
        /\ users[u].tenant = t /\ users[u].email = q.email /\ t \in Rows(tenants)
    BY RowsAre DEF Accounts, UsersOf, IInv, TypeOK, Integrity
  <2>2. PICK x : x = [users[u] EXCEPT !.admin = admin]
    OBVIOUS
  <2>3. x \in UserRow
    <3>1. admin \in BOOLEAN
      OBVIOUS
    <3>2. PICK a \in BOOLEAN : a = admin
      BY <3>1
    <3>3. x = [users[u] EXCEPT !.admin = a]
      BY <2>2, <3>2
    <3> HIDE DEF admin
    <3> QED BY <2>1, <3>3 DEF UserRow
  <2>4. x.tenant = t /\ x.email = q.email /\ x.admin = admin
    BY <2>1, <2>2, <2>3 DEF UserRow
  <2> QED BY <1>4, <1>5, <2>1, <2>2, <2>3, <2>4
<1>6. ASSUME t \in Rows(tenants), NEW u \in Free(users),
             users' = [users EXCEPT ![u] = [tenant |-> t, email |-> q.email, admin |-> admin]],
             Set(r, [q EXCEPT !.pc = "session", !.who = [id |-> u, admin |-> admin]])
      PROVE  IInv'
  <2>1. u \in Uid /\ users[u] = NULL
    BY DEF Free, IInv, TypeOK
  <2>2. PICK x : x = [tenant |-> t, email |-> q.email, admin |-> admin]
    OBVIOUS
  <2>3. q.email \in Email /\ admin \in BOOLEAN
    BY <1>2 DEF Welcomed
  <2>4. x \in UserRow
    <3>1. PICK a \in BOOLEAN : a = admin
      BY <2>3
    <3>2. x = [tenant |-> t, email |-> q.email, admin |-> a]
      BY <2>2, <3>1
    <3> HIDE DEF admin
    <3> QED BY <1>2, <2>3, <3>2 DEF UserRow
  <2>5. x.tenant = t /\ x.email = q.email /\ x.admin = admin
    BY <2>2
  <2> QED BY <1>4, <1>6, <2>1, <2>2, <2>4, <2>5
<1> QED BY <1>3, <1>5, <1>6 DEF Enter

\* A session is opened for a user who is there.
LEMMA SessionPut ==
  ASSUME IInv, NEW s \in Free(sessions), NEW y \in SessionRow, sessions' = [sessions EXCEPT ![s] = y]
  PROVE  /\ sessions' \in [Sid -> SessionRow \union Nobody]
         /\ s \in Sid /\ sessions'[s] = y /\ \A k \in Rows(sessions) : k # s /\ sessions'[k] = sessions[k]
         /\ Rows(sessions') = Rows(sessions) \union {s}
<1>1. sessions \in [Sid -> SessionRow \union Nobody]
  BY DEF IInv, TypeOK
<1>2. s \in Sid /\ s \notin Rows(sessions)
  BY <1>1 DEF Free, Rows
<1>3. sessions' \in [Sid -> SessionRow \union Nobody]
  BY <1>1
<1>4. sessions'[s] = y /\ \A k \in Sid : k # s => sessions'[k] = sessions[k]
  BY <1>1, <1>2
<1>5. Rows(sessions') = Rows(sessions) \union {s}
  BY <1>1, <1>2, <1>3, <1>4, RowIsSome DEF Rows
<1>6. \A k \in Rows(sessions) : k \in Sid
  BY <1>1 DEF Rows
<1> QED BY <1>2, <1>3, <1>4, <1>5, <1>6

LEMMA OpenSessionKeeps ==
  ASSUME IInv, NEW r \in Request, OpenSession(r)
  PROVE  IInv'
<1> DEFINE q == req[r]
           u == q.who.id
           t == q.space.id
<1>1. /\ q.op = "callback" /\ q.pc = "session" /\ Sound(q) /\ q \in ReqRow /\ End(r) /\ Set(r, Quiet)
      /\ UNCHANGED <<tenants, users, links, invs, pendings, cache, boot, edited>>
  BY Standing DEF OpenSession, At, ghosts, End
<1>2. u \in Uid /\ <<u, t>> \in Belonging /\ t \in Tid /\ q.ref \in Lid
  BY <1>1, Standing DEF Placed, Admitted, Served, Sound, Fit, Does
<1>3. CASE UNCHANGED sessions
  BY <1>1, <1>3, Ends DEF Stored
<1>4. ASSUME u \in Rows(users), NEW s \in Free(sessions),
             sessions' = [sessions EXCEPT ![s] = [tenant |-> t, user |-> u, link |-> q.ref]]
      PROVE  IInv'
  <2>1. PICK y : y = [tenant |-> t, user |-> u, link |-> q.ref]
    OBVIOUS
  <2>2. y \in SessionRow /\ y.user = u /\ y.tenant = t
    BY <1>2, <2>1 DEF SessionRow
  <2>3. users[u].tenant = t
    BY <1>2, <1>4 DEF Belonging, Belongs
  <2>4. /\ sessions' \in [Sid -> SessionRow \union Nobody]
        /\ s \in Sid /\ sessions'[s] = y /\ \A k \in Rows(sessions) : k # s /\ sessions'[k] = sessions[k]
        /\ Rows(sessions') = Rows(sessions) \union {s}
    BY <1>4, <2>1, <2>2, SessionPut
  <2>5. TypeOK'
    BY <1>1, <1>4, <2>2, <2>3, <2>4 DEF IInv, TypeOK, Integrity
  <2> QED BY <1>1, <2>5, Untouched, Written, QuietSound
<1> QED BY <1>3, <1>4 DEF OpenSession

LEMMA LogoutKeeps ==
  ASSUME IInv, NEW r \in Request, Logout(r)
  PROVE  IInv'
<1>1. /\ Set(r, Quiet) /\ sessions' = [sessions EXCEPT ![req[r].sid] = GONE]
      /\ UNCHANGED <<tenants, users, links, invs, pendings, cache, boot, edited>>
  BY DEF Logout, ghosts, End
<1>2. sessions' \in [Sid -> SessionRow \union Nobody]
  BY <1>1 DEF IInv, TypeOK, Nobody
<1>3. \A k \in Rows(sessions') : k \in Rows(sessions) /\ sessions'[k] = sessions[k]
  BY <1>1, <1>2 DEF IInv, TypeOK, Rows
<1>4. TypeOK'
  BY <1>1, <1>2, <1>3 DEF IInv, TypeOK, Integrity
<1> QED BY <1>1, <1>4, Untouched, Written, QuietSound

-----------------------------------------------------------------------------
\* Invitations change, the other tables do not.
LEMMA InvsChange ==
  ASSUME IInv, invs' \in [Iid -> InvRow \union Nobody], InvsKeep,
         \A i \in Rows(invs') : invs'[i].tenant \in Rows(tenants),
         UNCHANGED <<tenants, users, links, pendings, sessions, cache, boot, edited>>
  PROVE  /\ TypeOK'
         /\ TenantsKeep /\ UsersKeep /\ LinksKeep /\ LinksListed /\ UsersListed
BY Untouched DEF IInv, TypeOK, Integrity

LEMMA InvPut ==
  ASSUME IInv, NEW i \in Iid, NEW x \in InvRow, invs' = [invs EXCEPT ![i] = x],
         \/ i \in Rows(invs) /\ x.tenant = invs[i].tenant /\ x.email = invs[i].email
         \/ invs[i] = NULL /\ x.tenant \in Rows(tenants)
  PROVE  /\ invs' \in [Iid -> InvRow \union Nobody] /\ InvsKeep
         /\ \A k \in Rows(invs') : invs'[k].tenant \in Rows(tenants)
<1>1. invs \in [Iid -> InvRow \union Nobody]
  BY DEF IInv, TypeOK
<1>2. /\ invs'[i] = x /\ \A k \in Iid : k # i => invs'[k] = invs[k]
      /\ Rows(invs') = Rows(invs) \union {i}
  BY <1>1, RowIsSome DEF Rows
<1>3. \A k \in Rows(invs) : k \in Iid /\ invs[k] # NULL
  BY <1>1 DEF Rows
<1>4. InvsKeep
  BY <1>2, <1>3 DEF InvsKeep
<1>5. x.tenant \in Rows(tenants)
  BY DEF IInv, TypeOK, Integrity
<1>6. \A k \in Rows(invs') : invs'[k].tenant \in Rows(tenants)
  BY <1>2, <1>3, <1>5 DEF IInv, TypeOK, Integrity
<1> QED BY <1>1, <1>4, <1>6

LEMMA RefreshInviteKeeps ==
  ASSUME IInv, NEW r \in Request, RefreshInvite(r)
  PROVE  IInv'
<1> DEFINE q == req[r]
           i == q.ref
           by == q.who.id
<1>1. /\ q.op = "invite" /\ q.pc = "refresh" /\ Sound(q) /\ End(r) /\ Set(r, Quiet)
      /\ UNCHANGED <<tenants, users, links, pendings, sessions, cache, boot, edited>>
  BY Standing DEF RefreshInvite, At, ghosts, End
<1>2. i \in Iid /\ i \in Rows(invs) /\ by \in Uid /\ invs[i] \in InvRow
  BY <1>1, Standing, RowsAre
  DEF Sound, Truthful, Does, Admitted, ByMember, Inviting, IsInvited, IInv
<1>3. CASE UNCHANGED invs
  BY <1>1, <1>3, Ends DEF Stored
<1>4. CASE invs' = [invs EXCEPT ![i] = Refreshed(@, by)]
  <2>1. PICK x : x = Refreshed(invs[i], by)
    OBVIOUS
  <2>2. x \in InvRow
    <3>1. invs[i].token + 1 \in Nat
      BY <1>2 DEF InvRow
    <3>2. PICK y \in InvRow, b \in Uid, token \in Nat : y = invs[i] /\ b = by /\ token = invs[i].token + 1
      BY <1>2, <3>1
    <3>3. x = [y EXCEPT !.token = token, !.overdue = FALSE, !.inviter = b]
      BY <2>1, <3>2 DEF Refreshed
    <3> QED BY <3>3 DEF InvRow
  <2>3. x.tenant = invs[i].tenant /\ x.email = invs[i].email
    BY <1>2, <2>1, <2>2 DEF Refreshed, InvRow
  <2>4. invs' = [invs EXCEPT ![i] = x]
    BY <1>4, <2>1
  <2> QED BY <1>1, <1>2, <2>2, <2>3, <2>4, InvPut, InvsChange, Written, QuietSound
<1> QED BY <1>3, <1>4 DEF RefreshInvite

LEMMA InsertInviteKeeps ==
  ASSUME IInv, NEW r \in Request, InsertInvite(r)
  PROVE  IInv'
<1> DEFINE q == req[r]
           t == q.space.id
           by == q.who.id
<1>1. /\ q.op = "invite" /\ q.pc = "insert" /\ Sound(q) /\ End(r) /\ Set(r, Quiet)
      /\ UNCHANGED <<tenants, users, links, pendings, sessions, cache, boot, edited>>
  BY Standing DEF InsertInvite, At, ghosts, End
<1>2. by \in Uid /\ q.email \in Email /\ t \in Tid
  BY <1>1, Standing DEF Sound, Fit, Does, Admitted, ByMember, Placed, Served
<1>3. CASE UNCHANGED invs
  BY <1>1, <1>3, Ends DEF Stored
<1>4. ASSUME t \in Rows(tenants), NEW i \in Free(invs),
             invs' = [invs EXCEPT ![i] =
               [tenant |-> t, email |-> q.email, inviter |-> by, token |-> 0,
                status |-> "pending", overdue |-> FALSE]]
      PROVE  IInv'
  <2>1. PICK x : x = [tenant |-> t, email |-> q.email, inviter |-> by, token |-> 0,
                      status |-> "pending", overdue |-> FALSE]
    OBVIOUS
  <2>2. x \in InvRow /\ x.tenant = t
    BY <1>2, <2>1 DEF InvRow
  <2>3. i \in Iid /\ invs[i] = NULL
    BY DEF Free, IInv, TypeOK
  <2>4. invs' = [invs EXCEPT ![i] = x]
    BY <1>4, <2>1
  <2> QED BY <1>1, <1>4, <2>2, <2>3, <2>4, InvPut, InvsChange, Written, QuietSound
<1> QED BY <1>1, <1>3, <1>4 DEF InsertInvite

\* The status of an invitation changes.
LEMMA InvMarked ==
  ASSUME IInv, NEW i \in Rows(invs), NEW status \in {"accepted", "revoked", "expired"},
         invs' = [invs EXCEPT ![i].status = status]
  PROVE  /\ invs' \in [Iid -> InvRow \union Nobody] /\ InvsKeep
         /\ \A k \in Rows(invs') : invs'[k].tenant \in Rows(tenants)
<1>1. i \in Iid /\ invs[i] \in InvRow
  BY RowsAre DEF IInv
<1>2. PICK x : x = [invs[i] EXCEPT !.status = status]
  OBVIOUS
<1>3. x \in InvRow
  BY <1>1, <1>2 DEF InvRow
<1>4. x.tenant = invs[i].tenant /\ x.email = invs[i].email
  BY <1>1, <1>2, <1>3 DEF InvRow
<1> QED BY <1>1, <1>2, <1>3, <1>4, InvPut

LEMMA RevokeKeeps ==
  ASSUME IInv, NEW r \in Request, Revoke(r)
  PROVE  IInv'
<1> DEFINE i == req[r].ref
<1>1. /\ End(r) /\ Set(r, Quiet)
      /\ UNCHANGED <<tenants, users, links, pendings, sessions, cache, boot, edited>>
  BY DEF Revoke, ghosts, End
<1>2. CASE UNCHANGED invs
  BY <1>1, <1>2, Ends DEF Stored
<1>3. CASE i \in Rows(invs) /\ invs' = [invs EXCEPT ![i].status = "revoked"]
  BY <1>1, <1>3, InvMarked, InvsChange, Written, QuietSound
<1> QED BY <1>2, <1>3 DEF Revoke, PendingInvs

LEMMA ExpireInviteKeeps ==
  ASSUME IInv, NEW r \in Request, ExpireInvite(r)
  PROVE  IInv'
<1> DEFINE i == req[r].ref
<1>1. /\ End(r) /\ Set(r, Quiet) /\ invs' = [invs EXCEPT ![i].status = "expired"]
      /\ UNCHANGED <<tenants, users, links, pendings, sessions, cache, boot, edited>>
  BY DEF ExpireInvite, ghosts, End
<1>2. i \in Rows(invs)
  BY Standing DEF ExpireInvite, At, Sound, Truthful, Does, Inviting, IsInvited
<1> QED BY <1>1, <1>2, InvMarked, InvsChange, Written, QuietSound

LEMMA InviteOverdueKeeps ==
  ASSUME IInv, NEW i \in Iid, InviteOverdue(i)
  PROVE  IInv'
<1>1. i \in Rows(invs) /\ invs[i] \in InvRow
  BY RowsAre DEF InviteOverdue, IInv
<1>2. PICK x : x = [invs[i] EXCEPT !.overdue = TRUE]
  OBVIOUS
<1>3. x \in InvRow
  BY <1>1, <1>2 DEF InvRow
<1>4. x.tenant = invs[i].tenant /\ x.email = invs[i].email
  BY <1>1, <1>2, <1>3 DEF InvRow
<1>5. /\ invs' = [invs EXCEPT ![i] = x]
      /\ UNCHANGED <<tenants, users, links, pendings, sessions, cache, boot, edited, req>>
  BY <1>2 DEF InviteOverdue, ghosts
<1> QED BY <1>1, <1>3, <1>4, <1>5, InvPut, InvsChange, WrittenAnd

\* Many invitations change at once, none in its key columns.
LEMMA InvsMarked ==
  ASSUME IInv, NEW new, invs' = [i \in Iid |-> new[i]],
         \A i \in Iid :
           \/ new[i] = invs[i]
           \/ i \in Rows(invs) /\ new[i] \in InvRow /\ new[i].tenant = invs[i].tenant
              /\ new[i].email = invs[i].email
  PROVE  /\ invs' \in [Iid -> InvRow \union Nobody] /\ InvsKeep
         /\ \A k \in Rows(invs') : invs'[k].tenant \in Rows(tenants)
<1>1. invs \in [Iid -> InvRow \union Nobody]
  BY DEF IInv, TypeOK
<1>2. \A i \in Iid : invs'[i] = new[i]
  OBVIOUS
<1>3. invs' \in [Iid -> InvRow \union Nobody]
  BY <1>1
<1>4. \A i \in Iid : /\ i \in Rows(invs) <=> i \in Rows(invs')
                     /\ i \in Rows(invs) => /\ invs'[i].tenant = invs[i].tenant
                                            /\ invs'[i].email = invs[i].email
  BY <1>1, <1>2, <1>3, RowIsSome DEF Rows
<1>5. Rows(invs) \subseteq Iid /\ Rows(invs') \subseteq Iid
  BY <1>1, <1>3 DEF Rows
<1>6. InvsKeep
  BY <1>4, <1>5 DEF InvsKeep
<1>7. \A k \in Rows(invs') : invs'[k].tenant \in Rows(tenants)
  BY <1>4, <1>5 DEF IInv, TypeOK, Integrity
<1> QED BY <1>3, <1>6, <1>7

LEMMA ExpireInvitesKeeps ==
  ASSUME IInv, ExpireInvites
  PROVE  IInv'
<1>1. PICK new : new = [i \in Iid |-> IF i \in Rows(invs) /\ invs[i].status = "pending" /\ invs[i].overdue
                                        THEN [invs[i] EXCEPT !.status = "expired"] ELSE invs[i]]
  OBVIOUS
<1>2. /\ invs' = [i \in Iid |-> new[i]]
      /\ UNCHANGED <<tenants, users, links, pendings, sessions, cache, boot, edited, req>>
  BY <1>1 DEF ExpireInvites, ghosts
<1>3. ASSUME NEW i \in Iid
      PROVE  \/ new[i] = invs[i]
             \/ i \in Rows(invs) /\ new[i] \in InvRow /\ new[i].tenant = invs[i].tenant
                /\ new[i].email = invs[i].email
  <2>1. CASE new[i] = invs[i]
    BY <2>1
  <2>2. CASE i \in Rows(invs) /\ new[i] = [invs[i] EXCEPT !.status = "expired"]
    <3>1. invs[i] \in InvRow
      BY <2>2, RowsAre DEF IInv
    <3>2. new[i] \in InvRow
      BY <2>2, <3>1 DEF InvRow
    <3>3. new[i].tenant = invs[i].tenant /\ new[i].email = invs[i].email
      BY <2>2, <3>1, <3>2 DEF InvRow
    <3> QED BY <2>2, <3>2, <3>3
  <2> QED BY <1>1, <2>1, <2>2
<1>4. /\ invs' \in [Iid -> InvRow \union Nobody] /\ InvsKeep
      /\ \A k \in Rows(invs') : invs'[k].tenant \in Rows(tenants)
  BY <1>2, <1>3, InvsMarked
<1> QED BY <1>2, <1>4, InvsChange, WrittenAnd

LEMMA JoinKeeps ==
  ASSUME IInv, NEW r \in Request, Join(r)
  PROVE  IInv'
<1> DEFINE q == req[r]
           t == q.space.id
           own == Accounts(t, q.email)
<1>1. /\ q.op = "accept" /\ q.pc = "join" /\ Sound(q) /\ Set(r, Quiet)
      /\ UNCHANGED <<tenants, links, pendings, cache, boot, edited>>
  BY Standing DEF Join, At, ghosts, End
<1>2. /\ t \in Tid /\ <<q.ref, t, q.email>> \in Inviting
  BY <1>1, Standing DEF Sound, Truthful, Does, Placed, Served
<1>3. /\ q.ref \in Rows(invs) /\ invs[q.ref].tenant = t /\ invs[q.ref].email = q.email
      /\ q.email \in Email /\ t \in Rows(tenants)
  BY <1>2 DEF Inviting, IsInvited, IInv, TypeOK, Integrity
<1>4. <<t, q.email>> \in Welcomed
  <2>1. Entitled(t, q.email) /\ tenants[t] # NULL
    BY <1>3 DEF Entitled, Rows
  <2> QED BY <1>2, <1>3, <2>1 DEF Welcomed, Welcome
<1>5. PICK u \in IF own = {} THEN Free(users) ELSE own, s \in Free(sessions) :
        /\ users' = IF u \in own THEN users
                    ELSE [users EXCEPT ![u] = [tenant |-> t, email |-> q.email, admin |-> FALSE]]
        /\ sessions' = [sessions EXCEPT ![s] = [tenant |-> t, user |-> u, link |-> NULL]]
        /\ invs' = [invs EXCEPT ![q.ref].status = "accepted"]
  BY DEF Join
<1>6. /\ invs' \in [Iid -> InvRow \union Nobody] /\ InvsKeep
      /\ \A k \in Rows(invs') : invs'[k].tenant \in Rows(tenants)
  BY <1>3, <1>5, InvMarked
<1>7. TenantsKeep /\ LinksKeep /\ LinksListed
  BY <1>1, Untouched
<1>8. /\ users' \in [Uid -> UserRow \union Nobody] /\ UsersKeep /\ UsersListed
      /\ u \in Uid /\ u \in Rows(users') /\ users'[u].tenant = t
      /\ \A k \in Rows(users) : k \in Rows(users') /\ users'[k].tenant = users[k].tenant
      /\ \A k \in Rows(users') : users'[k].tenant \in Rows(tenants)
  <2>1. CASE u \in own
    BY <1>5, <2>1, Untouched, RowsAre DEF IInv, TypeOK, Integrity, Accounts, UsersOf
  <2>2. CASE u \notin own
    <3>1. u \in Uid /\ users[u] = NULL
      BY <1>5, <2>2 DEF Free, IInv, TypeOK
    <3>2. PICK x : x = [tenant |-> t, email |-> q.email, admin |-> FALSE]
      OBVIOUS
    <3>3. x \in UserRow /\ x.tenant = t /\ x.email = q.email /\ x.admin = FALSE
      BY <1>2, <1>3, <3>2 DEF UserRow
    <3>4. users' = [users EXCEPT ![u] = x]
      BY <1>5, <2>2, <3>2
    <3>5. /\ users' \in [Uid -> UserRow \union Nobody]
          /\ users'[u] = x /\ \A k \in Uid : k # u => users'[k] = users[k]
          /\ Rows(users') = Rows(users) \union {u}
          /\ \A k \in Rows(users) : k \in Uid /\ users'[k].tenant = users[k].tenant
          /\ UsersKeep
      BY <3>1, <3>3, <3>4, UserPut
    <3>6. Lasting
      BY <1>6, <1>7, <3>5, KeepLasts
    <3>7. <<x.tenant, x.email>> \in Welcomed'
      BY <1>4, <3>3, <3>6 DEF Lasting
    <3>8. UsersListed
      BY <1>7, <3>1, <3>3, <3>5, <3>6, <3>7, UserPutListed
    <3>9. \A k \in Rows(users') : users'[k].tenant \in Rows(tenants)
      BY <1>3, <3>3, <3>5 DEF IInv, TypeOK, Integrity
    <3> QED BY <3>1, <3>3, <3>5, <3>8, <3>9
  <2> QED BY <2>1, <2>2
<1>9. PICK y : y = [tenant |-> t, user |-> u, link |-> NULL]
  OBVIOUS
<1>10. y \in SessionRow /\ y.user = u /\ y.tenant = t
  BY <1>2, <1>8, <1>9 DEF SessionRow
<1>11. /\ sessions' \in [Sid -> SessionRow \union Nobody]
       /\ s \in Sid /\ sessions'[s] = y /\ \A k \in Rows(sessions) : k # s /\ sessions'[k] = sessions[k]
       /\ Rows(sessions') = Rows(sessions) \union {s}
  BY <1>5, <1>9, <1>10, SessionPut
<1>12. \A k \in Rows(sessions') : /\ sessions'[k].user \in Rows(users')
                                  /\ users'[sessions'[k].user].tenant = sessions'[k].tenant
  BY <1>8, <1>10, <1>11 DEF IInv, TypeOK, Integrity
<1>13. Integrity'
  BY <1>1, <1>6, <1>8, <1>12 DEF IInv, TypeOK, Integrity
<1>14. TypeOK'
  BY <1>1, <1>6, <1>8, <1>11, <1>13 DEF IInv, TypeOK
<1> QED BY <1>1, <1>6, <1>7, <1>8, <1>14, Written, QuietSound

LEMMA RemoveMemberKeeps ==
  ASSUME IInv, NEW r \in Request, RemoveMember(r)
  PROVE  IInv'
<1> DEFINE u == req[r].ref
           t == req[r].space.id
<1>1. /\ End(r) /\ Set(r, Quiet)
      /\ UNCHANGED <<tenants, links, pendings, cache, boot, edited>>
  BY DEF RemoveMember, End
<1>2. CASE UNCHANGED <<users, sessions, invs>>
  BY <1>1, <1>2, Ends DEF Stored
<1>3. CASE /\ u \in UsersOf(t)
           /\ users' = [users EXCEPT ![u] = GONE]
           /\ sessions' = [s \in Sid |-> IF s \in Rows(sessions) /\ sessions[s].user = u
                                           THEN GONE ELSE sessions[s]]
           /\ invs' = [i \in Iid |-> IF i \in Rows(invs) /\ invs[i].inviter = u
                                       THEN [invs[i] EXCEPT !.inviter = NULL] ELSE invs[i]]
  <2>1. users \in [Uid -> UserRow \union Nobody] /\ sessions \in [Sid -> SessionRow \union Nobody]
    BY DEF IInv, TypeOK
  <2>2. /\ users' \in [Uid -> UserRow \union Nobody] /\ users'[u] = GONE
        /\ \A k \in Uid : k # u => users'[k] = users[k]
    BY <1>3, <2>1, RowsAre DEF UsersOf, IInv, Nobody
  <2>3. Rows(users') = Rows(users) \ {u}
    BY <2>1, <2>2 DEF Rows
  <2>4. \A k \in Rows(users) : k \in Uid
    BY <2>1 DEF Rows
  <2>5. UsersKeep
    <3> SUFFICES ASSUME NEW k \in Uid, users[k] # NULL
                 PROVE  /\ users'[k] # NULL
                        /\ k \in Rows(users') => k \in Rows(users) /\ users'[k].tenant = users[k].tenant
      BY DEF UsersKeep
    <3>1. CASE k = u
      BY <2>2, <2>3, <3>1, NobodyAssumption
    <3>2. CASE k # u
      BY <2>2, <2>3, <3>2
    <3> QED BY <3>1, <3>2
  <2>6. UsersListed
    BY <2>2, <2>3, <2>4 DEF UsersListed
  <2>7. /\ sessions' \in [Sid -> SessionRow \union Nobody]
        /\ \A k \in Rows(sessions') : /\ k \in Rows(sessions) /\ sessions'[k] = sessions[k]
                                      /\ sessions[k].user # u
    <3>1. sessions' \in [Sid -> SessionRow \union Nobody]
      BY <1>3, <2>1 DEF Nobody
    <3>2. \A k \in Sid : sessions'[k] = IF k \in Rows(sessions) /\ sessions[k].user = u
                                          THEN GONE ELSE sessions[k]
      BY <1>3
    <3>3. DOMAIN sessions = Sid /\ DOMAIN sessions' = Sid
      BY <2>1, <3>1
    <3> QED BY <3>1, <3>2, <3>3 DEF Rows
  <2>8. PICK new : new = [i \in Iid |-> IF i \in Rows(invs) /\ invs[i].inviter = u
                                          THEN [invs[i] EXCEPT !.inviter = NULL] ELSE invs[i]]
    OBVIOUS
  <2>9. ASSUME NEW i \in Iid
        PROVE  \/ new[i] = invs[i]
               \/ i \in Rows(invs) /\ new[i] \in InvRow /\ new[i].tenant = invs[i].tenant
                  /\ new[i].email = invs[i].email
    <3>1. CASE new[i] = invs[i]
      BY <3>1
    <3>2. CASE i \in Rows(invs) /\ new[i] = [invs[i] EXCEPT !.inviter = NULL]
      <4>1. invs[i] \in InvRow
        BY <3>2, RowsAre DEF IInv
      <4>2. new[i] \in InvRow
        BY <3>2, <4>1 DEF InvRow
      <4>3. new[i].tenant = invs[i].tenant /\ new[i].email = invs[i].email
        BY <3>2, <4>1, <4>2 DEF InvRow
      <4> QED BY <3>2, <4>2, <4>3
    <3> QED BY <2>8, <3>1, <3>2
  <2>10. /\ invs' \in [Iid -> InvRow \union Nobody] /\ InvsKeep
         /\ \A k \in Rows(invs') : invs'[k].tenant \in Rows(tenants)
    <3>1. invs' = [i \in Iid |-> new[i]]
      BY <1>3, <2>8
    <3> QED BY <2>9, <3>1, InvsMarked
  <2>11. Integrity'
    <3>1. \A k \in Rows(users') : users'[k].tenant \in Rows(tenants)
      BY <2>2, <2>3, <2>4 DEF IInv, TypeOK, Integrity
    <3>2. \A k \in Rows(sessions') : /\ sessions'[k].user \in Rows(users')
                                     /\ users'[sessions'[k].user].tenant = sessions'[k].tenant
      BY <2>2, <2>3, <2>4, <2>7 DEF IInv, TypeOK, Integrity
    <3> QED BY <1>1, <2>10, <3>1, <3>2 DEF IInv, TypeOK, Integrity
  <2>12. TypeOK'
    BY <1>1, <2>2, <2>7, <2>10, <2>11 DEF IInv, TypeOK
  <2> QED BY <1>1, <2>5, <2>6, <2>10, <2>12, Untouched, Written, QuietSound
<1> QED BY <1>2, <1>3 DEF RemoveMember

-----------------------------------------------------------------------------
LEMMA PendingsChange ==
  ASSUME IInv, pendings' \in [Pid -> PendingRow \union Nobody],
         UNCHANGED <<tenants, users, links, invs, sessions, cache, boot, edited>>
  PROVE  /\ TypeOK'
         /\ TenantsKeep /\ UsersKeep /\ InvsKeep /\ LinksKeep /\ LinksListed /\ UsersListed
BY Untouched DEF IInv, TypeOK, Integrity

LEMMA InsertPendingKeeps ==
  ASSUME IInv, NEW r \in Request, InsertPending(r)
  PROVE  IInv'
<1> DEFINE q == req[r]
<1>1. /\ q.op = "signup" /\ q.pc = "insert" /\ Sound(q) /\ End(r) /\ Set(r, Quiet)
      /\ UNCHANGED <<tenants, users, links, invs, sessions, cache, boot, edited>>
  BY Standing DEF InsertPending, At, ghosts, End
<1>2. q.slug \in Slug /\ q.email \in Email /\ q.saw \in Mode
  BY <1>1 DEF Sound, Fit, Does
<1>3. pendings \in [Pid -> PendingRow \union Nobody]
  BY DEF IInv, TypeOK
<1>4. CASE UNCHANGED pendings
  BY <1>1, <1>4, Ends DEF Stored
<1>5. ASSUME NEW p \in Free(pendings),
             pendings' = [pendings EXCEPT ![p] =
               [slug |-> q.slug, email |-> q.email, mode |-> q.saw, used |-> FALSE, age |-> "live"]]
      PROVE  IInv'
  <2>1. PICK x : x = [slug |-> q.slug, email |-> q.email, mode |-> q.saw, used |-> FALSE, age |-> "live"]
    OBVIOUS
  <2>2. x \in PendingRow
    BY <1>2, <2>1 DEF PendingRow
  <2>3. pendings' \in [Pid -> PendingRow \union Nobody]
    BY <1>3, <1>5, <2>1, <2>2
  <2> QED BY <1>1, <2>3, PendingsChange, Written, QuietSound
<1> QED BY <1>1, <1>4, <1>5 DEF InsertPending

LEMMA AgesKeeps ==
  ASSUME IInv, NEW p \in Pid, Ages(p)
  PROVE  IInv'
<1>1. p \in Rows(pendings) /\ pendings[p] \in PendingRow /\ pendings \in [Pid -> PendingRow \union Nobody]
  BY RowsAre DEF Ages, IInv, TypeOK
<1>2. PICK age \in {"expired", "old"} : age = IF pendings[p].age = "live" THEN "expired" ELSE "old"
  OBVIOUS
<1>3. PICK x : x = [pendings[p] EXCEPT !.age = age]
  OBVIOUS
<1>4. x \in PendingRow
  BY <1>1, <1>3 DEF PendingRow
<1>5. /\ pendings' = [pendings EXCEPT ![p] = x]
      /\ UNCHANGED <<tenants, users, links, invs, sessions, cache, boot, edited, req>>
  BY <1>2, <1>3 DEF Ages, ghosts
<1>6. pendings' \in [Pid -> PendingRow \union Nobody]
  BY <1>1, <1>4, <1>5
<1> QED BY <1>5, <1>6, PendingsChange, WrittenAnd

LEMMA PurgeKeeps ==
  ASSUME IInv, Purge
  PROVE  IInv'
<1>1. UNCHANGED <<tenants, users, links, invs, sessions, cache, boot, edited, req>>
  BY DEF Purge, ghosts
<1>2. pendings' \in [Pid -> PendingRow \union Nobody]
  BY DEF Purge, IInv, TypeOK, Nobody
<1> QED BY <1>1, <1>2, PendingsChange, WrittenAnd

\* A space is added.
LEMMA TenantPut ==
  ASSUME IInv, NEW t \in Free(tenants), NEW x \in TenantRow, tenants' = [tenants EXCEPT ![t] = x],
         edited' = edited
  PROVE  /\ tenants' \in [Tid -> TenantRow \union Nobody]
         /\ t \in Tid /\ tenants[t] = NULL /\ tenants'[t] = x
         /\ \A k \in Tid : k # t => tenants'[k] = tenants[k]
         /\ Rows(tenants') = Rows(tenants) \union {t}
         /\ TenantsKeep
<1>1. tenants \in [Tid -> TenantRow \union Nobody] /\ t \in Tid /\ tenants[t] = NULL
  BY DEF IInv, TypeOK, Free
<1>2. tenants' \in [Tid -> TenantRow \union Nobody]
  BY <1>1
<1>3. tenants'[t] = x /\ \A k \in Tid : k # t => tenants'[k] = tenants[k]
  BY <1>1
<1>4. Rows(tenants') = Rows(tenants) \union {t}
  BY <1>1, <1>2, <1>3, RowIsSome DEF Rows
<1>5. TenantsKeep
  BY <1>1, <1>3, <1>4 DEF TenantsKeep
<1> QED BY <1>1, <1>2, <1>3, <1>4, <1>5

LEMMA CreateSpaceKeeps ==
  ASSUME IInv, NEW r \in Request, CreateSpace(r)
  PROVE  IInv'
<1> DEFINE q == req[r]
           new == q.saw
           domain == IF new.mode = "invite" THEN {} ELSE DomainOf[new.email]
<1>1. /\ q.op = "verify" /\ q.pc = "create" /\ Sound(q) /\ End(r) /\ Set(r, Quiet)
      /\ UNCHANGED <<links, invs, cache, boot, edited>>
  BY Standing DEF CreateSpace, At, ghosts, End
<1>2. /\ new.slug \in Slug /\ new.mode \in Mode /\ new.email \in Email
  BY <1>1 DEF Sound, Fit, Does, PendingRow
<1>3. CASE UNCHANGED <<tenants, users, sessions, pendings>>
  BY <1>1, <1>3, Ends DEF Stored
<1>4. ASSUME NEW t \in Free(tenants), NEW u \in Free(users), NEW s \in Free(sessions),
             tenants' = [tenants EXCEPT ![t] =
                           NewTenant(new.slug, new.mode, {new.email}, domain, new.email)],
             users' = [users EXCEPT ![u] = [tenant |-> t, email |-> new.email, admin |-> TRUE]],
             sessions' = [sessions EXCEPT ![s] = [tenant |-> t, user |-> u, link |-> NULL]],
             pendings' = IF q.ref \in Rows(pendings)
                           THEN [pendings EXCEPT ![q.ref].used = TRUE] ELSE pendings
      PROVE  IInv'
  <2>1. PICK x : x = NewTenant(new.slug, new.mode, {new.email}, domain, new.email)
    OBVIOUS
  <2>2. x \in TenantRow /\ x.founder = new.email /\ x.admins = {new.email}
    <3>1. domain \in SUBSET Email
      BY <1>2, DomainAssumption
    <3> HIDE DEF domain
    <3>2. x \in TenantRow
      BY <1>2, <2>1, <3>1 DEF NewTenant, TenantRow
    <3> QED BY <2>1, <3>2 DEF NewTenant
  <2>3. /\ tenants' \in [Tid -> TenantRow \union Nobody]
        /\ t \in Tid /\ tenants[t] = NULL /\ tenants'[t] = x
        /\ \A k \in Tid : k # t => tenants'[k] = tenants[k]
        /\ Rows(tenants') = Rows(tenants) \union {t}
        /\ TenantsKeep
    BY <1>1, <1>4, <2>1, <2>2, TenantPut
  <2>4. u \in Uid /\ users[u] = NULL
    BY DEF Free, IInv, TypeOK
  <2>5. PICK y : y = [tenant |-> t, email |-> new.email, admin |-> TRUE]
    OBVIOUS
  <2>6. y \in UserRow /\ y.tenant = t /\ y.email = new.email
    BY <1>2, <2>3, <2>5 DEF UserRow
  <2>7. /\ users' \in [Uid -> UserRow \union Nobody]
        /\ users'[u] = y /\ \A k \in Uid : k # u => users'[k] = users[k]
        /\ Rows(users') = Rows(users) \union {u}
        /\ \A k \in Rows(users) : k \in Uid /\ users'[k].tenant = users[k].tenant
        /\ UsersKeep
    BY <1>4, <2>4, <2>5, <2>6, UserPut
  <2>8. InvsKeep /\ LinksListed
    BY <1>1, Untouched
  <2>9. LinksKeep
    BY <1>1 DEF LinksKeep
  <2>10. Lasting
    BY <2>3, <2>7, <2>8, <2>9, KeepLasts
  <2>11. <<y.tenant, y.email>> \in Welcomed'
    <3>1. Entitled(y.tenant, y.email)'
      BY <2>2, <2>3, <2>6 DEF Entitled
    <3>2. tenants'[y.tenant] # NULL
      BY <2>2, <2>3, <2>6, RowIsSome
    <3> QED BY <1>2, <2>3, <2>6, <3>1, <3>2, IsWelcome
  <2>12. y.email \in tenants'[y.tenant].admins
    BY <2>2, <2>3, <2>6
  <2>13. UsersListed
    BY <2>3, <2>4, <2>6, <2>7, <2>10, <2>11, <2>12, UserPutListed
  <2>14. PICK z : z = [tenant |-> t, user |-> u, link |-> NULL]
    OBVIOUS
  <2>15. z \in SessionRow /\ z.user = u /\ z.tenant = t
    BY <2>3, <2>4, <2>14 DEF SessionRow
  <2>16. /\ sessions' \in [Sid -> SessionRow \union Nobody]
         /\ s \in Sid /\ sessions'[s] = z /\ \A k \in Rows(sessions) : k # s /\ sessions'[k] = sessions[k]
         /\ Rows(sessions') = Rows(sessions) \union {s}
    BY <1>4, <2>14, <2>15, SessionPut
  <2>17. pendings' \in [Pid -> PendingRow \union Nobody]
    <3>1. pendings \in [Pid -> PendingRow \union Nobody]
      BY DEF IInv, TypeOK
    <3>2. CASE q.ref \in Rows(pendings)
      <4>1. q.ref \in Pid /\ pendings[q.ref] \in PendingRow
        BY <3>2, RowsAre DEF IInv
      <4>2. PICK p : p = [pendings[q.ref] EXCEPT !.used = TRUE]
        OBVIOUS
      <4>3. p \in PendingRow
        BY <4>1, <4>2 DEF PendingRow
      <4>4. pendings' = [pendings EXCEPT ![q.ref] = p]
        BY <1>4, <3>2, <4>2
      <4> QED BY <3>1, <4>3, <4>4
    <3> QED BY <1>4, <3>1, <3>2
  <2>18. Integrity'
    <3>1. \A k \in Rows(users') : users'[k].tenant \in Rows(tenants')
      BY <2>3, <2>6, <2>7 DEF IInv, TypeOK, Integrity
    <3>2. \A k \in Rows(sessions') : /\ sessions'[k].user \in Rows(users')
                                     /\ users'[sessions'[k].user].tenant = sessions'[k].tenant
      BY <2>6, <2>7, <2>15, <2>16 DEF IInv, TypeOK, Integrity
    <3>3. /\ \A i \in Rows(invs') : invs'[i].tenant \in Rows(tenants')
          /\ \A l \in Rows(links') : links'[l].tenant \in Rows(tenants')
      BY <1>1, <2>3 DEF IInv, TypeOK, Integrity
    <3> QED BY <3>1, <3>2, <3>3 DEF Integrity
  <2>19. TypeOK'
    BY <1>1, <2>3, <2>7, <2>16, <2>17, <2>18 DEF IInv, TypeOK
  <2> QED BY <1>1, <2>3, <2>7, <2>8, <2>9, <2>13, <2>19, Written, QuietSound
<1> QED BY <1>3, <1>4 DEF CreateSpace

-----------------------------------------------------------------------------
LEMMA GoesToInvalidate ==
  ASSUME IInv, NEW r \in Request, Goto(r, "invalidate"),
         req[r].op \in {"settings", "create", "update", "delete", "drop"}, req[r].pc # "idle",
         req[r].op = "settings" => Placed(req[r])
  PROVE  \E m : Set(r, m) /\ Sound(m)
<1> DEFINE q == req[r]
<1>1. Sound(q) /\ q \in ReqRow
  BY Standing
<1>2. PICK m : m = [q EXCEPT !.pc = "invalidate"]
  OBVIOUS
<1>3. m \in ReqRow
  BY <1>1, <1>2 DEF ReqRow, PC
<1>4. Moves(m, q, "invalidate")
  BY <1>1, <1>2, <1>3 DEF ReqRow, Moves
<1>5. Sound(m)
  BY <1>1, <1>4 DEF Moves, Sound, Fit, Truthful, Placed, Admitted, Does, Served, ByMember
<1> QED BY <1>2, <1>5 DEF Goto

\* Spaces change, and the spaces there were are still there.
LEMMA TenantsChange ==
  ASSUME IInv, tenants' \in [Tid -> TenantRow \union Nobody], Rows(tenants) \subseteq Rows(tenants'),
         UNCHANGED <<users, links, invs, pendings, sessions, cache, boot>>
  PROVE  /\ TypeOK'
         /\ UsersKeep /\ InvsKeep /\ LinksKeep /\ LinksListed /\ UsersListed
BY Untouched DEF IInv, TypeOK, Integrity

LEMMA CreateTenantKeeps ==
  ASSUME IInv, NEW r \in Request, CreateTenant(r)
  PROVE  IInv'
<1> DEFINE q == req[r]
<1>1. /\ q.op = "create" /\ q.pc = "write" /\ Sound(q)
      /\ UNCHANGED <<users, links, invs, pendings, sessions, cache, boot, edited>>
  BY Standing DEF CreateTenant, At
<1>2. CASE End(r) /\ UNCHANGED tenants
  BY <1>1, <1>2, Ends DEF Stored
<1>3. ASSUME NEW t \in Free(tenants),
             tenants' = [tenants EXCEPT ![t] = NewTenant(q.slug, "domain", q.saw.admins, q.saw.domain, NULL)],
             Goto(r, "invalidate")
      PROVE  IInv'
  <2>1. PICK x : x = NewTenant(q.slug, "domain", q.saw.admins, q.saw.domain, NULL)
    OBVIOUS
  <2>2. q.slug \in Slug /\ q.saw \in FormRow
    BY <1>1 DEF Sound, Fit, Does
  <2>3. x \in TenantRow
    BY <2>1, <2>2, ModeAssumption DEF NewTenant, TenantRow, FormRow
  <2>4. /\ tenants' \in [Tid -> TenantRow \union Nobody]
        /\ Rows(tenants') = Rows(tenants) \union {t}
        /\ TenantsKeep
    BY <1>1, <1>3, <2>1, <2>3, TenantPut
  <2>5. \E m : Set(r, m) /\ Sound(m)
    BY <1>1, <1>3, GoesToInvalidate
  <2> QED BY <1>1, <2>4, <2>5, TenantsChange, Written
<1> QED BY <1>2, <1>3 DEF CreateTenant

\* A row that is there changes, but for its key columns.
LEMMA TenantMarked ==
  ASSUME IInv, NEW t \in Rows(tenants), NEW x \in TenantRow, tenants' = [tenants EXCEPT ![t] = x],
         x.slug = tenants[t].slug, x.mode = tenants[t].mode, x.founder = tenants[t].founder,
         x.admins = tenants[t].admins \/ t \in edited', edited \subseteq edited'
  PROVE  /\ tenants' \in [Tid -> TenantRow \union Nobody]
         /\ Rows(tenants') = Rows(tenants)
         /\ TenantsKeep
<1>1. tenants \in [Tid -> TenantRow \union Nobody] /\ t \in Tid
  BY RowsAre DEF IInv, TypeOK
<1>2. tenants' \in [Tid -> TenantRow \union Nobody]
  BY <1>1
<1>3. tenants'[t] = x /\ \A k \in Tid : k # t => tenants'[k] = tenants[k]
  BY <1>1
<1>4. Rows(tenants') = Rows(tenants)
  BY <1>1, <1>2, <1>3, RowIsSome DEF Rows
<1>5. TenantsKeep
  <2> SUFFICES ASSUME NEW k \in Tid, tenants[k] # NULL
               PROVE  /\ tenants'[k] # NULL
                      /\ k \in Rows(tenants') =>
                           /\ k \in Rows(tenants)
                           /\ tenants'[k].slug = tenants[k].slug /\ tenants'[k].mode = tenants[k].mode
                           /\ tenants'[k].founder = tenants[k].founder
                           /\ k \notin edited' => tenants'[k].admins = tenants[k].admins
    BY DEF TenantsKeep
  <2>1. CASE k = t
    BY <1>3, <1>4, <2>1, RowIsSome
  <2>2. CASE k # t
    BY <1>3, <1>4, <2>2
  <2> QED BY <2>1, <2>2
<1> QED BY <1>2, <1>4, <1>5

LEMMA UpdateTenantKeeps ==
  ASSUME IInv, NEW r \in Request, UpdateTenant(r)
  PROVE  IInv'
<1> DEFINE q == req[r]
<1>1. /\ q.op = "update" /\ q.pc = "write" /\ Sound(q)
      /\ UNCHANGED <<users, links, invs, pendings, sessions, cache, boot>>
  BY Standing DEF UpdateTenant, At
<1>2. CASE End(r) /\ UNCHANGED <<tenants, edited>>
  BY <1>1, <1>2, Ends DEF Stored
<1>3. ASSUME NEW t \in TenantsOf(q.slug),
             tenants' = [tenants EXCEPT ![t].admins = q.saw.admins, ![t].domain = q.saw.domain],
             edited' = edited \union {t},
             Goto(r, "invalidate")
      PROVE  IInv'
  <2>1. t \in Rows(tenants) /\ t \in Tid /\ tenants[t] \in TenantRow /\ DOMAIN tenants = Tid
    BY RowsAre DEF TenantsOf, IInv, TypeOK
  <2>2. q.saw \in FormRow
    BY <1>1 DEF Sound, Fit, Does
  <2>3. PICK x : x = [tenants[t] EXCEPT !.admins = q.saw.admins, !.domain = q.saw.domain]
    OBVIOUS
  <2>4. x \in TenantRow
    <3>1. q.saw.admins \in SUBSET Email /\ q.saw.domain \in SUBSET Email
      BY <2>2 DEF FormRow
    <3> QED BY <2>1, <2>3, <3>1 DEF TenantRow
  <2>5. /\ x.slug = tenants[t].slug /\ x.mode = tenants[t].mode /\ x.founder = tenants[t].founder
    BY <2>1, <2>3, <2>4 DEF TenantRow
  <2>6. tenants' = [tenants EXCEPT ![t] = x]
    BY <1>3, <2>1, <2>3
  <2>7. /\ tenants' \in [Tid -> TenantRow \union Nobody]
        /\ Rows(tenants') = Rows(tenants)
        /\ TenantsKeep
    BY <1>3, <2>1, <2>4, <2>5, <2>6, TenantMarked
  <2>8. \E m : Set(r, m) /\ Sound(m)
    BY <1>1, <1>3, GoesToInvalidate
  <2> QED BY <1>1, <2>7, <2>8, TenantsChange, Written
<1> QED BY <1>2, <1>3 DEF UpdateTenant

LEMMA WriteSettingsKeeps ==
  ASSUME IInv, NEW r \in Request, NEW open \in BOOLEAN, WriteSettings(r, open)
  PROVE  IInv'
<1> DEFINE q == req[r]
           t == q.space.id
<1>1. /\ q.op = "settings" /\ q.pc = "write" /\ Sound(q)
      /\ UNCHANGED <<users, links, invs, pendings, sessions, cache, boot, edited>>
  BY Standing DEF WriteSettings, At, ghosts
<1>2. CASE End(r) /\ UNCHANGED tenants
  BY <1>1, <1>2, Ends DEF Stored
<1>3. CASE t \in Rows(tenants) /\ tenants' = [tenants EXCEPT ![t].open = open] /\ Goto(r, "invalidate")
  <2>1. tenants[t] \in TenantRow
    BY <1>3, RowsAre DEF IInv
  <2>2. PICK x : x = [tenants[t] EXCEPT !.open = open]
    OBVIOUS
  <2>3. x \in TenantRow
    BY <2>1, <2>2 DEF TenantRow
  <2>4. /\ x.slug = tenants[t].slug /\ x.mode = tenants[t].mode /\ x.founder = tenants[t].founder
        /\ x.admins = tenants[t].admins
    BY <2>1, <2>2, <2>3 DEF TenantRow
  <2>5. tenants' = [tenants EXCEPT ![t] = x] /\ edited \subseteq edited'
    BY <1>1, <1>3, <2>2
  <2>6. /\ tenants' \in [Tid -> TenantRow \union Nobody]
        /\ Rows(tenants') = Rows(tenants)
        /\ TenantsKeep
    BY <1>3, <2>3, <2>4, <2>5, TenantMarked
  <2>7. \E m : Set(r, m) /\ Sound(m)
    BY <1>1, <1>3, GoesToInvalidate DEF Placed, Served, ByMember
  <2> QED BY <1>1, <2>6, <2>7, TenantsChange, Written
<1> QED BY <1>2, <1>3 DEF WriteSettings

\* Some spaces go.
LEMMA TenantsGo ==
  ASSUME IInv, NEW ts, ts \subseteq Rows(tenants), edited' = edited,
         tenants' = [t \in Tid |-> IF t \in ts THEN GONE ELSE tenants[t]]
  PROVE  /\ tenants' \in [Tid -> TenantRow \union Nobody]
         /\ Rows(tenants') = Rows(tenants) \ ts
         /\ TenantsKeep
<1>1. tenants \in [Tid -> TenantRow \union Nobody]
  BY DEF IInv, TypeOK
<1>2. tenants' \in [Tid -> TenantRow \union Nobody]
  BY <1>1 DEF Nobody
<1>3. \A k \in Tid : tenants'[k] = IF k \in ts THEN GONE ELSE tenants[k]
  OBVIOUS
<1>4. Rows(tenants') = Rows(tenants) \ ts
  BY <1>1, <1>2, <1>3 DEF Rows
<1>5. TenantsKeep
  <2> SUFFICES ASSUME NEW k \in Tid, tenants[k] # NULL
               PROVE  /\ tenants'[k] # NULL
                      /\ k \in Rows(tenants') =>
                           /\ k \in Rows(tenants)
                           /\ tenants'[k].slug = tenants[k].slug /\ tenants'[k].mode = tenants[k].mode
                           /\ tenants'[k].founder = tenants[k].founder
                           /\ k \notin edited' => tenants'[k].admins = tenants[k].admins
    BY DEF TenantsKeep
  <2>1. CASE k \in ts
    BY <1>3, <1>4, <2>1, NobodyAssumption
  <2>2. CASE k \notin ts
    BY <1>3, <1>4, <2>2
  <2> QED BY <2>1, <2>2
<1> QED BY <1>2, <1>4, <1>5

LEMMA DeleteTenantKeeps ==
  ASSUME IInv, NEW r \in Request, DeleteTenant(r)
  PROVE  IInv'
<1> DEFINE q == req[r]
           ts == TenantsOf(q.slug)
<1>1. /\ q.op = "delete" /\ q.pc = "delete" /\ Sound(q)
      /\ UNCHANGED <<users, links, invs, pendings, sessions, cache, boot, edited>>
  BY Standing DEF DeleteTenant, At, ghosts
<1>2. CASE End(r) /\ UNCHANGED tenants
  BY <1>1, <1>2, Ends DEF Stored
<1>3. CASE /\ ~ \E t \in ts : Referred(t)
           /\ tenants' = [t \in Tid |-> IF t \in ts THEN GONE ELSE tenants[t]]
           /\ Goto(r, "invalidate")
  <2>1. ts \subseteq Rows(tenants)
    BY DEF TenantsOf
  <2>2. /\ tenants' \in [Tid -> TenantRow \union Nobody]
        /\ Rows(tenants') = Rows(tenants) \ ts
        /\ TenantsKeep
    BY <1>1, <1>3, <2>1, TenantsGo
  <2>3. Integrity'
    <3>1. \A u \in Rows(users) : users[u].tenant \in Rows(tenants')
      BY <1>3, <2>2 DEF Referred, UsersOf, IInv, TypeOK, Integrity
    <3>2. \A l \in Rows(links) : links[l].tenant \in Rows(tenants')
      BY <1>3, <2>2 DEF Referred, IInv, TypeOK, Integrity
    <3>3. \A i \in Rows(invs) : invs[i].tenant \in Rows(tenants')
      BY <1>3, <2>2 DEF Referred, IInv, TypeOK, Integrity
    <3> QED BY <1>1, <3>1, <3>2, <3>3 DEF IInv, TypeOK, Integrity
  <2>4. TypeOK'
    BY <1>1, <2>2, <2>3 DEF IInv, TypeOK
  <2>5. \E m : Set(r, m) /\ Sound(m)
    BY <1>1, <1>3, GoesToInvalidate
  <2> QED BY <1>1, <2>2, <2>4, <2>5, Untouched, Written
<1> QED BY <1>2, <1>3 DEF DeleteTenant

LEMMA DropTenantKeeps ==
  ASSUME IInv, NEW r \in Request, DropTenant(r)
  PROVE  IInv'
<1> DEFINE q == req[r]
           ts == TenantsOf(q.slug)
           gone(u) == u \in Rows(users) /\ users[u].tenant \in ts
           dead(l) == l \in Rows(links) /\ links[l].tenant \in ts
           over(s) == s \in Rows(sessions) /\ sessions[s].tenant \in ts
<1>1. /\ q.op = "drop" /\ q.pc = "write" /\ Sound(q)
      /\ UNCHANGED <<invs, cache, boot, edited>>
  BY Standing DEF DropTenant, At
<1>2. CASE End(r) /\ UNCHANGED <<tenants, users, links, pendings, sessions>>
  BY <1>1, <1>2, Ends DEF Stored
<1>3. CASE /\ {i \in Rows(invs) : invs[i].tenant \in ts} = {}
           /\ tenants' = [t \in Tid |-> IF t \in ts THEN GONE ELSE tenants[t]]
           /\ users' = [u \in Uid |-> IF gone(u) THEN GONE ELSE users[u]]
           /\ links' = [l \in Lid |-> IF dead(l) THEN GONE ELSE links[l]]
           /\ sessions' = [s \in Sid |-> IF over(s) THEN GONE ELSE sessions[s]]
           /\ pendings' = [p \in Pid |-> IF p \in Rows(pendings) /\ pendings[p].slug = q.slug
                                           THEN GONE ELSE pendings[p]]
           /\ Goto(r, "invalidate")
  <2>1. ts \subseteq Rows(tenants)
    BY DEF TenantsOf
  <2>2. /\ tenants' \in [Tid -> TenantRow \union Nobody]
        /\ Rows(tenants') = Rows(tenants) \ ts
        /\ TenantsKeep
    BY <1>1, <1>3, <2>1, TenantsGo
  <2>3. /\ users \in [Uid -> UserRow \union Nobody] /\ links \in [Lid -> LinkRow \union Nobody]
        /\ sessions \in [Sid -> SessionRow \union Nobody] /\ pendings \in [Pid -> PendingRow \union Nobody]
    BY DEF IInv, TypeOK
  <2>4. /\ users' \in [Uid -> UserRow \union Nobody] /\ links' \in [Lid -> LinkRow \union Nobody]
        /\ sessions' \in [Sid -> SessionRow \union Nobody] /\ pendings' \in [Pid -> PendingRow \union Nobody]
    BY <1>3, <2>3 DEF Nobody
  <2>5. \A u \in Uid : users'[u] = IF gone(u) THEN GONE ELSE users[u]
    BY <1>3
  <2>6. \A u \in Rows(users') : u \in Uid /\ u \in Rows(users) /\ ~ gone(u) /\ users'[u] = users[u]
    BY <2>3, <2>4, <2>5 DEF Rows
  <2>7. \A l \in Lid : links'[l] = IF dead(l) THEN GONE ELSE links[l]
    BY <1>3
  <2>8. \A l \in Rows(links') : l \in Lid /\ l \in Rows(links) /\ ~ dead(l) /\ links'[l] = links[l]
    BY <2>3, <2>4, <2>7 DEF Rows
  <2>9. \A s \in Sid : sessions'[s] = IF over(s) THEN GONE ELSE sessions[s]
    BY <1>3
  <2>10. \A s \in Rows(sessions') : /\ s \in Sid /\ s \in Rows(sessions) /\ ~ over(s)
                                    /\ sessions'[s] = sessions[s]
    BY <2>3, <2>4, <2>9 DEF Rows
  <2>11. \A u \in Rows(users) : ~ gone(u) => u \in Rows(users') /\ users'[u] = users[u]
    BY <2>3, <2>4, <2>5 DEF Rows
  <2>12. \A l \in Rows(links) : ~ dead(l) => l \in Rows(links') /\ links'[l] = links[l]
    BY <2>3, <2>4, <2>7 DEF Rows
  <2>13. UsersKeep
    <3>1. \A u \in Uid : users[u] # NULL => users'[u] # NULL
      BY <2>5, NobodyAssumption
    <3> QED BY <2>6, <3>1 DEF UsersKeep
  <2>14. UsersListed
    BY <2>6 DEF UsersListed
  <2>15. LinksKeep
    BY <2>2, <2>12 DEF LinksKeep
  <2>16. LinksListed
    BY <2>8 DEF LinksListed
  <2>17. Integrity'
    <3>1. \A u \in Rows(users') : users'[u].tenant \in Rows(tenants')
      BY <2>2, <2>6 DEF IInv, TypeOK, Integrity
    <3>2. \A l \in Rows(links') : links'[l].tenant \in Rows(tenants')
      BY <2>2, <2>8 DEF IInv, TypeOK, Integrity
    <3>3. \A i \in Rows(invs) : invs[i].tenant \in Rows(tenants')
      BY <1>3, <2>2 DEF IInv, TypeOK, Integrity
    <3>4. \A s \in Rows(sessions') : /\ sessions'[s].user \in Rows(users')
                                     /\ users'[sessions'[s].user].tenant = sessions'[s].tenant
      BY <2>10, <2>11 DEF IInv, TypeOK, Integrity
    <3> QED BY <1>1, <3>1, <3>2, <3>3, <3>4 DEF Integrity
  <2>18. TypeOK'
    BY <1>1, <2>2, <2>4, <2>17 DEF IInv, TypeOK
  <2>19. \E m : Set(r, m) /\ Sound(m)
    BY <1>1, <1>3, GoesToInvalidate
  <2> QED BY <1>1, <2>2, <2>13, <2>14, <2>15, <2>16, <2>18, <2>19, Untouched, Written
<1> QED BY <1>2, <1>3 DEF DropTenant

LEMMA RestartKeeps ==
  ASSUME IInv, Restart
  PROVE  IInv'
<1>1. /\ req' = [r \in Request |-> Quiet]
      /\ UNCHANGED <<users, links, invs, pendings, sessions, edited>>
  BY DEF Restart
<1>2. Requests'
  <2>1. req' \in [Request -> ReqRow] /\ \A r \in Request : SoundThen(req'[r])
    BY <1>1, QuietSound DEF SoundThen, Fit
  <2>2. (\A r \in Request : Sound(req[r]))'
    BY <2>1 DEF Sound, SoundThen
  <2> QED BY <2>1, <2>2 DEF Requests
<1>3. PICK t \in Tid, row \in TenantRow :
        /\ Boot(t, row) /\ row.slug = Home
        /\ \/ t \in Rows(tenants) /\ row = tenants[t] /\ UNCHANGED tenants
           \/ t \in Free(tenants) /\ row = HomeRow /\ tenants' = [tenants EXCEPT ![t] = HomeRow]
  <2>1. \A t \in TenantsOf(Home) : t \in Tid /\ tenants[t] \in TenantRow /\ tenants[t].slug = Home
                                   /\ t \in Rows(tenants)
    BY RowsAre DEF TenantsOf, IInv
  <2>2. \A t \in Free(tenants) : t \in Tid
    BY DEF Free, IInv, TypeOK
  <2>3. HomeRow \in TenantRow /\ HomeRow.slug = Home
    BY ModeAssumption
  <2> QED BY <2>1, <2>2, <2>3 DEF Restart
<1>4. /\ tenants' \in [Tid -> TenantRow \union Nobody] /\ tenants'[t] = row
      /\ Rows(tenants) \subseteq Rows(tenants')
      /\ TenantsKeep
  <2>1. CASE t \in Rows(tenants) /\ row = tenants[t] /\ UNCHANGED tenants
    BY <1>1, <2>1, Untouched DEF IInv, TypeOK
  <2>2. CASE t \in Free(tenants) /\ row = HomeRow /\ tenants' = [tenants EXCEPT ![t] = HomeRow]
    BY <1>1, <2>2, TenantPut
  <2> QED BY <1>3, <2>1, <2>2
<1>5. UsersKeep /\ InvsKeep /\ LinksKeep /\ LinksListed /\ UsersListed
  BY <1>1, Untouched
<1>6. boot' = [id |-> t, row |-> row] /\ cache' = [s \in Slug |-> IF s = Home THEN boot' ELSE NULL]
  BY <1>3 DEF Boot
<1>7. boot' \in Space /\ boot'.id = t /\ boot'.row = row
  BY <1>6 DEF Space
<1>8. boot' \in KnownSpaces'
  <2>1. Known(boot)'
    BY <1>4, <1>7, RowIsSome DEF Known
  <2> QED BY <1>7, <2>1 DEF KnownSpaces
<1>9. Registered'
  BY <1>3, <1>6, <1>7, <1>8 DEF Registered
<1>10. Integrity'
  BY <1>1, <1>4 DEF IInv, TypeOK, Integrity
<1>11. TypeOK'
  BY <1>1, <1>4, <1>6, <1>7, <1>10 DEF IInv, TypeOK
<1>12. Listed'
  BY <1>4, <1>5, <1>11, KeepLasts, StayListed
<1> QED BY <1>2, <1>9, <1>11, <1>12 DEF IInv

LEMMA InitKeeps ==
  ASSUME Init
  PROVE  IInv
<1>1. PICK s \in Start :
        /\ tenants = s.tenants /\ users = s.users /\ invs = s.invs
        /\ sessions = s.sessions
        /\ \E t \in Rows(s.tenants) :
             /\ s.tenants[t].slug = Home
             /\ boot = [id |-> t, row |-> s.tenants[t]]
  BY DEF Init
<1>2. /\ links = [l \in Lid |-> NULL] /\ pendings = [p \in Pid |-> NULL]
      /\ cache = [slug \in Slug |-> IF slug = Home THEN boot ELSE NULL]
      /\ req = [r \in Request |-> Quiet]
  BY DEF Init
<1>3. /\ tenants \in [Tid -> TenantRow \union {NULL}]
      /\ users \in [Uid -> UserRow \union {NULL}]
      /\ invs \in [Iid -> InvRow \union {NULL}]
      /\ sessions \in [Sid -> [tenant : Tid, user : Uid, link : {NULL}] \union {NULL}]
      /\ \A u \in Rows(users) :
           /\ users[u].tenant \in Rows(tenants)
           /\ users[u].admin => users[u].email \in tenants[users[u].tenant].admins
           /\ \/ tenants[users[u].tenant].mode # "invite"
              \/ tenants[users[u].tenant].founder = users[u].email
              \/ \E i \in Rows(invs) : invs[i].tenant = users[u].tenant /\ invs[i].email = users[u].email
      /\ \A x \in Rows(sessions) : /\ sessions[x].user \in Rows(users)
                                   /\ users[sessions[x].user].tenant = sessions[x].tenant
      /\ \A i \in Rows(invs) : invs[i].tenant \in Rows(tenants)
  BY <1>1, StartAssumption
<1>4. Rows(links) = {}
  BY <1>2 DEF Rows
<1>5. PICK t \in Rows(tenants) : tenants[t].slug = Home /\ boot = [id |-> t, row |-> tenants[t]]
  BY <1>1
<1>6. t \in Tid /\ tenants[t] \in TenantRow /\ tenants[t] # NULL
  BY <1>3 DEF Rows
<1>7. boot \in Space /\ boot.id = t /\ boot.row = tenants[t]
  BY <1>5, <1>6 DEF Space
<1>8. TypeOK
  <2>1. sessions \in [Sid -> SessionRow \union Nobody]
    BY <1>3 DEF SessionRow, Nobody
  <2>2. /\ tenants \in [Tid -> TenantRow \union Nobody] /\ users \in [Uid -> UserRow \union Nobody]
        /\ invs \in [Iid -> InvRow \union Nobody] /\ links \in [Lid -> LinkRow \union Nobody]
        /\ pendings \in [Pid -> PendingRow \union Nobody]
    BY <1>2, <1>3 DEF Nobody
  <2>3. cache \in [Slug -> Space \union {NULL}]
    BY <1>2, <1>7
  <2>4. Integrity
    BY <1>3, <1>4 DEF Integrity
  <2> QED BY <1>7, <2>1, <2>2, <2>3, <2>4 DEF TypeOK
<1>9. boot \in KnownSpaces
  BY <1>6, <1>7 DEF KnownSpaces, Known
<1>10. Registered
  BY <1>2, <1>5, <1>7, <1>9 DEF Registered
<1>11. ASSUME NEW u \in Rows(users)
       PROVE  <<users[u].tenant, users[u].email>> \in Welcomed
  <2>1. users[u].tenant \in Tid /\ users[u].email \in Email /\ tenants[users[u].tenant] # NULL
    <3>1. users[u] \in UserRow
      BY <1>8, RowsAre
    <3>2. users[u].tenant \in Rows(tenants)
      BY <1>3
    <3> QED BY <3>1, <3>2 DEF UserRow, Rows
  <2>2. tenants[users[u].tenant].mode = "invite" => Entitled(users[u].tenant, users[u].email)
    BY <1>3 DEF Entitled
  <2> QED BY <2>1, <2>2 DEF Welcomed, Welcome, Entitled
<1>12. Listed
  BY <1>3, <1>4, <1>11 DEF Listed
<1>13. Requests
  BY <1>2, QuietSound DEF Requests, Sound, Fit
<1> QED BY <1>8, <1>10, <1>12, <1>13 DEF IInv

-----------------------------------------------------------------------------
(***************************************************************************)
(* The invariant is inductive, group of actions by group.                  *)
(***************************************************************************)
LEMMA RegistryKeeps ==
  ASSUME IInv, NEW r \in Request, Registry(r)
  PROVE  IInv'
BY ResolveTurns, FillKeeps, InvalidateKeeps, StopsKeeps, AuthKeeps DEF Registry

LEMMA MagicLinksKeep ==
  ASSUME IInv, NEW r \in Request, MagicLinks(r)
  PROVE  IInv'
<1>1. ASSUME NEW s \in Sid, NEW slug \in Slug, AskLogout(r, s, slug)
      PROVE  IInv'
  BY <1>1, LogoutArrives
<1>2. ASSUME NEW l \in Lid, NEW slug \in Slug, Follow(r, l, slug)
      PROVE  IInv'
  BY <1>2, CallbackArrives
<1> QED BY <1>1, <1>2, LoginArrives, ApexArrives, AskMemberKeeps, AskInvitedKeeps, AskWhoseKeeps, SendLinkKeeps,
           ReadLinkKeeps, UseLinkKeeps, EnterKeeps, OpenSessionKeeps, LogoutKeeps DEF MagicLinks

LEMMA InvitationsKeep ==
  ASSUME IInv, NEW r \in Request, Invitations(r)
  PROVE  IInv'
<1>1. ASSUME NEW s \in Sid, NEW slug \in Slug, NEW e \in Email, Visit(r, "invite", s, slug, e, NULL)
      PROVE  IInv'
  BY <1>1, VisitArrives DEF ByMember
<1>2. ASSUME NEW s \in Sid, NEW slug \in Slug, NEW i \in Rows(invs), Visit(r, "revoke", s, slug, NULL, i)
      PROVE  IInv'
  <2>1. i \in Iid
    BY RowsAre DEF IInv
  <2> QED BY <1>2, <2>1, VisitArrives DEF ByMember
<1>3. ASSUME NEW s \in Sid, NEW slug \in Slug, NEW u \in Rows(users), Visit(r, "remove", s, slug, NULL, u)
      PROVE  IInv'
  <2>1. u \in Uid
    BY RowsAre DEF IInv
  <2> QED BY <1>3, <2>1, VisitArrives DEF ByMember
<1>4. ASSUME NEW i \in Iid, NEW token \in 0..1, NEW slug \in Slug, FollowInvite(r, i, token, slug)
      PROVE  IInv'
  BY <1>4, AcceptArrives
<1> QED BY <1>1, <1>2, <1>3, <1>4, StartInviteKeeps, FindInviteKeeps, RefreshInviteKeeps, InsertInviteKeeps,
           RevokeKeeps, ReadInviteKeeps, ExpireInviteKeeps, JoinKeeps, StartRemoveKeeps, RemoveMemberKeeps
        DEF Invitations

LEMMA SignupsKeep ==
  ASSUME IInv, NEW r \in Request, Signups(r)
  PROVE  IInv'
<1>1. ASSUME NEW e \in Email, NEW slug \in Slug, NEW mode \in Mode, Submit(r, e, slug, mode)
      PROVE  IInv'
  BY <1>1, SignupArrives
<1>2. ASSUME NEW p \in Pid, FollowSignup(r, p)
      PROVE  IInv'
  BY <1>2, VerifyArrives
<1> QED BY <1>1, <1>2, AskTakenKeeps, InsertPendingKeeps, ReadPendingKeeps, CreateSpaceKeeps DEF Signups

LEMMA AdministrationKeeps ==
  ASSUME IInv, NEW r \in Request, Administration(r)
  PROVE  IInv'
<1>1. ASSUME NEW slug \in Slug, NEW op \in {"delete", "drop"}, Command(r, op, slug, NULL)
      PROVE  IInv'
  BY <1>1, CommandArrives
<1>2. ASSUME NEW slug \in Slug, NEW op \in {"create", "update"}, NEW form \in Form, Command(r, op, slug, form)
      PROVE  IInv'
  <2>1. form \in FormRow
    BY ModeAssumption DEF FormRow
  <2> QED BY <1>2, <2>1, CommandArrives
<1>3. ASSUME NEW s \in Sid, NEW slug \in Slug, Visit(r, "settings", s, slug, NULL, NULL)
      PROVE  IInv'
  BY <1>3, VisitArrives DEF ByMember
<1>4. ASSUME NEW open \in BOOLEAN, WriteSettings(r, open)
      PROVE  IInv'
  BY <1>4, WriteSettingsKeeps
<1> QED BY <1>1, <1>2, <1>3, <1>4, CreateTenantKeeps, UpdateTenantKeeps, CountUsersKeeps, DeleteTenantKeeps,
           DropTenantKeeps, StartSettingsKeeps DEF Administration

LEMMA StutterKeeps ==
  ASSUME IInv, UNCHANGED vars
  PROVE  IInv'
<1>1. Same /\ UNCHANGED <<pendings, sessions, cache, boot, req>>
  BY DEF vars, tables, ghosts, Same
<1>2. Lasting /\ Listed'
  BY <1>1, SameLasts DEF IInv
<1>3. TypeOK'
  BY <1>1 DEF Same, IInv, TypeOK, Integrity, Rows
<1>4. Registered'
  BY <1>1, <1>2, StayRegistered
<1> QED BY <1>1, <1>2, <1>3, <1>4, RestStays DEF IInv

LEMMA StepKeeps == IInv /\ [Next]_vars => IInv'
<1> SUFFICES ASSUME IInv, [Next]_vars PROVE IInv'
  OBVIOUS
<1>1. ASSUME NEW r \in Request,
             Registry(r) \/ MagicLinks(r) \/ Invitations(r) \/ Signups(r) \/ Administration(r)
      PROVE  IInv'
  BY <1>1, RegistryKeeps, MagicLinksKeep, InvitationsKeep, SignupsKeep, AdministrationKeeps
<1>2. CASE TimePasses
  BY <1>2, LinkExpiresKeeps, InviteOverdueKeeps, AgesKeeps, PurgeKeeps, ExpireInvitesKeeps DEF TimePasses
<1>3. CASE Restart
  BY <1>3, RestartKeeps
<1>4. CASE UNCHANGED vars
  BY <1>4, StutterKeeps
<1> QED BY <1>1, <1>2, <1>3, <1>4 DEF Next

THEOREM Invariance == Spec => []IInv
<1>1. Init => IInv
  BY InitKeeps
<1> QED BY <1>1, StepKeeps, PTL DEF Spec

(***************************************************************************)
(* Rows are typed, and what they refer to exists: whatever the requests    *)
(* do at once, no session outlives its user and no user its space.         *)
(***************************************************************************)
THEOREM TypeCorrect == Spec => []TypeOK
<1>1. IInv => TypeOK
  BY DEF IInv
<1> QED BY <1>1, Invariance, PTL

(***************************************************************************)
(* A member of a space on invitation founded it or was invited, but for    *)
(* the link of the apex: from Listed, which follows the address from the   *)
(* statement that let it pass to the row, through every request between.   *)
(***************************************************************************)
THEOREM NobodyGetsIn == Spec => []NobodySlipsIn
<1>1. IInv => NobodySlipsIn
  <2> SUFFICES ASSUME IInv, NEW u \in Rows(users), tenants[users[u].tenant].mode = "invite"
               PROVE  Entitled(users[u].tenant, users[u].email)
    BY DEF NobodySlipsIn
  <2>1. <<users[u].tenant, users[u].email>> \in Welcomed
    BY DEF IInv, Listed
  <2>2. users[u].tenant \in Rows(tenants)
    BY DEF IInv, TypeOK, Integrity
  <2> QED BY <2>1, <2>2 DEF Welcomed, Welcome, Entitled
<1> QED BY <1>1, Invariance, PTL

-----------------------------------------------------------------------------
(***************************************************************************)
(* Who writes which table.                                                 *)
(***************************************************************************)
WritesInvs(r) ==
  RefreshInvite(r) \/ InsertInvite(r) \/ Revoke(r) \/ ExpireInvite(r) \/ Join(r) \/ RemoveMember(r)

WritesUsers(r) == Enter(r) \/ Join(r) \/ RemoveMember(r) \/ CreateSpace(r) \/ DropTenant(r)

LEMMA RegistryReads ==
  ASSUME NEW r \in Request, Registry(r)
  PROVE  UNCHANGED <<tables, edited, orphaned>>
<1>1. CASE Resolve(r) \/ Fallback(r) \/ Fill(r)
  BY <1>1 DEF Resolve, Fallback, Fill, tables, ghosts
<1>2. CASE Invalidate(r) \/ Reloaded(r) \/ Auth(r) \/ Stops(r)
  BY <1>2 DEF Invalidate, Reloaded, Auth, Stops, tables, ghosts
<1> QED BY <1>1, <1>2 DEF Registry

LEMMA MagicLinksWrite ==
  ASSUME NEW r \in Request, MagicLinks(r)
  PROVE  /\ UNCHANGED <<invs, tenants>>
         /\ UNCHANGED users \/ Enter(r)
<1>1. CASE \/ \E e \in Email : AskLinkAtApex(r, e) \/ \E slug \in Slug : AskLink(r, slug, e)
           \/ \E l \in Lid, slug \in Slug : Follow(r, l, slug)
           \/ \E s \in Sid, slug \in Slug : AskLogout(r, s, slug)
  BY <1>1 DEF AskLinkAtApex, AskLink, Follow, AskLogout, Arrive, tables
<1>2. CASE AskMember(r) \/ AskInvited(r) \/ AskWhose(r) \/ SendLink(r)
  BY <1>2 DEF AskMember, AskInvited, AskWhose, SendLink, tables
<1>3. CASE ReadLink(r) \/ UseLink(r) \/ Enter(r) \/ OpenSession(r) \/ Logout(r)
  BY <1>3 DEF ReadLink, UseLink, Enter, OpenSession, Logout, tables
<1> QED BY <1>1, <1>2, <1>3 DEF MagicLinks

LEMMA InvitationsWrite ==
  ASSUME NEW r \in Request, Invitations(r)
  PROVE  /\ UNCHANGED tenants
         /\ UNCHANGED invs \/ WritesInvs(r)
         /\ UNCHANGED users \/ Join(r) \/ RemoveMember(r)
<1>1. CASE \/ \E s \in Sid, slug \in Slug :
                \/ \E e \in Email : Visit(r, "invite", s, slug, e, NULL)
                \/ \E i \in Rows(invs) : Visit(r, "revoke", s, slug, NULL, i)
                \/ \E u \in Rows(users) : Visit(r, "remove", s, slug, NULL, u)
           \/ \E i \in Iid, token \in 0..1, slug \in Slug : FollowInvite(r, i, token, slug)
  BY <1>1 DEF Visit, FollowInvite, Arrive, tables
<1>2. CASE StartInvite(r) \/ FindInvite(r) \/ ReadInvite(r) \/ StartRemove(r)
  BY <1>2 DEF StartInvite, FindInvite, ReadInvite, StartRemove, tables
<1>3. CASE RefreshInvite(r) \/ InsertInvite(r) \/ Revoke(r) \/ ExpireInvite(r)
  BY <1>3 DEF RefreshInvite, InsertInvite, Revoke, ExpireInvite, WritesInvs
<1>4. CASE Join(r) \/ RemoveMember(r)
  BY <1>4 DEF Join, RemoveMember, WritesInvs
<1> QED BY <1>1, <1>2, <1>3, <1>4 DEF Invitations

LEMMA SignupsWrite ==
  ASSUME NEW r \in Request, Signups(r)
  PROVE  /\ UNCHANGED invs
         /\ UNCHANGED <<users, tenants>> \/ CreateSpace(r)
<1>1. CASE \/ \E e \in Email, slug \in Slug, mode \in Mode : Submit(r, e, slug, mode)
           \/ \E p \in Pid : FollowSignup(r, p)
  BY <1>1 DEF Submit, FollowSignup, Arrive, tables
<1>2. CASE AskTaken(r) \/ AskCooldown(r) \/ InsertPending(r) \/ ReadPending(r)
  BY <1>2 DEF AskTaken, AskCooldown, InsertPending, ReadPending, tables
<1>3. CASE CreateSpace(r)
  BY <1>3 DEF CreateSpace
<1> QED BY <1>1, <1>2, <1>3 DEF Signups

LEMMA AdministrationWrites ==
  ASSUME NEW r \in Request, Administration(r)
  PROVE  /\ UNCHANGED invs
         /\ UNCHANGED users \/ DropTenant(r)
<1>1. CASE \E slug \in Slug :
             \/ \E op \in {"delete", "drop"} : Command(r, op, slug, NULL)
             \/ \E op \in {"create", "update"}, form \in Form : Command(r, op, slug, form)
  BY <1>1 DEF Command, Arrive, tables
<1>2. CASE \E s \in Sid, slug \in Slug : Visit(r, "settings", s, slug, NULL, NULL)
  BY <1>2 DEF Visit, Arrive, tables
<1>3. CASE CreateTenant(r) \/ UpdateTenant(r) \/ CountUsers(r) \/ DeleteTenant(r) \/ StartSettings(r)
  BY <1>3 DEF CreateTenant, UpdateTenant, CountUsers, DeleteTenant, StartSettings, tables
<1>4. CASE DropTenant(r) \/ \E open \in BOOLEAN : WriteSettings(r, open)
  BY <1>4 DEF DropTenant, WriteSettings
<1> QED BY <1>1, <1>2, <1>3, <1>4 DEF Administration

-----------------------------------------------------------------------------
Buried ==
  \A i \in Rows(invs) : invs[i].status # "pending" /\ invs'[i] # GONE =>
    \/ invs'[i].status = invs[i].status
    \/ /\ invs'[i].status # "pending"
       /\ \E r \in Request : req[r].op = "accept" /\ req[r].pc # "read" /\ req[r].ref = i

\* What happens to an invitation is as Buried says, whoever writes.
LEMMA InvsBuried ==
  ASSUME IInv, NEW r \in Request, WritesInvs(r)
  PROVE  Buried
<1> DEFINE q == req[r]
<1>1. invs \in [Iid -> InvRow \union Nobody] /\ \A i \in Rows(invs) : i \in Iid /\ invs[i] \in InvRow
  BY RowsAre DEF IInv, TypeOK
<1>2. CASE RefreshInvite(r)
  <2>1. CASE UNCHANGED invs
    BY <2>1 DEF Buried
  <2>2. CASE invs' = [invs EXCEPT ![q.ref] = Refreshed(@, q.who.id)]
    <3> SUFFICES ASSUME NEW i \in Rows(invs) PROVE invs'[i].status = invs[i].status
      BY DEF Buried
    <3>1. CASE i # q.ref
      BY <1>1, <2>2, <3>1
    <3>2. CASE i = q.ref
      BY <1>1, <2>2, <3>2 DEF Refreshed, InvRow
    <3> QED BY <3>1, <3>2
  <2> QED BY <1>2, <2>1, <2>2 DEF RefreshInvite
<1>3. CASE InsertInvite(r)
  <2>1. CASE UNCHANGED invs
    BY <2>1 DEF Buried
  <2>2. ASSUME NEW k \in Free(invs), NEW x, invs' = [invs EXCEPT ![k] = x]
        PROVE  Buried
    BY <1>1, <2>2 DEF Buried, Free, Rows
  <2> QED BY <1>3, <2>1, <2>2 DEF InsertInvite
<1>4. CASE Revoke(r)
  <2>1. CASE UNCHANGED invs
    BY <2>1 DEF Buried
  <2>2. CASE /\ q.ref \in PendingInvs(q.space.id, invs[q.ref].email)
             /\ invs' = [invs EXCEPT ![q.ref].status = "revoked"]
    BY <1>1, <2>2 DEF Buried, PendingInvs
  <2> QED BY <1>4, <2>1, <2>2 DEF Revoke
<1>5. ASSUME NEW status \in {"accepted", "expired"}, invs' = [invs EXCEPT ![q.ref].status = status],
             q.op = "accept", q.pc # "read"
      PROVE  Buried
  <2> SUFFICES ASSUME NEW i \in Rows(invs), invs[i].status # "pending"
               PROVE  \/ invs'[i].status = invs[i].status
                      \/ /\ invs'[i].status # "pending"
                         /\ \E k \in Request : req[k].op = "accept" /\ req[k].pc # "read" /\ req[k].ref = i
    BY DEF Buried
  <2>1. CASE i # q.ref
    BY <1>1, <1>5, <2>1
  <2>2. CASE i = q.ref
    BY <1>1, <1>5, <2>2 DEF InvRow
  <2> QED BY <2>1, <2>2
<1>6. CASE ExpireInvite(r) \/ Join(r)
  BY <1>5, <1>6 DEF ExpireInvite, Join, At
<1>7. CASE RemoveMember(r)
  <2>1. CASE UNCHANGED invs
    BY <2>1 DEF Buried
  <2>2. CASE invs' = [i \in Iid |-> IF i \in Rows(invs) /\ invs[i].inviter = q.ref
                                      THEN [invs[i] EXCEPT !.inviter = NULL] ELSE invs[i]]
    <3> SUFFICES ASSUME NEW i \in Rows(invs) PROVE invs'[i].status = invs[i].status
      BY DEF Buried
    <3> QED BY <1>1, <2>2 DEF InvRow
  <2> QED BY <1>7, <2>1, <2>2 DEF RemoveMember
<1> QED BY <1>2, <1>3, <1>4, <1>6, <1>7 DEF WritesInvs

LEMMA TimeBuries ==
  ASSUME IInv, TimePasses
  PROVE  Buried
<1>1. invs \in [Iid -> InvRow \union Nobody] /\ \A i \in Rows(invs) : i \in Iid /\ invs[i] \in InvRow
  BY RowsAre DEF IInv, TypeOK
<1>2. CASE UNCHANGED invs
  BY <1>2 DEF Buried
<1>3. ASSUME NEW k \in Iid, InviteOverdue(k)
      PROVE  Buried
  <2> SUFFICES ASSUME NEW i \in Rows(invs) PROVE invs'[i].status = invs[i].status
    BY DEF Buried
  <2>1. invs' = [invs EXCEPT ![k].overdue = TRUE]
    BY <1>3 DEF InviteOverdue
  <2>2. CASE i # k
    BY <1>1, <2>1, <2>2
  <2>3. CASE i = k
    BY <1>1, <2>1, <2>3 DEF InvRow
  <2> QED BY <2>2, <2>3
<1>4. CASE ExpireInvites
  <2> SUFFICES ASSUME NEW i \in Rows(invs), invs[i].status # "pending" PROVE invs'[i] = invs[i]
    BY DEF Buried
  <2> QED BY <1>1, <1>4 DEF ExpireInvites
<1>5. ASSUME \/ \E l \in Lid : LinkExpires(l)
             \/ \E p \in Pid : Ages(p)
             \/ Purge
      PROVE  UNCHANGED invs
  BY <1>5 DEF LinkExpires, Ages, Purge
<1> QED BY <1>2, <1>3, <1>4, <1>5 DEF TimePasses

(***************************************************************************)
(* A dead invitation is not brought back, by any interleaving of inviting, *)
(* revoking, accepting and expiring it.                                    *)
(***************************************************************************)
THEOREM DeadInvitationsStayDead == Spec => DeadStaysDead
<1>1. IInv /\ [Next]_vars => Buried
  <2> SUFFICES ASSUME IInv, [Next]_vars PROVE Buried
    OBVIOUS
  <2>1. CASE UNCHANGED invs
    BY <2>1 DEF Buried
  <2>2. ASSUME NEW r \in Request,
               Registry(r) \/ MagicLinks(r) \/ Invitations(r) \/ Signups(r) \/ Administration(r)
        PROVE  UNCHANGED invs \/ WritesInvs(r)
    BY <2>2, RegistryReads, MagicLinksWrite, InvitationsWrite, SignupsWrite, AdministrationWrites DEF tables
  <2>3. CASE Restart
    BY <2>1, <2>3 DEF Restart
  <2>4. CASE UNCHANGED vars
    BY <2>1, <2>4 DEF vars, tables
  <2> QED BY <2>1, <2>2, <2>3, <2>4, InvsBuried, TimeBuries DEF Next
<1>2. IInv /\ [Next]_vars =>
        [\A i \in Rows(invs) : invs[i].status # "pending" /\ invs'[i] # GONE =>
           \/ invs'[i].status = invs[i].status
           \/ /\ invs'[i].status # "pending"
              /\ \E r \in Request : req[r].op = "accept" /\ req[r].pc # "read" /\ req[r].ref = i]_vars
  BY <1>1 DEF Buried
<1> QED BY <1>2, Invariance, PTL DEF Spec, DeadStaysDead

-----------------------------------------------------------------------------
LEMMA AdminIsThere ==
  ASSUME NEW t, NEW w, w \in Rows(users'), users'[w].tenant = t, users'[w].admin
  PROVE  HasAdmin(t)'
BY DEF HasAdmin, UsersOf

\* An administrator who is not touched is still one.
LEMMA AdminUntouched ==
  ASSUME IInv, NEW t \in Tid, NEW w \in UsersOf(t), users[w].admin, users'[w] = users[w],
         users' \in [Uid -> UserRow \union Nobody]
  PROVE  HasAdmin(t)'
<1>1. w \in Rows(users) /\ w \in Uid /\ users[w] \in UserRow /\ users[w].tenant = t
  BY RowsAre DEF UsersOf, IInv
<1>2. w \in Rows(users') /\ users'[w].tenant = t /\ users'[w].admin
  BY <1>1, RowIsSome DEF Rows
<1> QED BY <1>2, AdminIsThere

\* Signing in does not take an administrator down, as long as the list was not edited.
LEMMA EnterKeepsAdmin ==
  ASSUME IInv, IInv', NEW r \in Request, Enter(r), NEW t \in Tid, HasAdmin(t), t \notin edited
  PROVE  HasAdmin(t)'
<1> DEFINE q == req[r]
           admin == q.email \in q.space.row.admins
<1>1. PICK w \in UsersOf(t) : users[w].admin
  BY DEF HasAdmin
<1>2. /\ w \in Uid /\ w \in Rows(users) /\ users[w] \in UserRow /\ users[w].tenant = t
      /\ users \in [Uid -> UserRow \union Nobody] /\ users' \in [Uid -> UserRow \union Nobody]
  BY RowsAre DEF UsersOf, IInv, TypeOK
<1>3. CASE UNCHANGED users
  BY <1>1, <1>2, <1>3, AdminUntouched
<1>4. ASSUME NEW u \in Free(users), NEW x, users' = [users EXCEPT ![u] = x]
      PROVE  HasAdmin(t)'
  <2>1. users[u] = NULL /\ u \in Uid
    BY <1>2 DEF Free
  <2>2. w # u
    BY <1>2, <2>1 DEF Rows
  <2>3. users'[w] = users[w]
    BY <1>2, <1>4, <2>2
  <2> QED BY <1>1, <1>2, <2>3, AdminUntouched
<1>5. ASSUME NEW u \in Accounts(q.space.id, q.email), users' = [users EXCEPT ![u].admin = admin]
      PROVE  HasAdmin(t)'
  <2>1. CASE w # u
    <3>1. users'[w] = users[w]
      BY <1>2, <1>5, <2>1
    <3> QED BY <1>1, <1>2, <3>1, AdminUntouched
  <2>2. CASE w = u
    <3>1. users[w].email = q.email /\ q.space.id = t
      BY <1>2, <2>2 DEF Accounts, UsersOf
    <3>2. q.email \in tenants[t].admins /\ t \in Rows(tenants)
      BY <1>1, <1>2, <3>1 DEF IInv, Listed, TypeOK, Integrity
    <3>3. tenants[t].admins = q.space.row.admins
      <4>1. q.space \in KnownSpaces
        BY Standing DEF Enter, At, Placed, Served
      <4> QED BY <3>1, <3>2, <4>1 DEF KnownSpaces, Known
    <3>4. admin
      BY <3>2, <3>3
    <3>5. PICK x : x = [users[w] EXCEPT !.admin = TRUE]
      OBVIOUS
    <3>6. x \in UserRow
      BY <1>2, <3>5 DEF UserRow
    <3>7. x.tenant = t /\ x.admin = TRUE
      BY <1>2, <3>5, <3>6 DEF UserRow
    <3>8. users' = [users EXCEPT ![w] = x]
      BY <1>5, <2>2, <3>4, <3>5
    <3>9. w \in Rows(users') /\ users'[w] = x
      BY <1>2, <3>6, <3>8, RowIsSome DEF Rows
    <3> QED BY <3>7, <3>9, AdminIsThere
  <2> QED BY <2>1, <2>2
<1> QED BY <1>3, <1>4, <1>5 DEF Enter

\* A user is added, none is changed.
LEMMA AddingKeepsAdmin ==
  ASSUME IInv, IInv', NEW r \in Request, Join(r) \/ CreateSpace(r), NEW t \in Tid, HasAdmin(t)
  PROVE  HasAdmin(t)'
<1>1. PICK w \in UsersOf(t) : users[w].admin
  BY DEF HasAdmin
<1>2. /\ w \in Uid /\ w \in Rows(users)
      /\ users \in [Uid -> UserRow \union Nobody] /\ users' \in [Uid -> UserRow \union Nobody]
  BY RowsAre DEF UsersOf, IInv, TypeOK
<1>3. ASSUME NEW u \in Free(users), NEW x, users' = [users EXCEPT ![u] = x]
      PROVE  users'[w] = users[w]
  BY <1>2, <1>3 DEF Free, Rows
<1>4. ASSUME Join(r)
      PROVE  users'[w] = users[w]
  <2> DEFINE own == Accounts(req[r].space.id, req[r].email)
  <2>1. PICK u \in IF own = {} THEN Free(users) ELSE own :
          users' = IF u \in own THEN users
                   ELSE [users EXCEPT ![u] = [tenant |-> req[r].space.id, email |-> req[r].email, admin |-> FALSE]]
    BY <1>4 DEF Join
  <2>2. CASE u \in own
    BY <2>1, <2>2
  <2>3. CASE u \notin own
    <3>1. u \in Free(users)
      BY <2>1, <2>3
    <3> QED BY <1>3, <2>1, <2>3, <3>1
  <2> QED BY <2>2, <2>3
<1>5. ASSUME CreateSpace(r)
      PROVE  users'[w] = users[w]
  <2>1. CASE UNCHANGED users
    BY <2>1
  <2>2. CASE \E u \in Free(users) : \E x : users' = [users EXCEPT ![u] = x]
    BY <1>3, <2>2
  <2> QED BY <1>5, <2>1, <2>2 DEF CreateSpace
<1> QED BY <1>1, <1>2, <1>4, <1>5, AdminUntouched

LEMMA RemoveKeepsAdmin ==
  ASSUME IInv, IInv', NEW r \in Request, RemoveMember(r), NEW t \in Tid, HasAdmin(t), t \notin orphaned'
  PROVE  HasAdmin(t)'
<1> DEFINE q == req[r]
<1>1. PICK w \in UsersOf(t) : users[w].admin
  BY DEF HasAdmin
<1>2. /\ w \in Uid /\ w \in Rows(users) /\ users[w].tenant = t
      /\ users \in [Uid -> UserRow \union Nobody] /\ users' \in [Uid -> UserRow \union Nobody]
  BY RowsAre DEF UsersOf, IInv, TypeOK
<1>3. CASE UNCHANGED users
  BY <1>1, <1>2, <1>3, AdminUntouched
<1>4. CASE /\ users' = [users EXCEPT ![q.ref] = GONE]
           /\ q.ref \in UsersOf(q.space.id)
           /\ orphaned' = IF q.who.id \in Rows(users) /\ users[q.who.id].admin
                            THEN orphaned ELSE orphaned \union {q.space.id}
  <2>1. CASE w # q.ref
    <3>1. users'[w] = users[w]
      BY <1>2, <1>4, <2>1
    <3> QED BY <1>1, <1>2, <3>1, AdminUntouched
  <2>2. CASE w = q.ref
    <3>1. q.space.id = t
      BY <1>2, <1>4, <2>2 DEF UsersOf
    <3>2. q.who.id \in Rows(users) /\ users[q.who.id].admin
      BY <1>4, <3>1
    <3>3. <<q.who.id, t>> \in Belonging /\ q.who.id # q.ref /\ q.who.id \in Uid
      BY <3>1, Standing DEF RemoveMember, At, Admitted, ByMember, Sound, Truthful, Does
    <3>4. q.who.id \in UsersOf(t)
      BY <3>2, <3>3 DEF Belonging, Belongs, UsersOf
    <3>5. users'[q.who.id] = users[q.who.id]
      BY <1>2, <1>4, <3>3
    <3> QED BY <1>2, <3>2, <3>4, <3>5, AdminUntouched
  <2> QED BY <2>1, <2>2
<1> QED BY <1>3, <1>4 DEF RemoveMember

LEMMA DropKeepsAdmin ==
  ASSUME IInv, IInv', NEW r \in Request, DropTenant(r), NEW t \in Tid, HasAdmin(t), tenants'[t] \notin Nobody
  PROVE  HasAdmin(t)'
<1> DEFINE ts == TenantsOf(req[r].slug)
<1>1. PICK w \in UsersOf(t) : users[w].admin
  BY DEF HasAdmin
<1>2. /\ w \in Uid /\ w \in Rows(users) /\ users[w].tenant = t
      /\ users' \in [Uid -> UserRow \union Nobody]
  BY RowsAre DEF UsersOf, IInv, TypeOK
<1>3. CASE UNCHANGED users
  BY <1>1, <1>2, <1>3, AdminUntouched
<1>4. CASE /\ tenants' = [k \in Tid |-> IF k \in ts THEN GONE ELSE tenants[k]]
           /\ users' = [u \in Uid |-> IF u \in {k \in Rows(users) : users[k].tenant \in ts}
                                        THEN GONE ELSE users[u]]
  <2>1. t \notin ts
    BY <1>4 DEF Nobody
  <2>2. users'[w] = users[w]
    BY <1>2, <1>4, <2>1
  <2> QED BY <1>1, <1>2, <2>2, AdminUntouched
<1> QED BY <1>3, <1>4 DEF DropTenant

(***************************************************************************)
(* "The space always keeps at least one admin", but for an edited list and *)
(* a removal by someone removed himself: the remover is still there and    *)
(* another, and who signs in keeps the flag its list gives.                *)
(***************************************************************************)
THEOREM SpacesKeepAnAdmin == Spec => KeepsAnAdmin
<1>1. ASSUME IInv, [Next]_vars, NEW t \in Tid, HasAdmin(t), tenants'[t] \notin Nobody,
             t \notin edited, t \notin orphaned'
      PROVE  HasAdmin(t)'
  <2>1. IInv'
    BY <1>1, StepKeeps
  <2>2. CASE UNCHANGED users
    <3>1. PICK w \in UsersOf(t) : users[w].admin
      BY <1>1 DEF HasAdmin
    <3>2. users'[w] = users[w] /\ users' \in [Uid -> UserRow \union Nobody]
      BY <2>1, <2>2 DEF IInv, TypeOK
    <3> QED BY <1>1, <3>1, <3>2, AdminUntouched
  <2>3. ASSUME NEW r \in Request,
               Registry(r) \/ MagicLinks(r) \/ Invitations(r) \/ Signups(r) \/ Administration(r)
        PROVE  UNCHANGED users \/ WritesUsers(r)
    BY <2>3, RegistryReads, MagicLinksWrite, InvitationsWrite, SignupsWrite, AdministrationWrites
    DEF tables, WritesUsers
  <2>4. ASSUME NEW r \in Request, WritesUsers(r)
        PROVE  HasAdmin(t)'
    BY <1>1, <2>1, <2>4, EnterKeepsAdmin, AddingKeepsAdmin, RemoveKeepsAdmin, DropKeepsAdmin DEF WritesUsers
  <2>5. CASE TimePasses \/ Restart
    <3>1. UNCHANGED users
      BY <2>5 DEF TimePasses, Restart, LinkExpires, InviteOverdue, Ages, Purge, ExpireInvites
    <3> QED BY <2>2, <3>1
  <2>6. CASE UNCHANGED vars
    BY <2>2, <2>6 DEF vars, tables
  <2> QED BY <1>1, <2>2, <2>3, <2>4, <2>5, <2>6 DEF Next
<1>2. IInv /\ [Next]_vars =>
        [\A t \in Tid : HasAdmin(t) /\ tenants'[t] \notin Nobody =>
           HasAdmin(t)' \/ t \in edited \/ t \in orphaned']_vars
  BY <1>1
<1> QED BY <1>2, Invariance, PTL DEF Spec, KeepsAnAdmin

=============================================================================
