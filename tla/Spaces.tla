------------------------------- MODULE Spaces -------------------------------
(***************************************************************************)
(* The spaces and who is in them: sign-in, invitations and members         *)
(* (SignIn), new spaces (SignUp) and their administration (Console), over  *)
(* the same tables and the same cache.                                     *)
(***************************************************************************)
EXTENDS SignIn, Console

CONSTANTS
  Mode,    \* values of membership_mode
  Form,    \* bound: administrators and e-mail domain of the console's form
  Start    \* the tables and the allowance a behaviour starts with

TenantRow == [slug : Slug, mode : Mode, admins : SUBSET Email, domain : SUBSET Email,
              open : BOOLEAN, founder : Email \union {NULL}]
UserRow == [tenant : Tid, email : Email, admin : BOOLEAN]
LinkRow == [tenant : Tid, email : Email, used : BOOLEAN, expired : BOOLEAN, stray : BOOLEAN]
InvRow == [tenant : Tid, email : Email, inviter : Uid \union {NULL}, token : Nat,
           status : {"pending", "accepted", "revoked", "expired"}, overdue : BOOLEAN]
PendingRow == [slug : Slug, email : Email, mode : Mode, used : BOOLEAN,
               age : {"live", "expired", "old"}]
SessionRow == [tenant : Tid, user : Uid, link : Lid \union {NULL}]
Space == [id : Tid, row : TenantRow]
Nobody == {NULL, GONE}

Integrity ==
  /\ \A u \in Rows(users) : users[u].tenant \in Rows(tenants)
  /\ \A s \in Rows(sessions) : /\ sessions[s].user \in Rows(users)
                               /\ users[sessions[s].user].tenant = sessions[s].tenant
  /\ \A i \in Rows(invs) : invs[i].tenant \in Rows(tenants)
  /\ \A l \in Rows(links) : links[l].tenant \in Rows(tenants)

ASSUME ModeAssumption ==
  /\ {"domain", "invite"} \subseteq Mode
  /\ HomeRow \in TenantRow /\ HomeRow.slug = Home
  /\ Form \subseteq [admins : SUBSET Email, domain : SUBSET Email]

\* NULL and GONE are no values of the program.
ASSUME NobodyAssumption ==
  /\ NULL # GONE
  /\ Nobody \intersect (TenantRow \union UserRow \union LinkRow \union InvRow) = {}
  /\ Nobody \intersect (PendingRow \union SessionRow \union Space \union Lid) = {}

\* A deployment that was set up: the default tenant is there, administrators are in the lists
\* of their spaces, and members of a space on invitation founded it or were invited.
ASSUME StartAssumption ==
  \A s \in Start :
    /\ s.tenants \in [Tid -> TenantRow \union {NULL}]
    /\ s.users \in [Uid -> UserRow \union {NULL}]
    /\ s.invs \in [Iid -> InvRow \union {NULL}]
    /\ s.sessions \in [Sid -> [tenant : Tid, user : Uid, link : {NULL}] \union {NULL}]
    /\ \A u \in Rows(s.users) :
         LET t == s.users[u].tenant
         IN  /\ t \in Rows(s.tenants)
             /\ s.users[u].admin => s.users[u].email \in s.tenants[t].admins
             /\ \/ s.tenants[t].mode # "invite"
                \/ s.tenants[t].founder = s.users[u].email
                \/ \E i \in Rows(s.invs) : s.invs[i].tenant = t /\ s.invs[i].email = s.users[u].email
    /\ \A x \in Rows(s.sessions) : /\ s.sessions[x].user \in Rows(s.users)
                                   /\ s.users[s.sessions[x].user].tenant = s.sessions[x].tenant
    /\ \A i \in Rows(s.invs) : s.invs[i].tenant \in Rows(s.tenants)

-----------------------------------------------------------------------------
Init ==
  \E s \in Start :
    /\ tenants = s.tenants /\ users = s.users /\ invs = s.invs
    /\ links = [l \in Lid |-> NULL]
    /\ pendings = [p \in Pid |-> NULL]
    /\ sessions = s.sessions
    /\ left = s.left
    /\ \E t \in Rows(s.tenants) :
         /\ s.tenants[t].slug = Home
         /\ boot = [id |-> t, row |-> s.tenants[t]]
    /\ cache = [slug \in Slug |-> IF slug = Home THEN boot ELSE NULL]
    /\ req = [r \in Request |-> Quiet]
    /\ overlapped = {} /\ raced = {} /\ edited = {} /\ orphaned = {} /\ made = {}

Registry(r) == Resolve(r) \/ Fallback(r) \/ Fill(r) \/ Invalidate(r) \/ Reloaded(r) \/ Auth(r) \/ Stops(r)

MagicLinks(r) ==
  \/ \E e \in Email : AskLinkAtApex(r, e) \/ \E slug \in Slug : AskLink(r, slug, e)
  \/ AskMember(r) \/ AskInvited(r) \/ AskWhose(r) \/ SendLink(r)
  \/ \E l \in Lid, slug \in Slug : Follow(r, l, slug)
  \/ ReadLink(r) \/ UseLink(r) \/ Enter(r) \/ OpenSession(r)
  \/ \E s \in Sid, slug \in Slug : AskLogout(r, s, slug)
  \/ Logout(r)

Invitations(r) ==
  \/ \E s \in Sid, slug \in Slug :
       \/ \E e \in Email : Visit(r, "invite", s, slug, e, NULL)
       \/ \E i \in Rows(invs) : Visit(r, "revoke", s, slug, NULL, i)
       \/ \E u \in Rows(users) : Visit(r, "remove", s, slug, NULL, u)
  \/ StartInvite(r) \/ FindInvite(r) \/ RefreshInvite(r) \/ InsertInvite(r)
  \/ Revoke(r)
  \/ \E i \in Iid, token \in 0..1, slug \in Slug : FollowInvite(r, i, token, slug)
  \/ ReadInvite(r) \/ ExpireInvite(r) \/ Join(r)
  \/ StartRemove(r) \/ RemoveMember(r)

Signups(r) ==
  \/ \E e \in Email, slug \in Slug, mode \in Mode : Submit(r, e, slug, mode)
  \/ AskTaken(r) \/ AskCooldown(r) \/ InsertPending(r)
  \/ \E p \in Pid : FollowSignup(r, p)
  \/ ReadPending(r) \/ CreateSpace(r)

Administration(r) ==
  \/ \E slug \in Slug :
       \/ \E op \in {"delete", "drop"} : Command(r, op, slug, NULL)
       \/ \E op \in {"create", "update"}, form \in Form : Command(r, op, slug, form)
  \/ CreateTenant(r) \/ UpdateTenant(r) \/ CountUsers(r) \/ DeleteTenant(r) \/ DropTenant(r)
  \/ \E s \in Sid, slug \in Slug : Visit(r, "settings", s, slug, NULL, NULL)
  \/ StartSettings(r)
  \/ \E open \in BOOLEAN : WriteSettings(r, open)

TimePasses ==
  \/ \E l \in Lid : LinkExpires(l)
  \/ \E i \in Iid : InviteOverdue(i)
  \/ \E p \in Pid : Ages(p)
  \/ Purge \/ ExpireInvites

Next ==
  \/ \E r \in Request :
       Registry(r) \/ MagicLinks(r) \/ Invitations(r) \/ Signups(r) \/ Administration(r)
  \/ TimePasses
  \/ Restart

Spec == Init /\ [][Next]_vars

-----------------------------------------------------------------------------
(***************************************************************************)
(* The rows, and that what they refer to exists: a session belongs to a    *)
(* user of its own space, a user, a link and an invitation to a space.     *)
(***************************************************************************)
TypeOK ==
  /\ tenants \in [Tid -> TenantRow \union Nobody]
  /\ users \in [Uid -> UserRow \union Nobody]
  /\ links \in [Lid -> LinkRow \union Nobody]
  /\ invs \in [Iid -> InvRow \union Nobody]
  /\ pendings \in [Pid -> PendingRow \union Nobody]
  /\ sessions \in [Sid -> SessionRow \union Nobody]
  /\ cache \in [Slug -> Space \union {NULL}]
  /\ boot \in Space
  /\ Integrity

(***************************************************************************)
(* Nobody gets into a space by invitation uninvited: each member founded   *)
(* it, or was invited.  The one way round is a link asked for at the apex, *)
(* where the space found for the address is resolved again by its slug.    *)
(***************************************************************************)
Entitled(t, email) ==
  \/ tenants[t].founder = email
  \/ \E i \in Rows(invs) : invs[i].tenant = t /\ invs[i].email = email
  \/ \E l \in Rows(links) : links[l].tenant = t /\ links[l].email = email /\ links[l].stray

NobodySlipsIn ==
  \A u \in Rows(users) :
    tenants[users[u].tenant].mode = "invite" => Entitled(users[u].tenant, users[u].email)

(***************************************************************************)
(* A magic link opens one session, but for callbacks that all read it      *)
(* before one of them used it.                                             *)
(***************************************************************************)
OpenedOnce ==
  \A s1, s2 \in Rows(sessions) :
    s1 # s2 /\ sessions[s1].link = sessions[s2].link /\ sessions[s1].link # NULL =>
      sessions[s1].link \in overlapped

(***************************************************************************)
(* What the registry has cached is what the table says, once the request   *)
(* that wrote it has invalidated the slug: unless another had read the old *)
(* row to cache it, or the request was dropped between the two.            *)
(***************************************************************************)
Invalidating(slug) == \E r \in Request : req[r].pc = "invalidate" /\ req[r].slug = slug

StaleOnlyByRace ==
  \A slug \in Slug \ raced :
    cache[slug] = NULL \/ Invalidating(slug) \/ tenants[cache[slug].id] = cache[slug].row

(***************************************************************************)
(* While the link of a sign-up is alive its slug is not given away, but by *)
(* the console, which does not look at the sign-ups.                       *)
(***************************************************************************)
ReservedSlugs ==
  \A p \in Rows(pendings) :
    IsLive(p) /\ TenantsOf(pendings[p].slug) # {} => pendings[p].slug \in made

(***************************************************************************)
(* "The space always keeps at least one admin": as long as its list of     *)
(* administrators was not edited, and the one who removed a member was not *)
(* removed himself meanwhile.                                              *)
(***************************************************************************)
HasAdmin(t) == \E u \in UsersOf(t) : users[u].admin

KeepsAnAdmin ==
  [][\A t \in Tid : HasAdmin(t) /\ tenants'[t] \notin Nobody =>
       HasAdmin(t)' \/ t \in edited \/ t \in orphaned']_vars

(***************************************************************************)
(* A dead invitation stays as it died: no one makes it pending again, and  *)
(* only who found it pending before overwrites how it ended.               *)
(***************************************************************************)
DeadStaysDead ==
  [][\A i \in Rows(invs) : invs[i].status # "pending" /\ invs'[i] # GONE =>
       \/ invs'[i].status = invs[i].status
       \/ /\ invs'[i].status # "pending"
          /\ \E r \in Request : req[r].op = "accept" /\ req[r].pc # "read" /\ req[r].ref = i]_vars
=============================================================================
