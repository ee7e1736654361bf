------------------------------- MODULE SignIn -------------------------------
(***************************************************************************)
(* Who gets into a space (src/routes/auth.rs, src/routes/invitations.rs):  *)
(* magic links and sessions, invitations, and the removal of members.      *)
(* A space with membership_mode "domain" lets anyone of its e-mail domain  *)
(* in; one with "invite" only those a member invited.                      *)
(***************************************************************************)
EXTENDS Tenancy

-----------------------------------------------------------------------------
(***************************************************************************)
(* Asking for a magic link: request_magic_link, on the pages of a space or *)
(* at the apex, where the spaces of the address are looked up first.       *)
(***************************************************************************)
AskLink(r, slug, email) ==
  Arrive(r, "login", [Quiet EXCEPT !.op = "login", !.pc = "resolve", !.slug = slug, !.email = email])

AskLinkAtApex(r, email) ==
  Arrive(r, "apex", [Quiet EXCEPT !.op = "apex", !.pc = "whose", !.email = email])

\* is_login_allowed: a member, or an address of the domain of a company space.
\* Mutant of ByDomain: the pattern is tried in every space.
ByDomainAnywhere(r) == req[r].email \in Email

ByDomain(r) ==
  req[r].space.row.mode # "invite" /\ req[r].email \in req[r].space.row.domain

AskMember(r) ==
  /\ At(r, "login", "member")
  /\ Goto(r, IF Accounts(req[r].space.id, req[r].email) # {} \/ ByDomain(r) THEN "send" ELSE "invited")
  /\ UNCHANGED <<tables, cache, boot, left, ghosts>>

Invited(t, email) ==
  \E i \in Rows(invs) : invs[i].tenant = t /\ invs[i].email = email
                        /\ invs[i].status = "pending" /\ ~ invs[i].overdue

AskInvited(r) ==
  /\ At(r, "login", "invited")
  /\ IF Invited(req[r].space.id, req[r].email) THEN Goto(r, "send") ELSE End(r)
  /\ UNCHANGED <<tables, cache, boot, left, ghosts>>

\* At the apex: the one space the address belongs to; it may choose among several.
AskWhose(r) ==
  /\ At(r, "apex", "whose")
  /\ LET own == {t \in Rows(tenants) : Accounts(t, req[r].email) # {}}
     IN  IF \E t \in own : own = {t}
           THEN \E t \in own : Set(r, [req[r] EXCEPT !.slug = tenants[t].slug, !.ref = t, !.pc = "resolve"])
           ELSE End(r)
  /\ UNCHANGED <<tables, cache, boot, left, ghosts>>

\* Who asked at the apex was no member of this space when it was looked up.
Strayed(r) == req[r].op = "apex" /\ req[r].ref # req[r].space.id

\* send_magic_link_for_tenant; stray is no part of the row.
SendLink(r) ==
  /\ req[r].op \in {"login", "apex"} /\ req[r].pc = "send"
  /\ IF req[r].space.id \in Rows(tenants)
       THEN \E l \in Free(links) :
              links' = [links EXCEPT ![l] =
                [tenant |-> req[r].space.id, email |-> req[r].email, used |-> FALSE,
                 expired |-> FALSE, stray |-> Strayed(r)]]
       ELSE UNCHANGED links
  /\ End(r)
  /\ UNCHANGED <<tenants, users, invs, pendings, sessions, cache, boot, left, ghosts>>

LinkExpires(l) ==
  /\ l \in Rows(links) /\ ~ links[l].expired
  /\ Spend("expiries")
  /\ links' = [links EXCEPT ![l].expired = TRUE]
  /\ UNCHANGED <<tenants, users, invs, pendings, sessions, cache, boot, req, ghosts>>

-----------------------------------------------------------------------------
(***************************************************************************)
(* Following a magic link: callback, four statements without a             *)
(* transaction.                                                            *)
(***************************************************************************)
Follow(r, l, slug) ==
  /\ l \in Rows(links)
  /\ Arrive(r, "callback", [Quiet EXCEPT !.op = "callback", !.pc = "resolve", !.slug = slug, !.ref = l])

\* Mutant of LinkOpens: a used link opens.
LinkOpensAgain(r) == links[req[r].ref].tenant = req[r].space.id /\ ~ links[req[r].ref].expired

LinkOpens(r) ==
  /\ links[req[r].ref].tenant = req[r].space.id
  /\ ~ links[req[r].ref].used /\ ~ links[req[r].ref].expired

ReadLink(r) ==
  /\ At(r, "callback", "read")
  /\ LET l == req[r].ref
     IN  IF l \in Rows(links) /\ LinkOpens(r)
           THEN /\ Set(r, [req[r] EXCEPT !.pc = "use", !.email = links[l].email])
                /\ overlapped' = IF \E k \in Request : At(k, "callback", "use") /\ req[k].ref = l
                                   THEN overlapped \union {l} ELSE overlapped
           ELSE End(r) /\ UNCHANGED overlapped
  /\ UNCHANGED <<tables, cache, boot, left, raced, edited, orphaned, made>>

UseLink(r) ==
  /\ At(r, "callback", "use")
  /\ links' = IF req[r].ref \in Rows(links) THEN [links EXCEPT ![req[r].ref].used = TRUE] ELSE links
  /\ Goto(r, "enter")
  /\ UNCHANGED <<tenants, users, invs, pendings, sessions, cache, boot, left, ghosts>>

\* INSERT INTO users ... ON CONFLICT (tenant_id, email): whether the user is an
\* administrator follows the list of the space each time.
Enter(r) ==
  /\ At(r, "callback", "enter")
  /\ LET t     == req[r].space.id
         admin == req[r].email \in req[r].space.row.admins
     IN  \/ \E u \in Accounts(t, req[r].email) :
              /\ users' = [users EXCEPT ![u].admin = admin]
              /\ Set(r, [req[r] EXCEPT !.pc = "session", !.who = [id |-> u, admin |-> admin]])
         \/ /\ Accounts(t, req[r].email) = {} /\ t \in Rows(tenants)
            /\ \E u \in Free(users) :
                 /\ users' = [users EXCEPT ![u] = [tenant |-> t, email |-> req[r].email, admin |-> admin]]
                 /\ Set(r, [req[r] EXCEPT !.pc = "session", !.who = [id |-> u, admin |-> admin]])
         \/ t \notin Rows(tenants) /\ End(r) /\ UNCHANGED users
  /\ UNCHANGED <<tenants, links, invs, pendings, sessions, cache, boot, left, ghosts>>

\* The session; link is no part of the row.
OpenSession(r) ==
  /\ At(r, "callback", "session")
  /\ IF req[r].who.id \in Rows(users)
       THEN \E s \in Free(sessions) :
              sessions' = [sessions EXCEPT ![s] =
                [tenant |-> req[r].space.id, user |-> req[r].who.id, link |-> req[r].ref]]
       ELSE UNCHANGED sessions
  /\ End(r)
  /\ UNCHANGED <<tenants, users, links, invs, pendings, cache, boot, left, ghosts>>

\* logout deletes the session of the cookie, whatever space it is of.
AskLogout(r, s, slug) ==
  /\ s \in Rows(sessions)
  /\ Arrive(r, "logout", [Quiet EXCEPT !.op = "logout", !.pc = "resolve", !.slug = slug, !.sid = s])

Logout(r) ==
  /\ At(r, "logout", "out")
  /\ sessions' = [sessions EXCEPT ![req[r].sid] = GONE]
  /\ End(r)
  /\ UNCHANGED <<tenants, users, links, invs, pendings, cache, boot, left, ghosts>>

-----------------------------------------------------------------------------
(***************************************************************************)
(* Invitations: create, for one address.                                   *)
(***************************************************************************)
Visit(r, op, s, slug, email, ref) ==
  /\ s \in Rows(sessions)
  /\ Arrive(r, op, [Quiet EXCEPT !.op = op, !.pc = "resolve", !.slug = slug, !.sid = s,
                                 !.email = email, !.ref = ref])

MayInvite(r) == req[r].who.admin \/ req[r].space.row.open

StartInvite(r) ==
  /\ At(r, "invite", "admitted")
  /\ IF MayInvite(r) /\ Accounts(req[r].space.id, req[r].email) = {} THEN Goto(r, "existing") ELSE End(r)
  /\ UNCHANGED <<tables, cache, boot, left, ghosts>>

PendingInvs(t, email) ==
  {i \in Rows(invs) : invs[i].tenant = t /\ invs[i].email = email /\ invs[i].status = "pending"}

FindInvite(r) ==
  /\ At(r, "invite", "existing")
  /\ LET found == PendingInvs(req[r].space.id, req[r].email)
     IN  IF found = {} THEN Goto(r, "insert")
         ELSE \E i \in found : Set(r, [req[r] EXCEPT !.pc = "refresh", !.ref = i])
  /\ UNCHANGED <<tables, cache, boot, left, ghosts>>

\* Mutant of Refreshed: the invitation is made pending again.
RefreshedAlive(inv, by) ==
  [inv EXCEPT !.status = "pending", !.token = @ + 1, !.overdue = FALSE, !.inviter = by]

\* The row the UPDATE leaves: its status is not looked at again.
Refreshed(inv, by) == [inv EXCEPT !.token = @ + 1, !.overdue = FALSE, !.inviter = by]

RefreshInvite(r) ==
  /\ At(r, "invite", "refresh")
  /\ invs' = IF req[r].who.id \in Rows(users)
               THEN [invs EXCEPT ![req[r].ref] = Refreshed(@, req[r].who.id)]
               ELSE invs
  /\ End(r)
  /\ UNCHANGED <<tenants, users, links, pendings, sessions, cache, boot, left, ghosts>>

\* Two at once: the partial UNIQUE index on pending invitations lets one through.
InsertInvite(r) ==
  /\ At(r, "invite", "insert")
  /\ LET t == req[r].space.id
     IN  IF /\ t \in Rows(tenants) /\ req[r].who.id \in Rows(users)
            /\ PendingInvs(t, req[r].email) = {}
           THEN \E i \in Free(invs) :
                  invs' = [invs EXCEPT ![i] =
                    [tenant |-> t, email |-> req[r].email, inviter |-> req[r].who.id, token |-> 0,
                     status |-> "pending", overdue |-> FALSE]]
           ELSE UNCHANGED invs
  /\ End(r)
  /\ UNCHANGED <<tenants, users, links, pendings, sessions, cache, boot, left, ghosts>>

Revoke(r) ==
  /\ At(r, "revoke", "admitted")
  /\ LET i == req[r].ref
     IN  invs' = IF /\ i \in PendingInvs(req[r].space.id, invs[i].email)
                    /\ req[r].who.admin \/ invs[i].inviter = req[r].who.id
                   THEN [invs EXCEPT ![i].status = "revoked"]
                   ELSE invs
  /\ End(r)
  /\ UNCHANGED <<tenants, users, links, pendings, sessions, cache, boot, left, ghosts>>

InviteOverdue(i) ==
  /\ i \in Rows(invs) /\ ~ invs[i].overdue
  /\ Spend("expiries")
  /\ invs' = [invs EXCEPT ![i].overdue = TRUE]
  /\ UNCHANGED <<tenants, users, links, pendings, sessions, cache, boot, req, ghosts>>

-----------------------------------------------------------------------------
(***************************************************************************)
(* Accepting an invitation: accept.                                        *)
(***************************************************************************)
FollowInvite(r, i, token, slug) ==
  /\ i \in Rows(invs) /\ token <= invs[i].token
  /\ Arrive(r, "accept", [Quiet EXCEPT !.op = "accept", !.pc = "resolve", !.slug = slug,
                                       !.ref = i, !.saw = token])

ReadInvite(r) ==
  /\ At(r, "accept", "read")
  /\ LET inv == invs[req[r].ref]
     IN  IF inv.tenant = req[r].space.id /\ inv.token = req[r].saw /\ inv.status = "pending"
           THEN Set(r, [req[r] EXCEPT !.pc = IF inv.overdue THEN "late" ELSE "join", !.email = inv.email])
           ELSE End(r)
  /\ UNCHANGED <<tables, cache, boot, left, ghosts>>

\* The invitation is marked expired; its status and deadline are not looked at again.
ExpireInvite(r) ==
  /\ At(r, "accept", "late")
  /\ invs' = [invs EXCEPT ![req[r].ref].status = "expired"]
  /\ End(r)
  /\ UNCHANGED <<tenants, users, links, pendings, sessions, cache, boot, left, ghosts>>

\* One transaction: the user, the invitation, the session.  The space is still there: its
\* invitation would stop a DELETE.
Join(r) ==
  /\ At(r, "accept", "join")
  /\ LET t == req[r].space.id
         own == Accounts(t, req[r].email)
     IN  \E u \in IF own = {} THEN Free(users) ELSE own, s \in Free(sessions) :
           /\ users' = IF u \in own THEN users
                       ELSE [users EXCEPT ![u] = [tenant |-> t, email |-> req[r].email, admin |-> FALSE]]
           /\ sessions' = [sessions EXCEPT ![s] = [tenant |-> t, user |-> u, link |-> NULL]]
           /\ invs' = [invs EXCEPT ![req[r].ref].status = "accepted"]
  /\ End(r)
  /\ UNCHANGED <<tenants, links, pendings, cache, boot, left, ghosts>>

-----------------------------------------------------------------------------
(***************************************************************************)
(* Removing a member: remove_member.                                       *)
(***************************************************************************)
\* Mutant of MayRemove: an administrator may remove himself.
MayRemoveAnyone(r) == req[r].who.admin

MayRemove(r) == req[r].who.admin /\ req[r].ref # req[r].who.id

StartRemove(r) ==
  /\ At(r, "remove", "admitted")
  /\ IF MayRemove(r) /\ req[r].ref \in UsersOf(req[r].space.id) THEN Goto(r, "remove") ELSE End(r)
  /\ UNCHANGED <<tables, cache, boot, left, ghosts>>

\* One transaction; the sessions go with the user, the invitations lose their inviter.
RemoveMember(r) ==
  /\ At(r, "remove", "remove")
  /\ LET u == req[r].ref
         t == req[r].space.id
     IN  IF u \in UsersOf(t)
           THEN /\ users' = [users EXCEPT ![u] = GONE]
                /\ sessions' = [s \in Sid |-> IF s \in Rows(sessions) /\ sessions[s].user = u
                                                THEN GONE ELSE sessions[s]]
                /\ invs' = [i \in Iid |-> IF i \in Rows(invs) /\ invs[i].inviter = u
                                            THEN [invs[i] EXCEPT !.inviter = NULL] ELSE invs[i]]
                /\ orphaned' = IF req[r].who.id \in Rows(users) /\ users[req[r].who.id].admin
                                 THEN orphaned ELSE orphaned \union {t}
           ELSE UNCHANGED <<users, sessions, invs, orphaned>>
  /\ End(r)
  /\ UNCHANGED <<tenants, links, pendings, cache, boot, left, overlapped, raced, edited, made>>
=============================================================================
