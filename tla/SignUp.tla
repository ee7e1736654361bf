------------------------------- MODULE SignUp -------------------------------
(***************************************************************************)
(* A new space (src/routes/signup.rs): the form stores a pending space and *)
(* mails a link, the link creates the space, its owner and a session.      *)
(* The hourly cleanup of src/main.rs deletes what nobody verified.         *)
(***************************************************************************)
EXTENDS Tenancy

CONSTANT DomainOf   \* DomainOf[e]: the addresses of the domain of e

ASSUME DomainAssumption == DomainOf \in [Email -> SUBSET Email]

\* A pending space: whether its link is still good, and how long it has not been.
IsLive(p) == ~ pendings[p].used /\ pendings[p].age = "live"

Submit(r, email, slug, mode) ==
  Arrive(r, "signup", [Quiet EXCEPT !.op = "signup", !.pc = "taken", !.slug = slug, !.email = email,
                                    !.saw = mode])

\* Mutant of SlugTaken: pending spaces do not take a slug, tenants do.
SlugTakenByPending(slug) == \E p \in Rows(pendings) : pendings[p].slug = slug /\ IsLive(p)

SlugTaken(slug) ==
  TenantsOf(slug) # {} \/ \E p \in Rows(pendings) : pendings[p].slug = slug /\ IsLive(p)

AskTaken(r) ==
  /\ At(r, "signup", "taken")
  /\ IF SlugTaken(req[r].slug) THEN End(r) ELSE Goto(r, "cooldown")
  /\ UNCHANGED <<tables, cache, boot, left, ghosts>>

AskCooldown(r) ==
  /\ At(r, "signup", "cooldown")
  /\ IF \E p \in Rows(pendings) : pendings[p].email = req[r].email /\ IsLive(p)
       THEN End(r) ELSE Goto(r, "insert")
  /\ UNCHANGED <<tables, cache, boot, left, ghosts>>

\* The slug is UNIQUE over all pending spaces, the expired and the used ones too.
InsertPending(r) ==
  /\ At(r, "signup", "insert")
  /\ IF \A p \in Rows(pendings) : pendings[p].slug # req[r].slug
       THEN \E p \in Free(pendings) :
              pendings' = [pendings EXCEPT ![p] =
                [slug |-> req[r].slug, email |-> req[r].email, mode |-> req[r].saw, used |-> FALSE,
                 age |-> "live"]]
       ELSE UNCHANGED pendings
  /\ End(r)
  /\ UNCHANGED <<tenants, users, links, invs, sessions, cache, boot, left, ghosts>>

-----------------------------------------------------------------------------
FollowSignup(r, p) ==
  /\ p \in Rows(pendings)
  /\ Arrive(r, "verify", [Quiet EXCEPT !.op = "verify", !.pc = "read", !.ref = p])

ReadPending(r) ==
  /\ At(r, "verify", "read")
  /\ LET p == req[r].ref
     IN  IF p \in Rows(pendings) /\ IsLive(p)
           THEN Set(r, [req[r] EXCEPT !.pc = "create", !.saw = pendings[p]])
           ELSE End(r)
  /\ UNCHANGED <<tables, cache, boot, left, ghosts>>

\* The row of a space: founder is no part of it.
NewTenant(slug, mode, admins, domain, founder) ==
  [slug |-> slug, mode |-> mode, admins |-> admins, domain |-> domain, open |-> TRUE,
   founder |-> founder]

\* One transaction; a slug that was taken meanwhile rolls it back.
CreateSpace(r) ==
  /\ At(r, "verify", "create")
  /\ LET new == req[r].saw
     IN  IF TenantsOf(new.slug) = {}
           THEN \E t \in Free(tenants), u \in Free(users), s \in Free(sessions) :
                  /\ tenants' = [tenants EXCEPT ![t] =
                       NewTenant(new.slug, new.mode, {new.email},
                                 IF new.mode = "invite" THEN {} ELSE DomainOf[new.email], new.email)]
                  /\ users' = [users EXCEPT ![u] = [tenant |-> t, email |-> new.email, admin |-> TRUE]]
                  /\ sessions' = [sessions EXCEPT ![s] = [tenant |-> t, user |-> u, link |-> NULL]]
                  /\ pendings' = IF req[r].ref \in Rows(pendings)
                                   THEN [pendings EXCEPT ![req[r].ref].used = TRUE] ELSE pendings
           ELSE UNCHANGED <<tenants, users, sessions, pendings>>
  /\ End(r)
  /\ UNCHANGED <<links, invs, cache, boot, left, ghosts>>

-----------------------------------------------------------------------------
\* Thirty minutes after the form the link is dead; a day later the row may go.  No
\* request that found it alive takes a day.
Ages(p) ==
  /\ p \in Rows(pendings) /\ pendings[p].age # "old"
  /\ pendings[p].age = "expired" => ~ \E r \in Request : At(r, "verify", "create") /\ req[r].ref = p
  /\ Spend("ages")
  /\ pendings' = [pendings EXCEPT ![p].age = IF @ = "live" THEN "expired" ELSE "old"]
  /\ UNCHANGED <<tenants, users, links, invs, sessions, cache, boot, req, ghosts>>

Purge ==
  /\ pendings' = [p \in Pid |-> IF p \in Rows(pendings) /\ ~ pendings[p].used /\ pendings[p].age = "old"
                                  THEN GONE ELSE pendings[p]]
  /\ UNCHANGED <<tenants, users, links, invs, sessions, cache, boot, req, left, ghosts>>

ExpireInvites ==
  /\ invs' = [i \in Iid |-> IF i \in Rows(invs) /\ invs[i].status = "pending" /\ invs[i].overdue
                              THEN [invs[i] EXCEPT !.status = "expired"] ELSE invs[i]]
  /\ UNCHANGED <<tenants, users, links, pendings, sessions, cache, boot, req, left, ghosts>>
=============================================================================
