------------------------------ MODULE Console -------------------------------
(***************************************************************************)
(* Who changes the spaces themselves: the settings page of a space, and    *)
(* the super-administrators of the deployment, from a space                *)
(* (src/routes/super_admin.rs) or the platform console                     *)
(* (src/routes/platform.rs).  Each writes the table and then drops the     *)
(* slug from the cache of the registry.                                    *)
(***************************************************************************)
EXTENDS SignUp

Command(r, op, slug, saw) ==
  Arrive(r, op, [Quiet EXCEPT !.op = op, !.pc = "write", !.slug = slug, !.saw = saw])

\* super_admin::create: the mode is left at its default.
CreateTenant(r) ==
  /\ At(r, "create", "write")
  /\ IF TenantsOf(req[r].slug) = {}
       THEN /\ \E t \in Free(tenants) :
                 tenants' = [tenants EXCEPT ![t] =
                   NewTenant(req[r].slug, "domain", req[r].saw.admins, req[r].saw.domain, NULL)]
            /\ made' = made \union {req[r].slug}
            /\ Goto(r, "invalidate")
       ELSE End(r) /\ UNCHANGED <<tenants, made>>
  /\ UNCHANGED <<users, links, invs, pendings, sessions, cache, boot, left, overlapped, raced, edited,
                 orphaned>>

\* super_admin::update: among the columns, the administrators and the e-mail pattern.
UpdateTenant(r) ==
  /\ At(r, "update", "write")
  /\ IF TenantsOf(req[r].slug) # {}
       THEN /\ \E t \in TenantsOf(req[r].slug) :
                 /\ tenants' = [tenants EXCEPT ![t].admins = req[r].saw.admins,
                                               ![t].domain = req[r].saw.domain]
                 /\ edited' = edited \union {t}
            /\ Goto(r, "invalidate")
       ELSE End(r) /\ UNCHANGED <<tenants, edited>>
  /\ UNCHANGED <<users, links, invs, pendings, sessions, cache, boot, left, overlapped, raced, orphaned,
                 made>>

\* super_admin::delete: refused for a space with users, and stopped by a row that refers to it.
CountUsers(r) ==
  /\ At(r, "delete", "write")
  /\ IF \E t \in TenantsOf(req[r].slug) : UsersOf(t) # {} THEN End(r) ELSE Goto(r, "delete")
  /\ UNCHANGED <<tables, cache, boot, left, ghosts>>

Referred(t) ==
  \/ UsersOf(t) # {}
  \/ \E l \in Rows(links) : links[l].tenant = t
  \/ \E s \in Rows(sessions) : sessions[s].tenant = t
  \/ \E i \in Rows(invs) : invs[i].tenant = t

DeleteTenant(r) ==
  /\ At(r, "delete", "delete")
  /\ IF \E t \in TenantsOf(req[r].slug) : Referred(t)
       THEN End(r) /\ UNCHANGED tenants
       ELSE /\ tenants' = [t \in Tid |-> IF t \in TenantsOf(req[r].slug) THEN GONE ELSE tenants[t]]
            /\ Goto(r, "invalidate")
  /\ UNCHANGED <<users, links, invs, pendings, sessions, cache, boot, left, ghosts>>

(***************************************************************************)
(* platform::delete_tenant, a transaction: all tables but those added      *)
(* later are emptied of the space, and an invitation, for one, stops it.   *)
(***************************************************************************)
DropTenant(r) ==
  /\ At(r, "drop", "write")
  /\ LET ts == TenantsOf(req[r].slug)
         of(table) == {i \in Rows(table) : table[i].tenant \in ts}
     IN  IF req[r].slug = Home \/ ts = {} \/ of(invs) # {}
           THEN End(r) /\ UNCHANGED <<tenants, users, links, pendings, sessions, made>>
           ELSE /\ tenants' = [t \in Tid |-> IF t \in ts THEN GONE ELSE tenants[t]]
                /\ users' = [u \in Uid |-> IF u \in of(users) THEN GONE ELSE users[u]]
                /\ links' = [l \in Lid |-> IF l \in of(links) THEN GONE ELSE links[l]]
                /\ sessions' = [s \in Sid |-> IF s \in of(sessions) THEN GONE ELSE sessions[s]]
                /\ pendings' = [p \in Pid |-> IF p \in Rows(pendings) /\ pendings[p].slug = req[r].slug
                                                THEN GONE ELSE pendings[p]]
                /\ made' = made \union {req[r].slug}
                /\ Goto(r, "invalidate")
  /\ UNCHANGED <<invs, cache, boot, left, overlapped, raced, edited, orphaned>>

-----------------------------------------------------------------------------
\* tenant_settings::update, by an administrator of the space.
StartSettings(r) ==
  /\ At(r, "settings", "admitted")
  /\ IF req[r].who.admin THEN Goto(r, "write") ELSE End(r)
  /\ UNCHANGED <<tables, cache, boot, left, ghosts>>

WriteSettings(r, open) ==
  /\ At(r, "settings", "write")
  /\ IF req[r].space.id \in Rows(tenants)
       THEN tenants' = [tenants EXCEPT ![req[r].space.id].open = open] /\ Goto(r, "invalidate")
       ELSE End(r) /\ UNCHANGED tenants
  /\ UNCHANGED <<users, links, invs, pendings, sessions, cache, boot, left, ghosts>>
=============================================================================
