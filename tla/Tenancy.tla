------------------------------ MODULE Tenancy -------------------------------
(***************************************************************************)
(* The tables behind the spaces of LunaBet, and how a request finds its    *)
(* space: the middleware resolves the slug through a cache of the process  *)
(* (TenantRegistry of src/tenant.rs) and the handler works from then on    *)
(* with the row it got, whatever becomes of it.                            *)
(*                                                                         *)
(* A request is a record with a program counter; the modules SignIn,       *)
(* SignUp and Console hold the statements of each kind, module Spaces puts *)
(* them together.  Ids are never used again: a row that was deleted is     *)
(* GONE, and a foreign key or a UNIQUE column that an INSERT would break   *)
(* ends the request.                                                       *)
(***************************************************************************)
EXTENDS Integers

CONSTANTS
  Email, Slug,
  Home, HomeRow,   \* DEFAULT_TENANT_SLUG, and what the environment says of it
  Tid, Uid, Lid, Iid, Pid, Sid,   \* bound: ids of the rows of the tables
  Request,     \* bound: the requests under way at once
  NULL, GONE

ASSUME IdAssumption ==
  /\ Tid \subseteq Nat /\ Uid \subseteq Nat /\ Lid \subseteq Nat
  /\ Iid \subseteq Nat /\ Pid \subseteq Nat /\ Sid \subseteq Nat
  /\ Home \in Slug

VARIABLES
  tenants, users, links, invs, pendings, sessions,   \* the tables
  cache, boot, \* TenantRegistry.cache, by slug, and its snapshot of the default tenant
  req,         \* the requests
  left,        \* what is left of the allowance: no part of the program

  \* No part of the program:
  overlapped,  \* magic links that two callbacks read before either used it
  raced,       \* slugs invalidated while a request was about to cache them, or not at all
  edited,      \* tenants whose administrators were set anew by the console
  orphaned,    \* tenants where an administrator removed a member once removed himself
  made         \* slugs of tenants that the console, or a start, created, or the console dropped

tables == <<tenants, users, links, invs, pendings, sessions>>
ghosts == <<overlapped, raced, edited, orphaned, made>>
vars == <<tables, cache, boot, req, left, ghosts>>

Rows(table) == {i \in DOMAIN table : table[i] \notin {NULL, GONE}}

Free(table) == {i \in DOMAIN table : table[i] = NULL /\ \A k \in DOMAIN table : k < i => table[k] # NULL}

TenantsOf(slug) == {t \in Rows(tenants) : tenants[t].slug = slug}

UsersOf(t) == {u \in Rows(users) : users[u].tenant = t}

\* Mutant of Accounts: the address is looked up in every space.
AccountsAnywhere(t, email) == {u \in Rows(users) : users[u].email = email}

Accounts(t, email) == {u \in UsersOf(t) : users[u].email = email}

Spend(what) ==
  /\ left[what] > 0
  /\ left' = [left EXCEPT ![what] = @ - 1]

-----------------------------------------------------------------------------
(***************************************************************************)
(* Requests.  space is the tenant as the request got it, who the user row  *)
(* AuthUser read, ref the row the request is about, saw what it read.      *)
(***************************************************************************)
Quiet == [op |-> NULL, pc |-> "idle", slug |-> NULL, space |-> NULL, sid |-> NULL, who |-> NULL,
          email |-> NULL, ref |-> NULL, saw |-> NULL]

At(r, op, pc) == req[r].op = op /\ req[r].pc = pc

Set(r, record) == req' = [req EXCEPT ![r] = record]

Goto(r, pc) == Set(r, [req[r] EXCEPT !.pc = pc])

End(r) == Set(r, Quiet)

\* A request comes in for a slug, or for the apex.
Arrive(r, op, request) ==
  /\ req[r].pc = "idle"
  /\ Spend(op)
  /\ Set(r, request)
  /\ UNCHANGED <<tables, cache, boot, ghosts>>

\* What comes once the space is known.
FirstStep ==
  [login |-> "member", apex |-> "send", callback |-> "read", logout |-> "out", accept |-> "read",
   invite |-> "auth", revoke |-> "auth", remove |-> "auth", settings |-> "auth",
   reload |-> "done"]

\* TenantRegistry::resolve: from the cache, or by a SELECT whose row is cached afterwards.
\* A request for the default tenant falls back on the snapshot: see Fallback.
Resolve(r) ==
  /\ req[r].pc = "resolve"
  /\ IF cache[req[r].slug] # NULL
       THEN Set(r, [req[r] EXCEPT !.space = cache[req[r].slug], !.pc = FirstStep[req[r].op]])
       ELSE IF TenantsOf(req[r].slug) = {} THEN End(r)
       ELSE \E t \in TenantsOf(req[r].slug) :
              Set(r, [req[r] EXCEPT !.space = [id |-> t, row |-> tenants[t]], !.pc = "fill"])
  /\ UNCHANGED <<tables, cache, boot, left, ghosts>>

Fallback(r) ==
  /\ req[r].pc = "resolve" /\ req[r].slug = Home /\ cache[Home] = NULL
  /\ IF TenantsOf(Home) = {} THEN UNCHANGED left ELSE Spend("mishaps")
  /\ Set(r, [req[r] EXCEPT !.space = boot, !.pc = FirstStep[req[r].op]])
  /\ UNCHANGED <<tables, cache, boot, ghosts>>

Fill(r) ==
  /\ req[r].pc = "fill"
  /\ cache' = [cache EXCEPT ![req[r].slug] = req[r].space]
  /\ Goto(r, FirstStep[req[r].op])
  /\ UNCHANGED <<tables, boot, left, ghosts>>

\* Mutant of Forget: the cache is left alone.
ForgetNothing(slug) == UNCHANGED cache

\* TenantRegistry::invalidate.
Forget(slug) == cache' = [cache EXCEPT ![slug] = NULL]

\* After a write; the settings page then shows the space as it is resolved anew.
Invalidate(r) ==
  /\ req[r].pc = "invalidate"
  /\ Forget(req[r].slug)
  /\ raced' = IF \E k \in Request : req[k].pc = "fill" /\ req[k].slug = req[r].slug
                THEN raced \union {req[r].slug} ELSE raced \ {req[r].slug}
  /\ IF req[r].op = "settings" THEN Set(r, [req[r] EXCEPT !.op = "reload", !.pc = "resolve"]) ELSE End(r)
  /\ UNCHANGED <<tables, boot, left, overlapped, edited, orphaned, made>>

Reloaded(r) ==
  /\ At(r, "reload", "done")
  /\ End(r)
  /\ UNCHANGED <<tables, cache, boot, left, ghosts>>

\* AuthUser and current_user: the user of the session cookie of this space.
Auth(r) ==
  /\ req[r].pc = "auth"
  /\ LET s == req[r].sid
     IN  IF s \in Rows(sessions) /\ sessions[s].tenant = req[r].space.id
           THEN LET u == sessions[s].user
                IN  Set(r, [req[r] EXCEPT !.pc = "admitted",
                              !.who = [id |-> u, admin |-> users[u].admin]])
           ELSE End(r)
  /\ UNCHANGED <<tables, cache, boot, left, ghosts>>

(***************************************************************************)
(* A statement fails, or the client hangs up and the handler is dropped at *)
(* an await: the request ends there, a transaction is rolled back.  What   *)
(* was to be invalidated stays in the cache.                               *)
(***************************************************************************)
Stops(r) ==
  /\ req[r].pc # "idle"
  /\ Spend("mishaps")
  /\ End(r)
  /\ raced' = IF req[r].pc = "invalidate" THEN raced \union {req[r].slug} ELSE raced
  /\ UNCHANGED <<tables, cache, boot, overlapped, edited, orphaned, made>>

(***************************************************************************)
(* The server restarts: nothing is left but the tables.  ensure_default    *)
(* creates the default tenant if it is gone, and the registry starts with  *)
(* it, as the snapshot and in the cache.                                   *)
(***************************************************************************)
Boot(t, row) ==
  /\ boot' = [id |-> t, row |-> row]
  /\ cache' = [s \in Slug |-> IF s = Home THEN boot' ELSE NULL]

Restart ==
  /\ Spend("restarts")
  /\ req' = [r \in Request |-> Quiet]
  /\ \/ /\ \E t \in TenantsOf(Home) : Boot(t, tenants[t])
        /\ UNCHANGED <<tenants, made>>
     \/ /\ TenantsOf(Home) = {}
        /\ \E t \in Free(tenants) : Boot(t, HomeRow) /\ tenants' = [tenants EXCEPT ![t] = HomeRow]
        /\ made' = made \union {Home}
  /\ raced' = {}
  /\ UNCHANGED <<users, links, invs, pendings, sessions, overlapped, edited, orphaned>>
=============================================================================
