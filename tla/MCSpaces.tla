------------------------------ MODULE MCSpaces ------------------------------
(***************************************************************************)
(* Three addresses, two spaces at the start: the default one, of the       *)
(* domain of ada and bob, both its administrators, and a club on           *)
(* invitation, of bob.  Two requests are under way at once.  Each          *)
(* behaviour has one of a few allowances of requests and events, so that   *)
(* the cases are explored one after the other.                             *)
(***************************************************************************)
EXTENDS Spaces, TLC

CONSTANTS ada, bob, cy, home, club, r1, r2

MCEmail == {ada, bob, cy}
MCSlug == {home, club}
MCRequest == {r1, r2}
Symmetry == Permutations(MCRequest)
MCTid == 1..4
MCUid == 1..6
MCLid == 1..2
MCIid == 1..2
MCPid == 1..2
MCSid == 1..6
MCMode == {"domain", "invite"}
MCDomainOf == ada :> {ada, bob} @@ bob :> {ada, bob} @@ cy :> {cy}
MCForm == {[admins |-> {bob}, domain |-> {}], [admins |-> {cy}, domain |-> {cy}]}

MCHomeRow ==
  [slug |-> home, mode |-> "domain", admins |-> {ada, bob}, domain |-> {ada, bob}, open |-> TRUE,
   founder |-> NULL]
Club ==
  [slug |-> club, mode |-> "invite", admins |-> {bob}, domain |-> {}, open |-> TRUE,
   founder |-> bob]

Table(ids, rows) == [i \in ids |-> IF i \in DOMAIN rows THEN rows[i] ELSE NULL]
Nothing ==
  [login |-> 0, apex |-> 0, callback |-> 0, logout |-> 0, invite |-> 0, revoke |-> 0, remove |-> 0,
   settings |-> 0, accept |-> 0, signup |-> 0, verify |-> 0, create |-> 0, update |-> 0,
   delete |-> 0, drop |-> 0, expiries |-> 0, ages |-> 0, mishaps |-> 0, restarts |-> 0]

User(t, e, admin) == [tenant |-> t, email |-> e, admin |-> admin]
Session(t, u) == [tenant |-> t, user |-> u, link |-> NULL]
Invitation(e, status) ==
  [tenant |-> 2, email |-> e, inviter |-> 3, token |-> 0, status |-> status, overdue |-> FALSE]

\* Everyone is there; nobody is; there is a club without members, and an invitation to one with.
Full(allowance) ==
  [tenants |-> Table(MCTid, <<MCHomeRow, Club>>),
   users |-> Table(MCUid, <<User(1, ada, TRUE), User(1, bob, TRUE), User(2, bob, TRUE)>>),
   sessions |-> Table(MCSid, <<Session(1, 1), Session(1, 2), Session(2, 3)>>),
   invs |-> Table(MCIid, <<>>), left |-> allowance]
Asked(allowance) == [Full(allowance) EXCEPT !.invs = Table(MCIid, <<Invitation(cy, "pending")>>)]
Empty(allowance) ==
  [tenants |-> Table(MCTid, <<MCHomeRow>>), users |-> Table(MCUid, <<>>),
   sessions |-> Table(MCSid, <<>>), invs |-> Table(MCIid, <<>>), left |-> allowance]
Alone(allowance) ==
  [Empty(allowance) EXCEPT
     !.tenants = Table(MCTid, <<MCHomeRow, [Club EXCEPT !.mode = "domain", !.founder = NULL]>>),
     !.users = Table(MCUid, <<User(2, cy, FALSE)>>)]

MCStart ==
  {Full([Nothing EXCEPT !.login = 1, !.callback = 2, !.expiries = 1]),
   Full([Nothing EXCEPT !.login = 1, !.callback = 1, !.remove = 2]),
   Full([Nothing EXCEPT !.invite = 2, !.logout = 1]),
   Full([Nothing EXCEPT !.invite = 1, !.settings = 1, !.drop = 1]),
   Asked([Nothing EXCEPT !.login = 1, !.callback = 1, !.revoke = 1, !.expiries = 1]),
   Asked([Nothing EXCEPT !.accept = 2, !.revoke = 1, !.expiries = 1]),
   Asked([Nothing EXCEPT !.accept = 1, !.invite = 1, !.expiries = 1]),
   Asked([Nothing EXCEPT !.accept = 1, !.invite = 1, !.revoke = 1]),
   Asked([Nothing EXCEPT !.accept = 1, !.remove = 1, !.logout = 1, !.mishaps = 1]),
   Full([Nothing EXCEPT !.login = 1, !.callback = 1, !.update = 1]),
   Full([Nothing EXCEPT !.settings = 2, !.update = 1, !.mishaps = 1]),
   Empty([Nothing EXCEPT !.signup = 2, !.verify = 2, !.ages = 3]),
   Empty([Nothing EXCEPT !.signup = 1, !.verify = 1, !.create = 1, !.delete = 1, !.restarts = 1]),
   Empty([Nothing EXCEPT !.create = 1, !.update = 1]),
   Empty([Nothing EXCEPT !.delete = 1, !.restarts = 1, !.login = 1, !.callback = 1, !.mishaps = 1]),
   Alone([Nothing EXCEPT !.apex = 1, !.drop = 1, !.signup = 1, !.verify = 1, !.callback = 1])}
=============================================================================
