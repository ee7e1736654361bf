------------------------------ MODULE BadgeMail ------------------------------
(***************************************************************************)
(* The e-mails that announce badges (src/notifications.rs,                 *)
(* init_badge_notifications and send_badge_unlocks).                       *)
(*                                                                         *)
(* A badge is announced when it is unlocked, never when a release that     *)
(* brings a new badge grants it to everyone who would have had it.  During *)
(* a rolling deploy nodes of two releases work on the same tables.  Who    *)
(* meets the rule of which badge is given here: module Settlement says how.*)
(***************************************************************************)
EXTENDS Naturals

CONSTANTS
  User,
  Code,          \* the badges of all releases
  Node,          \* server processes
  Catalog,       \* Catalog[n]: the badges the release of node n knows
  Running,       \* the nodes that are up, their badges recorded, at the start
  Successor,     \* the nodes an operator keeps up
  MaxChanges,    \* bound: players who come to meet a rule, or cease to
  MaxFaults,     \* bound: crashes, e-mails and statements of the loop that fail
  MaxInitFaults, \* bound: failures of the initialisation at start-up
  NULL

ASSUME CatalogAssumption ==
  /\ Catalog \in [Node -> SUBSET Code]
  /\ Running \subseteq Node /\ Successor \subseteq Node
  /\ NULL \notin User \union Code

VARIABLES
  meets,      \* pairs <<user, code>>: the rule of the badge holds
  row,        \* row[u][c]: the row of achievements, and its notified_at
  recorded,   \* the table badge_notify_codes
  node,       \* where each node stands and what it has read
  mailed,     \* pairs <<user, code>>: an e-mail has announced the badge
  unlocked,   \* pairs <<user, code>> granted when the code was recorded: no part of the program
  spent       \* how much of each bound is used: no part of the program

vars == <<meets, row, recorded, node, mailed, unlocked, spent>>

Pairs == User \X Code

NoRows == [u \in User |-> {}]

Down == [pc |-> "down", codes |-> {}, batch |-> NoRows, at |-> NULL]

At(n, pc) == node[n].pc = pc

Goto(n, pc) == node' = [node EXCEPT ![n] = [Down EXCEPT !.pc = pc]]

Spend(what) == spent' = [spent EXCEPT ![what] = @ + 1]

Init ==
  /\ recorded = UNION {Catalog[n] : n \in Running}
  /\ row \in [User -> [Code -> {"none", "announced"}]]
  /\ \A u \in User, c \in Code : row[u][c] = "announced" => c \in recorded
  /\ meets = {p \in Pairs : row[p[1]][p[2]] = "announced"}
  /\ node = [n \in Node |-> IF n \in Running THEN [Down EXCEPT !.pc = "evaluate"] ELSE Down]
  /\ mailed = {}
  /\ unlocked = {}
  /\ spent = [changes |-> 0, faults |-> 0, inits |-> 0]

\* Results come in: a rule is met, or a correction takes it back.
Change(p) ==
  /\ spent.changes < MaxChanges
  /\ meets' = IF p \in meets THEN meets \ {p} ELSE meets \union {p}
  /\ Spend("changes")
  /\ UNCHANGED <<row, recorded, node, mailed, unlocked>>

\* Mutant of EvaluateAll: the row of a rule that is no longer met is deleted.
EvaluateAllRevoking(n) ==
  LET granted == {p \in meets : p[2] \in Catalog[n] /\ row[p[1]][p[2]] = "none"} IN
  /\ row' = [u \in User |-> [c \in Code |->
               IF <<u, c>> \in granted THEN "unannounced"
               ELSE IF <<u, c>> \in meets \/ c \notin Catalog[n] THEN row[u][c] ELSE "none"]]
  /\ unlocked' = unlocked \union {p \in granted : p[2] \in recorded}
  /\ UNCHANGED <<meets, recorded, mailed, spent>>

(***************************************************************************)
(* achievements::evaluate_all, at start-up and in the loop: a row is       *)
(* inserted once and never deleted.                                        *)
(***************************************************************************)
EvaluateAll(n) ==
  LET granted == {p \in meets : p[2] \in Catalog[n] /\ row[p[1]][p[2]] = "none"} IN
  /\ row' = [u \in User |-> [c \in Code |->
               IF <<u, c>> \in granted THEN "unannounced" ELSE row[u][c]]]
  /\ unlocked' = unlocked \union {p \in granted : p[2] \in recorded}
  /\ UNCHANGED <<meets, recorded, mailed, spent>>

-----------------------------------------------------------------------------
(***************************************************************************)
(* Start-up: init_badge_notifications runs to its end before the loop.     *)
(***************************************************************************)
Start(n) ==
  /\ At(n, "down")
  /\ Goto(n, "boot")
  /\ UNCHANGED <<meets, row, recorded, mailed, unlocked, spent>>

BootEvaluate(n) ==
  /\ At(n, "boot")
  /\ EvaluateAll(n)
  /\ Goto(n, "codes")

\* The codes of this release that are new.
ReadCodes(n) ==
  /\ At(n, "codes")
  /\ node' = [node EXCEPT ![n].pc = "stamp", ![n].codes = Catalog[n] \ recorded]
  /\ UNCHANGED <<meets, row, recorded, mailed, unlocked, spent>>

Announce(u, codes) ==
  [row EXCEPT ![u] = [c \in Code |-> IF c \in codes /\ @[c] = "unannounced" THEN "announced" ELSE @[c]]]

\* Mutant of StampGrants: the code is recorded first; RecordCode then stamps nothing.
RecordFirst(n, c) ==
  /\ At(n, "stamp")
  /\ c \in node[n].codes
  /\ recorded' = recorded \union {c}
  /\ node' = [node EXCEPT ![n].pc = "record", ![n].at = c]
  /\ UNCHANGED <<meets, row, mailed, unlocked, spent>>

\* Every grant of a new code counts as announced, ...
StampGrants(n, c) ==
  /\ At(n, "stamp")
  /\ c \in node[n].codes
  /\ row' = [u \in User |-> Announce(u, {c})[u]]
  /\ node' = [node EXCEPT ![n].pc = "record", ![n].at = c]
  /\ UNCHANGED <<meets, recorded, mailed, unlocked, spent>>

\* ... and then, in another statement, the code is recorded.
RecordCode(n) ==
  /\ At(n, "record")
  /\ recorded' = recorded \union {node[n].at}
  /\ node' = [node EXCEPT ![n].pc = "stamp", ![n].codes = @ \ {node[n].at}, ![n].at = NULL]
  /\ UNCHANGED <<meets, row, mailed, unlocked, spent>>

InitEnds(n) ==
  /\ At(n, "stamp")
  /\ node[n].codes = {}
  /\ Goto(n, "evaluate")
  /\ UNCHANGED <<meets, row, recorded, mailed, unlocked, spent>>

\* An error of the database: main logs it and starts the loop all the same.
InitFails(n) ==
  /\ node[n].pc \in {"boot", "codes", "stamp", "record"}
  /\ spent.inits < MaxInitFaults
  /\ Goto(n, "evaluate")
  /\ Spend("inits")
  /\ UNCHANGED <<meets, row, recorded, mailed, unlocked>>

-----------------------------------------------------------------------------
(***************************************************************************)
(* The loop: evaluate_all, then send_badge_unlocks.                        *)
(***************************************************************************)
LoopEvaluate(n) ==
  /\ At(n, "evaluate")
  /\ EvaluateAll(n)
  /\ Goto(n, "rows")

ReadRows(n) ==
  /\ At(n, "rows")
  /\ node' = [node EXCEPT ![n].pc = "mail",
                          ![n].batch = [u \in User |-> {c \in Code : row[u][c] = "unannounced"}]]
  /\ UNCHANGED <<meets, row, recorded, mailed, unlocked, spent>>

Known(n, u) == node[n].batch[u] \intersect Catalog[n]

\* One e-mail for all the badges of a player this release knows.
Send(n, u) ==
  /\ At(n, "mail")
  /\ Known(n, u) # {}
  /\ mailed' = mailed \union ({u} \X Known(n, u))
  /\ node' = [node EXCEPT ![n].pc = "mark", ![n].at = u]
  /\ UNCHANGED <<meets, row, recorded, unlocked, spent>>

\* Mutant of TakeNext: the player stays in the batch.
TakeNextAgain(n) == node' = [node EXCEPT ![n].pc = "mail", ![n].at = NULL]

TakeNext(n) == node' = [node EXCEPT ![n].pc = "mail", ![n].batch[node[n].at] = {}, ![n].at = NULL]

\* Mutant of Mark: whatever the player had in the batch is stamped.
MarkAll(n) ==
  /\ At(n, "mark")
  /\ row' = Announce(node[n].at, node[n].batch[node[n].at])
  /\ TakeNext(n)
  /\ UNCHANGED <<meets, recorded, mailed, unlocked, spent>>

\* Only the codes the e-mail named are stamped: a newer release knows the others.
Mark(n) ==
  /\ At(n, "mark")
  /\ row' = Announce(node[n].at, Known(n, node[n].at))
  /\ TakeNext(n)
  /\ UNCHANGED <<meets, recorded, mailed, unlocked, spent>>

\* The players whose badges are all unknown to this release are passed over.
PassEnds(n) ==
  /\ At(n, "mail")
  /\ \A u \in User : Known(n, u) = {}
  /\ Goto(n, "evaluate")
  /\ UNCHANGED <<meets, row, recorded, mailed, unlocked, spent>>

\* An e-mail that is refused leaves its rows for the next pass.
SendFails(n, u) ==
  /\ At(n, "mail")
  /\ Known(n, u) # {}
  /\ spent.faults < MaxFaults
  /\ node' = [node EXCEPT ![n].batch[u] = {}]
  /\ Spend("faults")
  /\ UNCHANGED <<meets, row, recorded, mailed, unlocked>>

\* The stamp fails after the e-mail went out: the batch goes on.
MarkFails(n) ==
  /\ At(n, "mark")
  /\ spent.faults < MaxFaults
  /\ TakeNext(n)
  /\ Spend("faults")
  /\ UNCHANGED <<meets, row, recorded, mailed, unlocked>>

\* evaluate_all or the SELECT fails: the loop logs it and goes on.
JobFails(n) ==
  /\ spent.faults < MaxFaults
  /\ \/ At(n, "evaluate") /\ Goto(n, "rows")
     \/ At(n, "rows") /\ Goto(n, "evaluate")
  /\ Spend("faults")
  /\ UNCHANGED <<meets, row, recorded, mailed, unlocked>>

Crash(n) ==
  /\ ~ At(n, "down")
  /\ spent.faults < MaxFaults
  /\ Goto(n, "down")
  /\ Spend("faults")
  /\ UNCHANGED <<meets, row, recorded, mailed, unlocked>>

Boot(n) ==
  \/ Start(n) \/ BootEvaluate(n) \/ ReadCodes(n)
  \/ \E c \in Code : StampGrants(n, c)
  \/ RecordCode(n) \/ InitEnds(n)

Loop(n) ==
  \/ LoopEvaluate(n) \/ ReadRows(n) \/ PassEnds(n)
  \/ \E u \in User : Send(n, u)
  \/ Mark(n)

Fault(n) ==
  \/ InitFails(n)
  \/ \E u \in User : SendFails(n, u)
  \/ MarkFails(n) \/ JobFails(n) \/ Crash(n)

Next ==
  \/ \E p \in Pairs : Change(p)
  \/ \E n \in Node : Boot(n) \/ Loop(n) \/ Fault(n)

(***************************************************************************)
(* The nodes of the new release are kept up and their loop never ends; the *)
(* old ones may be stopped at any time.                                    *)
(***************************************************************************)
Spec == Init /\ [][Next]_vars

FairSpec == Spec /\ \A n \in Successor : WF_vars(Boot(n) \/ Loop(n))

-----------------------------------------------------------------------------
NodeState ==
  [pc : {"down", "boot", "codes", "stamp", "record", "evaluate", "rows", "mail", "mark"},
   codes : SUBSET Code, batch : [User -> SUBSET Code], at : User \union Code \union {NULL}]

\* The types; a badge that was announced keeps its row, even when its rule is no
\* longer met; the code being stamped, the player being mailed, are the node's own.
TypeOK ==
  /\ meets \subseteq Pairs
  /\ row \in [User -> [Code -> {"none", "unannounced", "announced"}]]
  /\ recorded \subseteq Code
  /\ node \in [Node -> NodeState]
  /\ mailed \subseteq Pairs
  /\ unlocked \subseteq Pairs
  /\ spent \in [changes : Nat, faults : Nat, inits : Nat]
  /\ \A p \in mailed \union unlocked : row[p[1]][p[2]] # "none"
  /\ \A n \in Node : At(n, "record") => node[n].at \in node[n].codes
  /\ \A n \in Node : At(n, "mark") => node[n].at \in User /\ Known(n, node[n].at) # {}

(***************************************************************************)
(* Turning the e-mails on, or adding a badge, never announces the history: *)
(* a badge that is announced was unlocked after its code was recorded.     *)
(* The comment over the call of init_badge_notifications in main.rs says   *)
(* so.  An initialisation that fails breaks it: the loop starts anyway.    *)
(***************************************************************************)
NoBlast == mailed \subseteq unlocked

\* As long as no initialisation has failed, crashes in its course included, it holds.
NoBlastOnceInitialised == spent.inits = 0 => NoBlast

(***************************************************************************)
(* No unlock is dropped: a row is stamped only once an e-mail has gone out,*)
(* be it by a node that does not know the badge, or by an initialisation   *)
(* that runs while another node grants it.                                 *)
(***************************************************************************)
StampedWasMailed ==
  \A p \in unlocked : row[p[1]][p[2]] = "announced" => p \in mailed

(***************************************************************************)
(* No pass of a node that is kept up lasts for ever, whatever it finds in  *)
(* the table and whatever is refused: the next one reads the rows again.   *)
(***************************************************************************)
PassesEnd == \A n \in Successor : []<><<PassEnds(n)>>_vars

(***************************************************************************)
(* Every unlock is announced in the end, whatever e-mails were refused,    *)
(* statements failed and nodes crashed before.                             *)
(***************************************************************************)
UnlocksAreMailed == \A p \in Pairs : p \in unlocked ~> p \in mailed
=============================================================================
