------------------------------- MODULE Stakes -------------------------------
(***************************************************************************)
(* Stakes and the pot: a player chooses a stake until the deadline, an     *)
(* administrator collects it and marks it paid, and the leaderboard page   *)
(* shares the pot among the best three who paid (src/stakes.rs,            *)
(* src/routes/stake.rs, src/routes/admin.rs, src/routes/leaderboard.rs).   *)
(*                                                                         *)
(* The choice is tested on the user row read when the request came in and  *)
(* stored by a later statement; the page reads the board and the pot one   *)
(* after the other.                                                        *)
(***************************************************************************)
EXTENDS Board, FiniteSetsExt

CONSTANTS
  Tier,       \* ALLOWED_TIERS
  AskedTier   \* bound: the tiers the form may ask for

ASSUME TierAssumption == Tier \subseteq Nat \ {0} /\ AskedTier \subseteq Nat \ {0}

VARIABLES
  stake,     \* users.stake_eur, 0 for NULL
  paid,      \* the players with a paid_at
  late,      \* the stake deadline has passed
  asking,    \* choices let in and not stored yet: <<player, tier, had he paid?>>
  page,      \* a leaderboard page being put together
  cashed,    \* what an administrator collected of each: no part of the program
  slipped    \* players whose choice was stored over a payment: no part either

stakeVars == <<stake, paid, late, asking, page, cashed, slipped>>

NoPage == [pc |-> "none", space |-> NULL, top |-> {}, pot |-> 0, won |-> {}, torn |-> FALSE]

StakesInit ==
  /\ stake = [u \in User |-> 0]
  /\ paid = {}
  /\ late = FALSE
  /\ asking = {}
  /\ page = NoPage
  /\ cashed = [u \in User |-> 0]
  /\ slipped = {}

-----------------------------------------------------------------------------
(***************************************************************************)
(* The form of a player: submit.                                           *)
(***************************************************************************)
\* Mutant of MayChoose: a stake that is paid may be chosen anew.
MayChooseAgain(u, tier) == ~ late /\ tier \in Tier

MayChoose(u, tier) == u \notin paid /\ ~ late /\ tier \in Tier

AskStake(u, tier) ==
  /\ MayChoose(u, tier)
  /\ Spend("asks")
  /\ asking' = asking \union {<<u, tier, u \in paid>>}
  /\ UNCHANGED <<stake, paid, late, page, cashed, slipped>>

StoreStake(u, tier, had) ==
  /\ <<u, tier, had>> \in asking
  /\ asking' = asking \ {<<u, tier, had>>}
  /\ stake' = [stake EXCEPT ![u] = tier]
  /\ slipped' = IF u \in paid /\ ~ had THEN slipped \union {u} ELSE slipped
  /\ UNCHANGED <<paid, late, page, cashed, left>>

DeadlinePasses ==
  /\ ~ late
  /\ Spend("deadlines")
  /\ late' = TRUE
  /\ UNCHANGED <<stake, paid, asking, page, cashed, slipped>>

-----------------------------------------------------------------------------
(***************************************************************************)
(* The administrator: mark_paid and mark_unpaid.                           *)
(***************************************************************************)
Torn == [page EXCEPT !.torn = @ \/ page.pc = "pot"]

MarkPaid(u) ==
  /\ stake[u] # 0
  /\ Spend("marks")
  /\ paid' = paid \union {u}
  /\ cashed' = IF u \in paid THEN cashed ELSE [cashed EXCEPT ![u] = stake[u]]
  /\ page' = Torn
  /\ UNCHANGED <<stake, late, asking, slipped>>

MarkUnpaid(u) ==
  /\ Spend("marks")
  /\ paid' = paid \ {u}
  /\ cashed' = [cashed EXCEPT ![u] = 0]
  /\ slipped' = slipped \ {u}
  /\ page' = Torn
  /\ UNCHANGED <<stake, late, asking>>

-----------------------------------------------------------------------------
(***************************************************************************)
(* The leaderboard page: who wins what.                                    *)
(***************************************************************************)
\* BASE_SHARES, in tenths.
BaseShare == <<5, 3, 2>>

\* top_paid_from_leaderboard: the first three of those who paid, with their places.
TopPaid(s) ==
  LET Payers   == {u \in Members(s) : u \in paid /\ stake[u] # 0}
      Place(u) == 1 + Cardinality({v \in Payers : Ahead(v, u)})
  IN  {[user |-> u, place |-> Place(u), stake |-> stake[u]] : u \in {v \in Payers : Place(v) <= 3}}

\* Mutant of Pot: the stakes not paid yet are counted.
PotOfPromises(s) == FoldSet(LAMBDA u, sum : stake[u] + sum, 0, Members(s))

\* load_pot.
Pot(s) == FoldSet(LAMBDA u, sum : stake[u] + sum, 0, Members(s) \intersect paid)

(***************************************************************************)
(* compute_payouts: the pot is shared by weight, the base share of the     *)
(* place times the stake.                                                  *)
(***************************************************************************)
Payouts(pot, top) ==
  IF pot <= 0 THEN {} ELSE {[user |-> t.user, weight |-> BaseShare[t.place] * t.stake] : t \in top}

ReadBoard(s) ==
  /\ page.pc = "none"
  /\ Spend("pages")
  /\ page' = [NoPage EXCEPT !.pc = "pot", !.space = s, !.top = TopPaid(s)]
  /\ UNCHANGED <<stake, paid, late, asking, cashed, slipped>>

ReadPot ==
  /\ page.pc = "pot"
  /\ LET pot == Pot(page.space)
     IN  page' = [page EXCEPT !.pc = "shown", !.pot = pot, !.won = Payouts(pot, page.top)]
  /\ UNCHANGED <<stake, paid, late, asking, cashed, slipped, left>>

LeavePage ==
  /\ page.pc = "shown"
  /\ page' = NoPage
  /\ UNCHANGED <<stake, paid, late, asking, cashed, slipped, left>>
=============================================================================
