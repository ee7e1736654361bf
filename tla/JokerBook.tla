------------------------------ MODULE JokerBook ------------------------------
(***************************************************************************)
(* What the betting handlers promise of the joker (src/routes/bets.rs,     *)
(* doc of toggle_joker): every change of a prediction or of a joker is one *)
(* atomic step on the book, and a player's joker of a phase is MOVED, never*)
(* added.  Kickoffs, requests and points do not exist here.                *)
(***************************************************************************)
CONSTANTS
  User,     \* memberships: one player in one space
  Match,
  Score,    \* predictions a player may enter
  Phase,    \* Phase[m]: the competition phase of match m
  NULL      \* no prediction

VARIABLES
  predicted,   \* predicted[u][m]: a score, or NULL
  joker        \* joker[u]: the matches player u has doubled

Init ==
  /\ predicted \in [User -> [Match -> Score \union {NULL}]]
  /\ joker = [u \in User |-> {}]

Predict(u, m, s) ==
  /\ predicted' = [predicted EXCEPT ![u][m] = s]
  /\ UNCHANGED joker

(***************************************************************************)
(* Copy predictions of another space: fills the blanks only, a prediction  *)
(* already there stays.                                                    *)
(***************************************************************************)
Fill(u, copied) ==
  /\ predicted' = [predicted EXCEPT ![u] =
                      [m \in Match |-> IF @[m] = NULL THEN copied[m] ELSE @[m]]]
  /\ UNCHANGED joker

TakeBack(u, m) ==
  /\ m \in joker[u]
  /\ joker' = [joker EXCEPT ![u] = @ \ {m}]
  /\ UNCHANGED predicted

Move(u, m) ==
  /\ predicted[u][m] # NULL
  /\ joker' = [joker EXCEPT ![u] =
                 {m} \union {other \in @ : Phase[other] # Phase[m]}]
  /\ UNCHANGED predicted

Next ==
  \E u \in User :
    \/ \E m \in Match, s \in Score : Predict(u, m, s)
    \/ \E copied \in [Match -> Score \union {NULL}] : Fill(u, copied)
    \/ \E m \in Match : TakeBack(u, m) \/ Move(u, m)

vars == <<predicted, joker>>

Spec == Init /\ [][Next]_vars
=============================================================================
