----------------------------- MODULE MCMailings -----------------------------
(***************************************************************************)
(* Two members and a matchday of two matches, the second of which starts   *)
(* after midnight.                                                         *)
(***************************************************************************)
EXTENDS Mailings, TLC

CONSTANTS ada, bob, evening, night, one_nil, one_all

MCUser == {ada, bob}
MCMatch == {evening, night}
MCScore == {one_nil, one_all}
MCKickoff == evening :> 1 @@ night :> 2

MembersAreAlike == Permutations(MCUser)
=============================================================================
