----------------------------- MODULE MCBadgeMail -----------------------------
(***************************************************************************)
(* A rolling deploy: the old node knows one badge, the new one brings a    *)
(* second.                                                                 *)
(***************************************************************************)
EXTENDS BadgeMail, TLC

CONSTANTS ada, bob, streak_5, potd_3, old, new

MCUser == {ada, bob}
MCCode == {streak_5, potd_3}
MCNode == {old, new}
MCCatalog == old :> {streak_5} @@ new :> {streak_5, potd_3}
MCRunning == {old}
MCSuccessor == {new}

\* Two nodes of the same release that are started together.
MCSameCatalog == old :> {potd_3} @@ new :> {potd_3}
=============================================================================
