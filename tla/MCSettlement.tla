---------------------------- MODULE MCSettlement ----------------------------
(***************************************************************************)
(* Three matchdays: an opener, two matches that kick off together and whose*)
(* first may be corrected (either result makes another player of the day), *)
(* and a decider.  Ada has doubled left; Bob has no prediction on the      *)
(* opener and the decider.  Ada was the opener's player of the day.        *)
(***************************************************************************)
EXTENDS Settlement, TLC

CONSTANTS ada, bob, opener, left, right, decider, group, final

OneNil == [home |-> 1, away |-> 0]
TwoNil == [home |-> 2, away |-> 0]
NilOne == [home |-> 0, away |-> 1]

MCUser == {ada, bob}
MCMatch == {opener, left, right, decider}
MCScore == {OneNil, TwoNil, NilOne}

MCEntered ==
  ada :> (opener :> TwoNil @@ left :> TwoNil @@ right :> NilOne @@ decider :> TwoNil) @@
  bob :> (opener :> NULL @@ left :> OneNil @@ right :> OneNil @@ decider :> NULL)
MCDoubled == ada :> {left} @@ bob :> {}

MCKickoff == opener :> 1 @@ left :> 2 @@ right :> 2 @@ decider :> 3
MCOrders == {<<opener, left, right, decider>>, <<opener, right, left, decider>>}
MCStage == opener :> group @@ left :> group @@ right :> group @@ decider :> final
MCNameRank == ada :> 1 @@ bob :> 2

Timed == [status |-> "TIMED", result |-> NULL]
Finished(score) == [status |-> "FINISHED", result |-> score]

MCReports ==
  opener :> {Finished(OneNil)} @@
  left :> {Timed, Finished(OneNil), Finished(TwoNil)} @@
  right :> {Finished(OneNil)} @@
  decider :> {Finished(OneNil)}

MCPastWinners == 1 :> [user |-> ada, points |-> 1, exact |-> 0] @@ 2 :> NULL @@ 3 :> NULL

MCPointTiers == {5}
MCStreakTiers == {2}
MCPotdTiers == {2}
=============================================================================
