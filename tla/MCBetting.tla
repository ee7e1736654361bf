------------------------------ MODULE MCBetting ------------------------------
(***************************************************************************)
(* Two matches of one phase; the first may be finished as a draw, then     *)
(* corrected to one decided on penalties (which do not count);             *)
(* the second starts before its kickoff.  One person is a member of two    *)
(* spaces.                                                                 *)
(***************************************************************************)
EXTENDS Betting, TLC

CONSTANTS ada, adaElsewhere, opener, decider, group, tab, otherTab

OneAll == [home |-> 1, away |-> 1]
TwoAll == [home |-> 2, away |-> 2]
None == [home |-> Missing, away |-> Missing]

MCUser == {ada, adaElsewhere}
MCMatch == {opener, decider}
MCStage == {group}
MCScore == {OneAll, TwoAll}
MCElsewhere == ada :> {adaElsewhere} @@ adaElsewhere :> {}

ARow(kickoff, status, result) ==
  [stage |-> group, kickoff |-> kickoff, status |-> status, result |-> result]

Drawn == [duration |-> "REGULAR", regular |-> None, extra |-> None, fullTime |-> OneAll]
OnPenalties == [duration |-> "PENALTY_SHOOTOUT", regular |-> OneAll, extra |-> OneAll,
                fullTime |-> [home |-> 7, away |-> 6]]

MCFeed ==
  opener :> {ARow(1, "TIMED", NULL), ARow(1, "FINISHED", ResultOf(Drawn)),
             ARow(1, "FINISHED", ResultOf(OnPenalties))} @@
  decider :> {ARow(2, "TIMED", NULL), ARow(1, "IN_PLAY", NULL), ARow(2, "FINISHED", ResultOf(Drawn))}

Before == opener :> ARow(1, "TIMED", NULL) @@ decider :> ARow(2, "TIMED", NULL)
After == opener :> ARow(1, "FINISHED", OneAll) @@ decider :> ARow(2, "TIMED", NULL)
MCCalendars == {Before, After}

MCEntered ==
  ada :> (opener :> OneAll @@ decider :> NULL) @@
  adaElsewhere :> (opener :> TwoAll @@ decider :> OneAll)
MCActive == {ada}

OneTab == {tab}
TwoTabs == {tab, otherTab}
=============================================================================
