----------------------------- MODULE MCContest ------------------------------
(***************************************************************************)
(* Three players in two spaces, a match, a phone, two browsers.  Each      *)
(* behaviour has one of a few allowances of events, so that the cases are  *)
(* explored one after the other.                                           *)
(***************************************************************************)
EXTENDS Contest, TLC

CONSTANTS ada, bob, cy, here, there, final, laptop, desk, phone

MCUser == {ada, bob, cy}
MCSpace == {here, there}
MCSpaceOf == ada :> here @@ bob :> here @@ cy :> there
MCJoined == ada :> 1 @@ bob :> 2 @@ cy :> 3
MCMatch == {final}
MCScore == {<<0, 0>>, <<1, 0>>}
MCDevice == {laptop, desk, phone}
MCNative == {phone}
MCFirstSubs == {<<ada, laptop>>, <<bob, laptop>>, <<cy, desk>>}
MCTier == {2, 5, 10}
MCAskedTier == {2, 3, 10}

Points(p, e) == [points |-> p, exact |-> e, settled |-> p]
MCStanding ==
  {[u \in MCUser |-> Points(0, 0)],
   [u \in MCUser |-> IF u = bob THEN Points(3, 1) ELSE Points(1, 0)],
   [u \in MCUser |-> IF u = ada THEN Points(4, 1) ELSE Points(3, 1)]}

Nothing == [reports |-> 0, others |-> 0, ages |-> 0, mishaps |-> 0, manual |-> 0, devices |-> 0,
            grades |-> 0, asks |-> 0, marks |-> 0, pages |-> 0, deadlines |-> 0]

MCAllowance ==
  {[Nothing EXCEPT !.reports = 3],
   [Nothing EXCEPT !.reports = 2, !.mishaps = 2],
   [Nothing EXCEPT !.reports = 2, !.others = 1, !.ages = 1],
   [Nothing EXCEPT !.reports = 2, !.manual = 1],
   [Nothing EXCEPT !.reports = 1, !.devices = 2],
   [Nothing EXCEPT !.grades = 3, !.mishaps = 1, !.devices = 1],
   [Nothing EXCEPT !.grades = 2, !.manual = 1],
   [Nothing EXCEPT !.asks = 2, !.marks = 2, !.deadlines = 1],
   [Nothing EXCEPT !.asks = 1, !.marks = 2, !.pages = 1, !.grades = 1]}
=============================================================================
