CONSTANTS
  ada = ada
  adaElsewhere = adaElsewhere
  opener = opener
  decider = decider
  group = group
  tab = tab
  otherTab = otherTab
  NULL = NULL
  User <- MCUser
  Match <- MCMatch
  Stage <- MCStage
  Score <- MCScore
  Tab <- OneTab
  Elsewhere <- MCElsewhere
  Feed <- MCFeed
  Calendars <- MCCalendars
  Entered <- MCEntered
  Active <- MCActive
  Horizon = 2
  MaxRequests = 3
  MaxSyncs = 1
  MaxFaults = 1
SPECIFICATION FairSpec
INVARIANT TypeOK
INVARIANT OneJokerPerPhase
PROPERTY AtomicBook
PROPERTY NoHindsight
PROPERTY PointsSettle
PROPERTY GradingGoesOn
