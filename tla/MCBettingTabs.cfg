CONSTANTS
  ada = ada
  adaElsewhere = adaElsewhere
  opener = opener
  decider = decider
  group = group
  tab = tab
  otherTab = otherTab
  NULL = NULL
  User <- MCUser
  Match <- MCMatch
  Stage <- MCStage
  Score <- MCScore
  Tab <- TwoTabs
  Elsewhere <- MCElsewhere
  Feed <- MCFeed
  Calendars <- MCCalendars
  Entered <- MCEntered
  Active <- MCActive
  Horizon = 2
  MaxRequests = 3
  MaxSyncs = 0
  MaxFaults = 0
SPECIFICATION Spec
INVARIANT OneJokerPerPhase
