CONSTANTS
  ada = ada
  bob = bob
  opener = opener
  left = left
  right = right
  decider = decider
  group = group
  final = final
  NULL = NULL
  User <- MCUser
  Match <- MCMatch
  Score <- MCScore
  Entered <- MCEntered
  Doubled <- MCDoubled
  Kickoff <- MCKickoff
  Orders <- MCOrders
  UtcDate <- MCKickoff
  Matchday <- MCKickoff
  Stage <- MCStage
  NameRank <- MCNameRank
  Reports <- MCReports
  PastWinners <- MCPastWinners
  PointTiers <- MCPointTiers
  StreakTiers <- MCStreakTiers
  PotdTiers <- MCPotdTiers
  MaxDigests = 2
  MaxUpsets = 1
SPECIFICATION FairSpec
INVARIANT TypeOK
PROPERTY StreaksSettle
PROPERTY GivenAreDeserved
PROPERTY EvaluationIsComplete
PROPERTY DeservedAreGiven
