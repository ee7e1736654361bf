CONSTANTS
  ada = ada
  bob = bob
  evening = evening
  night = night
  one_nil = one_nil
  one_all = one_all
  NULL = NULL
  User <- MCUser
  Match <- MCMatch
  Score <- MCScore
  Kickoff <- MCKickoff
  Lead = 0
  PreviewHour = 2
  Midnight = 2
  DigestHour = 3
  Cutoff = 4
  Horizon = 4
  MaxReports = 2
  MaxBets = 0
  MaxMishaps = 1
  MaxManual = 1
SPECIFICATION FairSpec
INVARIANT NoSpareCopies
INVARIANT DigestIsComplete
INVARIANT FirmPointsAgree
PROPERTY DigestGoesOut
PROPERTY TickerComesBack
