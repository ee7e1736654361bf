CONSTANTS
  ada = ada
  bob = bob
  evening = evening
  night = night
  one_nil = one_nil
  one_all = one_all
  NULL = NULL
  User <- MCUser
  Match <- MCMatch
  Score <- MCScore
  Kickoff <- MCKickoff
  Lead = 2
  PreviewHour = 0
  Midnight = 2
  DigestHour = 5
  Cutoff = 5
  Horizon = 2
  MaxReports = 0
  MaxBets = 1
  MaxMishaps = 1
  MaxManual = 1
SPECIFICATION Spec
SYMMETRY MembersAreAlike
INVARIANT TypeOK
INVARIANT RecordedWasTried
INVARIANT NoSpareCopies
