CONSTANTS
  ada = ada
  bob = bob
  cy = cy
  here = here
  there = there
  final = final
  laptop = laptop
  desk = desk
  phone = phone
  NULL = NULL
  User <- MCUser
  Space <- MCSpace
  SpaceOf <- MCSpaceOf
  Joined <- MCJoined
  Standing <- MCStanding
  Allowance <- MCAllowance
  Match <- MCMatch
  Score <- MCScore
  Device <- MCDevice
  Native <- MCNative
  FirstSubs <- MCFirstSubs
  Tier <- MCTier
  AskedTier <- MCAskedTier
SPECIFICATION Spec
INVARIANT TypeOK
INVARIANT NoRepeat
INVARIANT GoalsAreTold
INVARIANT ClimbsToldOnce
INVARIANT PotIsCash
INVARIANT PotIsWon
PROPERTY LiveSubsStay
