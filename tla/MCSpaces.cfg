CONSTANTS
  ada = ada
  bob = bob
  cy = cy
  home = home
  club = club
  r1 = r1
  r2 = r2
  NULL = NULL
  GONE = GONE
  Email <- MCEmail
  Slug <- MCSlug
  Home = home
  HomeRow <- MCHomeRow
  Tid <- MCTid
  Uid <- MCUid
  Lid <- MCLid
  Iid <- MCIid
  Pid <- MCPid
  Sid <- MCSid
  Request <- MCRequest
  Mode <- MCMode
  DomainOf <- MCDomainOf
  Form <- MCForm
  Start <- MCStart
SYMMETRY Symmetry
SPECIFICATION Spec
INVARIANT TypeOK
INVARIANT NobodySlipsIn
INVARIANT OpenedOnce
INVARIANT StaleOnlyByRace
INVARIANT ReservedSlugs
PROPERTY KeepsAnAdmin
PROPERTY DeadStaysDead
