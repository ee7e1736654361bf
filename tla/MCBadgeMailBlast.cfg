CONSTANTS
  ada = ada
  bob = bob
  streak_5 = streak_5
  potd_3 = potd_3
  old = old
  new = new
  NULL = NULL
  User <- MCUser
  Code <- MCCode
  Node <- MCNode
  Catalog <- MCCatalog
  Running <- MCRunning
  Successor <- MCSuccessor
  MaxChanges = 2
  MaxFaults = 1
  MaxInitFaults = 1
SPECIFICATION Spec
INVARIANT NoBlast
