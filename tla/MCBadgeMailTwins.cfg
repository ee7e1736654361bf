CONSTANTS
  ada = ada
  bob = bob
  streak_5 = streak_5
  potd_3 = potd_3
  old = old
  new = new
  NULL = NULL
  User <- MCUser
  Code <- MCCode
  Node <- MCNode
  Catalog <- MCSameCatalog
  Running = {}
  Successor <- MCSuccessor
  MaxChanges = 2
  MaxFaults = 0
  MaxInitFaults = 0
SPECIFICATION Spec
INVARIANT StampedWasMailed
