SPECIFICATION FairSpec
CONSTANTS
  f1 = f1
  c1 = c1
  c2 = c2
  c3 = c3
  Flows = {f1}
  Callers = {c1, c2, c3}
  InitialWindow = 2
  Deltas <- Adjustments
  MaxSupply = 5
  MaxWindowId = 2
INVARIANTS
  NoLostWakeup
  NoOverdraw
PROPERTIES
  StreamWellFormed
  ImplementsPool
  ServesWaiters
