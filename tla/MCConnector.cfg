SPECIFICATION FairSpec
CONSTANTS
  s1 = s1
  s2 = s2
  c1 = c1
  c2 = c2
  Senders = {s1, s2}
  Closers = {c1, c2}
  InitialWindow = 1
  MaxQueue = 2
  LoopsMayFail = TRUE
  MaxInbound = 2
INVARIANTS
  ShutdownOnce
  AtMostOneLate
  QueueIsRemainder
PROPERTIES
  WaiterReleased
  LoopsEnd
