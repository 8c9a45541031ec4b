SPECIFICATION FairSpec
CONSTANTS
  StoreKinds = {TRUE, FALSE}
  ExpectedTypes <- AckOnly
  MaxRetries = 1
  RetryDelays = {1}
  Timeout = 3
  ShutdownGrace = 1
  SweepGrace = 1
  DeliverMayThrow = FALSE
  MaxTime = 3
  MaxAnswers = 1
  MaxStarts = 2
INVARIANTS
  PendingIsGuarded
PROPERTIES
  AckSettles
  StopCompletes
