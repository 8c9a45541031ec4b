SPECIFICATION Spec
CONSTANTS
  StoreKinds = {TRUE}
  ExpectedTypes <- AllExpectations
  MaxRetries = 1
  RetryDelays = {1, 2}
  Timeout = 3
  ShutdownGrace = 1
  SweepGrace = 1
  DeliverMayThrow = TRUE
  MaxTime = 4
  MaxAnswers = 2
  MaxStarts = 1
INVARIANTS
  RetriesBoundedInMemory
  ResolvedIsRecorded
PROPERTIES
  AnswerSticks
