SPECIFICATION FairSpec
CONSTANTS
  MaxInitialAttempts = 2
  BackoffInitial = 1
  BackoffCap = 2
  QueueMax = 1
  MaxCycles = 2
  MaxMessages = 2
  MaxFrames = 1
  Starves = TRUE
INVARIANTS
  MessagesInOrder
  QueueAnnounced
  NothingStranded
  ParentAgrees
PROPERTIES
  LossNoticed
  StopsWhenUp
