SPECIFICATION FairSpec
CONSTANTS
  Messages = {a, b}
  MaxAttempts = 2
  MaxSends = 2
  MaxCrashes = 1
INVARIANTS
  AckedNotLost
  BuriedDeservedly
PROPERTIES
  RecoveryCompletes
CHECK_DEADLOCK FALSE
