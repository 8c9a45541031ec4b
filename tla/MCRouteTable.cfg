SPECIFICATION FairSpec
CONSTANTS
  Children = {child}
  MaxConnections = 2
  MaxFailures = 1
  Delayed = TRUE
  Durable = TRUE
INVARIANTS
  StoppedIsUnrouted
PROPERTIES
  ExpiredLeaves
CHECK_DEADLOCK FALSE
