SPECIFICATION FairSpec
CONSTANTS
  TailSize = 2
  MaxLines = 3
  MaxTurns = 4
INVARIANTS
  NoDuplication
PROPERTIES
  AttachedDelivered
  Reattaches
CHECK_DEADLOCK FALSE
