SPECIFICATION StatusFairSpec
CONSTANTS
  MaxChanges = 2
  MaxPowers = 1
PROPERTY StatusConverges
CHECK_DEADLOCK FALSE
