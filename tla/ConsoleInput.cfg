SPECIFICATION FairSpec
CONSTANTS
  Tokens <- MCTokens
  Uuid = "here"
  Lens <- MCLens
  MaxMessages = 3
  MaxParts = 2
  MaxPings = 1
  MaxTime = 2
  Window = 1
INVARIANTS InOrder InStep AuthFirst ActsAsTold
 
CHECK_DEADLOCK FALSE
