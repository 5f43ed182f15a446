SPECIFICATION FairSpec
CONSTANTS
  stats = stats
  console = console
  Reader = Reader
  NoOne = NoOne
  Streams <- TwoStreams
  MaxSends = 2
  MaxFrames = 1
  Room = 1
INVARIANTS
  FramesWhole
PROPERTY SessionEnds
CHECK_DEADLOCK FALSE
