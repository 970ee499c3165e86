CONSTANTS
  Worker = {w1, w2}
  MaxBlocks = 2
  Files <- AnyFile
SPECIFICATION FairSpec
PROPERTY LoadEnds
CHECK_DEADLOCK FALSE
