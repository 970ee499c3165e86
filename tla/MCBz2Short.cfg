CONSTANTS
  Worker = {w1}
  MaxBlocks = 2
  Files <- AnyFile
SPECIFICATION Spec
INVARIANT NothingPastShort
CHECK_DEADLOCK FALSE
