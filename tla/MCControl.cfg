CONSTANTS
  MaxTransfer = 6
  MaxAbort = 3
  MaxReset = 3
SPECIFICATION FairSpec
INVARIANTS TypeOK DirectionInSync RequestIsThere
PROPERTIES FlipAfterData ControlEnds
CHECK_DEADLOCK FALSE
