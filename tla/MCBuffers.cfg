CONSTANTS
  Client = {c1, c2}
  Buffer = {b1, b2}
  None = None
  Fs = {"flat", "tar", "fat", "member", "zip", "http", "single"}
  Changing = {"flat", "single"}
  Size = 2
  Parts <- FewParts
  MaxChange = 1
  MaxCalls = 3
SPECIFICATION Spec
INVARIANTS
  TypeOK
  SyncGetsLoaded
  CopiesInPlace
  NoWaiterForgotten
  LockHolderWorks
  HaveIsCurrent
PROPERTIES
  LoadsAsPromised
SYMMETRY Symmetry
CHECK_DEADLOCK FALSE
VIEW View
