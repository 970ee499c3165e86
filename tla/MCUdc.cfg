CONSTANTS
  Req = {r1, r2, r3, r4}
  None = None
  Kinds = {"one", "many", "upload"}
  Length = {1, 2}
  MaxCmd = 3
  MaxStop = 1
  MaxReset = 0
SPECIFICATION FairSpec
INVARIANTS TypeOK FreedNotQueued FifoIsFreed ListIsEmpty
PROPERTIES ImplementsQueue WaitingIsAnswered
