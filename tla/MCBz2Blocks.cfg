CONSTANTS
  Worker = {w1, w2}
  MaxBlocks = 3
  Files <- AnyFile
SPECIFICATION FairSpec
INVARIANTS
  TypeOK
  EachBlockOnce
  TakenIsComplete
  PublishedIsCopied
  LoadedIsWhole
PROPERTIES
  AvailableGrows
  TakenIsPublished
  ImplementsAsyncLoad
CHECK_DEADLOCK FALSE
