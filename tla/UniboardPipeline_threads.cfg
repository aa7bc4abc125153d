\* Two polarizations on a team of one or two threads, two chunks.
SPECIFICATION FairSpec
CONSTANTS
  NumPols = 2
  OpenMP = TRUE
  MaxChunks = 2
  Nothing = Nothing
INVARIANTS
  TypeInv
  OwnVisibilities
  PrivateModules
  RightAlone
PROPERTY EveryChunkImaged
CHECK_DEADLOCK FALSE
