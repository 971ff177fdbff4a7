SPECIFICATION FairSpec
CONSTANTS
  Chunk = 2
  Tag = 1
  Header = 1
  Sizes <- MCSizes
  Retries = 1
  ReadSize = 2
  MaxRuns = 2
  MaxErrors = 2
  MaxCrashes = 1
  MaxChanges = 1
INVARIANTS TypeOK EveryByteInPlace OutIsWhole ChunksAreWhole GivesUpForCause SizesAgree
PROPERTY EveryDownloadEnds
CHECK_DEADLOCK FALSE
