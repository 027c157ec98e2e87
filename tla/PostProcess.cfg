SPECIFICATION FairSpec
CONSTANTS
  ExtentLen = 4
  StampRatio = 2
  Junk <- MCJunk
  Disks <- MCDisks
  Sizes <- MCSizes
  Chunk = 4
  MaxCrashes = 2
  MaxRemovals = 1
INVARIANTS
  TypeOK
  NothingForgotten
  RestartEquivalence
  OnePerNumber
  FullExtentsSurvive
  RemovedStaysAway
PROPERTIES
  ReachesRecovery
  IsAFilterChain
\* The postprocessing stops when it is done.
CHECK_DEADLOCK FALSE
