SPECIFICATION Spec
CONSTANTS
  ExtentLen = 4
  StampRatio = 2
  Junk <- MCJunk
  Disks <- MCDisks
  Sizes <- MCSizes
  Chunk = 4
  MaxCrashes = 1
  MaxRemovals = 1
INVARIANT WorkIsContinued
\* The postprocessing stops when it is done.
CHECK_DEADLOCK FALSE
