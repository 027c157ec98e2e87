SPECIFICATION FairSpec
CONSTANTS
  Disk <- MCDisk
  BlockSize = 2
  BuffSize = 6
  Wrap = 16
  StackDepth = 3
  StdioBuffer = 4
  Jobs <- MCJobs
  Today <- MCToday
  MaxFaults = 2
INVARIANTS
  TypeOK
  QueueIsComplete
  ReadableIsRestored
  SizeIsExact
  NothingMisplaced
  DirTimesStay
PROPERTIES
  RestoredIsKept
  Ends
\* The program ends.
CHECK_DEADLOCK FALSE
