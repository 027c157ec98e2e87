SPECIFICATION FairSpec
CONSTANTS
  Directories <- MCDirectories
  DTLHDRDATALEN <- MCHeader
  DTSLOTDATALEN <- MCSlot
  Heap <- MCHeap
  Strays <- MCStrays
  Foreign <- MCForeign
  StackDepth = 7
INVARIANTS
  TypeOK
  DamageCostsOnlyTheRest
  NothingIsInvented
  InsideTheBuffer
  DiesOnCirclesOnly
PROPERTY WalkEnds
\* The walk ends.
CHECK_DEADLOCK FALSE
