SPECIFICATION FairSpec
CONSTANTS
  ChunkInodes = 2
  Word = 65536
  DevSizes <- MCDevSizes
  Garbage <- MCGarbage
  MaxCrashes = 2
INVARIANTS
  TypeOK
  ScanComplete
  NoPhantom
  FoundInOrder
  ScannedIsLogged
  ExitsOnlyAtEdges
PROPERTIES
  RecordsAreKept
  RunsEnd
  EventuallyScanned
  KeepsItsPromise
\* The program stops when the scan is done.
CHECK_DEADLOCK FALSE
