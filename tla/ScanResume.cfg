SPECIFICATION Spec
CONSTANTS
  ChunkInodes = 2
  Word = 65536
  DevSizes <- MCDevSizes
  Garbage <- MCGarbage
  MaxCrashes = 2
INVARIANT WorkIsContinued
\* The program stops when the scan is done.
CHECK_DEADLOCK FALSE
