SPECIFICATION Spec
CONSTANTS
  Disk <- MCDisk
  BlockSize = 2
  BuffSize = 6
  Wrap = 16
  StackDepth = 3
  StdioBuffer = 4
  Jobs <- MCUnreadable
  Today <- MCToday
  MaxFaults = 0
INVARIANT SkipsToNextItem
\* The program ends, or dies.
CHECK_DEADLOCK FALSE
