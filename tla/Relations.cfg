SPECIFICATION FairSpec
CONSTANT Worlds <- MCWorlds
INVARIANTS
  TypeOK
  IndexIsExact
  TakenBackOnce
  NothingListedIsLeft
  NamedWhereItLies
  PathsDiffer
  RootsCover
PROPERTY LoopsEnd
\* The program ends.
CHECK_DEADLOCK FALSE
