SPECIFICATION Spec
CONSTANT Worlds <- MCWorlds
INVARIANT LatestIsTakenBack
\* The program ends.
CHECK_DEADLOCK FALSE
