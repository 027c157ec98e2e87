SPECIFICATION Spec
CONSTANT Worlds <- MCSoundPages
INVARIANT NextItemIsReached
\* The program ends.
CHECK_DEADLOCK FALSE
