SPECIFICATION FairSpec
CONSTANTS
  Groups <- FiveAndSplit
  Synced = TRUE
INVARIANTS
  NeighboursAreRight
PROPERTIES
  CreationEnds
CHECK_DEADLOCK FALSE
