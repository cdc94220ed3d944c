SPECIFICATION FairSpec
CONSTANTS
  Size = 4
  Kinds = {"barrier", "shift", "sum", "max", "gather", "scan"}
  NumOps = 2
  Cap <- LeastRoom
INVARIANTS
  ResultsAreRight
  NobodyLeavesEarly
  NoMixing
PROPERTIES
  OperationsEnd
CHECK_DEADLOCK FALSE
