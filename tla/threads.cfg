SPECIFICATION Spec
CONSTANTS
  Apps = {main}
  Kinds = {"packet", "request"}
  Nobody = Nobody
  MaxArrive = 1
  MaxWrites = 1
  Rounds = 2
  Cancel = FALSE
INVARIANTS
  NoLostWakeup
  DestroyedInPeace
PROPERTIES
  WaitReturns
  CloseReturns
CHECK_DEADLOCK FALSE
