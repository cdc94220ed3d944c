SPECIFICATION Spec
CONSTANTS
  Procs <- Two
  Connectors <- Client
  MaxVC <- TwoTwo
  MaxData <- Silent
  MaxDiscRetry = 1
  MaxRetry = 0
  MaxWire = 2
  Patient = FALSE
INVARIANTS
  HeldChannelsAreLive
  ChannelsArePaired
  RemoteClosedIsTrue
CHECK_DEADLOCK FALSE
