SPECIFICATION FairSpec
CONSTANTS
  Procs <- Two
  Connectors <- Client
  MaxVC <- OneOne
  MaxData <- Silent
  MaxDiscRetry = 0
  MaxRetry = 0
  MaxWire = 20
  Patient = TRUE
PROPERTIES
  ConnectReturns
CHECK_DEADLOCK FALSE
