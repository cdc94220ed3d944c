SPECIFICATION FairSpec
CONSTANTS
  SeqMod = 7
  RecvWin = 2
  SendWin = 1
  MaxAckPending = 1
  MaxRetry = 1
  Patient = TRUE
  MaxToss = 0
  MaxWire = 20
  MaxWrites <- LiveWrites
PROPERTIES
  StreamCompletes
CHECK_DEADLOCK FALSE
