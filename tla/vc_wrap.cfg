SPECIFICATION Spec
CONSTANTS
  SeqMod = 6
  RecvWin = 2
  SendWin = 1
  MaxAckPending = 1
  MaxRetry = 0
  Patient = FALSE
  MaxToss = 1
  MaxWire = 2
  MaxWrites <- WrapWrites
INVARIANTS
  InOrderExactlyOnce
  NoStalledSends
  NoFalseAck
  IInv
PROPERTIES
  AckNeverRetracts
  ImplementsChannel
CHECK_DEADLOCK FALSE
