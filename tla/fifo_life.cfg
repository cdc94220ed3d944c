SPECIFICATION FairSpec
CONSTANTS
  Procs <- Two
  Connectors <- Two
  PipeCap = 1
  PayloadSize = 1
  WriteSizes = {2}
  ReadSizes = {2}
  MaxChan = 2
  MaxUnits = 2
  MaxOpen <- BTwice
INVARIANTS
  ChannelsHaveReaders
  NothingOverlooked
  StreamsAreSeparate
PROPERTIES
  CloseReturns
CHECK_DEADLOCK FALSE
