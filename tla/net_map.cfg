SPECIFICATION Spec
CONSTANTS
  Keys = {1, 2, 3, 4, 5, 6, 7, 8, 9, 10, 11, 12}
  Values <- TwoForOne
  KeyLen = 2
  Other = {1, 5}
  Clients = {"a", "b"}
  Owner = "a"
  Messages <- MapThenStrings
  Fragile = {"a", "b"}
  SendKeys = {3, 4}
  Hdr = 2
  NameLen = 1
  Cap = 2
  Backlog = 1
INVARIANTS
  IsAVL
  ReadsAreRight
  PackRoundTrip
  
PROPERTIES
  
  TcpImplementsChannel
  MessagesArrive
CHECK_DEADLOCK FALSE
