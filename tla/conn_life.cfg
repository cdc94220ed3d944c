SPECIFICATION Spec
CONSTANTS
  Procs <- Two
  Connectors <- Client
  MaxVC <- OneTwo
  MaxData <- ClientSpeaks
  MaxDiscRetry = 0
  MaxRetry = 1
  MaxWire = 2
  Patient = FALSE
INVARIANTS
  ReferencesAreLive
  OneEntryPerRequest
CHECK_DEADLOCK FALSE
