SPECIFICATION FairSpec
CONSTANTS
  Keys = {a, b, c}
  None = None
  MaxSessions = 2
  MaxChunks = 2
  MaxCalls = 2
  MaxFaults = 2
INVARIANTS
  CommittedReadable
  ListedStay
  NothingLeftBehind
PROPERTIES
  RemovedStaysRemoved
  CallsEnd
CHECK_DEADLOCK FALSE
