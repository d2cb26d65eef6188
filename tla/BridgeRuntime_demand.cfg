\* One client that comes and goes, three frames, two sockets of each side.
SPECIFICATION FairSpec
CONSTANTS
  RelaySockets = {1, 2}
  GatewaySockets = {3, 4}
  None = None
  MaxClients = 1
  MaxFrames = 3
  MaxPending = 2
INVARIANTS
  RelayAlwaysPursued
  NoSocketLeaks
  DemandPursued
  SessionStaysStarted
PROPERTIES
  SessionsSeparate
  LatestConnectKept
  StopIsFinal
  ConnectNotStranded
CHECK_DEADLOCK FALSE
