\* One client and one connect request; time passes every limit.
SPECIFICATION Spec
CONSTANTS
  Gateways = {g1}
  Clients = {c1}
  Sockets = {s1, s2, s3}
  ReqIds = {r1}
  None = None
  OwnerLease = 2
  OwnerTouchInterval = 1
  ConnectStartTtl = 1
  ChallengeTtl = 1
  AwaitingTtl = 1
  IdleTimeout = 2
  HeartbeatInterval = 2
  MaxTime = 3
  Hibernation = FALSE
  LateFrames = TRUE
SYMMETRY Symmetry
PROPERTIES
  TimeoutCloseJustified
  WaitEndsInChallenge
CHECK_DEADLOCK FALSE
