\* Two gateway instances compete for the room, a client comes and goes, and the
\* object may lose its memory while its sockets stay open; no late frames.
SPECIFICATION Spec
CONSTANTS
  Gateways = {g1, g2}
  Clients = {c1}
  Sockets = {s1, s2, s3}
  ReqIds = {}
  None = None
  OwnerLease = 2
  OwnerTouchInterval = 1
  ConnectStartTtl = 0
  ChallengeTtl = 0
  AwaitingTtl = 0
  IdleTimeout = 1
  HeartbeatInterval = 1
  MaxTime = 4
  Hibernation = TRUE
  LateFrames = FALSE
SYMMETRY Symmetry
INVARIANTS
  OneGatewayOwnsRoom
  OpenClientsMapped
  AlarmArmedWhileClientsOpen
  OwnerNamesOpenGateway
PROPERTIES
  LeaseProtectsOwner
CHECK_DEADLOCK FALSE
