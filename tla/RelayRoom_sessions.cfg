\* Two clients share the room with one gateway instance; the object stays in
\* memory.  Long on interleaving, short on time.
SPECIFICATION Spec
CONSTANTS
  Gateways = {g1}
  Clients = {c1, c2}
  Sockets = {s1, s2, s3}
  ReqIds = {}
  None = None
  OwnerLease = 2
  OwnerTouchInterval = 1
  ConnectStartTtl = 0
  ChallengeTtl = 0
  AwaitingTtl = 0
  IdleTimeout = 1
  HeartbeatInterval = 1
  MaxTime = 1
  Hibernation = FALSE
  LateFrames = TRUE
SYMMETRY Symmetry
INVARIANTS
  NoBufferedStartsWhileGatewayOpen
  GatewayToldClientCount
CHECK_DEADLOCK FALSE
