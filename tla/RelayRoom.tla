----------------------------- MODULE RelayRoom -----------------------------
(***************************************************************************)
(* One relay room: the Durable Object behind /ws of apps/relay-worker.     *)
(*                                                                         *)
(* A room joins one gateway (the bridge on the user's computer) with any   *)
(* number of clients (phones).  Every handler of the object runs without   *)
(* interleaving from the point where it starts to change the room, so each *)
(* is one action here.  The handlers are written the way the source has    *)
(* them: functions that take the runtime and change it.  A "world" is the  *)
(* record those functions work on; an operator returns the set of worlds   *)
(* it may leave, a choice the source makes by Map order being any choice.  *)
(***************************************************************************)
EXTENDS Integers, FiniteSets

CONSTANTS
  Gateways,             \* gateway runtime instances (clientId of a gateway socket)
  Clients,              \* client ids
  Sockets,              \* pool of server-side WebSockets
  ReqIds,               \* ids of connect requests
  None,                 \* null
  OwnerLease,           \* GATEWAY_OWNER_LEASE_MS
  OwnerTouchInterval,   \* GATEWAY_OWNER_TOUCH_INTERVAL_MS
  ConnectStartTtl,      \* CONNECT_START_BUFFER_TTL_MS
  ChallengeTtl,         \* PENDING_CHALLENGE_TTL_MS
  AwaitingTtl,          \* AWAITING_CHALLENGE_TTL_MS
  IdleTimeout,          \* CLIENT_IDLE_TIMEOUT_MS
  HeartbeatInterval,    \* HEARTBEAT_INTERVAL_MS
  MaxTime,              \* bound on the clock
  Hibernation,          \* may the object be evicted while its sockets stay open?
  LateFrames            \* may frames arrive on a socket the room has closed?

ASSUME IdsAssumption ==
  /\ Gateways \cap Clients = {}
  /\ IsFiniteSet(Clients)
  /\ None \notin Gateways \cup Clients \cup Sockets

ASSUME TimingAssumption ==
  /\ {OwnerLease, OwnerTouchInterval, ConnectStartTtl, ChallengeTtl, AwaitingTtl,
      IdleTimeout, HeartbeatInterval, MaxTime} \subseteq Nat
  /\ {Hibernation, LateFrames} \subseteq BOOLEAN

VARIABLES
  now,      \* Date.now()
  sock,     \* the sockets of the object and their attachments
  runtime,  \* RelayRuntime: lost when the object leaves memory
  owner,    \* runtime.gatewayOwner, equal to its stored copy
  alarm,    \* the storage alarm
  sent,     \* the frames and closes the last step sent
  told,     \* ghost: the client count last sent to the open gateway socket
  heard     \* ghost: when the room last heard from each gateway instance, and
            \* last heard from or served each client that has an open socket

vars == <<now, sock, runtime, owner, alarm, sent, told, heard>>

-----------------------------------------------------------------------------
Never == -1
Time == Nat \cup {Never}
Peers == Gateways \cup Clients

FreeSocket == [state |-> "free", id |-> None, connectedAt |-> Never]
NoChallenge == [queuedAt |-> Never, gateway |-> None]
NoOwner == [id |-> None, seenAt |-> Never]

SocketRecord ==
  [state : {"free", "open", "closing"}, id : Peers \cup {None},
   connectedAt : Time]
FrameKinds == {"challenge", "control", "response", "data", "connect",
               "rate_limited", "idle_or_stale", "dead_socket"}
Frame == [to : Sockets, kind : FrameKinds]
RelayRuntime ==
  [gatewaySocket : Sockets \cup {None},
   clients : [Clients -> Sockets \cup {None}],
   activeClientId : Clients \cup {None},
   challengeClientId : Clients \cup {None},
   awaitingChallenge : [Clients -> Time],
   pendingConnectStarts : [Clients -> Time],
   connectReqClient : [ReqIds -> Clients \cup {None}],
   pendingChallenge : [queuedAt : Time, gateway : Gateways \cup {None}],
   lastActivityAt : [Clients -> Time]]

\* A RelayRuntime just constructed.
FreshRuntime ==
  [gatewaySocket |-> None,
   clients |-> [c \in Clients |-> None],
   activeClientId |-> None,
   challengeClientId |-> None,
   awaitingChallenge |-> [c \in Clients |-> Never],
   pendingConnectStarts |-> [c \in Clients |-> Never],
   connectReqClient |-> [r \in ReqIds |-> None],
   pendingChallenge |-> NoChallenge,
   lastActivityAt |-> [c \in Clients |-> Never]]

World == [sock |-> sock, rt |-> runtime, told |-> told, heard |-> heard, sent |-> {}]

IsOpen(k, s) == s # None /\ k[s].state = "open"
Mapped(rt) == {c \in Clients : rt.clients[c] # None}
OpenClients(w) == {c \in Clients : IsOpen(w.sock, w.rt.clients[c])}
GatewayOpen(w) == IsOpen(w.sock, w.rt.gatewaySocket)
HasOpenSocket(k, id) == \E s \in Sockets : k[s].state = "open" /\ k[s].id = id

\* The state becomes w; a ghost nothing can be said about is reset.
Become(w) ==
  /\ sock' = w.sock
  /\ runtime' = w.rt
  /\ sent' = w.sent
  /\ told' = IF GatewayOpen(w) THEN w.told ELSE 0
  /\ heard' = [p \in Peers |-> IF p \in Gateways \/ HasOpenSocket(w.sock, p)
                              THEN w.heard[p] ELSE Never]

Send(w, kind, to) ==
  [w EXCEPT !.sent = @ \cup {[kind |-> kind, to |-> to]}]

\* A socket that has left OPEN; connectedAt is read only while it is open.
Closing(socket) == [socket EXCEPT !.state = "closing", !.connectedAt = Never]

\* ws.close(code): the socket leaves OPEN, its close event comes later.
Close(w, S, code) ==
  LET closed == {s \in S \cap Sockets : w.sock[s].state = "open"}
  IN  [w EXCEPT
         !.sock = [s \in Sockets |-> IF s \in closed THEN Closing(@[s]) ELSE @[s]],
         !.sent = @ \cup {[kind |-> code, to |-> s] :
                           s \in closed}]

TouchClientActivity(w, c) ==
  [w EXCEPT !.rt.lastActivityAt[c] = now, !.heard[c] = now]

\* client_connected, client_count or client_disconnected, as the count says.
SendClientCount(w) ==
  IF GatewayOpen(w) THEN [w EXCEPT !.told = Cardinality(Mapped(w.rt))] ELSE w

-----------------------------------------------------------------------------
(* Choosing who gets a challenge (frames.ts, routing.ts) *)

\* resolveAwaitingChallengeClientId: the open client that has waited longest,
\* else the preferred or the active one, else any open client, else null.
AwaitingChallengeClients(awaiting, open, preferred, active) ==
  LET waiting == {c \in open : awaiting[c] # Never}
      choice == IF preferred # None THEN preferred ELSE active
  IN  IF waiting # {}
      THEN {c \in waiting : \A d \in waiting : awaiting[c] <= awaiting[d]}
      ELSE IF choice \in open THEN {choice}
      ELSE IF open # {} THEN open ELSE {None}

\* tryDeliverChallenge: every world it may leave, with no "challenge" frame
\* in those where no client socket is open.
TryDeliverChallenge(w) ==
  { LET chosen == [w EXCEPT !.rt.challengeClientId = c]
    IN  IF c = None THEN chosen
        ELSE Send(TouchClientActivity(
                    [chosen EXCEPT !.rt.awaitingChallenge[c] = Never], c),
                  "challenge", w.rt.clients[c])
    : c \in AwaitingChallengeClients(w.rt.awaitingChallenge, OpenClients(w),
              w.rt.challengeClientId, w.rt.activeClientId) }

DropPendingChallenge(w) == [w EXCEPT !.rt.pendingChallenge = NoChallenge]

\* markAwaitingChallenge keeps the older of two entries.
MarkAwaitingChallenge(w, c, queuedAt) ==
  IF w.rt.awaitingChallenge[c] # Never /\ w.rt.awaitingChallenge[c] <= queuedAt
  THEN w
  ELSE [w EXCEPT !.rt.awaitingChallenge[c] = queuedAt]

-----------------------------------------------------------------------------
(* Losing clients and sockets (heartbeat.ts, storage.ts) *)

\* Mutant: a limit counts as passed once it is reached.
ExpiredAtLimit(at, ttl) == at # Never /\ now - at >= ttl

Expired(at, ttl) == at # Never /\ now - at > ttl

ForgetRequests(rt, D) ==
  [r \in ReqIds |-> IF rt.connectReqClient[r] \in D THEN None
                    ELSE rt.connectReqClient[r]]

\* Who is active once D is gone and open is left.
ActiveFallback(active, D, open) ==
  IF active \notin D THEN {active} ELSE IF open = {} THEN {None} ELSE open

\* rt without anything it keeps for the clients of D.
Without(rt, D) ==
  [rt EXCEPT
     !.clients = [c \in Clients |-> IF c \in D THEN None ELSE @[c]],
     !.lastActivityAt = [c \in Clients |-> IF c \in D THEN Never ELSE @[c]],
     !.pendingConnectStarts = [c \in Clients |-> IF c \in D THEN Never ELSE @[c]],
     !.awaitingChallenge = [c \in Clients |-> IF c \in D THEN Never ELSE @[c]],
     !.connectReqClient = ForgetRequests(rt, D)]

Elect(w, active, challenger) ==
  [w EXCEPT !.rt.activeClientId = active, !.rt.challengeClientId = challenger]

\* dropClientState for each client of D.  The active and the challenge client
\* fall back to clients still open once all of D is gone.
DropClients(w, D) ==
  LET rest == [w EXCEPT !.rt = Without(w.rt, D)]
      open == OpenClients(rest)
      challengers(active) ==
        IF w.rt.challengeClientId \notin D THEN {w.rt.challengeClientId}
        ELSE AwaitingChallengeClients(rest.rt.awaitingChallenge, open, None, active)
  IN  UNION { {Elect(rest, active, challenger) : challenger \in challengers(active)}
              : active \in ActiveFallback(w.rt.activeClientId, D, open) }

\* Mutant: only the last client to go is reported.
ReportClientsLostWhenEmpty(w) ==
  IF Mapped(w.rt) = {} THEN SendClientCount(DropPendingChallenge(w)) ELSE w

\* What removeSocket, the prune and the tick do once clients are gone.
ReportClientsLost(w) ==
  SendClientCount(IF Mapped(w.rt) = {} THEN DropPendingChallenge(w) ELSE w)

\* The open sockets that compete for one place, and who wins it.
Contenders(k, ids) == {s \in Sockets : k[s].state = "open" /\ k[s].id \in ids}
Winners(k, ids, preferred) ==
  LET open == Contenders(k, ids)
  IN  IF open = {} THEN {None}
      ELSE IF preferred \in open THEN {preferred}
      ELSE {s \in open : \A t \in open : k[t].connectedAt <= k[s].connectedAt}

\* Mutant: a reconcile takes the time of the connect for the last activity.
KeptActivityOfConnect(previous, connectedAt) == connectedAt

\* A client keeps its activity across a reconcile.
KeptActivity(previous, connectedAt) ==
  IF previous >= connectedAt THEN previous ELSE connectedAt

\* The client maps made of winners.
ClientMaps(k, preferred) ==
  {f \in [Clients -> Sockets \cup {None}] :
     \A c \in Clients : f[c] \in Winners(k, {c}, preferred)}

\* The maps rebuilt, the rest of the runtime as it was.
Placed(w, gateway, clients) ==
  [w EXCEPT
     !.rt.gatewaySocket = gateway,
     !.rt.clients = clients,
     !.rt.lastActivityAt =
       [c \in Clients |-> IF clients[c] = None THEN Never
                          ELSE KeptActivity(@[c], w.sock[clients[c]].connectedAt)]]

\* reconcileSockets: one gateway socket, one socket per client id, all other
\* open sockets closed.
ReconcileSockets(w, preferred) ==
  { Close(Placed(w, gateway, clients),
          Sockets \ ({gateway} \cup {clients[c] : c \in Clients}), "dead_socket")
    : gateway \in Winners(w.sock, Gateways, preferred),
      clients \in ClientMaps(w.sock, preferred) }

\* Mutant: the alarm depends on the gateway instead of the clients.
EnsureHeartbeatForGateway(w) ==
  alarm' = IF GatewayOpen(w) THEN now + HeartbeatInterval ELSE Never

\* ensureHeartbeat.  Every handler that connects or loses a socket ends here.
EnsureHeartbeat(w) ==
  alarm' = IF OpenClients(w) # {} THEN now + HeartbeatInterval ELSE Never

-----------------------------------------------------------------------------
(* The gateway owner (storage.ts) *)

CanAcceptGatewayOwner(g) ==
  \/ owner = NoOwner
  \/ owner.id = g
  \/ now - owner.seenAt > OwnerLease

\* Mutant: frames of the owner do not refresh its lease.
TouchGatewayOwnerOnConnect(g, force) ==
  owner' = IF ~force /\ owner.id = g THEN owner ELSE [id |-> g, seenAt |-> now]

TouchGatewayOwner(g, force) ==
  owner' = IF ~force /\ owner.id = g /\ now - owner.seenAt < OwnerTouchInterval
           THEN owner
           ELSE [id |-> g, seenAt |-> now]

\* A single instance has no rival whose lease could matter.
Hear(w, g) == IF Gateways = {g} THEN w ELSE [w EXCEPT !.heard[g] = now]

-----------------------------------------------------------------------------
Init ==
  /\ now = 0
  /\ sock = [s \in Sockets |-> FreeSocket]
  /\ runtime = FreshRuntime
  /\ owner = NoOwner
  /\ alarm = Never
  /\ sent = {}
  /\ told = 0
  /\ heard = [p \in Peers |-> Never]

(* Connecting: the part of fetch after the credentials were accepted *)

AcceptWebSocket(s, id) ==
  [World EXCEPT !.sock[s] = [state |-> "open", id |-> id,
                             connectedAt |-> now]]

PrunePendingConnectStarts(w) ==
  [w EXCEPT !.rt.pendingConnectStarts =
     [c \in Clients |-> IF Expired(@[c], ConnectStartTtl) THEN Never ELSE @[c]]]

\* Mutant: starts of clients that are not here are kept.
FlushPendingConnectStartsOfOpen(w) ==
  LET starts == PrunePendingConnectStarts(w).rt.pendingConnectStarts
      ready == {c \in OpenClients(w) : starts[c] # Never}
  IN  [w EXCEPT
         !.rt.pendingConnectStarts = [c \in Clients |-> IF c \in ready THEN Never ELSE starts[c]],
         !.sent = @ \cup {[kind |-> "connect", to |-> w.rt.gatewaySocket] : c \in ready}]

\* flushPendingConnectStarts: a buffered connect of a client that is still
\* here goes to the gateway and starts its wait at the time it was queued.
FlushPendingConnectStarts(w) ==
  LET starts == PrunePendingConnectStarts(w).rt.pendingConnectStarts
      ready == {c \in OpenClients(w) : starts[c] # Never}
      later(c) == w.rt.awaitingChallenge[c] = Never \/ starts[c] < w.rt.awaitingChallenge[c]
  IN  [w EXCEPT
         !.rt.pendingConnectStarts = [c \in Clients |-> Never],
         !.rt.awaitingChallenge =
           [c \in Clients |-> IF c \in ready /\ later(c) THEN starts[c] ELSE @[c]],
         !.sent = @ \cup {[kind |-> "connect", to |-> w.rt.gatewaySocket] : c \in ready}]

ConnectGateway(s, g) ==
  /\ sock[s].state = "free"
  /\ CanAcceptGatewayOwner(g)
  /\ \E w \in ReconcileSockets(AcceptWebSocket(s, g), s) :
       /\ Become(FlushPendingConnectStarts(SendClientCount(Hear(w, g))))
       /\ EnsureHeartbeat(w)
  /\ TouchGatewayOwner(g, TRUE)
  /\ UNCHANGED now

\* handleClientConnected, after reconcileSockets has mapped the socket.
ConnectClient(s, c) ==
  /\ sock[s].state = "free"
  /\ \E w \in ReconcileSockets(AcceptWebSocket(s, c), s) :
       /\ Become(SendClientCount(TouchClientActivity(
            [w EXCEPT
               !.rt.activeClientId = IF @ = None THEN c ELSE @,
               !.rt.challengeClientId = IF @ = None THEN c ELSE @], c)))
       /\ EnsureHeartbeat(w)
  /\ UNCHANGED <<now, owner>>

-----------------------------------------------------------------------------
(* Frames from the gateway (handleGatewayMessage) *)

\* A socket still delivers what its peer sent before it saw our close.
Speaks(s, ids) ==
  /\ sock[s].id \in ids
  /\ sock[s].state = "open" \/ (LateFrames /\ sock[s].state = "closing")

DeliverTo(w, c, kind) ==
  IF c # None /\ IsOpen(w.sock, w.rt.clients[c])
  THEN Send(TouchClientActivity(w, c), kind, w.rt.clients[c])
  ELSE w

FromGateway(s) ==
  /\ Speaks(s, Gateways)
  /\ TouchGatewayOwner(sock[s].id, FALSE)
  /\ UNCHANGED <<now, alarm>>

ControlReceiver(target) == IF target # None THEN target ELSE runtime.activeClientId

\* routeGatewayControl: to its target, or without one to the active client.
GatewayControl(s, target) ==
  /\ FromGateway(s)
  /\ Become(DeliverTo(Hear(World, sock[s].id), ControlReceiver(target), "control"))

\* A challenge nobody took waits in the buffer, in place of any other.
BufferChallenge(w, s) ==
  [w EXCEPT !.rt.pendingChallenge =
     IF w.sent # {} THEN NoChallenge
     ELSE [queuedAt |-> now, gateway |-> sock[s].id]]

\* forwardGatewayChallengeFastPath
GatewayChallenge(s) ==
  /\ FromGateway(s)
  /\ \E w \in TryDeliverChallenge(Hear(World, sock[s].id)) :
       Become(BufferChallenge(w, s))

ForgetRequest(w, r) == [w EXCEPT !.rt.connectReqClient[r] = None]

\* A response goes to the client that made the request, if it is known and
\* open, and is otherwise treated as any other frame.
GatewayResponse(s, r) ==
  LET heardW == Hear(World, sock[s].id)
      requester == runtime.connectReqClient[r]
      matched == requester # None /\ IsOpen(sock, runtime.clients[requester])
  IN  /\ FromGateway(s)
      /\ Become(ForgetRequest(
           DeliverTo(heardW, IF matched THEN requester ELSE runtime.activeClientId,
                     "response"), r))

GatewayData(s) ==
  /\ FromGateway(s)
  /\ Become(DeliverTo(Hear(World, sock[s].id), runtime.activeClientId, "data"))

-----------------------------------------------------------------------------
(* Frames from a client (webSocketMessage) *)

ToGateway(w, kind) ==
  IF GatewayOpen(w)
  THEN Send(w, kind, w.rt.gatewaySocket)
  ELSE w

FromClient(s) ==
  /\ Speaks(s, Clients)
  /\ UNCHANGED <<now, owner, alarm>>

\* prepareClientMessage, for a connect: the sender becomes the active client.
PrepareConnect(w, c) ==
  [TouchClientActivity(w, c) EXCEPT
     !.rt.activeClientId = c,
     !.rt.challengeClientId = IF @ = c THEN None ELSE @]

\* connectReqClient.set; a connect without an id is not remembered.
RememberRequest(w, r, c) ==
  [w EXCEPT !.rt.connectReqClient = [q \in ReqIds |-> IF q = r THEN c ELSE @[q]]]

BufferConnectStart(w, c) ==
  PrunePendingConnectStarts([w EXCEPT !.rt.pendingConnectStarts[c] = now])

\* connect or connect.start: the sender waits for a challenge; without a
\* gateway the frame is buffered.
ClientConnectRequest(s, r) ==
  LET c == sock[s].id
      w == RememberRequest(
             MarkAwaitingChallenge(PrepareConnect(World, c), c, now), r, c)
  IN  /\ FromClient(s)
      /\ Become(IF GatewayOpen(World) THEN ToGateway(w, "connect")
                ELSE BufferConnectStart(w, c))

\* Any other frame passes only from the active client.
ClientData(s) ==
  LET w == TouchClientActivity(World, sock[s].id)
  IN  /\ FromClient(s)
      /\ Become(IF runtime.activeClientId = sock[s].id
                THEN ToGateway(w, "data") ELSE w)

\* forwardClientControlToGateway: from any client, active or not.
ClientControl(s) ==
  /\ FromClient(s)
  /\ Become(ToGateway(TouchClientActivity(World, sock[s].id), "control"))

\* allowMessage refused the frame; how fast clients send is left open.
ClientRateLimited(s) ==
  /\ FromClient(s)
  /\ Become(Close(TouchClientActivity(World, sock[s].id), {s}, "rate_limited"))

-----------------------------------------------------------------------------
(* Sockets going away *)

\* The peer or the network ended the socket; its event is still to come.
SocketLost(s) ==
  /\ sock[s].state = "open"
  /\ Become([World EXCEPT !.sock[s] = Closing(@)])
  /\ UNCHANGED <<now, owner, alarm>>

\* Mutant: any event of a socket with a known id takes the place away.
IsCurrentSocketAlways(s) == TRUE

\* Late events of a replaced socket must not take its successor's place.
IsCurrentSocket(s) ==
  IF sock[s].id \in Gateways THEN runtime.gatewaySocket = s
  ELSE runtime.clients[sock[s].id] = s

Gone(s) == [World EXCEPT !.sock[s] = FreeSocket]

\* removeSocket, on the close or the error event of a socket.
RemoveSocket(s) ==
  LET id == sock[s].id
      gone == Gone(s)
      unhosted == DropPendingChallenge(Hear([gone EXCEPT !.rt.gatewaySocket = None], id))
  IN  /\ sock[s].state # "free"
      /\ \/ /\ ~IsCurrentSocket(s)
            /\ Become(gone)
            /\ EnsureHeartbeat(gone)
            /\ UNCHANGED owner
         \/ /\ IsCurrentSocket(s) /\ id \in Gateways
            /\ Become(unhosted)
            /\ EnsureHeartbeat(unhosted)
            /\ TouchGatewayOwner(id, TRUE)
         \/ /\ IsCurrentSocket(s) /\ id \in Clients
            /\ \E w \in DropClients(gone, {id}) :
                 /\ Become(ReportClientsLost(w))
                 /\ EnsureHeartbeat(w)
            /\ UNCHANGED owner
      /\ UNCHANGED now

-----------------------------------------------------------------------------
(* The alarm (alarm, heartbeat.ts) *)

\* pruneStaleHandshakeClients: non-open, idle, or silent since a connect
\* nobody answered.
PruneStaleHandshakeClients(w) ==
  LET idle(c) == Expired(w.rt.lastActivityAt[c], IdleTimeout)
      stale(c) == /\ Expired(w.rt.awaitingChallenge[c], AwaitingTtl)
                  /\ \/ w.rt.lastActivityAt[c] = Never
                     \/ Expired(w.rt.lastActivityAt[c], AwaitingTtl)
      D == {c \in Mapped(w.rt) : c \notin OpenClients(w) \/ idle(c) \/ stale(c)}
      closed == Close(w, {w.rt.clients[c] : c \in D}, "idle_or_stale")
  IN  IF D = {} THEN {w} ELSE {ReportClientsLost(v) : v \in DropClients(closed, D)}

PruneExpiredAwaitingChallenges(w) ==
  LET E == {c \in Clients : Expired(w.rt.awaitingChallenge[c], AwaitingTtl)}
  IN  [w EXCEPT
         !.rt.awaitingChallenge = [c \in Clients |-> IF c \in E THEN Never ELSE @[c]],
         !.rt.connectReqClient = ForgetRequests(w.rt, E),
         !.rt.challengeClientId = IF @ \in E THEN None ELSE @]

\* flushPendingChallenge: dropped unless somebody waits, the instance that
\* sent it still holds the room and it is fresh; then delivered if possible.
FlushPendingChallenge(w) ==
  LET pending == w.rt.pendingChallenge
      waited == \E c \in Clients : w.rt.awaitingChallenge[c] # Never
      current == /\ w.rt.gatewaySocket # None
                 /\ w.sock[w.rt.gatewaySocket].id = pending.gateway
  IN  IF pending = NoChallenge THEN {w}
      ELSE IF ~waited \/ ~current \/ Expired(pending.queuedAt, ChallengeTtl)
           THEN {DropPendingChallenge(w)}
      ELSE { IF \E f \in v.sent : f.kind = "challenge" THEN DropPendingChallenge(v) ELSE v
             : v \in TryDeliverChallenge(w) }

\* The tick itself: clients whose socket throws on send are dropped.
SendTicks(w) ==
  UNION { IF dead = {} THEN {w}
          ELSE { ReportClientsLost(v) :
                 v \in DropClients(Close(w, {w.rt.clients[c] : c \in dead}, "dead_socket"),
                                   dead) }
          : dead \in SUBSET OpenClients(w) }

Alarm ==
  /\ alarm # Never
  /\ now >= alarm
  /\ \E v \in PruneStaleHandshakeClients(World) :
     \E x \in FlushPendingChallenge(PrunePendingConnectStarts(
                PruneExpiredAwaitingChallenges(v))) :
     \E w \in SendTicks(x) :
       /\ Become(w)
       /\ EnsureHeartbeat(w)
  /\ UNCHANGED <<now, owner>>

-----------------------------------------------------------------------------
(* Losing memory: the constructor runs again *)

\* Hibernation: the sockets stay.  If an alarm woke the object its handler is
\* still to run, whatever the constructor does to the stored alarm.
Wake ==
  /\ Hibernation
  /\ \E w \in ReconcileSockets([World EXCEPT !.rt = FreshRuntime], None) :
       /\ Become(w)
       /\ \/ EnsureHeartbeat(w)
          \/ alarm # Never /\ now >= alarm /\ UNCHANGED alarm
  /\ UNCHANGED <<now, owner>>

\* A crash or a deploy: the sockets are gone too.
Restart ==
  /\ Become([World EXCEPT !.rt = FreshRuntime,
                          !.sock = [s \in Sockets |-> FreeSocket]])
  /\ alarm' = Never
  /\ UNCHANGED <<now, owner>>

Tick ==
  /\ now < MaxTime
  /\ now' = now + 1
  /\ sent' = {}
  /\ UNCHANGED <<sock, runtime, owner, alarm, told, heard>>

Next ==
  \/ \E s \in Sockets :
       \/ \E g \in Gateways : ConnectGateway(s, g)
       \/ \E c \in Clients : ConnectClient(s, c)
       \/ \E target \in Clients \cup {None} : GatewayControl(s, target)
       \/ GatewayChallenge(s)
       \/ \E r \in ReqIds : GatewayResponse(s, r)
       \/ GatewayData(s)
       \/ \E r \in ReqIds \cup {None} : ClientConnectRequest(s, r)
       \/ ClientData(s)
       \/ ClientControl(s)
       \/ ClientRateLimited(s)
       \/ SocketLost(s)
       \/ RemoveSocket(s)
  \/ Alarm
  \/ Wake
  \/ Restart
  \/ Tick

Spec == Init /\ [][Next]_vars

-----------------------------------------------------------------------------
(* Properties *)

\* The runtime, its sockets and the ghosts keep their types through every
\* handler.
TypeOK ==
  /\ now \in Nat
  /\ sock \in [Sockets -> SocketRecord]
  /\ runtime \in RelayRuntime
  /\ owner \in [id : Gateways \cup {None}, seenAt : Time]
  /\ alarm \in Time
  /\ sent \subseteq Frame
  /\ told \in Nat
  /\ heard \in [Peers -> Time]

\* "One gateway socket may own a room at a time" (ARCHITECTURE.md, Relay
\* WebSocket rule 1): whatever connects, closes, hibernates or restarts, an
\* open gateway socket is the one the room talks to, so there is never a
\* second one.
OneGatewayOwnsRoom ==
  \A s \in Sockets :
    sock[s].state = "open" /\ sock[s].id \in Gateways => runtime.gatewaySocket = s

\* Every open client socket is the one its client id is mapped to: a late
\* close event of a replaced socket never unmaps its successor, and no socket
\* is left open that the tick, the prune and the routing cannot reach.
OpenClientsMapped ==
  \A s \in Sockets :
    sock[s].state = "open" /\ sock[s].id \in Clients => runtime.clients[sock[s].id] = s

\* While a client socket is open the heartbeat alarm is armed, so ticks and
\* prunes go on after any interleaving of events, wakes and restarts.
AlarmArmedWhileClientsOpen ==
  \A s \in Sockets : sock[s].state = "open" /\ sock[s].id \in Clients => alarm # Never

\* A gateway instance the room heard from within the lease, less the interval
\* at which the lease is refreshed, is never displaced by another instance
\* ("Gateway owner is locked by another active gateway runtime").
LeaseProtectsOwner ==
  [][\A s \in Sockets, g, h \in Gateways :
       /\ sock[s].state = "free" /\ sock'[s].state = "open" /\ sock'[s].id = g
       /\ h # g /\ heard[h] # Never
       => now - heard[h] > OwnerLease - OwnerTouchInterval]_vars

\* The owner record names the instance whose socket the room has open, so
\* the lease that locks others out is the lease of the connected gateway.
OwnerNamesOpenGateway ==
  \A s \in Sockets :
    sock[s].state = "open" /\ sock[s].id \in Gateways => owner.id = sock[s].id

\* No connect stays in the buffer while a gateway is there to take it: the
\* buffer is only filled without a gateway and a new gateway empties it.
NoBufferedStartsWhileGatewayOpen ==
  GatewayOpen(World) => \A c \in Clients : runtime.pendingConnectStarts[c] = Never

\* The open gateway has been told the number of clients the room maps, so a
\* bridge that follows the counts neither stays up for nobody nor goes down
\* under somebody.
GatewayToldClientCount ==
  GatewayOpen(World) => told = Cardinality(Mapped(runtime))

\* The room closes a client for silence only when it really was silent: for
\* the idle timeout ("expires clients that stay fully idle beyond the absolute
\* idle timeout", index.test.ts), or since a connect that waited out its own
\* limit.
TimeoutCloseJustified ==
  [][\A s \in Sockets :
       (\E f \in sent' : f.to = s /\ f.kind = "idle_or_stale")
       => LET c == sock[s].id
          IN  \/ now - heard[c] > IdleTimeout
              \/ /\ now - heard[c] > AwaitingTtl
                 /\ runtime.awaitingChallenge[c] # Never
                 /\ now - runtime.awaitingChallenge[c] > AwaitingTtl]_vars

\* A client that waits for a challenge and stays connected stops waiting only
\* because it got one or because it waited too long; the doc has the room
\* "persist ... pending handshake state" for that (ARCHITECTURE.md).
WaitEndsInChallenge ==
  [][\A c \in Clients :
       /\ runtime.awaitingChallenge[c] # Never
       /\ now - runtime.awaitingChallenge[c] <= AwaitingTtl
       /\ runtime'.awaitingChallenge[c] = Never
       /\ c \in OpenClients(World) /\ IsOpen(sock', runtime.clients[c])
       => \E f \in sent' : f.kind = "challenge" /\ f.to = runtime.clients[c]]_vars

=============================================================================
