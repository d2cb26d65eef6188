-------------------------- MODULE RelayRoomProofs --------------------------
(***************************************************************************)
(* What holds of RelayRoom for every set of gateways, clients, sockets and *)
(* request ids and for every timing: first its types and the places of its *)
(* sockets, then what it keeps for its gateway (the buffer of connects,    *)
(* the count of clients, the owner record and its lease) and for its       *)
(* clients (the closes for silence and the waits for a challenge).         *)
(*                                                                         *)
(* The operators of RelayRoom work on worlds, so the proof does too: one   *)
(* lemma per operator says that it keeps worlds well typed and either      *)
(* leaves the places alone or keeps them owned.  The step lemma then only  *)
(* has to follow each action through the operators it calls.               *)
(*                                                                         *)
(* For the second part most operators are quiet: they move no socket and   *)
(* no client, and change clocks and buffers in few ways.  The others close *)
(* sockets, unmap clients or reconcile; each has a lemma that says what is *)
(* left.                                                                   *)
(***************************************************************************)
EXTENDS RelayRoom, FiniteSetTheorems, TLAPS

Worlds ==
  [sock : [Sockets -> SocketRecord], rt : RelayRuntime, told : Nat,
   heard : [Peers -> Time], sent : SUBSET Frame]

\* v has the sockets of w in the places of w.
SamePlaces(v, w) ==
  /\ v.sock = w.sock
  /\ v.rt.gatewaySocket = w.rt.gatewaySocket
  /\ v.rt.clients = w.rt.clients

\* Every open socket holds the place its attachment names.
Owned(w) ==
  \A s \in Sockets :
    w.sock[s].state = "open" =>
      /\ w.sock[s].id \in Gateways => w.rt.gatewaySocket = s
      /\ w.sock[s].id \in Clients => w.rt.clients[w.sock[s].id] = s

\* Nothing but the operators changes a world, so an operator that keeps the
\* places keeps them owned.
LEMMA SamePlacesOwned ==
  ASSUME NEW v, NEW w, SamePlaces(v, w), Owned(w)
  PROVE  Owned(v)
BY DEF SamePlaces, Owned

-----------------------------------------------------------------------------
(* Operators that keep the places *)

\* Touching a client's activity changes two clocks.
LEMMA TouchWorld ==
  ASSUME NEW w \in Worlds, NEW c \in Clients, now \in Nat
  PROVE  /\ TouchClientActivity(w, c) \in Worlds
         /\ SamePlaces(TouchClientActivity(w, c), w)
BY DEF Worlds, RelayRuntime, TouchClientActivity, SamePlaces, Time, Peers

\* A frame sent to a socket changes only what was sent.
LEMMA SendWorld ==
  ASSUME NEW w \in Worlds, NEW kind \in FrameKinds, NEW to \in Sockets
  PROVE  /\ Send(w, kind, to) \in Worlds
         /\ SamePlaces(Send(w, kind, to), w)
BY DEF Worlds, Frame, Send, SamePlaces

\* The client count is a natural number, there being finitely many clients.
LEMMA CountWorld ==
  ASSUME NEW w \in Worlds
  PROVE  /\ SendClientCount(w) \in Worlds
         /\ SamePlaces(SendClientCount(w), w)
<1>1. IsFiniteSet(Mapped(w.rt))
  BY FS_Subset, IdsAssumption DEF Mapped
<1>2. Cardinality(Mapped(w.rt)) \in Nat
  BY <1>1, FS_CardinalityType
<1> QED BY <1>2 DEF Worlds, SendClientCount, SamePlaces

\* Hearing from a gateway changes its ghost only.
LEMMA HearWorld ==
  ASSUME NEW w \in Worlds, NEW g \in Gateways, now \in Nat
  PROVE  Hear(w, g) \in Worlds /\ SamePlaces(Hear(w, g), w)
BY DEF Worlds, Hear, SamePlaces, Time, Peers

\* Dropping the buffered challenge.
LEMMA DropPendingWorld ==
  ASSUME NEW w \in Worlds
  PROVE  /\ DropPendingChallenge(w) \in Worlds
         /\ SamePlaces(DropPendingChallenge(w), w)
BY DEF Worlds, RelayRuntime, DropPendingChallenge, NoChallenge, SamePlaces, Time

\* Marking a client as waiting.
LEMMA MarkWorld ==
  ASSUME NEW w \in Worlds, NEW c \in Clients, NEW at \in Time
  PROVE  /\ MarkAwaitingChallenge(w, c, at) \in Worlds
         /\ SamePlaces(MarkAwaitingChallenge(w, c, at), w)
BY DEF Worlds, RelayRuntime, MarkAwaitingChallenge, SamePlaces

\* Pruning buffered connects.
LEMMA PruneStartsWorld ==
  ASSUME NEW w \in Worlds
  PROVE  /\ PrunePendingConnectStarts(w) \in Worlds
         /\ SamePlaces(PrunePendingConnectStarts(w), w)
BY DEF Worlds, RelayRuntime, PrunePendingConnectStarts, SamePlaces, Time

\* Buffering a connect.
LEMMA BufferStartWorld ==
  ASSUME NEW w \in Worlds, NEW c \in Clients, now \in Nat
  PROVE  /\ BufferConnectStart(w, c) \in Worlds
         /\ SamePlaces(BufferConnectStart(w, c), w)
<1> DEFINE queued == [w EXCEPT !.rt.pendingConnectStarts[c] = now]
<1>1. queued \in Worlds /\ SamePlaces(queued, w)
  BY DEF Worlds, RelayRuntime, SamePlaces, Time
<1> HIDE DEF queued
<1> QED BY <1>1, PruneStartsWorld DEF BufferConnectStart, SamePlaces, queued

\* A challenge goes to an open client or to nobody.
LEMMA AwaitingRange ==
  ASSUME NEW awaiting, NEW open, NEW preferred, NEW active
  PROVE  AwaitingChallengeClients(awaiting, open, preferred, active)
           \subseteq open \cup {None}
BY DEF AwaitingChallengeClients

\* Delivering a challenge changes who waits, not who is where.
LEMMA DeliverChallengeWorld ==
  ASSUME NEW w \in Worlds, now \in Nat,
         NEW v \in TryDeliverChallenge(w)
  PROVE  v \in Worlds /\ SamePlaces(v, w)
<1> DEFINE chosen(c) == [w EXCEPT !.rt.challengeClientId = c]
           waits(c) == [chosen(c) EXCEPT !.rt.awaitingChallenge[c] = Never]
<1>1. PICK c \in OpenClients(w) \cup {None} :
        v = IF c = None THEN chosen(c)
            ELSE Send(TouchClientActivity(waits(c), c),
                      "challenge", w.rt.clients[c])
  BY AwaitingRange DEF TryDeliverChallenge
<1>2. chosen(c) \in Worlds /\ SamePlaces(chosen(c), w)
  BY DEF Worlds, RelayRuntime, SamePlaces, OpenClients
<1>3. CASE c = None
  BY <1>1, <1>2, <1>3
<1>4. CASE c # None
  <2>1. c \in Clients /\ w.rt.clients[c] \in Sockets
    BY <1>4 DEF OpenClients, IsOpen, Worlds, RelayRuntime
  <2>2. waits(c) \in Worlds /\ SamePlaces(waits(c), w)
    BY <1>2, <2>1 DEF Worlds, RelayRuntime, SamePlaces, Time
  <2> DEFINE touched == TouchClientActivity(waits(c), c)
  <2>3. touched \in Worlds /\ SamePlaces(touched, waits(c))
    BY <2>1, <2>2, TouchWorld
  <2> HIDE DEF touched
  <2>4. /\ Send(touched, "challenge", w.rt.clients[c]) \in Worlds
        /\ SamePlaces(Send(touched, "challenge", w.rt.clients[c]), touched)
    BY <2>1, <2>3, SendWorld DEF FrameKinds
  <2> QED BY <1>1, <1>4, <2>2, <2>3, <2>4 DEF SamePlaces, touched
<1> QED BY <1>3, <1>4

\* Delivering any other frame to a client.
LEMMA DeliverToWorld ==
  ASSUME NEW w \in Worlds, NEW c \in Clients \cup {None}, NEW kind \in FrameKinds,
         now \in Nat
  PROVE  /\ DeliverTo(w, c, kind) \in Worlds
         /\ SamePlaces(DeliverTo(w, c, kind), w)
<1>1. CASE c # None /\ IsOpen(w.sock, w.rt.clients[c])
  <2> DEFINE touched == TouchClientActivity(w, c)
  <2>1. c \in Clients /\ w.rt.clients[c] \in Sockets
    BY <1>1 DEF IsOpen, Worlds, RelayRuntime
  <2>2. touched \in Worlds /\ SamePlaces(touched, w)
    BY <2>1, TouchWorld
  <2> HIDE DEF touched
  <2>3. /\ Send(touched, kind, w.rt.clients[c]) \in Worlds
        /\ SamePlaces(Send(touched, kind, w.rt.clients[c]), touched)
    BY <2>1, <2>2, SendWorld DEF Time
  <2> QED BY <1>1, <2>2, <2>3 DEF DeliverTo, SamePlaces, touched
<1>2. CASE ~(c # None /\ IsOpen(w.sock, w.rt.clients[c]))
  BY <1>2 DEF DeliverTo, SamePlaces
<1> QED BY <1>1, <1>2

\* Forwarding a frame to the gateway.
LEMMA ToGatewayWorld ==
  ASSUME NEW w \in Worlds, NEW c \in Clients, NEW kind \in FrameKinds
  PROVE  ToGateway(w, kind) \in Worlds /\ SamePlaces(ToGateway(w, kind), w)
<1>1. CASE GatewayOpen(w)
  <2>1. w.rt.gatewaySocket \in Sockets
    BY <1>1 DEF GatewayOpen, IsOpen, Worlds, RelayRuntime
  <2> QED BY <1>1, <2>1, SendWorld DEF ToGateway, Time
<1>2. CASE ~GatewayOpen(w)
  BY <1>2 DEF ToGateway, SamePlaces
<1> QED BY <1>1, <1>2

\* Flushing the buffered connects to a gateway that has just connected.
LEMMA FlushStartsWorld ==
  ASSUME NEW w \in Worlds, w.rt.gatewaySocket \in Sockets
  PROVE  /\ FlushPendingConnectStarts(w) \in Worlds
         /\ SamePlaces(FlushPendingConnectStarts(w), w)
<1> DEFINE starts == PrunePendingConnectStarts(w).rt.pendingConnectStarts
           ready == {c \in OpenClients(w) : starts[c] # Never}
           forwarded == {[kind |-> "connect", to |-> w.rt.gatewaySocket] : c \in ready}
<1>1. starts \in [Clients -> Time]
  BY PruneStartsWorld DEF Worlds, RelayRuntime
<1>2. forwarded \subseteq Frame
  BY DEF Frame, FrameKinds, Time, OpenClients
<1> HIDE DEF starts, forwarded
<1> QED BY <1>1, <1>2
  DEF Worlds, RelayRuntime, FlushPendingConnectStarts, SamePlaces, Time, starts, forwarded

\* Pruning the expired waits.
LEMMA PruneAwaitingWorld ==
  ASSUME NEW w \in Worlds
  PROVE  /\ PruneExpiredAwaitingChallenges(w) \in Worlds
         /\ SamePlaces(PruneExpiredAwaitingChallenges(w), w)
BY DEF Worlds, RelayRuntime, PruneExpiredAwaitingChallenges, ForgetRequests,
       SamePlaces, Time

\* Flushing the buffered challenge.
LEMMA FlushChallengeWorld ==
  ASSUME NEW w \in Worlds, now \in Nat, NEW v \in FlushPendingChallenge(w)
  PROVE  v \in Worlds /\ SamePlaces(v, w)
<1>1. v = w \/ v = DropPendingChallenge(w)
      \/ \E u \in TryDeliverChallenge(w) :
           v = u \/ v = DropPendingChallenge(u)
  BY DEF FlushPendingChallenge
<1>2. w.rt.pendingChallenge.queuedAt \in Time
  BY DEF Worlds, RelayRuntime
<1> QED BY <1>1, <1>2, DeliverChallengeWorld, DropPendingWorld DEF SamePlaces

-----------------------------------------------------------------------------
(* Operators that change places *)

\* Reporting lost clients changes no place.
LEMMA ReportLostWorld ==
  ASSUME NEW w \in Worlds
  PROVE  ReportClientsLost(w) \in Worlds /\ SamePlaces(ReportClientsLost(w), w)
<1>1. PICK u \in {w, DropPendingChallenge(w)} : ReportClientsLost(w) = SendClientCount(u)
  BY DEF ReportClientsLost
<1>2. u \in Worlds /\ SamePlaces(u, w)
  BY DropPendingWorld DEF SamePlaces
<1> QED BY <1>1, <1>2, CountWorld DEF SamePlaces

\* Closing sockets leaves exactly the other open sockets open, and the maps
\* alone.
LEMMA CloseWorld ==
  ASSUME NEW w \in Worlds, NEW S,
         NEW code \in {"rate_limited", "idle_or_stale", "dead_socket"}
  PROVE  /\ Close(w, S, code) \in Worlds
         /\ Close(w, S, code).rt = w.rt
         /\ \A s \in Sockets :
              /\ Close(w, S, code).sock[s].id = w.sock[s].id
              /\ Close(w, S, code).sock[s].state = "open"
                   <=> w.sock[s].state = "open" /\ s \notin S
         /\ Owned(w) => Owned(Close(w, S, code))
<1> DEFINE closed == {s \in S \cap Sockets : w.sock[s].state = "open"}
           frames == {[kind |-> code, to |-> s] :
                        s \in closed}
           sock2 == [s \in Sockets |-> IF s \in closed THEN Closing(w.sock[s])
                                       ELSE w.sock[s]]
<1>1. frames \subseteq Frame
  BY DEF Frame, FrameKinds, Time
<1>2. sock2 \in [Sockets -> SocketRecord]
  <2>1. \A s \in Sockets : w.sock[s] \in SocketRecord
    BY DEF Worlds
  <2>2. \A k \in SocketRecord : Closing(k) \in SocketRecord
    BY DEF SocketRecord, Closing, Time
  <2> QED BY <2>1, <2>2
<1>3. Close(w, S, code) = [w EXCEPT !.sock = sock2, !.sent = @ \cup frames]
  BY DEF Close
<1>4. \A s \in Sockets : sock2[s].id = w.sock[s].id
                         /\ (sock2[s].state = "open"
                              <=> w.sock[s].state = "open" /\ s \notin S)
  BY DEF Worlds, SocketRecord, Closing
<1> HIDE DEF frames, sock2
<1>5. /\ Close(w, S, code) \in Worlds
      /\ Close(w, S, code).rt = w.rt
      /\ Close(w, S, code).sock = sock2
  BY <1>1, <1>2, <1>3 DEF Worlds
<1> QED BY <1>4, <1>5 DEF Owned

\* Dropping clients whose sockets are no longer open unmaps them and nothing
\* else.
LEMMA DropWorld ==
  ASSUME NEW w \in Worlds, NEW D \in SUBSET Clients, NEW v \in DropClients(w, D),
         \A c \in D : ~IsOpen(w.sock, w.rt.clients[c])
  PROVE  /\ v \in Worlds
         /\ v.sock = w.sock
         /\ Owned(w) => Owned(v)
<1> DEFINE rest == Without(w.rt, D)
           open == OpenClients([w EXCEPT !.rt = rest])
<1>1. rest \in RelayRuntime
  BY DEF Worlds, RelayRuntime, Without, ForgetRequests, Time
<1>2. /\ rest.gatewaySocket = w.rt.gatewaySocket
      /\ rest.clients = [c \in Clients |-> IF c \in D THEN None ELSE w.rt.clients[c]]
  BY DEF Worlds, RelayRuntime, Without
<1>3. open \subseteq Clients
  BY DEF OpenClients
<1>4. PICK active, challenger :
        /\ v = Elect([w EXCEPT !.rt = rest], active, challenger)
        /\ active \in ActiveFallback(w.rt.activeClientId, D, open)
        /\ \/ challenger = w.rt.challengeClientId
           \/ challenger \in AwaitingChallengeClients(
                [w EXCEPT !.rt = rest].rt.awaitingChallenge, open, None, active)
  BY DEF DropClients
<1> HIDE DEF rest, open
<1>5. active \in Clients \cup {None} /\ challenger \in Clients \cup {None}
  BY <1>3, <1>4, AwaitingRange DEF ActiveFallback, Worlds, RelayRuntime
<1>6. v.rt \in RelayRuntime /\ v.rt.gatewaySocket = rest.gatewaySocket
      /\ v.rt.clients = rest.clients /\ v.sock = w.sock /\ v \in Worlds
  <2>1. /\ v.rt = [rest EXCEPT !.activeClientId = active, !.challengeClientId = challenger]
        /\ v = [w EXCEPT !.rt = v.rt]
    BY <1>4 DEF Elect, Worlds
  <2>2. v.rt \in RelayRuntime /\ v.rt.gatewaySocket = rest.gatewaySocket
        /\ v.rt.clients = rest.clients
    BY <1>1, <1>5, <2>1 DEF RelayRuntime
  <2> QED BY <2>1, <2>2 DEF Worlds
<1>7. ASSUME Owned(w) PROVE Owned(v)
  <2>1. ASSUME NEW s \in Sockets, v.sock[s].state = "open", v.sock[s].id \in Clients
        PROVE  v.rt.clients[v.sock[s].id] = s
    <3>1. w.rt.clients[w.sock[s].id] = s
      BY <1>6, <1>7, <2>1 DEF Owned
    <3>2. w.sock[s].id \notin D
      BY <1>6, <2>1, <3>1, IdsAssumption DEF IsOpen
    <3> QED BY <1>2, <1>6, <2>1, <3>1, <3>2
  <2> QED BY <1>2, <1>6, <1>7, <2>1 DEF Owned
<1> QED BY <1>6, <1>7

\* Whoever wins a place is an open contender for it, or nobody is.
LEMMA WinnersContend ==
  ASSUME NEW k, NEW ids, NEW preferred, NEW s \in Winners(k, ids, preferred)
  PROVE  s \in Contenders(k, ids) \cup {None}
BY DEF Winners

\* Whatever the places were, a reconcile leaves every open socket in its own.
LEMMA ReconcileWorld ==
  ASSUME NEW w \in Worlds, NEW preferred, NEW v \in ReconcileSockets(w, preferred)
  PROVE  v \in Worlds /\ Owned(v)
<1>1. PICK gateway \in Winners(w.sock, Gateways, preferred),
           clients \in ClientMaps(w.sock, preferred) :
        v = Close(Placed(w, gateway, clients),
                  Sockets \ ({gateway} \cup {clients[c] : c \in Clients}),
                  "dead_socket")
  BY DEF ReconcileSockets
<1>2. /\ clients \in [Clients -> Sockets \cup {None}]
       /\ \A c \in Clients : clients[c] \in Winners(w.sock, {c}, preferred)
  BY DEF ClientMaps
<1> DEFINE activity == [c \in Clients |->
             IF clients[c] = None THEN Never
             ELSE KeptActivity(w.rt.lastActivityAt[c], w.sock[clients[c]].connectedAt)]
           placed == Placed(w, gateway, clients)
           others == Sockets \ ({gateway} \cup {clients[c] : c \in Clients})
<1>3. activity \in [Clients -> Time]
  <2>1. \A c \in Clients : clients[c] # None => w.sock[clients[c]].connectedAt \in Time
    BY <1>2 DEF Worlds, SocketRecord
  <2>2. w.rt.lastActivityAt \in [Clients -> Time]
    BY DEF Worlds, RelayRuntime
  <2>3. \A a, b \in Time : KeptActivity(a, b) \in Time
    BY DEF KeptActivity
  <2> QED BY <2>1, <2>2, <2>3 DEF Time
<1>4. gateway \in Contenders(w.sock, Gateways) \cup {None}
  BY WinnersContend
<1>5. \A c \in Clients : clients[c] \in Contenders(w.sock, {c}) \cup {None}
  BY <1>2, WinnersContend
<1>6. v = Close(placed, others, "dead_socket")
  BY <1>1
<1>7. placed = [w EXCEPT !.rt.gatewaySocket = gateway, !.rt.clients = clients,
                         !.rt.lastActivityAt = activity]
  BY DEF Placed
<1> HIDE DEF activity, placed
<1>8. /\ placed \in Worlds /\ placed.sock = w.sock
      /\ placed.rt.gatewaySocket = gateway /\ placed.rt.clients = clients
  BY <1>3, <1>4, <1>7, <1>2 DEF Worlds, RelayRuntime, Contenders
<1> HIDE DEF others
<1>9. /\ v \in Worlds /\ v.rt = placed.rt
      /\ \A s \in Sockets : /\ v.sock[s].id = w.sock[s].id
                            /\ v.sock[s].state = "open"
                                 <=> w.sock[s].state = "open" /\ s \notin others
  BY <1>6, <1>8, CloseWorld
<1>10. ASSUME NEW s \in Sockets, v.sock[s].state = "open"
      PROVE  /\ v.sock[s].id \in Gateways => v.rt.gatewaySocket = s
             /\ v.sock[s].id \in Clients => v.rt.clients[v.sock[s].id] = s
  <2>1. s = gateway \/ \E c \in Clients : s = clients[c]
    BY <1>9, <1>10 DEF others
  <2>2. s = gateway => w.sock[s].id \in Gateways
    BY <1>4, IdsAssumption DEF Contenders
  <2>3. \A c \in Clients : s = clients[c] => w.sock[s].id = c
    BY <1>5, IdsAssumption DEF Contenders
  <2> QED BY <1>8, <1>9, <2>1, <2>2, <2>3, IdsAssumption
<1> QED BY <1>9, <1>10 DEF Owned

\* The clients a prune or a tick drops: their sockets are closed first.
LEMMA CloseAndDropWorld ==
  ASSUME NEW w \in Worlds, NEW D \in SUBSET Clients,
         NEW code \in {"idle_or_stale", "dead_socket"},
         NEW u \in DropClients(Close(w, {w.rt.clients[c] : c \in D}, code), D),
         Owned(w)
  PROVE  ReportClientsLost(u) \in Worlds /\ Owned(ReportClientsLost(u))
<1> DEFINE closed == Close(w, {w.rt.clients[c] : c \in D}, code)
<1>1. /\ closed \in Worlds /\ closed.rt = w.rt /\ Owned(closed)
      /\ \A s \in Sockets : closed.sock[s].state = "open"
                              => s \notin {w.rt.clients[c] : c \in D}
  BY CloseWorld
<1> HIDE DEF closed
<1>2. \A c \in D : ~IsOpen(closed.sock, closed.rt.clients[c])
  BY <1>1 DEF IsOpen, Worlds, RelayRuntime
<1>3. u \in Worlds /\ Owned(u)
  BY <1>1, <1>2, DropWorld DEF closed
<1> QED BY <1>3, ReportLostWorld, SamePlacesOwned

\* The prune of an alarm.
LEMMA PruneStaleWorld ==
  ASSUME NEW w \in Worlds, NEW v \in PruneStaleHandshakeClients(w), Owned(w)
  PROVE  v \in Worlds /\ Owned(v)
<1>1. v = w \/ \E D \in SUBSET Clients :
                 \E u \in DropClients(Close(w, {w.rt.clients[c] : c \in D},
                                            "idle_or_stale"), D) :
                   v = ReportClientsLost(u)
  BY DEF PruneStaleHandshakeClients, Mapped
<1> QED BY <1>1, CloseAndDropWorld

\* The ticks of an alarm.
LEMMA SendTicksWorld ==
  ASSUME NEW w \in Worlds, NEW v \in SendTicks(w), Owned(w)
  PROVE  v \in Worlds /\ Owned(v)
<1>1. v = w \/ \E D \in SUBSET Clients :
                 \E u \in DropClients(Close(w, {w.rt.clients[c] : c \in D},
                                            "dead_socket"), D) :
                   v = ReportClientsLost(u)
  BY DEF SendTicks, OpenClients
<1> QED BY <1>1, CloseAndDropWorld

-----------------------------------------------------------------------------
(* The invariant *)

\* The inductive invariant: types, owned places, and an alarm for every open
\* client.
Inv ==
  /\ TypeOK
  /\ Owned(World)
  /\ AlarmArmedWhileClientsOpen

\* A world of the state is typed when the state is.
LEMMA WorldTyped ==
  ASSUME TypeOK
  PROVE  World \in Worlds
BY DEF TypeOK, World, Worlds

\* Becoming a typed, owned world keeps its part of the invariant.
LEMMA BecomeTyped ==
  ASSUME NEW w \in Worlds, Owned(w), Become(w)
  PROVE  /\ sock' \in [Sockets -> SocketRecord]
         /\ runtime' \in RelayRuntime
         /\ sent' \subseteq Frame
         /\ told' \in Nat
         /\ heard' \in [Peers -> Time]
         /\ Owned(World)'
BY DEF Worlds, Become, Owned, World, Time

\* An armed heartbeat covers every open client of an owned world.
LEMMA HeartbeatArms ==
  ASSUME NEW w \in Worlds, NEW u \in Worlds, Owned(u), SamePlaces(u, w),
         Become(u), EnsureHeartbeat(w), now \in Nat
  PROVE  alarm' \in Time /\ AlarmArmedWhileClientsOpen'
<1>1. alarm' \in Time
  BY TimingAssumption DEF EnsureHeartbeat, Time
<1>2. ASSUME NEW s \in Sockets, sock'[s].state = "open", sock'[s].id \in Clients
      PROVE  alarm' # Never
  <2>1. u.rt.clients[u.sock[s].id] = s
    BY <1>2 DEF Become, Owned
  <2>2. u.sock[s].id \in OpenClients(w)
    BY <1>2, <2>1, IdsAssumption DEF Become, SamePlaces, OpenClients, IsOpen
  <2> QED BY <2>2, TimingAssumption DEF EnsureHeartbeat, Never
<1> QED BY <1>1, <1>2 DEF AlarmArmedWhileClientsOpen

\* The initial state satisfies the invariant.
LEMMA InitInv == Init => Inv
BY DEF Init, Inv, TypeOK, Owned, World, AlarmArmedWhileClientsOpen, FreeSocket,
       SocketRecord, RelayRuntime, FreshRuntime, NoChallenge, NoOwner, Time, Frame

\* A touched owner is an instance seen now, or stays.
LEMMA OwnerTyped ==
  ASSUME TypeOK, NEW g \in Gateways, NEW force \in BOOLEAN, TouchGatewayOwner(g, force)
  PROVE  owner' \in [id : Gateways \cup {None}, seenAt : Time]
BY DEF TypeOK, TouchGatewayOwner, Time

\* A step that opens no socket and leaves the alarm alone keeps it armed.
LEMMA AlarmKept ==
  ASSUME Inv, alarm' = alarm,
         \A s \in Sockets : sock'[s].state = "open"
                              => sock[s].state = "open" /\ sock'[s].id = sock[s].id
  PROVE  alarm' \in Time /\ AlarmArmedWhileClientsOpen'
BY DEF Inv, TypeOK, AlarmArmedWhileClientsOpen

\* A step that only moves frames: places, clock and alarm stay.
LEMMA RoutingStep ==
  ASSUME Inv, NEW w \in Worlds, SamePlaces(w, World), Become(w),
         UNCHANGED <<now, alarm>>,
         owner' \in [id : Gateways \cup {None}, seenAt : Time]
  PROVE  Inv'
<1>1. Owned(w)
  BY SamePlacesOwned DEF Inv
<1>2. sock' = sock
  BY DEF Become, SamePlaces, World
<1>3. alarm' \in Time /\ AlarmArmedWhileClientsOpen'
  BY <1>2, AlarmKept
<1> QED BY <1>1, <1>3, BecomeTyped DEF Inv, TypeOK

\* A step that ends in ensureHeartbeat.
LEMMA HeartbeatStep ==
  ASSUME Inv, NEW w \in Worlds, NEW u \in Worlds, Owned(u), SamePlaces(u, w),
         Become(u), EnsureHeartbeat(w), now' = now,
         owner' \in [id : Gateways \cup {None}, seenAt : Time]
  PROVE  Inv'
<1>1. now \in Nat
  BY DEF Inv, TypeOK
<1> QED BY <1>1, BecomeTyped, HeartbeatArms DEF Inv, TypeOK

\* An accepted socket gives a typed world; nothing is claimed of its places,
\* the reconcile that follows restores them.
LEMMA AcceptWorld ==
  ASSUME TypeOK, NEW s \in Sockets, NEW id \in Peers
  PROVE  AcceptWebSocket(s, id) \in Worlds
<1>1. [state |-> "open", id |-> id, connectedAt |-> now] \in SocketRecord
  BY DEF TypeOK, SocketRecord, Time
<1> QED BY <1>1, WorldTyped DEF AcceptWebSocket, Worlds

\* A gateway socket just accepted is preferred, so it wins the place.
LEMMA NewGatewaySeated ==
  ASSUME Inv, NEW s \in Sockets, NEW g \in Gateways,
         NEW w \in ReconcileSockets(AcceptWebSocket(s, g), s)
  PROVE  w.rt.gatewaySocket = s
<1> DEFINE accepted == AcceptWebSocket(s, g)
<1>1. accepted.sock[s].state = "open" /\ accepted.sock[s].id = g
  BY DEF AcceptWebSocket, World, Inv, TypeOK
<1>2. Winners(accepted.sock, Gateways, s) = {s}
  BY <1>1 DEF Winners, Contenders
<1>3. PICK clients :
        w = Close(Placed(accepted, s, clients),
                  Sockets \ ({s} \cup {clients[c] : c \in Clients}), "dead_socket")
  BY <1>2 DEF ReconcileSockets
<1>4. accepted \in Worlds
  BY AcceptWorld DEF Inv, Peers
<1> HIDE DEF accepted
<1>5. Placed(accepted, s, clients).rt.gatewaySocket = s
  BY <1>4 DEF Placed, Worlds, RelayRuntime
<1>6. w.rt = Placed(accepted, s, clients).rt
  BY <1>3, <1>4 DEF Close, Placed, Worlds
<1> QED BY <1>5, <1>6

\* The reconcile after the accept owns every place and gives the new gateway
\* socket the gateway's, so what is flushed to it can be sent.
LEMMA ConnectGatewayStep ==
  ASSUME Inv, NEW s \in Sockets, NEW g \in Gateways, ConnectGateway(s, g)
  PROVE  Inv'
<1>1. PICK w \in ReconcileSockets(AcceptWebSocket(s, g), s) :
        /\ Become(FlushPendingConnectStarts(SendClientCount(Hear(w, g))))
        /\ EnsureHeartbeat(w)
  BY DEF ConnectGateway
<1>2. w \in Worlds /\ Owned(w)
  BY AcceptWorld, ReconcileWorld DEF Inv, Peers
<1>3. w.rt.gatewaySocket = s
  BY <1>1, NewGatewaySeated
<1> DEFINE counted == SendClientCount(Hear(w, g))
<1>4. counted \in Worlds /\ SamePlaces(counted, w)
  BY <1>2, HearWorld, CountWorld DEF Inv, TypeOK, SamePlaces
<1> HIDE DEF counted
<1>5. /\ FlushPendingConnectStarts(counted) \in Worlds
      /\ SamePlaces(FlushPendingConnectStarts(counted), w)
  BY <1>3, <1>4, FlushStartsWorld DEF SamePlaces
<1>6. Owned(FlushPendingConnectStarts(counted))
  BY <1>2, <1>5, SamePlacesOwned
<1>7. now' = now /\ owner' \in [id : Gateways \cup {None}, seenAt : Time]
  BY OwnerTyped DEF ConnectGateway, Inv
<1> QED BY <1>1, <1>2, <1>5, <1>6, <1>7, HeartbeatStep DEF counted

\* The reconcile after the accept owns every place; touching the client and
\* electing it changes none.
LEMMA ConnectClientStep ==
  ASSUME Inv, NEW s \in Sockets, NEW c \in Clients, ConnectClient(s, c)
  PROVE  Inv'
<1> DEFINE elected(w) == [w EXCEPT
             !.rt.activeClientId = IF @ = None THEN c ELSE @,
             !.rt.challengeClientId = IF @ = None THEN c ELSE @]
<1>1. PICK w \in ReconcileSockets(AcceptWebSocket(s, c), s) :
        /\ Become(SendClientCount(TouchClientActivity(elected(w), c)))
        /\ EnsureHeartbeat(w)
  BY DEF ConnectClient
<1>2. w \in Worlds /\ Owned(w)
  BY AcceptWorld, ReconcileWorld DEF Inv, Peers
<1>3. elected(w) \in Worlds /\ SamePlaces(elected(w), w)
  BY <1>2 DEF Worlds, RelayRuntime, SamePlaces
<1> DEFINE counted == SendClientCount(TouchClientActivity(elected(w), c))
<1> HIDE DEF elected
<1>4. counted \in Worlds /\ SamePlaces(counted, w)
  BY <1>3, TouchWorld, CountWorld DEF Inv, TypeOK, SamePlaces
<1>5. Owned(counted)
  BY <1>2, <1>4, SamePlacesOwned
<1>6. now' = now /\ owner' \in [id : Gateways \cup {None}, seenAt : Time]
  BY DEF ConnectClient, Inv, TypeOK
<1> HIDE DEF counted
<1> QED BY <1>1, <1>2, <1>4, <1>5, <1>6, HeartbeatStep DEF counted

\* Each frame of the gateway is delivered or buffered; nobody moves.
LEMMA GatewayFrameStep ==
  ASSUME Inv, NEW s \in Sockets,
         \/ \E target \in Clients \cup {None} : GatewayControl(s, target)
         \/ GatewayChallenge(s)
         \/ \E r \in ReqIds : GatewayResponse(s, r)
         \/ GatewayData(s)
  PROVE  Inv'
<1>1. FromGateway(s)
  BY DEF GatewayControl, GatewayChallenge, GatewayResponse, GatewayData
<1> DEFINE g == sock[s].id
           heardW == Hear(World, g)
<1>2. g \in Gateways /\ now \in Nat
  BY <1>1 DEF FromGateway, Speaks, Inv, TypeOK
<1>3. /\ UNCHANGED <<now, alarm>>
      /\ owner' \in [id : Gateways \cup {None}, seenAt : Time]
  BY <1>1, <1>2, OwnerTyped DEF FromGateway, Inv
<1>4. heardW \in Worlds /\ SamePlaces(heardW, World)
  BY <1>2, WorldTyped, HearWorld DEF Inv
<1>5. runtime \in RelayRuntime
  BY DEF Inv, TypeOK
<1>6. {"response", "data"} \subseteq FrameKinds /\ None \in Clients \cup {None}
  BY DEF FrameKinds
<1> HIDE DEF heardW
<1>7. ASSUME NEW target \in Clients \cup {None}, GatewayControl(s, target) PROVE Inv'
  <2>1. ControlReceiver(target) \in Clients \cup {None}
    BY <1>5 DEF ControlReceiver, RelayRuntime
  <2> DEFINE w == DeliverTo(heardW, ControlReceiver(target), "control")
  <2>2. w \in Worlds /\ SamePlaces(w, World)
    BY <1>2, <1>4, <2>1, DeliverToWorld DEF FrameKinds, SamePlaces
  <2>3. Become(w)
    BY <1>7 DEF GatewayControl, heardW
  <2> HIDE DEF w
  <2> QED BY <1>3, <2>2, <2>3, RoutingStep
<1>8. ASSUME GatewayChallenge(s) PROVE Inv'
  <2>1. PICK w \in TryDeliverChallenge(heardW) : Become(BufferChallenge(w, s))
    BY <1>8 DEF GatewayChallenge, heardW
  <2>2. w \in Worlds /\ SamePlaces(w, World)
    BY <1>2, <1>4, DeliverChallengeWorld DEF SamePlaces, Time
  <2>3. BufferChallenge(w, s) \in Worlds /\ SamePlaces(BufferChallenge(w, s), World)
    BY <1>2, <2>2 DEF BufferChallenge, Worlds, RelayRuntime, SamePlaces, NoChallenge, Time
  <2> QED BY <1>3, <2>1, <2>3, RoutingStep
<1>9. ASSUME NEW r \in ReqIds, GatewayResponse(s, r) PROVE Inv'
  <2>1. PICK c \in {runtime.connectReqClient[r], runtime.activeClientId} :
          Become(ForgetRequest(DeliverTo(heardW, c, "response"), r))
    BY <1>9 DEF GatewayResponse, heardW
  <2>2. c \in Clients \cup {None}
    BY <1>5 DEF RelayRuntime
  <2> DEFINE w == DeliverTo(heardW, c, "response")
  <2>3. w \in Worlds /\ SamePlaces(w, heardW)
    BY <1>2, <1>4, <2>2, <1>6, DeliverToWorld
  <2> HIDE DEF w
  <2>4. ForgetRequest(w, r) \in Worlds /\ SamePlaces(ForgetRequest(w, r), World)
    BY <1>4, <2>3 DEF ForgetRequest, Worlds, RelayRuntime, SamePlaces
  <2> QED BY <1>3, <2>1, <2>4, RoutingStep DEF w
<1>10. ASSUME GatewayData(s) PROVE Inv'
  <2> DEFINE w == DeliverTo(heardW, runtime.activeClientId, "data")
  <2>1. runtime.activeClientId \in Clients \cup {None}
    BY <1>5 DEF RelayRuntime
  <2>2. w \in Worlds /\ SamePlaces(w, heardW)
    BY <1>2, <1>4, <2>1, <1>6, DeliverToWorld
  <2>3. Become(w)
    BY <1>10 DEF GatewayData, heardW
  <2> HIDE DEF w
  <2> QED BY <1>3, <1>4, <2>2, <2>3, RoutingStep DEF SamePlaces
<1> QED BY <1>7, <1>8, <1>9, <1>10

\* Each frame of a client is forwarded, buffered or dropped; nobody moves,
\* save that a client over its rate limit is closed.
LEMMA ClientFrameStep ==
  ASSUME Inv, NEW s \in Sockets,
         \/ \E r \in ReqIds \cup {None} : ClientConnectRequest(s, r)
         \/ ClientData(s)
         \/ ClientControl(s)
         \/ ClientRateLimited(s)
  PROVE  Inv'
<1>1. FromClient(s)
  BY DEF ClientConnectRequest, ClientData, ClientControl, ClientRateLimited
<1> DEFINE c == sock[s].id
           touched == TouchClientActivity(World, c)
<1>2. c \in Clients /\ now \in Nat
  BY <1>1 DEF FromClient, Speaks, Inv, TypeOK
<1>3. /\ UNCHANGED <<now, alarm>>
      /\ owner' \in [id : Gateways \cup {None}, seenAt : Time]
  BY <1>1 DEF FromClient, Inv, TypeOK
<1>4. touched \in Worlds /\ SamePlaces(touched, World)
  BY <1>2, WorldTyped, TouchWorld DEF Inv
<1> HIDE DEF touched
<1>5. ASSUME NEW r \in ReqIds \cup {None}, ClientConnectRequest(s, r) PROVE Inv'
  <2> DEFINE prepared == PrepareConnect(World, c)
             w == RememberRequest(MarkAwaitingChallenge(prepared, c, now), r, c)
  <2>1. prepared \in Worlds /\ SamePlaces(prepared, World)
    BY <1>2, <1>4 DEF PrepareConnect, Worlds, RelayRuntime, SamePlaces, touched
  <2> HIDE DEF prepared
  <2>2. /\ MarkAwaitingChallenge(prepared, c, now) \in Worlds
        /\ SamePlaces(MarkAwaitingChallenge(prepared, c, now), World)
    BY <1>2, <2>1, MarkWorld DEF SamePlaces, Time
  <2>3. w \in Worlds /\ SamePlaces(w, World)
    BY <1>2, <2>2 DEF RememberRequest, Worlds, RelayRuntime, SamePlaces
  <2> HIDE DEF w
  <2>4. Become(ToGateway(w, "connect")) \/ Become(BufferConnectStart(w, c))
    BY <1>5 DEF ClientConnectRequest, prepared, w
  <2>5. /\ ToGateway(w, "connect") \in Worlds
        /\ SamePlaces(ToGateway(w, "connect"), World)
    BY <1>2, <2>3, ToGatewayWorld DEF FrameKinds, SamePlaces
  <2>6. /\ BufferConnectStart(w, c) \in Worlds
        /\ SamePlaces(BufferConnectStart(w, c), World)
    BY <1>2, <2>3, BufferStartWorld DEF SamePlaces
  <2> QED BY <1>3, <2>4, <2>5, <2>6, RoutingStep
<1>6. ASSUME ClientData(s) \/ ClientControl(s) PROVE Inv'
  <2>1. PICK w : /\ Become(w)
                 /\ \/ w = touched
                    \/ \E kind \in {"data", "control"} : w = ToGateway(touched, kind)
    BY <1>6 DEF ClientData, ClientControl, touched
  <2>2. \A kind \in {"data", "control"} :
          /\ ToGateway(touched, kind) \in Worlds
          /\ SamePlaces(ToGateway(touched, kind), touched)
    BY <1>2, <1>4, ToGatewayWorld DEF FrameKinds
  <2>3. w \in Worlds /\ SamePlaces(w, World)
    BY <1>4, <2>1, <2>2 DEF SamePlaces
  <2> QED BY <1>3, <2>1, <2>3, RoutingStep
<1>7. ASSUME ClientRateLimited(s) PROVE Inv'
  <2> DEFINE w == Close(touched, {s}, "rate_limited")
  <2>1. Become(w)
    BY <1>7 DEF ClientRateLimited, touched
  <2>2. Owned(touched)
    BY <1>4, SamePlacesOwned DEF Inv
  <2>3. /\ w \in Worlds /\ Owned(w)
        /\ \A t \in Sockets : /\ w.sock[t].id = touched.sock[t].id
                              /\ w.sock[t].state = "open" => touched.sock[t].state = "open"
    BY <1>4, <2>2, CloseWorld
  <2> HIDE DEF w
  <2>4. alarm' \in Time /\ AlarmArmedWhileClientsOpen'
    BY <1>3, <1>4, <2>1, <2>3, AlarmKept DEF Become, SamePlaces, World
  <2> QED BY <1>3, <2>1, <2>3, <2>4, BecomeTyped DEF Inv, TypeOK
<1> QED BY <1>5, <1>6, <1>7

\* A lost socket leaves OPEN and keeps its place until its event comes.
LEMMA SocketLostStep ==
  ASSUME Inv, NEW s \in Sockets, SocketLost(s)
  PROVE  Inv'
<1> DEFINE w == [World EXCEPT !.sock[s] = Closing(@)]
<1>1. World \in Worlds /\ Owned(World)
  BY WorldTyped DEF Inv
<1>2. Become(w) /\ UNCHANGED <<now, owner, alarm>>
  BY DEF SocketLost
<1>3. /\ w \in Worlds
      /\ w.rt = World.rt
      /\ \A t \in Sockets : w.sock[t].state = "open"
                            => World.sock[t].state = "open" /\ w.sock[t].id = World.sock[t].id
  <2>1. \A k \in SocketRecord : Closing(k) \in SocketRecord /\ Closing(k).state # "open"
    BY DEF SocketRecord, Closing, Time
  <2>2. World.sock[s] \in SocketRecord
    BY <1>1 DEF Worlds
  <2>3. w = [World EXCEPT !.sock = [World.sock EXCEPT ![s] = Closing(World.sock[s])]]
    BY <1>1 DEF Worlds
  <2> QED BY <1>1, <2>1, <2>2, <2>3 DEF Worlds
<1> HIDE DEF w
<1>4. Owned(w)
  BY <1>1, <1>3 DEF Owned
<1>5. alarm' \in Time /\ AlarmArmedWhileClientsOpen'
  BY <1>2, <1>3, AlarmKept DEF Become, World
<1> QED BY <1>2, <1>3, <1>4, <1>5, BecomeTyped DEF Inv, TypeOK

\* The event of a socket frees it; what the room keeps for it goes only if
\* the socket still holds its place.
LEMMA RemoveSocketStep ==
  ASSUME Inv, NEW s \in Sockets, RemoveSocket(s)
  PROVE  Inv'
<1> DEFINE gone == Gone(s)
           id == sock[s].id
<1>1. World \in Worlds /\ Owned(World) /\ now \in Nat /\ TypeOK
  BY WorldTyped DEF Inv, TypeOK
<1>2. /\ gone \in Worlds
      /\ gone.rt = runtime
      /\ gone.sock[s].state = "free"
      /\ \A t \in Sockets : t # s => gone.sock[t] = sock[t]
  BY <1>1 DEF Gone, World, Worlds, FreeSocket, SocketRecord, Time
<1> HIDE DEF gone
<1>3. Owned(gone)
  BY <1>1, <1>2 DEF Owned, World
<1>4. now' = now
  BY DEF RemoveSocket
<1>5. CASE ~IsCurrentSocket(s)
  <2>1. Become(gone) /\ EnsureHeartbeat(gone) /\ owner' = owner
    BY <1>5 DEF RemoveSocket, gone
  <2> QED BY <1>1, <1>2, <1>3, <1>4, <2>1, HeartbeatStep DEF SamePlaces, TypeOK
<1>6. CASE IsCurrentSocket(s) /\ id \in Gateways
  <2> DEFINE hostless == [gone EXCEPT !.rt.gatewaySocket = None]
             w == DropPendingChallenge(Hear(hostless, id))
  <2>1. Become(w) /\ EnsureHeartbeat(w) /\ TouchGatewayOwner(id, TRUE)
    BY <1>6, IdsAssumption DEF RemoveSocket, gone
  <2>2. /\ hostless \in Worlds
        /\ hostless.sock = gone.sock /\ hostless.rt.clients = gone.rt.clients
    BY <1>2 DEF Worlds, RelayRuntime
  <2>3. \A t \in Sockets : gone.sock[t].state = "open" => gone.sock[t].id \notin Gateways
    BY <1>2, <1>3, <1>6 DEF Owned, IsCurrentSocket
  <2>4. Owned(hostless)
    BY <1>3, <2>2, <2>3 DEF Owned
  <2> HIDE DEF hostless
  <2>5. w \in Worlds /\ SamePlaces(w, hostless)
    BY <1>1, <1>6, <2>2, HearWorld, DropPendingWorld DEF SamePlaces
  <2> HIDE DEF w
  <2>6. Owned(w)
    BY <2>4, <2>5, SamePlacesOwned
  <2>7. owner' \in [id : Gateways \cup {None}, seenAt : Time]
    BY <1>1, <1>6, <2>1, OwnerTyped
  <2> QED BY <1>4, <2>1, <2>5, <2>6, <2>7, HeartbeatStep DEF SamePlaces
<1>7. CASE IsCurrentSocket(s) /\ id \in Clients /\ id \notin Gateways
  <2>1. PICK w \in DropClients(gone, {id}) :
          Become(ReportClientsLost(w)) /\ EnsureHeartbeat(w) /\ owner' = owner
    BY <1>7 DEF RemoveSocket, gone
  <2>2. ~IsOpen(gone.sock, gone.rt.clients[id])
    BY <1>2, <1>7 DEF IsCurrentSocket, IsOpen
  <2>3. w \in Worlds /\ Owned(w)
    BY <1>2, <1>3, <1>7, <2>2, DropWorld
  <2>4. ReportClientsLost(w) \in Worlds /\ SamePlaces(ReportClientsLost(w), w)
    BY <2>3, ReportLostWorld
  <2>5. Owned(ReportClientsLost(w))
    BY <2>3, <2>4, SamePlacesOwned
  <2> QED BY <1>1, <1>4, <2>1, <2>3, <2>4, <2>5, HeartbeatStep DEF TypeOK
<1> QED BY <1>5, <1>6, <1>7, IdsAssumption DEF RemoveSocket

\* The alarm prunes, flushes and ticks, each keeping the places owned, and
\* arms itself again.
LEMMA AlarmStep ==
  ASSUME Inv, Alarm
  PROVE  Inv'
<1>1. World \in Worlds /\ Owned(World) /\ now \in Nat
  BY WorldTyped DEF Inv, TypeOK
<1>2. PICK v \in PruneStaleHandshakeClients(World) :
      \E x \in FlushPendingChallenge(PrunePendingConnectStarts(
                 PruneExpiredAwaitingChallenges(v))) :
      \E w \in SendTicks(x) : Become(w) /\ EnsureHeartbeat(w)
  BY DEF Alarm
<1>3. v \in Worlds /\ Owned(v)
  BY <1>1, PruneStaleWorld
<1> DEFINE pruned == PrunePendingConnectStarts(PruneExpiredAwaitingChallenges(v))
<1>4. pruned \in Worlds /\ SamePlaces(pruned, v)
  BY <1>3, PruneAwaitingWorld, PruneStartsWorld DEF SamePlaces
<1> HIDE DEF pruned
<1>5. PICK x \in FlushPendingChallenge(pruned) :
        \E w \in SendTicks(x) : Become(w) /\ EnsureHeartbeat(w)
  BY <1>2 DEF pruned
<1>6. x \in Worlds /\ SamePlaces(x, pruned)
  BY <1>1, <1>4, <1>5, FlushChallengeWorld
<1>7. Owned(x)
  BY <1>3, <1>4, <1>6, SamePlacesOwned
<1>8. PICK w \in SendTicks(x) : Become(w) /\ EnsureHeartbeat(w)
  BY <1>5
<1>9. w \in Worlds /\ Owned(w)
  BY <1>6, <1>7, <1>8, SendTicksWorld
<1>10. now' = now /\ owner' \in [id : Gateways \cup {None}, seenAt : Time]
  BY DEF Alarm, Inv, TypeOK
<1> QED BY <1>8, <1>9, <1>10, HeartbeatStep DEF SamePlaces

\* A constructed runtime is well typed.
LEMMA FreshTyped == FreshRuntime \in RelayRuntime
BY DEF FreshRuntime, RelayRuntime, NoChallenge, Time

\* A wake knows nothing but the sockets, and its reconcile owns the places
\* again; the alarm is armed anew or was the reason for the wake.
LEMMA WakeStep ==
  ASSUME Inv, Wake
  PROVE  Inv'
<1> DEFINE woken == [World EXCEPT !.rt = FreshRuntime]
<1>1. woken \in Worlds
  BY WorldTyped, FreshTyped DEF Inv, Worlds
<1> HIDE DEF woken
<1>2. PICK w \in ReconcileSockets(woken, None) :
        /\ Become(w)
        /\ EnsureHeartbeat(w) \/ (alarm # Never /\ UNCHANGED alarm)
  BY DEF Wake, woken
<1>3. w \in Worlds /\ Owned(w)
  BY <1>1, <1>2, ReconcileWorld
<1>4. now' = now /\ owner' = owner
  BY DEF Wake
<1>5. CASE EnsureHeartbeat(w)
  BY <1>2, <1>3, <1>4, <1>5, HeartbeatStep DEF SamePlaces, Inv, TypeOK
<1>6. CASE alarm # Never /\ UNCHANGED alarm
  <2>1. alarm' \in Time /\ AlarmArmedWhileClientsOpen'
    BY <1>6 DEF Inv, TypeOK, AlarmArmedWhileClientsOpen
  <2> QED BY <1>2, <1>3, <1>4, <2>1, BecomeTyped DEF Inv, TypeOK
<1> QED BY <1>2, <1>5, <1>6

\* A restart has no sockets to own places or to need the alarm.
LEMMA RestartStep ==
  ASSUME Inv, Restart
  PROVE  Inv'
<1> DEFINE w == [World EXCEPT !.rt = FreshRuntime,
                              !.sock = [s \in Sockets |-> FreeSocket]]
<1>1. World \in Worlds
  BY WorldTyped DEF Inv
<1>2. /\ w \in Worlds
      /\ \A s \in Sockets : w.sock[s].state = "free"
  BY <1>1, FreshTyped DEF Worlds, FreeSocket, SocketRecord, Time
<1>3. Become(w) /\ alarm' = Never /\ UNCHANGED <<now, owner>>
  BY DEF Restart
<1> HIDE DEF w
<1>4. Owned(w)
  BY <1>2 DEF Owned
<1>5. AlarmArmedWhileClientsOpen'
  BY <1>2, <1>3 DEF AlarmArmedWhileClientsOpen, Become
<1> QED BY <1>2, <1>3, <1>4, <1>5, BecomeTyped DEF Inv, TypeOK, Time

\* Time passing, and stuttering, move nothing.
LEMMA TickStep ==
  ASSUME Inv, Tick \/ UNCHANGED vars
  PROVE  Inv'
BY DEF Inv, TypeOK, Tick, vars, Owned, World, AlarmArmedWhileClientsOpen

\* Every step of the room keeps the invariant.
LEMMA NextInv == Inv /\ [Next]_vars => Inv'
<1> SUFFICES ASSUME Inv, [Next]_vars PROVE Inv'
  OBVIOUS
<1>1. ASSUME NEW s \in Sockets,
             (\E g \in Gateways : ConnectGateway(s, g))
               \/ \E c \in Clients : ConnectClient(s, c)
      PROVE  Inv'
  BY <1>1, ConnectGatewayStep, ConnectClientStep
<1>2. ASSUME NEW s \in Sockets,
             \/ \E target \in Clients \cup {None} : GatewayControl(s, target)
             \/ GatewayChallenge(s)
             \/ \E r \in ReqIds : GatewayResponse(s, r)
             \/ GatewayData(s)
      PROVE  Inv'
  BY <1>2, GatewayFrameStep
<1>3. ASSUME NEW s \in Sockets,
             \/ \E r \in ReqIds \cup {None} : ClientConnectRequest(s, r)
             \/ ClientData(s)
             \/ ClientControl(s)
             \/ ClientRateLimited(s)
      PROVE  Inv'
  BY <1>3, ClientFrameStep
<1>4. ASSUME NEW s \in Sockets, SocketLost(s) \/ RemoveSocket(s) PROVE Inv'
  BY <1>4, SocketLostStep, RemoveSocketStep
<1>5. CASE Alarm
  BY <1>5, AlarmStep
<1>6. CASE Wake
  BY <1>6, WakeStep
<1>7. CASE Restart
  BY <1>7, RestartStep
<1>8. CASE Tick \/ UNCHANGED vars
  BY <1>8, TickStep
<1> QED BY <1>1, <1>2, <1>3, <1>4, <1>5, <1>6, <1>7, <1>8 DEF Next

-----------------------------------------------------------------------------
(* The theorems *)

\* The invariant holds in every reachable state.
THEOREM InvHolds == Spec => []Inv
<1>1. Init => Inv
  BY InitInv
<1>2. Inv /\ [Next]_vars => Inv'
  BY NextInv
<1> QED BY <1>1, <1>2, PTL DEF Spec

\* The runtime, its sockets and its storage keep their types whatever is
\* connected, sent, lost, woken or restarted.
THEOREM TypeCorrect == Spec => []TypeOK
<1>1. Inv => TypeOK
  BY DEF Inv
<1> QED BY <1>1, InvHolds, PTL

\* One gateway socket owns a room at a time (ARCHITECTURE.md, Relay WebSocket
\* rule 1): an open gateway socket is the one the room is bound to.
THEOREM OneGateway == Spec => []OneGatewayOwnsRoom
<1>1. Inv => OneGatewayOwnsRoom
  BY DEF Inv, Owned, World, OneGatewayOwnsRoom
<1> QED BY <1>1, InvHolds, PTL

\* Every open client socket can be reached through its client id, so that no
\* late close event unmaps the socket that replaced it.
THEOREM ClientsMapped == Spec => []OpenClientsMapped
<1>1. Inv => OpenClientsMapped
  BY DEF Inv, Owned, World, OpenClientsMapped
<1> QED BY <1>1, InvHolds, PTL

\* The heartbeat alarm is armed whenever a client socket is open.
THEOREM AlarmArmed == Spec => []AlarmArmedWhileClientsOpen
<1>1. Inv => AlarmArmedWhileClientsOpen
  BY DEF Inv
<1> QED BY <1>1, InvHolds, PTL

-----------------------------------------------------------------------------
(* What is kept for the gateway and for the clients *)

\* Nobody's connect waits in the buffer while a gateway is there.
Emptied(w) ==
  GatewayOpen(w) => \A c \in Clients : w.rt.pendingConnectStarts[c] = Never

\* The gateway knows how many clients there are.
Informed(w) == GatewayOpen(w) => w.told = Cardinality(Mapped(w.rt))

\* The places are those of sockets that are still there and bear the name.
Seated(w) ==
  /\ w.rt.gatewaySocket # None =>
       /\ w.sock[w.rt.gatewaySocket].state # "free"
       /\ w.sock[w.rt.gatewaySocket].id \in Gateways
  /\ \A c \in Clients : w.rt.clients[c] # None =>
       /\ w.sock[w.rt.clients[c]].state # "free"
       /\ w.sock[w.rt.clients[c]].id = c

\* No client was heard from later than the room remembers.
Remembered(w) == \A c \in Clients : w.heard[c] <= w.rt.lastActivityAt[c]

\* The same, of the clients with an open socket.
RememberedOpen(w) ==
  \A c \in Clients : HasOpenSocket(w.sock, c) => w.heard[c] <= w.rt.lastActivityAt[c]

RoomGood(w) ==
  /\ Emptied(w)
  /\ Seated(w)
  /\ ~Hibernation => Informed(w) /\ RememberedOpen(w)

\* v is w but for frames, waits, buffers and the activity of clients heard now.
Quiet(v, w) ==
  /\ SamePlaces(v, w)
  /\ v.told = w.told
  /\ GatewayOpen(w) => \A c \in Clients :
       w.rt.pendingConnectStarts[c] = Never => v.rt.pendingConnectStarts[c] = Never
  /\ \A g \in Gateways : v.heard[g] = w.heard[g]
  /\ \A c \in Clients :
       \/ v.heard[c] = w.heard[c] /\ v.rt.lastActivityAt[c] = w.rt.lastActivityAt[c]
       \/ v.heard[c] = now /\ v.rt.lastActivityAt[c] = now
  /\ \A f \in v.sent : f.kind = "idle_or_stale" => f \in w.sent

\* What is quiet twice is quiet.
LEMMA QuietTwice ==
  ASSUME NEW u, NEW v, NEW w, Quiet(u, v), Quiet(v, w)
  PROVE  Quiet(u, w)
<1>1. GatewayOpen(v) = GatewayOpen(w)
  BY DEF Quiet, SamePlaces, GatewayOpen
<1> QED BY <1>1 DEF Quiet, SamePlaces

\* What is quiet keeps a room good.
LEMMA QuietGood ==
  ASSUME NEW v \in Worlds, NEW w \in Worlds, Quiet(v, w), now \in Nat
  PROVE  /\ RoomGood(w) => RoomGood(v)
         /\ Emptied(w) => Emptied(v)
         /\ Seated(w) => Seated(v)
         /\ Remembered(w) => Remembered(v)
         /\ RememberedOpen(w) => RememberedOpen(v)
         /\ Informed(w) => Informed(v)
<1>1. /\ GatewayOpen(v) = GatewayOpen(w)
      /\ Mapped(v.rt) = Mapped(w.rt)
  BY DEF Quiet, SamePlaces, GatewayOpen, Mapped
<1>2. \A c \in Clients : HasOpenSocket(v.sock, c) = HasOpenSocket(w.sock, c)
  BY DEF Quiet, SamePlaces
<1>3. \A c \in Clients : w.heard[c] <= w.rt.lastActivityAt[c]
                           => v.heard[c] <= v.rt.lastActivityAt[c]
  BY DEF Quiet
<1>4. Emptied(w) => Emptied(v)
  BY <1>1 DEF Quiet, Emptied
<1>5. Seated(w) => Seated(v)
  BY DEF Quiet, SamePlaces, Seated
<1>6. Informed(w) => Informed(v)
  BY <1>1 DEF Quiet, Informed
<1> QED BY <1>2, <1>3, <1>4, <1>5, <1>6 DEF RoomGood, Remembered, RememberedOpen

-----------------------------------------------------------------------------
(* Quiet operators *)

\* A client is heard now.
LEMMA TouchQuiet ==
  ASSUME NEW w \in Worlds, NEW c \in Clients, now \in Nat
  PROVE  Quiet(TouchClientActivity(w, c), w)
<1>1. c \notin Gateways
  BY IdsAssumption
<1> QED BY <1>1 DEF Worlds, RelayRuntime, TouchClientActivity, Quiet, SamePlaces, Peers

\* A frame that closes nothing is sent.
LEMMA SendQuiet ==
  ASSUME NEW w \in Worlds, NEW kind \in FrameKinds \ {"idle_or_stale"}, NEW to \in Sockets
  PROVE  Quiet(Send(w, kind, to), w)
BY DEF Worlds, Send, Quiet, SamePlaces

\* A gateway is heard now, and nothing else happens.
LEMMA HearEffect ==
  ASSUME NEW w \in Worlds, NEW g \in Gateways
  PROVE  LET v == Hear(w, g) IN
         /\ v.sock = w.sock /\ v.rt = w.rt /\ v.told = w.told /\ v.sent = w.sent
         /\ \A p \in Peers \ {g} : v.heard[p] = w.heard[p]
         /\ v.heard[g] \in {w.heard[g], now}
BY DEF Worlds, Hear, Peers

\* The buffered challenge is dropped.
LEMMA DropPendingQuiet ==
  ASSUME NEW w \in Worlds
  PROVE  Quiet(DropPendingChallenge(w), w)
BY DEF Worlds, RelayRuntime, DropPendingChallenge, Quiet, SamePlaces

\* A challenge takes the place of the buffered one.
LEMMA BufferQuiet ==
  ASSUME NEW w \in Worlds, NEW p \in [queuedAt : Time, gateway : Gateways \cup {None}]
  PROVE  LET v == [w EXCEPT !.rt.pendingChallenge = p] IN v \in Worlds /\ Quiet(v, w)
BY DEF Worlds, RelayRuntime, Quiet, SamePlaces

\* A client begins to wait.
LEMMA MarkQuiet ==
  ASSUME NEW w \in Worlds, NEW c \in Clients, NEW at \in Time
  PROVE  Quiet(MarkAwaitingChallenge(w, c, at), w)
BY DEF Worlds, RelayRuntime, MarkAwaitingChallenge, Quiet, SamePlaces

\* Old connects leave the buffer.
LEMMA PruneStartsQuiet ==
  ASSUME NEW w \in Worlds
  PROVE  Quiet(PrunePendingConnectStarts(w), w)
BY DEF Worlds, RelayRuntime, PrunePendingConnectStarts, Quiet, SamePlaces

\* A connect enters the buffer, which is only done without a gateway.
LEMMA BufferStartQuiet ==
  ASSUME NEW w \in Worlds, NEW c \in Clients, now \in Nat, ~GatewayOpen(w)
  PROVE  Quiet(BufferConnectStart(w, c), w)
<1> DEFINE queued == [w EXCEPT !.rt.pendingConnectStarts[c] = now]
<1>1. queued \in Worlds /\ Quiet(queued, w)
  BY DEF Worlds, RelayRuntime, Quiet, SamePlaces, Time
<1> HIDE DEF queued
<1> QED BY <1>1, PruneStartsQuiet, QuietTwice DEF BufferConnectStart, queued

\* A challenge is delivered.
LEMMA DeliverChallengeQuiet ==
  ASSUME NEW w \in Worlds, now \in Nat, NEW v \in TryDeliverChallenge(w)
  PROVE  Quiet(v, w)
<1> DEFINE chosen(c) == [w EXCEPT !.rt.challengeClientId = c]
           waits(c) == [chosen(c) EXCEPT !.rt.awaitingChallenge[c] = Never]
<1>1. PICK c \in OpenClients(w) \cup {None} :
        v = IF c = None THEN chosen(c)
            ELSE Send(TouchClientActivity(waits(c), c),
                      "challenge", w.rt.clients[c])
  BY AwaitingRange DEF TryDeliverChallenge
<1>2. chosen(c) \in Worlds /\ Quiet(chosen(c), w)
  BY DEF Worlds, RelayRuntime, Quiet, SamePlaces, OpenClients
<1>3. CASE c = None
  BY <1>1, <1>2, <1>3
<1>4. CASE c # None
  <2>1. c \in Clients /\ w.rt.clients[c] \in Sockets
    BY <1>4 DEF OpenClients, IsOpen, Worlds, RelayRuntime
  <2>2. waits(c) \in Worlds /\ Quiet(waits(c), w)
    BY <2>1 DEF Worlds, RelayRuntime, Quiet, SamePlaces, Time
  <2> DEFINE touched == TouchClientActivity(waits(c), c)
  <2>3. touched \in Worlds /\ Quiet(touched, waits(c))
    BY <2>1, <2>2, TouchWorld, TouchQuiet
  <2> HIDE DEF touched
  <2>4. Quiet(Send(touched, "challenge", w.rt.clients[c]), touched)
    BY <2>1, <2>3, SendQuiet DEF FrameKinds
  <2>5. v = Send(touched, "challenge", w.rt.clients[c])
    BY <1>1, <1>4 DEF touched
  <2> HIDE DEF waits
  <2> QED BY <2>2, <2>3, <2>4, <2>5, QuietTwice
<1> QED BY <1>3, <1>4

\* Another frame is delivered to a client.
LEMMA DeliverToQuiet ==
  ASSUME NEW w \in Worlds, NEW c \in Clients \cup {None},
         NEW kind \in FrameKinds \ {"idle_or_stale"}, now \in Nat
  PROVE  Quiet(DeliverTo(w, c, kind), w)
<1>1. CASE c # None /\ IsOpen(w.sock, w.rt.clients[c])
  <2> DEFINE touched == TouchClientActivity(w, c)
  <2>1. c \in Clients /\ w.rt.clients[c] \in Sockets
    BY <1>1 DEF IsOpen, Worlds, RelayRuntime
  <2>2. touched \in Worlds /\ Quiet(touched, w)
    BY <2>1, TouchWorld, TouchQuiet
  <2> HIDE DEF touched
  <2>3. Quiet(Send(touched, kind, w.rt.clients[c]), touched)
    BY <2>1, <2>2, SendQuiet
  <2> QED BY <1>1, <2>2, <2>3, QuietTwice DEF DeliverTo, touched
<1>2. CASE ~(c # None /\ IsOpen(w.sock, w.rt.clients[c]))
  BY <1>2 DEF DeliverTo, Quiet, SamePlaces
<1> QED BY <1>1, <1>2

\* A frame is forwarded to the gateway.
LEMMA ToGatewayQuiet ==
  ASSUME NEW w \in Worlds, NEW kind \in FrameKinds \ {"idle_or_stale"}
  PROVE  Quiet(ToGateway(w, kind), w)
<1>1. CASE GatewayOpen(w)
  <2>1. w.rt.gatewaySocket \in Sockets
    BY <1>1 DEF GatewayOpen, IsOpen, Worlds, RelayRuntime
  <2> QED BY <1>1, <2>1, SendQuiet DEF ToGateway
<1>2. CASE ~GatewayOpen(w)
  BY <1>2 DEF ToGateway, Quiet, SamePlaces
<1> QED BY <1>1, <1>2

\* The buffer is flushed to the gateway, and is empty then.
LEMMA FlushStartsQuiet ==
  ASSUME NEW w \in Worlds
  PROVE  /\ Quiet(FlushPendingConnectStarts(w), w)
         /\ Emptied(FlushPendingConnectStarts(w))
<1> DEFINE starts == PrunePendingConnectStarts(w).rt.pendingConnectStarts
           ready == {c \in OpenClients(w) : starts[c] # Never}
           forwarded == {[kind |-> "connect", to |-> w.rt.gatewaySocket] : c \in ready}
<1>1. \A f \in forwarded : f.kind # "idle_or_stale"
  OBVIOUS
<1> HIDE DEF starts, ready, forwarded
<1> DEFINE flushed == FlushPendingConnectStarts(w)
<1>2. /\ flushed.sock = w.sock /\ flushed.told = w.told /\ flushed.heard = w.heard
      /\ flushed.sent = w.sent \cup forwarded
      /\ flushed.rt.gatewaySocket = w.rt.gatewaySocket
      /\ flushed.rt.clients = w.rt.clients
      /\ flushed.rt.lastActivityAt = w.rt.lastActivityAt
      /\ flushed.rt.pendingConnectStarts = [c \in Clients |-> Never]
  BY DEF Worlds, RelayRuntime, FlushPendingConnectStarts, starts, ready, forwarded
<1> HIDE DEF flushed
<1>3. Quiet(flushed, w) /\ Emptied(flushed)
  BY <1>1, <1>2 DEF Quiet, SamePlaces, Emptied
<1> QED BY <1>3 DEF flushed

\* Waits that are over are forgotten.
LEMMA PruneAwaitingQuiet ==
  ASSUME NEW w \in Worlds
  PROVE  Quiet(PruneExpiredAwaitingChallenges(w), w)
BY DEF Worlds, RelayRuntime, PruneExpiredAwaitingChallenges, Quiet, SamePlaces

\* The buffered challenge is delivered or dropped, or waits on.
LEMMA FlushChallengeQuiet ==
  ASSUME NEW w \in Worlds, now \in Nat, NEW v \in FlushPendingChallenge(w)
  PROVE  Quiet(v, w)
<1>1. v = w \/ v = DropPendingChallenge(w)
      \/ \E u \in TryDeliverChallenge(w) :
           v = u \/ v = DropPendingChallenge(u)
  BY DEF FlushPendingChallenge
<1>2. Quiet(w, w)
  BY DEF Quiet, SamePlaces
<1> QED
  BY <1>1, <1>2, DeliverChallengeQuiet, DeliverChallengeWorld, DropPendingQuiet, QuietTwice

-----------------------------------------------------------------------------
(* Operators that lose sockets and clients *)

\* v has no more open sockets than w, and the same gateway.
Thinned(v, w) ==
  /\ v.rt.gatewaySocket = w.rt.gatewaySocket
  /\ \A s \in Sockets :
       /\ v.sock[s].id = w.sock[s].id
       /\ v.sock[s].state = "open" => w.sock[s].state = "open"
  /\ \A g \in Gateways : v.heard[g] = w.heard[g]

\* What is thinned twice is thinned.
LEMMA ThinnedTwice ==
  ASSUME NEW u, NEW v, NEW w, Thinned(u, v), Thinned(v, w)
  PROVE  Thinned(u, w)
BY DEF Thinned

\* Quiet operators close nothing.
LEMMA QuietThinned ==
  ASSUME NEW v, NEW w, Quiet(v, w)
  PROVE  Thinned(v, w)
BY DEF Quiet, SamePlaces, Thinned

\* Closing sockets frees none, and sends a close to those that were open.
LEMMA CloseEffect ==
  ASSUME NEW w \in Worlds, NEW S,
         NEW code \in {"rate_limited", "idle_or_stale", "dead_socket"}
  PROVE  LET v == Close(w, S, code) IN
         /\ v.rt = w.rt /\ v.told = w.told /\ v.heard = w.heard
         /\ Thinned(v, w)
         /\ \A s \in Sockets : v.sock[s].state = "free" => w.sock[s].state = "free"
         /\ \A f \in v.sent : \/ f \in w.sent
                              \/ /\ f.kind = code
                                 /\ f.to \in S \cap Sockets
                                 /\ w.sock[f.to].state = "open"
<1> DEFINE closed == {s \in S \cap Sockets : w.sock[s].state = "open"}
           frames == {[kind |-> code, to |-> s] : s \in closed}
           sock2 == [s \in Sockets |-> IF s \in closed THEN Closing(w.sock[s])
                                       ELSE w.sock[s]]
           v == Close(w, S, code)
<1>1. v = [w EXCEPT !.sock = sock2, !.sent = @ \cup frames]
  BY DEF Close
<1>2. \A s \in Sockets :
        /\ sock2[s].id = w.sock[s].id
        /\ sock2[s].state = "open" => w.sock[s].state = "open"
        /\ sock2[s].state = "free" => w.sock[s].state = "free"
  BY DEF Worlds, SocketRecord, Closing
<1>3. \A f \in frames : /\ f.kind = code
                        /\ f.to \in S \cap Sockets
                        /\ w.sock[f.to].state = "open"
  OBVIOUS
<1> HIDE DEF frames, sock2
<1>4. /\ v.rt = w.rt /\ v.told = w.told /\ v.heard = w.heard
      /\ v.sock = sock2 /\ v.sent = w.sent \cup frames
  BY <1>1 DEF Worlds
<1> HIDE DEF v
<1>5. Thinned(v, w)
  BY <1>2, <1>4 DEF Thinned
<1>6. \A s \in Sockets : v.sock[s].state = "free" => w.sock[s].state = "free"
  BY <1>2, <1>4
<1>7. \A f \in v.sent : \/ f \in w.sent
                        \/ /\ f.kind = code
                           /\ f.to \in S \cap Sockets
                           /\ w.sock[f.to].state = "open"
  BY <1>3, <1>4
<1> QED BY <1>4, <1>5, <1>6, <1>7 DEF v

\* Dropping clients forgets what the room keeps for them, and only for them.
LEMMA DropEffect ==
  ASSUME NEW w \in Worlds, NEW D \in SUBSET Clients, NEW v \in DropClients(w, D)
  PROVE  /\ v.sock = w.sock /\ v.told = w.told /\ v.heard = w.heard /\ v.sent = w.sent
         /\ v.rt.gatewaySocket = w.rt.gatewaySocket
         /\ \A c \in Clients \ D :
              /\ v.rt.clients[c] = w.rt.clients[c]
              /\ v.rt.lastActivityAt[c] = w.rt.lastActivityAt[c]
              /\ v.rt.pendingConnectStarts[c] = w.rt.pendingConnectStarts[c]
              /\ v.rt.awaitingChallenge[c] = w.rt.awaitingChallenge[c]
         /\ \A c \in D :
              /\ v.rt.clients[c] = None
              /\ v.rt.lastActivityAt[c] = Never
              /\ v.rt.pendingConnectStarts[c] = Never
<1> DEFINE rest == Without(w.rt, D)
           open == OpenClients([w EXCEPT !.rt = rest])
<1>1. /\ rest \in RelayRuntime
      /\ rest.gatewaySocket = w.rt.gatewaySocket
      /\ rest.clients = [c \in Clients |-> IF c \in D THEN None ELSE w.rt.clients[c]]
      /\ rest.lastActivityAt =
           [c \in Clients |-> IF c \in D THEN Never ELSE w.rt.lastActivityAt[c]]
      /\ rest.pendingConnectStarts =
           [c \in Clients |-> IF c \in D THEN Never ELSE w.rt.pendingConnectStarts[c]]
      /\ rest.awaitingChallenge =
           [c \in Clients |-> IF c \in D THEN Never ELSE w.rt.awaitingChallenge[c]]
  BY DEF Worlds, RelayRuntime, Without, ForgetRequests, Time
<1>2. PICK active, challenger : v = Elect([w EXCEPT !.rt = rest], active, challenger)
  BY DEF DropClients
<1> HIDE DEF rest
<1>3. /\ v.rt = [rest EXCEPT !.activeClientId = active, !.challengeClientId = challenger]
      /\ v = [w EXCEPT !.rt = v.rt]
  BY <1>2 DEF Elect, Worlds
<1>4. /\ v.rt.gatewaySocket = rest.gatewaySocket
      /\ v.rt.clients = rest.clients
      /\ v.rt.lastActivityAt = rest.lastActivityAt
      /\ v.rt.pendingConnectStarts = rest.pendingConnectStarts
      /\ v.rt.awaitingChallenge = rest.awaitingChallenge
  BY <1>1, <1>3 DEF RelayRuntime
<1>5. v.sock = w.sock /\ v.told = w.told /\ v.heard = w.heard /\ v.sent = w.sent
  BY <1>3 DEF Worlds
<1> QED BY <1>1, <1>4, <1>5

\* The gateway is told the count when clients connect or go.
LEMMA CountInforms ==
  ASSUME NEW w \in Worlds
  PROVE  LET v == SendClientCount(w) IN
         /\ Informed(v)
         /\ v.sock = w.sock /\ v.rt = w.rt /\ v.heard = w.heard /\ v.sent = w.sent
BY DEF Worlds, SendClientCount, Informed, GatewayOpen

\* After clients went the gateway knows how many are left.
LEMMA ReportEffect ==
  ASSUME NEW w \in Worlds
  PROVE  LET v == ReportClientsLost(w) IN
         /\ Informed(v)
         /\ v.sock = w.sock /\ v.heard = w.heard /\ v.sent = w.sent
         /\ v.rt.gatewaySocket = w.rt.gatewaySocket
         /\ v.rt.clients = w.rt.clients
         /\ v.rt.lastActivityAt = w.rt.lastActivityAt
         /\ v.rt.pendingConnectStarts = w.rt.pendingConnectStarts
         /\ v.rt.awaitingChallenge = w.rt.awaitingChallenge
<1>1. PICK u \in {w, DropPendingChallenge(w)} : ReportClientsLost(w) = SendClientCount(u)
  BY DEF ReportClientsLost
<1>2. LET d == DropPendingChallenge(w) IN
      /\ d.sock = w.sock /\ d.heard = w.heard /\ d.sent = w.sent
      /\ d.rt.gatewaySocket = w.rt.gatewaySocket
      /\ d.rt.clients = w.rt.clients
      /\ d.rt.lastActivityAt = w.rt.lastActivityAt
      /\ d.rt.pendingConnectStarts = w.rt.pendingConnectStarts
      /\ d.rt.awaitingChallenge = w.rt.awaitingChallenge
  BY DEF DropPendingChallenge, Worlds, RelayRuntime
<1>3. u \in Worlds
  BY DropPendingWorld
<1>4. /\ u.sock = w.sock /\ u.heard = w.heard /\ u.sent = w.sent
      /\ u.rt.gatewaySocket = w.rt.gatewaySocket
      /\ u.rt.clients = w.rt.clients
      /\ u.rt.lastActivityAt = w.rt.lastActivityAt
      /\ u.rt.pendingConnectStarts = w.rt.pendingConnectStarts
      /\ u.rt.awaitingChallenge = w.rt.awaitingChallenge
  BY <1>2
<1> QED BY <1>1, <1>3, <1>4, CountInforms

\* The places are taken, but for those of D.
SeatedBut(w, D) ==
  /\ w.rt.gatewaySocket # None =>
       /\ w.sock[w.rt.gatewaySocket].state # "free"
       /\ w.sock[w.rt.gatewaySocket].id \in Gateways
  /\ \A c \in Clients \ D : w.rt.clients[c] # None =>
       /\ w.sock[w.rt.clients[c]].state # "free"
       /\ w.sock[w.rt.clients[c]].id = c

\* Clients whose sockets are not open any more are dropped and reported.
LEMMA DropAndReport ==
  ASSUME NEW w \in Worlds, NEW D \in SUBSET Clients, NEW u \in DropClients(w, D),
         \A c \in D : ~IsOpen(w.sock, w.rt.clients[c]), Owned(w),
         Emptied(w), SeatedBut(w, D), ~Hibernation => RememberedOpen(w)
  PROVE  LET v == ReportClientsLost(u) IN
         v \in Worlds /\ Owned(v) /\ RoomGood(v) /\ Thinned(v, w) /\ v.sent = w.sent
<1> DEFINE v == ReportClientsLost(u)
<1>1. u \in Worlds /\ Owned(u)
  BY DropWorld
<1>2. v \in Worlds /\ Owned(v)
  BY <1>1, ReportLostWorld, SamePlacesOwned
<1>3. /\ Informed(v)
      /\ v.sock = w.sock /\ v.heard = w.heard /\ v.sent = w.sent
      /\ v.rt.gatewaySocket = w.rt.gatewaySocket
      /\ \A c \in Clients \ D :
           /\ v.rt.clients[c] = w.rt.clients[c]
           /\ v.rt.lastActivityAt[c] = w.rt.lastActivityAt[c]
           /\ v.rt.pendingConnectStarts[c] = w.rt.pendingConnectStarts[c]
      /\ \A c \in D :
           v.rt.clients[c] = None /\ v.rt.pendingConnectStarts[c] = Never
  BY <1>1, ReportEffect, DropEffect
<1> HIDE DEF v
<1>4. Thinned(v, w)
  BY <1>3 DEF Thinned
<1>5. Emptied(v)
  BY <1>3 DEF Emptied, GatewayOpen
<1>6. Seated(v)
  BY <1>3 DEF Seated, SeatedBut
<1>7. RememberedOpen(w) => RememberedOpen(v)
  <2> SUFFICES ASSUME RememberedOpen(w), NEW c \in Clients, HasOpenSocket(v.sock, c)
               PROVE  v.heard[c] <= v.rt.lastActivityAt[c]
    BY DEF RememberedOpen
  <2>1. HasOpenSocket(w.sock, c)
    BY <1>3
  <2>2. c \notin D
    BY <2>1, IdsAssumption DEF HasOpenSocket, Owned, IsOpen
  <2> QED BY <1>3, <2>1, <2>2 DEF RememberedOpen
<1> QED BY <1>2, <1>3, <1>4, <1>5, <1>6, <1>7 DEF RoomGood, v

\* Sockets that leave OPEN keep their places, the buffer and the clocks.
LEMMA FewerOpenGood ==
  ASSUME NEW v, NEW w \in Worlds, RoomGood(w), Thinned(v, w),
         v.rt = w.rt, v.told = w.told, v.heard = w.heard,
         \A s \in Sockets : v.sock[s].state = "free" => w.sock[s].state = "free"
  PROVE  RoomGood(v)
<1>1. w.rt \in RelayRuntime
  BY DEF Worlds
<1>2. GatewayOpen(v) => GatewayOpen(w)
  BY <1>1 DEF Thinned, GatewayOpen, IsOpen, RelayRuntime
<1>3. Emptied(v)
  BY <1>2 DEF RoomGood, Emptied
<1>4. Seated(v)
  BY <1>1 DEF RoomGood, Seated, Thinned, RelayRuntime
<1>5. ~Hibernation => Informed(v) /\ RememberedOpen(v)
  BY <1>2 DEF RoomGood, Informed, RememberedOpen, HasOpenSocket, Thinned
<1> QED BY <1>3, <1>4, <1>5 DEF RoomGood

\* So do those the room closes.
LEMMA CloseGood ==
  ASSUME NEW w \in Worlds, NEW S,
         NEW code \in {"rate_limited", "idle_or_stale", "dead_socket"}, RoomGood(w)
  PROVE  RoomGood(Close(w, S, code))
<1> DEFINE v == Close(w, S, code)
<1>1. /\ v.rt = w.rt /\ v.told = w.told /\ v.heard = w.heard
      /\ Thinned(v, w)
      /\ \A s \in Sockets : v.sock[s].state = "free" => w.sock[s].state = "free"
  BY CloseEffect
<1> HIDE DEF v
<1> QED BY <1>1, FewerOpenGood DEF v

\* What a prune or a tick does: sockets closed, their clients dropped.
LEMMA CloseAndDropGood ==
  ASSUME NEW w \in Worlds, NEW D \in SUBSET Clients,
         NEW code \in {"idle_or_stale", "dead_socket"},
         NEW u \in DropClients(Close(w, {w.rt.clients[c] : c \in D}, code), D),
         Owned(w), RoomGood(w)
  PROVE  LET v == ReportClientsLost(u) IN
         /\ v \in Worlds /\ Owned(v) /\ RoomGood(v) /\ Thinned(v, w)
         /\ \A f \in v.sent :
              \/ f \in w.sent
              \/ /\ f.kind = code
                 /\ \E c \in D : f.to = w.rt.clients[c] /\ IsOpen(w.sock, f.to)
<1> DEFINE S == {w.rt.clients[c] : c \in D}
           closed == Close(w, S, code)
           v == ReportClientsLost(u)
<1>1. /\ closed \in Worlds /\ closed.rt = w.rt /\ Owned(closed)
      /\ \A s \in Sockets : closed.sock[s].state = "open" => s \notin S
  BY CloseWorld
<1>2. RoomGood(closed)
  BY CloseGood
<1>3. /\ Thinned(closed, w)
      /\ \A f \in closed.sent : \/ f \in w.sent
                                \/ /\ f.kind = code
                                   /\ f.to \in S \cap Sockets
                                   /\ w.sock[f.to].state = "open"
  BY CloseEffect
<1>4. \A c \in D : w.rt.clients[c] \in S
  OBVIOUS
<1>5. \A s \in S : \E c \in D : s = w.rt.clients[c]
  OBVIOUS
<1>6. u \in DropClients(closed, D)
  OBVIOUS
<1> HIDE DEF closed, S
<1>7. \A c \in D : ~IsOpen(closed.sock, closed.rt.clients[c])
  BY <1>1, <1>4 DEF IsOpen, Worlds, RelayRuntime
<1>8. v \in Worlds /\ Owned(v) /\ RoomGood(v) /\ Thinned(v, closed) /\ v.sent = closed.sent
  <2>1. /\ Emptied(closed) /\ SeatedBut(closed, D)
        /\ ~Hibernation => RememberedOpen(closed)
    BY <1>2 DEF RoomGood, Seated, SeatedBut
  <2> QED BY <1>1, <1>6, <1>7, <2>1, DropAndReport
<1> HIDE DEF v
<1>9. Thinned(v, w)
  BY <1>3, <1>8, ThinnedTwice
<1>10. \A f \in v.sent :
         \/ f \in w.sent
         \/ /\ f.kind = code
            /\ \E c \in D : f.to = w.rt.clients[c] /\ IsOpen(w.sock, f.to)
  BY <1>3, <1>5, <1>8, IdsAssumption DEF IsOpen
<1> QED BY <1>8, <1>9, <1>10 DEF v

\* The ticks keep the room good and close nobody for silence.
LEMMA SendTicksGood ==
  ASSUME NEW w \in Worlds, NEW v \in SendTicks(w), Owned(w), RoomGood(w)
  PROVE  /\ v \in Worlds /\ Owned(v) /\ RoomGood(v) /\ Thinned(v, w)
         /\ \A f \in v.sent : f.kind = "idle_or_stale" => f \in w.sent
<1>1. v = w \/ \E D \in SUBSET Clients :
                 \E u \in DropClients(Close(w, {w.rt.clients[c] : c \in D},
                                            "dead_socket"), D) :
                   v = ReportClientsLost(u)
  BY DEF SendTicks, OpenClients
<1>2. Thinned(w, w)
  BY DEF Thinned
<1>3. CASE v = w
  BY <1>2, <1>3
<1>4. ASSUME NEW D \in SUBSET Clients,
             NEW u \in DropClients(Close(w, {w.rt.clients[c] : c \in D}, "dead_socket"), D),
             v = ReportClientsLost(u)
      PROVE  /\ v \in Worlds /\ Owned(v) /\ RoomGood(v) /\ Thinned(v, w)
             /\ \A f \in v.sent : f \in w.sent \/ f.kind = "dead_socket"
  BY <1>4, CloseAndDropGood
<1> QED BY <1>1, <1>3, <1>4

\* Whom the prune drops: clients that are gone, idle, or silent since a
\* connect nobody answered.
Silent(w, c) ==
  \/ Expired(w.rt.lastActivityAt[c], IdleTimeout)
  \/ /\ Expired(w.rt.awaitingChallenge[c], AwaitingTtl)
     /\ \/ w.rt.lastActivityAt[c] = Never
        \/ Expired(w.rt.lastActivityAt[c], AwaitingTtl)

\* The prune keeps the room good and closes silent clients only.
LEMMA PruneStaleGood ==
  ASSUME NEW w \in Worlds, NEW v \in PruneStaleHandshakeClients(w), Owned(w), RoomGood(w)
  PROVE  /\ v \in Worlds /\ Owned(v) /\ RoomGood(v) /\ Thinned(v, w)
         /\ \A f \in v.sent :
              \/ f \in w.sent
              \/ \E c \in Clients : /\ f.to = w.rt.clients[c] /\ IsOpen(w.sock, f.to)
                                    /\ Silent(w, c)
<1> DEFINE D == {c \in Mapped(w.rt) : c \notin OpenClients(w) \/ Silent(w, c)}
<1>1. D \in SUBSET Clients
  BY DEF Mapped
<1>2. \A c \in D : IsOpen(w.sock, w.rt.clients[c]) => Silent(w, c)
  BY DEF OpenClients, Mapped
<1>3. v = w \/ \E u \in DropClients(Close(w, {w.rt.clients[c] : c \in D},
                                          "idle_or_stale"), D) :
                 v = ReportClientsLost(u)
  BY DEF PruneStaleHandshakeClients, Silent
<1>4. Thinned(w, w)
  BY DEF Thinned
<1> HIDE DEF D
<1>5. ASSUME NEW u \in DropClients(Close(w, {w.rt.clients[c] : c \in D},
                                         "idle_or_stale"), D),
             v = ReportClientsLost(u)
      PROVE  /\ v \in Worlds /\ Owned(v) /\ RoomGood(v) /\ Thinned(v, w)
             /\ \A f \in v.sent :
                  \/ f \in w.sent
                  \/ \E c \in D : f.to = w.rt.clients[c] /\ IsOpen(w.sock, f.to)
  BY <1>1, <1>5, CloseAndDropGood
<1> QED BY <1>1, <1>2, <1>3, <1>4, <1>5


-----------------------------------------------------------------------------
(* Reconciling the sockets *)

\* Whatever the places were, a reconcile seats who has an open socket, keeps
\* the buffer, and knows of no connected client less than before.
LEMMA ReconcileEffect ==
  ASSUME NEW w \in Worlds, NEW preferred, NEW v \in ReconcileSockets(w, preferred)
  PROVE  /\ Seated(v)
         /\ v.told = w.told /\ v.heard = w.heard
         /\ v.rt.pendingConnectStarts = w.rt.pendingConnectStarts
         /\ v.rt.awaitingChallenge = w.rt.awaitingChallenge
         /\ \A s \in Sockets :
              /\ v.sock[s].id = w.sock[s].id
              /\ v.sock[s].state = "open" => w.sock[s].state = "open"
         /\ v.rt.gatewaySocket # None =>
              v.rt.gatewaySocket \in Contenders(w.sock, Gateways)
         /\ Remembered(w) => RememberedOpen(v)
         /\ \A f \in v.sent : f.kind = "idle_or_stale" => f \in w.sent
<1>1. PICK gateway \in Winners(w.sock, Gateways, preferred),
           clients \in ClientMaps(w.sock, preferred) :
        v = Close(Placed(w, gateway, clients),
                  Sockets \ ({gateway} \cup {clients[c] : c \in Clients}),
                  "dead_socket")
  BY DEF ReconcileSockets
<1>2. /\ clients \in [Clients -> Sockets \cup {None}]
      /\ \A c \in Clients : clients[c] \in Winners(w.sock, {c}, preferred)
  BY DEF ClientMaps
<1> DEFINE activity == [c \in Clients |->
             IF clients[c] = None THEN Never
             ELSE KeptActivity(w.rt.lastActivityAt[c], w.sock[clients[c]].connectedAt)]
           placed == Placed(w, gateway, clients)
           others == Sockets \ ({gateway} \cup {clients[c] : c \in Clients})
<1>3. /\ activity \in [Clients -> Time]
      /\ \A c \in Clients : clients[c] # None => w.rt.lastActivityAt[c] <= activity[c]
  <2>1. \A c \in Clients : clients[c] # None => w.sock[clients[c]].connectedAt \in Time
    BY <1>2 DEF Worlds, SocketRecord
  <2>2. w.rt.lastActivityAt \in [Clients -> Time]
    BY DEF Worlds, RelayRuntime
  <2>3. \A a, b \in Time : KeptActivity(a, b) \in Time /\ a <= KeptActivity(a, b)
    BY DEF KeptActivity, Time, Never
  <2> QED BY <2>1, <2>2, <2>3 DEF Time
<1>4. gateway \in Contenders(w.sock, Gateways) \cup {None}
  BY WinnersContend
<1>5. \A c \in Clients : clients[c] \in Contenders(w.sock, {c}) \cup {None}
  BY <1>2, WinnersContend
<1>6. placed = [w EXCEPT !.rt.gatewaySocket = gateway, !.rt.clients = clients,
                         !.rt.lastActivityAt = activity]
  BY DEF Placed
<1>7. v = Close(placed, others, "dead_socket")
  BY <1>1
<1>8. \A c \in Clients : clients[c] \notin others
  OBVIOUS
<1>9. gateway \notin others
  OBVIOUS
<1> HIDE DEF activity, placed, others
<1>10. /\ placed \in Worlds /\ placed.sock = w.sock /\ placed.sent = w.sent
       /\ placed.told = w.told /\ placed.heard = w.heard
       /\ placed.rt.gatewaySocket = gateway /\ placed.rt.clients = clients
       /\ placed.rt.lastActivityAt = activity
       /\ placed.rt.pendingConnectStarts = w.rt.pendingConnectStarts
       /\ placed.rt.awaitingChallenge = w.rt.awaitingChallenge
  BY <1>2, <1>3, <1>4, <1>6 DEF Worlds, RelayRuntime, Contenders
<1>11. /\ v \in Worlds /\ v.rt = placed.rt
       /\ \A s \in Sockets : /\ v.sock[s].id = w.sock[s].id
                             /\ v.sock[s].state = "open"
                                  <=> w.sock[s].state = "open" /\ s \notin others
  BY <1>7, <1>10, CloseWorld
<1>12. /\ v.told = w.told /\ v.heard = w.heard
       /\ \A f \in v.sent : f \in w.sent \/ f.kind = "dead_socket"
  BY <1>7, <1>10, CloseEffect
<1>13. \A s \in Sockets : v.sock[s].state = "open" => v.sock[s].state # "free"
  OBVIOUS
<1>14. Seated(v)
  <2>1. ASSUME gateway # None
        PROVE  v.sock[gateway].state # "free" /\ v.sock[gateway].id \in Gateways
    BY <1>4, <1>9, <1>11, <1>13, <2>1 DEF Contenders
  <2>2. ASSUME NEW c \in Clients, clients[c] # None
        PROVE  v.sock[clients[c]].state # "free" /\ v.sock[clients[c]].id = c
    BY <1>5, <1>8, <1>11, <1>13, <2>2 DEF Contenders
  <2> QED BY <1>10, <1>11, <2>1, <2>2 DEF Seated
<1>15. ASSUME Remembered(w), NEW c \in Clients, HasOpenSocket(v.sock, c)
       PROVE  v.heard[c] <= v.rt.lastActivityAt[c]
  <2>1. Owned(v)
    BY ReconcileWorld
  <2>2. clients[c] # None
    BY <1>10, <1>11, <1>15, <2>1, IdsAssumption DEF HasOpenSocket, Owned
  <2>3. /\ w.heard[c] <= w.rt.lastActivityAt[c]
        /\ w.rt.lastActivityAt[c] <= activity[c]
    BY <1>3, <1>15, <2>2 DEF Remembered
  <2>4. w.heard[c] \in Int /\ w.rt.lastActivityAt[c] \in Int /\ activity[c] \in Int
    BY <1>3 DEF Worlds, RelayRuntime, Peers, Time, Never
  <2> QED BY <1>10, <1>11, <1>12, <2>3, <2>4
<1> QED BY <1>4, <1>10, <1>11, <1>12, <1>14, <1>15 DEF RememberedOpen


-----------------------------------------------------------------------------
(* The invariant *)

\* The owner is who holds the gateway's place, open or not.
OwnerSeated ==
  runtime.gatewaySocket # None => owner.id = sock[runtime.gatewaySocket].id

\* The room heard from the owner no later than the lease tells, and from the
\* others so long ago that they have lost it.
Leased ==
  \A h \in Gateways : heard[h] # Never =>
    /\ heard[h] <= now
    /\ IF owner.id = h THEN heard[h] <= owner.seenAt + OwnerTouchInterval
       ELSE now - heard[h] > OwnerLease - OwnerTouchInterval

\* What hibernation forgets and late frames upset is claimed without them.
GatewayInv ==
  /\ RoomGood(World)
  /\ ~Hibernation => Remembered(World)
  /\ ~LateFrames => OwnerSeated /\ Leased

\* No gateway's socket is opened in this step.
NoGatewayOpens ==
  \A s \in Sockets :
    sock[s].state = "free" /\ sock'[s].state = "open" => sock'[s].id \notin Gateways

\* No socket but g's is opened in this step.
OpensOnly(g) ==
  \A s \in Sockets :
    sock[s].state = "free" /\ sock'[s].state = "open" => sock'[s].id = g

\* Nobody is closed for silence in this step.
NobodySilenced == \A f \in sent' : f.kind # "idle_or_stale"

\* Becoming a good world, the room is good, and what was heard from clients
\* that are gone is no claim any more.
LEMMA BecomeGood ==
  ASSUME NEW w \in Worlds, RoomGood(w), Become(w)
  PROVE  RoomGood(World)' /\ (~Hibernation => Remembered(World)')
<1>1. /\ sock' = w.sock /\ runtime' = w.rt
      /\ GatewayOpen(w) => told' = w.told
      /\ \A c \in Clients :
           heard'[c] = IF HasOpenSocket(w.sock, c) THEN w.heard[c] ELSE Never
  BY IdsAssumption DEF Become, Peers
<1>2. GatewayOpen(World)' = GatewayOpen(w)
  BY <1>1 DEF GatewayOpen, World
<1>3. Emptied(World)'
  BY <1>1, <1>2 DEF RoomGood, Emptied, World
<1>4. Seated(World)'
  BY <1>1 DEF RoomGood, Seated, World
<1>5. Informed(w) => Informed(World)'
  BY <1>1, <1>2 DEF Informed, Mapped, World
<1>6. RememberedOpen(w) => Remembered(World)'
  <2>1. w.rt.lastActivityAt \in [Clients -> Time]
    BY DEF Worlds, RelayRuntime
  <2>2. \A c \in Clients : Never <= w.rt.lastActivityAt[c]
    BY <2>1 DEF Time, Never
  <2> QED BY <1>1, <2>2 DEF RememberedOpen, Remembered, World
<1>7. Remembered(World)' => RememberedOpen(World)'
  BY DEF Remembered, RememberedOpen
<1> QED BY <1>3, <1>4, <1>5, <1>6, <1>7 DEF RoomGood

\* The place of w's gateway is the one it has now.
SeatKept(w) ==
  w.rt.gatewaySocket # None =>
    /\ w.rt.gatewaySocket = runtime.gatewaySocket
    /\ w.sock[w.rt.gatewaySocket].id = sock[runtime.gatewaySocket].id

\* A step that touches no owner and hears from no gateway.
LEMMA OwnerKept ==
  ASSUME GatewayInv, NEW w \in Worlds, RoomGood(w), Become(w),
         UNCHANGED <<now, owner>>, SeatKept(w),
         \A h \in Gateways : w.heard[h] = heard[h]
  PROVE  GatewayInv'
<1>1. /\ runtime'.gatewaySocket = w.rt.gatewaySocket /\ sock' = w.sock
      /\ \A h \in Gateways : heard'[h] = heard[h]
  BY DEF Become, Peers
<1>2. OwnerSeated => OwnerSeated'
  BY <1>1 DEF OwnerSeated, SeatKept
<1>3. Leased => Leased'
  BY <1>1 DEF Leased
<1> QED BY <1>2, <1>3, BecomeGood DEF GatewayInv

\* Only who may own the room does: the others have lost their lease.
LEMMA RivalsSilent ==
  ASSUME Inv, Leased, NEW g \in Gateways, CanAcceptGatewayOwner(g),
         NEW h \in Gateways \ {g}, heard[h] # Never
  PROVE  now - heard[h] > OwnerLease - OwnerTouchInterval
<1>1. /\ now \in Int /\ heard[h] \in Int /\ owner.seenAt \in Int
      /\ OwnerLease \in Int /\ OwnerTouchInterval \in Int
  BY TimingAssumption DEF Inv, TypeOK, Time, Never, Peers
<1>2. CASE owner.id # h
  BY <1>2 DEF Leased
<1>3. CASE owner.id = h
  <2>1. now - owner.seenAt > OwnerLease
    BY <1>3, IdsAssumption DEF CanAcceptGatewayOwner, NoOwner
  <2>2. heard[h] <= owner.seenAt + OwnerTouchInterval
    BY <1>3 DEF Leased
  <2> QED BY <1>1, <2>1, <2>2
<1> QED BY <1>2, <1>3

\* A step that hears from one gateway, makes it the owner and leaves its
\* place to it, if to anybody.
LEMMA OwnerTouched ==
  ASSUME Inv, GatewayInv, NEW w \in Worlds, RoomGood(w), Become(w), now' = now,
         NEW g \in Gateways, NEW force \in BOOLEAN, TouchGatewayOwner(g, force),
         ~LateFrames => /\ CanAcceptGatewayOwner(g)
                        /\ w.rt.gatewaySocket # None => w.sock[w.rt.gatewaySocket].id = g,
         \A h \in Gateways \ {g} : w.heard[h] = heard[h],
         w.heard[g] \in {heard[g], now}
  PROVE  GatewayInv'
<1>1. /\ runtime'.gatewaySocket = w.rt.gatewaySocket /\ sock' = w.sock
      /\ \A h \in Gateways : heard'[h] = w.heard[h]
  BY DEF Become, Peers
<1>2. /\ now \in Int /\ owner.seenAt \in Int /\ \A h \in Gateways : heard[h] \in Int
      /\ OwnerTouchInterval \in Nat
  BY TimingAssumption DEF Inv, TypeOK, Time, Never, Peers
<1>3. owner'.id = g
      /\ \/ owner'.seenAt = now
         \/ /\ owner.id = g /\ owner'.seenAt = owner.seenAt
            /\ now - owner.seenAt < OwnerTouchInterval
  BY DEF TouchGatewayOwner
<1>4. ~LateFrames => OwnerSeated'
  BY <1>1, <1>3 DEF OwnerSeated
<1>5. ASSUME ~LateFrames, NEW h \in Gateways, heard'[h] # Never
      PROVE  /\ heard'[h] <= now'
             /\ IF owner'.id = h THEN heard'[h] <= owner'.seenAt + OwnerTouchInterval
                ELSE now' - heard'[h] > OwnerLease - OwnerTouchInterval
  <2>1. Leased
    BY <1>5 DEF GatewayInv
  <2>2. CASE h = g
    <3>1. heard'[g] <= now
      BY <1>1, <1>2, <1>5, <2>1, <2>2 DEF Leased
    <3>2. heard'[g] <= owner'.seenAt + OwnerTouchInterval
      BY <1>1, <1>2, <1>3, <3>1
    <3> QED BY <1>3, <2>2, <3>1, <3>2
  <2>3. CASE h # g
    <3>1. heard'[h] = heard[h] /\ heard[h] <= now
      BY <1>1, <1>5, <2>1, <2>3 DEF Leased
    <3>2. now - heard[h] > OwnerLease - OwnerTouchInterval
      BY <1>5, <2>1, <2>3, <3>1, RivalsSilent
    <3> QED BY <1>3, <2>3, <3>1, <3>2
  <2> QED BY <2>2, <2>3
<1> QED BY <1>4, <1>5, BecomeGood DEF GatewayInv, Leased

\* A step that closes sockets at most, and touches no owner.
LEMMA ThinnedStep ==
  ASSUME GatewayInv, NEW w \in Worlds, RoomGood(w), Become(w),
         UNCHANGED <<now, owner>>, Thinned(w, World)
  PROVE  GatewayInv' /\ NoGatewayOpens
<1>1. w.rt.gatewaySocket \in Sockets \cup {None}
  BY DEF Worlds, RelayRuntime
<1>2. SeatKept(w) /\ \A h \in Gateways : w.heard[h] = heard[h]
  BY <1>1 DEF Thinned, SeatKept, World
<1>3. NoGatewayOpens
  BY DEF NoGatewayOpens, Become, Thinned, World
<1> QED BY <1>2, <1>3, OwnerKept

\* Hearing from a gateway does not disturb the room.
LEMMA HearGood ==
  ASSUME NEW w \in Worlds, NEW g \in Gateways
  PROVE  /\ RoomGood(w) => RoomGood(Hear(w, g))
         /\ Seated(w) => Seated(Hear(w, g))
         /\ RememberedOpen(w) => RememberedOpen(Hear(w, g))
<1> DEFINE v == Hear(w, g)
<1>1. v.sock = w.sock /\ v.rt = w.rt /\ v.told = w.told
      /\ \A c \in Clients : v.heard[c] = w.heard[c]
  BY HearEffect, IdsAssumption DEF Peers
<1> HIDE DEF v
<1>2. /\ Emptied(w) => Emptied(v)
      /\ Seated(w) => Seated(v)
      /\ Informed(w) => Informed(v)
      /\ RememberedOpen(w) => RememberedOpen(v)
  BY <1>1 DEF Emptied, Seated, Informed, RememberedOpen, GatewayOpen
<1> QED BY <1>2 DEF RoomGood, v


-----------------------------------------------------------------------------
(* The steps *)

\* A gateway that may own the room takes its place and its record, is told
\* the clients and gets what was buffered.
LEMMA ConnectGatewayGood ==
  ASSUME Inv, GatewayInv, NEW s \in Sockets, NEW g \in Gateways, ConnectGateway(s, g)
  PROVE  GatewayInv' /\ OpensOnly(g) /\ NobodySilenced
<1> DEFINE accepted == AcceptWebSocket(s, g)
<1>1. PICK w \in ReconcileSockets(accepted, s) :
        Become(FlushPendingConnectStarts(SendClientCount(Hear(w, g))))
  BY DEF ConnectGateway
<1>2. /\ CanAcceptGatewayOwner(g) /\ TouchGatewayOwner(g, TRUE) /\ now' = now
      /\ now \in Nat /\ World \in Worlds
  BY WorldTyped DEF ConnectGateway, Inv, TypeOK
<1>3. /\ accepted \in Worlds
      /\ accepted.heard = heard /\ accepted.rt = runtime /\ accepted.sent = {}
      /\ accepted.sock[s].id = g
      /\ \A t \in Sockets \ {s} : accepted.sock[t] = sock[t]
  BY <1>2, AcceptWorld DEF AcceptWebSocket, World, Worlds, Inv, Peers
<1>4. Remembered(World) => Remembered(accepted)
  BY <1>3 DEF Remembered, World
<1>5. w.rt.gatewaySocket = s
  BY <1>1, NewGatewaySeated
<1> HIDE DEF accepted
<1>6. w \in Worlds
  BY <1>1, <1>3, ReconcileWorld
<1>7. /\ Seated(w)
      /\ w.heard = heard
      /\ w.sock[s].id = g
      /\ \A t \in Sockets : w.sock[t].state = "open" => accepted.sock[t].state = "open"
      /\ Remembered(accepted) => RememberedOpen(w)
      /\ \A f \in w.sent : f.kind # "idle_or_stale"
  BY <1>1, <1>3, ReconcileEffect
<1> DEFINE heardW == Hear(w, g)
           counted == SendClientCount(heardW)
           flushed == FlushPendingConnectStarts(counted)
<1>8. /\ heardW \in Worlds /\ Seated(heardW)
      /\ RememberedOpen(w) => RememberedOpen(heardW)
      /\ heardW.sock = w.sock /\ heardW.rt = w.rt /\ heardW.sent = w.sent
      /\ \A p \in Peers \ {g} : heardW.heard[p] = heard[p]
      /\ heardW.heard[g] \in {heard[g], now}
  BY <1>2, <1>6, <1>7, HearWorld, HearGood, HearEffect
<1> HIDE DEF heardW
<1>9. /\ counted \in Worlds /\ Informed(counted)
      /\ counted.sock = heardW.sock /\ counted.rt = heardW.rt
      /\ counted.heard = heardW.heard /\ counted.sent = heardW.sent
  BY <1>8, CountWorld, CountInforms
<1> HIDE DEF counted
<1>10. Seated(counted) /\ (RememberedOpen(heardW) => RememberedOpen(counted))
  BY <1>8, <1>9 DEF Seated, RememberedOpen
<1>11. flushed \in Worlds /\ Quiet(flushed, counted) /\ Emptied(flushed)
  BY <1>5, <1>8, <1>9, FlushStartsWorld, FlushStartsQuiet
<1> HIDE DEF flushed
<1>12. RoomGood(flushed)
  <2>1. Seated(flushed) /\ Informed(flushed)
        /\ (RememberedOpen(counted) => RememberedOpen(flushed))
    BY <1>2, <1>9, <1>10, <1>11, QuietGood
  <2> QED BY <1>4, <1>7, <1>8, <1>10, <1>11, <2>1 DEF RoomGood, GatewayInv
<1>13. /\ flushed.rt.gatewaySocket = s /\ flushed.sock[s].id = g
       /\ \A h \in Gateways : flushed.heard[h] = heardW.heard[h]
       /\ \A f \in flushed.sent : f.kind # "idle_or_stale"
  BY <1>5, <1>7, <1>8, <1>9, <1>11 DEF Quiet, SamePlaces
<1>14. Become(flushed)
  BY <1>1 DEF flushed, counted, heardW
<1>15. NobodySilenced
  BY <1>13, <1>14 DEF NobodySilenced, Become
<1>16. OpensOnly(g)
  <2>1. flushed.sock = w.sock
    BY <1>8, <1>9, <1>11 DEF Quiet, SamePlaces
  <2> QED BY <1>3, <1>7, <1>14, <2>1 DEF OpensOnly, Become
<1>17. /\ \A h \in Gateways \ {g} : flushed.heard[h] = heard[h]
       /\ flushed.heard[g] \in {heard[g], now}
  BY <1>8, <1>13 DEF Peers
<1> QED BY <1>2, <1>11, <1>12, <1>13, <1>14, <1>15, <1>16, <1>17, OwnerTouched

\* A client that connects leaves the gateway where it is, and is counted.
LEMMA ConnectClientGood ==
  ASSUME Inv, GatewayInv, NEW s \in Sockets, NEW c \in Clients, ConnectClient(s, c)
  PROVE  GatewayInv' /\ NoGatewayOpens /\ NobodySilenced
<1> DEFINE accepted == AcceptWebSocket(s, c)
           elected(w) == [w EXCEPT
             !.rt.activeClientId = IF @ = None THEN c ELSE @,
             !.rt.challengeClientId = IF @ = None THEN c ELSE @]
<1>1. PICK w \in ReconcileSockets(accepted, s) :
        Become(SendClientCount(TouchClientActivity(elected(w), c)))
  BY DEF ConnectClient
<1>2. now \in Nat /\ World \in Worlds /\ Owned(World) /\ UNCHANGED <<now, owner>>
  BY WorldTyped DEF ConnectClient, Inv, TypeOK
<1>3. /\ accepted \in Worlds
      /\ accepted.heard = heard /\ accepted.rt = runtime /\ accepted.sent = {}
      /\ accepted.sock[s].id = c
      /\ \A t \in Sockets \ {s} : accepted.sock[t] = sock[t]
  BY <1>2, AcceptWorld DEF AcceptWebSocket, World, Worlds, Inv, Peers
<1>4. Remembered(World) => Remembered(accepted)
  BY <1>3 DEF Remembered, World
<1> HIDE DEF accepted
<1>5. w \in Worlds
  BY <1>1, <1>3, ReconcileWorld
<1>6. /\ Seated(w)
      /\ w.heard = heard
      /\ w.rt.pendingConnectStarts = runtime.pendingConnectStarts
      /\ \A t \in Sockets :
           /\ w.sock[t].id = accepted.sock[t].id
           /\ w.sock[t].state = "open" => accepted.sock[t].state = "open"
      /\ w.rt.gatewaySocket # None =>
           w.rt.gatewaySocket \in Contenders(accepted.sock, Gateways)
      /\ Remembered(accepted) => RememberedOpen(w)
      /\ \A f \in w.sent : f.kind # "idle_or_stale"
  BY <1>1, <1>3, ReconcileEffect
<1>7. ASSUME w.rt.gatewaySocket # None
      PROVE  /\ w.rt.gatewaySocket = runtime.gatewaySocket
             /\ GatewayOpen(World)
             /\ w.sock[w.rt.gatewaySocket].id = sock[runtime.gatewaySocket].id
  BY <1>2, <1>3, <1>6, <1>7, IdsAssumption
     DEF Contenders, Owned, World, GatewayOpen, IsOpen
<1>8. Emptied(w)
  BY <1>6, <1>7 DEF Emptied, GatewayInv, RoomGood, GatewayOpen, IsOpen, World
<1>9. elected(w) \in Worlds /\ Quiet(elected(w), w)
  BY <1>5 DEF Worlds, RelayRuntime, Quiet, SamePlaces
<1> HIDE DEF elected
<1> DEFINE touched == TouchClientActivity(elected(w), c)
           counted == SendClientCount(touched)
<1>10. touched \in Worlds /\ Quiet(touched, w)
  BY <1>2, <1>9, TouchWorld, TouchQuiet, QuietTwice
<1> HIDE DEF touched
<1>11. /\ Emptied(touched) /\ Seated(touched)
       /\ RememberedOpen(w) => RememberedOpen(touched)
  BY <1>2, <1>5, <1>6, <1>8, <1>10, QuietGood
<1>12. /\ counted \in Worlds /\ Informed(counted)
       /\ counted.sock = touched.sock /\ counted.rt = touched.rt
       /\ counted.heard = touched.heard /\ counted.sent = touched.sent
  BY <1>10, CountWorld, CountInforms
<1> HIDE DEF counted
<1>13. RoomGood(counted)
  <2>1. Emptied(counted) /\ Seated(counted)
        /\ (RememberedOpen(touched) => RememberedOpen(counted))
    BY <1>11, <1>12 DEF Emptied, Seated, RememberedOpen, GatewayOpen
  <2> QED BY <1>4, <1>6, <1>11, <1>12, <2>1 DEF RoomGood, GatewayInv
<1>14. /\ counted.sock = w.sock /\ counted.rt.gatewaySocket = w.rt.gatewaySocket
       /\ \A h \in Gateways : counted.heard[h] = heard[h]
       /\ \A f \in counted.sent : f.kind # "idle_or_stale"
  BY <1>6, <1>10, <1>12 DEF Quiet, SamePlaces
<1>15. Become(counted)
  BY <1>1 DEF counted, touched
<1>16. NoGatewayOpens
  BY <1>3, <1>6, <1>14, <1>15, IdsAssumption DEF NoGatewayOpens, Become
<1>17. NobodySilenced
  BY <1>14, <1>15 DEF NobodySilenced, Become
<1>18. SeatKept(counted)
  BY <1>7, <1>14 DEF SeatKept
<1> QED BY <1>2, <1>12, <1>13, <1>14, <1>15, <1>16, <1>17, <1>18, OwnerKept

\* What a frame of the gateway leads to.
LEMMA FromGatewayGood ==
  ASSUME Inv, GatewayInv, NEW s \in Sockets, FromGateway(s), NEW w \in Worlds,
         Quiet(w, Hear(World, sock[s].id)), Become(w)
  PROVE  GatewayInv' /\ NoGatewayOpens /\ NobodySilenced
<1> DEFINE g == sock[s].id
           heardW == Hear(World, g)
<1>1. /\ g \in Gateways /\ TouchGatewayOwner(g, FALSE) /\ now' = now
      /\ ~LateFrames => sock[s].state = "open"
      /\ now \in Nat /\ World \in Worlds /\ Owned(World)
  BY WorldTyped DEF FromGateway, Speaks, Inv, TypeOK
<1>2. /\ heardW \in Worlds /\ RoomGood(heardW)
      /\ heardW.sock = sock /\ heardW.rt = runtime /\ heardW.sent = {}
      /\ \A p \in Peers \ {g} : heardW.heard[p] = heard[p]
      /\ heardW.heard[g] \in {heard[g], now}
  BY <1>1, HearWorld, HearGood, HearEffect DEF GatewayInv, World
<1> HIDE DEF heardW
<1>3. RoomGood(w)
  BY <1>1, <1>2, QuietGood DEF heardW
<1>4. /\ w.sock = sock /\ w.rt.gatewaySocket = runtime.gatewaySocket
      /\ \A h \in Gateways : w.heard[h] = heardW.heard[h]
      /\ \A f \in w.sent : f.kind # "idle_or_stale"
  BY <1>2 DEF Quiet, SamePlaces, heardW
<1>5. NoGatewayOpens /\ NobodySilenced
  BY <1>4 DEF NoGatewayOpens, NobodySilenced, Become
<1>6. ASSUME ~LateFrames
      PROVE  CanAcceptGatewayOwner(g) /\ w.sock[w.rt.gatewaySocket].id = g
  <2>1. runtime.gatewaySocket = s
    BY <1>1, <1>6 DEF Owned, World
  <2>2. owner.id = g
    BY <1>6, <2>1, IdsAssumption DEF GatewayInv, OwnerSeated
  <2> QED BY <1>4, <2>1, <2>2 DEF CanAcceptGatewayOwner
<1>7. /\ \A h \in Gateways \ {g} : w.heard[h] = heard[h]
      /\ w.heard[g] \in {heard[g], now}
  BY <1>1, <1>2, <1>4 DEF Peers
<1> QED BY <1>1, <1>3, <1>5, <1>6, <1>7, OwnerTouched

\* Each frame of the gateway is delivered or buffered.
LEMMA GatewayFrameGood ==
  ASSUME Inv, GatewayInv, NEW s \in Sockets,
         \/ \E target \in Clients \cup {None} : GatewayControl(s, target)
         \/ GatewayChallenge(s)
         \/ \E r \in ReqIds : GatewayResponse(s, r)
         \/ GatewayData(s)
  PROVE  GatewayInv' /\ NoGatewayOpens /\ NobodySilenced
<1>1. FromGateway(s)
  BY DEF GatewayControl, GatewayChallenge, GatewayResponse, GatewayData
<1> DEFINE heardW == Hear(World, sock[s].id)
<1>2. /\ heardW \in Worlds /\ now \in Nat /\ runtime \in RelayRuntime
      /\ sock[s].id \in Gateways
  BY <1>1, WorldTyped, HearWorld DEF FromGateway, Speaks, Inv, TypeOK
<1> HIDE DEF heardW
<1>3. ASSUME NEW c \in Clients \cup {None},
             NEW kind \in {"control", "response", "data"}
      PROVE  DeliverTo(heardW, c, kind) \in Worlds /\ Quiet(DeliverTo(heardW, c, kind), heardW)
  BY <1>2, <1>3, DeliverToWorld, DeliverToQuiet DEF FrameKinds
<1>4. ASSUME NEW w \in Worlds, Quiet(w, heardW), Become(w)
      PROVE  GatewayInv' /\ NoGatewayOpens /\ NobodySilenced
  BY <1>1, <1>4, FromGatewayGood DEF heardW
<1>5. ASSUME NEW target \in Clients \cup {None}, GatewayControl(s, target)
      PROVE  GatewayInv' /\ NoGatewayOpens /\ NobodySilenced
  <2>1. ControlReceiver(target) \in Clients \cup {None}
    BY <1>2 DEF ControlReceiver, RelayRuntime
  <2>2. Become(DeliverTo(heardW, ControlReceiver(target), "control"))
    BY <1>5 DEF GatewayControl, heardW
  <2> QED BY <1>3, <1>4, <2>1, <2>2
<1>6. ASSUME GatewayChallenge(s) PROVE GatewayInv' /\ NoGatewayOpens /\ NobodySilenced
  <2>1. PICK w \in TryDeliverChallenge(heardW) : Become(BufferChallenge(w, s))
    BY <1>6 DEF GatewayChallenge, heardW
  <2>2. w \in Worlds /\ Quiet(w, heardW)
    BY <1>2, DeliverChallengeWorld, DeliverChallengeQuiet
  <2>3. BufferChallenge(w, s) \in Worlds /\ Quiet(BufferChallenge(w, s), w)
    <3> DEFINE p == IF w.sent # {} THEN NoChallenge
                    ELSE [queuedAt |-> now, gateway |-> sock[s].id]
    <3>1. p \in [queuedAt : Time, gateway : Gateways \cup {None}]
      <4>1. now \in Time /\ Never \in Time
        BY <1>2 DEF Time
      <4> QED BY ONLY <1>2, <4>1 DEF NoChallenge
    <3>2. BufferChallenge(w, s) = [w EXCEPT !.rt.pendingChallenge = p]
      BY DEF BufferChallenge
    <3> HIDE DEF p
    <3> QED BY <2>2, <3>1, <3>2, BufferQuiet
  <2> QED BY <1>4, <2>1, <2>2, <2>3, QuietTwice
<1>7. ASSUME NEW r \in ReqIds, GatewayResponse(s, r)
      PROVE  GatewayInv' /\ NoGatewayOpens /\ NobodySilenced
  <2>1. PICK c \in {runtime.connectReqClient[r], runtime.activeClientId} :
          Become(ForgetRequest(DeliverTo(heardW, c, "response"), r))
    BY <1>7 DEF GatewayResponse, heardW
  <2>2. c \in Clients \cup {None}
    BY <1>2 DEF RelayRuntime
  <2> DEFINE w == DeliverTo(heardW, c, "response")
  <2>3. w \in Worlds /\ Quiet(w, heardW)
    BY <1>3, <2>2
  <2> HIDE DEF w
  <2>4. ForgetRequest(w, r) \in Worlds /\ Quiet(ForgetRequest(w, r), w)
    BY <2>3 DEF ForgetRequest, Worlds, RelayRuntime, Quiet, SamePlaces
  <2> QED BY <1>4, <2>1, <2>3, <2>4, QuietTwice DEF w
<1>8. ASSUME GatewayData(s) PROVE GatewayInv' /\ NoGatewayOpens /\ NobodySilenced
  <2>1. runtime.activeClientId \in Clients \cup {None}
    BY <1>2 DEF RelayRuntime
  <2>2. Become(DeliverTo(heardW, runtime.activeClientId, "data"))
    BY <1>8 DEF GatewayData, heardW
  <2> QED BY <1>3, <1>4, <2>1, <2>2
<1> QED BY <1>5, <1>6, <1>7, <1>8


\* What a frame of a client leads to.
LEMMA FromClientGood ==
  ASSUME Inv, GatewayInv, NEW s \in Sockets, FromClient(s), NEW w \in Worlds,
         Quiet(w, World), Become(w)
  PROVE  GatewayInv' /\ NoGatewayOpens /\ NobodySilenced
<1>1. World \in Worlds /\ now \in Nat /\ UNCHANGED <<now, owner>>
  BY WorldTyped DEF FromClient, Inv, TypeOK
<1>2. RoomGood(w)
  BY <1>1, QuietGood DEF GatewayInv
<1>3. Thinned(w, World)
  BY QuietThinned
<1>4. NobodySilenced
  BY DEF Quiet, World, NobodySilenced, Become
<1> QED BY <1>1, <1>2, <1>3, <1>4, ThinnedStep

\* Each frame of a client is forwarded, buffered or dropped, and a client
\* over its rate limit is closed for that.
LEMMA ClientFrameGood ==
  ASSUME Inv, GatewayInv, NEW s \in Sockets,
         \/ \E r \in ReqIds \cup {None} : ClientConnectRequest(s, r)
         \/ ClientData(s)
         \/ ClientControl(s)
         \/ ClientRateLimited(s)
  PROVE  GatewayInv' /\ NoGatewayOpens /\ NobodySilenced
<1>1. FromClient(s)
  BY DEF ClientConnectRequest, ClientData, ClientControl, ClientRateLimited
<1> DEFINE c == sock[s].id
           touched == TouchClientActivity(World, c)
<1>2. c \in Clients /\ now \in Nat /\ World \in Worlds
  BY <1>1, WorldTyped DEF FromClient, Speaks, Inv, TypeOK
<1>3. touched \in Worlds /\ Quiet(touched, World)
  BY <1>2, TouchWorld, TouchQuiet
<1> HIDE DEF touched
<1>4. ASSUME NEW r \in ReqIds \cup {None}, ClientConnectRequest(s, r)
      PROVE  GatewayInv' /\ NoGatewayOpens /\ NobodySilenced
  <2> DEFINE prepared == PrepareConnect(World, c)
             marked == MarkAwaitingChallenge(prepared, c, now)
             w == RememberRequest(marked, r, c)
  <2>1. prepared \in Worlds /\ Quiet(prepared, touched)
    BY <1>2, <1>3 DEF PrepareConnect, Worlds, RelayRuntime, Quiet, SamePlaces, touched
  <2> HIDE DEF prepared
  <2>2. marked \in Worlds /\ Quiet(marked, prepared)
    BY <1>2, <2>1, MarkWorld, MarkQuiet DEF Time
  <2> HIDE DEF marked
  <2>3. w \in Worlds /\ Quiet(w, marked)
    BY <1>2, <2>2 DEF RememberRequest, Worlds, RelayRuntime, Quiet, SamePlaces
  <2> HIDE DEF w
  <2>4. Quiet(w, World)
    BY <1>3, <2>1, <2>2, <2>3, QuietTwice
  <2>5. GatewayOpen(w) = GatewayOpen(World)
    BY <2>4 DEF Quiet, SamePlaces, GatewayOpen
  <2>6. \/ Become(ToGateway(w, "connect"))
        \/ ~GatewayOpen(World) /\ Become(BufferConnectStart(w, c))
    BY <1>4 DEF ClientConnectRequest, prepared, marked, w
  <2>7. ToGateway(w, "connect") \in Worlds /\ Quiet(ToGateway(w, "connect"), w)
    BY <1>2, <2>3, ToGatewayWorld, ToGatewayQuiet DEF FrameKinds
  <2>8. ASSUME ~GatewayOpen(World)
        PROVE  BufferConnectStart(w, c) \in Worlds /\ Quiet(BufferConnectStart(w, c), w)
    BY <1>2, <2>3, <2>5, <2>8, BufferStartWorld, BufferStartQuiet
  <2> QED BY <1>1, <2>4, <2>6, <2>7, <2>8, QuietTwice, FromClientGood
<1>5. ASSUME ClientData(s) \/ ClientControl(s)
      PROVE  GatewayInv' /\ NoGatewayOpens /\ NobodySilenced
  <2>1. PICK w : /\ Become(w)
                 /\ \/ w = touched
                    \/ \E kind \in {"data", "control"} : w = ToGateway(touched, kind)
    BY <1>5 DEF ClientData, ClientControl, touched
  <2>2. \A kind \in {"data", "control"} :
          /\ ToGateway(touched, kind) \in Worlds
          /\ Quiet(ToGateway(touched, kind), touched)
    BY <1>2, <1>3, ToGatewayWorld, ToGatewayQuiet DEF FrameKinds
  <2>3. w \in Worlds /\ Quiet(w, World)
    BY <1>3, <2>1, <2>2, QuietTwice
  <2> QED BY <1>1, <2>1, <2>3, FromClientGood
<1>6. ASSUME ClientRateLimited(s)
      PROVE  GatewayInv' /\ NoGatewayOpens /\ NobodySilenced
  <2> DEFINE w == Close(touched, {s}, "rate_limited")
  <2>1. Become(w)
    BY <1>6 DEF ClientRateLimited, touched
  <2>2. RoomGood(touched)
    BY <1>2, <1>3, QuietGood DEF GatewayInv
  <2>3. w \in Worlds /\ RoomGood(w)
    BY <1>3, <2>2, CloseWorld, CloseGood
  <2>4. /\ Thinned(w, touched)
        /\ \A f \in w.sent : f \in touched.sent \/ f.kind = "rate_limited"
    BY <1>3, CloseEffect
  <2> HIDE DEF w
  <2>5. Thinned(w, World)
    BY <1>3, <2>4, QuietThinned, ThinnedTwice
  <2>6. NobodySilenced
    BY <1>3, <2>1, <2>4 DEF Quiet, World, NobodySilenced, Become
  <2>7. UNCHANGED <<now, owner>>
    BY <1>1 DEF FromClient
  <2> QED BY <2>1, <2>3, <2>5, <2>6, <2>7, ThinnedStep
<1> QED BY <1>4, <1>5, <1>6

\* A lost socket keeps its place until its event comes.
LEMMA SocketLostGood ==
  ASSUME Inv, GatewayInv, NEW s \in Sockets, SocketLost(s)
  PROVE  GatewayInv' /\ NoGatewayOpens /\ NobodySilenced
<1> DEFINE w == [World EXCEPT !.sock[s] = Closing(@)]
<1>1. World \in Worlds /\ RoomGood(World)
  BY WorldTyped DEF Inv, GatewayInv
<1>2. Become(w) /\ UNCHANGED <<now, owner>>
  BY DEF SocketLost
<1>3. Closing(sock[s]) \in SocketRecord /\ Closing(sock[s]).id = sock[s].id
      /\ Closing(sock[s]).state = "closing"
  BY DEF Inv, TypeOK, SocketRecord, Closing, Time
<1>4. /\ w \in Worlds
      /\ w.rt = World.rt /\ w.told = World.told /\ w.heard = World.heard /\ w.sent = {}
      /\ w.sock = [sock EXCEPT ![s] = Closing(sock[s])]
  BY <1>1, <1>3 DEF World, Worlds
<1> HIDE DEF w
<1>5. /\ Thinned(w, World)
      /\ \A t \in Sockets : w.sock[t].state = "free" => World.sock[t].state = "free"
  BY <1>1, <1>3, <1>4 DEF Thinned, World, Worlds, SocketLost
<1>6. RoomGood(w)
  BY <1>1, <1>4, <1>5, FewerOpenGood
<1>7. NobodySilenced
  BY <1>2, <1>4 DEF NobodySilenced, Become
<1> QED BY <1>2, <1>4, <1>5, <1>6, <1>7, ThinnedStep

\* A freed socket held its own place or none.
LEMMA GoneEffect ==
  ASSUME Inv, GatewayInv, NEW s \in Sockets
  PROVE  LET v == Gone(s) IN
         /\ v \in Worlds /\ v.rt = runtime /\ v.told = told /\ v.heard = heard /\ v.sent = {}
         /\ v.sock[s].state = "free"
         /\ \A t \in Sockets \ {s} : v.sock[t] = sock[t]
         /\ runtime.gatewaySocket = s => sock[s].id \in Gateways
         /\ \A c \in Clients : runtime.clients[c] = s => sock[s].id = c
         /\ \A c \in Clients : HasOpenSocket(v.sock, c) => HasOpenSocket(sock, c)
<1>1. World \in Worlds /\ Seated(World)
  BY WorldTyped DEF Inv, GatewayInv, RoomGood
<1> DEFINE v == Gone(s)
<1>2. /\ v \in Worlds /\ v.rt = runtime /\ v.told = told /\ v.heard = heard /\ v.sent = {}
      /\ v.sock[s].state = "free"
      /\ \A t \in Sockets \ {s} : v.sock[t] = sock[t]
  BY <1>1 DEF Gone, World, Worlds, FreeSocket, SocketRecord, Time
<1>3. /\ runtime.gatewaySocket = s => sock[s].id \in Gateways
      /\ \A c \in Clients : runtime.clients[c] = s => sock[s].id = c
  BY <1>1, IdsAssumption DEF Seated, World
<1> HIDE DEF v
<1>4. \A c \in Clients : HasOpenSocket(v.sock, c) => HasOpenSocket(sock, c)
  BY <1>2 DEF HasOpenSocket
<1> QED BY <1>2, <1>3, <1>4 DEF v

\* The event of a socket frees it; what the room keeps for it goes only if
\* the socket still holds its place.
LEMMA RemoveSocketGood ==
  ASSUME Inv, GatewayInv, NEW s \in Sockets, RemoveSocket(s)
  PROVE  GatewayInv' /\ NoGatewayOpens /\ NobodySilenced
<1> DEFINE gone == Gone(s)
           id == sock[s].id
<1>1. /\ World \in Worlds /\ now \in Nat /\ now' = now
      /\ runtime.gatewaySocket \in Sockets \cup {None}
      /\ runtime.clients \in [Clients -> Sockets \cup {None}]
      /\ Owned(World)
  BY WorldTyped DEF RemoveSocket, Inv, TypeOK, RelayRuntime
<1>2. /\ gone \in Worlds
      /\ gone.rt = runtime /\ gone.told = told /\ gone.heard = heard /\ gone.sent = {}
      /\ gone.sock[s].state = "free"
      /\ \A t \in Sockets \ {s} : gone.sock[t] = sock[t]
      /\ runtime.gatewaySocket = s => id \in Gateways
      /\ \A c \in Clients : runtime.clients[c] = s => id = c
      /\ \A c \in Clients : HasOpenSocket(gone.sock, c) => HasOpenSocket(sock, c)
  BY GoneEffect
<1> HIDE DEF gone
<1>3. /\ Emptied(World) /\ Seated(World)
      /\ ~Hibernation => Informed(World) /\ RememberedOpen(World)
  BY DEF GatewayInv, RoomGood
<1>4. RememberedOpen(World) => RememberedOpen(gone)
  BY <1>2 DEF RememberedOpen, World
<1>5. ASSUME NEW w, Become(w), w.sent = {},
             \A t \in Sockets : w.sock[t].state = "open" => gone.sock[t].state = "open"
      PROVE  NoGatewayOpens /\ NobodySilenced
  BY <1>2, <1>5 DEF NoGatewayOpens, NobodySilenced, Become
<1>6. ASSUME runtime.gatewaySocket # s
      PROVE  /\ GatewayOpen(gone) = GatewayOpen(World)
             /\ SeatKept(gone) /\ Emptied(gone)
             /\ Informed(World) => Informed(gone)
             /\ runtime.gatewaySocket # None =>
                  /\ gone.sock[runtime.gatewaySocket].state # "free"
                  /\ gone.sock[runtime.gatewaySocket].id \in Gateways
  <2>1. runtime.gatewaySocket # None
          => gone.sock[runtime.gatewaySocket] = sock[runtime.gatewaySocket]
    BY <1>1, <1>2, <1>6
  <2>2. GatewayOpen(gone) = GatewayOpen(World)
    BY <1>2, <2>1 DEF GatewayOpen, IsOpen, World
  <2> QED BY <1>2, <1>3, <2>1, <2>2 DEF SeatKept, Emptied, Informed, Mapped, Seated, World
<1>7. CASE ~IsCurrentSocket(s)
  <2>1. Become(gone) /\ owner' = owner
    BY <1>7 DEF RemoveSocket, gone
  <2>2. runtime.gatewaySocket # s /\ \A c \in Clients : runtime.clients[c] # s
    BY <1>2, <1>7, IdsAssumption DEF IsCurrentSocket
  <2>3. \A c \in Clients : runtime.clients[c] # None
          => gone.sock[runtime.clients[c]] = sock[runtime.clients[c]]
    BY <1>1, <1>2, <2>2
  <2>4. Seated(gone)
    BY <1>2, <1>3, <1>6, <2>2, <2>3 DEF Seated, World
  <2>5. RoomGood(gone)
    BY <1>3, <1>4, <1>6, <2>2, <2>4 DEF RoomGood
  <2> QED BY <1>1, <1>2, <1>5, <1>6, <2>1, <2>2, <2>5, OwnerKept
<1>8. CASE IsCurrentSocket(s) /\ id \in Gateways
  <2> DEFINE hostless == [gone EXCEPT !.rt.gatewaySocket = None]
             heardW == Hear(hostless, id)
             w == DropPendingChallenge(heardW)
  <2>1. Become(w) /\ TouchGatewayOwner(id, TRUE)
    BY <1>8, IdsAssumption DEF RemoveSocket, gone
  <2>2. /\ hostless \in Worlds
        /\ hostless.sock = gone.sock /\ hostless.rt.clients = runtime.clients
        /\ hostless.rt.lastActivityAt = runtime.lastActivityAt
        /\ hostless.rt.gatewaySocket = None
        /\ hostless.heard = heard /\ hostless.sent = {}
    BY <1>2 DEF Worlds, RelayRuntime
  <2> HIDE DEF hostless
  <2>3. /\ Emptied(hostless) /\ Informed(hostless)
        /\ RememberedOpen(gone) => RememberedOpen(hostless)
    BY <1>2, <2>2 DEF Emptied, Informed, GatewayOpen, IsOpen, RememberedOpen
  <2>4. \A c \in Clients : runtime.clients[c] # None
          => gone.sock[runtime.clients[c]] = sock[runtime.clients[c]]
    BY <1>1, <1>2, <1>8, IdsAssumption
  <2>5. Seated(hostless)
    BY <1>3, <2>2, <2>4 DEF Seated, World
  <2>6. RoomGood(hostless)
    BY <1>3, <1>4, <2>3, <2>5 DEF RoomGood
  <2>7. /\ heardW \in Worlds /\ RoomGood(heardW)
        /\ heardW.sock = gone.sock /\ heardW.rt = hostless.rt /\ heardW.sent = {}
        /\ \A p \in Peers \ {id} : heardW.heard[p] = heard[p]
        /\ heardW.heard[id] \in {heard[id], now}
    BY <1>1, <1>8, <2>2, <2>6, HearWorld, HearGood, HearEffect
  <2> HIDE DEF heardW
  <2>8. w \in Worlds /\ RoomGood(w) /\ Quiet(w, heardW) /\ w.sent = {}
    <3>1. w.sent = heardW.sent
      BY <2>7 DEF DropPendingChallenge, Worlds
    <3> QED BY <1>1, <2>7, <3>1, DropPendingWorld, DropPendingQuiet, QuietGood
  <2> HIDE DEF w
  <2>9. /\ w.rt.gatewaySocket = None
        /\ w.sock = gone.sock
        /\ \A h \in Gateways \ {id} : w.heard[h] = heard[h]
        /\ w.heard[id] \in {heard[id], now}
    BY <1>8, <2>2, <2>7, <2>8 DEF Quiet, SamePlaces, Peers
  <2>10. ~LateFrames => CanAcceptGatewayOwner(id)
    BY <1>8, IdsAssumption DEF IsCurrentSocket, GatewayInv, OwnerSeated, CanAcceptGatewayOwner
  <2>11. NoGatewayOpens /\ NobodySilenced
    BY <1>5, <2>1, <2>8, <2>9
  <2> QED BY <1>1, <1>8, <2>1, <2>8, <2>9, <2>10, <2>11, OwnerTouched
<1>9. CASE IsCurrentSocket(s) /\ id \in Clients /\ id \notin Gateways
  <2>1. PICK u \in DropClients(gone, {id}) :
          Become(ReportClientsLost(u)) /\ owner' = owner
    BY <1>9 DEF RemoveSocket, gone
  <2>2. ~IsOpen(gone.sock, gone.rt.clients[id])
    BY <1>2, <1>9 DEF IsCurrentSocket, IsOpen
  <2>3. runtime.gatewaySocket # s
    BY <1>2, <1>9
  <2>4. \A c \in Clients \ {id} : runtime.clients[c] # None
          => gone.sock[runtime.clients[c]] = sock[runtime.clients[c]]
    BY <1>1, <1>2
  <2>5. SeatedBut(gone, {id})
    BY <1>2, <1>3, <1>6, <2>3, <2>4 DEF Seated, SeatedBut, World
  <2>6. Owned(gone)
    BY <1>1, <1>2 DEF Owned, World
  <2> DEFINE w == ReportClientsLost(u)
  <2>7. w \in Worlds /\ RoomGood(w) /\ Thinned(w, gone) /\ w.sent = {}
    BY <1>2, <1>3, <1>4, <1>6, <1>9, <2>1, <2>2, <2>3, <2>5, <2>6, DropAndReport
  <2> HIDE DEF w
  <2>8. Become(w)
    BY <2>1 DEF w
  <2>9. NoGatewayOpens /\ NobodySilenced
    BY <1>5, <2>7, <2>8 DEF Thinned
  <2>10. SeatKept(w) /\ \A h \in Gateways : w.heard[h] = heard[h]
    BY <1>1, <1>2, <1>6, <2>3, <2>7 DEF SeatKept, Thinned
  <2> QED BY <1>1, <2>1, <2>7, <2>8, <2>9, <2>10, OwnerKept
<1> QED BY <1>7, <1>8, <1>9, IdsAssumption DEF RemoveSocket


\* The alarm prunes, flushes and ticks: it closes sockets at most.
LEMMA AlarmGood ==
  ASSUME Inv, GatewayInv, Alarm
  PROVE  /\ GatewayInv' /\ NoGatewayOpens
         /\ \A f \in sent' : f.kind = "idle_or_stale" =>
              \E c \in Clients : /\ f.to = runtime.clients[c] /\ IsOpen(sock, f.to)
                                 /\ Silent(World, c)
<1>1. /\ World \in Worlds /\ Owned(World) /\ RoomGood(World)
      /\ now \in Nat /\ UNCHANGED <<now, owner>>
  BY WorldTyped DEF Inv, TypeOK, GatewayInv, Alarm
<1>2. PICK v \in PruneStaleHandshakeClients(World) :
      \E x \in FlushPendingChallenge(PrunePendingConnectStarts(
                 PruneExpiredAwaitingChallenges(v))) :
      \E w \in SendTicks(x) : Become(w)
  BY DEF Alarm
<1>3. /\ v \in Worlds /\ Owned(v) /\ RoomGood(v) /\ Thinned(v, World)
      /\ \A f \in v.sent :
           \E c \in Clients : /\ f.to = runtime.clients[c] /\ IsOpen(sock, f.to)
                              /\ Silent(World, c)
  <2>1. /\ v \in Worlds /\ Owned(v) /\ RoomGood(v) /\ Thinned(v, World)
        /\ \A f \in v.sent :
             \/ f \in World.sent
             \/ \E c \in Clients : /\ f.to = World.rt.clients[c]
                                   /\ IsOpen(World.sock, f.to) /\ Silent(World, c)
    BY <1>1, <1>2, PruneStaleGood
  <2>2. World.sent = {} /\ World.rt = runtime /\ World.sock = sock
    BY DEF World
  <2> QED BY <2>1, <2>2
<1> DEFINE awaited == PruneExpiredAwaitingChallenges(v)
           pruned == PrunePendingConnectStarts(awaited)
<1>4. /\ awaited \in Worlds /\ Quiet(awaited, v)
      /\ pruned \in Worlds /\ Quiet(pruned, awaited)
  BY <1>3, PruneAwaitingWorld, PruneStartsWorld, PruneAwaitingQuiet, PruneStartsQuiet
<1> HIDE DEF awaited
<1> HIDE DEF pruned
<1>5. PICK x \in FlushPendingChallenge(pruned) : \E w \in SendTicks(x) : Become(w)
  BY <1>2 DEF pruned, awaited
<1>6. x \in Worlds /\ Quiet(x, pruned)
  BY <1>1, <1>4, <1>5, FlushChallengeWorld, FlushChallengeQuiet
<1>7. Quiet(x, v)
  BY <1>4, <1>6, QuietTwice
<1>8. Owned(x) /\ RoomGood(x) /\ Thinned(x, World)
  BY <1>1, <1>3, <1>6, <1>7, SamePlacesOwned, QuietGood, QuietThinned, ThinnedTwice
     DEF Quiet
<1>9. PICK w \in SendTicks(x) : Become(w)
  BY <1>5
<1>10. /\ w \in Worlds /\ RoomGood(w) /\ Thinned(w, x)
       /\ \A f \in w.sent : f.kind = "idle_or_stale" => f \in x.sent
  BY <1>6, <1>8, <1>9, SendTicksGood
<1>11. Thinned(w, World)
  BY <1>8, <1>10, ThinnedTwice
<1>12. \A f \in sent' : f.kind = "idle_or_stale" => f \in v.sent
  BY <1>7, <1>9, <1>10 DEF Quiet, Become
<1>13. GatewayInv' /\ NoGatewayOpens
  BY <1>1, <1>9, <1>10, <1>11, ThinnedStep
<1> QED BY <1>3, <1>12, <1>13

\* A wake knows nothing but the sockets, among them the gateway's.
LEMMA WakeGood ==
  ASSUME Inv, GatewayInv, Wake
  PROVE  GatewayInv' /\ NoGatewayOpens /\ NobodySilenced
<1> DEFINE woken == [World EXCEPT !.rt = FreshRuntime]
<1>1. /\ woken \in Worlds /\ woken.sock = sock /\ woken.heard = heard /\ woken.sent = {}
      /\ woken.rt = FreshRuntime
  BY WorldTyped, FreshTyped DEF Inv, Worlds, World
<1> HIDE DEF woken
<1>2. PICK w \in ReconcileSockets(woken, None) : Become(w)
  BY DEF Wake, woken
<1>3. w \in Worlds
  BY <1>1, <1>2, ReconcileWorld
<1>4. /\ Seated(w)
      /\ w.heard = heard
      /\ w.rt.pendingConnectStarts = FreshRuntime.pendingConnectStarts
      /\ \A s \in Sockets :
           /\ w.sock[s].id = sock[s].id
           /\ w.sock[s].state = "open" => sock[s].state = "open"
      /\ w.rt.gatewaySocket # None =>
           w.rt.gatewaySocket \in Contenders(sock, Gateways)
      /\ \A f \in w.sent : f.kind # "idle_or_stale"
  BY <1>1, <1>2, ReconcileEffect
<1>5. Hibernation /\ UNCHANGED <<now, owner>> /\ Owned(World)
  BY DEF Wake, Inv
<1>6. Emptied(w)
  BY <1>4 DEF Emptied, FreshRuntime
<1>7. RoomGood(w)
  BY <1>4, <1>5, <1>6 DEF RoomGood
<1>8. SeatKept(w)
  BY <1>4, <1>5 DEF SeatKept, Contenders, Owned, World
<1>9. NoGatewayOpens /\ NobodySilenced
  BY <1>2, <1>4 DEF NoGatewayOpens, NobodySilenced, Become
<1> QED BY <1>2, <1>3, <1>4, <1>5, <1>7, <1>8, <1>9, OwnerKept

\* A restart leaves an empty room and the owner's record.
LEMMA RestartGood ==
  ASSUME Inv, GatewayInv, Restart
  PROVE  GatewayInv' /\ NoGatewayOpens /\ NobodySilenced
<1> DEFINE w == [World EXCEPT !.rt = FreshRuntime,
                              !.sock = [s \in Sockets |-> FreeSocket]]
<1>1. World \in Worlds
  BY WorldTyped DEF Inv
<1>2. /\ w \in Worlds
      /\ w.rt = FreshRuntime /\ w.heard = heard /\ w.sent = {}
      /\ \A s \in Sockets : w.sock[s].state = "free"
  BY <1>1, FreshTyped DEF World, Worlds, FreeSocket, SocketRecord, Time
<1>3. Become(w) /\ UNCHANGED <<now, owner>>
  BY DEF Restart
<1> HIDE DEF w
<1>4. ~GatewayOpen(w) /\ SeatKept(w)
  BY <1>2 DEF GatewayOpen, IsOpen, FreshRuntime, SeatKept
<1>5. Seated(w) /\ RememberedOpen(w)
  BY <1>2 DEF Seated, FreshRuntime, RememberedOpen, HasOpenSocket
<1>6. RoomGood(w)
  BY <1>4, <1>5 DEF RoomGood, Emptied, Informed
<1>7. NoGatewayOpens /\ NobodySilenced
  BY <1>2, <1>3 DEF NoGatewayOpens, NobodySilenced, Become
<1> QED BY <1>2, <1>3, <1>4, <1>6, <1>7, OwnerKept

\* Time passing changes no place, and wears down leases only.
LEMMA TickGood ==
  ASSUME Inv, GatewayInv, Tick
  PROVE  GatewayInv' /\ NoGatewayOpens /\ NobodySilenced
<1>1. /\ now' = now + 1 /\ sent' = {}
      /\ UNCHANGED <<sock, runtime, owner, told, heard>>
  BY DEF Tick
<1>2. /\ now \in Int /\ owner.seenAt \in Int /\ \A h \in Gateways : heard[h] \in Int
      /\ OwnerLease \in Int /\ OwnerTouchInterval \in Int
  BY TimingAssumption DEF Inv, TypeOK, Time, Never, Peers
<1>3. RoomGood(World) => RoomGood(World)'
  BY <1>1 DEF RoomGood, Emptied, Seated, Informed, RememberedOpen, World, GatewayOpen, Mapped
<1>4. Remembered(World) => Remembered(World)'
  BY <1>1 DEF Remembered, World
<1>5. OwnerSeated => OwnerSeated'
  BY <1>1 DEF OwnerSeated
<1>6. Leased => Leased'
  BY <1>1, <1>2 DEF Leased
<1> QED BY <1>1, <1>3, <1>4, <1>5, <1>6 DEF GatewayInv, NoGatewayOpens, NobodySilenced

\* Nothing happens.
LEMMA StutterGood ==
  ASSUME GatewayInv, UNCHANGED vars
  PROVE  GatewayInv' /\ NoGatewayOpens
<1>1. UNCHANGED <<now, sock, runtime, owner, told, heard>>
  BY DEF vars
<1>2. RoomGood(World) => RoomGood(World)'
  BY <1>1 DEF RoomGood, Emptied, Seated, Informed, RememberedOpen, World, GatewayOpen, Mapped
<1>3. Remembered(World) => Remembered(World)'
  BY <1>1 DEF Remembered, World
<1>4. (OwnerSeated => OwnerSeated') /\ (Leased => Leased')
  BY <1>1 DEF OwnerSeated, Leased
<1> QED BY <1>1, <1>2, <1>3, <1>4 DEF GatewayInv, NoGatewayOpens

\* Every step keeps the invariant; only a connecting gateway opens a gateway's
\* socket, and only the alarm closes anybody for silence.
LEMMA NextGood ==
  ASSUME Inv, GatewayInv, [Next]_vars
  PROVE  /\ GatewayInv'
         /\ \/ NoGatewayOpens
            \/ \E s \in Sockets, g \in Gateways : ConnectGateway(s, g) /\ OpensOnly(g)
         /\ NobodySilenced \/ Alarm \/ UNCHANGED vars
<1>1. ASSUME NEW s \in Sockets, NEW g \in Gateways, ConnectGateway(s, g)
      PROVE  GatewayInv' /\ OpensOnly(g) /\ NobodySilenced
  BY <1>1, ConnectGatewayGood
<1>2. ASSUME NEW s \in Sockets, NEW c \in Clients, ConnectClient(s, c)
      PROVE  GatewayInv' /\ NoGatewayOpens /\ NobodySilenced
  BY <1>2, ConnectClientGood
<1>3. ASSUME NEW s \in Sockets,
             \/ \E target \in Clients \cup {None} : GatewayControl(s, target)
             \/ GatewayChallenge(s)
             \/ \E r \in ReqIds : GatewayResponse(s, r)
             \/ GatewayData(s)
      PROVE  GatewayInv' /\ NoGatewayOpens /\ NobodySilenced
  BY <1>3, GatewayFrameGood
<1>4. ASSUME NEW s \in Sockets,
             \/ \E r \in ReqIds \cup {None} : ClientConnectRequest(s, r)
             \/ ClientData(s)
             \/ ClientControl(s)
             \/ ClientRateLimited(s)
      PROVE  GatewayInv' /\ NoGatewayOpens /\ NobodySilenced
  BY <1>4, ClientFrameGood
<1>5. ASSUME NEW s \in Sockets, SocketLost(s) \/ RemoveSocket(s)
      PROVE  GatewayInv' /\ NoGatewayOpens /\ NobodySilenced
  BY <1>5, SocketLostGood, RemoveSocketGood
<1>6. CASE Alarm
  BY <1>6, AlarmGood
<1>7. CASE Wake \/ Restart \/ Tick
  BY <1>7, WakeGood, RestartGood, TickGood
<1>8. CASE UNCHANGED vars
  BY <1>8, StutterGood
<1> QED BY <1>1, <1>2, <1>3, <1>4, <1>5, <1>6, <1>7, <1>8 DEF Next

\* A room without sockets is good, and nobody was heard from.
LEMMA InitGood == Init => GatewayInv
<1> SUFFICES ASSUME Init PROVE GatewayInv
  OBVIOUS
<1>1. ~GatewayOpen(World)
  BY DEF Init, World, FreshRuntime, GatewayOpen, IsOpen
<1>2. Seated(World) /\ Remembered(World) /\ OwnerSeated /\ Leased
  BY DEF Init, World, FreshRuntime, Seated, Remembered, OwnerSeated, Leased, Never, Peers
<1> QED BY <1>1, <1>2
        DEF GatewayInv, RoomGood, Emptied, Informed, Remembered, RememberedOpen

-----------------------------------------------------------------------------
(* Waiting for a challenge *)

ChallengeTo(s) == [kind |-> "challenge", to |-> s]

\* v is w, save that a wait may have ended: in a challenge or too late.
Patient(v, w) ==
  /\ v.rt.clients = w.rt.clients
  /\ w.sent \subseteq v.sent
  /\ \A c \in Clients :
       \/ v.rt.awaitingChallenge[c] = w.rt.awaitingChallenge[c]
       \/ w.rt.awaitingChallenge[c] = Never
       \/ Expired(w.rt.awaitingChallenge[c], AwaitingTtl)
       \/ ChallengeTo(w.rt.clients[c]) \in v.sent

\* What is patient twice is patient.
LEMMA PatientTwice ==
  ASSUME NEW u, NEW v, NEW w, Patient(u, v), Patient(v, w)
  PROVE  Patient(u, w)
BY DEF Patient

\* Nobody's wait ends by a client being heard.
LEMMA TouchPatient ==
  ASSUME NEW w \in Worlds, NEW c \in Clients
  PROVE  Patient(TouchClientActivity(w, c), w)
BY DEF Worlds, RelayRuntime, TouchClientActivity, Patient

\* A frame that is sent ends no wait.
LEMMA SendPatient ==
  ASSUME NEW w \in Worlds, NEW kind, NEW to
  PROVE  Patient(Send(w, kind, to), w) /\ [kind |-> kind, to |-> to] \in Send(w, kind, to).sent
BY DEF Worlds, Send, Patient

\* Nor does a gateway that is heard.
LEMMA HearPatient ==
  ASSUME NEW w \in Worlds, NEW g \in Gateways
  PROVE  Patient(Hear(w, g), w)
BY HearEffect DEF Patient

\* Nor does a buffered challenge that is dropped.
LEMMA DropPendingPatient ==
  ASSUME NEW w \in Worlds
  PROVE  Patient(DropPendingChallenge(w), w)
BY DEF Worlds, RelayRuntime, DropPendingChallenge, Patient

\* Nor do connects that leave the buffer.
LEMMA PruneStartsPatient ==
  ASSUME NEW w \in Worlds
  PROVE  Patient(PrunePendingConnectStarts(w), w)
BY DEF Worlds, RelayRuntime, PrunePendingConnectStarts, Patient

\* Nor does one that enters it.
LEMMA BufferStartPatient ==
  ASSUME NEW w \in Worlds, NEW c \in Clients, now \in Nat
  PROVE  Patient(BufferConnectStart(w, c), w)
<1> DEFINE queued == [w EXCEPT !.rt.pendingConnectStarts[c] = now]
<1>1. queued \in Worlds /\ Patient(queued, w)
  BY DEF Worlds, RelayRuntime, Patient, Time
<1> HIDE DEF queued
<1> QED BY <1>1, PruneStartsPatient, PatientTwice DEF BufferConnectStart, queued

\* The alarm ends the waits that are over.
LEMMA PruneAwaitingPatient ==
  ASSUME NEW w \in Worlds
  PROVE  Patient(PruneExpiredAwaitingChallenges(w), w)
BY DEF Worlds, RelayRuntime, PruneExpiredAwaitingChallenges, Patient

\* Who gets the challenge stops waiting.
LEMMA DeliverChallengePatient ==
  ASSUME NEW w \in Worlds, now \in Nat, NEW v \in TryDeliverChallenge(w)
  PROVE  Patient(v, w)
<1> DEFINE chosen(c) == [w EXCEPT !.rt.challengeClientId = c]
           waits(c) == [chosen(c) EXCEPT !.rt.awaitingChallenge[c] = Never]
<1>1. PICK c \in OpenClients(w) \cup {None} :
        v = IF c = None THEN chosen(c)
            ELSE Send(TouchClientActivity(waits(c), c),
                      "challenge", w.rt.clients[c])
  BY AwaitingRange DEF TryDeliverChallenge
<1>2. /\ chosen(c) \in Worlds
      /\ chosen(c).rt.clients = w.rt.clients /\ chosen(c).sent = w.sent
      /\ chosen(c).rt.awaitingChallenge = w.rt.awaitingChallenge
  BY DEF Worlds, RelayRuntime, OpenClients
<1>3. CASE c = None
  BY <1>1, <1>2, <1>3 DEF Patient
<1>4. CASE c # None
  <2>1. c \in Clients
    BY <1>4 DEF OpenClients
  <2>2. /\ waits(c) \in Worlds
        /\ waits(c).rt.clients = w.rt.clients /\ waits(c).sent = w.sent
        /\ \A d \in Clients \ {c} :
             waits(c).rt.awaitingChallenge[d] = w.rt.awaitingChallenge[d]
    BY <1>2, <2>1 DEF Worlds, RelayRuntime, Time
  <2> DEFINE touched == TouchClientActivity(waits(c), c)
  <2>3. touched \in Worlds /\ Patient(touched, waits(c))
        /\ touched.rt.awaitingChallenge = waits(c).rt.awaitingChallenge
    <3>1. touched \in Worlds /\ Patient(touched, waits(c))
      BY <2>1, <2>2, TouchWorld, TouchPatient
    <3>2. touched.rt.awaitingChallenge = waits(c).rt.awaitingChallenge
      BY <2>2 DEF TouchClientActivity, Worlds, RelayRuntime
    <3> QED BY <3>1, <3>2
  <2>4. v = Send(touched, "challenge", w.rt.clients[c])
    BY <1>1, <1>4
  <2> HIDE DEF touched, waits
  <2>5. /\ v.rt = touched.rt
        /\ v.sent = touched.sent \cup {ChallengeTo(w.rt.clients[c])}
    BY <2>3, <2>4 DEF Send, Worlds, ChallengeTo
  <2> QED BY <2>2, <2>3, <2>5 DEF Patient
<1> QED BY <1>3, <1>4

\* So does who gets the buffered challenge.
LEMMA FlushChallengePatient ==
  ASSUME NEW w \in Worlds, now \in Nat, NEW v \in FlushPendingChallenge(w)
  PROVE  Patient(v, w)
<1>1. v = w \/ v = DropPendingChallenge(w)
      \/ \E u \in TryDeliverChallenge(w) :
           v = u \/ v = DropPendingChallenge(u)
  BY DEF FlushPendingChallenge
<1>2. Patient(w, w)
  BY DEF Patient
<1> QED
  BY <1>1, <1>2, DeliverChallengePatient, DeliverChallengeWorld, DropPendingPatient, PatientTwice

\* Delivering any other frame ends no wait.
LEMMA DeliverToPatient ==
  ASSUME NEW w \in Worlds, NEW c \in Clients \cup {None}, NEW kind, now \in Nat
  PROVE  Patient(DeliverTo(w, c, kind), w)
<1>1. CASE c # None /\ IsOpen(w.sock, w.rt.clients[c])
  <2>1. c \in Clients
    BY <1>1
  <2>2. /\ TouchClientActivity(w, c) \in Worlds
        /\ Patient(TouchClientActivity(w, c), w)
    BY <2>1, TouchWorld, TouchPatient
  <2> QED BY <1>1, <2>2, SendPatient, PatientTwice DEF DeliverTo
<1>2. CASE ~(c # None /\ IsOpen(w.sock, w.rt.clients[c]))
  BY <1>2 DEF DeliverTo, Patient
<1> QED BY <1>1, <1>2

\* Nor does forwarding one to the gateway.
LEMMA ToGatewayPatient ==
  ASSUME NEW w \in Worlds, NEW kind
  PROVE  Patient(ToGateway(w, kind), w)
<1>1. Patient(w, w)
  BY DEF Patient
<1> QED BY <1>1, SendPatient DEF ToGateway

\* A client that begins to wait, or waits on, ends no wait.
LEMMA MarkWaits ==
  ASSUME NEW w \in Worlds, NEW c \in Clients, now \in Nat
  PROVE  \A d \in Clients : w.rt.awaitingChallenge[d] # Never
           => MarkAwaitingChallenge(w, c, now).rt.awaitingChallenge[d] # Never
BY DEF Worlds, RelayRuntime, MarkAwaitingChallenge, Never

\* Nor does a connect that is flushed.
LEMMA FlushStartsWaits ==
  ASSUME NEW w \in Worlds
  PROVE  \A d \in Clients : w.rt.awaitingChallenge[d] # Never
           => FlushPendingConnectStarts(w).rt.awaitingChallenge[d] # Never
<1> DEFINE starts == PrunePendingConnectStarts(w).rt.pendingConnectStarts
           ready == {c \in OpenClients(w) : starts[c] # Never}
           forwarded == {[kind |-> "connect", to |-> w.rt.gatewaySocket] : c \in ready}
           later(c) == w.rt.awaitingChallenge[c] = Never \/ starts[c] < w.rt.awaitingChallenge[c]
<1>1. \A c \in ready : starts[c] # Never
  OBVIOUS
<1> HIDE DEF starts, ready, forwarded, later
<1>2. FlushPendingConnectStarts(w).rt.awaitingChallenge =
        [c \in Clients |-> IF c \in ready /\ later(c) THEN starts[c]
                           ELSE w.rt.awaitingChallenge[c]]
  BY DEF Worlds, RelayRuntime, FlushPendingConnectStarts, starts, ready, forwarded, later
<1> QED BY <1>1, <1>2

\* c's wait is over in this step, before its time and with c still there.
WaitOver(c) ==
  /\ runtime.awaitingChallenge[c] # Never
  /\ now - runtime.awaitingChallenge[c] <= AwaitingTtl
  /\ runtime'.awaitingChallenge[c] = Never
  /\ c \in OpenClients(World) /\ IsOpen(sock', runtime.clients[c])

WaitsAnswered ==
  \A c \in Clients : WaitOver(c) =>
    \E f \in sent' : f.kind = "challenge" /\ f.to = runtime.clients[c]

\* A wait that is not over yet is not expired.
LEMMA NotExpired ==
  ASSUME Inv, NEW c \in Clients, WaitOver(c)
  PROVE  ~Expired(runtime.awaitingChallenge[c], AwaitingTtl)
<1>1. now \in Int /\ runtime.awaitingChallenge[c] \in Int /\ AwaitingTtl \in Int
  BY TimingAssumption DEF Inv, TypeOK, RelayRuntime, Time, Never
<1> QED BY <1>1 DEF WaitOver, Expired

\* A patient step answers whom it makes stop waiting.
LEMMA PatientStep ==
  ASSUME Inv, NEW w, Patient(w, World), Become(w)
  PROVE  WaitsAnswered
<1> SUFFICES ASSUME NEW c \in Clients, WaitOver(c)
             PROVE  \E f \in sent' : f.kind = "challenge" /\ f.to = runtime.clients[c]
  BY DEF WaitsAnswered
<1>1. ~Expired(runtime.awaitingChallenge[c], AwaitingTtl)
  BY NotExpired
<1>2. ChallengeTo(runtime.clients[c]) \in sent'
  BY <1>1 DEF Patient, World, Become, WaitOver
<1> QED BY <1>2 DEF ChallengeTo

\* So does a step in which nobody who stays connected stops waiting.
LEMMA NobodyStops ==
  ASSUME \A c \in Clients : runtime.awaitingChallenge[c] # Never
           => \/ runtime'.awaitingChallenge[c] # Never
              \/ ~IsOpen(sock', runtime.clients[c])
  PROVE  WaitsAnswered
BY DEF WaitsAnswered, WaitOver

\* Connecting sockets end no wait.
LEMMA ConnectWaits ==
  ASSUME Inv, NEW s \in Sockets,
         (\E g \in Gateways : ConnectGateway(s, g)) \/ \E c \in Clients : ConnectClient(s, c)
  PROVE  WaitsAnswered
<1>1. now \in Nat
  BY DEF Inv, TypeOK
<1>2. ASSUME NEW id \in Peers, NEW w \in ReconcileSockets(AcceptWebSocket(s, id), s)
      PROVE  w \in Worlds /\ w.rt.awaitingChallenge = runtime.awaitingChallenge
  <2>1. AcceptWebSocket(s, id) \in Worlds
    BY AcceptWorld DEF Inv
  <2>2. AcceptWebSocket(s, id).rt = runtime
    BY DEF AcceptWebSocket, World
  <2> QED BY <1>2, <2>1, <2>2, ReconcileWorld, ReconcileEffect
<1>3. ASSUME NEW g \in Gateways, ConnectGateway(s, g)
      PROVE  WaitsAnswered
  <2>1. PICK w \in ReconcileSockets(AcceptWebSocket(s, g), s) :
          Become(FlushPendingConnectStarts(SendClientCount(Hear(w, g))))
    BY <1>3 DEF ConnectGateway
  <2>2. w \in Worlds /\ w.rt.awaitingChallenge = runtime.awaitingChallenge
    BY <1>2 DEF Peers
  <2> DEFINE counted == SendClientCount(Hear(w, g))
  <2>3. counted \in Worlds /\ counted.rt = w.rt
    BY <1>1, <2>2, HearWorld, HearEffect, CountWorld, CountInforms
  <2> HIDE DEF counted
  <2>4. \A d \in Clients : counted.rt.awaitingChallenge[d] # Never
          => FlushPendingConnectStarts(counted).rt.awaitingChallenge[d] # Never
    BY <2>3, FlushStartsWaits
  <2>5. runtime' = FlushPendingConnectStarts(counted).rt
    BY <2>1 DEF Become, counted
  <2> QED BY <2>2, <2>3, <2>4, <2>5, NobodyStops
<1>4. ASSUME NEW c \in Clients, ConnectClient(s, c)
      PROVE  WaitsAnswered
  <2> DEFINE elected(w) == [w EXCEPT
               !.rt.activeClientId = IF @ = None THEN c ELSE @,
               !.rt.challengeClientId = IF @ = None THEN c ELSE @]
  <2>1. PICK w \in ReconcileSockets(AcceptWebSocket(s, c), s) :
          Become(SendClientCount(TouchClientActivity(elected(w), c)))
    BY <1>4 DEF ConnectClient
  <2>2. w \in Worlds /\ w.rt.awaitingChallenge = runtime.awaitingChallenge
    BY <1>2 DEF Peers
  <2>3. elected(w) \in Worlds /\ elected(w).rt.awaitingChallenge = w.rt.awaitingChallenge
    BY <2>2 DEF Worlds, RelayRuntime
  <2> DEFINE touched == TouchClientActivity(elected(w), c)
  <2> HIDE DEF elected
  <2>4. touched \in Worlds
        /\ touched.rt.awaitingChallenge = elected(w).rt.awaitingChallenge
    <3>1. touched.rt.awaitingChallenge = elected(w).rt.awaitingChallenge
      BY <2>3 DEF TouchClientActivity, Worlds, RelayRuntime
    <3> QED BY <1>1, <2>3, <3>1, TouchWorld
  <2> HIDE DEF touched
  <2>5. runtime' = touched.rt
    BY <2>1, <2>4, CountInforms DEF Become, touched
  <2> QED BY <2>2, <2>3, <2>4, <2>5, NobodyStops
<1> QED BY <1>3, <1>4

\* Of the gateway's frames only a challenge ends a wait.
LEMMA GatewayFrameWaits ==
  ASSUME Inv, NEW s \in Sockets,
         \/ \E target \in Clients \cup {None} : GatewayControl(s, target)
         \/ GatewayChallenge(s)
         \/ \E r \in ReqIds : GatewayResponse(s, r)
         \/ GatewayData(s)
  PROVE  WaitsAnswered
<1>1. FromGateway(s)
  BY DEF GatewayControl, GatewayChallenge, GatewayResponse, GatewayData
<1> DEFINE heardW == Hear(World, sock[s].id)
<1>2. /\ heardW \in Worlds /\ Patient(heardW, World)
      /\ now \in Nat /\ runtime \in RelayRuntime
  BY <1>1, WorldTyped, HearWorld, HearPatient DEF FromGateway, Speaks, Inv, TypeOK
<1> HIDE DEF heardW
<1>3. \A c \in Clients \cup {None}, kind \in FrameKinds :
        /\ DeliverTo(heardW, c, kind) \in Worlds
        /\ Patient(DeliverTo(heardW, c, kind), World)
  BY <1>2, DeliverToWorld, DeliverToPatient, PatientTwice
<1>4. {"control", "response", "data"} \subseteq FrameKinds
  BY DEF FrameKinds
<1>5. ASSUME NEW target \in Clients \cup {None}, GatewayControl(s, target)
      PROVE  WaitsAnswered
  <2>1. ControlReceiver(target) \in Clients \cup {None}
    BY <1>2 DEF ControlReceiver, RelayRuntime
  <2>2. Become(DeliverTo(heardW, ControlReceiver(target), "control"))
    BY <1>5 DEF GatewayControl, heardW
  <2> QED BY <1>3, <1>4, <2>1, <2>2, PatientStep
<1>6. ASSUME GatewayChallenge(s) PROVE WaitsAnswered
  <2>1. PICK w \in TryDeliverChallenge(heardW) : Become(BufferChallenge(w, s))
    BY <1>6 DEF GatewayChallenge, heardW
  <2>2. w \in Worlds /\ Patient(w, World)
    BY <1>2, DeliverChallengeWorld, DeliverChallengePatient, PatientTwice
  <2> DEFINE v == BufferChallenge(w, s)
  <2>3. /\ v.rt.clients = w.rt.clients /\ v.sent = w.sent
        /\ v.rt.awaitingChallenge = w.rt.awaitingChallenge
    BY <2>2 DEF BufferChallenge, Worlds, RelayRuntime
  <2> HIDE DEF v
  <2>4. Patient(v, w)
    BY <2>3 DEF Patient
  <2>5. Become(v)
    BY <2>1 DEF v
  <2> QED BY <2>2, <2>4, <2>5, PatientTwice, PatientStep
<1>7. ASSUME NEW r \in ReqIds, GatewayResponse(s, r)
      PROVE  WaitsAnswered
  <2>1. PICK c \in {runtime.connectReqClient[r], runtime.activeClientId} :
          Become(ForgetRequest(DeliverTo(heardW, c, "response"), r))
    BY <1>7 DEF GatewayResponse, heardW
  <2>2. c \in Clients \cup {None}
    BY <1>2 DEF RelayRuntime
  <2> DEFINE w == DeliverTo(heardW, c, "response")
  <2>3. w \in Worlds /\ Patient(w, World)
    BY <1>3, <1>4, <2>2
  <2> HIDE DEF w
  <2>4. Patient(ForgetRequest(w, r), w)
    BY <2>3 DEF ForgetRequest, Worlds, RelayRuntime, Patient
  <2> QED BY <2>1, <2>3, <2>4, PatientTwice, PatientStep DEF w
<1>8. ASSUME GatewayData(s) PROVE WaitsAnswered
  <2>1. runtime.activeClientId \in Clients \cup {None}
    BY <1>2 DEF RelayRuntime
  <2>2. Become(DeliverTo(heardW, runtime.activeClientId, "data"))
    BY <1>8 DEF GatewayData, heardW
  <2> QED BY <1>3, <1>4, <2>1, <2>2, PatientStep
<1> QED BY <1>5, <1>6, <1>7, <1>8

\* A frame of a client ends no wait; closing it leaves it waiting.
LEMMA ClientFrameWaits ==
  ASSUME Inv, NEW s \in Sockets,
         \/ \E r \in ReqIds \cup {None} : ClientConnectRequest(s, r)
         \/ ClientData(s)
         \/ ClientControl(s)
         \/ ClientRateLimited(s)
  PROVE  WaitsAnswered
<1>1. FromClient(s)
  BY DEF ClientConnectRequest, ClientData, ClientControl, ClientRateLimited
<1> DEFINE c == sock[s].id
           touched == TouchClientActivity(World, c)
<1>2. c \in Clients /\ now \in Nat /\ World \in Worlds
  BY <1>1, WorldTyped DEF FromClient, Speaks, Inv, TypeOK
<1>3. touched \in Worlds /\ Patient(touched, World)
  BY <1>2, TouchWorld, TouchPatient
<1>4. touched.rt.awaitingChallenge = runtime.awaitingChallenge
  BY <1>2 DEF TouchClientActivity, World, Worlds, RelayRuntime
<1> HIDE DEF touched
<1>5. ASSUME NEW r \in ReqIds \cup {None}, ClientConnectRequest(s, r)
      PROVE  WaitsAnswered
  <2> DEFINE prepared == PrepareConnect(World, c)
             marked == MarkAwaitingChallenge(prepared, c, now)
             w == RememberRequest(marked, r, c)
  <2>1. /\ prepared \in Worlds
        /\ prepared.rt.awaitingChallenge = runtime.awaitingChallenge
    BY <1>2, <1>3, <1>4 DEF PrepareConnect, Worlds, RelayRuntime, touched
  <2> HIDE DEF prepared
  <2>2. /\ marked \in Worlds
        /\ \A d \in Clients : runtime.awaitingChallenge[d] # Never
             => marked.rt.awaitingChallenge[d] # Never
    BY <1>2, <2>1, MarkWorld, MarkWaits DEF Time
  <2> HIDE DEF marked
  <2>3. w \in Worlds /\ w.rt.awaitingChallenge = marked.rt.awaitingChallenge
    BY <1>2, <2>2 DEF RememberRequest, Worlds, RelayRuntime
  <2> HIDE DEF w
  <2>4. PICK v \in {ToGateway(w, "connect"), BufferConnectStart(w, c)} : Become(v)
    BY <1>5 DEF ClientConnectRequest, prepared, marked, w
  <2>5. v.rt.awaitingChallenge = w.rt.awaitingChallenge
    <3>1. ToGateway(w, "connect").rt = w.rt
      BY <2>3 DEF ToGateway, Send, Worlds
    <3>2. BufferConnectStart(w, c).rt.awaitingChallenge = w.rt.awaitingChallenge
      BY <2>3 DEF BufferConnectStart, PrunePendingConnectStarts, Worlds, RelayRuntime
    <3> QED BY <3>1, <3>2
  <2>6. runtime' = v.rt
    BY <2>4 DEF Become
  <2> QED BY <2>2, <2>3, <2>5, <2>6, NobodyStops
<1>6. ASSUME ClientData(s) \/ ClientControl(s) PROVE WaitsAnswered
  <2>1. PICK w : /\ Become(w)
                 /\ \/ w = touched
                    \/ \E kind \in {"data", "control"} : w = ToGateway(touched, kind)
    BY <1>6 DEF ClientData, ClientControl, touched
  <2>2. Patient(w, World)
    BY <1>3, <2>1, ToGatewayPatient, PatientTwice
  <2> QED BY <2>1, <2>2, PatientStep
<1>7. ASSUME ClientRateLimited(s) PROVE WaitsAnswered
  <2>1. Become(Close(touched, {s}, "rate_limited"))
    BY <1>7 DEF ClientRateLimited, touched
  <2>2. Close(touched, {s}, "rate_limited").rt = touched.rt
    BY <1>3, CloseEffect
  <2>3. runtime' = touched.rt
    BY <2>1, <2>2 DEF Become
  <2> QED BY <1>4, <2>3, NobodyStops
<1> QED BY <1>5, <1>6, <1>7

\* A client whose socket goes is not there any more.
LEMMA SocketWaits ==
  ASSUME Inv, GatewayInv, NEW s \in Sockets, SocketLost(s) \/ RemoveSocket(s)
  PROVE  WaitsAnswered
<1>1. ASSUME SocketLost(s) PROVE WaitsAnswered
  <2>1. runtime' = runtime
    BY <1>1 DEF SocketLost, Become, World
  <2> QED BY <2>1, NobodyStops
<1>2. ASSUME RemoveSocket(s) PROVE WaitsAnswered
  <2> DEFINE gone == Gone(s)
             id == sock[s].id
  <2>1. /\ gone \in Worlds /\ gone.rt = runtime
        /\ gone.sock[s].state = "free"
    BY GoneEffect
  <2> HIDE DEF gone
  <2>2. CASE ~IsCurrentSocket(s)
    <3>1. runtime' = runtime
      BY <1>2, <2>1, <2>2 DEF RemoveSocket, Become, gone
    <3> QED BY <3>1, NobodyStops
  <2>3. CASE IsCurrentSocket(s) /\ id \in Gateways
    <3> DEFINE hostless == [gone EXCEPT !.rt.gatewaySocket = None]
    <3>1. Become(DropPendingChallenge(Hear(hostless, id)))
      BY <1>2, <2>3, IdsAssumption DEF RemoveSocket, gone
    <3>2. /\ hostless \in Worlds
          /\ hostless.rt.awaitingChallenge = runtime.awaitingChallenge
      BY <2>1 DEF Worlds, RelayRuntime
    <3> HIDE DEF hostless
    <3>3. now \in Nat
      BY DEF Inv, TypeOK
    <3>4. Hear(hostless, id) \in Worlds /\ Hear(hostless, id).rt = hostless.rt
      BY <2>3, <3>2, <3>3, HearWorld, HearEffect
    <3>5. DropPendingChallenge(Hear(hostless, id)).rt.awaitingChallenge
            = runtime.awaitingChallenge
      BY <3>2, <3>4 DEF DropPendingChallenge, Worlds, RelayRuntime
    <3>6. runtime'.awaitingChallenge = runtime.awaitingChallenge
      BY <3>1, <3>5 DEF Become
    <3> QED BY <3>6, NobodyStops
  <2>4. CASE IsCurrentSocket(s) /\ id \in Clients /\ id \notin Gateways
    <3>1. PICK u \in DropClients(gone, {id}) : Become(ReportClientsLost(u))
      BY <1>2, <2>4 DEF RemoveSocket, gone
    <3>2. ~IsOpen(gone.sock, gone.rt.clients[id])
      BY <2>1, <2>4 DEF IsCurrentSocket, IsOpen
    <3>3. /\ u \in Worlds /\ u.sock = gone.sock
          /\ \A c \in Clients \ {id} :
               u.rt.awaitingChallenge[c] = runtime.awaitingChallenge[c]
      BY <2>1, <2>4, <3>2, DropWorld, DropEffect
    <3>4. /\ ReportClientsLost(u).sock = gone.sock
          /\ ReportClientsLost(u).rt.awaitingChallenge = u.rt.awaitingChallenge
      BY <3>3, ReportEffect
    <3>5. /\ sock' = gone.sock
          /\ \A c \in Clients \ {id} :
               runtime'.awaitingChallenge[c] = runtime.awaitingChallenge[c]
      BY <3>1, <3>3, <3>4 DEF Become
    <3> QED BY <2>1, <3>2, <3>5, NobodyStops
  <2> QED BY <1>2, <2>2, <2>3, <2>4, IdsAssumption DEF RemoveSocket
<1> QED BY <1>1, <1>2

\* Whom a prune or a tick drops is closed; the others wait on.
LEMMA CloseAndDropWaits ==
  ASSUME NEW w \in Worlds, NEW D \in SUBSET Clients,
         NEW code \in {"idle_or_stale", "dead_socket"},
         NEW u \in DropClients(Close(w, {w.rt.clients[c] : c \in D}, code), D),
         Owned(w)
  PROVE  LET v == ReportClientsLost(u) IN
         /\ w.sent \subseteq v.sent
         /\ \A s \in Sockets : v.sock[s].state = "open" => w.sock[s].state = "open"
         /\ \A c \in Clients :
              \/ ~IsOpen(v.sock, w.rt.clients[c])
              \/ /\ v.rt.awaitingChallenge[c] = w.rt.awaitingChallenge[c]
                 /\ v.rt.clients[c] = w.rt.clients[c]
<1> DEFINE S == {w.rt.clients[c] : c \in D}
           closed == Close(w, S, code)
           v == ReportClientsLost(u)
<1>1. /\ closed \in Worlds /\ closed.rt = w.rt
      /\ \A s \in Sockets : closed.sock[s].state = "open"
                              => w.sock[s].state = "open" /\ s \notin S
  BY CloseWorld
<1>2. w.sent \subseteq closed.sent
  BY DEF Close, Worlds
<1>3. \A c \in D : w.rt.clients[c] \in S
  OBVIOUS
<1>4. u \in DropClients(closed, D)
  OBVIOUS
<1> HIDE DEF closed, S
<1>5. \A c \in D : ~IsOpen(closed.sock, w.rt.clients[c])
  BY <1>1, <1>3 DEF IsOpen, Worlds, RelayRuntime
<1>6. /\ u \in Worlds /\ u.sock = closed.sock /\ u.sent = closed.sent
      /\ \A c \in Clients \ D :
           /\ u.rt.awaitingChallenge[c] = w.rt.awaitingChallenge[c]
           /\ u.rt.clients[c] = w.rt.clients[c]
  BY <1>1, <1>4, <1>5, DropWorld, DropEffect
<1>7. /\ v.sock = u.sock /\ v.sent = u.sent
      /\ v.rt.clients = u.rt.clients
      /\ v.rt.awaitingChallenge = u.rt.awaitingChallenge
  BY <1>6, ReportEffect
<1> HIDE DEF v
<1>8. \A c \in Clients :
        \/ ~IsOpen(v.sock, w.rt.clients[c])
        \/ /\ v.rt.awaitingChallenge[c] = w.rt.awaitingChallenge[c]
           /\ v.rt.clients[c] = w.rt.clients[c]
  BY <1>5, <1>6, <1>7
<1>9. \A s \in Sockets : v.sock[s].state = "open" => w.sock[s].state = "open"
  BY <1>1, <1>6, <1>7
<1> QED BY <1>2, <1>6, <1>7, <1>8, <1>9 DEF v

\* The alarm: dropped clients are closed, expired waits end, and one client
\* may get the buffered challenge.
LEMMA AlarmWaits ==
  ASSUME Inv, Alarm
  PROVE  WaitsAnswered
<1>1. World \in Worlds /\ Owned(World) /\ now \in Nat
  BY WorldTyped DEF Inv, TypeOK
<1>2. PICK v \in PruneStaleHandshakeClients(World) :
      \E x \in FlushPendingChallenge(PrunePendingConnectStarts(
                 PruneExpiredAwaitingChallenges(v))) :
      \E w \in SendTicks(x) : Become(w)
  BY DEF Alarm
<1>3. /\ v \in Worlds /\ Owned(v)
      /\ \A c \in Clients :
           \/ ~IsOpen(v.sock, runtime.clients[c])
           \/ /\ v.rt.awaitingChallenge[c] = runtime.awaitingChallenge[c]
              /\ v.rt.clients[c] = runtime.clients[c]
  <2>1. v = World \/ \E D \in SUBSET Clients :
                       \E u \in DropClients(Close(World, {World.rt.clients[c] : c \in D},
                                                  "idle_or_stale"), D) :
                         v = ReportClientsLost(u)
    BY DEF PruneStaleHandshakeClients, Mapped
  <2>2. \A c \in Clients :
          \/ ~IsOpen(v.sock, World.rt.clients[c])
          \/ /\ v.rt.awaitingChallenge[c] = World.rt.awaitingChallenge[c]
             /\ v.rt.clients[c] = World.rt.clients[c]
    <3>1. CASE v = World
      BY <3>1
    <3>2. ASSUME NEW D \in SUBSET Clients,
                 NEW u \in DropClients(Close(World, {World.rt.clients[c] : c \in D},
                                             "idle_or_stale"), D),
                 v = ReportClientsLost(u)
          PROVE  \A c \in Clients :
                   \/ ~IsOpen(v.sock, World.rt.clients[c])
                   \/ /\ v.rt.awaitingChallenge[c] = World.rt.awaitingChallenge[c]
                      /\ v.rt.clients[c] = World.rt.clients[c]
      BY <1>1, <3>2, CloseAndDropWaits
    <3> QED BY <2>1, <3>1, <3>2
  <2>3. v \in Worlds /\ Owned(v)
    BY <1>1, <1>2, PruneStaleWorld
  <2> QED BY <2>2, <2>3 DEF World
<1> DEFINE awaited == PruneExpiredAwaitingChallenges(v)
           pruned == PrunePendingConnectStarts(awaited)
<1>4. /\ awaited \in Worlds /\ Patient(awaited, v) /\ SamePlaces(awaited, v)
      /\ pruned \in Worlds /\ Patient(pruned, awaited) /\ SamePlaces(pruned, awaited)
  BY <1>3, PruneAwaitingWorld, PruneStartsWorld, PruneAwaitingPatient, PruneStartsPatient
<1> HIDE DEF awaited
<1> HIDE DEF pruned
<1>5. PICK x \in FlushPendingChallenge(pruned) : \E w \in SendTicks(x) : Become(w)
  BY <1>2 DEF pruned, awaited
<1>6. /\ x \in Worlds /\ Patient(x, v) /\ x.sock = v.sock /\ Owned(x)
  BY <1>1, <1>3, <1>4, <1>5, FlushChallengeWorld, FlushChallengePatient, PatientTwice,
     SamePlacesOwned DEF SamePlaces
<1>7. PICK w \in SendTicks(x) : Become(w)
  BY <1>5
<1>8. /\ x.sent \subseteq w.sent
      /\ \A s \in Sockets : w.sock[s].state = "open" => x.sock[s].state = "open"
      /\ \A c \in Clients :
           \/ ~IsOpen(w.sock, x.rt.clients[c])
           \/ w.rt.awaitingChallenge[c] = x.rt.awaitingChallenge[c]
  <2>1. w = x \/ \E D \in SUBSET Clients :
                   \E u \in DropClients(Close(x, {x.rt.clients[c] : c \in D},
                                              "dead_socket"), D) :
                     w = ReportClientsLost(u)
    BY <1>7 DEF SendTicks, OpenClients
  <2>2. CASE w = x
    BY <2>2
  <2>3. ASSUME NEW D \in SUBSET Clients,
               NEW u \in DropClients(Close(x, {x.rt.clients[c] : c \in D},
                                           "dead_socket"), D),
               w = ReportClientsLost(u)
        PROVE  /\ x.sent \subseteq w.sent
               /\ \A s \in Sockets : w.sock[s].state = "open" => x.sock[s].state = "open"
               /\ \A c \in Clients :
                    \/ ~IsOpen(w.sock, x.rt.clients[c])
                    \/ w.rt.awaitingChallenge[c] = x.rt.awaitingChallenge[c]
    BY <1>6, <2>3, CloseAndDropWaits
  <2> QED BY <2>1, <2>2, <2>3
<1> SUFFICES ASSUME NEW c \in Clients, WaitOver(c)
             PROVE  \E f \in sent' : f.kind = "challenge" /\ f.to = runtime.clients[c]
  BY DEF WaitsAnswered
<1>9. /\ runtime.awaitingChallenge[c] # Never
      /\ w.rt.awaitingChallenge[c] = Never
      /\ runtime.clients[c] \in Sockets /\ w.sock[runtime.clients[c]].state = "open"
      /\ sent' = w.sent
  BY <1>1, <1>7 DEF WaitOver, Become, IsOpen, World, Worlds, RelayRuntime
<1>10. IsOpen(w.sock, runtime.clients[c]) /\ IsOpen(v.sock, runtime.clients[c])
  BY <1>6, <1>8, <1>9, IdsAssumption DEF IsOpen
<1>11. /\ v.rt.awaitingChallenge[c] = runtime.awaitingChallenge[c]
       /\ v.rt.clients[c] = runtime.clients[c]
  BY <1>3, <1>10
<1>12. x.rt.clients[c] = runtime.clients[c]
  BY <1>6, <1>11 DEF Patient
<1>13. x.rt.awaitingChallenge[c] = Never
  BY <1>8, <1>9, <1>10, <1>12
<1>14. ~Expired(runtime.awaitingChallenge[c], AwaitingTtl)
  BY NotExpired
<1>15. ChallengeTo(runtime.clients[c]) \in x.sent
  BY <1>6, <1>9, <1>11, <1>13, <1>14 DEF Patient
<1> QED BY <1>8, <1>9, <1>15 DEF ChallengeTo

\* Every step of a room that stays in memory answers whom it makes stop
\* waiting, or leaves nobody.
LEMMA NextWaits ==
  ASSUME Inv, GatewayInv, ~Hibernation, Next
  PROVE  WaitsAnswered
<1>1. ASSUME NEW s \in Sockets,
             (\E g \in Gateways : ConnectGateway(s, g))
               \/ \E c \in Clients : ConnectClient(s, c)
      PROVE  WaitsAnswered
  BY <1>1, ConnectWaits
<1>2. ASSUME NEW s \in Sockets,
             \/ \E target \in Clients \cup {None} : GatewayControl(s, target)
             \/ GatewayChallenge(s)
             \/ \E r \in ReqIds : GatewayResponse(s, r)
             \/ GatewayData(s)
      PROVE  WaitsAnswered
  BY <1>2, GatewayFrameWaits
<1>3. ASSUME NEW s \in Sockets,
             \/ \E r \in ReqIds \cup {None} : ClientConnectRequest(s, r)
             \/ ClientData(s)
             \/ ClientControl(s)
             \/ ClientRateLimited(s)
      PROVE  WaitsAnswered
  BY <1>3, ClientFrameWaits
<1>4. ASSUME NEW s \in Sockets, SocketLost(s) \/ RemoveSocket(s) PROVE WaitsAnswered
  BY <1>4, SocketWaits
<1>5. ASSUME Restart PROVE WaitsAnswered
  <2>1. sock' = [s \in Sockets |-> FreeSocket]
    BY <1>5 DEF Restart, Become, World
  <2>2. runtime \in RelayRuntime
    BY DEF Inv, TypeOK
  <2>3. \A c \in Clients : ~IsOpen(sock', runtime.clients[c])
    BY <2>1, <2>2 DEF IsOpen, FreeSocket, RelayRuntime
  <2> QED BY <2>3, NobodyStops
<1>6. ASSUME Tick PROVE WaitsAnswered
  BY <1>6, NobodyStops DEF Tick
<1> QED BY <1>1, <1>2, <1>3, <1>4, <1>5, <1>6, AlarmWaits DEF Next, Wake

-----------------------------------------------------------------------------
(* The theorems *)

\* Both invariants hold in every reachable state.
LEMMA GatewayInvHolds == Spec => [](Inv /\ GatewayInv)
<1>1. Init => Inv /\ GatewayInv
  BY InitInv, InitGood
<1>2. Inv /\ GatewayInv /\ [Next]_vars => (Inv /\ GatewayInv)'
  BY NextInv, NextGood
<1> QED BY <1>1, <1>2, PTL DEF Spec

\* A connect is buffered only while there is no gateway to take it, whatever
\* connects, is lost, wakes or restarts (flushPendingConnectStarts).
THEOREM BufferedStarts == Spec => []NoBufferedStartsWhileGatewayOpen
<1>1. GatewayInv => NoBufferedStartsWhileGatewayOpen
  BY DEF GatewayInv, RoomGood, Emptied, World, NoBufferedStartsWhileGatewayOpen
<1> QED BY <1>1, GatewayInvHolds, PTL

\* In a room that stays in memory the open gateway knows how many clients it
\* has (client_count); a hibernating room tells it again only with the next
\* client to come or go.
THEOREM ToldCount == ~Hibernation => (Spec => []GatewayToldClientCount)
<1> SUFFICES ASSUME ~Hibernation PROVE Spec => []GatewayToldClientCount
  OBVIOUS
<1>1. GatewayInv => GatewayToldClientCount
  BY DEF GatewayInv, RoomGood, Informed, World, GatewayToldClientCount
<1> QED BY <1>1, GatewayInvHolds, PTL

\* The lease that locks others out is the connected gateway's
\* (touchGatewayOwner), as long as no frame comes from a socket the room has
\* closed.
THEOREM OwnerNames == ~LateFrames => (Spec => []OwnerNamesOpenGateway)
<1> SUFFICES ASSUME ~LateFrames PROVE Spec => []OwnerNamesOpenGateway
  OBVIOUS
<1>1. Inv /\ GatewayInv => OwnerNamesOpenGateway
  BY IdsAssumption DEF Inv, Owned, World, GatewayInv, OwnerSeated, OwnerNamesOpenGateway
<1> QED BY <1>1, GatewayInvHolds, PTL

\* Nobody takes the room from a gateway it heard from within the lease
\* (canAcceptGatewayOwner).
THEOREM Lease == ~LateFrames => (Spec => LeaseProtectsOwner)
<1> SUFFICES ASSUME ~LateFrames PROVE Spec => LeaseProtectsOwner
  OBVIOUS
<1> DEFINE Displaces(s, g, h) ==
      /\ sock[s].state = "free" /\ sock'[s].state = "open" /\ sock'[s].id = g
      /\ h # g /\ heard[h] # Never
<1>1. ASSUME Inv, GatewayInv, [Next]_vars,
             NEW s \in Sockets, NEW g \in Gateways, NEW h \in Gateways, Displaces(s, g, h)
      PROVE  now - heard[h] > OwnerLease - OwnerTouchInterval
  <2>1. PICK t \in Sockets, k \in Gateways : ConnectGateway(t, k) /\ OpensOnly(k)
    BY <1>1, NextGood DEF NoGatewayOpens
  <2>2. g = k
    BY <1>1, <2>1 DEF OpensOnly
  <2>3. CanAcceptGatewayOwner(g) /\ Leased
    BY <2>1, <2>2, <1>1 DEF ConnectGateway, GatewayInv
  <2> QED BY <1>1, <2>3, RivalsSilent
<1> DEFINE Protects == \A s \in Sockets, g, h \in Gateways :
      Displaces(s, g, h) => now - heard[h] > OwnerLease - OwnerTouchInterval
<1>2. Inv /\ GatewayInv /\ [Next]_vars => [Protects]_vars
  BY <1>1
<1>3. LeaseProtectsOwner <=> [][Protects]_vars
  BY DEF LeaseProtectsOwner
<1> HIDE DEF Protects
<1> QED BY <1>2, <1>3, GatewayInvHolds, PTL DEF Spec

\* What the alarm takes for silence was silence.
LEMMA SilentHeard ==
  ASSUME Inv, GatewayInv, ~Hibernation, NEW c \in Clients, Silent(World, c),
         NEW s \in Sockets, s = runtime.clients[c]
  PROVE  /\ sock[s].id = c
         /\ \/ now - heard[c] > IdleTimeout
            \/ /\ now - heard[c] > AwaitingTtl
               /\ runtime.awaitingChallenge[c] # Never
               /\ now - runtime.awaitingChallenge[c] > AwaitingTtl
<1>1. sock[s].id = c
  BY IdsAssumption DEF GatewayInv, RoomGood, Seated, World
<1>2. heard[c] <= runtime.lastActivityAt[c]
  BY DEF GatewayInv, Remembered, World
<1>3. /\ now \in Nat /\ heard[c] \in Time
      /\ runtime.lastActivityAt[c] \in Time /\ runtime.awaitingChallenge[c] \in Time
      /\ IdleTimeout \in Nat /\ AwaitingTtl \in Nat
  BY TimingAssumption DEF Inv, TypeOK, RelayRuntime, Peers
<1>4. \/ Expired(runtime.lastActivityAt[c], IdleTimeout)
      \/ /\ Expired(runtime.awaitingChallenge[c], AwaitingTtl)
         /\ \/ runtime.lastActivityAt[c] = Never
            \/ Expired(runtime.lastActivityAt[c], AwaitingTtl)
  BY DEF Silent, World
<1> QED BY <1>1, <1>2, <1>3, <1>4 DEF Expired, Time, Never

\* A room that stays in memory closes a client for silence only when it was
\* silent that long (pruneStaleHandshakeClients).
THEOREM SilenceCloses == ~Hibernation => (Spec => TimeoutCloseJustified)
<1> SUFFICES ASSUME ~Hibernation PROVE Spec => TimeoutCloseJustified
  OBVIOUS
<1> DEFINE Closed(s) == \E f \in sent' : f.to = s /\ f.kind = "idle_or_stale"
           WasSilent(s) ==
             LET c == sock[s].id
             IN  \/ now - heard[c] > IdleTimeout
                 \/ /\ now - heard[c] > AwaitingTtl
                    /\ runtime.awaitingChallenge[c] # Never
                    /\ now - runtime.awaitingChallenge[c] > AwaitingTtl
           Justified == \A s \in Sockets : Closed(s) => WasSilent(s)
<1>1. ASSUME Inv, GatewayInv, [Next]_vars, ~UNCHANGED vars,
             NEW s \in Sockets, Closed(s)
      PROVE  WasSilent(s)
  <2>1. Alarm
    BY <1>1, NextGood DEF NobodySilenced
  <2>2. PICK c \in Clients : s = runtime.clients[c] /\ Silent(World, c)
    BY <1>1, <2>1, AlarmGood
  <2> QED BY <1>1, <2>2, SilentHeard
<1>2. Inv /\ GatewayInv /\ [Next]_vars => [Justified]_vars
  BY <1>1
<1>3. TimeoutCloseJustified <=> [][Justified]_vars
  BY DEF TimeoutCloseJustified
<1> HIDE DEF Justified
<1> QED BY <1>2, <1>3, GatewayInvHolds, PTL DEF Spec


\* A client of a room that stays in memory stops waiting for a challenge, as
\* long as it is connected and within the time allowed, only by getting one
\* (deliverChallenge, pruneExpiredAwaitingChallenges).
THEOREM WaitsEnd == ~Hibernation => (Spec => WaitEndsInChallenge)
<1> SUFFICES ASSUME ~Hibernation PROVE Spec => WaitEndsInChallenge
  OBVIOUS
<1>1. Inv /\ GatewayInv /\ [Next]_vars => [WaitsAnswered]_vars
  BY NextWaits
<1>2. WaitEndsInChallenge <=> [][WaitsAnswered]_vars
  BY DEF WaitEndsInChallenge, WaitsAnswered, WaitOver
<1> HIDE DEF WaitsAnswered
<1> QED BY <1>1, <1>2, GatewayInvHolds, PTL DEF Spec

=============================================================================
