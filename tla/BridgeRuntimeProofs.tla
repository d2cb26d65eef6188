------------------------ MODULE BridgeRuntimeProofs ------------------------
(***************************************************************************)
(* What holds of BridgeRuntime for every pool of sockets, every number of  *)
(* clients and frames and every limit of the queue.                        *)
(*                                                                         *)
(* The operators of BridgeRuntime work on worlds, so the invariant is a    *)
(* predicate on worlds and there is a lemma for each operator: what it     *)
(* keeps of the parts of the invariant and what it changes.  The lemma of  *)
(* an action follows its handler from one operator to the next.            *)
(***************************************************************************)
EXTENDS BridgeRuntime, SiftingProofs, FiniteSetTheorems, TLAPS

-----------------------------------------------------------------------------
(* The queue *)

\* The latest connect of a queue that has one.
LEMMA LatestIs ==
  ASSUME NEW q \in Seq(Message), ConnectRequests(q) # {}
  PROVE  /\ LatestConnect(q) \in ConnectRequests(q)
         /\ LatestConnect(q) \in 1..Len(q)
         /\ \A j \in ConnectRequests(q) : j <= LatestConnect(q)
<1>1. ConnectRequests(q) \in SUBSET (1..Len(q)) /\ Len(q) \in Nat
  BY DEF ConnectRequests
<1>2. \E x \in ConnectRequests(q) : \A y \in ConnectRequests(q) : y <= x
  BY <1>1, PlacesMax
<1> QED BY <1>1, <1>2 DEF LatestConnect

\* What is left of a queue once the older connects are dropped: every message
\* is one of the queue, in order, and the latest connect is the only one.
LEMMA DedupeIs ==
  ASSUME NEW q \in Seq(Message)
  PROVE  /\ Dedupe(q) \in Seq(Message)
         /\ Len(Dedupe(q)) <= Len(q)
         /\ \E place \in [DOMAIN Dedupe(q) -> DOMAIN q] :
              /\ \A k \in DOMAIN Dedupe(q) : Dedupe(q)[k] = q[place[k]]
              /\ \A k, l \in DOMAIN Dedupe(q) : k < l => place[k] < place[l]
         /\ ConnectRequests(q) = {} => ConnectRequests(Dedupe(q)) = {}
         /\ ConnectRequests(q) # {} =>
              /\ ConnectRequests(Dedupe(q)) = {LatestConnect(Dedupe(q))}
              /\ Dedupe(q)[LatestConnect(Dedupe(q))] = q[LatestConnect(q)]
<1> DEFINE d == Dedupe(q)
<1>0. DOMAIN q = 1..Len(q) /\ Len(q) \in Nat
  OBVIOUS
<1>1. CASE ConnectRequests(q) \subseteq {1}
  <2>1. d = q
    BY <1>1 DEF Dedupe
  <2> DEFINE place == [k \in DOMAIN q |-> k]
  <2>2. /\ place \in [DOMAIN d -> DOMAIN q]
        /\ \A k \in DOMAIN d : d[k] = q[place[k]]
        /\ \A k, l \in DOMAIN d : k < l => place[k] < place[l]
    BY <2>1
  <2>3. ConnectRequests(q) # {} => ConnectRequests(q) = {1} /\ LatestConnect(q) = 1
    BY <1>1, LatestIs
  <2> HIDE DEF d, place
  <2>4. Len(d) <= Len(q)
    BY <2>1, <1>0
  <2> QED BY <2>1, <2>2, <2>3, <2>4 DEF d
<1>2. CASE ~ (ConnectRequests(q) \subseteq {1})
  <2> DEFINE latest == LatestConnect(q)
             S == {i \in DOMAIN q : IsData(q[i]) \/ i = latest}
  <2>1. /\ ConnectRequests(q) # {} /\ latest \in DOMAIN q /\ ~IsData(q[latest])
        /\ d = Sift(q, S)
    BY <1>2, <1>0, LatestIs DEF Dedupe, ConnectRequests, IsData
  <2>2. /\ S \in SUBSET (DOMAIN q) /\ latest \in S
        /\ \A i \in S : IsData(q[i]) \/ i = latest
    BY <2>1
  <2> HIDE DEF d, latest, S
  <2>3. PICK place \in [DOMAIN d -> S] :
          /\ \A k \in DOMAIN d : d[k] = q[place[k]]
          /\ \A k, l \in DOMAIN d : k < l => place[k] < place[l]
          /\ \A j \in S : \E k \in DOMAIN d : place[k] = j
    BY <2>1, <2>2, SiftIs
  <2>4. d \in Seq(Message) /\ Len(d) <= Len(q)
    BY <2>1, <2>2, SiftIs
  <2>5. PICK k \in DOMAIN d : place[k] = latest
    BY <2>2, <2>3
  <2>6. DOMAIN d = 1..Len(d) /\ Len(d) \in Nat
    BY <2>4
  <2>7. ASSUME NEW l \in DOMAIN d, IsConnect(d[l]) PROVE l = k
    <3>1. place[l] = latest
      BY <2>2, <2>3, <2>7 DEF IsData
    <3>2. ~ (l < k) /\ ~ (k < l)
      BY <2>3, <2>5, <3>1, <2>1, <1>0
    <3> QED BY <3>2, <2>6
  <2>8. ConnectRequests(d) = {k}
    BY <2>1, <2>3, <2>5, <2>7 DEF ConnectRequests, IsData
  <2>9. LatestConnect(d) = k
    BY <2>4, <2>8, LatestIs
  <2>10. place \in [DOMAIN d -> DOMAIN q]
    BY <2>2, <2>3
  <2>11. d[k] = q[latest]
    BY <2>3, <2>5
  <2> QED BY <2>1, <2>3, <2>4, <2>8, <2>9, <2>10, <2>11 DEF d, latest
<1> QED BY <1>1, <1>2

-----------------------------------------------------------------------------
(* The invariant *)

SocketStates == {"free", "connecting", "open", "closing", "aborted"}

Worlds ==
  [sock : [Sockets -> SocketStates], rt : Runtime,
   given : [GatewaySockets -> Seq(1..MaxFrames)], spent : SUBSET (1..MaxFrames),
   alone : BOOLEAN, full : BOOLEAN]

\* A world of the right type; a gives the frames that have arrived.
Typed(w, a) ==
  /\ w \in Worlds
  /\ Len(w.rt.pending) <= MaxPending
  /\ a \in Seq(Kinds)

\* A running bridge has one relay socket, or none and the reconnect timer.
Relay(w) ==
  /\ w.rt.relayConnecting => w.rt.relaySocket # None
  /\ ~w.rt.stopped =>
       /\ \A s \in RelaySockets : w.sock[s] # "free" => w.rt.relaySocket = s
       /\ (w.rt.relaySocket # None) # w.rt.reconnectTimer

\* A stopped bridge holds no socket and no timer.
AtRest(w) ==
  w.rt.stopped =>
    /\ w.rt.relaySocket = None /\ w.rt.gatewaySocket = None
    /\ ~w.rt.reconnectTimer /\ ~w.rt.gatewayRetryTimer

\* No open socket but the two in use.
Used(w) ==
  \A s \in Sockets : w.sock[s] = "open" => s \in {w.rt.relaySocket, w.rt.gatewaySocket}

\* What the flags say of the gateway socket, and "alone" of the others.
Gateway(w) ==
  /\ w.rt.gatewayConnecting => w.rt.gatewaySocket # None
  /\ w.rt.closeBoundary => w.rt.gatewaySocket # None /\ ~IsGatewayOpen(w)
  /\ w.alone /\ w.rt.gatewaySocket # None =>
       \A s \in GatewaySockets \ {w.rt.gatewaySocket} : w.sock[s] = "free"

\* Demand leads to the gateway.
Pursued(w) ==
  ~w.rt.stopped /\ IsRelayOpen(w) /\ ShouldKeepGateway(w) =>
    w.rt.gatewaySocket # None \/ w.rt.gatewayRetryTimer

\* The frames of q wait in the order of their arrival and were not given away.
Queued(q, a, given_) ==
  /\ \A i, j \in DOMAIN q : i < j => q[i].at < q[j].at
  /\ \A i \in DOMAIN q :
       q[i].at \in (DOMAIN a) \ given_ /\ a[q[i].at] = q[i].kind

\* What a gateway socket was given is in order, starts with a connect, and is
\* nothing before the socket opens.
Fed(w, a) ==
  /\ w.spent \subseteq DOMAIN a
  /\ \A c \in GatewaySockets :
       /\ Channel!Increasing(w.given[c])
       /\ \A i \in DOMAIN w.given[c] : w.given[c][i] \in w.spent
       /\ w.given[c] # <<>> => a[w.given[c][1]] = "connect"
       /\ w.sock[c] \in {"free", "connecting", "aborted"} => w.given[c] = <<>>

\* While the gateway is open no connect waits and a started session was fed.
Flushed(w) ==
  IsGatewayOpen(w) =>
    /\ ConnectRequests(w.rt.pending) = {}
    /\ w.rt.handshakeStarted => w.given[w.rt.gatewaySocket] # <<>>

\* A socket that was fed has a session, if no older one can reset the flag.
Started(w) ==
  IsGatewayOpen(w) /\ w.alone /\ w.given[w.rt.gatewaySocket] # <<>> =>
    w.rt.handshakeStarted

\* The parts no operator breaks.
Sound(w, a) ==
  /\ Typed(w, a) /\ AtRest(w) /\ Used(w) /\ Gateway(w)
  /\ Queued(w.rt.pending, a, w.spent) /\ Fed(w, a) /\ Flushed(w)

Inv ==
  Sound(World, arrived) /\ Relay(World) /\ Pursued(World) /\ Started(World)

-----------------------------------------------------------------------------
(* Messages that wait *)

\* What is picked out of a queue, in its order, is a queue.
LEMMA QueuedPart ==
  ASSUME NEW q \in Seq(Message), NEW p \in Seq(Message), NEW a, NEW g,
         NEW place \in [DOMAIN p -> DOMAIN q],
         \A k \in DOMAIN p : p[k] = q[place[k]],
         \A k, l \in DOMAIN p : k < l => place[k] < place[l],
         Queued(q, a, g)
  PROVE  Queued(p, a, g)
<1>1. ASSUME NEW k \in DOMAIN p, NEW l \in DOMAIN p, k < l
      PROVE  p[k].at < p[l].at
  BY <1>1 DEF Queued
<1>2. ASSUME NEW k \in DOMAIN p
      PROVE  p[k].at \in (DOMAIN a) \ g /\ a[p[k].at] = p[k].kind
  <2>1. p[k] = q[place[k]] /\ place[k] \in DOMAIN q
    OBVIOUS
  <2> QED BY <2>1 DEF Queued
<1> QED BY <1>1, <1>2 DEF Queued

\* A run of a queue is a queue.
LEMMA QueuedSubSeq ==
  ASSUME NEW q \in Seq(Message), NEW a, NEW g, Queued(q, a, g),
         NEW m \in 1..(Len(q) + 1), NEW n \in 0..Len(q)
  PROVE  /\ SubSeq(q, m, n) \in Seq(Message)
         /\ Len(SubSeq(q, m, n)) <= Len(q)
         /\ Queued(SubSeq(q, m, n), a, g)
<1> DEFINE p == SubSeq(q, m, n)
           place == [k \in DOMAIN p |-> m + k - 1]
<1>1. /\ p \in Seq(Message) /\ Len(p) <= Len(q)
      /\ \A k \in DOMAIN p : m + k - 1 \in DOMAIN q /\ p[k] = q[m + k - 1]
      /\ \A k \in DOMAIN p : k \in Nat
  OBVIOUS
<1> HIDE DEF p
<1>2. /\ place \in [DOMAIN p -> DOMAIN q]
      /\ \A k \in DOMAIN p : p[k] = q[place[k]]
      /\ \A k, l \in DOMAIN p : k < l => place[k] < place[l]
  BY <1>1
<1> HIDE DEF place
<1>3. Queued(p, a, g)
  BY <1>1, <1>2, QueuedPart
<1> QED BY <1>1, <1>3 DEF p

\* A frame that arrives goes behind a queue of earlier frames.
LEMMA QueuedAppend ==
  ASSUME NEW q \in Seq(Message), NEW a \in Seq(Kinds), NEW g, Queued(q, a, g),
         NEW kind \in Kinds, g \subseteq DOMAIN a, Len(a) < MaxFrames
  PROVE  LET m == [kind |-> kind, at |-> Len(a) + 1]
         IN  /\ m \in Message
             /\ Queued(q, Append(a, kind), g)
             /\ Queued(Append(q, m), Append(a, kind), g)
<1> DEFINE m == [kind |-> kind, at |-> Len(a) + 1]
           b == Append(a, kind)
           p == Append(q, m)
<1>1. Len(a) \in Nat /\ DOMAIN a = 1..Len(a) /\ MaxFrames \in Nat
  BY BoundsAssumption
<1>2. m \in Message /\ m.at = Len(a) + 1 /\ m.kind = kind
  BY <1>1 DEF Message
<1>3. /\ DOMAIN b = 1..(Len(a) + 1) /\ b[Len(a) + 1] = kind
      /\ \A i \in DOMAIN a : b[i] = a[i]
  OBVIOUS
<1> HIDE DEF m, b
<1>4. /\ p \in Seq(Message) /\ DOMAIN p = 1..(Len(q) + 1) /\ p[Len(q) + 1] = m
      /\ Len(q) \in Nat /\ DOMAIN q = 1..Len(q)
      /\ \A i \in DOMAIN q : p[i] = q[i]
  BY <1>2
<1> HIDE DEF p
<1>5. ASSUME NEW i \in DOMAIN q
      PROVE  q[i].at \in (DOMAIN b) \ g /\ b[q[i].at] = q[i].kind /\ q[i].at < m.at
  <2>1. q[i].at \in (DOMAIN a) \ g /\ a[q[i].at] = q[i].kind
    BY DEF Queued
  <2> QED BY <1>1, <1>2, <1>3, <2>1
<1>6. Queued(q, b, g)
  BY <1>5 DEF Queued
<1>7. m.at \in (DOMAIN b) \ g /\ b[m.at] = m.kind
  BY <1>1, <1>2, <1>3
<1>8. ASSUME NEW i \in DOMAIN p
      PROVE  p[i].at \in (DOMAIN b) \ g /\ b[p[i].at] = p[i].kind
  BY <1>4, <1>5, <1>7, <1>8
<1>9. ASSUME NEW i \in DOMAIN p, NEW j \in DOMAIN p, i < j
      PROVE  p[i].at < p[j].at
  <2>1. i \in DOMAIN q /\ (j \in DOMAIN q \/ j = Len(q) + 1)
    BY <1>4, <1>9
  <2> QED BY <1>4, <1>5, <1>9, <2>1 DEF Queued
<1>10. Queued(p, b, g)
  BY <1>8, <1>9 DEF Queued
<1> QED BY <1>2, <1>6, <1>10 DEF m, b, p

-----------------------------------------------------------------------------
(* Operators on worlds *)

Unopened == {"free", "connecting", "aborted"}

\* v is w with the socket s shut, if there is one.
Shut(v, w, s) ==
  /\ v.rt = w.rt /\ v.given = w.given /\ v.spent = w.spent
  /\ v.alone = w.alone /\ v.full = w.full
  /\ \A t \in Sockets :
       /\ t # s => v.sock[t] = w.sock[t]
       /\ t = s => v.sock[t] # "open"
       /\ v.sock[t] = "open" => w.sock[t] = "open"
       /\ v.sock[t] = "free" <=> w.sock[t] = "free"
       /\ v.sock[t] \in Unopened => w.sock[t] \in Unopened

\* v differs from w in what concerns the gateway alone, and creates nothing
\* when w is stopped.
Aside(v, w) ==
  /\ v.given = w.given /\ v.spent = w.spent
  /\ v.rt.pending = w.rt.pending /\ v.rt.clientCount = w.rt.clientCount
  /\ v.rt.stopped = w.rt.stopped /\ v.rt.reconnectTimer = w.rt.reconnectTimer
  /\ v.rt.relaySocket = w.rt.relaySocket
  /\ v.rt.relayConnecting = w.rt.relayConnecting
  /\ \A s \in RelaySockets : v.sock[s] = w.sock[s]
  /\ w.rt.stopped => \A s \in Sockets : w.sock[s] = "free" => v.sock[s] = "free"

\* None is no socket, and no socket is of both sides.
LEMMA SocketsApart ==
  /\ None \notin Sockets
  /\ \A s \in RelaySockets : s \in Sockets /\ s \notin GatewaySockets
  /\ \A s \in GatewaySockets : s \in Sockets /\ s \notin RelaySockets
BY SocketsAssumption DEF Sockets

\* What concerns the gateway alone leaves the relay's part of the invariant.
LEMMA AsideRelay ==
  ASSUME NEW v, NEW w, Aside(v, w), Relay(w)
  PROVE  Relay(v)
BY DEF Aside, Relay

\* The relay's part of the invariant is about four fields and the relay sockets.
LEMMA RelaySame ==
  ASSUME NEW v, NEW w, Relay(w), w.rt.stopped => v.rt.stopped,
         v.rt.reconnectTimer = w.rt.reconnectTimer,
         v.rt.relaySocket = w.rt.relaySocket,
         v.rt.relayConnecting = w.rt.relayConnecting,
         \A s \in RelaySockets : v.sock[s] = w.sock[s]
  PROVE  Relay(v)
BY DEF Relay

\* Closing a socket shuts it.
LEMMA CloseSocketIs ==
  ASSUME NEW a, NEW w, Typed(w, a), NEW s \in Sockets \cup {None}
  PROVE  Typed(CloseSocket(w, s), a) /\ Shut(CloseSocket(w, s), w, s)
<1> DEFINE v == CloseSocket(w, s)
<1>1. CASE s = None
  BY <1>1, SocketsApart DEF CloseSocket, Shut
<1>2. CASE s # None
  <2> DEFINE k == CASE w.sock[s] = "connecting" -> "aborted"
                    [] w.sock[s] = "open" -> "closing"
                    [] OTHER -> w.sock[s]
  <2>1. w.sock[s] \in SocketStates /\ s \in Sockets
    BY <1>2 DEF Typed, Worlds
  <2>2. /\ k \in SocketStates /\ k # "open"
        /\ k = "free" <=> w.sock[s] = "free"
        /\ k \in Unopened => w.sock[s] \in Unopened
    BY <2>1 DEF SocketStates, Unopened
  <2> HIDE DEF k
  <2>3. v = [w EXCEPT !.sock = [w.sock EXCEPT ![s] = k]]
    BY <1>2 DEF CloseSocket, k, Typed, Worlds
  <2>4. v \in Worlds /\ v.rt = w.rt
    BY <2>2, <2>3 DEF Typed, Worlds
  <2>5. Shut(v, w, s)
    BY <2>1, <2>2, <2>3 DEF Typed, Worlds, Shut
  <2> QED BY <2>4, <2>5 DEF Typed
<1> QED BY <1>1, <1>2

\* Shutting a socket keeps every part of the invariant.
LEMMA ShutKeeps ==
  ASSUME NEW a, NEW v, NEW w, NEW s, Shut(v, w, s), Typed(w, a), Typed(v, a)
  PROVE  /\ AtRest(w) => AtRest(v)
         /\ Used(w) => Used(v)
         /\ Gateway(w) => Gateway(v)
         /\ Fed(w, a) => Fed(v, a)
         /\ Flushed(w) => Flushed(v)
         /\ Relay(w) => Relay(v)
         /\ Pursued(w) => Pursued(v)
         /\ Started(w) => Started(v)
<1>1. /\ v.rt = w.rt /\ v.given = w.given /\ v.spent = w.spent /\ v.alone = w.alone
      /\ \A t \in Sockets :
           /\ v.sock[t] = "open" => w.sock[t] = "open"
           /\ v.sock[t] = "free" <=> w.sock[t] = "free"
           /\ v.sock[t] \in Unopened => w.sock[t] \in Unopened
  BY DEF Shut
<1>2. /\ w.rt.relaySocket \in RelaySockets \cup {None}
      /\ w.rt.gatewaySocket \in GatewaySockets \cup {None}
  BY DEF Typed, Worlds, Runtime
<1>3. /\ IsRelayOpen(v) => IsRelayOpen(w)
      /\ IsGatewayOpen(v) => IsGatewayOpen(w)
      /\ ShouldKeepGateway(v) <=> ShouldKeepGateway(w)
  BY <1>1, <1>2, SocketsApart
     DEF IsRelayOpen, IsGatewayOpen, IsOpen, ShouldKeepGateway
<1>4. AtRest(w) => AtRest(v)
  BY <1>1 DEF AtRest
<1>5. Used(w) => Used(v)
  BY <1>1 DEF Used
<1>6. Gateway(w) => Gateway(v)
  BY <1>1, <1>3, SocketsApart DEF Gateway
<1>7. Fed(w, a) => Fed(v, a)
  BY <1>1, SocketsApart DEF Fed, Unopened
<1>8. Flushed(w) => Flushed(v)
  BY <1>1, <1>3 DEF Flushed
<1>9. Relay(w) => Relay(v)
  BY <1>1, SocketsApart DEF Relay
<1>10. Pursued(w) => Pursued(v)
  BY <1>1, <1>3 DEF Pursued
<1>11. Started(w) => Started(v)
  BY <1>1, <1>3 DEF Started
<1> QED BY <1>4, <1>5, <1>6, <1>7, <1>8, <1>9, <1>10, <1>11

\* Asking for the gateway finds it on its way, or creates a socket to it; it is
\* pursued afterwards, and nothing else changes.
LEMMA EnsureGatewayIs ==
  ASSUME NEW a, NEW w, Sound(w, a), NEW v, v = EnsureGateway(w), ~v.full
  PROVE  /\ Sound(v, a) /\ Pursued(v) /\ Aside(v, w)
         /\ Started(w) => Started(v)
         /\ w.rt.stopped => v = w
         /\ ~IsGatewayOpen(w) => ~IsGatewayOpen(v)
         /\ ~v.rt.stopped /\ IsRelayOpen(v) => v.rt.gatewaySocket # None
<1>0. /\ w.rt \in Runtime /\ Typed(w, a)
      /\ w.rt.relaySocket \in RelaySockets \cup {None}
      /\ w.rt.gatewaySocket \in GatewaySockets \cup {None}
  BY DEF Sound, Typed, Worlds, Runtime
<1>1. CASE v = w
  <2>1. ~w.rt.stopped /\ IsRelayOpen(w) => w.rt.gatewaySocket # None
    <3>1. SUFFICES ASSUME ~w.rt.stopped, IsRelayOpen(w), w.rt.gatewaySocket = None
                   PROVE  FALSE
      OBVIOUS
    <3>2. ~w.rt.gatewayConnecting /\ ~w.rt.closeBoundary /\ ~IsGatewayOpen(w)
      BY <3>1 DEF Sound, Gateway, IsGatewayOpen, IsOpen
    <3>3. v = [w EXCEPT !.full = TRUE] \/ \E s : v.rt.gatewaySocket = s /\ s # None
      <4>1. CASE Free(w, GatewaySockets) = {}
        BY <3>1, <3>2, <4>1 DEF EnsureGateway
      <4>2. CASE Free(w, GatewaySockets) # {}
        <5> DEFINE s == CHOOSE s \in GatewaySockets : w.sock[s] = "free"
        <5>1. s \in GatewaySockets
          BY <4>2 DEF Free
        <5> HIDE DEF s
        <5>2. v = [w EXCEPT !.sock[s] = "connecting", !.given[s] = <<>>,
                     !.rt.gatewaySocket = s, !.rt.gatewayConnecting = TRUE,
                     !.alone = Free(w, GatewaySockets) = GatewaySockets]
          BY <3>1, <3>2, <4>2 DEF EnsureGateway, s
        <5>3. v.rt = [w.rt EXCEPT !.gatewaySocket = s, !.gatewayConnecting = TRUE]
          BY <5>2, <1>0 DEF Typed, Worlds
        <5>4. v.rt.gatewaySocket = s
          BY <5>3, <1>0 DEF Runtime
        <5> QED BY <5>1, <5>4, SocketsApart
      <4> QED BY <4>1, <4>2
    <3>4. v.full = TRUE \/ v.rt.gatewaySocket # None
      BY <3>3, <1>0 DEF Typed, Worlds
    <3> QED BY <3>1, <3>4, <1>1
  <2>2. Aside(v, w)
    BY <1>1 DEF Aside
  <2>3. Pursued(w)
    BY <2>1 DEF Pursued
  <2> QED BY <1>1, <2>1, <2>2, <2>3
<1>2. CASE v # w
  <2>1. /\ ~w.rt.stopped /\ IsRelayOpen(w) /\ ~w.rt.gatewayConnecting
        /\ ~IsGatewayOpen(w) /\ ~w.rt.closeBoundary
    BY <1>2 DEF EnsureGateway
  <2>2. Free(w, GatewaySockets) # {}
    <3>1. [w EXCEPT !.full = TRUE].full = TRUE
      BY <1>0 DEF Typed, Worlds
    <3> QED BY <2>1, <3>1 DEF EnsureGateway
  <2> DEFINE s == CHOOSE s \in GatewaySockets : w.sock[s] = "free"
             solitary == Free(w, GatewaySockets) = GatewaySockets
  <2>3. s \in GatewaySockets /\ w.sock[s] = "free"
    BY <2>2 DEF Free
  <2>4. v = [w EXCEPT !.sock[s] = "connecting", !.given[s] = <<>>,
               !.rt.gatewaySocket = s, !.rt.gatewayConnecting = TRUE,
               !.alone = solitary]
    BY <2>1, <2>2 DEF EnsureGateway
  <2>5. solitary \in BOOLEAN /\ (solitary => \A t \in GatewaySockets : w.sock[t] = "free")
    BY DEF Free
  <2> HIDE DEF s, solitary
  <2>6. /\ v.sock = [w.sock EXCEPT ![s] = "connecting"]
        /\ v.given = [w.given EXCEPT ![s] = <<>>]
        /\ v.spent = w.spent /\ v.alone = solitary /\ v.full = w.full
        /\ v.rt = [w.rt EXCEPT !.gatewaySocket = s, !.gatewayConnecting = TRUE]
        /\ v = [sock |-> v.sock, rt |-> v.rt, given |-> v.given, spent |-> v.spent,
                alone |-> v.alone, full |-> v.full]
    BY <2>4, <1>0 DEF Typed, Worlds
  <2>7. w.given[s] = <<>> /\ v.given = w.given
    BY <2>3, <2>6, <1>0 DEF Sound, Fed, Typed, Worlds
  <2>8. /\ v.rt.gatewaySocket = s /\ v.rt.gatewayConnecting = TRUE
        /\ v.rt.pending = w.rt.pending /\ v.rt.clientCount = w.rt.clientCount
        /\ v.rt.stopped = w.rt.stopped /\ v.rt.reconnectTimer = w.rt.reconnectTimer
        /\ v.rt.relaySocket = w.rt.relaySocket
        /\ v.rt.relayConnecting = w.rt.relayConnecting
        /\ v.rt.closeBoundary = w.rt.closeBoundary
        /\ v.rt.gatewayRetryTimer = w.rt.gatewayRetryTimer
    BY <2>6, <1>0 DEF Runtime
  <2>9. /\ v.sock[s] = "connecting"
        /\ \A t \in Sockets : t # s => v.sock[t] = w.sock[t]
        /\ v.sock \in [Sockets -> SocketStates]
    BY <2>3, <2>6, <1>0, SocketsApart DEF Typed, Worlds, SocketStates
  <2>10. ~IsGatewayOpen(v) /\ s # None
    BY <2>3, <2>8, <2>9, SocketsApart DEF IsGatewayOpen, IsOpen
  <2>11. v.rt \in Runtime
    BY <2>3, <2>6, <1>0 DEF Runtime
  <2>12. Typed(v, a)
    BY <2>5, <2>6, <2>7, <2>8, <2>9, <2>11 DEF Sound, Typed, Worlds
  <2>13. AtRest(v)
    BY <2>1, <2>8 DEF AtRest
  <2>14. Used(v)
    <3>1. ASSUME NEW t \in Sockets, v.sock[t] = "open"
          PROVE  t = v.rt.relaySocket
      <4>1. t # s /\ w.sock[t] = "open"
        BY <2>9, <3>1
      <4>2. t # w.rt.gatewaySocket
        BY <2>1, <4>1, SocketsApart DEF IsGatewayOpen, IsOpen
      <4> QED BY <4>1, <4>2, <2>8 DEF Sound, Used
    <3> QED BY <3>1 DEF Used
  <2>15. Gateway(v)
    BY <2>1, <2>5, <2>6, <2>8, <2>9, <2>10, SocketsApart DEF Gateway
  <2>16. Fed(v, a)
    BY <2>6, <2>7, <2>9, SocketsApart DEF Sound, Fed
  <2>17. Flushed(v) /\ Started(v)
    BY <2>10 DEF Flushed, Started
  <2>18. Pursued(v)
    BY <2>8, <2>10 DEF Pursued
  <2>19. Aside(v, w)
    BY <2>1, <2>3, <2>6, <2>7, <2>8, <2>9, SocketsApart DEF Aside
  <2>20. Queued(v.rt.pending, a, v.spent)
    BY <2>6, <2>8 DEF Sound
  <2> QED BY <2>1, <2>8, <2>10, <2>12, <2>13, <2>14, <2>15, <2>16, <2>17, <2>18, <2>19, <2>20 DEF Sound
<1> QED BY <1>1, <1>2

\* Closing the gateway ends its session, and with a boundary starts the next
\* when there is no socket whose close event will.
LEMMA CloseGatewayIs ==
  ASSUME NEW a, NEW w, Sound(w, a), NEW again \in BOOLEAN,
         NEW v, v = CloseGateway(w, again),
         v.full => ~again \/ w.rt.gatewaySocket # None
  PROVE  /\ Sound(v, a) /\ Aside(v, w) /\ Started(v)
         /\ ~again \/ w.rt.gatewaySocket # None => v.full = w.full
         /\ w.rt.gatewaySocket # None => Pursued(v) /\ ~IsGatewayOpen(v)
<1>0. /\ w.rt \in Runtime /\ Typed(w, a)
      /\ w.rt.gatewaySocket \in GatewaySockets \cup {None}
  BY DEF Sound, Typed, Worlds, Runtime
<1> DEFINE boundary == again /\ IsRelayOpen(w) /\ ShouldKeepGateway(w)
           x == [EndSession(w) EXCEPT !.rt.closeBoundary = boundary]
           u == [x EXCEPT !.rt.closeBoundary = FALSE, !.rt.gatewayConnecting = FALSE]
<1>1. boundary \in BOOLEAN /\ (boundary => again)
  BY DEF IsRelayOpen, IsOpen, ShouldKeepGateway
<1>2. v = IF w.rt.gatewaySocket # None THEN CloseSocket(x, w.rt.gatewaySocket)
          ELSE IF boundary THEN EnsureGateway(u) ELSE u
  BY DEF CloseGateway
<1> HIDE DEF boundary
<1>3. /\ x.rt = [w.rt EXCEPT !.gatewayRetryTimer = FALSE, !.handshakeStarted = FALSE,
                             !.closeBoundary = boundary]
      /\ x = [w EXCEPT !.rt = x.rt]
  BY <1>0 DEF EndSession, Typed, Worlds
<1>4. /\ u.rt = [x.rt EXCEPT !.closeBoundary = FALSE, !.gatewayConnecting = FALSE]
      /\ u = [x EXCEPT !.rt = u.rt]
  BY <1>0, <1>3 DEF Typed, Worlds
<1> HIDE DEF x, u
<1>5. /\ x.rt \in Runtime
      /\ x.rt.gatewaySocket = w.rt.gatewaySocket /\ x.rt.pending = w.rt.pending
      /\ x.rt.gatewayConnecting = w.rt.gatewayConnecting
      /\ x.rt.clientCount = w.rt.clientCount /\ x.rt.stopped = w.rt.stopped
      /\ x.rt.reconnectTimer = w.rt.reconnectTimer
      /\ x.rt.relaySocket = w.rt.relaySocket
      /\ x.rt.relayConnecting = w.rt.relayConnecting
      /\ ~x.rt.gatewayRetryTimer /\ ~x.rt.handshakeStarted
      /\ x.rt.closeBoundary = boundary
  BY <1>0, <1>1, <1>3 DEF Runtime
<1>6. /\ x.sock = w.sock /\ x.given = w.given /\ x.spent = w.spent
      /\ x.alone = w.alone /\ x.full = w.full /\ x \in Worlds
  BY <1>0, <1>3, <1>5 DEF Typed, Worlds
<1>7. Typed(x, a)
  BY <1>0, <1>5, <1>6 DEF Typed
<1>8. AtRest(x) /\ Used(x) /\ Fed(x, a) /\ Queued(x.rt.pending, a, x.spent)
  BY <1>5, <1>6 DEF Sound, AtRest, Used, Fed
<1>9. Aside(x, w)
  BY <1>5, <1>6 DEF Aside
<1>10. CASE w.rt.gatewaySocket # None
  <2>1. Typed(v, a) /\ Shut(v, x, w.rt.gatewaySocket)
    BY <1>0, <1>2, <1>7, <1>10, CloseSocketIs, SocketsApart
  <2>2. AtRest(v) /\ Used(v) /\ Fed(v, a)
    BY <2>1, <1>7, <1>8, ShutKeeps
  <2>3. Queued(v.rt.pending, a, v.spent)
    BY <2>1, <1>8 DEF Shut
  <2>4. ~IsGatewayOpen(v)
    BY <2>1, <1>0, <1>5, SocketsApart DEF Shut, IsGatewayOpen, IsOpen
  <2>5. Flushed(v) /\ Started(v)
    BY <2>4 DEF Flushed, Started
  <2>6. Pursued(v)
    BY <2>1, <1>5, <1>10 DEF Pursued, Shut
  <2>7. Gateway(v)
    <3>1. v.rt = x.rt /\ v.alone = w.alone
          /\ \A t \in GatewaySockets : v.sock[t] = "free" <=> w.sock[t] = "free"
      BY <2>1, <1>6, SocketsApart DEF Shut
    <3> QED BY <3>1, <2>4, <1>5, <1>10 DEF Sound, Gateway
  <2>8. Aside(v, w)
    <3>1. \A s \in RelaySockets : v.sock[s] = x.sock[s]
      BY <2>1, <1>0, <1>10, SocketsApart DEF Shut
    <3>2. \A s \in Sockets : v.sock[s] = "free" <=> x.sock[s] = "free"
      BY <2>1 DEF Shut
    <3> QED BY <3>1, <3>2, <2>1, <1>9 DEF Shut, Aside
  <2>9. v.full = w.full
    BY <2>1, <1>6 DEF Shut
  <2> QED BY <2>1, <2>2, <2>3, <2>4, <2>5, <2>6, <2>7, <2>8, <2>9 DEF Sound
<1>11. CASE w.rt.gatewaySocket = None
  <2>1. /\ u.rt \in Runtime
        /\ u.rt.gatewaySocket = None /\ u.rt.pending = w.rt.pending
        /\ u.rt.clientCount = w.rt.clientCount /\ u.rt.stopped = w.rt.stopped
        /\ u.rt.reconnectTimer = w.rt.reconnectTimer
        /\ u.rt.relaySocket = w.rt.relaySocket
        /\ u.rt.relayConnecting = w.rt.relayConnecting
        /\ ~u.rt.gatewayRetryTimer /\ ~u.rt.handshakeStarted
        /\ ~u.rt.closeBoundary /\ ~u.rt.gatewayConnecting
    BY <1>4, <1>5, <1>11 DEF Runtime
  <2>2. /\ u.sock = w.sock /\ u.given = w.given /\ u.spent = w.spent
        /\ u.alone = w.alone /\ u.full = w.full /\ u \in Worlds
    BY <1>4, <1>6, <2>1 DEF Worlds
  <2>3. Typed(u, a)
    BY <1>0, <2>1, <2>2 DEF Typed
  <2>4. ~IsGatewayOpen(u)
    BY <2>1 DEF IsGatewayOpen, IsOpen
  <2>5. Sound(u, a)
    <3>1. AtRest(u) /\ Used(u) /\ Gateway(u)
      BY <2>1, <2>2, <1>11 DEF Sound, AtRest, Used, Gateway
    <3>2. Fed(u, a)
      BY <2>2 DEF Sound, Fed
    <3>3. Flushed(u)
      BY <2>4 DEF Flushed
    <3>4. Queued(u.rt.pending, a, u.spent)
      BY <2>1, <2>2 DEF Sound
    <3> QED BY <2>3, <3>1, <3>2, <3>3, <3>4 DEF Sound
  <2>6. Aside(u, w) /\ Started(u)
    BY <2>1, <2>2, <2>4 DEF Aside, Started
  <2>7. CASE boundary
    <3>1. v = EnsureGateway(u) /\ again /\ ~v.full
      BY <1>1, <1>2, <1>11, <2>7
    <3>2. Sound(v, a) /\ Pursued(v) /\ Aside(v, u) /\ Started(v)
      BY <3>1, <2>5, <2>6, EnsureGatewayIs
    <3>3. Aside(v, w)
      BY <3>2, <2>6 DEF Aside
    <3> QED BY <3>1, <3>2, <3>3, <1>11
  <2>8. CASE ~boundary
    <3>1. v = u
      BY <1>2, <1>11, <2>8
    <3> QED BY <3>1, <2>2, <2>5, <2>6, <1>11
  <2> QED BY <2>7, <2>8
<1> QED BY <1>10, <1>11

\* v is w after the messages of q were sent on the gateway socket c.
Gives(v, w, c, q) ==
  /\ v \in Worlds /\ v.rt = w.rt /\ v.sock = w.sock
  /\ v.alone = w.alone /\ v.full = w.full
  /\ v.given[c] = w.given[c] \o [i \in DOMAIN q |-> q[i].at]
  /\ \A d \in GatewaySockets \ {c} : v.given[d] = w.given[d]
  /\ v.spent = w.spent \cup {q[i].at : i \in DOMAIN q}

\* What is given to the open gateway socket is added to what it was given.
LEMMA GiveIs ==
  ASSUME NEW w \in Worlds, NEW q \in Seq(Message),
         NEW c, w.rt.gatewaySocket = c, c # None
  PROVE  Gives(Give(w, q), w, c, q)
<1> DEFINE v == Give(w, q)
<1> DEFINE numbers == [i \in DOMAIN q |-> q[i].at]
<1>1. c \in GatewaySockets
  BY DEF Worlds, Runtime
<1>2. /\ numbers \in Seq(1..MaxFrames) /\ DOMAIN numbers = DOMAIN q
      /\ \A i \in DOMAIN q : q[i].at \in 1..MaxFrames
  <2>1. DOMAIN q = 1..Len(q) /\ Len(q) \in Nat /\ \A i \in DOMAIN q : q[i] \in Message
    OBVIOUS
  <2>2. \A i \in DOMAIN q : q[i].at \in 1..MaxFrames
    BY <2>1 DEF Message
  <2> QED BY <2>1, <2>2
<1>3. {numbers[i] : i \in DOMAIN numbers} = {q[i].at : i \in DOMAIN q}
  BY <1>2
<1>4. {q[i].at : i \in DOMAIN q} \subseteq 1..MaxFrames
  BY <1>2
<1> HIDE DEF numbers
<1>5. v = [w EXCEPT !.given[c] = w.given[c] \o numbers,
                    !.spent = w.spent \cup {q[i].at : i \in DOMAIN q}]
  BY <1>1, <1>3 DEF Give, Worlds, numbers
<1>6. w.given[c] \o numbers \in Seq(1..MaxFrames)
  BY <1>1, <1>2 DEF Worlds
<1>7. /\ v.given = [w.given EXCEPT ![c] = w.given[c] \o numbers]
      /\ v.spent = w.spent \cup {q[i].at : i \in DOMAIN q}
      /\ v.rt = w.rt /\ v.sock = w.sock /\ v.alone = w.alone /\ v.full = w.full
      /\ v = [sock |-> v.sock, rt |-> v.rt, given |-> v.given, spent |-> v.spent,
              alone |-> v.alone, full |-> v.full]
  BY <1>5 DEF Worlds
<1>8. v \in Worlds
  BY <1>1, <1>4, <1>6, <1>7 DEF Worlds
<1>9. /\ v.given[c] = w.given[c] \o numbers
      /\ \A d \in GatewaySockets \ {c} : v.given[d] = w.given[d]
  BY <1>1, <1>7 DEF Worlds
<1> QED BY <1>7, <1>8, <1>9 DEF numbers, Gives

\* A queue of n messages whose numbers are added in their order to a sequence
\* of smaller ones.
LEMMA IncreasingConcat ==
  ASSUME NEW s \in Seq(1..MaxFrames), NEW t \in Seq(1..MaxFrames),
         Channel!Increasing(s), Channel!Increasing(t),
         \A i \in DOMAIN s, j \in DOMAIN t : s[i] < t[j]
  PROVE  Channel!Increasing(s \o t)
<1> DEFINE r == s \o t
<1>1. /\ Len(s) \in Nat /\ Len(t) \in Nat
      /\ DOMAIN s = 1..Len(s) /\ DOMAIN t = 1..Len(t)
      /\ DOMAIN r = 1..(Len(s) + Len(t))
      /\ \A i \in 1..Len(s) : r[i] = s[i]
      /\ \A i \in (Len(s) + 1)..(Len(s) + Len(t)) : r[i] = t[i - Len(s)]
  OBVIOUS
<1> HIDE DEF r
<1>2. ASSUME NEW i \in DOMAIN r, NEW j \in DOMAIN r, i < j
      PROVE  r[i] < r[j]
  <2>1. CASE j <= Len(s)
    BY <1>1, <1>2, <2>1 DEF Channel!Increasing
  <2>2. CASE i <= Len(s) /\ j > Len(s)
    <3>1. i \in DOMAIN s /\ j - Len(s) \in DOMAIN t
      BY <1>1, <2>2
    <3> QED BY <1>1, <2>2, <3>1
  <2>3. CASE i > Len(s)
    <3>1. /\ i - Len(s) \in DOMAIN t /\ j - Len(s) \in DOMAIN t
          /\ i - Len(s) < j - Len(s) /\ r[i] = t[i - Len(s)] /\ r[j] = t[j - Len(s)]
      BY <1>1, <1>2, <2>3
    <3> QED BY <3>1 DEF Channel!Increasing
  <2>4. i \in Nat /\ j \in Nat
    BY <1>1
  <2> QED BY <1>1, <2>1, <2>2, <2>3, <2>4
<1> QED BY <1>2 DEF Channel!Increasing, r

\* Where in a deduped queue a flush before the handshake begins to send, what
\* it leaves waiting and what it sends.
FlushFrom(q) == IF ConnectRequests(q) = {} THEN Len(q) + 1 ELSE LatestConnect(q)
Left(q) == SubSeq(Dedupe(q), 1, FlushFrom(Dedupe(q)) - 1)
Flush(q) == SubSeq(Dedupe(q), FlushFrom(Dedupe(q)), Len(Dedupe(q)))

\* What opening the gateway sends of a queue: from its latest connect on, all
\* of it not given before; what waits on has no connect.
LEMMA FlushSplit ==
  ASSUME NEW q0 \in Seq(Message), NEW a, NEW g, Queued(q0, a, g)
  PROVE  /\ Left(q0) \in Seq(Message) /\ Len(Left(q0)) <= Len(q0)
         /\ ConnectRequests(Left(q0)) = {}
         /\ Flush(q0) \in Seq(Message)
         /\ Queued(Flush(q0), a, g)
         /\ Queued(Left(q0), a, g \cup {Flush(q0)[i].at : i \in DOMAIN Flush(q0)})
         /\ FlushFrom(Dedupe(q0)) <= Len(Dedupe(q0)) <=> Flush(q0) # <<>>
         /\ Flush(q0) # <<>> => 1 \in DOMAIN Flush(q0) /\ Flush(q0)[1].kind = "connect"
         /\ ConnectRequests(q0) # {} =>
              1 \in DOMAIN Flush(q0) /\ Flush(q0)[1] = q0[LatestConnect(q0)]
<1> DEFINE q == Dedupe(q0)
           from == FlushFrom(q)
           front == Left(q0)
           back == Flush(q0)
<1>0. front = SubSeq(q, 1, from - 1) /\ back = SubSeq(q, from, Len(q))
  BY DEF Left, Flush
<1>1. /\ q \in Seq(Message) /\ Len(q) <= Len(q0) /\ Len(q0) \in Nat
      /\ Len(q) \in Nat /\ DOMAIN q = 1..Len(q)
  BY DedupeIs
<1>2. Queued(q, a, g)
  BY <1>1, DedupeIs, QueuedPart
<1> HIDE DEF front, back
<1>3. ConnectRequests(q) # {} => ConnectRequests(q) = {from} /\ from \in 1..Len(q)
  <2>1. ConnectRequests(q0) = {} => ConnectRequests(q) = {}
    BY DedupeIs
  <2>2. ConnectRequests(q0) # {} => ConnectRequests(q) = {LatestConnect(q)}
    BY DedupeIs
  <2>3. ConnectRequests(q) # {} => LatestConnect(q) \in 1..Len(q)
    BY <1>1, LatestIs
  <2> QED BY <2>1, <2>2, <2>3 DEF FlushFrom
<1>4. /\ from \in 1..(Len(q) + 1) /\ from - 1 \in 0..Len(q)
      /\ ConnectRequests(q) = {} => from = Len(q) + 1
  BY <1>1, <1>3 DEF FlushFrom
<1> HIDE DEF q, from
<1>5. /\ front \in Seq(Message) /\ Len(front) <= Len(q) /\ Queued(front, a, g)
  <2>1. 1 \in 1..(Len(q) + 1)
    BY <1>1
  <2> QED BY <1>0, <1>1, <1>2, <1>4, <2>1, QueuedSubSeq
<1>6. /\ back \in Seq(Message) /\ Queued(back, a, g)
  BY <1>0, <1>1, <1>2, <1>4, QueuedSubSeq
<1>7. /\ DOMAIN front = 1..(from - 1) /\ \A i \in DOMAIN front : front[i] = q[i]
  BY <1>0, <1>1, <1>4
<1>8. /\ Len(back) = Len(q) + 1 - from /\ DOMAIN back = 1..(Len(q) + 1 - from)
      /\ \A i \in DOMAIN back : back[i] = q[from + i - 1]
  BY <1>0, <1>1, <1>4
<1>9. ConnectRequests(front) = {}
  <2>1. SUFFICES ASSUME NEW i \in DOMAIN front, IsConnect(front[i]) PROVE FALSE
    BY DEF ConnectRequests
  <2>2. i \in DOMAIN q /\ IsConnect(q[i]) /\ i # from
    BY <1>1, <1>4, <1>7, <2>1
  <2> QED BY <1>3, <2>2 DEF ConnectRequests
<1>10. ASSUME NEW i \in DOMAIN front, NEW j \in DOMAIN back
       PROVE  front[i].at # back[j].at
  <2>1. /\ i \in DOMAIN q /\ from + j - 1 \in DOMAIN q /\ i < from + j - 1
        /\ front[i] = q[i] /\ back[j] = q[from + j - 1]
    <3>1. i \in 1..(from - 1) /\ front[i] = q[i]
      BY <1>7
    <3>2. j \in 1..(Len(q) + 1 - from) /\ back[j] = q[from + j - 1]
      BY <1>8
    <3>3. \A n \in Nat : \A f \in 1..(n + 1) :
            \A k \in 1..(f - 1), l \in 1..(n + 1 - f) :
              k \in 1..n /\ f + l - 1 \in 1..n /\ k < f + l - 1
      OBVIOUS
    <3> QED BY <1>1, <1>4, <3>1, <3>2, <3>3
  <2>2. q[i].at < q[from + j - 1].at
    BY <1>2, <2>1 DEF Queued
  <2>3. q[i].at \in Int
    <3>1. q[i] \in Message
      BY <1>1, <2>1
    <3> QED BY <3>1 DEF Message
  <2>4. \A x \in Int : \A y : x < y => x # y
    OBVIOUS
  <2>5. q[i].at # q[from + j - 1].at
    BY <2>2, <2>3, <2>4
  <2> QED BY <2>1, <2>5
<1>11. Queued(front, a, g \cup {back[i].at : i \in DOMAIN back})
  <2>1. \A i \in DOMAIN front : front[i].at \notin {back[j].at : j \in DOMAIN back}
    BY <1>10
  <2>2. /\ \A i, j \in DOMAIN front : i < j => front[i].at < front[j].at
        /\ \A i \in DOMAIN front :
             front[i].at \in (DOMAIN a) \ g /\ a[front[i].at] = front[i].kind
    BY <1>5 DEF Queued
  <2> QED BY <2>1, <2>2 DEF Queued
<1>12. from <= Len(q) <=> back # <<>>
  <2>1. Len(back) = Len(q) + 1 - from /\ Len(back) \in Nat
    BY <1>6, <1>8
  <2>2. back # <<>> <=> Len(back) # 0
    <3>1. \A b \in Seq(Message) : b # <<>> <=> Len(b) # 0
      OBVIOUS
    <3> QED BY <1>6, <3>1
  <2>3. from \in Nat
    BY <1>1, <1>4
  <2> QED BY <1>1, <2>1, <2>2, <2>3
<1>13. ASSUME ConnectRequests(q) # {}
       PROVE  1 \in DOMAIN back /\ back[1] = q[from] /\ back[1].kind = "connect"
  <2>1. 1 \in DOMAIN back /\ from + 1 - 1 = from
    BY <1>1, <1>3, <1>8, <1>13
  <2>2. back[1] = q[from]
    BY <1>8, <2>1
  <2>3. from \in ConnectRequests(q)
    BY <1>3, <1>13
  <2> QED BY <2>1, <2>2, <2>3 DEF ConnectRequests, IsConnect
<1>14. ConnectRequests(q) = {} => back = <<>>
  <2>1. ConnectRequests(q) = {} => ~ (from <= Len(q))
    BY <1>1, <1>4
  <2> QED BY <1>12, <2>1
<1>15. ASSUME ConnectRequests(q0) # {}
       PROVE  ConnectRequests(q) # {} /\ q[from] = q0[LatestConnect(q0)]
  <2>1. ConnectRequests(q) = {LatestConnect(q)} /\ q[LatestConnect(q)] = q0[LatestConnect(q0)]
    BY <1>15, DedupeIs DEF q
  <2> QED BY <2>1, <1>3
<1>16. Len(front) <= Len(q0)
  <2>1. Len(front) \in Nat
    BY <1>5
  <2> QED BY <1>1, <1>5, <2>1
<1> QED BY <1>5, <1>6, <1>9, <1>11, <1>12, <1>13, <1>14, <1>15, <1>16
  DEF front, back, q, from

\* v is w with the frame of that kind that arrives after a in its queue.
Pushed(v, w, kind, a) ==
  /\ Typed(v, Append(a, kind))
  /\ v.rt = [w.rt EXCEPT !.pending = v.rt.pending]
  /\ v.sock = w.sock /\ v.given = w.given /\ v.spent = w.spent
  /\ v.alone = w.alone /\ v.full = w.full
  /\ Queued(v.rt.pending, Append(a, kind), v.spent)
  /\ kind = "data" /\ ConnectRequests(w.rt.pending) = {} =>
       ConnectRequests(v.rt.pending) = {}
  /\ Len(w.rt.pending) < MaxPending =>
       WaitingConnects(w.rt.pending) \subseteq WaitingConnects(v.rt.pending)

\* A frame pushed on the queue of earlier ones.
LEMMA PushIs ==
  ASSUME NEW a, NEW w, Typed(w, a), NEW kind \in Kinds, Len(a) < MaxFrames,
         Queued(w.rt.pending, a, w.spent), w.spent \subseteq DOMAIN a,
         NEW v, v = Push(w, [kind |-> kind, at |-> Len(a) + 1])
  PROVE  Pushed(v, w, kind, a)
<1> DEFINE m == [kind |-> kind, at |-> Len(a) + 1]
           q == w.rt.pending
           kept == IF Len(q) >= MaxPending THEN Tail(q) ELSE q
           p == Append(kept, m)
<1>0. /\ w \in Worlds /\ q \in Seq(Message) /\ Len(q) <= MaxPending /\ a \in Seq(Kinds)
      /\ Len(q) \in Nat /\ MaxPending \in Nat \ {0} /\ w.rt \in Runtime
  BY BoundsAssumption DEF Typed, Worlds, Runtime
<1>1. /\ kept \in Seq(Message) /\ Queued(kept, a, w.spent) /\ Len(kept) < MaxPending
      /\ \A i \in DOMAIN kept : \E j \in DOMAIN q : kept[i] = q[j]
  <2>1. CASE Len(q) >= MaxPending
    <3>1. /\ Tail(q) = SubSeq(q, 2, Len(q)) /\ 2 \in 1..(Len(q) + 1)
          /\ Len(q) \in 0..Len(q)
      BY <1>0, <2>1
    <3>2. Tail(q) \in Seq(Message) /\ Queued(Tail(q), a, w.spent)
      BY <1>0, <3>1, QueuedSubSeq
    <3>3. /\ Len(Tail(q)) = Len(q) - 1
          /\ \A i \in DOMAIN Tail(q) : i + 1 \in DOMAIN q /\ Tail(q)[i] = q[i + 1]
      BY <1>0, <2>1
    <3> QED BY <1>0, <2>1, <3>2, <3>3
  <2>2. CASE ~ (Len(q) >= MaxPending)
    BY <1>0, <2>2
  <2> QED BY <2>1, <2>2
<1>2. /\ m \in Message
      /\ Queued(p, Append(a, kind), w.spent)
  BY <1>0, <1>1, QueuedAppend
<1>3. v = [w EXCEPT !.rt = [w.rt EXCEPT !.pending = p]]
  BY <1>0 DEF Push, Worlds, Runtime
<1> HIDE DEF kept, m
<1>4. /\ p \in Seq(Message) /\ Len(p) = Len(kept) + 1 /\ Len(kept) \in Nat
      /\ DOMAIN p = 1..(Len(kept) + 1) /\ DOMAIN kept = 1..Len(kept)
      /\ p[Len(kept) + 1] = m /\ \A i \in DOMAIN kept : p[i] = kept[i]
  BY <1>1, <1>2
<1> HIDE DEF p
<1>5. [w.rt EXCEPT !.pending = p] \in Runtime
  BY <1>0, <1>4 DEF Runtime
<1>6. /\ v.rt = [w.rt EXCEPT !.pending = p] /\ v.sock = w.sock /\ v.given = w.given
      /\ v.spent = w.spent /\ v.alone = w.alone /\ v.full = w.full /\ v \in Worlds
  BY <1>0, <1>3, <1>5 DEF Worlds
<1>7. v.rt.pending = p
  BY <1>0, <1>6 DEF Runtime
<1>8. Append(a, kind) \in Seq(Kinds)
  BY <1>0
<1>9. Typed(v, Append(a, kind))
  <2>1. Len(p) <= MaxPending
    BY <1>0, <1>1, <1>4
  <2> QED BY <1>6, <1>7, <1>8, <2>1 DEF Typed
<1>10. ASSUME kind = "data", ConnectRequests(q) = {}
       PROVE  ConnectRequests(p) = {}
  <2>1. SUFFICES ASSUME NEW i \in DOMAIN p, IsConnect(p[i]) PROVE FALSE
    BY DEF ConnectRequests
  <2>2. CASE i \in DOMAIN kept
    <3>1. PICK j \in DOMAIN q : p[i] = q[j]
      BY <1>1, <1>4, <2>2
    <3> QED BY <1>10, <2>1, <3>1 DEF ConnectRequests
  <2>3. CASE i \notin DOMAIN kept
    <3>1. p[i] = m
      BY <1>4, <2>3
    <3> QED BY <1>10, <2>1, <3>1 DEF m, IsConnect
  <2> QED BY <2>2, <2>3
<1>11. ASSUME Len(q) < MaxPending
       PROVE  WaitingConnects(q) \subseteq WaitingConnects(p)
  <2>1. kept = q
    BY <1>0, <1>11 DEF kept
  <2>2. \A i \in ConnectRequests(q) : i \in ConnectRequests(p) /\ p[i] = q[i]
    BY <1>4, <2>1 DEF ConnectRequests
  <2> QED BY <2>2 DEF WaitingConnects
<1> QED BY <1>2, <1>6, <1>7, <1>9, <1>10, <1>11 DEF Pushed

\* v is w with what its queue held from the latest connect on given to s.
Ready(v, w, s, a) ==
  /\ Sound(v, a) /\ Pursued(v) /\ Started(v)
  /\ v.sock = w.sock /\ v.full = w.full /\ ~v.rt.stopped
  /\ v.rt.reconnectTimer = w.rt.reconnectTimer
  /\ v.rt.relaySocket = w.rt.relaySocket
  /\ v.rt.relayConnecting = w.rt.relayConnecting
  /\ \A t \in GatewaySockets \ {s} : v.given[t] = w.given[t]
  /\ v.spent = w.spent \cup Channel!ToSet(v.given[s])
  /\ Channel!ToSet(v.given[s]) \subseteq (DOMAIN a) \ w.spent
  /\ v.given[s] # <<>> => a[v.given[s][1]] = "connect"
  /\ ConnectRequests(w.rt.pending) # {} =>
       w.rt.pending[LatestConnect(w.rt.pending)].at \in v.spent

\* The gateway opens: its session is fed the queue from the latest connect on.
LEMMA GatewayReadyIs ==
  ASSUME NEW a, NEW w, Typed(w, a), Used(w), Fed(w, a), ~w.rt.stopped,
         Queued(w.rt.pending, a, w.spent),
         NEW s \in GatewaySockets, w.rt.gatewaySocket = s,
         w.sock[s] = "open", w.given[s] = <<>>,
         w.alone => \A t \in GatewaySockets \ {s} : w.sock[t] = "free"
  PROVE  Ready(GatewayReady(w), w, s, a)
<1> DEFINE v == GatewayReady(w)
<1>0. /\ w \in Worlds /\ w.rt \in Runtime /\ w.rt.pending \in Seq(Message)
      /\ Len(w.rt.pending) <= MaxPending /\ s # None
  BY SocketsApart DEF Typed, Worlds, Runtime
<1> DEFINE y == [w EXCEPT !.rt.gatewayConnecting = FALSE, !.rt.handshakeStarted = FALSE,
                          !.rt.closeBoundary = FALSE]
           q == Dedupe(w.rt.pending)
           from == FlushFrom(q)
           front == Left(w.rt.pending)
           back == Flush(w.rt.pending)
           z == [y EXCEPT !.rt.pending = front,
                          !.rt.handshakeStarted = (from <= Len(q))]
<1>1. /\ y.rt = [w.rt EXCEPT !.gatewayConnecting = FALSE, !.handshakeStarted = FALSE,
                             !.closeBoundary = FALSE]
      /\ y = [w EXCEPT !.rt = y.rt]
      /\ y.rt \in Runtime /\ y \in Worlds
      /\ y.rt.pending = w.rt.pending /\ ~y.rt.handshakeStarted
      /\ y.rt.handshakeStarted = FALSE
  BY <1>0 DEF Worlds, Runtime
<1>2. v = Give(z, back)
  <2>1. v = FlushPending(y)
    BY DEF GatewayReady
  <2> HIDE DEF y, v
  <2>2. FlushPending(y) =
          Give([y EXCEPT !.rt.pending = front,
                         !.rt.handshakeStarted = y.rt.handshakeStarted \/ from <= Len(q)],
               back)
    BY <1>1 DEF FlushPending, FlushFrom, Left, Flush, Worlds, Runtime
  <2>3. (y.rt.handshakeStarted \/ from <= Len(q)) = (from <= Len(q))
    BY <1>1
  <2> QED BY <2>1, <2>2, <2>3
<1> HIDE DEF v
<1>3. /\ front \in Seq(Message) /\ Len(front) <= Len(w.rt.pending)
      /\ ConnectRequests(front) = {}
      /\ back \in Seq(Message)
      /\ Queued(back, a, w.spent)
      /\ Queued(front, a, w.spent \cup {back[i].at : i \in DOMAIN back})
      /\ from <= Len(q) <=> back # <<>>
      /\ back # <<>> => 1 \in DOMAIN back /\ back[1].kind = "connect"
      /\ ConnectRequests(w.rt.pending) # {} =>
           1 \in DOMAIN back /\ back[1] = w.rt.pending[LatestConnect(w.rt.pending)]
  BY <1>0, FlushSplit
<1> DEFINE open == from <= Len(q)
<1> HIDE DEF y, q, from, front, back
<1>4. open \in BOOLEAN
  OBVIOUS
<1> HIDE DEF open
<1>5. /\ z.rt = [y.rt EXCEPT !.pending = front, !.handshakeStarted = open]
      /\ z = [y EXCEPT !.rt = z.rt]
  BY <1>1 DEF Worlds, open
<1> HIDE DEF z
<1>6. /\ z.rt \in Runtime /\ z.rt.pending = front /\ z.rt.handshakeStarted = open
      /\ z.rt.gatewaySocket = s /\ z.rt.stopped = FALSE
      /\ z.rt.gatewayConnecting = FALSE /\ z.rt.closeBoundary = FALSE
      /\ z.rt.reconnectTimer = w.rt.reconnectTimer
      /\ z.rt.relaySocket = w.rt.relaySocket
      /\ z.rt.relayConnecting = w.rt.relayConnecting
      /\ z.rt.gatewayRetryTimer = w.rt.gatewayRetryTimer
  <2>1. /\ y.rt.gatewaySocket = s /\ y.rt.stopped = FALSE
        /\ y.rt.gatewayConnecting = FALSE /\ y.rt.closeBoundary = FALSE
        /\ y.rt.reconnectTimer = w.rt.reconnectTimer
        /\ y.rt.relaySocket = w.rt.relaySocket
        /\ y.rt.relayConnecting = w.rt.relayConnecting
        /\ y.rt.gatewayRetryTimer = w.rt.gatewayRetryTimer
    BY <1>0, <1>1 DEF Runtime
  <2>2. z.rt \in Runtime
    <3> DEFINE e == [y.rt EXCEPT !.pending = front]
    <3>1. e \in Runtime
      BY ONLY <1>1, <1>3 DEF Runtime
    <3>2. z.rt = [e EXCEPT !.handshakeStarted = open]
      BY <1>5
    <3> HIDE DEF e
    <3> QED BY ONLY <1>4, <3>1, <3>2 DEF Runtime
  <2>3. /\ z.rt.pending = front /\ z.rt.handshakeStarted = open
        /\ z.rt.gatewaySocket = y.rt.gatewaySocket /\ z.rt.stopped = y.rt.stopped
        /\ z.rt.gatewayConnecting = y.rt.gatewayConnecting
        /\ z.rt.closeBoundary = y.rt.closeBoundary
        /\ z.rt.reconnectTimer = y.rt.reconnectTimer
        /\ z.rt.relaySocket = y.rt.relaySocket
        /\ z.rt.relayConnecting = y.rt.relayConnecting
        /\ z.rt.gatewayRetryTimer = y.rt.gatewayRetryTimer
    BY <1>1, <1>5 DEF Runtime
  <2> QED BY <2>1, <2>2, <2>3
<1>7. /\ z.sock = w.sock /\ z.given = w.given /\ z.spent = w.spent
      /\ z.alone = w.alone /\ z.full = w.full /\ z \in Worlds
  <2>1. y = [w EXCEPT !.rt = y.rt] /\ y.rt \in Runtime /\ w \in Worlds
    BY <1>0, <1>1
  <2>2. z = [y EXCEPT !.rt = z.rt] /\ z.rt \in Runtime
    BY <1>5, <1>6
  <2>3. /\ y \in Worlds /\ y.sock = w.sock /\ y.given = w.given /\ y.spent = w.spent
        /\ y.alone = w.alone /\ y.full = w.full
    BY ONLY <2>1 DEF Worlds
  <2>4. /\ z \in Worlds /\ z.sock = y.sock /\ z.given = y.given /\ z.spent = y.spent
        /\ z.alone = y.alone /\ z.full = y.full
    BY ONLY <2>2, <2>3 DEF Worlds
  <2> QED BY ONLY <2>3, <2>4
<1> DEFINE numbers == [i \in DOMAIN back |-> back[i].at]
<1>8. /\ v \in Worlds /\ v.rt = z.rt /\ v.sock = w.sock
      /\ v.alone = w.alone /\ v.full = w.full
      /\ v.given[s] = <<>> \o numbers
      /\ \A d \in GatewaySockets \ {s} : v.given[d] = w.given[d]
      /\ v.spent = w.spent \cup {back[i].at : i \in DOMAIN back}
  <2> HIDE DEF numbers
  <2>2. z \in Worlds /\ back \in Seq(Message) /\ z.rt.gatewaySocket = s /\ s # None
    BY <1>0, <1>3, <1>6, <1>7
  <2>3. Gives(v, z, s, back)
    BY <1>2, <2>2, GiveIs
  <2>4. z.given[s] = <<>>
    BY <1>7
  <2> QED BY <1>7, <2>3, <2>4 DEF numbers, Gives
<1>9. /\ numbers \in Seq(1..MaxFrames) /\ DOMAIN numbers = DOMAIN back
      /\ DOMAIN back = 1..Len(back) /\ Len(back) \in Nat /\ Len(numbers) = Len(back)
      /\ \A i \in DOMAIN back : numbers[i] = back[i].at
  <2>1. DOMAIN back = 1..Len(back) /\ Len(back) \in Nat /\ \A i \in DOMAIN back : back[i] \in Message
    BY <1>3
  <2>2. \A i \in DOMAIN back : back[i].at \in 1..MaxFrames
    BY <2>1 DEF Message
  <2> QED BY <2>1, <2>2
<1> HIDE DEF numbers
<1>10. v.given[s] = numbers
  BY <1>8, <1>9
<1>11. Channel!ToSet(numbers) = {back[i].at : i \in DOMAIN back}
  BY <1>9 DEF Channel!ToSet
<1>12. Channel!ToSet(numbers) \subseteq (DOMAIN a) \ w.spent
  BY <1>3, <1>11 DEF Queued
<1>13. Channel!Increasing(numbers)
  BY <1>3, <1>9 DEF Queued, Channel!Increasing
<1>14. numbers # <<>> <=> open
  <2>1. \A x \in Seq(1..MaxFrames) : x # <<>> <=> Len(x) # 0
    OBVIOUS
  <2>2. \A x \in Seq(Message) : x # <<>> <=> Len(x) # 0
    OBVIOUS
  <2> QED BY <1>3, <1>9, <2>1, <2>2 DEF open
<1>15. numbers # <<>> => a[numbers[1]] = "connect"
  BY <1>3, <1>9, <1>14 DEF Queued, open
<1>16. Typed(v, a)
  <2>1. Len(front) \in Nat /\ Len(w.rt.pending) \in Nat /\ MaxPending \in Nat
    BY <1>0, <1>3, BoundsAssumption
  <2> QED BY <1>0, <1>3, <1>6, <1>8, <2>1 DEF Typed
<1>17. IsGatewayOpen(v) /\ v.rt.gatewaySocket = s
  BY <1>0, <1>6, <1>8 DEF IsGatewayOpen, IsOpen
<1>18. AtRest(v) /\ Used(v)
  BY <1>6, <1>8 DEF AtRest, Used
<1>19. Gateway(v)
  BY <1>6, <1>8, <1>17 DEF Gateway
<1>20. Queued(v.rt.pending, a, v.spent)
  BY <1>3, <1>6, <1>8
<1>21. Fed(v, a)
  <2>1. v.spent \subseteq DOMAIN a
    BY <1>8, <1>11, <1>12 DEF Fed
  <2>2. ASSUME NEW c \in GatewaySockets
        PROVE  /\ Channel!Increasing(v.given[c])
               /\ \A i \in DOMAIN v.given[c] : v.given[c][i] \in v.spent
               /\ v.given[c] # <<>> => a[v.given[c][1]] = "connect"
               /\ v.sock[c] \in {"free", "connecting", "aborted"} => v.given[c] = <<>>
    <3>1. CASE c = s
      BY <3>1, <1>8, <1>9, <1>10, <1>13, <1>15
    <3>2. CASE c # s
      BY <3>2, <1>8 DEF Fed
    <3> QED BY <3>1, <3>2
  <2> QED BY <2>1, <2>2 DEF Fed
<1>22. Flushed(v) /\ Started(v)
  BY <1>3, <1>4, <1>6, <1>8, <1>10, <1>14, <1>17 DEF Flushed, Started
<1>23. Pursued(v)
  BY <1>0, <1>17 DEF Pursued
<1>24. ConnectRequests(w.rt.pending) # {} =>
         w.rt.pending[LatestConnect(w.rt.pending)].at \in v.spent
  BY <1>3, <1>8
<1> QED BY <1>6, <1>8, <1>10, <1>11, <1>12, <1>15, <1>16, <1>18, <1>19, <1>20,
           <1>21, <1>22, <1>23, <1>24 DEF Sound, Ready, v

-----------------------------------------------------------------------------
(* Steps *)

\* What a step that ends in the world v is about: see the properties it gives.
Quiet(v, w) ==
  v.spent = w.spent /\ \A c \in GatewaySockets : v.given[c] \in {w.given[c], <<>>}

Fills(v, w, c, b) ==
  /\ \A d \in GatewaySockets \ {c} : v.given[d] = w.given[d]
  /\ Len(w.given[c]) < Len(v.given[c])
  /\ SubSeq(v.given[c], 1, Len(w.given[c])) = w.given[c]
  /\ Channel!Increasing(v.given[c])
  /\ b[v.given[c][1]] = "connect"
  /\ (Channel!ToSet(v.given[c]) \ Channel!ToSet(w.given[c])) \subseteq (DOMAIN b) \ w.spent
  /\ v.spent = w.spent \cup (Channel!ToSet(v.given[c]) \ Channel!ToSet(w.given[c]))

ConnectsKept(v, w, b) ==
  \A n \in WaitingConnects(w.rt.pending) \ WaitingConnects(v.rt.pending) :
     \/ n \in v.spent
     \/ v.rt.stopped
     \/ Len(w.rt.pending) = MaxPending
     \/ \E m \in v.spent \cup WaitingConnects(v.rt.pending) :
          m > n /\ b[m] = "connect"

StaysStopped(v, w) ==
  w.rt.stopped =>
    /\ v.rt.stopped
    /\ v.spent = w.spent
    /\ \A s \in Sockets : w.sock[s] = "free" => v.sock[s] = "free"

Outcome(v, w, b) ==
  /\ Sound(v, b) /\ Relay(v) /\ Pursued(v) /\ Started(v)
  /\ Quiet(v, w) \/ \E c \in GatewaySockets : Fills(v, w, c, b)
  /\ ConnectsKept(v, w, b)
  /\ StaysStopped(v, w)

\* v gives nothing to the gateway and keeps the connects that wait.
Calm(v, w) ==
  /\ Quiet(v, w) /\ StaysStopped(v, w)
  /\ WaitingConnects(w.rt.pending) \subseteq WaitingConnects(v.rt.pending)

\* A calm change after another is calm.
LEMMA CalmTwice ==
  ASSUME NEW u, NEW v, NEW w, Calm(u, v), Calm(v, w)
  PROVE  Calm(u, w)
<1>1. Quiet(u, w)
  BY DEF Calm, Quiet
<1>2. StaysStopped(u, w)
  BY DEF Calm, StaysStopped
<1>3. WaitingConnects(w.rt.pending) \subseteq WaitingConnects(u.rt.pending)
  BY DEF Calm
<1> QED BY <1>1, <1>2, <1>3 DEF Calm

\* What concerns the gateway alone is calm, and so is shutting a socket.
LEMMA AsideCalm ==
  ASSUME NEW v, NEW w, Aside(v, w)
  PROVE  Calm(v, w)
BY DEF Aside, Calm, Quiet, StaysStopped

\* Shutting a socket is calm.
LEMMA ShutCalm ==
  ASSUME NEW v, NEW w, NEW s, Shut(v, w, s)
  PROVE  Calm(v, w)
BY SocketsApart DEF Shut, Calm, Quiet, StaysStopped

\* A calm step that keeps the invariant is a step as it should be.
LEMMA CalmOutcome ==
  ASSUME NEW v, NEW w, NEW b, Calm(v, w),
         Sound(v, b), Relay(v), Pursued(v), Started(v)
  PROVE  Outcome(v, w, b)
BY DEF Calm, Outcome, ConnectsKept

\* Shutting a socket is a step as it should be.
LEMMA ShutOutcome ==
  ASSUME NEW a, NEW v, NEW w, NEW s, Shut(v, w, s), v \in Worlds,
         Sound(w, a), Relay(w), Pursued(w), Started(w)
  PROVE  Outcome(v, w, a)
<1>1. Typed(w, a) /\ v.rt = w.rt /\ v.spent = w.spent
  BY DEF Sound, Shut
<1>2. Typed(v, a)
  BY <1>1 DEF Typed
<1>3. Queued(v.rt.pending, a, v.spent)
  BY <1>1 DEF Sound
<1>4. Sound(v, a) /\ Relay(v) /\ Pursued(v) /\ Started(v)
  BY <1>1, <1>2, <1>3, ShutKeeps DEF Sound
<1> QED BY <1>4, ShutCalm, CalmOutcome

\* v is w with the fields r.
Fields(v, w, r) ==
  /\ v \in Worlds /\ v.rt = r /\ v.sock = w.sock /\ v.given = w.given
  /\ v.spent = w.spent /\ v.alone = w.alone /\ v.full = w.full

\* An update of the fields.
LEMMA FieldsIs ==
  ASSUME NEW w \in Worlds, NEW r \in Runtime
  PROVE  Fields([w EXCEPT !.rt = r], w, r)
BY DEF Fields, Worlds

\* The world is in Worlds and after a step that becomes v it is v.
LEMMA BecomeIs ==
  ASSUME NEW v \in Worlds, Become(v)
  PROVE  World' = v
<1>1. v.full = FALSE
  BY DEF Become, Worlds
<1> QED BY <1>1 DEF Become, World, Worlds

\* The fields of the world.
LEMMA WorldIs ==
  /\ World.sock = sock /\ World.rt = rt /\ World.given = given
  /\ World.spent = spent /\ World.alone = alone /\ World.full = FALSE
BY DEF World

-----------------------------------------------------------------------------
(* Clients come and go *)

\* The fields that a change of the client count leaves alone.
SameSockets(r, rw) ==
  /\ r.stopped = rw.stopped /\ r.reconnectTimer = rw.reconnectTimer
  /\ r.relaySocket = rw.relaySocket /\ r.relayConnecting = rw.relayConnecting
  /\ r.gatewaySocket = rw.gatewaySocket /\ r.gatewayConnecting = rw.gatewayConnecting
  /\ r.closeBoundary = rw.closeBoundary
  /\ r.gatewayRetryTimer = rw.gatewayRetryTimer

\* A world with another client count, whose queue is the same or was emptied of
\* data, with a session started or not, is as sound.
LEMMA RecountIs ==
  ASSUME NEW a, NEW w, Sound(w, a), Relay(w), NEW v, NEW r \in Runtime,
         Fields(v, w, r), SameSockets(r, w.rt),
         r.handshakeStarted => w.rt.handshakeStarted,
         \/ r.pending = w.rt.pending
         \/ r.pending = <<>> /\ ConnectRequests(w.rt.pending) = {}
  PROVE  /\ Sound(v, a) /\ Relay(v) /\ Calm(v, w)
         /\ IsGatewayOpen(v) <=> IsGatewayOpen(w)
<1>1. /\ w \in Worlds /\ w.rt \in Runtime /\ Typed(w, a)
  BY DEF Sound, Typed, Worlds
<1>2. /\ Len(r.pending) <= MaxPending /\ Queued(r.pending, a, w.spent)
      /\ ConnectRequests(w.rt.pending) = {} => ConnectRequests(r.pending) = {}
      /\ WaitingConnects(w.rt.pending) \subseteq WaitingConnects(r.pending)
  <2>1. CASE r.pending = w.rt.pending
    BY <2>1 DEF Sound, Typed
  <2>2. CASE r.pending = <<>> /\ ConnectRequests(w.rt.pending) = {}
    <3>1. Len(r.pending) = 0 /\ DOMAIN r.pending = {}
      BY <2>2
    <3>2. Len(r.pending) <= MaxPending
      BY <3>1, BoundsAssumption
    <3> QED BY <2>2, <3>1, <3>2 DEF Queued, ConnectRequests, WaitingConnects
  <2> QED BY <2>1, <2>2
<1>3. Typed(v, a)
  BY <1>1, <1>2 DEF Fields, Typed
<1>4. IsGatewayOpen(v) <=> IsGatewayOpen(w)
  BY DEF Fields, SameSockets, IsGatewayOpen, IsOpen
<1>5. AtRest(v) /\ Used(v)
  BY DEF Sound, Fields, SameSockets, AtRest, Used
<1>6. Gateway(v)
  BY <1>4 DEF Sound, Fields, SameSockets, Gateway
<1>7. Fed(v, a)
  BY DEF Sound, Fields, Fed
<1>8. Flushed(v)
  BY <1>2, <1>4 DEF Sound, Fields, SameSockets, Flushed
<1>9. Queued(v.rt.pending, a, v.spent)
  BY <1>2 DEF Fields
<1>10. Relay(v)
  BY DEF Fields, SameSockets, Relay
<1>11. Calm(v, w)
  BY <1>2 DEF Fields, SameSockets, Calm, Quiet, StaysStopped
<1> QED BY <1>3, <1>4, <1>5, <1>6, <1>7, <1>8, <1>9, <1>10, <1>11 DEF Sound

\* Without clients a gateway that is open is not wanted, so no session is left
\* unmarked.
LEMMA IdleIs ==
  ASSUME NEW a, NEW w, Sound(w, a), Relay(w),
         NEW v, v = DropStaleIdle([w EXCEPT !.rt.handshakeStarted = FALSE,
                                            !.rt.clientCount = 0])
  PROVE  /\ Sound(v, a) /\ Relay(v) /\ Calm(v, w) /\ v.full = w.full
         /\ IsGatewayOpen(v) => ~ShouldKeepGateway(v)
<1>1. w \in Worlds /\ w.rt \in Runtime
  BY DEF Sound, Typed, Worlds
<1> DEFINE rx == [w.rt EXCEPT !.handshakeStarted = FALSE, !.clientCount = 0]
           x == [w EXCEPT !.rt = rx]
           r == IF ConnectRequests(w.rt.pending) = {} THEN [rx EXCEPT !.pending = <<>>] ELSE rx
<1>2. v = DropStaleIdle(x)
  BY <1>1 DEF Worlds, Runtime
<1>3. /\ rx \in Runtime /\ rx.pending = w.rt.pending /\ SameSockets(rx, w.rt)
      /\ ~rx.handshakeStarted /\ rx.clientCount = 0
  <2>1. 0 \in 0..MaxClients
    BY BoundsAssumption
  <2>2. rx \in Runtime
    BY <1>1, <2>1 DEF Runtime
  <2>3. rx.pending = w.rt.pending /\ ~rx.handshakeStarted /\ rx.clientCount = 0
    BY <1>1 DEF Runtime
  <2>4. SameSockets(rx, w.rt)
    BY <1>1 DEF Runtime, SameSockets
  <2> QED BY <2>2, <2>3, <2>4
<1> HIDE DEF rx
<1>4. Fields(x, w, rx)
  BY <1>1, <1>3, FieldsIs
<1> HIDE DEF x
<1>5. /\ r \in Runtime /\ SameSockets(r, w.rt) /\ ~r.handshakeStarted /\ r.clientCount = 0
      /\ \/ r.pending = w.rt.pending
         \/ r.pending = <<>> /\ ConnectRequests(w.rt.pending) = {}
  <2>1. CASE ConnectRequests(w.rt.pending) = {}
    <3>1. r = [rx EXCEPT !.pending = <<>>] /\ <<>> \in Seq(Message)
      BY <2>1
    <3>2. r \in Runtime /\ r.pending = <<>> /\ ~r.handshakeStarted /\ r.clientCount = 0
      BY ONLY <1>3, <3>1 DEF Runtime
    <3>3. SameSockets(r, rx)
      BY ONLY <1>3, <3>1 DEF Runtime, SameSockets
    <3> QED BY <1>3, <2>1, <3>2, <3>3 DEF SameSockets
  <2>2. CASE ConnectRequests(w.rt.pending) # {}
    BY <1>3, <2>2
  <2> QED BY <2>1, <2>2
<1>6. v = [x EXCEPT !.rt = r]
  BY <1>2, <1>3, <1>4 DEF DropStaleIdle, Fields, Worlds
<1> HIDE DEF r
<1>7. Fields(v, w, r)
  <2>1. x \in Worlds
    BY <1>4 DEF Fields
  <2>2. Fields(v, x, r)
    BY ONLY <1>5, <1>6, <2>1, FieldsIs
  <2> QED BY <1>4, <2>2 DEF Fields
<1>8. Sound(v, a) /\ Relay(v) /\ Calm(v, w)
  BY <1>5, <1>7, RecountIs
<1>9. IsGatewayOpen(v) => ~ShouldKeepGateway(v)
  BY <1>5, <1>7, <1>8 DEF Sound, Flushed, Fields, ShouldKeepGateway
<1> QED BY <1>7, <1>8, <1>9 DEF Fields

-----------------------------------------------------------------------------
(* Steps of the relay socket *)

\* Shown for each action: it becomes a world that is as it should be.
Done == \E v \in Worlds : Become(v) /\ Outcome(v, World, arrived')

\* The sockets of a world of the right type.
LEMMA InvWorld ==
  ASSUME Inv
  PROVE  /\ World \in Worlds /\ rt \in Runtime
         /\ sock \in [Sockets -> SocketStates]
         /\ given \in [GatewaySockets -> Seq(1..MaxFrames)]
         /\ spent \subseteq 1..MaxFrames /\ alone \in BOOLEAN
         /\ arrived \in Seq(Kinds)
         /\ rt.relaySocket \in RelaySockets \cup {None}
         /\ rt.gatewaySocket \in GatewaySockets \cup {None}
BY WorldIs DEF Inv, Sound, Typed, Worlds, Runtime

\* A socket that is shut, in the world or in one where it had just opened.
LEMMA ShutStep ==
  ASSUME Inv, NEW s \in Sockets, sock[s] # "free",
         NEW v, v = [World EXCEPT !.sock = [sock EXCEPT ![s] = "closing"]]
  PROVE  v \in Worlds /\ Outcome(v, World, arrived)
<1>1. /\ v.sock = [sock EXCEPT ![s] = "closing"] /\ v.rt = rt /\ v.given = given
      /\ v.spent = spent /\ v.alone = alone /\ v.full = FALSE /\ v \in Worlds
  BY InvWorld, WorldIs DEF Worlds, SocketStates
<1>2. Shut(v, World, s)
  BY <1>1, InvWorld, WorldIs DEF Shut, Unopened
<1> QED BY <1>1, <1>2, ShutOutcome DEF Inv

\* Closing a socket that has just opened.
LEMMA OpenedShut ==
  ASSUME Inv, NEW s \in Sockets
  PROVE  CloseSocket([World EXCEPT !.sock[s] = "open"], s)
           = [World EXCEPT !.sock = [sock EXCEPT ![s] = "closing"]]
<1> DEFINE w == [World EXCEPT !.sock = [sock EXCEPT ![s] = "open"]]
<1>1. w = [World EXCEPT !.sock[s] = "open"]
  BY WorldIs DEF World
<1>2. w.sock = [sock EXCEPT ![s] = "open"] /\ w.sock[s] = "open"
  BY InvWorld DEF World
<1>3. CloseSocket(w, s) = [w EXCEPT !.sock = [w.sock EXCEPT ![s] = "closing"]]
  BY <1>2, InvWorld, SocketsApart DEF CloseSocket, World
<1>4. [w.sock EXCEPT ![s] = "closing"] = [sock EXCEPT ![s] = "closing"]
  BY <1>2, InvWorld
<1> HIDE DEF w
<1>5. [w EXCEPT !.sock = [sock EXCEPT ![s] = "closing"]]
        = [World EXCEPT !.sock = [sock EXCEPT ![s] = "closing"]]
  BY DEF World, w
<1> QED BY <1>1, <1>3, <1>4, <1>5

\* The relay opens: the socket is current and the gateway is asked for if there is
\* demand, or it is closed again.
LEMMA RelayOpenedStep ==
  ASSUME Inv, NEW s \in RelaySockets, RelayOpened(s)
  PROVE  Done
<1> DEFINE w == [World EXCEPT !.sock[s] = "open"]
           r == [rt EXCEPT !.relayConnecting = FALSE, !.heartbeatTimer = TRUE]
           x == [w EXCEPT !.rt = r]
<1>0. /\ sock[s] = "connecting" /\ arrived' = arrived
      /\ s \in Sockets /\ s \notin GatewaySockets /\ s # None
  BY SocketsApart DEF RelayOpened
<1>1. CASE rt.stopped \/ rt.relaySocket # s
  <2> DEFINE v == [World EXCEPT !.sock = [sock EXCEPT ![s] = "closing"]]
  <2>1. Become(CloseSocket(w, s))
    BY <1>1 DEF RelayOpened
  <2>2. Become(v)
    BY <1>0, <2>1, OpenedShut
  <2>3. v \in Worlds /\ Outcome(v, World, arrived)
    BY <1>0, ShutStep
  <2> QED BY <1>0, <2>2, <2>3 DEF Done
<1>2. CASE ~rt.stopped /\ rt.relaySocket = s
  <2>1. Become(IF ShouldKeepGateway(x) THEN EnsureGateway(x) ELSE x)
    <3>1. x = [w EXCEPT !.rt.relayConnecting = FALSE, !.rt.heartbeatTimer = TRUE]
      BY WorldIs DEF World
    <3> HIDE DEF w, x
    <3> QED BY <1>2, <3>1 DEF RelayOpened, w
  <2>2. r \in Runtime
    BY InvWorld DEF Runtime
  <2>3. /\ r.pending = rt.pending /\ r.clientCount = rt.clientCount
        /\ r.stopped = FALSE /\ r.reconnectTimer = rt.reconnectTimer
        /\ r.relaySocket = s /\ ~r.relayConnecting
        /\ r.gatewaySocket = rt.gatewaySocket
        /\ r.gatewayConnecting = rt.gatewayConnecting
        /\ r.closeBoundary = rt.closeBoundary
        /\ r.handshakeStarted = rt.handshakeStarted
    BY <1>2, InvWorld DEF Runtime
  <2>4. /\ x.sock = [sock EXCEPT ![s] = "open"] /\ x.rt = r /\ x.given = given
        /\ x.spent = spent /\ x.alone = alone /\ x.full = FALSE /\ x \in Worlds
    BY <2>2, <1>0, InvWorld, WorldIs DEF World, Worlds, SocketStates
  <2> HIDE DEF x, r
  <2>5. /\ x.sock[s] = "open" /\ \A t \in Sockets : t # s => x.sock[t] = sock[t]
        /\ \A t \in GatewaySockets : x.sock[t] = sock[t]
    BY <1>0, <2>4, InvWorld, SocketsApart
  <2>6. IsGatewayOpen(x) <=> IsGatewayOpen(World)
    BY <2>3, <2>4, <2>5, WorldIs, InvWorld DEF IsGatewayOpen, IsOpen
  <2>7. Typed(x, arrived) /\ AtRest(x)
    BY <2>3, <2>4, WorldIs DEF Inv, Sound, Typed, AtRest
  <2>8. Used(x)
    BY <1>2, <2>3, <2>4, <2>5, WorldIs DEF Inv, Sound, Used
  <2>9. Gateway(x)
    BY <2>3, <2>4, <2>5, <2>6, WorldIs DEF Inv, Sound, Gateway
  <2>10. Fed(x, arrived)
    BY <2>4, <2>5, WorldIs DEF Inv, Sound, Fed
  <2>11. Flushed(x)
    BY <2>3, <2>4, <2>6, WorldIs DEF Inv, Sound, Flushed
  <2>12. Started(x)
    BY <2>3, <2>4, <2>6, WorldIs DEF Inv, Started
  <2>13. Relay(x)
    <3>1. ASSUME NEW t \in RelaySockets, x.sock[t] # "free" PROVE t = s
      BY <1>2, <3>1, <2>5, WorldIs, SocketsApart DEF Inv, Relay
    <3>2. ~x.rt.reconnectTimer
      BY <1>0, <1>2, <2>3, <2>4, WorldIs DEF Inv, Relay
    <3> QED BY <3>1, <3>2, <1>0, <2>3, <2>4 DEF Relay
  <2>14. Queued(x.rt.pending, arrived, x.spent)
    BY <2>3, <2>4, WorldIs DEF Inv, Sound
  <2>15. Sound(x, arrived)
    BY <2>7, <2>8, <2>9, <2>10, <2>11, <2>14 DEF Sound
  <2>16. Calm(x, World)
    BY <1>2, <2>3, <2>4, WorldIs DEF Calm, Quiet, StaysStopped
  <2>17. CASE ShouldKeepGateway(x)
    <3> DEFINE v == EnsureGateway(x)
    <3>1. Become(v) /\ ~v.full
      BY <2>1, <2>17 DEF Become
    <3> HIDE DEF v
    <3>2. Sound(v, arrived) /\ Pursued(v) /\ Aside(v, x) /\ Started(v)
      BY <2>12, <2>15, <3>1, EnsureGatewayIs DEF v
    <3>3. Relay(v) /\ Calm(v, World)
      BY <2>13, <2>16, <3>2, AsideRelay, AsideCalm, CalmTwice
    <3>4. v \in Worlds
      BY <3>2 DEF Sound, Typed
    <3> QED BY <1>0, <3>1, <3>2, <3>3, <3>4, CalmOutcome DEF Done
  <2>18. CASE ~ShouldKeepGateway(x)
    <3>1. Become(x) /\ Pursued(x)
      BY <2>1, <2>18 DEF Pursued
    <3> QED BY <1>0, <2>4, <2>12, <2>13, <2>15, <2>16, <3>1, CalmOutcome DEF Done
  <2> QED BY <2>17, <2>18
<1> QED BY <1>1, <1>2

\* The relay closes: the gateway is closed and the reconnect timer set.
LEMMA RelayClosedStep ==
  ASSUME Inv, NEW s \in RelaySockets, RelayClosed(s)
  PROVE  Done
<1> DEFINE x == RelayGone(World, s)
           w == CloseGateway(x, FALSE)
           r == [w.rt EXCEPT !.reconnectTimer = @ \/ ~w.rt.stopped]
           v == [w EXCEPT !.rt = r]
           rx == [rt EXCEPT !.heartbeatTimer = FALSE, !.clientCount = 0,
                            !.relaySocket = IF @ = s THEN None ELSE @,
                            !.relayConnecting = FALSE]
<1>0. /\ sock[s] \in {"connecting", "aborted", "closing"} /\ arrived' = arrived
      /\ s \in Sockets /\ s \notin GatewaySockets /\ s # None
  BY SocketsApart DEF RelayClosed
<1>1. rx \in Runtime
  <2>1. 0 \in 0..MaxClients
    BY BoundsAssumption
  <2> QED BY <2>1, InvWorld DEF Runtime
<1>2. /\ rx.pending = rt.pending /\ rx.stopped = rt.stopped
      /\ rx.reconnectTimer = rt.reconnectTimer
      /\ rt.relaySocket = s => rx.relaySocket = None
      /\ rt.relaySocket # s => rx.relaySocket = rt.relaySocket
      /\ ~rx.relayConnecting
      /\ rx.gatewaySocket = rt.gatewaySocket
      /\ rx.gatewayConnecting = rt.gatewayConnecting
      /\ rx.gatewayRetryTimer = rt.gatewayRetryTimer
      /\ rx.closeBoundary = rt.closeBoundary
      /\ rx.handshakeStarted = rt.handshakeStarted
  BY InvWorld DEF Runtime
<1>3. /\ x.sock = [sock EXCEPT ![s] = "free"] /\ x.rt = rx /\ x.given = given
      /\ x.spent = spent /\ x.alone = alone /\ x.full = FALSE
      /\ x = [sock |-> x.sock, rt |-> x.rt, given |-> x.given, spent |-> x.spent,
              alone |-> x.alone, full |-> x.full]
  <2> DEFINE next == IF rt.relaySocket = s THEN None ELSE rt.relaySocket
  <2>1. x = [World EXCEPT !.sock[s] = "free", !.rt.heartbeatTimer = FALSE,
                          !.rt.clientCount = 0, !.rt.relaySocket = next,
                          !.rt.relayConnecting = FALSE]
    BY WorldIs DEF RelayGone, World
  <2>2. rx = [rt EXCEPT !.heartbeatTimer = FALSE, !.clientCount = 0,
                        !.relaySocket = next, !.relayConnecting = FALSE]
    OBVIOUS
  <2> HIDE DEF next, x, rx
  <2>3. x = [World EXCEPT !.sock = [sock EXCEPT ![s] = "free"], !.rt = rx]
    BY <2>1, <2>2 DEF World
  <2> QED BY <2>3 DEF World
<1> HIDE DEF rx, x
<1>4. x \in Worlds
  BY <1>0, <1>1, <1>3, InvWorld DEF Worlds, SocketStates
<1>5. /\ x.sock[s] = "free" /\ \A t \in Sockets : t # s => x.sock[t] = sock[t]
      /\ \A t \in GatewaySockets : x.sock[t] = sock[t]
  BY <1>0, <1>3, InvWorld, SocketsApart
<1>6. IsGatewayOpen(x) <=> IsGatewayOpen(World)
  BY <1>2, <1>3, <1>5, WorldIs, InvWorld DEF IsGatewayOpen, IsOpen
<1>7. Sound(x, arrived)
  <2>1. Typed(x, arrived)
    BY <1>2, <1>3, <1>4, WorldIs DEF Inv, Sound, Typed
  <2>2. AtRest(x)
    BY <1>0, <1>2, <1>3, WorldIs DEF Inv, Sound, AtRest
  <2>3. Used(x)
    BY <1>0, <1>2, <1>3, <1>5, WorldIs DEF Inv, Sound, Used
  <2>4. Gateway(x)
    BY <1>2, <1>3, <1>5, <1>6, WorldIs DEF Inv, Sound, Gateway
  <2>5. Fed(x, arrived)
    BY <1>3, <1>5, WorldIs DEF Inv, Sound, Fed
  <2>6. Flushed(x)
    BY <1>2, <1>3, <1>6, WorldIs DEF Inv, Sound, Flushed
  <2>7. Queued(x.rt.pending, arrived, x.spent)
    BY <1>2, <1>3, WorldIs DEF Inv, Sound
  <2> QED BY <2>1, <2>2, <2>3, <2>4, <2>5, <2>6, <2>7 DEF Sound
<1>8. Calm(x, World)
  BY <1>2, <1>3, <1>5, WorldIs DEF Calm, Quiet, StaysStopped
<1> HIDE DEF w
<1>9. Become(v)
  <2>1. Become([w EXCEPT !.rt.reconnectTimer = @ \/ ~w.rt.stopped])
    BY DEF RelayClosed, w, x
  <2>2. v = [w EXCEPT !.rt.reconnectTimer = @ \/ ~w.rt.stopped]
    OBVIOUS
  <2> QED BY <2>1, <2>2
<1>10. Sound(w, arrived) /\ Aside(w, x) /\ Started(w) /\ w.full = FALSE
  BY <1>3, <1>7, CloseGatewayIs DEF w
<1>11. w \in Worlds /\ w.rt \in Runtime /\ Typed(w, arrived)
  BY <1>10 DEF Sound, Typed, Worlds
<1>12. r \in Runtime
  BY <1>11 DEF Runtime
<1>13. /\ r.reconnectTimer = (w.rt.reconnectTimer \/ ~w.rt.stopped)
       /\ r.stopped = w.rt.stopped /\ r.relaySocket = w.rt.relaySocket
       /\ r.relayConnecting = w.rt.relayConnecting /\ r.pending = w.rt.pending
       /\ r.gatewaySocket = w.rt.gatewaySocket /\ r.clientCount = w.rt.clientCount
       /\ r.gatewayConnecting = w.rt.gatewayConnecting
       /\ r.gatewayRetryTimer = w.rt.gatewayRetryTimer
       /\ r.closeBoundary = w.rt.closeBoundary
       /\ r.handshakeStarted = w.rt.handshakeStarted
  BY <1>11 DEF Runtime
<1>14. Fields(v, w, r)
  BY <1>11, <1>12, FieldsIs
<1> HIDE DEF r, v
<1>15. IsGatewayOpen(v) <=> IsGatewayOpen(w)
  BY <1>13, <1>14 DEF Fields, IsGatewayOpen, IsOpen
<1>16. Sound(v, arrived)
  <2>1. Typed(v, arrived)
    BY <1>11, <1>13, <1>14 DEF Fields, Typed
  <2>2. AtRest(v) /\ Used(v)
    BY <1>10, <1>13, <1>14 DEF Sound, Fields, AtRest, Used
  <2>3. Gateway(v)
    BY <1>10, <1>13, <1>14, <1>15 DEF Sound, Fields, Gateway
  <2>4. Fed(v, arrived)
    BY <1>10, <1>14 DEF Sound, Fields, Fed
  <2>5. Flushed(v)
    BY <1>10, <1>13, <1>14, <1>15 DEF Sound, Fields, Flushed
  <2>6. Queued(v.rt.pending, arrived, v.spent)
    BY <1>10, <1>13, <1>14 DEF Sound, Fields
  <2> QED BY <2>1, <2>2, <2>3, <2>4, <2>5, <2>6 DEF Sound
<1>17. Started(v)
  BY <1>10, <1>13, <1>14, <1>15 DEF Fields, Started
<1>18. ~v.rt.relayConnecting /\ v.rt.stopped = rt.stopped
       /\ v.rt.relaySocket = rx.relaySocket
       /\ \A t \in RelaySockets : v.sock[t] = x.sock[t]
  BY <1>2, <1>3, <1>10, <1>13, <1>14 DEF Fields, Aside
<1>19. ~rt.stopped => rt.relaySocket = s
  BY <1>0, WorldIs DEF Inv, Relay
<1>20. Relay(v) /\ Pursued(v)
  <2>1. CASE rt.stopped
    BY <2>1, <1>18 DEF Relay, Pursued
  <2>2. CASE ~rt.stopped
    <3>1. v.rt.relaySocket = None /\ v.rt.reconnectTimer
      BY <2>2, <1>2, <1>13, <1>14, <1>18, <1>19 DEF Fields
    <3>2. ASSUME NEW t \in RelaySockets PROVE v.sock[t] = "free"
      BY <2>2, <1>5, <1>18, <1>19, WorldIs, SocketsApart DEF Inv, Relay
    <3> QED BY <3>1, <3>2, <1>18 DEF Relay, Pursued, IsRelayOpen, IsOpen
  <2> QED BY <2>1, <2>2
<1>21. Calm(v, World)
  <2>1. Calm(v, w)
    BY <1>13, <1>14 DEF Fields, Calm, Quiet, StaysStopped
  <2> QED BY <2>1, <1>8, <1>10, AsideCalm, CalmTwice
<1>22. v \in Worlds
  BY <1>14 DEF Fields
<1> QED BY <1>0, <1>9, <1>16, <1>17, <1>20, <1>21, <1>22, CalmOutcome DEF Done

\* A step that ends by asking for the gateway.
LEMMA EnsureDone ==
  ASSUME Inv, UNCHANGED arrived,
         NEW x, Sound(x, arrived), Relay(x), Started(x), Calm(x, World),
         Become(EnsureGateway(x))
  PROVE  Done
<1> DEFINE v == EnsureGateway(x)
<1>1. ~v.full
  BY DEF Become
<1> HIDE DEF v
<1>2. Sound(v, arrived) /\ Pursued(v) /\ Aside(v, x) /\ Started(v)
  BY <1>1, EnsureGatewayIs DEF v
<1>3. Relay(v) /\ Calm(v, World) /\ v \in Worlds
  BY <1>2, AsideRelay, AsideCalm, CalmTwice DEF Sound, Typed
<1>4. Outcome(v, World, arrived)
  BY <1>2, <1>3, CalmOutcome
<1> QED BY <1>3, <1>4 DEF Done, v

\* A step that ends by closing the gateway, whose socket is there.
LEMMA CloseDone ==
  ASSUME Inv, UNCHANGED arrived,
         NEW x, Sound(x, arrived), Relay(x), Calm(x, World), IsGatewayOpen(x),
         NEW again \in BOOLEAN,
         NEW v, v = CloseGateway(x, again), x.full = FALSE
  PROVE  /\ Sound(v, arrived) /\ Relay(v) /\ Started(v) /\ Pursued(v)
         /\ Calm(v, World) /\ v.full = FALSE
         /\ Become(v) => Done
<1>1. x.rt.gatewaySocket # None
  BY DEF IsGatewayOpen, IsOpen
<1>2. /\ Sound(v, arrived) /\ Pursued(v) /\ Aside(v, x) /\ Started(v)
      /\ v.full = FALSE
  BY <1>1, CloseGatewayIs
<1>3. Relay(v) /\ Calm(v, World) /\ v \in Worlds
  BY <1>2, AsideRelay, AsideCalm, CalmTwice DEF Sound, Typed
<1>4. Outcome(v, World, arrived)
  BY <1>2, <1>3, CalmOutcome
<1> QED BY <1>2, <1>3, <1>4 DEF Done

\* The number of clients changes: the gateway is recycled, asked for or closed.
LEMMA ClientCountStep ==
  ASSUME Inv, NEW s \in RelaySockets, NEW count \in 0..MaxClients,
         ClientCount(s, count)
  PROVE  Done
<1>0. arrived' = arrived
  BY DEF ClientCount
<1>1. Sound(World, arrived) /\ Relay(World)
  BY DEF Inv
<1> DEFINE w == [World EXCEPT !.rt.clientCount = count]
           r == [rt EXCEPT !.clientCount = count]
           pruned == [w EXCEPT !.rt.pending = Prune(@)]
           idle == DropStaleIdle([w EXCEPT !.rt.handshakeStarted = FALSE])
           recycle == rt.clientCount = 0 /\ IsGatewayOpen(w)
<1>2. Become(EnsureGateway(
           IF count > 0
           THEN IF recycle THEN CloseGateway(pruned, TRUE) ELSE w
           ELSE IF IsGatewayOpen(idle) /\ ~ShouldKeepGateway(idle)
                THEN CloseGateway(idle, FALSE) ELSE idle))
  BY DEF ClientCount
<1>3. /\ r \in Runtime /\ SameSockets(r, rt) /\ r.pending = rt.pending
      /\ r.handshakeStarted = rt.handshakeStarted
  BY InvWorld DEF Runtime, SameSockets
<1>4. Fields(w, World, r)
  <2>1. w = [World EXCEPT !.rt = r]
    BY DEF World
  <2> HIDE DEF w, r
  <2> QED BY <2>1, <1>3, InvWorld, FieldsIs
<1> HIDE DEF r
<1>5. CASE count > 0 /\ recycle
  <2> DEFINE rp == [r EXCEPT !.pending = <<>>]
  <2>1. IsGatewayOpen(World)
    BY <1>3, <1>4, <1>5, WorldIs
       DEF Fields, SameSockets, IsGatewayOpen, IsOpen
  <2>2. ConnectRequests(rt.pending) = {}
    BY <2>1, WorldIs DEF Inv, Sound, Flushed
  <2> HIDE DEF w
  <2>3. pruned = [w EXCEPT !.rt = rp]
    BY <1>3, <1>4, <2>2 DEF Fields, Worlds, Prune
  <2>4. rp \in Runtime
    <3>1. <<>> \in Seq(Message)
      OBVIOUS
    <3> QED BY <1>3, <3>1 DEF Runtime
  <2>5. /\ SameSockets(rp, rt) /\ rp.pending = <<>>
        /\ rp.handshakeStarted = rt.handshakeStarted
    BY <1>3 DEF Runtime, SameSockets
  <2> HIDE DEF rp, pruned
  <2>6. w \in Worlds
    BY <1>4 DEF Fields
  <2>7. Fields(pruned, w, rp)
    BY ONLY <2>3, <2>4, <2>6, FieldsIs
  <2>8. Fields(pruned, World, rp)
    BY <1>4, <2>7 DEF Fields
  <2>9. Sound(pruned, arrived) /\ Relay(pruned) /\ Calm(pruned, World) /\ IsGatewayOpen(pruned)
    BY <1>1, <2>1, <2>2, <2>4, <2>5, <2>8, WorldIs, RecountIs
  <2>10. pruned.full = FALSE
    BY <2>8, WorldIs DEF Fields
  <2> DEFINE u == CloseGateway(pruned, TRUE)
  <2>11. Become(EnsureGateway(u))
    BY <1>2, <1>5
  <2> HIDE DEF u
  <2>12. Sound(u, arrived) /\ Relay(u) /\ Started(u) /\ Calm(u, World)
    BY <1>0, <2>9, <2>10, CloseDone DEF u
  <2> QED BY <1>0, <2>11, <2>12, EnsureDone
<1>6. CASE count > 0 /\ ~recycle
  <2>1. Become(EnsureGateway(w))
    BY <1>2, <1>6
  <2> HIDE DEF w
  <2>2. /\ Sound(w, arrived) /\ Relay(w) /\ Calm(w, World)
        /\ IsGatewayOpen(w) <=> IsGatewayOpen(World)
    BY <1>1, <1>3, <1>4, WorldIs, RecountIs
  <2>3. Started(w)
    BY <1>3, <1>4, <2>2, WorldIs DEF Inv, Started, Fields, SameSockets
  <2> QED BY <1>0, <2>1, <2>2, <2>3, EnsureDone
<1>7. CASE ~ (count > 0)
  <2>1. count = 0
    BY <1>7
  <2>2. idle = DropStaleIdle([World EXCEPT !.rt.handshakeStarted = FALSE,
                                           !.rt.clientCount = 0])
    <3>1. [w EXCEPT !.rt.handshakeStarted = FALSE]
            = [World EXCEPT !.rt.handshakeStarted = FALSE, !.rt.clientCount = 0]
      BY <2>1, InvWorld, WorldIs DEF World, Runtime
    <3> QED BY <3>1
  <2> HIDE DEF idle
  <2>3. /\ Sound(idle, arrived) /\ Relay(idle) /\ Calm(idle, World) /\ idle.full = FALSE
        /\ IsGatewayOpen(idle) => ~ShouldKeepGateway(idle)
    BY <1>1, <2>2, WorldIs, IdleIs
  <2>4. CASE IsGatewayOpen(idle)
    <3> DEFINE u == CloseGateway(idle, FALSE)
    <3>1. Become(EnsureGateway(u))
      BY <1>2, <1>7, <2>3, <2>4
    <3> HIDE DEF u
    <3>2. Sound(u, arrived) /\ Relay(u) /\ Started(u) /\ Calm(u, World)
      BY <1>0, <2>3, <2>4, CloseDone DEF u
    <3> QED BY <1>0, <3>1, <3>2, EnsureDone
  <2>5. CASE ~IsGatewayOpen(idle)
    <3>1. Become(EnsureGateway(idle)) /\ Started(idle)
      BY <1>2, <1>7, <2>5 DEF Started
    <3> QED BY <1>0, <2>3, <3>1, EnsureDone
  <2> QED BY <2>4, <2>5
<1> QED BY <1>5, <1>6, <1>7

\* The last client has gone.
LEMMA ClientDisconnectedStep ==
  ASSUME Inv, NEW s \in RelaySockets, ClientDisconnected(s)
  PROVE  Done
<1> DEFINE w == DropStaleIdle([World EXCEPT !.rt.handshakeStarted = FALSE,
                                            !.rt.clientCount = 0])
<1>1. /\ arrived' = arrived
      /\ Become(IF IsGatewayOpen(w) /\ ~ShouldKeepGateway(w)
                THEN CloseGateway(w, FALSE) ELSE EnsureGateway(w))
  BY DEF ClientDisconnected
<1> HIDE DEF w
<1>2. /\ Sound(w, arrived) /\ Relay(w) /\ Calm(w, World) /\ w.full = FALSE
      /\ IsGatewayOpen(w) => ~ShouldKeepGateway(w)
  BY WorldIs, IdleIs DEF w, Inv
<1>3. CASE IsGatewayOpen(w)
  <2>1. Become(CloseGateway(w, FALSE))
    BY <1>1, <1>2, <1>3
  <2> QED BY <1>1, <1>2, <1>3, <2>1, CloseDone
<1>4. CASE ~IsGatewayOpen(w)
  <2>1. Become(EnsureGateway(w)) /\ Started(w)
    BY <1>1, <1>4 DEF Started
  <2> QED BY <1>1, <1>2, <2>1, EnsureDone
<1> QED BY <1>3, <1>4

\* An arrival keeps what is sound of the frames before it.
LEMMA ArrivalIs ==
  ASSUME NEW a, NEW w, Typed(w, a), NEW kind \in Kinds, Fed(w, a)
  PROVE  /\ Append(a, kind) \in Seq(Kinds)
         /\ DOMAIN Append(a, kind) = 1..(Len(a) + 1)
         /\ DOMAIN a = 1..Len(a) /\ Len(a) \in Nat
         /\ Append(a, kind)[Len(a) + 1] = kind
         /\ \A i \in DOMAIN a : Append(a, kind)[i] = a[i]
         /\ Fed(w, Append(a, kind))
<1> DEFINE b == Append(a, kind)
<1>1. /\ b \in Seq(Kinds) /\ DOMAIN b = 1..(Len(a) + 1) /\ DOMAIN a = 1..Len(a)
      /\ Len(a) \in Nat /\ b[Len(a) + 1] = kind
      /\ \A i \in DOMAIN a : b[i] = a[i]
  BY DEF Typed
<1> HIDE DEF b
<1>2. DOMAIN a \subseteq DOMAIN b
  BY <1>1
<1>3. ASSUME NEW c \in GatewaySockets, w.given[c] # <<>>
      PROVE  w.given[c][1] \in DOMAIN a
  <2>1. w.given[c] \in Seq(1..MaxFrames)
    BY DEF Typed, Worlds
  <2>2. 1 \in DOMAIN w.given[c]
    BY <1>3, <2>1
  <2> QED BY <2>2 DEF Fed
<1>4. Fed(w, b)
  BY <1>1, <1>2, <1>3 DEF Fed
<1> QED BY <1>1, <1>4 DEF b

\* A frame goes behind the queue of a world whose gateway is not open, or where
\* no session has started and the frame is data.
LEMMA PushOutcome ==
  ASSUME NEW a, NEW w, Sound(w, a), Relay(w), Pursued(w), Started(w),
         w.rt.closeBoundary \/ (~w.rt.stopped /\ IsRelayOpen(w)) => w.rt.gatewaySocket # None,
         NEW kind \in Kinds, Len(a) < MaxFrames,
         IsGatewayOpen(w) => kind = "data" /\ ~w.rt.handshakeStarted,
         NEW v, v = Push(w, [kind |-> kind, at |-> Len(a) + 1]),
         NEW o, Aside(w, o), Len(o.rt.pending) <= MaxPending, o.rt.pending \in Seq(Message)
  PROVE  /\ Outcome(v, o, Append(a, kind))
         /\ v.full = w.full /\ v \in Worlds
<1> DEFINE b == Append(a, kind)
<1>1. /\ Typed(w, a) /\ w.rt \in Runtime /\ w.spent \subseteq DOMAIN a
      /\ Queued(w.rt.pending, a, w.spent)
  BY DEF Sound, Typed, Worlds, Fed
<1>2. /\ Typed(v, b)
      /\ v.rt = [w.rt EXCEPT !.pending = v.rt.pending]
      /\ v.sock = w.sock /\ v.given = w.given /\ v.spent = w.spent
      /\ v.alone = w.alone /\ v.full = w.full
      /\ Queued(v.rt.pending, b, v.spent)
      /\ kind = "data" /\ ConnectRequests(w.rt.pending) = {} =>
           ConnectRequests(v.rt.pending) = {}
      /\ Len(w.rt.pending) < MaxPending =>
           WaitingConnects(w.rt.pending) \subseteq WaitingConnects(v.rt.pending)
  <2>1. Pushed(v, w, kind, a)
    BY <1>1, PushIs
  <2> QED BY <2>1 DEF Pushed
<1>3. Fed(w, b)
  BY <1>1, ArrivalIs DEF Sound
<1> HIDE DEF b
<1>4. /\ v.rt.stopped = w.rt.stopped /\ v.rt.relaySocket = w.rt.relaySocket
      /\ v.rt.gatewaySocket = w.rt.gatewaySocket
      /\ v.rt.reconnectTimer = w.rt.reconnectTimer
      /\ v.rt.relayConnecting = w.rt.relayConnecting
      /\ v.rt.gatewayRetryTimer = w.rt.gatewayRetryTimer
      /\ v.rt.gatewayConnecting = w.rt.gatewayConnecting
      /\ v.rt.closeBoundary = w.rt.closeBoundary
      /\ v.rt.handshakeStarted = w.rt.handshakeStarted
  <2> DEFINE p == v.rt.pending
  <2>1. v.rt = [w.rt EXCEPT !.pending = p]
    BY <1>2
  <2> HIDE DEF p
  <2> QED BY ONLY <2>1, <1>1 DEF Runtime
<1>5. /\ IsGatewayOpen(v) <=> IsGatewayOpen(w)
      /\ IsRelayOpen(v) <=> IsRelayOpen(w)
  BY <1>2, <1>4 DEF IsGatewayOpen, IsRelayOpen, IsOpen
<1>6. AtRest(v) /\ Used(v)
  BY <1>2, <1>4 DEF Sound, AtRest, Used
<1>7. Gateway(v)
  BY <1>2, <1>4, <1>5 DEF Sound, Gateway
<1>8. Fed(v, b)
  BY <1>2, <1>3 DEF Fed
<1>9. Flushed(v)
  BY <1>2, <1>4, <1>5 DEF Sound, Flushed
<1>10. Sound(v, b)
  BY <1>2, <1>6, <1>7, <1>8, <1>9 DEF Sound
<1>11. Relay(v)
  BY <1>2, <1>4 DEF Relay
<1>12. Pursued(v)
  BY <1>4, <1>5 DEF Pursued
<1>13. Started(v)
  BY <1>2, <1>4, <1>5 DEF Started
<1>14. Quiet(v, o) /\ StaysStopped(v, o)
  BY <1>2, <1>4 DEF Aside, Quiet, StaysStopped
<1>15. ConnectsKept(v, o, b)
  <2>1. Len(o.rt.pending) \in Nat /\ MaxPending \in Nat /\ w.rt.pending = o.rt.pending
    BY BoundsAssumption DEF Aside
  <2>2. CASE Len(o.rt.pending) = MaxPending
    BY <2>2 DEF ConnectsKept
  <2>3. CASE Len(o.rt.pending) # MaxPending
    <3>1. Len(w.rt.pending) < MaxPending
      BY <2>1, <2>3
    <3>2. WaitingConnects(o.rt.pending) \subseteq WaitingConnects(v.rt.pending)
      BY <1>2, <2>1, <3>1
    <3> QED BY <3>2 DEF ConnectsKept
  <2> QED BY <2>2, <2>3
<1>16. v.full = w.full /\ v \in Worlds
  BY <1>2 DEF Typed
<1> QED BY <1>10, <1>11, <1>12, <1>13, <1>14, <1>15, <1>16 DEF Outcome, b

\* A frame is sent to the gateway in a session: one that has started, or that
\* starts with it.
LEMMA GiveOutcome ==
  ASSUME NEW a, NEW w, Sound(w, a), Relay(w), Pursued(w), IsGatewayOpen(w),
         NEW kind \in Kinds, Len(a) < MaxFrames,
         kind = "connect" \/ w.rt.handshakeStarted,
         NEW v, v = Give([w EXCEPT !.rt.handshakeStarted = TRUE],
                         <<[kind |-> kind, at |-> Len(a) + 1]>>)
  PROVE  /\ Outcome(v, w, Append(a, kind))
         /\ v \in Worlds
<1> DEFINE b == Append(a, kind)
           c == w.rt.gatewaySocket
           n == Len(a) + 1
           m == [kind |-> kind, at |-> n]
           r == [w.rt EXCEPT !.handshakeStarted = TRUE]
           x == [w EXCEPT !.rt.handshakeStarted = TRUE]
           q == <<m>>
<1>1. /\ Typed(w, a) /\ w \in Worlds /\ w.rt \in Runtime /\ w.spent \subseteq DOMAIN a
      /\ Queued(w.rt.pending, a, w.spent) /\ Fed(w, a) /\ a \in Seq(Kinds)
      /\ w.rt.pending \in Seq(Message)
  BY DEF Sound, Typed, Worlds, Fed, Runtime
<1>2. c \in GatewaySockets /\ c # None /\ w.sock[c] = "open"
  BY <1>1 DEF IsGatewayOpen, IsOpen, Runtime
<1>3. /\ b \in Seq(Kinds) /\ DOMAIN b = 1..n /\ DOMAIN a = 1..Len(a) /\ Len(a) \in Nat
      /\ b[n] = kind /\ \A i \in DOMAIN a : b[i] = a[i]
      /\ Fed(w, b)
  BY <1>1, ArrivalIs
<1>4. m \in Message /\ m.at = n /\ n \in 1..MaxFrames /\ Queued(w.rt.pending, b, w.spent)
  <2>1. m \in Message /\ Queued(w.rt.pending, b, w.spent)
    BY <1>1, QueuedAppend
  <2>2. n \in 1..MaxFrames
    BY <1>3, BoundsAssumption
  <2> QED BY <2>1, <2>2
<1> HIDE DEF b
<1>5. r \in Runtime /\ SameSockets(r, w.rt) /\ r.handshakeStarted /\ r.pending = w.rt.pending
      /\ r.clientCount = w.rt.clientCount
  BY <1>1 DEF Runtime, SameSockets
<1>6. x = [w EXCEPT !.rt = r]
  BY <1>1 DEF Worlds
<1> HIDE DEF r, x, m, n, c
<1>7. Fields(x, w, r)
  BY <1>1, <1>5, <1>6, FieldsIs
<1>8. q \in Seq(Message) /\ DOMAIN q = {1} /\ q[1] = m
  BY <1>4
<1> HIDE DEF q
<1>9. Gives(v, x, c, q)
  <2>1. x \in Worlds /\ x.rt.gatewaySocket = c /\ c # None
    BY <1>2, <1>5, <1>7 DEF Fields, SameSockets, c
  <2>2. v = Give(x, q)
    BY DEF x, q, m, n
  <2> QED BY ONLY <1>8, <2>1, <2>2, GiveIs
<1>10. [i \in DOMAIN q |-> q[i].at] = <<n>> /\ {q[i].at : i \in DOMAIN q} = {n}
  <2>1. <<n>> = [i \in {1} |-> n]
    OBVIOUS
  <2>2. \A i \in DOMAIN q : q[i].at = n
    BY <1>4, <1>8
  <2> QED BY <1>8, <2>1, <2>2
<1> DEFINE g == w.given[c]
<1>11. /\ v \in Worlds /\ v.rt = r /\ v.sock = w.sock /\ v.alone = w.alone
       /\ v.given[c] = g \o <<n>>
       /\ \A d \in GatewaySockets \ {c} : v.given[d] = w.given[d]
       /\ v.spent = w.spent \cup {n}
  BY <1>7, <1>9, <1>10 DEF Fields, Gives
<1>12. /\ g \in Seq(1..MaxFrames) /\ Channel!Increasing(g)
       /\ \A i \in DOMAIN g : g[i] \in w.spent
       /\ g # <<>> => b[g[1]] = "connect"
  BY <1>1, <1>2, <1>3 DEF Fed, Worlds
<1> DEFINE h == g \o <<n>>
<1> HIDE DEF g
<1>13. /\ h \in Seq(1..MaxFrames) /\ Len(h) = Len(g) + 1 /\ Len(g) \in Nat
       /\ DOMAIN h = 1..(Len(g) + 1) /\ DOMAIN g = 1..Len(g)
       /\ \A i \in DOMAIN g : h[i] = g[i]
       /\ h[Len(g) + 1] = n
       /\ SubSeq(h, 1, Len(g)) = g
       /\ h # <<>>
  <2>1. \A k \in 1..MaxFrames : \A z \in Seq(1..MaxFrames) :
          /\ z \o <<k>> \in Seq(1..MaxFrames) /\ Len(z \o <<k>>) = Len(z) + 1
          /\ Len(z) \in Nat /\ DOMAIN (z \o <<k>>) = 1..(Len(z) + 1)
          /\ DOMAIN z = 1..Len(z)
          /\ \A i \in DOMAIN z : (z \o <<k>>)[i] = z[i]
          /\ (z \o <<k>>)[Len(z) + 1] = k
          /\ z \o <<k>> # <<>>
    OBVIOUS
  <2>2. \A k \in 1..MaxFrames : \A z \in Seq(1..MaxFrames) :
          SubSeq(z \o <<k>>, 1, Len(z)) = z
    OBVIOUS
  <2> QED BY <1>4, <1>12, <2>1, <2>2
<1> HIDE DEF h
<1>14. \A i \in DOMAIN g : g[i] < n
  BY <1>1, <1>3, <1>12 DEF n
<1>15. Channel!Increasing(h)
  <2>1. ASSUME NEW i \in DOMAIN h, NEW j \in DOMAIN h, i < j PROVE h[i] < h[j]
    <3>1. i \in DOMAIN g /\ (j \in DOMAIN g \/ j = Len(g) + 1)
      BY <1>13, <2>1
    <3>2. CASE j \in DOMAIN g
      BY <3>1, <3>2, <2>1, <1>12, <1>13 DEF Channel!Increasing
    <3>3. CASE j = Len(g) + 1
      BY <3>1, <3>3, <1>13, <1>14
    <3> QED BY <3>1, <3>2, <3>3
  <2> QED BY <2>1 DEF Channel!Increasing
<1>16. b[h[1]] = "connect"
  <2>1. CASE g = <<>>
    <3>1. Len(g) = 0 /\ h[1] = n
      BY <2>1, <1>13
    <3>2. kind = "connect"
      BY <2>1 DEF Sound, Flushed, g, c
    <3> QED BY <3>1, <3>2, <1>3
  <2>2. CASE g # <<>>
    <3>1. 1 \in DOMAIN g
      BY <2>2, <1>12
    <3> QED BY <2>2, <3>1, <1>12, <1>13
  <2> QED BY <2>1, <2>2
<1>17. /\ n \notin DOMAIN a /\ n \in DOMAIN b
  BY <1>3 DEF n
<1>18. Channel!ToSet(h) = Channel!ToSet(g) \cup {n}
  <2>1. /\ \A i \in DOMAIN h : i \in DOMAIN g \/ i = Len(g) + 1
        /\ Len(g) + 1 \in DOMAIN h /\ DOMAIN g \subseteq DOMAIN h
    BY ONLY <1>13
  <2>2. /\ \A i \in DOMAIN h : h[i] \in Channel!ToSet(g) \cup {n}
        /\ n \in Channel!ToSet(h)
        /\ \A i \in DOMAIN g : g[i] \in Channel!ToSet(h)
    BY ONLY <1>13, <2>1 DEF Channel!ToSet
  <2> QED BY ONLY <2>2 DEF Channel!ToSet
<1>19. n \notin Channel!ToSet(g)
  BY <1>1, <1>12, <1>17 DEF Channel!ToSet
<1>20. Fills(v, w, c, b)
  <2>1. Channel!ToSet(h) \ Channel!ToSet(g) = {n}
    BY <1>18, <1>19
  <2>2. Len(g) < Len(h)
    BY <1>13
  <2>3. n \notin w.spent
    BY <1>1, <1>17
  <2>4. v.given[c] = h /\ w.given[c] = g
    BY <1>11 DEF g, h
  <2>5. {n} \subseteq (DOMAIN b) \ w.spent
    BY <1>17, <2>3
  <2>6. /\ \A d \in GatewaySockets \ {c} : v.given[d] = w.given[d]
        /\ v.spent = w.spent \cup {n}
        /\ SubSeq(h, 1, Len(g)) = g
    BY <1>11, <1>13
  <2> QED BY ONLY <2>1, <2>2, <2>4, <2>5, <2>6, <1>15, <1>16 DEF Fills
<1>21. IsGatewayOpen(v) /\ v.rt.gatewaySocket = c
  BY <1>2, <1>5, <1>11 DEF SameSockets, IsGatewayOpen, IsOpen, c
<1>22. /\ v.rt.stopped = w.rt.stopped /\ v.rt.reconnectTimer = w.rt.reconnectTimer
       /\ v.rt.relaySocket = w.rt.relaySocket
       /\ v.rt.relayConnecting = w.rt.relayConnecting
       /\ v.rt.gatewaySocket = w.rt.gatewaySocket
       /\ v.rt.gatewayConnecting = w.rt.gatewayConnecting
       /\ v.rt.closeBoundary = w.rt.closeBoundary
       /\ v.rt.gatewayRetryTimer = w.rt.gatewayRetryTimer
       /\ v.rt.pending = w.rt.pending /\ v.rt.handshakeStarted
       /\ v.sock = w.sock /\ v.alone = w.alone
  BY ONLY <1>5, <1>11 DEF SameSockets
<1>23. Typed(v, b) /\ AtRest(v) /\ Used(v)
  <2>1. AtRest(w) /\ Used(w) /\ Len(w.rt.pending) <= MaxPending
    BY DEF Sound, Typed
  <2>2. Typed(v, b)
    BY ONLY <1>3, <1>11, <1>22, <2>1 DEF Typed
  <2>3. AtRest(v)
    BY ONLY <1>22, <2>1 DEF AtRest
  <2>4. Used(v)
    BY ONLY <1>22, <2>1 DEF Used
  <2> QED BY <2>2, <2>3, <2>4
<1>24. Gateway(v)
  <2>1. IsGatewayOpen(v) <=> IsGatewayOpen(w)
    BY <1>21
  <2>2. Gateway(w)
    BY DEF Sound
  <2> QED BY ONLY <2>1, <2>2, <1>22 DEF Gateway
<1>25. Queued(v.rt.pending, b, v.spent)
  <2>1. \A i \in DOMAIN w.rt.pending : w.rt.pending[i].at # n
    BY <1>1, <1>17 DEF Queued
  <2>2. v.rt.pending = w.rt.pending /\ v.spent = w.spent \cup {n}
    BY <1>5, <1>11
  <2>3. /\ \A i, j \in DOMAIN w.rt.pending : i < j => w.rt.pending[i].at < w.rt.pending[j].at
        /\ \A i \in DOMAIN w.rt.pending :
             /\ w.rt.pending[i].at \in (DOMAIN b) \ w.spent
             /\ b[w.rt.pending[i].at] = w.rt.pending[i].kind
    BY <1>4 DEF Queued
  <2>4. \A i \in DOMAIN w.rt.pending :
             w.rt.pending[i].at \in (DOMAIN b) \ (w.spent \cup {n})
    BY <2>1, <2>3
  <2> QED BY <2>2, <2>3, <2>4 DEF Queued
<1>26. Fed(v, b)
  <2>1. v.spent \subseteq DOMAIN b
    BY <1>3, <1>11, <1>17 DEF Fed
  <2>2. ASSUME NEW d \in GatewaySockets
        PROVE  /\ Channel!Increasing(v.given[d])
               /\ \A i \in DOMAIN v.given[d] : v.given[d][i] \in v.spent
               /\ v.given[d] # <<>> => b[v.given[d][1]] = "connect"
               /\ v.sock[d] \in {"free", "connecting", "aborted"} => v.given[d] = <<>>
    <3>1. CASE d = c
      <4>1. v.given[d] = h
        BY <3>1, <1>11 DEF h, g
      <4>2. \A i \in DOMAIN h : h[i] \in v.spent
        <5>1. ASSUME NEW i \in DOMAIN h PROVE h[i] \in v.spent
          <6>1. CASE i \in DOMAIN g
            BY <6>1, <1>11, <1>12, <1>13
          <6>2. CASE i \notin DOMAIN g
            <7>1. i = Len(g) + 1
              BY <6>2, <1>13
            <7> QED BY <7>1, <1>11, <1>13
          <6> QED BY <6>1, <6>2
        <5> QED BY <5>1
      <4> QED BY <3>1, <4>1, <4>2, <1>2, <1>11, <1>15, <1>16
    <3>2. CASE d # c
      <4>1. v.given[d] = w.given[d] /\ v.sock[d] = w.sock[d] /\ w.spent \subseteq v.spent
        BY <3>2, <1>11
      <4>2. Fed(w, b)
        BY <1>3
      <4> QED BY ONLY <4>1, <4>2, <2>2 DEF Fed
    <3> QED BY <3>1, <3>2
  <2> QED BY <2>1, <2>2 DEF Fed
<1>27. Flushed(v) /\ Started(v)
  <2>1. v.given[c] # <<>> /\ v.rt.handshakeStarted
    BY <1>5, <1>11, <1>13 DEF h, g
  <2>2. ConnectRequests(v.rt.pending) = {}
    BY <1>22 DEF Sound, Flushed
  <2> QED BY <2>1, <2>2, <1>21 DEF Flushed, Started
<1>28. Relay(v)
  BY <1>22, RelaySame
<1>29. Pursued(v)
  BY <1>2, <1>21 DEF Pursued
<1>30. ConnectsKept(v, w, b)
  BY <1>5, <1>11 DEF ConnectsKept
<1>31. StaysStopped(v, w)
  <2>1. ~w.rt.stopped
    BY <1>2 DEF Sound, AtRest, c
  <2> QED BY <2>1 DEF StaysStopped
<1>32. Sound(v, b)
  BY <1>23, <1>24, <1>25, <1>26, <1>27 DEF Sound
<1> QED BY <1>2, <1>11, <1>20, <1>27, <1>28, <1>29, <1>30, <1>31, <1>32 DEF Outcome, b

\* A frame arrives: it is queued, or sent to a gateway that is open.
LEMMA RelayFrameStep ==
  ASSUME Inv, NEW s \in RelaySockets, NEW kind \in Kinds, RelayFrame(s, kind)
  PROVE  Done
<1> DEFINE m == [kind |-> kind, at |-> Len(arrived) + 1]
           v == ForwardOrQueue(World, m)
<1>1. arrived' = Append(arrived, kind) /\ Len(arrived) < MaxFrames /\ Become(v)
  <2>1. arrived' = Append(arrived, kind) /\ Len(arrived) < MaxFrames
    BY DEF RelayFrame
  <2>2. Len(arrived') = Len(arrived) + 1
    BY <2>1, InvWorld
  <2> QED BY <2>1, <2>2 DEF RelayFrame
<1>2. /\ Sound(World, arrived) /\ Relay(World) /\ Pursued(World) /\ Started(World)
      /\ World.full = FALSE /\ Typed(World, arrived)
      /\ Len(World.rt.pending) <= MaxPending /\ World.rt.pending \in Seq(Message)
  BY WorldIs, InvWorld DEF Inv, Sound, Typed, Runtime
<1>3. IsData(m) <=> kind = "data"
  BY DEF IsData, IsConnect, Kinds
<1>4. Aside(World, World)
  BY DEF Aside
<1>5. CASE World.rt.closeBoundary
  <2>1. v = Push(World, m)
    BY <1>5 DEF ForwardOrQueue
  <2>2. World.rt.gatewaySocket # None /\ ~IsGatewayOpen(World)
    BY <1>2, <1>5 DEF Sound, Gateway
  <2> HIDE DEF v
  <2>3. Outcome(v, World, Append(arrived, kind)) /\ v \in Worlds
    BY <1>1, <1>2, <1>4, <2>1, <2>2, PushOutcome
  <2> QED BY <1>1, <2>3 DEF Done
<1>6. CASE ~World.rt.closeBoundary /\ ~IsGatewayOpen(World)
  <2> DEFINE u == EnsureGateway(World)
  <2>1. v = Push(u, m)
    BY <1>6 DEF ForwardOrQueue
  <2>2. ~v.full
    BY <1>1 DEF Become
  <2>3. ~u.full
    <3>1. SUFFICES ASSUME u.full PROVE FALSE
      OBVIOUS
    <3>2. u = [World EXCEPT !.full = TRUE]
      <4> DEFINE t == CHOOSE t \in GatewaySockets : World.sock[t] = "free"
                 alone_ == Free(World, GatewaySockets) = GatewaySockets
      <4>1. \/ u = World \/ u = [World EXCEPT !.full = TRUE]
            \/ u = [World EXCEPT !.sock[t] = "connecting", !.given[t] = <<>>,
                       !.rt.gatewaySocket = t, !.rt.gatewayConnecting = TRUE,
                       !.alone = alone_]
        BY DEF EnsureGateway
      <4> HIDE DEF t, alone_, u, v
      <4> QED BY <3>1, <4>1 DEF World
    <3> HIDE DEF u, v
    <3>3. u.full = TRUE /\ Push(u, m).full = u.full
      BY <3>2 DEF Push, World
    <3> QED BY <2>1, <2>2, <3>3
  <2> HIDE DEF v, u
  <2>4. /\ Sound(u, arrived) /\ Pursued(u) /\ Aside(u, World) /\ Started(u)
        /\ ~IsGatewayOpen(u)
        /\ ~u.rt.stopped /\ IsRelayOpen(u) => u.rt.gatewaySocket # None
    BY <1>2, <1>6, <2>3, EnsureGatewayIs DEF u
  <2>5. Relay(u)
    BY <1>2, <2>4, AsideRelay
  <2>6. u.rt.closeBoundary => u.rt.gatewaySocket # None
    BY <2>4 DEF Sound, Gateway
  <2>7. Outcome(v, World, Append(arrived, kind)) /\ v \in Worlds
    BY <1>1, <1>2, <2>1, <2>4, <2>5, <2>6, PushOutcome
  <2> QED BY <1>1, <2>7 DEF Done
<1>7. CASE ~World.rt.closeBoundary /\ IsGatewayOpen(World)
  <2>1. CASE ~World.rt.handshakeStarted /\ IsData(m)
    <3>1. v = Push(World, m)
      BY <1>7, <2>1 DEF ForwardOrQueue
    <3>2. World.rt.gatewaySocket # None
      BY <1>7 DEF IsGatewayOpen, IsOpen
    <3> HIDE DEF v
    <3>3. Outcome(v, World, Append(arrived, kind)) /\ v \in Worlds
      BY <1>1, <1>2, <1>3, <1>4, <2>1, <3>1, <3>2, PushOutcome
    <3> QED BY <1>1, <3>3 DEF Done
  <2>2. CASE World.rt.handshakeStarted \/ ~IsData(m)
    <3>1. v = Give([World EXCEPT !.rt.handshakeStarted = TRUE], <<m>>)
      BY <1>7, <2>2 DEF ForwardOrQueue
    <3> HIDE DEF v
    <3>2. kind = "connect" \/ World.rt.handshakeStarted
      BY <1>3, <2>2 DEF Kinds
    <3>3. Outcome(v, World, Append(arrived, kind)) /\ v \in Worlds
      BY <1>1, <1>2, <1>7, <3>1, <3>2, GiveOutcome
    <3> QED BY <1>1, <3>3 DEF Done
  <2> QED BY <2>1, <2>2
<1> QED BY <1>5, <1>6, <1>7

-----------------------------------------------------------------------------
(* Steps of the gateway socket *)

\* The gateway opens: its socket is current and is fed the queue, or it is closed
\* again.
LEMMA GatewayOpenedStep ==
  ASSUME Inv, NEW s \in GatewaySockets, GatewayOpened(s)
  PROVE  Done
<1> DEFINE w == [World EXCEPT !.sock[s] = "open"]
<1>0. /\ sock[s] = "connecting" /\ arrived' = arrived
      /\ s \in Sockets /\ s \notin RelaySockets /\ s # None
  BY SocketsApart DEF GatewayOpened
<1>1. CASE ~IsCurrentGateway(s)
  <2> DEFINE v == [World EXCEPT !.sock = [sock EXCEPT ![s] = "closing"]]
  <2>1. Become(CloseSocket(w, s))
    BY <1>1 DEF GatewayOpened
  <2>2. Become(v)
    BY <1>0, <2>1, OpenedShut
  <2>3. v \in Worlds /\ Outcome(v, World, arrived)
    BY <1>0, ShutStep
  <2> QED BY <1>0, <2>2, <2>3 DEF Done
<1>2. CASE IsCurrentGateway(s)
  <2> DEFINE v == GatewayReady(w)
  <2>1. Become(v)
    BY <1>2 DEF GatewayOpened
  <2>2. ~rt.stopped /\ rt.gatewaySocket = s
    BY <1>2 DEF IsCurrentGateway
  <2>3. /\ w.sock = [sock EXCEPT ![s] = "open"] /\ w.rt = rt /\ w.given = given
        /\ w.spent = spent /\ w.alone = alone /\ w.full = FALSE /\ w \in Worlds
    BY <1>0, InvWorld, WorldIs DEF World, Worlds, SocketStates
  <2> HIDE DEF v, w
  <2>4. /\ w.sock[s] = "open" /\ \A t \in Sockets : t # s => w.sock[t] = sock[t]
        /\ \A t \in RelaySockets : w.sock[t] = sock[t]
    BY <1>0, <2>3, InvWorld, SocketsApart
  <2>5. Typed(w, arrived)
    BY <2>3, WorldIs DEF Inv, Sound, Typed
  <2>6. Used(w)
    BY <2>2, <2>3, <2>4, WorldIs DEF Inv, Sound, Used
  <2>7. Fed(w, arrived) /\ w.given[s] = <<>>
    BY <1>0, <2>3, <2>4, WorldIs, SocketsApart DEF Inv, Sound, Fed
  <2>8. w.alone => \A t \in GatewaySockets \ {s} : w.sock[t] = "free"
    BY <1>0, <2>2, <2>3, <2>4, WorldIs, SocketsApart DEF Inv, Sound, Gateway
  <2>9. Queued(w.rt.pending, arrived, w.spent)
    BY <2>3, WorldIs DEF Inv, Sound
  <2>10. Ready(v, w, s, arrived)
    BY <2>2, <2>3, <2>4, <2>5, <2>6, <2>7, <2>8, <2>9, GatewayReadyIs DEF v
  <2>11. Relay(v)
    <3>1. Relay(World)
      BY DEF Inv
    <3>2. /\ ~World.rt.stopped
          /\ v.rt.reconnectTimer = World.rt.reconnectTimer
          /\ v.rt.relaySocket = World.rt.relaySocket
          /\ v.rt.relayConnecting = World.rt.relayConnecting
          /\ \A t \in RelaySockets : v.sock[t] = World.sock[t]
      BY <2>2, <2>3, <2>4, <2>10, WorldIs DEF Ready
    <3> QED BY ONLY <3>1, <3>2, RelaySame
  <2>12. Quiet(v, World) \/ Fills(v, World, s, arrived)
    <3>1. v.given[s] \in Seq(1..MaxFrames) /\ given[s] = <<>>
      BY <2>3, <2>7, <2>10 DEF Ready, Sound, Typed, Worlds
    <3>2. CASE v.given[s] = <<>>
      <4>1. Channel!ToSet(v.given[s]) = {}
        BY <3>2 DEF Channel!ToSet
      <4> QED BY <3>1, <3>2, <4>1, <2>3, <2>10, WorldIs DEF Ready, Quiet
    <3>3. CASE v.given[s] # <<>>
      <4> DEFINE g == v.given[s]
      <4>1. Len(given[s]) = 0 /\ 0 < Len(g) /\ SubSeq(g, 1, 0) = <<>>
            /\ Channel!ToSet(given[s]) = {}
        BY <3>1, <3>3 DEF Channel!ToSet
      <4>2. Channel!Increasing(g)
        BY <2>10 DEF Ready, Sound, Fed
      <4>3. Channel!ToSet(g) \ Channel!ToSet(given[s]) = Channel!ToSet(g)
        BY <4>1
      <4>4. arrived[g[1]] = "connect" /\ Channel!ToSet(g) \subseteq (DOMAIN arrived) \ spent
            /\ v.spent = spent \cup Channel!ToSet(g)
            /\ \A t \in GatewaySockets \ {s} : v.given[t] = given[t]
        BY <2>3, <2>10, <3>3 DEF Ready
      <4> HIDE DEF g
      <4>5. g = v.given[s]
        BY DEF g
      <4> QED BY <3>1, <4>1, <4>2, <4>3, <4>4, <4>5, WorldIs DEF Fills
    <3> QED BY <3>2, <3>3
  <2>13. ConnectsKept(v, World, arrived)
    <3> DEFINE q == rt.pending
    <3>1. q \in Seq(Message) /\ Queued(q, arrived, spent)
      BY InvWorld, WorldIs DEF Inv, Sound, Runtime
    <3>2. SUFFICES ASSUME NEW n \in WaitingConnects(q)
                   PROVE  \/ n \in v.spent
                          \/ \E m \in v.spent : m > n /\ arrived[m] = "connect"
      BY WorldIs DEF ConnectsKept
    <3>3. PICK i \in ConnectRequests(q) : n = q[i].at
      BY DEF WaitingConnects
    <3> HIDE DEF q
    <3> DEFINE latest == LatestConnect(q)
    <3>4. /\ latest \in ConnectRequests(q) /\ latest \in 1..Len(q) /\ i <= latest
          /\ i \in DOMAIN q /\ latest \in DOMAIN q /\ DOMAIN q = 1..Len(q) /\ Len(q) \in Nat
      <4>1. /\ latest \in ConnectRequests(q) /\ latest \in 1..Len(q) /\ i <= latest
        BY <3>1, <3>3, LatestIs
      <4> QED BY <3>1, <3>3, <4>1 DEF ConnectRequests
    <3>5. q[latest].at \in v.spent
      BY <2>3, <2>10, <3>3 DEF Ready, q
    <3> HIDE DEF latest
    <3>6. i = latest \/ i < latest
      BY <3>4
    <3>7. i < latest => q[latest].at > q[i].at
      <4>1. q[latest] \in Message /\ q[i] \in Message
        BY <3>1, <3>4
      <4>2. q[latest].at \in Int /\ q[i].at \in Int
        BY <4>1 DEF Message
      <4>3. i < latest => q[i].at < q[latest].at
        BY <3>1, <3>4 DEF Queued
      <4> QED BY <4>2, <4>3
    <3>8. arrived[q[latest].at] = "connect"
      BY <3>1, <3>4 DEF Queued, ConnectRequests, IsConnect
    <3> QED BY <3>3, <3>5, <3>6, <3>7, <3>8
  <2>14. StaysStopped(v, World)
    BY <2>2, WorldIs DEF StaysStopped
  <2>15. Outcome(v, World, arrived) /\ v \in Worlds
    BY <2>10, <2>11, <2>12, <2>13, <2>14 DEF Ready, Outcome, Sound, Typed
  <2> QED BY <1>0, <2>1, <2>15 DEF Done
<1> QED BY <1>1, <1>2

\* The gateway closes: it is asked for again at a boundary, or its retry is set.
LEMMA GatewayClosedStep ==
  ASSUME Inv, NEW s \in GatewaySockets, GatewayClosed(s)
  PROVE  Done
<1> DEFINE x == GatewayGone(World, s)
           next == IF rt.gatewaySocket = s THEN None ELSE rt.gatewaySocket
           rx == [rt EXCEPT !.gatewaySocket = next, !.gatewayConnecting = FALSE,
                            !.handshakeStarted = FALSE, !.closeBoundary = FALSE]
<1>0. /\ sock[s] \in {"connecting", "aborted", "closing"} /\ arrived' = arrived
      /\ s \in Sockets /\ s \notin RelaySockets /\ s # None
      /\ Become(IF rt.closeBoundary /\ ShouldKeepGateway(World)
                THEN EnsureGateway(x) ELSE ScheduleGatewayReconnect(x))
  BY SocketsApart DEF GatewayClosed
<1>1. rx \in Runtime
  BY InvWorld DEF Runtime
<1>2. /\ rx.pending = rt.pending /\ rx.stopped = rt.stopped
      /\ rx.reconnectTimer = rt.reconnectTimer
      /\ rx.relaySocket = rt.relaySocket /\ rx.relayConnecting = rt.relayConnecting
      /\ rx.clientCount = rt.clientCount
      /\ rt.gatewaySocket = s => rx.gatewaySocket = None
      /\ rt.gatewaySocket # s => rx.gatewaySocket = rt.gatewaySocket
      /\ rx.gatewayConnecting = FALSE /\ rx.closeBoundary = FALSE
      /\ rx.handshakeStarted = FALSE
      /\ rx.gatewayRetryTimer = rt.gatewayRetryTimer
  BY InvWorld DEF Runtime
<1>3. /\ x.sock = [sock EXCEPT ![s] = "free"] /\ x.rt = rx
      /\ x.given = [given EXCEPT ![s] = <<>>]
      /\ x.spent = spent /\ x.alone = alone /\ x.full = FALSE
      /\ x = [sock |-> x.sock, rt |-> x.rt, given |-> x.given, spent |-> x.spent,
              alone |-> x.alone, full |-> x.full]
  <2>1. x = [World EXCEPT !.sock[s] = "free", !.given[s] = <<>>,
                          !.rt.gatewaySocket = next,
                          !.rt.gatewayConnecting = FALSE, !.rt.handshakeStarted = FALSE,
                          !.rt.closeBoundary = FALSE]
    BY WorldIs DEF GatewayGone, World
  <2>2. rx = [rt EXCEPT !.gatewaySocket = next, !.gatewayConnecting = FALSE,
                        !.handshakeStarted = FALSE, !.closeBoundary = FALSE]
    OBVIOUS
  <2> HIDE DEF next, x, rx
  <2>3. x = [World EXCEPT !.sock = [sock EXCEPT ![s] = "free"],
                          !.given = [given EXCEPT ![s] = <<>>], !.rt = rx]
    BY <2>1, <2>2 DEF World
  <2> QED BY <2>3 DEF World
<1> HIDE DEF rx, x, next
<1>4. x \in Worlds
  <2>1. <<>> \in Seq(1..MaxFrames)
    OBVIOUS
  <2>2. x.given \in [GatewaySockets -> Seq(1..MaxFrames)]
    BY <1>3, <2>1, InvWorld
  <2>3. x.sock \in [Sockets -> SocketStates]
    BY <1>3, InvWorld DEF SocketStates
  <2> QED BY <1>1, <1>3, <2>2, <2>3, InvWorld DEF Worlds
<1>5. /\ x.sock[s] = "free" /\ \A t \in Sockets : t # s => x.sock[t] = sock[t]
      /\ \A t \in RelaySockets : x.sock[t] = sock[t]
      /\ x.given[s] = <<>> /\ \A t \in GatewaySockets : t # s => x.given[t] = given[t]
  BY <1>0, <1>3, InvWorld, SocketsApart
<1>6. IsGatewayOpen(x) => IsGatewayOpen(World) /\ rt.gatewaySocket # s
  BY <1>2, <1>3, <1>5, WorldIs, InvWorld, SocketsApart DEF IsGatewayOpen, IsOpen
<1>7. Sound(x, arrived)
  <2>1. Typed(x, arrived)
    BY <1>2, <1>3, <1>4, WorldIs DEF Inv, Sound, Typed
  <2>2. AtRest(x)
    BY <1>0, <1>2, <1>3, WorldIs DEF Inv, Sound, AtRest
  <2>3. Used(x)
    BY <1>0, <1>2, <1>3, <1>5, WorldIs DEF Inv, Sound, Used
  <2>4. Gateway(x)
    BY <1>2, <1>3, <1>5, WorldIs, SocketsApart DEF Inv, Sound, Gateway
  <2>5. Fed(x, arrived)
    <3>1. ASSUME NEW c \in GatewaySockets
          PROVE  /\ Channel!Increasing(x.given[c])
                 /\ \A i \in DOMAIN x.given[c] : x.given[c][i] \in x.spent
                 /\ x.given[c] # <<>> => arrived[x.given[c][1]] = "connect"
                 /\ x.sock[c] \in {"free", "connecting", "aborted"} => x.given[c] = <<>>
      <4>1. CASE c = s
        <5>1. x.given[c] = <<>> /\ DOMAIN x.given[c] = {}
          BY <4>1, <1>5
        <5> QED BY <5>1 DEF Channel!Increasing
      <4>2. CASE c # s
        BY <4>2, <1>3, <1>5, WorldIs, SocketsApart DEF Inv, Sound, Fed
      <4> QED BY <4>1, <4>2
    <3>2. x.spent \subseteq DOMAIN arrived
      BY <1>3, WorldIs DEF Inv, Sound, Fed
    <3> QED BY <3>1, <3>2 DEF Fed
  <2>6. Flushed(x)
    BY <1>2, <1>3, <1>6, WorldIs DEF Inv, Sound, Flushed
  <2>7. Queued(x.rt.pending, arrived, x.spent)
    BY <1>2, <1>3, WorldIs DEF Inv, Sound
  <2> QED BY <2>1, <2>2, <2>3, <2>4, <2>5, <2>6, <2>7 DEF Sound
<1>8. Calm(x, World)
  BY <1>2, <1>3, <1>5, WorldIs DEF Calm, Quiet, StaysStopped
<1>9. Relay(x)
  BY <1>2, <1>3, <1>5, WorldIs DEF Inv, Relay
<1>10. Started(x)
  <2>1. SUFFICES ASSUME IsGatewayOpen(x), x.alone PROVE FALSE
    BY DEF Started
  <2>2. rt.gatewaySocket # None /\ rt.gatewaySocket # s /\ alone
    BY <1>3, <1>6, <2>1, WorldIs DEF IsGatewayOpen, IsOpen
  <2> QED BY <1>0, <2>2, WorldIs DEF Inv, Sound, Gateway
<1>11. CASE rt.closeBoundary /\ ShouldKeepGateway(World)
  <2>1. Become(EnsureGateway(x))
    BY <1>0, <1>11
  <2> QED BY <1>0, <1>7, <1>8, <1>9, <1>10, <2>1, EnsureDone
<1>12. CASE ~ (rt.closeBoundary /\ ShouldKeepGateway(World))
  <2> DEFINE v == ScheduleGatewayReconnect(x)
             wanted == ~x.rt.stopped /\ IsRelayOpen(x) /\ ShouldKeepGateway(x)
             r == [rx EXCEPT !.gatewayRetryTimer = TRUE]
  <2>1. Become(v)
    BY <1>0, <1>12
  <2>2. CASE wanted
    <3>1. v = [x EXCEPT !.rt = r]
      BY <1>3, <1>4, <2>2 DEF ScheduleGatewayReconnect, Worlds
    <3>2. /\ r \in Runtime /\ r.gatewayRetryTimer /\ r.stopped = FALSE
          /\ r.reconnectTimer = rx.reconnectTimer
          /\ r.relaySocket = rx.relaySocket /\ r.relayConnecting = rx.relayConnecting
          /\ r.gatewaySocket = rx.gatewaySocket /\ r.gatewayConnecting = rx.gatewayConnecting
          /\ r.closeBoundary = rx.closeBoundary /\ r.pending = rx.pending
          /\ r.clientCount = rx.clientCount /\ r.handshakeStarted = rx.handshakeStarted
      BY <1>1, <1>3, <2>2 DEF Runtime
    <3> HIDE DEF v, r
    <3>3. Fields(v, x, r)
      BY <1>4, <3>1, <3>2, FieldsIs
    <3>4. IsGatewayOpen(v) <=> IsGatewayOpen(x)
      BY <1>3, <3>2, <3>3 DEF Fields, IsGatewayOpen, IsOpen
    <3>5. Typed(v, arrived) /\ AtRest(v) /\ Used(v)
      BY <1>3, <1>7, <3>2, <3>3 DEF Sound, Fields, Typed, AtRest, Used
    <3>6. Gateway(v)
      BY <1>3, <1>7, <3>2, <3>3, <3>4 DEF Sound, Fields, Gateway
    <3>7. Fed(v, arrived) /\ Queued(v.rt.pending, arrived, v.spent)
      BY <1>3, <1>7, <3>2, <3>3 DEF Sound, Fields, Fed
    <3>8. Flushed(v)
      BY <1>3, <1>7, <3>2, <3>3, <3>4 DEF Sound, Fields, Flushed
    <3>9. Started(v)
      BY <1>3, <1>10, <3>2, <3>3, <3>4 DEF Fields, Started
    <3>10. Relay(v)
      <4>1. /\ x.rt.stopped => v.rt.stopped
            /\ v.rt.reconnectTimer = x.rt.reconnectTimer
            /\ v.rt.relaySocket = x.rt.relaySocket
            /\ v.rt.relayConnecting = x.rt.relayConnecting
            /\ \A t \in RelaySockets : v.sock[t] = x.sock[t]
        BY <1>3, <2>2, <3>2, <3>3 DEF Fields
      <4> QED BY ONLY <1>9, <4>1, RelaySame
    <3>11. Pursued(v)
      BY <3>2, <3>3 DEF Fields, Pursued
    <3>12. Calm(v, x)
      BY <1>3, <2>2, <3>2, <3>3 DEF Fields, Calm, Quiet, StaysStopped
    <3>13. Sound(v, arrived) /\ v \in Worlds
      BY <3>3, <3>5, <3>6, <3>7, <3>8 DEF Sound, Fields
    <3>14. Outcome(v, World, arrived)
      BY <1>8, <3>9, <3>10, <3>11, <3>12, <3>13, CalmTwice, CalmOutcome
    <3> QED BY <1>0, <2>1, <3>13, <3>14 DEF Done
  <2>3. CASE ~wanted
    <3>1. v = x /\ Pursued(x)
      BY <2>3 DEF ScheduleGatewayReconnect, Pursued
    <3>2. Outcome(x, World, arrived)
      BY <1>7, <1>8, <1>9, <1>10, <3>1, CalmOutcome
    <3> QED BY <1>0, <1>4, <2>1, <3>1, <3>2 DEF Done
  <2> QED BY <2>2, <2>3
<1> QED BY <1>11, <1>12

-----------------------------------------------------------------------------
(* Timers, stop, and the network *)

\* The peer closes a socket.
LEMMA DroppedStep ==
  ASSUME Inv, NEW s \in Sockets, Dropped(s)
  PROVE  Done
<1> DEFINE v == [World EXCEPT !.sock = [sock EXCEPT ![s] = "closing"]]
<1>1. v \in Worlds /\ Outcome(v, World, arrived)
  BY ShutStep DEF Dropped
<1>2. Become(v) /\ arrived' = arrived
  BY DEF Become, Dropped, World
<1> QED BY <1>1, <1>2 DEF Done

\* The heartbeat ends a silent relay socket.
LEMMA HeartbeatStep ==
  ASSUME Inv, Heartbeat
  PROVE  Done
<1> DEFINE v == CloseSocket(World, rt.relaySocket)
<1>1. rt.relaySocket \in Sockets \cup {None} /\ Typed(World, arrived)
  BY InvWorld DEF Sockets, Inv, Sound
<1>2. Become(v) /\ arrived' = arrived
  BY DEF Heartbeat
<1> HIDE DEF v
<1>3. Typed(v, arrived) /\ Shut(v, World, rt.relaySocket)
  BY <1>1, CloseSocketIs DEF v
<1>4. v \in Worlds
  BY <1>3 DEF Typed
<1>5. Outcome(v, World, arrived)
  BY <1>3, <1>4, ShutOutcome DEF Inv
<1> QED BY <1>2, <1>4, <1>5 DEF Done

\* The reconnect timer fires: a new relay socket is created.
LEMMA ReconnectFiresStep ==
  ASSUME Inv, ReconnectFires
  PROVE  Done
<1> DEFINE x == [World EXCEPT !.rt.reconnectTimer = FALSE]
           v == ConnectRelay(x)
           rx == [rt EXCEPT !.reconnectTimer = FALSE]
           s == CHOOSE t \in RelaySockets : x.sock[t] = "free"
           r == [rx EXCEPT !.relaySocket = s, !.relayConnecting = TRUE]
<1>1. rt.reconnectTimer /\ Become(v) /\ arrived' = arrived /\ ~v.full
  BY DEF ReconnectFires, Become
<1>2. /\ ~rt.stopped /\ rt.relaySocket = None /\ ~rt.relayConnecting
      /\ \A t \in RelaySockets : sock[t] = "free"
  <2>1. ~rt.stopped
    BY <1>1, WorldIs DEF Inv, Sound, AtRest
  <2>2. rt.relaySocket = None
    BY <1>1, <2>1, WorldIs DEF Inv, Relay
  <2> QED BY <2>1, <2>2, WorldIs, SocketsApart DEF Inv, Relay
<1>3. rx \in Runtime /\ rx.stopped = FALSE /\ rx.relaySocket = None /\ ~rx.relayConnecting
  BY <1>2, InvWorld DEF Runtime
<1>4. x = [World EXCEPT !.rt = rx] /\ x.rt = rx /\ x.sock = sock /\ x.full = FALSE
  BY DEF World
<1>5. Free(x, RelaySockets) # {}
  BY <1>2, <1>4, SocketsAssumption DEF Free
<1>6. s \in RelaySockets /\ sock[s] = "free"
  BY <1>4, <1>5 DEF Free
<1>7. v = [x EXCEPT !.sock[s] = "connecting", !.rt.relaySocket = s,
                    !.rt.relayConnecting = TRUE]
  BY <1>3, <1>4, <1>5 DEF ConnectRelay, IsRelayOpen, IsOpen
<1> HIDE DEF s
<1>8. /\ r \in Runtime
      /\ r.pending = rt.pending /\ r.stopped = FALSE /\ r.reconnectTimer = FALSE
      /\ r.relaySocket = s /\ r.relayConnecting = TRUE
      /\ r.clientCount = rt.clientCount
      /\ r.gatewaySocket = rt.gatewaySocket
      /\ r.gatewayConnecting = rt.gatewayConnecting
      /\ r.closeBoundary = rt.closeBoundary
      /\ r.handshakeStarted = rt.handshakeStarted
  BY <1>2, <1>6, InvWorld DEF Runtime
<1>9. /\ v.sock = [sock EXCEPT ![s] = "connecting"] /\ v.rt = r /\ v.given = given
      /\ v.spent = spent /\ v.alone = alone /\ v.full = FALSE
      /\ v = [sock |-> v.sock, rt |-> v.rt, given |-> v.given, spent |-> v.spent,
              alone |-> v.alone, full |-> v.full]
  <2> HIDE DEF v
  <2> QED BY <1>7 DEF World
<1> HIDE DEF v, r, rx, x
<1>10. v \in Worlds
  <2>1. v.sock \in [Sockets -> SocketStates]
    BY <1>9, InvWorld DEF SocketStates
  <2> QED BY <1>8, <1>9, <2>1, InvWorld DEF Worlds
<1>11. /\ s \in Sockets /\ s \notin GatewaySockets /\ s # None
       /\ v.sock[s] = "connecting" /\ \A t \in Sockets : t # s => v.sock[t] = sock[t]
       /\ \A t \in GatewaySockets : v.sock[t] = sock[t]
  BY <1>6, <1>9, InvWorld, SocketsApart
<1>12. IsGatewayOpen(v) <=> IsGatewayOpen(World)
  BY <1>8, <1>9, <1>11, WorldIs, InvWorld DEF IsGatewayOpen, IsOpen
<1>13. Typed(v, arrived) /\ AtRest(v)
  BY <1>8, <1>9, <1>10, WorldIs DEF Inv, Sound, Typed, AtRest
<1>14. Used(v)
  <2>1. ASSUME NEW t \in Sockets, v.sock[t] = "open"
        PROVE  t = v.rt.gatewaySocket
    <3>1. t # s /\ sock[t] = "open"
      BY <2>1, <1>11
    <3>2. t \in {rt.relaySocket, rt.gatewaySocket}
      BY <3>1, WorldIs DEF Inv, Sound, Used
    <3> QED BY <3>2, <1>2, <1>8, <1>9, SocketsApart
  <2> QED BY <2>1 DEF Used
<1>15. Gateway(v)
  BY <1>8, <1>9, <1>11, <1>12, WorldIs DEF Inv, Sound, Gateway
<1>16. Fed(v, arrived)
  BY <1>9, <1>11, WorldIs DEF Inv, Sound, Fed
<1>17. Flushed(v)
  BY <1>8, <1>9, <1>12, WorldIs DEF Inv, Sound, Flushed
<1>18. Queued(v.rt.pending, arrived, v.spent)
  BY <1>8, <1>9, WorldIs DEF Inv, Sound
<1>19. Started(v)
  BY <1>8, <1>9, <1>12, WorldIs DEF Inv, Started
<1>20. Relay(v)
  <2>1. ASSUME NEW t \in RelaySockets, v.sock[t] # "free" PROVE t = s
    BY <2>1, <1>2, <1>11, SocketsApart
  <2> QED BY <2>1, <1>8, <1>9, <1>11 DEF Relay
<1>21. Pursued(v)
  BY <1>8, <1>9, <1>11 DEF Pursued, IsRelayOpen, IsOpen
<1>22. Calm(v, World)
  BY <1>2, <1>8, <1>9, WorldIs DEF Calm, Quiet, StaysStopped
<1>23. Sound(v, arrived)
  BY <1>13, <1>14, <1>15, <1>16, <1>17, <1>18 DEF Sound
<1>24. Outcome(v, World, arrived)
  BY <1>19, <1>20, <1>21, <1>22, <1>23, CalmOutcome
<1> QED BY <1>1, <1>10, <1>24 DEF Done

\* The retry timer fires: the gateway is asked for.
LEMMA GatewayRetryFiresStep ==
  ASSUME Inv, GatewayRetryFires
  PROVE  Done
<1> DEFINE x == [World EXCEPT !.rt.gatewayRetryTimer = FALSE]
           r == [rt EXCEPT !.gatewayRetryTimer = FALSE]
<1>1. Become(EnsureGateway(x)) /\ arrived' = arrived
  BY DEF GatewayRetryFires
<1>2. /\ r \in Runtime /\ r.pending = rt.pending /\ r.stopped = rt.stopped
      /\ r.reconnectTimer = rt.reconnectTimer /\ r.relaySocket = rt.relaySocket
      /\ r.relayConnecting = rt.relayConnecting
      /\ r.clientCount = rt.clientCount /\ r.gatewaySocket = rt.gatewaySocket
      /\ r.gatewayConnecting = rt.gatewayConnecting
      /\ r.closeBoundary = rt.closeBoundary
      /\ r.handshakeStarted = rt.handshakeStarted
      /\ ~r.gatewayRetryTimer
  BY InvWorld DEF Runtime
<1>3. x = [World EXCEPT !.rt = r]
  BY DEF World
<1> HIDE DEF r, x
<1>4. Fields(x, World, r)
  BY <1>2, <1>3, InvWorld, FieldsIs
<1>5. IsGatewayOpen(x) <=> IsGatewayOpen(World)
  BY <1>2, <1>4, WorldIs DEF Fields, IsGatewayOpen, IsOpen
<1>6. Typed(x, arrived) /\ AtRest(x) /\ Used(x)
  BY <1>2, <1>4, WorldIs DEF Inv, Sound, Fields, Typed, AtRest, Used
<1>7. Gateway(x)
  BY <1>2, <1>4, <1>5, WorldIs DEF Inv, Sound, Fields, Gateway
<1>8. Fed(x, arrived) /\ Queued(x.rt.pending, arrived, x.spent)
  BY <1>2, <1>4, WorldIs DEF Inv, Sound, Fields, Fed
<1>9. Flushed(x)
  BY <1>2, <1>4, <1>5, WorldIs DEF Inv, Sound, Fields, Flushed
<1>10. Started(x)
  BY <1>2, <1>4, <1>5, WorldIs DEF Inv, Fields, Started
<1>11. Relay(x)
  BY <1>2, <1>4, WorldIs DEF Inv, Fields, Relay
<1>12. Calm(x, World)
  BY <1>2, <1>4, WorldIs DEF Fields, Calm, Quiet, StaysStopped
<1>13. Sound(x, arrived)
  BY <1>6, <1>7, <1>8, <1>9 DEF Sound
<1> QED BY <1>1, <1>10, <1>11, <1>12, <1>13, EnsureDone

\* Stopped, the bridge has neither sockets nor timers nor frames.
LEMMA IdleType ==
  Idle \in Runtime /\ Len(Idle.pending) = 0 /\ Idle.pending = <<>> /\ DOMAIN Idle.pending = {}
<1>1. 0 \in 0..MaxClients /\ <<>> \in Seq(Message)
  BY BoundsAssumption
<1> QED BY <1>1 DEF Idle, Runtime

\* A stop shuts both sockets and clears every field.
LEMMA StopDone ==
  ASSUME Inv, Stop
  PROVE  Done
<1> DEFINE x == CloseSocket(World, rt.relaySocket)
           w == CloseSocket(x, rt.gatewaySocket)
           v == [w EXCEPT !.rt = Stopped]
<1>0. Become(v) /\ arrived' = arrived /\ ~rt.stopped
  BY DEF Stop
<1>1. /\ rt.relaySocket \in Sockets \cup {None} /\ rt.gatewaySocket \in Sockets \cup {None}
      /\ Sound(World, arrived)
  BY InvWorld DEF Sockets, Inv
<1> HIDE DEF x, w
<1>2. Typed(x, arrived) /\ Shut(x, World, rt.relaySocket)
  BY <1>1, CloseSocketIs DEF x, Sound
<1>3. Typed(w, arrived) /\ Shut(w, x, rt.gatewaySocket)
  BY <1>1, <1>2, CloseSocketIs DEF w
<1>4. Fed(w, arrived)
  BY <1>1, <1>2, <1>3, ShutKeeps DEF Sound
<1>5. w.given = given /\ w.spent = spent
  BY <1>2, <1>3, WorldIs DEF Shut
<1>6. \A t \in Sockets : w.sock[t] # "open"
  BY <1>1, <1>2, <1>3, WorldIs DEF Shut, Sound, Used
<1>7. Fields(v, w, Idle)
  BY <1>3, IdleType, FieldsIs DEF Typed, Stopped
<1> HIDE DEF v
<1>8. /\ v.rt = Idle /\ Idle.stopped = TRUE /\ Idle.relaySocket = None
      /\ Idle.gatewaySocket = None /\ ~Idle.reconnectTimer /\ ~Idle.gatewayRetryTimer
      /\ ~Idle.relayConnecting /\ ~Idle.gatewayConnecting /\ ~Idle.closeBoundary
  BY <1>7 DEF Fields, Idle
<1>9. ~IsGatewayOpen(v)
  BY <1>8 DEF IsGatewayOpen, IsOpen
<1>10. Typed(v, arrived)
  <2>1. Len(v.rt.pending) <= MaxPending
    BY <1>8, IdleType, BoundsAssumption
  <2> QED BY <2>1, <1>3, <1>7 DEF Fields, Typed
<1>11. AtRest(v) /\ Used(v)
  BY <1>6, <1>7, <1>8 DEF Fields, AtRest, Used
<1>12. Gateway(v)
  BY <1>8 DEF Gateway
<1>13. Fed(v, arrived)
  BY <1>4, <1>7 DEF Fields, Fed
<1>14. Flushed(v) /\ Started(v)
  BY <1>9 DEF Flushed, Started
<1>15. Queued(v.rt.pending, arrived, v.spent)
  BY <1>8, IdleType DEF Queued
<1>16. Relay(v) /\ Pursued(v)
  BY <1>8 DEF Relay, Pursued
<1>17. Sound(v, arrived)
  BY <1>10, <1>11, <1>12, <1>13, <1>14, <1>15 DEF Sound
<1>18. Quiet(v, World)
  BY <1>5, <1>7, WorldIs DEF Fields, Quiet
<1>19. ConnectsKept(v, World, arrived) /\ StaysStopped(v, World)
  BY <1>0, <1>8, WorldIs DEF ConnectsKept, StaysStopped
<1>20. Outcome(v, World, arrived) /\ v \in Worlds
  BY <1>7, <1>14, <1>16, <1>17, <1>18, <1>19 DEF Outcome, Fields
<1> QED BY <1>0, <1>20 DEF Done

-----------------------------------------------------------------------------
(* The theorems *)

\* The world of a new bridge.
LEMMA InitInv ==
  ASSUME Init
  PROVE  Inv
<1> DEFINE r == [Idle EXCEPT !.stopped = FALSE, !.relaySocket = FirstRelay,
                             !.relayConnecting = TRUE]
<1>1. FirstRelay \in RelaySockets /\ FirstRelay # None /\ FirstRelay \in Sockets
  BY SocketsAssumption DEF FirstRelay, Sockets
<1>2. /\ rt = r /\ arrived = <<>> /\ spent = {} /\ alone = TRUE
      /\ sock = [s \in Sockets |-> IF s = FirstRelay THEN "connecting" ELSE "free"]
      /\ given = [s \in GatewaySockets |-> <<>>]
  BY DEF Init
<1>3. /\ r \in Runtime /\ r.pending = <<>> /\ Len(r.pending) = 0 /\ DOMAIN r.pending = {}
  BY <1>1, IdleType DEF Runtime
<1>4. /\ r.stopped = FALSE /\ r.relaySocket = FirstRelay /\ r.relayConnecting = TRUE
      /\ r.gatewaySocket = None /\ r.reconnectTimer = FALSE
      /\ r.gatewayConnecting = FALSE /\ r.closeBoundary = FALSE
  BY DEF Idle
<1> HIDE DEF r
<1>5. World \in Worlds
  <2>1. given \in [GatewaySockets -> Seq(1..MaxFrames)]
    BY <1>2
  <2>2. sock \in [Sockets -> SocketStates]
    BY <1>2 DEF SocketStates
  <2> QED BY <1>2, <1>3, <2>1, <2>2 DEF World, Worlds
<1>6. Typed(World, arrived)
  <2>1. arrived \in Seq(Kinds)
    BY <1>2
  <2>2. Len(World.rt.pending) <= MaxPending
    BY <1>2, <1>3, WorldIs, BoundsAssumption
  <2> QED BY <1>5, <2>1, <2>2 DEF Typed
<1>7. \A t \in Sockets : sock[t] # "open" /\ (t # FirstRelay => sock[t] = "free")
  BY <1>2
<1>8. sock[FirstRelay] = "connecting"
  BY <1>1, <1>2
<1>9. ~IsGatewayOpen(World) /\ ~IsRelayOpen(World)
  BY <1>1, <1>2, <1>4, <1>7, WorldIs DEF IsGatewayOpen, IsRelayOpen, IsOpen
<1>10. AtRest(World) /\ Used(World) /\ Gateway(World) /\ Flushed(World)
       /\ Started(World) /\ Pursued(World)
  <2>1. AtRest(World) /\ Used(World)
    BY <1>2, <1>4, <1>7, WorldIs DEF AtRest, Used
  <2>2. Gateway(World)
    BY <1>2, <1>4, WorldIs DEF Gateway
  <2>3. Flushed(World) /\ Started(World) /\ Pursued(World)
    BY <1>9 DEF Flushed, Started, Pursued
  <2> QED BY <2>1, <2>2, <2>3
<1>11. Relay(World)
  <2>1. \A s \in RelaySockets : World.sock[s] # "free" => World.rt.relaySocket = s
    BY <1>2, <1>4, <1>7, WorldIs, SocketsApart
  <2>2. World.rt.relaySocket # None /\ ~World.rt.reconnectTimer
    BY <1>1, <1>2, <1>4, WorldIs
  <2> QED BY ONLY <2>1, <2>2 DEF Relay
<1>12. Queued(World.rt.pending, arrived, World.spent)
  BY <1>2, <1>3, WorldIs DEF Queued
<1>13. Fed(World, arrived)
  <2>1. \A c \in GatewaySockets : given[c] = <<>>
    BY <1>2
  <2>2. DOMAIN <<>> = {}
    OBVIOUS
  <2> QED BY <1>2, <2>1, <2>2, WorldIs DEF Fed, Channel!Increasing
<1> QED BY <1>6, <1>10, <1>11, <1>12, <1>13 DEF Inv, Sound

\* Every action of Next is as it should be.
LEMMA NextDone ==
  ASSUME Inv, Next
  PROVE  Done
<1>1. CASE \E s \in RelaySockets : RelayOpened(s) \/ RelayClosed(s) \/ RelayMessage(s)
  <2>1. PICK s \in RelaySockets : RelayOpened(s) \/ RelayClosed(s) \/ RelayMessage(s)
    BY <1>1
  <2>2. CASE RelayOpened(s)
    BY <2>2, RelayOpenedStep
  <2>3. CASE RelayClosed(s)
    BY <2>3, RelayClosedStep
  <2>4. CASE \E count \in 0..MaxClients : ClientCount(s, count)
    BY <2>4, ClientCountStep
  <2>5. CASE ClientDisconnected(s)
    BY <2>5, ClientDisconnectedStep
  <2>6. CASE \E kind \in Kinds : RelayFrame(s, kind)
    BY <2>6, RelayFrameStep
  <2> QED BY <2>1, <2>2, <2>3, <2>4, <2>5, <2>6 DEF RelayMessage
<1>2. CASE \E s \in GatewaySockets : GatewayOpened(s) \/ GatewayClosed(s)
  BY <1>2, GatewayOpenedStep, GatewayClosedStep
<1>3. CASE \E s \in Sockets : Dropped(s)
  BY <1>3, DroppedStep
<1>4. CASE Heartbeat
  BY <1>4, HeartbeatStep
<1>5. CASE ReconnectFires
  BY <1>5, ReconnectFiresStep
<1>6. CASE GatewayRetryFires
  BY <1>6, GatewayRetryFiresStep
<1>7. CASE Stop
  BY <1>7, StopDone
<1> QED BY <1>1, <1>2, <1>3, <1>4, <1>5, <1>6, <1>7 DEF Next

\* What a step that is as it should be comes to.
LEMMA DoneMeans ==
  ASSUME Inv, Done
  PROVE  /\ Inv' /\ LatestConnectStep /\ StopStep
         /\ \/ UNCHANGED spent /\ \A c \in GatewaySockets : given'[c] \in {given[c], <<>>}
            \/ \E c \in GatewaySockets : Fills(World', World, c, arrived')
<1>1. PICK v \in Worlds : Become(v) /\ Outcome(v, World, arrived')
  BY DEF Done
<1>2. World' = v
  BY <1>1, BecomeIs
<1>3. /\ v.sock = sock' /\ v.rt = rt' /\ v.given = given' /\ v.spent = spent'
  BY <1>1 DEF Become
<1>4. Inv'
  BY <1>1, <1>2 DEF Inv, Outcome
<1>5. LatestConnectStep
  BY <1>1, <1>3, WorldIs DEF Outcome, ConnectsKept, LatestConnectStep
<1>6. StopStep
  <2>1. AtRest(v) /\ StaysStopped(v, World)
    BY <1>1 DEF Outcome, Sound
  <2> QED BY <2>1, <1>3, WorldIs DEF AtRest, StaysStopped, StopStep
<1>7. \/ UNCHANGED spent /\ \A c \in GatewaySockets : given'[c] \in {given[c], <<>>}
      \/ \E c \in GatewaySockets : Fills(World', World, c, arrived')
  BY <1>1, <1>2, <1>3, WorldIs DEF Outcome, Quiet
<1> QED BY <1>4, <1>5, <1>6, <1>7

\* A step that changes nothing keeps the invariant.
LEMMA StutterInv ==
  ASSUME Inv, UNCHANGED vars
  PROVE  Inv' /\ LatestConnectStep /\ StopStep
<1>1. World' = World /\ arrived' = arrived
  BY DEF vars, World
<1>2. Inv'
  BY <1>1 DEF Inv
<1>3. StopStep
  BY WorldIs DEF vars, StopStep, Inv, Sound, AtRest
<1>4. LatestConnectStep
  BY DEF vars, LatestConnectStep
<1> QED BY <1>2, <1>3, <1>4

\* The invariant holds in every behaviour.
LEMMA Invariant == Spec => []Inv
<1>1. Init => Inv
  BY InitInv
<1>2. Inv /\ [Next]_vars => Inv'
  BY NextDone, DoneMeans, StutterInv
<1> QED BY <1>1, <1>2, PTL DEF Spec

\* Every variable has a value of its type.
THEOREM BridgeTypeCorrect == Spec => []TypeOK
<1>1. Inv => TypeOK
  BY WorldIs DEF Inv, Sound, Typed, Worlds, Fed, SocketStates, TypeOK
<1> QED BY <1>1, Invariant, PTL

\* A running bridge has a relay socket or the reconnect timer, and never both.
THEOREM RelayPursued == Spec => []RelayAlwaysPursued
<1>1. Inv => RelayAlwaysPursued
  BY WorldIs DEF Inv, Relay, RelayAlwaysPursued
<1> QED BY <1>1, Invariant, PTL

\* No socket is open but the two in use.
THEOREM NoneLeaks == Spec => []NoSocketLeaks
<1>1. Inv => NoSocketLeaks
  BY WorldIs DEF Inv, Sound, Used, NoSocketLeaks
<1> QED BY <1>1, Invariant, PTL

\* While there is demand something leads to the gateway.
THEOREM DemandIsPursued == Spec => []DemandPursued
<1>1. Inv => DemandPursued
  BY WorldIs DEF Inv, Pursued, DemandPursued
<1> QED BY <1>1, Invariant, PTL

\* A gateway socket that was fed alone has a session.
THEOREM SessionsStarted == Spec => []SessionStaysStarted
<1>1. Inv => SessionStaysStarted
  BY WorldIs DEF Inv, Started, SessionStaysStarted
<1> QED BY <1>1, Invariant, PTL

\* No connect is lost but to a later one, a stop or a full queue.
THEOREM ConnectsAreKept == Spec => LatestConnectKept
<1>1. Inv /\ [Next]_vars => [LatestConnectStep]_vars
  BY NextDone, DoneMeans
<1> QED BY <1>1, Invariant, PTL DEF Spec, LatestConnectKept

\* After a stop nothing starts again.
THEOREM StoppedForGood == Spec => StopIsFinal
<1>1. Inv /\ [Next]_vars => [StopStep]_vars
  BY NextDone, DoneMeans
<1> QED BY <1>1, Invariant, PTL DEF Spec, StopIsFinal

\* What arrives is only appended to.
LEMMA ArrivedStep ==
  ASSUME Next
  PROVE  UNCHANGED arrived \/ \E k \in Kinds : arrived' = Append(arrived, k)
BY DEF Next, RelayOpened, RelayClosed, RelayMessage, ClientCount, ClientDisconnected,
       RelayFrame, GatewayOpened, GatewayClosed, Dropped, Heartbeat, ReconnectFires,
       GatewayRetryFires, Stop

\* The bridge implements the channel of sessions.
THEOREM ImplementsChannel == Spec => SessionsSeparate
<1>1. Init => Channel!Init
  BY DEF Init, Channel!Init
<1>2. Inv /\ [Next]_vars => [Channel!Next]_(Channel!channelVars)
  <2>1. ASSUME Inv, Next PROVE Channel!Next
    <3>1. UNCHANGED arrived \/ \E k \in Kinds : arrived' = Append(arrived, k)
      BY <2>1, ArrivedStep
    <3>2. \/ UNCHANGED spent /\ \A c \in GatewaySockets : given'[c] \in {given[c], <<>>}
          \/ \E c \in GatewaySockets : Fills(World', World, c, arrived')
      BY <2>1, NextDone, DoneMeans
    <3>3. ASSUME NEW c \in GatewaySockets, Fills(World', World, c, arrived')
          PROVE  Channel!Give
      <4>1. World'.given = given' /\ World'.spent = spent'
        BY DEF World
      <4> QED BY <3>3, <4>1, WorldIs DEF Fills, Channel!Give
    <3>4. Channel!Give \/ Channel!End
      BY <3>2, <3>3 DEF Channel!End
    <3> QED BY <3>1, <3>4 DEF Channel!Next, Channel!Arrive
  <2>2. ASSUME UNCHANGED vars PROVE UNCHANGED Channel!channelVars
    BY <2>2 DEF vars, Channel!channelVars
  <2> QED BY <2>1, <2>2
<1> QED BY <1>1, <1>2, Invariant, PTL DEF Spec, SessionsSeparate, Channel!Spec
=============================================================================
