----------------------------- MODULE BridgeRuntime -----------------------------
(***************************************************************************)
(* The bridge runtime (packages/bridge-runtime/src/runtime.ts): it joins   *)
(* a socket to the relay room with a socket to the local OpenClaw gateway, *)
(* which it keeps only while there is demand for it.                       *)
(*                                                                         *)
(* Node runs one handler at a time.  As in RelayRoom an operator takes a   *)
(* world, the record of everything the source's methods change, and gives  *)
(* the world they leave; an action is one event and its whole handler.     *)
(* Times are left out: a timer that is set may fire.                       *)
(***************************************************************************)
EXTENDS Integers, Sequences, FiniteSets, Sifting

CONSTANTS
  RelaySockets,    \* sockets to the relay that may exist at the same time
  GatewaySockets,  \* sockets to the gateway that may exist at the same time
  None,            \* null
  MaxClients,      \* bound on the client count the relay reports
  MaxFrames,       \* bound on the frames that arrive from the relay
  MaxPending       \* MAX_PENDING_GATEWAY_MESSAGES

ASSUME SocketsAssumption ==
  /\ None \notin RelaySockets \cup GatewaySockets
  /\ RelaySockets \cap GatewaySockets = {}
  /\ RelaySockets # {}
ASSUME BoundsAssumption ==
  MaxClients \in Nat \ {0} /\ MaxFrames \in Nat /\ MaxPending \in Nat \ {0}

VARIABLES
  sock,     \* readyState of each socket, CLOSING split in "closing" and, if it never
            \* opened, "aborted"; "free" once its close event was handled
  rt,       \* the fields of BridgeRuntime
  arrived,  \* ghost: the kinds of the frames that came from the relay
  given,    \* ghost: the frames sent on each gateway socket, by arrival number
  spent,    \* ghost: all frames ever sent to the gateway
  alone     \* ghost: was the current gateway socket created when no other existed?

vars == <<sock, rt, arrived, given, spent, alone>>

-----------------------------------------------------------------------------
Sockets == RelaySockets \cup GatewaySockets
Kinds == {"connect", "data"}
Message == [kind : Kinds, at : 1..MaxFrames]

Runtime ==
  [stopped : BOOLEAN,
   relaySocket : RelaySockets \cup {None},
   gatewaySocket : GatewaySockets \cup {None},
   relayConnecting : BOOLEAN,
   gatewayConnecting : BOOLEAN,
   reconnectTimer : BOOLEAN,
   gatewayRetryTimer : BOOLEAN,
   heartbeatTimer : BOOLEAN,
   pending : Seq(Message),          \* pendingGatewayMessages
   handshakeStarted : BOOLEAN,      \* gatewayHandshakeStarted
   closeBoundary : BOOLEAN,         \* gatewayCloseBoundaryPending
   clientCount : 0..MaxClients]

World == [sock |-> sock, rt |-> rt, given |-> given, spent |-> spent,
          alone |-> alone, full |-> FALSE]

\* full: the world needs a socket more than the pools hold.
Become(w) ==
  /\ ~w.full
  /\ sock' = w.sock
  /\ rt' = w.rt
  /\ given' = w.given
  /\ spent' = w.spent
  /\ alone' = w.alone

IsOpen(w, s) == s # None /\ w.sock[s] = "open"
IsRelayOpen(w) == IsOpen(w, w.rt.relaySocket)
IsGatewayOpen(w) == IsOpen(w, w.rt.gatewaySocket)
Free(w, pool) == {s \in pool : w.sock[s] = "free"}

\* close() and terminate(): the close event comes later.
CloseSocket(w, s) ==
  IF s = None THEN w
  ELSE [w EXCEPT !.sock[s] = CASE @ = "connecting" -> "aborted"
                               [] @ = "open" -> "closing"
                               [] OTHER -> @]

-----------------------------------------------------------------------------
(* The queue of frames for the gateway *)

IsConnect(m) == m.kind = "connect"
IsData(m) == ~IsConnect(m)
ConnectRequests(q) == {i \in DOMAIN q : IsConnect(q[i])}
LatestConnect(q) == CHOOSE i \in ConnectRequests(q) : \A j \in ConnectRequests(q) : j <= i

\* dedupePendingGatewayMessages: of the connects only the latest is kept.
Dedupe(q) ==
  IF ConnectRequests(q) \subseteq {1} THEN q
  ELSE Sift(q, {i \in DOMAIN q : IsData(q[i]) \/ i = LatestConnect(q)})

\* prunePendingGatewayMessagesForFreshDemand: the latest connect and what follows.
Prune(q) ==
  IF ConnectRequests(q) = {} THEN <<>> ELSE SubSeq(q, LatestConnect(q), Len(q))

\* Mutant: connects are dropped with the rest.
DropStaleIdleAll(w) == [w EXCEPT !.rt.pending = <<>>]

\* dropStaleIdleGatewayQueue
DropStaleIdle(w) ==
  IF ConnectRequests(w.rt.pending) = {} THEN [w EXCEPT !.rt.pending = <<>>] ELSE w

\* pushPendingGatewayMessage
Push(w, m) ==
  [w EXCEPT !.rt.pending =
     Append(IF Len(@) >= MaxPending THEN Tail(@) ELSE @, m)]

ShouldKeepGateway(w) == w.rt.clientCount > 0 \/ ConnectRequests(w.rt.pending) # {}

-----------------------------------------------------------------------------
(* Connections *)

\* ensureGatewayConnected
EnsureGateway(w) ==
  IF \/ w.rt.stopped
     \/ ~IsRelayOpen(w)
     \/ w.rt.gatewayConnecting
     \/ IsGatewayOpen(w)
     \/ w.rt.closeBoundary
  THEN w
  ELSE IF Free(w, GatewaySockets) = {} THEN [w EXCEPT !.full = TRUE]
  ELSE LET s == CHOOSE s \in GatewaySockets : w.sock[s] = "free"
       IN  [w EXCEPT !.sock[s] = "connecting", !.given[s] = <<>>,
                     !.rt.gatewaySocket = s, !.rt.gatewayConnecting = TRUE,
                     !.alone = Free(w, GatewaySockets) = GatewaySockets]

\* Mutant: a retry is scheduled for clients only, not for queued connects.
ScheduleGatewayReconnectForClients(w) ==
  IF ~w.rt.stopped /\ IsRelayOpen(w) /\ w.rt.clientCount > 0
  THEN [w EXCEPT !.rt.gatewayRetryTimer = TRUE] ELSE w

\* scheduleGatewayReconnect
ScheduleGatewayReconnect(w) ==
  IF ~w.rt.stopped /\ IsRelayOpen(w) /\ ShouldKeepGateway(w)
  THEN [w EXCEPT !.rt.gatewayRetryTimer = TRUE] ELSE w

\* closeGateway: what it resets whatever the state of the socket.
EndSession(w) == [w EXCEPT !.rt.gatewayRetryTimer = FALSE, !.rt.handshakeStarted = FALSE]

\* closeGateway(reconnectAfterClose)
CloseGateway(w, reconnectAfterClose) ==
  LET boundary == reconnectAfterClose /\ IsRelayOpen(w) /\ ShouldKeepGateway(w)
      v == [EndSession(w) EXCEPT !.rt.closeBoundary = boundary]
      u == [v EXCEPT !.rt.closeBoundary = FALSE, !.rt.gatewayConnecting = FALSE]
  IN  IF w.rt.gatewaySocket # None THEN CloseSocket(v, w.rt.gatewaySocket)
      ELSE IF boundary THEN EnsureGateway(u) ELSE u

\* connectRelay
ConnectRelay(w) ==
  IF w.rt.stopped \/ w.rt.relayConnecting \/ IsRelayOpen(w) THEN w
  ELSE IF Free(w, RelaySockets) = {} THEN [w EXCEPT !.full = TRUE]
  ELSE LET s == CHOOSE s \in RelaySockets : w.sock[s] = "free"
       IN  [w EXCEPT !.sock[s] = "connecting", !.rt.relaySocket = s,
                     !.rt.relayConnecting = TRUE]

-----------------------------------------------------------------------------
(* Frames to the gateway *)

\* sendToGateway, on a gateway socket that is open.
Give(w, messages) ==
  LET numbers == [i \in DOMAIN messages |-> messages[i].at]
  IN  [w EXCEPT !.given[w.rt.gatewaySocket] = @ \o numbers,
                !.spent = @ \cup {numbers[i] : i \in DOMAIN numbers}]

\* flushPendingGatewayMessages: what precedes the connect waits on.
FlushPending(w) ==
  LET q == Dedupe(w.rt.pending)
      from == IF w.rt.handshakeStarted THEN 1
              ELSE IF ConnectRequests(q) = {} THEN Len(q) + 1
              ELSE LatestConnect(q)
  IN  Give([w EXCEPT !.rt.pending = SubSeq(q, 1, from - 1),
                     !.rt.handshakeStarted = @ \/ from <= Len(q)],
           SubSeq(q, from, Len(q)))

\* Mutant: data is forwarded before the handshake.
ForwardOrQueueUnguarded(w, m) ==
  IF w.rt.closeBoundary THEN Push(w, m)
  ELSE IF ~IsGatewayOpen(w) THEN Push(EnsureGateway(w), m)
  ELSE Give([w EXCEPT !.rt.handshakeStarted = @ \/ IsConnect(m)], <<m>>)

\* forwardOrQueueGatewayMessage
ForwardOrQueue(w, m) ==
  IF w.rt.closeBoundary THEN Push(w, m)
  ELSE IF ~IsGatewayOpen(w) THEN Push(EnsureGateway(w), m)
  ELSE IF ~w.rt.handshakeStarted /\ IsData(m) THEN Push(w, m)
  ELSE Give([w EXCEPT !.rt.handshakeStarted = TRUE], <<m>>)

-----------------------------------------------------------------------------
(* Events of the relay socket *)

\* The socket to the relay opens.
RelayOpened(s) ==
  /\ sock[s] = "connecting"
  /\ LET w == [World EXCEPT !.sock[s] = "open"]
     IN  IF rt.stopped \/ rt.relaySocket # s
         THEN Become(CloseSocket(w, s))
         ELSE LET v == [w EXCEPT !.rt.relayConnecting = FALSE, !.rt.heartbeatTimer = TRUE]
              IN  Become(IF ShouldKeepGateway(v) THEN EnsureGateway(v) ELSE v)
  /\ UNCHANGED arrived

\* Mutant: a connect that was under way stays under way.
RelayGoneConnecting(w, s) ==
  [w EXCEPT !.sock[s] = "free", !.rt.heartbeatTimer = FALSE, !.rt.clientCount = 0,
            !.rt.relaySocket = IF @ = s THEN None ELSE @]

\* What the close of a relay socket resets, whichever socket it is.
RelayGone(w, s) ==
  [w EXCEPT !.sock[s] = "free", !.rt.heartbeatTimer = FALSE, !.rt.clientCount = 0,
            !.rt.relaySocket = IF @ = s THEN None ELSE @,
            !.rt.relayConnecting = FALSE]

\* The close event of a relay socket, after a failed connect or a close.
RelayClosed(s) ==
  /\ sock[s] \in {"connecting", "aborted", "closing"}
  /\ LET w == CloseGateway(RelayGone(World, s), FALSE)
     IN  Become([w EXCEPT !.rt.reconnectTimer = @ \/ ~w.rt.stopped])
  /\ UNCHANGED arrived

\* ws delivers the messages of an open socket, and of one still closing.
Delivers(s) == sock[s] \in {"open", "closing"}

\* client_connected or client_count with the number of clients.
ClientCount(s, count) ==
  /\ Delivers(s)
  /\ LET w == [World EXCEPT !.rt.clientCount = count]
         idle == DropStaleIdle([w EXCEPT !.rt.handshakeStarted = FALSE])
         recycle == rt.clientCount = 0 /\ IsGatewayOpen(w)
         pruned == [w EXCEPT !.rt.pending = Prune(@)]
     IN  Become(EnsureGateway(
           IF count > 0
           THEN IF recycle THEN CloseGateway(pruned, TRUE) ELSE w
           ELSE IF IsGatewayOpen(idle) /\ ~ShouldKeepGateway(idle)
                THEN CloseGateway(idle, FALSE) ELSE idle))
  /\ UNCHANGED arrived

\* client_disconnected: sent by the room only when the last client has gone.
ClientDisconnected(s) ==
  /\ Delivers(s)
  /\ LET w == DropStaleIdle([World EXCEPT !.rt.handshakeStarted = FALSE,
                                          !.rt.clientCount = 0])
     IN  Become(IF IsGatewayOpen(w) /\ ~ShouldKeepGateway(w)
                THEN CloseGateway(w, FALSE) ELSE EnsureGateway(w))
  /\ UNCHANGED arrived

\* A frame of a client, to be proxied to the gateway.
RelayFrame(s, kind) ==
  /\ Delivers(s)
  /\ Len(arrived) < MaxFrames
  /\ arrived' = Append(arrived, kind)
  /\ Become(ForwardOrQueue(World, [kind |-> kind, at |-> Len(arrived')]))

-----------------------------------------------------------------------------
(* Events of the gateway socket *)

\* Mutant: a socket that has been replaced counts as current.
IsCurrentGatewayAlways(s) == ~rt.stopped

\* Is the gateway socket that opens still wanted?
IsCurrentGateway(s) == ~rt.stopped /\ rt.gatewaySocket = s

\* Mutant: the flags are reset after the queue was flushed.
GatewayReadyResetLast(w) ==
  [FlushPending(w) EXCEPT !.rt.gatewayConnecting = FALSE, !.rt.handshakeStarted = FALSE,
                          !.rt.closeBoundary = FALSE]

\* The gateway is there: a session not started, then the queue.
GatewayReady(w) ==
  FlushPending([w EXCEPT !.rt.gatewayConnecting = FALSE, !.rt.handshakeStarted = FALSE,
                         !.rt.closeBoundary = FALSE])

\* The socket to the gateway opens.
GatewayOpened(s) ==
  /\ sock[s] = "connecting"
  /\ LET w == [World EXCEPT !.sock[s] = "open"]
     IN  Become(IF IsCurrentGateway(s) THEN GatewayReady(w) ELSE CloseSocket(w, s))
  /\ UNCHANGED arrived

\* Mutant: the boundary outlives the socket whose close it waited for.
GatewayGoneBoundaryKept(w, s) ==
  [w EXCEPT !.sock[s] = "free", !.given[s] = <<>>,
            !.rt.gatewaySocket = IF @ = s THEN None ELSE @,
            !.rt.gatewayConnecting = FALSE, !.rt.handshakeStarted = FALSE]

\* What the close of a gateway socket resets, whichever socket it is.
GatewayGone(w, s) ==
  [w EXCEPT !.sock[s] = "free", !.given[s] = <<>>,
            !.rt.gatewaySocket = IF @ = s THEN None ELSE @,
            !.rt.gatewayConnecting = FALSE, !.rt.handshakeStarted = FALSE,
            !.rt.closeBoundary = FALSE]

\* The close event of a gateway socket, the current one or one before it.
GatewayClosed(s) ==
  /\ sock[s] \in {"connecting", "aborted", "closing"}
  /\ LET w == GatewayGone(World, s)
     IN  Become(IF rt.closeBoundary /\ ShouldKeepGateway(World)
                THEN EnsureGateway(w) ELSE ScheduleGatewayReconnect(w))
  /\ UNCHANGED arrived

-----------------------------------------------------------------------------
(* Timers, stop, and the network *)

\* The heartbeat finds that the relay has been silent too long and ends its
\* socket; while it is not silent a beat only pings.
Heartbeat ==
  /\ rt.heartbeatTimer
  /\ IsRelayOpen(World)
  /\ Become(CloseSocket(World, rt.relaySocket))
  /\ UNCHANGED arrived

\* The timer of scheduleRelayReconnect.
ReconnectFires ==
  /\ rt.reconnectTimer
  /\ Become(ConnectRelay([World EXCEPT !.rt.reconnectTimer = FALSE]))
  /\ UNCHANGED arrived

\* The timer of scheduleGatewayReconnect.
GatewayRetryFires ==
  /\ rt.gatewayRetryTimer
  /\ Become(EnsureGateway([World EXCEPT !.rt.gatewayRetryTimer = FALSE]))
  /\ UNCHANGED arrived

Idle ==
  [stopped |-> TRUE, relaySocket |-> None, gatewaySocket |-> None,
   relayConnecting |-> FALSE, gatewayConnecting |-> FALSE,
   reconnectTimer |-> FALSE, gatewayRetryTimer |-> FALSE, heartbeatTimer |-> FALSE,
   pending |-> <<>>, handshakeStarted |-> FALSE, closeBoundary |-> FALSE,
   clientCount |-> 0]

\* Mutant: the timers run on.
StoppedTimersKept ==
  [Idle EXCEPT !.reconnectTimer = rt.reconnectTimer,
               !.gatewayRetryTimer = rt.gatewayRetryTimer]

\* The fields after stop(), clearTimers included.
Stopped == Idle

\* stop()
Stop ==
  /\ ~rt.stopped
  /\ LET w == CloseSocket(CloseSocket(World, rt.relaySocket), rt.gatewaySocket)
     IN  Become([w EXCEPT !.rt = Stopped])
  /\ UNCHANGED arrived

\* The peer or the network closes an open socket.
Dropped(s) ==
  /\ sock[s] = "open"
  /\ sock' = [sock EXCEPT ![s] = "closing"]
  /\ UNCHANGED <<rt, arrived, given, spent, alone>>

-----------------------------------------------------------------------------
\* The constructor and start(), which the command line calls once.
FirstRelay == CHOOSE s \in RelaySockets : TRUE

Init ==
  /\ sock = [s \in Sockets |-> IF s = FirstRelay THEN "connecting" ELSE "free"]
  /\ rt = [Idle EXCEPT !.stopped = FALSE, !.relaySocket = FirstRelay,
                       !.relayConnecting = TRUE]
  /\ arrived = <<>>
  /\ given = [s \in GatewaySockets |-> <<>>]
  /\ spent = {}
  /\ alone = TRUE

RelayMessage(s) ==
  \/ \E count \in 0..MaxClients : ClientCount(s, count)
  \/ ClientDisconnected(s)
  \/ \E kind \in Kinds : RelayFrame(s, kind)

Next ==
  \/ \E s \in RelaySockets : RelayOpened(s) \/ RelayClosed(s) \/ RelayMessage(s)
  \/ \E s \in GatewaySockets : GatewayOpened(s) \/ GatewayClosed(s)
  \/ \E s \in Sockets : Dropped(s)
  \/ Heartbeat \/ ReconnectFires \/ GatewayRetryFires
  \/ Stop

\* Node runs the timers that are due and reports what becomes of the sockets.
EventLoop ==
  /\ WF_vars(ReconnectFires \/ GatewayRetryFires)
  /\ WF_vars(\E s \in RelaySockets : RelayOpened(s) \/ RelayClosed(s))
  /\ WF_vars(\E s \in GatewaySockets : GatewayOpened(s) \/ GatewayClosed(s))

\* The relay and the gateway do not refuse every connect for ever.
Reachable ==
  /\ SF_vars(\E s \in RelaySockets : rt.relaySocket = s /\ RelayOpened(s))
  /\ SF_vars(\E s \in GatewaySockets : rt.gatewaySocket = s /\ GatewayOpened(s))

Spec == Init /\ [][Next]_vars
FairSpec == Spec /\ EventLoop /\ Reachable

-----------------------------------------------------------------------------
(* Properties *)

\* Every variable has a value of its type.
TypeOK ==
  /\ sock \in [Sockets -> {"free", "connecting", "open", "closing", "aborted"}]
  /\ rt \in Runtime /\ Len(rt.pending) <= MaxPending
  /\ alone \in BOOLEAN
  /\ arrived \in Seq(Kinds)
  /\ given \in [GatewaySockets -> Seq(1..MaxFrames)]
  /\ spent \subseteq 1..MaxFrames

\* A running bridge is never left without a way back to the relay: either it has
\* a relay socket, whose close event schedules a reconnect, or the timer is set,
\* and never both, so it does not keep two relay connections (runtime.ts
\* connectRelay, its close handler and scheduleRelayReconnect).
RelayAlwaysPursued ==
  ~rt.stopped => (rt.relaySocket # None) # rt.reconnectTimer

\* No socket is left open that the bridge does not use: one that was replaced
\* while it was connecting, or was connecting at a stop, is closed when it opens.
NoSocketLeaks ==
  \A s \in Sockets : sock[s] = "open" => s \in {rt.relaySocket, rt.gatewaySocket}

\* While the relay is open and there is demand (clients, or connects that wait),
\* something leads to the gateway: the current socket, which opens or whose close
\* event schedules a retry, or the retry timer.
DemandPursued ==
  ~rt.stopped /\ IsRelayOpen(World) /\ ShouldKeepGateway(World) =>
    \/ rt.gatewaySocket # None
    \/ rt.gatewayRetryTimer

\* The gateway socket a client's handshake went through is treated as having a
\* session, so what the client sends next is forwarded and not queued behind a
\* connect that will not come; unless an older socket was still closing when
\* it was created, whose close event resets the flag.
SessionStaysStarted ==
  IsGatewayOpen(World) /\ alone /\ given[rt.gatewaySocket] # <<>> => rt.handshakeStarted

\* Every gateway connection is given frames in the order of their arrival, first
\* a connect, and none that another was given: the contract of SessionChannel,
\* so no frame of an earlier session reaches a later one.
Channel == INSTANCE SessionChannel WITH Connections <- GatewaySockets
SessionsSeparate == Channel!Spec

\* A connect that waits is not lost: it leaves the queue for the gateway, for a
\* later connect, or with a stop, or because the queue is at its limit
\* ("keep proxied connect frames queued instead of dropping them", contract 4).
WaitingConnects(q) == {q[i].at : i \in ConnectRequests(q)}
LatestConnectStep ==
  \A n \in WaitingConnects(rt.pending) \ WaitingConnects(rt'.pending) :
     \/ n \in spent'
     \/ rt'.stopped
     \/ Len(rt.pending) = MaxPending
     \/ \E m \in spent' \cup WaitingConnects(rt'.pending) :
          m > n /\ arrived'[m] = "connect"
LatestConnectKept == [][LatestConnectStep]_vars

\* After stop() nothing starts again: no socket is created or left open, no frame
\* is forwarded, no timer runs.
StopStep ==
  rt.stopped =>
    /\ rt'.stopped /\ spent' = spent
    /\ ~rt'.reconnectTimer /\ ~rt'.gatewayRetryTimer
    /\ \A s \in Sockets : sock[s] = "free" => sock'[s] = "free"
StopIsFinal == [][StopStep]_vars

\* A connect does not wait for ever: it is forwarded or superseded.
ConnectNotStranded ==
  ConnectRequests(rt.pending) # {} ~> ConnectRequests(rt.pending) = {} \/ rt.stopped
=============================================================================
