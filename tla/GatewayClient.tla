----------------------------- MODULE GatewayClient -----------------------------
(***************************************************************************)
(* The app's connection to its gateway (services/gateway.ts, with          *)
(* gateway-relay.ts and the routing of gateway-shared.ts): attempts to     *)
(* connect, the handshake, pairing, and the timers that restart them.      *)
(*                                                                         *)
(* An action is one event and its whole handler, the microtasks it queues  *)
(* included; what follows an await of storage or of a reply is a task that *)
(* goes on later.  Attempt ids are compared with the current one only, so  *)
(* a task, and the socket, carries "mine": does it belong to the current   *)
(* attempt?  An event of any other socket is ignored by its handler, so    *)
(* one socket is enough.  Of time the model keeps what the guards ask:     *)
(* which of two periods has passed.                                        *)
(***************************************************************************)
EXTENDS Integers, FiniteSets

CONSTANTS
  Configs,     \* the gateways the app may be configured for
  Relay,       \* those reached through the relay
  Complete,    \* those of them with a client token
  Bootstrap,   \* those whose relay issues bootstrap tokens
  Legacy,      \* those with a token or a password
  None,        \* null
  Tasks        \* bound on the continuations that wait at the same time

ASSUME ConfigsAssumption ==
  /\ None \notin Configs
  /\ Complete \subseteq Relay /\ Bootstrap \subseteq Relay
  /\ Relay \subseteq Configs /\ Legacy \subseteq Configs
  /\ Tasks # {}

VARIABLES
  c,       \* the fields of GatewayClient
  config,  \* the configuration in use
  tokens,  \* storage: the configurations a device token is stored for
  tasks,   \* the continuations that wait
  leaked,  \* ghost: was a socket in use overwritten by another?
  swallowed, \* ghost: has reconnect() removed a block and made no attempt?
  late     \* ghost: has a handshake made the client ready whose socket was gone?

vars == <<c, config, tokens, tasks, leaked, swallowed, late>>

-----------------------------------------------------------------------------
Auths == {"device", "bootstrap", "legacy"}
NoTask == [stage |-> "none", mine |-> FALSE, auth |-> "legacy"]
Stages ==
  {"none", "fast", "identity", "auth", "bootstrap", "response", "store", "clear"}

Client ==
  [state : {"idle", "connecting", "challenging", "ready", "reconnecting",
            "pairing_pending", "closed"},
   ws : {"none", "connecting", "open", "closing"},
   mine : BOOLEAN,                  \* is ws of the current attempt?
   relay : BOOLEAN,                 \* activeRoute
   manuallyClosed : BOOLEAN,
   blocked : BOOLEAN,               \* reconnectBlockedReason
   pairingPending : BOOLEAN,
   connectInFlight : BOOLEAN,       \* connectRequestInFlight
   connectCompleted : BOOLEAN,      \* connectRequestCompleted
   bootstrapInFlight : BOOLEAN,     \* relayBootstrapInFlight
   disabled : Configs \cup {None},  \* relayBootstrapCompatibilityDisabledForKey
   request : BOOLEAN,               \* does a request of the app wait?
   probe : BOOLEAN,                 \* does a health probe wait?
   reconnectTimer : BOOLEAN, wsOpenTimer : BOOLEAN, challengeTimer : BOOLEAN,
   pairingTimer : BOOLEAN, tickTimer : BOOLEAN, bootstrapTimer : BOOLEAN,
   recent : BOOLEAN,                \* a forced reconnect less than 8 s ago
   young : BOOLEAN]                 \* the attempt began less than 20 s ago

World == [c |-> c, config |-> config, tokens |-> tokens, tasks |-> tasks,
          leaked |-> leaked, swallowed |-> swallowed, late |-> late,
          full |-> FALSE, probeLost |-> FALSE]

IsOpen(w) == w.c.ws = "open"
InUse(w) == w.c.ws \in {"connecting", "open"}
Awaiting(w, stages) == {i \in Tasks : w.tasks[i].stage \in stages}

\* close(): the close event comes later.
CloseWs(w) == IF InUse(w) THEN [w EXCEPT !.c.ws = "closing"] ELSE w

ClearWatchdogs(w) ==
  [w EXCEPT !.c.wsOpenTimer = FALSE, !.c.challengeTimer = FALSE,
            !.c.pairingTimer = FALSE, !.c.tickTimer = FALSE]

\* A new task that waits at stage; full if there is no place for it.
Await(w, stage) ==
  IF Awaiting(w, {"none"}) = {} THEN [w EXCEPT !.full = TRUE]
  ELSE LET i == CHOOSE i \in Tasks : w.tasks[i].stage = "none"
       IN  [w EXCEPT !.tasks[i] = [NoTask EXCEPT !.stage = stage, !.mine = TRUE]]

\* The finally clause of the handshakes that end, whichever attempt they are of.
Ended(w) ==
  [w EXCEPT !.c.connectInFlight = FALSE, !.c.connectCompleted = w.c.state = "ready"]
EndTasks(w, ended) ==
  IF ended = {} THEN w
  ELSE Ended([w EXCEPT !.tasks = [i \in Tasks |-> IF i \in ended THEN NoTask ELSE @[i]]])
Finish(w, i) == EndTasks(w, {i})

\* rejectPendingRequests and clearPendingRelayBootstrapRequests: the handshakes
\* that waited for a reply go on at once and find their attempt or socket gone.
RejectReplies(w, stages) ==
  LET v == EndTasks(w, Awaiting(w, stages))
  IN  IF "response" \in stages
      THEN [v EXCEPT !.c.request = FALSE, !.c.probe = FALSE, !.probeLost = w.c.probe]
      ELSE v

-----------------------------------------------------------------------------
(* Attempts *)

\* blockReconnect
Block(w) ==
  [w EXCEPT !.c.blocked = TRUE, !.c.reconnectTimer = FALSE,
            !.c.bootstrapTimer = FALSE, !.c.bootstrapInFlight = FALSE]

\* openSocket
OpenSocket(w, relay) ==
  [ClearWatchdogs(w) EXCEPT
     !.leaked = @ \/ InUse(w),
     !.c.relay = relay, !.c.connectInFlight = FALSE, !.c.connectCompleted = FALSE,
     !.c.state = "connecting", !.c.ws = "connecting", !.c.mine = TRUE,
     !.c.wsOpenTimer = TRUE]

\* Mutant: the fast path does not compare its attempt.
NextAttemptFastKept(w) ==
  [w EXCEPT !.c.mine = FALSE, !.swallowed = FALSE, !.late = FALSE,
            !.tasks = [i \in Tasks |-> IF @[i].stage = "fast" THEN @[i]
                                       ELSE [@[i] EXCEPT !.mine = FALSE]]]

\* connectAttemptId += 1: whatever waits is now of a past attempt, and a fast path
\* that is will only return.
NextAttempt(w) ==
  [w EXCEPT !.c.mine = FALSE, !.swallowed = FALSE, !.late = FALSE,
            !.tasks = [i \in Tasks |-> IF @[i].stage = "fast" THEN NoTask
                                       ELSE [@[i] EXCEPT !.mine = FALSE]]]

\* tryConnectRelayFastPath up to its await.
RelayFastPath(w) ==
  IF w.config \in Complete
  THEN Await([w EXCEPT !.c.bootstrapInFlight = TRUE, !.c.bootstrapTimer = TRUE], "fast")
  ELSE Block(w)

\* The early returns of connect().
MayConnect(w) ==
  /\ ~w.c.blocked
  /\ w.config # None
  /\ ~InUse(w)
  /\ ~(w.config \in Relay /\ w.c.bootstrapInFlight)

\* connect()
Connect(w) ==
  IF ~MayConnect(w) THEN w
  ELSE LET v == RejectReplies(
                  [NextAttempt(w) EXCEPT !.c.reconnectTimer = FALSE,
                                         !.c.manuallyClosed = FALSE, !.c.young = TRUE],
                  {"bootstrap"})
       IN  IF w.config \in Relay THEN RelayFastPath(v) ELSE OpenSocket(v, FALSE)

\* Mutant: the connect through the relay still counts as under way.
ResetBootstrapKept(w) ==
  [ClearWatchdogs(w) EXCEPT
     !.c.pairingPending = FALSE,
     !.c.bootstrapTimer = FALSE, !.c.reconnectTimer = FALSE,
     !.c.connectInFlight = FALSE, !.c.connectCompleted = FALSE, !.c.ws = "none"]

\* What disconnect(), reconnect() and restartConnection() reset alike.
Reset(w) ==
  [ClearWatchdogs(w) EXCEPT
     !.c.pairingPending = FALSE, !.c.bootstrapInFlight = FALSE,
     !.c.bootstrapTimer = FALSE, !.c.reconnectTimer = FALSE,
     !.c.connectInFlight = FALSE, !.c.connectCompleted = FALSE, !.c.ws = "none"]

\* restartConnection: the socket is detached before it is closed.
Restart(w) ==
  LET v == NextAttempt([Reset(w) EXCEPT !.c.manuallyClosed = FALSE])
  IN  Connect(RejectReplies(v, {"bootstrap", "response"}))

HandshakeInFlight(w) ==
  InUse(w) /\ w.c.state \in {"connecting", "challenging", "reconnecting"}
StaleReadyTransport(w) == w.c.state = "ready" /\ ~IsOpen(w)

\* reconnect()
Reconnect(w) ==
  LET v == [w EXCEPT !.c.blocked = FALSE]
  IN  IF \/ v.config = None
         \/ HandshakeInFlight(v) /\ v.c.young
         \/ ~StaleReadyTransport(v) /\ v.c.recent
      THEN [v EXCEPT !.swallowed = @ \/ w.c.blocked] ELSE Restart([v EXCEPT !.c.recent = TRUE])

\* Mutant: the user's disconnect and a block are not asked for.
RecoverAlways(w) ==
  Reconnect(IF w.c.state = "ready" THEN [w EXCEPT !.c.state = "reconnecting"] ELSE w)

\* recoverStaleTransport
Recover(w) ==
  IF w.c.manuallyClosed \/ w.c.pairingPending \/ w.c.blocked THEN w
  ELSE Reconnect(IF w.c.state = "ready" THEN [w EXCEPT !.c.state = "reconnecting"] ELSE w)

\* Mutant: no timer while pairing is pending.
ScheduleReconnectUnlessPairing(w) ==
  IF w.c.blocked THEN [w EXCEPT !.c.state = "closed"]
  ELSE IF w.c.pairingPending THEN w
  ELSE [w EXCEPT !.c.state = "reconnecting", !.c.reconnectTimer = TRUE]

\* scheduleReconnect
ScheduleReconnect(w) ==
  IF w.c.blocked THEN [w EXCEPT !.c.state = "closed"]
  ELSE [w EXCEPT !.c.state = IF w.c.pairingPending THEN @ ELSE "reconnecting",
                 !.c.reconnectTimer = TRUE]

\* A handler has ended; a probe whose request it rejected recovers now.
Become(w) ==
  LET v == IF w.probeLost THEN Recover([w EXCEPT !.probeLost = FALSE]) ELSE w
  IN  /\ ~v.full
      /\ c' = v.c /\ config' = v.config /\ tokens' = v.tokens
      /\ tasks' = v.tasks /\ leaked' = v.leaked
      /\ swallowed' = v.swallowed /\ late' = v.late

-----------------------------------------------------------------------------
(* Calls of the app *)

\* disconnect()
Disconnected(w) ==
  LET v == [NextAttempt(Reset(w)) EXCEPT !.c.manuallyClosed = TRUE]
  IN  [RejectReplies(v, {"bootstrap"}) EXCEPT !.c.state = "closed"]
Disconnect == Become(Disconnected(World))

\* configure(), after which nothing blocks.
Configured(w, new) ==
  [w EXCEPT !.config = new,
            !.c.blocked = IF new = None \/ new # w.config THEN FALSE ELSE @]

\* Starting the app, or going over to another gateway (performGatewaySwitch).
SwitchTo(new) == Become(Connect(Configured(Disconnected(World), new)))

\* The app forgets its gateway.
Forget == Become(Configured(Disconnected(World), None))

\* connect() and reconnect(), with the configuration in use.
CallConnect == config # None /\ Become(Connect(World))
CallReconnect == config # None /\ Become(Reconnect(World))

\* A request of the app: sendRequest up to its wait for a response.
Request ==
  /\ c.state = "ready"
  /\ Become(IF IsOpen(World) THEN [World EXCEPT !.c.request = TRUE] ELSE Recover(World))

\* probeConnection up to its waits; waitForReady changes nothing.
Probe ==
  /\ ~c.manuallyClosed /\ ~c.pairingPending /\ ~c.blocked /\ config # None
  /\ IF c.state = "ready" /\ IsOpen(World) THEN Become([World EXCEPT !.c.probe = TRUE])
     ELSE /\ c.state \notin {"connecting", "challenging", "reconnecting"}
          /\ Become(Recover(World))

-----------------------------------------------------------------------------
(* Events of the socket *)

\* Messages are delivered until the close event.
Delivers == c.mine /\ c.ws \in {"open", "closing"}

\* onopen
Opened ==
  /\ c.mine /\ c.ws = "connecting"
  /\ Become([World EXCEPT !.c.ws = "open", !.c.state = "challenging",
                          !.c.wsOpenTimer = FALSE, !.c.challengeTimer = TRUE,
                          !.c.connectInFlight = FALSE, !.c.connectCompleted = FALSE])

\* onclose: the branch taken by why the connection is gone.
AfterClose(w) ==
  IF w.c.manuallyClosed THEN [w EXCEPT !.c.state = "closed"]
  ELSE IF w.c.pairingPending
  THEN ScheduleReconnect([w EXCEPT !.c.state = "pairing_pending"])
  ELSE ScheduleReconnect(w)

\* onclose; the close of the peer, a refused connect or our own.
Closed ==
  /\ c.mine /\ c.ws # "none"
  /\ LET w == [ClearWatchdogs(World) EXCEPT !.c.ws = "none"]
         v == RejectReplies(w, {"bootstrap", "response"})
     IN  Become(AfterClose([v EXCEPT !.c.connectInFlight = FALSE,
                                     !.c.connectCompleted = FALSE]))

\* connect.challenge
Challenge ==
  /\ Delivers
  /\ ~c.connectCompleted /\ ~c.connectInFlight
  /\ Become(Await([World EXCEPT !.c.connectInFlight = TRUE, !.c.challengeTimer = FALSE],
                  "identity"))

\* device.pair.resolved, approved.
PairApproved ==
  /\ Delivers /\ c.pairingPending
  /\ LET w == [World EXCEPT !.c.pairingPending = FALSE, !.c.blocked = FALSE,
                            !.c.pairingTimer = FALSE]
     IN  Become(ScheduleReconnect(CloseWs(w)))

\* Responses to a request or a probe.
Answered ==
  /\ Delivers /\ (c.request \/ c.probe)
  /\ \/ c.request /\ Become([World EXCEPT !.c.request = FALSE])
     \/ c.probe /\ Become([World EXCEPT !.c.probe = FALSE])

-----------------------------------------------------------------------------
(* The handshake *)

\* The catch clause, for an error that only ends the connection.
Failed(w, i) == Finish(IF w.tasks[i].mine THEN CloseWs(w) ELSE w, i)

\* Mutant: no look at the attempt before the connect request is sent.
SendConnectAnyway(w, i, auth) ==
  IF IsOpen(w)
  THEN [w EXCEPT !.tasks[i].stage = "response", !.tasks[i].auth = auth]
  ELSE Failed(w, i)

\* The connect request is signed and sent, if the attempt is still the current one.
SendConnect(w, i, auth) ==
  IF w.tasks[i].mine /\ IsOpen(w)
  THEN [w EXCEPT !.tasks[i].stage = "response", !.tasks[i].auth = auth]
  ELSE Failed(w, i)

\* The identity was read, or could not be.
IdentityKnown(i) ==
  /\ tasks[i].stage = "identity"
  /\ \/ Become(IF ~tasks[i].mine THEN Finish(World, i)
               ELSE IF c.relay THEN [World EXCEPT !.tasks[i].stage = "auth"]
               ELSE SendConnect(World, i, "legacy"))
     \/ Become(Finish(World, i))

\* No bootstrap token: an older credential, or the handshake is given up.
WithoutBootstrap(w, i) ==
  IF w.config \in Legacy THEN SendConnect(w, i, "legacy") ELSE Finish(w, i)

\* resolveConnectAuth, the stored device token known.
AuthKnown(i) ==
  /\ tasks[i].stage = "auth"
  /\ Become(
       IF config \in tokens THEN SendConnect(World, i, "device")
       ELSE IF config \notin Bootstrap \/ config = c.disabled
       THEN SendConnect(World, i, "legacy")
       ELSE IF IsOpen(World) THEN [World EXCEPT !.tasks[i].stage = "bootstrap"]
       ELSE WithoutBootstrap(World, i))

\* The bootstrap token comes, is refused, or the request for it times out.
BootstrapKnown(i) ==
  /\ tasks[i].stage = "bootstrap"
  /\ \/ Delivers /\ Become(SendConnect(World, i, "bootstrap"))
     \/ Become(WithoutBootstrap(World, i))

\* hello-ok, the token stored: nothing asks again whose attempt this was.
Ready(w, i) ==
  Finish([w EXCEPT !.c.pairingPending = FALSE, !.c.blocked = FALSE,
                   !.c.state = "ready", !.c.tickTimer = TRUE,
                   !.late = @ \/ ~w.tasks[i].mine \/ w.c.ws = "none"], i)

\* The connect request is answered: "ok" with or without a device token.
Accepted(i) ==
  /\ tasks[i].stage = "response" /\ tasks[i].mine /\ Delivers
  /\ \/ Become([World EXCEPT !.tasks[i].stage = "store"])
     \/ Become(Ready(World, i))

\* The device token of hello-ok was stored, or could not be.
TokenStored(i) ==
  /\ tasks[i].stage = "store"
  /\ \/ Become(Ready([World EXCEPT !.tokens = @ \cup ({config} \ {None})], i))
     \/ Become(Failed(World, i))

\* Nonce or signature refused, or the credentials: the user must act.
Refused(i) ==
  /\ tasks[i].stage = "response" /\ tasks[i].mine /\ Delivers
  /\ Become(Failed(Block(World), i))

\* "device token mismatch": the stored token is deleted, then all starts again.
TokenMismatch(i) ==
  /\ tasks[i].stage = "response" /\ tasks[i].mine /\ Delivers
  /\ tasks[i].auth = "device" /\ c.relay
  /\ Become([World EXCEPT !.tasks[i].stage = "clear"])
TokenCleared(i) ==
  /\ tasks[i].stage = "clear"
  /\ Become(Ended(Restart([World EXCEPT !.tasks[i] = NoTask,
                                           !.tokens = @ \ {config}])))

\* A gateway that does not know bootstrap tokens: again with an older credential.
BootstrapUnsupported(i) ==
  /\ tasks[i].stage = "response" /\ tasks[i].mine /\ Delivers
  /\ tasks[i].auth = "bootstrap" /\ c.relay /\ config \in Legacy
  /\ Become(Ended(Restart([World EXCEPT !.tasks[i] = NoTask, !.c.disabled = config])))

\* NOT_PAIRED: the socket stays open for device.pair.resolved.
NotPaired(i) ==
  /\ tasks[i].stage = "response" /\ tasks[i].mine /\ Delivers
  /\ Become(Finish([World EXCEPT !.c.pairingPending = TRUE, !.c.pairingTimer = TRUE,
                                 !.c.state = "pairing_pending"], i))

\* Any other error, or no response in time.
ConnectFailed(i) == tasks[i].stage = "response" /\ Become(Failed(World, i))

\* tryConnectRelayFastPath after its await.
FastPathKnown(i) ==
  /\ tasks[i].stage = "fast"
  /\ LET w == [World EXCEPT !.tasks[i] = NoTask, !.c.bootstrapInFlight = FALSE,
                            !.c.bootstrapTimer = FALSE]
     IN  Become(OpenSocket(w, TRUE)) \/ Become(Block(w))

-----------------------------------------------------------------------------
(* Timers; no period is shorter than the 8 s of "recent" but the probe's *)

\* The timer of scheduleReconnect.
ReconnectFires ==
  c.reconnectTimer /\ Become(Connect([World EXCEPT !.c.reconnectTimer = FALSE]))

\* 10 s after the socket was created.
WsOpenFires ==
  /\ c.wsOpenTimer /\ ~c.recent
  /\ LET w == [World EXCEPT !.c.wsOpenTimer = FALSE]
     IN  Become(IF c.mine /\ c.ws = "connecting" THEN Reconnect(CloseWs(w)) ELSE w)

\* 20 s after the socket opened.
ChallengeFires ==
  /\ c.challengeTimer /\ ~c.recent /\ ~c.young
  /\ LET w == [World EXCEPT !.c.challengeTimer = FALSE]
     IN  Become(IF c.mine /\ c.ws # "none" THEN Reconnect(CloseWs(w)) ELSE w)

\* 5 min after NOT_PAIRED.
PairingFires ==
  /\ c.pairingTimer /\ ~c.recent /\ ~c.young
  /\ LET w == [World EXCEPT !.c.pairingTimer = FALSE]
     IN  Become(IF c.pairingPending
                THEN CloseWs([Block(w) EXCEPT !.c.pairingPending = FALSE]) ELSE w)

\* The ticks have stopped for 45 s.
TickFires ==
  /\ c.tickTimer /\ ~c.recent /\ ~c.young
  /\ LET w == [World EXCEPT !.c.tickTimer = FALSE]
     IN  Become(IF c.state = "ready" THEN Reconnect(w) ELSE w)

\* 12 s after a connect through the relay began.
BootstrapFires ==
  /\ c.bootstrapTimer /\ ~c.recent
  /\ LET w == [World EXCEPT !.c.bootstrapTimer = FALSE]
     IN  Become(IF c.manuallyClosed \/ ~c.bootstrapInFlight THEN w
                ELSE Reconnect([w EXCEPT !.c.bootstrapInFlight = FALSE]))

\* A request went unanswered for 15 s: maybeReconnectAfterTimeout, whose own
\* cooldown is as long as the one of reconnect().
RequestTimesOut ==
  /\ c.request /\ ~c.recent
  /\ LET w == [World EXCEPT !.c.request = FALSE]
     IN  Become(IF c.manuallyClosed \/ c.pairingPending THEN w
                ELSE IF ~IsOpen(w) THEN IF c.state = "ready" THEN Recover(w) ELSE w
                ELSE Reconnect(w))

\* A probe fails: an error, or 2.5 s without an answer.
ProbeFails == c.probe /\ Become(Recover([World EXCEPT !.c.probe = FALSE]))

\* 8 s have passed, then 20 s.
TimePasses ==
  \/ c.recent /\ Become([World EXCEPT !.c.recent = FALSE])
  \/ ~c.recent /\ c.young /\ Become([World EXCEPT !.c.young = FALSE])

-----------------------------------------------------------------------------
Init ==
  /\ c = [state |-> "idle", ws |-> "none", mine |-> FALSE, relay |-> FALSE,
          manuallyClosed |-> FALSE, blocked |-> FALSE, pairingPending |-> FALSE,
          connectInFlight |-> FALSE, connectCompleted |-> FALSE,
          bootstrapInFlight |-> FALSE, disabled |-> None,
          request |-> FALSE, probe |-> FALSE,
          reconnectTimer |-> FALSE, wsOpenTimer |-> FALSE, challengeTimer |-> FALSE,
          pairingTimer |-> FALSE, tickTimer |-> FALSE, bootstrapTimer |-> FALSE,
          recent |-> FALSE, young |-> FALSE]
  /\ config = None
  /\ tokens \in SUBSET Relay
  /\ tasks = [i \in Tasks |-> NoTask]
  /\ leaked = FALSE /\ swallowed = FALSE /\ late = FALSE

AppCalls ==
  \/ \E new \in Configs : SwitchTo(new)
  \/ Disconnect \/ Forget \/ CallConnect \/ CallReconnect \/ Request \/ Probe

SocketEvents == Opened \/ Closed \/ Challenge \/ PairApproved \/ Answered

\* What ends by itself: storage answers, and a reply comes or is given up.
Continues(i) ==
  \/ IdentityKnown(i) \/ AuthKnown(i) \/ BootstrapKnown(i) \/ FastPathKnown(i)
  \/ TokenStored(i) \/ TokenCleared(i) \/ ConnectFailed(i)
Replies(i) ==
  \/ Accepted(i) \/ Refused(i) \/ TokenMismatch(i) \/ BootstrapUnsupported(i)
  \/ NotPaired(i)
TaskSteps == \E i \in Tasks : Continues(i) \/ Replies(i)

TimerSteps ==
  \/ ReconnectFires \/ WsOpenFires \/ ChallengeFires \/ PairingFires \/ TickFires
  \/ BootstrapFires \/ RequestTimesOut \/ ProbeFails

Next == AppCalls \/ SocketEvents \/ TaskSteps \/ TimerSteps \/ TimePasses

\* Timers that are due fire, storage answers in the end, also to an attempt in a
\* row of many, and a socket being closed is closed (strong, as its handler may
\* have to wait for the bound on tasks).  Nothing is assumed of the network: no
\* connect need ever succeed.
EventLoop ==
  /\ WF_vars(TimerSteps \/ TimePasses)
  /\ WF_vars(\E i \in Tasks : tasks[i].mine /\ Continues(i))
  /\ WF_vars(\E i \in Tasks : ~tasks[i].mine /\ Continues(i))
  /\ SF_vars(c.ws = "closing" /\ Closed)

Spec == Init /\ [][Next]_vars
FairSpec == Spec /\ EventLoop

-----------------------------------------------------------------------------
(* Properties *)

\* Every variable has a value of its type, and after a disconnect no socket is left.
TypeOK ==
  /\ c \in Client
  /\ c.manuallyClosed => c.ws = "none"
  /\ config \in Configs \cup {None}
  /\ tokens \subseteq Configs
  /\ tasks \in [Tasks -> [stage : Stages, mine : BOOLEAN, auth : Auths]]
  /\ leaked \in BOOLEAN /\ swallowed \in BOOLEAN /\ late \in BOOLEAN

\* The client is meant to be connected, and no user need act first.
Wanted ==
  config # None /\ c.state # "idle" /\ ~c.manuallyClosed /\ ~c.blocked

TimerRuns ==
  \/ c.reconnectTimer \/ c.wsOpenTimer \/ c.challengeTimer \/ c.pairingTimer
  \/ c.tickTimer \/ c.bootstrapTimer

\* A recovery that reconnect() took for a handshake under way: recoverStaleTransport
\* leaves "ready" first, and the socket is still open.
RecoverySkipped == c.state = "reconnecting" /\ IsOpen(World)

\* A handshake given up before its connect request, on a socket still open: only
\* another challenge of the gateway goes on from there.
HandshakeGivenUp ==
  /\ c.state \in {"challenging", "pairing_pending"} /\ IsOpen(World)
  /\ ~c.connectInFlight /\ ~TimerRuns

\* The two; a reconnect() within 8 s of another, which takes the block away and then
\* returns; and a handshake that makes the client ready whose socket is gone.
Gaps == RecoverySkipped \/ HandshakeGivenUp \/ swallowed \/ late

\* A client that is meant to be connected is never left with nothing to come: a
\* timer runs, a continuation waits, or the close event of its socket is due; the
\* known gaps apart (the timers of gateway.ts 1689-1831).
Pursued ==
  Wanted =>
    \/ TimerRuns
    \/ \E i \in Tasks : tasks[i].stage # "none" /\ tasks[i].mine
    \/ c.mine /\ c.ws = "closing"
    \/ Gaps

\* A socket in use is never replaced by another that then runs next to it (the
\* duplicate fast paths of gateway.test.ts:401).
NoSocketLeaks == ~leaked

\* A handshake that goes on after its attempt has passed sends nothing: a connect
\* request is only sent by the current attempt, on its own open socket (the awaits
\* of handleConnectChallenge, gateway.test.ts:1600).
NoStaleConnect ==
  [][\A i \in Tasks :
        tasks'[i].stage = "response" /\ tasks[i].stage # "response" =>
          tasks'[i].mine /\ c.mine /\ c.ws = "open"]_vars

\* What the app ended, or a refusal that needs the user.
Quiet == c.manuallyClosed \/ c.blocked

\* The steps the app did not ask for, and PairApproved, which is the user's answer.
Unasked == SocketEvents \/ TaskSteps \/ TimerSteps \/ TimePasses
Welcomed == ~c.manuallyClosed /\ c'.state = "ready"

\* The token stores and removals of a past attempt do not ask again whether they may
\* go on.
LateStep == \E i \in Tasks : ~tasks[i].mine /\ (TokenStored(i) \/ TokenCleared(i))

\* Two ways in which a block does not end what goes on: a relay fast path under way
\* opens its socket all the same, and a second handshake on a socket that is refused
\* after the first was accepted leaves the tick watchdog running.
BlockOutlived == c.blocked /\ (InUse(World) \/ c.tickTimer)

\* What is quiet is not undone by timers, events or continuations, until the app asks
\* or the user approves; a handshake the gateway accepts after all, and the known gaps
\* apart (recoverStaleTransport, scheduleReconnect, isActiveConnectAttempt).
QuietUntilAsked ==
  [][Quiet /\ Unasked =>
       Quiet' \/ PairApproved \/ Welcomed \/ LateStep \/ late \/ BlockOutlived]_vars

\* A connection that is lost is tried again: a client not ready goes on to another
\* socket, waits for an approval, or stops for a reason the user is told.
Retried ==
  Wanted /\ c.state # "ready" ~>
    \/ c.ws = "connecting" \/ c.state = "ready" \/ c.pairingPending
    \/ ~Wanted \/ Gaps
=============================================================================
