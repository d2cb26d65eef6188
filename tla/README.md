# A TLA+ model of Mobile Claw

Mobile Claw connects a phone to an OpenClaw gateway on the user's computer
through a relay. This directory holds TLA+ modules for its core, TLC
configurations that check them, and TLAPS proofs.

## The system

| Part | State | Operations | Talks to |
| --- | --- | --- | --- |
| **Registry** `apps/relay-registry` | one KV record per gateway: secret hash, access code and expiry, client token hashes | register, refresh access code, claim, verify | posts token hashes to the relay worker |
| **Relay room** `apps/relay-worker` | a Durable Object per gateway: sockets with attachments, the in-memory `RelayRuntime`, the stored owner record, token hashes, alarm | accept, route frames, handle close and error events, alarm, constructor | bridge and app by WebSocket; KV and registry for tokens |
| **Bridge runtime** `packages/bridge-runtime` | relay and gateway socket, reconnect timers, pending queue, handshake flags, client count | start, stop, socket events, demand changes | relay room; the local OpenClaw gateway |
| **Bridge service** `packages/bridge-core`, `apps/bridge-cli` | list of runtimes, recorded service pid, pairing configuration, service unit | pair, install, stop, restart, uninstall, reset, run | the operating system; the registry |
| **Gateway client** `apps/mobile/src/services/gateway.ts` | connection state machine, attempt ids, pending requests, watchdog timers | connect, reconnect, challenge, pairing, requests | relay room or gateway by WebSocket |
| **Node client** `apps/mobile/src/services/node-client.ts` | a second connection, the invocations under way | connect, invoke | as the gateway client |
| **Chat state** `apps/mobile/src/screens/ChatScreen/hooks` | run followed on the screen, runs remembered per session, messages waiting for the name of their run, history | send, stream events, recover | gateway client, caches |
| **Caches** `chat-cache.ts`, `image-cache.ts`, `storage.ts` | index and entries in async storage | read, write, evict | chat state |
| Screens, components, translations, office game, native speech module, scripts | user interface and build | | |

What is hard in each part, and what makes it correct:

- *Registry.* Handlers read a record, await, and write it back without a
  transaction. Correct: a code is claimed once, a minted token stays valid until
  it is displaced by newer ones, and the relay ends with the newest token list.
- *Relay room.* Handlers do not interleave, but close events come late, frames
  come from sockets already replaced, the object loses its memory, and five
  time limits meet one alarm. Correct: one gateway owns the room, every open
  socket can be reached, the lease protects whoever holds it, handshakes end in
  an answer or a time-out, the gateway knows how many clients there are.
- *Bridge runtime.* Two sockets, three timers and a demand that goes from zero
  to one and back while a socket closes. Correct: no frame of a closed gateway
  connection reaches a new client session, demand brings the gateway up and
  its absence down, and stop is final.
- *Gateway client.* Attempts overlap, timers outlive the attempt that set them.
  Correct: one live attempt, no state change by an old one, a pairing or a
  challenge that does not come leads to a retry or an error.
- *Service.* Two processes may start at once and a process may die at any point.
  Correct: one runtime at a time and no stale record that blocks a start.
- *Chat and caches.* History and stream events race. Correct: no lost and no
  doubled message, and an index that lists what is stored.

## Modules

| Module | Models | Runs | Proofs |
| --- | --- | --- | --- |
| `RelayRoom` | the relay room | `sessions`, `timeouts`, `lease` | `RelayRoomProofs` |
| `PairingRegistry` | registry, store and the relay's authorisation | `one_at_a_time`, `lost_token` | `PairingRegistryProofs` |
| `BridgeRuntime`, `SessionChannel` | the bridge runtime, and what it promises a gateway | `demand` | `BridgeRuntimeProofs` |
| `GatewayClient` | the app's connection | `attempts`, `retried` | `GatewayClientProofs` |
| `ServiceLifecycle` | the bridge's processes and commands on one machine | `commands` | `ServiceLifecycleProofs` |
| `ChatCache` | the cache of chat messages | `jobs` | `ChatCacheProofs` |
| `ChatRuns` | the runs a chat screen follows | `events`, `switch` | `ChatRunsProofs` |
| `Sifting` | `filter` over a sequence, for `BridgeRuntime` and `ChatCache` | | `SiftingProofs` |

An `MC` module extends each module with runs for TLC; four of them add a symmetry set, where
the elements of a constant are interchangeable. The modules with a liveness run
(`BridgeRuntime`, `GatewayClient`, `ChatCache`) have none. In each module an
operator that stands directly before another one and is called a mutant is a
plausible bug in it; the run of the property named beside it in `PROJECT.json`
must refute it.

`TypeOK` is the type invariant of each module. It is proved for all of them, so no
run repeats it.

## Proofs

The safety properties of all modules are theorems for every value of the constants:
each section below says from which assumptions and by which
inductive invariant. A theorem has a hypothesis only where its run has it too:
`RelayRoom` without hibernation or without late frames, `PairingRegistry` with one
request at a time, `ServiceLifecycle` where `ps` shows every runtime; the section
says what breaks without it.

Most modules write a handler as operators on worlds, and so do the proofs. An
invariant is a predicate on worlds, and there is a lemma per operator (what it
keeps, what it changes), from which the lemma of an action follows the handler
call by call. Where a lemma would have to say too much about an operator, a
relation between worlds takes its place (`Quiet` and `Thinned` in
`RelayRoomProofs`). `ChatCache` and `ServiceLifecycle` are written as processes that
step from place to place; their invariants say what holds at each place.

`SiftingProofs` holds what two modules share: what is left of a sequence of which
only some places are kept (`SiftIs`, `SiftSet`, `SiftAll`). The k-th of those places
is the one with rank k, and the ranks of a finite set of numbers go from 1 to its
size (`RankOnto`).

Model-checked only: the liveness properties (`ConnectNotStranded`, `Retried`,
`CallsEnd`), since the provers have no fairness rule.

## Plan

Done: one module for each component with a protocol or shared state. Left:

1. A composition of client, room and bridge with channels that lose and delay
   messages, against an abstract connect handshake.
2. The merging of histories with streamed messages, as operators checked against
   a reference definition.

## RelayRoom

`RelayRoom.tla` models one Durable Object of `apps/relay-worker/src`. Its
handlers are synchronous from the point where they start to change the room
(the awaits left are writes to the object's own storage, during which the
platform delivers no other event), so each is one action.

The source writes its handlers as functions over a runtime. So does the module:
a *world* is the record those functions work on, an operator returns the world
it leaves, or the set of worlds where the source's choice depends on the order
of a `Map`, and `Become(w)` makes a world the next state.

| Code | Module |
| --- | --- |
| `RelayRuntime` | `runtime` (lost on a wake or a restart) |
| `state.getWebSockets()` and attachments | `sock`: `free`, `open` or `closing` (no longer `OPEN`, close event to come) |
| `gatewayOwner`, stored under `gateway-owner` | `owner` |
| `storage.setAlarm` | `alarm` |
| `fetch` for `/ws` after authorisation | `ConnectGateway`, `ConnectClient` |
| `webSocketMessage` from the gateway | `GatewayControl`, `GatewayChallenge`, `GatewayResponse`, `GatewayData` |
| `webSocketMessage` from a client | `ClientConnectRequest`, `ClientData`, `ClientControl`, `ClientRateLimited` |
| `webSocketClose`, `webSocketError` | `RemoveSocket` |
| `alarm` | `Alarm` |
| constructor | `Wake` (sockets stay), `Restart` (sockets gone) |
| platform | `SocketLost`, `Tick` |

`sent` holds the frames of the last step, for properties about deliveries. `told`
and `heard` are ghosts: the count last told to the open gateway socket, and when
the room really last heard from each peer.

Abstractions. A payload is its kind and the request id or target it carries.
How often a client may send is left open: any frame but a connect may exceed
the limit (`ClientRateLimited`). The ticks sent, telemetry and the two fields
only telemetry reads (`connectStartAtByClientId`, `gatewayLastActivityAt`) are
left out. `gatewayOwnerTouchedAt` always equals `gatewayOwner.seenAt`. Where the
source drops several clients one after another, `DropClients` gives the state
after the last. Connects arrive authorised.

The environment: `LateFrames` lets frames arrive on a socket the room has
closed, until its close event is handled; `Hibernation` lets the object lose
its memory and keep its sockets; a `Restart` is always possible.

### Runs

| Run | Bounds | Shows |
| --- | --- | --- |
| `sessions` | 1 gateway, 2 clients, 3 sockets, clock 0..1, late frames | `GatewayToldClientCount`, `NoBufferedStartsWhileGatewayOpen` |
| `timeouts` | 1 gateway, 1 client, 1 request id, 3 sockets, clock 0..3, all limits 1 or 2, late frames | `TimeoutCloseJustified`, `WaitEndsInChallenge` |
| `lease` | 2 gateways, 1 client, 3 sockets, clock 0..4, lease 2, refresh 1, wakes | `OneGatewayOwnsRoom`, `OpenClientsMapped`, `AlarmArmedWhileClientsOpen`, `OwnerNamesOpenGateway`, `LeaseProtectsOwner` |

Three sockets are enough for a gateway and two clients, and for one peer to be
replaced while its old socket is still closing next to another peer: the events
that race are a new connect, a late event and a frame. The clock of `timeouts`
reaches one past each limit; the clock of `lease` lets one instance take over
after another twice. Nobody has to connect and the clock ends, so deadlock is
not checked. No run assumes fairness: nothing here is a liveness property.

### Known deviations

The passing runs keep to conditions under which their properties hold. Outside
them the code does less:

- A frame from a replaced gateway socket touches the owner record
  (`routing.ts:239`), so the recorded owner need not be the connected instance.
  `lease` has `LateFrames = FALSE`; with `TRUE` `OwnerNamesOpenGateway` fails.
- A wake takes a client's connect time for its last activity (`storage.ts:229`),
  and the next alarm closes a busy client as idle. `timeouts` has no hibernation;
  with it `TimeoutCloseJustified` fails.
- Pending handshake state is not persisted (`index.ts:92`), contrary to
  `docs/relay/ARCHITECTURE.md`: with hibernation `WaitEndsInChallenge` fails.
- A buffered challenge outlives the gateway socket that sent it when
  `reconcileSockets` runs before `replaceGateway` (`control.ts:11`).

### Proofs

`RelayRoomProofs.tla` proves, for every set of gateways, clients, sockets and
request ids and every timing, with and without hibernation and late frames:

- `TypeCorrect`: `Spec => []TypeOK`
- `OneGateway`: `Spec => []OneGatewayOwnsRoom`
- `ClientsMapped`: `Spec => []OpenClientsMapped`
- `AlarmArmed`: `Spec => []AlarmArmedWhileClientsOpen`

from `IdsAssumption` (gateway and client ids are distinct, the set of clients is
finite, `None` is none of them) and `TimingAssumption` (limits are natural
numbers). `OneGatewayOwnsRoom` and `OpenClientsMapped` are not inductive one by
one with the alarm: a socket's place is needed to know that `ensureHeartbeat`,
which asks the maps, saw every open client. `Inv` is types, `Owned` (every open
socket holds the place its attachment names) and the alarm. One lemma per
operator says that it keeps worlds well typed and either keeps the places
(`SamePlaces`) or restores them (`ReconcileWorld`) or empties places whose
socket is no longer open (`DropWorld`); one lemma per action follows the action
through its operators.

Of the gateway, its owner record and the clients' waits it proves:

- `BufferedStarts`: `Spec => []NoBufferedStartsWhileGatewayOpen`
- `ToldCount`, `SilenceCloses`, `WaitsEnd`: `~Hibernation =>` (`Spec =>`
  `[]GatewayToldClientCount`, `TimeoutCloseJustified`, `WaitEndsInChallenge`)
- `OwnerNames`, `Lease`: `~LateFrames =>` (`Spec => []OwnerNamesOpenGateway`,
  `LeaseProtectsOwner`)

The hypotheses are those of the runs. A room that hibernates forgets what it told
the gateway, when it heard from a client and who waits; a late frame renames the
owner. Each holds for every value of the other switch.

The invariant `GatewayInv` adds to `Inv`: the places are those of sockets still
there that bear the name (`Seated`), no connect is buffered while the gateway is
open (`Emptied`), the count told is that of the mapped clients (`Informed`), no
client was heard from later than the room remembers (`Remembered`), and the owner
is the connected gateway and was touched when it was last heard (`OwnerSeated`,
`Leased`). `Informed` is not inductive alone: a client is counted by its place in
the map, so a place whose socket is gone must be known to be emptied before the
count is told again. Most operators move no socket and no client (`Quiet`) or only
drop clients (`Thinned`); the action properties follow from the same lemmas
(`Patient`: a wait ends in a challenge, a close, or after its time).

## PairingRegistry

`PairingRegistry.tla` models the pairing record of one gateway: the registry
(`apps/relay-registry/src/index.ts`), the key-value store, and the relay's
authorisation of a connect (`relay/auth.ts`, the mirrored hashes of
`relay/storage.ts`). Records of different gateways share nothing.

| Code | Module |
| --- | --- |
| the value under `pair-gateway:<gatewayId>` | `record`; `older` holds the earlier values a relay may still read |
| a registry request between its read and its answer | `request[q]` with the record it is about to put |
| `handlePairRegister` | `Register` |
| `handlePairAccessCode` | `StartRefresh`, `WriteRefresh` |
| `handlePairClaim` | `StartClaim`, `WriteClaim`, `Sync` or `SyncFailed` |
| the answer reaching the bridge or the app | `Answer`; lost with the worker in `Die` |
| `mirroredClientTokenHashes`, in memory and stored | `mirror`, `stored`; `Restart` runs the constructor |
| `isRelayTokenAuthorized` | `StartCheck`, `ReadRecord`, `Verify`, `VerifyFailed`, `EndCheck` |

Abstractions. A code, a token and their hashes are one model value, and no value
is drawn twice. Time is the action `Expire`. An app claims only codes that were
printed and connects only with a token it was handed; the bridge connects with
the secret. `history` records what was put and answered: `handed` and `printed`
are what an app or a bridge may use, the rest is for properties.

The store. A put replaces the whole record; there is no compare-and-put. The
registry reads the last put and the relay any value not yet propagated. The
relay's tests draw the same line: a stale record at the relay is settled by
asking the registry ("falls back to registry verification when the local pair
record is stale", `apps/relay-worker/src/index.test.ts:377`). A registry whose
own reads lag would lose updates even without overlapping requests.

### Runs

| Run | Bounds | Shows |
| --- | --- | --- |
| `one_at_a_time` | 3 codes, 3 tokens, 1 worker, 1 connect, limit 2 | `SpentCodeStaysSpent`, `MirrorFollowsRecord`, `ValidTokenAccepted`, `HandedTokenKept`, `PrintedCodeClaimable`, `SyncedTokenMirrored` |
| `lost_token` | 2 codes, 2 tokens, 2 workers, limit 2 | violates `HandedTokenKept` |

Three tokens under a limit of two displace one; two workers are enough for one
to put between the read and the put of another; one connect is enough, connects
read and change nothing of each other. `one_at_a_time` has one worker because the
last three properties fail when requests overlap; the first three hold with
overlapping requests too, which the theorems below show for any number of workers.
A gateway whose codes and tokens are used up only restarts its room, and a state
without a connect left to try is no fault, so deadlock is not checked. Nothing
retries on its own, so no fairness is assumed and no liveness stated.

### Where the code differs from what is said of it

- `lost_token`: a refresh puts back the record it read before a claim
  (`index.ts:169`), and the token just handed out is gone. The mirror image, a
  claim that clears the code a refresh has printed, breaks
  `PrintedCodeClaimable`.

Known besides: the room keeps the hashes that arrive last, not those pushed last
(`storage.ts:86`; `updatedAt` is stored and never compared), so with two workers
`SyncedTokenMirrored` fails. The answer of a claim may be lost with its worker
(`Die`): the code is spent and nobody holds the token, and nothing is promised.

### Proofs

`PairingRegistryProofs.tla` proves, for every set of codes, tokens, requests and
connects and every limit, with requests overlapping in any way:

- `PairingTypeCorrect`: `Spec => []TypeOK`
- `SpentCodes`: `Spec => []SpentCodeStaysSpent`
- `MirrorBehindRecord`: `Spec => []MirrorFollowsRecord`
- `HeldTokensAccepted`: `Spec => []ValidTokenAccepted`

from `TokenMaxAssumption` (the limit is positive, as `parsePositiveInt` makes it)
and `NamesAssumption`. `SpentCodeStaysSpent` speaks of the record only; what
keeps it is in the requests that have yet to put. `CodesInv` adds that a code is
drawn, printed and claimed in that order, that no two refreshes draw the same
one, and that a code a refresh has yet to put is not printed, so not claimed.
`MirrorInv` bounds the tokens of every record about to be put by those put
already and the one just minted; it rests on two lemmas about the token list
(`WithTokenBounded`, `ToSetCons`). `HeldInv` ties what a connect may rely on to
the record, and the last place it is asked is the registry.

Three more hold for any number of codes, tokens and connects when requests come
one at a time (`OneAtATime`: there is one worker):

- `HandedTokensKept`: `OneAtATime => (Spec => []HandedTokenKept)`
- `PrintedCodes`: `OneAtATime => (Spec => []PrintedCodeClaimable)`
- `SyncedTokens`: `OneAtATime => (Spec => []SyncedTokenMirrored)`

The run `lost_token` shows that the hypothesis is needed. `AloneInv` says that a
request that is about to put has read the record as it is (`UpToDate`), and that
the record holds the tokens written last, the newest first (`Written`), so a token
leaves it only for newer ones; `RecordAssumption` (`None` is no record) tells a
request that has read from one that has not.

## BridgeRuntime

`BridgeRuntime.tla` models the class `BridgeRuntime` of
`packages/bridge-runtime/src/runtime.ts`. Node runs one handler at a time, so an
action is one event with its whole handler; as in `RelayRoom` operators take a
world and give one.

| Code | Module |
| --- | --- |
| the fields of `BridgeRuntime` | `rt` |
| `readyState` of each socket ever made | `sock`; a closed socket stays until its close event was handled |
| `connectRelay`, `ensureGatewayConnected`, `closeGateway` | `ConnectRelay`, `EnsureGateway`, `CloseGateway` |
| the handlers of the relay socket | `RelayOpened`, `RelayClosed`, `RelayMessage` (`ClientCount`, `ClientDisconnected`, `RelayFrame`) |
| the handlers of the gateway socket | `GatewayOpened`, `GatewayClosed` |
| `pendingGatewayMessages` and its helpers | `Dedupe`, `Prune`, `DropStaleIdle`, `Push`, `FlushPending`, `ForwardOrQueue` |
| the timers, `stop` | `Heartbeat`, `ReconnectFires`, `GatewayRetryFires`, `Stop` |
| the network | `Dropped` |

A frame is its kind and the number of its arrival; what the gateway sends to the
clients is not followed. A timer that is set may fire, delays are left out.
`given` and `spent` are ghosts: what each gateway socket was sent.

`SessionChannel.tla` is the promise to a gateway: each connection gets frames in
the order of their arrival, first a connect, and none that another connection
got. `BridgeRuntime` implements it (`SessionsSeparate == Channel!Spec`, with
`Connections <- GatewaySockets`), checked as a property of the run.

| Run | Bounds | Shows |
| --- | --- | --- |
| `demand` | 2 sockets on each side, 1 client, 3 frames, queue of 2 | `RelayAlwaysPursued`, `NoSocketLeaks`, `DemandPursued`, `SessionStaysStarted`, `SessionsSeparate`, `LatestConnectKept`, `StopIsFinal`, `ConnectNotStranded` |

Two sockets on a side are a current one and one still closing; three frames are
a connect, data, and the connect of the next session, and one more than the
queue holds. `MaxFrames` bounds what arrives and `MaxClients` the count the
relay reports; after a stop nothing happens, so deadlock is not checked.

Fairness. `EventLoop`: timers that are due fire and sockets report what becomes
of them (weak fairness, Node's event loop). `Reachable`: the relay and the
gateway do not refuse every connect for ever (strong fairness on the opening of
the current socket); the bridge promises nothing to a client of a gateway that
is never there. Only `ConnectNotStranded` uses them.

Known deviations. `SessionStaysStarted` excepts a gateway socket created while
an older one was closing: the late close event clears `gatewayHandshakeStarted`
(`runtime.ts:480`), and data of the new session then waits for another connect.
`ensureGatewayConnected` asks for no demand (`runtime.ts:327`, `:341`, and the
retry timer), so an idle gateway socket may be opened, against the first rule of
the contract at `runtime.ts:834`; it is closed when demand goes again.
`LatestConnectKept` excepts a queue at its limit, whose oldest frame goes even
if it is the only connect.

### Proofs

`BridgeRuntimeProofs.tla` proves, for all pools of sockets, numbers of clients and
frames, and limits of the queue:

- `BridgeTypeCorrect`: `Spec => []TypeOK`
- `RelayPursued`, `NoneLeaks`, `DemandIsPursued`, `SessionsStarted`: `Spec => []` of
  `RelayAlwaysPursued`, `NoSocketLeaks`, `DemandPursued`, `SessionStaysStarted`
- `ConnectsAreKept`: `Spec => LatestConnectKept`
- `StoppedForGood`: `Spec => StopIsFinal`
- `ImplementsChannel`: `Spec => SessionsSeparate`

The invariant has the parts that hold between any two operators (`Sound`: types; a
stopped bridge is at rest; the sockets in use are open and no others; what the
gateway was fed came in order, and what is queued came after it and went to nobody
else) and the parts an event restores only at its end (`Relay`, `Pursued`,
`Started`). That
the channel is implemented rests on the frames fed and the frames queued never
meeting (`Queued`, `Fed`): a socket that is replaced takes its frames with it, and
`Dedupe`, which writes the queue anew, keeps the order (`SiftIs`, from lemmas on
the ranks of a finite set of places, in `SiftingProofs`). Every action ends in one of few outcomes,
each a step of the channel or a stutter.

## GatewayClient

`GatewayClient.tla` models the connection of the app: `services/gateway.ts` with
`gateway-relay.ts` and the routing of `gateway-shared.ts`.

| Code | Module |
| --- | --- |
| the fields of `GatewayClient` | `c` |
| device tokens in secure storage | `tokens` |
| what goes on after an await | `tasks`: each has a stage and whether its attempt is the current one |
| `connect`, `reconnect`, `restartConnection`, `disconnect`, `configure` | `Connect`, `Reconnect`, `Restart`, `Disconnect`, `SwitchTo`, `Forget` |
| `openSocket` and the handlers of the socket | `OpenSocket`, `Opened`, `Closed`, `Challenge`, `PairApproved`, `Answered` |
| `handleConnectChallenge`, `resolveConnectAuth` | `IdentityKnown`, `AuthKnown`, `BootstrapKnown`, `Accepted`, `TokenStored`, `Refused`, `TokenMismatch`, `TokenCleared`, `BootstrapUnsupported`, `NotPaired`, `ConnectFailed` |
| `tryConnectRelayFastPath` | `RelayFastPath`, `FastPathKnown` |
| the timers | `ReconnectFires`, `WsOpenFires`, `ChallengeFires`, `PairingFires`, `TickFires`, `BootstrapFires`, `RequestTimesOut`, `ProbeFails` |

Attempt ids are only ever compared with the current one, so a task knows whether
it is `mine`; every event of a socket that is not the current one is ignored by
its handler, so one socket is kept and `leaked` records that one in use was
replaced. The state "connecting" stands also for "reconnecting" while a socket
opens. Of time two flags are left: `recent` (a forced reconnect less than 8 s
ago, the debounce) and `young` (the attempt began less than 20 s ago). A timer
fires only when its period allows: opening 10 s, the fast path 12 s, a request
15 s, the challenge 20 s, the ticks 45 s, pairing 5 min.

| Run | Bounds | Shows |
| --- | --- | --- |
| `attempts` | a direct gateway and one through the relay, 2 tasks | `Pursued`, `NoSocketLeaks`, `NoStaleConnect`, `QuietUntilAsked` |
| `retried` | the relay's gateway without older credentials, 1 task | `Retried` |

Two tasks are a handshake and another one that outlived its attempt, or two that
did; two gateways are needed for a switch. `retried` is the smaller instance
because a liveness check holds the whole graph. The app may never call, so
deadlock is not checked.

Fairness (`EventLoop`): timers fire and periods pass; storage answers, for the
current attempt and for past ones separately, since a row of new attempts must
not starve either; a socket that was closed reports its close. The last is
strong because its handler may need a free place among the bounded tasks. The
network is free to refuse every connect.

Known deviations. `Gaps` names the states `Pursued` and `Retried` except, in
which nothing leads on by itself although the user wants a connection:
`RecoverySkipped` (a recovery leaves "ready" and `reconnect` then takes it for a
handshake under way, the case of `gateway.test.ts:2037` and `:2051` with the
socket still open), `HandshakeGivenUp` (the handshake returns without closing
its socket), a `reconnect` within 8 s of another, which unblocks and then
returns, and a handshake that makes the client ready after its socket has gone.
`QuietUntilAsked` says what no step that the app did not ask for (`Unasked`) undoes,
and excepts: an approval; a handshake the gateway accepts after all (`Welcomed`,
`late`); token stores and removals of past attempts (`LateStep`), whose
continuation does not ask again, so that one may undo a disconnect
(`gateway.test.ts:1898` has no await under way); and `BlockOutlived`. That is two
ways in which a block, meant to "close the connection and block reconnect so the
user can take action" (`gateway.ts:1309`), does not end what goes on. A relay fast
path that is waiting when the pairing timer blocks still opens its socket, and the
timer of that socket reconnects and takes the block away. A second handshake that
is refused, on a socket whose first was accepted, leaves the tick watchdog, whose
`reconnect()` does the same. The `finally` clause of a past
handshake clears `connectRequestInFlight` of the current one
(`gateway.test.ts:1582` covers one attempt); the model has it (`Ended`).

### Proofs

`GatewayClientProofs.tla` proves, for every set of gateways, direct or relayed, and
any number of continuations at once:

- `TypeCorrect`: `Spec => []TypeOK`
- `SocketsKept`: `Spec => []NoSocketLeaks`
- `AlwaysPursued`: `Spec => []Pursued`
- `ConnectsFresh`: `Spec => NoStaleConnect`
- `StaysQuiet`: `Spec => QuietUntilAsked`

`Pursued` is not inductive: that a timer runs is known only with the reason for
which it was set. `Inv` ties the state to its timers and continuations: one fast
path at most, of the current attempt, with no socket beside it (`FastAlone`, from
which no socket leaks); a handshake of the current attempt is on the socket of the
attempt (`Hands`, from which no connect is stale); after a disconnect neither a
socket nor a timer is left (`Gone`); what a block leaves (`Barred`); a socket in use
has its timer or its handshake (`Timed`); a client without one has its timer or its
fast path (`Wakes`). An operator that starts an attempt establishes all this
whatever was before (`Restart`); the others keep it. The two action properties are
shown step by step along with the invariant.

## ServiceLifecycle

`ServiceLifecycle.tla` models the bridge's processes on one machine:
`packages/bridge-core/src/service.ts` and the commands of
`apps/bridge-cli/src/index.ts` that use it. Processes share files without a
lock, so each read and each write of a file is a step.

| Code | Module |
| --- | --- |
| a process and how far it is | `act[a]`: a runtime by its pid, or the command `CLI` |
| `bridge-runtime-processes.json`, `bridge-service.json` | `registry`, `state` |
| the identity in the pairing configuration | `config` |
| launchd, systemd | `manager`; `method` is what the machine has |
| `listRuntimeProcesses`, `stopRuntimeProcesses` | `List`, `WriteBack`, `Scan`; `Signal`, `Waited`, `KillVictim`, `Reread`, `Rewrite`, `Clear` |
| `run` | `ReadConfig`, `Start`, `Register`, `Registered`, `Shutdown`, ..., `Unstate` |
| `pair`, `install`, `restart`, `stop`, `uninstall`, `reset` | `Command`, `Pair`, `Decide`, `Kill`, `Unload`, `Unloaded`, `ActivateManaged`, `ActivateDetached`, `DeleteConfig`, `End` |
| the operating system | `Respawn`, `Die`, `Interrupt` |

| Run | Bounds | Shows |
| --- | --- | --- |
| `commands` | 3 pids, 1 run by hand, 2 commands, 1 crash | `OneRuntime`, `Stopped`, `PairedIdentityServes` |

Three pids are the service, its replacement and a runtime by hand; two commands
are an installation and what comes after it; commands follow one another, as one
user gives them. Runtimes start, end and crash at any moment. A machine on which
nothing is left to do stops, so deadlock is not checked. No fairness: the
properties are of safety.

Known deviations. A runtime is found by the real path of the script in its
command line (`service.ts:559`); one started through a link of npm is not found
until it has registered, and then two serve together: `OneRuntime` fails with
`Hidden = TRUE`, against "converge the machine back to a single runtime"
(`docs/bridge/architecture/service-lifecycle.md:11`). Two processes that change
the list at once may lose a registration (`service.ts:304`); the properties hold
all the same since `ps` is asked too. Two runtimes started by hand at the same
moment both refuse.

### Proofs

`ServiceLifecycleProofs.tla` proves, for every set of pids, and any number of
commands, crashes and runtimes by hand:

- `ServiceTypeCorrect`: `Spec => []TypeOK`
- `OneRuntimeServes`: `~Hidden => (Spec => []OneRuntime)`
- `StoppedForGood`: `~Hidden => (Spec => []Stopped)`
- `PairedIdentity`: `~Hidden => (Spec => []PairedIdentityServes)`

with the hypothesis of the run, without which `OneRuntime` fails (above).
`OneRuntime` speaks of runtimes that serve; the invariant (`Excluded`) speaks of all
that have looked for others and go on: of two of them one still waits for the end of
the other, so they never serve together. `Ended` says what each command that ends
the bridge has seen ending and when the service manager has let go of the service;
`Current` that a runtime has read the present configuration or is yet to be ended
by the pairing that changed it. One lemma per step says where it takes its process
and what it may do to others (`OnlyFor`, `Weaker`: a step ends another process or
leaves it where it is).

## ChatCache

`ChatCache.tla` models `apps/mobile/src/services/chat-cache.ts`: chunks under a
revision, a manifest that names them, an index of sessions, and a lock that
orders calls. Storage has no transactions, so a call is a job of several steps,
each of which may fail or be the last before the app dies.

| Code | Module |
| --- | --- |
| the stored values | `chunk`, `manifest`, `index` |
| `runWithIndexLock` | `queue`, `Turn` |
| `writeGenerationMessages` | `WriteChunks`, `WriteManifest`, `RemoveStale` |
| `removeGenerationStorage` | `RemoveGeneration` |
| `saveMessages` | `ReadLayout`, the three above, `ReadIndex`, `Evict`, `WriteIndex` |
| `getSanitizedIndexUnsafe`, `sanitizeIndexedSession` | `ReadIndex`, `Check`, `Checked` |
| `deleteMessages`, `clearAll` | `RemoveSession`, `Evict`, `DropIndex` |

A chunk holds one message, a message is the number of its call and its place.
`saved`, `kept`, `listed` and `misread` are ghosts.

| Run | Bounds | Shows |
| --- | --- | --- |
| `jobs` | 3 sessions, 2 in the index, 2 chunks, 2 calls, 2 faults | `CommittedReadable`, `ListedStay`, `NothingLeftBehind`, `RemovedStaysRemoved`, `CallsEnd` |

Storage may hold a session of every older form at first, so two calls meet a
full index, an eviction and a rewrite. Calls are used up in the end, so deadlock
is not checked. Fairness: `WF_vars(Step)`, a storage call is answered or fails.

Known deviations. An index that cannot be read counts as empty
(`chat-cache.ts:249`), and the next save forgets all other sessions:
`ListedStay` excepts it (`misread`). An error while one session is checked
removes its messages (`chat-cache.ts:303`); `CommittedReadable` takes that for a
removal. Both are losses of a cache, whose owner reads the history anew.

### Proofs

`ChatCacheProofs.tla` proves, for every finite set of sessions, every limit of the
index, and any number of chunks, calls and faults:

- `CacheTypeCorrect`: `Spec => []TypeOK`
- `CommittedRead`: `Spec => []CommittedReadable`
- `ListedKept`: `Spec => []ListedStay`
- `NothingLeft`: `Spec => []NothingLeftBehind`
- `RemovedKept`: `Spec => RemovedStaysRemoved`

from `KeysAssumption` and `BoundsAssumption` and from `NothingAssumption` (no message
and no manifest is taken for nothing stored). The lock lets one job write, so `Inv`
says what the first job of the queue has done at its place (`Serves`) and that the
others have not begun (`Waiting`). Stored forms are older than the jobs that wait
(`Ordered`), and a job writes under its own number (`Renews`): so the chunks it
writes and the stale ones it removes are never those the manifest names. `Lists`
says at each place of a save, a removal or a reader which list holds every listed
session. All this holds whatever fails. `TidyBut` is the rest: while nothing has failed,
what is stored is what the index and the manifests name, but for what the job at its
place has written and not yet named, or no longer names (`Spare`, `StoredBy`). A step
takes the first job on (`GoesOn`) or out of the queue (`Ends`), where the next one
begins (`Begins`).

## ChatRuns

`ChatRuns.tla` models which run each chat session follows:
`useGatewayChatEvents.ts`, `useChatController.ts`, `sessionRunState.ts`,
`pendingOptimisticRun.ts` and `currentSessionActivity.ts` of the chat screen.

| Code | Module |
| --- | --- |
| `sessionKeyRef`, `lastConnStateRef` | `session`, `ready` |
| `currentRunIdRef` and `isSending` | `screen` |
| `sessionRunStateRef`, `pendingOptimisticRunIdsRef` | `remembered`, `pending` |
| events of the gateway | `Signal`, `Final`, `Failed`, `SeqGap`, `ConnectionLost`, `ConnectionReady` |
| `applyRememberedRunStateToCurrentSession` after its await | `RestoreDone` |
| `openSession`, the session and gateway effects | `OpenSession`, `SelectSession`, `SwitchGateway` |
| `submitMessageWithConnectionCheck`, `submitMessage` | `PressSend`, `ProbeFails`, `Submit`, `Sent`, `SendFails` |
| watchdog, pending timeout, stop button | `Watchdog`, `PendingTimeout`, `AbortFallback` |
| `requestRunRecovery`, `revalidateRecoveredRun` | `Recover`, `RecoveryDropped`, `RecoveryDone` |
| `syncDerivedSessionActivity`, the observed-completion effect | `Sync`, `ObservedCompleted` |
| the gateway | `runs`; `Accept`, `Elsewhere`, `EndsUnheard` |

Handlers run to completion; the interleaving is at the awaits. Time is not
counted: a limit may expire whenever it is set. `strays` is a ghost.

| Run | Bounds | Shows |
| --- | --- | --- |
| `events` | 2 sessions, 3 ids, 1 history check, 1 send | `SessionsApart`, `BusyFollowsRun`, `PendingUnanswered`, `KeptWhileAway` |
| `switch` | 2 sessions, 2 ids, 1 check, 1 send | violates `SwitchDoesNotLeak` |

Three ids are a message, the run named for it and a run of another client. Ids
are used up and nobody has to press a button, so deadlock is not checked. No
fairness: every limit is an inactivity limit that the properties do not rely on.

Where the code differs from what is said of it: `switch`. A message is submitted
after a probe has been awaited (`useChatController.ts:1650`), into the session
in which the button was pressed but onto the screen of the session now open; the
test at `useChatController.contract.test.ts:787` "does not leak sending state
when switching session before history loads" has a switch at another moment. A
remembered run is restored after an await in the same way
(`useGatewayChatEvents.ts:326`). `SessionsApart` excepts the ids in `strays`.

Known besides: the run remembered for a session is lost if the session is left
while not connected, since the screen that is put aside is then empty
(`persistCurrentRunState`; the test at `useChatController.contract.test.ts:828`
stays connected); a send that fails forgets whatever run its session remembers;
the last event of a run the screen does not follow is not shown there.

### Proofs

`ChatRunsProofs.tla` proves, for every set of sessions and ids, and with any
number of sends, restores and recoveries at once:

- `ChatTypeCorrect`: `Spec => []TypeOK`
- `ApartAlways`: `Spec => []SessionsApart`
- `BusyWithRun`: `Spec => []BusyFollowsRun`
- `PendingWithSend`: `Spec => []PendingUnanswered`
- `KeptAway`: `Spec => KeptWhileAway`

from `NoneIsNew`. `BusyFollowsRun` and `PendingUnanswered` are inductive with the
types. `SessionsApart` is not: the name of a run comes with the answer to a send,
so `SendsPlaced` says where the ids of a send belong, and an id that is drawn must
not be known already, which is `HeardUsed`. `KeptWhileAway` needs `HeardUsed` too:
a gateway that is left ends the runs that were used, so every remembered one. One
lemma per part has a step per action.

## Not modelled

- The image cache and the settings store: single keys, read by code that takes
  any value.
- The node client of the app: a smaller connection with one retry timer.
- The merging of histories, streamed text and tool rows of the chat.
- The bridge's bootstrap requests, pairing requests and device snapshots, its
  command line helpers, and the reading of the OpenClaw configuration: input and
  output without state between calls.
- Policies, formatting and parsing in the app: pure functions, tested case by
  case in the repository.
- Screens, components, theme, translations, the office game, the native speech
  module and the build scripts: they hold most of the repository's lines and no
  protocol state, so the map covers a small share of all lines.

`components` in `PROJECT.json` says it per component.
