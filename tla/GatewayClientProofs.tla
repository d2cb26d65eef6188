------------------------- MODULE GatewayClientProofs -------------------------
(***************************************************************************)
(* What holds of GatewayClient for every set of configurations and every   *)
(* number of continuations at a time.                                      *)
(*                                                                         *)
(* The operators of GatewayClient work on worlds, so the invariant is a    *)
(* predicate on worlds.  An operator that starts an attempt establishes it *)
(* whatever was before (Restart), or keeps it (Connect when it returns     *)
(* early); the others keep it.  There is one lemma for each operator and   *)
(* one for each action, which follows the handler from one operator to the *)
(* next and ends in Become.                                                *)
(***************************************************************************)
EXTENDS GatewayClient, TLAPS

-----------------------------------------------------------------------------
(* The inductive invariant *)

Task == [stage : Stages, mine : BOOLEAN, auth : Auths]

Worlds ==
  [c : Client, config : Configs \cup {None}, tokens : SUBSET Configs,
   tasks : [Tasks -> Task], leaked : BOOLEAN, swallowed : BOOLEAN, late : BOOLEAN,
   full : BOOLEAN, probeLost : BOOLEAN]

\* The stages of a handshake.
HandStages == {"identity", "auth", "bootstrap", "response", "store", "clear"}

\* Continuation i is a handshake of the current attempt; a fast path.
Hand(w, i) == w.tasks[i].stage \in HandStages /\ w.tasks[i].mine
Fast(w, i) == w.tasks[i].stage = "fast"

\* One fast path at most, of the current attempt, and no socket while it waits.
FastAlone(w) ==
  /\ \A i \in Tasks :
       Fast(w, i) =>
         /\ w.tasks[i].mine /\ w.config # None
         /\ ~InUse(w) /\ ~w.c.mine /\ ~w.c.manuallyClosed
  /\ \A i, j \in Tasks : Fast(w, i) /\ Fast(w, j) => i = j
  /\ w.c.bootstrapInFlight => w.config \in Relay /\ \E i \in Tasks : Fast(w, i)

\* A handshake of the current attempt runs on the socket of the attempt, which has
\* opened and sent its challenge.
Hands(w) ==
  \A i \in Tasks :
    Hand(w, i) => w.c.mine /\ ~w.c.challengeTimer /\ w.c.ws # "connecting"

\* After a disconnect neither a socket nor a timer is left.
Gone(w) ==
  w.c.manuallyClosed =>
    ~w.c.mine /\ w.c.ws = "none" /\ ~w.c.reconnectTimer /\ (w.c.tickTimer => w.late)

\* What runs while the client is blocked.
Barred(w) ==
  w.c.blocked => ~w.c.bootstrapInFlight /\ (w.c.mine /\ w.c.challengeTimer => InUse(w))

\* A socket in use has its timer or its handshake.
Timed(w) ==
  /\ w.c.challengeTimer => ~w.c.pairingTimer
  /\ w.c.ws = "connecting" => w.c.wsOpenTimer /\ ~w.c.pairingTimer
  /\ w.c.ws = "open" =>
       w.c.state \in {"challenging", "ready", "pairing_pending", "reconnecting"}
  /\ w.c.ws = "open" /\ w.c.state = "ready" => w.c.tickTimer
  /\ InUse(w) => w.c.mine /\ w.config # None
  /\ w.c.connectInFlight /\ w.c.mine => \E i \in Tasks : Hand(w, i)

\* A client without a socket of its attempt has its timer or its fast path.
Wakes(w) ==
  /\ w.config # None /\ w.c.state # "idle" /\ ~w.c.manuallyClosed /\ ~w.c.blocked
  /\ w.c.ws = "none" \/ ~w.c.mine
  => w.c.reconnectTimer \/ w.swallowed \/ w.late \/ \E i \in Tasks : Fast(w, i)

\* The parts that hold between the operators of a handler.
Steady(w) ==
  /\ FastAlone(w) /\ Hands(w) /\ Gone(w) /\ Barred(w) /\ Timed(w)
  /\ ~w.leaked

Good(w) == w \in Worlds /\ Steady(w) /\ Wakes(w)

Inv == Good(World)

\* No continuation of v waits for a response that did not in w.
Calm(v, w) ==
  \A i \in Tasks : v.tasks[i].stage = "response" => w.tasks[i].stage = "response"

\* What NoStaleConnect and QuietUntilAsked say of a step.
Fresh ==
  \A i \in Tasks :
    tasks'[i].stage = "response" /\ tasks[i].stage # "response" =>
      tasks'[i].mine /\ c.mine /\ c.ws = "open"
Still ==
  Quiet => Quiet' \/ PairApproved \/ Welcomed \/ LateStep \/ late \/ BlockOutlived

-----------------------------------------------------------------------------
(* Small operators *)

\* The fields the invariant asks for, but for connectRequestInFlight.
SameClient(v, w) ==
  /\ v.c.state = w.c.state /\ v.c.ws = w.c.ws /\ v.c.mine = w.c.mine
  /\ v.c.manuallyClosed = w.c.manuallyClosed /\ v.c.blocked = w.c.blocked
  /\ v.c.bootstrapInFlight = w.c.bootstrapInFlight
  /\ v.c.reconnectTimer = w.c.reconnectTimer /\ v.c.wsOpenTimer = w.c.wsOpenTimer
  /\ v.c.challengeTimer = w.c.challengeTimer /\ v.c.pairingTimer = w.c.pairingTimer
  /\ v.c.tickTimer = w.c.tickTimer

\* v is w after some handshakes ended.
Quit(v, w) ==
  /\ v.config = w.config /\ v.leaked = w.leaked /\ v.swallowed = w.swallowed
  /\ v.late = w.late /\ v.full = w.full
  /\ SameClient(v, w)
  /\ v.c.connectInFlight => w.c.connectInFlight /\ v.tasks = w.tasks
  /\ \A i \in Tasks : v.tasks[i] = w.tasks[i] \/ (v.tasks[i] = NoTask /\ ~Fast(w, i))

\* v and w differ in the fields of the client alone.
Kept(v, w) ==
  /\ v.config = w.config /\ v.tasks = w.tasks /\ v.leaked = w.leaked
  /\ v.swallowed = w.swallowed /\ v.late = w.late /\ v.full = w.full
  /\ v.probeLost = w.probeLost

\* An attempt may start: nothing of the one before is left that could disturb it.
Clear(w) ==
  /\ w \in Worlds /\ ~w.leaked /\ w.config # None
  /\ ~InUse(w) /\ ~w.c.mine /\ ~w.c.manuallyClosed /\ ~w.c.bootstrapInFlight
  /\ w.c.challengeTimer => ~w.c.pairingTimer
  /\ \A i \in Tasks : ~Hand(w, i) /\ ~Fast(w, i)

\* A world is the record of its fields.
LEMMA WorldIs ==
  ASSUME NEW w \in Worlds
  PROVE  /\ w.c \in Client /\ w.config \in Configs \cup {None}
         /\ w.tokens \in SUBSET Configs /\ w.tasks \in [Tasks -> Task]
         /\ w.leaked \in BOOLEAN /\ w.swallowed \in BOOLEAN /\ w.late \in BOOLEAN
         /\ w.full \in BOOLEAN /\ w.probeLost \in BOOLEAN
BY DEF Worlds

\* No task waits, and it is of the right type.
LEMMA NoTaskIs ==
  /\ NoTask \in Task /\ NoTask.stage = "none" /\ NoTask.mine = FALSE
  /\ "none" \notin HandStages /\ "fast" \notin HandStages /\ "response" \in HandStages
  /\ HandStages \subseteq Stages
BY DEF NoTask, Task, Stages, Auths, HandStages

LEMMA WatchdogsClient ==
  ASSUME NEW k \in Client, NEW m,
         m = [k EXCEPT !.wsOpenTimer = FALSE, !.challengeTimer = FALSE,
                       !.pairingTimer = FALSE, !.tickTimer = FALSE]
  PROVE  /\ m \in Client
         /\ ~m.wsOpenTimer /\ ~m.challengeTimer /\ ~m.pairingTimer /\ ~m.tickTimer
         /\ m.state = k.state /\ m.ws = k.ws /\ m.mine = k.mine
         /\ m.manuallyClosed = k.manuallyClosed /\ m.blocked = k.blocked
         /\ m.pairingPending = k.pairingPending
         /\ m.bootstrapInFlight = k.bootstrapInFlight
         /\ m.connectInFlight = k.connectInFlight
         /\ m.reconnectTimer = k.reconnectTimer
BY ZenonT(60) DEF Client

\* What ClearWatchdogs does.
LEMMA ClearWatchdogsIs ==
  ASSUME NEW w \in Worlds, NEW v, v = ClearWatchdogs(w)
  PROVE  /\ v = [w EXCEPT !.c = v.c] /\ v \in Worlds
         /\ ~v.c.wsOpenTimer /\ ~v.c.challengeTimer /\ ~v.c.pairingTimer
         /\ ~v.c.tickTimer
         /\ v.c.state = w.c.state /\ v.c.ws = w.c.ws /\ v.c.mine = w.c.mine
         /\ v.c.manuallyClosed = w.c.manuallyClosed /\ v.c.blocked = w.c.blocked
         /\ v.c.pairingPending = w.c.pairingPending
         /\ v.c.bootstrapInFlight = w.c.bootstrapInFlight
         /\ v.c.connectInFlight = w.c.connectInFlight
         /\ v.c.reconnectTimer = w.c.reconnectTimer
<1> DEFINE k == [w.c EXCEPT !.wsOpenTimer = FALSE, !.challengeTimer = FALSE,
                            !.pairingTimer = FALSE, !.tickTimer = FALSE]
<1>1. v = [w EXCEPT !.c = k]
  BY DEF ClearWatchdogs, Worlds
<1>2. w.c \in Client
  BY WorldIs
<1> HIDE DEF k
<1>3. v.c = k /\ v = [w EXCEPT !.c = v.c] /\ (k \in Client => v \in Worlds)
  BY <1>1 DEF Worlds
<1> USE DEF k
<1> QED BY ZenonT(60), <1>2, <1>3, WatchdogsClient

LEMMA ResetClient ==
  ASSUME NEW k \in Client, NEW m,
         m = [k EXCEPT !.pairingPending = FALSE, !.bootstrapInFlight = FALSE,
                       !.bootstrapTimer = FALSE, !.reconnectTimer = FALSE,
                       !.connectInFlight = FALSE, !.connectCompleted = FALSE,
                       !.ws = "none"]
  PROVE  /\ m \in Client
         /\ ~m.pairingPending /\ ~m.bootstrapInFlight
         /\ ~m.reconnectTimer /\ ~m.connectInFlight /\ m.ws = "none"
         /\ m.wsOpenTimer = k.wsOpenTimer /\ m.challengeTimer = k.challengeTimer
         /\ m.pairingTimer = k.pairingTimer /\ m.tickTimer = k.tickTimer
         /\ m.manuallyClosed = k.manuallyClosed /\ m.blocked = k.blocked
BY ZenonT(60) DEF Client

\* Resetting leaves no socket, no timer and no flag of an attempt.
LEMMA ResetIs ==
  ASSUME NEW w \in Worlds, NEW v, v = Reset(w)
  PROVE  /\ v = [w EXCEPT !.c = v.c] /\ v \in Worlds
         /\ v.c.ws = "none" /\ ~v.c.pairingPending /\ ~v.c.bootstrapInFlight
         /\ ~v.c.reconnectTimer /\ ~v.c.connectInFlight
         /\ ~v.c.wsOpenTimer /\ ~v.c.challengeTimer /\ ~v.c.pairingTimer
         /\ ~v.c.tickTimer
         /\ v.c.blocked = w.c.blocked /\ v.c.manuallyClosed = w.c.manuallyClosed
<1> DEFINE u == ClearWatchdogs(w)
           k == [u.c EXCEPT
                   !.pairingPending = FALSE, !.bootstrapInFlight = FALSE,
                   !.bootstrapTimer = FALSE, !.reconnectTimer = FALSE,
                   !.connectInFlight = FALSE, !.connectCompleted = FALSE, !.ws = "none"]
<1>1. /\ u = [w EXCEPT !.c = u.c] /\ u \in Worlds
      /\ ~u.c.wsOpenTimer /\ ~u.c.challengeTimer /\ ~u.c.pairingTimer /\ ~u.c.tickTimer
      /\ u.c.manuallyClosed = w.c.manuallyClosed /\ u.c.blocked = w.c.blocked
  BY ClearWatchdogsIs
<1>2. v = [u EXCEPT
             !.c.pairingPending = FALSE, !.c.bootstrapInFlight = FALSE,
             !.c.bootstrapTimer = FALSE, !.c.reconnectTimer = FALSE,
             !.c.connectInFlight = FALSE, !.c.connectCompleted = FALSE, !.c.ws = "none"]
  BY DEF Reset
<1> HIDE DEF u
<1>3. v = [u EXCEPT !.c = k]
  BY <1>1, <1>2 DEF Worlds
<1>4. u.c \in Client
  BY <1>1, WorldIs
<1> HIDE DEF k
<1>5. v.c = k /\ v = [w EXCEPT !.c = v.c] /\ (k \in Client => v \in Worlds)
  BY <1>1, <1>3 DEF Worlds
<1>6. /\ k \in Client
      /\ ~k.pairingPending /\ ~k.bootstrapInFlight
      /\ ~k.reconnectTimer /\ ~k.connectInFlight /\ k.ws = "none"
      /\ k.wsOpenTimer = u.c.wsOpenTimer /\ k.challengeTimer = u.c.challengeTimer
      /\ k.pairingTimer = u.c.pairingTimer /\ k.tickTimer = u.c.tickTimer
      /\ k.manuallyClosed = u.c.manuallyClosed /\ k.blocked = u.c.blocked
  BY <1>4, ResetClient DEF k
<1> QED BY <1>1, <1>5, <1>6

LEMMA NextClient ==
  ASSUME NEW k \in Client, NEW m, m = [k EXCEPT !.mine = FALSE]
  PROVE  /\ m \in Client
         /\ ~m.mine
         /\ m.state = k.state /\ m.ws = k.ws
         /\ m.manuallyClosed = k.manuallyClosed /\ m.blocked = k.blocked
         /\ m.bootstrapInFlight = k.bootstrapInFlight
         /\ m.connectInFlight = k.connectInFlight
         /\ m.reconnectTimer = k.reconnectTimer /\ m.wsOpenTimer = k.wsOpenTimer
         /\ m.challengeTimer = k.challengeTimer /\ m.pairingTimer = k.pairingTimer
         /\ m.tickTimer = k.tickTimer
BY ZenonT(60) DEF Client

\* The next attempt leaves no continuation of its own and no fast path.
LEMMA NextAttemptIs ==
  ASSUME NEW w \in Worlds, NEW v, v = NextAttempt(w)
  PROVE  /\ v \in Worlds
         /\ v.config = w.config /\ v.leaked = w.leaked
         /\ v.full = w.full /\ v.probeLost = w.probeLost
         /\ ~v.c.mine
         /\ v.c.state = w.c.state /\ v.c.ws = w.c.ws
         /\ v.c.manuallyClosed = w.c.manuallyClosed /\ v.c.blocked = w.c.blocked
         /\ v.c.bootstrapInFlight = w.c.bootstrapInFlight
         /\ v.c.connectInFlight = w.c.connectInFlight
         /\ v.c.reconnectTimer = w.c.reconnectTimer
         /\ v.c.wsOpenTimer = w.c.wsOpenTimer
         /\ v.c.challengeTimer = w.c.challengeTimer
         /\ v.c.pairingTimer = w.c.pairingTimer /\ v.c.tickTimer = w.c.tickTimer
         /\ \A i \in Tasks :
              /\ ~v.tasks[i].mine /\ v.tasks[i].stage # "fast"
              /\ v.tasks[i].stage \in {"none", w.tasks[i].stage}
<1> DEFINE ts == [i \in Tasks |-> IF w.tasks[i].stage = "fast" THEN NoTask
                                  ELSE [w.tasks[i] EXCEPT !.mine = FALSE]]
<1>1. /\ v.c = [w.c EXCEPT !.mine = FALSE] /\ v.tasks = ts
      /\ v.config = w.config /\ v.tokens = w.tokens /\ v.leaked = w.leaked
      /\ v.swallowed = FALSE /\ v.late = FALSE
      /\ v.full = w.full /\ v.probeLost = w.probeLost
      /\ v = [c |-> v.c, config |-> v.config, tokens |-> v.tokens, tasks |-> v.tasks,
              leaked |-> v.leaked, swallowed |-> v.swallowed, late |-> v.late,
              full |-> v.full, probeLost |-> v.probeLost]
  BY DEF NextAttempt, Worlds
<1>2. ASSUME NEW i \in Tasks
      PROVE  /\ ts[i] \in Task /\ ~ts[i].mine /\ ts[i].stage # "fast"
             /\ ts[i].stage \in {"none", w.tasks[i].stage}
  <2>1. w.tasks[i] \in Task
    BY WorldIs
  <2>2. CASE w.tasks[i].stage = "fast"
    <3>1. ts[i] = NoTask
      BY <2>2
    <3> QED BY <3>1, NoTaskIs
  <2>3. CASE w.tasks[i].stage # "fast"
    <3>1. ts[i] = [w.tasks[i] EXCEPT !.mine = FALSE]
      BY <2>3
    <3> HIDE DEF ts
    <3> QED BY <2>1, <2>3, <3>1 DEF Task
  <2> QED BY <2>2, <2>3
<1> HIDE DEF ts
<1>3. w.c \in Client
  BY WorldIs
<1>4. v.tasks \in [Tasks -> Task]
  BY <1>1, <1>2 DEF ts
<1>5. v.c \in Client => v \in Worlds
  BY <1>1, <1>4, WorldIs DEF Worlds
<1>6. v.c = [w.c EXCEPT !.mine = FALSE]
  BY <1>1
<1>7. /\ v.c \in Client
      /\ ~v.c.mine
      /\ v.c.state = w.c.state /\ v.c.ws = w.c.ws
      /\ v.c.manuallyClosed = w.c.manuallyClosed /\ v.c.blocked = w.c.blocked
      /\ v.c.bootstrapInFlight = w.c.bootstrapInFlight
      /\ v.c.connectInFlight = w.c.connectInFlight
      /\ v.c.reconnectTimer = w.c.reconnectTimer /\ v.c.wsOpenTimer = w.c.wsOpenTimer
      /\ v.c.challengeTimer = w.c.challengeTimer /\ v.c.pairingTimer = w.c.pairingTimer
      /\ v.c.tickTimer = w.c.tickTimer
  BY ONLY <1>3, <1>6, NextClient
<1> QED BY <1>1, <1>2, <1>5, <1>7

\* Handshakes that end leave what the invariant says.
LEMMA QuitKeeps ==
  ASSUME NEW w \in Worlds, NEW v \in Worlds, Quit(v, w)
  PROVE  /\ Steady(w) => Steady(v)
         /\ Wakes(w) => Wakes(v)
         /\ Calm(v, w)
<1>1. /\ v.config = w.config /\ v.leaked = w.leaked /\ v.swallowed = w.swallowed
      /\ v.late = w.late /\ SameClient(v, w)
      /\ v.c.connectInFlight => w.c.connectInFlight /\ v.tasks = w.tasks
  BY DEF Quit
<1>2. \A i \in Tasks :
        /\ Fast(v, i) <=> Fast(w, i)
        /\ Fast(v, i) => v.tasks[i] = w.tasks[i]
        /\ Hand(v, i) => Hand(w, i)
        /\ v.tasks[i].stage = "response" => w.tasks[i].stage = "response"
  BY NoTaskIs DEF Quit, Fast, Hand
<1>3. InUse(v) <=> InUse(w)
  BY <1>1 DEF SameClient, InUse
<1>4. FastAlone(w) => FastAlone(v)
  BY <1>1, <1>2, <1>3 DEF FastAlone, SameClient
<1>5. Hands(w) => Hands(v)
  BY <1>1, <1>2 DEF Hands, SameClient
<1>6. Gone(w) => Gone(v)
  BY <1>1 DEF Gone, SameClient
<1>7. Barred(w) => Barred(v)
  BY <1>1, <1>3 DEF Barred, SameClient
<1>8. Timed(w) => Timed(v)
  <2>1. v.c.connectInFlight => \A i \in Tasks : Hand(w, i) => Hand(v, i)
    BY <1>1 DEF Hand
  <2> QED BY <1>1, <1>3, <2>1 DEF Timed, SameClient
<1>9. Wakes(w) => Wakes(v)
  BY <1>1, <1>2 DEF Wakes, SameClient
<1>10. Calm(v, w)
  BY <1>2 DEF Calm
<1> QED BY <1>1, <1>4, <1>5, <1>6, <1>7, <1>8, <1>9, <1>10 DEF Steady

LEMMA EndedClient ==
  ASSUME NEW k \in Client, NEW b \in BOOLEAN, NEW m,
         m = [k EXCEPT !.connectInFlight = FALSE, !.connectCompleted = b]
  PROVE  /\ m \in Client
         /\ ~m.connectInFlight
         /\ m.state = k.state /\ m.ws = k.ws /\ m.mine = k.mine
         /\ m.manuallyClosed = k.manuallyClosed /\ m.blocked = k.blocked
         /\ m.bootstrapInFlight = k.bootstrapInFlight
         /\ m.reconnectTimer = k.reconnectTimer /\ m.wsOpenTimer = k.wsOpenTimer
         /\ m.challengeTimer = k.challengeTimer /\ m.pairingTimer = k.pairingTimer
         /\ m.tickTimer = k.tickTimer
BY ZenonT(60) DEF Client

\* The finally clause.
LEMMA EndedIs ==
  ASSUME NEW w \in Worlds, NEW v, v = Ended(w)
  PROVE  /\ v \in Worlds /\ Quit(v, w) /\ v.tasks = w.tasks /\ v.probeLost = w.probeLost
         /\ ~v.c.connectInFlight
<1> DEFINE b == w.c.state = "ready"
<1>1. b \in BOOLEAN
  OBVIOUS
<1>2. v = [w EXCEPT !.c.connectInFlight = FALSE, !.c.connectCompleted = b]
  BY DEF Ended
<1> HIDE DEF b
<1> DEFINE k == [w.c EXCEPT !.connectInFlight = FALSE, !.connectCompleted = b]
<1>3. v = [w EXCEPT !.c = k]
  BY <1>2 DEF Worlds
<1>4. w.c \in Client
  BY WorldIs
<1>5. /\ k \in Client
      /\ ~k.connectInFlight
      /\ k.state = w.c.state /\ k.ws = w.c.ws /\ k.mine = w.c.mine
      /\ k.manuallyClosed = w.c.manuallyClosed /\ k.blocked = w.c.blocked
      /\ k.bootstrapInFlight = w.c.bootstrapInFlight
      /\ k.reconnectTimer = w.c.reconnectTimer /\ k.wsOpenTimer = w.c.wsOpenTimer
      /\ k.challengeTimer = w.c.challengeTimer /\ k.pairingTimer = w.c.pairingTimer
      /\ k.tickTimer = w.c.tickTimer
  BY ONLY ZenonT(60), <1>1, <1>4, EndedClient
<1> HIDE DEF k
<1>6. /\ v.c = k /\ v \in Worlds
      /\ v.config = w.config /\ v.leaked = w.leaked /\ v.swallowed = w.swallowed
      /\ v.late = w.late /\ v.full = w.full /\ v.tasks = w.tasks
      /\ v.probeLost = w.probeLost
  BY <1>3, <1>5 DEF Worlds
<1>7. SameClient(v, w)
  BY <1>5, <1>6 DEF SameClient
<1> QED BY <1>5, <1>6, <1>7 DEF Quit

\* Handshakes end.
LEMMA EndTasksIs ==
  ASSUME NEW w \in Worlds, NEW ended \in SUBSET Tasks,
         \A i \in ended : ~Fast(w, i), NEW v, v = EndTasks(w, ended)
  PROVE  /\ v \in Worlds /\ Quit(v, w) /\ v.probeLost = w.probeLost
         /\ \A i \in Tasks : v.tasks[i] = IF i \in ended THEN NoTask ELSE w.tasks[i]
<1>1. CASE ended = {}
  BY <1>1 DEF EndTasks, Quit, SameClient
<1>2. CASE ended # {}
  <2> DEFINE u == [w EXCEPT !.tasks = [i \in Tasks |-> IF i \in ended THEN NoTask ELSE @[i]]]
  <2>1. v = Ended(u)
    BY <1>2 DEF EndTasks
  <2>2. /\ u \in Worlds
        /\ \A i \in Tasks : u.tasks[i] = IF i \in ended THEN NoTask ELSE w.tasks[i]
        /\ u.c = w.c /\ u.config = w.config /\ u.leaked = w.leaked
        /\ u.swallowed = w.swallowed /\ u.late = w.late /\ u.full = w.full
        /\ u.probeLost = w.probeLost
    BY NoTaskIs DEF Worlds
  <2> HIDE DEF u
  <2>3. /\ v \in Worlds /\ Quit(v, u) /\ v.tasks = u.tasks /\ v.probeLost = u.probeLost
        /\ ~v.c.connectInFlight
    BY <2>1, <2>2, EndedIs
  <2>4. SameClient(v, w)
    BY <2>2, <2>3 DEF Quit, SameClient
  <2> QED BY <2>2, <2>3, <2>4 DEF Quit
<1> QED BY <1>1, <1>2

LEMMA FinishIs ==
  ASSUME NEW w \in Worlds, NEW i \in Tasks, ~Fast(w, i), NEW v, v = Finish(w, i)
  PROVE  /\ v \in Worlds /\ Quit(v, w) /\ v.probeLost = w.probeLost
         /\ \A j \in Tasks : v.tasks[j] = IF j = i THEN NoTask ELSE w.tasks[j]
BY EndTasksIs DEF Finish

\* Whoever waited for a reply goes on and ends.
LEMMA RejectRepliesIs ==
  ASSUME NEW w \in Worlds, NEW stages \in SUBSET HandStages,
         NEW v, v = RejectReplies(w, stages)
  PROVE  /\ v \in Worlds /\ Quit(v, w)
         /\ "response" \notin stages => v.probeLost = w.probeLost
<1> DEFINE u == EndTasks(w, Awaiting(w, stages))
<1>1. /\ Awaiting(w, stages) \in SUBSET Tasks
      /\ \A i \in Awaiting(w, stages) : ~Fast(w, i)
  BY NoTaskIs DEF Awaiting, Fast
<1>2. u \in Worlds /\ Quit(u, w) /\ u.probeLost = w.probeLost
  BY <1>1, EndTasksIs
<1>3. v = IF "response" \in stages
          THEN [u EXCEPT !.c.request = FALSE, !.c.probe = FALSE, !.probeLost = w.c.probe]
          ELSE u
  BY DEF RejectReplies
<1> HIDE DEF u
<1>4. CASE "response" \in stages
  <2> DEFINE k == [u.c EXCEPT !.request = FALSE, !.probe = FALSE]
  <2>1. v = [u EXCEPT !.c = k, !.probeLost = w.c.probe]
    BY <1>2, <1>3, <1>4 DEF Worlds
  <2>2. w.c.probe \in BOOLEAN /\ u.c \in Client
    BY <1>2, WorldIs DEF Client
  <2>3. k \in Client
    BY ONLY <2>2, Zenon DEF Client
  <2>4. /\ k.state = u.c.state /\ k.ws = u.c.ws /\ k.mine = u.c.mine
        /\ k.manuallyClosed = u.c.manuallyClosed /\ k.blocked = u.c.blocked
        /\ k.bootstrapInFlight = u.c.bootstrapInFlight
        /\ k.reconnectTimer = u.c.reconnectTimer /\ k.wsOpenTimer = u.c.wsOpenTimer
        /\ k.challengeTimer = u.c.challengeTimer /\ k.pairingTimer = u.c.pairingTimer
        /\ k.tickTimer = u.c.tickTimer
        /\ k.connectInFlight = u.c.connectInFlight
    BY ONLY <2>2, Zenon DEF Client
  <2> HIDE DEF k
  <2>5. /\ v \in Worlds /\ v.c = k
        /\ v.config = u.config /\ v.leaked = u.leaked /\ v.swallowed = u.swallowed
        /\ v.late = u.late /\ v.full = u.full /\ v.tasks = u.tasks
    BY <1>2, <2>1, <2>2, <2>3 DEF Worlds
  <2>6. SameClient(v, u)
    BY <2>4, <2>5 DEF SameClient
  <2>7. SameClient(v, w)
    BY <1>2, <2>6 DEF Quit, SameClient
  <2>8. Quit(v, w)
    BY <1>2, <2>4, <2>5, <2>7 DEF Quit
  <2> QED BY <1>4, <2>5, <2>8
<1>5. CASE "response" \notin stages
  BY <1>2, <1>3, <1>5
<1> QED BY <1>4, <1>5

LEMMA CloseClient ==
  ASSUME NEW k \in Client, NEW m, m = [k EXCEPT !.ws = "closing"]
  PROVE  /\ m \in Client
         /\ m.ws = "closing"
         /\ m.state = k.state /\ m.mine = k.mine
         /\ m.manuallyClosed = k.manuallyClosed /\ m.blocked = k.blocked
         /\ m.bootstrapInFlight = k.bootstrapInFlight
         /\ m.connectInFlight = k.connectInFlight
         /\ m.reconnectTimer = k.reconnectTimer /\ m.wsOpenTimer = k.wsOpenTimer
         /\ m.challengeTimer = k.challengeTimer /\ m.pairingTimer = k.pairingTimer
         /\ m.tickTimer = k.tickTimer /\ m.recent = k.recent
BY ZenonT(60) DEF Client

\* Closing the socket: it is in use no more, and a client that is blocked must not
\* wait for a challenge on it.
LEMMA CloseWsIs ==
  ASSUME NEW w \in Worlds, NEW v, v = CloseWs(w)
  PROVE  /\ v \in Worlds /\ Kept(v, w) /\ ~InUse(v)
         /\ v.c.manuallyClosed = w.c.manuallyClosed /\ v.c.blocked = w.c.blocked
         /\ v.c.mine = w.c.mine /\ v.c.recent = w.c.recent
         /\ Steady(w) /\ (w.c.blocked => ~w.c.challengeTimer) => Steady(v)
         /\ Timed(w) /\ Wakes(w) => Wakes(v)
<1>1. CASE ~InUse(w)
  BY <1>1 DEF CloseWs, Kept
<1>2. CASE InUse(w)
  <2>1. w.c \in Client
    BY WorldIs
  <2>2. v = [w EXCEPT !.c = [w.c EXCEPT !.ws = "closing"]]
    BY <1>2 DEF CloseWs, Worlds
  <2>3. /\ v.c = [w.c EXCEPT !.ws = "closing"]
        /\ Kept(v, w) /\ (v.c \in Client => v \in Worlds)
    BY <2>2 DEF Worlds, Kept
  <2>4. v.c = [w.c EXCEPT !.ws = "closing"]
    BY <2>3
  <2>5. /\ v.c \in Client
        /\ v.c.ws = "closing"
        /\ v.c.state = w.c.state /\ v.c.mine = w.c.mine
        /\ v.c.manuallyClosed = w.c.manuallyClosed /\ v.c.blocked = w.c.blocked
        /\ v.c.bootstrapInFlight = w.c.bootstrapInFlight
        /\ v.c.connectInFlight = w.c.connectInFlight
        /\ v.c.reconnectTimer = w.c.reconnectTimer /\ v.c.wsOpenTimer = w.c.wsOpenTimer
        /\ v.c.challengeTimer = w.c.challengeTimer /\ v.c.pairingTimer = w.c.pairingTimer
        /\ v.c.tickTimer = w.c.tickTimer /\ v.c.recent = w.c.recent
    BY ONLY <2>1, <2>4, CloseClient
  <2>6. /\ v.config = w.config /\ v.tasks = w.tasks /\ v.leaked = w.leaked
        /\ v.swallowed = w.swallowed /\ v.late = w.late
        /\ \A i \in Tasks : (Hand(v, i) <=> Hand(w, i)) /\ (Fast(v, i) <=> Fast(w, i))
    BY <2>3 DEF Kept, Hand, Fast
  <2>7. ~InUse(v)
    BY <2>5 DEF InUse
  <2> HIDE <2>2, <2>3, <2>4
  <2>8. ASSUME Steady(w), w.c.blocked => ~w.c.challengeTimer PROVE Steady(v)
    <3>1. FastAlone(v)
      BY <2>5, <2>6, <2>7, <2>8 DEF Steady, FastAlone
    <3>2. Hands(v)
      BY <2>5, <2>6, <2>8 DEF Steady, Hands
    <3>3. Gone(v)
      BY <1>2, <2>5, <2>6, <2>8 DEF Steady, Gone, InUse
    <3>4. Barred(v)
      BY <2>5, <2>8 DEF Steady, Barred
    <3>5. Timed(v)
      BY <2>5, <2>6, <2>7, <2>8 DEF Steady, Timed, InUse
    <3> QED BY <2>6, <2>8, <3>1, <3>2, <3>3, <3>4, <3>5 DEF Steady
  <2>9. Timed(w) => Wakes(v)
    BY <1>2, <2>5 DEF Timed, Wakes
  <2> QED BY <2>3, <2>5, <2>7, <2>8, <2>9
<1> QED BY <1>1, <1>2

LEMMA BlockClient ==
  ASSUME NEW k \in Client, NEW m,
         m = [k EXCEPT !.blocked = TRUE, !.reconnectTimer = FALSE,
                       !.bootstrapTimer = FALSE, !.bootstrapInFlight = FALSE]
  PROVE  /\ m \in Client
         /\ m.blocked /\ ~m.reconnectTimer /\ ~m.bootstrapInFlight
         /\ m.state = k.state /\ m.ws = k.ws /\ m.mine = k.mine
         /\ m.manuallyClosed = k.manuallyClosed
         /\ m.connectInFlight = k.connectInFlight /\ m.wsOpenTimer = k.wsOpenTimer
         /\ m.challengeTimer = k.challengeTimer /\ m.pairingTimer = k.pairingTimer
         /\ m.tickTimer = k.tickTimer
BY ZenonT(60) DEF Client

\* A block leaves nothing that would connect, unless a challenge is awaited on a
\* socket being closed.
LEMMA BlockIs ==
  ASSUME NEW w \in Worlds, NEW v, v = Block(w)
  PROVE  /\ v \in Worlds /\ Kept(v, w)
         /\ v.c.blocked /\ ~v.c.reconnectTimer /\ ~v.c.bootstrapInFlight
         /\ v.c.state = w.c.state /\ v.c.ws = w.c.ws /\ v.c.mine = w.c.mine
         /\ v.c.manuallyClosed = w.c.manuallyClosed
         /\ v.c.connectInFlight = w.c.connectInFlight
         /\ v.c.wsOpenTimer = w.c.wsOpenTimer
         /\ v.c.challengeTimer = w.c.challengeTimer
         /\ v.c.pairingTimer = w.c.pairingTimer /\ v.c.tickTimer = w.c.tickTimer
         /\ Wakes(v)
         /\ Steady(w) /\ (w.c.mine => ~w.c.challengeTimer) => Steady(v)
<1>1. w.c \in Client
  BY WorldIs
<1>2. v = [w EXCEPT !.c = [w.c EXCEPT !.blocked = TRUE, !.reconnectTimer = FALSE,
                             !.bootstrapTimer = FALSE, !.bootstrapInFlight = FALSE]]
  BY DEF Block, Worlds
<1>3. v.c = [w.c EXCEPT !.blocked = TRUE, !.reconnectTimer = FALSE,
                        !.bootstrapTimer = FALSE, !.bootstrapInFlight = FALSE]
  BY <1>2 DEF Worlds
<1>4. Kept(v, w) /\ (v.c \in Client => v \in Worlds)
  BY <1>2 DEF Worlds, Kept
<1>5. /\ v.c \in Client
      /\ v.c.blocked /\ ~v.c.reconnectTimer /\ ~v.c.bootstrapInFlight
      /\ v.c.state = w.c.state /\ v.c.ws = w.c.ws /\ v.c.mine = w.c.mine
      /\ v.c.manuallyClosed = w.c.manuallyClosed
      /\ v.c.connectInFlight = w.c.connectInFlight /\ v.c.wsOpenTimer = w.c.wsOpenTimer
      /\ v.c.challengeTimer = w.c.challengeTimer /\ v.c.pairingTimer = w.c.pairingTimer
      /\ v.c.tickTimer = w.c.tickTimer
  BY ONLY <1>1, <1>3, BlockClient
<1>6. /\ v.config = w.config /\ v.tasks = w.tasks /\ v.leaked = w.leaked
      /\ v.swallowed = w.swallowed /\ v.late = w.late
      /\ \A i \in Tasks : (Hand(v, i) <=> Hand(w, i)) /\ (Fast(v, i) <=> Fast(w, i))
  BY <1>4 DEF Kept, Hand, Fast
<1> HIDE <1>2, <1>3
<1>7. Wakes(v)
  BY <1>5 DEF Wakes
<1>8. ASSUME Steady(w), w.c.mine => ~w.c.challengeTimer PROVE Steady(v)
  <2>0. InUse(v) <=> InUse(w)
    BY <1>5 DEF InUse
  <2>1. FastAlone(v)
    BY <1>5, <1>6, <1>8, <2>0 DEF Steady, FastAlone
  <2>2. Hands(v)
    BY <1>5, <1>6, <1>8 DEF Steady, Hands
  <2>3. Gone(v)
    BY <1>5, <1>6, <1>8 DEF Steady, Gone
  <2>4. Barred(v)
    BY <1>5, <1>8 DEF Barred
  <2>5. Timed(v)
    BY <1>5, <1>6, <1>8, <2>0 DEF Steady, Timed
  <2> QED BY <1>6, <1>8, <2>1, <2>2, <2>3, <2>4, <2>5 DEF Steady
<1> QED BY <1>4, <1>5, <1>7, <1>8

\* A continuation begins to wait where none did, if there is room.
LEMMA AwaitIs ==
  ASSUME NEW w \in Worlds, NEW stage \in Stages, NEW v, v = Await(w, stage)
  PROVE  /\ v \in Worlds /\ v.c = w.c /\ v.config = w.config /\ v.leaked = w.leaked
         /\ v.swallowed = w.swallowed /\ v.late = w.late /\ v.probeLost = w.probeLost
         /\ w.full => v.full
         /\ ~v.full => \E i \in Tasks :
              /\ w.tasks[i].stage = "none"
              /\ v.tasks[i].stage = stage /\ v.tasks[i].mine
              /\ \A j \in Tasks : j # i => v.tasks[j] = w.tasks[j]
<1>1. CASE Awaiting(w, {"none"}) = {}
  <2>1. v = [w EXCEPT !.full = TRUE]
    BY <1>1 DEF Await
  <2> QED BY <2>1 DEF Worlds
<1>2. CASE Awaiting(w, {"none"}) # {}
  <2> DEFINE i == CHOOSE i \in Tasks : w.tasks[i].stage = "none"
             t == [NoTask EXCEPT !.stage = stage, !.mine = TRUE]
  <2>1. v = [w EXCEPT !.tasks[i] = t]
    BY <1>2 DEF Await
  <2>2. i \in Tasks /\ w.tasks[i].stage = "none"
    BY <1>2 DEF Awaiting
  <2>3. t \in Task /\ t.stage = stage /\ t.mine = TRUE
    BY NoTaskIs DEF Task
  <2> HIDE DEF i, t
  <2>4. /\ v.tasks = [w.tasks EXCEPT ![i] = t]
        /\ v.c = w.c /\ v.config = w.config /\ v.leaked = w.leaked
        /\ v.swallowed = w.swallowed /\ v.late = w.late /\ v.probeLost = w.probeLost
        /\ v.full = w.full /\ (v.tasks \in [Tasks -> Task] => v \in Worlds)
    BY <2>1 DEF Worlds
  <2>5. w.tasks \in [Tasks -> Task]
    BY WorldIs
  <2>6. /\ v.tasks \in [Tasks -> Task] /\ v.tasks[i] = t
        /\ \A j \in Tasks : j # i => v.tasks[j] = w.tasks[j]
    BY <2>2, <2>3, <2>4, <2>5
  <2> QED BY <2>2, <2>3, <2>4, <2>6
<1> QED BY <1>1, <1>2

LEMMA OpeningClient ==
  ASSUME NEW k \in Client, NEW m,
         m = [k EXCEPT !.connectInFlight = FALSE, !.connectCompleted = FALSE,
                       !.state = "connecting", !.ws = "connecting", !.mine = TRUE,
                       !.wsOpenTimer = TRUE]
  PROVE  /\ m \in Client
         /\ m.state = "connecting" /\ m.ws = "connecting" /\ m.mine /\ m.wsOpenTimer
         /\ ~m.connectInFlight
         /\ m.manuallyClosed = k.manuallyClosed /\ m.blocked = k.blocked
         /\ m.bootstrapInFlight = k.bootstrapInFlight
         /\ m.challengeTimer = k.challengeTimer /\ m.pairingTimer = k.pairingTimer
<1>1. m \in Client
  BY ZenonT(60) DEF Client
<1>2. /\ m.state = "connecting" /\ m.ws = "connecting" /\ m.mine /\ m.wsOpenTimer
      /\ ~m.connectInFlight
      /\ m.manuallyClosed = k.manuallyClosed /\ m.blocked = k.blocked
      /\ m.bootstrapInFlight = k.bootstrapInFlight
      /\ m.challengeTimer = k.challengeTimer /\ m.pairingTimer = k.pairingTimer
  BY ZenonT(60) DEF Client
<1> QED BY <1>1, <1>2

LEMMA RouteClient ==
  ASSUME NEW k \in Client, NEW relay \in BOOLEAN, NEW m, m = [k EXCEPT !.relay = relay]
  PROVE  /\ m \in Client
         /\ m.manuallyClosed = k.manuallyClosed /\ m.blocked = k.blocked
         /\ m.bootstrapInFlight = k.bootstrapInFlight
         /\ m.challengeTimer = k.challengeTimer /\ m.pairingTimer = k.pairingTimer
BY DEF Client

\* A socket opened on a clear ground has its timer and replaces none in use.
LEMMA OpenSocketIs ==
  ASSUME NEW w, Clear(w), NEW relay \in BOOLEAN, NEW v, v = OpenSocket(w, relay)
  PROVE  /\ Good(v)
         /\ v.c.manuallyClosed = w.c.manuallyClosed /\ v.c.blocked = w.c.blocked
         /\ v.tasks = w.tasks /\ v.full = w.full /\ v.probeLost = w.probeLost
<1> DEFINE u == ClearWatchdogs(w)
<1>1. w \in Worlds
  BY DEF Clear
<1>2. /\ u = [w EXCEPT !.c = u.c] /\ u \in Worlds
      /\ ~u.c.challengeTimer /\ ~u.c.pairingTimer
      /\ u.c.manuallyClosed = w.c.manuallyClosed /\ u.c.blocked = w.c.blocked
      /\ u.c.bootstrapInFlight = w.c.bootstrapInFlight
  BY <1>1, ClearWatchdogsIs
<1>3. v = [u EXCEPT !.leaked = @ \/ InUse(w), !.c.relay = relay,
             !.c.connectInFlight = FALSE, !.c.connectCompleted = FALSE,
             !.c.state = "connecting", !.c.ws = "connecting", !.c.mine = TRUE,
             !.c.wsOpenTimer = TRUE]
  BY DEF OpenSocket
<1>4. Kept(u, w)
  BY <1>1, <1>2 DEF Worlds, Kept
<1> HIDE DEF u
<1> DEFINE n == [u.c EXCEPT !.relay = relay]
           k == [n EXCEPT !.connectInFlight = FALSE, !.connectCompleted = FALSE,
                          !.state = "connecting", !.ws = "connecting", !.mine = TRUE,
                          !.wsOpenTimer = TRUE]
<1>5. u.leaked = FALSE /\ ~InUse(w)
  BY <1>1, <1>4, WorldIs DEF Clear, Kept
<1>6. v = [u EXCEPT !.leaked = FALSE, !.c = k]
  BY <1>2, <1>3, <1>5 DEF Worlds
<1>7. /\ n \in Client
      /\ n.manuallyClosed = u.c.manuallyClosed /\ n.blocked = u.c.blocked
      /\ n.bootstrapInFlight = u.c.bootstrapInFlight
      /\ n.challengeTimer = u.c.challengeTimer /\ n.pairingTimer = u.c.pairingTimer
  BY <1>2, WorldIs, RouteClient
<1> HIDE DEF n
<1>8. /\ k \in Client
      /\ k.state = "connecting" /\ k.ws = "connecting" /\ k.mine /\ k.wsOpenTimer
      /\ ~k.connectInFlight
      /\ k.manuallyClosed = n.manuallyClosed /\ k.blocked = n.blocked
      /\ k.bootstrapInFlight = n.bootstrapInFlight
      /\ k.challengeTimer = n.challengeTimer /\ k.pairingTimer = n.pairingTimer
  BY <1>7, OpeningClient
<1> HIDE DEF k
<1>9. /\ v \in Worlds /\ v.c = k /\ v.leaked = FALSE
      /\ v.config = u.config /\ v.tasks = u.tasks /\ v.full = u.full
      /\ v.probeLost = u.probeLost
  BY <1>2, <1>6, <1>8 DEF Worlds
<1>10. \A i \in Tasks : ~Hand(v, i) /\ ~Fast(v, i)
  BY <1>4, <1>9 DEF Clear, Kept, Hand, Fast
<1>11. /\ v.c.state = "connecting" /\ v.c.ws = "connecting" /\ v.c.mine
       /\ v.c.wsOpenTimer /\ ~v.c.connectInFlight
       /\ ~v.c.manuallyClosed /\ ~v.c.bootstrapInFlight
       /\ ~v.c.challengeTimer /\ ~v.c.pairingTimer
       /\ v.config # None /\ ~v.leaked
  BY <1>2, <1>4, <1>7, <1>8, <1>9 DEF Clear, Kept
<1>12. FastAlone(v) /\ Hands(v) /\ Gone(v) /\ Barred(v)
  BY <1>10, <1>11 DEF FastAlone, Hands, Gone, Barred
<1>13. Timed(v) /\ Wakes(v)
  BY <1>10, <1>11 DEF Timed, Wakes
<1> QED BY <1>2, <1>4, <1>7, <1>8, <1>9, <1>11, <1>12, <1>13 DEF Good, Steady, Kept

\* A block on a clear ground.
LEMMA ClearBlocked ==
  ASSUME NEW w, Clear(w), NEW v, v = Block(w)
  PROVE  Good(v) /\ Kept(v, w) /\ v.c.manuallyClosed = w.c.manuallyClosed /\ v.c.blocked
<1>1. /\ v \in Worlds /\ Kept(v, w)
      /\ v.c.blocked /\ ~v.c.bootstrapInFlight
      /\ v.c.ws = w.c.ws /\ v.c.mine = w.c.mine
      /\ v.c.manuallyClosed = w.c.manuallyClosed
      /\ v.c.challengeTimer = w.c.challengeTimer /\ v.c.pairingTimer = w.c.pairingTimer
      /\ Wakes(v)
  BY BlockIs DEF Clear
<1>2. /\ ~v.c.mine /\ ~v.c.manuallyClosed /\ ~InUse(v)
      /\ v.c.challengeTimer => ~v.c.pairingTimer
      /\ ~v.leaked
      /\ \A i \in Tasks : ~Hand(v, i) /\ ~Fast(v, i)
  BY <1>1 DEF Clear, Kept, InUse, Hand, Fast
<1>3. FastAlone(v) /\ Hands(v) /\ Gone(v) /\ Barred(v)
  BY <1>1, <1>2 DEF FastAlone, Hands, Gone, Barred
<1>4. Timed(v)
  BY <1>2 DEF Timed, InUse
<1> QED BY <1>1, <1>2, <1>3, <1>4 DEF Good, Steady

LEMMA FastClient ==
  ASSUME NEW k \in Client, NEW m,
         m = [k EXCEPT !.bootstrapInFlight = TRUE, !.bootstrapTimer = TRUE]
  PROVE  /\ m \in Client
         /\ m.ws = k.ws /\ m.mine = k.mine
         /\ m.manuallyClosed = k.manuallyClosed /\ m.blocked = k.blocked
         /\ m.challengeTimer = k.challengeTimer /\ m.pairingTimer = k.pairingTimer
BY ZenonT(60) DEF Client

\* The fast path on a clear ground.
LEMMA RelayFastPathIs ==
  ASSUME NEW w, Clear(w), ~w.c.blocked, w.config \in Relay,
         NEW v, v = RelayFastPath(w)
  PROVE  /\ w.full => v.full
         /\ ~v.full => Good(v)
         /\ v.c.manuallyClosed = w.c.manuallyClosed /\ Calm(v, w)
         /\ v \in Worlds /\ v.probeLost = w.probeLost /\ ~v.leaked
<1>0. w \in Worlds
  BY DEF Clear
<1>1. CASE w.config \notin Complete
  <2>1. v = Block(w)
    BY <1>1 DEF RelayFastPath
  <2> QED BY <2>1, ClearBlocked DEF Good, Steady, Kept, Calm
<1>2. CASE w.config \in Complete
  <2> DEFINE k == [w.c EXCEPT !.bootstrapInFlight = TRUE, !.bootstrapTimer = TRUE]
             u == [w EXCEPT !.c = k]
  <2>1. v = Await(u, "fast")
    BY <1>0, <1>2 DEF RelayFastPath, Worlds
  <2>2. w.c \in Client
    BY <1>0, WorldIs
  <2>3. /\ k \in Client
        /\ k.ws = w.c.ws /\ k.mine = w.c.mine
        /\ k.manuallyClosed = w.c.manuallyClosed /\ k.blocked = w.c.blocked
        /\ k.challengeTimer = w.c.challengeTimer /\ k.pairingTimer = w.c.pairingTimer
    BY ONLY <2>2, FastClient
  <2> HIDE DEF k
  <2>4. u \in Worlds /\ u.c = k /\ Kept(u, w)
    BY <1>0, <2>3 DEF Worlds, Kept
  <2> HIDE DEF u
  <2>5. "fast" \in Stages
    BY DEF Stages
  <2>6. /\ v \in Worlds /\ v.c = u.c /\ v.config = u.config /\ v.leaked = u.leaked
        /\ v.probeLost = u.probeLost
        /\ u.full => v.full
        /\ ~v.full => \E i \in Tasks :
             /\ u.tasks[i].stage = "none"
             /\ v.tasks[i].stage = "fast" /\ v.tasks[i].mine
             /\ \A j \in Tasks : j # i => v.tasks[j] = u.tasks[j]
    BY <2>1, <2>4, <2>5, AwaitIs
  <2>7. Calm(v, w)
    <3>1. u.tasks = w.tasks
      BY <2>4 DEF Kept
    <3>2. \A j \in Tasks : v.tasks[j].stage \in {w.tasks[j].stage, "fast"}
      <4>1. CASE Awaiting(u, {"none"}) = {}
        <5>1. v.tasks = u.tasks
          BY <2>1, <2>4, <4>1 DEF Await, Worlds
        <5> QED BY <3>1, <5>1
      <4>2. CASE Awaiting(u, {"none"}) # {}
        <5>1. v.full = u.full
          BY <2>1, <2>4, <4>2 DEF Await, Worlds
        <5> DEFINE i == CHOOSE i \in Tasks : u.tasks[i].stage = "none"
                   t == [NoTask EXCEPT !.stage = "fast", !.mine = TRUE]
        <5>2. v = [u EXCEPT !.tasks[i] = t] /\ t.stage = "fast"
          BY <2>1, <4>2, NoTaskIs DEF Await, Task
        <5> HIDE DEF i, t
        <5>3. v.tasks = [u.tasks EXCEPT ![i] = t]
          BY <2>4, <5>2 DEF Worlds
        <5>4. u.tasks \in [Tasks -> Task]
          BY <2>4, WorldIs
        <5> QED BY <3>1, <5>2, <5>3, <5>4
      <4> QED BY <4>1, <4>2
    <3> QED BY <3>2 DEF Calm
  <2>8. ASSUME ~v.full PROVE Good(v)
    <3>1. PICK i \in Tasks :
            /\ v.tasks[i].stage = "fast" /\ v.tasks[i].mine
            /\ \A j \in Tasks : j # i => v.tasks[j] = u.tasks[j]
      BY <2>6, <2>8
    <3>2. \A j \in Tasks : ~Hand(v, j) /\ (Fast(v, j) <=> j = i)
      BY <2>4, <3>1, NoTaskIs DEF Clear, Kept, Hand, Fast
    <3>3. /\ ~v.c.mine /\ ~v.c.manuallyClosed /\ ~InUse(v) /\ ~v.c.blocked
          /\ v.c.challengeTimer => ~v.c.pairingTimer
          /\ ~v.leaked /\ v.config \in Relay /\ v.config # None
      BY <2>3, <2>4, <2>6 DEF Clear, Kept, InUse
    <3>4. FastAlone(v) /\ Hands(v) /\ Gone(v) /\ Barred(v)
      BY <3>1, <3>2, <3>3 DEF FastAlone, Hands, Gone, Barred
    <3>5. Timed(v) /\ Wakes(v)
      BY <3>2, <3>3 DEF Timed, Wakes, InUse
    <3> QED BY <2>6, <3>3, <3>4, <3>5 DEF Good, Steady
  <2> QED BY <2>3, <2>4, <2>6, <2>7, <2>8 DEF Kept, Clear
<1> QED BY <1>1, <1>2

-----------------------------------------------------------------------------
(* Attempts *)

LEMMA ConnectClient ==
  ASSUME NEW k \in Client, NEW m,
         m = [k EXCEPT !.reconnectTimer = FALSE, !.manuallyClosed = FALSE,
                       !.young = TRUE]
  PROVE  /\ m \in Client
         /\ ~m.manuallyClosed
         /\ m.ws = k.ws /\ m.mine = k.mine /\ m.blocked = k.blocked
         /\ m.bootstrapInFlight = k.bootstrapInFlight
         /\ m.challengeTimer = k.challengeTimer /\ m.pairingTimer = k.pairingTimer
<1>1. m \in Client
  BY ZenonT(60) DEF Client
<1>2. /\ ~m.manuallyClosed
      /\ m.ws = k.ws /\ m.mine = k.mine /\ m.blocked = k.blocked
      /\ m.bootstrapInFlight = k.bootstrapInFlight
      /\ m.challengeTimer = k.challengeTimer /\ m.pairingTimer = k.pairingTimer
  BY ZenonT(60) DEF Client
<1> QED BY <1>1, <1>2

\* connect() returns, or starts an attempt of its own.
LEMMA ConnectIs ==
  ASSUME NEW w \in Worlds, NEW v, v = Connect(w),
         ~w.leaked, w.c.challengeTimer => ~w.c.pairingTimer,
         w.c.bootstrapInFlight => w.config \in Relay
  PROVE  /\ v \in Worlds /\ Calm(v, w) /\ (w.full => v.full)
         /\ v.probeLost = w.probeLost /\ ~v.leaked
         /\ ~MayConnect(w) => v = w
         /\ MayConnect(w) => ~v.c.manuallyClosed /\ (~v.full => Good(v))
<1>1. CASE ~MayConnect(w)
  BY <1>1 DEF Connect, Calm
<1>2. CASE MayConnect(w)
  <2> DEFINE n == NextAttempt(w)
             k == [n.c EXCEPT !.reconnectTimer = FALSE, !.manuallyClosed = FALSE,
                              !.young = TRUE]
             p == [n EXCEPT !.c = k]
             u == RejectReplies(p, {"bootstrap"})
  <2>1. /\ n \in Worlds
        /\ n.config = w.config /\ n.leaked = w.leaked
        /\ n.full = w.full /\ n.probeLost = w.probeLost
        /\ ~n.c.mine /\ n.c.ws = w.c.ws
        /\ n.c.blocked = w.c.blocked
        /\ n.c.bootstrapInFlight = w.c.bootstrapInFlight
        /\ n.c.challengeTimer = w.c.challengeTimer
        /\ n.c.pairingTimer = w.c.pairingTimer
        /\ \A i \in Tasks :
              /\ ~n.tasks[i].mine /\ n.tasks[i].stage # "fast"
              /\ n.tasks[i].stage \in {"none", w.tasks[i].stage}
    BY NextAttemptIs
  <2>2. v = LET x == RejectReplies([n EXCEPT !.c.reconnectTimer = FALSE,
                                             !.c.manuallyClosed = FALSE, !.c.young = TRUE],
                                   {"bootstrap"})
            IN  IF w.config \in Relay THEN RelayFastPath(x) ELSE OpenSocket(x, FALSE)
    BY <1>2 DEF Connect
  <2> HIDE DEF n
  <2>3. [n EXCEPT !.c.reconnectTimer = FALSE, !.c.manuallyClosed = FALSE, !.c.young = TRUE]
          = p
    BY <2>1 DEF Worlds
  <2>4. v = IF w.config \in Relay THEN RelayFastPath(u) ELSE OpenSocket(u, FALSE)
    BY <2>2, <2>3
  <2>5. n.c \in Client
    BY <2>1, WorldIs
  <2>6. /\ k \in Client
        /\ ~k.manuallyClosed
        /\ k.ws = n.c.ws /\ k.mine = n.c.mine /\ k.blocked = n.c.blocked
        /\ k.bootstrapInFlight = n.c.bootstrapInFlight
        /\ k.challengeTimer = n.c.challengeTimer /\ k.pairingTimer = n.c.pairingTimer
    BY <2>5, ConnectClient
  <2> HIDE DEF k
  <2>7. p \in Worlds /\ p.c = k /\ Kept(p, n)
    BY <2>1, <2>6 DEF Worlds, Kept
  <2> HIDE DEF p
  <2>8. {"bootstrap"} \in SUBSET HandStages /\ "response" \notin {"bootstrap"}
    BY DEF HandStages
  <2>9. u \in Worlds /\ Quit(u, p) /\ u.probeLost = p.probeLost
    BY <2>7, <2>8, RejectRepliesIs
  <2> HIDE DEF u
  <2>10. \A i \in Tasks :
           /\ ~Hand(u, i) /\ ~Fast(u, i)
           /\ u.tasks[i].stage = "response" => w.tasks[i].stage = "response"
    BY <2>1, <2>7, <2>9, NoTaskIs DEF Quit, Kept, Hand, Fast
  <2>11. /\ ~w.c.blocked /\ w.config # None /\ ~InUse(w)
         /\ ~(w.config \in Relay /\ w.c.bootstrapInFlight)
    BY <1>2 DEF MayConnect
  <2>12. /\ u.c.ws = w.c.ws /\ ~u.c.mine /\ ~u.c.manuallyClosed
         /\ ~u.c.bootstrapInFlight /\ ~u.c.blocked
         /\ u.c.challengeTimer = w.c.challengeTimer
         /\ u.c.pairingTimer = w.c.pairingTimer
         /\ u.config = w.config /\ ~u.leaked /\ u.full = w.full
         /\ u.probeLost = w.probeLost
    BY <2>1, <2>6, <2>7, <2>9, <2>11 DEF Quit, SameClient, Kept
  <2>13. Clear(u)
    BY <2>9, <2>10, <2>11, <2>12 DEF Clear, InUse
  <2>14. CASE w.config \in Relay
    <3>1. v = RelayFastPath(u) /\ u.config \in Relay
      BY <2>4, <2>12, <2>14
    <3>2. /\ u.full => v.full
          /\ ~v.full => Good(v)
          /\ v.c.manuallyClosed = u.c.manuallyClosed /\ Calm(v, u)
          /\ v \in Worlds /\ v.probeLost = u.probeLost /\ ~v.leaked
      BY <2>12, <2>13, <3>1, RelayFastPathIs
    <3>3. Calm(v, w)
      BY <2>10, <3>2 DEF Calm
    <3> QED BY <1>2, <2>12, <3>2, <3>3
  <2>15. CASE w.config \notin Relay
    <3>1. v = OpenSocket(u, FALSE)
      BY <2>4, <2>15
    <3>2. /\ Good(v)
          /\ v.c.manuallyClosed = u.c.manuallyClosed
          /\ v.tasks = u.tasks /\ v.full = u.full /\ v.probeLost = u.probeLost
      BY <2>13, <3>1, OpenSocketIs
    <3>3. Calm(v, w)
      BY <2>10, <3>2 DEF Calm
    <3> QED BY <1>2, <2>12, <3>2, <3>3 DEF Good, Steady
  <2> QED BY <2>14, <2>15
<1> QED BY <1>1, <1>2

\* What disconnect() and restartConnection() reset, with the attempt id.
LEMMA NextAfterReset ==
  ASSUME NEW w \in Worlds, NEW v \in Worlds, NEW u, u = NextAttempt(v), ~w.leaked,
         Kept(v, w), v.c.ws = "none", ~v.c.bootstrapInFlight, ~v.c.reconnectTimer,
         ~v.c.connectInFlight, ~v.c.wsOpenTimer, ~v.c.challengeTimer,
         ~v.c.pairingTimer, ~v.c.tickTimer, v.c.blocked = w.c.blocked
  PROVE  /\ u \in Worlds /\ Steady(u) /\ Calm(u, w)
         /\ u.c.manuallyClosed = v.c.manuallyClosed /\ u.c.blocked = w.c.blocked
         /\ u.c.ws = "none" /\ ~u.c.mine /\ ~u.c.bootstrapInFlight
         /\ ~u.c.reconnectTimer /\ ~u.c.challengeTimer /\ ~u.c.tickTimer
         /\ u.config = w.config /\ u.full = w.full /\ u.probeLost = w.probeLost
         /\ \A i \in Tasks : ~Hand(u, i) /\ ~Fast(u, i)
<1>1. /\ u \in Worlds /\ u.config = v.config /\ u.leaked = v.leaked
      /\ u.full = v.full /\ u.probeLost = v.probeLost
      /\ ~u.c.mine
      /\ u.c.ws = v.c.ws
      /\ u.c.manuallyClosed = v.c.manuallyClosed /\ u.c.blocked = v.c.blocked
      /\ u.c.bootstrapInFlight = v.c.bootstrapInFlight
      /\ u.c.connectInFlight = v.c.connectInFlight
      /\ u.c.reconnectTimer = v.c.reconnectTimer
      /\ u.c.challengeTimer = v.c.challengeTimer
      /\ u.c.pairingTimer = v.c.pairingTimer /\ u.c.tickTimer = v.c.tickTimer
      /\ \A i \in Tasks :
           /\ ~u.tasks[i].mine /\ u.tasks[i].stage # "fast"
           /\ u.tasks[i].stage \in {"none", v.tasks[i].stage}
  BY NextAttemptIs
<1>2. \A i \in Tasks :
        /\ ~Hand(u, i) /\ ~Fast(u, i)
        /\ u.tasks[i].stage = "response" => w.tasks[i].stage = "response"
  BY <1>1 DEF Hand, Fast, Kept
<1>3. /\ u.c.manuallyClosed = v.c.manuallyClosed /\ u.c.blocked = w.c.blocked
      /\ u.c.ws = "none" /\ ~u.c.mine /\ ~u.c.bootstrapInFlight
      /\ ~u.c.reconnectTimer /\ ~u.c.connectInFlight /\ ~u.c.challengeTimer
      /\ ~u.c.pairingTimer /\ ~u.c.tickTimer
      /\ u.config = w.config /\ u.full = w.full /\ u.probeLost = w.probeLost
      /\ ~u.leaked
  BY <1>1 DEF Kept
<1>4. FastAlone(u) /\ Hands(u) /\ Gone(u) /\ Barred(u) /\ Timed(u)
  BY <1>2, <1>3 DEF FastAlone, Hands, Gone, Barred, Timed, InUse
<1> QED BY <1>1, <1>2, <1>3, <1>4 DEF Steady, Calm

LEMMA UnclosedClient ==
  ASSUME NEW k \in Client, NEW m, m = [k EXCEPT !.manuallyClosed = FALSE]
  PROVE  /\ m \in Client /\ m.manuallyClosed = FALSE
         /\ m.ws = k.ws /\ m.bootstrapInFlight = k.bootstrapInFlight
         /\ m.reconnectTimer = k.reconnectTimer /\ m.connectInFlight = k.connectInFlight
         /\ m.wsOpenTimer = k.wsOpenTimer /\ m.challengeTimer = k.challengeTimer
         /\ m.pairingTimer = k.pairingTimer /\ m.tickTimer = k.tickTimer
         /\ m.blocked = k.blocked
BY DEF Client

\* A restart makes everything well, whatever was before.
LEMMA RestartIs ==
  ASSUME NEW w \in Worlds, NEW v, v = Restart(w), ~w.leaked
  PROVE  /\ v \in Worlds /\ Calm(v, w) /\ (w.full => v.full) /\ ~v.leaked
         /\ ~v.full => Good(v)
         /\ ~v.c.manuallyClosed
         /\ w.c.blocked => v.c.blocked
<1> DEFINE r == Reset(w)
           k == [r.c EXCEPT !.manuallyClosed = FALSE]
           x == [r EXCEPT !.c = k]
           n == NextAttempt(x)
           u == RejectReplies(n, {"bootstrap", "response"})
<1>1. /\ r = [w EXCEPT !.c = r.c] /\ r \in Worlds
      /\ r.c.ws = "none" /\ ~r.c.bootstrapInFlight
      /\ ~r.c.reconnectTimer /\ ~r.c.connectInFlight
      /\ ~r.c.wsOpenTimer /\ ~r.c.challengeTimer /\ ~r.c.pairingTimer
      /\ ~r.c.tickTimer
      /\ r.c.blocked = w.c.blocked
  BY ResetIs
<1>2. v = Connect(RejectReplies(NextAttempt([r EXCEPT !.c.manuallyClosed = FALSE]),
                                {"bootstrap", "response"}))
  BY DEF Restart
<1> HIDE DEF r
<1>3. [r EXCEPT !.c.manuallyClosed = FALSE] = x
  BY <1>1 DEF Worlds
<1>4. v = Connect(u)
  BY <1>2, <1>3
<1>5. r.c \in Client
  BY <1>1, WorldIs
<1>6. Kept(r, w)
  BY <1>1 DEF Worlds, Kept
<1>7. /\ x \in Worlds /\ Kept(x, w)
      /\ x.c.ws = "none" /\ ~x.c.bootstrapInFlight
      /\ ~x.c.reconnectTimer /\ ~x.c.connectInFlight
      /\ ~x.c.wsOpenTimer /\ ~x.c.challengeTimer /\ ~x.c.pairingTimer
      /\ ~x.c.tickTimer
      /\ x.c.blocked = w.c.blocked /\ x.c.manuallyClosed = FALSE
  <2>1. /\ k \in Client
        /\ k.ws = r.c.ws /\ k.bootstrapInFlight = r.c.bootstrapInFlight
        /\ k.reconnectTimer = r.c.reconnectTimer /\ k.connectInFlight = r.c.connectInFlight
        /\ k.wsOpenTimer = r.c.wsOpenTimer /\ k.challengeTimer = r.c.challengeTimer
        /\ k.pairingTimer = r.c.pairingTimer /\ k.tickTimer = r.c.tickTimer
        /\ k.blocked = r.c.blocked /\ k.manuallyClosed = FALSE
    BY <1>5, UnclosedClient
  <2> HIDE DEF k
  <2>3. x \in Worlds /\ x.c = k /\ Kept(x, r)
    BY <1>1, <2>1 DEF Worlds, Kept
  <2> QED BY <1>1, <1>6, <2>1, <2>3 DEF Kept
<1> HIDE DEF x
<1> HIDE DEF u
<1>9. /\ n \in Worlds /\ Steady(n) /\ Calm(n, w)
      /\ n.c.manuallyClosed = x.c.manuallyClosed /\ n.c.blocked = w.c.blocked
      /\ n.c.ws = "none" /\ ~n.c.mine /\ ~n.c.bootstrapInFlight
      /\ n.config = w.config /\ n.full = w.full
  <2>1. n = NextAttempt(x)
    OBVIOUS
  <2> HIDE DEF n
  <2> QED BY <1>7, <2>1, NextAfterReset
<1> HIDE DEF n
<1> USE DEF u
<1>10. {"bootstrap", "response"} \in SUBSET HandStages
  BY DEF HandStages
<1>11. u \in Worlds /\ Quit(u, n)
  BY <1>9, <1>10, RejectRepliesIs
<1>12. Steady(u) /\ Calm(u, n)
  BY <1>9, <1>11, QuitKeeps
<1> HIDE DEF u
<1>13. /\ ~u.c.manuallyClosed /\ u.c.blocked = w.c.blocked
       /\ u.c.ws = "none" /\ ~u.c.bootstrapInFlight /\ u.full = w.full
  BY <1>7, <1>9, <1>11 DEF Quit, SameClient
<1>14. ~u.leaked /\ (u.c.challengeTimer => ~u.c.pairingTimer)
  BY <1>12 DEF Steady, Timed
<1>15. /\ v \in Worlds /\ Calm(v, u) /\ (u.full => v.full) /\ ~v.leaked
       /\ ~MayConnect(u) => v = u
       /\ MayConnect(u) => ~v.c.manuallyClosed /\ (~v.full => Good(v))
  BY <1>4, <1>11, <1>13, <1>14, ConnectIs
<1>16. ~MayConnect(u) => Good(u)
  <2>1. ~MayConnect(u) => u.c.blocked \/ u.config = None
    BY <1>13 DEF MayConnect, InUse
  <2>2. ~MayConnect(u) => Wakes(u)
    BY <2>1 DEF Wakes
  <2> QED BY <1>11, <1>12, <2>2 DEF Good
<1>17. Calm(v, w)
  BY <1>9, <1>12, <1>15 DEF Calm
<1>18. w.c.blocked => v = u
  BY <1>13, <1>15 DEF MayConnect
<1> QED BY <1>13, <1>15, <1>16, <1>17, <1>18


\* The fields the invariant does not ask for.
LEMMA OtherFields ==
  ASSUME NEW k \in Client, NEW b \in BOOLEAN, NEW d \in Configs \cup {None}, NEW m,
         \/ m = [k EXCEPT !.request = b]
         \/ m = [k EXCEPT !.probe = b]
         \/ m = [k EXCEPT !.recent = b]
         \/ m = [k EXCEPT !.young = b]
         \/ m = [k EXCEPT !.bootstrapTimer = b]
         \/ m = [k EXCEPT !.disabled = d]
  PROVE  /\ m \in Client
         /\ m.state = k.state /\ m.ws = k.ws /\ m.mine = k.mine
         /\ m.manuallyClosed = k.manuallyClosed /\ m.blocked = k.blocked
         /\ m.pairingPending = k.pairingPending
         /\ m.bootstrapInFlight = k.bootstrapInFlight
         /\ m.connectInFlight = k.connectInFlight
         /\ m.reconnectTimer = k.reconnectTimer /\ m.wsOpenTimer = k.wsOpenTimer
         /\ m.challengeTimer = k.challengeTimer /\ m.pairingTimer = k.pairingTimer
         /\ m.tickTimer = k.tickTimer
BY DEF Client

LEMMA UnblockedClient ==
  ASSUME NEW k \in Client, NEW m, m = [k EXCEPT !.blocked = FALSE]
  PROVE  /\ m \in Client /\ m.blocked = FALSE
         /\ m.state = k.state /\ m.ws = k.ws /\ m.mine = k.mine
         /\ m.manuallyClosed = k.manuallyClosed
         /\ m.bootstrapInFlight = k.bootstrapInFlight
         /\ m.connectInFlight = k.connectInFlight
         /\ m.reconnectTimer = k.reconnectTimer /\ m.wsOpenTimer = k.wsOpenTimer
         /\ m.challengeTimer = k.challengeTimer /\ m.pairingTimer = k.pairingTimer
         /\ m.tickTimer = k.tickTimer /\ m.recent = k.recent /\ m.young = k.young
BY ZenonT(60) DEF Client

\* reconnect() returns from a good world, or restarts.
LEMMA ReconnectIs ==
  ASSUME NEW w \in Worlds, NEW v, v = Reconnect(w), ~w.leaked,
         ~w.full => \/ Good(w)
                    \/ w.config # None /\ ~HandshakeInFlight(w) /\ ~w.c.recent
  PROVE  /\ v \in Worlds /\ Calm(v, w) /\ (w.full => v.full) /\ ~v.leaked
         /\ ~v.full => Good(v)
<1> DEFINE k == [w.c EXCEPT !.blocked = FALSE]
           y == [w EXCEPT !.c = k]
           swallow == w.swallowed \/ w.c.blocked
           m == [k EXCEPT !.recent = TRUE]
           z == [y EXCEPT !.c = m]
           cond == \/ y.config = None
                   \/ HandshakeInFlight(y) /\ y.c.young
                   \/ ~StaleReadyTransport(y) /\ y.c.recent
<1>1. w.c \in Client
  BY WorldIs
<1>2. /\ k \in Client /\ k.blocked = FALSE
      /\ k.state = w.c.state /\ k.ws = w.c.ws /\ k.mine = w.c.mine
      /\ k.manuallyClosed = w.c.manuallyClosed
      /\ k.bootstrapInFlight = w.c.bootstrapInFlight
      /\ k.connectInFlight = w.c.connectInFlight
      /\ k.reconnectTimer = w.c.reconnectTimer /\ k.wsOpenTimer = w.c.wsOpenTimer
      /\ k.challengeTimer = w.c.challengeTimer /\ k.pairingTimer = w.c.pairingTimer
      /\ k.tickTimer = w.c.tickTimer /\ k.recent = w.c.recent /\ k.young = w.c.young
  BY <1>1, UnblockedClient
<1>3. [w EXCEPT !.c.blocked = FALSE] = y
  BY DEF Worlds
<1> HIDE DEF k
<1>4. y \in Worlds /\ y.c = k /\ Kept(y, w)
  BY <1>2 DEF Worlds, Kept
<1>5. [y EXCEPT !.c.recent = TRUE] = z
  BY <1>4 DEF Worlds
<1>6. [y EXCEPT !.swallowed = @ \/ w.c.blocked] = [y EXCEPT !.swallowed = swallow]
  BY <1>4 DEF Worlds, Kept
<1>7. v = IF cond THEN [y EXCEPT !.swallowed = swallow] ELSE Restart(z)
  <2> DEFINE R(x) ==
        IF \/ x.config = None
           \/ HandshakeInFlight(x) /\ x.c.young
           \/ ~StaleReadyTransport(x) /\ x.c.recent
        THEN [x EXCEPT !.swallowed = @ \/ w.c.blocked]
        ELSE Restart([x EXCEPT !.c.recent = TRUE])
  <2>1. v = R([w EXCEPT !.c.blocked = FALSE])
    BY DEF Reconnect
  <2>2. v = R(y)
    <3> HIDE DEF y, R
    <3> QED BY <1>3, <2>1
  <2> HIDE DEF y, z, swallow
  <2> QED BY <1>5, <1>6, <2>2
<1>8. /\ z \in Worlds /\ Kept(z, y)
  <2>1. m \in Client
    BY <1>2 DEF Client
  <2> HIDE DEF m, y
  <2> QED BY <1>4, <2>1 DEF Worlds, Kept
<1>9. swallow \in BOOLEAN
  OBVIOUS
<1> HIDE DEF y, z, swallow
<1>10. CASE cond
  <2>1. v = [y EXCEPT !.swallowed = swallow]
    BY <1>7, <1>10
  <2>2. /\ v \in Worlds /\ v.c = k /\ v.config = w.config /\ v.tasks = w.tasks
        /\ v.leaked = w.leaked /\ v.swallowed = swallow /\ v.late = w.late
        /\ v.full = w.full
    BY <1>4, <1>9, <2>1 DEF Worlds, Kept
  <2>3. Calm(v, w)
    BY <2>2 DEF Calm
  <2>4. /\ HandshakeInFlight(y) <=> HandshakeInFlight(w)
        /\ y.c.recent = w.c.recent /\ y.config = w.config
    BY <1>2, <1>4 DEF HandshakeInFlight, InUse, Kept
  <2>5. ~v.full => Good(w)
    BY <1>10, <2>2, <2>4
  <2>6. ASSUME Good(w) PROVE Good(v)
    <3>1. /\ InUse(v) <=> InUse(w)
          /\ \A i \in Tasks : (Hand(v, i) <=> Hand(w, i)) /\ (Fast(v, i) <=> Fast(w, i))
      BY <1>2, <2>2 DEF InUse, Hand, Fast
    <3>2. FastAlone(v)
      BY <1>2, <2>2, <2>6, <3>1 DEF Good, Steady, FastAlone
    <3>3. Hands(v)
      BY <1>2, <2>2, <2>6, <3>1 DEF Good, Steady, Hands
    <3>4. Gone(v) /\ Barred(v)
      BY <1>2, <2>2, <2>6 DEF Good, Steady, Gone, Barred
    <3>5. Timed(v)
      BY <1>2, <2>2, <2>6, <3>1 DEF Good, Steady, Timed
    <3>6. Wakes(v)
      BY <1>2, <2>2, <2>6, <3>1 DEF Good, Wakes, swallow
    <3> QED BY <2>2, <2>6, <3>2, <3>3, <3>4, <3>5, <3>6 DEF Good, Steady
  <2> QED BY <2>2, <2>3, <2>5, <2>6
<1>11. CASE ~cond
  <2>1. v = Restart(z)
    BY <1>7, <1>11
  <2>2. ~z.leaked /\ z.tasks = w.tasks /\ z.full = w.full
    BY <1>4, <1>8 DEF Kept
  <2>3. /\ v \in Worlds /\ Calm(v, z) /\ (z.full => v.full) /\ ~v.leaked
        /\ ~v.full => Good(v)
    BY <1>8, <2>1, <2>2, RestartIs
  <2> QED BY <2>2, <2>3 DEF Calm
<1> QED BY <1>10, <1>11

LEMMA StateClient ==
  ASSUME NEW k \in Client, NEW m,
         \/ m = [k EXCEPT !.state = "reconnecting"]
         \/ m = [k EXCEPT !.state = "closed"]
         \/ m = [k EXCEPT !.state = "pairing_pending"]
  PROVE  /\ m \in Client
         /\ m.ws = k.ws /\ m.mine = k.mine
         /\ m.manuallyClosed = k.manuallyClosed /\ m.blocked = k.blocked
         /\ m.pairingPending = k.pairingPending
         /\ m.bootstrapInFlight = k.bootstrapInFlight
         /\ m.connectInFlight = k.connectInFlight
         /\ m.reconnectTimer = k.reconnectTimer /\ m.wsOpenTimer = k.wsOpenTimer
         /\ m.challengeTimer = k.challengeTimer /\ m.pairingTimer = k.pairingTimer
         /\ m.tickTimer = k.tickTimer
BY DEF Client

\* A recovery changes nothing for a client that is quiet.
LEMMA RecoverIs ==
  ASSUME NEW w \in Worlds, NEW v, v = Recover(w), ~w.leaked, ~w.full => Good(w)
  PROVE  /\ v \in Worlds /\ Calm(v, w) /\ (w.full => v.full) /\ ~v.leaked
         /\ ~v.full => Good(v)
         /\ w.c.manuallyClosed \/ w.c.blocked => v = w
<1>1. CASE w.c.manuallyClosed \/ w.c.pairingPending \/ w.c.blocked
  BY <1>1 DEF Recover, Calm
<1>2. CASE /\ ~(w.c.manuallyClosed \/ w.c.pairingPending \/ w.c.blocked)
           /\ w.c.state # "ready"
  <2>1. v = Reconnect(w)
    BY <1>2 DEF Recover
  <2> QED BY <1>2, <2>1, ReconnectIs
<1>3. CASE /\ ~(w.c.manuallyClosed \/ w.c.pairingPending \/ w.c.blocked)
           /\ w.c.state = "ready"
  <2> DEFINE k == [w.c EXCEPT !.state = "reconnecting"]
             u == [w EXCEPT !.c = k]
  <2>1. [w EXCEPT !.c.state = "reconnecting"] = u
    BY DEF Worlds
  <2>2. w.c \in Client
    BY WorldIs
  <2>3. /\ k \in Client /\ k.state = "reconnecting"
        /\ k.ws = w.c.ws /\ k.mine = w.c.mine
        /\ k.manuallyClosed = w.c.manuallyClosed /\ k.blocked = w.c.blocked
        /\ k.bootstrapInFlight = w.c.bootstrapInFlight
        /\ k.connectInFlight = w.c.connectInFlight
        /\ k.reconnectTimer = w.c.reconnectTimer /\ k.wsOpenTimer = w.c.wsOpenTimer
        /\ k.challengeTimer = w.c.challengeTimer /\ k.pairingTimer = w.c.pairingTimer
        /\ k.tickTimer = w.c.tickTimer
    <3>1. k.state = "reconnecting"
      BY ONLY <2>2 DEF Client
    <3> QED BY <2>2, <3>1, StateClient
  <2> HIDE DEF k
  <2>4. u \in Worlds /\ u.c = k /\ Kept(u, w)
    BY <2>3 DEF Worlds, Kept
  <2>5. v = Reconnect(u)
    <3> HIDE DEF u
    <3> QED BY <1>3, <2>1 DEF Recover
  <2> HIDE DEF u
  <2>6. ASSUME Good(w) PROVE Good(u)
    <3>1. /\ InUse(u) <=> InUse(w)
          /\ \A i \in Tasks : (Hand(u, i) <=> Hand(w, i)) /\ (Fast(u, i) <=> Fast(w, i))
      BY <2>3, <2>4 DEF InUse, Hand, Fast, Kept
    <3>2. FastAlone(u)
      BY <2>3, <2>4, <2>6, <3>1 DEF Good, Steady, FastAlone, Kept
    <3>3. Hands(u)
      BY <2>3, <2>4, <2>6, <3>1 DEF Good, Steady, Hands, Kept
    <3>4. Gone(u) /\ Barred(u)
      BY <2>3, <2>4, <2>6, <3>1 DEF Good, Steady, Gone, Barred, Kept
    <3>5. Timed(u)
      BY <2>3, <2>4, <2>6, <3>1 DEF Good, Steady, Timed, Kept
    <3>6. Wakes(u)
      BY <1>3, <2>3, <2>4, <2>6, <3>1 DEF Good, Wakes, Kept
    <3> QED BY <2>4, <2>6, <3>2, <3>3, <3>4, <3>5, <3>6 DEF Good, Steady, Kept
  <2>7. ~u.leaked /\ u.tasks = w.tasks /\ u.full = w.full
    BY <2>4 DEF Kept
  <2>8. /\ v \in Worlds /\ Calm(v, u) /\ (u.full => v.full) /\ ~v.leaked
        /\ ~v.full => Good(v)
    BY <2>4, <2>5, <2>6, <2>7, ReconnectIs
  <2> QED BY <1>3, <2>7, <2>8 DEF Calm
<1> QED BY <1>1, <1>2, <1>3

LEMMA ScheduledClient ==
  ASSUME NEW k \in Client, NEW m, m = [k EXCEPT !.reconnectTimer = TRUE]
  PROVE  /\ m \in Client /\ m.reconnectTimer
         /\ m.ws = k.ws /\ m.mine = k.mine
         /\ m.manuallyClosed = k.manuallyClosed /\ m.blocked = k.blocked
         /\ m.bootstrapInFlight = k.bootstrapInFlight
         /\ m.connectInFlight = k.connectInFlight /\ m.wsOpenTimer = k.wsOpenTimer
         /\ m.challengeTimer = k.challengeTimer /\ m.pairingTimer = k.pairingTimer
         /\ m.tickTimer = k.tickTimer
BY ZenonT(60) DEF Client

\* scheduleReconnect() after the socket of the attempt is gone.
LEMMA ScheduleReconnectIs ==
  ASSUME NEW w \in Worlds, NEW v, v = ScheduleReconnect(w), Steady(w), ~InUse(w),
         ~w.c.manuallyClosed
  PROVE  /\ Good(v) /\ Kept(v, w)
         /\ v.c.manuallyClosed = w.c.manuallyClosed /\ v.c.blocked = w.c.blocked
<1>1. w.c \in Client
  BY WorldIs
<1>2. CASE w.c.blocked
  <2> DEFINE k == [w.c EXCEPT !.state = "closed"]
  <2>1. v = [w EXCEPT !.c = k]
    BY <1>2 DEF ScheduleReconnect, Worlds
  <2>2. /\ k \in Client
        /\ k.ws = w.c.ws /\ k.mine = w.c.mine
        /\ k.manuallyClosed = w.c.manuallyClosed /\ k.blocked = w.c.blocked
        /\ k.bootstrapInFlight = w.c.bootstrapInFlight
        /\ k.connectInFlight = w.c.connectInFlight
        /\ k.reconnectTimer = w.c.reconnectTimer /\ k.wsOpenTimer = w.c.wsOpenTimer
        /\ k.challengeTimer = w.c.challengeTimer /\ k.pairingTimer = w.c.pairingTimer
        /\ k.tickTimer = w.c.tickTimer
    BY <1>1, StateClient
  <2> HIDE DEF k
  <2>3. v \in Worlds /\ v.c = k /\ Kept(v, w)
    BY <2>1, <2>2 DEF Worlds, Kept
  <2>4. /\ ~InUse(v)
        /\ \A i \in Tasks : (Hand(v, i) <=> Hand(w, i)) /\ (Fast(v, i) <=> Fast(w, i))
    BY <2>2, <2>3 DEF InUse, Hand, Fast, Kept
  <2>5. FastAlone(v)
    BY <2>2, <2>3, <2>4 DEF Steady, FastAlone, Kept
  <2>6. Hands(v)
    BY <2>2, <2>3, <2>4 DEF Steady, Hands, Kept
  <2>7. Gone(v) /\ Barred(v)
    BY <2>2, <2>3, <2>4 DEF Steady, Gone, Barred, InUse, Kept
  <2>8. Timed(v)
    BY <2>2, <2>3, <2>4 DEF Steady, Timed, InUse, Kept
  <2>9. Wakes(v)
    BY <1>2, <2>2, <2>3 DEF Wakes
  <2> QED BY <2>2, <2>3, <2>5, <2>6, <2>7, <2>8, <2>9 DEF Good, Steady, Kept
<1>3. CASE ~w.c.blocked
  <2> DEFINE n == IF w.c.pairingPending THEN w.c ELSE [w.c EXCEPT !.state = "reconnecting"]
             k == [n EXCEPT !.reconnectTimer = TRUE]
  <2>1. v = [w EXCEPT !.c = k]
    <3>1. CASE w.c.pairingPending
      <4>1. n = w.c
        BY <3>1
      <4>2. v = [w EXCEPT !.c.state = w.c.state, !.c.reconnectTimer = TRUE]
        BY <1>3, <3>1 DEF ScheduleReconnect, Worlds
      <4>3. [w.c EXCEPT !.state = w.c.state] = w.c
        BY <1>1 DEF Client
      <4> QED BY <4>1, <4>2, <4>3 DEF Worlds
    <3>2. CASE ~w.c.pairingPending
      <4>1. n = [w.c EXCEPT !.state = "reconnecting"]
        BY <3>2
      <4>2. v = [w EXCEPT !.c.state = "reconnecting", !.c.reconnectTimer = TRUE]
        BY <1>3, <3>2 DEF ScheduleReconnect
      <4> QED BY <4>1, <4>2 DEF Worlds
    <3> QED BY <3>1, <3>2
  <2>2. /\ n \in Client
        /\ n.ws = w.c.ws /\ n.mine = w.c.mine
        /\ n.manuallyClosed = w.c.manuallyClosed /\ n.blocked = w.c.blocked
        /\ n.bootstrapInFlight = w.c.bootstrapInFlight
        /\ n.connectInFlight = w.c.connectInFlight /\ n.wsOpenTimer = w.c.wsOpenTimer
        /\ n.challengeTimer = w.c.challengeTimer /\ n.pairingTimer = w.c.pairingTimer
        /\ n.tickTimer = w.c.tickTimer
    BY <1>1, StateClient
  <2> HIDE DEF n
  <2>3. /\ k \in Client /\ k.reconnectTimer
        /\ k.ws = n.ws /\ k.mine = n.mine
        /\ k.manuallyClosed = n.manuallyClosed /\ k.blocked = n.blocked
        /\ k.bootstrapInFlight = n.bootstrapInFlight
        /\ k.connectInFlight = n.connectInFlight /\ k.wsOpenTimer = n.wsOpenTimer
        /\ k.challengeTimer = n.challengeTimer /\ k.pairingTimer = n.pairingTimer
        /\ k.tickTimer = n.tickTimer
    BY <2>2, ScheduledClient
  <2> HIDE DEF k
  <2>4. v \in Worlds /\ v.c = k /\ Kept(v, w)
    BY <2>1, <2>3 DEF Worlds, Kept
  <2>5. /\ ~InUse(v)
        /\ \A i \in Tasks : (Hand(v, i) <=> Hand(w, i)) /\ (Fast(v, i) <=> Fast(w, i))
    BY <2>2, <2>3, <2>4 DEF InUse, Hand, Fast, Kept
  <2>6. FastAlone(v)
    BY <2>2, <2>3, <2>4, <2>5 DEF Steady, FastAlone, Kept
  <2>7. Hands(v)
    BY <2>2, <2>3, <2>4, <2>5 DEF Steady, Hands, Kept
  <2>8. Gone(v) /\ Barred(v)
    BY <1>3, <2>2, <2>3, <2>4 DEF Gone, Barred
  <2>9. Timed(v)
    BY <2>2, <2>3, <2>4, <2>5 DEF Steady, Timed, InUse, Kept
  <2>10. Wakes(v)
    BY <2>3, <2>4 DEF Wakes
  <2> QED BY <2>2, <2>3, <2>4, <2>6, <2>7, <2>8, <2>9, <2>10 DEF Good, Steady, Kept
<1> QED BY <1>2, <1>3

LEMMA ManuallyClient ==
  ASSUME NEW k \in Client, NEW m, m = [k EXCEPT !.manuallyClosed = TRUE]
  PROVE  /\ m \in Client /\ m.manuallyClosed
         /\ m.ws = k.ws /\ m.mine = k.mine /\ m.blocked = k.blocked
         /\ m.bootstrapInFlight = k.bootstrapInFlight
         /\ m.reconnectTimer = k.reconnectTimer
         /\ m.challengeTimer = k.challengeTimer /\ m.pairingTimer = k.pairingTimer
         /\ m.tickTimer = k.tickTimer /\ m.connectInFlight = k.connectInFlight
BY ZenonT(60) DEF Client

\* disconnect() leaves a client that is closed.
LEMMA DisconnectedIs ==
  ASSUME NEW w \in Worlds, NEW v, v = Disconnected(w), ~w.leaked
  PROVE  /\ Good(v) /\ Calm(v, w)
         /\ v.c.manuallyClosed /\ ~v.c.bootstrapInFlight /\ v.c.ws = "none"
         /\ ~v.c.mine /\ ~v.c.challengeTimer /\ v.full = w.full
         /\ v.probeLost = w.probeLost
         /\ \A i \in Tasks : ~Hand(v, i) /\ ~Fast(v, i)
<1> DEFINE r == Reset(w)
           n == NextAttempt(r)
           k == [n.c EXCEPT !.manuallyClosed = TRUE]
           x == [n EXCEPT !.c = k]
           u == RejectReplies(x, {"bootstrap"})
           m == [u.c EXCEPT !.state = "closed"]
<1>1. /\ r = [w EXCEPT !.c = r.c] /\ r \in Worlds
      /\ r.c.ws = "none" /\ ~r.c.bootstrapInFlight
      /\ ~r.c.reconnectTimer /\ ~r.c.connectInFlight
      /\ ~r.c.wsOpenTimer /\ ~r.c.challengeTimer /\ ~r.c.pairingTimer
      /\ ~r.c.tickTimer
      /\ r.c.blocked = w.c.blocked
  BY ResetIs
<1> HIDE DEF r, u
<1>2. Kept(r, w)
  BY <1>1 DEF Worlds, Kept
<1>3. /\ n \in Worlds /\ Steady(n) /\ Calm(n, w)
      /\ n.c.ws = "none" /\ ~n.c.mine /\ ~n.c.bootstrapInFlight
      /\ ~n.c.reconnectTimer /\ ~n.c.challengeTimer /\ ~n.c.tickTimer
      /\ n.config = w.config /\ n.full = w.full /\ n.probeLost = w.probeLost
      /\ \A i \in Tasks : ~Hand(n, i) /\ ~Fast(n, i)
  <2>1. n = NextAttempt(r)
    OBVIOUS
  <2> HIDE DEF n
  <2> QED BY <1>1, <1>2, <2>1, NextAfterReset
<1>4. [NextAttempt(Reset(w)) EXCEPT !.c.manuallyClosed = TRUE] = x
  BY <1>3 DEF Worlds, r
<1>5. v = [u EXCEPT !.c.state = "closed"]
  <2>1. v = [RejectReplies(x, {"bootstrap"}) EXCEPT !.c.state = "closed"]
    <3> HIDE DEF x
    <3> QED BY <1>4 DEF Disconnected
  <2> QED BY <2>1 DEF u
<1> HIDE DEF n
<1>6. n.c \in Client
  BY <1>3, WorldIs
<1>7. /\ k \in Client /\ k.manuallyClosed
      /\ k.ws = n.c.ws /\ k.mine = n.c.mine /\ k.blocked = n.c.blocked
      /\ k.bootstrapInFlight = n.c.bootstrapInFlight
      /\ k.reconnectTimer = n.c.reconnectTimer
      /\ k.challengeTimer = n.c.challengeTimer /\ k.pairingTimer = n.c.pairingTimer
      /\ k.tickTimer = n.c.tickTimer /\ k.connectInFlight = n.c.connectInFlight
  BY <1>6, ManuallyClient
<1> HIDE DEF k
<1>8. x \in Worlds /\ x.c = k /\ Kept(x, n)
  BY <1>3, <1>7 DEF Worlds, Kept
<1> HIDE DEF x
<1>9. {"bootstrap"} \in SUBSET HandStages /\ "response" \notin {"bootstrap"}
  BY DEF HandStages
<1>10. u \in Worlds /\ Quit(u, x) /\ u.probeLost = x.probeLost
  BY <1>8, <1>9, RejectRepliesIs DEF u
<1>11. \A i \in Tasks :
         /\ ~Hand(u, i) /\ ~Fast(u, i)
         /\ u.tasks[i].stage = "response" => w.tasks[i].stage = "response"
  BY <1>3, <1>8, <1>10, NoTaskIs DEF Quit, Kept, Hand, Fast, Calm
<1>12. u.c \in Client
  BY <1>10, WorldIs
<1>13. /\ m \in Client
       /\ m.ws = u.c.ws /\ m.mine = u.c.mine
       /\ m.manuallyClosed = u.c.manuallyClosed /\ m.blocked = u.c.blocked
       /\ m.bootstrapInFlight = u.c.bootstrapInFlight
       /\ m.reconnectTimer = u.c.reconnectTimer
       /\ m.challengeTimer = u.c.challengeTimer /\ m.pairingTimer = u.c.pairingTimer
       /\ m.tickTimer = u.c.tickTimer /\ m.connectInFlight = u.c.connectInFlight
  BY <1>12, StateClient
<1>14. v = [u EXCEPT !.c = m]
  BY <1>5, <1>10 DEF Worlds
<1> HIDE DEF m
<1>15. v \in Worlds /\ v.c = m /\ Kept(v, u)
  BY <1>10, <1>13, <1>14 DEF Worlds, Kept
<1>16. /\ v.c.ws = "none" /\ ~v.c.mine /\ v.c.manuallyClosed /\ ~v.c.bootstrapInFlight
       /\ ~v.c.reconnectTimer /\ ~v.c.challengeTimer /\ ~v.c.tickTimer
       /\ v.full = w.full /\ v.probeLost = w.probeLost /\ ~v.leaked
  BY ZenonT(60), <1>3, <1>7, <1>8, <1>10, <1>13, <1>15 DEF Quit, SameClient, Kept, Steady
<1>17. \A i \in Tasks : ~Hand(v, i) /\ ~Fast(v, i)
  BY <1>11, <1>15 DEF Kept, Hand, Fast
<1>18. FastAlone(v) /\ Hands(v) /\ Gone(v) /\ Barred(v)
  BY <1>16, <1>17 DEF FastAlone, Hands, Gone, Barred
<1>19. Timed(v) /\ Wakes(v)
  BY <1>16 DEF Timed, Wakes, InUse
<1>20. Calm(v, w)
  BY <1>11, <1>15 DEF Calm, Kept
<1> QED BY <1>15, <1>16, <1>17, <1>18, <1>19, <1>20 DEF Good, Steady

\* configure() after a disconnect.
LEMMA ConfiguredIs ==
  ASSUME NEW w, Good(w), w.c.manuallyClosed, ~w.c.bootstrapInFlight, w.c.ws = "none",
         ~w.c.mine, ~w.c.challengeTimer, \A i \in Tasks : ~Hand(w, i) /\ ~Fast(w, i),
         NEW new \in Configs \cup {None}, NEW v, v = Configured(w, new)
  PROVE  /\ Good(v) /\ v.tasks = w.tasks /\ v.full = w.full
         /\ v.probeLost = w.probeLost /\ ~v.leaked
         /\ ~v.c.challengeTimer /\ ~v.c.bootstrapInFlight
<1> DEFINE b == IF new = None \/ new # w.config THEN FALSE ELSE w.c.blocked
           k == [w.c EXCEPT !.blocked = b]
<1>1. w \in Worlds /\ w.c \in Client /\ w.c.blocked \in BOOLEAN /\ ~w.leaked
  BY WorldIs DEF Good, Steady, Client
<1>2. b \in BOOLEAN
  BY <1>1
<1>3. v = [w EXCEPT !.config = new, !.c = k]
  BY <1>1 DEF Configured, Worlds
<1> HIDE DEF b
<1>4. /\ k \in Client
      /\ k.ws = w.c.ws /\ k.mine = w.c.mine
      /\ k.manuallyClosed = w.c.manuallyClosed
      /\ k.bootstrapInFlight = w.c.bootstrapInFlight
      /\ k.reconnectTimer = w.c.reconnectTimer
      /\ k.challengeTimer = w.c.challengeTimer /\ k.pairingTimer = w.c.pairingTimer
      /\ k.tickTimer = w.c.tickTimer /\ k.connectInFlight = w.c.connectInFlight
  BY ONLY <1>1, <1>2 DEF Client
<1> HIDE DEF k
<1>5. /\ v \in Worlds /\ v.c = k /\ v.tasks = w.tasks /\ v.leaked = w.leaked
      /\ v.late = w.late /\ v.full = w.full /\ v.probeLost = w.probeLost
  BY <1>1, <1>3, <1>4 DEF Worlds
<1>6. \A i \in Tasks : ~Hand(v, i) /\ ~Fast(v, i)
  BY <1>5 DEF Hand, Fast
<1>7. Gone(v)
  BY <1>4, <1>5 DEF Good, Steady, Gone
<1>8. FastAlone(v) /\ Hands(v) /\ Barred(v) /\ Timed(v) /\ Wakes(v)
  BY <1>4, <1>5, <1>6 DEF FastAlone, Hands, Barred, Timed, Wakes, InUse
<1> QED BY <1>1, <1>4, <1>5, <1>7, <1>8 DEF Good, Steady

-----------------------------------------------------------------------------
(* From a world to the next state *)

\* The world of a state.
LEMMA WorldFields ==
  /\ World.c = c /\ World.config = config /\ World.tokens = tokens
  /\ World.tasks = tasks /\ World.leaked = leaked
  /\ World.swallowed = swallowed /\ World.late = late
  /\ ~World.full /\ ~World.probeLost
BY DEF World

LEMMA InvFields ==
  ASSUME Inv
  PROVE  /\ World \in Worlds /\ Steady(World) /\ Wakes(World) /\ ~World.leaked
         /\ Good(World)
         /\ c \in Client /\ config \in Configs \cup {None}
         /\ tokens \in SUBSET Configs /\ tasks \in [Tasks -> Task]
         /\ leaked = FALSE /\ swallowed \in BOOLEAN /\ late \in BOOLEAN
<1>1. /\ World \in Worlds /\ Steady(World) /\ Wakes(World) /\ Good(World)
  BY DEF Inv, Good
<1>2. ~World.leaked
  BY <1>1 DEF Steady
<1> QED BY <1>1, <1>2, WorldIs, WorldFields

\* A handler that ends in a good world ends in a good state, also if a probe recovers.
LEMMA BecomeIs ==
  ASSUME NEW w \in Worlds, Become(w), ~w.leaked, ~w.full => Good(w)
  PROVE  /\ Inv' /\ ~w.full
         /\ Calm(w, World) => Fresh
         /\ w.c.manuallyClosed \/ w.c.blocked => Quiet'
         /\ ~w.probeLost => c' = w.c /\ tasks' = w.tasks
<1> DEFINE u == [w EXCEPT !.probeLost = FALSE]
           v == IF w.probeLost THEN Recover(u) ELSE w
<1>1. /\ ~v.full
      /\ c' = v.c /\ config' = v.config /\ tokens' = v.tokens
      /\ tasks' = v.tasks /\ leaked' = v.leaked
      /\ swallowed' = v.swallowed /\ late' = v.late
  BY DEF Become
<1>2. /\ v \in Worlds /\ Good(v) /\ ~w.full /\ Calm(v, w)
      /\ w.c.manuallyClosed \/ w.c.blocked => v.c = w.c
  <2>1. CASE ~w.probeLost
    <3>1. v = w
      BY <2>1
    <3> HIDE DEF v
    <3> QED BY <1>1, <3>1 DEF Calm
  <2>2. CASE w.probeLost
    <3>1. v = Recover(u)
      BY <2>2
    <3>2. /\ u \in Worlds /\ u.c = w.c /\ u.tasks = w.tasks /\ u.full = w.full
          /\ ~u.leaked /\ Quit(u, w)
      BY DEF Worlds, Quit, SameClient
    <3> HIDE DEF v, u
    <3>3. ~u.full => Good(u)
      BY <3>2, QuitKeeps DEF Good
    <3>4. /\ v \in Worlds /\ Calm(v, u) /\ (u.full => v.full)
          /\ ~v.full => Good(v)
          /\ u.c.manuallyClosed \/ u.c.blocked => v = u
      BY <3>1, <3>2, <3>3, RecoverIs
    <3> QED BY <1>1, <3>2, <3>4 DEF Calm
  <2> QED BY <2>1, <2>2
<1>3. ~w.probeLost => v = w
  OBVIOUS
<1> HIDE DEF v
<1>4. /\ World' \in Worlds /\ Quit(World', v)
  <2>1. /\ World'.c = c' /\ World'.config = config' /\ World'.tasks = tasks'
        /\ World'.leaked = leaked' /\ World'.swallowed = swallowed'
        /\ World'.late = late' /\ World'.full = FALSE
    BY DEF World
  <2>2. World' \in Worlds
    BY <1>1, <1>2, WorldIs DEF World, Worlds
  <2>3. v.full = FALSE
    BY <1>1, <1>2, WorldIs
  <2> QED BY <1>1, <2>1, <2>2, <2>3 DEF Quit, SameClient
<1>5. Inv'
  <2>1. Good(World')
    BY <1>2, <1>4, QuitKeeps DEF Good
  <2> QED BY <2>1 DEF Inv
<1>6. Calm(w, World) => Fresh
  BY <1>1, <1>2, WorldFields DEF Calm, Fresh
<1>7. w.c.manuallyClosed \/ w.c.blocked => Quiet'
  BY <1>1, <1>2 DEF Quiet
<1> QED BY <1>1, <1>2, <1>3, <1>5, <1>6, <1>7

\* A handler that changes none of the fields the invariant asks for.
LEMMA OtherIs ==
  ASSUME Inv, NEW m, NEW b \in BOOLEAN, NEW d \in Configs \cup {None},
         \/ m = [c EXCEPT !.request = b]
         \/ m = [c EXCEPT !.probe = b]
         \/ m = [c EXCEPT !.recent = b]
         \/ m = [c EXCEPT !.young = b]
         \/ m = [c EXCEPT !.bootstrapTimer = b]
         \/ m = [c EXCEPT !.disabled = d],
         NEW w, w = [World EXCEPT !.c = m]
  PROVE  /\ w.c = m /\ Good(w) /\ Calm(w, World) /\ ~w.full /\ ~w.leaked /\ ~w.probeLost
         /\ w \in Worlds /\ Kept(w, World) /\ SameClient(w, World)
         /\ w.c.pairingPending = c.pairingPending
<1>1. World \in Worlds /\ Steady(World) /\ Wakes(World) /\ ~World.leaked /\ c \in Client
  BY InvFields
<1>2. /\ m \in Client
      /\ m.state = c.state /\ m.ws = c.ws /\ m.mine = c.mine
      /\ m.manuallyClosed = c.manuallyClosed /\ m.blocked = c.blocked
      /\ m.pairingPending = c.pairingPending
      /\ m.bootstrapInFlight = c.bootstrapInFlight
      /\ m.connectInFlight = c.connectInFlight
      /\ m.reconnectTimer = c.reconnectTimer /\ m.wsOpenTimer = c.wsOpenTimer
      /\ m.challengeTimer = c.challengeTimer /\ m.pairingTimer = c.pairingTimer
      /\ m.tickTimer = c.tickTimer
  BY <1>1, OtherFields
<1>3. w \in Worlds /\ w.c = m /\ Kept(w, World)
  BY <1>1, <1>2 DEF Worlds, Kept
<1>4. SameClient(w, World)
  BY <1>2, <1>3, WorldFields DEF SameClient
<1>5. Quit(w, World)
  BY <1>2, <1>3, <1>4, WorldFields DEF Quit, Kept
<1>6. Steady(w) /\ Wakes(w) /\ Calm(w, World)
  BY <1>1, <1>3, <1>5, QuitKeeps
<1> QED BY <1>1, <1>2, <1>3, <1>4, <1>6, WorldFields DEF Good, Kept

-----------------------------------------------------------------------------
(* The calls of the app *)

LEMMA DisconnectStep ==
  ASSUME Inv, Disconnect PROVE Inv' /\ Fresh
<1> DEFINE w == Disconnected(World)
<1>1. /\ World \in Worlds /\ ~World.leaked /\ ~World.full
  BY InvFields, WorldFields
<1>2. Become(w)
  BY DEF Disconnect
<1>3. Good(w) /\ Calm(w, World)
  BY <1>1, DisconnectedIs
<1>4. w \in Worlds /\ ~w.leaked
  BY <1>3 DEF Good, Steady
<1> HIDE DEF w
<1> QED BY <1>2, <1>3, <1>4, BecomeIs

LEMMA ForgetStep ==
  ASSUME Inv, Forget PROVE Inv' /\ Fresh
<1> DEFINE d == Disconnected(World)
           w == Configured(d, None)
<1>1. /\ World \in Worlds /\ ~World.leaked /\ ~World.full
  BY InvFields, WorldFields
<1>2. Become(w)
  BY DEF Forget
<1>3. /\ Good(d) /\ Calm(d, World)
      /\ d.c.manuallyClosed /\ ~d.c.bootstrapInFlight /\ d.c.ws = "none"
      /\ ~d.c.mine /\ ~d.c.challengeTimer
      /\ \A i \in Tasks : ~Hand(d, i) /\ ~Fast(d, i)
  BY <1>1, DisconnectedIs
<1> HIDE DEF d
<1>4. Good(w) /\ w.tasks = d.tasks /\ ~w.leaked
  <2>1. w = Configured(d, None) /\ None \in Configs \cup {None}
    OBVIOUS
  <2> HIDE DEF w
  <2> QED BY <1>3, <2>1, ConfiguredIs
<1>5. w \in Worlds /\ Calm(w, World)
  BY <1>3, <1>4 DEF Good, Calm
<1> HIDE DEF w
<1> QED BY <1>2, <1>4, <1>5, BecomeIs

LEMMA SwitchToStep ==
  ASSUME Inv, NEW new \in Configs, SwitchTo(new) PROVE Inv' /\ Fresh
<1> DEFINE d == Disconnected(World)
           x == Configured(d, new)
           w == Connect(x)
<1>1. /\ World \in Worlds /\ ~World.leaked /\ ~World.full
  BY InvFields, WorldFields
<1>2. Become(w)
  BY DEF SwitchTo
<1>3. /\ Good(d) /\ Calm(d, World)
      /\ d.c.manuallyClosed /\ ~d.c.bootstrapInFlight /\ d.c.ws = "none"
      /\ ~d.c.mine /\ ~d.c.challengeTimer
      /\ \A i \in Tasks : ~Hand(d, i) /\ ~Fast(d, i)
  BY <1>1, DisconnectedIs
<1> HIDE DEF d
<1>4. /\ Good(x) /\ x.tasks = d.tasks /\ ~x.leaked
      /\ ~x.c.challengeTimer /\ ~x.c.bootstrapInFlight
  <2>1. x = Configured(d, new) /\ new \in Configs \cup {None}
    OBVIOUS
  <2> HIDE DEF x
  <2> QED BY <1>3, <2>1, ConfiguredIs
<1> HIDE DEF x
<1>5. x \in Worlds
  BY <1>4 DEF Good
<1>6. /\ w \in Worlds /\ Calm(w, x) /\ ~w.leaked
      /\ ~MayConnect(x) => w = x
      /\ MayConnect(x) => (~w.full => Good(w))
  BY <1>4, <1>5, ConnectIs
<1>7. Calm(w, World)
  BY <1>3, <1>4, <1>6 DEF Calm
<1> HIDE DEF w
<1> QED BY <1>2, <1>4, <1>6, <1>7, BecomeIs

\* connect() from a good world.
LEMMA ConnectGood ==
  ASSUME NEW x, Good(x), NEW w, w = Connect(x)
  PROVE  /\ w \in Worlds /\ Calm(w, x) /\ ~w.leaked /\ (~w.full => Good(w))
         /\ x.c.blocked => w = x
<1>1. /\ x \in Worlds /\ ~x.leaked /\ (x.c.challengeTimer => ~x.c.pairingTimer)
      /\ x.c.bootstrapInFlight => x.config \in Relay
  BY DEF Good, Steady, Timed, FastAlone
<1>2. /\ w \in Worlds /\ Calm(w, x) /\ ~w.leaked
      /\ ~MayConnect(x) => w = x
      /\ MayConnect(x) => (~w.full => Good(w))
  BY <1>1, ConnectIs
<1> QED BY <1>2 DEF MayConnect

LEMMA CallConnectStep ==
  ASSUME Inv, CallConnect PROVE Inv' /\ Fresh
<1> DEFINE w == Connect(World)
<1>1. Good(World) /\ Become(w)
  BY InvFields DEF CallConnect
<1>2. w \in Worlds /\ Calm(w, World) /\ ~w.leaked /\ (~w.full => Good(w))
  BY <1>1, ConnectGood
<1> HIDE DEF w
<1> QED BY <1>1, <1>2, BecomeIs

LEMMA CallReconnectStep ==
  ASSUME Inv, CallReconnect PROVE Inv' /\ Fresh
<1> DEFINE w == Reconnect(World)
<1>1. Good(World) /\ World \in Worlds /\ ~World.leaked /\ Become(w)
  BY InvFields DEF CallReconnect
<1>2. w \in Worlds /\ Calm(w, World) /\ ~w.leaked /\ (~w.full => Good(w))
  BY <1>1, ReconnectIs
<1> HIDE DEF w
<1> QED BY <1>1, <1>2, BecomeIs

\* recoverStaleTransport() from a good world, at the end of a handler.
LEMMA RecoverStep ==
  ASSUME NEW x, Good(x), Calm(x, World), Become(Recover(x))
  PROVE  Inv' /\ Fresh /\ (x.c.manuallyClosed \/ x.c.blocked => Quiet')
<1> DEFINE w == Recover(x)
<1>1. x \in Worlds /\ ~x.leaked
  BY DEF Good, Steady
<1>2. /\ w \in Worlds /\ Calm(w, x) /\ ~w.leaked /\ (~w.full => Good(w))
      /\ x.c.manuallyClosed \/ x.c.blocked => w = x
  BY <1>1, RecoverIs
<1>3. Become(w) /\ Calm(w, World)
  BY <1>2 DEF Calm
<1> HIDE DEF w
<1> QED BY <1>2, <1>3, BecomeIs

LEMMA RequestStep ==
  ASSUME Inv, Request PROVE Inv' /\ Fresh
<1>1. Good(World) /\ Calm(World, World)
  BY InvFields DEF Calm
<1>2. CASE ~IsOpen(World)
  <2>1. Become(Recover(World))
    BY <1>2 DEF Request
  <2> QED BY <1>1, <2>1, RecoverStep
<1>3. CASE IsOpen(World)
  <2> DEFINE m == [c EXCEPT !.request = TRUE]
             w == [World EXCEPT !.c = m]
  <2>1. Become(w)
    <3>1. [World EXCEPT !.c.request = TRUE] = w
      BY DEF World
    <3> HIDE DEF w
    <3> QED BY <1>3, <3>1 DEF Request
  <2>2. Good(w) /\ Calm(w, World) /\ w \in Worlds /\ ~w.leaked
    <3> HIDE DEF w
    <3> QED BY OtherIs DEF w
  <2> HIDE DEF w
  <2> QED BY <2>1, <2>2, BecomeIs
<1> QED BY <1>2, <1>3

LEMMA ProbeStep ==
  ASSUME Inv, Probe PROVE Inv' /\ Fresh
<1>1. Good(World) /\ Calm(World, World)
  BY InvFields DEF Calm
<1>2. CASE Become(Recover(World))
  BY <1>1, <1>2, RecoverStep
<1>3. CASE Become([World EXCEPT !.c.probe = TRUE])
  <2> DEFINE m == [c EXCEPT !.probe = TRUE]
             w == [World EXCEPT !.c = m]
  <2>1. Become(w)
    <3>1. [World EXCEPT !.c.probe = TRUE] = w
      BY DEF World
    <3> HIDE DEF w
    <3> QED BY <1>3, <3>1
  <2>2. Good(w) /\ Calm(w, World) /\ w \in Worlds /\ ~w.leaked
    <3> HIDE DEF w
    <3> QED BY OtherIs DEF w
  <2> HIDE DEF w
  <2> QED BY <2>1, <2>2, BecomeIs
<1> QED BY <1>2, <1>3 DEF Probe

-----------------------------------------------------------------------------
(* The events of the socket *)

\* A handler that changes the fields of the client alone.
LEMMA UpdateIs ==
  ASSUME Inv, NEW m \in Client, NEW w, w = [World EXCEPT !.c = m]
  PROVE  /\ w \in Worlds /\ w.c = m /\ w.config = config /\ w.tasks = tasks
         /\ ~w.leaked /\ ~w.full /\ ~w.probeLost
         /\ w.late = late /\ w.swallowed = swallowed
         /\ \A i \in Tasks :
              (Hand(w, i) <=> Hand(World, i)) /\ (Fast(w, i) <=> Fast(World, i))
         /\ Calm(w, World)
<1>1. World \in Worlds /\ ~World.leaked
  BY InvFields
<1>2. /\ w \in Worlds /\ w.c = m /\ w.config = World.config /\ w.tasks = World.tasks
      /\ w.leaked = World.leaked /\ w.full = World.full /\ w.probeLost = World.probeLost
      /\ w.late = World.late /\ w.swallowed = World.swallowed
  BY <1>1 DEF Worlds
<1> QED BY <1>1, <1>2, WorldFields DEF Hand, Fast, Calm

\* While a socket of the attempt is there, no fast path waits.
LEMMA MineIs ==
  ASSUME Inv, c.mine
  PROVE  ~c.manuallyClosed /\ ~c.bootstrapInFlight /\ \A i \in Tasks : ~Fast(World, i)
BY InvFields, WorldFields DEF Steady, Gone, FastAlone

LEMMA OpenedClient ==
  ASSUME NEW k \in Client, NEW m,
         m = [k EXCEPT !.ws = "open", !.state = "challenging", !.wsOpenTimer = FALSE,
                       !.challengeTimer = TRUE, !.connectInFlight = FALSE,
                       !.connectCompleted = FALSE]
  PROVE  /\ m \in Client
         /\ m.ws = "open" /\ m.state = "challenging" /\ m.challengeTimer
         /\ ~m.connectInFlight
         /\ m.mine = k.mine /\ m.manuallyClosed = k.manuallyClosed
         /\ m.blocked = k.blocked /\ m.bootstrapInFlight = k.bootstrapInFlight
         /\ m.pairingTimer = k.pairingTimer
<1>1. m \in Client
  BY ZenonT(60) DEF Client
<1>2. /\ m.ws = "open" /\ m.state = "challenging" /\ m.challengeTimer
      /\ ~m.connectInFlight
      /\ m.mine = k.mine /\ m.manuallyClosed = k.manuallyClosed
      /\ m.blocked = k.blocked /\ m.bootstrapInFlight = k.bootstrapInFlight
      /\ m.pairingTimer = k.pairingTimer
  BY ZenonT(60) DEF Client
<1> QED BY <1>1, <1>2

LEMMA OpenedStep ==
  ASSUME Inv, Opened PROVE Inv' /\ Fresh /\ Still
<1> DEFINE m == [c EXCEPT !.ws = "open", !.state = "challenging", !.wsOpenTimer = FALSE,
                          !.challengeTimer = TRUE, !.connectInFlight = FALSE,
                          !.connectCompleted = FALSE]
           w == [World EXCEPT !.c = m]
<1>1. c \in Client /\ Steady(World)
  BY InvFields
<1>2. c.mine /\ c.ws = "connecting"
  BY DEF Opened
<1>3. Become(w)
  <2>1. [World EXCEPT !.c.ws = "open", !.c.state = "challenging",
                      !.c.wsOpenTimer = FALSE, !.c.challengeTimer = TRUE,
                      !.c.connectInFlight = FALSE, !.c.connectCompleted = FALSE] = w
    BY ZenonT(60) DEF World
  <2> HIDE DEF w
  <2> QED BY <2>1 DEF Opened
<1>4. /\ m \in Client
      /\ m.ws = "open" /\ m.state = "challenging" /\ m.challengeTimer
      /\ ~m.connectInFlight
      /\ m.mine = c.mine /\ m.manuallyClosed = c.manuallyClosed
      /\ m.blocked = c.blocked /\ m.bootstrapInFlight = c.bootstrapInFlight
      /\ m.pairingTimer = c.pairingTimer
  BY <1>1, OpenedClient
<1> HIDE DEF m
<1>5. /\ w \in Worlds /\ w.c = m /\ w.config = config /\ w.tasks = tasks
      /\ ~w.leaked /\ ~w.full /\ ~w.probeLost
      /\ \A i \in Tasks :
           (Hand(w, i) <=> Hand(World, i)) /\ (Fast(w, i) <=> Fast(World, i))
      /\ Calm(w, World)
  BY <1>4, UpdateIs
<1> HIDE DEF w
<1>6. /\ ~c.manuallyClosed /\ ~c.bootstrapInFlight /\ ~c.pairingTimer /\ config # None
      /\ \A i \in Tasks : ~Fast(w, i) /\ ~Hand(w, i)
  BY <1>1, <1>2, <1>5, MineIs, WorldFields DEF Steady, Timed, Hands, InUse
<1>7. Good(w)
  <2>1. FastAlone(w) /\ Hands(w) /\ Gone(w)
    BY <1>4, <1>5, <1>6 DEF FastAlone, Hands, Gone
  <2>2. Barred(w) /\ Timed(w) /\ Wakes(w)
    BY <1>2, <1>4, <1>5, <1>6 DEF Barred, Timed, Wakes, InUse
  <2> QED BY <1>5, <2>1, <2>2 DEF Good, Steady
<1>8. Inv' /\ Fresh /\ (w.c.manuallyClosed \/ w.c.blocked => Quiet')
  BY <1>3, <1>5, <1>7, BecomeIs
<1> QED BY <1>4, <1>5, <1>6, <1>8 DEF Still, Quiet

LEMMA GoneClient ==
  ASSUME NEW k \in Client, NEW m, m = [k EXCEPT !.ws = "none"]
  PROVE  /\ m \in Client /\ m.ws = "none"
         /\ m.state = k.state /\ m.mine = k.mine
         /\ m.manuallyClosed = k.manuallyClosed /\ m.blocked = k.blocked
         /\ m.pairingPending = k.pairingPending
         /\ m.bootstrapInFlight = k.bootstrapInFlight
         /\ m.connectInFlight = k.connectInFlight
         /\ m.reconnectTimer = k.reconnectTimer /\ m.wsOpenTimer = k.wsOpenTimer
         /\ m.challengeTimer = k.challengeTimer /\ m.pairingTimer = k.pairingTimer
         /\ m.tickTimer = k.tickTimer
BY ZenonT(60) DEF Client

\* The socket is gone and so are its timers and whoever waited for a reply.
LEMMA ClosedStep ==
  ASSUME Inv, Closed PROVE Inv' /\ Fresh /\ Still
<1> DEFINE r == ClearWatchdogs(World)
           k == [r.c EXCEPT !.ws = "none"]
           w == [r EXCEPT !.c = k]
           v == RejectReplies(w, {"bootstrap", "response"})
           n == [v.c EXCEPT !.connectInFlight = FALSE, !.connectCompleted = FALSE]
           x == [v EXCEPT !.c = n]
           l == [x.c EXCEPT !.state = "pairing_pending"]
           y == IF x.c.pairingPending THEN [x EXCEPT !.c = l] ELSE x
           z == ScheduleReconnect(y)
<1>1. /\ c \in Client /\ Steady(World) /\ World \in Worlds /\ World.c = c
      /\ ~World.full /\ ~World.leaked
  BY InvFields, WorldFields
<1>2. c.mine /\ ~c.manuallyClosed /\ ~c.bootstrapInFlight
  BY MineIs DEF Closed
<1>3. /\ r = [World EXCEPT !.c = r.c] /\ r \in Worlds
      /\ ~r.c.wsOpenTimer /\ ~r.c.challengeTimer /\ ~r.c.pairingTimer
      /\ ~r.c.tickTimer
      /\ r.c.mine = c.mine
      /\ r.c.manuallyClosed = c.manuallyClosed /\ r.c.blocked = c.blocked
      /\ r.c.bootstrapInFlight = c.bootstrapInFlight
      /\ r.c.connectInFlight = c.connectInFlight
  BY <1>1, ClearWatchdogsIs
<1>4. Kept(r, World)
  BY <1>1, <1>3 DEF Worlds, Kept
<1> HIDE DEF r, v, z
<1>5. [r EXCEPT !.c.ws = "none"] = w
  BY <1>3 DEF Worlds
<1>6. r.c \in Client
  BY <1>3, WorldIs
<1>7. /\ k \in Client /\ k.ws = "none" /\ k.mine = r.c.mine
      /\ k.manuallyClosed = r.c.manuallyClosed /\ k.blocked = r.c.blocked
      /\ k.bootstrapInFlight = r.c.bootstrapInFlight
      /\ k.connectInFlight = r.c.connectInFlight
      /\ k.challengeTimer = r.c.challengeTimer /\ k.pairingTimer = r.c.pairingTimer
  BY <1>6, GoneClient
<1> HIDE DEF k
<1>8. w \in Worlds /\ w.c = k /\ Kept(w, World)
  BY <1>3, <1>4, <1>7 DEF Worlds, Kept
<1> HIDE DEF w
<1>9. Steady(w)
  <2>1. /\ ~InUse(w) /\ ~w.c.challengeTimer /\ w.c.mine
        /\ ~w.c.manuallyClosed /\ ~w.c.bootstrapInFlight /\ ~w.leaked
        /\ w.c.ws = "none" /\ (w.c.connectInFlight => c.connectInFlight)
    BY <1>1, <1>2, <1>3, <1>7, <1>8 DEF InUse, Kept
  <2>2. \A i \in Tasks : ~Fast(w, i) /\ (Hand(w, i) <=> Hand(World, i))
    BY <1>2, <1>8, MineIs DEF Kept, Fast, Hand
  <2>3. FastAlone(w) /\ Hands(w) /\ Gone(w) /\ Barred(w)
    BY <2>1, <2>2 DEF FastAlone, Hands, Gone, Barred
  <2>4. Timed(w)
    BY <1>1, <1>2, <2>1, <2>2 DEF Timed, Steady
  <2> QED BY <2>1, <2>3, <2>4 DEF Steady
<1>10. {"bootstrap", "response"} \in SUBSET HandStages
  BY DEF HandStages
<1>11. v \in Worlds /\ Quit(v, w)
  BY <1>8, <1>10, RejectRepliesIs DEF v
<1>12. Steady(v) /\ Calm(v, w)
  BY <1>8, <1>9, <1>11, QuitKeeps
<1>13. [v EXCEPT !.c.connectInFlight = FALSE, !.c.connectCompleted = FALSE] = x
  BY <1>11 DEF Worlds
<1>14. v.c \in Client
  BY <1>11, WorldIs
<1>15. /\ n \in Client /\ ~n.connectInFlight
       /\ n.state = v.c.state /\ n.ws = v.c.ws /\ n.mine = v.c.mine
       /\ n.manuallyClosed = v.c.manuallyClosed /\ n.blocked = v.c.blocked
       /\ n.bootstrapInFlight = v.c.bootstrapInFlight
       /\ n.reconnectTimer = v.c.reconnectTimer /\ n.wsOpenTimer = v.c.wsOpenTimer
       /\ n.challengeTimer = v.c.challengeTimer /\ n.pairingTimer = v.c.pairingTimer
       /\ n.tickTimer = v.c.tickTimer
  BY ZenonT(60), <1>14, EndedClient
<1> HIDE DEF n
<1>16. x \in Worlds /\ x.c = n /\ Kept(x, v) /\ Quit(x, v)
  BY <1>11, <1>15 DEF Worlds, Kept, Quit, SameClient
<1> HIDE DEF x
<1>17. Steady(x) /\ Calm(x, v)
  BY <1>11, <1>12, <1>16, QuitKeeps
<1>18. /\ x.c.ws = "none" /\ ~x.c.manuallyClosed /\ x.c.blocked = c.blocked
       /\ ~x.full /\ x.c \in Client
  BY <1>1, <1>2, <1>3, <1>7, <1>8, <1>11, <1>15, <1>16 DEF Quit, SameClient, Kept
<1>19. AfterClose(x) = z
  <2>1. [x EXCEPT !.c.state = "pairing_pending"] = [x EXCEPT !.c = l]
    BY <1>16 DEF Worlds
  <2> QED BY <1>18, <2>1 DEF AfterClose, z
<1>20. /\ l \in Client /\ l.state = "pairing_pending"
       /\ l.ws = x.c.ws /\ l.mine = x.c.mine
       /\ l.manuallyClosed = x.c.manuallyClosed /\ l.blocked = x.c.blocked
       /\ l.bootstrapInFlight = x.c.bootstrapInFlight
       /\ l.connectInFlight = x.c.connectInFlight
       /\ l.reconnectTimer = x.c.reconnectTimer /\ l.wsOpenTimer = x.c.wsOpenTimer
       /\ l.challengeTimer = x.c.challengeTimer /\ l.pairingTimer = x.c.pairingTimer
       /\ l.tickTimer = x.c.tickTimer
  <2>1. l.state = "pairing_pending"
    BY <1>18 DEF Client
  <2> QED BY <1>18, <2>1, StateClient
<1> HIDE DEF l
<1>21. /\ y \in Worlds /\ Steady(y) /\ ~InUse(y) /\ ~y.c.manuallyClosed
       /\ y.c.blocked = c.blocked /\ y.full = x.full /\ y.tasks = x.tasks
  <2>1. CASE ~x.c.pairingPending
    BY <1>16, <1>17, <1>18, <2>1 DEF InUse
  <2>2. CASE x.c.pairingPending
    <3>1. y = [x EXCEPT !.c = l]
      BY <2>2
    <3> HIDE DEF y
    <3>2. y \in Worlds /\ y.c = l /\ Kept(y, x)
      BY <1>16, <1>20, <3>1 DEF Worlds, Kept
    <3>3. /\ ~InUse(y) /\ (InUse(y) <=> InUse(x))
          /\ \A i \in Tasks : (Hand(y, i) <=> Hand(x, i)) /\ (Fast(y, i) <=> Fast(x, i))
      BY <1>18, <1>20, <3>2 DEF InUse, Kept, Hand, Fast
    <3>4. FastAlone(y)
      BY <1>17, <1>20, <3>2, <3>3 DEF Steady, FastAlone, Kept
    <3>5. Hands(y)
      BY <1>17, <1>20, <3>2, <3>3 DEF Steady, Hands, Kept
    <3>6. Gone(y) /\ Barred(y)
      BY <1>17, <1>18, <1>20, <3>2, <3>3 DEF Steady, Gone, Barred, Kept
    <3>7. Timed(y)
      BY <1>17, <1>18, <1>20, <3>2, <3>3 DEF Steady, Timed, Kept
    <3> QED BY <1>17, <1>18, <1>20, <3>2, <3>3, <3>4, <3>5, <3>6, <3>7 DEF Steady, Kept
  <2> QED BY <2>1, <2>2
<1> HIDE DEF y
<1>22. Good(z) /\ Kept(z, y) /\ z.c.blocked = y.c.blocked
  BY <1>21, ScheduleReconnectIs DEF z
<1>23. Become(z)
  BY <1>5, <1>13, <1>19 DEF Closed, r, v
<1>24. Calm(z, World)
  BY <1>8, <1>12, <1>17, <1>21, <1>22 DEF Calm, Kept
<1>25. z \in Worlds /\ ~z.leaked
  BY <1>22 DEF Good, Steady
<1>26. Inv' /\ Fresh /\ (z.c.manuallyClosed \/ z.c.blocked => Quiet')
  BY <1>22, <1>23, <1>24, <1>25, BecomeIs
<1> QED BY <1>2, <1>21, <1>22, <1>26 DEF Still, Quiet

LEMMA ChallengeClient ==
  ASSUME NEW k \in Client, NEW m,
         m = [k EXCEPT !.connectInFlight = TRUE, !.challengeTimer = FALSE]
  PROVE  /\ m \in Client /\ ~m.challengeTimer
         /\ m.state = k.state /\ m.ws = k.ws /\ m.mine = k.mine
         /\ m.manuallyClosed = k.manuallyClosed /\ m.blocked = k.blocked
         /\ m.bootstrapInFlight = k.bootstrapInFlight
         /\ m.reconnectTimer = k.reconnectTimer /\ m.wsOpenTimer = k.wsOpenTimer
         /\ m.pairingTimer = k.pairingTimer /\ m.tickTimer = k.tickTimer
BY ZenonT(60) DEF Client

LEMMA ChallengeStep ==
  ASSUME Inv, Challenge PROVE Inv' /\ Fresh /\ Still
<1> DEFINE m == [c EXCEPT !.connectInFlight = TRUE, !.challengeTimer = FALSE]
           u == [World EXCEPT !.c = m]
           w == Await(u, "identity")
<1>1. /\ c \in Client /\ Steady(World) /\ World \in Worlds /\ ~World.leaked
      /\ World.c = c /\ World.config = config
  BY InvFields, WorldFields
<1>2. /\ c.mine /\ c.ws \in {"open", "closing"}
      /\ ~c.manuallyClosed /\ ~c.bootstrapInFlight
      /\ \A i \in Tasks : ~Fast(World, i)
  BY MineIs DEF Challenge, Delivers
<1> HIDE DEF w
<1>3. Become(w)
  <2>1. [World EXCEPT !.c.connectInFlight = TRUE, !.c.challengeTimer = FALSE] = u
    BY DEF World
  <2> HIDE DEF u
  <2> QED BY <2>1 DEF Challenge, w
<1>4. /\ m \in Client /\ ~m.challengeTimer
      /\ m.state = c.state /\ m.ws = c.ws /\ m.mine = c.mine
      /\ m.manuallyClosed = c.manuallyClosed /\ m.blocked = c.blocked
      /\ m.bootstrapInFlight = c.bootstrapInFlight
      /\ m.wsOpenTimer = c.wsOpenTimer
      /\ m.pairingTimer = c.pairingTimer /\ m.tickTimer = c.tickTimer
  <2>1. c \in Client
    BY <1>1
  <2> HIDE DEF u
  <2> QED BY ONLY <2>1, ChallengeClient
<1> HIDE DEF m
<1>5. /\ u \in Worlds /\ u.c = m /\ u.config = config /\ u.tasks = tasks
      /\ ~u.leaked /\ ~u.full /\ ~u.probeLost
  BY <1>4, UpdateIs
<1> HIDE DEF u
<1>6. "identity" \in Stages /\ "identity" \in HandStages
  BY DEF Stages, HandStages
<1>7. /\ w \in Worlds /\ w.c = u.c /\ w.config = u.config /\ ~w.leaked
      /\ ~w.full => \E i \in Tasks :
           /\ u.tasks[i].stage = "none"
           /\ w.tasks[i].stage = "identity" /\ w.tasks[i].mine
           /\ \A j \in Tasks : j # i => w.tasks[j] = u.tasks[j]
  BY <1>5, <1>6, AwaitIs DEF w
<1>8. ASSUME ~w.full PROVE Good(w) /\ Calm(w, World)
  <2>1. PICK i \in Tasks :
          /\ w.tasks[i].stage = "identity" /\ w.tasks[i].mine
          /\ \A j \in Tasks : j # i => w.tasks[j] = tasks[j]
    BY <1>5, <1>7, <1>8
  <2>2. /\ Hand(w, i)
        /\ \A j \in Tasks : ~Fast(w, j)
    BY <1>2, <1>6, <2>1, WorldFields DEF Hand, Fast
  <2>3. FastAlone(w) /\ Gone(w) /\ Barred(w)
    BY <1>2, <1>4, <1>5, <1>7, <2>2 DEF FastAlone, Gone, Barred
  <2>4. Hands(w)
    BY <1>2, <1>4, <1>5, <1>7 DEF Hands
  <2>5. Timed(w)
    BY ZenonT(60), <1>1, <1>2, <1>4, <1>5, <1>7, <2>2 DEF Timed, Steady, InUse
  <2>6. Wakes(w)
    BY <1>2, <1>4, <1>5, <1>7 DEF Wakes
  <2>7. Calm(w, World)
    BY <2>1, WorldFields DEF Calm
  <2> QED BY <1>7, <2>3, <2>4, <2>5, <2>6, <2>7 DEF Good, Steady
<1>9. /\ Inv' /\ ~w.full /\ (Calm(w, World) => Fresh)
      /\ w.c.manuallyClosed \/ w.c.blocked => Quiet'
  BY <1>3, <1>7, <1>8, BecomeIs
<1> QED BY <1>4, <1>5, <1>7, <1>8, <1>9 DEF Still, Quiet

LEMMA ApprovedClient ==
  ASSUME NEW k \in Client, NEW m,
         m = [k EXCEPT !.pairingPending = FALSE, !.blocked = FALSE, !.pairingTimer = FALSE]
  PROVE  /\ m \in Client /\ ~m.blocked /\ ~m.pairingTimer
         /\ m.state = k.state /\ m.ws = k.ws /\ m.mine = k.mine
         /\ m.manuallyClosed = k.manuallyClosed
         /\ m.bootstrapInFlight = k.bootstrapInFlight
         /\ m.connectInFlight = k.connectInFlight
         /\ m.reconnectTimer = k.reconnectTimer /\ m.wsOpenTimer = k.wsOpenTimer
         /\ m.challengeTimer = k.challengeTimer /\ m.tickTimer = k.tickTimer
BY ZenonT(60) DEF Client

LEMMA PairApprovedStep ==
  ASSUME Inv, PairApproved PROVE Inv' /\ Fresh /\ Still
<1> DEFINE m == [c EXCEPT !.pairingPending = FALSE, !.blocked = FALSE,
                          !.pairingTimer = FALSE]
           u == [World EXCEPT !.c = m]
           y == CloseWs(u)
           z == ScheduleReconnect(y)
<1>1. /\ c \in Client /\ Steady(World) /\ World.c = c /\ World.config = config
  BY InvFields, WorldFields
<1>2. c.mine /\ ~c.manuallyClosed /\ ~c.bootstrapInFlight
  BY MineIs DEF PairApproved, Delivers
<1> HIDE DEF y, z
<1>3. Become(z)
  <2>1. [World EXCEPT !.c.pairingPending = FALSE, !.c.blocked = FALSE,
                      !.c.pairingTimer = FALSE] = u
    BY DEF World
  <2> HIDE DEF u
  <2> QED BY <2>1 DEF PairApproved, y, z
<1>4. /\ m \in Client /\ ~m.blocked /\ ~m.pairingTimer
      /\ m.state = c.state /\ m.ws = c.ws /\ m.mine = c.mine
      /\ m.manuallyClosed = c.manuallyClosed
      /\ m.bootstrapInFlight = c.bootstrapInFlight
      /\ m.connectInFlight = c.connectInFlight
      /\ m.reconnectTimer = c.reconnectTimer /\ m.wsOpenTimer = c.wsOpenTimer
      /\ m.challengeTimer = c.challengeTimer /\ m.tickTimer = c.tickTimer
  <2>1. c \in Client
    BY <1>1
  <2> HIDE DEF u
  <2> QED BY ONLY <2>1, ApprovedClient
<1> HIDE DEF m
<1>5. /\ u \in Worlds /\ u.c = m /\ u.config = config /\ u.tasks = tasks
      /\ ~u.leaked /\ ~u.full /\ ~u.probeLost /\ Calm(u, World) /\ u.late = late
      /\ \A i \in Tasks :
           (Hand(u, i) <=> Hand(World, i)) /\ (Fast(u, i) <=> Fast(World, i))
  BY <1>4, UpdateIs
<1> HIDE DEF u
<1>6. Steady(u)
  <2>1. (InUse(u) <=> InUse(World)) /\ World.tasks = tasks
    BY <1>1, <1>4, <1>5, WorldFields DEF InUse
  <2>2. FastAlone(u)
    BY <1>1, <1>4, <1>5, <2>1 DEF Steady, FastAlone
  <2>3. Hands(u)
    BY <1>1, <1>4, <1>5 DEF Steady, Hands
  <2>4. Gone(u) /\ Barred(u)
    BY <1>2, <1>4, <1>5 DEF Gone, Barred
  <2>5. Timed(u)
    BY <1>1, <1>4, <1>5, <2>1 DEF Steady, Timed
  <2> QED BY <1>5, <2>2, <2>3, <2>4, <2>5 DEF Steady
<1>7. /\ y \in Worlds /\ Kept(y, u) /\ ~InUse(y) /\ Steady(y)
      /\ ~y.c.manuallyClosed
  BY <1>2, <1>4, <1>5, <1>6, CloseWsIs DEF y
<1>8. Good(z) /\ Kept(z, y)
  BY <1>7, ScheduleReconnectIs DEF z
<1>9. z \in Worlds /\ ~z.leaked /\ Calm(z, World)
  BY <1>5, <1>7, <1>8 DEF Good, Steady, Kept, Calm
<1>10. Inv' /\ Fresh
  BY <1>3, <1>8, <1>9, BecomeIs
<1> QED BY <1>10 DEF Still

\* A handler that ends in a world where what was quiet still is.
LEMMA PlainStep ==
  ASSUME Inv, NEW w, Good(w), Calm(w, World), Become(w),
         w.c.manuallyClosed = c.manuallyClosed, c.blocked => w.c.blocked
  PROVE  Inv' /\ Fresh /\ Still
<1>1. w \in Worlds /\ ~w.leaked
  BY DEF Good, Steady
<1>2. Inv' /\ Fresh /\ (w.c.manuallyClosed \/ w.c.blocked => Quiet')
  BY <1>1, BecomeIs
<1> QED BY <1>2 DEF Still, Quiet

LEMMA AnsweredStep ==
  ASSUME Inv, Answered PROVE Inv' /\ Fresh /\ Still
<1>1. ASSUME NEW m, m \in {[c EXCEPT !.request = FALSE], [c EXCEPT !.probe = FALSE]},
             Become([World EXCEPT !.c = m])
      PROVE  Inv' /\ Fresh /\ Still
  <2> DEFINE w == [World EXCEPT !.c = m]
  <2>1. Good(w) /\ Calm(w, World) /\ SameClient(w, World)
    <3> HIDE DEF w
    <3> QED BY <1>1, OtherIs DEF w
  <2>2. Become(w)
    BY <1>1
  <2> HIDE DEF w
  <2> QED BY <2>1, <2>2, PlainStep, WorldFields DEF SameClient
<1>2. /\ [World EXCEPT !.c.request = FALSE] = [World EXCEPT !.c = [c EXCEPT !.request = FALSE]]
      /\ [World EXCEPT !.c.probe = FALSE] = [World EXCEPT !.c = [c EXCEPT !.probe = FALSE]]
  BY DEF World
<1> QED BY <1>1, <1>2 DEF Answered

-----------------------------------------------------------------------------
(* The handshake *)

\* x with t in the place of continuation i.
Moved(x, i, t) == [x EXCEPT !.tasks = [x.tasks EXCEPT ![i] = t]]

\* A handshake goes over to another stage.
LEMMA StageIs ==
  ASSUME NEW x, Good(x), NEW i \in Tasks, x.tasks[i].stage \in HandStages,
         NEW t \in Task, t.stage \in HandStages, t.mine = x.tasks[i].mine,
         NEW w, w = Moved(x, i, t)
  PROVE  /\ Good(w) /\ w.c = x.c /\ w.full = x.full /\ w.probeLost = x.probeLost
         /\ w.tasks[i] = t /\ \A j \in Tasks : j # i => w.tasks[j] = x.tasks[j]
<1>1. x \in Worlds /\ Steady(x) /\ Wakes(x) /\ x.tasks \in [Tasks -> Task]
  BY WorldIs DEF Good
<1> DEFINE ts == [x.tasks EXCEPT ![i] = t]
<1>2. /\ ts \in [Tasks -> Task] /\ ts[i] = t
      /\ \A j \in Tasks : j # i => ts[j] = x.tasks[j]
  BY <1>1
<1>3. w = [x EXCEPT !.tasks = ts]
  BY DEF Moved
<1> HIDE DEF ts
<1>4. /\ w \in Worlds /\ w.tasks = ts /\ w.c = x.c /\ w.config = x.config
      /\ w.leaked = x.leaked /\ w.swallowed = x.swallowed /\ w.late = x.late
      /\ w.full = x.full /\ w.probeLost = x.probeLost
  BY <1>1, <1>2, <1>3 DEF Worlds
<1>5. \A j \in Tasks :
        /\ Hand(w, j) <=> Hand(x, j)
        /\ Fast(w, j) <=> Fast(x, j)
        /\ w.tasks[j].mine = x.tasks[j].mine
  BY <1>2, <1>4, NoTaskIs DEF Hand, Fast
<1>6. InUse(w) <=> InUse(x)
  BY <1>4 DEF InUse
<1>7. FastAlone(w) /\ Hands(w)
  BY <1>1, <1>4, <1>5, <1>6 DEF Steady, FastAlone, Hands
<1>8. Gone(w) /\ Barred(w)
  BY <1>1, <1>4, <1>6 DEF Steady, Gone, Barred
<1>9. Timed(w)
  BY <1>1, <1>4, <1>5, <1>6 DEF Steady, Timed
<1>10. Wakes(w)
  BY <1>1, <1>4, <1>5 DEF Wakes
<1> QED BY <1>1, <1>2, <1>4, <1>7, <1>8, <1>9, <1>10 DEF Good, Steady

\* A handshake ends.
LEMMA FinishGood ==
  ASSUME NEW w, Good(w), NEW i \in Tasks, w.tasks[i].stage \in HandStages,
         NEW v, v = Finish(w, i)
  PROVE  /\ Good(v) /\ Calm(v, w) /\ v.full = w.full /\ v.probeLost = w.probeLost
         /\ v.c.state = w.c.state
         /\ v.c.manuallyClosed = w.c.manuallyClosed /\ v.c.blocked = w.c.blocked
<1>1. w \in Worlds /\ ~Fast(w, i)
  BY NoTaskIs DEF Good, Fast
<1>2. v \in Worlds /\ Quit(v, w) /\ v.probeLost = w.probeLost
  BY <1>1, FinishIs
<1>3. Steady(v) /\ Wakes(v) /\ Calm(v, w)
  BY <1>1, <1>2, QuitKeeps DEF Good
<1> QED BY <1>2, <1>3 DEF Good, Quit, SameClient

\* A handshake fails.
LEMMA FailedGood ==
  ASSUME NEW w, Good(w), NEW i \in Tasks, w.tasks[i].stage \in HandStages,
         NEW v, v = Failed(w, i)
  PROVE  /\ Good(v) /\ Calm(v, w) /\ v.full = w.full /\ v.probeLost = w.probeLost
         /\ v.c.manuallyClosed = w.c.manuallyClosed /\ v.c.blocked = w.c.blocked
<1>1. CASE ~w.tasks[i].mine
  <2>1. v = Finish(w, i)
    BY <1>1 DEF Failed
  <2> QED BY <2>1, FinishGood
<1>2. CASE w.tasks[i].mine
  <2> DEFINE u == CloseWs(w)
  <2>1. v = Finish(u, i)
    BY <1>2 DEF Failed
  <2>2. w \in Worlds /\ Steady(w) /\ Timed(w) /\ Wakes(w) /\ ~w.c.challengeTimer
    BY <1>2 DEF Good, Steady, Hands, Hand
  <2> HIDE DEF u
  <2>3. /\ u \in Worlds /\ Kept(u, w) /\ Steady(u) /\ Wakes(u)
        /\ u.c.manuallyClosed = w.c.manuallyClosed /\ u.c.blocked = w.c.blocked
    BY <2>2, CloseWsIs DEF u
  <2>4. /\ Good(u) /\ Calm(u, w) /\ u.tasks[i].stage \in HandStages
    BY <2>3 DEF Good, Kept, Calm
  <2>5. /\ Good(v) /\ Calm(v, u) /\ v.full = u.full /\ v.probeLost = u.probeLost
        /\ v.c.manuallyClosed = u.c.manuallyClosed /\ v.c.blocked = u.c.blocked
    BY <2>1, <2>4, FinishGood
  <2> QED BY <2>3, <2>4, <2>5 DEF Kept, Calm
<1> QED BY <1>1, <1>2

LEMMA FinishStep ==
  ASSUME Inv, NEW i \in Tasks, tasks[i].stage \in HandStages, Become(Finish(World, i))
  PROVE  Inv' /\ Fresh /\ Still
<1> DEFINE w == Finish(World, i)
<1>1. /\ Good(World) /\ World.tasks[i].stage \in HandStages /\ World.c = c
  BY InvFields, WorldFields
<1>2. /\ Good(w) /\ Calm(w, World)
      /\ w.c.manuallyClosed = World.c.manuallyClosed /\ w.c.blocked = World.c.blocked
  BY <1>1, FinishGood
<1>3. Become(w)
  OBVIOUS
<1> HIDE DEF w
<1> QED BY <1>1, <1>2, <1>3, PlainStep

LEMMA FailedStep ==
  ASSUME Inv, NEW i \in Tasks, tasks[i].stage \in HandStages, Become(Failed(World, i))
  PROVE  Inv' /\ Fresh /\ Still
<1> DEFINE w == Failed(World, i)
<1>1. /\ Good(World) /\ World.tasks[i].stage \in HandStages /\ World.c = c
  BY InvFields, WorldFields
<1>2. /\ Good(w) /\ Calm(w, World)
      /\ w.c.manuallyClosed = World.c.manuallyClosed /\ w.c.blocked = World.c.blocked
  BY <1>1, FailedGood
<1>3. Become(w)
  OBVIOUS
<1> HIDE DEF w
<1> QED BY <1>1, <1>2, <1>3, PlainStep

LEMMA StageStep ==
  ASSUME Inv, NEW i \in Tasks, tasks[i].stage \in HandStages,
         NEW s \in HandStages, s # "response", Become([World EXCEPT !.tasks[i].stage = s])
  PROVE  Inv' /\ Fresh /\ Still
<1> DEFINE t == [tasks[i] EXCEPT !.stage = s]
           w == [World EXCEPT !.tasks = [World.tasks EXCEPT ![i] = t]]
<1>1. Good(World) /\ World.c = c /\ World.tasks = tasks
  BY InvFields, WorldFields
<1>2. Become(w)
  <2>1. [World EXCEPT !.tasks[i].stage = s] = w
    BY DEF World
  <2> HIDE DEF w
  <2> QED BY <2>1
<1>3. t \in Task /\ t.stage = s /\ t.mine = tasks[i].mine
  <2>1. tasks[i] \in Task /\ s \in Stages
    BY InvFields, NoTaskIs
  <2> HIDE DEF w
  <2> QED BY <2>1 DEF Task
<1> HIDE DEF t
<1>4. /\ Good(w) /\ w.c = World.c
      /\ w.tasks[i] = t /\ \A j \in Tasks : j # i => w.tasks[j] = World.tasks[j]
  <2>1. World.tasks[i].stage \in HandStages /\ t.mine = World.tasks[i].mine
    BY <1>1, <1>3
  <2>2. w = Moved(World, i, t)
    BY DEF Moved
  <2> HIDE DEF w
  <2> QED BY <1>1, <1>3, <2>1, <2>2, StageIs
<1> HIDE DEF w
<1>5. Calm(w, World)
  BY <1>3, <1>4 DEF Calm
<1> QED BY <1>1, <1>2, <1>4, <1>5, PlainStep

\* Only a connect request of the current attempt goes out.
LEMMA SendConnectStep ==
  ASSUME Inv, NEW i \in Tasks, tasks[i].stage \in HandStages, NEW auth \in Auths,
         Become(SendConnect(World, i, auth))
  PROVE  Inv' /\ Fresh /\ Still
<1>1. /\ Good(World) /\ Steady(World) /\ World.c = c /\ World.tasks = tasks
      /\ ~World.full /\ ~World.probeLost
  BY InvFields, WorldFields
<1>2. CASE ~(tasks[i].mine /\ IsOpen(World))
  <2>1. Become(Failed(World, i))
    BY <1>1, <1>2 DEF SendConnect
  <2> QED BY <2>1, FailedStep
<1>3. CASE tasks[i].mine /\ IsOpen(World)
  <2> DEFINE t == [tasks[i] EXCEPT !.stage = "response", !.auth = auth]
             w == [World EXCEPT !.tasks = [World.tasks EXCEPT ![i] = t]]
  <2>1. Become(w)
    <3>1. [World EXCEPT !.tasks[i].stage = "response", !.tasks[i].auth = auth] = w
      BY DEF World
    <3> HIDE DEF w
    <3> QED BY <1>1, <1>3, <3>1 DEF SendConnect
  <2>2. t \in Task /\ t.stage = "response" /\ t.mine = tasks[i].mine
    <3>1. tasks[i] \in Task /\ "response" \in Stages
      BY InvFields DEF Stages
    <3> HIDE DEF w
    <3> QED BY <3>1 DEF Task
  <2> HIDE DEF t
  <2>3. /\ Good(w) /\ w.c = World.c /\ w.full = World.full
        /\ w.probeLost = World.probeLost
        /\ w.tasks[i] = t /\ \A j \in Tasks : j # i => w.tasks[j] = World.tasks[j]
    <3>1. /\ World.tasks[i].stage \in HandStages /\ t.stage \in HandStages
          /\ t.mine = World.tasks[i].mine
      BY <1>1, <2>2, NoTaskIs
    <3>2. w = Moved(World, i, t)
      BY DEF Moved
    <3> HIDE DEF w
    <3> QED BY <1>1, <2>2, <3>1, <3>2, StageIs
  <2> HIDE DEF w
  <2>4. w \in Worlds /\ ~w.leaked
    BY <2>3 DEF Good, Steady
  <2>5. /\ Inv' /\ tasks' = w.tasks
        /\ w.c.manuallyClosed \/ w.c.blocked => Quiet'
    BY <1>1, <2>1, <2>3, <2>4, BecomeIs
  <2>6. c.mine /\ c.ws = "open"
    <3>1. Hand(World, i)
      BY <1>1, <1>3 DEF Hand
    <3> QED BY <1>1, <1>3, <3>1 DEF Steady, Hands, IsOpen
  <2>7. Fresh
    BY <1>1, <1>3, <2>2, <2>3, <2>5, <2>6 DEF Fresh
  <2> QED BY <1>1, <2>3, <2>5, <2>7 DEF Still, Quiet
<1> QED BY <1>2, <1>3

LEMMA WithoutBootstrapStep ==
  ASSUME Inv, NEW i \in Tasks, tasks[i].stage \in HandStages,
         Become(WithoutBootstrap(World, i))
  PROVE  Inv' /\ Fresh /\ Still
<1>1. "legacy" \in Auths
  BY DEF Auths
<1> QED BY <1>1, SendConnectStep, FinishStep DEF WithoutBootstrap

LEMMA IdentityKnownStep ==
  ASSUME Inv, NEW i \in Tasks, IdentityKnown(i) PROVE Inv' /\ Fresh /\ Still
<1>1. /\ tasks[i].stage \in HandStages /\ "auth" \in HandStages /\ "legacy" \in Auths
  BY DEF IdentityKnown, HandStages, Auths
<1> QED BY <1>1, FinishStep, StageStep, SendConnectStep DEF IdentityKnown

LEMMA AuthKnownStep ==
  ASSUME Inv, NEW i \in Tasks, AuthKnown(i) PROVE Inv' /\ Fresh /\ Still
<1>1. /\ tasks[i].stage \in HandStages /\ "bootstrap" \in HandStages
      /\ "legacy" \in Auths /\ "device" \in Auths
  BY DEF AuthKnown, HandStages, Auths
<1>2. \/ Become(SendConnect(World, i, "device"))
      \/ Become(SendConnect(World, i, "legacy"))
      \/ Become([World EXCEPT !.tasks[i].stage = "bootstrap"])
      \/ Become(WithoutBootstrap(World, i))
  BY DEF AuthKnown
<1> QED BY <1>1, <1>2, StageStep, SendConnectStep, WithoutBootstrapStep

LEMMA BootstrapKnownStep ==
  ASSUME Inv, NEW i \in Tasks, BootstrapKnown(i) PROVE Inv' /\ Fresh /\ Still
<1>1. tasks[i].stage \in HandStages /\ "bootstrap" \in Auths
  BY DEF BootstrapKnown, HandStages, Auths
<1> QED BY <1>1, SendConnectStep, WithoutBootstrapStep DEF BootstrapKnown

LEMMA ReadyClient ==
  ASSUME NEW k \in Client, NEW m,
         m = [k EXCEPT !.pairingPending = FALSE, !.blocked = FALSE, !.state = "ready",
                       !.tickTimer = TRUE]
  PROVE  /\ m \in Client /\ m.state = "ready" /\ ~m.blocked /\ m.tickTimer
         /\ m.ws = k.ws /\ m.mine = k.mine
         /\ m.manuallyClosed = k.manuallyClosed
         /\ m.bootstrapInFlight = k.bootstrapInFlight
         /\ m.connectInFlight = k.connectInFlight
         /\ m.reconnectTimer = k.reconnectTimer /\ m.wsOpenTimer = k.wsOpenTimer
         /\ m.challengeTimer = k.challengeTimer /\ m.pairingTimer = k.pairingTimer
<1>1. m \in Client
  BY ZenonT(60) DEF Client
<1>2. /\ m.state = "ready" /\ ~m.blocked /\ m.tickTimer
      /\ m.ws = k.ws /\ m.mine = k.mine
      /\ m.manuallyClosed = k.manuallyClosed
      /\ m.bootstrapInFlight = k.bootstrapInFlight
      /\ m.connectInFlight = k.connectInFlight
      /\ m.reconnectTimer = k.reconnectTimer /\ m.wsOpenTimer = k.wsOpenTimer
      /\ m.challengeTimer = k.challengeTimer /\ m.pairingTimer = k.pairingTimer
  BY ZenonT(60) DEF Client
<1> QED BY <1>1, <1>2

\* hello-ok; if the attempt is past or the socket gone, late says so.
LEMMA ReadyGood ==
  ASSUME NEW w, Good(w), NEW i \in Tasks, w.tasks[i].stage \in HandStages,
         NEW v, v = Ready(w, i)
  PROVE  /\ Good(v) /\ Calm(v, w) /\ v.full = w.full /\ v.probeLost = w.probeLost
         /\ v.c.state = "ready" /\ v.c.manuallyClosed = w.c.manuallyClosed
<1> DEFINE m == [w.c EXCEPT !.pairingPending = FALSE, !.blocked = FALSE,
                            !.state = "ready", !.tickTimer = TRUE]
           l == w.late \/ ~w.tasks[i].mine \/ w.c.ws = "none"
           u == [w EXCEPT !.c = m, !.late = l]
<1>1. /\ w \in Worlds /\ Steady(w) /\ Wakes(w) /\ w.c \in Client
      /\ w.tasks \in [Tasks -> Task]
  BY WorldIs DEF Good
<1>2. v = Finish(u, i)
  <2>1. [w EXCEPT !.c.pairingPending = FALSE, !.c.blocked = FALSE,
                  !.c.state = "ready", !.c.tickTimer = TRUE,
                  !.late = @ \/ ~w.tasks[i].mine \/ w.c.ws = "none"] = u
    BY <1>1 DEF Worlds
  <2> HIDE DEF u
  <2> QED BY <2>1 DEF Ready
<1>3. l \in BOOLEAN
  OBVIOUS
<1>4. /\ m \in Client /\ m.state = "ready" /\ ~m.blocked /\ m.tickTimer
      /\ m.ws = w.c.ws /\ m.mine = w.c.mine
      /\ m.manuallyClosed = w.c.manuallyClosed
      /\ m.bootstrapInFlight = w.c.bootstrapInFlight
      /\ m.connectInFlight = w.c.connectInFlight
      /\ m.reconnectTimer = w.c.reconnectTimer /\ m.wsOpenTimer = w.c.wsOpenTimer
      /\ m.challengeTimer = w.c.challengeTimer /\ m.pairingTimer = w.c.pairingTimer
  <2>1. w.c \in Client
    BY <1>1
  <2> HIDE DEF u
  <2> QED BY ONLY <2>1, ReadyClient
<1> HIDE DEF m, l
<1>5. /\ u \in Worlds /\ u.c = m /\ u.late = l /\ u.config = w.config
      /\ u.tasks = w.tasks /\ u.leaked = w.leaked /\ u.swallowed = w.swallowed
      /\ u.full = w.full /\ u.probeLost = w.probeLost
  BY <1>1, <1>3, <1>4 DEF Worlds
<1> HIDE DEF u
<1>6. /\ InUse(u) <=> InUse(w)
      /\ \A j \in Tasks : (Hand(u, j) <=> Hand(w, j)) /\ (Fast(u, j) <=> Fast(w, j))
  BY <1>4, <1>5 DEF InUse, Hand, Fast
<1>7. FastAlone(u)
  BY <1>1, <1>4, <1>5, <1>6 DEF Steady, FastAlone
<1>8. Hands(u)
  BY <1>1, <1>4, <1>5, <1>6 DEF Steady, Hands
<1>9. Gone(u) /\ Barred(u)
  BY <1>1, <1>4, <1>5 DEF Steady, Gone, Barred, l
<1>10. Timed(u)
  BY <1>1, <1>4, <1>5, <1>6 DEF Steady, Timed
<1>11. Wakes(u)
  <2>1. CASE w.tasks[i].mine /\ w.c.ws # "none"
    <3>1. Hand(w, i)
      BY <2>1 DEF Hand
    <3> QED BY <1>1, <1>4, <1>5, <2>1, <3>1 DEF Steady, Hands, Wakes
  <2>2. CASE ~(w.tasks[i].mine /\ w.c.ws # "none")
    BY <1>5, <2>2 DEF Wakes, l
  <2> QED BY <2>1, <2>2
<1>12. Good(u)
  BY <1>1, <1>5, <1>7, <1>8, <1>9, <1>10, <1>11 DEF Good, Steady
<1>13. /\ Good(v) /\ Calm(v, u) /\ v.full = u.full /\ v.probeLost = u.probeLost
       /\ v.c.state = u.c.state
       /\ v.c.manuallyClosed = u.c.manuallyClosed
  BY <1>2, <1>5, <1>12, FinishGood
<1> QED BY <1>4, <1>5, <1>13 DEF Calm

\* A handshake of the current attempt makes the client ready.
LEMMA ReadyStep ==
  ASSUME Inv, NEW w, Good(w), w.c = c, w.tasks = tasks, ~w.probeLost,
         NEW i \in Tasks, tasks[i].stage \in HandStages, Become(Ready(w, i))
  PROVE  Inv' /\ Fresh /\ (tasks[i].mine => Still)
<1> DEFINE v == Ready(w, i)
<1>1. /\ Good(v) /\ Calm(v, w) /\ v.full = w.full /\ v.probeLost = w.probeLost
      /\ v.c.state = "ready" /\ v.c.manuallyClosed = w.c.manuallyClosed
  BY ReadyGood
<1>2. Become(v)
  OBVIOUS
<1> HIDE DEF v
<1>3. v \in Worlds /\ ~v.leaked /\ Calm(v, World)
  BY <1>1, WorldFields DEF Good, Steady, Calm
<1>4. Inv' /\ Fresh /\ c' = v.c
  BY <1>1, <1>2, <1>3, BecomeIs
<1>5. ASSUME tasks[i].mine PROVE Welcomed
  <2>1. Hand(World, i)
    BY <1>5, WorldFields DEF Hand
  <2>2. c.mine
    BY <2>1, InvFields, WorldFields DEF Steady, Hands
  <2> QED BY <1>1, <1>4, <2>2, MineIs DEF Welcomed
<1> QED BY <1>4, <1>5 DEF Still

LEMMA AcceptedStep ==
  ASSUME Inv, NEW i \in Tasks, Accepted(i) PROVE Inv' /\ Fresh /\ Still
<1>1. /\ tasks[i].stage \in HandStages /\ "store" \in HandStages /\ tasks[i].mine
  BY DEF Accepted, HandStages
<1>2. Good(World) /\ World.c = c /\ World.tasks = tasks /\ ~World.probeLost
  BY InvFields, WorldFields
<1> QED BY <1>1, <1>2, StageStep, ReadyStep DEF Accepted

LEMMA TokenStoredStep ==
  ASSUME Inv, NEW i \in Tasks, TokenStored(i) PROVE Inv' /\ Fresh /\ Still
<1>1. tasks[i].stage \in HandStages
  BY DEF TokenStored, HandStages
<1>2. CASE Become(Failed(World, i))
  BY <1>1, <1>2, FailedStep
<1>3. CASE Become(Ready([World EXCEPT !.tokens = @ \cup ({config} \ {None})], i))
  <2> DEFINE s == World.tokens \cup ({config} \ {None})
             w == [World EXCEPT !.tokens = s]
  <2>1. Become(Ready(w, i))
    <3>1. [World EXCEPT !.tokens = @ \cup ({config} \ {None})] = w
      BY DEF World
    <3> HIDE DEF w
    <3> QED BY <1>3, <3>1
  <2>2. s \in SUBSET Configs
    BY InvFields, WorldFields
  <2> HIDE DEF s
  <2>3. World \in Worlds /\ Good(World)
    BY InvFields
  <2>4. /\ w \in Worlds /\ w.c = c /\ w.tasks = tasks /\ ~w.probeLost
        /\ Quit(w, World)
    BY <2>2, <2>3, WorldFields DEF Worlds, Quit, SameClient
  <2> HIDE DEF w
  <2>5. Good(w)
    BY <2>3, <2>4, QuitKeeps DEF Good
  <2>6. Inv' /\ Fresh /\ (tasks[i].mine => Still)
    BY <1>1, <2>1, <2>4, <2>5, ReadyStep
  <2> QED BY <2>6 DEF Still, LateStep
<1> QED BY <1>2, <1>3 DEF TokenStored

LEMMA RefusedStep ==
  ASSUME Inv, NEW i \in Tasks, Refused(i) PROVE Inv' /\ Fresh /\ Still
<1> DEFINE u == Block(World)
           w == Failed(u, i)
<1>1. /\ tasks[i].stage \in HandStages /\ tasks[i].mine /\ Become(w)
  BY DEF Refused, HandStages
<1>2. /\ World \in Worlds /\ Steady(World) /\ World.c = c /\ World.tasks = tasks
  BY InvFields, WorldFields
<1>3. ~World.c.challengeTimer
  BY <1>1, <1>2 DEF Steady, Hands, Hand
<1> HIDE DEF w
<1>4. /\ u \in Worlds /\ Kept(u, World) /\ u.c.blocked
      /\ u.c.manuallyClosed = c.manuallyClosed
      /\ Wakes(u) /\ Steady(u)
  BY <1>2, <1>3, BlockIs
<1> HIDE DEF u
<1>5. Good(u) /\ Calm(u, World) /\ u.tasks[i].stage \in HandStages
  BY <1>1, <1>2, <1>4 DEF Good, Calm, Kept
<1>6. /\ Good(w) /\ Calm(w, u)
      /\ w.c.manuallyClosed = u.c.manuallyClosed /\ w.c.blocked = u.c.blocked
  BY <1>5, FailedGood DEF w
<1>7. Calm(w, World)
  BY <1>5, <1>6 DEF Calm
<1> QED BY <1>1, <1>4, <1>6, <1>7, PlainStep

LEMMA TokenMismatchStep ==
  ASSUME Inv, NEW i \in Tasks, TokenMismatch(i) PROVE Inv' /\ Fresh /\ Still
<1>1. tasks[i].stage \in HandStages /\ "clear" \in HandStages
  BY DEF TokenMismatch, HandStages
<1> QED BY <1>1, StageStep DEF TokenMismatch

\* All starts again, also what a block should have ended if the attempt is past.
LEMMA RestartStep ==
  ASSUME Inv, NEW x \in Worlds, Calm(x, World), ~x.leaked, x.c.blocked = c.blocked,
         NEW i \in Tasks, tasks[i].stage \in HandStages, Become(Ended(Restart(x)))
  PROVE  Inv' /\ Fresh /\ (tasks[i].mine => Still)
<1> DEFINE u == Restart(x)
           w == Ended(u)
<1>1. /\ u \in Worlds /\ Calm(u, x) /\ ~u.leaked
      /\ ~u.full => Good(u)
      /\ x.c.blocked => u.c.blocked
  BY RestartIs
<1>2. Become(w)
  OBVIOUS
<1> HIDE DEF u
<1>3. w \in Worlds /\ Quit(w, u)
  BY <1>1, EndedIs
<1> HIDE DEF w
<1>4. w.full = u.full /\ w.leaked = u.leaked /\ w.c.blocked = u.c.blocked
  BY <1>3 DEF Quit, SameClient
<1>5. Calm(w, World) /\ (Good(u) => Good(w))
  BY <1>1, <1>3, QuitKeeps DEF Good, Calm
<1>6. Inv' /\ Fresh /\ (w.c.manuallyClosed \/ w.c.blocked => Quiet')
  BY <1>1, <1>2, <1>3, <1>4, <1>5, BecomeIs
<1>7. ASSUME tasks[i].mine PROVE Still
  <2>1. Hand(World, i)
    BY <1>7, WorldFields DEF Hand
  <2>2. c.mine
    BY <2>1, InvFields, WorldFields DEF Steady, Hands
  <2> QED BY <1>1, <1>4, <1>6, <2>2, MineIs DEF Still, Quiet
<1> QED BY <1>6, <1>7

LEMMA TokenClearedStep ==
  ASSUME Inv, NEW i \in Tasks, TokenCleared(i) PROVE Inv' /\ Fresh /\ Still
<1> DEFINE ts == [tasks EXCEPT ![i] = NoTask]
           x == [World EXCEPT !.tasks = ts, !.tokens = tokens \ {config}]
<1>1. tasks[i].stage \in HandStages
  BY DEF TokenCleared, HandStages
<1>2. Become(Ended(Restart(x)))
  <2>1. [World EXCEPT !.tasks[i] = NoTask, !.tokens = @ \ {config}] = x
    BY DEF World
  <2> HIDE DEF x
  <2> QED BY <2>1 DEF TokenCleared
<1>3. /\ ts \in [Tasks -> Task]
      /\ \A j \in Tasks : ts[j].stage = "response" => tasks[j].stage = "response"
  BY InvFields, NoTaskIs
<1> HIDE DEF ts
<1>4. /\ x \in Worlds /\ Calm(x, World) /\ ~x.leaked /\ x.c.blocked = c.blocked
  BY <1>3, InvFields, WorldFields DEF Worlds, Calm
<1> HIDE DEF x
<1>5. Inv' /\ Fresh /\ (tasks[i].mine => Still)
  BY <1>1, <1>2, <1>4, RestartStep
<1> QED BY <1>5 DEF Still, LateStep

LEMMA BootstrapUnsupportedStep ==
  ASSUME Inv, NEW i \in Tasks, BootstrapUnsupported(i) PROVE Inv' /\ Fresh /\ Still
<1> DEFINE ts == [tasks EXCEPT ![i] = NoTask]
           m == [c EXCEPT !.disabled = config]
           x == [World EXCEPT !.tasks = ts, !.c = m]
<1>1. tasks[i].stage \in HandStages /\ tasks[i].mine
  BY DEF BootstrapUnsupported, HandStages
<1>2. Become(Ended(Restart(x)))
  <2>1. [World EXCEPT !.tasks[i] = NoTask, !.c.disabled = config] = x
    BY DEF World
  <2> HIDE DEF x
  <2> QED BY <2>1 DEF BootstrapUnsupported
<1>3. /\ ts \in [Tasks -> Task]
      /\ \A j \in Tasks : ts[j].stage = "response" => tasks[j].stage = "response"
  BY InvFields, NoTaskIs
<1> HIDE DEF ts
<1>4. m \in Client /\ m.blocked = c.blocked
  BY InvFields, OtherFields
<1> HIDE DEF m
<1>5. /\ x \in Worlds /\ Calm(x, World) /\ ~x.leaked /\ x.c.blocked = c.blocked
  BY <1>3, <1>4, InvFields, WorldFields DEF Worlds, Calm
<1> HIDE DEF x
<1> QED BY <1>1, <1>2, <1>5, RestartStep

LEMMA NotPairedClient ==
  ASSUME NEW k \in Client, NEW m,
         m = [k EXCEPT !.pairingPending = TRUE, !.pairingTimer = TRUE,
                       !.state = "pairing_pending"]
  PROVE  /\ m \in Client /\ m.state = "pairing_pending"
         /\ m.ws = k.ws /\ m.mine = k.mine
         /\ m.manuallyClosed = k.manuallyClosed /\ m.blocked = k.blocked
         /\ m.bootstrapInFlight = k.bootstrapInFlight
         /\ m.connectInFlight = k.connectInFlight
         /\ m.reconnectTimer = k.reconnectTimer /\ m.wsOpenTimer = k.wsOpenTimer
         /\ m.challengeTimer = k.challengeTimer /\ m.tickTimer = k.tickTimer
BY ZenonT(60) DEF Client

LEMMA NotPairedStep ==
  ASSUME Inv, NEW i \in Tasks, NotPaired(i) PROVE Inv' /\ Fresh /\ Still
<1> DEFINE m == [c EXCEPT !.pairingPending = TRUE, !.pairingTimer = TRUE,
                          !.state = "pairing_pending"]
           u == [World EXCEPT !.c = m]
           w == Finish(u, i)
<1>1. tasks[i].stage \in HandStages /\ tasks[i].mine /\ c.ws # "none"
  BY DEF NotPaired, HandStages, Delivers
<1> HIDE DEF w
<1>2. Become(w)
  <2>1. [World EXCEPT !.c.pairingPending = TRUE, !.c.pairingTimer = TRUE,
                      !.c.state = "pairing_pending"] = u
    BY DEF World
  <2> HIDE DEF u
  <2> QED BY <2>1 DEF NotPaired, w
<1>3. /\ c \in Client /\ Steady(World) /\ Wakes(World) /\ World.c = c
      /\ World.tasks = tasks /\ World.config = config
      /\ World.late = late /\ World.swallowed = swallowed
  BY InvFields, WorldFields
<1>4. /\ m \in Client /\ m.state = "pairing_pending"
      /\ m.ws = c.ws /\ m.mine = c.mine
      /\ m.manuallyClosed = c.manuallyClosed /\ m.blocked = c.blocked
      /\ m.bootstrapInFlight = c.bootstrapInFlight
      /\ m.connectInFlight = c.connectInFlight
      /\ m.reconnectTimer = c.reconnectTimer /\ m.wsOpenTimer = c.wsOpenTimer
      /\ m.challengeTimer = c.challengeTimer /\ m.tickTimer = c.tickTimer
  <2>1. c \in Client
    BY <1>3
  <2> HIDE DEF u
  <2> QED BY ONLY <2>1, NotPairedClient
<1> HIDE DEF m
<1>5. /\ u \in Worlds /\ u.c = m /\ u.config = config /\ u.tasks = tasks
      /\ ~u.leaked /\ Calm(u, World) /\ u.late = late /\ u.swallowed = swallowed
      /\ \A j \in Tasks :
           (Hand(u, j) <=> Hand(World, j)) /\ (Fast(u, j) <=> Fast(World, j))
  BY <1>4, UpdateIs
<1> HIDE DEF u
<1>6. c.mine /\ ~c.challengeTimer /\ c.ws # "connecting" /\ ~c.manuallyClosed
  <2>1. Hand(World, i)
    BY <1>1, <1>3 DEF Hand
  <2>2. c.mine /\ ~c.challengeTimer /\ c.ws # "connecting"
    BY <1>3, <2>1 DEF Steady, Hands
  <2> QED BY <2>2, MineIs
<1>7. Good(u)
  <2>1. (InUse(u) <=> InUse(World))
    BY <1>3, <1>4, <1>5 DEF InUse
  <2>2. FastAlone(u) /\ Hands(u)
    BY <1>3, <1>4, <1>5, <2>1 DEF Steady, FastAlone, Hands
  <2>3. Gone(u) /\ Barred(u)
    BY <1>3, <1>4, <1>5, <1>6 DEF Steady, Gone, Barred
  <2>4. Timed(u)
    BY <1>3, <1>4, <1>5, <1>6, <2>1 DEF Steady, Timed
  <2>5. Wakes(u)
    BY <1>1, <1>4, <1>5, <1>6 DEF Wakes
  <2> QED BY <1>5, <2>2, <2>3, <2>4, <2>5 DEF Good, Steady
<1>8. /\ Good(w) /\ Calm(w, u)
      /\ w.c.manuallyClosed = u.c.manuallyClosed /\ w.c.blocked = u.c.blocked
  BY <1>1, <1>5, <1>7, FinishGood DEF w
<1>9. Calm(w, World)
  BY <1>5, <1>8 DEF Calm
<1> QED BY <1>2, <1>4, <1>5, <1>8, <1>9, PlainStep

LEMMA ConnectFailedStep ==
  ASSUME Inv, NEW i \in Tasks, ConnectFailed(i) PROVE Inv' /\ Fresh /\ Still
<1>1. tasks[i].stage \in HandStages
  BY DEF ConnectFailed, HandStages
<1> QED BY <1>1, FailedStep DEF ConnectFailed

LEMMA FastOverClient ==
  ASSUME NEW k \in Client, NEW m,
         m = [k EXCEPT !.bootstrapInFlight = FALSE, !.bootstrapTimer = FALSE]
  PROVE  /\ m \in Client /\ ~m.bootstrapInFlight
         /\ m.ws = k.ws /\ m.mine = k.mine /\ m.manuallyClosed = k.manuallyClosed
         /\ m.blocked = k.blocked /\ m.challengeTimer = k.challengeTimer
         /\ m.pairingTimer = k.pairingTimer
BY ZenonT(60) DEF Client

LEMMA FastPathKnownStep ==
  ASSUME Inv, NEW i \in Tasks, FastPathKnown(i) PROVE Inv' /\ Fresh /\ Still
<1> DEFINE ts == [tasks EXCEPT ![i] = NoTask]
           m == [c EXCEPT !.bootstrapInFlight = FALSE, !.bootstrapTimer = FALSE]
           x == [World EXCEPT !.tasks = ts, !.c = m]
<1>1. tasks[i].stage = "fast"
  BY DEF FastPathKnown
<1>2. Become(OpenSocket(x, TRUE)) \/ Become(Block(x))
  <2>1. [World EXCEPT !.tasks[i] = NoTask, !.c.bootstrapInFlight = FALSE,
                      !.c.bootstrapTimer = FALSE] = x
    BY DEF World
  <2> HIDE DEF x
  <2> QED BY <2>1 DEF FastPathKnown
<1>3. /\ c \in Client /\ Steady(World) /\ World \in Worlds /\ World.c = c
      /\ World.tasks = tasks /\ World.config = config /\ ~World.leaked
      /\ tasks \in [Tasks -> Task]
  BY InvFields, WorldFields
<1>4. /\ ts \in [Tasks -> Task] /\ ts[i] = NoTask
      /\ \A j \in Tasks : j # i => ts[j] = tasks[j]
  BY <1>3, NoTaskIs
<1> HIDE DEF ts
<1>5. /\ m \in Client /\ ~m.bootstrapInFlight
      /\ m.ws = c.ws /\ m.mine = c.mine
      /\ m.manuallyClosed = c.manuallyClosed /\ m.blocked = c.blocked
      /\ m.challengeTimer = c.challengeTimer /\ m.pairingTimer = c.pairingTimer
  <2>1. c \in Client
    BY <1>3
  <2> HIDE DEF x
  <2> QED BY ONLY <2>1, FastOverClient
<1> HIDE DEF m
<1>6. /\ x \in Worlds /\ x.c = m /\ x.tasks = ts /\ x.config = config /\ ~x.leaked
  BY <1>3, <1>4, <1>5 DEF Worlds
<1> HIDE DEF x
<1>7. Fast(World, i)
  BY <1>1, <1>3 DEF Fast
<1>8. /\ ~InUse(World) /\ ~c.mine /\ ~c.manuallyClosed /\ config # None
      /\ \A j \in Tasks : Fast(World, j) => j = i
  BY <1>3, <1>7 DEF Steady, FastAlone
<1>9. \A j \in Tasks : ~Hand(World, j)
  BY <1>3, <1>8 DEF Steady, Hands
<1>10. \A j \in Tasks : ~Hand(x, j) /\ ~Fast(x, j)
  BY <1>3, <1>4, <1>6, <1>8, <1>9, NoTaskIs DEF Hand, Fast
<1>11. Clear(x)
  BY <1>3, <1>5, <1>6, <1>8, <1>10 DEF Clear, InUse, Steady, Timed
<1>12. Calm(x, World)
  BY <1>3, <1>4, <1>6, NoTaskIs DEF Calm
<1>13. CASE Become(OpenSocket(x, TRUE))
  <2> DEFINE w == OpenSocket(x, TRUE)
  <2>1. /\ Good(w) /\ w.tasks = x.tasks
        /\ w.c.manuallyClosed = x.c.manuallyClosed /\ w.c.blocked = x.c.blocked
    BY <1>11, OpenSocketIs
  <2>2. Become(w)
    BY <1>13
  <2> HIDE DEF w
  <2>3. Calm(w, World)
    BY <1>12, <2>1 DEF Calm
  <2> QED BY <1>5, <1>6, <2>1, <2>2, <2>3, PlainStep
<1>14. CASE Become(Block(x))
  <2> DEFINE w == Block(x)
  <2>1. Good(w) /\ Kept(w, x) /\ w.c.manuallyClosed = x.c.manuallyClosed /\ w.c.blocked
    BY <1>11, ClearBlocked
  <2>2. Become(w)
    BY <1>14
  <2> HIDE DEF w
  <2>3. Calm(w, World)
    BY <1>12, <2>1 DEF Calm, Kept
  <2> QED BY <1>5, <1>6, <2>1, <2>2, <2>3, PlainStep
<1> QED BY <1>2, <1>13, <1>14

LEMMA ContinuesStep ==
  ASSUME Inv, NEW i \in Tasks, Continues(i) PROVE Inv' /\ Fresh /\ Still
BY IdentityKnownStep, AuthKnownStep, BootstrapKnownStep, FastPathKnownStep,
   TokenStoredStep, TokenClearedStep, ConnectFailedStep DEF Continues

LEMMA RepliesStep ==
  ASSUME Inv, NEW i \in Tasks, Replies(i) PROVE Inv' /\ Fresh /\ Still
BY AcceptedStep, RefusedStep, TokenMismatchStep, BootstrapUnsupportedStep, NotPairedStep
   DEF Replies

-----------------------------------------------------------------------------
(* The timers *)

LEMMA ReconnectFiredClient ==
  ASSUME NEW k \in Client, NEW m, m = [k EXCEPT !.reconnectTimer = FALSE]
  PROVE  /\ m \in Client /\ ~m.reconnectTimer
         /\ m.state = k.state /\ m.ws = k.ws /\ m.mine = k.mine
         /\ m.manuallyClosed = k.manuallyClosed /\ m.blocked = k.blocked
         /\ m.pairingPending = k.pairingPending
         /\ m.bootstrapInFlight = k.bootstrapInFlight
         /\ m.connectInFlight = k.connectInFlight /\ m.wsOpenTimer = k.wsOpenTimer
         /\ m.challengeTimer = k.challengeTimer /\ m.pairingTimer = k.pairingTimer
         /\ m.tickTimer = k.tickTimer /\ m.recent = k.recent
BY DEF Client

LEMMA WsOpenFiredClient ==
  ASSUME NEW k \in Client, NEW m, m = [k EXCEPT !.wsOpenTimer = FALSE]
  PROVE  /\ m \in Client /\ ~m.wsOpenTimer
         /\ m.state = k.state /\ m.ws = k.ws /\ m.mine = k.mine
         /\ m.manuallyClosed = k.manuallyClosed /\ m.blocked = k.blocked
         /\ m.pairingPending = k.pairingPending
         /\ m.bootstrapInFlight = k.bootstrapInFlight
         /\ m.connectInFlight = k.connectInFlight /\ m.reconnectTimer = k.reconnectTimer
         /\ m.challengeTimer = k.challengeTimer /\ m.pairingTimer = k.pairingTimer
         /\ m.tickTimer = k.tickTimer /\ m.recent = k.recent
BY DEF Client

LEMMA ChallengedFiredClient ==
  ASSUME NEW k \in Client, NEW m, m = [k EXCEPT !.challengeTimer = FALSE]
  PROVE  /\ m \in Client /\ ~m.challengeTimer
         /\ m.state = k.state /\ m.ws = k.ws /\ m.mine = k.mine
         /\ m.manuallyClosed = k.manuallyClosed /\ m.blocked = k.blocked
         /\ m.pairingPending = k.pairingPending
         /\ m.bootstrapInFlight = k.bootstrapInFlight
         /\ m.connectInFlight = k.connectInFlight /\ m.reconnectTimer = k.reconnectTimer
         /\ m.wsOpenTimer = k.wsOpenTimer /\ m.pairingTimer = k.pairingTimer
         /\ m.tickTimer = k.tickTimer /\ m.recent = k.recent
BY DEF Client

LEMMA PairingFiredClient ==
  ASSUME NEW k \in Client, NEW m, m = [k EXCEPT !.pairingTimer = FALSE]
  PROVE  /\ m \in Client /\ ~m.pairingTimer
         /\ m.state = k.state /\ m.ws = k.ws /\ m.mine = k.mine
         /\ m.manuallyClosed = k.manuallyClosed /\ m.blocked = k.blocked
         /\ m.pairingPending = k.pairingPending
         /\ m.bootstrapInFlight = k.bootstrapInFlight
         /\ m.connectInFlight = k.connectInFlight /\ m.reconnectTimer = k.reconnectTimer
         /\ m.wsOpenTimer = k.wsOpenTimer /\ m.challengeTimer = k.challengeTimer
         /\ m.tickTimer = k.tickTimer /\ m.recent = k.recent
BY DEF Client

LEMMA TickFiredClient ==
  ASSUME NEW k \in Client, NEW m, m = [k EXCEPT !.tickTimer = FALSE]
  PROVE  /\ m \in Client /\ ~m.tickTimer
         /\ m.state = k.state /\ m.ws = k.ws /\ m.mine = k.mine
         /\ m.manuallyClosed = k.manuallyClosed /\ m.blocked = k.blocked
         /\ m.pairingPending = k.pairingPending
         /\ m.bootstrapInFlight = k.bootstrapInFlight
         /\ m.connectInFlight = k.connectInFlight /\ m.reconnectTimer = k.reconnectTimer
         /\ m.wsOpenTimer = k.wsOpenTimer /\ m.challengeTimer = k.challengeTimer
         /\ m.pairingTimer = k.pairingTimer /\ m.recent = k.recent
BY DEF Client

\* reconnect() at the end of a handler.
LEMMA ReconnectStep ==
  ASSUME Inv, NEW x \in Worlds, Calm(x, World), ~x.leaked,
         Good(x) \/ (x.config # None /\ ~HandshakeInFlight(x) /\ ~x.c.recent),
         Become(Reconnect(x))
  PROVE  Inv' /\ Fresh
<1> DEFINE w == Reconnect(x)
<1>1. w \in Worlds /\ Calm(w, x) /\ ~w.leaked /\ (~w.full => Good(w))
  BY ReconnectIs
<1>2. Become(w) /\ Calm(w, World)
  BY <1>1 DEF Calm
<1> HIDE DEF w
<1> QED BY <1>1, <1>2, BecomeIs

LEMMA ReconnectFiresStep ==
  ASSUME Inv, ReconnectFires PROVE Inv' /\ Fresh /\ Still
<1> DEFINE m == [c EXCEPT !.reconnectTimer = FALSE]
           u == [World EXCEPT !.c = m]
<1>1. c.reconnectTimer
  BY DEF ReconnectFires
<1>2. /\ c \in Client /\ Steady(World) /\ Wakes(World) /\ World.c = c
      /\ World.config = config /\ World.tasks = tasks
      /\ World.late = late /\ World.swallowed = swallowed
  BY InvFields, WorldFields
<1>3. [World EXCEPT !.c.reconnectTimer = FALSE] = u
  BY DEF World
<1>4. /\ m \in Client /\ ~m.reconnectTimer
      /\ m.state = c.state /\ m.ws = c.ws /\ m.mine = c.mine
      /\ m.manuallyClosed = c.manuallyClosed /\ m.blocked = c.blocked
      /\ m.pairingPending = c.pairingPending
      /\ m.bootstrapInFlight = c.bootstrapInFlight
      /\ m.connectInFlight = c.connectInFlight /\ m.wsOpenTimer = c.wsOpenTimer
      /\ m.challengeTimer = c.challengeTimer /\ m.pairingTimer = c.pairingTimer
      /\ m.tickTimer = c.tickTimer /\ m.recent = c.recent
  <2>1. c \in Client
    BY <1>2
  <2> HIDE DEF u
  <2> QED BY ONLY <2>1, ReconnectFiredClient
<1> HIDE DEF m
<1>5. /\ u \in Worlds /\ u.c = m /\ u.config = config /\ u.tasks = tasks
      /\ ~u.leaked /\ ~u.full /\ Calm(u, World)
      /\ u.late = late /\ u.swallowed = swallowed
      /\ \A i \in Tasks :
           (Hand(u, i) <=> Hand(World, i)) /\ (Fast(u, i) <=> Fast(World, i))
  BY <1>4, UpdateIs
<1> HIDE DEF u
<1>6. InUse(u) <=> InUse(World)
  BY <1>2, <1>4, <1>5 DEF InUse
<1>7. Steady(u)
  <2>1. FastAlone(u)
    BY <1>2, <1>4, <1>5, <1>6 DEF Steady, FastAlone
  <2>2. Hands(u)
    BY <1>2, <1>4, <1>5 DEF Steady, Hands
  <2>3. Gone(u) /\ Barred(u)
    BY <1>2, <1>4, <1>5, <1>6 DEF Steady, Gone, Barred
  <2>4. Timed(u)
    BY <1>2, <1>4, <1>5, <1>6 DEF Steady, Timed
  <2> QED BY <1>5, <2>1, <2>2, <2>3, <2>4 DEF Steady
<1>8. Become(Connect(u))
  BY <1>3 DEF ReconnectFires
<1>9. ~c.manuallyClosed
  BY <1>1, <1>2 DEF Steady, Gone
<1> DEFINE w == Connect(u)
<1>10. /\ u.c.challengeTimer => ~u.c.pairingTimer
       /\ u.c.bootstrapInFlight => u.config \in Relay
  BY <1>7 DEF Steady, Timed, FastAlone
<1>11. /\ w \in Worlds /\ Calm(w, u) /\ ~w.leaked
       /\ ~MayConnect(u) => w = u
       /\ MayConnect(u) => (~w.full => Good(w))
  BY <1>5, <1>10, ConnectIs
<1>12. ~MayConnect(u) => Good(u)
  <2>1. ~MayConnect(u) =>
          u.c.blocked \/ u.config = None \/ InUse(u) \/ u.c.bootstrapInFlight
    BY DEF MayConnect
  <2>2. InUse(u) => u.c.ws # "none" /\ u.c.mine
    BY <1>7 DEF Steady, Timed, InUse
  <2>3. u.c.bootstrapInFlight => \E i \in Tasks : Fast(u, i)
    BY <1>7 DEF Steady, FastAlone
  <2>4. ~MayConnect(u) => Wakes(u)
    BY <2>1, <2>2, <2>3 DEF Wakes
  <2> QED BY <1>5, <1>7, <2>4 DEF Good
<1>13. Become(w) /\ Calm(w, World)
  BY <1>5, <1>8, <1>11 DEF Calm
<1> HIDE DEF w
<1>14. Inv' /\ Fresh /\ (w.c.manuallyClosed \/ w.c.blocked => Quiet')
  BY <1>11, <1>12, <1>13, BecomeIs
<1>15. c.blocked => w.c.blocked
  BY <1>4, <1>5, <1>11 DEF MayConnect
<1> QED BY <1>9, <1>14, <1>15 DEF Still, Quiet

LEMMA WsOpenFiresStep ==
  ASSUME Inv, WsOpenFires PROVE Inv' /\ Fresh /\ Still
<1> DEFINE m == [c EXCEPT !.wsOpenTimer = FALSE]
           u == [World EXCEPT !.c = m]
<1>1. c.wsOpenTimer /\ ~c.recent
  BY DEF WsOpenFires
<1>2. /\ c \in Client /\ Steady(World) /\ Wakes(World) /\ World.c = c
      /\ World.config = config /\ World.tasks = tasks
      /\ World.late = late /\ World.swallowed = swallowed
  BY InvFields, WorldFields
<1>3. [World EXCEPT !.c.wsOpenTimer = FALSE] = u
  BY DEF World
<1>4. /\ m \in Client /\ ~m.wsOpenTimer
      /\ m.state = c.state /\ m.ws = c.ws /\ m.mine = c.mine
      /\ m.manuallyClosed = c.manuallyClosed /\ m.blocked = c.blocked
      /\ m.pairingPending = c.pairingPending
      /\ m.bootstrapInFlight = c.bootstrapInFlight
      /\ m.connectInFlight = c.connectInFlight /\ m.reconnectTimer = c.reconnectTimer
      /\ m.challengeTimer = c.challengeTimer /\ m.pairingTimer = c.pairingTimer
      /\ m.tickTimer = c.tickTimer /\ m.recent = c.recent
  <2>1. c \in Client
    BY <1>2
  <2> HIDE DEF u
  <2> QED BY ONLY <2>1, WsOpenFiredClient
<1> HIDE DEF m
<1>5. /\ u \in Worlds /\ u.c = m /\ u.config = config /\ u.tasks = tasks
      /\ ~u.leaked /\ ~u.full /\ Calm(u, World)
      /\ u.late = late /\ u.swallowed = swallowed
      /\ \A i \in Tasks :
           (Hand(u, i) <=> Hand(World, i)) /\ (Fast(u, i) <=> Fast(World, i))
  BY <1>4, UpdateIs
<1> HIDE DEF u
<1>6. InUse(u) <=> InUse(World)
  BY <1>2, <1>4, <1>5 DEF InUse
<1>7. CASE ~(c.mine /\ c.ws = "connecting")
  <2>1. FastAlone(u)
    BY <1>2, <1>4, <1>5, <1>6 DEF Steady, FastAlone
  <2>2. Hands(u)
    BY <1>2, <1>4, <1>5 DEF Steady, Hands
  <2>3. Gone(u) /\ Barred(u)
    BY <1>2, <1>4, <1>5, <1>6 DEF Steady, Gone, Barred
  <2>4. c.ws # "connecting"
    BY <1>2, <1>7 DEF Steady, Timed, InUse
  <2>5. Timed(u)
    BY <1>2, <1>4, <1>5, <1>6, <2>4 DEF Steady, Timed
  <2>6. Wakes(u)
    BY <1>2, <1>4, <1>5 DEF Wakes
  <2>7. Good(u)
    BY <1>5, <2>1, <2>2, <2>3, <2>5, <2>6 DEF Good, Steady
  <2>8. Become(u)
    BY <1>3, <1>7, <1>4, <1>5 DEF WsOpenFires
  <2> QED BY <1>4, <1>5, <2>7, <2>8, PlainStep
<1>8. CASE c.mine /\ c.ws = "connecting"
  <2> DEFINE y == CloseWs(u)
  <2>1. Become(Reconnect(y))
    BY <1>3, <1>8 DEF WsOpenFires
  <2>2. y \in Worlds /\ Kept(y, u) /\ ~InUse(y) /\ y.c.recent = u.c.recent
    BY <1>5, CloseWsIs
  <2> HIDE DEF y
  <2>3. InUse(World) /\ config # None
    BY <1>2, <1>8 DEF Steady, Timed, InUse
  <2>4. /\ Calm(y, World) /\ ~y.leaked
        /\ y.config # None /\ ~HandshakeInFlight(y) /\ ~y.c.recent
    BY <1>1, <1>4, <1>5, <2>2, <2>3 DEF Kept, Calm, HandshakeInFlight
  <2>5. Inv' /\ Fresh
    BY <2>1, <2>2, <2>4, ReconnectStep
  <2>6. ~c.manuallyClosed
    BY <1>8, MineIs
  <2> QED BY <2>3, <2>5, <2>6 DEF Still, Quiet, BlockOutlived
<1> QED BY <1>7, <1>8

LEMMA ChallengeFiresStep ==
  ASSUME Inv, ChallengeFires PROVE Inv' /\ Fresh /\ Still
<1> DEFINE m == [c EXCEPT !.challengeTimer = FALSE]
           u == [World EXCEPT !.c = m]
<1>1. c.challengeTimer /\ ~c.recent
  BY DEF ChallengeFires
<1>2. /\ c \in Client /\ Steady(World) /\ Wakes(World) /\ World.c = c
      /\ World.config = config /\ World.tasks = tasks
      /\ World.late = late /\ World.swallowed = swallowed
  BY InvFields, WorldFields
<1>3. [World EXCEPT !.c.challengeTimer = FALSE] = u
  BY DEF World
<1>4. /\ m \in Client /\ ~m.challengeTimer
      /\ m.state = c.state /\ m.ws = c.ws /\ m.mine = c.mine
      /\ m.manuallyClosed = c.manuallyClosed /\ m.blocked = c.blocked
      /\ m.pairingPending = c.pairingPending
      /\ m.bootstrapInFlight = c.bootstrapInFlight
      /\ m.connectInFlight = c.connectInFlight /\ m.reconnectTimer = c.reconnectTimer
      /\ m.wsOpenTimer = c.wsOpenTimer /\ m.pairingTimer = c.pairingTimer
      /\ m.tickTimer = c.tickTimer /\ m.recent = c.recent
  <2>1. c \in Client
    BY <1>2
  <2> HIDE DEF u
  <2> QED BY ONLY <2>1, ChallengedFiredClient
<1> HIDE DEF m
<1>5. /\ u \in Worlds /\ u.c = m /\ u.config = config /\ u.tasks = tasks
      /\ ~u.leaked /\ ~u.full /\ Calm(u, World)
      /\ u.late = late /\ u.swallowed = swallowed
      /\ \A i \in Tasks :
           (Hand(u, i) <=> Hand(World, i)) /\ (Fast(u, i) <=> Fast(World, i))
  BY <1>4, UpdateIs
<1> HIDE DEF u
<1>6. InUse(u) <=> InUse(World)
  BY <1>2, <1>4, <1>5 DEF InUse
<1>7. Steady(u)
  <2>1. FastAlone(u)
    BY <1>2, <1>4, <1>5, <1>6 DEF Steady, FastAlone
  <2>2. Hands(u)
    BY <1>2, <1>4, <1>5 DEF Steady, Hands
  <2>3. Gone(u) /\ Barred(u)
    BY <1>2, <1>4, <1>5, <1>6 DEF Steady, Gone, Barred
  <2>4. Timed(u)
    BY <1>2, <1>4, <1>5, <1>6 DEF Steady, Timed
  <2> QED BY <1>5, <2>1, <2>2, <2>3, <2>4 DEF Steady
<1>8. Wakes(u)
  BY <1>2, <1>4, <1>5 DEF Wakes
<1>9. Good(u)
  BY <1>5, <1>7, <1>8 DEF Good
<1>10. CASE ~(c.mine /\ c.ws # "none")
  <2>1. Become(u)
    BY <1>3, <1>4, <1>5, <1>10 DEF ChallengeFires
  <2> QED BY <1>4, <1>5, <1>9, <2>1, PlainStep
<1>11. CASE c.mine /\ c.ws # "none"
  <2> DEFINE y == CloseWs(u)
  <2>1. Become(Reconnect(y))
    BY <1>3, <1>11 DEF ChallengeFires
  <2>2. y \in Worlds /\ Kept(y, u) /\ Steady(y) /\ Wakes(y)
    BY <1>4, <1>5, <1>7, <1>8, CloseWsIs DEF Steady
  <2> HIDE DEF y
  <2>3. Calm(y, World) /\ ~y.leaked /\ Good(y)
    BY <1>5, <2>2 DEF Kept, Calm, Good
  <2>4. Inv' /\ Fresh
    BY <2>1, <2>2, <2>3, ReconnectStep
  <2>5. ~c.manuallyClosed /\ (c.blocked => InUse(World))
    BY <1>1, <1>2, <1>11, MineIs DEF Steady, Barred
  <2> QED BY <2>4, <2>5 DEF Still, Quiet, BlockOutlived
<1> QED BY <1>10, <1>11

LEMMA NoLongerPending ==
  ASSUME NEW b \in Worlds, Good(b), NEW x, x = [b EXCEPT !.c.pairingPending = FALSE]
  PROVE  /\ Good(x) /\ x.tasks = b.tasks
         /\ x.c.manuallyClosed = b.c.manuallyClosed /\ x.c.blocked = b.c.blocked
         /\ x.c.challengeTimer = b.c.challengeTimer
<1> DEFINE m == [b.c EXCEPT !.pairingPending = FALSE]
<1>1. x = [b EXCEPT !.c = m]
  BY DEF Worlds
<1>2. b.c \in Client
  BY WorldIs
<1>3. /\ m \in Client
      /\ m.state = b.c.state /\ m.ws = b.c.ws /\ m.mine = b.c.mine
      /\ m.manuallyClosed = b.c.manuallyClosed /\ m.blocked = b.c.blocked
      /\ m.bootstrapInFlight = b.c.bootstrapInFlight
      /\ m.connectInFlight = b.c.connectInFlight
      /\ m.reconnectTimer = b.c.reconnectTimer /\ m.wsOpenTimer = b.c.wsOpenTimer
      /\ m.challengeTimer = b.c.challengeTimer /\ m.pairingTimer = b.c.pairingTimer
      /\ m.tickTimer = b.c.tickTimer
  BY ONLY <1>2 DEF Client
<1> HIDE DEF m
<1>4. x \in Worlds /\ x.c = m /\ Kept(x, b)
  BY <1>1, <1>3 DEF Worlds, Kept
<1>5. Quit(x, b)
  BY <1>3, <1>4 DEF Quit, SameClient, Kept
<1> QED BY <1>3, <1>4, <1>5, QuitKeeps DEF Good, Kept

LEMMA PairingFiresStep ==
  ASSUME Inv, PairingFires PROVE Inv' /\ Fresh /\ Still
<1> DEFINE m == [c EXCEPT !.pairingTimer = FALSE]
           u == [World EXCEPT !.c = m]
<1>1. c.pairingTimer
  BY DEF PairingFires
<1>2. /\ c \in Client /\ Steady(World) /\ Wakes(World) /\ World.c = c
      /\ World.config = config /\ World.tasks = tasks
      /\ World.late = late /\ World.swallowed = swallowed
  BY InvFields, WorldFields
<1>3. [World EXCEPT !.c.pairingTimer = FALSE] = u
  BY DEF World
<1>4. /\ m \in Client /\ ~m.pairingTimer
      /\ m.state = c.state /\ m.ws = c.ws /\ m.mine = c.mine
      /\ m.manuallyClosed = c.manuallyClosed /\ m.blocked = c.blocked
      /\ m.pairingPending = c.pairingPending
      /\ m.bootstrapInFlight = c.bootstrapInFlight
      /\ m.connectInFlight = c.connectInFlight /\ m.reconnectTimer = c.reconnectTimer
      /\ m.wsOpenTimer = c.wsOpenTimer /\ m.challengeTimer = c.challengeTimer
      /\ m.tickTimer = c.tickTimer /\ m.recent = c.recent
  <2>1. c \in Client
    BY <1>2
  <2> HIDE DEF u
  <2> QED BY ONLY <2>1, PairingFiredClient
<1> HIDE DEF m
<1>5. /\ u \in Worlds /\ u.c = m /\ u.config = config /\ u.tasks = tasks
      /\ ~u.leaked /\ ~u.full /\ Calm(u, World)
      /\ u.late = late /\ u.swallowed = swallowed
      /\ \A i \in Tasks :
           (Hand(u, i) <=> Hand(World, i)) /\ (Fast(u, i) <=> Fast(World, i))
  BY <1>4, UpdateIs
<1> HIDE DEF u
<1>6. InUse(u) <=> InUse(World)
  BY <1>2, <1>4, <1>5 DEF InUse
<1>7. Steady(u)
  <2>1. FastAlone(u)
    BY <1>2, <1>4, <1>5, <1>6 DEF Steady, FastAlone
  <2>2. Hands(u)
    BY <1>2, <1>4, <1>5 DEF Steady, Hands
  <2>3. Gone(u) /\ Barred(u)
    BY <1>2, <1>4, <1>5, <1>6 DEF Steady, Gone, Barred
  <2>4. Timed(u)
    BY <1>2, <1>4, <1>5, <1>6 DEF Steady, Timed
  <2> QED BY <1>5, <2>1, <2>2, <2>3, <2>4 DEF Steady
<1>8. Wakes(u)
  BY <1>2, <1>4, <1>5 DEF Wakes
<1>9. Good(u)
  BY <1>5, <1>7, <1>8 DEF Good
<1>10. CASE ~c.pairingPending
  <2>1. Become(u)
    BY <1>3, <1>10 DEF PairingFires
  <2> QED BY <1>4, <1>5, <1>9, <2>1, PlainStep
<1>11. CASE c.pairingPending
  <2> DEFINE b == Block(u)
             x == [b EXCEPT !.c.pairingPending = FALSE]
             w == CloseWs(x)
  <2>1. Become(w)
    BY <1>3, <1>11 DEF PairingFires
  <2>2. ~u.c.challengeTimer
    BY <1>1, <1>2, <1>4, <1>5 DEF Steady, Timed
  <2>3. /\ b \in Worlds /\ Kept(b, u) /\ b.c.blocked
        /\ b.c.manuallyClosed = u.c.manuallyClosed
        /\ b.c.challengeTimer = u.c.challengeTimer
        /\ Wakes(b) /\ Steady(b)
    BY <1>5, <1>7, <2>2, BlockIs
  <2> HIDE DEF b
  <2>4. Good(b)
    BY <2>3 DEF Good
  <2>5. /\ Good(x) /\ x.tasks = b.tasks
        /\ x.c.manuallyClosed = b.c.manuallyClosed /\ x.c.blocked = b.c.blocked
        /\ x.c.challengeTimer = b.c.challengeTimer
    BY <2>3, <2>4, NoLongerPending
  <2> HIDE DEF x
  <2>6. x \in Worlds /\ Steady(x) /\ Timed(x) /\ Wakes(x) /\ ~x.c.challengeTimer
    BY <2>2, <2>3, <2>5 DEF Good, Steady
  <2>7. /\ w \in Worlds /\ Kept(w, x) /\ Steady(w) /\ Wakes(w)
        /\ w.c.manuallyClosed = x.c.manuallyClosed /\ w.c.blocked = x.c.blocked
    BY <2>6, CloseWsIs
  <2> HIDE DEF w
  <2>8. Good(w) /\ Calm(w, World)
    BY <1>5, <2>3, <2>5, <2>7 DEF Good, Kept, Calm
  <2> QED BY <1>4, <1>5, <2>1, <2>3, <2>5, <2>7, <2>8, PlainStep
<1> QED BY <1>10, <1>11

LEMMA TickFiresStep ==
  ASSUME Inv, TickFires PROVE Inv' /\ Fresh /\ Still
<1> DEFINE m == [c EXCEPT !.tickTimer = FALSE]
           u == [World EXCEPT !.c = m]
<1>1. c.tickTimer /\ ~c.recent
  BY DEF TickFires
<1>2. /\ c \in Client /\ Steady(World) /\ Wakes(World) /\ World.c = c
      /\ World.config = config /\ World.tasks = tasks
      /\ World.late = late /\ World.swallowed = swallowed
  BY InvFields, WorldFields
<1>3. [World EXCEPT !.c.tickTimer = FALSE] = u
  BY DEF World
<1>4. /\ m \in Client /\ ~m.tickTimer
      /\ m.state = c.state /\ m.ws = c.ws /\ m.mine = c.mine
      /\ m.manuallyClosed = c.manuallyClosed /\ m.blocked = c.blocked
      /\ m.pairingPending = c.pairingPending
      /\ m.bootstrapInFlight = c.bootstrapInFlight
      /\ m.connectInFlight = c.connectInFlight /\ m.reconnectTimer = c.reconnectTimer
      /\ m.wsOpenTimer = c.wsOpenTimer /\ m.challengeTimer = c.challengeTimer
      /\ m.pairingTimer = c.pairingTimer /\ m.recent = c.recent
  <2>1. c \in Client
    BY <1>2
  <2> HIDE DEF u
  <2> QED BY ONLY <2>1, TickFiredClient
<1> HIDE DEF m
<1>5. /\ u \in Worlds /\ u.c = m /\ u.config = config /\ u.tasks = tasks
      /\ ~u.leaked /\ ~u.full /\ Calm(u, World)
      /\ u.late = late /\ u.swallowed = swallowed
      /\ \A i \in Tasks :
           (Hand(u, i) <=> Hand(World, i)) /\ (Fast(u, i) <=> Fast(World, i))
  BY <1>4, UpdateIs
<1> HIDE DEF u
<1>6. InUse(u) <=> InUse(World)
  BY <1>2, <1>4, <1>5 DEF InUse
<1>7. ASSUME c.state # "ready" \/ ~InUse(u) PROVE Good(u)
  <2>1. FastAlone(u)
    BY <1>2, <1>4, <1>5, <1>6 DEF Steady, FastAlone
  <2>2. Hands(u)
    BY <1>2, <1>4, <1>5 DEF Steady, Hands
  <2>3. Gone(u) /\ Barred(u)
    BY <1>2, <1>4, <1>5, <1>6 DEF Steady, Gone, Barred
  <2>4. Timed(u)
    <3>1. ~(u.c.ws = "open" /\ u.c.state = "ready")
      BY <1>4, <1>5, <1>7 DEF InUse
    <3> QED BY <1>2, <1>4, <1>5, <1>6, <3>1 DEF Steady, Timed
  <2>5. Wakes(u)
    BY <1>2, <1>4, <1>5 DEF Wakes
  <2> QED BY <1>5, <2>1, <2>2, <2>3, <2>4, <2>5 DEF Good, Steady
<1>8. CASE c.state # "ready"
  <2>1. Become(u)
    BY <1>3, <1>8 DEF TickFires
  <2> QED BY <1>4, <1>5, <1>7, <1>8, <2>1, PlainStep
<1>9. CASE c.state = "ready"
  <2>1. Become(Reconnect(u))
    BY <1>3, <1>9 DEF TickFires
  <2>2. Good(u) \/ (u.config # None /\ ~HandshakeInFlight(u) /\ ~u.c.recent)
    <3>1. ~HandshakeInFlight(u) /\ ~u.c.recent
      BY <1>1, <1>4, <1>5, <1>9 DEF HandshakeInFlight
    <3>2. u.config = None => ~InUse(u)
      BY <1>2, <1>5, <1>6 DEF Steady, Timed
    <3> QED BY <1>7, <3>1, <3>2
  <2>3. Inv' /\ Fresh
    BY <1>5, <2>1, <2>2, ReconnectStep
  <2>4. c.manuallyClosed => late
    BY <1>1, <1>2 DEF Steady, Gone
  <2> QED BY <1>1, <2>3, <2>4 DEF Still, Quiet, BlockOutlived
<1> QED BY <1>8, <1>9

LEMMA BootstrapOverClient ==
  ASSUME NEW k \in Client, NEW m, m = [k EXCEPT !.bootstrapInFlight = FALSE]
  PROVE  /\ m \in Client /\ ~m.bootstrapInFlight
         /\ m.state = k.state /\ m.ws = k.ws /\ m.mine = k.mine
         /\ m.manuallyClosed = k.manuallyClosed /\ m.blocked = k.blocked
         /\ m.pairingPending = k.pairingPending /\ m.connectInFlight = k.connectInFlight
         /\ m.reconnectTimer = k.reconnectTimer /\ m.wsOpenTimer = k.wsOpenTimer
         /\ m.challengeTimer = k.challengeTimer /\ m.pairingTimer = k.pairingTimer
         /\ m.tickTimer = k.tickTimer /\ m.recent = k.recent
BY DEF Client

LEMMA BootstrapFiresStep ==
  ASSUME Inv, BootstrapFires PROVE Inv' /\ Fresh /\ Still
<1> DEFINE m == [c EXCEPT !.bootstrapTimer = FALSE]
           u == [World EXCEPT !.c = m]
<1>1. ~c.recent /\ m.recent = c.recent
  BY InvFields DEF BootstrapFires, Client
<1>2. /\ Steady(World) /\ World.c = c /\ World.config = config /\ World.tasks = tasks
  BY InvFields, WorldFields
<1>3. [World EXCEPT !.c.bootstrapTimer = FALSE] = u
  BY DEF World
<1> HIDE DEF u
<1>4. /\ u.c = m /\ Good(u) /\ Calm(u, World) /\ ~u.full /\ ~u.leaked
      /\ u \in Worlds /\ Kept(u, World) /\ SameClient(u, World)
  BY OtherIs DEF u
<1> HIDE DEF m
<1>5. CASE c.manuallyClosed \/ ~c.bootstrapInFlight
  <2>1. u.c.manuallyClosed = c.manuallyClosed /\ u.c.bootstrapInFlight = c.bootstrapInFlight
        /\ u.c.blocked = c.blocked
    BY <1>2, <1>4 DEF SameClient
  <2>2. Become(u)
    BY <1>3, <1>5, <2>1 DEF BootstrapFires
  <2> QED BY <1>4, <2>1, <2>2, PlainStep
<1>6. CASE ~c.manuallyClosed /\ c.bootstrapInFlight
  <2> DEFINE k == [u.c EXCEPT !.bootstrapInFlight = FALSE]
             x == [u EXCEPT !.c = k]
  <2>1. u.c.manuallyClosed = c.manuallyClosed /\ u.c.bootstrapInFlight = c.bootstrapInFlight
        /\ u.c.ws = c.ws /\ u.c.recent = c.recent
    BY <1>1, <1>2, <1>4 DEF SameClient
  <2>2. [u EXCEPT !.c.bootstrapInFlight = FALSE] = x
    BY <1>4 DEF Worlds
  <2>3. Become(Reconnect(x))
    <3> HIDE DEF x
    <3> QED BY <1>3, <1>6, <2>1, <2>2 DEF BootstrapFires
  <2>4. u.c \in Client
    BY <1>4, WorldIs
  <2>5. k \in Client /\ k.ws = u.c.ws /\ k.recent = u.c.recent
    <3> HIDE DEF x
    <3> QED BY ONLY <2>4, BootstrapOverClient
  <2> HIDE DEF k
  <2>6. x \in Worlds /\ x.c = k /\ Kept(x, u)
    BY <1>4, <2>5 DEF Worlds, Kept
  <2> HIDE DEF x
  <2>7. PICK i \in Tasks : Fast(World, i)
    BY <1>2, <1>6 DEF Steady, FastAlone
  <2>8. ~InUse(World) /\ config # None
    BY <1>2, <2>7 DEF Steady, FastAlone
  <2>9. /\ x.config # None /\ ~HandshakeInFlight(x) /\ ~x.c.recent
        /\ Calm(x, World) /\ ~x.leaked
    BY <1>1, <1>2, <1>4, <2>1, <2>5, <2>6, <2>8
       DEF Kept, HandshakeInFlight, InUse, Calm
  <2>10. Inv' /\ Fresh
    BY <2>3, <2>6, <2>9, ReconnectStep
  <2>11. ~c.blocked
    BY <1>2, <1>6 DEF Steady, Barred
  <2> QED BY <1>6, <2>10, <2>11 DEF Still, Quiet
<1> QED BY <1>5, <1>6

LEMMA RequestTimesOutStep ==
  ASSUME Inv, RequestTimesOut PROVE Inv' /\ Fresh /\ Still
<1> DEFINE m == [c EXCEPT !.request = FALSE]
           u == [World EXCEPT !.c = m]
<1>1. World.c = c
  BY WorldFields
<1>2. [World EXCEPT !.c.request = FALSE] = u
  BY DEF World
<1> HIDE DEF u
<1>3. /\ Good(u) /\ Calm(u, World) /\ ~u.leaked /\ u \in Worlds /\ SameClient(u, World)
  BY OtherIs DEF u
<1>4. /\ u.c.manuallyClosed = c.manuallyClosed /\ u.c.blocked = c.blocked
      /\ IsOpen(u) <=> IsOpen(World)
  BY <1>1, <1>3 DEF SameClient, IsOpen
<1>5. CASE Become(u)
  BY <1>3, <1>4, <1>5, PlainStep
<1>6. CASE Become(Recover(u))
  <2>1. Inv' /\ Fresh /\ (u.c.manuallyClosed \/ u.c.blocked => Quiet')
    BY <1>3, <1>6, RecoverStep
  <2> QED BY <1>4, <2>1 DEF Still, Quiet
<1>7. CASE Become(Reconnect(u)) /\ ~c.manuallyClosed /\ IsOpen(u)
  <2>1. Inv' /\ Fresh
    BY <1>3, <1>7, ReconnectStep
  <2>2. InUse(World)
    BY <1>4, <1>7 DEF IsOpen, InUse
  <2> QED BY <1>7, <2>1, <2>2 DEF Still, Quiet, BlockOutlived
<1>8. \/ Become(u) \/ Become(Recover(u))
      \/ Become(Reconnect(u)) /\ ~c.manuallyClosed /\ IsOpen(u)
  BY <1>2 DEF RequestTimesOut
<1> QED BY <1>5, <1>6, <1>7, <1>8

LEMMA ProbeFailsStep ==
  ASSUME Inv, ProbeFails PROVE Inv' /\ Fresh /\ Still
<1> DEFINE m == [c EXCEPT !.probe = FALSE]
           u == [World EXCEPT !.c = m]
<1>1. Become(Recover(u))
  <2>1. [World EXCEPT !.c.probe = FALSE] = u
    BY DEF World
  <2> HIDE DEF u
  <2> QED BY <2>1 DEF ProbeFails
<1> HIDE DEF u
<1>2. Good(u) /\ Calm(u, World) /\ SameClient(u, World)
  BY OtherIs DEF u
<1>3. Inv' /\ Fresh /\ (u.c.manuallyClosed \/ u.c.blocked => Quiet')
  BY <1>1, <1>2, RecoverStep
<1> QED BY <1>2, <1>3, WorldFields DEF Still, Quiet, SameClient

LEMMA TimePassesStep ==
  ASSUME Inv, TimePasses PROVE Inv' /\ Fresh /\ Still
<1>1. ASSUME NEW m, m \in {[c EXCEPT !.recent = FALSE], [c EXCEPT !.young = FALSE]},
             Become([World EXCEPT !.c = m])
      PROVE  Inv' /\ Fresh /\ Still
  <2> DEFINE w == [World EXCEPT !.c = m]
  <2>1. Good(w) /\ Calm(w, World) /\ SameClient(w, World)
    <3> HIDE DEF w
    <3> QED BY <1>1, OtherIs DEF w
  <2>2. Become(w)
    BY <1>1
  <2> HIDE DEF w
  <2> QED BY <2>1, <2>2, PlainStep, WorldFields DEF SameClient
<1>2. /\ [World EXCEPT !.c.recent = FALSE] = [World EXCEPT !.c = [c EXCEPT !.recent = FALSE]]
      /\ [World EXCEPT !.c.young = FALSE] = [World EXCEPT !.c = [c EXCEPT !.young = FALSE]]
  BY DEF World
<1> QED BY <1>1, <1>2 DEF TimePasses

-----------------------------------------------------------------------------
(* The invariant and what follows from it *)

LEMMA AppCallsStep ==
  ASSUME Inv, AppCalls PROVE Inv' /\ Fresh
BY SwitchToStep, DisconnectStep, ForgetStep, CallConnectStep, CallReconnectStep,
   RequestStep, ProbeStep DEF AppCalls

LEMMA UnaskedStep ==
  ASSUME Inv, Unasked PROVE Inv' /\ Fresh /\ Still
<1>1. CASE SocketEvents
  BY <1>1, OpenedStep, ClosedStep, ChallengeStep, PairApprovedStep, AnsweredStep
     DEF SocketEvents
<1>2. CASE TaskSteps
  BY <1>2, ContinuesStep, RepliesStep DEF TaskSteps
<1>3. CASE TimerSteps
  BY <1>3, ReconnectFiresStep, WsOpenFiresStep, ChallengeFiresStep, PairingFiresStep,
     TickFiresStep, BootstrapFiresStep, RequestTimesOutStep, ProbeFailsStep DEF TimerSteps
<1>4. CASE TimePasses
  BY <1>4, TimePassesStep
<1> QED BY <1>1, <1>2, <1>3, <1>4 DEF Unasked

LEMMA InitInv ==
  ASSUME Init PROVE Inv
<1>1. /\ c \in Client
      /\ c.state = "idle" /\ c.ws = "none" /\ c.mine = FALSE
      /\ c.manuallyClosed = FALSE /\ c.blocked = FALSE
      /\ c.connectInFlight = FALSE /\ c.bootstrapInFlight = FALSE
      /\ c.challengeTimer = FALSE
  BY DEF Init, Client
<1>2. /\ config = None /\ tokens \in SUBSET Relay
      /\ tasks = [i \in Tasks |-> NoTask]
      /\ leaked = FALSE /\ swallowed = FALSE /\ late = FALSE
  BY DEF Init
<1>3. tasks \in [Tasks -> Task] /\ tokens \in SUBSET Configs
  BY <1>2, NoTaskIs, ConfigsAssumption
<1>4. World \in Worlds
  BY <1>1, <1>2, <1>3 DEF World, Worlds
<1>5. \A i \in Tasks : ~Hand(World, i) /\ ~Fast(World, i)
  BY <1>2, NoTaskIs, WorldFields DEF Hand, Fast
<1>6. FastAlone(World) /\ Hands(World) /\ Gone(World) /\ Barred(World)
  BY <1>1, <1>5, WorldFields DEF FastAlone, Hands, Gone, Barred
<1>7. Timed(World) /\ Wakes(World)
  BY <1>1, <1>5, WorldFields DEF Timed, Wakes, InUse
<1> QED BY <1>2, <1>4, <1>6, <1>7, WorldFields DEF Inv, Good, Steady

LEMMA NextStep ==
  ASSUME Inv, [Next]_vars PROVE Inv' /\ Fresh /\ (Unasked => Still)
<1>1. CASE AppCalls
  BY <1>1, AppCallsStep, UnaskedStep
<1>2. CASE Unasked
  BY <1>2, UnaskedStep
<1>3. CASE UNCHANGED vars
  <2>1. Inv'
    BY <1>3 DEF vars, Inv, World
  <2>2. Fresh
    BY <1>3 DEF vars, Fresh
  <2>3. Still
    BY <1>3 DEF vars, Still, Quiet
  <2> QED BY <2>1, <2>2, <2>3
<1> QED BY <1>1, <1>2, <1>3 DEF Next, Unasked

\* The inductive invariant holds in every state.
THEOREM Invariant == Spec => []Inv
<1>1. Init => Inv
  BY InitInv
<1>2. Inv /\ [Next]_vars => Inv'
  BY NextStep
<1> QED BY <1>1, <1>2, PTL DEF Spec

\* Every variable has a value of its type, and after a disconnect, also one that
\* comes between two awaits of a connect, no socket is left (disconnect, closeSocket).
THEOREM TypeCorrect == Spec => []TypeOK
<1>1. Inv => TypeOK
  <2> SUFFICES ASSUME Inv PROVE TypeOK
    OBVIOUS
  <2>1. c.manuallyClosed => c.ws = "none"
    BY InvFields, WorldFields DEF Steady, Gone
  <2> QED BY <2>1, InvFields DEF TypeOK, Task
<1> QED BY <1>1, Invariant, PTL

\* A socket in use is never replaced by another that then runs next to it: an
\* attempt opens a socket only when none is in use, also from a fast path.
THEOREM SocketsKept == Spec => []NoSocketLeaks
<1>1. Inv => NoSocketLeaks
  BY InvFields DEF NoSocketLeaks
<1> QED BY <1>1, Invariant, PTL

\* A client that is meant to be connected is never left with nothing to come, the
\* gaps named in Gaps apart (the timers of gateway.ts, scheduleReconnect).
THEOREM AlwaysPursued == Spec => []Pursued
<1>1. ASSUME Inv PROVE Pursued
  <2>1. /\ Steady(World) /\ Wakes(World) /\ World.c = c /\ World.config = config
        /\ World.tasks = tasks /\ World.late = late /\ World.swallowed = swallowed
        /\ c.ws \in {"none", "connecting", "open", "closing"}
    <3>1. c \in Client
      BY <1>1, InvFields
    <3>2. c.ws \in {"none", "connecting", "open", "closing"}
      BY ONLY <3>1 DEF Client
    <3> QED BY <1>1, <3>2, InvFields, WorldFields
  <2>2. \A i \in Tasks : Hand(World, i) \/ Fast(World, i) =>
          tasks[i].stage # "none" /\ tasks[i].mine
    BY <2>1, NoTaskIs DEF Hand, Fast, Steady, FastAlone
  <2>3. CASE c.ws = "connecting"
    BY <2>1, <2>3 DEF Steady, Timed, Pursued, TimerRuns
  <2>4. CASE c.ws = "open"
    <3>1. c.mine /\ c.state \in {"challenging", "ready", "pairing_pending", "reconnecting"}
      BY <2>1, <2>4 DEF Steady, Timed, InUse
    <3>2. CASE c.state = "ready"
      BY <2>1, <2>4, <3>2 DEF Steady, Timed, Pursued, TimerRuns
    <3>3. CASE c.state = "reconnecting"
      BY <2>1, <2>4, <3>3 DEF Pursued, Gaps, RecoverySkipped, IsOpen
    <3>4. CASE c.state \in {"challenging", "pairing_pending"} /\ c.connectInFlight
      <4>1. \E i \in Tasks : Hand(World, i)
        BY <2>1, <3>1, <3>4 DEF Steady, Timed
      <4> QED BY <2>2, <4>1 DEF Pursued
    <3>5. CASE c.state \in {"challenging", "pairing_pending"} /\ ~c.connectInFlight
      BY <2>1, <2>4, <3>5 DEF Pursued, Gaps, HandshakeGivenUp, IsOpen
    <3> QED BY <3>1, <3>2, <3>3, <3>4, <3>5
  <2>5. CASE c.ws = "closing" /\ c.mine
    BY <2>5 DEF Pursued
  <2>6. CASE c.ws = "none" \/ ~c.mine
    <3>1. Wanted => c.reconnectTimer \/ swallowed \/ late \/ \E i \in Tasks : Fast(World, i)
      BY <2>1, <2>6 DEF Wakes, Wanted
    <3> QED BY <2>2, <3>1 DEF Pursued, TimerRuns, Gaps
  <2> QED BY <2>1, <2>3, <2>4, <2>5, <2>6
<1>2. Inv => Pursued
  BY <1>1
<1> QED BY <1>2, Invariant, PTL

\* A connect request is only sent by the current attempt, on its own open socket,
\* however long the awaits of the handshake before it were.
THEOREM ConnectsFresh == Spec => NoStaleConnect
<1>1. Inv /\ [Next]_vars => [Fresh]_vars
  BY NextStep
<1>2. Spec => [][Fresh]_vars
  BY <1>1, Invariant, PTL DEF Spec
<1>3. [Fresh]_vars => [\A i \in Tasks :
        tasks'[i].stage = "response" /\ tasks[i].stage # "response" =>
          tasks'[i].mine /\ c.mine /\ c.ws = "open"]_vars
  BY DEF Fresh
<1> QED BY <1>2, <1>3, PTL DEF NoStaleConnect

\* What is quiet stays quiet until the app asks or the user approves, the exceptions
\* named in QuietUntilAsked apart.
THEOREM StaysQuiet == Spec => QuietUntilAsked
<1>1. Inv /\ [Next]_vars => [Unasked => Still]_vars
  BY NextStep
<1>2. Spec => [][Unasked => Still]_vars
  BY <1>1, Invariant, PTL DEF Spec
<1>3. [Unasked => Still]_vars => [Quiet /\ Unasked =>
        Quiet' \/ PairApproved \/ Welcomed \/ LateStep \/ late \/ BlockOutlived]_vars
  BY DEF Still
<1> QED BY <1>2, <1>3, PTL DEF QuietUntilAsked
=============================================================================
