------------------------------ MODULE ChatRuns ------------------------------
(* How the chat screen follows the runs of an agent:                         *)
(* apps/mobile/src/screens/ChatScreen/hooks, the files useGatewayChatEvents, *)
(* useChatController, sessionRunState, pendingOptimisticRun and              *)
(* currentSessionActivity.                                                   *)
(*                                                                           *)
(* The screen shows one session at a time: the run it follows, the text that *)
(* streams in, and whether it is busy.  What it knows of the other sessions  *)
(* it keeps in a map.  A message that is sent is followed under its own key  *)
(* until the gateway names the run; the gateway may name it after its first  *)
(* event.  Handlers run to completion, so the interleaving is at the awaits: *)
(* the probe before a send, the send, and the two reads of the history that  *)
(* decide whether a remembered run is still going.                           *)
(*                                                                           *)
(* Left out: message lists, tool rows, activity labels, stream segments and  *)
(* the badge that counts busy agents, the text that streams in, and the      *)
(* hidden runs whose events are ignored.  Time is not counted: a limit may   *)
(* expire whenever it is set.                                                *)
EXTENDS Naturals, FiniteSets

CONSTANTS Sessions,     \* session keys
          Ids,          \* keys of messages sent and names of runs
          MaxChecks,    \* bound: reads of the history under way
          MaxSends,     \* bound: messages being sent, probe included
          None

ASSUME NoneIsNew == None \notin Sessions \cup Ids

VARIABLES
  session,      \* sessionKeyRef
  ready,        \* lastConnStateRef is 'ready'
  screen,       \* currentRunIdRef and isSending
  remembered,   \* sessionRunStateRef
  pending,      \* pendingOptimisticRunIdsRef
  preflight,    \* the session a message is about to be sent to, or None
  sends,        \* sendChat calls that have not returned
  restores,     \* applyRememberedRunStateToCurrentSession, waiting
  recoveries,   \* revalidateRecoveredRun, waiting
  runs,         \* the gateway: where an id belongs, and how far its run is
  strays        \* ghost: ids a late step put where they do not belong

vars == <<session, ready, screen, remembered, pending, preflight, sends,
          restores, recoveries, runs, strays>>

app == <<session, ready, screen, remembered, pending, strays>>
tasks == <<preflight, sends, restores, recoveries>>

Clean == [run |-> None, busy |-> FALSE]
Following(r) == [run |-> r, busy |-> TRUE]
Unused == [home |-> None, state |-> "unused"]

(* Every variable holds what the code could put there.                       *)
TypeOK ==
  /\ session \in Sessions
  /\ ready \in BOOLEAN
  /\ screen \in [run : Ids \cup {None}, busy : BOOLEAN]
  /\ remembered \in [Sessions -> Ids \cup {None}]
  /\ pending \in [Sessions -> Ids \cup {None}]
  /\ preflight \in Sessions \cup {None}
  /\ sends \subseteq [key : Ids, home : Sessions, claims : BOOLEAN,
                      run : Ids \cup {None}]
  /\ restores \subseteq [key : Sessions, run : Ids]
  /\ recoveries \subseteq [key : Sessions, run : Ids]
  /\ runs \in [Ids -> [home : Sessions \cup {None},
                       state : {"unused", "sent", "running", "ended"}]]
  /\ strays \subseteq Ids

Init ==
  /\ session \in Sessions
  /\ ready = TRUE
  /\ screen = Clean
  /\ remembered = [s \in Sessions |-> None]
  /\ pending = [s \in Sessions |-> None]
  /\ preflight = None
  /\ sends = {}
  /\ restores = {}
  /\ recoveries = {}
  /\ runs = [i \in Ids |-> Unused]
  /\ strays = {}

-----------------------------------------------------------------------------
(* The map of remembered runs.                                               *)

(* A run is heard of.                                                        *)
Heard(s, r) == [remembered EXCEPT ![s] = r]

Forgotten(s) == [remembered EXCEPT ![s] = None]

(* A mutant of Cleared: whatever run is remembered is forgotten.             *)
ClearedAny(s, r) == Forgotten(s)

(* clearSessionRunState: only the run that is named is forgotten.            *)
Cleared(s, r) ==
  IF remembered[s] = r THEN [remembered EXCEPT ![s] = None] ELSE remembered

(* Another run's name is taken over while the screen follows a message whose *)
(* run has no name yet.                                                      *)
Adopts(s, r) == pending[s] # None /\ screen.run = pending[s] /\ pending[s] # r

(* adoptPendingOptimisticRunId, asked when the screen follows another id.    *)
Named(s, r) ==
  IF Adopts(s, r) \/ pending[s] = r
  THEN [pending EXCEPT ![s] = None] ELSE pending

(* What the screen shows of a session: restoreRunStateForSession.            *)
Restored(r) == IF r = None THEN Clean ELSE Following(r)

(* Before another session opens: persistCurrentRunState.                     *)
Persisted == [remembered EXCEPT ![session] = screen.run]

Checks == Cardinality(restores) + Cardinality(recoveries)

Fresh == {i \in Ids : runs[i].state = "unused"}

(* An id that is shown away from its session.                                *)
Astray(r) == IF runs[r].home = session THEN strays ELSE strays \cup {r}

-----------------------------------------------------------------------------
(* Events of a run.                                                          *)

Running(r) == runs[r].state = "running"

(* A mutant of Shown: the session of the event is not looked at.             *)
ShownAnywhere(r) == screen.run \in {None, r} \/ Adopts(session, r)

(* An event of a run is for the screen when it follows that run or none.     *)
Shown(r) ==
  /\ runs[r].home = session
  /\ screen.run \in {None, r} \/ Adopts(session, r)

(* A run starts, streams text, or a tool of it makes progress.  Until the    *)
(* connection is ready the events are a replay and nothing is done.          *)
Signal(r) ==
  LET s == runs[r].home
      other == s = session /\ screen.run \notin {None, r}
  IN /\ Running(r)
     /\ ready
     /\ remembered' = Heard(s, r)
     /\ pending' = IF other THEN Named(s, r) ELSE pending
     /\ screen' = IF Shown(r)
                  THEN [run |-> r, busy |-> screen.busy \/ screen.run = None]
                  ELSE screen
     /\ UNCHANGED <<session, ready, strays, tasks, runs>>

(* The last event of a run, whatever the state of the connection.  A final   *)
(* settles a waiting key even when no run is followed.                       *)
Last(r, final) ==
  LET s == runs[r].home
      mine == s = session /\ (screen.run = r \/ Adopts(s, r))
      other == s = session /\ screen.run # r /\ (final \/ screen.run # None)
  IN /\ Running(r)
     /\ runs' = [runs EXCEPT ![r].state = "ended"]
     /\ remembered' = IF mine THEN Forgotten(s) ELSE Cleared(s, r)
     /\ pending' = IF mine THEN [pending EXCEPT ![s] = None]
                   ELSE IF other THEN Named(s, r) ELSE pending
     /\ screen' = IF mine THEN Clean ELSE screen
     /\ UNCHANGED <<session, ready, strays, tasks>>

Final(r) == Last(r, TRUE)
Failed(r) == Last(r, FALSE)

(* Events of the shown session were missed; the map still holds the run.     *)
SeqGap ==
  /\ ready
  /\ screen' = Clean
  /\ UNCHANGED <<session, ready, remembered, pending, strays, tasks, runs>>

(* The gateway starts a run nobody asked for here, and a run ends unheard.   *)
Elsewhere(r, s) ==
  /\ r \in Fresh
  /\ runs' = [runs EXCEPT ![r] = [home |-> s, state |-> "running"]]
  /\ UNCHANGED <<app, tasks>>

EndsUnheard(r) ==
  /\ ~ready
  /\ Running(r)
  /\ runs' = [runs EXCEPT ![r].state = "ended"]
  /\ UNCHANGED <<app, tasks>>

-----------------------------------------------------------------------------
(* The connection.                                                           *)

ConnectionLost ==
  /\ ready
  /\ ready' = FALSE
  /\ remembered' = IF screen.run = None THEN remembered ELSE Persisted
  /\ screen' = Clean
  /\ UNCHANGED <<session, pending, strays, tasks, runs>>

(* What was remembered is checked against the history first.                 *)
ConnectionReady ==
  LET kept == remembered[session]
  IN /\ ~ready
     /\ ready' = TRUE
     /\ IF kept = None
        THEN screen' = Clean /\ UNCHANGED restores
        ELSE /\ Checks < MaxChecks
             /\ restores' = restores \cup {[key |-> session, run |-> kept]}
             /\ UNCHANGED screen
     /\ UNCHANGED <<session, remembered, pending, preflight, sends, recoveries,
                    runs, strays>>

(* The history has been read, or could not be.  Nothing asks whether the     *)
(* session of the check is still the one shown.                              *)
RestoreDone(t) ==
  /\ t \in restores
  /\ restores' = restores \ {t}
  /\ \/ /\ remembered' = Cleared(t.key, t.run)
        /\ screen' = Clean
        /\ UNCHANGED strays
     \/ /\ screen' = Following(t.run)
        /\ strays' = Astray(t.run)
        /\ UNCHANGED remembered
  /\ UNCHANGED <<session, ready, pending, preflight, sends, recoveries, runs>>

-----------------------------------------------------------------------------
(* Sessions.                                                                 *)

(* openSession: what the screen shows is put aside, then restored.           *)
OpenSession(s) ==
  /\ remembered' = IF s = session THEN remembered ELSE Persisted
  /\ session' = s
  /\ screen' = Restored(remembered'[s])
  /\ UNCHANGED <<ready, pending, strays, tasks, runs>>

(* The list of sessions says which to show; nothing is put aside.            *)
SelectSession(s) ==
  /\ ready
  /\ s # session
  /\ session' = s
  /\ screen' = Restored(remembered[s])
  /\ UNCHANGED <<ready, remembered, pending, strays, tasks, runs>>

(* Another gateway is chosen.  Its sessions may have the same keys, so ids   *)
(* of the old one belong to none of them.                                    *)
SwitchGateway ==
  /\ remembered' = [s \in Sessions |-> None]
  /\ pending' = [s \in Sessions |-> None]
  /\ screen' = Clean
  /\ recoveries' = {}
  /\ runs' = [i \in Ids |->
                IF i \in Fresh THEN runs[i] ELSE [home |-> None, state |-> "ended"]]
  /\ UNCHANGED <<session, ready, preflight, sends, restores, strays>>

-----------------------------------------------------------------------------
(* Sending.                                                                  *)

(* The button, or a picker that sends a command: the transport is probed.    *)
PressSend ==
  /\ ready
  /\ preflight = None
  /\ Cardinality(sends) < MaxSends
  /\ preflight' = session
  /\ UNCHANGED <<app, sends, restores, recoveries, runs>>

ProbeFails ==
  /\ preflight # None
  /\ preflight' = None
  /\ UNCHANGED <<app, sends, restores, recoveries, runs>>

(* submitMessage, with the session of the moment the button was pressed.     *)
Submit(k) ==
  LET s == preflight
      claims == screen.run = None
  IN /\ preflight # None
     /\ ready
     /\ k \in Fresh
     /\ preflight' = None
     /\ screen' = IF claims THEN Following(k)
                  ELSE [screen EXCEPT !.busy = TRUE]
     /\ remembered' = IF claims
                      THEN Heard(s, k) ELSE remembered
     /\ pending' = IF claims THEN [pending EXCEPT ![s] = k] ELSE pending
     /\ sends' = sends \cup {[key |-> k, home |-> s, claims |-> claims, run |-> None]}
     /\ runs' = [runs EXCEPT ![k] = [home |-> s, state |-> "sent"]]
     /\ strays' = IF s # session /\ claims THEN strays \cup {k} ELSE strays
     /\ UNCHANGED <<session, ready, restores, recoveries>>

(* The gateway takes the message and names its run: the key, or a new name.  *)
Accept(x, r) ==
  /\ x \in sends
  /\ x.run = None
  /\ runs[x.key].state = "sent"
  /\ r \in Fresh \cup {x.key}
  /\ sends' = (sends \ {x}) \cup {[x EXCEPT !.run = r]}
  /\ runs' = [runs EXCEPT ![x.key].state = "ended",
                          ![r] = [home |-> x.home, state |-> "running"]]
  /\ UNCHANGED <<app, preflight, restores, recoveries>>

(* A mutant of Unpended: the key of a renamed message keeps waiting.         *)
UnpendedUnlessNamed(x) ==
  IF pending[x.home] = x.key /\ x.run \in {None, x.key}
  THEN [pending EXCEPT ![x.home] = None] ELSE pending

Unpended(x) ==
  IF pending[x.home] = x.key THEN [pending EXCEPT ![x.home] = None] ELSE pending

Sent(x) ==
  LET renamed == x.claims /\ x.run # x.key /\ screen.run = x.key
  IN /\ x \in sends
     /\ x.run # None
     /\ ready
     /\ sends' = sends \ {x}
     /\ pending' = Unpended(x)
     /\ screen' = IF renamed THEN [screen EXCEPT !.run = x.run] ELSE screen
     /\ remembered' = IF renamed /\ remembered[x.home] = x.key
                      THEN Heard(x.home, x.run) ELSE remembered
     /\ strays' = IF renamed THEN Astray(x.run) ELSE strays
     /\ UNCHANGED <<session, ready, preflight, restores, recoveries, runs>>

(* The call fails; the gateway may have taken the message all the same.      *)
SendFails(x) ==
  LET mine == x.claims /\ screen.run = x.key
  IN /\ x \in sends
     /\ sends' = sends \ {x}
     /\ pending' = Unpended(x)
     /\ screen' = IF mine THEN Clean ELSE screen
     /\ remembered' = IF mine THEN Forgotten(x.home) ELSE remembered
     /\ UNCHANGED <<session, ready, strays, preflight, restores, recoveries, runs>>

-----------------------------------------------------------------------------
(* A run that has gone quiet.                                                *)

(* A mutant of Clear: the screen stays busy.                                 *)
ClearBusy(s, r) ==
  /\ pending' = [pending EXCEPT ![s] = None]
  /\ remembered' = IF r = None THEN Forgotten(s) ELSE Cleared(s, r)
  /\ screen' = [screen EXCEPT !.run = None]

(* clearActiveRunState.                                                      *)
Clear(s, r) ==
  /\ pending' = [pending EXCEPT ![s] = None]
  /\ remembered' = IF r = None THEN Forgotten(s) ELSE Cleared(s, r)
  /\ screen' = Clean

(* Nothing has been heard for 18 s; the interval runs while busy.            *)
Watchdog ==
  /\ screen.busy
  /\ screen.run # None
  /\ Clear(session, screen.run)
  /\ UNCHANGED <<session, ready, strays, tasks, runs>>

(* 22 s without a sign of the run: its session is forgotten as a whole.      *)
PendingTimeout ==
  /\ screen.run # None
  /\ Clear(session, None)
  /\ UNCHANGED <<session, ready, strays, tasks, runs>>

(* 5 s after the user stopped the run; the pending key stays.                *)
AbortFallback ==
  /\ screen.run # None
  /\ remembered' = Forgotten(session)
  /\ screen' = Clean
  /\ UNCHANGED <<session, ready, pending, strays, tasks, runs>>

(* The history is asked whether the remembered run has ended.                *)
Recover ==
  /\ remembered[session] # None
  /\ ~\E t \in recoveries : t.key = session
  /\ Checks < MaxChecks
  /\ recoveries' = recoveries \cup
       {[key |-> session, run |-> remembered[session]]}
  /\ UNCHANGED <<app, preflight, sends, restores, runs>>

(* No answer to the run is found, or the user has moved on.                  *)
RecoveryDropped(t) ==
  /\ t \in recoveries
  /\ recoveries' = recoveries \ {t}
  /\ UNCHANGED <<app, preflight, sends, restores, runs>>

(* An answer is found and the message list is brought up to date; each of    *)
(* the two awaits is followed by a look at the session, the last one counts. *)
RecoveryDone(t) ==
  /\ t \in recoveries
  /\ session = t.key
  /\ recoveries' = recoveries \ {t}
  /\ Clear(t.key, t.run)
  /\ UNCHANGED <<session, ready, strays, preflight, sends, restores, runs>>

(* syncDerivedSessionActivity, after every change of the message list.  The  *)
(* list may show a tool at work (its rows carry no time, so one that nobody  *)
(* follows counts as stale), or text be left of a run.                       *)
Sync ==
  LET kept == remembered[session]
      Show(b) == screen' = [screen EXCEPT !.busy = b]
                 /\ UNCHANGED <<remembered, pending>>
  IN /\ IF kept # None
        THEN IF screen.run = None
             THEN screen' = Following(kept) /\ UNCHANGED <<remembered, pending>>
             ELSE Show(TRUE)
        ELSE \/ Clear(session, None)
             \/ Show(screen.run # None)
     /\ UNCHANGED <<session, ready, strays, tasks, runs>>

(* The list shows an answer to a remembered run that is not being followed.  *)
ObservedCompleted ==
  /\ remembered[session] # None
  /\ screen.run = None
  /\ Clear(session, remembered[session])
  /\ UNCHANGED <<session, ready, strays, tasks, runs>>

-----------------------------------------------------------------------------
Next ==
  \/ \E r \in Ids :
       \/ Signal(r) \/ Final(r) \/ Failed(r)
       \/ EndsUnheard(r) \/ Submit(r)
       \/ \E s \in Sessions : Elsewhere(r, s)
       \/ \E x \in sends : Accept(x, r)
  \/ SeqGap
  \/ ConnectionLost \/ ConnectionReady
  \/ \E t \in restores : RestoreDone(t)
  \/ \E s \in Sessions : OpenSession(s) \/ SelectSession(s)
  \/ SwitchGateway
  \/ PressSend \/ ProbeFails
  \/ \E x \in sends : Sent(x) \/ SendFails(x)
  \/ Watchdog \/ PendingTimeout \/ AbortFallback
  \/ Recover
  \/ \E t \in recoveries :
       RecoveryDropped(t) \/ RecoveryDone(t)
  \/ Sync \/ ObservedCompleted

Spec == Init /\ [][Next]_vars

-----------------------------------------------------------------------------
(* Properties.                                                               *)

At(i, s) == i \in {None} \cup strays \/ runs[i].home = s

(* The screen follows runs of its own session only, and the map keeps the    *)
(* sessions apart, whatever events, switches and timeouts come in between.  Two  *)
(* late steps are excepted: a restore whose check outlived the session, and  *)
(* a message sent after the session it was written in was left.              *)
SessionsApart ==
  /\ At(screen.run, session)
  /\ \A s \in Sessions : At(remembered[s], s)

(* The screen is busy exactly when it follows a run.  The watchdog, the      *)
(* timeout and the stop button all act on the run: a screen that is busy     *)
(* without one would stay so, and could not send.                            *)
BusyFollowsRun == screen.busy <=> screen.run # None

(* A key waits for the name of its run only while its send is unanswered:    *)
(* afterwards the name of another run must not be adopted for it.            *)
PendingUnanswered ==
  \A s \in Sessions :
    pending[s] = None \/ \E x \in sends : x.key = pending[s] /\ x.home = s

(* While another session is shown, a remembered run is forgotten only if it  *)
(* is over: it ended, an answer to it was found, a message to its session    *)
(* was not sent, or its gateway was left.                                    *)
KeptStep ==
  \A s \in Sessions :
    LET r == remembered[s] IN
    (session # s /\ session' # s /\ r # None /\ remembered'[s] = None)
      => \/ runs'[r].state = "ended"
         \/ \E x \in sends \ sends' : x.home = s
         \/ \E t \in restores \ restores' : t.key = s /\ t.run = r
KeptWhileAway == [][KeptStep]_vars

(* What a test of the controller says of a switch: no run of the session     *)
(* that was left is shown in the next.                                       *)
SwitchDoesNotLeak == screen.run # None => runs[screen.run].home = session
=============================================================================
