---------------------------- MODULE ChatRunsProofs ----------------------------
(* Proofs about ChatRuns, for every set of sessions and ids and every bound: *)
(* the types, that sessions are kept apart, that the screen is busy exactly  *)
(* while it follows a run, that no key waits after its send was answered,    *)
(* and that a run is not forgotten while its session is away.                *)
EXTENDS ChatRuns, TLAPS

(* Where the ids of a send belong.  A gateway that was left takes the homes   *)
(* of its ids with it.                                                       *)
SendsPlaced ==
  \A x \in sends :
    /\ runs[x.key].home \in {x.home, None}
    /\ x.run # None => runs[x.run].home \in {x.home, None}
    /\ runs[x.key].state # "unused"
    /\ x.run # None => runs[x.run].state # "unused"

(* What the app has heard of was used: when the gateway is left it ends.     *)
HeardUsed ==
  /\ screen.run # None => runs[screen.run].state # "unused"
  /\ \A s \in Sessions :
       remembered[s] # None => runs[remembered[s]].state # "unused"
  /\ \A t \in restores : runs[t.run].state # "unused"

-----------------------------------------------------------------------------
(* What the screen shows when it follows nothing. *)
LEMMA CleanTyped == Clean \in [run : Ids \cup {None}, busy : BOOLEAN]
  BY DEF Clean

(* The last event of a run keeps the types. *)
LEMMA LastTyped ==
  ASSUME TypeOK, NEW r \in Ids, NEW final \in BOOLEAN, Last(r, final)
  PROVE  TypeOK'
PROOF
  <1>1. screen' \in {Clean, screen}
    BY DEF Last
  <1>2. remembered' \in [Sessions -> Ids \cup {None}]
    <2>1. /\ Forgotten(runs[r].home) \in [Sessions -> Ids \cup {None}]
          /\ Cleared(runs[r].home, r) \in {remembered, Forgotten(runs[r].home)}
      BY DEF Forgotten, Cleared, TypeOK
    <2>2. QED
      BY <2>1 DEF Last, TypeOK
  <1>3. pending' \in [Sessions -> Ids \cup {None}]
    <2>1. /\ [pending EXCEPT ![runs[r].home] = None] \in [Sessions -> Ids \cup {None}]
          /\ Named(runs[r].home, r) \in
               {pending, [pending EXCEPT ![runs[r].home] = None]}
      BY DEF Named, TypeOK
    <2>2. QED
      BY <2>1 DEF Last, TypeOK
  <1>4. runs' \in [Ids -> [home : Sessions \cup {None},
                         state : {"unused", "sent", "running", "ended"}]]
    BY DEF Last, TypeOK
  <1>5. QED
    BY <1>1, <1>2, <1>3, <1>4, CleanTyped DEF Last, tasks, TypeOK

(* Every handler keeps the types. *)
LEMMA TypeStep ==
  ASSUME TypeOK, [Next]_vars
  PROVE  TypeOK'
PROOF
  <1>1. CASE UNCHANGED vars
    BY <1>1 DEF vars, TypeOK
  <1>2. ASSUME NEW r \in Ids, Signal(r)
        PROVE  TypeOK'
    BY <1>2, NoneIsNew
       DEF Signal, Running, Heard, Shown, Adopts, Named, tasks, TypeOK
  <1>3. ASSUME NEW r \in Ids, Final(r)
        PROVE  TypeOK'
    BY <1>3, LastTyped DEF Final
  <1>4. ASSUME NEW r \in Ids, Failed(r)
        PROVE  TypeOK'
    BY <1>4, LastTyped DEF Failed
  <1>5. ASSUME NEW r \in Ids, EndsUnheard(r)
        PROVE  TypeOK'
    BY <1>5, NoneIsNew DEF EndsUnheard, Running, app, tasks, TypeOK
  <1>6. ASSUME NEW r \in Ids, Submit(r)
        PROVE  TypeOK'
    <2>1. screen' \in [run : Ids \cup {None}, busy : BOOLEAN]
      BY <1>6, NoneIsNew DEF Submit, Following, TypeOK
    <2>2. runs' \in [Ids -> [home : Sessions \cup {None},
                            state : {"unused", "sent", "running", "ended"}]]
      BY <1>6, NoneIsNew DEF Submit, Fresh, TypeOK
    <2>3. sends' \subseteq [key : Ids, home : Sessions, claims : BOOLEAN,
                           run : Ids \cup {None}]
      <3>1. (screen.run = None) \in BOOLEAN
        OBVIOUS
      <3>2. preflight \in Sessions
        BY <1>6 DEF Submit, TypeOK
      <3>3. [key |-> r, home |-> preflight, claims |-> (screen.run = None),
             run |-> None] \in [key : Ids, home : Sessions, claims : BOOLEAN,
                                run : Ids \cup {None}]
        BY <3>1, <3>2
      <3>4. QED
        BY <1>6, <3>3 DEF Submit, TypeOK
    <2>4. /\ remembered' \in [Sessions -> Ids \cup {None}]
          /\ pending' \in [Sessions -> Ids \cup {None}]
          /\ preflight' \in Sessions \cup {None}
          /\ strays' \subseteq Ids
      BY <1>6 DEF Submit, Heard, TypeOK
    <2>5. QED
      BY <1>6, <2>1, <2>2, <2>3, <2>4 DEF Submit, TypeOK
  <1>7. ASSUME NEW r \in Ids, NEW s \in Sessions, Elsewhere(r, s)
        PROVE  TypeOK'
    BY <1>7, NoneIsNew DEF Elsewhere, Fresh, app, tasks, TypeOK
  <1>8. ASSUME NEW r \in Ids, NEW x \in sends, Accept(x, r)
        PROVE  TypeOK'
    <2> DEFINE y == [x EXCEPT !.run = r]
               f == [runs EXCEPT ![x.key].state = "ended"]
               running == [home |-> x.home, state |-> "running"]
    <2>1. x \in [key : Ids, home : Sessions, claims : BOOLEAN, run : Ids \cup {None}]
      BY DEF TypeOK
    <2>2. y \in [key : Ids, home : Sessions, claims : BOOLEAN, run : Ids \cup {None}]
      BY <2>1
    <2>3. f \in [Ids -> [home : Sessions \cup {None},
                        state : {"unused", "sent", "running", "ended"}]]
      BY <2>1 DEF TypeOK
    <2>4. running \in [home : Sessions \cup {None},
                       state : {"unused", "sent", "running", "ended"}]
      BY <2>1
    <2>5. sends' = (sends \ {x}) \cup {y} /\ runs' = [f EXCEPT ![r] = running]
      BY <1>8, <2>1 DEF Accept, TypeOK
    <2> HIDE DEF y, f, running
    <2>6. runs' \in [Ids -> [home : Sessions \cup {None},
                           state : {"unused", "sent", "running", "ended"}]]
      BY <2>3, <2>4, <2>5
    <2>7. sends' \subseteq [key : Ids, home : Sessions, claims : BOOLEAN,
                           run : Ids \cup {None}]
      BY <2>2, <2>5 DEF TypeOK
    <2>8. UNCHANGED <<session, ready, screen, remembered, pending, strays,
                      preflight, restores, recoveries>>
      BY <1>8 DEF Accept, app
    <2>9. QED
      BY <2>6, <2>7, <2>8 DEF TypeOK
  <1>9. CASE SeqGap
    BY <1>9, NoneIsNew DEF SeqGap, Clean, tasks, TypeOK
  <1>10. CASE ConnectionLost
    BY <1>10, NoneIsNew DEF ConnectionLost, Persisted, Clean, tasks, TypeOK
  <1>11. CASE ConnectionReady
    <2>1. screen' \in [run : Ids \cup {None}, busy : BOOLEAN]
      <3>1. screen' \in {Clean, screen}
        BY <1>11 DEF ConnectionReady
      <3>2. QED
        BY <3>1, CleanTyped DEF TypeOK
    <2>2. restores' \subseteq [key : Sessions, run : Ids]
      <3>1. CASE remembered[session] = None
        BY <1>11, <3>1 DEF ConnectionReady, TypeOK
      <3>2. CASE remembered[session] # None
        <4>1. [key |-> session, run |-> remembered[session]]
                \in [key : Sessions, run : Ids]
          BY <3>2 DEF TypeOK
        <4>2. QED
          BY <1>11, <3>2, <4>1 DEF ConnectionReady, TypeOK
      <3>3. QED
        BY <3>1, <3>2
    <2>3. QED
      BY <1>11, <2>1, <2>2 DEF ConnectionReady, TypeOK
  <1>12. ASSUME NEW t \in restores, RestoreDone(t)
        PROVE  TypeOK'
    <2>1. t \in [key : Sessions, run : Ids]
      BY DEF TypeOK
    <2>2. screen' \in [run : Ids \cup {None}, busy : BOOLEAN]
      <3>1. screen' \in {Clean, Following(t.run)}
        BY <1>12 DEF RestoreDone
      <3>2. Following(t.run) \in [run : Ids \cup {None}, busy : BOOLEAN]
        BY <2>1 DEF Following
      <3>3. QED
        BY <3>1, <3>2, CleanTyped
    <2>3. remembered' \in [Sessions -> Ids \cup {None}]
      BY <1>12, <2>1 DEF RestoreDone, Cleared, TypeOK
    <2>4. strays' \subseteq Ids /\ restores' \subseteq restores
      BY <1>12, <2>1 DEF RestoreDone, Astray, TypeOK
    <2>5. QED
      BY <1>12, <2>2, <2>3, <2>4 DEF RestoreDone, TypeOK
  <1>13. ASSUME NEW s \in Sessions, OpenSession(s)
        PROVE  TypeOK'
    BY <1>13, NoneIsNew
       DEF OpenSession, Persisted, Restored, Clean, Following, tasks, TypeOK
  <1>14. ASSUME NEW s \in Sessions, SelectSession(s)
        PROVE  TypeOK'
    BY <1>14, NoneIsNew
       DEF SelectSession, Restored, Clean, Following, tasks, TypeOK
  <1>15. CASE SwitchGateway
    BY <1>15, NoneIsNew DEF SwitchGateway, Clean, Fresh, TypeOK
  <1>16. CASE PressSend
    BY <1>16, NoneIsNew DEF PressSend, app, TypeOK
  <1>17. CASE ProbeFails
    BY <1>17, NoneIsNew DEF ProbeFails, app, TypeOK
  <1>18. ASSUME NEW x \in sends, Sent(x)
        PROVE  TypeOK'
    BY <1>18, NoneIsNew DEF Sent, Unpended, Heard, Astray, TypeOK
  <1>19. ASSUME NEW x \in sends, SendFails(x)
        PROVE  TypeOK'
    BY <1>19, NoneIsNew DEF SendFails, Unpended, Forgotten, Clean, TypeOK
  <1>20. CASE Watchdog
    BY <1>20, NoneIsNew
       DEF Watchdog, Clear, Forgotten, Cleared, Clean, tasks, TypeOK
  <1>21. CASE PendingTimeout
    BY <1>21, NoneIsNew
       DEF PendingTimeout, Clear, Forgotten, Clean, tasks, TypeOK
  <1>22. CASE AbortFallback
    BY <1>22, NoneIsNew DEF AbortFallback, Forgotten, Clean, tasks, TypeOK
  <1>23. CASE Recover
    BY <1>23, NoneIsNew DEF Recover, app, TypeOK
  <1>24. ASSUME NEW t \in recoveries, RecoveryDropped(t)
        PROVE  TypeOK'
    BY <1>24, NoneIsNew DEF RecoveryDropped, app, TypeOK
  <1>25. ASSUME NEW t \in recoveries, RecoveryDone(t)
        PROVE  TypeOK'
    BY <1>25, NoneIsNew
       DEF RecoveryDone, Clear, Cleared, Forgotten, Clean, TypeOK
  <1>26. CASE Sync
    <2>1. screen' \in [run : Ids \cup {None}, busy : BOOLEAN]
      <3>1. (screen.run # None) \in BOOLEAN
        OBVIOUS
      <3>2. screen' \in {Following(remembered[session]), Clean,
                         [screen EXCEPT !.busy = TRUE],
                         [screen EXCEPT !.busy = (screen.run # None)]}
        BY <1>26 DEF Sync, Clear
      <3>3. /\ remembered[session] \in Ids \cup {None}
            /\ screen.run \in Ids \cup {None}
        BY DEF TypeOK
      <3>4. /\ Following(remembered[session])
                 \in [run : Ids \cup {None}, busy : BOOLEAN]
            /\ Clean \in [run : Ids \cup {None}, busy : BOOLEAN]
        BY <3>3 DEF Following, Clean
      <3>5. /\ [screen EXCEPT !.busy = TRUE]
                 \in [run : Ids \cup {None}, busy : BOOLEAN]
            /\ [screen EXCEPT !.busy = (screen.run # None)]
                 \in [run : Ids \cup {None}, busy : BOOLEAN]
        BY <3>1 DEF TypeOK
      <3>6. QED
        BY <3>2, <3>4, <3>5
    <2>2. /\ remembered' \in [Sessions -> Ids \cup {None}]
          /\ pending' \in [Sessions -> Ids \cup {None}]
      BY <1>26 DEF Sync, Clear, Forgotten, TypeOK
    <2>3. QED
      BY <1>26, <2>1, <2>2 DEF Sync, tasks, TypeOK
  <1>27. CASE ObservedCompleted
    BY <1>27, NoneIsNew
       DEF ObservedCompleted, Clear, Cleared, Forgotten, Clean, tasks,
           TypeOK
  <1>28. QED
    BY <1>1, <1>2, <1>3, <1>4, <1>5, <1>6, <1>7, <1>8, <1>9, <1>10, <1>11,
       <1>12, <1>13, <1>14, <1>15, <1>16, <1>17, <1>18, <1>19, <1>20, <1>21,
       <1>22, <1>23, <1>24, <1>25, <1>26, <1>27 DEF Next

(* Every handler that changes the run changes the busy state with it. *)
LEMMA BusyStep ==
  ASSUME TypeOK, BusyFollowsRun, [Next]_vars
  PROVE  BusyFollowsRun'
PROOF
  <1>1. CASE UNCHANGED vars
    BY <1>1 DEF vars, TypeOK, BusyFollowsRun
  <1>2. ASSUME NEW r \in Ids, Signal(r)
        PROVE  BusyFollowsRun'
    BY <1>2, NoneIsNew
       DEF Signal, Running, Heard, Shown, Adopts, Named, tasks, TypeOK,
           BusyFollowsRun
  <1>3. ASSUME NEW r \in Ids, Final(r)
        PROVE  BusyFollowsRun'
    BY <1>3, NoneIsNew
       DEF Final, Last, Running, Adopts, Named, Cleared, Forgotten, Clean,
           tasks, TypeOK, BusyFollowsRun
  <1>4. ASSUME NEW r \in Ids, Failed(r)
        PROVE  BusyFollowsRun'
    BY <1>4, NoneIsNew
       DEF Failed, Last, Running, Adopts, Named, Cleared, Forgotten, Clean,
           tasks, TypeOK, BusyFollowsRun
  <1>5. ASSUME NEW r \in Ids, EndsUnheard(r)
        PROVE  BusyFollowsRun'
    BY <1>5, NoneIsNew
       DEF EndsUnheard, Running, app, tasks, TypeOK, BusyFollowsRun
  <1>6. ASSUME NEW r \in Ids, Submit(r)
        PROVE  BusyFollowsRun'
    BY <1>6, NoneIsNew
       DEF Submit, Fresh, Following, Heard, TypeOK, BusyFollowsRun
  <1>7. ASSUME NEW r \in Ids, NEW s \in Sessions, Elsewhere(r, s)
        PROVE  BusyFollowsRun'
    BY <1>7, NoneIsNew DEF Elsewhere, Fresh, app, tasks, TypeOK, BusyFollowsRun
  <1>8. ASSUME NEW r \in Ids, NEW x \in sends, Accept(x, r)
        PROVE  BusyFollowsRun'
    BY <1>8, NoneIsNew DEF Accept, Fresh, app, TypeOK, BusyFollowsRun
  <1>9. CASE SeqGap
    BY <1>9, NoneIsNew DEF SeqGap, Clean, tasks, TypeOK, BusyFollowsRun
  <1>10. CASE ConnectionLost
    BY <1>10, NoneIsNew
       DEF ConnectionLost, Persisted, Clean, tasks, TypeOK, BusyFollowsRun
  <1>11. CASE ConnectionReady
    BY <1>11, NoneIsNew DEF ConnectionReady, Clean, TypeOK, BusyFollowsRun
  <1>12. ASSUME NEW t \in restores, RestoreDone(t)
        PROVE  BusyFollowsRun'
    BY <1>12, NoneIsNew
       DEF RestoreDone, Cleared, Clean, Following, Astray, TypeOK,
           BusyFollowsRun
  <1>13. ASSUME NEW s \in Sessions, OpenSession(s)
        PROVE  BusyFollowsRun'
    BY <1>13, NoneIsNew
       DEF OpenSession, Persisted, Restored, Clean, Following, tasks,
           TypeOK, BusyFollowsRun
  <1>14. ASSUME NEW s \in Sessions, SelectSession(s)
        PROVE  BusyFollowsRun'
    BY <1>14, NoneIsNew
       DEF SelectSession, Restored, Clean, Following, tasks, TypeOK,
           BusyFollowsRun
  <1>15. CASE SwitchGateway
    BY <1>15, NoneIsNew DEF SwitchGateway, Clean, Fresh, TypeOK, BusyFollowsRun
  <1>16. CASE PressSend
    BY <1>16, NoneIsNew DEF PressSend, app, TypeOK, BusyFollowsRun
  <1>17. CASE ProbeFails
    BY <1>17, NoneIsNew DEF ProbeFails, app, TypeOK, BusyFollowsRun
  <1>18. ASSUME NEW x \in sends, Sent(x)
        PROVE  BusyFollowsRun'
    BY <1>18, NoneIsNew
       DEF Sent, Unpended, Heard, Astray, TypeOK, BusyFollowsRun
  <1>19. ASSUME NEW x \in sends, SendFails(x)
        PROVE  BusyFollowsRun'
    BY <1>19, NoneIsNew
       DEF SendFails, Unpended, Forgotten, Clean, TypeOK, BusyFollowsRun
  <1>20. CASE Watchdog
    BY <1>20, NoneIsNew
       DEF Watchdog, Clear, Forgotten, Cleared, Clean, tasks, TypeOK,
           BusyFollowsRun
  <1>21. CASE PendingTimeout
    BY <1>21, NoneIsNew
       DEF PendingTimeout, Clear, Forgotten, Clean, tasks, TypeOK,
           BusyFollowsRun
  <1>22. CASE AbortFallback
    BY <1>22, NoneIsNew
       DEF AbortFallback, Forgotten, Clean, tasks, TypeOK, BusyFollowsRun
  <1>23. CASE Recover
    BY <1>23, NoneIsNew DEF Recover, app, TypeOK, BusyFollowsRun
  <1>24. ASSUME NEW t \in recoveries, RecoveryDropped(t)
        PROVE  BusyFollowsRun'
    BY <1>24, NoneIsNew DEF RecoveryDropped, app, TypeOK, BusyFollowsRun
  <1>25. ASSUME NEW t \in recoveries, RecoveryDone(t)
        PROVE  BusyFollowsRun'
    BY <1>25, NoneIsNew
       DEF RecoveryDone, Clear, Cleared, Forgotten, Clean, TypeOK,
           BusyFollowsRun
  <1>26. CASE Sync
    BY <1>26, NoneIsNew
       DEF Sync, Clear, Forgotten, Clean, Following, tasks, TypeOK,
           BusyFollowsRun
  <1>27. CASE ObservedCompleted
    BY <1>27, NoneIsNew
       DEF ObservedCompleted, Clear, Cleared, Forgotten, Clean, tasks,
           TypeOK, BusyFollowsRun
  <1>28. QED
    BY <1>1, <1>2, <1>3, <1>4, <1>5, <1>6, <1>7, <1>8, <1>9, <1>10, <1>11,
       <1>12, <1>13, <1>14, <1>15, <1>16, <1>17, <1>18, <1>19, <1>20, <1>21,
       <1>22, <1>23, <1>24, <1>25, <1>26, <1>27 DEF Next

(* A key that waits is put there with its send and taken away with it. *)
LEMMA PendingStep ==
  ASSUME TypeOK, PendingUnanswered, [Next]_vars
  PROVE  PendingUnanswered'
PROOF
  <1>1. CASE UNCHANGED vars
    BY <1>1 DEF vars, TypeOK, PendingUnanswered
  <1>2. ASSUME NEW r \in Ids, Signal(r)
        PROVE  PendingUnanswered'
    BY <1>2, NoneIsNew
       DEF Signal, Running, Heard, Shown, Adopts, Named, tasks, TypeOK,
           PendingUnanswered
  <1>3. ASSUME NEW r \in Ids, Final(r)
        PROVE  PendingUnanswered'
    BY <1>3, NoneIsNew
       DEF Final, Last, Running, Adopts, Named, Cleared, Forgotten, Clean,
           tasks, TypeOK, PendingUnanswered
  <1>4. ASSUME NEW r \in Ids, Failed(r)
        PROVE  PendingUnanswered'
    BY <1>4, NoneIsNew
       DEF Failed, Last, Running, Adopts, Named, Cleared, Forgotten, Clean,
           tasks, TypeOK, PendingUnanswered
  <1>5. ASSUME NEW r \in Ids, EndsUnheard(r)
        PROVE  PendingUnanswered'
    BY <1>5, NoneIsNew
       DEF EndsUnheard, Running, app, tasks, TypeOK, PendingUnanswered
  <1>6. ASSUME NEW r \in Ids, Submit(r)
        PROVE  PendingUnanswered'
    <2>1. \A s \in Sessions : pending'[s] \in {pending[s], r, None}
      BY <1>6 DEF Submit, TypeOK
    <2> SUFFICES ASSUME NEW s \in Sessions, pending'[s] # None
                 PROVE  \E x \in sends' : x.key = pending'[s] /\ x.home = s
      BY DEF PendingUnanswered
    <2>2. CASE pending'[s] = pending[s]
      BY <1>6, <2>2 DEF Submit, PendingUnanswered
    <2>3. CASE pending'[s] # pending[s]
      <3> DEFINE x == [key |-> r, home |-> preflight,
                       claims |-> (screen.run = None), run |-> None]
      <3>1. s = preflight /\ pending'[s] = r
        BY <1>6, <2>3 DEF Submit, TypeOK
      <3>2. x \in sends'
        BY <1>6 DEF Submit
      <3>3. x.key = pending'[s] /\ x.home = s
        BY <3>1
      <3>4. QED
        BY <3>2, <3>3
    <2>4. QED
      BY <2>2, <2>3
  <1>7. ASSUME NEW r \in Ids, NEW s \in Sessions, Elsewhere(r, s)
        PROVE  PendingUnanswered'
    BY <1>7, NoneIsNew
       DEF Elsewhere, Fresh, app, tasks, TypeOK, PendingUnanswered
  <1>8. ASSUME NEW r \in Ids, NEW x \in sends, Accept(x, r)
        PROVE  PendingUnanswered'
    <2> DEFINE y == [x EXCEPT !.run = r]
    <2>1. y.key = x.key /\ y.home = x.home
      BY DEF TypeOK
    <2>2. sends' = (sends \ {x}) \cup {y} /\ pending' = pending
      BY <1>8 DEF Accept, app
    <2> HIDE DEF y
    <2>3. ASSUME NEW s \in Sessions, pending[s] # None
          PROVE  \E z \in sends' : z.key = pending[s] /\ z.home = s
      <3>1. PICK z \in sends : z.key = pending[s] /\ z.home = s
        BY <2>3 DEF PendingUnanswered
      <3>2. CASE z = x
        BY <3>1, <3>2, <2>1, <2>2
      <3>3. CASE z # x
        BY <3>1, <3>3, <2>2
      <3>4. QED
        BY <3>2, <3>3
    <2>4. QED
      BY <2>2, <2>3 DEF PendingUnanswered
  <1>9. CASE SeqGap
    BY <1>9, NoneIsNew DEF SeqGap, Clean, tasks, TypeOK, PendingUnanswered
  <1>10. CASE ConnectionLost
    BY <1>10, NoneIsNew
       DEF ConnectionLost, Persisted, Clean, tasks, TypeOK,
           PendingUnanswered
  <1>11. CASE ConnectionReady
    BY <1>11, NoneIsNew DEF ConnectionReady, Clean, TypeOK, PendingUnanswered
  <1>12. ASSUME NEW t \in restores, RestoreDone(t)
        PROVE  PendingUnanswered'
    BY <1>12, NoneIsNew
       DEF RestoreDone, Cleared, Clean, Following, Astray, TypeOK,
           PendingUnanswered
  <1>13. ASSUME NEW s \in Sessions, OpenSession(s)
        PROVE  PendingUnanswered'
    BY <1>13, NoneIsNew
       DEF OpenSession, Persisted, Restored, Clean, Following, tasks,
           TypeOK, PendingUnanswered
  <1>14. ASSUME NEW s \in Sessions, SelectSession(s)
        PROVE  PendingUnanswered'
    BY <1>14, NoneIsNew
       DEF SelectSession, Restored, Clean, Following, tasks, TypeOK,
           PendingUnanswered
  <1>15. CASE SwitchGateway
    BY <1>15, NoneIsNew
       DEF SwitchGateway, Clean, Fresh, TypeOK, PendingUnanswered
  <1>16. CASE PressSend
    BY <1>16, NoneIsNew DEF PressSend, app, TypeOK, PendingUnanswered
  <1>17. CASE ProbeFails
    BY <1>17, NoneIsNew DEF ProbeFails, app, TypeOK, PendingUnanswered
  <1>18. ASSUME NEW x \in sends, Sent(x)
        PROVE  PendingUnanswered'
    BY <1>18, NoneIsNew
       DEF Sent, Unpended, Heard, Astray, TypeOK, PendingUnanswered
  <1>19. ASSUME NEW x \in sends, SendFails(x)
        PROVE  PendingUnanswered'
    BY <1>19, NoneIsNew
       DEF SendFails, Unpended, Forgotten, Clean, TypeOK, PendingUnanswered
  <1>20. CASE Watchdog
    BY <1>20, NoneIsNew
       DEF Watchdog, Clear, Forgotten, Cleared, Clean, tasks, TypeOK,
           PendingUnanswered
  <1>21. CASE PendingTimeout
    BY <1>21, NoneIsNew
       DEF PendingTimeout, Clear, Forgotten, Clean, tasks, TypeOK,
           PendingUnanswered
  <1>22. CASE AbortFallback
    BY <1>22, NoneIsNew
       DEF AbortFallback, Forgotten, Clean, tasks, TypeOK, PendingUnanswered
  <1>23. CASE Recover
    BY <1>23, NoneIsNew DEF Recover, app, TypeOK, PendingUnanswered
  <1>24. ASSUME NEW t \in recoveries, RecoveryDropped(t)
        PROVE  PendingUnanswered'
    BY <1>24, NoneIsNew DEF RecoveryDropped, app, TypeOK, PendingUnanswered
  <1>25. ASSUME NEW t \in recoveries, RecoveryDone(t)
        PROVE  PendingUnanswered'
    BY <1>25, NoneIsNew
       DEF RecoveryDone, Clear, Cleared, Forgotten, Clean, TypeOK,
           PendingUnanswered
  <1>26. CASE Sync
    BY <1>26, NoneIsNew
       DEF Sync, Clear, Forgotten, Clean, Following, tasks, TypeOK,
           PendingUnanswered
  <1>27. CASE ObservedCompleted
    BY <1>27, NoneIsNew
       DEF ObservedCompleted, Clear, Cleared, Forgotten, Clean, tasks,
           TypeOK, PendingUnanswered
  <1>28. QED
    BY <1>1, <1>2, <1>3, <1>4, <1>5, <1>6, <1>7, <1>8, <1>9, <1>10, <1>11,
       <1>12, <1>13, <1>14, <1>15, <1>16, <1>17, <1>18, <1>19, <1>20, <1>21,
       <1>22, <1>23, <1>24, <1>25, <1>26, <1>27 DEF Next

(* The ids of a send stay where they belong. *)
LEMMA PlacedStep ==
  ASSUME TypeOK, SendsPlaced, [Next]_vars
  PROVE  SendsPlaced'
PROOF
  <1>1. CASE UNCHANGED vars
    BY <1>1 DEF vars, TypeOK, SendsPlaced
  <1>2. ASSUME NEW r \in Ids, Signal(r)
        PROVE  SendsPlaced'
    BY <1>2, NoneIsNew
       DEF Signal, Running, Heard, Shown, Adopts, Named, tasks, TypeOK,
           SendsPlaced
  <1>3. ASSUME NEW r \in Ids, Final(r)
        PROVE  SendsPlaced'
    BY <1>3, NoneIsNew
       DEF Final, Last, Running, Adopts, Named, Cleared, Forgotten, Clean,
           tasks, TypeOK, SendsPlaced
  <1>4. ASSUME NEW r \in Ids, Failed(r)
        PROVE  SendsPlaced'
    BY <1>4, NoneIsNew
       DEF Failed, Last, Running, Adopts, Named, Cleared, Forgotten, Clean,
           tasks, TypeOK, SendsPlaced
  <1>5. ASSUME NEW r \in Ids, EndsUnheard(r)
        PROVE  SendsPlaced'
    BY <1>5, NoneIsNew DEF EndsUnheard, Running, app, tasks, TypeOK, SendsPlaced
  <1>6. ASSUME NEW r \in Ids, Submit(r)
        PROVE  SendsPlaced'
    BY <1>6, NoneIsNew DEF Submit, Fresh, Following, Heard, TypeOK, SendsPlaced
  <1>7. ASSUME NEW r \in Ids, NEW s \in Sessions, Elsewhere(r, s)
        PROVE  SendsPlaced'
    BY <1>7, NoneIsNew DEF Elsewhere, Fresh, app, tasks, TypeOK, SendsPlaced
  <1>8. ASSUME NEW r \in Ids, NEW x \in sends, Accept(x, r)
        PROVE  SendsPlaced'
    BY <1>8, NoneIsNew DEF Accept, Fresh, app, TypeOK, SendsPlaced
  <1>9. CASE SeqGap
    BY <1>9, NoneIsNew DEF SeqGap, Clean, tasks, TypeOK, SendsPlaced
  <1>10. CASE ConnectionLost
    BY <1>10, NoneIsNew
       DEF ConnectionLost, Persisted, Clean, tasks, TypeOK, SendsPlaced
  <1>11. CASE ConnectionReady
    BY <1>11, NoneIsNew DEF ConnectionReady, Clean, TypeOK, SendsPlaced
  <1>12. ASSUME NEW t \in restores, RestoreDone(t)
        PROVE  SendsPlaced'
    BY <1>12, NoneIsNew
       DEF RestoreDone, Cleared, Clean, Following, Astray, TypeOK,
           SendsPlaced
  <1>13. ASSUME NEW s \in Sessions, OpenSession(s)
        PROVE  SendsPlaced'
    BY <1>13, NoneIsNew
       DEF OpenSession, Persisted, Restored, Clean, Following, tasks,
           TypeOK, SendsPlaced
  <1>14. ASSUME NEW s \in Sessions, SelectSession(s)
        PROVE  SendsPlaced'
    BY <1>14, NoneIsNew
       DEF SelectSession, Restored, Clean, Following, tasks, TypeOK,
           SendsPlaced
  <1>15. CASE SwitchGateway
    BY <1>15, NoneIsNew DEF SwitchGateway, Clean, Fresh, TypeOK, SendsPlaced
  <1>16. CASE PressSend
    BY <1>16, NoneIsNew DEF PressSend, app, TypeOK, SendsPlaced
  <1>17. CASE ProbeFails
    BY <1>17, NoneIsNew DEF ProbeFails, app, TypeOK, SendsPlaced
  <1>18. ASSUME NEW x \in sends, Sent(x)
        PROVE  SendsPlaced'
    BY <1>18, NoneIsNew DEF Sent, Unpended, Heard, Astray, TypeOK, SendsPlaced
  <1>19. ASSUME NEW x \in sends, SendFails(x)
        PROVE  SendsPlaced'
    BY <1>19, NoneIsNew
       DEF SendFails, Unpended, Forgotten, Clean, TypeOK, SendsPlaced
  <1>20. CASE Watchdog
    BY <1>20, NoneIsNew
       DEF Watchdog, Clear, Forgotten, Cleared, Clean, tasks, TypeOK,
           SendsPlaced
  <1>21. CASE PendingTimeout
    BY <1>21, NoneIsNew
       DEF PendingTimeout, Clear, Forgotten, Clean, tasks, TypeOK,
           SendsPlaced
  <1>22. CASE AbortFallback
    BY <1>22, NoneIsNew
       DEF AbortFallback, Forgotten, Clean, tasks, TypeOK, SendsPlaced
  <1>23. CASE Recover
    BY <1>23, NoneIsNew DEF Recover, app, TypeOK, SendsPlaced
  <1>24. ASSUME NEW t \in recoveries, RecoveryDropped(t)
        PROVE  SendsPlaced'
    BY <1>24, NoneIsNew DEF RecoveryDropped, app, TypeOK, SendsPlaced
  <1>25. ASSUME NEW t \in recoveries, RecoveryDone(t)
        PROVE  SendsPlaced'
    BY <1>25, NoneIsNew
       DEF RecoveryDone, Clear, Cleared, Forgotten, Clean, TypeOK,
           SendsPlaced
  <1>26. CASE Sync
    BY <1>26, NoneIsNew
       DEF Sync, Clear, Forgotten, Clean, Following, tasks, TypeOK,
           SendsPlaced
  <1>27. CASE ObservedCompleted
    BY <1>27, NoneIsNew
       DEF ObservedCompleted, Clear, Cleared, Forgotten, Clean, tasks,
           TypeOK, SendsPlaced
  <1>28. QED
    BY <1>1, <1>2, <1>3, <1>4, <1>5, <1>6, <1>7, <1>8, <1>9, <1>10, <1>11,
       <1>12, <1>13, <1>14, <1>15, <1>16, <1>17, <1>18, <1>19, <1>20, <1>21,
       <1>22, <1>23, <1>24, <1>25, <1>26, <1>27 DEF Next

(* Every handler keeps the sessions apart. *)
LEMMA ApartStep ==
  ASSUME TypeOK, SessionsApart, SendsPlaced, HeardUsed, [Next]_vars
  PROVE  SessionsApart'
PROOF
  <1>1. CASE UNCHANGED vars
    BY <1>1 DEF vars, TypeOK, SessionsApart, At
  <1>2. ASSUME NEW r \in Ids, Signal(r)
        PROVE  SessionsApart'
    BY <1>2, NoneIsNew
       DEF Signal, Running, Heard, Shown, Adopts, Named, tasks, TypeOK,
           SessionsApart, At
  <1>3. ASSUME NEW r \in Ids, Final(r)
        PROVE  SessionsApart'
    BY <1>3, NoneIsNew
       DEF Final, Last, Running, Adopts, Named, Cleared, Forgotten, Clean,
           tasks, TypeOK, SessionsApart, At
  <1>4. ASSUME NEW r \in Ids, Failed(r)
        PROVE  SessionsApart'
    BY <1>4, NoneIsNew
       DEF Failed, Last, Running, Adopts, Named, Cleared, Forgotten, Clean,
           tasks, TypeOK, SessionsApart, At
  <1>5. ASSUME NEW r \in Ids, EndsUnheard(r)
        PROVE  SessionsApart'
    BY <1>5, NoneIsNew
       DEF EndsUnheard, Running, app, tasks, TypeOK, SessionsApart, At
  <1>6. ASSUME NEW r \in Ids, Submit(r)
        PROVE  SessionsApart'
    <2>1. /\ \A i \in Ids : i # r => runs'[i].home = runs[i].home
          /\ runs'[r].home = preflight
      BY <1>6 DEF Submit, TypeOK
    <2>2. strays \subseteq strays' /\ session' = session
      BY <1>6 DEF Submit
    <2>3. screen.run # r /\ \A s \in Sessions : remembered[s] # r
      BY <1>6, NoneIsNew DEF Submit, Fresh, HeardUsed
    <2>4. CASE screen.run = None
      <3>1. screen'.run = r /\ preflight \in Sessions
        BY <1>6, <2>4 DEF Submit, Following, TypeOK
      <3>2. screen'.run \in strays' \/ runs'[screen'.run].home = session'
        BY <1>6, <2>1, <2>4, <3>1 DEF Submit
      <3>3. \A s \in Sessions :
              remembered'[s] = IF s = preflight THEN r ELSE remembered[s]
        BY <1>6, <2>4, <3>1 DEF Submit, Heard, TypeOK
      <3>4. ASSUME NEW s \in Sessions
            PROVE  \/ remembered'[s] \in {None} \cup strays'
                   \/ runs'[remembered'[s]].home = s
        <4>1. CASE s = preflight
          BY <2>1, <3>3, <4>1
        <4>2. CASE s # preflight
          BY <2>1, <2>2, <2>3, <3>3, <4>2 DEF TypeOK, SessionsApart, At
        <4>3. QED
          BY <4>1, <4>2
      <3>5. QED
        BY <3>2, <3>4 DEF SessionsApart, At
    <2>5. CASE screen.run # None
      <3>1. screen'.run = screen.run /\ remembered' = remembered
        BY <1>6, <2>5 DEF Submit, TypeOK
      <3>2. QED
        BY <2>1, <2>2, <2>3, <3>1 DEF TypeOK, SessionsApart, At
    <2>6. QED
      BY <2>4, <2>5
  <1>7. ASSUME NEW r \in Ids, NEW s \in Sessions, Elsewhere(r, s)
        PROVE  SessionsApart'
    <2>1. \A i \in Ids : i # r => runs'[i].home = runs[i].home
      BY <1>7 DEF Elsewhere, TypeOK
    <2>2. screen.run # r /\ \A u \in Sessions : remembered[u] # r
      BY <1>7, NoneIsNew DEF Elsewhere, Fresh, HeardUsed
    <2>3. /\ strays' = strays /\ session' = session
          /\ screen' = screen /\ remembered' = remembered
      BY <1>7 DEF Elsewhere, app
    <2>4. QED
      BY <2>1, <2>2, <2>3 DEF TypeOK, SessionsApart, At
  <1>8. ASSUME NEW r \in Ids, NEW x \in sends, Accept(x, r)
        PROVE  SessionsApart'
    <2>1. \A i \in Ids : i # r => runs'[i].home = runs[i].home
      BY <1>8 DEF Accept, TypeOK
    <2>2. /\ strays' = strays /\ session' = session
          /\ screen' = screen /\ remembered' = remembered
      BY <1>8 DEF Accept, app
    <2>3. runs'[r].home = x.home
      BY <1>8 DEF Accept, TypeOK
    <2>4. CASE r = x.key
      <3>1. runs[r].home \in {x.home, None}
        BY <2>4 DEF SendsPlaced
      <3>2. QED
        BY <2>1, <2>2, <2>3, <3>1, NoneIsNew DEF TypeOK, SessionsApart, At
    <2>5. CASE r \in Fresh
      <3>1. screen.run # r /\ \A u \in Sessions : remembered[u] # r
        BY <2>5, NoneIsNew DEF Fresh, HeardUsed
      <3>2. QED
        BY <2>1, <2>2, <3>1 DEF TypeOK, SessionsApart, At
    <2>6. QED
      BY <1>8, <2>4, <2>5 DEF Accept
  <1>9. CASE SeqGap
    BY <1>9, NoneIsNew DEF SeqGap, Clean, tasks, TypeOK, SessionsApart, At
  <1>10. CASE ConnectionLost
    BY <1>10, NoneIsNew
       DEF ConnectionLost, Persisted, Clean, tasks, TypeOK, SessionsApart,
           At
  <1>11. CASE ConnectionReady
    BY <1>11, NoneIsNew DEF ConnectionReady, Clean, TypeOK, SessionsApart, At
  <1>12. ASSUME NEW t \in restores, RestoreDone(t)
        PROVE  SessionsApart'
    BY <1>12, NoneIsNew
       DEF RestoreDone, Cleared, Clean, Following, Astray, TypeOK,
           SessionsApart, At
  <1>13. ASSUME NEW s \in Sessions, OpenSession(s)
        PROVE  SessionsApart'
    BY <1>13, NoneIsNew
       DEF OpenSession, Persisted, Restored, Clean, Following, tasks,
           TypeOK, SessionsApart, At
  <1>14. ASSUME NEW s \in Sessions, SelectSession(s)
        PROVE  SessionsApart'
    BY <1>14, NoneIsNew
       DEF SelectSession, Restored, Clean, Following, tasks, TypeOK,
           SessionsApart, At
  <1>15. CASE SwitchGateway
    BY <1>15, NoneIsNew
       DEF SwitchGateway, Clean, Fresh, TypeOK, SessionsApart, At
  <1>16. CASE PressSend
    BY <1>16, NoneIsNew DEF PressSend, app, TypeOK, SessionsApart, At
  <1>17. CASE ProbeFails
    BY <1>17, NoneIsNew DEF ProbeFails, app, TypeOK, SessionsApart, At
  <1>18. ASSUME NEW x \in sends, Sent(x)
        PROVE  SessionsApart'
    <2>1. CASE ~(x.claims /\ x.run # x.key /\ screen.run = x.key)
      BY <1>18, <2>1 DEF Sent, SessionsApart, At
    <2>2. CASE x.claims /\ x.run # x.key /\ screen.run = x.key
      <3>1. /\ x.run \in Ids /\ x.home \in Sessions
            /\ runs[x.run].home \in {x.home, None}
        BY <1>18 DEF Sent, TypeOK, SendsPlaced
      <3>2. /\ screen' = [screen EXCEPT !.run = x.run]
            /\ strays' = IF runs[x.run].home = session THEN strays
                          ELSE strays \cup {x.run}
            /\ session' = session /\ runs' = runs
        BY <1>18, <2>2 DEF Sent, Astray
      <3>3. screen'.run = x.run
        BY <3>2 DEF TypeOK
      <3>4. \/ remembered' = remembered
            \/ remembered' = [remembered EXCEPT ![x.home] = x.run]
        BY <1>18, <2>2 DEF Sent, Heard
      <3>5. x.run \in strays' \/ runs[x.run].home = x.home
        <4>1. CASE runs[x.run].home = session
          BY <3>1, <4>1, NoneIsNew DEF TypeOK
        <4>2. CASE runs[x.run].home # session
          BY <3>2, <4>2
        <4>3. QED
          BY <4>1, <4>2
      <3>6. At(screen.run, session)'
        BY <3>2, <3>3 DEF At
      <3>7. ASSUME NEW s \in Sessions
            PROVE  \/ remembered'[s] \in {None} \cup strays'
                   \/ runs'[remembered'[s]].home = s
        <4>1. CASE remembered'[s] = remembered[s]
          BY <3>2, <4>1 DEF SessionsApart, At
        <4>2. CASE remembered'[s] = x.run /\ s = x.home
          BY <3>2, <3>5, <4>2
        <4>3. QED
          BY <3>4, <4>1, <4>2 DEF TypeOK
      <3>8. QED
        BY <3>6, <3>7 DEF SessionsApart, At
    <2>3. QED
      BY <2>1, <2>2
  <1>19. ASSUME NEW x \in sends, SendFails(x)
        PROVE  SessionsApart'
    BY <1>19, NoneIsNew
       DEF SendFails, Unpended, Forgotten, Clean, TypeOK, SessionsApart, At
  <1>20. CASE Watchdog
    BY <1>20, NoneIsNew
       DEF Watchdog, Clear, Forgotten, Cleared, Clean, tasks, TypeOK,
           SessionsApart, At
  <1>21. CASE PendingTimeout
    BY <1>21, NoneIsNew
       DEF PendingTimeout, Clear, Forgotten, Clean, tasks, TypeOK,
           SessionsApart, At
  <1>22. CASE AbortFallback
    BY <1>22, NoneIsNew
       DEF AbortFallback, Forgotten, Clean, tasks, TypeOK, SessionsApart, At
  <1>23. CASE Recover
    BY <1>23, NoneIsNew DEF Recover, app, TypeOK, SessionsApart, At
  <1>24. ASSUME NEW t \in recoveries, RecoveryDropped(t)
        PROVE  SessionsApart'
    BY <1>24, NoneIsNew DEF RecoveryDropped, app, TypeOK, SessionsApart, At
  <1>25. ASSUME NEW t \in recoveries, RecoveryDone(t)
        PROVE  SessionsApart'
    BY <1>25, NoneIsNew
       DEF RecoveryDone, Clear, Cleared, Forgotten, Clean, TypeOK,
           SessionsApart, At
  <1>26. CASE Sync
    BY <1>26, NoneIsNew
       DEF Sync, Clear, Forgotten, Clean, Following, tasks, TypeOK,
           SessionsApart, At
  <1>27. CASE ObservedCompleted
    BY <1>27, NoneIsNew
       DEF ObservedCompleted, Clear, Cleared, Forgotten, Clean, tasks,
           TypeOK, SessionsApart, At
  <1>28. QED
    BY <1>1, <1>2, <1>3, <1>4, <1>5, <1>6, <1>7, <1>8, <1>9, <1>10, <1>11,
       <1>12, <1>13, <1>14, <1>15, <1>16, <1>17, <1>18, <1>19, <1>20, <1>21,
       <1>22, <1>23, <1>24, <1>25, <1>26, <1>27 DEF Next

(* No handler makes the app follow an id that was never used. *)
LEMMA UsedStep ==
  ASSUME TypeOK, SendsPlaced, HeardUsed, [Next]_vars
  PROVE  HeardUsed'
PROOF
  <1>1. CASE UNCHANGED vars
    BY <1>1 DEF vars, TypeOK, HeardUsed
  <1>2. ASSUME NEW r \in Ids, Signal(r)
        PROVE  HeardUsed'
    BY <1>2, NoneIsNew
       DEF Signal, Running, Heard, Shown, Adopts, Named, tasks, TypeOK,
           HeardUsed
  <1>3. ASSUME NEW r \in Ids, Final(r)
        PROVE  HeardUsed'
    BY <1>3, NoneIsNew
       DEF Final, Last, Running, Adopts, Named, Cleared, Forgotten, Clean,
           tasks, TypeOK, HeardUsed
  <1>4. ASSUME NEW r \in Ids, Failed(r)
        PROVE  HeardUsed'
    BY <1>4, NoneIsNew
       DEF Failed, Last, Running, Adopts, Named, Cleared, Forgotten, Clean,
           tasks, TypeOK, HeardUsed
  <1>5. ASSUME NEW r \in Ids, EndsUnheard(r)
        PROVE  HeardUsed'
    BY <1>5, NoneIsNew DEF EndsUnheard, Running, app, tasks, TypeOK, HeardUsed
  <1>6. ASSUME NEW r \in Ids, Submit(r)
        PROVE  HeardUsed'
    BY <1>6, NoneIsNew DEF Submit, Fresh, Following, Heard, TypeOK, HeardUsed
  <1>7. ASSUME NEW r \in Ids, NEW s \in Sessions, Elsewhere(r, s)
        PROVE  HeardUsed'
    BY <1>7, NoneIsNew DEF Elsewhere, Fresh, app, tasks, TypeOK, HeardUsed
  <1>8. ASSUME NEW r \in Ids, NEW x \in sends, Accept(x, r)
        PROVE  HeardUsed'
    BY <1>8, NoneIsNew DEF Accept, Fresh, app, TypeOK, HeardUsed
  <1>9. CASE SeqGap
    BY <1>9, NoneIsNew DEF SeqGap, Clean, tasks, TypeOK, HeardUsed
  <1>10. CASE ConnectionLost
    BY <1>10, NoneIsNew
       DEF ConnectionLost, Persisted, Clean, tasks, TypeOK, HeardUsed
  <1>11. CASE ConnectionReady
    BY <1>11, NoneIsNew DEF ConnectionReady, Clean, TypeOK, HeardUsed
  <1>12. ASSUME NEW t \in restores, RestoreDone(t)
        PROVE  HeardUsed'
    BY <1>12, NoneIsNew
       DEF RestoreDone, Cleared, Clean, Following, Astray, TypeOK, HeardUsed
  <1>13. ASSUME NEW s \in Sessions, OpenSession(s)
        PROVE  HeardUsed'
    BY <1>13, NoneIsNew
       DEF OpenSession, Persisted, Restored, Clean, Following, tasks,
           TypeOK, HeardUsed
  <1>14. ASSUME NEW s \in Sessions, SelectSession(s)
        PROVE  HeardUsed'
    BY <1>14, NoneIsNew
       DEF SelectSession, Restored, Clean, Following, tasks, TypeOK,
           HeardUsed
  <1>15. CASE SwitchGateway
    BY <1>15, NoneIsNew DEF SwitchGateway, Clean, Fresh, TypeOK, HeardUsed
  <1>16. CASE PressSend
    BY <1>16, NoneIsNew DEF PressSend, app, TypeOK, HeardUsed
  <1>17. CASE ProbeFails
    BY <1>17, NoneIsNew DEF ProbeFails, app, TypeOK, HeardUsed
  <1>18. ASSUME NEW x \in sends, Sent(x)
        PROVE  HeardUsed'
    BY <1>18, NoneIsNew
       DEF Sent, Unpended, Heard, Astray, TypeOK, HeardUsed, SendsPlaced
  <1>19. ASSUME NEW x \in sends, SendFails(x)
        PROVE  HeardUsed'
    BY <1>19, NoneIsNew
       DEF SendFails, Unpended, Forgotten, Clean, TypeOK, HeardUsed
  <1>20. CASE Watchdog
    BY <1>20, NoneIsNew
       DEF Watchdog, Clear, Forgotten, Cleared, Clean, tasks, TypeOK,
           HeardUsed
  <1>21. CASE PendingTimeout
    BY <1>21, NoneIsNew
       DEF PendingTimeout, Clear, Forgotten, Clean, tasks, TypeOK, HeardUsed
  <1>22. CASE AbortFallback
    BY <1>22, NoneIsNew
       DEF AbortFallback, Forgotten, Clean, tasks, TypeOK, HeardUsed
  <1>23. CASE Recover
    BY <1>23, NoneIsNew DEF Recover, app, TypeOK, HeardUsed
  <1>24. ASSUME NEW t \in recoveries, RecoveryDropped(t)
        PROVE  HeardUsed'
    BY <1>24, NoneIsNew DEF RecoveryDropped, app, TypeOK, HeardUsed
  <1>25. ASSUME NEW t \in recoveries, RecoveryDone(t)
        PROVE  HeardUsed'
    BY <1>25, NoneIsNew
       DEF RecoveryDone, Clear, Cleared, Forgotten, Clean, TypeOK, HeardUsed
  <1>26. CASE Sync
    BY <1>26, NoneIsNew
       DEF Sync, Clear, Forgotten, Clean, Following, tasks, TypeOK,
           HeardUsed
  <1>27. CASE ObservedCompleted
    BY <1>27, NoneIsNew
       DEF ObservedCompleted, Clear, Cleared, Forgotten, Clean, tasks,
           TypeOK, HeardUsed
  <1>28. QED
    BY <1>1, <1>2, <1>3, <1>4, <1>5, <1>6, <1>7, <1>8, <1>9, <1>10, <1>11,
       <1>12, <1>13, <1>14, <1>15, <1>16, <1>17, <1>18, <1>19, <1>20, <1>21,
       <1>22, <1>23, <1>24, <1>25, <1>26, <1>27 DEF Next

(* A run is forgotten away from its session only by a step that may. *)
LEMMA AwayStep ==
  ASSUME TypeOK, HeardUsed, [Next]_vars
  PROVE  KeptStep
PROOF
  <1>1. CASE UNCHANGED vars
    BY <1>1 DEF vars, TypeOK, HeardUsed, KeptStep
  <1>2. ASSUME NEW r \in Ids, Signal(r)
        PROVE  KeptStep
    BY <1>2, NoneIsNew
       DEF Signal, Running, Heard, Shown, Adopts, Named, tasks, TypeOK,
           HeardUsed, KeptStep
  <1>3. ASSUME NEW r \in Ids, Final(r)
        PROVE  KeptStep
    BY <1>3, NoneIsNew
       DEF Final, Last, Running, Adopts, Named, Cleared, Forgotten, Clean,
           tasks, TypeOK, HeardUsed, KeptStep
  <1>4. ASSUME NEW r \in Ids, Failed(r)
        PROVE  KeptStep
    BY <1>4, NoneIsNew
       DEF Failed, Last, Running, Adopts, Named, Cleared, Forgotten, Clean,
           tasks, TypeOK, HeardUsed, KeptStep
  <1>5. ASSUME NEW r \in Ids, EndsUnheard(r)
        PROVE  KeptStep
    BY <1>5, NoneIsNew
       DEF EndsUnheard, Running, app, tasks, TypeOK, HeardUsed, KeptStep
  <1>6. ASSUME NEW r \in Ids, Submit(r)
        PROVE  KeptStep
    BY <1>6, NoneIsNew
       DEF Submit, Fresh, Following, Heard, TypeOK, HeardUsed, KeptStep
  <1>7. ASSUME NEW r \in Ids, NEW s \in Sessions, Elsewhere(r, s)
        PROVE  KeptStep
    BY <1>7, NoneIsNew
       DEF Elsewhere, Fresh, app, tasks, TypeOK, HeardUsed, KeptStep
  <1>8. ASSUME NEW r \in Ids, NEW x \in sends, Accept(x, r)
        PROVE  KeptStep
    BY <1>8, NoneIsNew DEF Accept, Fresh, app, TypeOK, HeardUsed, KeptStep
  <1>9. CASE SeqGap
    BY <1>9, NoneIsNew DEF SeqGap, Clean, tasks, TypeOK, HeardUsed, KeptStep
  <1>10. CASE ConnectionLost
    BY <1>10, NoneIsNew
       DEF ConnectionLost, Persisted, Clean, tasks, TypeOK, HeardUsed,
           KeptStep
  <1>11. CASE ConnectionReady
    BY <1>11, NoneIsNew DEF ConnectionReady, Clean, TypeOK, HeardUsed, KeptStep
  <1>12. ASSUME NEW t \in restores, RestoreDone(t)
        PROVE  KeptStep
    BY <1>12, NoneIsNew
       DEF RestoreDone, Cleared, Clean, Following, Astray, TypeOK,
           HeardUsed, KeptStep
  <1>13. ASSUME NEW s \in Sessions, OpenSession(s)
        PROVE  KeptStep
    BY <1>13, NoneIsNew
       DEF OpenSession, Persisted, Restored, Clean, Following, tasks,
           TypeOK, HeardUsed, KeptStep
  <1>14. ASSUME NEW s \in Sessions, SelectSession(s)
        PROVE  KeptStep
    BY <1>14, NoneIsNew
       DEF SelectSession, Restored, Clean, Following, tasks, TypeOK,
           HeardUsed, KeptStep
  <1>15. CASE SwitchGateway
    BY <1>15, NoneIsNew
       DEF SwitchGateway, Clean, Fresh, TypeOK, HeardUsed, KeptStep
  <1>16. CASE PressSend
    BY <1>16, NoneIsNew DEF PressSend, app, TypeOK, HeardUsed, KeptStep
  <1>17. CASE ProbeFails
    BY <1>17, NoneIsNew DEF ProbeFails, app, TypeOK, HeardUsed, KeptStep
  <1>18. ASSUME NEW x \in sends, Sent(x)
        PROVE  KeptStep
    BY <1>18, NoneIsNew
       DEF Sent, Unpended, Heard, Astray, TypeOK, HeardUsed, KeptStep
  <1>19. ASSUME NEW x \in sends, SendFails(x)
        PROVE  KeptStep
    BY <1>19, NoneIsNew
       DEF SendFails, Unpended, Forgotten, Clean, TypeOK, HeardUsed,
           KeptStep
  <1>20. CASE Watchdog
    BY <1>20, NoneIsNew
       DEF Watchdog, Clear, Forgotten, Cleared, Clean, tasks, TypeOK,
           HeardUsed, KeptStep
  <1>21. CASE PendingTimeout
    BY <1>21, NoneIsNew
       DEF PendingTimeout, Clear, Forgotten, Clean, tasks, TypeOK,
           HeardUsed, KeptStep
  <1>22. CASE AbortFallback
    BY <1>22, NoneIsNew
       DEF AbortFallback, Forgotten, Clean, tasks, TypeOK, HeardUsed,
           KeptStep
  <1>23. CASE Recover
    BY <1>23, NoneIsNew DEF Recover, app, TypeOK, HeardUsed, KeptStep
  <1>24. ASSUME NEW t \in recoveries, RecoveryDropped(t)
        PROVE  KeptStep
    BY <1>24, NoneIsNew DEF RecoveryDropped, app, TypeOK, HeardUsed, KeptStep
  <1>25. ASSUME NEW t \in recoveries, RecoveryDone(t)
        PROVE  KeptStep
    BY <1>25, NoneIsNew
       DEF RecoveryDone, Clear, Cleared, Forgotten, Clean, TypeOK,
           HeardUsed, KeptStep
  <1>26. CASE Sync
    BY <1>26, NoneIsNew
       DEF Sync, Clear, Forgotten, Clean, Following, tasks, TypeOK,
           HeardUsed, KeptStep
  <1>27. CASE ObservedCompleted
    BY <1>27, NoneIsNew
       DEF ObservedCompleted, Clear, Cleared, Forgotten, Clean, tasks,
           TypeOK, HeardUsed, KeptStep
  <1>28. QED
    BY <1>1, <1>2, <1>3, <1>4, <1>5, <1>6, <1>7, <1>8, <1>9, <1>10, <1>11,
       <1>12, <1>13, <1>14, <1>15, <1>16, <1>17, <1>18, <1>19, <1>20, <1>21,
       <1>22, <1>23, <1>24, <1>25, <1>26, <1>27 DEF Next

-----------------------------------------------------------------------------
(* The inductive invariant.                                                  *)
IInv ==
  /\ TypeOK /\ BusyFollowsRun /\ PendingUnanswered
  /\ SendsPlaced /\ HeardUsed /\ SessionsApart

(* The screen starts clean and nothing is remembered.                        *)
LEMMA InitIInv == Init => IInv
  BY NoneIsNew
  DEF Init, IInv, TypeOK, BusyFollowsRun, PendingUnanswered, SendsPlaced,
      HeardUsed, SessionsApart, At, Clean, Unused

(* Every handler keeps the invariant.                                        *)
LEMMA NextIInv == IInv /\ [Next]_vars => IInv'
  BY TypeStep, BusyStep, PendingStep, PlacedStep, UsedStep, ApartStep DEF IInv

(* The invariant with all its parts.                                         *)
THEOREM ChatInvariant == Spec => []IInv
  BY InitIInv, NextIInv, PTL DEF Spec

(* What the screen follows, remembers and waits for has its types in every   *)
(* state, whatever handlers come in whatever order.                          *)
THEOREM ChatTypeCorrect == Spec => []TypeOK
  BY ChatInvariant, PTL DEF IInv

(* Events, switches, sends and timeouts keep the runs of the sessions apart, *)
(* the ids of the two late steps aside.                                      *)
THEOREM ApartAlways == Spec => []SessionsApart
  BY ChatInvariant, PTL DEF IInv

(* The screen is busy exactly while it follows a run, so it never gets stuck *)
(* busy with no run that a limit or the stop button could end.               *)
THEOREM BusyWithRun == Spec => []BusyFollowsRun
  BY ChatInvariant, PTL DEF IInv

(* No key waits for the name of its run once its send was answered.          *)
THEOREM PendingWithSend == Spec => []PendingUnanswered
  BY ChatInvariant, PTL DEF IInv

(* While its session is away a remembered run is forgotten only for one of   *)
(* the reasons KeptStep names.                                               *)
THEOREM KeptAway == Spec => KeptWhileAway
<1>1. IInv /\ [Next]_vars => KeptStep
  BY AwayStep DEF IInv
<1>2. QED
  BY <1>1, ChatInvariant, PTL DEF Spec, KeptWhileAway
=============================================================================
