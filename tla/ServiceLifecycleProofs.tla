------------------------- MODULE ServiceLifecycleProofs -------------------------
(***************************************************************************)
(* What holds of ServiceLifecycle for every set of pids and every bound:   *)
(* the types always; and, on a machine where "ps" shows every runtime,     *)
(* that one runtime serves at a time, that a stop is final, and that a     *)
(* pairing leaves no runtime with another identity.                        *)
(***************************************************************************)
EXTENDS ServiceLifecycle, FiniteSetTheorems, TLAPS

-----------------------------------------------------------------------------
(* The inductive invariant *)

StopSteps == {"list", "writeback", "scan", "signal", "wait", "reread", "rewrite", "clear"}

RuntimePcs ==
  {"config", "start", "register", "registered", "up", "stopping",
   "unlist", "unlisted", "unstate"} \cup StopSteps

(* Where the command may be.                                                *)
CommandPcs(op) ==
  CASE op = "pair" -> {"pair", "decide", "activate", "done"} \cup StopSteps
    [] op \in {"install", "restart"} -> {"activate", "done"} \cup StopSteps
    [] op \in {"stop", "uninstall"} -> {"kill", "unload", "unloaded", "done"} \cup StopSteps
    [] OTHER -> {"kill", "unload", "unloaded", "delete", "done"} \cup StopSteps

(* Where a runtime may be; it is not its own victim.                        *)
RuntimePlaced(p) ==
  /\ \/ act[p].kind = "none" /\ act[p].pc = "done"
     \/ /\ act[p].kind \in {"service", "manual"} /\ act[p].op = "run"
        /\ act[p].pc \in RuntimePcs
  /\ p \notin act[p].victims

(* Where a command may be, and which commands stop the runtimes whatever    *)
(* they find.                                                               *)
CommandPlaced ==
  \/ act[CLI].kind = "none" /\ act[CLI].op = "run" /\ act[CLI].pc = "done"
  \/ /\ act[CLI].kind = "command" /\ act[CLI].op \in Commands
     /\ act[CLI].pc \in CommandPcs(act[CLI].op)
     /\ act[CLI].pc \in {"list", "writeback", "scan"}
          => \/ act[CLI].stopping
             \/ act[CLI].op = "pair" /\ act[CLI].cfg = 0

Placed ==
  /\ \A p \in Pids : RuntimePlaced(p)
  /\ CommandPlaced
  /\ method # "manager" => ~manager.loaded

(* A runtime that has looked for others and goes on.                        *)
Scanned(p) ==
  act[p].pc \in {"signal", "wait", "reread", "rewrite", "clear",
                 "start", "register", "registered", "up", "stopping"}

(* a is still to see p end.                                                 *)
Awaits(a, p) == act[a].pc \in {"signal", "wait"} /\ p \in act[a].victims

(* Of two runtimes that go on one waits for the end of the other.           *)
Excluded ==
  \A p, q \in Pids :
    p # q /\ Scanned(p) /\ Scanned(q) => Awaits(p, q) \/ Awaits(q, p)

Enders == {"stop", "uninstall", "reset"}

(* The service manager has let go of the service: the commands that unload  *)
(* it, from there on, and after them until another one.                     *)
Released ==
  \/ act[CLI].op \in {"stop", "uninstall"} /\ act[CLI].pc \notin {"kill", "unload"}
  \/ act[CLI].op = "reset" /\ act[CLI].pc \in {"unloaded", "delete", "done"}
  \/ Idle /\ last \in Enders

(* What may be left when a stop has waited for its victims: what was started*)
(* since, by hand, or by the service manager until reset unloads the service.*)
Left(p) ==
  /\ p \in newer
  /\ \/ act[p].kind = "manual"
     \/ /\ act[CLI].op = "reset" /\ act[CLI].pc \notin {"delete", "done"}
        /\ manager.child = p

(* A command that ends the bridge has seen the older runtimes end.          *)
Swept ==
  \/ act[CLI].op \in {"stop", "uninstall"} /\ act[CLI].pc \in {"reread", "rewrite", "clear", "done"}
  \/ /\ act[CLI].op = "reset"
     /\ act[CLI].pc \in {"reread", "rewrite", "clear", "kill", "unload", "unloaded",
                         "delete", "done"}

Ended ==
  /\ Released => ~manager.loaded
  /\ act[CLI].op \in Enders /\ act[CLI].pc \in {"signal", "wait"} =>
       \A p \in Running : p \in act[CLI].victims \/ Left(p)
  /\ Swept => \A p \in Running : Left(p)
  /\ Idle /\ commands > 0 /\ last \in Enders => \A p \in Running : Left(p)

(* A pairing has made a new identity and is still to end p, which may have  *)
(* another one.                                                             *)
Outdated(p) ==
  /\ act[CLI].op = "pair" /\ act[CLI].cfg # 0
  /\ act[CLI].pc \in {"decide", "list", "writeback", "scan"} \/ Awaits(CLI, p)

(* A runtime that has read the configuration has read the present one, or   *)
(* is about to be ended by the pairing that made it.                        *)
UpToDate(p) == act[p].pc # "config" => act[p].cfg = config \/ Outdated(p)

Current ==
  /\ config # 0 => \A p \in Running : UpToDate(p)
  /\ act[CLI].op = "pair" /\ act[CLI].pc # "pair" => config # 0
  /\ Idle /\ last = "pair" => config # 0

-----------------------------------------------------------------------------
(* What the steps do to the actors *)

(* The step leaves x where it is.                                           *)
Stays(x) ==
  /\ act'[x].kind = act[x].kind /\ act'[x].op = act[x].op
  /\ act'[x].pc = act[x].pc /\ act'[x].cfg = act[x].cfg
  /\ act'[x].stopping = act[x].stopping /\ act'[x].victims = act[x].victims

(* The step ends x, or leaves it where it is.                               *)
Weaker(x) == act'[x] = Absent \/ Stays(x)

(* The step takes a to another place, with these victims.                   *)
Goes(a, pc, stopping, victims) ==
  /\ act'[a].kind = act[a].kind /\ act'[a].op = act[a].op
  /\ act'[a].cfg = act[a].cfg
  /\ act'[a].pc = pc /\ act'[a].stopping = stopping /\ act'[a].victims = victims

(* The step takes nobody but a to another place, and does not end the      *)
(* command.                                                                 *)
OnlyFor(a) ==
  /\ act' \in [Actors -> Actor]
  /\ \A x \in Actors \ {a} : Weaker(x)
  /\ a # CLI => Stays(CLI)

(* Only a may have changed.                                                 *)
LEMMA Alone ==
  ASSUME TypeOK, NEW a \in Actors, NEW k \in Actor, act' = [act EXCEPT ![a] = k]
  PROVE  OnlyFor(a) /\ act'[a] = k
  <1>1. act \in [Actors -> Actor]
    BY DEF TypeOK
  <1>2. act' \in [Actors -> Actor]
    BY <1>1
  <1>3. act'[a] = k /\ \A x \in Actors \ {a} : act'[x] = act[x]
    BY <1>1
  <1>4. \A x \in Actors \ {a} : Stays(x) /\ Weaker(x)
    BY <1>3 DEF Weaker, Stays
  <1> QED
    BY <1>2, <1>3, <1>4 DEF OnlyFor, Actors

(* An actor that is not there is one of its type.                           *)
LEMMA AbsentTyped == Absent \in Actor
  BY BoundsAssumption DEF Absent, Actor

(* The list of runtimes is read.                                            *)
LEMMA ListMoves ==
  ASSUME TypeOK, NEW a \in Actors, List(a)
  PROVE  /\ OnlyFor(a)
         /\ Goes(a, "writeback", act[a].stopping, act[a].victims)
  <1> DEFINE k == [act[a] EXCEPT !.pc = "writeback", !.snap = registry \cap Running]
  <1>1. a \in Actors /\ act[a] \in Actor
    BY DEF TypeOK, Actors
  <1>2. /\ k \in Actor /\ k.kind = act[a].kind /\ k.op = act[a].op /\ k.cfg = act[a].cfg
        /\ k.pc = "writeback" /\ k.stopping = act[a].stopping /\ k.victims = act[a].victims
    BY <1>1 DEF Actor, TypeOK, Running
  <1>3. act' = [act EXCEPT ![a] = k]
    BY DEF List, Load
  <1> QED
    BY ONLY TypeOK, Alone, <1>1, <1>2, <1>3 DEF Goes

(* What was read is written back.                                           *)
LEMMA WriteBackMoves ==
  ASSUME TypeOK, NEW a \in Actors, WriteBack(a)
  PROVE  /\ OnlyFor(a)
         /\ Goes(a, "scan", act[a].stopping, act[a].victims)
  <1> DEFINE k == [act[a] EXCEPT !.pc = "scan"]
  <1>1. a \in Actors /\ act[a] \in Actor
    BY DEF TypeOK, Actors
  <1>2. /\ k \in Actor /\ k.kind = act[a].kind /\ k.op = act[a].op /\ k.cfg = act[a].cfg
        /\ k.pc = "scan" /\ k.stopping = act[a].stopping /\ k.victims = act[a].victims
    BY <1>1 DEF Actor, TypeOK, Running
  <1>3. act' = [act EXCEPT ![a] = k]
    BY DEF WriteBack, Goto
  <1> QED
    BY ONLY TypeOK, Alone, <1>1, <1>2, <1>3 DEF Goes

(* The victims are gone.                                                    *)
LEMMA WaitedMoves ==
  ASSUME TypeOK, NEW a \in Actors, Waited(a)
  PROVE  /\ OnlyFor(a)
         /\ Goes(a, "reread", act[a].stopping, act[a].victims)
  <1> DEFINE k == [act[a] EXCEPT !.pc = "reread"]
  <1>1. a \in Actors /\ act[a] \in Actor
    BY DEF TypeOK, Actors
  <1>2. /\ k \in Actor /\ k.kind = act[a].kind /\ k.op = act[a].op /\ k.cfg = act[a].cfg
        /\ k.pc = "reread" /\ k.stopping = act[a].stopping /\ k.victims = act[a].victims
    BY <1>1 DEF Actor, TypeOK, Running
  <1>3. act' = [act EXCEPT ![a] = k]
    BY DEF Waited, Goto
  <1> QED
    BY ONLY TypeOK, Alone, <1>1, <1>2, <1>3 DEF Goes

(* The list is read again.                                                  *)
LEMMA RereadMoves ==
  ASSUME TypeOK, NEW a \in Actors, Reread(a)
  PROVE  /\ OnlyFor(a)
         /\ Goes(a, "rewrite", act[a].stopping, act[a].victims)
  <1> DEFINE k == [act[a] EXCEPT !.pc = "rewrite", !.snap = registry \cap Running]
  <1>1. a \in Actors /\ act[a] \in Actor
    BY DEF TypeOK, Actors
  <1>2. /\ k \in Actor /\ k.kind = act[a].kind /\ k.op = act[a].op /\ k.cfg = act[a].cfg
        /\ k.pc = "rewrite" /\ k.stopping = act[a].stopping /\ k.victims = act[a].victims
    BY <1>1 DEF Actor, TypeOK, Running
  <1>3. act' = [act EXCEPT ![a] = k]
    BY DEF Reread, Load
  <1> QED
    BY ONLY TypeOK, Alone, <1>1, <1>2, <1>3 DEF Goes

(* The list is written without the victims.                                 *)
LEMMA RewriteMoves ==
  ASSUME TypeOK, NEW a \in Actors, Rewrite(a)
  PROVE  /\ OnlyFor(a)
         /\ Goes(a, "clear", act[a].stopping, act[a].victims)
  <1> DEFINE k == [act[a] EXCEPT !.pc = "clear"]
  <1>1. a \in Actors /\ act[a] \in Actor
    BY DEF TypeOK, Actors
  <1>2. /\ k \in Actor /\ k.kind = act[a].kind /\ k.op = act[a].op /\ k.cfg = act[a].cfg
        /\ k.pc = "clear" /\ k.stopping = act[a].stopping /\ k.victims = act[a].victims
    BY <1>1 DEF Actor, TypeOK, Running
  <1>3. act' = [act EXCEPT ![a] = k]
    BY DEF Rewrite, Goto
  <1> QED
    BY ONLY TypeOK, Alone, <1>1, <1>2, <1>3 DEF Goes

(* The runtimes are stopped.                                                *)
LEMMA ClearMoves ==
  ASSUME TypeOK, NEW a \in Actors, Clear(a)
  PROVE  /\ OnlyFor(a)
         /\ Goes(a, AfterStop(a), FALSE, {})
  <1> DEFINE k == [act[a] EXCEPT !.pc = AfterStop(a), !.snap = {}, !.victims = {},
                            !.stopping = FALSE]
  <1>1. a \in Actors /\ act[a] \in Actor
    BY DEF TypeOK, Actors
  <1>2. /\ k \in Actor /\ k.kind = act[a].kind /\ k.op = act[a].op /\ k.cfg = act[a].cfg
        /\ k.pc = AfterStop(a) /\ k.stopping = FALSE /\ k.victims = {}
    BY <1>1 DEF Actor, TypeOK, Running, AfterStop
  <1>3. act' = [act EXCEPT ![a] = k]
    BY DEF Clear
  <1> QED
    BY ONLY TypeOK, Alone, <1>1, <1>2, <1>3 DEF Goes

(* The runtime starts.                                                      *)
LEMMA StartMoves ==
  ASSUME TypeOK, NEW p \in Pids, Start(p)
  PROVE  /\ OnlyFor(p)
         /\ Goes(p, "register", act[p].stopping, act[p].victims)
  <1> DEFINE k == [act[p] EXCEPT !.pc = "register"]
  <1>1. p \in Actors /\ act[p] \in Actor
    BY DEF TypeOK, Actors
  <1>2. /\ k \in Actor /\ k.kind = act[p].kind /\ k.op = act[p].op /\ k.cfg = act[p].cfg
        /\ k.pc = "register" /\ k.stopping = act[p].stopping /\ k.victims = act[p].victims
    BY <1>1 DEF Actor, TypeOK, Running
  <1>3. act' = [act EXCEPT ![p] = k]
    BY DEF Start, Goto
  <1> QED
    BY ONLY TypeOK, Alone, <1>1, <1>2, <1>3 DEF Goes

(* The runtime reads the list to enter itself.                              *)
LEMMA RegisterMoves ==
  ASSUME TypeOK, NEW p \in Pids, Register(p)
  PROVE  /\ OnlyFor(p)
         /\ Goes(p, "registered", act[p].stopping, act[p].victims)
  <1> DEFINE k == [act[p] EXCEPT !.pc = "registered", !.snap = registry \cap Running]
  <1>1. p \in Actors /\ act[p] \in Actor
    BY DEF TypeOK, Actors
  <1>2. /\ k \in Actor /\ k.kind = act[p].kind /\ k.op = act[p].op /\ k.cfg = act[p].cfg
        /\ k.pc = "registered" /\ k.stopping = act[p].stopping /\ k.victims = act[p].victims
    BY <1>1 DEF Actor, TypeOK, Running
  <1>3. act' = [act EXCEPT ![p] = k]
    BY DEF Register, Load
  <1> QED
    BY ONLY TypeOK, Alone, <1>1, <1>2, <1>3 DEF Goes

(* The runtime is in the list.                                              *)
LEMMA RegisteredMoves ==
  ASSUME TypeOK, NEW p \in Pids, Registered(p)
  PROVE  /\ OnlyFor(p)
         /\ Goes(p, "up", act[p].stopping, act[p].victims)
  <1> DEFINE k == [act[p] EXCEPT !.pc = "up", !.snap = {}]
  <1>1. p \in Actors /\ act[p] \in Actor
    BY DEF TypeOK, Actors
  <1>2. /\ k \in Actor /\ k.kind = act[p].kind /\ k.op = act[p].op /\ k.cfg = act[p].cfg
        /\ k.pc = "up" /\ k.stopping = act[p].stopping /\ k.victims = act[p].victims
    BY <1>1 DEF Actor, TypeOK, Running
  <1>3. act' = [act EXCEPT ![p] = k]
    BY DEF Registered
  <1> QED
    BY ONLY TypeOK, Alone, <1>1, <1>2, <1>3 DEF Goes

(* The runtime begins to shut down.                                         *)
LEMMA ShutdownMoves ==
  ASSUME TypeOK, NEW p \in Pids, Shutdown(p)
  PROVE  /\ OnlyFor(p)
         /\ Goes(p, "stopping", act[p].stopping, act[p].victims)
  <1> DEFINE k == [act[p] EXCEPT !.pc = "stopping"]
  <1>1. p \in Actors /\ act[p] \in Actor
    BY DEF TypeOK, Actors
  <1>2. /\ k \in Actor /\ k.kind = act[p].kind /\ k.op = act[p].op /\ k.cfg = act[p].cfg
        /\ k.pc = "stopping" /\ k.stopping = act[p].stopping /\ k.victims = act[p].victims
    BY <1>1 DEF Actor, TypeOK, Running
  <1>3. act' = [act EXCEPT ![p] = k]
    BY DEF Shutdown, Goto
  <1> QED
    BY ONLY TypeOK, Alone, <1>1, <1>2, <1>3 DEF Goes

(* The runtime serves no more.                                              *)
LEMMA RuntimeStoppedMoves ==
  ASSUME TypeOK, NEW p \in Pids, RuntimeStopped(p)
  PROVE  /\ OnlyFor(p)
         /\ Goes(p, "unlist", act[p].stopping, act[p].victims)
  <1> DEFINE k == [act[p] EXCEPT !.pc = "unlist"]
  <1>1. p \in Actors /\ act[p] \in Actor
    BY DEF TypeOK, Actors
  <1>2. /\ k \in Actor /\ k.kind = act[p].kind /\ k.op = act[p].op /\ k.cfg = act[p].cfg
        /\ k.pc = "unlist" /\ k.stopping = act[p].stopping /\ k.victims = act[p].victims
    BY <1>1 DEF Actor, TypeOK, Running
  <1>3. act' = [act EXCEPT ![p] = k]
    BY DEF RuntimeStopped, Goto
  <1> QED
    BY ONLY TypeOK, Alone, <1>1, <1>2, <1>3 DEF Goes

(* The runtime reads the list to leave it.                                  *)
LEMMA UnlistMoves ==
  ASSUME TypeOK, NEW p \in Pids, Unlist(p)
  PROVE  /\ OnlyFor(p)
         /\ Goes(p, "unlisted", act[p].stopping, act[p].victims)
  <1> DEFINE k == [act[p] EXCEPT !.pc = "unlisted", !.snap = registry \cap Running]
  <1>1. p \in Actors /\ act[p] \in Actor
    BY DEF TypeOK, Actors
  <1>2. /\ k \in Actor /\ k.kind = act[p].kind /\ k.op = act[p].op /\ k.cfg = act[p].cfg
        /\ k.pc = "unlisted" /\ k.stopping = act[p].stopping /\ k.victims = act[p].victims
    BY <1>1 DEF Actor, TypeOK, Running
  <1>3. act' = [act EXCEPT ![p] = k]
    BY DEF Unlist, Load
  <1> QED
    BY ONLY TypeOK, Alone, <1>1, <1>2, <1>3 DEF Goes

(* The runtime has left the list.                                           *)
LEMMA UnlistedMoves ==
  ASSUME TypeOK, NEW p \in Pids, Unlisted(p)
  PROVE  /\ OnlyFor(p)
         /\ Goes(p, "unstate", act[p].stopping, act[p].victims)
  <1> DEFINE k == [act[p] EXCEPT !.pc = "unstate"]
  <1>1. p \in Actors /\ act[p] \in Actor
    BY DEF TypeOK, Actors
  <1>2. /\ k \in Actor /\ k.kind = act[p].kind /\ k.op = act[p].op /\ k.cfg = act[p].cfg
        /\ k.pc = "unstate" /\ k.stopping = act[p].stopping /\ k.victims = act[p].victims
    BY <1>1 DEF Actor, TypeOK, Running
  <1>3. act' = [act EXCEPT ![p] = k]
    BY DEF Unlisted, Goto
  <1> QED
    BY ONLY TypeOK, Alone, <1>1, <1>2, <1>3 DEF Goes

(* The configuration is deleted.                                            *)
LEMMA DeleteConfigMoves ==
  ASSUME TypeOK, DeleteConfig
  PROVE  /\ OnlyFor(CLI)
         /\ Goes(CLI, "done", act[CLI].stopping, act[CLI].victims)
  <1> DEFINE k == [act[CLI] EXCEPT !.pc = "done"]
  <1>1. CLI \in Actors /\ act[CLI] \in Actor
    BY DEF TypeOK, Actors
  <1>2. /\ k \in Actor /\ k.kind = act[CLI].kind /\ k.op = act[CLI].op /\ k.cfg = act[CLI].cfg
        /\ k.pc = "done" /\ k.stopping = act[CLI].stopping /\ k.victims = act[CLI].victims
    BY <1>1 DEF Actor, TypeOK, Running
  <1>3. act' = [act EXCEPT ![CLI] = k]
    BY DEF DeleteConfig, Goto
  <1> QED
    BY ONLY TypeOK, Alone, <1>1, <1>2, <1>3 DEF Goes

(* A look for other runtimes, by where it leads.                            *)
LEMMA ScanMoves ==
  ASSUME TypeOK, NEW a \in Actors, Scan(a)
  PROVE  /\ OnlyFor(a)
         /\ \/ act[a].stopping /\ Goes(a, "signal", TRUE, Found(a))
            \/ /\ ~act[a].stopping /\ a # CLI /\ Found(a) = {}
               /\ Goes(a, "start", FALSE, act[a].victims)
            \/ ~act[a].stopping /\ a # CLI /\ act'[a] = Absent
            \/ ~act[a].stopping /\ a = CLI /\ Goes(a, "done", FALSE, act[a].victims)
            \/ ~act[a].stopping /\ Goes(a, "list", TRUE, act[a].victims)
  <1> DEFINE k == act[a]
             found == Found(a)
             k1 == [k EXCEPT !.victims = found, !.pc = "signal"]
             k2 == [k EXCEPT !.pc = "start", !.snap = {}]
             k3 == [k EXCEPT !.pc = "done"]
             k4 == [k EXCEPT !.stopping = TRUE, !.pc = "list", !.action = "restart"]
  <1>1. k \in Actor /\ k.stopping \in BOOLEAN
    BY DEF TypeOK, Actor
  <1>2. found \in SUBSET Pids
    BY <1>1 DEF Found, Running, Actor
  <1> HIDE DEF found
  <1>3. /\ k1 \in Actor /\ k1.kind = k.kind /\ k1.op = k.op /\ k1.cfg = k.cfg
        /\ k1.pc = "signal" /\ k1.stopping = k.stopping /\ k1.victims = found
    BY ONLY <1>1, <1>2 DEF Actor
  <1>4. /\ k2 \in Actor /\ k2.kind = k.kind /\ k2.op = k.op /\ k2.cfg = k.cfg
        /\ k2.pc = "start" /\ k2.stopping = k.stopping /\ k2.victims = k.victims
    BY ONLY <1>1 DEF Actor
  <1>5. /\ k3 \in Actor /\ k3.kind = k.kind /\ k3.op = k.op /\ k3.cfg = k.cfg
        /\ k3.pc = "done" /\ k3.stopping = k.stopping /\ k3.victims = k.victims
    BY ONLY <1>1 DEF Actor
  <1>6. /\ k4 \in Actor /\ k4.kind = k.kind /\ k4.op = k.op /\ k4.cfg = k.cfg
        /\ k4.pc = "list" /\ k4.stopping = TRUE /\ k4.victims = k.victims
    BY ONLY <1>1 DEF Actor
  <1>7. \/ k.stopping /\ act' = [act EXCEPT ![a] = k1]
        \/ ~k.stopping /\ a # CLI /\ found = {} /\ act' = [act EXCEPT ![a] = k2]
        \/ ~k.stopping /\ a # CLI /\ act' = [act EXCEPT ![a] = Absent]
        \/ ~k.stopping /\ a = CLI /\ act' = [act EXCEPT ![a] = k3]
        \/ ~k.stopping /\ act' = [act EXCEPT ![a] = k4]
    BY DEF Scan, found
  <1> HIDE DEF k1, k2, k3, k4
  <1>8. CASE k.stopping /\ act' = [act EXCEPT ![a] = k1]
    BY ONLY TypeOK, Alone, a \in Actors, <1>1, <1>3, <1>8 DEF Goes, found
  <1>9. CASE ~k.stopping /\ a # CLI /\ found = {} /\ act' = [act EXCEPT ![a] = k2]
    BY ONLY TypeOK, Alone, a \in Actors, <1>1, <1>4, <1>9 DEF Goes, found
  <1>10. CASE ~k.stopping /\ a # CLI /\ act' = [act EXCEPT ![a] = Absent]
    BY ONLY TypeOK, Alone, AbsentTyped, a \in Actors, <1>10
  <1>11. CASE ~k.stopping /\ a = CLI /\ act' = [act EXCEPT ![a] = k3]
    BY ONLY TypeOK, Alone, a \in Actors, <1>1, <1>5, <1>11 DEF Goes
  <1>12. CASE ~k.stopping /\ act' = [act EXCEPT ![a] = k4]
    BY ONLY TypeOK, Alone, a \in Actors, <1>1, <1>6, <1>12 DEF Goes
  <1> QED
    BY <1>7, <1>8, <1>9, <1>10, <1>11, <1>12

(* Whoever is told to end ends, or stays where it is to do so.              *)
LEMMA TerminatedKeeps ==
  ASSUME TypeOK, NEW V
  PROVE  /\ Terminated(act, V) \in [Actors -> Actor]
         /\ \A x \in Actors \ V : Terminated(act, V)[x] = act[x]
         /\ \A x \in Actors :
              \/ Terminated(act, V)[x] \in {Absent, act[x]}
              \/ Terminated(act, V)[x] = [act[x] EXCEPT !.term = TRUE]
  <1>1. ASSUME NEW x \in Actors
        PROVE  /\ Terminated(act, V)[x] \in {Absent, act[x], [act[x] EXCEPT !.term = TRUE]}
               /\ x \notin V => Terminated(act, V)[x] = act[x]
    BY DEF Terminated
  <1>2. ASSUME NEW x \in Actors
        PROVE  [act[x] EXCEPT !.term = TRUE] \in Actor /\ act[x] \in Actor
    <2>1. act[x] \in Actor
      BY DEF TypeOK
    <2> QED
      BY ONLY <2>1 DEF Actor
  <1>3. \A x \in Actors : Terminated(act, V)[x] \in Actor
    BY ONLY <1>1, <1>2, AbsentTyped
  <1>4. Terminated(act, V) = [x \in Actors |-> Terminated(act, V)[x]]
    BY DEF Terminated
  <1>5. Terminated(act, V) \in [Actors -> Actor]
    BY ONLY <1>3, <1>4
  <1> QED
    BY <1>1, <1>5

(* The term flag is none of the fields that count.                          *)
LEMMA ToldToEnd ==
  ASSUME TypeOK, NEW x \in Actors,
         act'[x] \in {Absent, act[x], [act[x] EXCEPT !.term = TRUE]}
  PROVE  Weaker(x)
  <1>1. act[x] \in Actor
    BY DEF TypeOK
  <1> DEFINE k == [act[x] EXCEPT !.term = TRUE]
  <1>2. /\ k.kind = act[x].kind /\ k.op = act[x].op /\ k.pc = act[x].pc /\ k.cfg = act[x].cfg
        /\ k.stopping = act[x].stopping /\ k.victims = act[x].victims
    BY ONLY <1>1 DEF Actor
  <1> HIDE DEF k
  <1>3. act'[x] \in {Absent, act[x], k}
    BY DEF k
  <1> QED
    BY ONLY <1>2, <1>3 DEF Weaker, Stays

(* A step that tells V to end and takes a to another place.                 *)
LEMMA AloneButV ==
  ASSUME TypeOK, NEW V, CLI \notin V, NEW a \in Actors, a \notin V, NEW k \in Actor,
         act' = [Terminated(act, V) EXCEPT ![a] = k]
  PROVE  OnlyFor(a) /\ act'[a] = k
  <1> DEFINE T == Terminated(act, V)
  <1>1. /\ T \in [Actors -> Actor]
        /\ \A x \in Actors : T[x] \in {Absent, act[x], [act[x] EXCEPT !.term = TRUE]}
    BY TerminatedKeeps
  <1> HIDE DEF T
  <1>2. act' = [T EXCEPT ![a] = k]
    BY DEF T
  <1>3. act' \in [Actors -> Actor] /\ act'[a] = k /\ \A x \in Actors \ {a} : act'[x] = T[x]
    BY ONLY <1>1, <1>2, a \in Actors, k \in Actor
  <1>4. \A x \in Actors \ {a} : Weaker(x)
    BY <1>1, <1>3, ToldToEnd
  <1>5. Stays(CLI) \/ a = CLI
    <2>1. CLI \in Actors /\ T[CLI] = act[CLI]
      BY TerminatedKeeps DEF T, Actors
    <2> QED
      BY <1>3, <2>1 DEF Stays
  <1> QED
    BY ONLY <1>3, <1>4, <1>5 DEF OnlyFor

(* The command takes a to another place and tells V to end.                 *)
LEMMA GoesButV ==
  ASSUME TypeOK, NEW V, CLI \notin V, NEW a \in Actors, a \notin V,
         NEW pc \in {"wait", "unload", "unloaded", "done"},
         act' = [Terminated(act, V) EXCEPT ![a].pc = pc]
  PROVE  OnlyFor(a) /\ Goes(a, pc, act[a].stopping, act[a].victims)
  <1> DEFINE T == Terminated(act, V)
             k == [act[a] EXCEPT !.pc = pc]
  <1>1. T \in [Actors -> Actor] /\ T[a] = act[a]
    BY TerminatedKeeps
  <1> HIDE DEF T
  <1>2. act' = [T EXCEPT ![a] = k]
    <2>1. act' = [T EXCEPT ![a].pc = pc]
      BY DEF T
    <2> QED
      BY ONLY <1>1, <2>1
  <1>3. /\ k \in Actor /\ k.kind = act[a].kind /\ k.op = act[a].op /\ k.cfg = act[a].cfg
        /\ k.pc = pc /\ k.stopping = act[a].stopping /\ k.victims = act[a].victims
    <2>1. act[a] \in Actor
      BY DEF TypeOK
    <2> QED
      BY ONLY <2>1, pc \in {"wait", "unload", "unloaded", "done"} DEF Actor
  <1> HIDE DEF k
  <1>4. act' = [Terminated(act, V) EXCEPT ![a] = k]
    BY <1>2 DEF T
  <1>5. OnlyFor(a) /\ act'[a] = k
    BY ONLY TypeOK, AloneButV, a \in Actors, a \notin V, CLI \notin V, <1>3, <1>4
  <1> QED
    BY ONLY <1>3, <1>5 DEF Goes

(* The victims are told to end.                                             *)
LEMMA SignalMoves ==
  ASSUME TypeOK, Placed, NEW a \in Actors, Signal(a)
  PROVE  /\ OnlyFor(a)
         /\ Goes(a, "wait", act[a].stopping, act[a].victims)
  <1>1. a \notin act[a].victims /\ CLI \notin act[a].victims
    <2>1. act[a].victims \subseteq Pids
      BY DEF TypeOK, Actor
    <2> QED
      BY <2>1, PidsAssumption DEF Placed, RuntimePlaced, Actors
  <1>2. act' = [Terminated(act, act[a].victims) EXCEPT ![a].pc = "wait"]
    BY DEF Signal
  <1> QED
    BY ONLY TypeOK, GoesButV, a \in Actors, <1>1, <1>2

(* The recorded service is told to end.                                     *)
LEMMA KillMoves ==
  ASSUME TypeOK, Kill(CLI)
  PROVE  /\ OnlyFor(CLI)
         /\ Goes(CLI, "unload", act[CLI].stopping, act[CLI].victims)
  <1>1. CLI \in Actors /\ CLI \notin {state}
    BY PidsAssumption DEF TypeOK, Actors
  <1>2. act' = [Terminated(act, {state}) EXCEPT ![CLI].pc = "unload"]
    BY DEF Kill
  <1> QED
    BY ONLY TypeOK, GoesButV, <1>1, <1>2

(* The service manager tells its child to end.                              *)
LEMMA UnloadMoves ==
  ASSUME TypeOK, Unload(CLI)
  PROVE  /\ OnlyFor(CLI)
         /\ Goes(CLI, "unloaded", act[CLI].stopping, act[CLI].victims)
  <1>1. CLI \in Actors /\ CLI \notin {manager.child}
    BY PidsAssumption DEF TypeOK, Actors
  <1>2. act' = [Terminated(act, {manager.child}) EXCEPT ![CLI].pc = "unloaded"]
    BY DEF Unload
  <1> QED
    BY ONLY TypeOK, GoesButV, <1>1, <1>2

(* The service manager takes the service up again, with or without a new    *)
(* start.                                                                   *)
LEMMA ActivateManagedMoves ==
  ASSUME TypeOK, ActivateManaged
  PROVE  /\ OnlyFor(CLI)
         /\ Goes(CLI, "done", act[CLI].stopping, act[CLI].victims)
  <1>1. CLI \in Actors /\ CLI \notin {manager.child}
    BY PidsAssumption DEF TypeOK, Actors
  <1>2. \/ act' = [Terminated(act, {manager.child}) EXCEPT ![CLI].pc = "done"]
        \/ act' = [act EXCEPT ![CLI].pc = "done"]
    BY DEF ActivateManaged
  <1>3. CASE act' = [Terminated(act, {manager.child}) EXCEPT ![CLI].pc = "done"]
    BY ONLY TypeOK, GoesButV, <1>1, <1>3
  <1>4. CASE act' = [act EXCEPT ![CLI].pc = "done"]
    <2> DEFINE k == [act[CLI] EXCEPT !.pc = "done"]
    <2>1. act[CLI] \in Actor /\ act' = [act EXCEPT ![CLI] = k]
      BY <1>1, <1>4 DEF TypeOK
    <2>2. /\ k \in Actor /\ k.kind = act[CLI].kind /\ k.op = act[CLI].op
          /\ k.cfg = act[CLI].cfg /\ k.pc = "done"
          /\ k.stopping = act[CLI].stopping /\ k.victims = act[CLI].victims
      BY ONLY <2>1 DEF Actor
    <2> QED
      BY ONLY TypeOK, Alone, <1>1, <2>1, <2>2 DEF Goes
  <1> QED
    BY <1>2, <1>3, <1>4

(* An actor that ends.                                                      *)
LEMMA ExitMoves ==
  ASSUME TypeOK, NEW a \in Actors, Exit(a)
  PROVE  OnlyFor(a) /\ act'[a] = Absent
  BY Alone, AbsentTyped DEF Exit

(* A runtime that has no configuration ends, any other one has read it.     *)
LEMMA ReadConfigMoves ==
  ASSUME TypeOK, NEW p \in Pids, ReadConfig(p)
  PROVE  /\ OnlyFor(p)
         /\ \/ act'[p] = Absent
            \/ /\ act'[p].kind = act[p].kind /\ act'[p].op = act[p].op
               /\ act'[p].pc = "list" /\ act'[p].cfg = config
               /\ act'[p].victims = act[p].victims
  <1> DEFINE k == [act[p] EXCEPT !.pc = "list", !.cfg = config]
  <1>1. p \in Actors /\ act[p] \in Actor /\ config \in 0..MaxCommands + 1
    BY DEF TypeOK, Actors
  <1>2. /\ k \in Actor /\ k.kind = act[p].kind /\ k.op = act[p].op
        /\ k.pc = "list" /\ k.cfg = config /\ k.victims = act[p].victims
    BY ONLY <1>1 DEF Actor
  <1>3. act' = [act EXCEPT ![p] = Absent] \/ act' = [act EXCEPT ![p] = k]
    BY DEF ReadConfig
  <1> HIDE DEF k
  <1>4. CASE act' = [act EXCEPT ![p] = Absent]
    BY ONLY TypeOK, Alone, AbsentTyped, <1>1, <1>4
  <1>5. CASE act' = [act EXCEPT ![p] = k]
    BY ONLY TypeOK, Alone, <1>1, <1>2, <1>5
  <1> QED
    BY <1>3, <1>4, <1>5

(* The runtime is told to end at its terminal.                              *)
LEMMA InterruptMoves ==
  ASSUME TypeOK, NEW p \in Pids, Interrupt(p)
  PROVE  OnlyFor(p) /\ Weaker(p)
  <1> DEFINE k == [act[p] EXCEPT !.term = TRUE]
  <1>1. p \in Actors /\ act[p] \in Actor
    BY DEF TypeOK, Actors
  <1>2. k \in Actor
    BY ONLY <1>1 DEF Actor
  <1>3. act' = [act EXCEPT ![p] = k]
    BY DEF Interrupt
  <1>4. OnlyFor(p) /\ act'[p] = k
    BY ONLY TypeOK, Alone, <1>1, <1>2, <1>3
  <1> QED
    BY <1>1, <1>4, ToldToEnd

(* A runtime that begins, with nobody to end.                               *)
Born(p, kind) ==
  /\ act'[p].kind = kind /\ act'[p].op = "run" /\ act'[p].pc = "config"
  /\ act'[p].victims = {}

LEMMA RuntimeBorn ==
  ASSUME NEW kind \in {"service", "manual"}, NEW b \in BOOLEAN
  PROVE  /\ NewRuntime(kind, b) \in Actor
         /\ NewRuntime(kind, b).kind = kind /\ NewRuntime(kind, b).op = "run"
         /\ NewRuntime(kind, b).pc = "config" /\ NewRuntime(kind, b).victims = {}
  <1>1. Absent \in Actor /\ Absent.op = "run" /\ Absent.victims = {}
    BY AbsentTyped DEF Absent
  <1> HIDE DEF Absent
  <1> DEFINE k == [Absent EXCEPT !.kind = kind, !.pc = "config", !.replace = b]
  <1>2. /\ k \in Actor /\ k.kind = kind /\ k.op = Absent.op /\ k.pc = "config"
        /\ k.victims = Absent.victims
    BY ONLY <1>1, kind \in {"service", "manual"}, b \in BOOLEAN DEF Actor
  <1>3. k = NewRuntime(kind, b)
    BY DEF NewRuntime
  <1> QED
    BY ONLY <1>1, <1>2, <1>3

(* A runtime is started by hand.                                            *)
LEMMA RunMoves ==
  ASSUME TypeOK, NEW replace \in BOOLEAN, Run(replace)
  PROVE  \E p \in FreePids : OnlyFor(p) /\ Born(p, "manual") /\ newer' = newer \cup {p}
  <1>1. PICK p \in FreePids : /\ act' = [act EXCEPT ![p] = NewRuntime("manual", replace)]
                              /\ newer' = newer \cup {p}
    BY DEF Run
  <1>2. p \in Actors
    BY DEF FreePids, Actors
  <1>3. OnlyFor(p) /\ act'[p] = NewRuntime("manual", replace)
    BY ONLY TypeOK, Alone, RuntimeBorn, replace \in BOOLEAN, <1>1, <1>2
  <1>4. Born(p, "manual")
    BY <1>3, RuntimeBorn DEF Born
  <1> QED
    BY <1>1, <1>3, <1>4

(* The service manager starts the service again.                            *)
LEMMA RespawnMoves ==
  ASSUME TypeOK, Respawn
  PROVE  \E p \in FreePids :
           /\ OnlyFor(p) /\ Born(p, "service")
           /\ newer' = newer \cup {p} /\ manager' = [manager EXCEPT !.child = p]
  <1>1. PICK p \in FreePids : /\ act' = [act EXCEPT ![p] = NewRuntime("service", FALSE)]
                              /\ newer' = newer \cup {p}
                              /\ manager' = [manager EXCEPT !.child = p]
    BY DEF Respawn
  <1>2. p \in Actors
    BY DEF FreePids, Actors
  <1>3. OnlyFor(p) /\ act'[p] = NewRuntime("service", FALSE)
    BY ONLY TypeOK, Alone, RuntimeBorn, <1>1, <1>2
  <1>4. Born(p, "service")
    BY <1>3, RuntimeBorn DEF Born
  <1> QED
    BY <1>1, <1>3, <1>4

(* An actor by its fields, for the steps that change several of them.        *)
Kinds == {"none", "service", "manual", "command"}
Steps == {"config", "list", "writeback", "scan", "signal", "wait", "reread", "rewrite",
          "clear", "start", "register", "registered", "up", "stopping", "unlist",
          "unlisted", "unstate", "pair", "decide", "kill", "unload", "unloaded",
          "activate", "delete", "done"}

LEMMA ActorFields ==
  Actor = [kind : Kinds, op : Commands \cup {"run"}, pc : Steps,
           action : {"install", "restart"}, replace : BOOLEAN, stopping : BOOLEAN,
           term : BOOLEAN, cfg : 0..MaxCommands + 1, snap : SUBSET Pids,
           victims : SUBSET Pids]
  BY DEF Actor, Kinds, Steps

(* A command begins.                                                        *)
LEMMA CommandMoves ==
  ASSUME TypeOK, NEW op \in Commands, Command(op)
  PROVE  /\ OnlyFor(CLI)
         /\ act'[CLI].kind = "command" /\ act'[CLI].op = op /\ act'[CLI].cfg = 0
         /\ act'[CLI].victims = {}
         /\ act'[CLI].pc = CASE op = "pair" -> "pair"
                             [] op \in {"stop", "uninstall"} -> "kill"
                             [] OTHER -> "list"
         /\ op \in {"install", "restart", "reset"} => act'[CLI].stopping
  <1> DEFINE action == IF op = "restart" THEN "restart" ELSE "install"
             stopping == op \in {"install", "restart", "reset"}
  <1>1. PICK pc \in {"pair", "kill", "list"} :
          /\ act' = [act EXCEPT ![CLI] =
               [Absent EXCEPT !.kind = "command", !.op = op, !.action = action,
                              !.stopping = stopping, !.pc = pc]]
          /\ pc = CASE op = "pair" -> "pair"
                    [] op \in {"stop", "uninstall"} -> "kill"
                    [] OTHER -> "list"
    <2>1. CASE op = "pair"
      BY <2>1 DEF Command
    <2>2. CASE op \in {"stop", "uninstall"}
      BY <2>2 DEF Command
    <2>3. CASE op \notin {"pair", "stop", "uninstall"}
      BY <2>3 DEF Command
    <2> QED
      BY <2>1, <2>2, <2>3
  <1>2. action \in {"install", "restart"} /\ stopping \in BOOLEAN
    OBVIOUS
  <1> HIDE DEF action, stopping
  <1>3. Absent \in Actor /\ Absent.cfg = 0 /\ Absent.victims = {}
    BY AbsentTyped DEF Absent
  <1> HIDE DEF Absent
  <1> DEFINE k == [Absent EXCEPT !.kind = "command", !.op = op, !.action = action,
                                 !.stopping = stopping, !.pc = pc]
  <1>4. k \in Actor
    <2>1. "command" \in Kinds /\ pc \in Steps /\ op \in Commands \cup {"run"}
      BY <1>1 DEF Kinds, Steps
    <2> QED
      BY ONLY <1>2, <1>3, <2>1, ActorFields
  <1>5. /\ k.kind = "command" /\ k.op = op
        /\ k.cfg = Absent.cfg /\ k.victims = Absent.victims
        /\ k.pc = pc /\ k.stopping = stopping
    BY ONLY <1>3 DEF Actor
  <1>6. act' = [act EXCEPT ![CLI] = k]
    BY <1>1
  <1> HIDE DEF k
  <1>7. OnlyFor(CLI) /\ act'[CLI] = k
    BY <1>4, <1>6, Alone DEF Actors
  <1> QED
    BY <1>1, <1>3, <1>5, <1>7 DEF stopping

(* The machine has an identity from now on, a new one or the one it had.    *)
LEMMA PairMoves ==
  ASSUME TypeOK, Pair
  PROVE  /\ OnlyFor(CLI)
         /\ act'[CLI].kind = act[CLI].kind /\ act'[CLI].op = act[CLI].op
         /\ act'[CLI].pc = "decide" /\ act'[CLI].victims = act[CLI].victims
         /\ config' # 0
         /\ \/ config' = config /\ act'[CLI].cfg = 0
            \/ act'[CLI].cfg # 0
         /\ config' \in 0..MaxCommands + 1
  <1> DEFINE n == IF config = 0 THEN commands + 1 ELSE 0
             k == [act[CLI] EXCEPT !.pc = "decide", !.cfg = n]
  <1>1. /\ act[CLI] \in Actor /\ CLI \in Actors
        /\ config \in 0..MaxCommands + 1 /\ commands \in 0..MaxCommands
    BY DEF TypeOK, Actors
  <1>2. /\ config' = IF config = 0 THEN commands + 1 ELSE config
        /\ act' = [act EXCEPT ![CLI] = k]
    BY DEF Pair
  <1>3. n \in 0..MaxCommands + 1 /\ config' \in 0..MaxCommands + 1 /\ config' # 0
        /\ ((config' = config /\ n = 0) \/ n # 0)
    BY <1>1, <1>2, BoundsAssumption
  <1> HIDE DEF n
  <1>4. /\ k \in Actor /\ k.kind = act[CLI].kind /\ k.op = act[CLI].op
        /\ k.pc = "decide" /\ k.cfg = n /\ k.victims = act[CLI].victims
    BY ONLY <1>1, <1>3 DEF Actor
  <1> HIDE DEF k
  <1>5. OnlyFor(CLI) /\ act'[CLI] = k
    BY <1>1, <1>2, <1>4, Alone
  <1> QED
    BY <1>3, <1>4, <1>5

(* A pairing that made an identity is going to stop the runtimes.           *)
LEMMA DecideMoves ==
  ASSUME TypeOK, Decide
  PROVE  /\ OnlyFor(CLI)
         /\ \E b \in BOOLEAN : /\ Goes(CLI, "list", b, act[CLI].victims)
                               /\ act[CLI].cfg # 0 => b
  <1>1. PICK running \in StatusRunning :
          act' = [act EXCEPT ![CLI] =
            [@ EXCEPT !.pc = "list",
                      !.stopping = ~manager.installed \/ ~running \/ act[CLI].cfg # 0,
                      !.action = IF manager.installed THEN "restart" ELSE "install"]]
    BY DEF Decide
  <1> DEFINE b == ~manager.installed \/ ~running \/ act[CLI].cfg # 0
             action == IF manager.installed THEN "restart" ELSE "install"
             k == [act[CLI] EXCEPT !.pc = "list", !.stopping = b, !.action = action]
  <1>2. act[CLI] \in Actor /\ CLI \in Actors
    BY DEF TypeOK, Actors
  <1>3. b \in BOOLEAN /\ action \in {"install", "restart"} /\ (act[CLI].cfg # 0 => b)
    OBVIOUS
  <1>4. act' = [act EXCEPT ![CLI] = k]
    BY <1>1
  <1> HIDE DEF b, action
  <1>5. k \in Actor
    <2>1. "list" \in Steps
      BY DEF Steps
    <2> QED
      BY ONLY <1>2, <1>3, <2>1, ActorFields
  <1>6. /\ k.kind = act[CLI].kind /\ k.op = act[CLI].op /\ k.cfg = act[CLI].cfg
        /\ k.pc = "list" /\ k.stopping = b /\ k.victims = act[CLI].victims
    BY ONLY <1>2 DEF Actor
  <1> HIDE DEF k
  <1>7. OnlyFor(CLI) /\ act'[CLI] = k
    BY <1>2, <1>4, <1>5, Alone
  <1> QED
    BY <1>3, <1>6, <1>7 DEF Goes

(* The child of the service manager is gone.                                *)
LEMMA UnloadedMoves ==
  ASSUME TypeOK, Unloaded(CLI)
  PROVE  /\ OnlyFor(CLI)
         /\ act[CLI].op = "reset" => Goes(CLI, "delete", act[CLI].stopping, act[CLI].victims)
         /\ act[CLI].op # "reset" => Goes(CLI, "list", TRUE, act[CLI].victims)
         /\ manager.child \in Pids => act'[manager.child] = Absent
  <1> DEFINE k1 == [act[CLI] EXCEPT !.pc = "delete"]
             k2 == [act[CLI] EXCEPT !.pc = "list", !.stopping = TRUE]
             k == IF act[CLI].op = "reset" THEN k1 ELSE k2
  <1>1. act[CLI] \in Actor /\ CLI \in Actors /\ CLI # manager.child
    BY PidsAssumption DEF TypeOK, Actors
  <1>2. /\ k1 \in Actor /\ k1.kind = act[CLI].kind /\ k1.op = act[CLI].op
        /\ k1.cfg = act[CLI].cfg
        /\ k1.pc = "delete" /\ k1.stopping = act[CLI].stopping /\ k1.victims = act[CLI].victims
    BY ONLY <1>1 DEF Actor
  <1>3. /\ k2 \in Actor /\ k2.kind = act[CLI].kind /\ k2.op = act[CLI].op
        /\ k2.cfg = act[CLI].cfg
        /\ k2.pc = "list" /\ k2.stopping = TRUE /\ k2.victims = act[CLI].victims
    BY ONLY <1>1 DEF Actor
  <1>4. act' = [x \in Actors |-> IF x = manager.child THEN Absent
                                 ELSE IF x = CLI THEN k ELSE act[x]]
    BY DEF Unloaded
  <1> HIDE DEF k1, k2
  <1>5. k \in Actor
    BY <1>2, <1>3
  <1> HIDE DEF k
  <1>6. \A x \in Actors : act[x] \in Actor
    BY DEF TypeOK
  <1>7. \A x \in Actors : act'[x] = IF x = manager.child THEN Absent
                                    ELSE IF x = CLI THEN k ELSE act[x]
    BY <1>4
  <1>8. act' \in [Actors -> Actor]
    BY ONLY <1>4, <1>5, <1>6, AbsentTyped
  <1>9. \A x \in Actors \ {CLI} : act'[x] \in {Absent, act[x]}
    BY <1>7
  <1>10. OnlyFor(CLI)
    BY <1>8, <1>9 DEF OnlyFor, Weaker, Stays
  <1>11. act'[CLI] = k /\ (manager.child \in Pids => act'[manager.child] = Absent)
    BY <1>1, <1>7 DEF Actors
  <1> QED
    BY <1>2, <1>3, <1>10, <1>11 DEF Goes, k

(* Without a service manager a runtime is started by the command, if any is.*)
LEMMA ActivateDetachedMoves ==
  ASSUME TypeOK, ActivateDetached
  PROVE  /\ Goes(CLI, "done", act[CLI].stopping, act[CLI].victims)
         /\ act' \in [Actors -> Actor]
         /\ \/ newer' = newer /\ OnlyFor(CLI)
            \/ \E p \in FreePids :
                 /\ Born(p, "service") /\ newer' = newer \cup {p}
                 /\ \A x \in Actors \ {CLI, p} : Weaker(x)
  <1> DEFINE T == IF method = "cron" THEN Terminated(act, {state}) ELSE act
             k == [act[CLI] EXCEPT !.pc = "done"]
  <1>1. act[CLI] \in Actor /\ CLI \in Actors /\ CLI \notin {state} /\ CLI \notin Pids
    BY PidsAssumption DEF TypeOK, Actors
  <1>2. /\ k \in Actor /\ k.kind = act[CLI].kind /\ k.op = act[CLI].op
        /\ k.cfg = act[CLI].cfg
        /\ k.pc = "done" /\ k.stopping = act[CLI].stopping /\ k.victims = act[CLI].victims
    BY ONLY <1>1 DEF Actor
  <1>3. /\ T \in [Actors -> Actor] /\ T[CLI] = act[CLI]
        /\ \A x \in Actors : T[x] \in {Absent, act[x], [act[x] EXCEPT !.term = TRUE]}
    <2>1. CASE method = "cron"
      BY <1>1, <2>1, TerminatedKeeps
    <2>2. CASE method # "cron"
      BY <2>2, <1>1 DEF TypeOK
    <2> QED
      BY <2>1, <2>2
  <1>4. \/ /\ act' = [T EXCEPT ![CLI].pc = "done"] /\ newer' = newer
        \/ \E p \in FreePids :
             /\ act' = [T EXCEPT ![p] = NewRuntime("service", FALSE), ![CLI].pc = "done"]
             /\ newer' = newer \cup {p}
    BY DEF ActivateDetached
  <1> HIDE DEF T
  <1>5. CASE act' = [T EXCEPT ![CLI].pc = "done"] /\ newer' = newer
    <2>1. act' = [T EXCEPT ![CLI] = k]
      BY <1>3, <1>5
    <2> HIDE DEF k
    <2>2. /\ act' \in [Actors -> Actor] /\ act'[CLI] = k
          /\ \A x \in Actors \ {CLI} : act'[x] = T[x]
      BY ONLY <1>1, <1>2, <1>3, <2>1
    <2>3. \A x \in Actors \ {CLI} : Weaker(x)
      BY <1>3, <2>2, ToldToEnd
    <2> QED
      BY ONLY <1>2, <1>5, <2>2, <2>3 DEF OnlyFor, Goes
  <1>6. ASSUME NEW p \in FreePids,
               act' = [T EXCEPT ![p] = NewRuntime("service", FALSE), ![CLI].pc = "done"],
               newer' = newer \cup {p}
        PROVE  /\ Goes(CLI, "done", act[CLI].stopping, act[CLI].victims)
               /\ act' \in [Actors -> Actor]
               /\ Born(p, "service")
               /\ \A x \in Actors \ {CLI, p} : Weaker(x)
    <2> DEFINE n == NewRuntime("service", FALSE)
    <2>1. p \in Actors /\ p # CLI
      BY <1>1 DEF FreePids, Actors
    <2>2. /\ n \in Actor /\ n.kind = "service" /\ n.op = "run" /\ n.pc = "config"
          /\ n.victims = {}
      BY RuntimeBorn
    <2> HIDE DEF n
    <2>3. act' = [T EXCEPT ![p] = n, ![CLI].pc = "done"]
      BY <1>6 DEF n
    <2>4. act' = [T EXCEPT ![p] = n, ![CLI] = k]
      BY ONLY <1>1, <1>3, <2>1, <2>3
    <2> HIDE DEF k
    <2>5. /\ act' \in [Actors -> Actor] /\ act'[CLI] = k /\ act'[p] = n
          /\ \A x \in Actors \ {CLI, p} : act'[x] = T[x]
      BY ONLY <1>1, <1>2, <1>3, <2>1, <2>2, <2>4
    <2>6. \A x \in Actors \ {CLI, p} : Weaker(x)
      BY <1>3, <2>5, ToldToEnd
    <2> QED
      BY ONLY <1>2, <2>2, <2>5, <2>6 DEF Goes, Born
  <1> QED
    BY <1>4, <1>5, <1>6

-----------------------------------------------------------------------------
(* Every step keeps the invariant *)

(* What there is of an actor that is not there.                             *)
LEMMA AbsentIs ==
  /\ Absent.kind = "none" /\ Absent.op = "run" /\ Absent.pc = "done"
  /\ Absent.victims = {}
  BY DEF Absent

(* Excluded asks only about the one that moves.                             *)
LEMMA ExcludedAlone ==
  ASSUME Excluded, NEW a, \A x \in Pids \ {a} : Weaker(x),
         \A q \in Pids \ {a} :
           a \in Pids /\ Scanned(a)' /\ Scanned(q) => Awaits(a, q)' \/ Awaits(q, a)
  PROVE  Excluded'
  <1> SUFFICES ASSUME NEW p \in Pids, NEW q \in Pids, p # q, Scanned(p)', Scanned(q)'
               PROVE  Awaits(p, q)' \/ Awaits(q, p)'
    BY DEF Excluded
  <1>1. \A x \in Pids \ {a} : Scanned(x)' => Scanned(x) /\ \A y : Awaits(x, y) => Awaits(x, y)'
    BY AbsentIs DEF Weaker, Stays, Scanned, Awaits
  <1>2. CASE p # a /\ q # a
    BY <1>1, <1>2 DEF Excluded
  <1>3. CASE p = a
    BY <1>1, <1>3
  <1>4. CASE q = a
    BY <1>1, <1>4
  <1> QED
    BY <1>2, <1>3, <1>4

(* Of two runtimes that go on one still waits for the other.                *)
LEMMA ExcludedStep ==
  ASSUME TypeOK, Placed, Excluded, ~Hidden, [Next]_vars
  PROVE  Excluded'
  <1>1. CASE UNCHANGED vars
    BY <1>1 DEF vars, Excluded, Scanned, Awaits, Weaker, Stays
  <1>2. ASSUME NEW a \in Actors, List(a)
        PROVE  Excluded'
    <2>1. OnlyFor(a)
      BY <1>2, ListMoves
    <2>2. \A x \in Pids \ {a} : Weaker(x)
      BY <2>1 DEF OnlyFor, Actors
    <2>3. ASSUME NEW q \in Pids \ {a}, a \in Pids, Scanned(a)', Scanned(q)
          PROVE  Awaits(a, q)' \/ Awaits(q, a)
      BY <1>2, <2>3, ListMoves, AbsentIs DEF Goes, Weaker, Stays, Excluded,
          Scanned, Awaits, List, Load
    <2> QED
      BY <2>2, <2>3, ExcludedAlone
  <1>3. ASSUME NEW a \in Actors, WriteBack(a)
        PROVE  Excluded'
    <2>1. OnlyFor(a)
      BY <1>3, WriteBackMoves
    <2>2. \A x \in Pids \ {a} : Weaker(x)
      BY <2>1 DEF OnlyFor, Actors
    <2>3. ASSUME NEW q \in Pids \ {a}, a \in Pids, Scanned(a)', Scanned(q)
          PROVE  Awaits(a, q)' \/ Awaits(q, a)
      BY <1>3, <2>3, WriteBackMoves, AbsentIs DEF Goes, Weaker, Stays, Excluded,
          Scanned, Awaits, WriteBack
    <2> QED
      BY <2>2, <2>3, ExcludedAlone
  <1>4. ASSUME NEW a \in Actors, Scan(a)
        PROVE  Excluded'
    <2>1. OnlyFor(a)
      BY <1>4, ScanMoves
    <2>2. \A x \in Pids \ {a} : Weaker(x)
      BY <2>1 DEF OnlyFor, Actors
    <2>3. ASSUME NEW q \in Pids \ {a}, a \in Pids, Scanned(a)', Scanned(q)
          PROVE  Awaits(a, q)' \/ Awaits(q, a)
      <3>1. q \in Found(a)
        <4>1. act[q].kind # "none"
          BY <2>3 DEF Scanned, Placed, RuntimePlaced
        <4> QED
          BY <4>1 DEF Found, Visible, Running, Alive
      <3>2. Goes(a, "signal", TRUE, Found(a))
        BY <1>4, <2>3, <3>1, ScanMoves, AbsentIs DEF Scanned, Goes
      <3> QED
        BY <3>1, <3>2 DEF Goes, Awaits
    <2> QED
      BY <2>2, <2>3, ExcludedAlone
  <1>5. ASSUME NEW a \in Actors, Signal(a)
        PROVE  Excluded'
    <2>1. OnlyFor(a)
      BY <1>5, SignalMoves
    <2>2. \A x \in Pids \ {a} : Weaker(x)
      BY <2>1 DEF OnlyFor, Actors
    <2>3. ASSUME NEW q \in Pids \ {a}, a \in Pids, Scanned(a)', Scanned(q)
          PROVE  Awaits(a, q)' \/ Awaits(q, a)
      BY <1>5, <2>3, SignalMoves, AbsentIs DEF Goes, Weaker, Stays, Excluded,
          Scanned, Awaits, Signal
    <2> QED
      BY <2>2, <2>3, ExcludedAlone
  <1>6. ASSUME NEW a \in Actors, Waited(a)
        PROVE  Excluded'
    <2>1. OnlyFor(a)
      BY <1>6, WaitedMoves
    <2>2. \A x \in Pids \ {a} : Weaker(x)
      BY <2>1 DEF OnlyFor, Actors
    <2>3. ASSUME NEW q \in Pids \ {a}, a \in Pids, Scanned(a)', Scanned(q)
          PROVE  Awaits(a, q)' \/ Awaits(q, a)
      BY <1>6, <2>3, WaitedMoves, AbsentIs DEF Goes, Excluded, Scanned, Awaits,
          Waited, Gone, Running, Alive, Placed, RuntimePlaced
    <2> QED
      BY <2>2, <2>3, ExcludedAlone
  <1>7. ASSUME NEW a \in Actors, Reread(a)
        PROVE  Excluded'
    <2>1. OnlyFor(a)
      BY <1>7, RereadMoves
    <2>2. \A x \in Pids \ {a} : Weaker(x)
      BY <2>1 DEF OnlyFor, Actors
    <2>3. ASSUME NEW q \in Pids \ {a}, a \in Pids, Scanned(a)', Scanned(q)
          PROVE  Awaits(a, q)' \/ Awaits(q, a)
      BY <1>7, <2>3, RereadMoves, AbsentIs DEF Goes, Weaker, Stays, Excluded,
          Scanned, Awaits, Reread, Load
    <2> QED
      BY <2>2, <2>3, ExcludedAlone
  <1>8. ASSUME NEW a \in Actors, Rewrite(a)
        PROVE  Excluded'
    <2>1. OnlyFor(a)
      BY <1>8, RewriteMoves
    <2>2. \A x \in Pids \ {a} : Weaker(x)
      BY <2>1 DEF OnlyFor, Actors
    <2>3. ASSUME NEW q \in Pids \ {a}, a \in Pids, Scanned(a)', Scanned(q)
          PROVE  Awaits(a, q)' \/ Awaits(q, a)
      BY <1>8, <2>3, RewriteMoves, AbsentIs DEF Goes, Weaker, Stays, Excluded,
          Scanned, Awaits, Rewrite
    <2> QED
      BY <2>2, <2>3, ExcludedAlone
  <1>9. ASSUME NEW a \in Actors, Clear(a)
        PROVE  Excluded'
    <2>1. OnlyFor(a)
      BY <1>9, ClearMoves
    <2>2. \A x \in Pids \ {a} : Weaker(x)
      BY <2>1 DEF OnlyFor, Actors
    <2>3. ASSUME NEW q \in Pids \ {a}, a \in Pids, Scanned(a)', Scanned(q)
          PROVE  Awaits(a, q)' \/ Awaits(q, a)
      BY <1>9, <2>3, ClearMoves, AbsentIs DEF Goes, Weaker, Stays, Excluded,
          Scanned, Awaits, Clear, Cleared
    <2> QED
      BY <2>2, <2>3, ExcludedAlone
  <1>10. ASSUME NEW a \in Actors, NEW p \in Pids, KillVictim(a, p)
        PROVE  Excluded'
    <2>1. OnlyFor(p) /\ act'[p] = Absent
      BY <1>10, ExitMoves DEF KillVictim, Actors
    <2>2. \A x \in Pids \ {p} : Weaker(x)
      BY <2>1 DEF OnlyFor, Actors
    <2>3. ASSUME NEW q \in Pids \ {p}, p \in Pids, Scanned(p)', Scanned(q)
          PROVE  Awaits(p, q)' \/ Awaits(q, p)
      BY <2>1, <2>3, AbsentIs DEF Scanned
    <2> QED
      BY <2>2, <2>3, ExcludedAlone
  <1>11. ASSUME NEW p \in Pids, ReadConfig(p)
        PROVE  Excluded'
    <2>1. OnlyFor(p)
      BY <1>11, ReadConfigMoves
    <2>2. \A x \in Pids \ {p} : Weaker(x)
      BY <2>1 DEF OnlyFor, Actors
    <2>3. ASSUME NEW q \in Pids \ {p}, p \in Pids, Scanned(p)', Scanned(q)
          PROVE  Awaits(p, q)' \/ Awaits(q, p)
      BY <1>11, <2>3, ReadConfigMoves, AbsentIs DEF Goes, Weaker, Stays, Excluded,
          Scanned, Awaits, ReadConfig
    <2> QED
      BY <2>2, <2>3, ExcludedAlone
  <1>12. ASSUME NEW p \in Pids, Start(p)
        PROVE  Excluded'
    <2>1. OnlyFor(p)
      BY <1>12, StartMoves
    <2>2. \A x \in Pids \ {p} : Weaker(x)
      BY <2>1 DEF OnlyFor, Actors
    <2>3. ASSUME NEW q \in Pids \ {p}, p \in Pids, Scanned(p)', Scanned(q)
          PROVE  Awaits(p, q)' \/ Awaits(q, p)
      BY <1>12, <2>3, StartMoves DEF Goes, Excluded, Scanned, Awaits, Start
    <2> QED
      BY <2>2, <2>3, ExcludedAlone
  <1>13. ASSUME NEW p \in Pids, Register(p)
        PROVE  Excluded'
    <2>1. OnlyFor(p)
      BY <1>13, RegisterMoves
    <2>2. \A x \in Pids \ {p} : Weaker(x)
      BY <2>1 DEF OnlyFor, Actors
    <2>3. ASSUME NEW q \in Pids \ {p}, p \in Pids, Scanned(p)', Scanned(q)
          PROVE  Awaits(p, q)' \/ Awaits(q, p)
      BY <1>13, <2>3, RegisterMoves, AbsentIs DEF Goes, Weaker, Stays, Excluded,
          Scanned, Awaits, Register, Load
    <2> QED
      BY <2>2, <2>3, ExcludedAlone
  <1>14. ASSUME NEW p \in Pids, Registered(p)
        PROVE  Excluded'
    <2>1. OnlyFor(p)
      BY <1>14, RegisteredMoves
    <2>2. \A x \in Pids \ {p} : Weaker(x)
      BY <2>1 DEF OnlyFor, Actors
    <2>3. ASSUME NEW q \in Pids \ {p}, p \in Pids, Scanned(p)', Scanned(q)
          PROVE  Awaits(p, q)' \/ Awaits(q, p)
      BY <1>14, <2>3, RegisteredMoves, AbsentIs DEF Goes, Weaker, Stays, Excluded,
          Scanned, Awaits, Registered
    <2> QED
      BY <2>2, <2>3, ExcludedAlone
  <1>15. ASSUME NEW p \in Pids, Interrupt(p)
        PROVE  Excluded'
    <2>1. OnlyFor(p)
      BY <1>15, InterruptMoves
    <2>2. \A x \in Pids \ {p} : Weaker(x)
      BY <2>1 DEF OnlyFor, Actors
    <2>3. ASSUME NEW q \in Pids \ {p}, p \in Pids, Scanned(p)', Scanned(q)
          PROVE  Awaits(p, q)' \/ Awaits(q, p)
      BY <1>15, <2>3, InterruptMoves, AbsentIs DEF Goes, Weaker, Stays, Excluded,
          Scanned, Awaits, Interrupt
    <2> QED
      BY <2>2, <2>3, ExcludedAlone
  <1>16. ASSUME NEW p \in Pids, Shutdown(p)
        PROVE  Excluded'
    <2>1. OnlyFor(p)
      BY <1>16, ShutdownMoves
    <2>2. \A x \in Pids \ {p} : Weaker(x)
      BY <2>1 DEF OnlyFor, Actors
    <2>3. ASSUME NEW q \in Pids \ {p}, p \in Pids, Scanned(p)', Scanned(q)
          PROVE  Awaits(p, q)' \/ Awaits(q, p)
      BY <1>16, <2>3, ShutdownMoves, AbsentIs DEF Goes, Weaker, Stays, Excluded,
          Scanned, Awaits, Shutdown
    <2> QED
      BY <2>2, <2>3, ExcludedAlone
  <1>17. ASSUME NEW p \in Pids, RuntimeStopped(p)
        PROVE  Excluded'
    <2>1. OnlyFor(p)
      BY <1>17, RuntimeStoppedMoves
    <2>2. \A x \in Pids \ {p} : Weaker(x)
      BY <2>1 DEF OnlyFor, Actors
    <2>3. ASSUME NEW q \in Pids \ {p}, p \in Pids, Scanned(p)', Scanned(q)
          PROVE  Awaits(p, q)' \/ Awaits(q, p)
      BY <1>17, <2>3, RuntimeStoppedMoves, AbsentIs DEF Goes, Weaker, Stays,
          Excluded, Scanned, Awaits, RuntimeStopped
    <2> QED
      BY <2>2, <2>3, ExcludedAlone
  <1>18. ASSUME NEW p \in Pids, Unlist(p)
        PROVE  Excluded'
    <2>1. OnlyFor(p)
      BY <1>18, UnlistMoves
    <2>2. \A x \in Pids \ {p} : Weaker(x)
      BY <2>1 DEF OnlyFor, Actors
    <2>3. ASSUME NEW q \in Pids \ {p}, p \in Pids, Scanned(p)', Scanned(q)
          PROVE  Awaits(p, q)' \/ Awaits(q, p)
      BY <1>18, <2>3, UnlistMoves, AbsentIs DEF Goes, Weaker, Stays, Excluded,
          Scanned, Awaits, Unlist, Load
    <2> QED
      BY <2>2, <2>3, ExcludedAlone
  <1>19. ASSUME NEW p \in Pids, Unlisted(p)
        PROVE  Excluded'
    <2>1. OnlyFor(p)
      BY <1>19, UnlistedMoves
    <2>2. \A x \in Pids \ {p} : Weaker(x)
      BY <2>1 DEF OnlyFor, Actors
    <2>3. ASSUME NEW q \in Pids \ {p}, p \in Pids, Scanned(p)', Scanned(q)
          PROVE  Awaits(p, q)' \/ Awaits(q, p)
      BY <1>19, <2>3, UnlistedMoves, AbsentIs DEF Goes, Weaker, Stays, Excluded,
          Scanned, Awaits, Unlisted
    <2> QED
      BY <2>2, <2>3, ExcludedAlone
  <1>20. ASSUME NEW p \in Pids, Unstate(p)
        PROVE  Excluded'
    <2>1. OnlyFor(p) /\ act'[p] = Absent
      BY <1>20, ExitMoves DEF Unstate, Actors
    <2>2. \A x \in Pids \ {p} : Weaker(x)
      BY <2>1 DEF OnlyFor, Actors
    <2>3. ASSUME NEW q \in Pids \ {p}, p \in Pids, Scanned(p)', Scanned(q)
          PROVE  Awaits(p, q)' \/ Awaits(q, p)
      BY <2>1, <2>3, AbsentIs DEF Scanned
    <2> QED
      BY <2>2, <2>3, ExcludedAlone
  <1>21. ASSUME NEW p \in Pids, Die(p)
        PROVE  Excluded'
    <2>1. OnlyFor(p) /\ act'[p] = Absent
      BY <1>21, ExitMoves DEF Die, Actors
    <2>2. \A x \in Pids \ {p} : Weaker(x)
      BY <2>1 DEF OnlyFor, Actors
    <2>3. ASSUME NEW q \in Pids \ {p}, p \in Pids, Scanned(p)', Scanned(q)
          PROVE  Awaits(p, q)' \/ Awaits(q, p)
      BY <2>1, <2>3, AbsentIs DEF Scanned
    <2> QED
      BY <2>2, <2>3, ExcludedAlone
  <1>22. ASSUME NEW replace \in BOOLEAN, Run(replace)
        PROVE  Excluded'
    <2>1. PICK p \in FreePids : OnlyFor(p) /\ Born(p, "manual")
      BY <1>22, RunMoves
    <2>2. /\ \A x \in Pids \ {p} : Weaker(x)
          /\ ~Scanned(p)'
      BY <2>1 DEF OnlyFor, Actors, Born, Scanned
    <2> QED
      BY <2>2, ExcludedAlone
  <1>23. CASE Respawn
    <2>1. PICK p \in FreePids : OnlyFor(p) /\ Born(p, "service")
      BY <1>23, RespawnMoves
    <2>2. /\ \A x \in Pids \ {p} : Weaker(x)
          /\ ~Scanned(p)'
      BY <2>1 DEF OnlyFor, Actors, Born, Scanned
    <2> QED
      BY <2>2, ExcludedAlone
  <1>24. ASSUME NEW op \in Commands, Command(op)
        PROVE  Excluded'
    <2>1. OnlyFor(CLI)
      BY <1>24, CommandMoves
    <2>2. \A x \in Pids \ {CLI} : Weaker(x)
      BY <2>1 DEF OnlyFor, Actors
    <2> QED
      BY <2>2, PidsAssumption, ExcludedAlone
  <1>25. CASE Pair
    <2>1. OnlyFor(CLI)
      BY <1>25, PairMoves
    <2>2. \A x \in Pids \ {CLI} : Weaker(x)
      BY <2>1 DEF OnlyFor, Actors
    <2> QED
      BY <2>2, PidsAssumption, ExcludedAlone
  <1>26. CASE Decide
    <2>1. OnlyFor(CLI)
      BY <1>26, DecideMoves
    <2>2. \A x \in Pids \ {CLI} : Weaker(x)
      BY <2>1 DEF OnlyFor, Actors
    <2> QED
      BY <2>2, PidsAssumption, ExcludedAlone
  <1>27. CASE Kill(CLI)
    <2>1. OnlyFor(CLI)
      BY <1>27, KillMoves
    <2>2. \A x \in Pids \ {CLI} : Weaker(x)
      BY <2>1 DEF OnlyFor, Actors
    <2> QED
      BY <2>2, PidsAssumption, ExcludedAlone
  <1>28. CASE Unload(CLI)
    <2>1. OnlyFor(CLI)
      BY <1>28, UnloadMoves
    <2>2. \A x \in Pids \ {CLI} : Weaker(x)
      BY <2>1 DEF OnlyFor, Actors
    <2> QED
      BY <2>2, PidsAssumption, ExcludedAlone
  <1>29. CASE Unloaded(CLI)
    <2>1. OnlyFor(CLI)
      BY <1>29, UnloadedMoves
    <2>2. \A x \in Pids \ {CLI} : Weaker(x)
      BY <2>1 DEF OnlyFor, Actors
    <2> QED
      BY <2>2, PidsAssumption, ExcludedAlone
  <1>30. CASE ActivateManaged
    <2>1. OnlyFor(CLI)
      BY <1>30, ActivateManagedMoves
    <2>2. \A x \in Pids \ {CLI} : Weaker(x)
      BY <2>1 DEF OnlyFor, Actors
    <2> QED
      BY <2>2, PidsAssumption, ExcludedAlone
  <1>31. CASE ActivateDetached
    <2>1. CASE OnlyFor(CLI)
      <3>1. \A x \in Pids \ {CLI} : Weaker(x)
        BY <2>1 DEF OnlyFor, Actors
      <3> QED
        BY <3>1, PidsAssumption, ExcludedAlone
    <2>2. CASE \E p \in FreePids : /\ Born(p, "service")
                                   /\ \A x \in Actors \ {CLI, p} : Weaker(x)
      <3>1. PICK p \in FreePids : /\ Born(p, "service")
                                  /\ \A x \in Actors \ {CLI, p} : Weaker(x)
        BY <2>2
      <3>2. \A x \in Pids \ {p} : Weaker(x)
        BY <3>1, PidsAssumption DEF Actors
      <3>3. ~Scanned(p)'
        BY <3>1 DEF Born, Scanned
      <3> QED
        BY <3>2, <3>3, ExcludedAlone
    <2> QED
      BY <1>31, ActivateDetachedMoves, <2>1, <2>2
  <1>32. CASE DeleteConfig
    <2>1. OnlyFor(CLI)
      BY <1>32, DeleteConfigMoves
    <2>2. \A x \in Pids \ {CLI} : Weaker(x)
      BY <2>1 DEF OnlyFor, Actors
    <2> QED
      BY <2>2, PidsAssumption, ExcludedAlone
  <1>33. CASE End
    <2>1. OnlyFor(CLI)
      BY <1>33, ExitMoves DEF End, Actors
    <2>2. \A x \in Pids \ {CLI} : Weaker(x)
      BY <2>1 DEF OnlyFor, Actors
    <2> QED
      BY <2>2, PidsAssumption, ExcludedAlone
  <1>34. QED
    BY <1>1, <1>2, <1>3, <1>4, <1>5, <1>6, <1>7, <1>8, <1>9, <1>10, <1>11,
       <1>12, <1>13, <1>14, <1>15, <1>16, <1>17, <1>18, <1>19, <1>20, <1>21,
       <1>22, <1>23, <1>24, <1>25, <1>26, <1>27, <1>28, <1>29, <1>30, <1>31,
       <1>32, <1>33 DEF Next, ActorStep, RuntimeStep, CommandStep

(* Every step keeps the types.                                              *)
LEMMA TypeStep ==
  ASSUME TypeOK, Placed, [Next]_vars
  PROVE  TypeOK'
  <1> USE DEF files, bounds
  <1>1. CASE UNCHANGED vars
    BY <1>1 DEF vars, TypeOK
  <1>2. ASSUME NEW a \in Actors, List(a)
        PROVE  TypeOK'
    <2>1. act' \in [Actors -> Actor]
      BY <1>2, ListMoves DEF OnlyFor
    <2> QED
      BY <1>2, <2>1, BoundsAssumption DEF List, Load, TypeOK, Placed, Running,
          FreePids, files, bounds
  <1>3. ASSUME NEW a \in Actors, WriteBack(a)
        PROVE  TypeOK'
    <2>1. act' \in [Actors -> Actor]
      BY <1>3, WriteBackMoves DEF OnlyFor
    <2>2. act[a].snap \subseteq Pids
      BY DEF TypeOK, Actor, Actors
    <2> QED
      BY <1>3, <2>1, <2>2, BoundsAssumption DEF WriteBack, TypeOK, Placed, Running,
          FreePids, files, bounds
  <1>4. ASSUME NEW a \in Actors, Scan(a)
        PROVE  TypeOK'
    <2>1. act' \in [Actors -> Actor]
      BY <1>4, ScanMoves DEF OnlyFor
    <2> QED
      BY <1>4, <2>1, BoundsAssumption DEF Scan, TypeOK, Placed, Running, FreePids,
          files, bounds
  <1>5. ASSUME NEW a \in Actors, Signal(a)
        PROVE  TypeOK'
    <2>1. act' \in [Actors -> Actor]
      BY <1>5, SignalMoves DEF OnlyFor
    <2> QED
      BY <1>5, <2>1, BoundsAssumption DEF Signal, TypeOK, Placed, Running,
          FreePids, files, bounds
  <1>6. ASSUME NEW a \in Actors, Waited(a)
        PROVE  TypeOK'
    <2>1. act' \in [Actors -> Actor]
      BY <1>6, WaitedMoves DEF OnlyFor
    <2> QED
      BY <1>6, <2>1, BoundsAssumption DEF Waited, Gone, TypeOK, Placed, Running,
          FreePids, files, bounds
  <1>7. ASSUME NEW a \in Actors, Reread(a)
        PROVE  TypeOK'
    <2>1. act' \in [Actors -> Actor]
      BY <1>7, RereadMoves DEF OnlyFor
    <2> QED
      BY <1>7, <2>1, BoundsAssumption DEF Reread, Load, TypeOK, Placed, Running,
          FreePids, files, bounds
  <1>8. ASSUME NEW a \in Actors, Rewrite(a)
        PROVE  TypeOK'
    <2>1. act' \in [Actors -> Actor]
      BY <1>8, RewriteMoves DEF OnlyFor
    <2>2. act[a].snap \subseteq Pids
      BY DEF TypeOK, Actor, Actors
    <2> QED
      BY <1>8, <2>1, <2>2, BoundsAssumption DEF Rewrite, TypeOK, Placed, Running,
          FreePids, files, bounds
  <1>9. ASSUME NEW a \in Actors, Clear(a)
        PROVE  TypeOK'
    <2>1. act' \in [Actors -> Actor]
      BY <1>9, ClearMoves DEF OnlyFor
    <2> QED
      BY <1>9, <2>1, BoundsAssumption DEF Clear, Cleared, TypeOK, Placed, Running,
          FreePids, files, bounds
  <1>10. ASSUME NEW a \in Actors, NEW p \in Pids, KillVictim(a, p)
        PROVE  TypeOK'
    <2>1. act' \in [Actors -> Actor]
      BY <1>10, ExitMoves DEF KillVictim, OnlyFor, Actors
    <2> QED
      BY <1>10, <2>1, BoundsAssumption DEF KillVictim, TypeOK, Placed, Running,
          FreePids, files, bounds
  <1>11. ASSUME NEW p \in Pids, ReadConfig(p)
        PROVE  TypeOK'
    <2>1. act' \in [Actors -> Actor]
      BY <1>11, ReadConfigMoves DEF OnlyFor
    <2> QED
      BY <1>11, <2>1, BoundsAssumption DEF ReadConfig, TypeOK, Placed, Running,
          FreePids, files, bounds
  <1>12. ASSUME NEW p \in Pids, Start(p)
        PROVE  TypeOK'
    <2>1. act' \in [Actors -> Actor]
      BY <1>12, StartMoves DEF OnlyFor
    <2> QED
      BY <1>12, <2>1, BoundsAssumption DEF Start, TypeOK, Placed, Running, FreePids,
          files, bounds
  <1>13. ASSUME NEW p \in Pids, Register(p)
        PROVE  TypeOK'
    <2>1. act' \in [Actors -> Actor]
      BY <1>13, RegisterMoves DEF OnlyFor
    <2> QED
      BY <1>13, <2>1, BoundsAssumption DEF Register, Load, TypeOK, Placed, Running,
          FreePids, files, bounds
  <1>14. ASSUME NEW p \in Pids, Registered(p)
        PROVE  TypeOK'
    <2>1. act' \in [Actors -> Actor]
      BY <1>14, RegisteredMoves DEF OnlyFor
    <2>2. act[p].snap \subseteq Pids
      BY DEF TypeOK, Actor, Actors
    <2> QED
      BY <1>14, <2>1, <2>2, BoundsAssumption DEF Registered, TypeOK, Placed, Running,
          FreePids, files, bounds
  <1>15. ASSUME NEW p \in Pids, Interrupt(p)
        PROVE  TypeOK'
    <2>1. act' \in [Actors -> Actor]
      BY <1>15, InterruptMoves DEF OnlyFor
    <2> QED
      BY <1>15, <2>1, BoundsAssumption DEF Interrupt, TypeOK, Placed, Running,
          FreePids, files, bounds
  <1>16. ASSUME NEW p \in Pids, Shutdown(p)
        PROVE  TypeOK'
    <2>1. act' \in [Actors -> Actor]
      BY <1>16, ShutdownMoves DEF OnlyFor
    <2> QED
      BY <1>16, <2>1, BoundsAssumption DEF Shutdown, TypeOK, Placed, Running,
          FreePids, files, bounds
  <1>17. ASSUME NEW p \in Pids, RuntimeStopped(p)
        PROVE  TypeOK'
    <2>1. act' \in [Actors -> Actor]
      BY <1>17, RuntimeStoppedMoves DEF OnlyFor
    <2> QED
      BY <1>17, <2>1, BoundsAssumption DEF RuntimeStopped, TypeOK, Placed, Running,
          FreePids, files, bounds
  <1>18. ASSUME NEW p \in Pids, Unlist(p)
        PROVE  TypeOK'
    <2>1. act' \in [Actors -> Actor]
      BY <1>18, UnlistMoves DEF OnlyFor
    <2> QED
      BY <1>18, <2>1, BoundsAssumption DEF Unlist, Load, TypeOK, Placed, Running,
          FreePids, files, bounds
  <1>19. ASSUME NEW p \in Pids, Unlisted(p)
        PROVE  TypeOK'
    <2>1. act' \in [Actors -> Actor]
      BY <1>19, UnlistedMoves DEF OnlyFor
    <2>2. act[p].snap \subseteq Pids
      BY DEF TypeOK, Actor, Actors
    <2> QED
      BY <1>19, <2>1, <2>2, BoundsAssumption DEF Unlisted, TypeOK, Placed, Running,
          FreePids, files, bounds
  <1>20. ASSUME NEW p \in Pids, Unstate(p)
        PROVE  TypeOK'
    <2>1. act' \in [Actors -> Actor]
      BY <1>20, ExitMoves DEF Unstate, OnlyFor, Actors
    <2> QED
      BY <1>20, <2>1, BoundsAssumption DEF Unstate, TypeOK, Placed, Running,
          FreePids, files, bounds
  <1>21. ASSUME NEW p \in Pids, Die(p)
        PROVE  TypeOK'
    <2>1. act' \in [Actors -> Actor]
      BY <1>21, ExitMoves DEF Die, OnlyFor, Actors
    <2> QED
      BY <1>21, <2>1, BoundsAssumption DEF Die, TypeOK, Placed, Running, FreePids,
          files, bounds
  <1>22. ASSUME NEW replace \in BOOLEAN, Run(replace)
        PROVE  TypeOK'
    <2>1. act' \in [Actors -> Actor]
      BY <1>22, RunMoves DEF OnlyFor
    <2> QED
      BY <1>22, <2>1, BoundsAssumption DEF Run, TypeOK, Placed, Running, FreePids,
          files, bounds
  <1>23. CASE Respawn
    <2>1. act' \in [Actors -> Actor]
      BY <1>23, RespawnMoves DEF OnlyFor
    <2> QED
      BY <1>23, <2>1, BoundsAssumption DEF Respawn, TypeOK, Placed, Running,
          FreePids, files, bounds
  <1>24. ASSUME NEW op \in Commands, Command(op)
        PROVE  TypeOK'
    <2>1. act' \in [Actors -> Actor]
      BY <1>24, CommandMoves DEF OnlyFor
    <2> QED
      BY <1>24, <2>1, BoundsAssumption DEF Command, TypeOK, Placed, Running,
          FreePids, files, bounds
  <1>25. CASE Pair
    <2>1. act' \in [Actors -> Actor]
      BY <1>25, PairMoves DEF OnlyFor
    <2> QED
      BY <1>25, <2>1, BoundsAssumption, PairMoves DEF Pair, TypeOK, Placed, Running,
          FreePids, files, bounds
  <1>26. CASE Decide
    <2>1. act' \in [Actors -> Actor]
      BY <1>26, DecideMoves DEF OnlyFor
    <2> QED
      BY <1>26, <2>1, BoundsAssumption DEF Decide, TypeOK, Placed, Running,
          FreePids, files, bounds
  <1>27. CASE Kill(CLI)
    <2>1. act' \in [Actors -> Actor]
      BY <1>27, KillMoves DEF OnlyFor
    <2> QED
      BY <1>27, <2>1, BoundsAssumption DEF Kill, TypeOK, Placed, Running, FreePids,
          files, bounds
  <1>28. CASE Unload(CLI)
    <2>1. act' \in [Actors -> Actor]
      BY <1>28, UnloadMoves DEF OnlyFor
    <2> QED
      BY <1>28, <2>1, BoundsAssumption DEF Unload, UnloadedFrom, TypeOK, Placed,
          Running, FreePids, files, bounds
  <1>29. CASE Unloaded(CLI)
    <2>1. act' \in [Actors -> Actor]
      BY <1>29, UnloadedMoves DEF OnlyFor
    <2> QED
      BY <1>29, <2>1, BoundsAssumption DEF Unloaded, TypeOK, Placed, Running,
          FreePids, files, bounds
  <1>30. CASE ActivateManaged
    <2>1. act' \in [Actors -> Actor]
      BY <1>30, ActivateManagedMoves DEF OnlyFor
    <2> QED
      BY <1>30, <2>1, BoundsAssumption DEF ActivateManaged, LoadedInto, TypeOK,
          Placed, Running, FreePids, files, bounds
  <1>31. CASE ActivateDetached
    <2>1. act' \in [Actors -> Actor]
      BY <1>31, ActivateDetachedMoves
    <2>2. newer' \subseteq Pids
      BY <1>31, ActivateDetachedMoves DEF TypeOK, FreePids
    <2>3. /\ manager' \in [installed : BOOLEAN, loaded : BOOLEAN, child : Pids \cup {None}]
          /\ manager'.loaded => manager'.installed
      BY <1>31 DEF ActivateDetached, TypeOK, Placed
    <2>4. state' \in Pids \cup {None}
      BY <1>31 DEF ActivateDetached, TypeOK
    <2> QED
      BY <1>31, <2>1, <2>2, <2>3, <2>4 DEF ActivateDetached, TypeOK, bounds
  <1>32. CASE DeleteConfig
    <2>1. act' \in [Actors -> Actor]
      BY <1>32, DeleteConfigMoves DEF OnlyFor
    <2> QED
      BY <1>32, <2>1, BoundsAssumption DEF DeleteConfig, TypeOK, Placed, Running,
          FreePids, files, bounds
  <1>33. CASE End
    <2>1. act' \in [Actors -> Actor]
      BY <1>33, ExitMoves DEF End, OnlyFor, Actors
    <2>2. act[CLI].op \in Commands
      BY <1>33, AbsentIs DEF End, Placed, CommandPlaced
    <2> QED
      BY <1>33, <2>1, <2>2, BoundsAssumption DEF End, TypeOK, Placed, Running,
             FreePids, files, bounds
  <1>34. QED
    BY <1>1, <1>2, <1>3, <1>4, <1>5, <1>6, <1>7, <1>8, <1>9, <1>10, <1>11,
       <1>12, <1>13, <1>14, <1>15, <1>16, <1>17, <1>18, <1>19, <1>20, <1>21,
       <1>22, <1>23, <1>24, <1>25, <1>26, <1>27, <1>28, <1>29, <1>30, <1>31,
       <1>32, <1>33 DEF Next, ActorStep, RuntimeStep, CommandStep

(* Placed asks only about the one that moves.                               *)
LEMMA PlacedAlone ==
  ASSUME Placed, NEW a \in Actors, \A x \in Actors \ {a} : Weaker(x),
         a \in Pids => RuntimePlaced(a)', a = CLI => CommandPlaced',
         (method # "manager" => ~manager.loaded)'
  PROVE  Placed'
  <1>1. ASSUME NEW p \in Pids, p # a
        PROVE  RuntimePlaced(p)'
    <2>1. Weaker(p) /\ RuntimePlaced(p)
      BY <1>1 DEF Actors, Placed
    <2> QED
      BY <2>1, AbsentIs DEF Weaker, Stays, RuntimePlaced
  <1>2. a # CLI => CommandPlaced'
    BY AbsentIs DEF Weaker, Stays, CommandPlaced, Placed, Actors
  <1> QED
    BY <1>1, <1>2, PidsAssumption DEF Placed, Actors

(* Every command may stop the runtimes. *)
LEMMA StopStepsAnywhere ==
  /\ StopSteps \subseteq RuntimePcs
  /\ \A op \in Commands : StopSteps \subseteq CommandPcs(op) /\ "done" \in CommandPcs(op)
  BY DEF StopSteps, RuntimePcs, CommandPcs, Commands

(* A runtime that goes on from one place of its own to another. *)
LEMMA PlacedRuntime ==
  ASSUME Placed, NEW p \in Pids, OnlyFor(p), act[p].pc # "done",
         NEW pc \in RuntimePcs, NEW b, Goes(p, pc, b, act[p].victims),
         UNCHANGED <<method, manager>>
  PROVE  Placed'
  <1>1. RuntimePlaced(p)'
    BY DEF Placed, RuntimePlaced, Goes
  <1>2. (method # "manager" => ~manager.loaded)'
    BY DEF Placed
  <1> QED
    BY <1>1, <1>2, PlacedAlone, PidsAssumption DEF OnlyFor, Actors

(* Every actor stays where it may be.                                        *)
LEMMA PlacedStep ==
  ASSUME TypeOK, Placed, [Next]_vars
  PROVE  Placed'
  <1> USE DEF files, bounds
  <1>1. CASE UNCHANGED vars
    BY <1>1 DEF vars, Placed, RuntimePlaced, CommandPlaced
  <1>2. ASSUME NEW a \in Actors, List(a)
        PROVE  Placed'
    <2>0. act[a].pc = "list"
      BY <1>2 DEF List, Load
    <2>1. OnlyFor(a)
      BY <1>2, ListMoves
    <2>2. a \in Pids => RuntimePlaced(a)'
      BY <2>0, <1>2, ListMoves, AbsentIs, PidsAssumption
         DEF Goes, Placed, RuntimePlaced, RuntimePcs, StopSteps
    <2>3. a = CLI => CommandPlaced'
      BY <2>0, <1>2, ListMoves, StopStepsAnywhere DEF Goes, Placed, CommandPlaced,
             StopSteps
    <2>4. (method # "manager" => ~manager.loaded)'
      BY <1>2 DEF List, Load, Placed
    <2> QED
      BY <2>1, <2>2, <2>3, <2>4, PlacedAlone DEF OnlyFor
  <1>3. ASSUME NEW a \in Actors, WriteBack(a)
        PROVE  Placed'
    <2>0. act[a].pc = "writeback"
      BY <1>3 DEF WriteBack
    <2>1. OnlyFor(a)
      BY <1>3, WriteBackMoves
    <2>2. a \in Pids => RuntimePlaced(a)'
      BY <2>0, <1>3, WriteBackMoves, AbsentIs, PidsAssumption
         DEF Goes, Placed, RuntimePlaced, RuntimePcs, StopSteps
    <2>3. a = CLI => CommandPlaced'
      BY <2>0, <1>3, WriteBackMoves, StopStepsAnywhere DEF Goes, Placed,
             CommandPlaced, StopSteps
    <2>4. (method # "manager" => ~manager.loaded)'
      BY <1>3 DEF WriteBack, Placed
    <2> QED
      BY <2>1, <2>2, <2>3, <2>4, PlacedAlone DEF OnlyFor
  <1>4. ASSUME NEW a \in Actors, Scan(a)
        PROVE  Placed'
    <2>0. act[a].pc = "scan"
      BY <1>4 DEF Scan
    <2>1. OnlyFor(a)
      BY <1>4, ScanMoves
    <2>2. a \in Pids => RuntimePlaced(a)'
      BY <2>0, <1>4, ScanMoves, AbsentIs, PidsAssumption
         DEF Goes, Placed, RuntimePlaced, RuntimePcs, StopSteps, Found
    <2>3. a = CLI => CommandPlaced'
      BY <2>0, <1>4, ScanMoves, StopStepsAnywhere DEF Goes, Placed, CommandPlaced,
             StopSteps
    <2>4. (method # "manager" => ~manager.loaded)'
      BY <1>4 DEF Scan, Placed
    <2> QED
      BY <2>1, <2>2, <2>3, <2>4, PlacedAlone DEF OnlyFor
  <1>5. ASSUME NEW a \in Actors, Signal(a)
        PROVE  Placed'
    <2>0. act[a].pc = "signal"
      BY <1>5 DEF Signal
    <2>1. OnlyFor(a)
      BY <1>5, SignalMoves
    <2>2. a \in Pids => RuntimePlaced(a)'
      BY <2>0, <1>5, SignalMoves, AbsentIs, PidsAssumption
         DEF Goes, Placed, RuntimePlaced, RuntimePcs, StopSteps
    <2>3. a = CLI => CommandPlaced'
      BY <2>0, <1>5, SignalMoves, StopStepsAnywhere DEF Goes, Placed, CommandPlaced,
             StopSteps
    <2>4. (method # "manager" => ~manager.loaded)'
      BY <1>5 DEF Signal, Placed
    <2> QED
      BY <2>1, <2>2, <2>3, <2>4, PlacedAlone DEF OnlyFor
  <1>6. ASSUME NEW a \in Actors, Waited(a)
        PROVE  Placed'
    <2>0. act[a].pc = "wait"
      BY <1>6 DEF Waited
    <2>1. OnlyFor(a)
      BY <1>6, WaitedMoves
    <2>2. a \in Pids => RuntimePlaced(a)'
      BY <2>0, <1>6, WaitedMoves, AbsentIs, PidsAssumption
         DEF Goes, Placed, RuntimePlaced, RuntimePcs, StopSteps
    <2>3. a = CLI => CommandPlaced'
      BY <2>0, <1>6, WaitedMoves, StopStepsAnywhere DEF Goes, Placed, CommandPlaced,
             StopSteps
    <2>4. (method # "manager" => ~manager.loaded)'
      BY <1>6 DEF Waited, Placed
    <2> QED
      BY <2>1, <2>2, <2>3, <2>4, PlacedAlone DEF OnlyFor
  <1>7. ASSUME NEW a \in Actors, Reread(a)
        PROVE  Placed'
    <2>0. act[a].pc = "reread"
      BY <1>7 DEF Reread, Load
    <2>1. OnlyFor(a)
      BY <1>7, RereadMoves
    <2>2. a \in Pids => RuntimePlaced(a)'
      BY <2>0, <1>7, RereadMoves, AbsentIs, PidsAssumption
         DEF Goes, Placed, RuntimePlaced, RuntimePcs, StopSteps
    <2>3. a = CLI => CommandPlaced'
      BY <2>0, <1>7, RereadMoves, StopStepsAnywhere DEF Goes, Placed, CommandPlaced,
             StopSteps
    <2>4. (method # "manager" => ~manager.loaded)'
      BY <1>7 DEF Reread, Load, Placed
    <2> QED
      BY <2>1, <2>2, <2>3, <2>4, PlacedAlone DEF OnlyFor
  <1>8. ASSUME NEW a \in Actors, Rewrite(a)
        PROVE  Placed'
    <2>0. act[a].pc = "rewrite"
      BY <1>8 DEF Rewrite
    <2>1. OnlyFor(a)
      BY <1>8, RewriteMoves
    <2>2. a \in Pids => RuntimePlaced(a)'
      BY <2>0, <1>8, RewriteMoves, AbsentIs, PidsAssumption
         DEF Goes, Placed, RuntimePlaced, RuntimePcs, StopSteps
    <2>3. a = CLI => CommandPlaced'
      BY <2>0, <1>8, RewriteMoves, StopStepsAnywhere DEF Goes, Placed, CommandPlaced,
             StopSteps
    <2>4. (method # "manager" => ~manager.loaded)'
      BY <1>8 DEF Rewrite, Placed
    <2> QED
      BY <2>1, <2>2, <2>3, <2>4, PlacedAlone DEF OnlyFor
  <1>9. ASSUME NEW a \in Actors, Clear(a)
        PROVE  Placed'
    <2>0. act[a].pc = "clear"
      BY <1>9 DEF Clear
    <2>1. OnlyFor(a)
      BY <1>9, ClearMoves
    <2>2. a \in Pids => RuntimePlaced(a)'
      BY <2>0, ClearMoves, <1>9, PidsAssumption
         DEF Goes, Placed, RuntimePlaced, RuntimePcs, StopSteps, AfterStop
    <2>3. a = CLI => CommandPlaced'
      <3>1. CASE act[CLI].op \in {"stop", "uninstall"}
        BY <2>0, <3>1, ClearMoves, <1>9 DEF Goes, Placed, CommandPlaced, CommandPcs,
               AfterStop
      <3>2. CASE act[CLI].op = "reset"
        BY <2>0, <3>2, ClearMoves, <1>9 DEF Goes, Placed, CommandPlaced, CommandPcs,
               AfterStop
      <3>3. CASE act[CLI].op \notin {"stop", "uninstall", "reset"}
        BY <2>0, <3>3, ClearMoves, <1>9
           DEF Goes, Placed, CommandPlaced, CommandPcs, AfterStop, Commands
      <3> QED
        BY <3>1, <3>2, <3>3
    <2>4. (method # "manager" => ~manager.loaded)'
      BY <1>9 DEF Clear, Placed
    <2> QED
      BY <2>1, <2>2, <2>3, <2>4, PlacedAlone DEF OnlyFor
  <1>10. ASSUME NEW a \in Actors, NEW p \in Pids, KillVictim(a, p)
        PROVE  Placed'
    <2>1. OnlyFor(p) /\ act'[p] = Absent
      BY <1>10, ExitMoves DEF KillVictim, Actors
    <2>2. RuntimePlaced(p)'
      BY <2>1, AbsentIs DEF RuntimePlaced, RuntimePcs, StopSteps
    <2>3. (method # "manager" => ~manager.loaded)'
      BY <1>10 DEF KillVictim, Placed
    <2> QED
      BY <2>1, <2>2, <2>3, PlacedAlone, PidsAssumption DEF OnlyFor, Actors
  <1>11. ASSUME NEW p \in Pids, ReadConfig(p)
        PROVE  Placed'
    <2>1. act[p].pc = "config" /\ OnlyFor(p) /\ UNCHANGED <<method, manager>>
      BY <1>11, ReadConfigMoves DEF ReadConfig
    <2>2. RuntimePlaced(p)'
      <3>1. CASE act'[p] = Absent
        BY <3>1, AbsentIs DEF RuntimePlaced
      <3>2. CASE act'[p] # Absent
        BY <2>1, <3>2, <1>11, ReadConfigMoves DEF Placed, RuntimePlaced, RuntimePcs,
               StopSteps
      <3> QED
        BY <3>1, <3>2
    <2> QED
      BY <2>1, <2>2, PlacedAlone, PidsAssumption DEF OnlyFor, Actors, Placed
  <1>12. ASSUME NEW p \in Pids, Start(p)
        PROVE  Placed'
    <2>1. /\ act[p].pc = "start" /\ OnlyFor(p) /\ UNCHANGED <<method, manager>>
          /\ Goes(p, "register", act[p].stopping, act[p].victims)
      BY <1>12, StartMoves DEF Start
    <2> QED
      BY <2>1, PlacedRuntime DEF RuntimePcs
  <1>13. ASSUME NEW p \in Pids, Register(p)
        PROVE  Placed'
    <2>1. /\ act[p].pc = "register" /\ OnlyFor(p) /\ UNCHANGED <<method, manager>>
          /\ Goes(p, "registered", act[p].stopping, act[p].victims)
      BY <1>13, RegisterMoves DEF Register, Load
    <2> QED
      BY <2>1, PlacedRuntime DEF RuntimePcs
  <1>14. ASSUME NEW p \in Pids, Registered(p)
        PROVE  Placed'
    <2>1. /\ act[p].pc = "registered" /\ OnlyFor(p) /\ UNCHANGED <<method, manager>>
          /\ Goes(p, "up", act[p].stopping, act[p].victims)
      BY <1>14, RegisteredMoves DEF Registered
    <2> QED
      BY <2>1, PlacedRuntime DEF RuntimePcs
  <1>15. ASSUME NEW p \in Pids, Interrupt(p)
        PROVE  Placed'
    <2>1. OnlyFor(p)
      BY <1>15, InterruptMoves
    <2>2. RuntimePlaced(p)'
      BY <1>15, InterruptMoves, AbsentIs, PidsAssumption DEF Interrupt, Goes,
          Weaker, Stays, Placed, Actors, RuntimePlaced, RuntimePcs, StopSteps
    <2>3. (method # "manager" => ~manager.loaded)'
      BY <1>15 DEF Interrupt, Placed
    <2> QED
      BY <2>1, <2>2, <2>3, PlacedAlone, PidsAssumption DEF OnlyFor, Actors
  <1>16. ASSUME NEW p \in Pids, Shutdown(p)
        PROVE  Placed'
    <2>1. /\ act[p].pc = "up" /\ OnlyFor(p) /\ UNCHANGED <<method, manager>>
          /\ Goes(p, "stopping", act[p].stopping, act[p].victims)
      BY <1>16, ShutdownMoves DEF Shutdown
    <2> QED
      BY <2>1, PlacedRuntime DEF RuntimePcs
  <1>17. ASSUME NEW p \in Pids, RuntimeStopped(p)
        PROVE  Placed'
    <2>1. /\ act[p].pc = "stopping" /\ OnlyFor(p) /\ UNCHANGED <<method, manager>>
          /\ Goes(p, "unlist", act[p].stopping, act[p].victims)
      BY <1>17, RuntimeStoppedMoves DEF RuntimeStopped
    <2> QED
      BY <2>1, PlacedRuntime DEF RuntimePcs
  <1>18. ASSUME NEW p \in Pids, Unlist(p)
        PROVE  Placed'
    <2>1. /\ act[p].pc = "unlist" /\ OnlyFor(p) /\ UNCHANGED <<method, manager>>
          /\ Goes(p, "unlisted", act[p].stopping, act[p].victims)
      BY <1>18, UnlistMoves DEF Unlist, Load
    <2> QED
      BY <2>1, PlacedRuntime DEF RuntimePcs
  <1>19. ASSUME NEW p \in Pids, Unlisted(p)
        PROVE  Placed'
    <2>1. /\ act[p].pc = "unlisted" /\ OnlyFor(p) /\ UNCHANGED <<method, manager>>
          /\ Goes(p, "unstate", act[p].stopping, act[p].victims)
      BY <1>19, UnlistedMoves DEF Unlisted
    <2> QED
      BY <2>1, PlacedRuntime DEF RuntimePcs
  <1>20. ASSUME NEW p \in Pids, Unstate(p)
        PROVE  Placed'
    <2>1. OnlyFor(p) /\ act'[p] = Absent
      BY <1>20, ExitMoves DEF Unstate, Actors
    <2>2. RuntimePlaced(p)'
      BY <2>1, AbsentIs DEF RuntimePlaced, RuntimePcs, StopSteps
    <2>3. (method # "manager" => ~manager.loaded)'
      BY <1>20 DEF Unstate, Placed
    <2> QED
      BY <2>1, <2>2, <2>3, PlacedAlone, PidsAssumption DEF OnlyFor, Actors
  <1>21. ASSUME NEW p \in Pids, Die(p)
        PROVE  Placed'
    <2>1. OnlyFor(p) /\ act'[p] = Absent
      BY <1>21, ExitMoves DEF Die, Actors
    <2>2. RuntimePlaced(p)'
      BY <2>1, AbsentIs DEF RuntimePlaced, RuntimePcs, StopSteps
    <2>3. (method # "manager" => ~manager.loaded)'
      BY <1>21 DEF Die, Placed
    <2> QED
      BY <2>1, <2>2, <2>3, PlacedAlone, PidsAssumption DEF OnlyFor, Actors
  <1>22. ASSUME NEW replace \in BOOLEAN, Run(replace)
        PROVE  Placed'
    <2>1. PICK p \in FreePids : OnlyFor(p) /\ Born(p, "manual")
      BY <1>22, RunMoves
    <2>2. /\ p \in Pids /\ RuntimePlaced(p)'
          /\ \A x \in Actors \ {p} : Weaker(x)
      BY <2>1 DEF OnlyFor, Actors, Born, RuntimePlaced, RuntimePcs, FreePids
    <2>3. (method # "manager" => ~manager.loaded)'
      BY <1>22 DEF Run, Placed, TypeOK
    <2> QED
      BY <2>2, <2>3, PlacedAlone, PidsAssumption DEF Actors
  <1>23. CASE Respawn
    <2>1. PICK p \in FreePids : OnlyFor(p) /\ Born(p, "service")
      BY <1>23, RespawnMoves
    <2>2. /\ p \in Pids /\ RuntimePlaced(p)'
          /\ \A x \in Actors \ {p} : Weaker(x)
      BY <2>1 DEF OnlyFor, Actors, Born, RuntimePlaced, RuntimePcs, FreePids
    <2>3. (method # "manager" => ~manager.loaded)'
      BY <1>23 DEF Respawn, Placed, TypeOK
    <2> QED
      BY <2>2, <2>3, PlacedAlone, PidsAssumption DEF Actors
  <1>24. ASSUME NEW op \in Commands, Command(op)
        PROVE  Placed'
    <2>1. OnlyFor(CLI)
      BY <1>24, CommandMoves
    <2>2. CommandPlaced'
      <3>1. CASE op = "pair"
        BY <3>1, <1>24, CommandMoves DEF CommandPlaced, CommandPcs
      <3>2. CASE op \in {"stop", "uninstall"}
        BY <3>2, <1>24, CommandMoves DEF CommandPlaced, CommandPcs
      <3>3. CASE op \in {"install", "restart", "reset"}
        BY <3>3, <1>24, CommandMoves, StopStepsAnywhere DEF CommandPlaced, StopSteps
      <3> QED
        BY <3>1, <3>2, <3>3 DEF Commands
    <2>3. (method # "manager" => ~manager.loaded)'
      BY <1>24 DEF Command, Placed
    <2> QED
      BY <2>1, <2>2, <2>3, PlacedAlone, PidsAssumption DEF OnlyFor, Actors
  <1>25. CASE Pair
    <2>1. OnlyFor(CLI)
      BY <1>25, PairMoves
    <2>2. CommandPlaced'
      BY <1>25, PairMoves, AbsentIs, PidsAssumption DEF Pair, Goes, Weaker, Stays,
          Placed, Actors, CommandPlaced, CommandPcs, StopSteps
    <2>3. (method # "manager" => ~manager.loaded)'
      BY <1>25 DEF Pair, Placed
    <2> QED
      BY <2>1, <2>2, <2>3, PlacedAlone, PidsAssumption DEF OnlyFor, Actors
  <1>26. CASE Decide
    <2>1. OnlyFor(CLI)
      BY <1>26, DecideMoves
    <2>2. CommandPlaced'
      BY <1>26, DecideMoves, AbsentIs, PidsAssumption DEF Decide, Goes, Weaker,
          Stays, Placed, Actors, CommandPlaced, CommandPcs, StopSteps
    <2>3. (method # "manager" => ~manager.loaded)'
      BY <1>26 DEF Decide, Placed
    <2> QED
      BY <2>1, <2>2, <2>3, PlacedAlone, PidsAssumption DEF OnlyFor, Actors
  <1>27. CASE Kill(CLI)
    <2>1. /\ act[CLI].pc = "kill" /\ OnlyFor(CLI)
          /\ Goes(CLI, "unload", act[CLI].stopping, act[CLI].victims)
      BY <1>27, KillMoves DEF Kill
    <2>2. /\ act[CLI].kind = "command"
          /\ act[CLI].op \in {"stop", "uninstall", "reset"}
      BY <2>1 DEF Placed, CommandPlaced, CommandPcs, StopSteps, Commands
    <2>3. CommandPlaced'
      BY <2>1, <2>2 DEF Goes, CommandPlaced, CommandPcs, Commands
    <2>4. (method # "manager" => ~manager.loaded)'
      BY <1>27 DEF Kill, Placed, TypeOK
    <2> QED
      BY <2>1, <2>3, <2>4, PlacedAlone, PidsAssumption DEF OnlyFor, Actors
  <1>28. CASE Unload(CLI)
    <2>1. /\ act[CLI].pc = "unload" /\ OnlyFor(CLI)
          /\ Goes(CLI, "unloaded", act[CLI].stopping, act[CLI].victims)
      BY <1>28, UnloadMoves DEF Unload, UnloadedFrom
    <2>2. /\ act[CLI].kind = "command"
          /\ act[CLI].op \in {"stop", "uninstall", "reset"}
      BY <2>1 DEF Placed, CommandPlaced, CommandPcs, StopSteps, Commands
    <2>3. CommandPlaced'
      BY <2>1, <2>2 DEF Goes, CommandPlaced, CommandPcs, Commands
    <2>4. (method # "manager" => ~manager.loaded)'
      BY <1>28 DEF Unload, UnloadedFrom, Placed, TypeOK
    <2> QED
      BY <2>1, <2>3, <2>4, PlacedAlone, PidsAssumption DEF OnlyFor, Actors
  <1>29. CASE Unloaded(CLI)
    <2>1. OnlyFor(CLI)
      BY <1>29, UnloadedMoves
    <2>2. CommandPlaced'
      BY <1>29, UnloadedMoves, AbsentIs, PidsAssumption DEF Unloaded, Goes, Weaker,
          Stays, Placed, Actors, CommandPlaced, CommandPcs, StopSteps
    <2>3. (method # "manager" => ~manager.loaded)'
      BY <1>29 DEF Unloaded, Placed
    <2> QED
      BY <2>1, <2>2, <2>3, PlacedAlone, PidsAssumption DEF OnlyFor, Actors
  <1>30. CASE ActivateManaged
    <2>1. OnlyFor(CLI)
      BY <1>30, ActivateManagedMoves
    <2>2. CommandPlaced'
      BY <1>30, ActivateManagedMoves, AbsentIs, PidsAssumption DEF ActivateManaged,
          LoadedInto, Goes, Weaker, Stays, Placed, Actors, CommandPlaced,
          CommandPcs, StopSteps
    <2>3. (method # "manager" => ~manager.loaded)'
      BY <1>30 DEF ActivateManaged, LoadedInto, Placed, TypeOK
    <2> QED
      BY <2>1, <2>2, <2>3, PlacedAlone, PidsAssumption DEF OnlyFor, Actors
  <1>31. CASE ActivateDetached
    <2>1. Goes(CLI, "done", act[CLI].stopping, act[CLI].victims)
      BY <1>31, ActivateDetachedMoves
    <2>2. CommandPlaced'
      BY <1>31, <2>1 DEF ActivateDetached, Goes, Placed, CommandPlaced, CommandPcs,
             StopSteps
    <2>3. \A p \in Pids : Born(p, "service") \/ Weaker(p)
      BY <1>31, ActivateDetachedMoves, PidsAssumption DEF OnlyFor, Actors
    <2>4. \A p \in Pids : RuntimePlaced(p)'
      BY <2>3, AbsentIs DEF Born, Weaker, Stays, Placed, RuntimePlaced, RuntimePcs
    <2>5. (method # "manager" => ~manager.loaded)'
      BY <1>31 DEF ActivateDetached, Placed, TypeOK
    <2> QED
      BY <2>2, <2>4, <2>5 DEF Placed
  <1>32. CASE DeleteConfig
    <2>1. OnlyFor(CLI)
      BY <1>32, DeleteConfigMoves
    <2>2. CommandPlaced'
      BY <1>32, DeleteConfigMoves, AbsentIs, PidsAssumption DEF DeleteConfig, Goes,
          Weaker, Stays, Placed, Actors, CommandPlaced, CommandPcs, StopSteps
    <2>3. (method # "manager" => ~manager.loaded)'
      BY <1>32 DEF DeleteConfig, Placed
    <2> QED
      BY <2>1, <2>2, <2>3, PlacedAlone, PidsAssumption DEF OnlyFor, Actors
  <1>33. CASE End
    <2>1. OnlyFor(CLI) /\ act'[CLI] = Absent
      BY <1>33, ExitMoves DEF End, Actors
    <2>2. CommandPlaced'
      BY <2>1, AbsentIs DEF CommandPlaced, CommandPcs, StopSteps
    <2>3. (method # "manager" => ~manager.loaded)'
      BY <1>33 DEF End, Placed
    <2> QED
      BY <2>1, <2>2, <2>3, PlacedAlone, PidsAssumption DEF OnlyFor, Actors
  <1>34. QED
    BY <1>1, <1>2, <1>3, <1>4, <1>5, <1>6, <1>7, <1>8, <1>9, <1>10, <1>11,
       <1>12, <1>13, <1>14, <1>15, <1>16, <1>17, <1>18, <1>19, <1>20, <1>21,
       <1>22, <1>23, <1>24, <1>25, <1>26, <1>27, <1>28, <1>29, <1>30, <1>31,
       <1>32, <1>33 DEF Next, ActorStep, RuntimeStep, CommandStep

(* No runtime begins, or changes its kind.                                  *)
Dwindle == \A x \in Pids : act'[x].kind \in {act[x].kind, "none"}

LEMMA Dwindles ==
  ASSUME NEW a \in Actors, OnlyFor(a),
         a = CLI \/ Weaker(a) \/ act'[a].kind = act[a].kind
  PROVE  Dwindle
  BY AbsentIs, PidsAssumption DEF OnlyFor, Weaker, Stays, Dwindle, Actors

(* A runtime that does not begin disturbs no command.                       *)
LEMMA EndedByRuntime ==
  ASSUME TypeOK, Ended, Dwindle, Stays(CLI),
         UNCHANGED <<manager, newer, last, commands>>
  PROVE  Ended'
  <1>1. /\ \A p \in Pids : p \in Running' => p \in Running /\ act'[p].kind = act[p].kind
        /\ Running' \subseteq Pids
    BY DEF Dwindle, Running, Alive
  <1>2. \A p \in Running' : Left(p) => Left(p)'
    BY <1>1 DEF Left, Stays
  <1>3. /\ Released' => Released
        /\ Swept' => Swept
        /\ Idle' => Idle
    BY DEF Released, Swept, Idle, Stays
  <1> QED
    BY <1>1, <1>2, <1>3 DEF Ended, Stays

(* A command that goes on.                                                  *)
LEMMA EndedByCommand ==
  ASSUME TypeOK, Ended, Dwindle, UNCHANGED <<newer, manager, last, commands>>,
         act'[CLI].kind = "command", act'[CLI].op = act[CLI].op,
         Released' => Released,
         act[CLI].op \in Enders /\ act'[CLI].pc \in {"signal", "wait"} =>
           \A p \in Running' : p \in act'[CLI].victims \/ Left(p)',
         Swept' => \A p \in Running' : Left(p)'
  PROVE  Ended'
  BY DEF Ended, Idle

(* What is left stays so while the command does not reach its last steps.   *)
LEMMA LeftStays ==
  ASSUME Dwindle, UNCHANGED <<newer, manager>>, act'[CLI].op = act[CLI].op,
         act[CLI].op = "reset" /\ act'[CLI].pc \in {"delete", "done"}
           => act[CLI].pc \in {"delete", "done"}
  PROVE  \A p \in Running' : p \in Running /\ (Left(p) => Left(p)')
  BY DEF Dwindle, Running, Alive, Left

(* Once a command that ends the bridge has swept, only what it may leave is    *)
(* left.                                                                      *)
LEMMA EndedStep ==
  ASSUME TypeOK, Placed, Ended, ~Hidden, [Next]_vars
  PROVE  Ended'
  <1> USE DEF files, bounds
  <1>1. CASE UNCHANGED vars
    BY <1>1 DEF vars, Ended, Released, Swept, Left, Running, Alive, Idle,
        Enders, Dwindle, vars
  <1>2. ASSUME NEW a \in Actors, List(a)
        PROVE  Ended'
    <2>0. act[a].pc = "list" /\ UNCHANGED <<manager, newer, last, commands>>
      BY <1>2 DEF List, Load, files, bounds
    <2>1. CASE a \in Pids
      <3>1. OnlyFor(a) /\ (Weaker(a) \/ act'[a].kind = act[a].kind)
        BY <1>2, ListMoves DEF Goes, Weaker
      <3>2. Dwindle
        BY <3>1, Dwindles
      <3>3. Stays(CLI)
        BY <2>1, <3>1, PidsAssumption DEF OnlyFor
      <3> QED
        BY <2>0, <3>2, <3>3, EndedByRuntime
    <2>2. CASE a = CLI
      <3>1. OnlyFor(CLI) /\ UNCHANGED <<manager, newer, last, commands>>
        BY <2>0, <2>2, <1>2, ListMoves
      <3>2. act'[CLI].kind = "command" /\ act'[CLI].op = act[CLI].op
        BY <2>0, <2>2, <1>2, ListMoves DEF Goes, Placed, CommandPlaced
      <3>4. Dwindle
        BY <2>2, <3>1, Dwindles
      <3>7. act'[CLI].pc = "writeback"
        BY <2>2, <1>2, ListMoves DEF Goes
      <3>3. \A x \in Running' : x \in Running /\ (Left(x) => Left(x)')
        BY <3>1, <3>2, <3>4, <3>7, LeftStays
      <3>8. Swept' => \A x \in Running' : Left(x)'
        BY <2>0, <2>2, <3>2, <3>3, <3>7 DEF Swept, Ended
      <3>9. Released' => Released
        BY <2>0, <2>2, <3>2, <3>7 DEF Released, Idle
      <3> QED
        BY <3>1, <3>2, <3>4, <3>7, <3>8, <3>9, EndedByCommand
    <2> QED
      BY <2>1, <2>2 DEF Actors
  <1>3. ASSUME NEW a \in Actors, WriteBack(a)
        PROVE  Ended'
    <2>0. act[a].pc = "writeback" /\ UNCHANGED <<manager, newer, last, commands>>
      BY <1>3 DEF WriteBack, files, bounds
    <2>1. CASE a \in Pids
      <3>1. OnlyFor(a) /\ (Weaker(a) \/ act'[a].kind = act[a].kind)
        BY <1>3, WriteBackMoves DEF Goes, Weaker
      <3>2. Dwindle
        BY <3>1, Dwindles
      <3>3. Stays(CLI)
        BY <2>1, <3>1, PidsAssumption DEF OnlyFor
      <3> QED
        BY <2>0, <3>2, <3>3, EndedByRuntime
    <2>2. CASE a = CLI
      <3>1. OnlyFor(CLI) /\ UNCHANGED <<manager, newer, last, commands>>
        BY <2>0, <2>2, <1>3, WriteBackMoves
      <3>2. act'[CLI].kind = "command" /\ act'[CLI].op = act[CLI].op
        BY <2>0, <2>2, <1>3, WriteBackMoves DEF Goes, Placed, CommandPlaced
      <3>4. Dwindle
        BY <2>2, <3>1, Dwindles
      <3>7. act'[CLI].pc = "scan"
        BY <2>2, <1>3, WriteBackMoves DEF Goes
      <3>3. \A x \in Running' : x \in Running /\ (Left(x) => Left(x)')
        BY <3>1, <3>2, <3>4, <3>7, LeftStays
      <3>8. Swept' => \A x \in Running' : Left(x)'
        BY <2>0, <2>2, <3>2, <3>3, <3>7 DEF Swept, Ended
      <3>9. Released' => Released
        BY <2>0, <2>2, <3>2, <3>7 DEF Released, Idle
      <3> QED
        BY <3>1, <3>2, <3>4, <3>7, <3>8, <3>9, EndedByCommand
    <2> QED
      BY <2>1, <2>2 DEF Actors
  <1>4. ASSUME NEW a \in Actors, Scan(a)
        PROVE  Ended'
    <2>0. act[a].pc = "scan" /\ UNCHANGED <<manager, newer, last, commands>>
      BY <1>4 DEF Scan, files, bounds
    <2>1. CASE a \in Pids
      <3>1. OnlyFor(a) /\ (Weaker(a) \/ act'[a].kind = act[a].kind)
        BY <1>4, ScanMoves DEF Goes, Weaker
      <3>2. Dwindle
        BY <3>1, Dwindles
      <3>3. Stays(CLI)
        BY <2>1, <3>1, PidsAssumption DEF OnlyFor
      <3> QED
        BY <2>0, <3>2, <3>3, EndedByRuntime
    <2>2. CASE a = CLI
      <3>1. OnlyFor(CLI) /\ UNCHANGED <<manager, newer, last, commands>>
        BY <2>0, <2>2, <1>4, ScanMoves
      <3>2. act'[CLI].kind = "command" /\ act'[CLI].op = act[CLI].op
        BY <2>0, <2>2, <1>4, ScanMoves DEF Goes, Placed, CommandPlaced
      <3>4. Dwindle
        BY <2>2, <3>1, Dwindles
      <3>3. \A x \in Running' : x \in Running
        BY <3>4 DEF Dwindle, Running, Alive
      <3>5. act[CLI].op \in Enders => Goes(CLI, "signal", TRUE, Found(CLI))
        BY <2>0, <2>2, <1>4, ScanMoves DEF Placed, CommandPlaced, Enders, Goes
      <3>6. Running \subseteq Found(CLI)
        BY PidsAssumption DEF Found, Visible, Running
      <3>7. act[CLI].op \in Enders /\ act'[CLI].pc \in {"signal", "wait"} =>
              \A x \in Running' : x \in act'[CLI].victims \/ Left(x)'
        BY <3>3, <3>5, <3>6 DEF Goes
      <3>8. Swept' => \A x \in Running' : Left(x)'
        BY <3>2, <3>5 DEF Swept, Goes, Enders
      <3>9. Released' => Released
        BY <3>2, <3>5, <2>0, <2>2 DEF Released, Enders, Idle, Goes
      <3> QED
        BY <3>1, <3>2, <3>4, <3>7, <3>8, <3>9, EndedByCommand
    <2> QED
      BY <2>1, <2>2 DEF Actors
  <1>5. ASSUME NEW a \in Actors, Signal(a)
        PROVE  Ended'
    <2>0. act[a].pc = "signal" /\ UNCHANGED <<manager, newer, last, commands>>
      BY <1>5 DEF Signal, files, bounds
    <2>1. CASE a \in Pids
      <3>1. OnlyFor(a) /\ (Weaker(a) \/ act'[a].kind = act[a].kind)
        BY <1>5, SignalMoves DEF Goes, Weaker
      <3>2. Dwindle
        BY <3>1, Dwindles
      <3>3. Stays(CLI)
        BY <2>1, <3>1, PidsAssumption DEF OnlyFor
      <3> QED
        BY <2>0, <3>2, <3>3, EndedByRuntime
    <2>2. CASE a = CLI
      <3>1. OnlyFor(CLI) /\ UNCHANGED <<manager, newer, last, commands>>
        BY <2>0, <2>2, <1>5, SignalMoves
      <3>2. act'[CLI].kind = "command" /\ act'[CLI].op = act[CLI].op
        BY <2>0, <2>2, <1>5, SignalMoves DEF Goes, Placed, CommandPlaced
      <3>4. Dwindle
        BY <2>2, <3>1, Dwindles
      <3>5. act'[CLI].pc = "wait" /\ act'[CLI].victims = act[CLI].victims
        BY <2>2, <1>5, SignalMoves DEF Goes
      <3>3. \A x \in Running' : x \in Running /\ (Left(x) => Left(x)')
        BY <3>1, <3>2, <3>4, <3>5, LeftStays
      <3>7. act[CLI].op \in Enders /\ act'[CLI].pc \in {"signal", "wait"} =>
              \A x \in Running' : x \in act'[CLI].victims \/ Left(x)'
        BY <3>2, <3>3, <3>5, <2>0, <2>2 DEF Ended
      <3>8. Swept' => \A x \in Running' : Left(x)'
        BY <3>2, <3>5 DEF Swept
      <3>9. Released' => Released
        BY <2>0, <2>2, <3>2, <3>5 DEF Released, Idle
      <3> QED
        BY <3>1, <3>2, <3>4, <3>7, <3>8, <3>9, EndedByCommand
    <2> QED
      BY <2>1, <2>2 DEF Actors
  <1>6. ASSUME NEW a \in Actors, Waited(a)
        PROVE  Ended'
    <2>0. act[a].pc = "wait" /\ UNCHANGED <<manager, newer, last, commands>>
      BY <1>6 DEF Waited, Gone, files, bounds
    <2>1. CASE a \in Pids
      <3>1. OnlyFor(a) /\ (Weaker(a) \/ act'[a].kind = act[a].kind)
        BY <1>6, WaitedMoves DEF Goes, Weaker
      <3>2. Dwindle
        BY <3>1, Dwindles
      <3>3. Stays(CLI)
        BY <2>1, <3>1, PidsAssumption DEF OnlyFor
      <3> QED
        BY <2>0, <3>2, <3>3, EndedByRuntime
    <2>2. CASE a = CLI
      <3>1. OnlyFor(CLI) /\ UNCHANGED <<manager, newer, last, commands>>
        BY <2>0, <2>2, <1>6, WaitedMoves
      <3>2. act'[CLI].kind = "command" /\ act'[CLI].op = act[CLI].op
        BY <2>0, <2>2, <1>6, WaitedMoves DEF Goes, Placed, CommandPlaced
      <3>4. Dwindle
        BY <2>2, <3>1, Dwindles
      <3>7. act'[CLI].pc = "reread"
        BY <2>2, <1>6, WaitedMoves DEF Goes
      <3>3. \A x \in Running' : x \in Running /\ (Left(x) => Left(x)')
        BY <3>1, <3>2, <3>4, <3>7, LeftStays
      <3>8. Swept' => \A x \in Running' : Left(x)'
        BY <3>2, <3>3, <3>7, <2>0, <2>2, <1>6 DEF Swept, Ended, Waited, Gone, Enders
      <3>9. Released' => Released
        BY <2>0, <2>2, <3>2, <3>7 DEF Released, Idle
      <3> QED
        BY <3>1, <3>2, <3>4, <3>7, <3>8, <3>9, EndedByCommand
    <2> QED
      BY <2>1, <2>2 DEF Actors
  <1>7. ASSUME NEW a \in Actors, Reread(a)
        PROVE  Ended'
    <2>0. act[a].pc = "reread" /\ UNCHANGED <<manager, newer, last, commands>>
      BY <1>7 DEF Reread, Load, files, bounds
    <2>1. CASE a \in Pids
      <3>1. OnlyFor(a) /\ (Weaker(a) \/ act'[a].kind = act[a].kind)
        BY <1>7, RereadMoves DEF Goes, Weaker
      <3>2. Dwindle
        BY <3>1, Dwindles
      <3>3. Stays(CLI)
        BY <2>1, <3>1, PidsAssumption DEF OnlyFor
      <3> QED
        BY <2>0, <3>2, <3>3, EndedByRuntime
    <2>2. CASE a = CLI
      <3>1. OnlyFor(CLI) /\ UNCHANGED <<manager, newer, last, commands>>
        BY <2>0, <2>2, <1>7, RereadMoves
      <3>2. act'[CLI].kind = "command" /\ act'[CLI].op = act[CLI].op
        BY <2>0, <2>2, <1>7, RereadMoves DEF Goes, Placed, CommandPlaced
      <3>4. Dwindle
        BY <2>2, <3>1, Dwindles
      <3>7. act'[CLI].pc = "rewrite"
        BY <2>2, <1>7, RereadMoves DEF Goes
      <3>3. \A x \in Running' : x \in Running /\ (Left(x) => Left(x)')
        BY <3>1, <3>2, <3>4, <3>7, LeftStays
      <3>8. Swept' => \A x \in Running' : Left(x)'
        BY <2>0, <2>2, <3>2, <3>3, <3>7 DEF Swept, Ended
      <3>9. Released' => Released
        BY <2>0, <2>2, <3>2, <3>7 DEF Released, Idle
      <3> QED
        BY <3>1, <3>2, <3>4, <3>7, <3>8, <3>9, EndedByCommand
    <2> QED
      BY <2>1, <2>2 DEF Actors
  <1>8. ASSUME NEW a \in Actors, Rewrite(a)
        PROVE  Ended'
    <2>0. act[a].pc = "rewrite" /\ UNCHANGED <<manager, newer, last, commands>>
      BY <1>8 DEF Rewrite, files, bounds
    <2>1. CASE a \in Pids
      <3>1. OnlyFor(a) /\ (Weaker(a) \/ act'[a].kind = act[a].kind)
        BY <1>8, RewriteMoves DEF Goes, Weaker
      <3>2. Dwindle
        BY <3>1, Dwindles
      <3>3. Stays(CLI)
        BY <2>1, <3>1, PidsAssumption DEF OnlyFor
      <3> QED
        BY <2>0, <3>2, <3>3, EndedByRuntime
    <2>2. CASE a = CLI
      <3>1. OnlyFor(CLI) /\ UNCHANGED <<manager, newer, last, commands>>
        BY <2>0, <2>2, <1>8, RewriteMoves
      <3>2. act'[CLI].kind = "command" /\ act'[CLI].op = act[CLI].op
        BY <2>0, <2>2, <1>8, RewriteMoves DEF Goes, Placed, CommandPlaced
      <3>4. Dwindle
        BY <2>2, <3>1, Dwindles
      <3>7. act'[CLI].pc = "clear"
        BY <2>2, <1>8, RewriteMoves DEF Goes
      <3>3. \A x \in Running' : x \in Running /\ (Left(x) => Left(x)')
        BY <3>1, <3>2, <3>4, <3>7, LeftStays
      <3>8. Swept' => \A x \in Running' : Left(x)'
        BY <2>0, <2>2, <3>2, <3>3, <3>7 DEF Swept, Ended
      <3>9. Released' => Released
        BY <2>0, <2>2, <3>2, <3>7 DEF Released, Idle
      <3> QED
        BY <3>1, <3>2, <3>4, <3>7, <3>8, <3>9, EndedByCommand
    <2> QED
      BY <2>1, <2>2 DEF Actors
  <1>9. ASSUME NEW a \in Actors, Clear(a)
        PROVE  Ended'
    <2>0. act[a].pc = "clear" /\ UNCHANGED <<manager, newer, last, commands>>
      BY <1>9 DEF Clear, Cleared, files, bounds
    <2>1. CASE a \in Pids
      <3>1. OnlyFor(a) /\ (Weaker(a) \/ act'[a].kind = act[a].kind)
        BY <1>9, ClearMoves DEF Goes, Weaker
      <3>2. Dwindle
        BY <3>1, Dwindles
      <3>3. Stays(CLI)
        BY <2>1, <3>1, PidsAssumption DEF OnlyFor
      <3> QED
        BY <2>0, <3>2, <3>3, EndedByRuntime
    <2>2. CASE a = CLI
      <3>1. OnlyFor(CLI) /\ UNCHANGED <<manager, newer, last, commands>>
        BY <2>0, <2>2, <1>9, ClearMoves
      <3>2. act'[CLI].kind = "command" /\ act'[CLI].op = act[CLI].op
        BY <2>0, <2>2, <1>9, ClearMoves DEF Goes, Placed, CommandPlaced
      <3>4. Dwindle
        BY <2>2, <3>1, Dwindles
      <3>7. act'[CLI].pc = AfterStop(CLI) /\ act'[CLI].pc \notin {"signal", "wait"}
        BY <2>2, <1>9, ClearMoves DEF Goes, AfterStop
      <3>3. \A x \in Running' : x \in Running /\ (Left(x) => Left(x)')
        BY <3>1, <3>2, <3>4, <3>7, LeftStays, <2>0, <2>2 DEF AfterStop
      <3>8. Swept' => \A x \in Running' : Left(x)'
        BY <2>0, <2>2, <3>2, <3>3, <3>7 DEF Swept, Ended, AfterStop
      <3>9. Released' => Released
        BY <2>0, <2>2, <3>2, <3>7 DEF Released, Idle, AfterStop
      <3> QED
        BY <3>1, <3>2, <3>4, <3>7, <3>8, <3>9, EndedByCommand
    <2> QED
      BY <2>1, <2>2 DEF Actors
  <1>10. ASSUME NEW a \in Actors, NEW p \in Pids, KillVictim(a, p)
        PROVE  Ended'
    <2>1. OnlyFor(p) /\ act'[p] = Absent
      BY <1>10, ExitMoves DEF KillVictim, Actors
    <2>2. Dwindle
      BY <2>1, Dwindles DEF Weaker, Actors
    <2>3. Stays(CLI) /\ UNCHANGED <<manager, newer, last, commands>>
      BY <1>10, <2>1, PidsAssumption DEF KillVictim, OnlyFor, files, bounds
    <2> QED
      BY <2>2, <2>3, EndedByRuntime
  <1>11. ASSUME NEW p \in Pids, ReadConfig(p)
        PROVE  Ended'
    <2>1. OnlyFor(p) /\ (Weaker(p) \/ act'[p].kind = act[p].kind)
      BY <1>11, ReadConfigMoves DEF Goes, Weaker
    <2>2. Dwindle
      BY <2>1, Dwindles DEF Actors
    <2>3. Stays(CLI) /\ UNCHANGED <<manager, newer, last, commands>>
      BY <1>11, <2>1, PidsAssumption DEF ReadConfig, OnlyFor, files, bounds
    <2> QED
      BY <2>2, <2>3, EndedByRuntime
  <1>12. ASSUME NEW p \in Pids, Start(p)
        PROVE  Ended'
    <2>1. OnlyFor(p) /\ (Weaker(p) \/ act'[p].kind = act[p].kind)
      BY <1>12, StartMoves DEF Goes, Weaker
    <2>2. Dwindle
      BY <2>1, Dwindles DEF Actors
    <2>3. Stays(CLI) /\ UNCHANGED <<manager, newer, last, commands>>
      BY <1>12, <2>1, PidsAssumption DEF Start, OnlyFor, files, bounds
    <2> QED
      BY <2>2, <2>3, EndedByRuntime
  <1>13. ASSUME NEW p \in Pids, Register(p)
        PROVE  Ended'
    <2>1. OnlyFor(p) /\ (Weaker(p) \/ act'[p].kind = act[p].kind)
      BY <1>13, RegisterMoves DEF Goes, Weaker
    <2>2. Dwindle
      BY <2>1, Dwindles DEF Actors
    <2>3. Stays(CLI) /\ UNCHANGED <<manager, newer, last, commands>>
      BY <1>13, <2>1, PidsAssumption DEF Register, Load, OnlyFor, files, bounds
    <2> QED
      BY <2>2, <2>3, EndedByRuntime
  <1>14. ASSUME NEW p \in Pids, Registered(p)
        PROVE  Ended'
    <2>1. OnlyFor(p) /\ (Weaker(p) \/ act'[p].kind = act[p].kind)
      BY <1>14, RegisteredMoves DEF Goes, Weaker
    <2>2. Dwindle
      BY <2>1, Dwindles DEF Actors
    <2>3. Stays(CLI) /\ UNCHANGED <<manager, newer, last, commands>>
      BY <1>14, <2>1, PidsAssumption DEF Registered, OnlyFor, files, bounds
    <2> QED
      BY <2>2, <2>3, EndedByRuntime
  <1>15. ASSUME NEW p \in Pids, Interrupt(p)
        PROVE  Ended'
    <2>1. OnlyFor(p) /\ (Weaker(p) \/ act'[p].kind = act[p].kind)
      BY <1>15, InterruptMoves DEF Goes, Weaker
    <2>2. Dwindle
      BY <2>1, Dwindles DEF Actors
    <2>3. Stays(CLI) /\ UNCHANGED <<manager, newer, last, commands>>
      BY <1>15, <2>1, PidsAssumption DEF Interrupt, OnlyFor, files, bounds
    <2> QED
      BY <2>2, <2>3, EndedByRuntime
  <1>16. ASSUME NEW p \in Pids, Shutdown(p)
        PROVE  Ended'
    <2>1. OnlyFor(p) /\ (Weaker(p) \/ act'[p].kind = act[p].kind)
      BY <1>16, ShutdownMoves DEF Goes, Weaker
    <2>2. Dwindle
      BY <2>1, Dwindles DEF Actors
    <2>3. Stays(CLI) /\ UNCHANGED <<manager, newer, last, commands>>
      BY <1>16, <2>1, PidsAssumption DEF Shutdown, OnlyFor, files, bounds
    <2> QED
      BY <2>2, <2>3, EndedByRuntime
  <1>17. ASSUME NEW p \in Pids, RuntimeStopped(p)
        PROVE  Ended'
    <2>1. OnlyFor(p) /\ (Weaker(p) \/ act'[p].kind = act[p].kind)
      BY <1>17, RuntimeStoppedMoves DEF Goes, Weaker
    <2>2. Dwindle
      BY <2>1, Dwindles DEF Actors
    <2>3. Stays(CLI) /\ UNCHANGED <<manager, newer, last, commands>>
      BY <1>17, <2>1, PidsAssumption DEF RuntimeStopped, OnlyFor, files, bounds
    <2> QED
      BY <2>2, <2>3, EndedByRuntime
  <1>18. ASSUME NEW p \in Pids, Unlist(p)
        PROVE  Ended'
    <2>1. OnlyFor(p) /\ (Weaker(p) \/ act'[p].kind = act[p].kind)
      BY <1>18, UnlistMoves DEF Goes, Weaker
    <2>2. Dwindle
      BY <2>1, Dwindles DEF Actors
    <2>3. Stays(CLI) /\ UNCHANGED <<manager, newer, last, commands>>
      BY <1>18, <2>1, PidsAssumption DEF Unlist, Load, OnlyFor, files, bounds
    <2> QED
      BY <2>2, <2>3, EndedByRuntime
  <1>19. ASSUME NEW p \in Pids, Unlisted(p)
        PROVE  Ended'
    <2>1. OnlyFor(p) /\ (Weaker(p) \/ act'[p].kind = act[p].kind)
      BY <1>19, UnlistedMoves DEF Goes, Weaker
    <2>2. Dwindle
      BY <2>1, Dwindles DEF Actors
    <2>3. Stays(CLI) /\ UNCHANGED <<manager, newer, last, commands>>
      BY <1>19, <2>1, PidsAssumption DEF Unlisted, OnlyFor, files, bounds
    <2> QED
      BY <2>2, <2>3, EndedByRuntime
  <1>20. ASSUME NEW p \in Pids, Unstate(p)
        PROVE  Ended'
    <2>1. OnlyFor(p) /\ act'[p] = Absent
      BY <1>20, ExitMoves DEF Unstate, Actors
    <2>2. Dwindle
      BY <2>1, Dwindles DEF Weaker, Actors
    <2>3. Stays(CLI) /\ UNCHANGED <<manager, newer, last, commands>>
      BY <1>20, <2>1, PidsAssumption DEF Unstate, OnlyFor, files, bounds
    <2> QED
      BY <2>2, <2>3, EndedByRuntime
  <1>21. ASSUME NEW p \in Pids, Die(p)
        PROVE  Ended'
    <2>1. OnlyFor(p) /\ act'[p] = Absent
      BY <1>21, ExitMoves DEF Die, Actors
    <2>2. Dwindle
      BY <2>1, Dwindles DEF Weaker, Actors
    <2>3. Stays(CLI) /\ UNCHANGED <<manager, newer, last, commands>>
      BY <1>21, <2>1, PidsAssumption DEF Die, OnlyFor, files, bounds
    <2> QED
      BY <2>2, <2>3, EndedByRuntime
  <1>22. ASSUME NEW replace \in BOOLEAN, Run(replace)
        PROVE  Ended'
    <2>1. PICK p \in FreePids : OnlyFor(p) /\ Born(p, "manual") /\ newer' = newer \cup {p}
      BY <1>22, RunMoves
    <2>2. Stays(CLI) /\ UNCHANGED <<manager, last, commands>>
      BY <1>22, <2>1, PidsAssumption DEF Run, OnlyFor, FreePids, files
    <2>3. \A x \in Running' : x = p \/ (x \in Running /\ act'[x].kind = act[x].kind)
      BY <2>1, AbsentIs DEF OnlyFor, Weaker, Stays, Running, Alive, Actors
    <2>4. Left(p)' /\ \A x \in Running' : Left(x) => Left(x)'
      BY <2>1, <2>2, <2>3 DEF Left, Born, Stays
    <2>5. /\ Released' => Released
          /\ Swept' => Swept
          /\ Idle' => Idle
      BY <2>2 DEF Released, Swept, Idle, Stays
    <2> QED
      BY <2>2, <2>3, <2>4, <2>5 DEF Ended, Stays
  <1>23. CASE Respawn
    <2>1. PICK p \in FreePids : /\ OnlyFor(p) /\ Born(p, "service") /\ newer' = newer \cup {p}
                               /\ manager' = [manager EXCEPT !.child = p]
      BY <1>23, RespawnMoves
    <2>2. /\ Stays(CLI) /\ UNCHANGED <<last, commands>> /\ manager.loaded /\ ~ChildAlive
          /\ manager'.child = p /\ manager'.loaded = manager.loaded
      BY <1>23, <2>1, PidsAssumption DEF Respawn, OnlyFor, FreePids, bounds, TypeOK
    <2>3. \A x \in Running' : x = p \/ (x \in Running /\ act'[x].kind = act[x].kind)
      BY <2>1, AbsentIs DEF OnlyFor, Weaker, Stays, Running, Alive, Actors
    <2>4. ~Released
      BY <2>2 DEF Ended
    <2>5. act[CLI].op = "reset" /\ act[CLI].pc \notin {"delete", "done"} =>
            Left(p)' /\ \A x \in Running : Left(x) => x \in newer /\ act[x].kind = "manual"
      BY <2>1, <2>2 DEF Left, Stays, ChildAlive
    <2>6. act[CLI].op = "reset" /\ act[CLI].pc \notin {"delete", "done"} =>
            \A x \in Running' : x = p \/ (x \in Running /\ (Left(x) => Left(x)'))
      BY <2>1, <2>3, <2>5 DEF Left
    <2>7. Swept' => Swept /\ act[CLI].op = "reset" /\ act[CLI].pc \notin {"delete", "done"}
      BY <2>2, <2>4 DEF Swept, Stays, Released
    <2>8. act'[CLI].op \in Enders /\ act'[CLI].pc \in {"signal", "wait"} =>
            act[CLI].op = "reset" /\ act[CLI].pc \notin {"delete", "done"}
      BY <2>2, <2>4 DEF Released, Stays, Enders
    <2>9. ~Released' /\ ~(Idle' /\ last' \in Enders)
      BY <2>2, <2>4 DEF Released, Stays, Idle
    <2> QED
      BY <2>2, <2>5, <2>6, <2>7, <2>8, <2>9 DEF Ended, Stays
  <1>24. ASSUME NEW op \in Commands, Command(op)
        PROVE  Ended'
    <2>1. act'[CLI].kind = "command" /\ act'[CLI].op = op
      BY <1>24, CommandMoves
    <2>2. /\ op \in {"stop", "uninstall"} => act'[CLI].pc = "kill"
          /\ op = "reset" => act'[CLI].pc = "list"
      BY <1>24, CommandMoves
    <2> QED
      BY <2>1, <2>2 DEF Ended, Released, Swept, Enders, Idle
  <1>25. CASE Pair
    <2>1. OnlyFor(CLI) /\ UNCHANGED <<manager, newer, last, commands>>
      BY <1>25, PairMoves DEF Pair, files, bounds
    <2>2. Dwindle
      BY <2>1, Dwindles DEF Actors
    <2>3. /\ act'[CLI].kind = "command" /\ act'[CLI].op = act[CLI].op
      BY <1>25, PairMoves DEF Pair, Goes, Placed, CommandPlaced
    <2>4. act[CLI].op = "pair"
      BY <1>25, PairMoves DEF Pair, Goes, Placed, CommandPlaced, CommandPcs,
             StopSteps, Enders, Commands
    <2>5. \A x \in Running' : x \in Running /\ (Left(x) => Left(x)')
      BY <2>1, <2>2, <2>3, <2>4, LeftStays
    <2>6. /\ Released' => Released
          /\ Swept' => Swept
          /\ act[CLI].op \in Enders => act'[CLI].pc \notin {"signal", "wait"}
      BY <2>3, <2>4 DEF Released, Swept, Idle, Enders
    <2>7. Swept' => \A x \in Running' : Left(x)'
      BY <2>5, <2>6 DEF Ended
    <2> QED
      BY <2>1, <2>2, <2>3, <2>6, <2>7, EndedByCommand
  <1>26. CASE Decide
    <2>1. OnlyFor(CLI) /\ UNCHANGED <<manager, newer, last, commands>>
      BY <1>26, DecideMoves DEF Decide, files, bounds
    <2>2. Dwindle
      BY <2>1, Dwindles DEF Actors
    <2>3. /\ act'[CLI].kind = "command" /\ act'[CLI].op = act[CLI].op
      BY <1>26, DecideMoves DEF Decide, Goes, Placed, CommandPlaced
    <2>4. act[CLI].op = "pair"
      BY <1>26, DecideMoves DEF Decide, Goes, Placed, CommandPlaced, CommandPcs,
             StopSteps, Enders, Commands
    <2>5. \A x \in Running' : x \in Running /\ (Left(x) => Left(x)')
      BY <2>1, <2>2, <2>3, <2>4, LeftStays
    <2>6. /\ Released' => Released
          /\ Swept' => Swept
          /\ act[CLI].op \in Enders => act'[CLI].pc \notin {"signal", "wait"}
      BY <2>3, <2>4 DEF Released, Swept, Idle, Enders
    <2>7. Swept' => \A x \in Running' : Left(x)'
      BY <2>5, <2>6 DEF Ended
    <2> QED
      BY <2>1, <2>2, <2>3, <2>6, <2>7, EndedByCommand
  <1>27. CASE Kill(CLI)
    <2>1. OnlyFor(CLI) /\ UNCHANGED <<manager, newer, last, commands>>
      BY <1>27, KillMoves DEF Kill, files, bounds
    <2>2. Dwindle
      BY <2>1, Dwindles DEF Actors
    <2>3. /\ act'[CLI].kind = "command" /\ act'[CLI].op = act[CLI].op
      BY <1>27, KillMoves DEF Kill, Goes, Placed, CommandPlaced
    <2>4. /\ act[CLI].pc = "kill" /\ act'[CLI].pc = "unload"
          /\ act[CLI].op \in Enders
      BY <1>27, KillMoves DEF Kill, Goes, Placed, CommandPlaced, CommandPcs,
             StopSteps, Enders, Commands
    <2>5. \A x \in Running' : x \in Running /\ (Left(x) => Left(x)')
      BY <2>1, <2>2, <2>3, <2>4, LeftStays
    <2>6. /\ Released' => Released
          /\ Swept' => Swept
          /\ act[CLI].op \in Enders => act'[CLI].pc \notin {"signal", "wait"}
      BY <2>3, <2>4 DEF Released, Swept, Idle, Enders
    <2>7. Swept' => \A x \in Running' : Left(x)'
      BY <2>5, <2>6 DEF Ended
    <2> QED
      BY <2>1, <2>2, <2>3, <2>6, <2>7, EndedByCommand
  <1>28. CASE Unload(CLI)
    <2>1. /\ OnlyFor(CLI) /\ UNCHANGED <<newer, last, commands>>
          /\ manager'.loaded = FALSE /\ manager'.child = manager.child
      BY <1>28, UnloadMoves DEF Unload, UnloadedFrom, files, bounds, TypeOK
    <2>2. Dwindle
      BY <2>1, Dwindles DEF Actors
    <2>3. /\ act'[CLI].kind = "command" /\ act'[CLI].op = act[CLI].op
          /\ act[CLI].pc = "unload" /\ act'[CLI].pc = "unloaded"
      BY <1>28, UnloadMoves DEF Unload, Goes, Placed, CommandPlaced
    <2>4. \A x \in Running' : x \in Running /\ (Left(x) => Left(x)')
      BY <2>1, <2>2, <2>3 DEF Dwindle, Running, Alive, Left
    <2>5. Swept' => Swept
      BY <2>3 DEF Swept
    <2> QED
      BY <2>1, <2>3, <2>4, <2>5 DEF Ended, Idle
  <1>29. CASE Unloaded(CLI)
    <2>1. OnlyFor(CLI) /\ UNCHANGED <<newer, manager, last, commands>>
      BY <1>29, UnloadedMoves DEF Unloaded, files, bounds
    <2>2. Dwindle
      BY <2>1, Dwindles DEF Actors
    <2>3. /\ act'[CLI].kind = "command" /\ act'[CLI].op = act[CLI].op
          /\ act[CLI].pc = "unloaded"
          /\ act[CLI].op = "reset" => act'[CLI].pc = "delete"
          /\ act[CLI].op # "reset" => act'[CLI].pc = "list"
      BY <1>29, UnloadedMoves DEF Unloaded, Goes, Placed, CommandPlaced
    <2>4. act[CLI].op \in Enders
      BY <1>29 DEF Unloaded, Placed, CommandPlaced, CommandPcs, StopSteps, Enders,
             Commands
    <2>5. Released /\ (Swept' => Swept /\ act[CLI].op = "reset")
      BY <2>3, <2>4 DEF Released, Swept, Enders
    <2>6. \A x \in Running' : x \in Running /\ x # manager.child
      BY <1>29, <2>2, UnloadedMoves, AbsentIs DEF Dwindle, Running, Alive
    <2>7. \A x \in Running' : Left(x) => Left(x)'
      BY <2>1, <2>2, <2>6 DEF Dwindle, Running, Alive, Left
    <2> QED
      BY <2>1, <2>2, <2>3, <2>5, <2>6, <2>7, EndedByCommand DEF Ended
  <1>30. CASE ActivateManaged
    <2>1. OnlyFor(CLI)
      BY <1>30, ActivateManagedMoves
    <2>2. act'[CLI].kind = "command" /\ act'[CLI].op = act[CLI].op
      BY <1>30, ActivateManagedMoves DEF ActivateManaged, Goes, Placed, CommandPlaced
    <2>3. act[CLI].op \in {"pair", "install", "restart"}
      BY <1>30 DEF ActivateManaged, Placed, CommandPlaced, CommandPcs, StopSteps,
             Enders, Commands
    <2> QED
      BY <2>2, <2>3 DEF Ended, Released, Swept, Enders, Idle
  <1>31. CASE ActivateDetached
    <2>2. act'[CLI].kind = "command" /\ act'[CLI].op = act[CLI].op
      BY <1>31, ActivateDetachedMoves DEF ActivateDetached, Goes, Placed,
             CommandPlaced
    <2>3. act[CLI].op \in {"pair", "install", "restart"}
      BY <1>31 DEF ActivateDetached, Placed, CommandPlaced, CommandPcs, StopSteps,
             Enders, Commands
    <2> QED
      BY <2>2, <2>3 DEF Ended, Released, Swept, Enders, Idle
  <1>32. CASE DeleteConfig
    <2>1. OnlyFor(CLI) /\ UNCHANGED <<manager, newer, last, commands>>
      BY <1>32, DeleteConfigMoves DEF DeleteConfig, files, bounds
    <2>2. Dwindle
      BY <2>1, Dwindles DEF Actors
    <2>3. /\ act'[CLI].kind = "command" /\ act'[CLI].op = act[CLI].op
      BY <1>32, DeleteConfigMoves DEF DeleteConfig, Goes, Placed, CommandPlaced
    <2>4. /\ act[CLI].pc = "delete" /\ act'[CLI].pc = "done"
          /\ act[CLI].op = "reset"
      BY <1>32, DeleteConfigMoves DEF DeleteConfig, Goes, Placed, CommandPlaced,
             CommandPcs, StopSteps, Enders, Commands
    <2>5. \A x \in Running' : x \in Running /\ (Left(x) => Left(x)')
      BY <2>1, <2>2, <2>3, <2>4, LeftStays
    <2>6. /\ Released' => Released
          /\ Swept' => Swept
          /\ act[CLI].op \in Enders => act'[CLI].pc \notin {"signal", "wait"}
      BY <2>3, <2>4 DEF Released, Swept, Idle, Enders
    <2>7. Swept' => \A x \in Running' : Left(x)'
      BY <2>5, <2>6 DEF Ended
    <2> QED
      BY <2>1, <2>2, <2>3, <2>6, <2>7, EndedByCommand
  <1>33. CASE End
    <2>1. OnlyFor(CLI) /\ act'[CLI] = Absent
      BY <1>33, ExitMoves DEF End, Actors
    <2>2. Dwindle
      BY <2>1, Dwindles DEF Actors
    <2>3. /\ act[CLI].pc = "done" /\ last' = act[CLI].op /\ UNCHANGED <<manager, newer, commands>>
      BY <1>33 DEF End, files, bounds
    <2>4. act'[CLI].op = "run" /\ act'[CLI].kind = "none"
      BY <2>1, AbsentIs
    <2>5. last' \in Enders => Released /\ Swept
      BY <2>3 DEF Released, Swept, Enders
    <2>6. last' \in Enders => \A x \in Running' : Left(x)'
      BY <2>2, <2>3, <2>5 DEF Ended, Left, Dwindle, Running, Alive
    <2>7. /\ Released' => last' \in Enders
          /\ ~Swept' /\ act'[CLI].op \notin Enders
      BY <2>4 DEF Released, Swept, Enders
    <2> QED
      BY <2>3, <2>5, <2>6, <2>7 DEF Ended
  <1>34. QED
    BY <1>1, <1>2, <1>3, <1>4, <1>5, <1>6, <1>7, <1>8, <1>9, <1>10, <1>11,
       <1>12, <1>13, <1>14, <1>15, <1>16, <1>17, <1>18, <1>19, <1>20, <1>21,
       <1>22, <1>23, <1>24, <1>25, <1>26, <1>27, <1>28, <1>29, <1>30, <1>31,
       <1>32, <1>33 DEF Next, ActorStep, RuntimeStep, CommandStep

(* A step of a runtime that has read the present identity, or read none anew.*)
LEMMA CurrentByRuntime ==
  ASSUME Current, NEW p \in Pids, \A x \in Pids \ {p} : Weaker(x), Stays(CLI),
         UNCHANGED <<config, last>>,
         p \in Running' =>
           \/ act'[p].pc = "config" \/ act'[p].cfg = config
           \/ p \in Running /\ act[p].pc # "config" /\ act'[p].cfg = act[p].cfg
  PROVE  Current'
  <1>1. \A x \in Pids : Outdated(x)' = Outdated(x)
    BY DEF Outdated, Awaits, Stays
  <1>2. ASSUME NEW x \in Running', config # 0
        PROVE  UpToDate(x)'
    <2>1. CASE x = p
      BY <1>1, <1>2, <2>1 DEF Current, UpToDate, Running
    <2>2. CASE x # p
      <3>1. x \in Running /\ Stays(x)
        BY <2>2, AbsentIs DEF Weaker, Stays, Running, Alive
      <3> QED
        BY <1>1, <1>2, <3>1 DEF Current, UpToDate, Running, Stays
    <2> QED
      BY <2>1, <2>2
  <1> QED
    BY <1>2 DEF Current, Stays, Idle

(* A step of a command that ends those it was to end before it lets go.     *)
LEMMA CurrentByCommand ==
  ASSUME Current, OnlyFor(CLI), UNCHANGED config,
         act'[CLI].kind = "command",
         act'[CLI].op = "pair" => \/ act[CLI].op = "pair" /\ act[CLI].pc # "pair"
                                  \/ act'[CLI].pc = "pair",
         \A x \in Pids : x \in Running' /\ Outdated(x) => Outdated(x)'
  PROVE  Current'
  <1>1. ASSUME NEW x \in Running', config # 0
        PROVE  UpToDate(x)'
    <2>1. x \in Pids /\ x # CLI
      BY PidsAssumption DEF Running
    <2>2. x \in Running /\ Stays(x)
      BY <2>1, AbsentIs DEF OnlyFor, Weaker, Stays, Running, Alive, Actors
    <2> QED
      BY <1>1, <2>1, <2>2 DEF Current, UpToDate, Stays
  <1> QED
    BY <1>1 DEF Current, Idle

(* What serves keeps up with the identity.                                     *)
LEMMA CurrentStep ==
  ASSUME TypeOK, Placed, Current, ~Hidden, [Next]_vars
  PROVE  Current'
  <1> USE DEF files, bounds
  <1>1. CASE UNCHANGED vars
    BY <1>1 DEF vars, Current, UpToDate, Outdated, Awaits, Running, Alive, Idle,
        vars
  <1>2. ASSUME NEW a \in Actors, List(a)
        PROVE  Current'
    <2>0. act[a].pc = "list" /\ UNCHANGED <<config, last>>
      BY <1>2 DEF List, Load, files, bounds
    <2>1. CASE a \in Pids
      <3>1. /\ Stays(CLI)
            /\ \A x \in Pids \ {a} : Weaker(x)
        BY <2>1, <1>2, ListMoves, PidsAssumption DEF OnlyFor, Actors
      <3>2. a \in Running' => a \in Running /\ act'[a].cfg = act[a].cfg
        BY <2>1, <1>2, ListMoves DEF Goes, Running, Alive
      <3> QED
        BY <2>0, <2>1, <3>1, <3>2, CurrentByRuntime
    <2>2. CASE a = CLI
      <3>1. OnlyFor(CLI)
        BY <2>2, <1>2, ListMoves
      <3>5. \A x \in Pids : x \in Running' /\ Outdated(x) => Outdated(x)'
        BY <2>0, <2>2, <1>2, ListMoves DEF Outdated, Awaits, Goes
      <3>6. act'[CLI].kind = "command" /\ act'[CLI].op = act[CLI].op
        BY <2>0, <2>2, <1>2, ListMoves DEF Goes, Placed, CommandPlaced
      <3> QED
        BY <2>0, <2>2, <3>1, <3>5, <3>6, CurrentByCommand
    <2> QED
      BY <2>1, <2>2 DEF Actors
  <1>3. ASSUME NEW a \in Actors, WriteBack(a)
        PROVE  Current'
    <2>0. act[a].pc = "writeback" /\ UNCHANGED <<config, last>>
      BY <1>3 DEF WriteBack, files, bounds
    <2>1. CASE a \in Pids
      <3>1. /\ Stays(CLI)
            /\ \A x \in Pids \ {a} : Weaker(x)
        BY <2>1, <1>3, WriteBackMoves, PidsAssumption DEF OnlyFor, Actors
      <3>2. a \in Running' => a \in Running /\ act'[a].cfg = act[a].cfg
        BY <2>1, <1>3, WriteBackMoves DEF Goes, Running, Alive
      <3> QED
        BY <2>0, <2>1, <3>1, <3>2, CurrentByRuntime
    <2>2. CASE a = CLI
      <3>1. OnlyFor(CLI)
        BY <2>2, <1>3, WriteBackMoves
      <3>5. \A x \in Pids : x \in Running' /\ Outdated(x) => Outdated(x)'
        BY <2>0, <2>2, <1>3, WriteBackMoves DEF Outdated, Awaits, Goes
      <3>6. act'[CLI].kind = "command" /\ act'[CLI].op = act[CLI].op
        BY <2>0, <2>2, <1>3, WriteBackMoves DEF Goes, Placed, CommandPlaced
      <3> QED
        BY <2>0, <2>2, <3>1, <3>5, <3>6, CurrentByCommand
    <2> QED
      BY <2>1, <2>2 DEF Actors
  <1>4. ASSUME NEW a \in Actors, Scan(a)
        PROVE  Current'
    <2>0. act[a].pc = "scan" /\ UNCHANGED <<config, last>>
      BY <1>4 DEF Scan, files, bounds
    <2>1. CASE a \in Pids
      <3>1. /\ Stays(CLI)
            /\ \A x \in Pids \ {a} : Weaker(x)
        BY <2>1, <1>4, ScanMoves, PidsAssumption DEF OnlyFor, Actors
      <3>2. a \in Running' => a \in Running /\ act'[a].cfg = act[a].cfg
        BY <2>1, <1>4, ScanMoves, AbsentIs DEF Goes, Running, Alive
      <3> QED
        BY <2>0, <2>1, <3>1, <3>2, CurrentByRuntime
    <2>2. CASE a = CLI
      <3>1. OnlyFor(CLI)
        BY <2>2, <1>4, ScanMoves
      <3>2. act[CLI].op = "pair" /\ act[CLI].cfg # 0 => Goes(CLI, "signal", TRUE, Found(CLI))
        BY <2>0, <2>2, <1>4, ScanMoves DEF Placed, CommandPlaced
      <3>3. \A x \in Pids : x \in Running' => x \in Running
        BY <2>2, <1>4, ScanMoves, AbsentIs, PidsAssumption DEF OnlyFor, Weaker,
               Stays, Running, Alive, Actors
      <3>4. Running \subseteq Found(CLI)
        BY PidsAssumption DEF Found, Visible, Running
      <3>5. \A x \in Pids : x \in Running' /\ Outdated(x) => Outdated(x)'
        BY <3>2, <3>3, <3>4 DEF Outdated, Awaits, Goes
      <3>6. act'[CLI].kind = "command" /\ act'[CLI].op = act[CLI].op
        BY <2>0, <2>2, <1>4, ScanMoves DEF Goes, Placed, CommandPlaced
      <3> QED
        BY <2>0, <2>2, <3>1, <3>5, <3>6, CurrentByCommand
    <2> QED
      BY <2>1, <2>2 DEF Actors
  <1>5. ASSUME NEW a \in Actors, Signal(a)
        PROVE  Current'
    <2>0. act[a].pc = "signal" /\ UNCHANGED <<config, last>>
      BY <1>5 DEF Signal, files, bounds
    <2>1. CASE a \in Pids
      <3>1. /\ Stays(CLI)
            /\ \A x \in Pids \ {a} : Weaker(x)
        BY <2>1, <1>5, SignalMoves, PidsAssumption DEF OnlyFor, Actors
      <3>2. a \in Running' => a \in Running /\ act'[a].cfg = act[a].cfg
        BY <2>1, <1>5, SignalMoves DEF Goes, Running, Alive
      <3> QED
        BY <2>0, <2>1, <3>1, <3>2, CurrentByRuntime
    <2>2. CASE a = CLI
      <3>1. OnlyFor(CLI)
        BY <2>2, <1>5, SignalMoves
      <3>5. \A x \in Pids : x \in Running' /\ Outdated(x) => Outdated(x)'
        BY <2>0, <2>2, <1>5, SignalMoves DEF Outdated, Awaits, Goes
      <3>6. act'[CLI].kind = "command" /\ act'[CLI].op = act[CLI].op
        BY <2>0, <2>2, <1>5, SignalMoves DEF Goes, Placed, CommandPlaced
      <3> QED
        BY <2>0, <2>2, <3>1, <3>5, <3>6, CurrentByCommand
    <2> QED
      BY <2>1, <2>2 DEF Actors
  <1>6. ASSUME NEW a \in Actors, Waited(a)
        PROVE  Current'
    <2>0. act[a].pc = "wait" /\ UNCHANGED <<config, last>>
      BY <1>6 DEF Waited, Gone, files, bounds
    <2>1. CASE a \in Pids
      <3>1. /\ Stays(CLI)
            /\ \A x \in Pids \ {a} : Weaker(x)
        BY <2>1, <1>6, WaitedMoves, PidsAssumption DEF OnlyFor, Actors
      <3>2. a \in Running' => a \in Running /\ act'[a].cfg = act[a].cfg
        BY <2>1, <1>6, WaitedMoves DEF Goes, Running, Alive
      <3> QED
        BY <2>0, <2>1, <3>1, <3>2, CurrentByRuntime
    <2>2. CASE a = CLI
      <3>1. OnlyFor(CLI)
        BY <2>2, <1>6, WaitedMoves
      <3>3. \A x \in Pids : x \in Running' => x \in Running
        BY <2>2, <1>6, WaitedMoves, AbsentIs, PidsAssumption DEF OnlyFor, Weaker,
               Stays, Running, Alive, Actors
      <3>5. \A x \in Pids : x \in Running' /\ Outdated(x) => Outdated(x)'
        BY <2>0, <2>2, <3>3, <1>6 DEF Outdated, Awaits, Waited, Gone
      <3>6. act'[CLI].kind = "command" /\ act'[CLI].op = act[CLI].op
        BY <2>0, <2>2, <1>6, WaitedMoves DEF Goes, Placed, CommandPlaced
      <3> QED
        BY <2>0, <2>2, <3>1, <3>5, <3>6, CurrentByCommand
    <2> QED
      BY <2>1, <2>2 DEF Actors
  <1>7. ASSUME NEW a \in Actors, Reread(a)
        PROVE  Current'
    <2>0. act[a].pc = "reread" /\ UNCHANGED <<config, last>>
      BY <1>7 DEF Reread, Load, files, bounds
    <2>1. CASE a \in Pids
      <3>1. /\ Stays(CLI)
            /\ \A x \in Pids \ {a} : Weaker(x)
        BY <2>1, <1>7, RereadMoves, PidsAssumption DEF OnlyFor, Actors
      <3>2. a \in Running' => a \in Running /\ act'[a].cfg = act[a].cfg
        BY <2>1, <1>7, RereadMoves DEF Goes, Running, Alive
      <3> QED
        BY <2>0, <2>1, <3>1, <3>2, CurrentByRuntime
    <2>2. CASE a = CLI
      <3>1. OnlyFor(CLI)
        BY <2>2, <1>7, RereadMoves
      <3>5. \A x \in Pids : x \in Running' /\ Outdated(x) => Outdated(x)'
        BY <2>0, <2>2, <1>7, RereadMoves DEF Outdated, Awaits, Goes
      <3>6. act'[CLI].kind = "command" /\ act'[CLI].op = act[CLI].op
        BY <2>0, <2>2, <1>7, RereadMoves DEF Goes, Placed, CommandPlaced
      <3> QED
        BY <2>0, <2>2, <3>1, <3>5, <3>6, CurrentByCommand
    <2> QED
      BY <2>1, <2>2 DEF Actors
  <1>8. ASSUME NEW a \in Actors, Rewrite(a)
        PROVE  Current'
    <2>0. act[a].pc = "rewrite" /\ UNCHANGED <<config, last>>
      BY <1>8 DEF Rewrite, files, bounds
    <2>1. CASE a \in Pids
      <3>1. /\ Stays(CLI)
            /\ \A x \in Pids \ {a} : Weaker(x)
        BY <2>1, <1>8, RewriteMoves, PidsAssumption DEF OnlyFor, Actors
      <3>2. a \in Running' => a \in Running /\ act'[a].cfg = act[a].cfg
        BY <2>1, <1>8, RewriteMoves DEF Goes, Running, Alive
      <3> QED
        BY <2>0, <2>1, <3>1, <3>2, CurrentByRuntime
    <2>2. CASE a = CLI
      <3>1. OnlyFor(CLI)
        BY <2>2, <1>8, RewriteMoves
      <3>5. \A x \in Pids : x \in Running' /\ Outdated(x) => Outdated(x)'
        BY <2>0, <2>2, <1>8, RewriteMoves DEF Outdated, Awaits, Goes
      <3>6. act'[CLI].kind = "command" /\ act'[CLI].op = act[CLI].op
        BY <2>0, <2>2, <1>8, RewriteMoves DEF Goes, Placed, CommandPlaced
      <3> QED
        BY <2>0, <2>2, <3>1, <3>5, <3>6, CurrentByCommand
    <2> QED
      BY <2>1, <2>2 DEF Actors
  <1>9. ASSUME NEW a \in Actors, Clear(a)
        PROVE  Current'
    <2>0. act[a].pc = "clear" /\ UNCHANGED <<config, last>>
      BY <1>9 DEF Clear, Cleared, files, bounds
    <2>1. CASE a \in Pids
      <3>1. /\ Stays(CLI)
            /\ \A x \in Pids \ {a} : Weaker(x)
        BY <2>1, <1>9, ClearMoves, PidsAssumption DEF OnlyFor, Actors
      <3>2. a \in Running' => a \in Running /\ act'[a].cfg = act[a].cfg
        BY <2>1, <1>9, ClearMoves DEF Goes, Running, Alive
      <3> QED
        BY <2>0, <2>1, <3>1, <3>2, CurrentByRuntime
    <2>2. CASE a = CLI
      <3>1. OnlyFor(CLI)
        BY <2>2, <1>9, ClearMoves
      <3>5. \A x \in Pids : x \in Running' /\ Outdated(x) => Outdated(x)'
        BY <2>0, <2>2, <1>9, ClearMoves DEF Outdated, Awaits, Goes
      <3>6. act'[CLI].kind = "command" /\ act'[CLI].op = act[CLI].op
        BY <2>0, <2>2, <1>9, ClearMoves DEF Goes, Placed, CommandPlaced
      <3> QED
        BY <2>0, <2>2, <3>1, <3>5, <3>6, CurrentByCommand
    <2> QED
      BY <2>1, <2>2 DEF Actors
  <1>10. ASSUME NEW a \in Actors, NEW p \in Pids, KillVictim(a, p)
        PROVE  Current'
    <2>1. OnlyFor(p) /\ act'[p] = Absent
      BY <1>10, ExitMoves DEF KillVictim, Actors
    <2>2. p \notin Running'
      BY <2>1, AbsentIs DEF Running, Alive
    <2>3. /\ Stays(CLI) /\ UNCHANGED <<config, last>>
          /\ \A x \in Pids \ {p} : Weaker(x)
      BY <1>10, <2>1, PidsAssumption DEF KillVictim, OnlyFor, Actors, files, bounds
    <2> QED
      BY <2>2, <2>3, CurrentByRuntime
  <1>11. ASSUME NEW p \in Pids, ReadConfig(p)
        PROVE  Current'
    <2>1. OnlyFor(p)
      BY <1>11, ReadConfigMoves
    <2>2. p \in Running' => act'[p].cfg = config
      BY <1>11, ReadConfigMoves, AbsentIs DEF Running, Alive
    <2>3. /\ Stays(CLI) /\ UNCHANGED <<config, last>>
          /\ \A x \in Pids \ {p} : Weaker(x)
      BY <1>11, <2>1, PidsAssumption DEF ReadConfig, OnlyFor, Actors, files, bounds
    <2> QED
      BY <2>2, <2>3, CurrentByRuntime
  <1>12. ASSUME NEW p \in Pids, Start(p)
        PROVE  Current'
    <2>1. OnlyFor(p)
      BY <1>12, StartMoves
    <2>2. p \in Running' => p \in Running /\ act[p].pc # "config" /\ act'[p].cfg = act[p].cfg
      BY <1>12, StartMoves DEF Start, Goes, Running, Alive
    <2>3. /\ Stays(CLI) /\ UNCHANGED <<config, last>>
          /\ \A x \in Pids \ {p} : Weaker(x)
      BY <1>12, <2>1, PidsAssumption DEF Start, OnlyFor, Actors, files, bounds
    <2> QED
      BY <2>2, <2>3, CurrentByRuntime
  <1>13. ASSUME NEW p \in Pids, Register(p)
        PROVE  Current'
    <2>1. OnlyFor(p)
      BY <1>13, RegisterMoves
    <2>2. p \in Running' => p \in Running /\ act[p].pc # "config" /\ act'[p].cfg = act[p].cfg
      BY <1>13, RegisterMoves DEF Register, Load, Goes, Running, Alive
    <2>3. /\ Stays(CLI) /\ UNCHANGED <<config, last>>
          /\ \A x \in Pids \ {p} : Weaker(x)
      BY <1>13, <2>1, PidsAssumption DEF Register, Load, OnlyFor, Actors, files,
          bounds
    <2> QED
      BY <2>2, <2>3, CurrentByRuntime
  <1>14. ASSUME NEW p \in Pids, Registered(p)
        PROVE  Current'
    <2>1. OnlyFor(p)
      BY <1>14, RegisteredMoves
    <2>2. p \in Running' => p \in Running /\ act[p].pc # "config" /\ act'[p].cfg = act[p].cfg
      BY <1>14, RegisteredMoves DEF Registered, Goes, Running, Alive
    <2>3. /\ Stays(CLI) /\ UNCHANGED <<config, last>>
          /\ \A x \in Pids \ {p} : Weaker(x)
      BY <1>14, <2>1, PidsAssumption DEF Registered, OnlyFor, Actors, files, bounds
    <2> QED
      BY <2>2, <2>3, CurrentByRuntime
  <1>15. ASSUME NEW p \in Pids, Interrupt(p)
        PROVE  Current'
    <2>1. OnlyFor(p) /\ Weaker(p)
      BY <1>15, InterruptMoves
    <2>2. p \in Running' => p \in Running /\ act[p].pc # "config" /\ act'[p].cfg = act[p].cfg
      BY <1>15, <2>1, AbsentIs DEF Interrupt, Weaker, Stays, Running, Alive
    <2>3. /\ Stays(CLI) /\ UNCHANGED <<config, last>>
          /\ \A x \in Pids \ {p} : Weaker(x)
      BY <1>15, <2>1, PidsAssumption DEF Interrupt, OnlyFor, Actors, files, bounds
    <2> QED
      BY <2>2, <2>3, CurrentByRuntime
  <1>16. ASSUME NEW p \in Pids, Shutdown(p)
        PROVE  Current'
    <2>1. OnlyFor(p)
      BY <1>16, ShutdownMoves
    <2>2. p \in Running' => p \in Running /\ act[p].pc # "config" /\ act'[p].cfg = act[p].cfg
      BY <1>16, ShutdownMoves DEF Shutdown, Goes, Running, Alive
    <2>3. /\ Stays(CLI) /\ UNCHANGED <<config, last>>
          /\ \A x \in Pids \ {p} : Weaker(x)
      BY <1>16, <2>1, PidsAssumption DEF Shutdown, OnlyFor, Actors, files, bounds
    <2> QED
      BY <2>2, <2>3, CurrentByRuntime
  <1>17. ASSUME NEW p \in Pids, RuntimeStopped(p)
        PROVE  Current'
    <2>1. OnlyFor(p)
      BY <1>17, RuntimeStoppedMoves
    <2>2. p \in Running' => p \in Running /\ act[p].pc # "config" /\ act'[p].cfg = act[p].cfg
      BY <1>17, RuntimeStoppedMoves DEF RuntimeStopped, Goes, Running, Alive
    <2>3. /\ Stays(CLI) /\ UNCHANGED <<config, last>>
          /\ \A x \in Pids \ {p} : Weaker(x)
      BY <1>17, <2>1, PidsAssumption DEF RuntimeStopped, OnlyFor, Actors, files,
          bounds
    <2> QED
      BY <2>2, <2>3, CurrentByRuntime
  <1>18. ASSUME NEW p \in Pids, Unlist(p)
        PROVE  Current'
    <2>1. OnlyFor(p)
      BY <1>18, UnlistMoves
    <2>2. p \in Running' => p \in Running /\ act[p].pc # "config" /\ act'[p].cfg = act[p].cfg
      BY <1>18, UnlistMoves DEF Unlist, Load, Goes, Running, Alive
    <2>3. /\ Stays(CLI) /\ UNCHANGED <<config, last>>
          /\ \A x \in Pids \ {p} : Weaker(x)
      BY <1>18, <2>1, PidsAssumption DEF Unlist, Load, OnlyFor, Actors, files,
          bounds
    <2> QED
      BY <2>2, <2>3, CurrentByRuntime
  <1>19. ASSUME NEW p \in Pids, Unlisted(p)
        PROVE  Current'
    <2>1. OnlyFor(p)
      BY <1>19, UnlistedMoves
    <2>2. p \in Running' => p \in Running /\ act[p].pc # "config" /\ act'[p].cfg = act[p].cfg
      BY <1>19, UnlistedMoves DEF Unlisted, Goes, Running, Alive
    <2>3. /\ Stays(CLI) /\ UNCHANGED <<config, last>>
          /\ \A x \in Pids \ {p} : Weaker(x)
      BY <1>19, <2>1, PidsAssumption DEF Unlisted, OnlyFor, Actors, files, bounds
    <2> QED
      BY <2>2, <2>3, CurrentByRuntime
  <1>20. ASSUME NEW p \in Pids, Unstate(p)
        PROVE  Current'
    <2>1. OnlyFor(p) /\ act'[p] = Absent
      BY <1>20, ExitMoves DEF Unstate, Actors
    <2>2. p \notin Running'
      BY <2>1, AbsentIs DEF Running, Alive
    <2>3. /\ Stays(CLI) /\ UNCHANGED <<config, last>>
          /\ \A x \in Pids \ {p} : Weaker(x)
      BY <1>20, <2>1, PidsAssumption DEF Unstate, OnlyFor, Actors, files, bounds
    <2> QED
      BY <2>2, <2>3, CurrentByRuntime
  <1>21. ASSUME NEW p \in Pids, Die(p)
        PROVE  Current'
    <2>1. OnlyFor(p) /\ act'[p] = Absent
      BY <1>21, ExitMoves DEF Die, Actors
    <2>2. p \notin Running'
      BY <2>1, AbsentIs DEF Running, Alive
    <2>3. /\ Stays(CLI) /\ UNCHANGED <<config, last>>
          /\ \A x \in Pids \ {p} : Weaker(x)
      BY <1>21, <2>1, PidsAssumption DEF Die, OnlyFor, Actors, files, bounds
    <2> QED
      BY <2>2, <2>3, CurrentByRuntime
  <1>22. ASSUME NEW replace \in BOOLEAN, Run(replace)
        PROVE  Current'
    <2>1. PICK p \in FreePids : OnlyFor(p) /\ Born(p, "manual")
      BY <1>22, RunMoves
    <2>2. /\ p \in Pids /\ Stays(CLI) /\ UNCHANGED <<config, last>>
          /\ \A x \in Pids \ {p} : Weaker(x)
      BY <1>22, <2>1, PidsAssumption DEF Run, OnlyFor, FreePids, Actors, files
    <2> QED
      BY <2>1, <2>2, CurrentByRuntime DEF Born
  <1>23. CASE Respawn
    <2>1. PICK p \in FreePids : OnlyFor(p) /\ Born(p, "service")
      BY <1>23, RespawnMoves
    <2>2. /\ p \in Pids /\ Stays(CLI) /\ UNCHANGED <<config, last>>
          /\ \A x \in Pids \ {p} : Weaker(x)
      BY <1>23, <2>1, PidsAssumption DEF Respawn, OnlyFor, FreePids, Actors, files
    <2> QED
      BY <2>1, <2>2, CurrentByRuntime DEF Born
  <1>24. ASSUME NEW op \in Commands, Command(op)
        PROVE  Current'
    <2>1. OnlyFor(CLI) /\ UNCHANGED config /\ Idle
      BY <1>24, CommandMoves DEF Command, files
    <2>2. act'[CLI].kind = "command" /\ act'[CLI].op = op
      BY <1>24, CommandMoves
    <2>3. op = "pair" => act'[CLI].pc = "pair"
      BY <1>24, CommandMoves
    <2>4. \A x \in Pids : ~Outdated(x)
      BY <2>1 DEF Outdated, Idle, Placed, CommandPlaced
    <2> QED
      BY <2>1, <2>2, <2>3, <2>4, CurrentByCommand
  <1>25. CASE Pair
    <2>1. /\ OnlyFor(CLI) /\ config' # 0
          /\ act'[CLI].kind = "command" /\ act'[CLI].pc = "decide"
          /\ config' = config \/ act'[CLI].cfg # 0
      BY <1>25, PairMoves DEF Pair, Placed, CommandPlaced
    <2>2. act'[CLI].op = "pair"
      BY <1>25, PairMoves DEF Pair, Placed, CommandPlaced, CommandPcs, StopSteps,
             Commands
    <2>3. CASE act'[CLI].cfg # 0
      BY <2>1, <2>2, <2>3 DEF Current, UpToDate, Outdated, Idle
    <2>4. CASE config' = config
      <3>1. \A x \in Pids : ~Outdated(x)
        BY <1>25 DEF Pair, Outdated, Awaits
      <3>2. \A x \in Running' : x \in Running /\ Stays(x)
        BY <2>1, PidsAssumption, AbsentIs DEF OnlyFor, Weaker, Stays, Running, Alive,
               Actors
      <3>3. ASSUME NEW x \in Running'
            PROVE  UpToDate(x)'
        <4>1. x \in Pids
          BY DEF Running
        <4> QED
          BY <2>1, <2>4, <3>1, <3>2, <3>3, <4>1 DEF Current, UpToDate, Stays
      <3> QED
        BY <2>1, <3>3 DEF Current, Idle
    <2> QED
      BY <2>1, <2>3, <2>4
  <1>26. CASE Decide
    <2>1. OnlyFor(CLI) /\ UNCHANGED <<config, last>>
      BY <1>26, DecideMoves DEF Decide, files, bounds
    <2>2. /\ act'[CLI].kind = "command" /\ act'[CLI].op = act[CLI].op
          /\ act[CLI].pc = "decide"
      BY <1>26, DecideMoves DEF Decide, Goes, Placed, CommandPlaced
    <2>3. \A x \in Pids : Outdated(x) => Outdated(x)'
      BY <2>2, <1>26, DecideMoves DEF Outdated, Awaits, Goes
    <2> QED
      BY <2>1, <2>2, <2>3, CurrentByCommand
  <1>27. CASE Kill(CLI)
    <2>1. OnlyFor(CLI) /\ UNCHANGED <<config, last>>
      BY <1>27, KillMoves DEF Kill, files, bounds
    <2>2. /\ act'[CLI].kind = "command" /\ act'[CLI].op = act[CLI].op
          /\ act[CLI].pc = "kill"
      BY <1>27, KillMoves DEF Kill, Goes, Placed, CommandPlaced
    <2>3. \A x \in Pids : Outdated(x) => Outdated(x)'
      BY <2>2, <1>27, KillMoves DEF Outdated, Awaits, Goes
    <2> QED
      BY <2>1, <2>2, <2>3, CurrentByCommand
  <1>28. CASE Unload(CLI)
    <2>1. OnlyFor(CLI) /\ UNCHANGED <<config, last>>
      BY <1>28, UnloadMoves DEF Unload, files, bounds
    <2>2. /\ act'[CLI].kind = "command" /\ act'[CLI].op = act[CLI].op
          /\ act[CLI].pc = "unload"
      BY <1>28, UnloadMoves DEF Unload, Goes, Placed, CommandPlaced
    <2>3. \A x \in Pids : Outdated(x) => Outdated(x)'
      BY <2>2, <1>28, UnloadMoves DEF Outdated, Awaits, Goes
    <2> QED
      BY <2>1, <2>2, <2>3, CurrentByCommand
  <1>29. CASE Unloaded(CLI)
    <2>1. OnlyFor(CLI) /\ UNCHANGED <<config, last>>
      BY <1>29, UnloadedMoves DEF Unloaded, files, bounds
    <2>2. /\ act'[CLI].kind = "command" /\ act'[CLI].op = act[CLI].op
          /\ act[CLI].pc = "unloaded"
      BY <1>29, UnloadedMoves DEF Unloaded, Goes, Placed, CommandPlaced
    <2>3. \A x \in Pids : Outdated(x) => Outdated(x)'
      BY <2>2, <1>29, UnloadedMoves DEF Outdated, Awaits, Goes
    <2> QED
      BY <2>1, <2>2, <2>3, CurrentByCommand
  <1>30. CASE ActivateManaged
    <2>1. OnlyFor(CLI) /\ UNCHANGED <<config, last>>
      BY <1>30, ActivateManagedMoves DEF ActivateManaged, files, bounds
    <2>2. /\ act'[CLI].kind = "command" /\ act'[CLI].op = act[CLI].op
          /\ act[CLI].pc = "activate"
      BY <1>30, ActivateManagedMoves DEF ActivateManaged, Goes, Placed, CommandPlaced
    <2>3. \A x \in Pids : Outdated(x) => Outdated(x)'
      BY <2>2, <1>30, ActivateManagedMoves DEF Outdated, Awaits, Goes
    <2> QED
      BY <2>1, <2>2, <2>3, CurrentByCommand
  <1>31. CASE ActivateDetached
    <2>1. /\ act'[CLI].kind = "command" /\ act'[CLI].op = act[CLI].op
          /\ act[CLI].pc = "activate" /\ UNCHANGED <<config, last>>
      BY <1>31, ActivateDetachedMoves DEF ActivateDetached, Goes, Placed,
             CommandPlaced
    <2>2. \A x \in Pids : ~Outdated(x)
      BY <2>1 DEF Outdated, Awaits
    <2>3. \A x \in Pids : Born(x, "service") \/ Weaker(x)
      BY <1>31, ActivateDetachedMoves, PidsAssumption DEF OnlyFor, Actors
    <2>4. ASSUME NEW x \in Running', config # 0
          PROVE  UpToDate(x)'
      <3>1. CASE Born(x, "service")
        BY <3>1 DEF Born, UpToDate
      <3>2. CASE Weaker(x)
        <4>1. x \in Running /\ Stays(x)
          BY <3>2, AbsentIs DEF Weaker, Stays, Running, Alive
        <4> QED
          BY <2>1, <2>2, <2>4, <4>1 DEF Current, UpToDate, Stays, Running
      <3> QED
        BY <2>3, <3>1, <3>2 DEF Running
    <2> QED
      BY <2>1, <2>4 DEF Current, Idle
  <1>32. CASE DeleteConfig
    <2>1. /\ config' = 0 /\ act'[CLI].kind = "command" /\ act'[CLI].op = act[CLI].op
      BY <1>32, DeleteConfigMoves DEF DeleteConfig, Goes, Placed, CommandPlaced
    <2>2. act[CLI].op # "pair"
      BY <1>32 DEF DeleteConfig, Placed, CommandPlaced, CommandPcs, StopSteps
    <2> QED
      BY <2>1, <2>2 DEF Current, Idle
  <1>33. CASE End
    <2>1. /\ OnlyFor(CLI) /\ act'[CLI] = Absent /\ act[CLI].pc = "done"
          /\ last' = act[CLI].op /\ UNCHANGED config
      BY <1>33, ExitMoves DEF End, Actors, files
    <2>2. ASSUME NEW x \in Running', config # 0
          PROVE  UpToDate(x)'
      <3>1. x \in Pids /\ x # CLI
        BY PidsAssumption DEF Running
      <3>2. x \in Running /\ Stays(x)
        BY <2>1, <3>1, AbsentIs DEF OnlyFor, Weaker, Stays, Running, Alive, Actors
      <3>3. ~Outdated(x)
        BY <2>1 DEF Outdated, Awaits
      <3> QED
        BY <2>1, <2>2, <3>2, <3>3 DEF Current, UpToDate, Stays
    <2> QED
      BY <2>1, <2>2, AbsentIs DEF Current
  <1>34. QED
    BY <1>1, <1>2, <1>3, <1>4, <1>5, <1>6, <1>7, <1>8, <1>9, <1>10, <1>11,
       <1>12, <1>13, <1>14, <1>15, <1>16, <1>17, <1>18, <1>19, <1>20, <1>21,
       <1>22, <1>23, <1>24, <1>25, <1>26, <1>27, <1>28, <1>29, <1>30, <1>31,
       <1>32, <1>33 DEF Next, ActorStep, RuntimeStep, CommandStep

-----------------------------------------------------------------------------
(* The theorems *)

(* Nothing runs at first.                                                   *)
LEMMA InitInv == Init => TypeOK /\ Placed /\ Excluded /\ Ended /\ Current
  <1> SUFFICES ASSUME Init
               PROVE  TypeOK /\ Placed /\ Excluded /\ Ended /\ Current
    OBVIOUS
  <1>1. \A a \in Actors : act[a] = Absent
    BY DEF Init
  <1>2. Running = {} /\ CLI \in Actors
    BY <1>1, AbsentIs DEF Running, Alive, Actors
  <1>3. TypeOK
    BY AbsentTyped, BoundsAssumption DEF Init, TypeOK, Commands
  <1>4. Placed
    BY <1>1, <1>2, AbsentIs DEF Placed, RuntimePlaced, CommandPlaced, Init, Actors
  <1>5. Excluded
    BY <1>1, AbsentIs DEF Excluded, Scanned, Actors
  <1>6. Ended
    BY <1>1, <1>2, AbsentIs DEF Ended, Released, Swept, Enders, Init
  <1>7. Current
    BY <1>1, <1>2, AbsentIs DEF Current, Init
  <1> QED
    BY <1>3, <1>4, <1>5, <1>6, <1>7

(* Whatever the processes on the machine do, in whatever order, the files,   *)
(* the processes and the service manager have values of their types.         *)
THEOREM ServiceTypeCorrect == Spec => []TypeOK
<1>1. Init => TypeOK /\ Placed
  BY InitInv
<1>2. TypeOK /\ Placed /\ [Next]_vars => (TypeOK /\ Placed)'
  BY TypeStep, PlacedStep
<1>3. QED
  BY <1>1, <1>2, PTL DEF Spec

(* Where "ps" shows every runtime no two of them ever serve at the same time,*)
(* however many are started, replaced, respawned or killed (index.ts, run;   *)
(* stopRuntimeProcesses).                                                    *)
THEOREM OneRuntimeServes == ~Hidden => (Spec => []OneRuntime)
<1> SUFFICES ASSUME ~Hidden
             PROVE  Spec => []OneRuntime
  OBVIOUS
<1> DEFINE Inv == TypeOK /\ Placed /\ Excluded
<1>1. Init => Inv
  BY InitInv
<1>2. Inv /\ [Next]_vars => Inv'
  BY TypeStep, PlacedStep, ExcludedStep
<1>3. Inv => OneRuntime
  <2> SUFFICES ASSUME Inv
               PROVE  OneRuntime
    OBVIOUS
  <2>1. \A p, q \in Serving : p = q
    BY DEF Serving, Running, Excluded, Scanned, Awaits
  <2>2. CASE Serving = {}
    BY <2>2, FS_EmptySet DEF OneRuntime
  <2>3. CASE Serving # {}
    <3>1. PICK p \in Serving : TRUE
      BY <2>3
    <3>2. Serving = {p}
      BY <2>1, <3>1
    <3> QED
      BY <3>2, FS_Singleton DEF OneRuntime
  <2> QED
    BY <2>2, <2>3
<1>4. QED
  BY <1>1, <1>2, <1>3, PTL DEF Spec

(* When a stop, an uninstall or a reset is over, nothing is left of what ran *)
(* before it, and no service, whatever the service manager does meanwhile    *)
(* (index.ts, stopService, uninstallService; service.ts).                    *)
THEOREM StoppedForGood == ~Hidden => (Spec => []Stopped)
<1> SUFFICES ASSUME ~Hidden
             PROVE  Spec => []Stopped
  OBVIOUS
<1> DEFINE Inv == TypeOK /\ Placed /\ Ended
<1>1. Init => Inv
  BY InitInv
<1>2. Inv /\ [Next]_vars => Inv'
  BY TypeStep, PlacedStep, EndedStep
<1>3. Inv => Stopped
  BY DEF Ended, Stopped, Left, Idle, Enders, Placed, CommandPlaced
<1>4. QED
  BY <1>1, <1>2, <1>3, PTL DEF Spec

(* When a pairing is over, what serves has the identity it left, also what    *)
(* was started while it went on (decidePairServiceAction).                   *)
THEOREM PairedIdentity == ~Hidden => (Spec => []PairedIdentityServes)
<1> SUFFICES ASSUME ~Hidden
             PROVE  Spec => []PairedIdentityServes
  OBVIOUS
<1> DEFINE Inv == TypeOK /\ Placed /\ Current
<1>1. Init => Inv
  BY InitInv
<1>2. Inv /\ [Next]_vars => Inv'
  BY TypeStep, PlacedStep, CurrentStep
<1>3. Inv => PairedIdentityServes
  BY DEF Current, PairedIdentityServes, UpToDate, Outdated, Serving, Idle, Placed,
         CommandPlaced
<1>4. QED
  BY <1>1, <1>2, <1>3, PTL DEF Spec

=============================================================================
