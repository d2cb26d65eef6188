--------------------------- MODULE ServiceLifecycle ---------------------------
(***************************************************************************)
(* The processes of the bridge on one machine: runtimes ("run"), started   *)
(* by hand or by the service manager, and the commands that install,       *)
(* restart, stop, pair and reset them (apps/bridge-cli/src/index.ts,       *)
(* packages/bridge-core/src/service.ts).  They share files without a lock: *)
(* the list of runtimes, the pid of the service and the pairing            *)
(* configuration; each read and each write of a file is a step.            *)
(*                                                                         *)
(* The commands are run one after another, the runtimes at any time.       *)
(***************************************************************************)
EXTENDS Integers, FiniteSets

CONSTANTS
  Pids,        \* pids of runtimes; one that is in a file is not given out again
  None,
  CLI,         \* the actor that runs the commands
  Hidden,      \* can "ps" miss a runtime started by hand?
  MaxRuns,     \* bound on the runtimes started by hand
  MaxCommands, \* bound on the commands
  MaxCrashes   \* bound on the runtimes that die without being told to

ASSUME PidsAssumption == Pids # {} /\ {None, CLI} \cap Pids = {} /\ None # CLI
ASSUME BoundsAssumption ==
  /\ Hidden \in BOOLEAN /\ MaxRuns \in Nat /\ MaxCommands \in Nat /\ MaxCrashes \in Nat

VARIABLES
  act,       \* the processes: the runtimes by pid, and the command
  registry,  \* bridge-runtime-processes.json
  state,     \* the pid in bridge-service.json
  config,    \* the identity in the pairing configuration, 0 if there is none
  manager,   \* the service manager: is the service registered, loaded, and its child
  method,    \* what the machine has: a service manager, only cron, or neither
  last,      \* ghost: the command that ended last
  newer,     \* ghost: the runtimes started since the last command began
  runs, commands, crashes   \* counters of the bounds

files == <<registry, state, config>>
bounds == <<runs, commands, crashes>>
vars == <<act, files, manager, method, last, newer, bounds>>

-----------------------------------------------------------------------------
Actors == Pids \cup {CLI}
Commands == {"pair", "install", "restart", "stop", "uninstall", "reset"}

Actor ==
  [kind : {"none", "service", "manual", "command"},
   op : Commands \cup {"run"},
   pc : {"config", "list", "writeback", "scan", "signal", "wait", "reread", "rewrite",
         "clear", "start", "register", "registered", "up", "stopping", "unlist",
         "unlisted", "unstate", "pair", "decide", "kill", "unload", "unloaded", "activate",
         "delete", "done"},
   action : {"install", "restart"},   \* of a pairing
   replace : BOOLEAN,          \* --replace
   stopping : BOOLEAN,         \* is it in stopRuntimeProcesses?
   term : BOOLEAN,             \* has a handler seen SIGTERM?
   cfg : 0..MaxCommands + 1,   \* the identity it runs with
   snap : SUBSET Pids,         \* the list as it was read
   victims : SUBSET Pids]

Absent == [kind |-> "none", op |-> "run", pc |-> "done", action |-> "install", replace |-> FALSE, stopping |-> FALSE,
           term |-> FALSE, cfg |-> 0, snap |-> {}, victims |-> {}]

NewRuntime(kind, replace) ==
  [Absent EXCEPT !.kind = kind, !.pc = "config", !.replace = replace]

Alive(p) == act[p].kind # "none"
Running == {p \in Pids : Alive(p)}      \* isPidRunning
ChildAlive == manager.child \in Running
Idle == act[CLI].kind = "none"

\* A runtime between its start and the end of runtime.stop
Serving == {p \in Running : act[p].pc \in {"register", "registered", "up", "stopping"}}

\* listPosixRuntimePids: a runtime counts if its command line has the real path of
\* the script, as that of the service has; that of a run through a link has not.
Visible(p) == act[p].kind = "service" \/ ~Hidden

\* A pid that may be given out: of no process and in no file.
FreePids == {p \in Pids : ~Alive(p) /\ p \notin registry /\ p # state /\ manager.child # p
                          /\ \A a \in Actors : p \notin act[a].snap \cup act[a].victims}

Goto(a, pc) == act' = [act EXCEPT ![a].pc = pc]
Exit(a) == act' = [act EXCEPT ![a] = Absent]

-----------------------------------------------------------------------------
(* listRuntimeProcesses, of every actor *)

\* readRuntimeRegistry: entries of dead processes are left out.
Load(a, pc, next) ==
  /\ act[a].pc = pc
  /\ act' = [act EXCEPT ![a].pc = next, ![a].snap = registry \cap Running]
  /\ UNCHANGED <<files, manager, method, last, newer, bounds>>

List(a) == Load(a, "list", "writeback")

\* ... and what was read is written back.
WriteBack(a) ==
  /\ act[a].pc = "writeback"
  /\ registry' = IF registry = {} THEN registry ELSE act[a].snap
  /\ Goto(a, "scan")
  /\ UNCHANGED <<state, config, manager, method, last, newer, bounds>>

\* Mutant: only the list is asked, not "ps".
FoundListed(a) == (act[a].snap \cap Running) \ {a}

\* listRuntimeProcesses, its result
Found(a) == ((act[a].snap \cup {p \in Running : Visible(p)}) \cap Running) \ {a}

\* run refuses to start next to another runtime unless told to replace it; a pairing
\* that found the service running stops the runtimes only if there are several.
Scan(a) ==
  LET found == Found(a) IN
  /\ act[a].pc = "scan"
  /\ act' = [act EXCEPT ![a] =
       IF @.stopping THEN [@ EXCEPT !.victims = found, !.pc = "signal"]
       ELSE IF a # CLI /\ found = {} THEN [@ EXCEPT !.pc = "start", !.snap = {}]
       ELSE IF a # CLI /\ ~@.replace THEN Absent
       ELSE IF a = CLI /\ Cardinality(found) <= 1 THEN [@ EXCEPT !.pc = "done"]
       ELSE [@ EXCEPT !.stopping = TRUE, !.pc = "list", !.action = "restart"]]
  /\ UNCHANGED <<files, manager, method, last, newer, bounds>>

-----------------------------------------------------------------------------
(* stopRuntimeProcesses *)

\* SIGTERM: a runtime that has its handlers shuts down, any other one dies.
Terminated(f, V) ==
  [a \in Actors |-> IF a \in V /\ f[a].kind # "none"
                    THEN IF f[a].pc \in {"up", "stopping", "unlist", "unlisted", "unstate"}
                         THEN [f[a] EXCEPT !.term = TRUE] ELSE Absent
                    ELSE f[a]]

Signal(a) ==
  /\ act[a].pc = "signal"
  /\ act' = [Terminated(act, act[a].victims) EXCEPT ![a].pc = "wait"]
  /\ UNCHANGED <<files, manager, method, last, newer, bounds>>

\* Mutant: the replacement starts without waiting for the victims.
GoneUnawaited(a) == TRUE

\* waitForPidExit of every victim
Gone(a) == act[a].victims \cap Running = {}

Waited(a) ==
  /\ act[a].pc = "wait"
  /\ Gone(a)
  /\ Goto(a, "reread")
  /\ UNCHANGED <<files, manager, method, last, newer, bounds>>

\* A victim that has not ended after three seconds is killed.
KillVictim(a, p) ==
  /\ act[a].pc = "wait"
  /\ p \in act[a].victims \cap Running
  /\ Exit(p)
  /\ UNCHANGED <<files, manager, method, last, newer, bounds>>

Reread(a) == Load(a, "reread", "rewrite")

Rewrite(a) ==
  /\ act[a].pc = "rewrite"
  /\ registry' = act[a].snap \ act[a].victims
  /\ Goto(a, "clear")
  /\ UNCHANGED <<state, config, manager, method, last, newer, bounds>>

\* What follows stopRuntimeProcesses in each command
AfterStop(a) ==
  CASE act[a].op = "run" -> "start"
    [] act[a].op \in {"stop", "uninstall"} -> "done"
    [] act[a].op = "reset" -> "kill"
    [] OTHER -> "activate"

\* clearServiceState, if the service was among the victims
Cleared(a) == IF state \in act[a].victims THEN None ELSE state

Clear(a) ==
  /\ act[a].pc = "clear"
  /\ state' = Cleared(a)
  /\ act' = [act EXCEPT ![a].pc = AfterStop(a), ![a].snap = {}, ![a].victims = {},
                        ![a].stopping = FALSE]
  /\ UNCHANGED <<registry, config, manager, method, last, newer, bounds>>

-----------------------------------------------------------------------------
(* run *)

\* requirePairingConfig
ReadConfig(p) ==
  /\ act[p].pc = "config"
  /\ act' = [act EXCEPT ![p] = IF config = 0 THEN Absent
                               ELSE [@ EXCEPT !.pc = "list", !.cfg = config]]
  /\ UNCHANGED <<files, manager, method, last, newer, bounds>>

\* writeServiceState and runtime.start
Start(p) ==
  /\ act[p].pc = "start"
  /\ state' = IF act[p].kind = "service" THEN p ELSE state
  /\ Goto(p, "register")
  /\ UNCHANGED <<registry, config, manager, method, last, newer, bounds>>

\* registerRuntimeProcess; the handlers of signals are installed after it.
Register(p) == Load(p, "register", "registered")

Registered(p) ==
  /\ act[p].pc = "registered"
  /\ registry' = act[p].snap \cup {p}
  /\ act' = [act EXCEPT ![p].pc = "up", ![p].snap = {}]
  /\ UNCHANGED <<state, config, manager, method, last, newer, bounds>>

\* The user ends a runtime at its terminal.
Interrupt(p) ==
  /\ act[p].kind = "manual" /\ act[p].pc = "up" /\ ~act[p].term
  /\ act' = [act EXCEPT ![p].term = TRUE]
  /\ UNCHANGED <<files, manager, method, last, newer, bounds>>

\* shutdown, on SIGTERM or SIGINT
Shutdown(p) ==
  /\ act[p].pc = "up" /\ act[p].term
  /\ Goto(p, "stopping")
  /\ UNCHANGED <<files, manager, method, last, newer, bounds>>

RuntimeStopped(p) ==
  /\ act[p].pc = "stopping"
  /\ Goto(p, "unlist")
  /\ UNCHANGED <<files, manager, method, last, newer, bounds>>

Unlist(p) == Load(p, "unlist", "unlisted")

Unlisted(p) ==
  /\ act[p].pc = "unlisted"
  /\ registry' = act[p].snap \ {p}
  /\ Goto(p, "unstate")
  /\ UNCHANGED <<state, config, manager, method, last, newer, bounds>>

\* clearServiceState(process.pid)
Unstate(p) ==
  /\ act[p].pc = "unstate"
  /\ state' = IF act[p].kind = "service" /\ state = p THEN None ELSE state
  /\ Exit(p)
  /\ UNCHANGED <<registry, config, manager, method, last, newer, bounds>>

Run(replace) ==
  /\ runs < MaxRuns
  /\ runs' = runs + 1
  /\ \E p \in FreePids :
       /\ act' = [act EXCEPT ![p] = NewRuntime("manual", replace)]
       /\ newer' = newer \cup {p}
  /\ UNCHANGED <<files, manager, method, last, commands, crashes>>

Die(p) ==
  /\ Alive(p) /\ p # CLI
  /\ crashes < MaxCrashes
  /\ crashes' = crashes + 1
  /\ Exit(p)
  /\ UNCHANGED <<files, manager, method, last, newer, runs, commands>>

-----------------------------------------------------------------------------
(* The service manager (KeepAlive, Restart=always) *)

Respawn ==
  /\ manager.loaded
  /\ ~ChildAlive
  /\ \E p \in FreePids :
       /\ act' = [act EXCEPT ![p] = NewRuntime("service", FALSE)]
       /\ manager' = [manager EXCEPT !.child = p]
       /\ newer' = newer \cup {p}
  /\ UNCHANGED <<files, method, last, bounds>>

\* stopRunningProcess: the recorded service is told to end and forgotten.
Kill(a) ==
  /\ act[a].pc = "kill"
  /\ act' = [Terminated(act, {state}) EXCEPT ![a].pc = "unload"]
  /\ state' = None
  /\ UNCHANGED <<registry, config, manager, method, last, newer, bounds>>

\* Mutant: the service is told to end but stays loaded.
UnloadedKept(m) == m

\* launchctl unload, systemctl stop
UnloadedFrom(m) == [m EXCEPT !.loaded = FALSE]

Unload(a) ==
  /\ act[a].pc = "unload"
  /\ manager' = [UnloadedFrom(manager) EXCEPT !.installed = @ /\ act[a].op # "uninstall"]
  /\ act' = [Terminated(act, {manager.child}) EXCEPT ![a].pc = "unloaded"]
  /\ UNCHANGED <<files, method, last, newer, bounds>>

\* The manager returns when its child has ended, and kills it if it does not;
\* then clearServiceState.
Unloaded(a) ==
  /\ act[a].pc = "unloaded"
  /\ act' = [p \in Actors |->
       IF p = manager.child THEN Absent
       ELSE IF p = a THEN IF act[a].op = "reset" THEN [act[a] EXCEPT !.pc = "delete"]
                          ELSE [act[a] EXCEPT !.pc = "list", !.stopping = TRUE]
       ELSE act[p]]
  /\ state' = None
  /\ UNCHANGED <<registry, config, manager, method, last, newer, bounds>>

-----------------------------------------------------------------------------
(* Commands *)

Command(op) ==
  /\ Idle
  /\ commands < MaxCommands
  /\ commands' = commands + 1
  /\ op \in {"install", "restart"} => config # 0
  /\ act' = [act EXCEPT ![CLI] =
       [Absent EXCEPT !.kind = "command", !.op = op,
          !.action = IF op = "restart" THEN "restart" ELSE "install",
          !.stopping = op \in {"install", "restart", "reset"},
          !.pc = CASE op = "pair" -> "pair"
                   [] op \in {"stop", "uninstall"} -> "kill"
                   [] OTHER -> "list"]]
  /\ newer' = {}
  /\ UNCHANGED <<files, manager, method, last, runs, crashes>>

\* pairGateway: a machine without configuration is registered under a new identity.
Pair ==
  /\ act[CLI].pc = "pair"
  /\ config' = IF config = 0 THEN commands + 1 ELSE config
  /\ act' = [act EXCEPT ![CLI].pc = "decide", ![CLI].cfg = IF config = 0 THEN config' ELSE 0]
  /\ UNCHANGED <<registry, state, manager, method, last, newer, bounds>>

StateAlive == state \in Running

\* getServiceStatus: launchctl lists a loaded service, systemctl asks for its process.
StatusRunning == {StateAlive \/ manager.loaded, StateAlive \/ ChildAlive}

\* decidePairServiceAction; a dead recorded pid is cleared on the way.
Decide ==
  /\ act[CLI].pc = "decide"
  /\ state' = IF StateAlive THEN state ELSE None
  /\ \E running \in StatusRunning :
       act' = [act EXCEPT ![CLI] =
         [@ EXCEPT !.pc = "list",
                   !.stopping = ~manager.installed \/ ~running \/ act[CLI].cfg # 0,
                   !.action = IF manager.installed THEN "restart" ELSE "install"]]
  /\ UNCHANGED <<registry, config, manager, method, last, newer, bounds>>

\* launchctl load, systemctl enable and restart
LoadedInto(m) == [m EXCEPT !.installed = TRUE, !.loaded = TRUE]

\* installService and restartService.  systemctl enable leaves a running child
\* alone, restart and launchctl unload and load end it.
ActivateManaged ==
  /\ act[CLI].pc = "activate" /\ method = "manager"
  /\ manager' = LoadedInto(manager)
  /\ \E anew \in {TRUE, act[CLI].action = "restart"} :
       act' = [IF anew THEN Terminated(act, {manager.child}) ELSE act
                 EXCEPT ![CLI].pc = "done"]
  /\ UNCHANGED <<files, method, last, newer, bounds>>

\* installLinuxCronService; without cron only a pairing starts a runtime
\* (startTransientRuntime), the other commands fail.
ActivateDetached ==
  LET ended == IF method = "cron" THEN Terminated(act, {state}) ELSE act IN
  /\ act[CLI].pc = "activate" /\ method # "manager"
  /\ manager' = [manager EXCEPT !.installed = (method = "cron")]
  /\ state' = IF method = "cron" THEN None ELSE state
  /\ IF method = "cron" \/ act[CLI].op = "pair"
     THEN \E p \in FreePids :
            /\ act' = [ended EXCEPT ![p] = NewRuntime("service", FALSE), ![CLI].pc = "done"]
            /\ newer' = newer \cup {p}
     ELSE act' = [ended EXCEPT ![CLI].pc = "done"] /\ UNCHANGED newer
  /\ UNCHANGED <<registry, config, method, last, bounds>>

\* reset, its last step
DeleteConfig ==
  /\ act[CLI].pc = "delete"
  /\ config' = 0
  /\ Goto(CLI, "done")
  /\ UNCHANGED <<registry, state, manager, method, last, newer, bounds>>

End ==
  /\ act[CLI].kind = "command" /\ act[CLI].pc = "done"
  /\ last' = act[CLI].op
  /\ Exit(CLI)
  /\ UNCHANGED <<files, manager, method, newer, bounds>>

-----------------------------------------------------------------------------
Init ==
  /\ act = [a \in Actors |-> Absent]
  /\ registry = {}
  /\ state = None
  /\ config \in {0, 1}
  /\ manager = [installed |-> FALSE, loaded |-> FALSE, child |-> None]
  /\ method \in {"manager", "cron", "none"}
  /\ last = "uninstall"
  /\ newer = {}
  /\ runs = 0 /\ commands = 0 /\ crashes = 0

ActorStep(a) ==
  \/ List(a) \/ WriteBack(a) \/ Scan(a) \/ Signal(a) \/ Waited(a)
  \/ Reread(a) \/ Rewrite(a) \/ Clear(a)
RuntimeStep(p) ==
  \/ ReadConfig(p) \/ Start(p) \/ Register(p) \/ Registered(p)
  \/ Shutdown(p) \/ RuntimeStopped(p) \/ Unlist(p) \/ Unlisted(p) \/ Unstate(p)
CommandStep ==
  \/ Pair \/ Decide \/ Kill(CLI) \/ Unload(CLI) \/ Unloaded(CLI)
  \/ ActivateManaged \/ ActivateDetached \/ DeleteConfig \/ End

Next ==
  \/ \E a \in Actors : ActorStep(a) \/ \E p \in Pids : KillVictim(a, p)
  \/ \E p \in Pids : RuntimeStep(p) \/ Interrupt(p) \/ Die(p)
  \/ \E replace \in BOOLEAN : Run(replace)
  \/ \E op \in Commands : Command(op)
  \/ CommandStep
  \/ Respawn

Spec == Init /\ [][Next]_vars

-----------------------------------------------------------------------------
(* Properties *)

TypeOK ==
  /\ act \in [Actors -> Actor]
  /\ registry \subseteq Pids
  /\ state \in Pids \cup {None}
  /\ config \in 0..MaxCommands + 1
  /\ manager \in [installed : BOOLEAN, loaded : BOOLEAN, child : Pids \cup {None}]
  /\ manager.loaded => manager.installed
  /\ method \in {"manager", "cron", "none"}
  /\ last \in Commands /\ newer \subseteq Pids
  /\ runs \in 0..MaxRuns /\ commands \in 0..MaxCommands /\ crashes \in 0..MaxCrashes

\* Two runtimes never serve at the same time, whoever starts, replaces, respawns or
\* is killed at whatever moment (index.ts, run; stopRuntimeProcesses).
OneRuntime == Cardinality(Serving) <= 1

\* When a stop, an uninstall or a reset is over, what serves was started by hand
\* while it went on: the service and everything older is gone, although the manager
\* restarts what is killed (index.ts, stopService, uninstallService).
Stopped ==
  (Idle /\ commands > 0 /\ last \in {"stop", "uninstall", "reset"}) =>
    \A p \in Running : p \in newer /\ act[p].kind = "manual"

\* When a pairing is over, whatever serves uses the identity it left: a runtime
\* reads the configuration only once (decidePairServiceAction).
PairedIdentityServes ==
  (Idle /\ last = "pair") => \A p \in Serving : act[p].cfg = config
=============================================================================
