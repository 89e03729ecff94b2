---------------------------- MODULE ModelService ----------------------------
(***************************************************************************)
(* The servers on the host and the commands that start and stop them       *)
(* (Makefile, scripts/service.sh, start-turboquant.sh, start-baseline.sh,  *)
(* stop-all.sh, restart-turboquant.sh, switch-model.sh, _common.sh).       *)
(*                                                                         *)
(* A command is the list of the stages its script has left; commands of    *)
(* several terminals, the starters they leave in the background, launchd,  *)
(* and servers that exit take turns.  launchd and llama-server are known   *)
(* from their use: a loaded agent is started whenever it has no process; a *)
(* server binds its port, or exits when it is taken, before it is healthy. *)
(***************************************************************************)
EXTENDS Naturals, Sequences, FiniteSets

CONSTANTS
  Terminal,      \* where commands are given
  Gives,         \* Gives[t]: the commands given there, of the names of Script
  MaxProc,       \* bound on the processes there are at a time
  Passes,        \* max_passes of kill_pids_by
  MaxCommands, MaxExits   \* bounds on commands, and on servers that exit by themselves

\* At least one pass is made.
ASSUME LimitAssumption == MaxProc \in Nat /\ Passes \in Nat \ {0} /\ MaxCommands \in Nat /\ MaxExits \in Nat

VARIABLES
  proc,       \* proc[p]: how far process p is, who started it, and its model
  listener,   \* listener[l]: who listens on port l
  plist, loaded, agent,   \* the plist is there; launchd has the job; its process
  command, todo, result,  \* of each terminal: what it was told, the stages left, the exit status
  pass, pids,             \* kill_pids_by
  commands, exits,        \* counts for the bounds
  old, calm               \* auxiliary: what there was when the command began; nothing interfered

host     == <<proc, listener, agent>>
job      == <<plist, loaded>>
shell    == <<command, todo, result, pass, pids>>
counts   == <<commands, exits>>
observed == <<old, calm>>
service  == <<host, job, shell, counts, observed>>

Proc    == 1 .. MaxProc
NoProc  == 0
Foreign == MaxProc + 1   \* a server that is not of this repository
Free    == [at |-> "free", by |-> "nobody", model |-> "none"]

\* A starter is a shell; exec makes it the server.
Starter == {p \in Proc : proc[p].at \in {"guard", "check", "exec"}}
\* list_pids_by_repo_cmd
Listed  == {p \in Proc : proc[p].at \in {"starting", "loading", "up"}}
PortOf(p) == IF proc[p].by = "baseline" THEN "baseline" ELSE "primary"

\* A process appears in a free entry of the table.
Entry     == CHOOSE p \in Proc : proc[p] = Free
CanFork   == \E p \in Proc : proc[p] = Free
Fork(at, by, model) == proc' = [proc EXCEPT ![Entry] = [at |-> at, by |-> by, model |-> model]]
\* Processes are gone, and with them their sockets.
Gone(S) ==
  /\ proc' = [p \in Proc |-> IF p \in S THEN Free ELSE proc[p]]
  /\ listener' = [l \in DOMAIN listener |-> IF listener[l] \in S THEN NoProc ELSE listener[l]]
  /\ agent' = IF agent \in S THEN NoProc ELSE agent
  /\ old' = [t \in Terminal |-> old[t] \ S]

-----------------------------------------------------------------------------
(* The scripts                                                              *)

\* Mutant: the servers are killed before launchd is told.
StopKillsFirst == <<"kill", "bootout", "unloaded">>
\* stop-all.sh and service.sh stop
Stop == <<"bootout", "kill", "unloaded">>
Script ==
  [stop       |-> Stop,
   unregister |-> Stop \o <<"remove">>,
   register   |-> <<"render", "load">>,
   install    |-> <<"render", "load", "await">>,
   begin      |-> <<"registered", "begin">>,
   again      |-> Stop \o <<"registered", "begin", "await">>,
   start      |-> <<"probe", "spawn", "await">>,
   restart    |-> Stop \o <<"free", "render", "load", "await">>,
   switch     |-> Stop \o <<"spawn", "await">>,
   baseline   |-> Stop \o <<"free", "spawn", "await">>]
Model  == [c \in DOMAIN Script |-> CASE c = "switch" -> "crow" [] c = "baseline" -> "baseline" [] OTHER -> "qwen"]
PortAsked(t) == IF Model[command[t]] = "baseline" THEN "baseline" ELSE "primary"

ASSUME CommandAssumption == Gives \in [Terminal -> SUBSET DOMAIN Script]

Give(t, c) ==
  /\ result[t] # "busy" /\ commands < MaxCommands
  /\ command' = [command EXCEPT ![t] = c]
  /\ todo' = [todo EXCEPT ![t] = Script[c]]
  /\ result' = [result EXCEPT ![t] = "busy"]
  /\ commands' = commands + 1
  /\ old' = [old EXCEPT ![t] = Listed \cup {listener["primary"]}]
  /\ calm' = [u \in Terminal |-> /\ u = t
                                 /\ \A v \in Terminal \ {t} : result[v] # "busy"
                                 /\ \A p \in Starter : proc[p].by = "agent"]
  /\ UNCHANGED <<host, job, pass, pids, exits>>

At(t, s) == todo[t] # <<>> /\ Head(todo[t]) = s
\* The rest of the command of t is ss.
GoOn(t, ss) ==
  /\ todo' = [todo EXCEPT ![t] = ss]
  /\ result' = IF ss = <<>> THEN [result EXCEPT ![t] = "ok"] ELSE result
  /\ UNCHANGED command
Then(t) == GoOn(t, Tail(todo[t]))
\* set -e, die, exit 1
Fail(t) ==
  /\ todo' = [todo EXCEPT ![t] = <<>>] /\ result' = [result EXCEPT ![t] = "failed"]
  /\ UNCHANGED command
Quiet == UNCHANGED <<counts, calm>>

\* Ctrl-C: what the script has put in the background stays.
Interrupt(t) ==
  /\ todo[t] # <<>> /\ Fail(t)
  /\ UNCHANGED <<host, job, pass, pids, counts, observed>>

\* launchctl bootout, if loaded: SIGTERM to the job's process, which may outlast it
\* as a server of its own.
Bootout(t) ==
  /\ At(t, "bootout") /\ Then(t)
  /\ loaded' = FALSE
  /\ \/ loaded /\ Gone({agent})
     \/ /\ loaded => agent \in Listed \cup {NoProc}
        /\ agent' = NoProc /\ UNCHANGED <<proc, listener, old>>
  /\ pass' = [pass EXCEPT ![t] = 0]
  /\ UNCHANGED <<plist, pids>> /\ Quiet

\* kill_pids_by: a pass sends SIGTERM to what it lists; some exit ...
Terminate(t) ==
  /\ At(t, "kill") /\ Listed # {} /\ pass[t] < Passes
  /\ GoOn(t, <<"stragglers">> \o todo[t])
  /\ pass' = [pass EXCEPT ![t] = @ + 1]
  /\ \E S \in SUBSET Listed : Gone(S) /\ pids' = [pids EXCEPT ![t] = Listed \ S]
  /\ UNCHANGED job /\ Quiet
\* ... and two seconds later the others get SIGKILL.
KillStragglers(t) ==
  /\ At(t, "stragglers") /\ Then(t)
  /\ Gone(pids[t] \cap Listed) /\ pids' = [pids EXCEPT ![t] = {}]
  /\ UNCHANGED <<job, pass>> /\ Quiet
\* A pass lists nothing, or there were enough of them.
LastPass(t) ==
  /\ At(t, "kill") /\ (Listed = {} \/ pass[t] = Passes)
  /\ IF pass[t] = 0 THEN Then(t) ELSE GoOn(t, <<"survivors">> \o Tail(todo[t]))
  /\ UNCHANGED <<host, job, pass, pids, old>> /\ Quiet
Survivors(t) ==
  /\ At(t, "survivors")
  /\ IF Listed = {} THEN Then(t) ELSE Fail(t)
  /\ UNCHANGED <<host, job, pass, pids, old>> /\ Quiet
\* "service remained loaded"
Unloaded(t) ==
  /\ At(t, "unloaded")
  /\ IF loaded THEN Fail(t) ELSE Then(t)
  /\ UNCHANGED <<host, job, pass, pids, old>> /\ Quiet
Remove(t) ==
  /\ At(t, "remove") /\ Then(t)
  /\ plist' = FALSE
  /\ UNCHANGED <<host, loaded, pass, pids, old>> /\ Quiet

Render(t) ==
  /\ At(t, "render") /\ Then(t)
  /\ plist' = TRUE
  /\ UNCHANGED <<host, loaded, pass, pids, old>> /\ Quiet
Registered(t) ==
  /\ At(t, "registered")
  /\ IF plist THEN Then(t) ELSE Fail(t)
  /\ UNCHANGED <<host, job, pass, pids, old>> /\ Quiet
\* service.sh register and start, if the job is not loaded
Load(t) ==
  /\ At(t, "load") \/ At(t, "begin")
  /\ ~ loaded
  /\ GoOn(t, <<"free", "bootstrap">> \o Tail(todo[t]))
  /\ UNCHANGED <<host, job, pass, pids, old>> /\ Quiet
LoadedAlready(t) ==
  /\ At(t, "load") /\ loaded /\ Then(t)
  /\ UNCHANGED <<host, job, pass, pids, old>> /\ Quiet
\* launchctl kickstart
Kickstart(t) ==
  /\ At(t, "begin") /\ loaded /\ Then(t)
  /\ IF agent = NoProc /\ CanFork THEN Fork("check", "agent", "qwen") /\ agent' = Entry
                                  ELSE UNCHANGED <<proc, agent>>
  /\ UNCHANGED <<listener, job, pass, pids, old>> /\ Quiet
Bootstrap(t) ==
  /\ At(t, "bootstrap")
  /\ IF loaded \/ ~ plist THEN Fail(t) ELSE Then(t)
  /\ loaded' = (loaded \/ plist)
  /\ UNCHANGED <<host, plist, pass, pids, old>> /\ Quiet
\* Mutant: the port is not looked at.
FreeUnchecked(t) ==
  /\ At(t, "free") /\ Then(t)
  /\ UNCHANGED <<host, job, pass, pids, old>> /\ Quiet
\* ensure_port_available, ensure_port_free of a background baseline, and the same
\* check of restart-turboquant.sh
PortFree(t) ==
  /\ At(t, "free")
  /\ IF listener[PortAsked(t)] = NoProc THEN Then(t) ELSE Fail(t)
  /\ UNCHANGED <<host, job, pass, pids, old>> /\ Quiet

Healthy(l) == listener[l] = Foreign \/ (listener[l] \in Proc /\ proc[listener[l]].at = "up")
\* make start: "already running"
Probe(t) ==
  /\ At(t, "probe")
  /\ IF Healthy("primary") THEN GoOn(t, <<>>) ELSE Then(t)
  /\ UNCHANGED <<host, job, pass, pids, old>> /\ Quiet
\* A background baseline allows a stack, and the command has looked at its port.
Spawn(t) ==
  /\ At(t, "spawn") /\ CanFork /\ Then(t)
  /\ IF Model[command[t]] = "baseline" THEN Fork("exec", "baseline", "baseline")
                                       ELSE Fork("guard", "loose", Model[command[t]])
  /\ UNCHANGED <<listener, agent, job, pass, pids, old>> /\ Quiet
\* wait_for_health; a timeout is like a Ctrl-C.
Await(t) ==
  /\ At(t, "await") /\ Healthy(PortAsked(t)) /\ Then(t)
  /\ UNCHANGED <<host, job, pass, pids, old>> /\ Quiet

-----------------------------------------------------------------------------
(* Starters, servers, launchd and the user's session                        *)

Moves(p, at) == proc' = [proc EXCEPT ![p].at = at]
\* ensure_no_other_llama_server: pgrep need not see a server whose command line
\* is long, so that a guard that fails has seen one, and one that passes nothing.
Guard(p) ==
  /\ proc[p].at = "guard" /\ Moves(p, "check")
  /\ UNCHANGED <<listener, agent, job, shell, counts, observed>>
GuardFails(p) ==
  /\ proc[p].at = "guard" /\ (Listed # {} \/ listener["primary"] = Foreign)
  /\ Gone({p}) /\ UNCHANGED <<job, shell, counts, calm>>
\* ensure_port_free
Check(p) ==
  /\ proc[p].at = "check" /\ listener[PortOf(p)] = NoProc /\ Moves(p, "exec")
  /\ UNCHANGED <<listener, agent, job, shell, counts, observed>>
CheckFails(p) ==
  /\ proc[p].at = "check" /\ listener[PortOf(p)] # NoProc
  /\ Gone({p}) /\ UNCHANGED <<job, shell, counts, calm>>
\* Mutant: the agent's starter looks for other servers as well.
ExecAlone(p) ==
  /\ proc[p].at = "exec" /\ (proc[p].by = "agent" => Listed = {}) /\ Moves(p, "starting")
  /\ UNCHANGED <<listener, agent, job, shell, counts, observed>>
Exec(p) ==
  /\ proc[p].at = "exec" /\ Moves(p, "starting")
  /\ UNCHANGED <<listener, agent, job, shell, counts, observed>>
Bind(p) ==
  /\ proc[p].at = "starting" /\ listener[PortOf(p)] = NoProc
  /\ Moves(p, "loading") /\ listener' = [listener EXCEPT ![PortOf(p)] = p]
  /\ UNCHANGED <<agent, job, shell, counts, observed>>
BindFails(p) ==
  /\ proc[p].at = "starting" /\ listener[PortOf(p)] # NoProc
  /\ Gone({p}) /\ UNCHANGED <<job, shell, counts, calm>>
Ready(p) ==
  /\ proc[p].at = "loading" /\ Moves(p, "up")
  /\ UNCHANGED <<listener, agent, job, shell, counts, observed>>
\* A server crashes, or a starter finds no memory or artifacts.
Exits(p) ==
  /\ proc[p] # Free /\ exits < MaxExits
  /\ exits' = exits + 1
  /\ Gone({p}) /\ UNCHANGED <<job, shell, commands, calm>>

\* RunAtLoad and KeepAlive
KeepAlive ==
  /\ loaded /\ agent = NoProc /\ CanFork
  /\ Fork("check", "agent", "qwen") /\ agent' = Entry
  /\ UNCHANGED <<listener, job, shell, counts, observed>>

\* Somebody else's server takes the port, or leaves it.
ForeignBinds ==
  /\ listener["primary"] = NoProc /\ exits < MaxExits /\ exits' = exits + 1
  /\ listener' = [listener EXCEPT !["primary"] = Foreign]
  /\ calm' = [t \in Terminal |-> FALSE]
  /\ UNCHANGED <<proc, agent, job, shell, commands, old>>
ForeignLeaves ==
  /\ listener["primary"] = Foreign
  /\ listener' = [listener EXCEPT !["primary"] = NoProc]
  /\ UNCHANGED <<proc, agent, job, shell, counts, observed>>
\* The machine starts anew: what is registered is loaded at the login.
Login ==
  /\ exits < MaxExits /\ exits' = exits + 1
  /\ proc' = [p \in Proc |-> Free] /\ listener' = [l \in DOMAIN listener |-> NoProc]
  /\ agent' = NoProc /\ loaded' = plist
  /\ todo' = [t \in Terminal |-> <<>>]
  /\ result' = [t \in Terminal |-> IF plist \/ result[t] = "busy" THEN "none" ELSE result[t]]
  /\ old' = [t \in Terminal |-> {}]
  /\ UNCHANGED <<plist, command, pass, pids, commands, calm>>

-----------------------------------------------------------------------------
ServiceInit ==
  /\ proc = [p \in Proc |-> Free]
  /\ \E f \in {NoProc, Foreign} : listener = [primary |-> f, baseline |-> NoProc]
  /\ plist \in BOOLEAN /\ loaded = FALSE /\ agent = NoProc
  /\ command = [t \in Terminal |-> "stop"] /\ todo = [t \in Terminal |-> <<>>]
  /\ result = [t \in Terminal |-> "none"]
  /\ pass = [t \in Terminal |-> 0] /\ pids = [t \in Terminal |-> {}]
  /\ commands = 0 /\ exits = 0
  /\ old = [t \in Terminal |-> {}] /\ calm = [t \in Terminal |-> FALSE]

StopStep(t)  == \/ Bootout(t) \/ Terminate(t) \/ KillStragglers(t) \/ LastPass(t) \/ Survivors(t)
                \/ Unloaded(t) \/ Remove(t)
StartStep(t) == \/ Render(t) \/ Registered(t) \/ Load(t) \/ LoadedAlready(t) \/ Kickstart(t)
                \/ Bootstrap(t) \/ PortFree(t) \/ Probe(t) \/ Spawn(t) \/ Await(t)
ProcStep(p)  == \/ Guard(p) \/ GuardFails(p) \/ Check(p) \/ CheckFails(p)
                \/ Exec(p) \/ Bind(p) \/ BindFails(p) \/ Ready(p)

ServiceNext ==
  \/ \E t \in Terminal : StopStep(t) \/ StartStep(t) \/ Interrupt(t) \/ \E c \in Gives[t] : Give(t, c)
  \/ \E p \in Proc : ProcStep(p) \/ Exits(p)
  \/ KeepAlive \/ ForeignBinds \/ ForeignLeaves \/ Login

\* launchd starts the job again, and a process that runs gets on.
ServiceFairness == WF_service(KeepAlive) /\ \A p \in Proc : WF_service(ProcStep(p))
ServiceSpec     == ServiceInit /\ [][ServiceNext]_service /\ ServiceFairness

-----------------------------------------------------------------------------
(* Properties                                                               *)

\* The last command of t, which did what it was to do, and nothing interfered: no
\* other command, no starter that an earlier one had left, no foreign server.
Did(t, cs) == result[t] = "ok" /\ command[t] \in cs /\ calm[t]

\* A stop that succeeds has ended every server it found, whatever else went on.
\* If nothing interfered no server of the repository runs then, and none comes back
\* through KeepAlive, whatever there was: a job that launchd restarts while it is
\* killed, orphans, servers that outlast SIGTERM. After an unregister that holds
\* over the next login too (docs/service.md 25, 28, 34-35, service.sh 110-128).
StopHolds ==
  \A t \in Terminal :
    /\ result[t] = "ok" /\ command[t] \in {"stop", "unregister"} => old[t] \cap Listed = {}
    /\ Did(t, {"stop", "unregister"}) => ~ loaded /\ agent = NoProc /\ Listed \cup Starter = {}

\* A restart or switch that reports health has not taken the health of a server
\* that was there before for its own: who listens since is a server that it
\* started itself, with the asked model. (A switch does not see a foreign server
\* that holds the port; restart-turboquant.sh 41-55, service.sh 117-123.)
UpIsOurs ==
  \A t \in Terminal :
    Did(t, {"restart", "again", "switch"}) /\ (command[t] = "switch" => Foreign \notin old[t]) =>
      LET p == listener["primary"] IN
      p # NoProc => /\ p \in Proc \ old[t]
                    /\ proc[p].by = (IF command[t] = "switch" THEN "loose" ELSE "agent")
                    /\ proc[p].model = Model[command[t]]

\* If the job stays loaded and nobody else has its port, the job's server comes up
\* for good, next to whatever other servers there are (docs/service.md 5-7).
Undisturbed == loaded /\ listener["primary"] \in {NoProc, agent}
KeepsServing ==
  <>[]Undisturbed => <>[](agent # NoProc /\ listener["primary"] = agent /\ proc[agent].at = "up")
=============================================================================
