------------------------------ MODULE ServeProcess ------------------------------
(***************************************************************************)
(* greatsage serve, serve --background, serve status and serve stop:       *)
(* control/process.py with the commands of cli.py.                         *)
(*                                                                         *)
(* A background server is a process found again through a state file that  *)
(* names its pid and url.  All servers of the instance use one port, the   *)
(* default, and runtime directory.  Process ids are used again once their  *)
(* process is gone.  A probe fetches the page at the url: it cannot tell   *)
(* which process answers, and may time out.                                *)
(***************************************************************************)
EXTENDS Integers, FiniteSets

CONSTANTS Pids,
          Cmds,         \* greatsage serve commands
          NoPid

ServeAssumption == NoPid \notin Pids /\ "terminal" \notin Cmds

VARIABLES
    process,    \* each pid: [is, by] with by the start that made it
    stateFile,  \* the pid in greatsage-serve.json
    cmd,        \* each command: [at, pid]
    mixed,      \* history: a server was started beside another one or its file
    killed      \* history: what serve stop has killed

serveVars == <<process, stateFile, cmd, mixed, killed>>

Free == [is |-> "free", by |-> "nobody"]
Gone == {"free", "dead"}
Server == {"starting", "serving"}

ServeInit ==
    /\ process = [p \in Pids |-> Free]
    /\ stateFile = NoPid
    /\ cmd = [c \in Cmds |-> [at |-> "idle", pid |-> NoPid]]
    /\ mixed = FALSE /\ killed = {}

(* save_state and clear_state.                                            *)
SaveState(p) == stateFile' = p
ClearState == stateFile' = NoPid

Alive(p) == p \in Pids /\ process[p].is \notin Gone
Answering == \E p \in Pids : process[p].is = "serving"
Step(c, at, p) == cmd' = [cmd EXCEPT ![c] = [at |-> at, pid |-> p]]
Result(c, at) == Step(c, at, cmd[c].pid)
Exits(p) == process' = [process EXCEPT ![p].is = "dead"]

(* A pid is not used again while its parent has not waited for it, nor in  *)
(* the moment between the probe of a stop and its signal.                  *)
Held(p) == \E c \in Cmds : cmd[c].pid = p /\ cmd[c].at \in {"waiting", "killing"}

(* Another server, its file, or another start on its way.                  *)
Crowded(c) ==
    \/ stateFile # NoPid
    \/ \E p \in Pids : process[p].is \in Server
    \/ \E d \in Cmds \ {c} : cmd[d].at \in {"spawning", "waiting"}

(* A new server process: on its way to bind the port.                      *)
Spawn(c, p, by) ==
    /\ process[p].is \in Gone /\ ~Held(p)
    /\ process' = [process EXCEPT ![p] = [is |-> "starting", by |-> by]]
    /\ mixed' = (mixed \/ Crowded(c))

-----------------------------------------------------------------------------
(* start_background.                                                       *)
StartChecks(c) ==
    /\ cmd[c].at = "idle"
    /\ IF stateFile # NoPid /\ Alive(stateFile)
       THEN Result(c, "failed") /\ UNCHANGED stateFile
       ELSE Result(c, "spawning") /\ ClearState
    /\ UNCHANGED <<process, mixed, killed>>

StartSpawns(c) ==
    /\ cmd[c].at = "spawning"
    /\ \E p \in Pids : Spawn(c, p, c) /\ Step(c, "waiting", p)
    /\ UNCHANGED <<stateFile, killed>>

(* The loop looks whether the child has exited, then whether the url       *)
(* answers.                                                                *)
StartSeesExit(c) ==
    /\ cmd[c].at = "waiting" /\ ~Alive(cmd[c].pid)
    /\ Result(c, "failed")
    /\ UNCHANGED <<process, stateFile, mixed, killed>>

StartSeesPage(c) ==
    /\ cmd[c].at = "waiting" /\ Answering
    /\ SaveState(cmd[c].pid)
    /\ Result(c, "started")
    /\ UNCHANGED <<process, mixed, killed>>

LeavesChild(c) ==                               \* mutant of StartTimesOut
    /\ cmd[c].at = "waiting"
    /\ Result(c, "failed")
    /\ UNCHANGED <<process, stateFile, mixed, killed>>
StartTimesOut(c) ==
    /\ cmd[c].at = "waiting"
    /\ Exits(cmd[c].pid)
    /\ Result(c, "failed")
    /\ UNCHANGED <<stateFile, mixed, killed>>

(* Ctrl+C or a kill: the child has a session of its own and goes on.       *)
StartInterrupted(c) ==
    /\ cmd[c].at \in {"spawning", "waiting"}
    /\ Result(c, "interrupted")
    /\ UNCHANGED <<process, stateFile, mixed, killed>>

-----------------------------------------------------------------------------
(* stop_background: refused unless the process is there and the url        *)
(* answers.                                                                *)
Verified(p) == Alive(p) /\ Answering

StopChecks(c) ==
    /\ cmd[c].at = "idle"
    /\ \/ /\ stateFile # NoPid
          /\ Verified(stateFile)
          /\ Step(c, "killing", stateFile) /\ UNCHANGED stateFile
       \/ /\ (stateFile = NoPid \/ Alive(stateFile))   \* no file, or the probe failed
          /\ Result(c, "failed") /\ UNCHANGED stateFile
       \/ /\ stateFile # NoPid
          /\ ~Alive(stateFile)
          /\ Result(c, "failed") /\ ClearState
    /\ UNCHANGED <<process, mixed, killed>>

StopKills(c) ==
    /\ cmd[c].at = "killing"
    /\ killed' = killed \cup {process[cmd[c].pid].is}
    /\ IF Alive(cmd[c].pid) THEN Exits(cmd[c].pid) ELSE UNCHANGED process
    /\ Result(c, "clearing")
    /\ UNCHANGED <<stateFile, mixed>>

StopClears(c) ==
    /\ cmd[c].at = "clearing"
    /\ ClearState
    /\ Result(c, "stopped")
    /\ UNCHANGED <<process, mixed, killed>>

(* status: only a process that is gone costs the file.                     *)
Status(c) ==
    /\ cmd[c].at = "idle"
    /\ stateFile' = IF stateFile # NoPid /\ ~Alive(stateFile) THEN NoPid ELSE stateFile
    /\ Result(c, IF stateFile # NoPid /\ Verified(stateFile) THEN "running" ELSE "failed")
    /\ UNCHANGED <<process, mixed, killed>>

(* greatsage serve in the foreground knows nothing of the state file.      *)
Foreground(c) ==
    /\ cmd[c].at = "idle"
    /\ \E p \in Pids : Spawn(c, p, "terminal")
    /\ Result(c, "foreground")
    /\ UNCHANGED <<stateFile, killed>>

-----------------------------------------------------------------------------
(* ControlServer binds the port, or the process ends with an error; a      *)
(* server ends with Ctrl+C, a crash or a kill.                             *)
Binds(p) ==
    /\ process[p].is = "starting" /\ ~Answering
    /\ process' = [process EXCEPT ![p].is = "serving"]
    /\ UNCHANGED <<stateFile, cmd, mixed, killed>>

ServerExits(p) ==
    /\ process[p].is \in Server
    /\ Exits(p)
    /\ UNCHANGED <<stateFile, cmd, mixed, killed>>

(* Some other program gets the process id, and ends.                       *)
Reuse(p) ==
    /\ \/ /\ process[p].is = "dead" /\ ~Held(p)
          /\ process' = [process EXCEPT ![p] = [is |-> "other", by |-> "nobody"]]
       \/ /\ process[p].is = "other"
          /\ Exits(p)
    /\ UNCHANGED <<stateFile, cmd, mixed, killed>>

ServeNext ==
    \/ \E c \in Cmds :
         \/ StartChecks(c) \/ StartSpawns(c) \/ StartSeesExit(c) \/ StartSeesPage(c)
         \/ StartTimesOut(c) \/ StartInterrupted(c)
         \/ StopChecks(c) \/ StopKills(c) \/ StopClears(c) \/ Status(c) \/ Foreground(c)
    \/ \E p \in Pids : Binds(p) \/ ServerExits(p) \/ Reuse(p)

ServeSpec == ServeInit /\ [][ServeNext]_serveVars

-----------------------------------------------------------------------------
(* A start that reported a failure has left no server behind; and as long  *)
(* as no server was started beside another one or beside a state file, the *)
(* process that a stop kills is the server, never one that got its pid.    *)
ServeKeepsItsWord ==
    /\ \A p \in Pids : process[p].is \in Server =>
         \A c \in Cmds : process[p].by = c => cmd[c].at # "failed"
    /\ ~mixed => "other" \notin killed

(* "serve stop only terminates a process after the loopback dashboard      *)
(* answers, which keeps a stale/reused PID from turning into an arbitrary  *)
(* kill".                                                                  *)
StopKillsServers == "other" \notin killed
=============================================================================
