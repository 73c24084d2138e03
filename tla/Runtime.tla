------------------------------- MODULE Runtime --------------------------------
(***************************************************************************)
(* The runtime's lifecycle, core/runtime.py with core/lifecycle.py and     *)
(* core/registry.py, on the event bus.                                     *)
(*                                                                         *)
(* start makes the services one after the other and gives up the loop      *)
(* nowhere.  stop shuts them down, announces it on the bus, where it may   *)
(* have to wait for a subscriber, and closes the bus; several coroutines   *)
(* may be in it at once.                                                   *)
(***************************************************************************)
EXTENDS EventBus

CONSTANTS Starter,   \* the coroutine that calls Runtime.start
          Stoppers,  \* those that call Runtime.stop
          MayRaise   \* services whose construction or start() can raise

ASSUME CallersAssumption ==
    /\ Starter \notin Stoppers
    /\ Callers = {Starter} \union Stoppers
    /\ Calls = {<<Starter, "started">>} \union (Stoppers \X {"stopping", "stopped"})

VARIABLES state,    \* Lifecycle._state
          service,  \* the runtime's reference to each service
          at        \* where each coroutine is

vars == <<busVars, state, service, at>>

(* The order of Runtime.start ...                                          *)
StartOrder == <<"intelligence", "memory", "tools", "agent", "delegation",
                "workspace", "planning", "task", "scheduler", "telegram">>

(* Fault: the task service goes before the scheduler that runs its tasks.  *)
StopOrderSwapped == <<"telegram", "task", "scheduler", "planning", "workspace",
                      "delegation", "agent", "intelligence", "memory", "tools">>

(* ... and of Runtime.stop.                                                *)
StopOrder == <<"telegram", "scheduler", "task", "planning", "workspace",
               "delegation", "agent", "intelligence", "memory", "tools">>

Services == ToSet(StartOrder)

(* The services each one is constructed with or given a handler over.      *)
Uses == [s \in Services |->
    CASE s = "agent" -> {"intelligence", "tools", "memory"}
      [] s = "delegation" -> {"intelligence", "tools"}
      [] s = "workspace" -> {"tools"}
      [] s = "task" -> {"tools", "memory"}
      [] s = "scheduler" -> {"tools", "memory", "task", "planning"}
      [] OTHER -> {}]

States == {"created", "initializing", "running", "stopping", "stopped"}

(* Where a coroutine is: not called yet, at one of its steps, or back.     *)
Idle == 0
Done == 20
Raised == 21
Announce == Len(StopOrder) + 1
Finish == Announce + 2

TypeOK ==
    /\ BusTypeOK
    /\ state \in States
    /\ service \in [Services -> {"none", "made", "up", "down"}]
    /\ at \in [Callers -> Idle..Finish \union {Done, Raised}]

Init ==
    /\ BusInit
    /\ state = "created"
    /\ service = [s \in Services |-> "none"]
    /\ at = [x \in Callers |-> Idle]

-----------------------------------------------------------------------------
(* start *)

(* The directories and the audit log are there, the recorder subscribes.   *)
StartBegin ==
    /\ loop /\ cur = NoOne /\ state = "created"
    /\ state' = "initializing"
    /\ audit' = "open"
    /\ subs' = <<Recorder>>
    /\ cur' = Starter
    /\ at' = [at EXCEPT ![Starter] = 1]
    /\ UNCHANGED <<loop, ready, closed, dispatchVars, noted, file, service>>

(* They are not: setup_logging, ensure_directories or AuditLog raised, and *)
(* the cleanup leaves nothing open.  The bus may not even exist then;      *)
(* nobody can reach it in either case.                                     *)
StartImpossible ==
    /\ loop /\ cur = NoOne /\ state = "created"
    /\ state' = "stopped"
    /\ at' = [at EXCEPT ![Starter] = Done]
    /\ Close
    /\ UNCHANGED <<cur, service, audit>>

(* The next service is constructed and started.  It may publish on the     *)
(* way, with publish_nowait.                                               *)
StartService ==
    /\ cur = Starter /\ at[Starter] \in 1..Len(StartOrder)
    /\ service' = [service EXCEPT ![StartOrder[at[Starter]]] = "up"]
    /\ at' = [at EXCEPT ![Starter] = @ + 1]
    /\ UNCHANGED <<busVars, state>>

(* _cleanup_after_failure: nothing that is registered has a stop method.   *)
StartFails ==
    /\ cur = Starter /\ at[Starter] \in 1..Len(StartOrder)
    /\ StartOrder[at[Starter]] \in MayRaise
    /\ \E made \in {"none", "made"} :
          service' = [service EXCEPT ![StartOrder[at[Starter]]] = made]
    /\ at' = [at EXCEPT ![Starter] = Done]
    /\ state' = "stopped"
    /\ Close
    /\ audit' = "closed"
    /\ cur' = NoOne

(* Everything is up: RuntimeStarted goes to those who subscribed.          *)
AnnounceStarted ==
    /\ cur = Starter /\ at[Starter] = Len(StartOrder) + 1
    /\ Publish(<<Starter, "started">>)
    /\ UNCHANGED <<state, service, at>>

StartDone ==
    /\ cur = Starter /\ disp[<<Starter, "started">>] = "done"
    /\ state' = "running"
    /\ at' = [at EXCEPT ![Starter] = Done]
    /\ cur' = NoOne
    /\ UNCHANGED <<loop, ready, subs, closed, dispatchVars, noted, file, service,
                   audit>>

-----------------------------------------------------------------------------
(* stop *)

(* Nothing to do before start and after the end; a call that comes while   *)
(* another one waits for the bus goes through the same motions again.      *)
StopBegin(x) ==
    /\ loop /\ cur = NoOne /\ at[x] = Idle
    /\ IF state \in {"created", "stopped"}
       THEN at' = [at EXCEPT ![x] = Done] /\ UNCHANGED <<cur, state>>
       ELSE /\ state' = "stopping"
            /\ cur' = x
            /\ at' = [at EXCEPT ![x] = 1]
    /\ UNCHANGED <<loop, ready, subs, closed, dispatchVars, noted, file, service,
                   audit>>

(* Fault: the audit log is closed with the services.                       *)
StopServiceAudit(x) ==
    /\ cur = x /\ at[x] \in 1..Len(StopOrder)
    /\ service' = [service EXCEPT ![StopOrder[at[x]]] = IF @ = "none" THEN @ ELSE "down"]
    /\ at' = [at EXCEPT ![x] = @ + 1]
    /\ audit' = "closed"
    /\ UNCHANGED <<loop, cur, ready, subs, closed, dispatchVars, noted, file, state>>

(* Every service that was made is shut down, whether it is up or not.      *)
StopService(x) ==
    /\ cur = x /\ at[x] \in 1..Len(StopOrder)
    /\ service' = [service EXCEPT ![StopOrder[at[x]]] = IF @ = "none" THEN @ ELSE "down"]
    /\ at' = [at EXCEPT ![x] = @ + 1]
    /\ UNCHANGED <<busVars, state>>

(* RuntimeStopping is announced, on a bus that is still open.              *)
AnnounceStopping(x) ==
    /\ cur = x /\ at[x] = Announce
    /\ IF closed
       THEN at' = [at EXCEPT ![x] = Finish] /\ UNCHANGED busVars
       ELSE at' = [at EXCEPT ![x] = Announce + 1] /\ Publish(<<x, "stopping">>)
    /\ UNCHANGED <<state, service>>

(* RuntimeStopped too; meanwhile another call may have closed the bus: the *)
(* error is logged.                                                        *)
AnnounceStopped(x) ==
    /\ cur = x /\ at[x] = Announce + 1
    /\ at' = [at EXCEPT ![x] = Finish]
    /\ IF closed
       THEN /\ Drop(<<x, "stopped">>)
            /\ UNCHANGED <<loop, ready, subs, closed, noted, file, audit>>
       ELSE Publish(<<x, "stopped">>)
    /\ UNCHANGED <<state, service>>

(* Fault: the last transition is forgotten.                                *)
StopEndSilent(x) ==
    /\ cur = x /\ at[x] = Finish
    /\ Close
    /\ audit' = "closed"
    /\ at' = [at EXCEPT ![x] = Done]
    /\ cur' = NoOne
    /\ UNCHANGED <<state, service>>

(* The bus and the audit log are closed; the transition to STOPPED raises  *)
(* in a call that another one has overtaken.                               *)
StopEnd(x) ==
    /\ cur = x /\ at[x] = Finish
    /\ Close
    /\ audit' = "closed"
    /\ state' = "stopped"
    /\ at' = [at EXCEPT ![x] = IF state = "stopped" THEN Raised ELSE Done]
    /\ cur' = NoOne
    /\ UNCHANGED service

-----------------------------------------------------------------------------

(* Services publish while they start and, later, whenever they are used.   *)
Note ==
    /\ cur \in {NoOne, Starter}
    /\ \E s \in Services : service[s] # "none"
    /\ PublishNowait
    /\ UNCHANGED <<state, service, at>>

(* Code that has the runtime's bus subscribes and unsubscribes.            *)
Client ==
    /\ cur = NoOne /\ state \in {"running", "stopping"}
    /\ \E s \in Subs \ {Recorder} : Subscribe(s) \/ Unsubscribe(s)
    /\ UNCHANGED <<state, service, at>>

Start ==
    \/ StartBegin \/ StartImpossible
    \/ StartService \/ StartFails
    \/ AnnounceStarted \/ StartDone

Stop(x) ==
    \/ StopBegin(x) \/ StopService(x)
    \/ AnnounceStopping(x) \/ AnnounceStopped(x) \/ StopEnd(x)

BusStep == Turn /\ UNCHANGED <<state, service, at>>

Loop == (LoopStarts \/ LoopEnds) /\ UNCHANGED <<state, service, at>>

Next ==
    \/ Start
    \/ \E x \in Stoppers : Stop(x)
    \/ Note \/ Client \/ BusStep \/ Loop

Spec == Init /\ [][Next]_vars

(* The loop runs whatever can run, which assumes that a handler that waits *)
(* comes back; nobody has to call anything.                                *)
FairSpec ==
    /\ Spec
    /\ WF_vars(BusStep)
    /\ \A x \in Stoppers : WF_vars(Stop(x) /\ at[x] # Idle)

-----------------------------------------------------------------------------

(* No service goes down before those that were built on it: stop's order   *)
(* against the arguments start constructs the services with.               *)
UsersStopFirst ==
    [][\A s, t \in Services :
          /\ service[s] # "down"
          /\ service'[s] = "down"
          /\ s \in Uses[t]
          => service'[t] \in {"none", "down"}]_vars

Ends(what) == Stoppers \X {what}

(* The audit file of a runtime that was up and is stopped tells of its     *)
(* end, RuntimeStopping and then RuntimeStopped, although the file and the *)
(* bus are closed by whichever of several stop calls comes first.          *)
FileTellsTheEnd ==
    state = "stopped" /\ <<Starter, "started">> \in ToSet(file) =>
        \E i, j \in DOMAIN file :
            i < j /\ file[i] \in Ends("stopping") /\ file[j] \in Ends("stopped")

(* A runtime that has begun to stop is stopped in the end, however many    *)
(* calls there are and whatever their subscribers do (stop).               *)
StopEnds == state = "stopping" ~> state = "stopped"

(* What docs/ARCHITECTURE.md says of a start that fails: the services that *)
(* had been started are stopped.                                           *)
FailedStartStops ==
    state = "stopped" => \A s \in Services : service[s] # "up"
=============================================================================
