---------------------------- MODULE RuntimeProofs ----------------------------
(***************************************************************************)
(* The bus and the runtime: a dispatch calls everyone it concerns, the     *)
(* audit file tells the end of the runtime and has the notes in order, and *)
(* services stop after those that use them, however many coroutines call   *)
(* Runtime.stop and whatever the bus does.                                 *)
(*                                                                         *)
(* The invariant RuntimeInv has three parts: of the bus, what a dispatch   *)
(* has called at each place of its list (BusInv); of the shutdown, that    *)
(* the coroutine which does it keeps the loop, and what comes before its   *)
(* place in StopOrder is down already (StopInv); of the file, which events *)
(* are in it (FileInv).  OrderInv adds the order of the notes.             *)
(***************************************************************************)
EXTENDS Runtime, SequenceTheorems, TLAPS

Stopping(x) == at[x] \in 1..Len(StopOrder)

(* The services that precede the place of x are down, or were never made.  *)
DownBefore(x) ==
    \A i \in 1..Len(StopOrder) :
        i < at[x] => service[StopOrder[i]] \in {"none", "down"}

StopInv ==
    /\ at \in [Callers -> Nat]
    /\ service \in [Services -> {"none", "made", "up", "down"}]
    /\ \A x \in Stoppers : Stopping(x) => cur = x /\ DownBefore(x)

-----------------------------------------------------------------------------
(* The orders *)

LEMMA Orders ==
    /\ Len(StopOrder) = 10
    /\ \A i \in 1..10 : StopOrder[i] \in Services
    /\ Announce = 11 /\ Finish = 13
    /\ Len(StartOrder) = 10
    /\ \A i \in 1..10 : StartOrder[i] \in Services
<1>1. Len(StopOrder) = 10 /\ Len(StartOrder) = 10
  BY DEF StopOrder, StartOrder
<1>2. Services = {StartOrder[i] : i \in 1..10}
  BY <1>1 DEF Services, ToSet, StartOrder
<1>3. \A i \in 1..10 : StartOrder[i] \in Services
  BY <1>2
<1>4. Announce = 11 /\ Finish = 13
  BY <1>1 DEF Announce, Finish
<1>5. \A i \in 1..10 : \E j \in 1..10 : StopOrder[i] = StartOrder[j]
  BY DEF StopOrder, StartOrder
<1> QED BY <1>1, <1>2, <1>3, <1>4, <1>5

(* StopOrder is a permutation of the services in which those that use one  *)
(* come before it.                                                         *)
LEMMA UsersBefore ==
    ASSUME NEW i \in 1..10, NEW t \in Services, StopOrder[i] \in Uses[t]
    PROVE  \E j \in 1..10 : j < i /\ StopOrder[j] = t
<1> USE Orders
<1>1. Services = {"intelligence", "memory", "tools", "agent", "delegation",
                  "workspace", "planning", "task", "scheduler", "telegram"}
  BY DEF Services, ToSet, StartOrder
<1>2. StopOrder[i] \in {"intelligence", "memory", "tools", "task", "planning"}
  BY <1>1 DEF Uses
<1>3. i \in {3, 4, 8, 9, 10}
  BY <1>2 DEF StopOrder
<1>4. t \in {"agent", "delegation", "workspace", "task", "scheduler"}
  BY <1>1 DEF Uses
<1>5. CASE t = "scheduler"
  BY <1>3, <1>5 DEF StopOrder
<1>6. CASE t = "task"
  <2>1. i \in {9, 10}
    BY <1>1, <1>3, <1>6, Uses[t] = {"tools", "memory"} DEF Uses, StopOrder
  <2> QED BY <2>1, <1>6 DEF StopOrder
<1>7. CASE t \in {"agent", "delegation", "workspace"}
  <2>1. Uses[t] \subseteq {"intelligence", "tools", "memory"}
    BY <1>1, <1>7 DEF Uses
  <2>2. i \in {8, 9, 10}
    BY <1>3, <2>1 DEF StopOrder
  <2> QED BY <2>2, <1>7 DEF StopOrder
<1> QED BY <1>4, <1>5, <1>6, <1>7

-----------------------------------------------------------------------------
(* The invariant *)

LEMMA Constants ==
    /\ Starter \in Callers /\ Stoppers \subseteq Callers
    /\ Starter \notin Stoppers /\ NoOne \notin Callers
    /\ \A e \in Events : e \notin Callers
BY CallersAssumption, SubsAssumption, EventAssumption

LEMMA InitStop == Init => StopInv
<1> SUFFICES ASSUME Init PROVE StopInv
  OBVIOUS
<1> USE Constants, Orders
<1>1. at = [x \in Callers |-> 0] /\ service = [s \in Services |-> "none"]
  BY DEF Init, Idle
<1>2. \A x \in Stoppers : ~Stopping(x)
  BY <1>1 DEF Stopping
<1> QED BY <1>1, <1>2 DEF StopInv

(* Whoever holds the loop but is not shutting services down may do as it   *)
(* likes with them, as no coroutine is among them then.                    *)
LEMMA NobodyStopping ==
    ASSUME StopInv, cur \notin Stoppers,
           at' \in [Callers -> Nat],
           service' \in [Services -> {"none", "made", "up", "down"}],
           \A x \in Stoppers : at'[x] = at[x]
    PROVE  StopInv'
BY Orders DEF StopInv, Stopping

(* A step that leaves the runtime's own state alone and takes the loop     *)
(* from no coroutine.                                                      *)
LEMMA Elsewhere ==
    ASSUME StopInv, UNCHANGED <<service, at>>, cur' = cur \/ cur \notin Stoppers
    PROVE  StopInv'
BY Orders DEF StopInv, Stopping, DownBefore

LEMMA StartKeeps == StopInv /\ Start => StopInv'
<1> SUFFICES ASSUME StopInv, Start PROVE StopInv'
  OBVIOUS
<1> USE Constants, Orders
<1>1. CASE StartBegin
  <2>1. at' \in [Callers -> Nat] /\ \A x \in Stoppers : at'[x] = at[x]
    BY <1>1 DEF StartBegin, StopInv
  <2> QED BY <1>1, <2>1, NobodyStopping DEF StartBegin, StopInv
<1>2. CASE StartImpossible
  <2>1. at' \in [Callers -> Nat] /\ \A x \in Stoppers : at'[x] = at[x]
    BY <1>2 DEF StartImpossible, StopInv, Done
  <2> QED BY <1>2, <2>1, NobodyStopping DEF StartImpossible, StopInv
<1>3. CASE StartService
  <2>1. at' \in [Callers -> Nat] /\ \A x \in Stoppers : at'[x] = at[x]
    BY <1>3 DEF StartService, StopInv
  <2>2. service' \in [Services -> {"none", "made", "up", "down"}]
    BY <1>3 DEF StartService, StopInv
  <2> QED BY <1>3, <2>1, <2>2, NobodyStopping DEF StartService
<1>4. CASE StartFails
  <2>1. at' \in [Callers -> Nat] /\ \A x \in Stoppers : at'[x] = at[x]
    BY <1>4 DEF StartFails, StopInv, Done
  <2>2. service' \in [Services -> {"none", "made", "up", "down"}]
    BY <1>4 DEF StartFails, StopInv
  <2> QED BY <1>4, <2>1, <2>2, NobodyStopping DEF StartFails
<1>5. CASE AnnounceStarted
  BY <1>5, Elsewhere DEF AnnounceStarted
<1>6. CASE StartDone
  <2>1. at' \in [Callers -> Nat] /\ \A x \in Stoppers : at'[x] = at[x]
    BY <1>6 DEF StartDone, StopInv, Done
  <2> QED BY <1>6, <2>1, NobodyStopping DEF StartDone, StopInv
<1> QED BY <1>1, <1>2, <1>3, <1>4, <1>5, <1>6 DEF Start

(* The one step that moves a coroutine along StopOrder.                    *)
LEMMA StopServiceKeeps ==
    ASSUME StopInv, NEW x \in Stoppers, StopService(x)
    PROVE  StopInv'
<1> USE Constants, Orders
<1>1. /\ cur = x /\ cur' = x
      /\ at[x] \in 1..10 /\ at[x] \in Nat
      /\ at' = [at EXCEPT ![x] = at[x] + 1]
  BY DEF StopService, busVars
<1>2. at' \in [Callers -> Nat] /\ at'[x] = at[x] + 1
  BY <1>1 DEF StopInv
<1>3. PICK s \in Services :
        /\ s = StopOrder[at[x]]
        /\ service' = [service EXCEPT ![s] = IF service[s] = "none" THEN "none" ELSE "down"]
  BY <1>1 DEF StopService, StopInv
<1>4. /\ service' \in [Services -> {"none", "made", "up", "down"}]
      /\ service'[s] \in {"none", "down"}
      /\ \A t \in Services : service[t] \in {"none", "down"} => service'[t] \in {"none", "down"}
  BY <1>3 DEF StopInv
<1>5. ASSUME NEW y \in Stoppers, Stopping(y)' PROVE cur' = y /\ DownBefore(y)'
  <2>1. CASE y # x
    BY <1>1, <1>5, <2>1 DEF StopInv, Stopping
  <2>2. CASE y = x
    <3>1. DownBefore(x)
      BY <1>1 DEF StopInv, Stopping
    <3>2. ASSUME NEW i \in 1..10, i < at'[x] PROVE service'[StopOrder[i]] \in {"none", "down"}
      <4>1. CASE i = at[x]
        BY <4>1, <1>3, <1>4
      <4>2. CASE i < at[x]
        BY <4>2, <3>1, <1>4 DEF DownBefore
      <4> QED BY <3>2, <4>1, <4>2, <1>1, <1>2
    <3> QED BY <1>1, <2>2, <3>2 DEF DownBefore
  <2> QED BY <2>1, <2>2
<1> QED BY <1>2, <1>4, <1>5 DEF StopInv

LEMMA StopKeeps ==
    ASSUME StopInv, NEW x \in Stoppers, Stop(x)
    PROVE  StopInv'
<1> USE Constants, Orders
<1>1. CASE StopBegin(x)
  <2>1. cur = NoOne /\ service' = service
    BY <1>1 DEF StopBegin
  <2>2. \A y \in Stoppers : ~Stopping(y)
    BY <2>1 DEF StopInv
  <2>3. CASE at' = [at EXCEPT ![x] = Done]
    BY <2>1, <2>2, <2>3 DEF StopInv, Stopping, Done
  <2>4. CASE at' = [at EXCEPT ![x] = 1] /\ cur' = x
    BY <2>1, <2>2, <2>4 DEF StopInv, Stopping, DownBefore
  <2> QED BY <1>1, <2>3, <2>4 DEF StopBegin
<1>2. CASE StopService(x)
  BY <1>2, StopServiceKeeps
<1>3. CASE AnnounceStopping(x) \/ AnnounceStopped(x) \/ StopEnd(x)
  <2>1. cur = x /\ service' = service
    BY <1>3 DEF AnnounceStopping, AnnounceStopped, StopEnd
  <2>2. \E n \in {12, 13, 20, 21} : at' = [at EXCEPT ![x] = n]
    <3>1. CASE AnnounceStopping(x)
      BY <3>1 DEF AnnounceStopping
    <3>2. CASE AnnounceStopped(x)
      <4>1. at' = [at EXCEPT ![x] = Finish]
        BY <3>2 DEF AnnounceStopped
      <4> QED BY <4>1
    <3>3. CASE StopEnd(x)
      <4>1. at' = [at EXCEPT ![x] = Done] \/ at' = [at EXCEPT ![x] = Raised]
        BY <3>3 DEF StopEnd
      <4> QED BY <4>1 DEF Done, Raised
    <3> QED BY <1>3, <3>1, <3>2, <3>3
  <2> QED BY <2>1, <2>2 DEF StopInv, Stopping
<1> QED BY <1>1, <1>2, <1>3 DEF Stop

LEMMA BusStepKeeps == StopInv /\ BusStep => StopInv'
<1> SUFFICES ASSUME StopInv, BusStep PROVE StopInv'
  OBVIOUS
<1> USE Constants
<1>1. CASE TakeReady
  BY <1>1, Elsewhere DEF BusStep, TakeReady
<1>2. ASSUME NEW e \in Events, Skip(e) \/ Call(e) \/ Wait(e) \/ Resume(e) \/ Return(e)
      PROVE  cur' = cur \/ cur \notin Stoppers
  BY <1>2 DEF Skip, Call, Wait, Resume, Return, At
<1> QED BY <1>1, <1>2, Elsewhere DEF BusStep, Turn

LEMMA StepKeeps == StopInv /\ [Next]_vars => StopInv'
<1> SUFFICES ASSUME StopInv, [Next]_vars PROVE StopInv'
  OBVIOUS
<1> USE Constants
<1>1. CASE Start
  BY <1>1, StartKeeps
<1>2. CASE \E x \in Stoppers : Stop(x)
  BY <1>2, StopKeeps
<1>3. CASE Note
  BY <1>3, Elsewhere DEF Note, PublishNowait
<1>4. CASE Client
  BY <1>4, Elsewhere DEF Client, Subscribe, Unsubscribe
<1>5. CASE BusStep
  BY <1>5, BusStepKeeps
<1>6. CASE Loop
  BY <1>6, Elsewhere DEF Loop, LoopStarts, LoopEnds
<1>7. CASE UNCHANGED vars
  BY <1>7, Elsewhere DEF vars, busVars
<1> QED BY <1>1, <1>2, <1>3, <1>4, <1>5, <1>6, <1>7 DEF Next

-----------------------------------------------------------------------------

(* The service that goes down is the one at the place of the coroutine,    *)
(* and those built on it are before that place.                            *)
LEMMA StepStopsUsersFirst ==
    ASSUME StopInv, [Next]_vars, NEW s \in Services, NEW t \in Services,
           service[s] # "down", service'[s] = "down", s \in Uses[t]
    PROVE  service'[t] \in {"none", "down"}
<1> USE Constants, Orders
<1>1. ~UNCHANGED service
  OBVIOUS
<1>2. ~Start
  <2>1. ASSUME StartService PROVE FALSE
    BY <2>1 DEF StartService, StopInv
  <2>2. ASSUME StartFails PROVE FALSE
    BY <2>2 DEF StartFails, StopInv
  <2> QED BY <1>1, <2>1, <2>2 DEF Start, StartBegin, StartImpossible,
                                  AnnounceStarted, StartDone
<1>3. PICK x \in Stoppers : StopService(x)
  BY <1>1, <1>2 DEF Next, vars, Stop, StopBegin, AnnounceStopping, AnnounceStopped,
                    StopEnd, Note, Client, BusStep, Loop
<1>4. at[x] \in 1..10 /\ StopOrder[at[x]] \in Services /\ Stopping(x) /\ DownBefore(x)
  BY <1>3 DEF StopService, StopInv, Stopping
<1>5. service' = [service EXCEPT ![StopOrder[at[x]]] =
                    IF service[StopOrder[at[x]]] = "none" THEN "none" ELSE "down"]
  BY <1>3, <1>4 DEF StopService
<1>6. s = StopOrder[at[x]]
  BY <1>4, <1>5 DEF StopInv
<1>7. PICK j \in 1..10 : j < at[x] /\ StopOrder[j] = t
  BY <1>4, <1>6, UsersBefore
<1>8. service[t] \in {"none", "down"}
  BY <1>4, <1>7 DEF DownBefore
<1> QED BY <1>4, <1>5, <1>8 DEF StopInv

(* However many coroutines call stop, and whatever the bus and its         *)
(* subscribers do meanwhile, a service goes down only when every service   *)
(* built on it is down or was never made (Runtime.stop).                   *)
THEOREM StopOrderSafe == Spec => UsersStopFirst
<1>1. StopInv /\ [Next]_vars
        => [\A s, t \in Services :
              /\ service[s] # "down"
              /\ service'[s] = "down"
              /\ s \in Uses[t]
              => service'[t] \in {"none", "down"}]_vars
  BY StepStopsUsersFirst
<1> QED BY InitStop, StepKeeps, <1>1, PTL DEF Spec, UsersStopFirst
-----------------------------------------------------------------------------
(* Dispatch: what the bus keeps, whoever calls it                          *)

Active(e) == disp[e] \in {"running", "parked"}

(* The events of publish_nowait that are still to come are untouched.      *)
Fresh == \A k \in 1..MaxNotes : k > noted => disp[<<NoOne, k>>] = "new"

(* A dispatch under way has called those it concerns before its place, in  *)
(* order; the recorder leads its list.                                     *)
Progress(e) ==
    IF Active(e)
    THEN /\ next[e] \in 1..Len(list[e]) + 1
         /\ Len(list[e]) > 0 /\ list[e][1] = Recorder
         /\ owed[e] = {i \in DOMAIN list[e] : Concerns(e, list[e][i])}
         /\ ToSet(told[e]) = {i \in owed[e] : i < next[e]}
         /\ \A i, j \in DOMAIN told[e] : i < j => told[e][i] < told[e][j]
         /\ disp[e] = "parked" => next[e] > 1
    ELSE told[e] = <<>>

(* While a runtime that was started is open its audit log is, and the      *)
(* recorder is the first subscriber.                                       *)
Recording ==
    /\ closed => audit # "open"
    /\ ~closed /\ state # "created" =>
          audit = "open" /\ Len(subs) > 0 /\ subs[1] = Recorder

(* Before the start there is nothing on the bus.                           *)
Untouched ==
    state = "created" =>
        /\ ~closed /\ cur = NoOne /\ subs = <<>> /\ audit = "none"
        /\ \A e \in Events : disp[e] = "new"
        /\ \A s \in Services : service[s] = "none"
        /\ at[Starter] = Idle

BusInv ==
    /\ BusTypeOK
    /\ Fresh
    /\ \A e \in Events : Progress(e)
    /\ Recording
    /\ Untouched

(* The file                                                                *)

(* The recorder is told first, in the turn in which a dispatch begins: the *)
(* file has every event whose dispatch went on, and no other.              *)
Filed(e) ==
    /\ e \in ToSet(file) => disp[e] \notin {"new", "ready"}
    /\ disp[e] = "done" => e \in ToSet(file)
    /\ Active(e) => IF next[e] = 1 THEN audit = "open" ELSE e \in ToSet(file)

StoppingOf(x) == <<x, "stopping">>
StoppedOf(x) == <<x, "stopped">>

(* Where a coroutine in stop is with its two announcements.                *)
Announced(x) ==
    /\ at[x] \in Nat
    /\ Active(StoppingOf(x)) => at[x] = Announce + 1
    /\ Active(StoppedOf(x)) => at[x] = Finish
    /\ at[x] <= Announce + 1 => disp[StoppedOf(x)] = "new"
    /\ disp[StoppedOf(x)] \notin {"new", "dropped"} => disp[StoppingOf(x)] = "done"
    /\ cur = x =>
         \/ at[x] \in 1..Announce
         \/ at[x] = Announce + 1 /\ disp[StoppingOf(x)] = "done"
         \/ at[x] = Finish /\ ~Active(StoppedOf(x)) /\ (closed \/ disp[StoppedOf(x)] = "done")

Before(d, e) == \E i, j \in DOMAIN file : i < j /\ file[i] = d /\ file[j] = e

TellsTheEnd == \E x \in Stoppers : Before(StoppingOf(x), StoppedOf(x))

FileInv ==
    /\ \A e \in Events : Filed(e)
    /\ \A x \in Stoppers :
          /\ Announced(x)
          /\ StoppedOf(x) \in ToSet(file) => Before(StoppingOf(x), StoppedOf(x))
    /\ disp[<<Starter, "started">>] # "new" => at[Starter] > Len(StartOrder)
    /\ closed /\ <<Starter, "started">> \in ToSet(file) => TellsTheEnd
    /\ state = "stopped" => closed

-----------------------------------------------------------------------------
(* The bus *)

LEMMA BusConstants ==
    /\ Events = Notes \union Calls
    /\ \A e \in Events : e # NoOne /\ e \notin Callers
    /\ \A n \in Notes : n[1] = NoOne /\ n \notin Calls
    /\ \A c \in Calls : c[1] \in Callers
    /\ \A k \in 1..MaxNotes : <<NoOne, k>> \in Notes
    /\ Recorder \in Subs /\ Recorder \notin AsyncSubs
    /\ \A e \in Events : e \in Wants[Recorder]
    /\ MaxNotes \in Nat
    /\ NoOne \notin Callers
BY SubsAssumption, EventAssumption, WantsAssumption, CallersAssumption DEF Events, Notes

LEMMA CallsOf ==
    /\ <<Starter, "started">> \in Calls
    /\ \A x \in Stoppers : StoppingOf(x) \in Calls /\ StoppedOf(x) \in Calls
BY CallersAssumption DEF StoppingOf, StoppedOf

(* A step that leaves every dispatch and the queue alone.                  *)
LEMMA QuietStep ==
    ASSUME BusInv, UNCHANGED <<ready, dispatchVars, noted>>,
           cur' = cur \/ (cur \notin Events /\ cur' \in Callers \union {NoOne}),
           loop' \in BOOLEAN,
           loop' = loop \/ (loop' /\ \A e \in Events : ~Active(e)),
           ~loop' => cur' \in Notes \union {NoOne},
           subs' \in Seq(Subs), IsInjective(subs'), closed' \in BOOLEAN,
           file' \in Seq(Events), audit' \in {"none", "open", "closed"}
    PROVE  BusTypeOK' /\ Fresh' /\ \A e \in Events : Progress(e)'
<1> USE BusConstants
<1>1. UNCHANGED <<disp, list, next, owed, told, ready, noted>>
  BY DEF dispatchVars
<1>2. \A e \in Events : (cur' = e) <=> (cur = e)
  OBVIOUS
<1>3. BusTypeOK'
  <2>1. \A e \in Events : (cur' = e) <=> (disp'[e] = "running")
    BY <1>1, <1>2 DEF BusInv, BusTypeOK
  <2>2. ~loop' => \A e \in Events : disp'[e] \notin {"ready", "parked"}
    BY <1>1 DEF BusInv, BusTypeOK
  <2>3. cur' \in Events \union Callers \union {NoOne}
    BY DEF BusInv, BusTypeOK
  <2> QED BY <1>1, <2>1, <2>2, <2>3 DEF BusInv, BusTypeOK
<1>4. Fresh'
  BY <1>1 DEF BusInv, Fresh
<1>5. ASSUME NEW e \in Events PROVE Progress(e)'
  <2>1. CASE Active(e)
    BY <1>1, <2>1 DEF BusInv, Progress, Active, Concerns
  <2>2. CASE ~Active(e)
    BY <1>1, <2>2 DEF BusInv, Progress, Active
  <2> QED BY <2>1, <2>2
<1> QED BY <1>3, <1>4, <1>5

(* A dispatch that is not touched stays as it is while the loop does.      *)
LEMMA OthersProgress ==
    ASSUME BusInv, loop' = loop, NEW d \in Events,
           disp'[d] = disp[d], list'[d] = list[d], next'[d] = next[d],
           owed'[d] = owed[d], told'[d] = told[d]
    PROVE  Progress(d)'
BY DEF BusInv, Progress, Active, Concerns

(* A dispatch begins, on a bus that is open.                               *)
LEMMA BeginStep ==
    ASSUME BusInv, NEW e \in Events, Begin(e), cur \notin Events,
           disp[e] \in {"new", "ready"}, ~closed, state # "created",
           loop \/ e \in Notes,
           UNCHANGED <<loop, subs, closed, file, audit>>,
           ready' \in Seq(Notes), IsInjective(ready'),
           \A n \in Notes : n \in ToSet(ready') <=> n \in ToSet(ready) /\ n # e,
           noted' \in 0..MaxNotes, Fresh'
    PROVE  BusTypeOK' /\ Fresh' /\ \A d \in Events : Progress(d)'
<1> USE BusConstants
<1>1. /\ disp' = [disp EXCEPT ![e] = "running"] /\ list' = [list EXCEPT ![e] = subs]
      /\ next' = [next EXCEPT ![e] = 1] /\ cur' = e /\ told' = told
      /\ owed' = [owed EXCEPT ![e] = {i \in DOMAIN subs : Concerns(e, subs[i])}]
  BY DEF Begin
<1>2. /\ disp \in [Events -> Phases] /\ list \in [Events -> Seq(Subs)]
      /\ next \in [Events -> Nat] /\ owed \in [Events -> SUBSET Nat]
      /\ told \in [Events -> Seq(Nat)] /\ subs \in Seq(Subs)
  BY DEF BusInv, BusTypeOK
<1>3. /\ disp' \in [Events -> Phases] /\ list' \in [Events -> Seq(Subs)]
      /\ next' \in [Events -> Nat] /\ owed' \in [Events -> SUBSET Nat]
      /\ told' \in [Events -> Seq(Nat)]
  BY <1>1, <1>2 DEF Phases
<1>4. \A d \in Events : (cur' = d) <=> (disp'[d] = "running")
  BY <1>1, <1>2 DEF BusInv, BusTypeOK
<1>5. \A n \in Notes : (disp'[n] = "ready") <=> (n \in ToSet(ready'))
  BY <1>1, <1>2 DEF BusInv, BusTypeOK
<1>6. ~loop' => cur' \in Notes /\ \A d \in Events : disp'[d] \notin {"ready", "parked"}
  BY <1>1, <1>2 DEF BusInv, BusTypeOK
<1>7. BusTypeOK'
  BY <1>1, <1>3, <1>4, <1>5, <1>6 DEF BusInv, BusTypeOK
<1>8. Progress(e)'
  <2>1. Active(e)' /\ next'[e] = 1 /\ list'[e] = subs /\ disp'[e] = "running"
    BY <1>1, <1>2 DEF Active
  <2>2. \A i \in DOMAIN subs : Concerns(e, list[e][i])' <=> Concerns(e, subs[i])
    BY <2>1 DEF Concerns
  <2>6. owed'[e] = {i \in DOMAIN subs : Concerns(e, subs[i])}
    BY <1>1, <1>2
  <2>7. owed'[e] = {i \in DOMAIN list'[e] : Concerns(e, list[e][i])'}
    BY <2>1, <2>2, <2>6
  <2>3. told'[e] = <<>>
    BY <1>1 DEF BusInv, Progress, Active
  <2>4. Len(subs) > 0 /\ subs[1] = Recorder
    BY DEF BusInv, Recording
  <2>5. ToSet(told'[e]) = {} /\ {i \in owed'[e] : i < next'[e]} = {}
    BY <1>2, <2>1, <2>6, <2>3 DEF ToSet
  <2>8. next'[e] \in 1..Len(list'[e]) + 1 /\ DOMAIN told'[e] = {}
    BY <1>2, <2>1, <2>3
  <2> QED BY <2>1, <2>3, <2>4, <2>5, <2>7, <2>8 DEF Progress
<1>9. ASSUME NEW d \in Events, d # e PROVE Progress(d)'
  BY <1>1, <1>2, <1>9, OthersProgress
<1> QED BY <1>7, <1>8, <1>9

(* A dispatch goes past one place of its list.                             *)
LEMMA AtStep ==
    ASSUME BusInv, NEW e \in Events, NEW called \in BOOLEAN, At(e, called), list' = list,
           \/ UNCHANGED <<cur, disp>>
           \/ loop /\ cur' = NoOne /\ disp' = [disp EXCEPT ![e] = "parked"],
           file' \in Seq(Events)
    PROVE  BusTypeOK' /\ Fresh' /\ \A d \in Events : Progress(d)'
<1> USE BusConstants
<1> DEFINE p == next[e]
<1>1. /\ cur = e /\ p \in DOMAIN list[e] /\ (Concerns(e, list[e][p]) <=> called)
      /\ next' = [next EXCEPT ![e] = p + 1]
      /\ told' = IF called THEN [told EXCEPT ![e] = Append(told[e], p)] ELSE told
      /\ UNCHANGED <<loop, ready, subs, closed, owed, noted, audit>>
  BY DEF At
<1>2. /\ disp \in [Events -> Phases] /\ list \in [Events -> Seq(Subs)]
      /\ next \in [Events -> Nat] /\ owed \in [Events -> SUBSET Nat]
      /\ told \in [Events -> Seq(Nat)]
  BY DEF BusInv, BusTypeOK
<1>3. disp[e] = "running" /\ Active(e)
  BY <1>1 DEF BusInv, BusTypeOK, Active
<1>4. p \in 1..Len(list[e]) /\ p \in Nat /\ told[e] \in Seq(Nat)
  BY <1>1, <1>2
<1>10. disp' \in [Events -> Phases]
  BY <1>2 DEF Phases
<1>5. next' \in [Events -> Nat] /\ next'[e] = p + 1 /\ disp' \in [Events -> Phases]
  BY <1>1, <1>2, <1>4, <1>10
<1>6. told' \in [Events -> Seq(Nat)]
      /\ told'[e] = (IF called THEN Append(told[e], p) ELSE told[e])
  BY <1>1, <1>2, <1>4
<1>7. BusTypeOK' /\ Fresh'
  <2>1. CASE UNCHANGED <<cur, disp>>
    BY <1>1, <1>5, <1>6, <2>1 DEF BusInv, BusTypeOK, Fresh
  <2>2. CASE loop /\ cur' = NoOne /\ disp' = [disp EXCEPT ![e] = "parked"]
    <3>1. \A d \in Events : (cur' = d) <=> (disp'[d] = "running")
      BY <1>1, <1>2, <2>2 DEF BusInv, BusTypeOK
    <3>2. \A n \in Notes : (disp'[n] = "ready") <=> (n \in ToSet(ready'))
      BY <1>1, <1>2, <1>3, <2>2 DEF BusInv, BusTypeOK
    <3>3. \A k \in 1..MaxNotes : disp[<<NoOne, k>>] = "new" => disp'[<<NoOne, k>>] = "new"
      BY <1>2, <1>3, <2>2
    <3> QED BY <1>1, <1>5, <1>6, <2>2, <3>1, <3>2, <3>3 DEF BusInv, BusTypeOK, Fresh
  <2> QED BY <2>1, <2>2
<1>8. Progress(e)'
  <2>1. Active(e)' /\ list'[e] = list[e] /\ owed'[e] = owed[e]
    BY <1>1, <1>2, <1>3 DEF Active
  <2>2. /\ Len(list[e]) > 0 /\ list[e][1] = Recorder
        /\ owed[e] = {i \in DOMAIN list[e] : Concerns(e, list[e][i])}
        /\ ToSet(told[e]) = {i \in owed[e] : i < p}
        /\ \A i, j \in DOMAIN told[e] : i < j => told[e][i] < told[e][j]
    BY <1>3 DEF BusInv, Progress
  <2>6. \A i \in DOMAIN list[e] : Concerns(e, list[e][i])' <=> Concerns(e, list[e][i])
    BY <1>1, <2>1 DEF Concerns
  <2>3. owed'[e] = {i \in DOMAIN list'[e] : Concerns(e, list[e][i])'}
    BY <2>1, <2>2, <2>6
  <2>7. /\ next'[e] \in 1..Len(list'[e]) + 1 /\ next'[e] > 1
        /\ Len(list'[e]) > 0 /\ list'[e][1] = Recorder
    BY <1>2, <1>4, <1>5, <2>1, <2>2
  <2>4. CASE called
    <3>1. p \in owed[e] /\ told'[e] = Append(told[e], p)
      BY <1>1, <1>4, <1>6, <2>2, <2>4
    <3>2. \A i \in DOMAIN told[e] : told[e][i] < p
      BY <2>2 DEF ToSet
    <3>3. ToSet(told'[e]) = ToSet(told[e]) \union {p}
      <4>1. /\ DOMAIN Append(told[e], p) = 1..Len(told[e]) + 1
            /\ DOMAIN told[e] = 1..Len(told[e]) /\ Len(told[e]) \in Nat
            /\ Append(told[e], p)[Len(told[e]) + 1] = p
            /\ \A i \in 1..Len(told[e]) : Append(told[e], p)[i] = told[e][i]
        BY <1>4, AppendProperties
      <4> QED BY <3>1, <4>1 DEF ToSet
    <3>4. {i \in owed[e] : i < p + 1} = {i \in owed[e] : i < p} \union {p}
      BY <1>2, <1>4, <3>1
    <3>5. \A i, j \in DOMAIN told'[e] : i < j => told'[e][i] < told'[e][j]
      <4> DEFINE s == told[e]
      <4>1. s \in Seq(Nat) /\ p \in Nat
        BY <1>4
      <4>2. /\ DOMAIN Append(s, p) = 1..Len(s) + 1
            /\ DOMAIN s = 1..Len(s) /\ Len(s) \in Nat
            /\ Append(s, p)[Len(s) + 1] = p
            /\ \A i \in 1..Len(s) : Append(s, p)[i] = s[i]
        BY <4>1, AppendProperties
      <4>3. \A i, j \in DOMAIN s : i < j => s[i] < s[j]
        BY <2>2
      <4>4. \A i \in DOMAIN s : s[i] < p
        BY <3>2
      <4> HIDE DEF s
      <4>5. ASSUME NEW i \in 1..Len(s) + 1, NEW j \in 1..Len(s) + 1, i < j
            PROVE  Append(s, p)[i] < Append(s, p)[j]
        <5>1. i \in 1..Len(s)
          BY <4>2, <4>5
        <5>2. CASE j = Len(s) + 1
          BY <4>2, <4>4, <5>1, <5>2
        <5>3. CASE j \in 1..Len(s)
          BY <4>2, <4>3, <4>5, <5>1, <5>3
        <5> QED BY <4>2, <5>2, <5>3
      <4> QED BY <3>1, <4>2, <4>5 DEF s
    <3>6. ToSet(told'[e]) = {i \in owed'[e] : i < next'[e]}
      BY <1>5, <2>1, <2>2, <3>3, <3>4
    <3> QED BY <2>1, <2>3, <2>7, <3>5, <3>6 DEF Progress
  <2>5. CASE ~called
    <3>1. p \notin owed[e] /\ told'[e] = told[e]
      BY <1>1, <1>6, <2>2, <2>5
    <3>2. {i \in owed[e] : i < p + 1} = {i \in owed[e] : i < p}
      BY <1>2, <1>4, <3>1
    <3>3. ToSet(told'[e]) = {i \in owed'[e] : i < next'[e]}
      BY <1>5, <2>1, <2>2, <3>1, <3>2
    <3> QED BY <2>1, <2>2, <2>3, <2>7, <3>1, <3>3 DEF Progress
  <2> QED BY <2>4, <2>5
<1>9. ASSUME NEW d \in Events, d # e PROVE Progress(d)'
  BY <1>1, <1>2, <1>9, OthersProgress
<1> QED BY <1>7, <1>8, <1>9

LEMMA Appended ==
    ASSUME NEW S, NEW q \in Seq(S), NEW n \in S, n \notin ToSet(q)
    PROVE  /\ Append(q, n) \in Seq(S)
           /\ ToSet(Append(q, n)) = ToSet(q) \union {n}
           /\ IsInjective(q) => IsInjective(Append(q, n))
<1>1. /\ DOMAIN Append(q, n) = 1..Len(q) + 1
      /\ DOMAIN q = 1..Len(q) /\ Len(q) \in Nat
      /\ Append(q, n)[Len(q) + 1] = n
      /\ \A i \in 1..Len(q) : Append(q, n)[i] = q[i]
  BY AppendProperties
<1> QED BY <1>1 DEF ToSet, IsInjective

LEMMA Taken ==
    ASSUME NEW S, NEW q \in Seq(S), IsInjective(q), q # <<>>
    PROVE  /\ Head(q) \in S /\ Head(q) \in ToSet(q)
           /\ Tail(q) \in Seq(S) /\ IsInjective(Tail(q))
           /\ \A n : n \in ToSet(Tail(q)) <=> n \in ToSet(q) /\ n # Head(q)
<1>1. /\ Head(q) = q[1] /\ q[1] \in S /\ Len(q) \in Nat /\ Len(q) > 0
      /\ DOMAIN q = 1..Len(q)
  OBVIOUS
<1>2. /\ Tail(q) \in Seq(S) /\ Len(Tail(q)) = Len(q) - 1
      /\ DOMAIN Tail(q) = 1..Len(q) - 1
      /\ \A i \in 1..Len(q) - 1 : Tail(q)[i] = q[i + 1]
  BY HeadTailProperties
<1>3. IsInjective(Tail(q))
  BY <1>1, <1>2 DEF IsInjective
<1>4. ASSUME NEW n, n \in ToSet(q), n # Head(q) PROVE n \in ToSet(Tail(q))
  <2>1. PICK i \in 1..Len(q) : q[i] = n
    BY <1>1, <1>4 DEF ToSet
  <2>2. i - 1 \in 1..Len(q) - 1 /\ Tail(q)[i - 1] = n
    BY <1>1, <1>2, <1>4, <2>1
  <2> QED BY <1>2, <2>2 DEF ToSet
<1>5. ASSUME NEW n, n \in ToSet(Tail(q)) PROVE n \in ToSet(q) /\ n # Head(q)
  <2>1. PICK i \in 1..Len(q) - 1 : q[i + 1] = n
    BY <1>2, <1>5 DEF ToSet
  <2>2. i + 1 \in 1..Len(q) /\ i + 1 # 1
    BY <1>1, <2>1
  <2> QED BY <1>1, <2>1, <2>2 DEF ToSet, IsInjective
<1> QED BY <1>1, <1>2, <1>3, <1>4, <1>5 DEF ToSet

LEMMA Removed ==
    ASSUME NEW S, NEW q \in Seq(S), IsInjective(q), NEW i \in DOMAIN q
    PROVE  /\ RemoveAt(q, i) \in Seq(S) /\ IsInjective(RemoveAt(q, i))
           /\ i # 1 => Len(RemoveAt(q, i)) > 0 /\ RemoveAt(q, i)[1] = q[1]
<1> DEFINE front == SubSeq(q, 1, i - 1)
           back == SubSeq(q, i + 1, Len(q))
<1>1. i \in 1..Len(q) /\ Len(q) \in Nat /\ i \in Int
  OBVIOUS
<1>2. /\ front \in Seq(S) /\ Len(front) = i - 1
      /\ \A j \in 1..i - 1 : front[j] = q[j]
  <2>1. \A j \in 1..i - 1 : q[j] \in S
    BY <1>1
  <2> QED BY <1>1, <2>1, SubSeqProperties
<1>3. /\ back \in Seq(S) /\ Len(back) = Len(q) - i
      /\ \A j \in 1..Len(q) - i : back[j] = q[i + j]
  <2>1. \A j \in i + 1..Len(q) : q[j] \in S
    BY <1>1
  <2> QED BY <1>1, <2>1, SubSeqProperties
<1> DEFINE r == front \o back
<1> HIDE DEF front, back
<1>4. /\ r \in Seq(S) /\ Len(r) = Len(q) - 1
      /\ \A j \in 1..Len(q) - 1 : r[j] = IF j < i THEN q[j] ELSE q[j + 1]
  <2>3. /\ r \in Seq(S) /\ Len(r) = Len(front) + Len(back)
        /\ \A j \in 1..Len(front) + Len(back) :
              r[j] = IF j <= Len(front) THEN front[j] ELSE back[j - Len(front)]
    BY <1>2, <1>3, ConcatProperties
  <2>4. Len(front) + Len(back) = Len(q) - 1
    BY <1>1, <1>2, <1>3
  <2>1. /\ r \in Seq(S) /\ Len(r) = Len(q) - 1
        /\ \A j \in 1..Len(q) - 1 : r[j] = IF j <= i - 1 THEN front[j] ELSE back[j - (i - 1)]
    BY <1>2, <2>3, <2>4
  <2> HIDE DEF r
  <2>2. ASSUME NEW j \in 1..Len(q) - 1 PROVE r[j] = IF j < i THEN q[j] ELSE q[j + 1]
    <3>1. CASE j < i
      BY <1>1, <1>2, <2>1, <3>1
    <3>2. CASE j >= i
      <4>5. /\ j - (i - 1) \in 1..Len(q) - i
            /\ i + (j - (i - 1)) = j + 1
        BY <1>1, <3>2
      <4>1. PICK k \in 1..Len(q) - i : k = j - (i - 1) /\ i + k = j + 1
        BY <4>5
      <4>6. ~(j <= i - 1)
        BY <1>1, <3>2
      <4>7. r[j] = back[j - (i - 1)]
        BY <2>1, <4>6
      <4>2. r[j] = back[k]
        BY <4>1, <4>7
      <4>3. back[k] = q[j + 1]
        BY <1>3, <4>1
      <4> QED BY <1>1, <3>2, <4>2, <4>3
    <3>3. j \in Int
      OBVIOUS
    <3> QED BY <1>1, <3>1, <3>2, <3>3
  <2> QED BY <2>1, <2>2
<1>5. RemoveAt(q, i) = r
  BY DEF RemoveAt, front, back
<1> HIDE DEF r
<1>6. DOMAIN r = 1..Len(q) - 1
  BY <1>4
<1>7. ASSUME NEW j \in 1..Len(q) - 1, NEW k \in 1..Len(q) - 1, r[j] = r[k] PROVE j = k
  <2>1. PICK a \in 1..Len(q) : r[j] = q[a] /\ a = IF j < i THEN j ELSE j + 1
    BY <1>1, <1>4
  <2>2. PICK b \in 1..Len(q) : r[k] = q[b] /\ b = IF k < i THEN k ELSE k + 1
    BY <1>1, <1>4
  <2>3. a = b
    <3>1. q[a] = q[b]
      BY <1>7, <2>1, <2>2
    <3>2. DOMAIN q = 1..Len(q)
      OBVIOUS
    <3> QED BY <3>1, <3>2 DEF IsInjective
  <2> QED BY <1>1, <2>1, <2>2, <2>3
<1> QED BY SMTT(30), <1>1, <1>4, <1>5, <1>6, <1>7 DEF IsInjective

(* An event that nobody dispatched yet is dropped.                         *)
LEMMA DropStep ==
    ASSUME BusInv, NEW e \in Events, Drop(e), disp[e] \in {"new", "ready"},
           UNCHANGED <<loop, subs, closed, file, audit>>,
           ready' \in Seq(Notes), IsInjective(ready'),
           \A n \in Notes : n \in ToSet(ready') <=> n \in ToSet(ready) /\ n # e,
           noted' \in 0..MaxNotes, Fresh'
    PROVE  BusTypeOK' /\ Fresh' /\ \A d \in Events : Progress(d)'
<1> USE BusConstants
<1>1. disp' = [disp EXCEPT ![e] = "dropped"] /\ UNCHANGED <<cur, list, next, owed, told>>
  BY DEF Drop
<1>2. disp \in [Events -> Phases] /\ disp' \in [Events -> Phases]
  BY <1>1 DEF BusInv, BusTypeOK, Phases
<1>3. \A d \in Events : (cur' = d) <=> (disp'[d] = "running")
  BY <1>1, <1>2 DEF BusInv, BusTypeOK
<1>4. \A n \in Notes : (disp'[n] = "ready") <=> (n \in ToSet(ready'))
  BY <1>1, <1>2 DEF BusInv, BusTypeOK
<1>5. ~loop' => \A d \in Events : disp'[d] \notin {"ready", "parked"}
  BY <1>1, <1>2 DEF BusInv, BusTypeOK
<1>6. BusTypeOK'
  BY <1>1, <1>2, <1>3, <1>4, <1>5 DEF BusInv, BusTypeOK
<1>7. ASSUME NEW d \in Events PROVE Progress(d)'
  <2>1. CASE d = e
    BY <1>1, <1>2, <2>1 DEF BusInv, Progress, Active
  <2>2. CASE d # e
    BY <1>1, <1>2, <2>2, OthersProgress
  <2> QED BY <2>1, <2>2
<1> QED BY <1>6, <1>7

LEMMA PublishNowaitStep ==
    ASSUME BusInv, PublishNowait, cur \in Callers \union {NoOne}, state # "created"
    PROVE  BusTypeOK' /\ Fresh' /\ \A d \in Events : Progress(d)'
<1> USE BusConstants
<1>1. noted \in 0..MaxNotes /\ noted < MaxNotes /\ noted' = noted + 1
  BY DEF PublishNowait, BusInv, BusTypeOK
<1>2. PICK n \in Notes : n = <<NoOne, noted + 1>>
  <2>1. noted + 1 \in 1..MaxNotes
    BY <1>1
  <2> QED BY <2>1
<1>3. /\ n \in Events /\ disp[n] = "new" /\ noted' \in 0..MaxNotes
      /\ \A k \in 1..MaxNotes : k > noted' => <<NoOne, k>> # n /\ disp[<<NoOne, k>>] = "new"
  BY <1>1, <1>2 DEF BusInv, Fresh
<1>4. /\ disp \in [Events -> Phases] /\ ready \in Seq(Notes) /\ IsInjective(ready)
      /\ n \notin ToSet(ready) /\ cur \notin Events
  BY <1>3 DEF BusInv, BusTypeOK
<1>5. UNCHANGED <<loop, subs, closed, file, audit>>
  BY DEF PublishNowait
<1>6. CASE closed /\ Drop(n) /\ UNCHANGED ready
  <2>1. Fresh'
    BY <1>3, <1>4, <1>6 DEF Fresh, Drop
  <2> QED BY <1>3, <1>4, <1>5, <1>6, <2>1, DropStep
<1>7. CASE ~closed /\ ~loop /\ Begin(n) /\ UNCHANGED ready
  <2>1. Fresh'
    BY <1>3, <1>4, <1>7 DEF Fresh, Begin
  <2> QED BY <1>3, <1>4, <1>5, <1>7, <2>1, BeginStep
<1>8. CASE /\ loop
           /\ disp' = [disp EXCEPT ![n] = "ready"]
           /\ ready' = Append(ready, n)
           /\ UNCHANGED <<cur, list, next, owed, told>>
  <2>1. disp' \in [Events -> Phases]
    BY <1>4, <1>8 DEF Phases
  <2>2. /\ ready' \in Seq(Notes) /\ IsInjective(ready')
        /\ ToSet(ready') = ToSet(ready) \union {n}
    BY <1>4, <1>8, Appended
  <2>3. Fresh'
    BY <1>3, <1>4, <1>8 DEF Fresh
  <2>4. \A e \in Events : (cur' = e) <=> (disp'[e] = "running")
    BY <1>3, <1>4, <1>8 DEF BusInv, BusTypeOK
  <2>5. \A m \in Notes : (disp'[m] = "ready") <=> (m \in ToSet(ready'))
    BY <1>4, <1>8, <2>2 DEF BusInv, BusTypeOK
  <2>6. BusTypeOK'
    BY <1>3, <1>5, <1>8, <2>1, <2>2, <2>4, <2>5 DEF BusInv, BusTypeOK
  <2>7. ASSUME NEW d \in Events PROVE Progress(d)'
    <3>1. CASE d = n
      BY <1>3, <1>4, <1>8, <3>1 DEF BusInv, Progress, Active
    <3>2. CASE d # n
      BY <1>4, <1>5, <1>8, <3>2, OthersProgress
    <3> QED BY <3>1, <3>2
  <2> QED BY <2>3, <2>6, <2>7
<1> QED BY <1>2, <1>6, <1>7, <1>8 DEF PublishNowait

LEMMA TakeReadyStep ==
    ASSUME BusInv, TakeReady
    PROVE  BusTypeOK' /\ Fresh' /\ (\A d \in Events : Progress(d)') /\ state # "created"
<1> USE BusConstants
<1>1. PICK n : n = Head(ready)
  OBVIOUS
<1>2. /\ cur = NoOne /\ ready # <<>> /\ ready' = Tail(ready)
      /\ IF closed THEN Drop(n) ELSE Begin(n)
      /\ UNCHANGED <<loop, subs, closed, noted, file, audit>>
  BY <1>1 DEF TakeReady
<1>3. ready \in Seq(Notes) /\ IsInjective(ready) /\ disp \in [Events -> Phases]
  BY DEF BusInv, BusTypeOK
<1>4. /\ n \in Notes /\ n \in ToSet(ready)
      /\ ready' \in Seq(Notes) /\ IsInjective(ready')
      /\ \A m : m \in ToSet(ready') <=> m \in ToSet(ready) /\ m # n
  BY <1>1, <1>2, <1>3, Taken
<1>5. n \in Events /\ disp[n] = "ready" /\ cur \notin Events
  BY <1>2, <1>4 DEF BusInv, BusTypeOK
<1>6. state # "created"
  BY <1>5 DEF BusInv, Untouched
<1>7. Fresh' /\ noted' \in 0..MaxNotes
  <2>1. \A d \in Events : disp[d] = "new" => disp'[d] = "new"
    BY <1>2, <1>3, <1>5 DEF Drop, Begin
  <2> QED BY <1>2, <2>1 DEF BusInv, BusTypeOK, Fresh
<1>8. CASE closed
  BY <1>2, <1>4, <1>5, <1>6, <1>7, <1>8, DropStep
<1>9. CASE ~closed
  BY <1>2, <1>4, <1>5, <1>6, <1>7, <1>9, BeginStep
<1> QED BY <1>6, <1>8, <1>9

LEMMA ResumeStep ==
    ASSUME BusInv, NEW e \in Events, Resume(e)
    PROVE  BusTypeOK' /\ Fresh' /\ \A d \in Events : Progress(d)'
<1> USE BusConstants
<1>1. /\ cur = NoOne /\ disp[e] = "parked" /\ cur' = e
      /\ disp' = [disp EXCEPT ![e] = "running"]
      /\ UNCHANGED <<loop, ready, subs, closed, list, next, noted, owed, told, file, audit>>
  BY DEF Resume
<1>2. disp \in [Events -> Phases] /\ disp' \in [Events -> Phases]
  BY <1>1 DEF BusInv, BusTypeOK, Phases
<1>3. \A d \in Events : (cur' = d) <=> (disp'[d] = "running")
  BY <1>1, <1>2 DEF BusInv, BusTypeOK
<1>4. \A n \in Notes : (disp'[n] = "ready") <=> (n \in ToSet(ready'))
  BY <1>1, <1>2 DEF BusInv, BusTypeOK
<1>5. loop
  BY <1>1 DEF BusInv, BusTypeOK
<1>6. BusTypeOK'
  BY <1>1, <1>2, <1>3, <1>4, <1>5 DEF BusInv, BusTypeOK
<1>7. Fresh'
  BY <1>1, <1>2 DEF BusInv, Fresh
<1>8. ASSUME NEW d \in Events PROVE Progress(d)'
  <2>1. CASE d = e
    BY <1>1, <1>2, <2>1 DEF BusInv, Progress, Active, Concerns
  <2>2. CASE d # e
    BY <1>1, <1>2, <2>2, OthersProgress
  <2> QED BY <2>1, <2>2
<1> QED BY <1>6, <1>7, <1>8

LEMMA ReturnStep ==
    ASSUME BusInv, NEW e \in Events, Return(e)
    PROVE  BusTypeOK' /\ Fresh' /\ \A d \in Events : Progress(d)'
<1> USE BusConstants
<1>1. /\ cur = e /\ cur' = e[1]
      /\ disp' = [disp EXCEPT ![e] = "done"] /\ list' = [list EXCEPT ![e] = <<>>]
      /\ next' = [next EXCEPT ![e] = 0] /\ owed' = [owed EXCEPT ![e] = {}]
      /\ told' = [told EXCEPT ![e] = <<>>]
      /\ UNCHANGED <<loop, ready, subs, closed, noted, file, audit>>
  BY DEF Return
<1>2. /\ disp \in [Events -> Phases] /\ list \in [Events -> Seq(Subs)]
      /\ next \in [Events -> Nat] /\ owed \in [Events -> SUBSET Nat]
      /\ told \in [Events -> Seq(Nat)] /\ disp[e] = "running"
  BY <1>1 DEF BusInv, BusTypeOK
<1>3. /\ disp' \in [Events -> Phases] /\ list' \in [Events -> Seq(Subs)]
      /\ next' \in [Events -> Nat] /\ owed' \in [Events -> SUBSET Nat]
      /\ told' \in [Events -> Seq(Nat)]
  BY <1>1, <1>2 DEF Phases
<1>4. cur' \in Callers \union {NoOne} /\ cur' \notin Events
  BY <1>1
<1>5. \A d \in Events : (cur' = d) <=> (disp'[d] = "running")
  BY <1>1, <1>2, <1>4 DEF BusInv, BusTypeOK
<1>6. \A n \in Notes : (disp'[n] = "ready") <=> (n \in ToSet(ready'))
  BY <1>1, <1>2 DEF BusInv, BusTypeOK
<1>7. ~loop' => cur' = NoOne /\ \A d \in Events : disp'[d] \notin {"ready", "parked"}
  BY <1>1, <1>2 DEF BusInv, BusTypeOK
<1>8. BusTypeOK'
  BY <1>1, <1>3, <1>4, <1>5, <1>6, <1>7 DEF BusInv, BusTypeOK
<1>9. Fresh'
  BY <1>1, <1>2 DEF BusInv, Fresh
<1>10. ASSUME NEW d \in Events PROVE Progress(d)'
  <2>1. CASE d = e
    BY <1>1, <1>2, <2>1 DEF Progress, Active
  <2>2. CASE d # e
    BY <1>1, <1>2, <2>2, OthersProgress
  <2> QED BY <2>1, <2>2
<1> QED BY <1>8, <1>9, <1>10

LEMMA LoopEndsStep ==
    ASSUME BusInv, LoopEnds
    PROVE  BusTypeOK' /\ Fresh' /\ \A d \in Events : Progress(d)'
<1> USE BusConstants
<1>1. /\ cur = NoOne /\ cur' = cur /\ ready' = <<>>
      /\ disp' = [e \in Events |-> IF disp[e] \in {"ready", "parked"} THEN "cut" ELSE disp[e]]
      /\ list' = [e \in Events |-> <<>>] /\ next' = [e \in Events |-> 0]
      /\ owed' = [e \in Events |-> {}] /\ told' = [e \in Events |-> <<>>]
      /\ loop' = FALSE
      /\ UNCHANGED <<subs, closed, noted, file, audit>>
  BY DEF LoopEnds
<1>2. disp \in [Events -> Phases] /\ disp' \in [Events -> Phases]
  BY <1>1 DEF BusInv, BusTypeOK, Phases
<1>3. \A d \in Events : disp[d] # "running" /\ ~Active(d)' /\ disp'[d] # "ready"
  BY <1>1, <1>2 DEF BusInv, BusTypeOK, Active
<1>4. ready' \in Seq(Notes) /\ IsInjective(ready') /\ ToSet(ready') = {}
  BY <1>1 DEF IsInjective, ToSet
<1>5. /\ list' \in [Events -> Seq(Subs)] /\ next' \in [Events -> Nat]
      /\ owed' \in [Events -> SUBSET Nat] /\ told' \in [Events -> Seq(Nat)]
  BY <1>1
<1>6. BusTypeOK'
  BY <1>1, <1>2, <1>3, <1>4, <1>5 DEF BusInv, BusTypeOK, Active
<1>7. Fresh'
  BY <1>1, <1>2 DEF BusInv, Fresh
<1> QED BY <1>1, <1>3, <1>6, <1>7 DEF Progress

LEMMA PublishStep ==
    ASSUME BusInv, NEW e \in Calls, Publish(e), cur \notin Events, loop, state # "created"
    PROVE  BusTypeOK' /\ Fresh' /\ \A d \in Events : Progress(d)'
<1> USE BusConstants
<1>1. /\ ~closed /\ disp[e] = "new" /\ Begin(e)
      /\ UNCHANGED <<loop, ready, subs, closed, noted, file, audit>>
  BY DEF Publish
<1>2. /\ ready \in Seq(Notes) /\ IsInjective(ready) /\ noted \in 0..MaxNotes
      /\ \A n \in Notes : n \in ToSet(ready) => n # e
  BY <1>1 DEF BusInv, BusTypeOK
<1>3. \A k \in 1..MaxNotes : <<NoOne, k>> # e
  OBVIOUS
<1>4. Fresh'
  BY <1>1, <1>3 DEF BusInv, BusTypeOK, Fresh, Begin
<1> QED BY <1>1, <1>2, <1>4, BeginStep

(* The bus in the steps of the runtime.                                    *)
LEMMA StepKeepsBus ==
    ASSUME BusInv, StopInv, FileInv, [Next]_vars
    PROVE  BusTypeOK' /\ Fresh' /\ \A e \in Events : Progress(e)'
<1> USE BusConstants, CallsOf, Constants
<1>1. /\ loop \in BOOLEAN /\ closed \in BOOLEAN /\ subs \in Seq(Subs) /\ IsInjective(subs)
      /\ file \in Seq(Events) /\ audit \in {"none", "open", "closed"}
      /\ cur \in Callers => cur \notin Events /\ loop
      /\ ~loop => cur \in Notes \union {NoOne}
  BY DEF BusInv, BusTypeOK
<1>2. cur \in Callers => state # "created"
  BY DEF BusInv, Untouched
<1>3. <<>> \in Seq(Subs) /\ IsInjective(<<>>)
  BY DEF IsInjective
<1>4. CASE Start
  <2>1. CASE StartBegin
    <3>1. <<Recorder>> \in Seq(Subs) /\ IsInjective(<<Recorder>>)
      BY DEF IsInjective
    <3>2. /\ UNCHANGED <<ready, dispatchVars, noted, file>> /\ loop' = loop /\ closed' = closed
          /\ loop /\ cur = NoOne /\ cur' = Starter /\ subs' = <<Recorder>> /\ audit' = "open"
      BY <2>1 DEF StartBegin
    <3> QED BY <1>1, <3>1, <3>2, QuietStep
  <2>2. CASE StartImpossible
    <3>1. /\ UNCHANGED <<ready, dispatchVars, noted, file, cur, audit>> /\ loop' = loop
          /\ closed' = TRUE /\ subs' = <<>>
      BY <2>2 DEF StartImpossible, Close
    <3> QED BY <1>1, <1>3, <3>1, QuietStep
  <2>3. CASE StartService
    <3>1. UNCHANGED <<ready, dispatchVars, noted, file, cur, audit, subs>> /\ loop' = loop /\ closed' = closed
      BY <2>3 DEF StartService, busVars
    <3> QED BY <1>1, <3>1, QuietStep
  <2>4. CASE StartFails
    <3>1. /\ UNCHANGED <<ready, dispatchVars, noted, file>> /\ loop' = loop /\ cur = Starter
          /\ closed' = TRUE /\ subs' = <<>> /\ audit' = "closed" /\ cur' = NoOne
      BY <2>4 DEF StartFails, Close
    <3> QED BY <1>1, <1>3, <3>1, QuietStep
  <2>5. CASE AnnounceStarted
    <3> DEFINE e == <<Starter, "started">>
    <3>1. cur = Starter /\ Publish(e) /\ e \in Calls
      BY <2>5 DEF AnnounceStarted
    <3> HIDE DEF e
    <3> QED BY <1>1, <1>2, <3>1, PublishStep
  <2>6. CASE StartDone
    <3>1. /\ UNCHANGED <<ready, dispatchVars, noted, file, audit, subs>> /\ loop' = loop /\ closed' = closed
          /\ cur = Starter /\ cur' = NoOne
      BY <2>6 DEF StartDone
    <3> QED BY <1>1, <3>1, QuietStep
  <2> QED BY <1>4, <2>1, <2>2, <2>3, <2>4, <2>5, <2>6 DEF Start
<1>5. ASSUME NEW x \in Stoppers, Stop(x)
      PROVE  BusTypeOK' /\ Fresh' /\ \A e \in Events : Progress(e)'
  <2>1. CASE StopBegin(x)
    <3>1. /\ UNCHANGED <<ready, dispatchVars, noted, file, audit, subs>> /\ loop' = loop /\ closed' = closed
          /\ loop /\ cur = NoOne /\ cur' \in {x, NoOne}
      BY <2>1 DEF StopBegin
    <3> QED BY <1>1, <3>1, QuietStep
  <2>2. CASE StopService(x)
    <3>1. UNCHANGED <<ready, dispatchVars, noted, file, cur, audit, subs>> /\ loop' = loop /\ closed' = closed
      BY <2>2 DEF StopService, busVars
    <3> QED BY <1>1, <3>1, QuietStep
  <2>3. CASE AnnounceStopping(x) /\ ~closed
    <3>1. cur = x /\ Publish(StoppingOf(x)) /\ StoppingOf(x) \in Calls
      BY <2>3 DEF AnnounceStopping, StoppingOf
    <3> QED BY <1>1, <1>2, <3>1, PublishStep
  <2>4. CASE AnnounceStopping(x) /\ closed
    <3>1. UNCHANGED <<ready, dispatchVars, noted, file, cur, audit, subs>> /\ loop' = loop /\ closed' = closed
      BY <2>4 DEF AnnounceStopping, busVars
    <3> QED BY <1>1, <3>1, QuietStep
  <2>5. CASE AnnounceStopped(x) /\ ~closed
    <3>1. cur = x /\ Publish(StoppedOf(x)) /\ StoppedOf(x) \in Calls
      BY <2>5 DEF AnnounceStopped, StoppedOf
    <3> QED BY <1>1, <1>2, <3>1, PublishStep
  <2>6. CASE AnnounceStopped(x) /\ closed
    <3>1. /\ Drop(StoppedOf(x)) /\ StoppedOf(x) \in Events \ Notes
          /\ UNCHANGED <<loop, ready, subs, closed, noted, file, audit>>
      BY <2>6 DEF AnnounceStopped, StoppedOf
    <3>2. disp[StoppedOf(x)] = "new"
      BY <2>6 DEF AnnounceStopped, FileInv, Announced
    <3>3. /\ ready' \in Seq(Notes) /\ IsInjective(ready') /\ noted' \in 0..MaxNotes
          /\ \A n \in Notes : n \in ToSet(ready') <=> n \in ToSet(ready) /\ n # StoppedOf(x)
      BY <3>1 DEF BusInv, BusTypeOK
    <3>4. Fresh'
      <4>1. \A k \in 1..MaxNotes : disp'[<<NoOne, k>>] = disp[<<NoOne, k>>]
        BY <3>1 DEF Drop, BusInv, BusTypeOK
      <4> QED BY <3>1, <4>1 DEF BusInv, Fresh
    <3> QED BY <3>1, <3>2, <3>3, <3>4, DropStep
  <2>7. CASE StopEnd(x)
    <3>1. /\ UNCHANGED <<ready, dispatchVars, noted, file>> /\ loop' = loop /\ cur = x
          /\ closed' = TRUE /\ subs' = <<>> /\ audit' = "closed" /\ cur' = NoOne
      BY <2>7 DEF StopEnd, Close
    <3> QED BY <1>1, <1>3, <3>1, QuietStep
  <2> QED BY <1>5, <2>1, <2>2, <2>3, <2>4, <2>5, <2>6, <2>7 DEF Stop
<1>6. CASE Note
  <2>1. state # "created"
    BY <1>6 DEF Note, BusInv, Untouched
  <2> QED BY <1>6, <2>1, PublishNowaitStep DEF Note
<1>7. CASE Client
  <2>1. PICK s \in Subs \ {Recorder} : Subscribe(s) \/ Unsubscribe(s)
    BY <1>7 DEF Client
  <2>2. UNCHANGED <<ready, dispatchVars, noted, file, cur, audit>> /\ loop' = loop /\ closed' = closed
    BY <2>1 DEF Subscribe, Unsubscribe
  <2>3. subs' \in Seq(Subs) /\ IsInjective(subs')
    <3>1. CASE Subscribe(s)
      BY <1>1, <3>1, Appended DEF Subscribe
    <3>2. CASE Unsubscribe(s)
      BY <1>1, <3>2, Removed DEF Unsubscribe
    <3> QED BY <2>1, <3>1, <3>2
  <2> QED BY <1>1, <2>2, <2>3, QuietStep
<1>8. CASE BusStep
  <2>1. CASE TakeReady
    BY <2>1, TakeReadyStep
  <2>2. ASSUME NEW e \in Events, Skip(e) \/ Call(e) \/ Wait(e)
        PROVE  BusTypeOK' /\ Fresh' /\ \A d \in Events : Progress(d)'
    <3>1. file' \in Seq(Events)
      <4>1. file' = file \/ file' = Append(file, e)
        BY <2>2 DEF Skip, Call, Wait, Record
      <4>2. file \in Seq(Events)
        BY <1>1
      <4>3. Append(file, e) \in Seq(Events)
        BY <4>2
      <4> QED BY <4>1, <4>2, <4>3
    <3>2. CASE Skip(e)
      BY <3>1, <3>2, AtStep DEF Skip
    <3>3. CASE Call(e)
      BY <3>1, <3>3, AtStep DEF Call
    <3>4. CASE Wait(e)
      <4>1. At(e, TRUE) /\ list' = list /\ cur' = NoOne /\ disp' = [disp EXCEPT ![e] = "parked"]
        BY <3>4 DEF Wait
      <4>2. loop
        BY <3>4 DEF Wait, At, Concerns
      <4> QED BY <3>1, <4>1, <4>2, AtStep
    <3> QED BY <2>2, <3>2, <3>3, <3>4
  <2> QED BY <1>8, <2>1, <2>2, ResumeStep, ReturnStep DEF BusStep, Turn
<1>9. CASE Loop
  <2>1. CASE LoopStarts
    <3>1. /\ UNCHANGED <<ready, dispatchVars, noted, file, cur, audit, subs>> /\ closed' = closed
          /\ ~loop /\ loop' = TRUE /\ cur = NoOne
      BY <2>1 DEF LoopStarts
    <3>2. \A e \in Events : ~Active(e)
      BY <3>1 DEF BusInv, BusTypeOK, Active
    <3> QED BY <1>1, <3>1, <3>2, QuietStep
  <2> QED BY <1>9, <2>1, LoopEndsStep DEF Loop
<1>10. CASE UNCHANGED vars
  <2>1. UNCHANGED <<ready, dispatchVars, noted, file, cur, audit, subs>> /\ loop' = loop /\ closed' = closed
    BY <1>10 DEF vars, busVars
  <2> QED BY <1>1, <2>1, QuietStep
<1> QED BY <1>4, <1>5, <1>6, <1>7, <1>8, <1>9, <1>10 DEF Next

LEMMA StepKeepsRecording ==
    ASSUME BusInv, [Next]_vars
    PROVE  Recording'
<1> USE BusConstants, Constants
<1>1. subs \in Seq(Subs) /\ IsInjective(subs)
  BY DEF BusInv, BusTypeOK
<1>2. CASE Start
  <2>1. CASE StartBegin
    <3>1. ~closed
      BY <2>1 DEF StartBegin, BusInv, Untouched
    <3> QED BY <2>1, <3>1 DEF StartBegin, Recording
  <2>2. CASE StartImpossible
    <3>1. audit # "open"
      BY <2>2 DEF StartImpossible, BusInv, Untouched, Recording
    <3> QED BY <2>2, <3>1 DEF StartImpossible, Close, Recording
  <2>3. CASE StartFails
    BY <2>3 DEF StartFails, Close, Recording
  <2>4. CASE StartService \/ AnnounceStarted \/ StartDone
    <3>1. cur = Starter /\ UNCHANGED <<closed, audit, subs>>
      BY <2>4 DEF StartService, AnnounceStarted, StartDone, Publish, busVars
    <3>2. state # "created"
      BY <3>1 DEF BusInv, Untouched
    <3> QED BY <3>1, <3>2 DEF BusInv, Recording
  <2> QED BY <1>2, <2>1, <2>2, <2>3, <2>4 DEF Start
<1>3. ASSUME NEW x \in Stoppers, Stop(x) PROVE Recording'
  <2>1. CASE StopBegin(x)
    <3>1. UNCHANGED <<closed, audit, subs>> /\ (state = "created" => state' = "created")
      BY <2>1 DEF StopBegin
    <3> QED BY <3>1 DEF BusInv, Recording
  <2>2. CASE StopService(x) \/ AnnounceStopping(x) \/ AnnounceStopped(x)
    <3>1. UNCHANGED <<closed, audit, subs, state>>
      BY <2>2 DEF StopService, AnnounceStopping, AnnounceStopped, Publish, busVars
    <3> QED BY <3>1 DEF BusInv, Recording
  <2>3. CASE StopEnd(x)
    BY <2>3 DEF StopEnd, Close, Recording
  <2> QED BY <1>3, <2>1, <2>2, <2>3 DEF Stop
<1>4. CASE Client
  <2>1. PICK s \in Subs \ {Recorder} : Subscribe(s) \/ Unsubscribe(s)
    BY <1>4 DEF Client
  <2>2. UNCHANGED <<closed, audit, state>>
    BY <1>4 DEF Client, Subscribe, Unsubscribe
  <2>3. Len(subs) > 0 /\ subs[1] = Recorder => Len(subs') > 0 /\ subs'[1] = Recorder
    <3>1. CASE Subscribe(s)
      BY <1>1, <3>1, AppendProperties DEF Subscribe
    <3>2. CASE Unsubscribe(s)
      <4>1. PICK i \in DOMAIN subs : s # Recorder /\ subs[i] = s /\ subs' = RemoveAt(subs, i)
        BY <3>2 DEF Unsubscribe
      <4> QED BY <1>1, <4>1, Removed
    <3> QED BY <2>1, <3>1, <3>2
  <2> QED BY <2>2, <2>3 DEF BusInv, Recording
<1>5. CASE Note \/ BusStep \/ Loop \/ UNCHANGED vars
  <2>1. UNCHANGED <<closed, audit, subs, state>>
    <3>1. CASE Note
      BY <3>1 DEF Note, PublishNowait
    <3>2. CASE BusStep
      BY <3>2 DEF BusStep, Turn, TakeReady, Skip, Call, Wait, Resume, Return, At
    <3>3. CASE Loop
      BY <3>3 DEF Loop, LoopStarts, LoopEnds
    <3> QED BY <1>5, <3>1, <3>2, <3>3 DEF vars, busVars
  <2> QED BY <2>1 DEF BusInv, Recording
<1> QED BY <1>2, <1>3, <1>4, <1>5 DEF Next

LEMMA StepKeepsUntouched ==
    ASSUME BusInv, StopInv, [Next]_vars
    PROVE  Untouched'
<1> USE BusConstants, Constants
<1> SUFFICES ASSUME state' = "created" PROVE Untouched'
  BY DEF Untouched
<1>1. state = "created"
  <2>1. ~(\E x \in Stoppers : StopEnd(x))
    BY DEF StopEnd
  <2> QED BY <2>1 DEF Next, vars, Start, StartBegin, StartImpossible, StartService,
        StartFails, AnnounceStarted, StartDone, Stop, StopBegin, StopService,
        AnnounceStopping, AnnounceStopped, Note, Client, BusStep, Loop
<1>2. /\ ~closed /\ cur = NoOne /\ subs = <<>> /\ audit = "none" /\ at[Starter] = Idle
      /\ \A e \in Events : disp[e] = "new"
      /\ \A s \in Services : service[s] = "none"
      /\ disp \in [Events -> Phases]
  BY <1>1 DEF BusInv, Untouched, BusTypeOK
<1>3. ~Start
  BY <1>1, <1>2 DEF Start, StartBegin, StartImpossible, StartService, StartFails,
                    AnnounceStarted, StartDone
<1>4. ~Note /\ ~Client
  BY <1>1, <1>2 DEF Note, Client
<1>5. ~BusStep
  <2>1. ~TakeReady
    BY <1>1, TakeReadyStep
  <2>2. ASSUME NEW e \in Events PROVE ~(Skip(e) \/ Call(e) \/ Wait(e) \/ Resume(e) \/ Return(e))
    BY <1>2 DEF Skip, Call, Wait, Resume, Return, At
  <2> QED BY <2>1, <2>2 DEF BusStep, Turn
<1>6. ASSUME NEW x \in Stoppers, Stop(x) PROVE Untouched'
  <2>1. StopBegin(x)
    BY <1>2, <1>6 DEF Stop, StopService, AnnounceStopping, AnnounceStopped, StopEnd
  <2>2. at'[Starter] = at[Starter] /\ UNCHANGED <<closed, cur, subs, disp, service, audit>>
    BY <1>1, <2>1 DEF StopBegin, StopInv, dispatchVars
  <2> QED BY <1>2, <2>2 DEF Untouched
<1>7. CASE Loop
  <2>1. UNCHANGED <<closed, cur, subs, service, at, audit>>
    BY <1>7 DEF Loop, LoopStarts, LoopEnds
  <2>2. \A e \in Events : disp'[e] = "new"
    BY <1>2, <1>7 DEF Loop, LoopStarts, LoopEnds, dispatchVars
  <2> QED BY <1>2, <2>1, <2>2 DEF Untouched
<1>8. CASE UNCHANGED vars
  BY <1>2, <1>8 DEF Untouched, vars, busVars, dispatchVars
<1> QED BY <1>3, <1>4, <1>5, <1>6, <1>7, <1>8 DEF Next

-----------------------------------------------------------------------------
(* The file *)

(* A line more leaves what the file tells as it was.                       *)
LEMMA Grown ==
    ASSUME file \in Seq(Events), NEW e \in Events,
           file' = file \/ file' = Append(file, e)
    PROVE  /\ \A d \in Events : d \in ToSet(file) => d \in ToSet(file')
           /\ \A d \in Events : d \in ToSet(file') => d \in ToSet(file) \/ d = e
           /\ \A c, d \in Events : Before(c, d) => Before(c, d)'
<1>1. CASE file' = file
  BY <1>1 DEF Before
<1>2. CASE file' = Append(file, e)
  <2>1. /\ DOMAIN file' = 1..Len(file) + 1 /\ DOMAIN file = 1..Len(file) /\ Len(file) \in Nat
        /\ file'[Len(file) + 1] = e
        /\ \A i \in 1..Len(file) : file'[i] = file[i]
    BY <1>2, AppendProperties
  <2>2. DOMAIN file \subseteq DOMAIN file' /\ \A i \in DOMAIN file : file'[i] = file[i]
    BY <2>1
  <2>3. \A c, d \in Events : Before(c, d) => Before(c, d)'
    BY <2>2 DEF Before
  <2>4. \A d \in Events : d \in ToSet(file) => d \in ToSet(file')
    BY <2>2 DEF ToSet
  <2>5. \A d \in Events : d \in ToSet(file') => d \in ToSet(file) \/ d = e
    BY <2>1 DEF ToSet
  <2> QED BY <2>3, <2>4, <2>5
<1> QED BY <1>1, <1>2

(* What is appended comes after what is there.                             *)
LEMMA AppendedLast ==
    ASSUME file \in Seq(Events), NEW e \in Events, NEW d \in ToSet(file),
           file' = Append(file, e)
    PROVE  Before(d, e)' /\ e \in ToSet(file')
<1>1. /\ DOMAIN file' = 1..Len(file) + 1 /\ DOMAIN file = 1..Len(file) /\ Len(file) \in Nat
      /\ file'[Len(file) + 1] = e
      /\ \A i \in 1..Len(file) : file'[i] = file[i]
  BY AppendProperties
<1>2. PICK i \in 1..Len(file) : file[i] = d
  BY <1>1 DEF ToSet
<1>3. /\ i \in DOMAIN file' /\ Len(file) + 1 \in DOMAIN file'
      /\ i < Len(file) + 1 /\ file'[i] = d
  BY <1>1, <1>2
<1> QED BY <1>1, <1>3 DEF Before, ToSet

(* The first that a dispatch calls is the recorder.                        *)
LEMMA FirstCall ==
    ASSUME BusInv, FileInv, NEW e \in Events, next[e] = 1, disp[e] = "running"
    PROVE  /\ ~Skip(e) /\ ~Wait(e) /\ ~Return(e)
           /\ Call(e) => file' = Append(file, e)
<1> USE BusConstants
<1>1. Active(e)
  BY DEF Active
<1>2. /\ list[e][1] = Recorder /\ list[e] \in Seq(Subs) /\ 1 \in DOMAIN list[e]
      /\ audit = "open" /\ Concerns(e, Recorder)
  BY <1>1 DEF BusInv, BusTypeOK, Progress, FileInv, Filed, Concerns
<1>3. ~Skip(e)
  BY <1>2 DEF Skip, At
<1>4. ~Wait(e)
  BY <1>2 DEF Wait
<1>5. ~Return(e)
  BY <1>2 DEF Return
<1>6. Call(e) => file' = Append(file, e)
  BY <1>2 DEF Call, Record
<1> QED BY <1>3, <1>4, <1>5, <1>6

(* A step after which every dispatch is where it was.                      *)
LEMMA FiledStays ==
    ASSUME BusInv, FileInv, UNCHANGED <<file, disp, next>>,
           audit' = audit \/ cur \notin Events,
           NEW e \in Events
    PROVE  Filed(e)'
<1>1. CASE Active(e)
  <2>1. audit' = audit \/ next[e] # 1
    <3>1. CASE cur \notin Events
      BY <1>1, <3>1 DEF BusInv, BusTypeOK, Active, Progress
    <3> QED BY <3>1
  <2> QED BY <1>1, <2>1 DEF FileInv, Filed, Active
<1>2. CASE ~Active(e)
  BY <1>2 DEF FileInv, Filed, Active
<1> QED BY <1>1, <1>2

(* A dispatch begins: the audit log is open.                               *)
LEMMA BeginFile ==
    ASSUME BusInv, FileInv, NEW e \in Events, Begin(e), disp[e] \in {"new", "ready"},
           ~closed, state # "created", UNCHANGED <<file, audit>>
    PROVE  \A d \in Events : Filed(d)'
<1>1. /\ disp' = [disp EXCEPT ![e] = "running"] /\ next' = [next EXCEPT ![e] = 1]
      /\ disp \in [Events -> Phases] /\ next \in [Events -> Nat]
  BY DEF Begin, BusInv, BusTypeOK
<1>2. audit = "open"
  BY DEF BusInv, Recording
<1>3. Filed(e)'
  BY <1>1, <1>2 DEF Filed, Active
<1>4. ASSUME NEW d \in Events, d # e PROVE Filed(d)'
  <2>1. disp'[d] = disp[d] /\ next'[d] = next[d]
    BY <1>1, <1>4
  <2> QED BY <2>1 DEF FileInv, Filed, Active
<1> QED BY <1>3, <1>4

(* Nothing that concerns the announcements of x happens.                   *)
LEMMA AnnouncedStays ==
    ASSUME NEW x \in Stoppers, Announced(x), at'[x] = at[x], closed => closed',
           cur' = x => cur = x,
           \A e \in {StoppingOf(x), StoppedOf(x)} :
              disp'[e] = disp[e] \/ (Active(e) /\ Active(e)' /\ cur' # x)
    PROVE  Announced(x)'
BY DEF Announced, Active

(* What the file tells of the end when the file and the announcements are  *)
(* as they were, and the bus stays as open as it was.                      *)
LEMMA FileStays ==
    ASSUME BusInv, StopInv, FileInv, UNCHANGED <<file, disp, next>>,
           audit' = audit \/ cur \notin Events,
           \A x \in Stoppers : Announced(x)',
           disp[<<Starter, "started">>] # "new" => at'[Starter] > Len(StartOrder),
           closed' /\ <<Starter, "started">> \in ToSet(file) => TellsTheEnd,
           state' = "stopped" => closed'
    PROVE  FileInv'
<1>1. \A e \in Events : Filed(e)'
  BY FiledStays
<1> QED BY <1>1 DEF FileInv, Before, TellsTheEnd

LEMMA StartFile ==
    ASSUME BusInv, StopInv, FileInv, Start
    PROVE  FileInv'
<1> USE BusConstants, CallsOf, Constants, Orders
<1> DEFINE s == <<Starter, "started">>
<1>1. at[Starter] \in Nat /\ s \in Events /\ (s \in ToSet(file) => disp[s] # "new")
  BY DEF StopInv, FileInv, Filed
<1>2. at \in [Callers -> Nat]
  BY DEF StopInv
<1> HIDE DEF s
<1>3. ASSUME at' = [at EXCEPT ![Starter] = at'[Starter]], UNCHANGED disp,
             closed => closed', cur' \notin Stoppers
      PROVE  \A x \in Stoppers : Announced(x)'
  BY <1>2, <1>3, AnnouncedStays DEF FileInv
<1>4. CASE StartBegin
  <2>1. /\ state = "created" /\ cur = NoOne /\ cur' = Starter /\ state' = "initializing"
        /\ at' = [at EXCEPT ![Starter] = 1]
        /\ UNCHANGED <<file, disp, next>> /\ closed' = closed
    BY <1>4 DEF StartBegin, dispatchVars
  <2>2. disp[s] = "new" /\ ~closed
    BY <1>1, <2>1 DEF BusInv, Untouched
  <2>3. \A x \in Stoppers : Announced(x)'
    BY <1>2, <1>3, <2>1
  <2> QED BY <2>1, <2>2, <2>3, FileStays DEF s
<1>5. CASE StartImpossible
  <2>1. /\ state = "created" /\ cur = NoOne /\ cur' = cur /\ audit' = audit
        /\ at' = [at EXCEPT ![Starter] = Done]
        /\ UNCHANGED <<file, disp, next>> /\ closed' = TRUE
    BY <1>5 DEF StartImpossible, Close, dispatchVars
  <2>2. disp[s] = "new" /\ s \notin ToSet(file)
    BY <1>1, <2>1 DEF BusInv, Untouched
  <2>3. \A x \in Stoppers : Announced(x)'
    BY <1>2, <1>3, <2>1
  <2> QED BY <2>1, <2>2, <2>3, FileStays DEF s
<1>6. CASE StartService
  <2>1. /\ cur = Starter /\ cur' = cur /\ audit' = audit /\ state' = state
        /\ at' = [at EXCEPT ![Starter] = at[Starter] + 1]
        /\ UNCHANGED <<file, disp, next>> /\ closed' = closed
    BY <1>6 DEF StartService, busVars, dispatchVars
  <2>2. at'[Starter] = at[Starter] + 1
    BY <1>2, <2>1
  <2>3. \A x \in Stoppers : Announced(x)'
    BY <1>2, <1>3, <2>1
  <2> QED BY <1>1, <2>1, <2>2, <2>3, FileStays DEF s, FileInv
<1>7. CASE StartFails
  <2>1. /\ cur = Starter /\ cur' = NoOne /\ at[Starter] \in 1..10
        /\ at' = [at EXCEPT ![Starter] = Done]
        /\ UNCHANGED <<file, disp, next>> /\ closed' = TRUE
    BY <1>7 DEF StartFails, Close, dispatchVars
  <2>2. disp[s] = "new" /\ s \notin ToSet(file)
    BY <1>1, <2>1 DEF FileInv, s
  <2>3. \A x \in Stoppers : Announced(x)'
    BY <1>2, <1>3, <2>1
  <2> QED BY <2>1, <2>2, <2>3, FileStays DEF s
<1>8. CASE AnnounceStarted
  <2>1. /\ cur = Starter /\ at[Starter] = 11 /\ ~closed /\ disp[s] = "new" /\ Begin(s)
        /\ UNCHANGED <<loop, ready, subs, noted, file, audit, state, service, at>>
        /\ closed' = closed
    BY <1>8 DEF AnnounceStarted, Publish, s
  <2>2. \A x \in Stoppers : s # StoppingOf(x) /\ s # StoppedOf(x)
    BY DEF s, StoppingOf, StoppedOf
  <2>3. \A e \in Events : Filed(e)'
    BY <1>1, <2>1, BeginFile DEF BusInv, Untouched
  <2>4. \A x \in Stoppers : Announced(x)'
    <3>1. cur' = s /\ s \notin Callers /\ \A e \in Events : e # s => disp'[e] = disp[e]
      BY <1>1, <2>1 DEF Begin, BusInv, BusTypeOK
    <3> QED BY <2>1, <2>2, <3>1, AnnouncedStays DEF FileInv
  <2> QED BY <2>1, <2>3, <2>4 DEF FileInv, Before, TellsTheEnd, s
<1>9. CASE StartDone
  <2>1. /\ cur = Starter /\ cur' = NoOne /\ audit' = audit /\ state' = "running"
        /\ at' = [at EXCEPT ![Starter] = Done]
        /\ UNCHANGED <<file, disp, next>> /\ closed' = closed
    BY <1>9 DEF StartDone, dispatchVars
  <2>2. at'[Starter] = 20
    BY <1>2, <2>1 DEF Done
  <2>3. \A x \in Stoppers : Announced(x)'
    BY <1>2, <1>3, <2>1
  <2> QED BY <2>1, <2>2, <2>3, FileStays DEF s, FileInv
<1> QED BY <1>4, <1>5, <1>6, <1>7, <1>8, <1>9 DEF Start

LEMMA StopFile ==
    ASSUME BusInv, StopInv, FileInv, NEW x \in Stoppers, Stop(x)
    PROVE  FileInv'
<1> USE BusConstants, CallsOf, Constants, Orders
<1> DEFINE s == <<Starter, "started">>
<1>1. at \in [Callers -> Nat] /\ Announced(x) /\ disp \in [Events -> Phases]
  BY DEF StopInv, FileInv, BusInv, BusTypeOK
<1>2. /\ disp[s] # "new" => at[Starter] > Len(StartOrder)
      /\ closed /\ s \in ToSet(file) => TellsTheEnd
      /\ state = "stopped" => closed
  BY DEF FileInv
<1>3. s \in Events /\ \A y \in Stoppers : s # StoppingOf(y) /\ s # StoppedOf(y)
  BY DEF StoppingOf, StoppedOf
<1>4. \A y, z \in Stoppers : /\ StoppingOf(y) # StoppedOf(z)
                             /\ y # z => StoppingOf(y) # StoppingOf(z) /\ StoppedOf(y) # StoppedOf(z)
  BY DEF StoppingOf, StoppedOf
<1> HIDE DEF s
<1>5. ASSUME at' = [at EXCEPT ![x] = at'[x]]
      PROVE  at'[Starter] = at[Starter] /\ \A y \in Stoppers : y # x => at'[y] = at[y]
  BY <1>1, <1>5
<1>6. ASSUME UNCHANGED disp, closed => closed', cur' \in {x, NoOne} \/ cur' = cur,
             at' = [at EXCEPT ![x] = at'[x]]
      PROVE  \A y \in Stoppers : y # x => Announced(y)'
  BY <1>5, <1>6, AnnouncedStays DEF FileInv
<1>7. CASE StopBegin(x)
  <2>1. /\ cur = NoOne /\ at[x] = 0 /\ closed' = closed /\ audit' = audit
        /\ UNCHANGED <<file, disp, next>>
    BY <1>7 DEF StopBegin, Idle, dispatchVars
  <2>2. \/ at' = [at EXCEPT ![x] = 20] /\ cur' = cur /\ state' = state
        \/ at' = [at EXCEPT ![x] = 1] /\ cur' = x /\ state' = "stopping"
    BY <1>7 DEF StopBegin, Done
  <2>3. at' = [at EXCEPT ![x] = at'[x]] /\ at'[x] \in {1, 20} /\ (cur' = x => at'[x] = 1)
    BY <1>1, <2>1, <2>2
  <2>4. Announced(x)'
    BY <1>1, <2>1, <2>3 DEF Announced, Active
  <2>5. \A y \in Stoppers : Announced(y)'
    BY <1>6, <2>1, <2>2, <2>3, <2>4
  <2> QED BY <1>2, <1>5, <2>1, <2>2, <2>3, <2>5, FileStays DEF s
<1>8. CASE StopService(x)
  <2>1. /\ cur = x /\ cur' = cur /\ at[x] \in 1..10 /\ closed' = closed /\ audit' = audit
        /\ at' = [at EXCEPT ![x] = at[x] + 1] /\ state' = state
        /\ UNCHANGED <<file, disp, next>>
    BY <1>8 DEF StopService, busVars, dispatchVars
  <2>2. at' = [at EXCEPT ![x] = at'[x]] /\ at'[x] = at[x] + 1
    BY <1>1, <2>1
  <2>3. Announced(x)'
    BY <1>1, <2>1, <2>2 DEF Announced, Active
  <2>4. \A y \in Stoppers : Announced(y)'
    BY <1>6, <2>1, <2>2, <2>3
  <2> QED BY <1>2, <1>5, <2>1, <2>2, <2>4, FileStays DEF s
<1>9. CASE AnnounceStopping(x) /\ closed
  <2>1. /\ cur = x /\ cur' = cur /\ at[x] = 11 /\ closed' = closed /\ audit' = audit
        /\ at' = [at EXCEPT ![x] = 13] /\ state' = state
        /\ UNCHANGED <<file, disp, next>>
    BY <1>9 DEF AnnounceStopping, busVars, dispatchVars
  <2>2. at' = [at EXCEPT ![x] = at'[x]] /\ at'[x] = 13
    BY <1>1, <2>1
  <2>3. Announced(x)'
    BY <1>1, <1>9, <2>1, <2>2 DEF Announced, Active
  <2>4. \A y \in Stoppers : Announced(y)'
    BY <1>6, <2>1, <2>2, <2>3
  <2> QED BY <1>2, <1>5, <2>1, <2>2, <2>4, FileStays DEF s
<1>10. CASE StopEnd(x)
  <2>1. /\ cur = x /\ cur' = NoOne /\ at[x] = 13 /\ closed' = TRUE /\ state' = "stopped"
        /\ at' = [at EXCEPT ![x] = at'[x]] /\ at'[x] \in {20, 21}
        /\ UNCHANGED <<file, disp, next>>
    <3>1. \E n \in {20, 21} : at' = [at EXCEPT ![x] = n]
      <4>1. at' = [at EXCEPT ![x] = Done] \/ at' = [at EXCEPT ![x] = Raised]
        BY <1>10 DEF StopEnd
      <4> QED BY <4>1 DEF Done, Raised
    <3>2. at' = [at EXCEPT ![x] = at'[x]] /\ at'[x] \in {20, 21}
      BY <1>1, <3>1
    <3> QED BY <1>10, <3>2 DEF StopEnd, Close, dispatchVars
  <2>2. Announced(x)'
    BY <1>1, <2>1 DEF Announced, Active
  <2>3. \A y \in Stoppers : Announced(y)'
    BY <1>6, <2>1, <2>2
  <2>4. closed \/ TellsTheEnd
    <3>1. CASE ~closed
      <4>1. disp[StoppedOf(x)] = "done"
        BY <1>1, <2>1, <3>1 DEF Announced
      <4>2. Before(StoppingOf(x), StoppedOf(x))
        BY <4>1 DEF FileInv, Filed
      <4> QED BY <4>2 DEF TellsTheEnd
    <3> QED BY <3>1
  <2> QED BY <1>2, <1>5, <2>1, <2>3, <2>4, FileStays DEF s
<1>11. CASE AnnounceStopping(x) /\ ~closed
  <2> DEFINE e == StoppingOf(x)
  <2>1. /\ cur = x /\ at[x] = 11 /\ disp[e] = "new" /\ Begin(e) /\ e \in Events
        /\ at' = [at EXCEPT ![x] = 12]
        /\ UNCHANGED <<file, audit, closed, state>>
    BY <1>11 DEF AnnounceStopping, Publish, StoppingOf
  <2>2. state # "created"
    BY <2>1 DEF BusInv, Untouched
  <2>3. \A d \in Events : Filed(d)'
    BY <1>11, <2>1, <2>2, BeginFile
  <2>4. /\ cur' = e /\ disp'[e] = "running" /\ at'[x] = 12
        /\ \A d \in Events : d # e => disp'[d] = disp[d]
    BY <1>1, <2>1 DEF Begin
  <2>5. Announced(x)'
    BY <1>1, <1>4, <2>1, <2>4 DEF Announced, Active
  <2>6. ASSUME NEW y \in Stoppers, y # x PROVE Announced(y)'
    BY <1>4, <1>5, <2>1, <2>4, <2>6, AnnouncedStays DEF FileInv
  <2>7. \A y \in Stoppers : StoppedOf(y) \in ToSet(file)' => Before(StoppingOf(y), StoppedOf(y))'
    BY <2>1 DEF FileInv, Before
  <2>8. disp'[s] # "new" => at'[Starter] > Len(StartOrder)
    BY <1>2, <1>3, <1>5, <2>1, <2>4
  <2>9. TellsTheEnd' <=> TellsTheEnd
    BY <2>1 DEF TellsTheEnd, Before
  <2> QED BY <1>2, <2>1, <2>3, <2>5, <2>6, <2>7, <2>8, <2>9 DEF FileInv, s
<1>12. CASE AnnounceStopped(x) /\ ~closed
  <2> DEFINE e == StoppedOf(x)
  <2>1. /\ cur = x /\ at[x] = 12 /\ disp[e] = "new" /\ Begin(e) /\ e \in Events
        /\ at' = [at EXCEPT ![x] = 13]
        /\ UNCHANGED <<file, audit, closed, state>>
    BY <1>12 DEF AnnounceStopped, Publish, StoppedOf
  <2>2. state # "created"
    BY <2>1 DEF BusInv, Untouched
  <2>3. \A d \in Events : Filed(d)'
    BY <1>12, <2>1, <2>2, BeginFile
  <2>4. /\ cur' = e /\ disp'[e] = "running" /\ at'[x] = 13
        /\ \A d \in Events : d # e => disp'[d] = disp[d]
    BY <1>1, <2>1 DEF Begin
  <2>5. Announced(x)'
    BY <1>1, <1>4, <2>1, <2>4 DEF Announced, Active
  <2>6. ASSUME NEW y \in Stoppers, y # x PROVE Announced(y)'
    BY <1>4, <1>5, <2>1, <2>4, <2>6, AnnouncedStays DEF FileInv
  <2>7. \A y \in Stoppers : StoppedOf(y) \in ToSet(file)' => Before(StoppingOf(y), StoppedOf(y))'
    BY <2>1 DEF FileInv, Before
  <2>8. disp'[s] # "new" => at'[Starter] > Len(StartOrder)
    BY <1>2, <1>3, <1>5, <2>1, <2>4
  <2>9. TellsTheEnd' <=> TellsTheEnd
    BY <2>1 DEF TellsTheEnd, Before
  <2> QED BY <1>2, <2>1, <2>3, <2>5, <2>6, <2>7, <2>8, <2>9 DEF FileInv, s
<1>13. CASE AnnounceStopped(x) /\ closed
  <2> DEFINE e == StoppedOf(x)
  <2>1. /\ cur = x /\ at[x] = 12 /\ Drop(e) /\ e \in Events
        /\ at' = [at EXCEPT ![x] = 13]
        /\ UNCHANGED <<file, audit, closed, state>>
    BY <1>13 DEF AnnounceStopped, StoppedOf
  <2>2. /\ cur' = cur /\ disp[e] = "new" /\ disp'[e] = "dropped" /\ at'[x] = 13
        /\ next' = next /\ \A d \in Events : d # e => disp'[d] = disp[d]
    BY <1>1, <2>1 DEF Drop, Announced
  <2>3. ASSUME NEW d \in Events PROVE Filed(d)'
    BY <2>1, <2>2 DEF FileInv, Filed, Active
  <2>5. Announced(x)'
    BY <1>1, <1>4, <1>13, <2>1, <2>2 DEF Announced, Active
  <2>6. ASSUME NEW y \in Stoppers, y # x PROVE Announced(y)'
    BY <1>4, <1>5, <2>1, <2>2, <2>6, AnnouncedStays DEF FileInv
  <2>7. \A y \in Stoppers : StoppedOf(y) \in ToSet(file)' => Before(StoppingOf(y), StoppedOf(y))'
    BY <2>1 DEF FileInv, Before
  <2>8. disp'[s] # "new" => at'[Starter] > Len(StartOrder)
    BY <1>2, <1>3, <1>5, <2>1, <2>2
  <2>9. TellsTheEnd' <=> TellsTheEnd
    BY <2>1 DEF TellsTheEnd, Before
  <2> QED BY <1>2, <2>1, <2>3, <2>5, <2>6, <2>7, <2>8, <2>9 DEF FileInv, s
<1> QED BY <1>7, <1>8, <1>9, <1>10, <1>11, <1>12, <1>13 DEF Stop

(* A step of the bus, which moves no coroutine but the one that gets its   *)
(* answer.                                                                 *)
LEMMA CallFile ==
    ASSUME BusInv, FileInv, NEW e \in Events, Call(e)
    PROVE  /\ file' = file \/ file' = Append(file, e)
           /\ e \in ToSet(file')
           /\ \A x \in Stoppers : e = StoppedOf(x) => Before(StoppingOf(x), StoppedOf(x))'
           /\ closed => file' = file
<1> USE BusConstants, CallsOf
<1>1. /\ file \in Seq(Events) /\ disp[e] = "running" /\ next[e] \in Nat
      /\ Active(e) /\ next[e] >= 1
  <2>1. cur = e /\ disp[e] = "running"
    BY DEF Call, At, BusInv, BusTypeOK
  <2> QED BY <2>1 DEF BusInv, BusTypeOK, Active, Progress
<1>2. /\ file' = file \/ file' = Append(file, e)
      /\ audit # "open" => file' = file
  BY DEF Call, Record
<1>3. closed => audit # "open"
  BY DEF BusInv, Recording
<1>4. CASE next[e] = 1
  <2>1. file' = Append(file, e)
    BY <1>1, <1>4, FirstCall
  <2>2. e \in ToSet(file')
    <3>1. /\ Len(file) + 1 \in DOMAIN file' /\ file'[Len(file) + 1] = e
      BY <1>1, <2>1, AppendProperties
    <3> QED BY <3>1 DEF ToSet
  <2>3. ASSUME NEW x \in Stoppers, e = StoppedOf(x)
        PROVE  Before(StoppingOf(x), StoppedOf(x))'
    <3>1. disp[StoppingOf(x)] = "done"
      BY <1>1, <2>3 DEF FileInv, Announced
    <3>2. StoppingOf(x) \in ToSet(file)
      BY <3>1 DEF FileInv, Filed
    <3>3. Before(StoppingOf(x), e)'
      BY <1>1, <2>1, <3>2, AppendedLast
    <3> QED BY <2>3, <3>3 DEF Before
  <2> QED BY <1>2, <1>3, <2>2, <2>3
<1>5. CASE next[e] > 1
  <2>1. e \in ToSet(file)
    BY <1>1, <1>5 DEF FileInv, Filed
  <2>2. e \in ToSet(file')
    BY <1>1, <1>2, <2>1, Grown
  <2>3. ASSUME NEW x \in Stoppers, e = StoppedOf(x)
        PROVE  Before(StoppingOf(x), StoppedOf(x))'
    <3>1. Before(StoppingOf(x), StoppedOf(x))
      BY <2>1, <2>3 DEF FileInv
    <3> QED BY <1>1, <1>2, <3>1, Grown
  <2> QED BY <1>2, <1>3, <2>2, <2>3
<1> QED BY <1>1, <1>4, <1>5

(* A dispatch goes on: those of the others, and the runtime, stay.         *)
LEMMA DispatchFile ==
    ASSUME BusInv, StopInv, FileInv, NEW e \in Events,
           UNCHANGED <<state, at, audit>>, closed' = closed,
           file' = file \/ file' = Append(file, e),
           disp[e] # "new", disp'[e] # "new",
           \A d \in Events : d # e => disp'[d] = disp[d] /\ next'[d] = next[d],
           Filed(e)', \A x \in Stoppers : Announced(x)',
           \A x \in Stoppers : e = StoppedOf(x) /\ e \in ToSet(file') =>
              Before(StoppingOf(x), StoppedOf(x))',
           closed => file' = file
    PROVE  FileInv'
<1> USE BusConstants, CallsOf
<1> DEFINE s == <<Starter, "started">>
<1>1. file \in Seq(Events)
  BY DEF BusInv, BusTypeOK
<1>2. /\ \A d \in Events : d \in ToSet(file) => d \in ToSet(file')
      /\ \A d \in Events : d \in ToSet(file') => d \in ToSet(file) \/ d = e
      /\ \A c, d \in Events : Before(c, d) => Before(c, d)'
  BY <1>1, Grown
<1>3. ASSUME NEW d \in Events, d # e PROVE Filed(d)'
  BY <1>2, <1>3 DEF FileInv, Filed, Active
<1>4. ASSUME NEW x \in Stoppers, StoppedOf(x) \in ToSet(file')
      PROVE  Before(StoppingOf(x), StoppedOf(x))'
  BY <1>2, <1>4 DEF FileInv
<1>5. s \in Events
  OBVIOUS
<1> HIDE DEF s
<1>6. disp'[s] # "new" => at'[Starter] > Len(StartOrder)
  BY <1>5 DEF FileInv, s
<1>7. closed' /\ s \in ToSet(file)' => TellsTheEnd'
  <2>1. ASSUME closed, TellsTheEnd PROVE TellsTheEnd'
    BY <1>2, <2>1 DEF TellsTheEnd
  <2> QED BY <2>1 DEF FileInv, s
<1>8. state' = "stopped" => closed'
  BY DEF FileInv
<1> QED BY <1>3, <1>4, <1>6, <1>7, <1>8 DEF FileInv, s

LEMMA TurnFile ==
    ASSUME BusInv, StopInv, FileInv, BusStep
    PROVE  FileInv'
<1> USE BusConstants, CallsOf, Constants
<1>1. /\ disp \in [Events -> Phases] /\ next \in [Events -> Nat] /\ file \in Seq(Events)
      /\ \A e \in Events : cur = e <=> disp[e] = "running"
  BY DEF BusInv, BusTypeOK
<1>2. UNCHANGED <<state, at>>
  BY DEF BusStep
<1>3. \A x \in Stoppers : Announced(x)
  BY DEF FileInv
<1>4. CASE TakeReady
  <2>1. PICK n : n = Head(ready)
    OBVIOUS
  <2>2. /\ cur = NoOne /\ ready # <<>> /\ (IF closed THEN Drop(n) ELSE Begin(n))
        /\ UNCHANGED <<file, audit>> /\ closed' = closed
    BY <1>4, <2>1 DEF TakeReady
  <2>3. n \in Notes /\ n \in ToSet(ready)
    BY <2>1, <2>2, Taken DEF BusInv, BusTypeOK
  <2>4. n \in Events /\ disp[n] = "ready" /\ n \notin Calls
    BY <2>3 DEF BusInv, BusTypeOK
  <2>5. /\ disp'[n] \in {"dropped", "running"} /\ cur' \in {cur, n}
        /\ \A d \in Events : d # n => disp'[d] = disp[d] /\ next'[d] = next[d]
    BY <1>1, <2>2, <2>4 DEF Drop, Begin
  <2>6. Filed(n)'
    <3>1. CASE closed
      BY <1>1, <2>2, <2>4, <3>1 DEF Drop, Filed, Active
    <3>2. CASE ~closed
      BY <1>4, <2>2, <2>4, <3>2, BeginFile, TakeReadyStep
    <3> QED BY <3>1, <3>2
  <2>7. \A x \in Stoppers : Announced(x)'
    BY <1>2, <1>3, <2>2, <2>4, <2>5, AnnouncedStays
  <2>8. \A x \in Stoppers : n # StoppedOf(x)
    BY <2>4
  <2> QED BY <1>2, <2>2, <2>4, <2>5, <2>6, <2>7, <2>8, DispatchFile
<1>5. ASSUME NEW e \in Events, Skip(e) PROVE FileInv'
  <2>1. /\ cur = e /\ UNCHANGED <<cur, disp, file, audit>> /\ closed' = closed
        /\ next' = [next EXCEPT ![e] = next[e] + 1]
    BY <1>5 DEF Skip, At
  <2>2. disp[e] = "running" /\ Active(e) /\ next[e] >= 1
    BY <1>1, <2>1 DEF BusInv, BusTypeOK, Progress, Active
  <2>3. next[e] # 1
    BY <1>5, <2>2, FirstCall
  <2>4. next'[e] # 1 /\ \A d \in Events : d # e => next'[d] = next[d]
    BY <1>1, <2>1, <2>2
  <2>5. e \in ToSet(file)
    BY <2>2, <2>3 DEF FileInv, Filed
  <2>6. Filed(e)'
    BY <2>1, <2>2, <2>4, <2>5 DEF Filed, Active
  <2>7. \A x \in Stoppers : Announced(x)'
    BY <1>2, <1>3, <2>1, AnnouncedStays
  <2>8. \A x \in Stoppers : e = StoppedOf(x) => Before(StoppingOf(x), StoppedOf(x))'
    BY <2>1, <2>5 DEF FileInv, Before
  <2> QED BY <1>2, <2>1, <2>2, <2>4, <2>6, <2>7, <2>8, DispatchFile
<1>6. ASSUME NEW e \in Events, Call(e) PROVE FileInv'
  <2>1. /\ cur = e /\ UNCHANGED <<cur, disp, audit>> /\ closed' = closed
        /\ next' = [next EXCEPT ![e] = next[e] + 1]
    BY <1>6 DEF Call, At
  <2>2. disp[e] = "running" /\ Active(e) /\ next[e] >= 1
    BY <1>1, <2>1 DEF BusInv, BusTypeOK, Progress, Active
  <2>3. next'[e] # 1 /\ \A d \in Events : d # e => next'[d] = next[d]
    BY <1>1, <2>1, <2>2
  <2>4. /\ file' = file \/ file' = Append(file, e)
        /\ e \in ToSet(file')
        /\ \A x \in Stoppers : e = StoppedOf(x) => Before(StoppingOf(x), StoppedOf(x))'
        /\ closed => file' = file
    BY <1>6, CallFile
  <2>5. Filed(e)'
    BY <2>1, <2>2, <2>3, <2>4 DEF Filed, Active
  <2>6. \A x \in Stoppers : Announced(x)'
    BY <1>2, <1>3, <2>1, AnnouncedStays
  <2> QED BY <1>2, <2>1, <2>2, <2>3, <2>4, <2>5, <2>6, DispatchFile
<1>7. ASSUME NEW e \in Events, Wait(e) PROVE FileInv'
  <2>1. /\ cur = e /\ cur' = NoOne /\ UNCHANGED <<file, audit>> /\ closed' = closed
        /\ disp' = [disp EXCEPT ![e] = "parked"]
        /\ next' = [next EXCEPT ![e] = next[e] + 1]
    BY <1>7 DEF Wait, At
  <2>2. disp[e] = "running" /\ Active(e) /\ next[e] >= 1
    BY <1>1, <2>1 DEF BusInv, BusTypeOK, Progress, Active
  <2>3. next[e] # 1
    BY <1>7, <2>2, FirstCall
  <2>4. /\ next'[e] # 1 /\ disp'[e] = "parked"
        /\ \A d \in Events : d # e => disp'[d] = disp[d] /\ next'[d] = next[d]
    BY <1>1, <2>1, <2>2
  <2>5. e \in ToSet(file)
    BY <2>2, <2>3 DEF FileInv, Filed
  <2>6. Filed(e)' /\ Active(e)'
    BY <2>1, <2>4, <2>5 DEF Filed, Active
  <2>7. \A x \in Stoppers : Announced(x)'
    BY <1>2, <1>3, <2>1, <2>2, <2>4, <2>6, AnnouncedStays
  <2>8. \A x \in Stoppers : e = StoppedOf(x) => Before(StoppingOf(x), StoppedOf(x))'
    BY <2>1, <2>5 DEF FileInv, Before
  <2> QED BY <1>2, <2>1, <2>2, <2>4, <2>6, <2>7, <2>8, DispatchFile
<1>8. ASSUME NEW e \in Events, Resume(e) PROVE FileInv'
  <2>1. /\ cur = NoOne /\ cur' = e /\ UNCHANGED <<file, audit, next>> /\ closed' = closed
        /\ disp[e] = "parked" /\ disp' = [disp EXCEPT ![e] = "running"]
    BY <1>8 DEF Resume
  <2>2. disp'[e] = "running" /\ \A d \in Events : d # e => disp'[d] = disp[d]
    BY <1>1, <2>1
  <2>3. Active(e) /\ next[e] # 1
    BY <2>1 DEF BusInv, Progress, Active
  <2>4. e \in ToSet(file)
    BY <2>3 DEF FileInv, Filed
  <2>5. Filed(e)' /\ Active(e)'
    BY <2>1, <2>2, <2>3, <2>4 DEF Filed, Active
  <2>6. \A x \in Stoppers : Announced(x)'
    BY <1>2, <1>3, <2>1, <2>2, <2>3, <2>5, AnnouncedStays
  <2>7. \A x \in Stoppers : e = StoppedOf(x) => Before(StoppingOf(x), StoppedOf(x))'
    BY <2>1, <2>4 DEF FileInv, Before
  <2> QED BY <1>2, <2>1, <2>2, <2>5, <2>6, <2>7, DispatchFile
<1>9. ASSUME NEW e \in Events, Return(e) PROVE FileInv'
  <2>1. /\ cur = e /\ cur' = e[1] /\ UNCHANGED <<file, audit>> /\ closed' = closed
        /\ disp' = [disp EXCEPT ![e] = "done"] /\ next' = [next EXCEPT ![e] = 0]
    BY <1>9 DEF Return
  <2>2. disp[e] = "running" /\ Active(e)
    BY <1>1, <2>1 DEF Active
  <2>3. next[e] # 1
    BY <1>9, <2>2, FirstCall
  <2>4. /\ disp'[e] = "done"
        /\ \A d \in Events : d # e => disp'[d] = disp[d] /\ next'[d] = next[d]
    BY <1>1, <2>1, <2>2
  <2>5. e \in ToSet(file)
    BY <2>2, <2>3 DEF FileInv, Filed
  <2>6. Filed(e)'
    BY <2>1, <2>4, <2>5 DEF Filed, Active
  <2>7. ASSUME NEW x \in Stoppers PROVE Announced(x)'
    <3>1. StoppingOf(x) # StoppedOf(x) /\ Announced(x) /\ at'[x] = at[x]
      BY <1>2, <1>3 DEF StoppingOf, StoppedOf
    <3>2. CASE e = StoppingOf(x)
      BY <2>1, <2>2, <2>4, <3>1, <3>2 DEF Announced, Active
    <3>3. CASE e = StoppedOf(x)
      BY <2>1, <2>2, <2>4, <3>1, <3>3 DEF Announced, Active
    <3>4. CASE e # StoppingOf(x) /\ e # StoppedOf(x)
      <4>1. e[1] # x
        <5>1. CASE e \in Notes
          BY <5>1
        <5>2. CASE e \in Calls
          BY <3>4, <5>2, CallersAssumption DEF StoppingOf, StoppedOf
        <5> QED BY <5>1, <5>2
      <4> QED BY <2>1, <2>4, <3>1, <3>4, <4>1, AnnouncedStays
    <3> QED BY <3>2, <3>3, <3>4
  <2>8. \A x \in Stoppers : e = StoppedOf(x) => Before(StoppingOf(x), StoppedOf(x))'
    BY <2>1, <2>5 DEF FileInv, Before
  <2> QED BY <1>2, <2>1, <2>2, <2>4, <2>6, <2>7, <2>8, DispatchFile
<1> QED BY <1>4, <1>5, <1>6, <1>7, <1>8, <1>9 DEF BusStep, Turn

LEMMA NoteFile ==
    ASSUME BusInv, StopInv, FileInv, Note
    PROVE  FileInv'
<1> USE BusConstants, CallsOf, Constants
<1>1. /\ noted \in 0..MaxNotes /\ noted < MaxNotes /\ cur \in {NoOne, Starter}
      /\ UNCHANGED <<file, audit, state, at>> /\ closed' = closed /\ state # "created"
      /\ disp \in [Events -> Phases] /\ next \in [Events -> Nat]
  BY DEF Note, PublishNowait, BusInv, BusTypeOK, Untouched
<1>2. PICK n \in Notes : n = <<NoOne, noted + 1>>
  <2>1. noted + 1 \in 1..MaxNotes
    BY <1>1
  <2> QED BY <2>1
<1>3. n \in Events /\ disp[n] = "new"
  BY <1>1, <1>2 DEF BusInv, Fresh
<1>4. \/ closed /\ Drop(n)
      \/ ~closed /\ Begin(n)
      \/ disp' = [disp EXCEPT ![n] = "ready"] /\ UNCHANGED <<cur, next>>
  BY <1>2 DEF Note, PublishNowait
<1>5. /\ disp'[n] \in {"dropped", "running", "ready"} /\ cur' \in {cur, n}
      /\ \A d \in Events : d # n => disp'[d] = disp[d] /\ next'[d] = next[d]
  BY <1>1, <1>3, <1>4 DEF Drop, Begin
<1>6. \A d \in Events : Filed(d)'
  <2>1. CASE ~closed /\ Begin(n)
    BY <1>1, <1>3, <2>1, BeginFile
  <2>2. ASSUME NEW d \in Events, disp'[n] # "running" PROVE Filed(d)'
    <3>1. n \notin ToSet(file)
      BY <1>3 DEF FileInv, Filed
    <3>2. CASE d = n
      BY <1>1, <1>5, <2>2, <3>1, <3>2 DEF Filed, Active
    <3>3. CASE d # n
      BY <1>1, <1>5, <3>3 DEF FileInv, Filed, Active
    <3> QED BY <3>2, <3>3
  <2> QED BY <1>1, <1>3, <1>4, <2>1, <2>2 DEF Drop
<1>7. \A x \in Stoppers : Announced(x)'
  BY <1>1, <1>2, <1>5, AnnouncedStays DEF FileInv
<1>8. disp'[<<Starter, "started">>] = disp[<<Starter, "started">>]
  BY <1>2, <1>5
<1> QED BY <1>1, <1>6, <1>7, <1>8 DEF FileInv, Before, TellsTheEnd

LEMMA LoopFile ==
    ASSUME BusInv, StopInv, FileInv, Loop \/ Client \/ UNCHANGED vars
    PROVE  FileInv'
<1> USE BusConstants, CallsOf, Constants
<1>1. \A x \in Stoppers : Announced(x)
  BY DEF FileInv
<1>2. CASE (LoopStarts /\ UNCHANGED <<state, at>>) \/ Client \/ UNCHANGED vars
  <2>1. UNCHANGED <<file, disp, next, cur, audit, state, at>> /\ closed' = closed
    <3>1. CASE LoopStarts /\ UNCHANGED <<state, at>>
      BY <3>1 DEF LoopStarts, dispatchVars
    <3>2. CASE Client
      BY <3>2 DEF Client, Subscribe, Unsubscribe, dispatchVars
    <3> QED BY <1>2, <3>1, <3>2 DEF vars, busVars, dispatchVars
  <2>2. \A x \in Stoppers : Announced(x)'
    BY <1>1, <2>1, AnnouncedStays
  <2> QED BY <2>1, <2>2, FileStays DEF FileInv
<1>3. CASE LoopEnds /\ UNCHANGED <<state, at>>
  <2>1. /\ cur = NoOne /\ UNCHANGED <<cur, file, audit, state, at>> /\ closed' = closed
        /\ \A c \in Calls : disp[c] # "parked"
        /\ disp' = [e \in Events |-> IF disp[e] \in {"ready", "parked"} THEN "cut" ELSE disp[e]]
    BY <1>3 DEF LoopEnds
  <2>2. \A e \in Events : ~Active(e)' /\ disp[e] # "running"
    BY <2>1 DEF BusInv, BusTypeOK, Active
  <2>3. ASSUME NEW e \in Events PROVE Filed(e)'
    BY <2>1, <2>2 DEF FileInv, Filed
  <2>4. ASSUME NEW x \in Stoppers PROVE Announced(x)'
    BY <1>1, <2>1, <2>2 DEF Announced, Active
  <2>5. disp'[<<Starter, "started">>] # "new" => disp[<<Starter, "started">>] # "new"
    BY <2>1
  <2> QED BY <2>1, <2>3, <2>4, <2>5 DEF FileInv, Before, TellsTheEnd
<1> QED BY <1>2, <1>3 DEF Loop

-----------------------------------------------------------------------------
(* The theorems *)

RuntimeInv == BusInv /\ StopInv /\ FileInv

LEMMA InitRuntime == Init => RuntimeInv
<1> SUFFICES ASSUME Init PROVE BusInv /\ FileInv
  BY InitStop DEF RuntimeInv
<1> USE BusConstants, CallsOf, Constants, Orders
<1>1. /\ loop = FALSE /\ cur = NoOne /\ ready = <<>> /\ subs = <<>> /\ closed = FALSE
      /\ disp = [e \in Events |-> "new"] /\ list = [e \in Events |-> <<>>]
      /\ next = [e \in Events |-> 0] /\ noted = 0 /\ owed = [e \in Events |-> {}]
      /\ told = [e \in Events |-> <<>>] /\ file = <<>> /\ audit = "none"
      /\ state = "created" /\ service = [s \in Services |-> "none"]
      /\ at = [x \in Callers |-> 0]
  BY DEF Init, BusInit, Idle
<1>2. ToSet(<<>>) = {} /\ IsInjective(<<>>)
  BY DEF ToSet, IsInjective
<1>3. \A e \in Events : disp[e] = "new" /\ ~Active(e) /\ told[e] = <<>>
  BY <1>1 DEF Active
<1>4. BusTypeOK
  <2>1. /\ list \in [Events -> Seq(Subs)] /\ next \in [Events -> Nat]
        /\ owed \in [Events -> SUBSET Nat] /\ told \in [Events -> Seq(Nat)]
    BY <1>1
  <2>2. /\ ready \in Seq(Notes) /\ subs \in Seq(Subs) /\ file \in Seq(Events)
        /\ disp \in [Events -> Phases]
    BY <1>1 DEF Phases
  <2>3. \A e \in Events : (cur = e) <=> (disp[e] = "running")
    BY <1>1, <1>3
  <2>4. \A n \in Notes : (disp[n] = "ready") <=> (n \in ToSet(ready))
    BY <1>1, <1>2, <1>3
  <2>5. noted \in 0..MaxNotes
    BY <1>1
  <2>6. \A e \in Events : disp[e] \notin {"ready", "parked"}
    BY <1>3
  <2> QED BY <1>1, <1>2, <2>1, <2>2, <2>3, <2>4, <2>5, <2>6 DEF BusTypeOK
<1>5. BusInv
  BY <1>1, <1>3, <1>4 DEF BusInv, Fresh, Progress, Recording, Untouched, Idle
<1>6. \A e \in Events : Filed(e)
  BY <1>1, <1>2, <1>3 DEF Filed
<1>7. \A x \in Stoppers : Announced(x)
  BY <1>1, <1>3 DEF Announced
<1> QED BY <1>1, <1>2, <1>3, <1>5, <1>6, <1>7 DEF FileInv

LEMMA StepKeepsRuntime == RuntimeInv /\ [Next]_vars => RuntimeInv'
<1> SUFFICES ASSUME BusInv, StopInv, FileInv, [Next]_vars PROVE RuntimeInv'
  BY DEF RuntimeInv
<1>1. StopInv'
  BY StepKeeps
<1>2. BusInv'
  BY StepKeepsBus, StepKeepsRecording, StepKeepsUntouched DEF BusInv
<1>3. FileInv'
  BY StartFile, StopFile, NoteFile, TurnFile, LoopFile DEF Next
<1> QED BY <1>1, <1>2, <1>3 DEF RuntimeInv

THEOREM RuntimeInvariant == Spec => []RuntimeInv
BY InitRuntime, StepKeepsRuntime, PTL DEF Spec

(* However many stop calls there are, whatever they overtake, and whoever  *)
(* waits on the bus meanwhile: the audit file of a runtime that announced  *)
(* that it was up and is stopped has RuntimeStopping and, after it,        *)
(* RuntimeStopped (Runtime.stop, AuditLog.write).                          *)
THEOREM EndIsFiled == Spec => []FileTellsTheEnd
<1>1. RuntimeInv => FileTellsTheEnd
  <2> SUFFICES ASSUME FileInv, state = "stopped", <<Starter, "started">> \in ToSet(file)
               PROVE  \E i, j \in DOMAIN file :
                        i < j /\ file[i] \in Ends("stopping") /\ file[j] \in Ends("stopped")
    BY DEF RuntimeInv, FileTellsTheEnd
  <2>1. PICK x \in Stoppers : Before(StoppingOf(x), StoppedOf(x))
    BY DEF FileInv, TellsTheEnd
  <2>2. StoppingOf(x) \in Ends("stopping") /\ StoppedOf(x) \in Ends("stopped")
    BY DEF Ends, StoppingOf, StoppedOf
  <2> QED BY <2>1, <2>2 DEF Before
<1>2. Spec => []RuntimeInv
  BY RuntimeInvariant
<1> QED BY <1>1, <1>2, PTL

(* The step that ends a dispatch finds its list at the end.                *)
LEMMA StepTells ==
    ASSUME RuntimeInv, [Next]_vars, NEW e \in Events, disp[e] # "done", disp'[e] = "done"
    PROVE  ToldEach(e)
<1> USE BusConstants, CallsOf, Constants
<1>1. BusInv /\ disp \in [Events -> Phases]
  BY DEF RuntimeInv, BusInv, BusTypeOK
<1>2. disp' # disp
  OBVIOUS
<1>3. ~UNCHANGED vars
  BY <1>2 DEF vars, busVars, dispatchVars
<1>4. ~Start
  <2>1. CASE AnnounceStarted
    BY <1>1, <2>1 DEF AnnounceStarted, Publish, Begin
  <2> QED BY <1>2, <2>1 DEF Start, StartBegin, StartImpossible, StartService, StartFails,
                            StartDone, Close, busVars, dispatchVars
<1>5. \A x \in Stoppers : ~Stop(x)
  <2> SUFFICES ASSUME NEW x \in Stoppers, Stop(x) PROVE FALSE
    OBVIOUS
  <2>1. CASE AnnounceStopping(x)
    BY <1>1, <1>2, <2>1 DEF AnnounceStopping, Publish, Begin, busVars, dispatchVars
  <2>2. CASE AnnounceStopped(x)
    BY <1>1, <2>2 DEF AnnounceStopped, Publish, Begin, Drop
  <2> QED BY <1>2, <2>1, <2>2 DEF Stop, StopBegin, StopService, StopEnd, Close, busVars,
                                  dispatchVars
<1>6. ~Note
  BY <1>1 DEF Note, PublishNowait, Begin, Drop
<1>7. ~Client /\ ~Loop
  BY <1>1, <1>2 DEF Client, Subscribe, Unsubscribe, Loop, LoopStarts, LoopEnds, dispatchVars
<1>8. PICK d \in Events : Return(d)
  <2>1. ~TakeReady
    BY <1>1 DEF TakeReady, Begin, Drop
  <2>2. ASSUME NEW d \in Events, Skip(d) \/ Call(d) \/ Wait(d) \/ Resume(d) PROVE FALSE
    BY <1>1, <2>2 DEF Skip, Call, Wait, Resume
  <2> QED BY <1>3, <1>4, <1>5, <1>6, <1>7, <2>1, <2>2 DEF Next, BusStep, Turn
<1>9. d = e
  BY <1>1, <1>8 DEF Return
<1>10. disp[e] = "running" /\ Active(e) /\ next[e] \notin DOMAIN list[e]
  BY <1>1, <1>8, <1>9 DEF Return, BusInv, BusTypeOK, Active
<1>11. /\ list[e] \in Seq(Subs) /\ next[e] \in 1..Len(list[e]) + 1
       /\ owed[e] \subseteq DOMAIN list[e]
       /\ ToSet(told[e]) = {i \in owed[e] : i < next[e]}
       /\ \A i, j \in DOMAIN told[e] : i < j => told[e][i] < told[e][j]
  BY SMTT(30), <1>1, <1>10 DEF BusInv, BusTypeOK, Progress
<1>12. next[e] = Len(list[e]) + 1
  BY <1>10, <1>11
<1>13. ToSet(told[e]) = owed[e]
  BY <1>11, <1>12
<1> QED BY <1>11, <1>13 DEF ToldEach

(* For any subscribers, type filters and number of dispatches under way,   *)
(* and whoever subscribes, unsubscribes, waits or closes the bus           *)
(* meanwhile: a dispatch ends only when it has called those it concerned   *)
(* when it began, once each and in the order they subscribed               *)
(* (EventBus.publish).                                                     *)
THEOREM DispatchComplete == Spec => EveryoneTold
<1>1. RuntimeInv /\ [Next]_vars
        => [\A e \in Events : disp[e] # "done" /\ disp'[e] = "done" => ToldEach(e)]_busVars
  BY StepTells
<1>2. Spec => []RuntimeInv
  BY RuntimeInvariant
<1> QED BY <1>1, <1>2, PTL DEF Spec, EveryoneTold

(* The runtime's own tables.                                               *)
RuntimeTypes ==
    /\ state \in States
    /\ service \in [Services -> {"none", "made", "up", "down"}]
    /\ at \in [Callers -> Idle..Finish \union {Done, Raised}]

LEMMA StepKeepsTypes == RuntimeTypes /\ [Next]_vars => RuntimeTypes'
<1> SUFFICES ASSUME RuntimeTypes, [Next]_vars PROVE RuntimeTypes'
  OBVIOUS
<1> USE Constants, Orders
<1> DEFINE Places == 0..13 \union {20, 21}
           Ups == {"none", "made", "up", "down"}
<1>1. /\ state \in States /\ service \in [Services -> Ups] /\ at \in [Callers -> Places]
  BY DEF RuntimeTypes, Idle, Done, Raised
<1>2. ASSUME state' \in States, service' \in [Services -> Ups], at' \in [Callers -> Places]
      PROVE  RuntimeTypes'
  BY <1>2 DEF RuntimeTypes, Idle, Done, Raised
<1>3. CASE UNCHANGED <<state, service, at>>
  BY <1>1, <1>2, <1>3
<1>4. CASE Start
  <2>1. state' \in States
    BY <1>1, <1>4 DEF Start, StartBegin, StartImpossible, StartService, StartFails,
                      AnnounceStarted, StartDone, States
  <2>2. service' \in [Services -> Ups]
    <3>1. CASE StartService
      BY <1>1, <3>1 DEF StartService
    <3>2. CASE StartFails
      BY <1>1, <3>2 DEF StartFails
    <3> QED BY <1>1, <1>4, <3>1, <3>2 DEF Start, StartBegin, StartImpossible,
                                          AnnounceStarted, StartDone
  <2>3. at' \in [Callers -> Places]
    <3>1. CASE StartService
      BY <1>1, <3>1 DEF StartService
    <3>2. CASE StartBegin \/ StartImpossible \/ StartFails \/ StartDone
      <4>1. \E n \in {1, 20} : at' = [at EXCEPT ![Starter] = n]
        BY <3>2 DEF StartBegin, StartImpossible, StartFails, StartDone, Done
      <4> QED BY <1>1, <4>1
    <3> QED BY <1>1, <1>4, <3>1, <3>2 DEF Start, AnnounceStarted
  <2> QED BY <1>2, <2>1, <2>2, <2>3
<1>5. ASSUME NEW x \in Stoppers, Stop(x) PROVE RuntimeTypes'
  <2>1. state' \in States
    BY <1>1, <1>5 DEF Stop, StopBegin, StopService, AnnounceStopping, AnnounceStopped,
                      StopEnd, States
  <2>2. service' \in [Services -> Ups]
    <3>1. CASE StopService(x)
      BY <1>1, <3>1 DEF StopService
    <3> QED BY <1>1, <1>5, <3>1 DEF Stop, StopBegin, AnnounceStopping, AnnounceStopped, StopEnd
  <2>3. at' \in [Callers -> Places]
    <3>1. CASE StopService(x)
      BY <1>1, <3>1 DEF StopService
    <3>2. CASE ~StopService(x)
      <4>1. \E n \in {1, 12, 13, 20, 21} : at' = [at EXCEPT ![x] = n]
        <5>1. CASE StopBegin(x)
          BY <5>1 DEF StopBegin, Done
        <5>2. CASE AnnounceStopping(x)
          BY <5>2 DEF AnnounceStopping
        <5>3. CASE AnnounceStopped(x)
          <6>1. at' = [at EXCEPT ![x] = Finish]
            BY <5>3 DEF AnnounceStopped
          <6> QED BY <6>1
        <5>4. CASE StopEnd(x)
          <6>1. at' = [at EXCEPT ![x] = Done] \/ at' = [at EXCEPT ![x] = Raised]
            BY <5>4 DEF StopEnd
          <6> QED BY <6>1 DEF Done, Raised
        <5> QED BY <1>5, <3>2, <5>1, <5>2, <5>3, <5>4 DEF Stop
      <4> QED BY <1>1, <4>1
    <3> QED BY <3>1, <3>2
  <2> QED BY <1>2, <2>1, <2>2, <2>3
<1> QED BY <1>3, <1>4, <1>5 DEF Next, Note, Client, BusStep, Loop, vars

(* The tables of the bus and the runtime hold what they are meant to.      *)
THEOREM RuntimeTypeCorrect == Spec => []TypeOK
<1>1. Init => RuntimeTypes
  BY Orders DEF Init, RuntimeTypes, States, Idle, Done, Raised
<1>2. RuntimeInv /\ RuntimeTypes => TypeOK
  BY DEF RuntimeInv, BusInv, RuntimeTypes, TypeOK
<1>3. Spec => []RuntimeInv
  BY RuntimeInvariant
<1> QED BY <1>1, <1>2, <1>3, StepKeepsTypes, PTL DEF Spec

-----------------------------------------------------------------------------
(* The order of the file *)

(* The dispatch of a note that has begun and not yet called the recorder.  *)
Filing(n) == disp[n] = "running" /\ next[n] = 1

(* The notes in the file, the one being filed and those in the queue come  *)
(* in the order in which they were published; no list has the recorder     *)
(* twice.                                                                  *)
OrderInv ==
    /\ \A i \in DOMAIN ready : ready[i][2] <= noted
    /\ \A i, j \in DOMAIN ready : i < j => ready[i][2] < ready[j][2]
    /\ \A m \in Notes : Filing(m) =>
          m[2] <= noted /\ \A j \in DOMAIN ready : m[2] < ready[j][2]
    /\ \A i \in DOMAIN file : file[i] \in Notes =>
          /\ file[i][2] <= noted
          /\ \A j \in DOMAIN ready : file[i][2] < ready[j][2]
          /\ \A m \in Notes : Filing(m) => file[i][2] < m[2]
    /\ FileInOrder
    /\ \A e \in Events : IsInjective(list[e])

LEMMA OrderStays ==
    ASSUME OrderInv, UNCHANGED <<file, ready, noted>>,
           \A m \in Notes : Filing(m)' => Filing(m),
           \A e \in Events : IsInjective(list[e])'
    PROVE  OrderInv'
BY DEF OrderInv, FileInOrder

(* A dispatch that goes on is past the recorder, unless it files its note. *)
LEMMA OrderInTurn ==
    ASSUME BusInv, FileInv, OrderInv, NEW e \in Events, Skip(e) \/ Call(e) \/ Wait(e)
    PROVE  OrderInv'
<1> USE BusConstants
<1>1. /\ cur = e /\ next' = [next EXCEPT ![e] = next[e] + 1] /\ next[e] \in DOMAIN list[e]
      /\ list' = list /\ UNCHANGED <<ready, noted>>
  BY DEF Skip, Call, Wait, At
<1>2. /\ disp \in [Events -> Phases] /\ next \in [Events -> Nat] /\ list \in [Events -> Seq(Subs)]
      /\ file \in Seq(Events) /\ ready \in Seq(Notes) /\ noted \in Nat
      /\ \A d \in Events : disp[d] = "running" => d = e
      /\ disp[e] = "running"
  BY SMTT(30), <1>1 DEF BusInv, BusTypeOK
<1>3. list[e][1] = Recorder /\ next[e] >= 1 /\ 1 \in DOMAIN list[e]
  BY <1>2 DEF BusInv, Progress, Active
<1>4. \A d \in Events : IsInjective(list[d])'
  BY <1>1 DEF OrderInv
<1>5. \A m \in Notes : ~Filing(m)'
  <2>1. \A d \in Events : disp'[d] = "running" => d = e
    BY <1>2 DEF Skip, Call, Wait
  <2>2. next'[e] # 1
    BY <1>1, <1>2, <1>3
  <2> QED BY <2>1, <2>2 DEF Filing
<1>6. CASE file' = file
  BY <1>1, <1>4, <1>5, <1>6, OrderStays
<1>7. CASE file' # file
  <2>1. Call(e) /\ file' = Append(file, e)
    BY <1>7 DEF Skip, Call, Wait, Record
  <2>2. list[e][next[e]] = Recorder
    BY <1>7, <2>1 DEF Call, Record
  <2>3. next[e] = 1
    BY <1>1, <1>3, <2>2 DEF OrderInv, IsInjective
  <2>4. /\ DOMAIN file' = 1..Len(file) + 1 /\ DOMAIN file = 1..Len(file) /\ Len(file) \in Nat
        /\ file'[Len(file) + 1] = e
        /\ \A i \in 1..Len(file) : file'[i] = file[i]
    BY <1>2, <2>1, AppendProperties
  <2>5. e \in Notes => Filing(e)
    BY <1>2, <2>3 DEF Filing
  <2>6. ASSUME NEW i \in DOMAIN file', file'[i] \in Notes
        PROVE  /\ file'[i][2] <= noted'
               /\ \A j \in DOMAIN ready' : file'[i][2] < ready'[j][2]
    <3>1. CASE i \in 1..Len(file)
      BY <1>1, <2>4, <2>6, <3>1 DEF OrderInv
    <3>2. CASE i = Len(file) + 1
      BY <1>1, <2>4, <2>5, <2>6, <3>2 DEF OrderInv
    <3> QED BY <2>4, <3>1, <3>2
  <2>7. ASSUME NEW i \in DOMAIN file', NEW j \in DOMAIN file', i < j,
               {file'[i], file'[j]} \subseteq Notes
        PROVE  file'[i][2] < file'[j][2]
    <3>1. i \in 1..Len(file)
      BY <2>4, <2>7
    <3>2. CASE j \in 1..Len(file)
      BY <2>4, <2>7, <3>1, <3>2 DEF OrderInv, FileInOrder
    <3>3. CASE j = Len(file) + 1
      BY <2>4, <2>5, <2>7, <3>1, <3>3 DEF OrderInv
    <3> QED BY <2>4, <3>2, <3>3
  <2> QED BY <1>1, <1>4, <1>5, <2>6, <2>7 DEF OrderInv, FileInOrder
<1> QED BY <1>6, <1>7

LEMMA OrderInNote ==
    ASSUME BusInv, OrderInv, PublishNowait, cur \in Callers \union {NoOne}
    PROVE  OrderInv'
<1> USE BusConstants
<1>1. /\ noted \in 0..MaxNotes /\ noted < MaxNotes /\ noted' = noted + 1
      /\ file' = file /\ disp \in [Events -> Phases] /\ next \in [Events -> Nat]
      /\ list \in [Events -> Seq(Subs)] /\ ready \in Seq(Notes) /\ file \in Seq(Events)
      /\ IsInjective(subs)
  BY DEF PublishNowait, BusInv, BusTypeOK
<1>2. PICK n \in Notes : n = <<NoOne, noted + 1>>
  <2>1. noted + 1 \in 1..MaxNotes
    BY <1>1
  <2> QED BY <2>1
<1>3. \A m \in Notes : ~Filing(m)
  BY DEF Filing, BusInv, BusTypeOK
<1>4. \A m \in Notes : m[2] \in Nat
  BY DEF Notes
<1>5. /\ \A i \in DOMAIN ready : ready[i] \in Notes /\ ready[i][2] \in Nat /\ ready[i][2] < n[2]
      /\ \A i \in DOMAIN file : file[i] \in Notes => file[i][2] < n[2]
      /\ n[2] = noted' /\ noted \in Nat /\ noted' \in Nat /\ noted <= noted'
  <2>1. /\ n[2] = noted + 1 /\ noted \in Nat
        /\ \A i \in DOMAIN ready : ready[i] \in Notes
    BY <1>1, <1>2
  <2>2. \A i \in DOMAIN ready : ready[i][2] \in Nat /\ ready[i][2] <= noted
    BY <1>4, <2>1 DEF OrderInv
  <2>3. \A i \in DOMAIN file : file[i] \in Notes => file[i][2] \in Nat /\ file[i][2] <= noted
    BY <1>4 DEF OrderInv
  <2> QED BY SMTT(30), <1>1, <2>1, <2>2, <2>3
<1>6. CASE closed /\ Drop(n) /\ UNCHANGED ready
  <2>1. \A m \in Notes : ~Filing(m)'
    BY <1>1, <1>3, <1>6 DEF Drop, Filing
  <2>2. \A e \in Events : IsInjective(list[e])'
    BY <1>6 DEF Drop, OrderInv
  <2>3. /\ \A i \in DOMAIN ready : ready[i][2] <= noted'
        /\ \A i \in DOMAIN file : file[i] \in Notes => file[i][2] <= noted'
    BY <1>4, <1>5
  <2> QED BY <1>1, <1>6, <2>1, <2>2, <2>3 DEF OrderInv, FileInOrder
<1>7. CASE ~loop /\ Begin(n) /\ UNCHANGED ready
  <2>1. DOMAIN ready = {}
    BY SMTT(30), <1>1, <1>7 DEF BusInv, BusTypeOK, ToSet
  <2>2. \A m \in Notes : Filing(m)' => m = n
    BY <1>1, <1>3, <1>7 DEF Begin, Filing, BusInv, BusTypeOK
  <2>3. \A e \in Events : IsInjective(list[e])'
    BY <1>1, <1>7 DEF Begin, OrderInv
  <2>4. /\ \A i \in DOMAIN file' : file'[i] \in Notes => file'[i][2] <= noted'
        /\ noted' \in Nat
    BY <1>1, <1>4, <1>5
  <2> QED BY <1>1, <1>4, <1>5, <1>7, <2>1, <2>2, <2>3, <2>4 DEF OrderInv, FileInOrder
<1>8. CASE /\ disp' = [disp EXCEPT ![n] = "ready"]
           /\ ready' = Append(ready, n)
           /\ UNCHANGED <<cur, list, next, owed, told>>
  <2>1. \A m \in Notes : ~Filing(m)'
    BY <1>1, <1>3, <1>8 DEF Filing
  <2>2. \A e \in Events : IsInjective(list[e])'
    BY <1>8 DEF OrderInv
  <2>3. /\ DOMAIN ready' = 1..Len(ready) + 1 /\ DOMAIN ready = 1..Len(ready)
        /\ Len(ready) \in Nat /\ ready'[Len(ready) + 1] = n
        /\ \A i \in 1..Len(ready) : ready'[i] = ready[i]
    BY <1>1, <1>8, AppendProperties
  <2>4. ASSUME NEW i \in DOMAIN ready', NEW j \in DOMAIN ready', i < j
        PROVE  ready'[i][2] < ready'[j][2]
    <3>1. i \in 1..Len(ready)
      BY <2>3, <2>4
    <3>2. CASE j \in 1..Len(ready)
      BY <2>3, <2>4, <3>1, <3>2 DEF OrderInv
    <3>3. CASE j = Len(ready) + 1
      BY <1>5, <2>3, <3>1, <3>3
    <3> QED BY <2>3, <3>2, <3>3
  <2>5. ASSUME NEW i \in DOMAIN ready' PROVE ready'[i][2] <= noted'
    <3>1. CASE i \in 1..Len(ready)
      BY <1>5, <2>3, <3>1
    <3>2. CASE i = Len(ready) + 1
      BY <1>5, <2>3, <3>2
    <3> QED BY <2>3, <2>5, <3>1, <3>2
  <2>6. ASSUME NEW i \in DOMAIN file', file'[i] \in Notes
        PROVE  /\ file'[i][2] <= noted'
               /\ \A j \in DOMAIN ready' : file'[i][2] < ready'[j][2]
    <3>1. file'[i][2] < n[2] /\ \A j \in DOMAIN ready : file'[i][2] < ready[j][2]
      BY <1>1, <1>5, <2>6 DEF OrderInv
    <3>2. file'[i][2] <= noted'
      BY <1>1, <1>4, <1>5, <2>6
    <3>3. ASSUME NEW j \in DOMAIN ready' PROVE file'[i][2] < ready'[j][2]
      <4>1. CASE j \in 1..Len(ready)
        BY <2>3, <3>1, <4>1
      <4>2. CASE j = Len(ready) + 1
        BY <2>3, <3>1, <4>2
      <4> QED BY <2>3, <3>3, <4>1, <4>2
    <3> QED BY <3>2, <3>3
  <2> QED BY <1>1, <2>1, <2>2, <2>4, <2>5, <2>6 DEF OrderInv, FileInOrder
<1> QED BY <1>2, <1>6, <1>7, <1>8 DEF PublishNowait

LEMMA OrderInTake ==
    ASSUME BusInv, OrderInv, TakeReady
    PROVE  OrderInv'
<1> USE BusConstants
<1>1. PICK n : n = Head(ready)
  OBVIOUS
<1>2. /\ cur = NoOne /\ ready # <<>> /\ ready' = Tail(ready)
      /\ (IF closed THEN Drop(n) ELSE Begin(n))
      /\ UNCHANGED <<file, noted>>
  BY <1>1 DEF TakeReady
<1>3. /\ ready \in Seq(Notes) /\ disp \in [Events -> Phases] /\ next \in [Events -> Nat]
      /\ list \in [Events -> Seq(Subs)] /\ IsInjective(subs)
      /\ \A e \in Events : disp[e] # "running"
  BY <1>2 DEF BusInv, BusTypeOK
<1>4. /\ n = ready[1] /\ n \in Notes /\ 1 \in DOMAIN ready
      /\ \A i \in DOMAIN ready' : /\ i + 1 \in DOMAIN ready /\ i \in Nat /\ i >= 1
                                  /\ ready'[i] = ready[i + 1]
  <2>1. n \in Notes /\ n = ready[1] /\ Len(ready) \in Nat /\ Len(ready) >= 1
    BY <1>1, <1>2, <1>3
  <2>2. /\ Tail(ready) \in Seq(Notes) /\ Len(Tail(ready)) = Len(ready) - 1
        /\ \A i \in 1..Len(ready) - 1 : Tail(ready)[i] = ready[i + 1]
    BY <1>2, <1>3, HeadTailProperties
  <2>3. DOMAIN ready' = 1..Len(ready) - 1 /\ DOMAIN ready = 1..Len(ready)
    BY <1>2, <1>3, <2>2
  <2> QED BY <1>2, <2>1, <2>2, <2>3
<1>5. \A m \in Notes : Filing(m)' => m = n
  BY <1>2, <1>3, <1>4 DEF Drop, Begin, Filing
<1>6. \A e \in Events : IsInjective(list[e])'
  BY <1>2, <1>3, <1>4 DEF Drop, Begin, OrderInv
<1>7. \A i \in DOMAIN ready' : ready'[i][2] <= noted' /\ n[2] < ready'[i][2]
  BY <1>2, <1>4 DEF OrderInv
<1>8. \A i, j \in DOMAIN ready' : i < j => ready'[i][2] < ready'[j][2]
  BY <1>4 DEF OrderInv
<1>9. n[2] <= noted'
  BY <1>2, <1>4 DEF OrderInv
<1>10. ASSUME NEW i \in DOMAIN file', file'[i] \in Notes
       PROVE  /\ file'[i][2] <= noted' /\ file'[i][2] < n[2]
              /\ \A j \in DOMAIN ready' : file'[i][2] < ready'[j][2]
  BY <1>2, <1>4, <1>10 DEF OrderInv
<1> QED BY <1>2, <1>5, <1>6, <1>7, <1>8, <1>9, <1>10 DEF OrderInv, FileInOrder

LEMMA StepKeepsOrder ==
    ASSUME RuntimeInv, OrderInv, [Next]_vars
    PROVE  OrderInv'
<1> USE BusConstants, CallsOf, Constants
<1>1. /\ BusInv /\ FileInv
      /\ disp \in [Events -> Phases] /\ next \in [Events -> Nat]
      /\ list \in [Events -> Seq(Subs)] /\ IsInjective(subs)
      /\ \A n \in Notes : n \in Events
  BY DEF RuntimeInv, BusInv, BusTypeOK
<1>2. CASE UNCHANGED <<file, ready, noted, disp, next, list>>
  BY <1>2, OrderStays DEF OrderInv, Filing
<1>3. ASSUME NEW c \in Calls, Begin(c) \/ Drop(c), UNCHANGED <<file, ready, noted>>
      PROVE  OrderInv'
  <2>1. \A n \in Notes : n # c /\ disp'[n] = disp[n] /\ next'[n] = next[n]
    BY <1>1, <1>3 DEF Begin, Drop
  <2>2. \A e \in Events : IsInjective(list[e])'
    BY <1>1, <1>3 DEF Begin, Drop, OrderInv
  <2> QED BY <1>3, <2>1, <2>2, OrderStays DEF Filing
<1>4. CASE Start
  <2>1. CASE AnnounceStarted
    BY <1>3, <2>1 DEF AnnounceStarted, Publish
  <2> QED BY <1>2, <1>4, <2>1 DEF Start, StartBegin, StartImpossible, StartService, StartFails,
                                  StartDone, Close, busVars, dispatchVars
<1>5. ASSUME NEW x \in Stoppers, Stop(x) PROVE OrderInv'
  <2>1. CASE AnnounceStopping(x)
    BY <1>2, <1>3, <2>1 DEF AnnounceStopping, Publish, busVars, dispatchVars, StoppingOf
  <2>2. CASE AnnounceStopped(x)
    BY <1>3, <2>2 DEF AnnounceStopped, Publish, StoppedOf
  <2> QED BY <1>2, <1>5, <2>1, <2>2 DEF Stop, StopBegin, StopService, StopEnd, Close, busVars,
                                        dispatchVars
<1>6. CASE Note
  BY <1>1, <1>6, OrderInNote DEF Note
<1>7. CASE BusStep
  <2>1. CASE TakeReady
    BY <1>1, <2>1, OrderInTake
  <2>2. ASSUME NEW e \in Events, Resume(e) PROVE OrderInv'
    <3>1. next[e] # 1 /\ disp' = [disp EXCEPT ![e] = "running"] /\ next' = next /\ list' = list
      BY <1>1, <2>2 DEF Resume, BusInv, Progress, Active
    <3>2. \A n \in Notes : Filing(n)' => Filing(n)
      BY <1>1, <3>1 DEF Filing
    <3> QED BY <2>2, <3>1, <3>2, OrderStays DEF Resume, OrderInv
  <2>3. ASSUME NEW e \in Events, Return(e) PROVE OrderInv'
    <3>1. \A n \in Notes : Filing(n)' => Filing(n)
      BY <1>1, <2>3 DEF Filing, Return
    <3>2. \A d \in Events : IsInjective(list[d])'
      BY <1>1, <2>3 DEF Return, OrderInv, IsInjective
    <3> QED BY <2>3, <3>1, <3>2, OrderStays DEF Return
  <2> QED BY <1>1, <1>7, <2>1, <2>2, <2>3, OrderInTurn DEF BusStep, Turn
<1>8. CASE Loop
  <2>1. CASE LoopEnds
    <3>1. \A n \in Notes : ~Filing(n)'
      BY <1>1, <2>1 DEF LoopEnds, Filing
    <3>2. \A d \in Events : IsInjective(list[d])'
      BY <2>1 DEF LoopEnds, IsInjective
    <3>3. ready' = <<>> /\ UNCHANGED <<file, noted>>
      BY <2>1 DEF LoopEnds
    <3> QED BY <3>1, <3>2, <3>3 DEF OrderInv, FileInOrder
  <2> QED BY <1>2, <1>8, <2>1 DEF Loop, LoopStarts, dispatchVars
<1>9. CASE Client \/ UNCHANGED vars
  BY <1>2, <1>9 DEF Client, Subscribe, Unsubscribe, vars, busVars, dispatchVars
<1> QED BY <1>4, <1>5, <1>6, <1>7, <1>8, <1>9 DEF Next

(* The audit file has the notes in the order in which they were published, *)
(* with a loop or without one, and however long the subscribers behind the *)
(* recorder take (EventBus.publish_nowait, AuditLog.write).                *)
THEOREM NotesFiledInOrder == Spec => []FileInOrder
<1>1. Init => OrderInv
  <2> SUFFICES ASSUME Init PROVE OrderInv
    OBVIOUS
  <2>1. /\ ready = <<>> /\ file = <<>> /\ disp = [e \in Events |-> "new"]
        /\ list = [e \in Events |-> <<>>]
    BY DEF Init, BusInit
  <2>2. \A m \in Notes : ~Filing(m)
    BY <2>1, BusConstants DEF Filing
  <2> QED BY <2>1, <2>2 DEF OrderInv, FileInOrder, IsInjective
<1>2. RuntimeInv /\ OrderInv /\ [Next]_vars => OrderInv'
  BY StepKeepsOrder
<1>3. OrderInv => FileInOrder
  BY DEF OrderInv
<1>4. Spec => []RuntimeInv
  BY RuntimeInvariant
<1> QED BY <1>1, <1>2, <1>3, <1>4, PTL DEF Spec
=============================================================================
