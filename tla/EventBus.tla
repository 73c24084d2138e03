------------------------------- MODULE EventBus -------------------------------
(***************************************************************************)
(* The in-process event bus, events/bus.py, on the asyncio loop it runs    *)
(* in.  publish dispatches inside the caller, handler by handler;          *)
(* publish_nowait makes a task of the dispatch, or dispatches on the spot  *)
(* when no loop runs.  The loop is cooperative: a dispatch keeps it until  *)
(* an asynchronous handler waits for something.                            *)
(*                                                                         *)
(* Abstracted: handlers do not call the bus themselves, and a subscriber's *)
(* event_type filter is the set of events it wants.                        *)
(***************************************************************************)
EXTENDS Naturals, SequencesExt

CONSTANTS Subs,        \* the subscribers
          AsyncSubs,   \* those whose handler is a coroutine
          Wants,       \* the events each subscriber's type filter lets by
          Recorder,    \* the first subscriber, core/runtime.py's audit sink
          MaxNotes,    \* bound: events published with publish_nowait
          Callers,     \* the coroutines that await publish
          Calls,       \* the events they publish, <<caller, what>>
          NoOne

ASSUME SubsAssumption ==
    /\ AsyncSubs \subseteq Subs
    /\ Recorder \in Subs \ AsyncSubs
    /\ NoOne \notin Callers
    /\ MaxNotes \in Nat

(* An event is <<who awaits its dispatch, what>>.                          *)
Notes == {NoOne} \X (1..MaxNotes)
Events == Notes \union Calls

ASSUME EventAssumption == Events \intersect (Callers \union {NoOne}) = {}

ASSUME WantsAssumption ==
    /\ Wants \in [Subs -> SUBSET Events]
    /\ Wants[Recorder] = Events

VARIABLES loop,      \* whether an event loop is running
          cur,       \* who runs in it: a dispatch, a coroutine or no one
          ready,     \* the loop's queue of dispatches not yet begun
          subs,      \* EventBus._subscriptions
          closed,    \* EventBus._closed
          disp,      \* where the dispatch of each event is
          list,      \* the copy of the subscribers that it goes through
          next,      \* and its place there
          noted,     \* number of publish_nowait calls so far
          owed,      \* history: the places there of those to be called
          told,      \* history: and of those called, in the order of the calls
          file,      \* the audit file, one line per event
          audit      \* AuditLog: whether the file is open

dispatchVars == <<disp, list, next, owed, told>>
busVars == <<loop, cur, ready, subs, closed, dispatchVars, noted, file, audit>>

Phases == {"new", "ready", "running", "parked", "done", "dropped", "cut"}

BusTypeOK ==
    /\ loop \in BOOLEAN
    /\ cur \in Events \union Callers \union {NoOne}
    /\ ready \in Seq(Notes) /\ IsInjective(ready)
    /\ subs \in Seq(Subs) /\ IsInjective(subs)
    /\ closed \in BOOLEAN
    /\ disp \in [Events -> Phases]
    /\ list \in [Events -> Seq(Subs)]
    /\ next \in [Events -> Nat]
    /\ owed \in [Events -> SUBSET Nat]
    /\ told \in [Events -> Seq(Nat)]
    /\ noted \in 0..MaxNotes
    /\ \A e \in Events : (cur = e) <=> (disp[e] = "running")
    /\ \A n \in Notes : (disp[n] = "ready") <=> (n \in ToSet(ready))
    /\ ~loop => /\ cur \in Notes \union {NoOne}
                /\ \A e \in Events : disp[e] \notin {"ready", "parked"}
    /\ file \in Seq(Events)
    /\ audit \in {"none", "open", "closed"}

BusInit ==
    /\ loop = FALSE
    /\ cur = NoOne
    /\ ready = <<>>
    /\ subs = <<>>
    /\ closed = FALSE
    /\ disp = [e \in Events |-> "new"]
    /\ list = [e \in Events |-> <<>>]
    /\ next = [e \in Events |-> 0]
    /\ noted = 0
    /\ owed = [e \in Events |-> {}]
    /\ told = [e \in Events |-> <<>>]
    /\ file = <<>>
    /\ audit = "none"

-----------------------------------------------------------------------------
(* Subscriptions *)

Subscribe(s) ==
    /\ ~closed
    /\ s \notin ToSet(subs)
    /\ subs' = Append(subs, s)
    /\ UNCHANGED <<loop, cur, ready, closed, dispatchVars, noted, file, audit>>

(* Nobody keeps the recorder's subscription, so nobody can remove it.      *)
Unsubscribe(s) ==
    /\ s # Recorder
    /\ \E i \in DOMAIN subs : subs[i] = s /\ subs' = RemoveAt(subs, i)
    /\ UNCHANGED <<loop, cur, ready, closed, dispatchVars, noted, file, audit>>

-----------------------------------------------------------------------------
(* Dispatch *)

(* AuditLog.write: a line, unless the file is closed.                      *)
Record(e, s) ==
    file' = IF s = Recorder /\ audit = "open" THEN Append(file, e) ELSE file

(* The type filter; without a loop a coroutine cannot be run and is left   *)
(* out (_publish_sync).                                                    *)
Concerns(e, s) == e \in Wants[s] /\ (loop \/ s \notin AsyncSubs)

(* The dispatch of e begins: the subscribers are copied.                   *)
Begin(e) ==
    /\ disp' = [disp EXCEPT ![e] = "running"]
    /\ list' = [list EXCEPT ![e] = subs]
    /\ next' = [next EXCEPT ![e] = 1]
    /\ owed' = [owed EXCEPT ![e] = {i \in DOMAIN subs : Concerns(e, subs[i])}]
    /\ cur' = e
    /\ UNCHANGED told

(* EventBus.publish, awaited by the coroutine that runs.                   *)
Publish(e) ==
    /\ ~closed
    /\ disp[e] = "new"
    /\ Begin(e)
    /\ UNCHANGED <<loop, ready, subs, closed, noted, file, audit>>

Drop(n) ==
    /\ disp' = [disp EXCEPT ![n] = "dropped"]
    /\ UNCHANGED <<cur, list, next, owed, told>>

(* EventBus.publish_nowait: a task of the loop, or a dispatch on the spot  *)
(* where no loop runs.                                                     *)
PublishNowait ==
    /\ noted < MaxNotes
    /\ noted' = noted + 1
    /\ LET n == <<NoOne, noted + 1>>
       IN  \/ /\ closed
              /\ Drop(n)
              /\ UNCHANGED ready
           \/ /\ ~closed /\ ~loop
              /\ Begin(n)
              /\ UNCHANGED ready
           \/ /\ ~closed /\ loop
              /\ disp' = [disp EXCEPT ![n] = "ready"]
              /\ ready' = Append(ready, n)
              /\ UNCHANGED <<cur, list, next, owed, told>>
    /\ UNCHANGED <<loop, subs, closed, file, audit>>

(* The loop takes the next task: EventBus._publish_logged, which drops the *)
(* event when the bus has been closed since.                               *)
TakeReady ==
    /\ cur = NoOne /\ ready # <<>>
    /\ ready' = Tail(ready)
    /\ IF closed THEN Drop(Head(ready)) ELSE Begin(Head(ready))
    /\ UNCHANGED <<loop, subs, closed, noted, file, audit>>

(* The dispatch of e, which runs, is at a subscriber, called at or not.    *)
At(e, called) ==
    /\ cur = e /\ next[e] \in DOMAIN list[e]
    /\ Concerns(e, list[e][next[e]]) <=> called
    /\ next' = [next EXCEPT ![e] = @ + 1]
    /\ told' = IF called THEN [told EXCEPT ![e] = Append(@, next[e])] ELSE told
    /\ UNCHANGED <<loop, ready, subs, closed, owed, noted, audit>>

(* The event is not for this subscriber.                                   *)
Skip(e) == At(e, FALSE) /\ UNCHANGED <<cur, disp, list, file>>

(* Fault: a failing handler ends the dispatch.                             *)
CallUnguarded(e) ==
    /\ At(e, TRUE)
    /\ Record(e, list[e][next[e]])
    /\ \E fails \in BOOLEAN :
          list' = [list EXCEPT ![e] = IF fails THEN <<>> ELSE @]
    /\ UNCHANGED <<cur, disp>>

(* The next handler is called and comes back, with or without an error:    *)
(* errors are logged and change nothing.                                   *)
Call(e) ==
    /\ At(e, TRUE)
    /\ Record(e, list[e][next[e]])
    /\ UNCHANGED <<cur, disp, list>>

(* The next handler is a coroutine that waits: the dispatch, and whoever   *)
(* awaits it, give up the loop.                                            *)
Wait(e) ==
    /\ At(e, TRUE)
    /\ list[e][next[e]] \in AsyncSubs
    /\ disp' = [disp EXCEPT ![e] = "parked"]
    /\ cur' = NoOne
    /\ UNCHANGED <<list, file>>

(* What the handler waited for is there: the dispatch goes on.             *)
Resume(e) ==
    /\ cur = NoOne /\ disp[e] = "parked"
    /\ disp' = [disp EXCEPT ![e] = "running"]
    /\ cur' = e
    /\ UNCHANGED <<loop, ready, subs, closed, list, next, noted, owed, told, file, audit>>

(* The copy is at its end: publish returns to who awaits it.               *)
Return(e) ==
    /\ cur = e /\ next[e] \notin DOMAIN list[e]
    /\ disp' = [disp EXCEPT ![e] = "done"]
    /\ list' = [list EXCEPT ![e] = <<>>]
    /\ next' = [next EXCEPT ![e] = 0]
    /\ owed' = [owed EXCEPT ![e] = {}]
    /\ told' = [told EXCEPT ![e] = <<>>]
    /\ cur' = e[1]
    /\ UNCHANGED <<loop, ready, subs, closed, noted, file, audit>>

(* EventBus.close, awaited by the coroutine that runs: it gives up nothing *)
(* and waits for nothing.                                                  *)
Close ==
    /\ closed' = TRUE
    /\ subs' = <<>>
    /\ UNCHANGED <<loop, ready, dispatchVars, noted, file>>

-----------------------------------------------------------------------------
(* The loop *)

(* asyncio.run, which nothing calls in the middle of a dispatch.           *)
LoopStarts ==
    /\ ~loop /\ cur = NoOne
    /\ loop' = TRUE
    /\ UNCHANGED <<cur, ready, subs, closed, dispatchVars, noted, file, audit>>

(* asyncio.run returns: tasks that are not done are cancelled, those made  *)
(* in the loop's last turn before they begin.  The coroutines that await   *)
(* publish are what asyncio.run was given, so they are done.               *)
LoopEnds ==
    /\ loop /\ cur = NoOne
    /\ \A c \in Calls : disp[c] # "parked"
    /\ loop' = FALSE
    /\ ready' = <<>>
    /\ disp' = [e \in Events |-> IF disp[e] \in {"ready", "parked"} THEN "cut" ELSE disp[e]]
    /\ list' = [e \in Events |-> <<>>]
    /\ next' = [e \in Events |-> 0]
    /\ owed' = [e \in Events |-> {}]
    /\ told' = [e \in Events |-> <<>>]
    /\ UNCHANGED <<cur, subs, closed, noted, file, audit>>

(* One step of the loop itself, or of a dispatch without one.              *)
Turn ==
    \/ TakeReady
    \/ \E e \in Events : Skip(e) \/ Call(e) \/ Wait(e) \/ Resume(e) \/ Return(e)

-----------------------------------------------------------------------------

(* Whatever handlers fail, suspend or unsubscribe each other meanwhile, a  *)
(* dispatch is over only when it has called exactly the subscribers it     *)
(* concerned when it began, once each and in the order they subscribed     *)
(* (publish, _publish_sync).                                               *)
ToldEach(e) ==
    /\ ToSet(told[e]) = owed[e]
    /\ \A i, j \in DOMAIN told[e] : i < j => told[e][i] < told[e][j]

EveryoneTold ==
    [][\A e \in Events : disp[e] # "done" /\ disp'[e] = "done" => ToldEach(e)]_busVars

(* The audit file has the events of publish_nowait in the order they were  *)
(* published, with or without a loop, and however long the asynchronous    *)
(* subscribers behind it take: the recorder is called in the first turn of *)
(* each dispatch (publish_nowait, _publish_sync).                          *)
FileInOrder ==
    \A i, j \in DOMAIN file :
        i < j /\ {file[i], file[j]} \subseteq Notes => file[i][2] < file[j][2]
=============================================================================
