---------------------------- MODULE ApprovalBroker ----------------------------
(***************************************************************************)
(* The human gate of an agent run: agent/approval_broker.py and the        *)
(* provider behind it, agent/approval.py.                                  *)
(*                                                                         *)
(* One worker thread executes tools.  A tool whose policy says "ask" posts *)
(* a request in the broker's queue and polls the provider's decisions      *)
(* until one is there, its deadline passes or, for the provider the agent  *)
(* service makes itself, the run's token is cancelled.  Any number of      *)
(* other threads look at the queue and decide.                             *)
(*                                                                         *)
(* Calls are the tool calls themselves; what travels through the queue is  *)
(* their request id, and whether two calls can have the same id depends on *)
(* the AI provider (IdOf).                                                 *)
(***************************************************************************)
EXTENDS Naturals, FiniteSets

CONSTANTS Calls,      \* the tool calls of the runs that share the broker
          Ids,        \* request ids
          IdOf,       \* the request id the AI provider gave each call
          Deciders,   \* threads that answer: a CLI prompt, HTTP handlers
          HasToken,   \* whether the provider was given the run's token
          NoCall

ASSUME IdAssumption == IdOf \in [Calls -> Ids]
ASSUME TokenAssumption == HasToken \in BOOLEAN
ASSUME NoCallAssumption == NoCall \notin Calls

VARIABLES pending,     \* ApprovalBroker._pending: the call behind each id
          decisions,   \* AgentApprovalProvider._decisions
          ask,         \* the worker inside request_approval
          expired,     \* whether the deadline of that request has passed
          cancelled,   \* the run's CancellationToken
          seen,        \* the pending request each decider is looking at
          asked,       \* history: the calls whose request was posted
          accepted,    \* history: the calls a decider who was looking at
                       \* them approved, and nobody rejected before the
                       \* worker read the answer
          granted      \* history: the calls request_approval let run

brokerVars == <<pending, decisions, ask, expired, cancelled, seen, asked,
                accepted, granted>>

Outcomes == {"approved", "denied"}

Waiting == {"check", "read", "late"}

(* Where the worker is in request_approval, and the answer it brings back. *)
Requests == [call : Calls \union {NoCall},
             at : Waiting \union {"idle", "answered"},
             outcome : Outcomes]

(* A worker that is not in request_approval. *)
Idle == [call |-> NoCall, at |-> "idle", outcome |-> "denied"]

TypeOK ==
    /\ pending \in [Ids -> Calls \union {NoCall}]
    /\ decisions \in [Ids -> Outcomes \union {"none"}]
    /\ ask \in Requests
    /\ ask.at # "idle" => ask.call \in Calls
    /\ expired \in BOOLEAN
    /\ cancelled \in BOOLEAN
    /\ seen \in [Deciders -> Calls \union {NoCall}]
    /\ asked \in SUBSET Calls
    /\ accepted \in SUBSET Calls
    /\ granted \in SUBSET Calls

(* A broker made for a run: nothing is pending, nothing is decided. *)
EmptyQueue == [i \in Ids |-> NoCall]
NoDecisions == [i \in Ids |-> "none"]

Init ==
    /\ pending = EmptyQueue
    /\ decisions = NoDecisions
    /\ ask = Idle
    /\ expired = FALSE
    /\ cancelled = FALSE
    /\ seen = [d \in Deciders |-> NoCall]
    /\ asked = {}
    /\ accepted = {}
    /\ granted = {}

-----------------------------------------------------------------------------
(* The worker *)

(* request_approval: the request goes into the queue, under its id, and    *)
(* the provider starts to wait with a fresh deadline.                      *)
Post(c) ==
    /\ ask.at = "idle"
    /\ c \notin asked
    /\ pending' = [pending EXCEPT ![IdOf[c]] = c]
    /\ ask' = [call |-> c, at |-> "check", outcome |-> "denied"]
    /\ expired' = FALSE
    /\ asked' = asked \union {c}
    /\ UNCHANGED <<decisions, cancelled, seen, accepted, granted>>

Answer(o) == ask' = [ask EXCEPT !.at = "answered", !.outcome = o]

(* The first test of the polling loop: only a provider with a token sees   *)
(* the cancellation.                                                       *)
CheckToken ==
    /\ ask.at = "check"
    /\ IF HasToken /\ cancelled
       THEN Answer("denied")
       ELSE ask' = [ask EXCEPT !.at = "read"]
    /\ UNCHANGED <<pending, decisions, expired, cancelled, seen, asked,
                   accepted, granted>>

(* The second: a decision for this id is there.  The code reads it under   *)
(* the lock and pops it under the lock again; what counts is the pop,      *)
(* which takes the latest.                                                 *)
TakeDecision ==
    /\ ask.at = "read"
    /\ decisions[IdOf[ask.call]] # "none"
    /\ Answer(decisions[IdOf[ask.call]])
    /\ decisions' = [decisions EXCEPT ![IdOf[ask.call]] = "none"]
    /\ UNCHANGED <<pending, expired, cancelled, seen, asked, accepted, granted>>

NoDecisionYet ==
    /\ ask.at = "read"
    /\ decisions[IdOf[ask.call]] = "none"
    /\ ask' = [ask EXCEPT !.at = "late"]
    /\ UNCHANGED <<pending, decisions, expired, cancelled, seen, asked,
                   accepted, granted>>

(* Fault: a wait that ends without a decision lets the call    *)
(* run.                                                                    *)
CheckDeadlineOpen ==
    /\ ask.at = "late"
    /\ IF expired THEN Answer("approved") ELSE ask' = [ask EXCEPT !.at = "check"]
    /\ UNCHANGED <<pending, decisions, expired, cancelled, seen, asked,
                   accepted, granted>>

(* Fault: every round of the loop has a deadline of its own.   *)
CheckDeadlineAnew ==
    /\ ask.at = "late"
    /\ ask' = [ask EXCEPT !.at = "check"]
    /\ expired' = FALSE
    /\ UNCHANGED <<pending, decisions, cancelled, seen, asked, accepted, granted>>

(* The third: past the deadline the request is denied, before it the       *)
(* worker sleeps at most 50 ms and looks again.                            *)
CheckDeadline ==
    /\ ask.at = "late"
    /\ IF expired THEN Answer("denied") ELSE ask' = [ask EXCEPT !.at = "check"]
    /\ UNCHANGED <<pending, decisions, expired, cancelled, seen, asked,
                   accepted, granted>>

(* Fault: the queue is not cleaned up after a timeout.         *)
LeaveDecided ==
    /\ ask.at = "answered"
    /\ pending' = [pending EXCEPT ![IdOf[ask.call]] =
                                  IF expired THEN @ ELSE NoCall]
    /\ ask' = Idle
    /\ granted' = IF ask.outcome = "approved" THEN granted \union {ask.call}
                                              ELSE granted
    /\ UNCHANGED <<decisions, expired, cancelled, seen, asked, accepted>>

(* The broker's finally block takes the request off the queue.             *)
Leave ==
    /\ ask.at = "answered"
    /\ pending' = [pending EXCEPT ![IdOf[ask.call]] = NoCall]
    /\ ask' = Idle
    /\ granted' = IF ask.outcome = "approved" THEN granted \union {ask.call}
                                              ELSE granted
    /\ UNCHANGED <<decisions, expired, cancelled, seen, asked, accepted>>

-----------------------------------------------------------------------------
(* The deciders and the clock *)

(* pending() and wait_for_pending(): a decider is shown one request. *)
Look(d) ==
    /\ \E i \in Ids : /\ pending[i] # NoCall
                      /\ seen' = [seen EXCEPT ![d] = pending[i]]
    /\ UNCHANGED <<pending, decisions, ask, expired, cancelled, asked, accepted,
                   granted>>

(* approve(id) and reject(id).  A decision for an id that is not pending   *)
(* is refused; one for a pending id replaces the decision before it.       *)
Decide(d, o) ==
    LET i == IdOf[seen[d]]
        c == pending[i]
    IN  /\ seen[d] # NoCall
        /\ seen' = [seen EXCEPT ![d] = NoCall]
        /\ decisions' = IF c = NoCall THEN decisions
                                      ELSE [decisions EXCEPT ![i] = o]
        /\ accepted' = IF o = "approved" THEN
                         IF c = seen[d] THEN accepted \union {c} ELSE accepted
                       ELSE IF ask.at \in Waiting THEN accepted \ {c}
                       ELSE accepted
        /\ UNCHANGED <<pending, ask, expired, cancelled, asked, granted>>

Pended == {i \in Ids : pending[i] # NoCall}

(* reject_all *)
RejectAll ==
    /\ decisions' = [i \in Ids |-> IF i \in Pended THEN "denied" ELSE decisions[i]]
    /\ accepted' = IF ask.at \in Waiting
                   THEN accepted \ {pending[i] : i \in Pended}
                   ELSE accepted
    /\ UNCHANGED <<pending, ask, expired, cancelled, seen, asked, granted>>

(* The request's deadline passes. *)
Expire ==
    /\ ask.at \in Waiting
    /\ ~expired
    /\ expired' = TRUE
    /\ UNCHANGED <<pending, decisions, ask, cancelled, seen, asked, accepted,
                   granted>>

Cancel ==
    /\ ~cancelled
    /\ cancelled' = TRUE
    /\ UNCHANGED <<pending, decisions, ask, expired, seen, asked, accepted,
                   granted>>

-----------------------------------------------------------------------------
Worker == CheckToken \/ TakeDecision \/ NoDecisionYet \/ CheckDeadline \/ Leave

Decider(d) == Look(d) \/ \E o \in Outcomes : Decide(d, o)

Next ==
    \/ \E c \in Calls : Post(c)
    \/ Worker
    \/ \E d \in Deciders : Decider(d)
    \/ RejectAll
    \/ Expire
    \/ Cancel

Spec == Init /\ [][Next]_brokerVars

(* The worker thread runs while it is runnable, and time passes.  Nothing  *)
(* is assumed of the deciders: people may never answer.                    *)
FairSpec == Spec /\ WF_brokerVars(Worker) /\ WF_brokerVars(Expire)

-----------------------------------------------------------------------------
(* Nothing is auto-approved: a call runs only if somebody who was looking  *)
(* at that very call approved it while it was pending, and nobody took the *)
(* approval back before the worker read it.                                *)
ApprovedByPerson == granted \subseteq accepted

(* The queue shows the request the worker waits on and no other: nothing   *)
(* stays pending after its request is over, however the wait ended.        *)
QueueShowsTheWait ==
    \A i \in Ids : pending[i] # NoCall => /\ ask.at # "idle"
                                          /\ pending[i] = ask.call
                                          /\ i = IdOf[ask.call]

(* Nobody answers, everybody answers, the run is cancelled: in each case   *)
(* the worker comes back from request_approval.                            *)
EveryRequestAnswered == ask.at # "idle" ~> ask.at = "idle"
=============================================================================
