------------------------------- MODULE AgentRun -------------------------------
(***************************************************************************)
(* The agent: agent/orchestrator.py's loop between the AI provider and the *)
(* tools, agent/service.py around it, and the control server that starts   *)
(* runs, cancels them and answers their approvals (control/state.py; the   *)
(* CLI's interactive run does the same with one thread).                   *)
(*                                                                         *)
(* A worker thread executes one run at a time; handler threads cancel and  *)
(* decide.  They share the broker of the run, the state that AgentService  *)
(* keeps for the run in flight (_token, _status) and the token itself.     *)
(* The run's approvals are ApprovalBroker's, with one broker per run and   *)
(* the request ids of the local provider: the position in the response.    *)
(***************************************************************************)
EXTENDS Naturals, Sequences, FiniteSets, SequencesExt

CONSTANTS Kinds,       \* signatures of tool calls: tool and arguments
          Policy,      \* what the policy says of each: "allow", "ask",
                       \* "refuse" (denied, unknown, invalid arguments) or
                       \* "malformed" (AgentToolCall.validate raises)
          Deciders, Cancellers,   \* handler threads
          HasToken,    \* the provider is the service's own, with the token
          MaxRuns,     \* bound: runs started
          MaxSteps, MaxCalls, MaxSingle, LoopThreshold,   \* AgentLimits
          NoCall

ASSUME LimitAssumption ==
    /\ {MaxRuns, MaxSteps, MaxCalls, MaxSingle} \subseteq Nat \ {0}
    /\ LoopThreshold \in Nat \ {0, 1}
ASSUME PolicyAssumption ==
    Policy \in [Kinds -> {"allow", "ask", "refuse", "malformed"}]

VARIABLES
    at,         \* where the worker thread is
    run,        \* the run it executes, or executed last
    state,      \* AgentRunStatus.state of that run
    current,    \* whether AgentService._token and _status are that run's
    steps,      \* steps completed
    batch,      \* the tool calls of the response, and how many are done
    done,
    total,      \* tool calls executed or refused so far in the run
    last, streak,   \* the loop detector
    overdue,    \* the wall clock has run out
    terminals,  \* terminal events published, per run
    recorded,   \* the state in the history database, per run
    canceller   \* cancel requests in progress

(* The broker of the run.                                                  *)
VARIABLES pending, decisions, ask, expired, cancelled, seen, asked, accepted,
          granted

(* History: the kinds of the calls this run made, run or refused, in       *)
(* order; how many tools it started after the token was set; where the     *)
(* worker was then; the runs somebody asked to cancel, and the calls       *)
(* approved after the cancel.                                              *)
VARIABLES made, startedLate, cancelledAt, cancelAsked, approvedLate

Calls == (1..MaxRuns) \X (1..MaxSteps) \X (1..MaxSingle)
Ids == 1..MaxSingle
IdOf == [c \in Calls |-> c[3]]

Broker == INSTANCE ApprovalBroker

loopVars == <<steps, batch, done, total, last, streak>>
runVars == <<run, state, current, terminals, recorded>>
ghosts == <<made, startedLate, cancelledAt, cancelAsked, approvedLate>>
brokerVars == <<pending, decisions, ask, expired, cancelled, seen, asked,
                accepted, granted>>
vars == <<at, runVars, loopVars, overdue, canceller, brokerVars, ghosts>>

Terminal == {"completed", "failed", "cancelled", "timed_out", "limit_reached"}
AgentStates == Terminal \union
    {"created", "running", "waiting_for_approval", "executing_tool",
     "processing_result"}

(* _TRANSITIONS *)
CanTransition(s, t) ==
    \/ s = t
    \/ s = "created" /\ t = "running"
    \/ s = "running" /\ t \in AgentStates \ {"created"}
    \/ s = "waiting_for_approval" /\ t \in AgentStates \ {"created", "completed"}
    \/ s = "executing_tool" /\ t \in AgentStates \ {"created", "running", "completed"}
    \/ s = "processing_result" /\ t \in AgentStates \ {"created", "executing_tool"}

Runs == 1..MaxRuns

(* A handler that is not cancelling. *)
NoRequest == <<"idle", 0>>

TypeOK ==
    /\ at \in {"idle", "begin", "clock", "token", "generate", "reclock",
               "retoken", "guard", "call_token", "call_clock", "tool", "asking",
               "execute", "ran", "publish", "leave", "record", "exit"}
    /\ run \in 0..MaxRuns
    /\ state \in AgentStates
    /\ current \in BOOLEAN
    /\ steps \in Nat
    /\ batch \in BoundedSeq(Kinds, MaxSingle + 1)
    /\ done \in 0..Len(batch)
    /\ total \in Nat
    /\ last \in Kinds \union {NoCall}
    /\ streak \in 0..LoopThreshold
    /\ overdue \in BOOLEAN
    /\ terminals \in [Runs -> [Terminal -> 0..1]]
    /\ recorded \in [Runs -> Terminal \union {"none"}]
    /\ canceller \in [Cancellers -> {<<"idle", 0>>} \union ({"reject", "set"} \X Runs)]
    /\ Broker!TypeOK

Init ==
    /\ at = "idle"
    /\ run = 0
    /\ state = "created"
    /\ current = FALSE
    /\ steps = 0 /\ batch = <<>> /\ done = 0 /\ total = 0
    /\ last = NoCall /\ streak = 0
    /\ overdue = FALSE
    /\ terminals = [r \in Runs |-> [t \in Terminal |-> 0]]
    /\ recorded = [r \in Runs |-> "none"]
    /\ canceller = [h \in Cancellers |-> NoRequest]
    /\ made = <<>> /\ startedLate = 0 /\ cancelledAt = "never"
    /\ cancelAsked = {} /\ approvedLate = {}
    /\ Broker!Init

-----------------------------------------------------------------------------
(* Starting a run *)

(* ControlState._start: no other run is active; a broker of its own.       *)
Start ==
    /\ at = "idle"
    /\ run < MaxRuns
    /\ run' = run + 1
    /\ at' = "begin"
    /\ pending' = Broker!EmptyQueue
    /\ decisions' = Broker!NoDecisions
    /\ ask' = Broker!Idle
    /\ expired' = FALSE
    /\ cancelled' = FALSE
    /\ UNCHANGED <<state, current, terminals, recorded, loopVars, overdue,
                   canceller, seen, asked, accepted, granted, ghosts>>

(* AgentService.run raises before there is anything to run: unavailable,   *)
(* no provider that can call tools, a bad limit.                           *)
Refuse ==
    /\ at = "begin"
    /\ at' = "exit"
    /\ state' = "created"
    /\ UNCHANGED <<run, current, terminals, recorded, loopVars, overdue,
                   canceller, brokerVars, ghosts>>

(* AgentService.run makes the token, the status and the limits, and the    *)
(* orchestrator starts.                                                    *)
Begin ==
    /\ at = "begin"
    /\ at' = "clock"
    /\ current' = TRUE
    /\ state' = "running"
    /\ steps' = 0 /\ batch' = <<>> /\ done' = 0 /\ total' = 0
    /\ last' = NoCall /\ streak' = 0
    /\ overdue' = FALSE
    /\ made' = <<>> /\ startedLate' = 0 /\ cancelledAt' = "never"
    /\ UNCHANGED <<run, terminals, recorded, canceller, brokerVars, cancelAsked,
                   approvedLate>>

-----------------------------------------------------------------------------
(* The loop *)

(* An except clause: the status takes its terminal state.                  *)
Stop(t) ==
    /\ state' = t
    /\ at' = "publish"
    /\ UNCHANGED <<run, current, terminals, recorded, loopVars, overdue,
                   canceller, brokerVars, ghosts>>

Goto(next) ==
    /\ at' = next
    /\ UNCHANGED <<runVars, loopVars, overdue, canceller, brokerVars, ghosts>>

(* _check_wall_clock and raise_if_cancelled, where the loop calls them.    *)
CheckClock(here, next) ==
    /\ at = here
    /\ IF overdue THEN Stop("timed_out") ELSE Goto(next)

(* Fault: the test is not there.                                           *)
CheckNothing(here, next) ==
    /\ at = here
    /\ Goto(next)

CheckToken(here, next) ==
    /\ at = here
    /\ ~cancelled
    /\ Goto(next)

TokenSeen ==
    /\ at \in {"token", "retoken", "call_token"}
    /\ cancelled
    /\ Stop("cancelled")

(* Fault: the loop detector starts anew with each step.                    *)
StepBeginForgets ==
    /\ at = "token"
    /\ ~cancelled
    /\ IF steps >= MaxSteps
       THEN Stop("limit_reached")
       ELSE /\ state' = "running"
            /\ at' = "generate"
            /\ last' = NoCall /\ streak' = 0
            /\ UNCHANGED <<run, current, terminals, recorded, steps, batch, done,
                           total, overdue, canceller, brokerVars, ghosts>>

(* The top of the loop, past the token: one more step, if there is one.    *)
StepBegin ==
    /\ at = "token"
    /\ ~cancelled
    /\ IF steps >= MaxSteps
       THEN Stop("limit_reached")
       ELSE /\ state' = "running"
            /\ at' = "generate"
            /\ UNCHANGED <<run, current, terminals, recorded, loopVars, overdue,
                           canceller, brokerVars, ghosts>>

(* The provider answers: with tool calls, or with the final text (none).   *)
Generate ==
    /\ at = "generate"
    /\ \E b \in BoundedSeq(Kinds, MaxSingle + 1) : batch' = b
    /\ done' = 0
    /\ at' = "reclock"
    /\ UNCHANGED <<runVars, steps, total, last, streak, overdue, canceller,
                   brokerVars, ghosts>>

(* Fault: a failed provider is asked again, and nothing counts the retries. *)
GenerateAgain == at = "generate" /\ Goto("clock")

(* The provider fails, whatever it raises.                                 *)
GenerateFails == at = "generate" /\ Stop("failed")

(* No tool calls: the last step, and the run is completed.                 *)
FinalResponse ==
    /\ at = "guard"
    /\ batch = <<>>
    /\ steps' = steps + 1
    /\ state' = "completed"
    /\ at' = "publish"
    /\ UNCHANGED <<run, current, terminals, recorded, batch, done, total, last,
                   streak, overdue, canceller, brokerVars, ghosts>>

(* The loop detector at the nth call of the batch: how many calls in a row *)
(* are like it, those of this batch and, when all of the batch so far are  *)
(* like it, those it saw before.                                           *)
Row(n) == {m \in 1..n : \A l \in m..n : batch[l] = batch[n]}
Streak(n) == Cardinality(Row(n)) + IF Row(n) = 1..n /\ last = batch[n] THEN streak ELSE 0

(* _guard_calls: the batch as a whole is held against the limits before    *)
(* any of its calls runs, then each call is validated and shown to the     *)
(* detector.  bad is the first call that is malformed or closes a loop.    *)
GuardCalls ==
    LET size == Len(batch)
        bad(n) == \/ Policy[batch[n]] = "malformed"
                  \/ Streak(n) >= LoopThreshold
        first(n) == bad(n) /\ \A m \in 1..n-1 : ~bad(m)
    IN  /\ at = "guard"
        /\ batch # <<>>
        /\ \/ /\ size > MaxSingle \/ total + size > MaxCalls
              /\ Stop("limit_reached")
           \/ /\ size <= MaxSingle /\ total + size <= MaxCalls
              /\ \E n \in 1..size :
                    /\ first(n)
                    /\ Stop(IF Policy[batch[n]] = "malformed" THEN "failed"
                                                              ELSE "limit_reached")
           \/ /\ size <= MaxSingle /\ total + size <= MaxCalls
              /\ \A n \in 1..size : ~bad(n)
              /\ last' = batch[size]
              /\ streak' = Streak(size)
              /\ at' = "call_token"
              /\ UNCHANGED <<runVars, steps, batch, done, total, overdue,
                             canceller, brokerVars, ghosts>>

-----------------------------------------------------------------------------
(* One tool call *)

Kind == batch[done + 1]
Call == <<run, steps + 1, done + 1>>

(* The call begins: the status says so.                                    *)
CallBegin ==
    /\ at = "call_clock"
    /\ ~overdue
    /\ state' = "executing_tool"
    /\ at' = "tool"
    /\ UNCHANGED <<run, current, terminals, recorded, loopVars, overdue,
                   canceller, brokerVars, ghosts>>

CallOverdue == at = "call_clock" /\ overdue /\ Stop("timed_out")

(* ToolService.execute up to the tool: a call the policy denies, that has  *)
(* no tool or bad arguments is a failed result for the provider ...        *)
ToolRefused == at = "tool" /\ Policy[Kind] = "refuse" /\ Goto("ran")

(* ... one that finds the tool service stopped fails the run ...           *)
ToolsStopped == at = "tool" /\ Stop("failed")

(* ... one it allows runs ...                                              *)
ToolAllowed == at = "tool" /\ Policy[Kind] = "allow" /\ Goto("execute")

(* Fault: the run waits and its status does not say so.                    *)
ToolAsksSilently ==
    /\ at = "tool"
    /\ Policy[Kind] = "ask"
    /\ Broker!Post(Call)
    /\ at' = "asking"
    /\ UNCHANGED <<runVars, loopVars, overdue, canceller, ghosts>>

(* ... and one it asks about pauses the run and waits for a person.        *)
ToolAsks ==
    /\ at = "tool"
    /\ Policy[Kind] = "ask"
    /\ state' = "waiting_for_approval"
    /\ Broker!Post(Call)
    /\ at' = "asking"
    /\ UNCHANGED <<run, current, terminals, recorded, loopVars, overdue,
                   canceller, ghosts>>

(* The wait for the answer.                                                *)
ToolWaits ==
    /\ at = "asking"
    /\ \/ Broker!CheckToken \/ Broker!TakeDecision
       \/ Broker!NoDecisionYet \/ Broker!CheckDeadline
    /\ UNCHANGED <<at, runVars, loopVars, overdue, canceller, ghosts>>

(* The answer is there: the tool runs, or the denial is a failed result.   *)
ToolAnswered ==
    /\ at = "asking"
    /\ Broker!Leave
    /\ at' = IF ask.outcome = "approved" THEN "execute" ELSE "ran"
    /\ UNCHANGED <<runVars, loopVars, overdue, canceller, ghosts>>

(* The tool does its work; whatever it raises is a failed result.          *)
Execute ==
    /\ at = "execute"
    /\ at' = "ran"
    /\ startedLate' = IF cancelled THEN startedLate + 1 ELSE startedLate
    /\ UNCHANGED <<runVars, loopVars, overdue, canceller, brokerVars, made,
                   cancelledAt, cancelAsked, approvedLate>>

(* Back in the loop: the call is counted; its output may exhaust the       *)
(* budget; a cancelled run ends here; otherwise on to the next call, or to *)
(* the next step.                                                          *)
Counted == done' = done + 1 /\ total' = total + 1 /\ made' = Append(made, Kind)

CallDone ==
    /\ at = "ran"
    /\ Counted
    /\ \/ /\ state' = "limit_reached" /\ at' = "publish"
          /\ UNCHANGED steps
       \/ /\ cancelled
          /\ state' = "cancelled" /\ at' = "publish"
          /\ UNCHANGED steps
       \/ /\ ~cancelled
          /\ done + 1 < Len(batch)
          /\ at' = "call_token"
          /\ UNCHANGED <<state, steps>>
       \/ /\ ~cancelled
          /\ done + 1 = Len(batch)
          /\ state' = "processing_result"
          /\ steps' = steps + 1
          /\ at' = "clock"
    /\ UNCHANGED <<run, current, terminals, recorded, batch, last, streak,
                   overdue, canceller, brokerVars, startedLate, cancelledAt,
                   cancelAsked, approvedLate>>

-----------------------------------------------------------------------------
(* The end of a run *)

(* Fault: a run that ends early publishes that it failed, too.             *)
PublishTwice ==
    /\ at = "publish"
    /\ terminals' = [terminals EXCEPT ![run][state] = 1, ![run]["failed"] =
                        IF state = "completed" THEN @ ELSE 1]
    /\ at' = "leave"
    /\ UNCHANGED <<run, state, current, recorded, loopVars, overdue, canceller,
                   brokerVars, ghosts>>

(* _publish_terminal                                                       *)
PublishTerminal ==
    /\ at = "publish"
    /\ terminals' = [terminals EXCEPT ![run][state] = @ + 1]
    /\ at' = "leave"
    /\ UNCHANGED <<run, state, current, recorded, loopVars, overdue, canceller,
                   brokerVars, ghosts>>

(* AgentService.run's finally block gives the slot up.                     *)
LeaveSlot ==
    /\ at = "leave"
    /\ current' = FALSE
    /\ at' = "record"
    /\ UNCHANGED <<run, state, terminals, recorded, loopVars, overdue, canceller,
                   brokerVars, ghosts>>

(* The result goes into the history database, if that works.               *)
Record ==
    /\ at = "record"
    /\ recorded' \in {[recorded EXCEPT ![run] = state], recorded}
    /\ at' = "exit"
    /\ UNCHANGED <<run, state, current, terminals, loopVars, overdue, canceller,
                   brokerVars, ghosts>>

(* The worker thread ends: the control server takes the next run.          *)
Exit == at = "exit" /\ Goto("idle")

-----------------------------------------------------------------------------
(* Handlers and the clock *)

(* ControlState.cancel: it takes the broker and the kind of run under the  *)
(* lock, ...                                                               *)
CancelRequest(h) ==
    /\ canceller[h] = NoRequest
    /\ run > 0
    /\ canceller' = [canceller EXCEPT ![h] = <<"reject", run>>]
    /\ cancelAsked' = IF at = "idle" THEN cancelAsked ELSE cancelAsked \union {run}
    /\ UNCHANGED <<at, runVars, loopVars, overdue, brokerVars, made,
                   startedLate, cancelledAt, approvedLate>>

(* ... rejects what is pending in that broker (the service's own provider  *)
(* has none), ...                                                          *)
CancelReject(h) ==
    /\ \E r \in Runs :
          /\ canceller[h] = <<"reject", r>>
          /\ IF r = run /\ ~HasToken THEN Broker!RejectAll ELSE UNCHANGED brokerVars
          /\ canceller' = [canceller EXCEPT ![h] = <<"set", r>>]
    /\ UNCHANGED <<at, runVars, loopVars, overdue, ghosts>>

(* ... and cancels whatever run the agent service has by then.             *)
CancelSet(h) ==
    /\ canceller[h][1] = "set"
    /\ canceller' = [canceller EXCEPT ![h] = NoRequest]
    /\ cancelled' = (cancelled \/ current)
    /\ cancelledAt' = IF cancelled' /\ ~cancelled THEN at ELSE cancelledAt
    /\ UNCHANGED <<at, runVars, loopVars, overdue, pending, decisions, ask,
                   expired, seen, asked, accepted, granted, made, startedLate,
                   cancelAsked, approvedLate>>

Look(d) ==
    /\ Broker!Look(d)
    /\ UNCHANGED <<at, runVars, loopVars, overdue, canceller, ghosts>>

(* ControlState.decide *)
Decide(d, o) ==
    /\ Broker!Decide(d, o)
    /\ approvedLate' = IF /\ cancelled /\ o = "approved"
                          /\ ask.at \in Broker!Waiting
                       THEN approvedLate \union {ask.call} ELSE approvedLate
    /\ UNCHANGED <<at, runVars, loopVars, overdue, canceller, made,
                   startedLate, cancelledAt, cancelAsked>>

(* The clocks: the run's, and the request's.                               *)
ClockRunsOut ==
    /\ current
    /\ ~overdue
    /\ overdue' = TRUE
    /\ UNCHANGED <<at, runVars, loopVars, canceller, brokerVars, ghosts>>

Expire ==
    /\ Broker!Expire
    /\ UNCHANGED <<at, runVars, loopVars, overdue, canceller, ghosts>>

-----------------------------------------------------------------------------
Worker ==
    \/ Refuse \/ Begin
    \/ CheckClock("clock", "token")
    \/ StepBegin \/ TokenSeen
    \/ Generate \/ GenerateFails
    \/ CheckClock("reclock", "retoken") \/ CheckToken("retoken", "guard")
    \/ FinalResponse \/ GuardCalls
    \/ CheckToken("call_token", "call_clock")
    \/ CallBegin \/ CallOverdue
    \/ ToolRefused \/ ToolsStopped \/ ToolAllowed \/ ToolAsks \/ ToolWaits \/ ToolAnswered
    \/ Execute \/ CallDone
    \/ PublishTerminal \/ LeaveSlot \/ Record \/ Exit

Canceller(h) == CancelRequest(h) \/ CancelReject(h) \/ CancelSet(h)

Decider(d) == Look(d) \/ \E o \in {"approved", "denied"} : Decide(d, o)

Next ==
    \/ Start
    \/ Worker
    \/ \E h \in Cancellers : Canceller(h)
    \/ \E d \in Deciders : Decider(d)
    \/ ClockRunsOut
    \/ Expire

Spec == Init /\ [][Next]_vars

(* The worker thread runs, a provider call comes back (providers have      *)
(* timeouts), the deadline of a request passes.  Nobody has to decide or   *)
(* to cancel.                                                              *)
FairSpec == Spec /\ WF_vars(Worker) /\ WF_vars(Expire)

-----------------------------------------------------------------------------
(* The status only makes moves its table allows, whatever the order of     *)
(* approvals, cancellations and limits: AgentRunStatus.transition never    *)
(* raises in the middle of a run.                                          *)
StateMoves ==
    [][at \notin {"idle", "begin"} => CanTransition(state, state')]_vars

(* The limits hold over the whole run: they are tested before a response's *)
(* calls are made, against what all the responses before it made.          *)
WithinLimits == Len(made) <= MaxCalls /\ steps <= MaxSteps

(* The loop detector works across responses and counts calls that were     *)
(* refused: no call is made LoopThreshold times in a row with the same     *)
(* arguments.                                                              *)
NoToolLoops ==
    \A i \in LoopThreshold..Len(made) :
        \E j \in i - LoopThreshold + 1 .. i : made[j] # made[i]

(* So a run makes no more than it is allowed, and nothing over and over.   *)
RunsBounded == WithinLimits /\ NoToolLoops

(* Each run publishes one terminal event, for the state its status is in   *)
(* and its history row has; and when the worker is gone it has published   *)
(* it, unless the run was refused.                                         *)
Events(r) == {t \in Terminal : terminals[r][t] > 0}

OneTerminalEvent ==
    \A r \in Runs :
        /\ Cardinality(Events(r)) <= 1
        /\ \A t \in Terminal : terminals[r][t] <= 1
        /\ recorded[r] # "none" => recorded[r] \in Events(r)
        /\ r = run /\ at \in {"leave", "record", "exit", "idle"} =>
              \/ Events(r) = {state}
              \/ Events(r) = {} /\ state = "created"

(* Once the token of a run is set at most one more tool starts, and only   *)
(* that of a call that had passed its test: none when the token was set    *)
(* while the provider was answering or between two calls.                  *)
OneToolAfterCancel ==
    /\ startedLate <= 1
    /\ startedLate > 0 =>
          cancelledAt \in {"call_clock", "tool", "asking", "execute"}

(* A request is pending exactly while the run waits for it, and the status *)
(* shows it: no request outlives the call, and none waits unseen.          *)
PausedWhileAsking ==
    /\ ask.at # "idle" <=> at = "asking"
    /\ at = "asking" => state = "waiting_for_approval" /\ ask.call = Call
    /\ Broker!QueueShowsTheWait

(* Every run comes to its end, whatever the provider answers and whether   *)
(* or not anybody decides: the control server is free again.               *)
RunsEnd == at # "idle" ~> at = "idle"

(* "A cancelled run always ends in the CANCELLED terminal state"           *)
(* (agent/cancellation.py).                                                *)
CancelledEndsCancelled ==
    [][/\ cancelled /\ run' = run
       /\ state \notin Terminal /\ state' \in Terminal
       => state' = "cancelled"]_vars

(* "Cancellable at every point" (docs/SECURITY_MODEL.md): the token is set *)
(* when the cancel of a run that is still active returns.                  *)
CancelTakesEffect ==
    [][\A h \in Cancellers :
         canceller[h] = <<"set", run>> /\ canceller'[h] = NoRequest
            /\ at \in {"begin", "clock", "token", "generate", "tool", "asking"}
            => cancelled']_vars

(* "Request cancellation of the active agent or task run"                  *)
(* (docs/INTERFACES.md): the run that is cancelled is one somebody asked   *)
(* to cancel.                                                              *)
CancelHitsItsRun == cancelled => run \in cancelAsked

(* "A pending approval gate resolves to cancelled"                         *)
(* (docs/SECURITY_MODEL.md): no tool runs on an approval given after the   *)
(* run was cancelled.                                                      *)
CancelClosesGate == granted \intersect approvedLate = {}
=============================================================================
