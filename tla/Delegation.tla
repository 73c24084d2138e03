------------------------------ MODULE Delegation ------------------------------
(***************************************************************************)
(* Delegated tasks: delegation/manager.py, with the executor behind it as  *)
(* intelligence/opencode.py reaches it over HTTP.                          *)
(*                                                                         *)
(* Each delegation runs in the thread that asked for it: it makes a        *)
(* session, sends the prompt, and polls for events until one of them, a    *)
(* limit, the clock or a cancel ends it.  Other threads cancel.  The       *)
(* executor works meanwhile and every request to it may fail.              *)
(*                                                                         *)
(* The threads share _running, _results and the tokens; the session        *)
(* belongs to its delegation, except that a cancel interrupts it too.      *)
(* The provider always yields something in a sweep (a NOTE at least), so   *)
(* the manager's case of an empty stream never arises and is left out.     *)
(***************************************************************************)
EXTENDS Naturals, FiniteSets, SequencesExt

CONSTANTS Tasks,         \* delegations, each with a task id of its own
          Permissions,   \* what an executor may ask for
          Policy,        \* SecurityPolicy: "allow", "deny" or "ask" for each
          HasApproval,   \* whether the tool service has an approval provider
          Cancellers,    \* threads that call cancel
          MaxSessions, MaxPermissions, MaxOutput,   \* DelegationLimits
          ReconnectLimit, ResultsKeep,
          MaxProgress,   \* bound: progress messages of an executor
          NoTask

(* _message_event: what the new messages of the timeline mean.             *)
Messages == {"progress", "done", "broken", "interrupted"}

(* An event of a sweep is one of them or a permission, never both.         *)
ASSUME DelegationAssumption ==
    /\ Policy \in [Permissions -> {"allow", "deny", "ask"}]
    /\ HasApproval \in BOOLEAN
    /\ {MaxSessions, MaxPermissions, ResultsKeep} \subseteq Nat \ {0}
    /\ {MaxOutput, ReconnectLimit, MaxProgress} \subseteq Nat
    /\ NoTask \notin Tasks
    /\ Permissions \intersect Messages = {}

VARIABLES
    job,        \* each delegation's thread: its place and DelegationRunStatus
    token,      \* _RunningDelegation.token
    overdue,    \* the wall-clock limit has passed
    running,    \* DelegationManager._running
    results,    \* DelegationManager._results, oldest first
    canceller,  \* cancel calls in progress
    exec,       \* the executor's side of the session; which of its end's requests were lost
    known,      \* OpenCodeProvider._known_permission_ids
    published,  \* history: terminal events of each delegation
    posed,      \* history: the permissions a person was asked about
    lateGrants  \* history: permissions granted after the token was set

vars == <<job, token, overdue, running, results, canceller, exec, known,
          published, posed, lateGrants>>
history == <<published, posed, lateGrants>>

Outcomes == {"completed", "failed", "cancelled", "timed_out"}

NewJob == [at |-> "idle", state |-> "created", left |-> <<>>, trouble |-> FALSE,
           reconnects |-> 0, output |-> 0, requests |-> 0,
           permission |-> "none", answer |-> FALSE, outcome |-> "none"]

NewSession == [session |-> "none", prompted |-> FALSE, interrupted |-> FALSE,
               over |-> FALSE, progress |-> 0, unread |-> <<>>,
               asked |-> {}, waiting |-> {}, lost |-> {}]

NoCancel == <<"idle", NoTask>>

Init ==
    /\ job = [d \in Tasks |-> NewJob]
    /\ token = [d \in Tasks |-> FALSE]
    /\ overdue = [d \in Tasks |-> FALSE]
    /\ running = {}
    /\ results = <<>>
    /\ canceller = [h \in Cancellers |-> NoCancel]
    /\ exec = [d \in Tasks |-> NewSession]
    /\ known = [d \in Tasks |-> {}]
    /\ published = [d \in Tasks |-> <<>>]
    /\ posed = [d \in Tasks |-> <<>>]
    /\ lateGrants = [d \in Tasks |-> 0]

-----------------------------------------------------------------------------
(* The steps of a delegation's thread                                      *)

Become(d, j) == job' = [job EXCEPT ![d] = j]
Goto(d, place) == Become(d, [job[d] EXCEPT !.at = place])

(* _fail_result, _cancel_result, _timeout_result: the session, if its id   *)
(* is known, is interrupted first; the status keeps its state.             *)
Ending(d, outcome) ==
    [job[d] EXCEPT !.outcome = outcome, !.left = <<>>,
                   !.at = IF exec[d].session = "open" THEN "abort" ELSE "publish"]
Conclude(d, outcome) == Become(d, Ending(d, outcome))

(* An exception inside the sweep: the rest of it is given up.              *)
Trouble(d) == Become(d, [job[d] EXCEPT !.trouble = TRUE, !.left = <<>>, !.at = "token"])

(* delegate, for a request that passed its checks.                         *)
Delegate(d) ==
    /\ job[d].at = "idle"
    /\ Become(d, [job[d] EXCEPT !.at = "count", !.state = "starting"])
    /\ UNCHANGED <<token, overdue, running, results, canceller, exec, known, history>>

CheckCount(d) ==
    /\ job[d].at = "count"
    /\ IF Cardinality(running) >= MaxSessions THEN Conclude(d, "failed")
                                              ELSE Goto(d, "create")
    /\ UNCHANGED <<token, overdue, running, results, canceller, exec, known, history>>

(* When the answer is lost, or has no id, there may be a session all the   *)
(* same, which nobody knows.                                               *)
CreateSession(d) ==
    /\ job[d].at = "create"
    /\ \/ /\ exec' = [exec EXCEPT ![d].session = "open"]
          /\ Become(d, [job[d] EXCEPT !.at = "prompt", !.state = "running"])
       \/ /\ \E made \in {"none", "unknown"} : exec' = [exec EXCEPT ![d].session = made]
          /\ Conclude(d, "failed")
    /\ UNCHANGED <<token, overdue, running, results, canceller, known, history>>

(* A prompt whose answer is lost may have arrived all the same.            *)
SendPrompt(d) ==
    /\ job[d].at = "prompt"
    /\ \/ exec' = [exec EXCEPT ![d].prompted = TRUE] /\ Goto(d, "register")
       \/ /\ \E b \in BOOLEAN : exec' = [exec EXCEPT ![d].prompted = b]
          /\ Conclude(d, "failed")
    /\ UNCHANGED <<token, overdue, running, results, canceller, known, history>>

(* From here on the delegation can be seen and cancelled.                  *)
Register(d) ==
    /\ job[d].at = "register"
    /\ running' = running \union {d}
    /\ Goto(d, "token")
    /\ UNCHANGED <<token, overdue, results, canceller, exec, known, history>>

(* Fault: the token is looked at between two sweeps only.                  *)
CheckTokenAtTop(d) ==
    /\ job[d].at = "token"
    /\ IF token[d] /\ job[d].left = <<>> THEN Conclude(d, "cancelled") ELSE Goto(d, "clock")
    /\ UNCHANGED <<token, overdue, running, results, canceller, exec, known, history>>

(* Token and clock are looked at before each sweep, before each of its     *)
(* events and when it went wrong.                                          *)
CheckToken(d) ==
    /\ job[d].at = "token"
    /\ IF token[d] THEN Conclude(d, "cancelled") ELSE Goto(d, "clock")
    /\ UNCHANGED <<token, overdue, running, results, canceller, exec, known, history>>

WhatNext(d) == IF job[d].trouble THEN "trouble"
               ELSE IF job[d].left = <<>> THEN "poll" ELSE "event"

(* Fault: an executor that ran out of time is left alone.                  *)
CheckClockOnly(d) ==
    /\ job[d].at = "clock"
    /\ IF overdue[d] THEN Become(d, [job[d] EXCEPT !.outcome = "timed_out", !.at = "publish"])
                     ELSE Goto(d, WhatNext(d))
    /\ UNCHANGED <<token, overdue, running, results, canceller, exec, known, history>>

(* Fault: a sweep that went well is not timed.                             *)
CheckClockInTrouble(d) ==
    /\ job[d].at = "clock"
    /\ IF overdue[d] /\ job[d].trouble THEN Conclude(d, "timed_out") ELSE Goto(d, WhatNext(d))
    /\ UNCHANGED <<token, overdue, running, results, canceller, exec, known, history>>

CheckClock(d) ==
    /\ job[d].at = "clock"
    /\ IF overdue[d] THEN Conclude(d, "timed_out") ELSE Goto(d, WhatNext(d))
    /\ UNCHANGED <<token, overdue, running, results, canceller, exec, known, history>>

(* Attempts add up over the whole run: a sweep that works resets nothing.  *)
Reconnect(d) ==
    /\ job[d].at = "trouble"
    /\ IF job[d].reconnects >= ReconnectLimit
       THEN Conclude(d, "failed")
       ELSE Become(d, [job[d] EXCEPT !.reconnects = @ + 1, !.trouble = FALSE, !.at = "token"])
    /\ UNCHANGED <<token, overdue, running, results, canceller, exec, known, history>>

(* iter_session_events: the unread messages, then the open permissions     *)
(* that are new, in the order the executor lists them.  (Two requests,     *)
(* taken as one: nothing else reads them.)                                 *)
Fresh(d) == exec[d].waiting \ known[d]

PollSweep(d) ==
    /\ job[d].at = "poll"
    /\ \/ \E listed \in SetToSeqs(Fresh(d)) :
             Become(d, [job[d] EXCEPT !.left = exec[d].unread \o listed, !.at = "token"])
       \/ Trouble(d)
    /\ UNCHANGED <<token, overdue, running, results, canceller, exec, known, history>>

-----------------------------------------------------------------------------
(* The events of a sweep                                                   *)

(* The provider remembers what it has yielded.                             *)
See(d, m) ==
    /\ job[d].at = "event"
    /\ Head(job[d].left) = m
    /\ exec' = [exec EXCEPT ![d].unread = Tail(@)]

Progress(d) ==
    /\ See(d, "progress")
    /\ LET j == [job[d] EXCEPT !.left = Tail(@), !.output = @ + 1]
       IN  IF j.output > MaxOutput
           THEN Become(d, [j EXCEPT !.outcome = "failed", !.left = <<>>, !.at = "abort"])
           ELSE Become(d, [j EXCEPT !.at = "token"])
    /\ UNCHANGED <<token, overdue, running, results, canceller, known, history>>

(* _complete_result: the executor has finished and is not interrupted.     *)
ExecutorDone(d) ==
    /\ See(d, "done")
    /\ Become(d, [job[d] EXCEPT !.state = "completed", !.outcome = "completed",
                                !.left = <<>>, !.at = "publish"])
    /\ UNCHANGED <<token, overdue, running, results, canceller, known, history>>

ExecutorFailed(d) ==
    /\ \E m \in {"broken", "interrupted"} : See(d, m)
    /\ Conclude(d, "failed")
    /\ UNCHANGED <<token, overdue, running, results, canceller, known, history>>

(* _handle_permission up to the decision.                                  *)
Permission(d, p) ==
    LET j == [job[d] EXCEPT !.left = Tail(@), !.requests = @ + 1, !.permission = p]
    IN  /\ job[d].at = "event" /\ Head(job[d].left) = p
        /\ known' = [known EXCEPT ![d] = @ \union {p}]
        /\ IF j.requests > MaxPermissions
           THEN Become(d, [j EXCEPT !.outcome = "failed", !.left = <<>>, !.at = "abort"])
           ELSE IF Policy[p] = "ask"
           THEN Become(d, [j EXCEPT !.state = "waiting_for_permission", !.at = "asking"])
           ELSE Become(d, [j EXCEPT !.answer = (Policy[p] = "allow"), !.at = "reply"])
        /\ posed' = [posed EXCEPT ![d] = IF j.requests > MaxPermissions \/ Policy[p] # "ask"
                                         THEN @ ELSE Append(@, p)]
        /\ UNCHANGED <<token, overdue, running, results, canceller, exec, published,
                       lateGrants>>

(* The approval provider comes back, whatever the clock and the token say; *)
(* without one nothing is approved.                                        *)
Answered(d) ==
    /\ job[d].at = "asking"
    /\ \E b \in {FALSE, HasApproval} :
           Become(d, [job[d] EXCEPT !.state = "running", !.answer = b, !.at = "reply"])
    /\ UNCHANGED <<token, overdue, running, results, canceller, exec, known, history>>

(* Fault: the provider forgets what it yielded when a reply is lost.       *)
ReplyForgets(d) ==
    LET p == job[d].permission
        arrived == [exec EXCEPT ![d].waiting = @ \ {p}]
    IN  /\ job[d].at = "reply"
        /\ \/ exec' = arrived /\ Goto(d, "token") /\ UNCHANGED known
           \/ exec' \in {exec, arrived} /\ Trouble(d) /\ known' = [known EXCEPT ![d] = {}]
        /\ UNCHANGED <<token, overdue, running, results, canceller, history>>

(* respond_permission; a reply that seems lost may have arrived.           *)
Reply(d) ==
    LET p == job[d].permission
        arrived == [exec EXCEPT ![d].waiting = @ \ {p}]
    IN  /\ job[d].at = "reply"
        /\ \/ exec' = arrived /\ Goto(d, "token")
           \/ exec' \in {exec, arrived} /\ Trouble(d)
        /\ lateGrants' = [lateGrants EXCEPT ![d] = IF token[d] /\ job[d].answer
                                                   THEN @ + 1 ELSE @]
        /\ UNCHANGED <<token, overdue, running, results, canceller, known, published, posed>>

-----------------------------------------------------------------------------
(* The end                                                                 *)

(* abort_session reaches the executor or does not, and nobody is told.     *)
Abort(d) ==
    /\ job[d].at = "abort"
    /\ \/ exec' = [exec EXCEPT ![d].interrupted = TRUE]
       \/ exec' = [exec EXCEPT ![d].lost = @ \union {"interrupt"}]
    /\ Goto(d, "publish")
    /\ UNCHANGED <<token, overdue, running, results, canceller, known, history>>

Publish(d) ==
    /\ job[d].at = "publish"
    /\ published' = [published EXCEPT ![d] = Append(@, job[d].outcome)]
    /\ Goto(d, IF d \in running THEN "leave"
               ELSE IF exec[d].session = "open" THEN "dispose" ELSE "store")
    /\ UNCHANGED <<token, overdue, running, results, canceller, exec, known, posed,
                   lateGrants>>

(* The finally block: the delegation is taken off the running ones, ...    *)
Leave(d) ==
    /\ job[d].at = "leave"
    /\ running' = running \ {d}
    /\ Goto(d, "dispose")
    /\ UNCHANGED <<token, overdue, results, canceller, exec, known, history>>

(* ... dispose_session asks for its deletion, which may be lost, ...       *)
Dispose(d) ==
    /\ job[d].at = "dispose"
    /\ \/ exec' = [exec EXCEPT ![d] = [NewSession EXCEPT !.session = "disposed",
                                                        !.interrupted = exec[d].interrupted,
                                                        !.lost = exec[d].lost]]
       \/ exec' = [exec EXCEPT ![d].lost = @ \union {"delete"}]
    /\ known' = [known EXCEPT ![d] = {}]
    /\ Goto(d, "store")
    /\ UNCHANGED <<token, overdue, running, results, canceller, history>>

(* ... and the result is kept, for as long as it is among the latest.      *)
Store(d) ==
    LET all == Append(results, <<d, job[d].outcome>>)
    IN  /\ job[d].at = "store"
        /\ results' = IF Len(all) > ResultsKeep THEN Tail(all) ELSE all
        /\ Goto(d, "over")
        /\ UNCHANGED <<token, overdue, running, canceller, exec, known, history>>

-----------------------------------------------------------------------------
(* cancel                                                                  *)

(* A task that is not running is an error.                                 *)
CancelFinds(h, d) ==
    /\ canceller[h] = NoCancel
    /\ d \in running
    /\ canceller' = [canceller EXCEPT ![h] = <<"set", d>>]
    /\ UNCHANGED <<job, token, overdue, running, results, exec, known, history>>

(* Fault: the session is interrupted before the token is set.              *)
CancelInterruptsFirst(h) ==
    LET d == canceller[h][2]
    IN  /\ canceller[h][1] = "set"
        /\ canceller' = [canceller EXCEPT ![h] = <<"abort", d>>]
        /\ exec' = [exec EXCEPT ![d].interrupted = TRUE]
        /\ UNCHANGED <<job, token, overdue, running, results, known, history>>

CancelSets(h) ==
    LET d == canceller[h][2]
    IN  /\ canceller[h][1] = "set"
        /\ token' = [token EXCEPT ![d] = TRUE]
        /\ canceller' = [canceller EXCEPT ![h] = <<"abort", d>>]
        /\ UNCHANGED <<job, overdue, running, results, exec, known, history>>

(* Here too abort_session may fail unnoticed.                              *)
CancelAborts(h) ==
    LET d == canceller[h][2]
    IN  /\ canceller[h][1] = "abort"
        /\ exec' = [exec EXCEPT ![d].interrupted = TRUE] \/ UNCHANGED exec
        /\ canceller' = [canceller EXCEPT ![h] = NoCancel]
        /\ UNCHANGED <<job, token, overdue, running, results, known, history>>

-----------------------------------------------------------------------------
(* The executor and the clock                                              *)

Working(d) == exec[d].session = "open" /\ exec[d].prompted /\ ~exec[d].over

Says(d, m) ==
    /\ Working(d)
    /\ m = "progress" => exec[d].progress < MaxProgress
    /\ m = "done" => exec[d].waiting = {}
    /\ m = "interrupted" => exec[d].interrupted
    /\ exec' = [exec EXCEPT ![d].unread = Append(@, m),
                            ![d].progress = IF m = "progress" THEN @ + 1 ELSE @,
                            ![d].over = (m # "progress")]
    /\ UNCHANGED <<job, token, overdue, running, results, canceller, known, history>>

Asks(d, p) ==
    /\ Working(d)
    /\ p \notin exec[d].asked
    /\ exec' = [exec EXCEPT ![d].asked = @ \union {p}, ![d].waiting = @ \union {p}]
    /\ UNCHANGED <<job, token, overdue, running, results, canceller, known, history>>

TimeRunsOut(d) ==
    /\ job[d].at # "idle" /\ job[d].outcome = "none"
    /\ ~overdue[d]
    /\ overdue' = [overdue EXCEPT ![d] = TRUE]
    /\ UNCHANGED <<job, token, running, results, canceller, exec, known, history>>

-----------------------------------------------------------------------------
Worker(d) ==
    \/ CheckCount(d) \/ CreateSession(d) \/ SendPrompt(d) \/ Register(d)
    \/ CheckToken(d) \/ CheckClock(d) \/ Reconnect(d) \/ PollSweep(d)
    \/ Progress(d) \/ ExecutorDone(d) \/ ExecutorFailed(d)
    \/ (\E p \in Permissions : Permission(d, p)) \/ Answered(d) \/ Reply(d)
    \/ Abort(d) \/ Publish(d) \/ Leave(d) \/ Dispose(d) \/ Store(d)

Canceller(h) == (\E d \in Tasks : CancelFinds(h, d)) \/ CancelSets(h) \/ CancelAborts(h)

Executor(d) == (\E m \in Messages : Says(d, m)) \/ \E p \in Permissions : Asks(d, p)

Next ==
    \/ \E d \in Tasks : Delegate(d) \/ Worker(d) \/ Executor(d) \/ TimeRunsOut(d)
    \/ \E h \in Cancellers : Canceller(h)

Spec == Init /\ [][Next]_vars

(* The thread runs: requests to the executor have timeouts, and approval   *)
(* providers never block forever.  Time passes.  The executor may be       *)
(* silent for ever, and nobody has to cancel.                              *)
FairSpec == Spec /\ \A d \in Tasks : WF_vars(Worker(d)) /\ WF_vars(TimeRunsOut(d))

-----------------------------------------------------------------------------
Places == {"idle", "count", "create", "prompt", "register", "token", "clock", "trouble",
           "poll", "event", "asking", "reply", "abort", "publish", "leave", "dispose",
           "store", "over"}

TypeOK ==
    /\ \A d \in Tasks :
          /\ job[d].at \in Places
          /\ job[d].state \in {"created", "starting", "running", "waiting_for_permission",
                               "completed"}
          /\ job[d].left \in Seq(Messages \union Permissions)
          /\ job[d].trouble \in BOOLEAN
          /\ job[d].reconnects \in 0..ReconnectLimit
          /\ job[d].output \in 0..(MaxOutput + 1)
          /\ job[d].requests \in 0..(MaxPermissions + 1)
          /\ job[d].permission \in Permissions \union {"none"}
          /\ job[d].answer \in BOOLEAN
          /\ job[d].outcome \in Outcomes \union {"none"}
          /\ exec[d].session \in {"none", "open", "unknown", "disposed"}
          /\ exec[d].lost \subseteq {"interrupt", "delete"}
          /\ exec[d].unread \in Seq(Messages)
          /\ exec[d].waiting \subseteq Permissions
          /\ known[d] \subseteq Permissions
    /\ token \in [Tasks -> BOOLEAN]
    /\ overdue \in [Tasks -> BOOLEAN]
    /\ running \subseteq Tasks
    /\ results \in Seq(Tasks \X Outcomes) /\ Len(results) <= ResultsKeep
    /\ canceller \in [Cancellers -> {NoCancel} \union ({"set", "abort"} \X Tasks)]

(* Whichever way a delegation ends, and whoever interrupts whom, by then   *)
(* the deletion of its session has been asked for, after an interrupt      *)
(* unless the executor itself said that it was done: what is left of it is *)
(* left because that very request was lost.  A session that nobody knows   *)
(* was never given any work (_run's finally, _fail_result, _cancel_result, *)
(* _timeout_result).                                                       *)
NothingLeftBehind ==
    \A d \in Tasks : job[d].at \in {"store", "over"} =>
        /\ exec[d].session = "open" => "delete" \in exec[d].lost
        /\ exec[d].session \in {"open", "disposed"} =>
              \/ exec[d].interrupted
              \/ "interrupt" \in exec[d].lost
              \/ job[d].outcome = "completed"
        /\ exec[d].session = "unknown" => ~exec[d].prompted

(* A delegation that is over has published one terminal event, and the     *)
(* result kept for it, as long as it is kept, says the same.               *)
OneOutcome ==
    /\ \A d \in Tasks :
          /\ job[d].at = "over" => /\ published[d] = <<job[d].outcome>>
                                   /\ d \notin running
          /\ Len(published[d]) <= 1
    /\ \A i \in DOMAIN results : published[results[i][1]] = <<results[i][2]>>

(* A cancel interrupts the executor, which then reports that it was        *)
(* interrupted: the delegation never takes that for a failure of the       *)
(* executor (cancel sets the token first, _monitor looks at it first).     *)
CancelIsNotAFailure ==
    \A d \in Tasks : job[d].at = "event" => Head(job[d].left) # "interrupted"

(* A person is asked about a permission once, also when the reply is lost  *)
(* or the sweep that brought it went wrong.                                *)
AskedOnce == \A d \in Tasks : IsInjective(posed[d])

(* Once a delegation is cancelled at most one more permission is granted,  *)
(* the one its thread was already busy with.                               *)
OneGrantAfterCancel == \A d \in Tasks : lateGrants[d] <= 1

(* Every delegation ends, with an executor that never says a word and a    *)
(* connection that fails at the worst moments.                             *)
DelegationsEnd == \A d \in Tasks : job[d].at # "idle" ~> job[d].at = "over"

-----------------------------------------------------------------------------
(* What one would expect of the limits and queries, and the code does not  *)
(* do.                                                                     *)

(* "session count limit" (DelegationLimits.max_session_count): no more     *)
(* sessions are open at a time.                                            *)
SessionsWithinLimit == Cardinality({d \in Tasks : exec[d].session = "open"}) <= MaxSessions

(* A task whose terminal event is out can be asked about                   *)
(* (DelegationManager.get).                                                *)
KnownToGet ==
    \A d \in Tasks : job[d].at \in {"leave", "dispose", "store"} =>
        d \in running \/ \E i \in DOMAIN results : results[i][1] = d

(* A decision reaches the executor: a delegation that runs out of time is  *)
(* not one whose executor still waits for an answer it was given           *)
(* (_handle_permission, iter_session_events).                              *)
DecisionsArrive ==
    \A d \in Tasks : job[d].outcome = "timed_out" =>
        \A p \in known[d] : p \notin exec[d].waiting
=============================================================================
