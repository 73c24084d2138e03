---------------------------- MODULE ControlPlane ----------------------------
(***************************************************************************)
(* The control plane of greatsage serve: the HTTP server of control/       *)
(* server.py, a thread for each request, on the one ControlState of        *)
(* control/state.py, which lets one run at a time work in a thread of its  *)
(* own, and shows it by the views of control/views.py.                     *)
(*                                                                         *)
(* Runs are numbered as they start, and what is stored or shown is the     *)
(* number of the run it comes from.  The plan, its task and what a run     *)
(* does are the services'; the path to them is modelled by what it gives.  *)
(***************************************************************************)
EXTENDS Integers, FiniteSets

CONSTANTS Handlers,     \* requests, each in a thread
          ControlCalls, \* what they may be: see HttpRequests
          MaxRuns       \* bound: runs started

Paths == {"page", "state", "plan", "agent", "cancel", "decide", "approve", "run", "resume",
          "cancelTask", "nowhere"}
GetPaths == {"page", "state", "plan"}
Bodies == {"none", "badLength", "tooLong", "noJson", "json", "approved"}
HttpRequests == [path : Paths, host : BOOLEAN, token : BOOLEAN, body : Bodies]

ControlAssumption == ControlCalls \subseteq HttpRequests /\ MaxRuns \in Nat

VARIABLES
    slot,       \* ControlState, of the current or last run
    worker,     \* each run's thread: [at, kind]
    plan, task, \* the plan and its task, as the services have them
    pending,    \* runs that wait for an approval
    handler      \* each request: [at, ask, started, seen, answer]

controlVars == <<slot, worker, plan, task, pending, handler>>

NoRun == 0
RunIds == 1..MaxRuns
Empty == [run |-> NoRun, kind |-> "none", broker |-> NoRun, result |-> NoRun,
          error |-> NoRun, finished |-> FALSE]
NoAnswer == [status |-> 0]

ControlInit ==
    /\ slot = Empty
    /\ worker = [r \in RunIds |-> "none"]
    /\ plan \in {"none", "draft", "ready"} /\ task \in {"none", "failed"}
    /\ pending = {}
    /\ handler \in [Handlers ->
        {[at |-> "asking", ask |-> a, started |-> NoRun, seen |-> Empty, answer |-> NoAnswer] :
         a \in ControlCalls}]

HandlerGoes(c, place) == handler' = [handler EXCEPT ![c].at = place]
AnswersStatus(c, status) ==
    handler' = [handler EXCEPT ![c].at = "done", ![c].answer = [status |-> status]]
AnswersWith(c, status, shown) ==
    handler' = [handler EXCEPT ![c].at = "done",
                             ![c].answer = [status |-> status, shown |-> shown]]
-----------------------------------------------------------------------------
(* do_GET and do_POST before a handler: the host, the body, the token, the *)
(* path, then what the handler wants of the body.  0 lets it through.  A   *)
(* path that is nowhere is asked for by GET when there is no body.         *)
NeedsJson == {"agent", "approve", "run", "resume"}
NeedsApproved == {"approve", "run", "resume"}
Gate(a) ==
    CASE ~a.host -> 403
      [] a.host /\ a.path = "page" -> 200
      [] a.host /\ a.path \notin GetPaths /\ a.body = "badLength" -> 400
      [] a.host /\ a.path \notin GetPaths /\ a.body = "tooLong" -> 413
      [] OTHER ->
           IF a.path = "nowhere" /\ a.body = "none" THEN 404 ELSE
           CASE ~a.token -> 403
             [] a.token /\ a.path = "nowhere" -> 404
             [] a.token /\ a.path \in NeedsJson /\ a.body \in {"none", "noJson"} -> 400
             [] a.token /\ a.path \in NeedsApproved /\ a.body = "json" -> 400
             [] OTHER -> 0

Enters(c) ==
    /\ handler[c].at = "asking"
    /\ LET status == Gate(handler[c].ask) IN
       IF status = 0 THEN HandlerGoes(c, handler[c].ask.path) ELSE AnswersStatus(c, status)
    /\ UNCHANGED <<slot, worker, plan, task, pending>>

(* run_snapshot: one locked look at the slot, then the broker's queue.     *)
RunActive(r) == r \in RunIds /\ worker[r] # "ended"
SlotSeen == [run |-> slot.run, kind |-> slot.kind, result |-> slot.result, error |-> slot.error,
             finished |-> slot.finished, active |-> RunActive(slot.run), broker |-> slot.broker]
PendingOf(r) == pending \cap {r}
Sees(c, place) == handler' = [handler EXCEPT ![c].at = place, ![c].seen = SlotSeen]

LooksAtSlot(c) ==
    /\ handler[c].at \in {"state", "shows", "started"}
    /\ Sees(c, IF handler[c].at = "started" THEN "lookedStarted" ELSE "looked")
    /\ UNCHANGED <<slot, worker, plan, task, pending>>
ShowsSlot(c) ==
    /\ handler[c].at \in {"looked", "lookedStarted"}
    /\ LET seen == handler[c].seen IN
       AnswersWith(c, IF handler[c].at = "lookedStarted" THEN 202 ELSE 200,
                   [run |-> seen.run, result |-> seen.result, error |-> seen.error,
                    finished |-> seen.finished, active |-> seen.active,
                    approvals |-> PendingOf(seen.broker)])
    /\ UNCHANGED <<slot, worker, plan, task, pending>>
-----------------------------------------------------------------------------
(* _start: under the lock, unless the thread of a run is still there.      *)
BusyUntilResult == RunActive(slot.run) /\ slot.result # slot.run     \* a mutant of Busy
Busy == RunActive(slot.run)

NewSlot(r, kind) == [Empty EXCEPT !.run = r, !.kind = kind,
                                  !.broker = IF kind = "agent" THEN r ELSE NoRun]

StartRun(c, kind) ==
    \/ Busy /\ AnswersStatus(c, 409) /\ UNCHANGED <<slot, worker>>
    \/ /\ ~Busy
       /\ \E r \in RunIds :
            /\ worker[r] = "none" /\ \A s \in RunIds : s < r => worker[s] # "none"
            /\ slot' = NewSlot(r, kind)
            /\ worker' = [worker EXCEPT ![r] = "working"]
            /\ handler' = [handler EXCEPT ![c].at = "started", ![c].started = r]

(* start_agent: what it was asked may be refused.                          *)
StartAgent(c) ==
    /\ handler[c].at = "agent"
    /\ \/ AnswersStatus(c, 400) /\ UNCHANGED <<slot, worker>>
       \/ StartRun(c, "agent")
    /\ UNCHANGED <<plan, task, pending>>

(* start_task and start_resume read first, and start on what they read.    *)
ReadsPlan(c) ==
    /\ handler[c].at \in {"run", "approve", "plan"}
    /\ \/ plan = "none" /\ AnswersStatus(c, 404)
       \/ AnswersStatus(c, 503)
       \/ plan # "none" /\ handler[c].at = "plan" /\ AnswersStatus(c, 200)
       \/ plan = "draft" /\ handler[c].at = "run" /\ AnswersStatus(c, 400)
       \/ plan = "ready" /\ handler[c].at = "run" /\ HandlerGoes(c, "startsTask")
       \/ plan # "none" /\ handler[c].at = "approve" /\ HandlerGoes(c, "approves")
    /\ UNCHANGED <<slot, worker, plan, task, pending>>
ReadsTask(c) ==
    /\ handler[c].at \in {"resume", "cancelTask"}
    /\ \/ task = "none" /\ AnswersStatus(c, 404)
       \/ AnswersStatus(c, 503)
       \/ /\ handler[c].at = "resume" /\ task \in {"completed", "cancelled", "running"}
          /\ AnswersStatus(c, 400)
       \/ handler[c].at = "resume" /\ task = "failed" /\ HandlerGoes(c, "startsTask")
       \/ task # "none" /\ handler[c].at = "cancelTask" /\ HandlerGoes(c, "cancelsTask")
    /\ UNCHANGED <<slot, worker, plan, task, pending>>
StartTask(c) ==
    /\ handler[c].at = "startsTask"
    /\ StartRun(c, "task")
    /\ UNCHANGED <<plan, task, pending>>

(* approve_plan: the gate of the planning service.                         *)
ApprovePlan(c) ==
    /\ handler[c].at = "approves"
    /\ \/ plan = "draft" /\ plan' = "ready" /\ AnswersStatus(c, 200)
       \/ AnswersStatus(c, 400) /\ UNCHANGED plan
    /\ UNCHANGED <<slot, worker, task, pending>>

(* cancel_task asks the service; it cancels a task that runs.              *)
CancelTask(c) ==
    /\ handler[c].at = "cancelsTask"
    /\ \/ task = "running" /\ task' = "cancelled" /\ AnswersStatus(c, 200)
       \/ task # "running" /\ UNCHANGED task /\ AnswersStatus(c, 400)
    /\ UNCHANGED <<slot, worker, plan, pending>>

(* cancel: whom to cancel is read under the lock, the approvals are        *)
(* rejected and the service asked after it; the answer is 200 either way.  *)
CancelReads(c) ==
    /\ handler[c].at = "cancel"
    /\ Sees(c, "cancels")
    /\ UNCHANGED <<slot, worker, plan, task, pending>>
CancelActs(c) ==
    /\ handler[c].at = "cancels"
    /\ pending' = pending \ {handler[c].seen.broker}
    /\ task' = IF handler[c].seen.kind = "task" /\ task = "running" THEN "cancelled" ELSE task
    /\ HandlerGoes(c, "shows")
    /\ UNCHANGED <<slot, worker, plan>>

(* decide: the broker of the moment; what is no longer pending is a 404.   *)
DecideReads(c) ==
    /\ handler[c].at = "decide"
    /\ Sees(c, "decides")
    /\ UNCHANGED <<slot, worker, plan, task, pending>>
DecideActs(c) ==
    /\ handler[c].at = "decides"
    /\ LET broker == handler[c].seen.broker IN
       \/ broker \in pending /\ pending' = pending \ {broker} /\ HandlerGoes(c, "shows")
       \/ broker \notin pending /\ AnswersStatus(c, 404) /\ UNCHANGED pending
    /\ UNCHANGED <<slot, worker, plan, task>>
-----------------------------------------------------------------------------
(* The worker: the run of an agent may ask; a task is running, then ended. *)
RunAsks(r) ==
    /\ worker[r] = "working" /\ slot.kind = "agent" /\ r \notin pending
    /\ pending' = pending \cup {r}
    /\ UNCHANGED <<slot, worker, plan, task, handler>>
RunStopsWaiting(r) ==
    /\ r \in pending
    /\ pending' = pending \ {r}
    /\ UNCHANGED <<slot, worker, plan, task, handler>>
TaskRuns(r) ==
    /\ worker[r] = "working" /\ slot.kind = "task" /\ task # "running"
    /\ task' = "running"
    /\ UNCHANGED <<slot, worker, plan, pending, handler>>

(* It stores its result or its error, an agent's result with its error,    *)
(* then when it finished, then dies.                                       *)
Outcomes == {{"result"}, {"error"}} \cup
            (IF slot.kind = "agent" THEN {{"result", "error"}} ELSE {})
StoresOutcome(r, what) ==
    /\ worker[r] = "working" /\ r \notin pending
    /\ slot' = [slot EXCEPT !.result = IF "result" \in what THEN r ELSE @,
                            !.error = IF "error" \in what THEN r ELSE @]
    /\ worker' = [worker EXCEPT ![r] = "stored"]
    /\ task' = IF slot.kind = "task" /\ task = "running"
               THEN IF "result" \in what THEN "completed" ELSE "failed" ELSE task
    /\ UNCHANGED <<plan, pending, handler>>
Finishes(r) ==
    /\ worker[r] = "stored"
    /\ slot' = [slot EXCEPT !.finished = TRUE]
    /\ worker' = [worker EXCEPT ![r] = "finished"]
    /\ UNCHANGED <<plan, task, pending, handler>>
WorkerDies(r) ==
    /\ worker[r] = "finished"
    /\ worker' = [worker EXCEPT ![r] = "ended"]
    /\ UNCHANGED <<slot, plan, task, pending, handler>>

ControlNext ==
    \/ \E c \in Handlers :
         \/ Enters(c) \/ LooksAtSlot(c) \/ ShowsSlot(c) \/ StartAgent(c) \/ ReadsPlan(c)
         \/ ReadsTask(c) \/ StartTask(c) \/ ApprovePlan(c) \/ CancelTask(c) \/ CancelReads(c)
         \/ CancelActs(c) \/ DecideReads(c) \/ DecideActs(c)
    \/ \E r \in RunIds :
         \/ RunAsks(r) \/ RunStopsWaiting(r) \/ TaskRuns(r)
         \/ \E what \in Outcomes : StoresOutcome(r, what)
         \/ Finishes(r) \/ WorkerDies(r)

ControlSpec == ControlInit /\ [][ControlNext]_controlVars
-----------------------------------------------------------------------------
ShownTo(c) == handler[c].answer.shown
HasShown(c) == handler[c].at = "done" /\ "shown" \in DOMAIN handler[c].answer

TellsOneRun(s) ==
    /\ {s.result, s.error} \subseteq {NoRun, s.run}
    /\ s.approvals \subseteq {s.run}
    /\ s.finished => s.run \in {s.result, s.error}
    /\ s.run # NoRun /\ ~s.active => s.finished /\ s.approvals = {}

(* control/state.py run_snapshot, _start and the workers: what a page is   *)
(* shown is one run's, its result, its error, its approvals and its end;   *)
(* and a run that is not active any more is shown with how it ended.       *)
OneRunTold == \A c \in Handlers : HasShown(c) => TellsOneRun(ShownTo(c))

(* control/server.py _handle_start and _handle_plan_run: 202 answers with  *)
(* the run that was started.                                               *)
StartedRunTold ==
    \A c \in Handlers : HasShown(c) /\ handler[c].answer.status = 202 =>
      ShownTo(c).run = handler[c].started
=============================================================================
