--------------------------- MODULE TaskExecution ---------------------------
(***************************************************************************)
(* Plans and tasks of Great Sage: the planning service's human gate, the   *)
(* task service (run, resume, cancel) and the task executor, over the two *)
(* SQLite databases that every process shares.                             *)
(*                                                                         *)
(* A process p is one running greatsage program (a CLI command or the      *)
(* control server).  It has at most one execution at a time, the worker,   *)
(* whose program counter is pc[p] and whose TaskRecord and run arguments   *)
(* are job[p]; handler threads of the same process may meanwhile approve a *)
(* plan (approver[p]) or cancel a task (canceller[p]).  Every database     *)
(* statement, and every read whose result is used later, is a step of its  *)
(* own, so the threads and processes interleave exactly at those points;   *)
(* a crash loses everything except planRow, taskRow and results.           *)
(*                                                                         *)
(* A plan row carries the version of the plan it was last saved with, and  *)
(* every worker and handler the version it has read: saving a plan saves   *)
(* its steps too.  Results are kept by step id, the loop goes by place.    *)
(***************************************************************************)
EXTENDS TaskLifecycle, PlanVersions, FiniteSets

CONSTANTS
    Procs,        \* running greatsage processes
    Tasks,        \* task ids, each used by one create_task
    MaxSteps,     \* config task.max_steps: longer plans are not run
    Ceiling,      \* MAX_STEPS_CEILING of the executor
    Asks,         \* the steps (version, place) whose tool needs an approval
    Grants,       \* bound: whether a run or resume is approved
    Servers,      \* processes whose handler threads run beside the worker
    MaxCrashes,   \* bound: process crashes in a behaviour
    NoPlan, NoVersion, NoTask

ASSUME ProcAssumption ==
    /\ MaxSteps \in Nat
    /\ Ceiling \in Nat
    /\ Grants \subseteq BOOLEAN
    /\ Servers \subseteq Procs
    /\ MaxCrashes \in Nat
    /\ NoPlan \notin Plans
    /\ NoVersion \notin Versions
    /\ NoTask \notin Tasks

VARIABLES
    planRow,    \* planning database: version, status and metadata.task_id of each plan
    taskRow,    \* task database: plan, state and metadata.human_approved
    results,    \* task database: step_results, by task and step id
    pc,         \* where each process's worker is
    job,        \* the worker's arguments and its in-memory TaskRecord
    token,      \* TaskService._tokens entry of the worker's task
    scope,      \* the task for which tools.approval says yes in each process
    approver,   \* planning.approve in progress in each process
    canceller,  \* task.cancel in progress in each process
    ran,        \* history: steps (version, place) of a task whose tool has done its work
    crashes     \* number of crashes so far

rows == <<planRow, taskRow, results>>
workers == <<pc, job, token, scope>>
handlers == <<approver, canceller>>
vars == <<planRow, taskRow, results, pc, job, token, scope, approver, canceller, ran, crashes>>

NoApproval == [plan |-> NoPlan, version |-> NoVersion, task |-> NoTask]
NoCancel == [pc |-> "idle", task |-> NoTask, row |-> Absent, approved |-> FALSE,
             version |-> NoVersion, live |-> FALSE]
NoJob == [plan |-> NoPlan, version |-> NoVersion, current |-> NoVersion, task |-> NoTask,
          state |-> "pending", granted |-> FALSE, approved |-> FALSE, kept |-> {},
          todo |-> {}, outcome |-> "none", want |-> "failed"]

NoRow == [plan |-> NoPlan, state |-> Absent, approved |-> FALSE]

Init ==
    /\ planRow = [pl \in Plans |-> [version |-> NoVersion, status |-> Absent, task |-> NoTask]]
    /\ taskRow = [t \in Tasks |-> NoRow]
    /\ results = [t \in Tasks |-> [i \in StepIds |-> "none"]]
    /\ pc = [p \in Procs |-> "idle"]
    /\ job = [p \in Procs |-> NoJob]
    /\ token = [p \in Procs |-> "none"]
    /\ scope = [p \in Procs |-> NoTask]
    /\ approver = [p \in Procs |-> NoApproval]
    /\ canceller = [p \in Procs |-> NoCancel]
    /\ ran = [t \in Tasks |-> {}]
    /\ crashes = 0

\* A request can start in process p: a control server answers on handler
\* threads, a command-line process does one thing at a time.
Free(p) ==
    \/ p \in Servers
    \/ pc[p] = "idle" /\ approver[p] = NoApproval /\ canceller[p].pc = "idle"

\* Bound: a run is started only while a task id is left for it.
TaskIdLeft ==
    Cardinality({p \in Procs : pc[p] \in {"persist", "create"}}) <
    Cardinality({t \in Tasks : taskRow[t].state = Absent})

-----------------------------------------------------------------------------
(* Planning service: create_plan and the human gate.                       *)

\* A plan is saved whole, its steps with its status and its task's id.
SavePlan(pl, v, t, status) ==
    planRow' = [planRow EXCEPT ![pl] = [version |-> v, status |-> status, task |-> t]]

\* create_plan saves a plan under a fresh id as a draft.
CreatePlan(pl) ==
    /\ planRow[pl].status = Absent
    /\ \E v \in Drafts[pl] : SavePlan(pl, v, NoTask, "draft")
    /\ UNCHANGED <<taskRow, results, workers, handlers, ran, crashes>>

\* Fault: approve without verification.
ApproveUnverified(p, pl) ==
    /\ approver[p] = NoApproval
    /\ planRow[pl].status = "draft"
    /\ approver' = [approver EXCEPT ![p] = [plan |-> pl, version |-> planRow[pl].version,
                                           task |-> planRow[pl].task]]
    /\ UNCHANGED <<rows, workers, canceller, ran, crashes>>

\* approve reads the stored plan; only a draft that verifies goes on.
ApproveRead(p, pl) ==
    /\ approver[p] = NoApproval
    /\ planRow[pl].status = "draft"
    /\ planRow[pl].version \in Verifiable
    /\ approver' = [approver EXCEPT ![p] = [plan |-> pl, version |-> planRow[pl].version,
                                           task |-> planRow[pl].task]]
    /\ UNCHANGED <<rows, workers, canceller, ran, crashes>>

\* approve then saves the plan it read, with status ready.
ApproveWrite(p) ==
    /\ approver[p] # NoApproval
    /\ SavePlan(approver[p].plan, approver[p].version, approver[p].task, "ready")
    /\ approver' = [approver EXCEPT ![p] = NoApproval]
    /\ UNCHANGED <<taskRow, results, workers, canceller, ran, crashes>>

-----------------------------------------------------------------------------
(* TaskService.run up to the executor.                                     *)

\* A worker step that changes neither database.
Local(p, to, j) ==
    /\ pc' = [pc EXCEPT ![p] = to]
    /\ job' = [job EXCEPT ![p] = j]

\* run(plan_id): load the stored plan, which must be ready.
RunLoadStored(p, pl, approve) ==
    /\ pc[p] = "idle"
    /\ TaskIdLeft
    /\ planRow[pl].status = "ready"
    /\ Local(p, "persist", [NoJob EXCEPT !.plan = pl, !.version = planRow[pl].version,
                                         !.task = planRow[pl].task,
                                         !.granted = approve, !.approved = approve])
    /\ UNCHANGED <<rows, token, scope, handlers, ran, crashes>>

\* run(file): the plan and its ready status come from the file.
RunLoadFile(p, pl, v, approve) ==
    /\ pc[p] = "idle"
    /\ TaskIdLeft
    /\ v \in Files[pl]
    /\ Local(p, "persist", [NoJob EXCEPT !.plan = pl, !.version = v, !.granted = approve,
                                         !.approved = approve])
    /\ UNCHANGED <<rows, token, scope, handlers, ran, crashes>>

\* run saves the plan it loaded over the stored row, steps and all, then checks
\* its length.
RunPersist(p) ==
    /\ pc[p] = "persist"
    /\ SavePlan(job[p].plan, job[p].version, job[p].task, "ready")
    /\ IF PlanLen[job[p].version] > MaxSteps
       THEN Local(p, "idle", NoJob)
       ELSE Local(p, "create", job[p])
    /\ UNCHANGED <<taskRow, results, token, scope, handlers, ran, crashes>>

\* run inserts the task row under a fresh id.
RunCreate(p, t) ==
    /\ pc[p] = "create"
    /\ taskRow[t].state = Absent
    /\ taskRow' = [taskRow EXCEPT ![t] = [plan |-> job[p].plan, state |-> "pending",
                                          approved |-> job[p].approved]]
    /\ Local(p, "link", [job[p] EXCEPT !.task = t, !.state = "pending"])
    /\ UNCHANGED <<planRow, results, token, scope, handlers, ran, crashes>>

\* _sync_plan_status re-reads the plan and keeps its steps.
SyncRead(p) ==
    LET j == [job[p] EXCEPT !.current = planRow[job[p].plan].version]
    IN  /\ \/ pc[p] = "link" /\ Local(p, "linked", j)
           \/ pc[p] = "relink" /\ Local(p, "relinked", j)
           \/ pc[p] = "sync" /\ Local(p, "synced", j)
        /\ UNCHANGED <<rows, token, scope, handlers, ran, crashes>>

\* run marks the plan running before its token exists.
RunLink(p) ==
    /\ pc[p] = "linked"
    /\ SavePlan(job[p].plan, job[p].current, job[p].task, "running")
    /\ Local(p, "register", job[p])
    /\ UNCHANGED <<taskRow, results, token, scope, handlers, ran, crashes>>

\* tools.approval answers for task t, when a person has approved its run.
Scoped(p, t, granted) ==
    scope' = [scope EXCEPT ![p] = IF granted THEN t ELSE @]

\* run and resume register a fresh token and install the scoped approval, which
\* resume also records in its copy of the task.
Register(p) ==
    /\ token' = [token EXCEPT ![p] = "clear"]
    /\ Scoped(p, job[p].task, job[p].granted)
    /\ \/ /\ pc[p] = "register"
          /\ Local(p, "begin", job[p])
       \/ /\ pc[p] = "reregister"
          /\ Local(p, "restart", [job[p] EXCEPT !.approved = @ \/ job[p].granted])
    /\ UNCHANGED <<rows, handlers, ran, crashes>>

-----------------------------------------------------------------------------
(* TaskService.resume up to the executor.                                  *)

\* resume loads the task.
ResumeLoad(p, t, approve) ==
    /\ pc[p] = "idle"
    /\ taskRow[t].state # Absent
    /\ Local(p, "fetch", [NoJob EXCEPT !.plan = taskRow[t].plan, !.task = t,
                                       !.state = taskRow[t].state, !.granted = approve,
                                       !.approved = taskRow[t].approved])
    /\ UNCHANGED <<rows, token, scope, handlers, ran, crashes>>

\* It then loads the plan as it is stored now.  A completed or cancelled task is
\* only mirrored again.
ResumePlan(p) ==
    LET j == [job[p] EXCEPT !.version = planRow[job[p].plan].version]
    IN  /\ pc[p] = "fetch"
        /\ \/ /\ j.state \in {"completed", "cancelled"}
              /\ Local(p, "sync", [j EXCEPT !.want = PlanStatusOf[j.state]])
           \/ /\ j.state \in Reopenable
              /\ Local(p, "reopen", j)
           \/ /\ j.state \in TaskStates \ TerminalStates
              /\ Local(p, "reregister", j)
        /\ UNCHANGED <<rows, token, scope, handlers, ran, crashes>>

\* Record a new state in memory and, by update_task, in the row: the whole
\* in-memory record overwrites whatever the row holds.  The plan will mirror it.
SetState(p, state, to) ==
    /\ Local(p, to, [job[p] EXCEPT !.state = state, !.want = PlanStatusOf[state]])
    /\ taskRow' = [taskRow EXCEPT ![job[p].task] =
                      [plan |-> job[p].plan, state |-> state, approved |-> job[p].approved]]

\* A failed or timed-out record is reopened as pending.
ResumeReopen(p) ==
    /\ pc[p] = "reopen"
    /\ SetState(p, "pending", "reregister")
    /\ UNCHANGED <<planRow, results, token, scope, handlers, ran, crashes>>

\* resume marks the task running.
ResumeRestart(p) ==
    /\ pc[p] = "restart"
    /\ SetState(p, "running", "relink")
    /\ UNCHANGED <<planRow, results, token, scope, handlers, ran, crashes>>

\* resume marks the plan running.
ResumeRelink(p) ==
    /\ pc[p] = "relinked"
    /\ SavePlan(job[p].plan, job[p].current, job[p].task, "running")
    /\ Local(p, "begin", job[p])
    /\ UNCHANGED <<taskRow, results, token, scope, handlers, ran, crashes>>

-----------------------------------------------------------------------------
(* TaskExecutor.execute.                                                   *)

\* The executor starts by forcing the record to running.
ExecBegin(p) ==
    /\ pc[p] = "begin"
    /\ SetState(p, "running", "load")
    /\ UNCHANGED <<planRow, results, token, scope, handlers, ran, crashes>>

\* Fault: a resume starts from the first step again.
LoadAllSteps(p) ==
    /\ pc[p] = "load"
    /\ job[p].version \in Orderable
    /\ Local(p, "step", [job[p] EXCEPT !.todo = PlanSteps(job[p].version)])
    /\ UNCHANGED <<rows, token, scope, handlers, ran, crashes>>

\* The ids recorded as successful for a task.
Recorded(t) == {i \in StepIds : results[t][i] = "ok"}

\* Every step whose id is recorded as successful is skipped, one that has not run
\* among them when another has its id.
ExecLoad(p) ==
    LET version == job[p].version
        kept == Recorded(job[p].task)
    IN  /\ pc[p] = "load"
        /\ version \in Orderable
        /\ Local(p, "step", [job[p] EXCEPT !.kept = kept,
                     !.todo = {s \in PlanSteps(version) : IdAt[version][s] \notin kept}])
        /\ UNCHANGED <<rows, token, scope, handlers, ran, crashes>>

\* A graph that cannot be ordered fails the task.
ExecOrderFails(p) ==
    /\ pc[p] = "load"
    /\ job[p].version \notin Orderable
    /\ SetState(p, "failed", "exception")
    /\ UNCHANGED <<planRow, results, token, scope, handlers, ran, crashes>>

\* Fault: the loop takes the last remaining step first.
IsLast(p, s) == s \in job[p].todo /\ \A r \in job[p].todo : r <= s

\* s is the next step of the loop.
IsNext(p, s) == s \in job[p].todo /\ \A r \in job[p].todo : s <= r

\* The results in hand: those kept, and those of the steps done since.
ResultsHeld(j) ==
    Cardinality(j.kept) +
    Cardinality({s \in PlanSteps(j.version) \ j.todo : IdAt[j.version][s] \notin j.kept})

\* A step is left and there is room for its result.
AtStep(p) == pc[p] = "step" /\ job[p].todo # {} /\ ResultsHeld(job[p]) < Ceiling

\* Too many results, as when the plan has another version than they are of.
StepOverCeiling(p) ==
    /\ pc[p] = "step"
    /\ job[p].todo # {}
    /\ ResultsHeld(job[p]) >= Ceiling
    /\ SetState(p, "failed", "exception")
    /\ UNCHANGED <<planRow, results, token, scope, handlers, ran, crashes>>

\* Before a step: no cancellation and time left.
StepStart(p) ==
    /\ AtStep(p)
    /\ token[p] = "clear"
    /\ Local(p, "tool", job[p])
    /\ UNCHANGED <<rows, token, scope, handlers, ran, crashes>>

\* The cancellation check before a step, or after a successful one.
StepCancelled(p) ==
    /\ \/ AtStep(p)
       \/ pc[p] = "after" /\ job[p].outcome = "ok"
    /\ token[p] = "set"
    /\ SetState(p, "cancelled", "exception")
    /\ UNCHANGED <<planRow, results, token, scope, handlers, ran, crashes>>

\* The total timeout before a step, or after a successful one.
StepTimedOut(p) ==
    /\ \/ AtStep(p)
       \/ pc[p] = "after" /\ job[p].outcome = "ok"
    /\ token[p] = "clear"
    /\ SetState(p, "timed_out", "exception")
    /\ UNCHANGED <<planRow, results, token, scope, handlers, ran, crashes>>

\* _execute_step raises at once when the token is set; the record stays running.
ToolCancelled(p) ==
    /\ pc[p] = "tool"
    /\ token[p] = "set"
    /\ Local(p, "exception", job[p])
    /\ UNCHANGED <<rows, token, scope, handlers, ran, crashes>>

\* The tool does its work; the step counts as failed when it took too long.
ToolRuns(p, s) ==
    /\ pc[p] = "tool"
    /\ token[p] = "clear"
    /\ IsNext(p, s)
    /\ <<job[p].version, s>> \in Asks => scope[p] = job[p].task
    /\ \E outcome \in {"ok", "failed"} :
           Local(p, "save", [job[p] EXCEPT !.outcome = outcome])
    /\ ran' = [ran EXCEPT ![job[p].task] = @ \cup {<<job[p].version, s>>}]
    /\ UNCHANGED <<rows, token, scope, handlers, crashes>>

\* An unknown tool, a denial or a tool error: a failed result.
ToolFails(p) ==
    /\ pc[p] = "tool"
    /\ token[p] = "clear"
    /\ Local(p, "save", [job[p] EXCEPT !.outcome = "failed"])
    /\ UNCHANGED <<rows, token, scope, handlers, ran, crashes>>

\* save_step_result replaces any earlier result with the step's id.
StepSave(p, s) ==
    /\ pc[p] = "save"
    /\ IsNext(p, s)
    /\ results' = [results EXCEPT ![job[p].task][IdAt[job[p].version][s]] = job[p].outcome]
    /\ Local(p, "progress", job[p])
    /\ UNCHANGED <<planRow, taskRow, token, scope, handlers, ran, crashes>>

\* update_task writes the record, still running, after every step.
StepProgress(p) ==
    /\ pc[p] = "progress"
    /\ SetState(p, job[p].state, "after")
    /\ UNCHANGED <<planRow, results, token, scope, handlers, ran, crashes>>

\* Fault: the loop does not advance.
StepRepeated(p, s) ==
    /\ pc[p] = "after"
    /\ job[p].outcome = "ok"
    /\ token[p] = "clear"
    /\ IsNext(p, s)
    /\ Local(p, "step", job[p])
    /\ UNCHANGED <<rows, token, scope, handlers, ran, crashes>>

\* A successful step is done: on to the next one.
StepDone(p, s) ==
    /\ pc[p] = "after"
    /\ job[p].outcome = "ok"
    /\ token[p] = "clear"
    /\ IsNext(p, s)
    /\ Local(p, "step", [job[p] EXCEPT !.todo = @ \ {s}])
    /\ UNCHANGED <<rows, token, scope, handlers, ran, crashes>>

\* Fault: the loop goes on after a failed step.
StepIgnored(p) ==
    /\ pc[p] = "after"
    /\ job[p].outcome = "failed"
    /\ \E s \in Steps : IsNext(p, s) /\ Local(p, "step", [job[p] EXCEPT !.todo = @ \ {s}])
    /\ UNCHANGED <<rows, token, scope, handlers, ran, crashes>>

\* A failed step ends the loop: the task fails and the run returns.
StepFailed(p) ==
    /\ pc[p] = "after"
    /\ job[p].outcome = "failed"
    /\ SetState(p, "failed", "sync")
    /\ UNCHANGED <<planRow, results, token, scope, handlers, ran, crashes>>

\* No step is left: the task is completed.
ExecComplete(p) ==
    /\ pc[p] = "step"
    /\ job[p].todo = {}
    /\ SetState(p, "completed", "sync")
    /\ UNCHANGED <<planRow, results, token, scope, handlers, ran, crashes>>

-----------------------------------------------------------------------------
(* How run and resume end.                                                 *)

\* The executor raised: the stored row decides, failed unless it is terminal.
Exception(p) ==
    LET stored == taskRow[job[p].task].state
    IN  /\ pc[p] = "exception"
        /\ Local(p, "sync", [job[p] EXCEPT !.want =
                     IF stored \in TerminalStates THEN PlanStatusOf[stored] ELSE "failed"])
        /\ UNCHANGED <<rows, token, scope, handlers, ran, crashes>>

\* Fault: the terminal state is never mirrored.
SyncForgotten(p) ==
    /\ pc[p] = "sync"
    /\ Local(p, "exit", job[p])
    /\ UNCHANGED <<rows, token, scope, handlers, ran, crashes>>

\* The plan row takes the status decided on.
SyncPlan(p) ==
    /\ pc[p] = "synced"
    /\ SavePlan(job[p].plan, job[p].current, job[p].task, job[p].want)
    /\ Local(p, "exit", job[p])
    /\ UNCHANGED <<taskRow, results, token, scope, handlers, ran, crashes>>

\* Fault: the approval is not restored.
ExitScoped(p) ==
    /\ pc[p] = "exit"
    /\ Local(p, "idle", NoJob)
    /\ token' = [token EXCEPT ![p] = "none"]
    /\ canceller' = [canceller EXCEPT ![p].live = FALSE]
    /\ UNCHANGED <<rows, scope, approver, ran, crashes>>

\* finally: the approval is restored and the token leaves _tokens; a canceller
\* that has already fetched the token is left with a dead one.
Exit(p) ==
    /\ pc[p] = "exit"
    /\ Local(p, "idle", NoJob)
    /\ token' = [token EXCEPT ![p] = "none"]
    /\ Scoped(p, NoTask, job[p].granted)
    /\ canceller' = [canceller EXCEPT ![p].live = FALSE]
    /\ UNCHANGED <<rows, approver, ran, crashes>>

-----------------------------------------------------------------------------
(* TaskService.cancel, on a handler thread or in another process.          *)

\* cancel looks the task's token up in its own process.
CancelLookup(p, t) ==
    /\ canceller[p].pc = "idle"
    /\ taskRow[t].state # Absent
    /\ LET found == token[p] # "none" /\ job[p].task = t
       IN  canceller' = [canceller EXCEPT ![p] =
               [NoCancel EXCEPT !.pc = IF found THEN "set" ELSE "read",
                                !.task = t, !.live = found]]
    /\ UNCHANGED <<rows, workers, approver, ran, crashes>>

\* The token is set, which no longer matters when its run has ended.
CancelSet(p) ==
    /\ canceller[p].pc = "set"
    /\ token' = [token EXCEPT ![p] = IF canceller[p].live THEN "set" ELSE @]
    /\ canceller' = [canceller EXCEPT ![p] = NoCancel]
    /\ UNCHANGED <<rows, pc, job, scope, approver, ran, crashes>>

\* Without a token the stored row is read; a finished task is an error.
CancelRead(p) ==
    LET row == taskRow[canceller[p].task]
    IN  /\ canceller[p].pc = "read"
        /\ canceller' = [canceller EXCEPT ![p] =
               IF row.state \in TerminalStates THEN NoCancel
               ELSE [@ EXCEPT !.pc = "transition", !.row = row.state,
                              !.approved = row.approved]]
        /\ UNCHANGED <<rows, workers, approver, ran, crashes>>

\* The record read becomes cancelled and overwrites the row.
CancelWrite(p) ==
    /\ canceller[p].pc = "transition"
    /\ CanTransition(canceller[p].row, "cancelled")
    /\ taskRow' = [taskRow EXCEPT ![canceller[p].task] =
                      [plan |-> @.plan, state |-> "cancelled",
                       approved |-> canceller[p].approved]]
    /\ canceller' = [canceller EXCEPT ![p].pc = "reread"]
    /\ UNCHANGED <<planRow, results, workers, approver, ran, crashes>>

\* A refused transition is swallowed; the reply still says "cancelling".
CancelRefused(p) ==
    /\ canceller[p].pc = "transition"
    /\ ~CanTransition(canceller[p].row, "cancelled")
    /\ canceller' = [canceller EXCEPT ![p] = NoCancel]
    /\ UNCHANGED <<rows, workers, approver, ran, crashes>>

\* The cancelled task's plan is read.
CancelReread(p) ==
    /\ canceller[p].pc = "reread"
    /\ canceller' = [canceller EXCEPT ![p].pc = "mirror",
                        ![p].version = planRow[taskRow[canceller[p].task].plan].version]
    /\ UNCHANGED <<rows, workers, approver, ran, crashes>>

\* It is mirrored.
CancelMirror(p) ==
    /\ canceller[p].pc = "mirror"
    /\ SavePlan(taskRow[canceller[p].task].plan, canceller[p].version, canceller[p].task,
                "cancelled")
    /\ canceller' = [canceller EXCEPT ![p] = NoCancel]
    /\ UNCHANGED <<taskRow, results, workers, approver, ran, crashes>>

-----------------------------------------------------------------------------

\* The process dies and is started again: only the databases survive.
Crash(p) ==
    /\ crashes < MaxCrashes
    /\ crashes' = crashes + 1
    /\ Local(p, "idle", NoJob)
    /\ token' = [token EXCEPT ![p] = "none"]
    /\ scope' = [scope EXCEPT ![p] = NoTask]
    /\ approver' = [approver EXCEPT ![p] = NoApproval]
    /\ canceller' = [canceller EXCEPT ![p] = NoCancel]
    /\ UNCHANGED <<rows, ran>>

\* What a person starts: nothing makes these happen.
Request(p) ==
    /\ Free(p)
    /\ \/ \E pl \in Plans : CreatePlan(pl) \/ ApproveRead(p, pl)
       \/ \E pl \in Plans, approve \in Grants :
             \/ RunLoadStored(p, pl, approve)
             \/ \E v \in Versions : RunLoadFile(p, pl, v, approve)
       \/ \E t \in Tasks, approve \in Grants : ResumeLoad(p, t, approve)
       \/ \E t \in Tasks : CancelLookup(p, t)

\* The worker thread.
Work(p) ==
    \/ RunPersist(p) \/ (\E t \in Tasks : RunCreate(p, t)) \/ RunLink(p) \/ Register(p)
    \/ ResumePlan(p) \/ ResumeReopen(p) \/ ResumeRestart(p) \/ ResumeRelink(p)
    \/ ExecBegin(p) \/ ExecLoad(p) \/ ExecOrderFails(p) \/ ExecComplete(p)
    \/ StepOverCeiling(p) \/ StepStart(p) \/ StepCancelled(p) \/ StepTimedOut(p)
    \/ ToolCancelled(p) \/ (\E s \in Steps : ToolRuns(p, s)) \/ ToolFails(p)
    \/ (\E s \in Steps : StepSave(p, s)) \/ StepProgress(p)
    \/ (\E s \in Steps : StepDone(p, s)) \/ StepFailed(p)
    \/ Exception(p) \/ SyncRead(p) \/ SyncPlan(p) \/ Exit(p)

\* The handler threads that approve and cancel.
Handle(p) ==
    \/ ApproveWrite(p)
    \/ CancelSet(p) \/ CancelRead(p) \/ CancelWrite(p) \/ CancelRefused(p)
    \/ CancelReread(p) \/ CancelMirror(p)

Next == \E p \in Procs : Request(p) \/ Work(p) \/ Handle(p) \/ Crash(p)

Spec == Init /\ [][Next]_vars

\* Threads that have work keep running: tools are bounded by timeouts, and
\* SQLite writes by their busy timeout.
FairSpec == Spec /\ \A p \in Procs : WF_vars(Work(p)) /\ WF_vars(Handle(p))

-----------------------------------------------------------------------------
(* Properties.                                                             *)

WorkerPlaces == {"idle", "persist", "create", "link", "linked", "register", "fetch",
                 "reopen", "reregister", "restart", "relink", "relinked", "begin", "load",
                 "step", "tool", "save", "progress", "after", "exception", "sync", "synced",
                 "exit"}

PlanRows == [version : Versions \cup {NoVersion}, status : PlanStatuses \cup {Absent},
             task : Tasks \cup {NoTask}]

TaskRows == [plan : Plans \cup {NoPlan}, state : TaskStates \cup {Absent}, approved : BOOLEAN]

Approvals == [plan : Plans \cup {NoPlan}, version : Versions \cup {NoVersion},
              task : Tasks \cup {NoTask}]

Jobs == [plan : Plans \cup {NoPlan}, version : Versions \cup {NoVersion},
         current : Versions \cup {NoVersion}, task : Tasks \cup {NoTask},
         state : TaskStates, granted : BOOLEAN, approved : BOOLEAN, kept : SUBSET StepIds,
         todo : SUBSET Steps, outcome : {"none", "ok", "failed"}, want : PlanStatuses \ {"draft"}]

CancelJobs == [pc : {"idle", "set", "read", "transition", "reread", "mirror"},
               task : Tasks \cup {NoTask}, row : TaskStates \cup {Absent},
               approved : BOOLEAN, version : Versions \cup {NoVersion}, live : BOOLEAN]

\* Every variable holds a value of its type.
TypeOK ==
    /\ planRow \in [Plans -> PlanRows]
    /\ taskRow \in [Tasks -> TaskRows]
    /\ results \in [Tasks -> [StepIds -> {"none", "ok", "failed"}]]
    /\ pc \in [Procs -> WorkerPlaces]
    /\ job \in [Procs -> Jobs]
    /\ token \in [Procs -> {"none", "clear", "set"}]
    /\ scope \in [Procs -> Tasks \cup {NoTask}]
    /\ approver \in [Procs -> Approvals]
    /\ canceller \in [Procs -> CancelJobs]
    /\ \A p \in Procs : canceller[p].pc # "idle" => canceller[p].task \in Tasks
    /\ ran \in [Tasks -> SUBSET (Versions \X Steps)]
    /\ crashes \in 0..MaxCrashes

\* The ids of the steps of task t whose tool has done its work.
RanIds(t) == {IdAt[x[1]][x[2]] : x \in ran[t]}

\* Task t has run a version of plan pl: for the id of each step, a step of that id;
\* each step itself, when the plan has one version and its steps have ids of their own.
RanAll(t, pl) ==
    \E v \in VersionsOf(pl) :
        /\ IdsOf(v) \subseteq RanIds(t)
        /\ Unambiguous(pl) => {v} \X PlanSteps(v) \subseteq ran[t]

\* A task the database calls completed has run every step of its plan, whatever
\* races with the executor's overwriting of the row (TaskExecutor.execute).
CompletedRanAll ==
    \A t \in Tasks : taskRow[t].state = "completed" => RanAll(t, taskRow[t].plan)

\* A plan shown as completed is linked to a task that ran every step of it
\* (TaskService._sync_plan_status).
CompletedPlanRanAll ==
    \A pl \in Plans : planRow[pl].status = "completed" =>
        \E t \in Tasks : planRow[pl].task = t /\ RanAll(t, pl)

\* The tool of a step never runs before one with the id of each step that precedes
\* it in dependency order has, over any number of attempts: before those steps
\* themselves, in a plan whose ids name one step each (TaskExecutor.execute).
RunsInDependencyOrder ==
    \A t \in Tasks : \A x \in ran[t] :
        /\ IdsBefore(x[1], x[2]) \subseteq RanIds(t)
        /\ Unambiguous(taskRow[t].plan) => {x[1]} \X (1..x[2]) \subseteq ran[t]

\* No step runs that is not of a version which passed the human gate, or came as a
\* ready file, however the plan is replaced between two attempts
\* (PlanningService.approve, TaskService.run, TaskService.resume).
OnlyGatedStepsRun ==
    \A t \in Tasks : \A x \in ran[t] : x[1] \in Gated(taskRow[t].plan)

\* A completed task has a successful result recorded for every step id, also after
\* crashes and retries (TaskExecutor.execute, save_step_result).
CompletedRecordedAll ==
    \A t \in Tasks : taskRow[t].state = "completed" =>
        \E v \in VersionsOf(taskRow[t].plan) : IdsOf(v) \subseteq Recorded(t)

\* A resume never runs the tool of a step that is recorded as successful, unless
\* another step has its id (TaskExecutor.execute, "Only successful steps are
\* skipped").
RecordedStepsNotRerun ==
    [][\A p \in Procs, s \in Steps :
         pc[p] = "tool" /\ pc'[p] = "save" /\ IsNext(p, s) /\ DistinctIds(job[p].version) =>
             IdAt[job[p].version][s] \notin Recorded(job[p].task)]_vars

\* A tool that needs an approval runs only in an attempt that a person approved,
\* and for a task whose row already says so: no approval outlives the run it was
\* given for (_TaskScopedApprovalProvider, metadata.human_approved).
AskStepsAudited ==
    [][\A p \in Procs, s \in Steps :
         /\ pc[p] = "tool" /\ pc'[p] = "save" /\ IsNext(p, s)
         /\ job'[p].outcome = "ok" \/ ran' # ran
         /\ <<job[p].version, s>> \in Asks
         => job[p].granted /\ taskRow[job[p].task].approved]_vars

\* When a run or a resume returns, the plan shows the state of its task
\* (_PLAN_STATUS_BY_TASK_STATE), whatever crashes came before.
MirroredAtExit ==
    \A p \in Procs : pc[p] = "exit" =>
        LET row == planRow[job[p].plan]
        IN  row.status = PlanStatusOf[taskRow[job[p].task].state] /\ row.task = job[p].task

\* A run or resume that is not interrupted leaves its task in a terminal state.
ExitsTerminal ==
    \A p \in Procs : pc[p] = "exit" => taskRow[job[p].task].state \in TerminalStates

\* Every run and every resume ends: the worker is idle again.
RunsEnd == \A p \in Procs : pc[p] # "idle" ~> pc[p] = "idle"

\* Seen through the task database, a process that does one command at a time
\* keeps the contract of TaskContract, crashes included.
Contract == INSTANCE TaskContract WITH
    state <- [t \in Tasks |-> taskRow[t].state],
    plan <- [t \in Tasks |-> taskRow[t].plan],
    done <- [t \in Tasks |-> Recorded(t)]

\* The task tables implement the contract (TaskService, TaskExecutor).
ImplementsContract == Contract!Spec

-----------------------------------------------------------------------------
(* What the documentation and comments promise and the code does not do.   *)

\* docs/AUTONOMY.md: "RUNNING --all steps ok--> COMPLETED".  A completed task has
\* run every step of a version of its plan (TaskExecutor.execute).
CompletedRanEachStep ==
    \A t \in Tasks : taskRow[t].state = "completed" =>
        \E v \in VersionsOf(taskRow[t].plan) : {v} \X PlanSteps(v) \subseteq ran[t]

\* docs/INTERFACES.md: cancelling "works for the active task and persisted
\* pending/paused tasks".  When cancel has replied about a stored pending task
\* that no worker is executing, the task is not pending any more
\* (TaskService.cancel).
PendingCanBeCancelled ==
    [][\A p \in Procs :
         /\ canceller[p].pc = "transition" /\ canceller'[p].pc = "idle"
         /\ crashes' = crashes
         /\ \A q \in Procs : pc[q] = "idle"
         => taskRow'[canceller[p].task].state # "pending"]_vars

\* Nothing is in progress in any process.
Quiet ==
    \A p \in Procs : pc[p] = "idle" /\ approver[p] = NoApproval /\ canceller[p].pc = "idle"

\* docs/ARCHITECTURE.md: "The task service mirrors execution state onto the linked
\* plan".  When nothing is in progress and nothing has crashed, a plan linked to a
\* task shows the status its state maps to (_sync_plan_from_task).
MirroredWhenQuiet ==
    Quiet /\ crashes = 0 =>
        \A pl \in Plans, t \in Tasks : planRow[pl].task = t =>
            planRow[pl].status = PlanStatusOf[taskRow[t].state]

\* docs/ARCHITECTURE.md: "a finished task never leaves its plan stuck at READY"
\* (PlanningService.approve, TaskService.run).
NoFinishedTaskPlanReady ==
    Quiet => \A t \in Tasks : taskRow[t].state \in TerminalStates =>
                 planRow[taskRow[t].plan].status # "ready"

\* TaskService.resume: "Completed/cancelled tasks stay terminal".
FinalStaysFinal ==
    [][\A t \in Tasks : taskRow[t].state \in {"completed", "cancelled"} =>
                            taskRow'[t].state = taskRow[t].state]_vars

=============================================================================
