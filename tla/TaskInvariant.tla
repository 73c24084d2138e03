--------------------------- MODULE TaskInvariant ---------------------------
(***************************************************************************)
(* The inductive invariant behind the safety properties of TaskExecution:  *)
(* what the databases, the handlers in progress and every worker know of   *)
(* one another at each point where another process may act.  It speaks of  *)
(* step ids; what it says of steps follows where the ids name them.        *)
(***************************************************************************)
EXTENDS TaskExecution

\* What ran is of the task's plan, of a version that may run, and after a step of
\* each id that comes before.
RanKnown ==
    \A t \in Tasks : \A x \in ran[t] :
        /\ taskRow[t].state # Absent
        /\ x[1] \in Gated(taskRow[t].plan)
        /\ x[2] \in PlanSteps(x[1])
        /\ IdsBefore(x[1], x[2]) \subseteq RanIds(t)

\* A recorded success is of a step whose tool ran.
RecordedRan == \A t \in Tasks : Recorded(t) \subseteq RanIds(t)

\* Plan pl has been ready once: it is not a draft any more.
WasReady(pl) == planRow[pl].status \notin {Absent, "draft"}

\* A plan that has been ready once has a version that may run; approvals in
\* progress have one as well.
ReadyGated ==
    /\ \A pl \in Plans : planRow[pl].status = "draft" => planRow[pl].version \in Drafts[pl]
    /\ \A pl \in Plans : WasReady(pl) => planRow[pl].version \in Gated(pl)
    /\ \A p \in Procs : approver[p] # NoApproval => approver[p].version \in Gated(approver[p].plan)

\* A task has a plan that has been ready.
TasksPlanned ==
    \A t \in Tasks : taskRow[t].state # Absent =>
        /\ taskRow[t].plan \in Plans
        /\ WasReady(taskRow[t].plan)

\* A cancel request is about a task that has a row, and mirrors a version that may run.
CancelsKnown ==
    \A p \in Procs : canceller[p].pc # "idle" =>
        /\ taskRow[canceller[p].task].state # Absent
        /\ canceller[p].pc = "mirror" =>
              canceller[p].version \in Gated(taskRow[canceller[p].task].plan)

\* Task t has run a step of the id of each step of a version of plan pl.
IdsRan(t, pl) == \E v \in VersionsOf(pl) : IdsOf(v) \subseteq RanIds(t)

CompletedIdsRan ==
    \A t \in Tasks : taskRow[t].state = "completed" => IdsRan(t, taskRow[t].plan)

CompletedPlanIdsRan ==
    \A pl \in Plans : planRow[pl].status = "completed" =>
        \E t \in Tasks : planRow[pl].task = t /\ taskRow[t].plan = pl /\ IdsRan(t, pl)

\* Where a worker holds a plan but no task, and where it holds a task.
Unassigned == {"persist", "create"}
Assigned == WorkerPlaces \ ({"idle"} \cup Unassigned)

\* Where the worker has read its plan, and where it is about to save one it has re-read.
Planned == WorkerPlaces \ {"idle", "fetch"}
Resaving == {"linked", "relinked", "synced"}

\* Where the todo set is in use, and where the next step has been attempted.
Looping == {"step", "tool", "save", "progress", "after"}
Attempted == {"save", "progress", "after"}

\* A worker without a task has no result; one with a task agrees with the task's row
\* about the plan.  The versions it has read may run.
HasPlan(p) ==
    /\ pc[p] # "idle" => job[p].plan \in Plans
    /\ pc[p] \in Planned => job[p].version \in Gated(job[p].plan)
    /\ pc[p] \in Resaving => job[p].current \in Gated(job[p].plan)
    /\ pc[p] = "create" => WasReady(job[p].plan)
    /\ pc[p] \in Unassigned => job[p].want # "completed"
    /\ pc[p] \in Assigned =>
          /\ job[p].task \in Tasks
          /\ taskRow[job[p].task].state # Absent
          /\ taskRow[job[p].task].plan = job[p].plan

\* A worker that will write completed has seen every step id run.
KnowsDone(p) ==
    pc[p] \in Assigned /\ (job[p].state = "completed" \/ job[p].want = "completed") =>
        IdsRan(job[p].task, job[p].plan)

\* What is not left to do has run under its id; a step about to be recorded has run.
LoopsOverRest(p) ==
    /\ pc[p] \in Looping =>
          /\ job[p].todo \subseteq PlanSteps(job[p].version)
          /\ \A s \in PlanSteps(job[p].version) \ job[p].todo :
                IdAt[job[p].version][s] \in RanIds(job[p].task)
    /\ pc[p] \in Attempted /\ job[p].outcome = "ok" =>
          \A s \in Steps : IsNext(p, s) => IdAt[job[p].version][s] \in RanIds(job[p].task)

WorkerOK(p) == HasPlan(p) /\ KnowsDone(p) /\ LoopsOverRest(p)

RowsOK ==
    /\ RanKnown
    /\ RecordedRan
    /\ ReadyGated
    /\ TasksPlanned
    /\ CancelsKnown
    /\ CompletedIdsRan
    /\ CompletedPlanIdsRan

\* What the proofs of the safety properties rest on: the rows and the workers
\* agree at every interleaving point (TaskService, TaskExecutor).
TaskInv ==
    /\ TypeOK
    /\ RowsOK
    /\ \A p \in Procs : WorkerOK(p)

=============================================================================
