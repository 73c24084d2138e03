--------------------------- MODULE TaskLifecycle ---------------------------
(***************************************************************************)
(* The vocabulary shared by the task modules: the states of a task row,   *)
(* the states of a plan row, the transition table the task models         *)
(* enforce, and the mapping by which the task service mirrors a task's    *)
(* state onto its plan (greatsage/task/models.py, planning/models.py).    *)
(***************************************************************************)

\* No row with this id has been inserted yet.
Absent == "absent"

TaskStates == {"pending", "running", "paused",
               "completed", "failed", "cancelled", "timed_out"}

TerminalStates == {"completed", "failed", "cancelled", "timed_out"}

PlanStatuses == {"draft", "ready", "running", "completed", "failed", "cancelled"}

\* The targets the transition table lists for each state.
TaskTransitions ==
    [s \in TaskStates |->
        CASE s = "pending" -> {"running"}
          [] s = "running" -> {"paused"} \cup TerminalStates
          [] s = "paused"  -> {"running", "cancelled", "failed", "timed_out"}
          [] OTHER         -> {}]

\* TaskRecord.transition accepts a target in the table, or the same state.
CanTransition(from, to) == to = from \/ to \in TaskTransitions[from]

\* TaskRecord.reopen is allowed from these two terminal states only.
Reopenable == {"failed", "timed_out"}

\* _PLAN_STATUS_BY_TASK_STATE: the status a plan mirrors.
PlanStatusOf ==
    [s \in TaskStates |->
        CASE s \in {"pending", "running", "paused"} -> "running"
          [] s = "timed_out" -> "failed"
          [] OTHER -> s]

=============================================================================
