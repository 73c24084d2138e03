---------------------------- MODULE TaskContract ----------------------------
(***************************************************************************)
(* What the task subsystem promises about a task, seen through the task   *)
(* database: step ids are recorded as done one by one and in the order of  *)
(* a version of the plan while the task runs, a task is completed only     *)
(* when all the ids of a version are done, failed and timed-out tasks may  *)
(* be reopened with what is done kept, and completed and cancelled tasks   *)
(* stay as they are.  Only where steps share an id may a later failure     *)
(* take back what is done.                                                 *)
(***************************************************************************)
EXTENDS TaskLifecycle, PlanVersions

CONSTANTS
    Tasks,
    NoPlan       \* of a task that is not submitted

VARIABLES
    state,   \* the state of each task, Absent before it is submitted
    plan,    \* its plan
    done     \* the step ids recorded as successful

vars == <<state, plan, done>>

Init ==
    /\ state = [t \in Tasks |-> Absent]
    /\ plan = [t \in Tasks |-> NoPlan]
    /\ done = [t \in Tasks |-> {}]

\* A task is submitted for a plan that may run.
Submit(t) ==
    /\ state[t] = Absent
    /\ state' = [state EXCEPT ![t] = "pending"]
    /\ \E pl \in Plans : Gated(pl) # {} /\ plan' = [plan EXCEPT ![t] = pl]
    /\ UNCHANGED done

\* It starts, or goes on after an interruption.
Start(t) ==
    /\ state[t] \in {"pending", "paused"}
    /\ state' = [state EXCEPT ![t] = "running"]
    /\ UNCHANGED <<plan, done>>

\* The step at place s of version v is recorded as done, after those before it.
Record(t, v, s) ==
    /\ state[t] = "running"
    /\ v \in VersionsOf(plan[t])
    /\ IdsBefore(v, s) \subseteq done[t]
    /\ done' = [done EXCEPT ![t] = @ \cup {IdAt[v][s]}]
    /\ UNCHANGED <<state, plan>>

\* A step that shares its id with one that is done has failed.
TakeBack(t, v, s) ==
    /\ state[t] = "running"
    /\ v \in VersionsOf(plan[t])
    /\ ~DistinctIds(v)
    /\ done' = [done EXCEPT ![t] = @ \ {IdAt[v][s]}]
    /\ UNCHANGED <<state, plan>>

\* It ends; completed takes all the steps of a version.
Conclude(t, to) ==
    /\ state[t] = "running"
    /\ CanTransition("running", to)
    /\ to = "completed" => \E v \in VersionsOf(plan[t]) : IdsOf(v) \subseteq done[t]
    /\ state' = [state EXCEPT ![t] = to]
    /\ UNCHANGED <<plan, done>>

\* A person resumes a failed or timed-out task; what is done stays done.
Reopen(t) ==
    /\ state[t] \in Reopenable
    /\ state' = [state EXCEPT ![t] = "pending"]
    /\ UNCHANGED <<plan, done>>

Next ==
    \E t \in Tasks :
        \/ Submit(t) \/ Start(t) \/ Reopen(t)
        \/ \E v \in Versions, s \in Steps :
              s \in PlanSteps(v) /\ (Record(t, v, s) \/ TakeBack(t, v, s))
        \/ \E to \in TerminalStates : Conclude(t, to)

Spec == Init /\ [][Next]_vars

=============================================================================
