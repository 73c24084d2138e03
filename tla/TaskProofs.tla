----------------------------- MODULE TaskProofs -----------------------------
(***************************************************************************)
(* First the safety properties of TaskExecution for every set of           *)
(* processes, plans, versions and tasks, every plan length and every       *)
(* number of crashes: TaskInv is inductive, and implies them.              *)
(*                                                                         *)
(* Then what holds when one process does one command at a time, as the     *)
(* command line does: its tables implement TaskContract, a run leaves a    *)
(* plan that shows its task, no recorded step runs again and every tool    *)
(* that needs an approval is audited.  With handler threads, or a second   *)
(* process, none of these holds: what a worker remembers of its task may   *)
(* be overtaken by the row.  Crashes are allowed, as many as there may be. *)
(***************************************************************************)
EXTENDS TaskInvariant, TLAPS

-----------------------------------------------------------------------------
(* Types                                                                   *)

\* The mapped status is never draft, and completed only for completed.
LEMMA MappedStatus ==
    ASSUME NEW s \in TaskStates
    PROVE  /\ PlanStatusOf[s] \in PlanStatuses \ {"draft"}
           /\ PlanStatusOf[s] = "completed" => s = "completed"
  BY DEF PlanStatusOf, PlanStatuses, TaskStates

\* Versions that may run are versions; versions have steps, with an id each.
LEMMA VersionTypes ==
    /\ \A pl \in Plans : Gated(pl) \subseteq VersionsOf(pl) /\ VersionsOf(pl) \subseteq Versions
    /\ \A v \in Versions : PlanSteps(v) \subseteq Steps /\ 1 \in PlanSteps(v)
    /\ \A v \in Versions, s \in Steps : IdAt[v][s] \in StepIds
  BY VersionAssumption DEF Gated, VersionsOf, PlanSteps, Steps

\* What an idle process holds is well typed.
LEMMA JobType ==
    /\ NoJob \in Jobs
    /\ NoCancel \in CancelJobs /\ NoCancel.pc = "idle"
    /\ NoApproval \in Approvals
  BY DEF NoJob, Jobs, NoCancel, CancelJobs, NoApproval, Approvals, TaskStates, PlanStatuses, Absent

\* Updating a cancel request keeps its type.
LEMMA CancelUpdates ==
    ASSUME NEW c \in CancelJobs
    PROVE  /\ [c EXCEPT !.live = FALSE] \in CancelJobs
           /\ [c EXCEPT !.pc = "reread"] \in CancelJobs
           /\ \A v \in Versions \cup {NoVersion} :
                 [c EXCEPT !.pc = "mirror", !.version = v] \in CancelJobs
           /\ \A row \in TaskStates \cup {Absent}, approved \in BOOLEAN :
                 [c EXCEPT !.pc = "transition", !.row = row, !.approved = approved]
                     \in CancelJobs
  <1>1. [c EXCEPT !.live = FALSE] \in CancelJobs
    BY DEF CancelJobs
  <1>2. [c EXCEPT !.pc = "reread"] \in CancelJobs
    BY DEF CancelJobs
  <1>3. ASSUME NEW v \in Versions \cup {NoVersion}
        PROVE  [c EXCEPT !.pc = "mirror", !.version = v] \in CancelJobs
    BY DEF CancelJobs
  <1>4. ASSUME NEW row \in TaskStates \cup {Absent}, NEW approved \in BOOLEAN
        PROVE  [c EXCEPT !.pc = "transition", !.row = row, !.approved = approved]
                   \in CancelJobs
    BY DEF CancelJobs
  <1> QED
    BY <1>1, <1>2, <1>3, <1>4

\* Replacing a cancel request by a well-typed one keeps the type of them all.
LEMMA CancelType ==
    ASSUME TypeOK, NEW p \in Procs, NEW c \in CancelJobs,
           c.pc # "idle" => c.task \in Tasks,
           canceller' = [canceller EXCEPT ![p] = c]
    PROVE  /\ canceller' \in [Procs -> CancelJobs]
           /\ \A q \in Procs : canceller'[q].pc # "idle" => canceller'[q].task \in Tasks
  BY DEF TypeOK

\* Saving a plan keeps the type of the planning database.
LEMMA SavePlanType ==
    ASSUME TypeOK, NEW pl, NEW v \in Versions \cup {NoVersion},
           NEW t \in Tasks \cup {NoTask}, NEW status \in PlanStatuses,
           SavePlan(pl, v, t, status)
    PROVE  planRow' \in [Plans -> PlanRows]
  <1>1. [version |-> v, status |-> status, task |-> t] \in PlanRows
    BY DEF PlanRows
  <1> QED
    BY <1>1 DEF TypeOK, SavePlan

\* So does scoping an approval with that of the approvals.
LEMMA ScopedType ==
    ASSUME TypeOK, NEW p \in Procs, NEW t \in Tasks \cup {NoTask}, NEW granted \in BOOLEAN,
           Scoped(p, t, granted)
    PROVE  scope' \in [Procs -> Tasks \cup {NoTask}]
  <1>1. (IF granted THEN t ELSE scope[p]) \in Tasks \cup {NoTask}
    BY DEF TypeOK
  <1>2. scope' = [scope EXCEPT ![p] = IF granted THEN t ELSE scope[p]]
    BY DEF Scoped, TypeOK
  <1> DEFINE answer == IF granted THEN t ELSE scope[p]
  <1> HIDE DEF answer
  <1> QED
    BY <1>1, <1>2 DEF TypeOK, answer

\* The type invariant (TypeOK): every reachable state is well typed, for all
\* values of the constants.
LEMMA InitType == Init => TypeOK
  BY JobType, ProcAssumption DEF Init, TypeOK, WorkerPlaces, NoRow, Absent, PlanRows, TaskRows

LEMMA RequestType ==
    ASSUME TypeOK, NEW p \in Procs, Request(p)
    PROVE  TypeOK'
  <1> USE DEF TypeOK, WorkerPlaces
  <1>1. ASSUME NEW pl \in Plans, CreatePlan(pl) PROVE TypeOK'
    <2>1. PICK v \in Drafts[pl] : SavePlan(pl, v, NoTask, "draft")
      BY <1>1 DEF CreatePlan
    <2>2. v \in Versions
      BY VersionAssumption
    <2>3. planRow' \in [Plans -> PlanRows]
      BY <2>1, <2>2, SavePlanType DEF PlanStatuses
    <2> QED
      BY <1>1, <2>3 DEF CreatePlan, workers, handlers
  <1>2. ASSUME NEW pl \in Plans, ApproveRead(p, pl) PROVE TypeOK'
    <2>1. planRow[pl] \in PlanRows
      OBVIOUS
    <2>2. [plan |-> pl, version |-> planRow[pl].version, task |-> planRow[pl].task] \in Approvals
      BY <2>1 DEF PlanRows, Approvals
    <2> QED
      BY <1>2, <2>2 DEF ApproveRead, workers, rows
  <1>3. ASSUME NEW pl \in Plans, NEW approve \in BOOLEAN, RunLoadStored(p, pl, approve)
        PROVE  TypeOK'
    <2>1. planRow[pl] \in PlanRows
      OBVIOUS
    <2>2. [NoJob EXCEPT !.plan = pl, !.version = planRow[pl].version, !.task = planRow[pl].task,
                        !.granted = approve, !.approved = approve] \in Jobs
      BY <2>1, JobType DEF PlanRows, Jobs
    <2> QED
      BY <1>3, <2>2 DEF RunLoadStored, Local, rows, handlers
  <1>4. ASSUME NEW pl \in Plans, NEW v \in Versions, NEW approve \in BOOLEAN,
               RunLoadFile(p, pl, v, approve)
        PROVE  TypeOK'
    <2>1. [NoJob EXCEPT !.plan = pl, !.version = v, !.granted = approve, !.approved = approve]
              \in Jobs
      BY JobType DEF Jobs
    <2> QED
      BY <1>4, <2>1 DEF RunLoadFile, Local, rows, handlers
  <1>5. ASSUME NEW t \in Tasks, NEW approve \in BOOLEAN, ResumeLoad(p, t, approve)
        PROVE  TypeOK'
    <2>1. taskRow[t] \in TaskRows /\ taskRow[t].state # Absent
      BY <1>5 DEF ResumeLoad
    <2>2. [NoJob EXCEPT !.plan = taskRow[t].plan, !.task = t, !.state = taskRow[t].state,
                        !.granted = approve, !.approved = taskRow[t].approved] \in Jobs
      BY <2>1, JobType DEF TaskRows, Jobs
    <2> QED
      BY <1>5, <2>2 DEF ResumeLoad, Local, rows, handlers
  <1>6. ASSUME NEW t \in Tasks, CancelLookup(p, t) PROVE TypeOK'
    BY <1>6, JobType DEF CancelLookup, rows, workers, CancelJobs
  <1>7. Grants \subseteq BOOLEAN
    BY ProcAssumption
  <1> QED
    BY <1>1, <1>2, <1>3, <1>4, <1>5, <1>6, <1>7 DEF Request

\* Updating a field of a job keeps its type.
LEMMA JobUpdates ==
    ASSUME NEW j \in Jobs
    PROVE  /\ \A t \in Tasks, state \in TaskStates :
                 [j EXCEPT !.task = t, !.state = state] \in Jobs
           /\ \A state \in TaskStates, want \in PlanStatuses \ {"draft"} :
                 [j EXCEPT !.state = state, !.want = want] \in Jobs
           /\ \A approved \in BOOLEAN : [j EXCEPT !.approved = approved] \in Jobs
           /\ \A v \in Versions \cup {NoVersion} :
                 [j EXCEPT !.version = v] \in Jobs /\ [j EXCEPT !.current = v] \in Jobs
           /\ \A kept \in SUBSET StepIds, todo \in SUBSET Steps :
                 [j EXCEPT !.kept = kept, !.todo = todo] \in Jobs
           /\ \A todo \in SUBSET Steps : [j EXCEPT !.todo = todo] \in Jobs
           /\ \A outcome \in {"ok", "failed"} : [j EXCEPT !.outcome = outcome] \in Jobs
           /\ \A want \in PlanStatuses \ {"draft"} : [j EXCEPT !.want = want] \in Jobs
  BY DEF Jobs

\* A worker step with a well-typed job keeps the worker's types.
LEMMA LocalType ==
    ASSUME TypeOK, NEW p \in Procs, NEW to \in WorkerPlaces, NEW j \in Jobs, Local(p, to, j)
    PROVE  pc' \in [Procs -> WorkerPlaces] /\ job' \in [Procs -> Jobs]
  BY DEF TypeOK, Local

LEMMA SetStateType ==
    ASSUME TypeOK, NEW p \in Procs, NEW state \in TaskStates, NEW to \in WorkerPlaces,
           SetState(p, state, to)
    PROVE  /\ taskRow' \in [Tasks -> TaskRows]
           /\ pc' \in [Procs -> WorkerPlaces] /\ job' \in [Procs -> Jobs]
  <1>1. job[p] \in Jobs
    BY DEF TypeOK
  <1>2. [job[p] EXCEPT !.state = state, !.want = PlanStatusOf[state]] \in Jobs
    BY <1>1, JobUpdates, MappedStatus
  <1>3. pc' \in [Procs -> WorkerPlaces] /\ job' \in [Procs -> Jobs]
    BY <1>2, LocalType DEF SetState
  <1>4. [plan |-> job[p].plan, state |-> state, approved |-> job[p].approved] \in TaskRows
    BY <1>1 DEF Jobs, TaskRows
  <1> QED
    BY <1>3, <1>4 DEF SetState, TypeOK

\* The steps of a worker that write its plan's row, its task's row, or neither.
Saves(p) == RunPersist(p) \/ RunLink(p) \/ ResumeRelink(p) \/ SyncPlan(p)
Updates(p) ==
    \/ ResumeReopen(p) \/ ResumeRestart(p) \/ ExecBegin(p) \/ ExecOrderFails(p)
    \/ StepOverCeiling(p) \/ StepCancelled(p) \/ StepTimedOut(p) \/ StepProgress(p)
    \/ StepFailed(p) \/ ExecComplete(p)
Reads(p) ==
    \/ Register(p) \/ SyncRead(p) \/ ResumePlan(p) \/ ExecLoad(p)
    \/ StepStart(p) \/ ToolCancelled(p) \/ ToolFails(p) \/ (\E s \in Steps : StepDone(p, s))
    \/ Exception(p) \/ Exit(p)

LEMMA WorkCases ==
    ASSUME NEW p \in Procs, Work(p)
    PROVE  \/ Saves(p) \/ Updates(p) \/ Reads(p)
           \/ (\E t \in Tasks : RunCreate(p, t))
           \/ (\E s \in Steps : ToolRuns(p, s)) \/ (\E s \in Steps : StepSave(p, s))
  BY Zenon DEF Work, Saves, Updates, Reads

LEMMA WorkType ==
    ASSUME TypeOK, NEW p \in Procs, HasPlan(p), Work(p)
    PROVE  TypeOK'
  <1>1. /\ job[p] \in Jobs
        /\ {"persist", "create", "link", "linked", "register", "fetch", "reopen", "reregister",
            "restart", "relink", "relinked", "begin", "step", "tool", "save", "progress",
            "exit", "idle", "exception", "sync", "synced"} \subseteq WorkerPlaces
    BY DEF TypeOK, WorkerPlaces
  <1>2. /\ job[p].plan \in Plans \cup {NoPlan} /\ job[p].version \in Versions \cup {NoVersion}
        /\ job[p].current \in Versions \cup {NoVersion} /\ job[p].task \in Tasks \cup {NoTask}
        /\ job[p].state \in TaskStates /\ job[p].granted \in BOOLEAN
        /\ job[p].approved \in BOOLEAN /\ job[p].todo \subseteq Steps
        /\ job[p].outcome \in {"none", "ok", "failed"} /\ job[p].want \in PlanStatuses
    BY <1>1 DEF Jobs
  <1>3. CASE Saves(p)
    <2> USE <1>3 DEF Saves, RunPersist, RunLink, ResumeRelink, SyncPlan
    <2>1. pc' \in [Procs -> WorkerPlaces] /\ job' \in [Procs -> Jobs]
      BY <1>1, JobType, LocalType
    <2>2. \E v \in Versions \cup {NoVersion}, status \in PlanStatuses :
              SavePlan(job[p].plan, v, job[p].task, status)
      BY <1>2 DEF PlanStatuses
    <2>3. planRow' \in [Plans -> PlanRows]
      BY <1>2, <2>2, SavePlanType
    <2> QED
      BY <2>1, <2>3 DEF handlers, TypeOK
  <1>4. ASSUME NEW t \in Tasks, RunCreate(p, t) PROVE TypeOK'
    <2>1. [job[p] EXCEPT !.task = t, !.state = "pending"] \in Jobs
      BY <1>1, JobUpdates DEF TaskStates
    <2>2. pc' \in [Procs -> WorkerPlaces] /\ job' \in [Procs -> Jobs]
      BY <1>1, <1>4, <2>1, LocalType DEF RunCreate
    <2>3. [plan |-> job[p].plan, state |-> "pending", approved |-> job[p].approved] \in TaskRows
      BY <1>2 DEF TaskRows, TaskStates
    <2> QED
      BY <1>4, <2>2, <2>3 DEF RunCreate, handlers, TypeOK
  <1>5. CASE Updates(p)
    <2>1. \E state \in TaskStates, to \in WorkerPlaces :
             /\ SetState(p, state, to)
             /\ UNCHANGED <<planRow, results, token, scope, handlers, ran, crashes>>
      BY <1>2, <1>5 DEF Updates, ResumeReopen, ResumeRestart, ExecBegin, ExecOrderFails,
         StepOverCeiling, StepCancelled, StepTimedOut, StepProgress, StepFailed, ExecComplete,
         TaskStates, WorkerPlaces
    <2> QED
      BY <2>1, SetStateType DEF handlers, TypeOK
  <1>6. CASE Register(p)
    <2> DEFINE recorded == job[p].approved \/ job[p].granted
    <2>1. [job[p] EXCEPT !.approved = recorded] \in Jobs
      <3>1. recorded \in BOOLEAN
        OBVIOUS
      <3> HIDE DEF recorded
      <3> QED BY <1>1, <3>1, JobUpdates
    <2>2. pc' \in [Procs -> WorkerPlaces] /\ job' \in [Procs -> Jobs]
      BY <1>1, <1>6, <2>1, LocalType DEF Register
    <2>3. scope' \in [Procs -> Tasks \cup {NoTask}]
      BY <1>2, <1>6, ScopedType DEF Register
    <2> QED
      BY <1>6, <2>2, <2>3 DEF Register, rows, handlers, TypeOK
  <1>7. CASE SyncRead(p)
    <2> DEFINE j == [job[p] EXCEPT !.current = planRow[job[p].plan].version]
    <2>1. planRow[job[p].plan].version \in Versions \cup {NoVersion}
      BY <1>7 DEF SyncRead, HasPlan, TypeOK, PlanRows
    <2>2. j \in Jobs
      BY <1>1, <2>1, JobUpdates
    <2> HIDE DEF j
    <2>3. pc' \in [Procs -> WorkerPlaces] /\ job' \in [Procs -> Jobs]
      BY <1>1, <1>7, <2>2, LocalType DEF SyncRead, j
    <2> QED
      BY <1>7, <2>3 DEF SyncRead, rows, handlers, TypeOK
  <1>8. CASE ResumePlan(p)
    <2> DEFINE j == [job[p] EXCEPT !.version = planRow[job[p].plan].version]
    <2>1. planRow[job[p].plan].version \in Versions \cup {NoVersion}
      BY <1>8 DEF ResumePlan, HasPlan, TypeOK, PlanRows
    <2>2. j \in Jobs
      BY <1>1, <2>1, JobUpdates
    <2>5. j.state = job[p].state
      BY <1>1 DEF Jobs
    <2> HIDE DEF j
    <2>3. [j EXCEPT !.want = PlanStatusOf[j.state]] \in Jobs
      BY <1>2, <2>2, <2>5, JobUpdates, MappedStatus
    <2>4. pc' \in [Procs -> WorkerPlaces] /\ job' \in [Procs -> Jobs]
      BY <1>1, <1>8, <2>2, <2>3, LocalType DEF ResumePlan, j
    <2> QED
      BY <1>8, <2>4 DEF ResumePlan, rows, handlers, TypeOK
  <1>9. CASE ExecLoad(p)
    <2> DEFINE kept == Recorded(job[p].task)
               todo == {s \in PlanSteps(job[p].version) : IdAt[job[p].version][s] \notin kept}
    <2>1. job[p].version \in Versions
      BY <1>9, VersionAssumption DEF ExecLoad
    <2>2. kept \in SUBSET StepIds /\ todo \in SUBSET Steps
      BY <2>1, VersionTypes DEF Recorded
    <2> HIDE DEF kept, todo
    <2>3. pc' \in [Procs -> WorkerPlaces] /\ job' \in [Procs -> Jobs]
      BY <1>1, <1>9, <2>2, JobUpdates, LocalType DEF ExecLoad, kept, todo
    <2> QED
      BY <1>9, <2>3 DEF ExecLoad, rows, handlers, TypeOK
  <1>10. CASE StepStart(p) \/ ToolCancelled(p) \/ ToolFails(p)
    <2>1. pc' \in [Procs -> WorkerPlaces] /\ job' \in [Procs -> Jobs]
      BY <1>1, <1>10, JobUpdates, LocalType DEF StepStart, ToolCancelled, ToolFails
    <2> QED
      BY <1>10, <2>1 DEF StepStart, ToolCancelled, ToolFails, rows, handlers, TypeOK
  <1>11. ASSUME NEW s \in Steps, ToolRuns(p, s) PROVE TypeOK'
    <2>1. pc' \in [Procs -> WorkerPlaces] /\ job' \in [Procs -> Jobs]
      BY <1>1, <1>11, JobUpdates, LocalType DEF ToolRuns
    <2>2. <<job[p].version, s>> \in Versions \X Steps
      <3>1. job[p].version \in Gated(job[p].plan) /\ job[p].plan \in Plans
        BY <1>11 DEF ToolRuns, HasPlan, Planned, WorkerPlaces
      <3> QED
        BY <3>1, VersionTypes
    <2>3. ran' \in [Tasks -> SUBSET (Versions \X Steps)]
      BY <1>11, <2>2 DEF ToolRuns, TypeOK
    <2> QED
      BY <1>11, <2>1, <2>3 DEF ToolRuns, rows, handlers, TypeOK
  <1>12. ASSUME NEW s \in Steps, StepSave(p, s) PROVE TypeOK'
    <2>1. pc' \in [Procs -> WorkerPlaces] /\ job' \in [Procs -> Jobs]
      BY <1>1, <1>12, LocalType DEF StepSave
    <2> QED
      BY <1>2, <1>12, <2>1 DEF StepSave, handlers, TypeOK
  <1>13. ASSUME NEW s \in Steps, StepDone(p, s) PROVE TypeOK'
    <2>1. job[p].todo \ {s} \in SUBSET Steps
      BY <1>2
    <2>2. pc' \in [Procs -> WorkerPlaces] /\ job' \in [Procs -> Jobs]
      BY <1>1, <1>13, <2>1, JobUpdates, LocalType DEF StepDone
    <2> QED
      BY <1>13, <2>2 DEF StepDone, rows, handlers, TypeOK
  <1>14. CASE Exception(p)
    <2> DEFINE stored == taskRow[job[p].task].state
               want == IF stored \in TerminalStates THEN PlanStatusOf[stored] ELSE "failed"
    <2>1. want \in PlanStatuses \ {"draft"}
      BY MappedStatus DEF TerminalStates, TaskStates, PlanStatuses
    <2> HIDE DEF want
    <2>2. pc' \in [Procs -> WorkerPlaces] /\ job' \in [Procs -> Jobs]
      BY <1>1, <1>14, <2>1, JobUpdates, LocalType DEF Exception, want
    <2> QED
      BY <1>14, <2>2 DEF Exception, rows, handlers, TypeOK
  <1>15. CASE Exit(p)
    <2>1. pc' \in [Procs -> WorkerPlaces] /\ job' \in [Procs -> Jobs]
      BY <1>1, <1>15, JobType, LocalType DEF Exit
    <2>2. canceller[p] \in CancelJobs
      BY DEF TypeOK
    <2>3. [canceller[p] EXCEPT !.live = FALSE] \in CancelJobs
      BY <2>2, CancelUpdates
    <2>4. /\ canceller' \in [Procs -> CancelJobs]
          /\ \A q \in Procs : canceller'[q].pc # "idle" => canceller'[q].task \in Tasks
      BY <1>15, <2>3 DEF Exit, TypeOK, CancelJobs
    <2>5. scope' \in [Procs -> Tasks \cup {NoTask}]
      BY <1>2, <1>15, ScopedType DEF Exit
    <2> QED
      BY <1>15, <2>1, <2>4, <2>5 DEF Exit, rows, TypeOK
  <1>16. Reads(p) => TypeOK'
    BY <1>6, <1>7, <1>8, <1>9, <1>10, <1>13, <1>14, <1>15 DEF Reads
  <1> QED
    BY <1>3, <1>4, <1>5, <1>11, <1>12, <1>16, WorkCases

LEMMA HandleType ==
    ASSUME TypeOK, TasksPlanned, CancelsKnown, NEW p \in Procs, Handle(p) \/ Crash(p)
    PROVE  TypeOK'
  <1>0. canceller[p] \in CancelJobs /\ NoCancel \in CancelJobs /\ NoCancel.pc = "idle"
    BY JobType DEF TypeOK
  <1>1. CASE ApproveWrite(p)
    <2>1. approver[p] \in Approvals
      BY DEF TypeOK
    <2>2. approver[p].task \in Tasks \cup {NoTask} /\ approver[p].version \in Versions \cup {NoVersion}
      BY <2>1 DEF Approvals
    <2> QED
      BY <1>1, <2>2, JobType, SavePlanType DEF ApproveWrite, workers, PlanStatuses, TypeOK
  <1>2. CASE CancelSet(p)
    BY <1>0, <1>2, CancelType DEF CancelSet, rows, TypeOK
  <1>3. CASE CancelRead(p)
    <2> DEFINE row == taskRow[canceller[p].task]
               c == IF row.state \in TerminalStates THEN NoCancel
                    ELSE [canceller[p] EXCEPT !.pc = "transition", !.row = row.state,
                                              !.approved = row.approved]
    <2>1. canceller[p].task \in Tasks
      BY <1>3 DEF CancelRead, TypeOK
    <2>2. row.state \in TaskStates \cup {Absent} /\ row.approved \in BOOLEAN
      BY <2>1 DEF TypeOK, TaskRows
    <2>3. c \in CancelJobs
      BY <1>0, <2>2, CancelUpdates
    <2>4. c.pc # "idle" => c.task \in Tasks
      BY <1>0, <2>1 DEF CancelJobs
    <2>5. canceller' = [canceller EXCEPT ![p] = c]
      BY <1>3 DEF CancelRead, TypeOK
    <2> HIDE DEF c
    <2> QED
      BY <1>3, <2>3, <2>4, <2>5, CancelType DEF CancelRead, rows, workers, TypeOK
  <1>4. CASE CancelWrite(p)
    <2>1. canceller[p].task \in Tasks /\ canceller[p].approved \in BOOLEAN
      BY <1>0, <1>4 DEF CancelWrite, CancelJobs, TypeOK
    <2>2. [canceller[p] EXCEPT !.pc = "reread"] \in CancelJobs
      BY <1>0, CancelUpdates
    <2>3. /\ canceller' \in [Procs -> CancelJobs]
          /\ \A q \in Procs : canceller'[q].pc # "idle" => canceller'[q].task \in Tasks
      BY <1>4, <2>1, <2>2 DEF CancelWrite, TypeOK, CancelJobs
    <2>4. taskRow' \in [Tasks -> TaskRows]
      <3>1. [plan |-> taskRow[canceller[p].task].plan, state |-> "cancelled",
             approved |-> canceller[p].approved] \in TaskRows
        BY <2>1 DEF TypeOK, TaskRows, TaskStates
      <3> QED
        BY <1>4, <2>1, <3>1 DEF CancelWrite, TypeOK
    <2> QED
      BY <1>4, <2>3, <2>4 DEF CancelWrite, workers, TypeOK
  <1>5. CASE CancelRefused(p)
    BY <1>0, <1>5, CancelType DEF CancelRefused, rows, workers, TypeOK
  <1>6. CASE CancelReread(p)
    <2> DEFINE v == planRow[taskRow[canceller[p].task].plan].version
               c == [canceller[p] EXCEPT !.pc = "mirror", !.version = v]
    <2>1. canceller[p].task \in Tasks /\ taskRow[canceller[p].task].plan \in Plans
      BY <1>6 DEF CancelReread, TypeOK, CancelsKnown, TasksPlanned
    <2>2. v \in Versions \cup {NoVersion}
      BY <2>1 DEF TypeOK, PlanRows
    <2>3. c \in CancelJobs
      BY <1>0, <2>2, CancelUpdates
    <2>4. c.task \in Tasks
      BY <1>0, <2>1 DEF CancelJobs
    <2>5. canceller' = [canceller EXCEPT ![p] = c]
      BY <1>6 DEF CancelReread, TypeOK
    <2> HIDE DEF c
    <2> QED
      BY <1>6, <2>3, <2>4, <2>5, CancelType DEF CancelReread, rows, workers, TypeOK
  <1>7. CASE CancelMirror(p)
    <2>1. canceller[p].task \in Tasks /\ canceller[p].version \in Versions \cup {NoVersion}
      BY <1>0, <1>7 DEF CancelMirror, TypeOK, CancelJobs
    <2> QED
      BY <1>0, <1>7, <2>1, CancelType, SavePlanType
         DEF CancelMirror, workers, PlanStatuses, TypeOK
  <1>8. CASE Crash(p)
    BY <1>0, <1>8, JobType, ProcAssumption, CancelType
       DEF Crash, Local, rows, WorkerPlaces, TypeOK
  <1> QED
    BY <1>1, <1>2, <1>3, <1>4, <1>5, <1>6, <1>7, <1>8 DEF Handle

-----------------------------------------------------------------------------
(* What a step does to the process that takes it, and to the others.       *)

\* A worker step changes its own worker only.
LEMMA LocalEffect ==
    ASSUME TypeOK, NEW p \in Procs, NEW to, NEW j, Local(p, to, j)
    PROVE  /\ pc'[p] = to /\ job'[p] = j
           /\ \A q \in Procs \ {p} : pc'[q] = pc[q] /\ job'[q] = job[q]
  BY DEF TypeOK, Local

\* What a worker knows its plan, its task and its loop by.
SameLoop(i, j) ==
    /\ i.plan = j.plan /\ i.version = j.version /\ i.current = j.current
    /\ i.task = j.task /\ i.todo = j.todo /\ i.outcome = j.outcome

\* SetState changes the state in memory and in the row, and what is to be mirrored.
LEMMA SetStateEffect ==
    ASSUME TypeOK, NEW p \in Procs, job[p].task \in Tasks,
           NEW state \in TaskStates, NEW to \in WorkerPlaces, SetState(p, state, to)
    PROVE  /\ pc'[p] = to
           /\ SameLoop(job'[p], job[p])
           /\ job'[p].state = state /\ job'[p].want = PlanStatusOf[state]
           /\ \A q \in Procs \ {p} : pc'[q] = pc[q] /\ job'[q] = job[q]
           /\ taskRow'[job[p].task].plan = job[p].plan
           /\ taskRow'[job[p].task].state = state
           /\ \A t \in Tasks \ {job[p].task} : taskRow'[t] = taskRow[t]
  <1>1. job[p] \in Jobs
    BY DEF TypeOK
  <1>2. /\ pc'[p] = to
        /\ job'[p] = [job[p] EXCEPT !.state = state, !.want = PlanStatusOf[state]]
        /\ \A q \in Procs \ {p} : pc'[q] = pc[q] /\ job'[q] = job[q]
    BY LocalEffect DEF SetState
  <1>3. SameLoop(job'[p], job[p]) /\ job'[p].state = state /\ job'[p].want = PlanStatusOf[state]
    BY <1>1, <1>2 DEF Jobs, SameLoop
  <1>4. /\ taskRow'[job[p].task] = [plan |-> job[p].plan, state |-> state,
                                    approved |-> job[p].approved]
        /\ \A t \in Tasks \ {job[p].task} : taskRow'[t] = taskRow[t]
    BY DEF SetState, TypeOK
  <1> QED
    BY <1>2, <1>3, <1>4

\* No step takes back that a tool ran, that a task has its plan, or that a plan
\* has been ready.
Monotone ==
    /\ \A t \in Tasks :
          /\ ran[t] \subseteq ran'[t]
          /\ taskRow[t].state # Absent =>
                taskRow'[t].state # Absent /\ taskRow'[t].plan = taskRow[t].plan
    /\ \A pl \in Plans : WasReady(pl) => WasReady(pl)'

\* What ran has run, under its id.
LEMMA RanKept ==
    ASSUME Monotone, NEW t \in Tasks
    PROVE  /\ RanIds(t) \subseteq RanIds(t)'
           /\ \A pl \in Plans : IdsRan(t, pl) => IdsRan(t, pl)'
  <1>1. RanIds(t) \subseteq RanIds(t)'
    BY DEF Monotone, RanIds
  <1> QED
    BY <1>1 DEF IdsRan

\* A worker that does not move is not disturbed by the others.
LEMMA OthersKept ==
    ASSUME TypeOK, Monotone, NEW q \in Procs, WorkerOK(q),
           pc'[q] = pc[q], job'[q] = job[q]
    PROVE  WorkerOK(q)'
  <1>1. HasPlan(q) /\ KnowsDone(q) /\ LoopsOverRest(q)
    BY DEF WorkerOK
  <1>2. HasPlan(q)'
    BY <1>1 DEF Monotone, HasPlan
  <1>3. KnowsDone(q)'
    <2> SUFFICES ASSUME pc[q] \in Assigned, job[q].state = "completed" \/ job[q].want = "completed"
                 PROVE  IdsRan(job[q].task, job[q].plan)'
      BY DEF KnowsDone
    <2>1. job[q].task \in Tasks /\ job[q].plan \in Plans /\ IdsRan(job[q].task, job[q].plan)
      BY <1>1 DEF HasPlan, KnowsDone, Assigned
    <2> QED
      BY <2>1, RanKept
  <1>4. LoopsOverRest(q)'
    <2>1. pc[q] \in Looping \cup Attempted => job[q].task \in Tasks
      BY <1>1 DEF HasPlan, Looping, Attempted, Assigned, WorkerPlaces, Unassigned
    <2>2. pc[q] \in Looping \cup Attempted => RanIds(job[q].task) \subseteq RanIds(job[q].task)'
      BY <2>1, RanKept
    <2> QED
      BY <1>1, <2>2 DEF LoopsOverRest, IsNext, RanIds
  <1> QED
    BY <1>2, <1>3, <1>4 DEF WorkerOK

\* A request that goes on is about the same task, and mirrors what it has read.
CancelsKept ==
    \A q \in Procs : canceller'[q].pc # "idle" =>
        /\ canceller[q].pc # "idle" /\ canceller'[q].task = canceller[q].task
        /\ canceller'[q].pc = "mirror" =>
              canceller[q].pc = "mirror" /\ canceller'[q].version = canceller[q].version

\* Requests that end, or stay, know what they knew.
LEMMA CancelsStayKnown ==
    ASSUME TypeOK, CancelsKnown, Monotone, CancelsKept
    PROVE  CancelsKnown'
  <1> SUFFICES ASSUME NEW q \in Procs, canceller'[q].pc # "idle"
               PROVE  /\ taskRow'[canceller'[q].task].state # Absent
                      /\ canceller'[q].pc = "mirror" =>
                            canceller'[q].version \in Gated(taskRow'[canceller'[q].task].plan)
    BY DEF CancelsKnown
  <1>1. /\ canceller[q].task \in Tasks /\ taskRow[canceller[q].task].state # Absent
        /\ canceller[q].pc = "mirror" =>
              canceller[q].version \in Gated(taskRow[canceller[q].task].plan)
    BY DEF CancelsKept, TypeOK, CancelsKnown
  <1>2. /\ taskRow'[canceller[q].task].state # Absent
        /\ taskRow'[canceller[q].task].plan = taskRow[canceller[q].task].plan
    BY <1>1 DEF Monotone
  <1> QED
    BY <1>1, <1>2 DEF CancelsKept

\* Nothing shrinks when the rows and the history do not change.
LEMMA MonotoneKept ==
    ASSUME UNCHANGED <<planRow, taskRow, ran>>
    PROVE  Monotone
  BY DEF Monotone, WasReady

\* What is known of the history of the tasks, when it and their rows do not change.
LEMMA HistoryKept ==
    ASSUME RowsOK, UNCHANGED <<taskRow, results, ran>>
    PROVE  /\ RanKnown' /\ RecordedRan' /\ CompletedIdsRan'
           /\ \A t \in Tasks, pl \in Plans : IdsRan(t, pl) => IdsRan(t, pl)'
  <1>1. RanKnown'
    BY DEF RowsOK, RanKnown, RanIds
  <1>2. RecordedRan'
    BY DEF RowsOK, RecordedRan, Recorded, RanIds
  <1>3. CompletedIdsRan'
    BY DEF RowsOK, CompletedIdsRan, IdsRan, RanIds
  <1>4. \A t \in Tasks, pl \in Plans : IdsRan(t, pl) => IdsRan(t, pl)'
    BY DEF IdsRan, RanIds
  <1> QED
    BY <1>1, <1>2, <1>3, <1>4

\* The rows keep their invariant when they, the tools' history and the approvals
\* stay as they are, whatever cancel requests end.
LEMMA RowsKept ==
    ASSUME TypeOK, RowsOK, UNCHANGED <<rows, ran, approver>>, CancelsKept
    PROVE  RowsOK'
  <1>1. CancelsKnown'
    BY CancelsStayKnown, MonotoneKept DEF RowsOK, rows
  <1>2. ReadyGated' /\ TasksPlanned'
    BY DEF RowsOK, ReadyGated, TasksPlanned, WasReady, rows
  <1>3. RanKnown' /\ RecordedRan' /\ CompletedIdsRan' /\ CompletedPlanIdsRan'
    BY HistoryKept DEF RowsOK, CompletedPlanIdsRan, rows
  <1> QED
    BY <1>1, <1>2, <1>3 DEF RowsOK

-----------------------------------------------------------------------------
(* Saving a plan, updating a task.                                         *)

\* A plan may be saved as a draft when it is new, as anything else in a version that
\* may run, and as completed when its task ran it.
LEMMA SavePlanRows ==
    ASSUME TypeOK, RowsOK, NEW pl \in Plans, NEW v \in Versions, NEW t \in Tasks \cup {NoTask},
           NEW status \in PlanStatuses, SavePlan(pl, v, t, status),
           status = "draft" => planRow[pl].status = Absent /\ v \in Drafts[pl],
           status # "draft" => v \in Gated(pl),
           status = "completed" => t \in Tasks /\ taskRow[t].plan = pl /\ IdsRan(t, pl),
           UNCHANGED <<taskRow, results, ran>>,
           \A q \in Procs : approver'[q] # NoApproval => approver'[q] = approver[q],
           \A q \in Procs : canceller'[q].pc # "idle" => canceller'[q] = canceller[q]
    PROVE  Monotone /\ RowsOK'
  <1>1. \A other \in Plans : planRow'[other] =
            IF other = pl THEN [version |-> v, status |-> status, task |-> t] ELSE planRow[other]
    BY DEF SavePlan, TypeOK
  <1>2. /\ planRow'[pl].version = v /\ planRow'[pl].status = status /\ planRow'[pl].task = t
        /\ \A other \in Plans \ {pl} : planRow'[other] = planRow[other]
    BY <1>1
  <1>3. status # Absent
    BY DEF PlanStatuses, Absent
  <1>4. \A other \in Plans : WasReady(other) => WasReady(other)'
    BY <1>2, <1>3 DEF WasReady
  <1>5. Monotone
    BY <1>4 DEF Monotone
  <1>6. ReadyGated'
    <2>1. \A other \in Plans : planRow'[other].status = "draft" =>
              planRow'[other].version \in Drafts[other]
      BY <1>2 DEF RowsOK, ReadyGated
    <2>2. \A other \in Plans : planRow'[other].status \notin {Absent, "draft"} =>
              planRow'[other].version \in Gated(other)
      BY <1>2, <1>3 DEF RowsOK, ReadyGated, WasReady
    <2>3. \A q \in Procs : approver'[q] # NoApproval =>
              approver'[q].version \in Gated(approver'[q].plan)
      BY DEF RowsOK, ReadyGated
    <2> QED
      BY <2>1, <2>2, <2>3 DEF ReadyGated, WasReady
  <1>7. TasksPlanned'
    BY <1>4 DEF RowsOK, TasksPlanned
  <1>8. CompletedPlanIdsRan'
    <2> SUFFICES ASSUME NEW other \in Plans, planRow'[other].status = "completed"
                 PROVE  \E u \in Tasks : /\ planRow'[other].task = u /\ taskRow'[u].plan = other
                                         /\ IdsRan(u, other)'
      BY DEF CompletedPlanIdsRan
    <2>1. CASE other = pl
      BY <1>2, <2>1, HistoryKept
    <2>2. CASE other # pl
      <3>1. planRow'[other] = planRow[other]
        BY <1>2, <2>2
      <3>2. PICK u \in Tasks : planRow[other].task = u /\ taskRow[u].plan = other /\ IdsRan(u, other)
        BY <3>1 DEF RowsOK, CompletedPlanIdsRan
      <3> QED
        BY <3>1, <3>2, HistoryKept
    <2> QED
      BY <2>1, <2>2
  <1>9. CancelsKnown'
    BY <1>5, CancelsStayKnown DEF CancelsKept, RowsOK
  <1> QED
    BY <1>5, <1>6, <1>7, <1>8, <1>9, HistoryKept DEF RowsOK

\* A task may be written as completed when all the ids of a version ran.
LEMMA UpdatedTaskRows ==
    ASSUME TypeOK, RowsOK, NEW t \in Tasks,
           taskRow[t].state # Absent,
           taskRow'[t].plan = taskRow[t].plan, taskRow'[t].state \in TaskStates,
           taskRow'[t].state = "completed" => IdsRan(t, taskRow[t].plan),
           \A u \in Tasks \ {t} : taskRow'[u] = taskRow[u],
           UNCHANGED <<planRow, results, ran, approver>>,
           CancelsKept
    PROVE  Monotone /\ RowsOK'
  <1>1. taskRow'[t].state # Absent
    BY DEF TaskStates, Absent
  <1>2. \A u \in Tasks : /\ taskRow[u].state # Absent => taskRow'[u].state # Absent
                         /\ taskRow'[u].plan = taskRow[u].plan
                         /\ taskRow'[u].state # Absent => taskRow[u].state # Absent
    BY <1>1
  <1>3. Monotone
    BY <1>2 DEF Monotone, WasReady
  <1>4. CancelsKnown'
    BY <1>3, CancelsStayKnown DEF RowsOK
  <1>5. \A u \in Tasks, pl \in Plans : IdsRan(u, pl) => IdsRan(u, pl)'
    BY <1>3, RanKept
  <1>6. CompletedIdsRan'
    <2> SUFFICES ASSUME NEW u \in Tasks, taskRow'[u].state = "completed"
                 PROVE  IdsRan(u, taskRow[u].plan)'
      BY DEF CompletedIdsRan
    <2>1. IdsRan(u, taskRow[u].plan) /\ taskRow'[u].plan = taskRow[u].plan
      BY <1>2 DEF RowsOK, CompletedIdsRan
    <2> QED
      BY <2>1 DEF IdsRan, RanIds
  <1>7. CompletedPlanIdsRan'
    BY <1>2, <1>5 DEF RowsOK, CompletedPlanIdsRan
  <1>8. RanKnown' /\ RecordedRan'
    BY <1>2 DEF RowsOK, RanKnown, RecordedRan, Recorded, RanIds
  <1>9. ReadyGated' /\ TasksPlanned'
    BY <1>2 DEF RowsOK, ReadyGated, TasksPlanned, WasReady
  <1> QED
    BY <1>3, <1>4, <1>6, <1>7, <1>8, <1>9 DEF RowsOK

-----------------------------------------------------------------------------
(* Requests.                                                               *)

\* What is left of TaskInv besides TypeOK.
Agree == RowsOK /\ \A q \in Procs : WorkerOK(q)

LEMMA InitAgrees == Init => Agree
  <1> SUFFICES ASSUME Init PROVE Agree
    OBVIOUS
  <1>1. \A q \in Procs : pc[q] = "idle" /\ canceller[q].pc = "idle" /\ approver[q] = NoApproval
    BY DEF Init, NoCancel
  <1>2. \A q \in Procs : WorkerOK(q)
    BY <1>1 DEF WorkerOK, HasPlan, KnowsDone, LoopsOverRest, Assigned, Unassigned, Planned,
                Resaving, Looping, Attempted
  <1>3. \A t \in Tasks : taskRow[t].state = Absent /\ ran[t] = {} /\ Recorded(t) = {}
    BY DEF Init, NoRow, Recorded
  <1>4. \A pl \in Plans : planRow[pl].status = Absent
    BY DEF Init
  <1>5. RowsOK
    BY <1>1, <1>3, <1>4 DEF RowsOK, RanKnown, RecordedRan, ReadyGated, TasksPlanned,
       CancelsKnown, CompletedIdsRan, CompletedPlanIdsRan, WasReady, Absent
  <1> QED
    BY <1>2, <1>5 DEF Agree

\* Places of the program counter.
LEMMA Places ==
    /\ \A at \in Looping : at \in Assigned /\ at \in Planned
    /\ \A at \in Attempted : at \in Looping
    /\ {"link", "linked", "register", "fetch", "reopen", "reregister", "restart", "relink",
        "relinked", "begin", "load", "exception", "sync", "synced", "exit"}
           \subseteq Assigned \ Looping
    /\ \A at \in Resaving : at \in Assigned \ Looping
    /\ Looping \cap Resaving = {} /\ Assigned \ {"fetch"} \subseteq Planned
    /\ "idle" \notin Assigned /\ "idle" \notin Unassigned /\ "idle" \notin Planned
    /\ \A at \in Unassigned : at \notin Assigned /\ at \in Planned /\ at \notin Resaving
    /\ Assigned \subseteq WorkerPlaces
  BY DEF Looping, Attempted, Assigned, Unassigned, Planned, Resaving, WorkerPlaces

\* A step of the worker alone: only its own part has to be looked at.
LEMMA WorkerAlone ==
    ASSUME TypeOK, Agree, NEW p \in Procs,
           UNCHANGED <<rows, ran, approver>>, CancelsKept,
           \A q \in Procs \ {p} : pc'[q] = pc[q] /\ job'[q] = job[q],
           WorkerOK(p)'
    PROVE  Agree'
  <1>1. \A q \in Procs \ {p} : WorkerOK(q)'
    BY OthersKept, MonotoneKept DEF rows, Agree
  <1>2. RowsOK'
    BY RowsKept DEF Agree
  <1> QED
    BY <1>1, <1>2 DEF Agree

\* Requests that do not move leave every worker and every cancel as it is.
LEMMA WorkersStay ==
    ASSUME TypeOK, Agree, Monotone, UNCHANGED <<pc, job>>
    PROVE  \A q \in Procs : WorkerOK(q)'
  BY OthersKept DEF Agree

LEMMA PlanRequestsAgree ==
    ASSUME TypeOK, Agree, NEW p \in Procs, NEW pl \in Plans, CreatePlan(pl) \/ ApproveRead(p, pl)
    PROVE  Agree'
  <1>1. CASE CreatePlan(pl)
    <2>1. PICK v \in Drafts[pl] : SavePlan(pl, v, NoTask, "draft")
      BY <1>1 DEF CreatePlan
    <2>2. v \in Versions
      BY VersionAssumption
    <2>3. Monotone /\ RowsOK'
      BY <1>1, <2>1, <2>2, SavePlanRows DEF CreatePlan, handlers, PlanStatuses, Agree
    <2>4. \A q \in Procs : WorkerOK(q)'
      BY <1>1, <2>3, WorkersStay DEF CreatePlan, workers
    <2> QED
      BY <2>3, <2>4 DEF Agree
  <1>2. CASE ApproveRead(p, pl)
    <2>1. UNCHANGED <<rows, pc, job, ran, canceller>> /\ Monotone
      BY <1>2, MonotoneKept DEF ApproveRead, workers, rows
    <2>2. /\ approver'[p].version \in Gated(approver'[p].plan)
          /\ \A q \in Procs \ {p} : approver'[q] = approver[q]
      <3>1. planRow[pl].version \in Drafts[pl] \cap Verifiable
        BY <1>2 DEF ApproveRead, Agree, RowsOK, ReadyGated
      <3>2. approver'[p] = [plan |-> pl, version |-> planRow[pl].version,
                            task |-> planRow[pl].task]
        BY <1>2 DEF ApproveRead, TypeOK
      <3> QED
        BY <1>2, <3>1, <3>2 DEF ApproveRead, TypeOK, Gated
    <2>3. ReadyGated'
      BY <2>1, <2>2 DEF Agree, RowsOK, ReadyGated, WasReady, rows
    <2>4. CancelsKnown' /\ TasksPlanned' /\ CompletedPlanIdsRan'
      BY <2>1, HistoryKept
         DEF Agree, RowsOK, CancelsKnown, TasksPlanned, CompletedPlanIdsRan, WasReady, rows
    <2>5. RowsOK'
      BY <2>1, <2>3, <2>4, HistoryKept DEF Agree, RowsOK, rows
    <2> QED
      BY <2>1, <2>5, WorkersStay DEF Agree
  <1> QED
    BY <1>1, <1>2

\* Requests start from the rows: a run from a ready plan, a resume from a task.
LEMMA RequestAgrees ==
    ASSUME TypeOK, Agree, NEW p \in Procs, Request(p)
    PROVE  Agree'
  <1>1. ASSUME NEW pl \in Plans, CreatePlan(pl) \/ ApproveRead(p, pl) PROVE Agree'
    BY <1>1, PlanRequestsAgree
  <1>2. ASSUME NEW pl \in Plans, NEW v \in Versions, NEW approve,
               \/ RunLoadStored(p, pl, approve) /\ v = planRow[pl].version
               \/ RunLoadFile(p, pl, v, approve)
        PROVE  Agree'
    <2>1. /\ UNCHANGED <<rows, ran, handlers>>
          /\ pc'[p] = "persist" /\ job'[p].plan = pl /\ job'[p].version = v
          /\ job'[p].want = "failed"
          /\ \A q \in Procs \ {p} : pc'[q] = pc[q] /\ job'[q] = job[q]
      <3> DEFINE i == [NoJob EXCEPT !.plan = pl, !.version = v, !.task = planRow[pl].task,
                                    !.granted = approve, !.approved = approve]
                 j == [NoJob EXCEPT !.plan = pl, !.version = v, !.granted = approve,
                                    !.approved = approve]
      <3>1. /\ i.plan = pl /\ j.plan = pl /\ i.version = v /\ j.version = v
            /\ i.want = "failed" /\ j.want = "failed"
        BY DEF NoJob
      <3> HIDE DEF i, j
      <3>2. Local(p, "persist", i) \/ Local(p, "persist", j)
        BY <1>2 DEF RunLoadStored, RunLoadFile, i, j
      <3> QED
        BY <1>2, <3>1, <3>2, LocalEffect DEF RunLoadStored, RunLoadFile
    <2>2. v \in Gated(pl)
      BY <1>2 DEF RunLoadStored, RunLoadFile, Gated, Agree, RowsOK, ReadyGated, WasReady, Absent
    <2>3. WorkerOK(p)'
      BY <2>1, <2>2 DEF WorkerOK, HasPlan, KnowsDone, LoopsOverRest, Assigned, Unassigned,
                        Planned, Resaving, Looping, Attempted
    <2>4. CancelsKept
      BY <2>1 DEF CancelsKept, handlers
    <2> QED
      BY <2>1, <2>3, <2>4, WorkerAlone DEF handlers
  <1>3. ASSUME NEW t \in Tasks, NEW approve, ResumeLoad(p, t, approve)
        PROVE  Agree'
    <2>1. /\ UNCHANGED <<rows, ran, handlers>>
          /\ pc'[p] = "fetch" /\ job'[p].plan = taskRow[t].plan /\ job'[p].task = t
          /\ job'[p].state = taskRow[t].state /\ job'[p].want = "failed"
          /\ \A q \in Procs \ {p} : pc'[q] = pc[q] /\ job'[q] = job[q]
      <3> DEFINE j == [NoJob EXCEPT !.plan = taskRow[t].plan, !.task = t,
                                    !.state = taskRow[t].state, !.granted = approve,
                                    !.approved = taskRow[t].approved]
      <3>1. /\ j.plan = taskRow[t].plan /\ j.task = t /\ j.state = taskRow[t].state
            /\ j.want = "failed"
        BY DEF NoJob
      <3> HIDE DEF j
      <3>2. Local(p, "fetch", j)
        BY <1>3 DEF ResumeLoad, j
      <3> QED
        BY <1>3, <3>1, <3>2, LocalEffect DEF ResumeLoad
    <2>2. WorkerOK(p)'
      <3>1. taskRow[t].state # Absent /\ taskRow[t].plan \in Plans
        BY <1>3 DEF ResumeLoad, Agree, RowsOK, TasksPlanned
      <3>2. HasPlan(p)'
        BY <2>1, <3>1 DEF HasPlan, Assigned, Unassigned, Planned, Resaving, rows
      <3>3. KnowsDone(p)'
        BY <2>1 DEF KnowsDone, rows, Agree, RowsOK, CompletedIdsRan, IdsRan, RanIds
      <3>4. LoopsOverRest(p)'
        BY <2>1 DEF LoopsOverRest, Looping, Attempted
      <3> QED
        BY <3>2, <3>3, <3>4 DEF WorkerOK
    <2>3. CancelsKept
      BY <2>1 DEF CancelsKept, handlers
    <2> QED
      BY <2>1, <2>2, <2>3, WorkerAlone DEF handlers
  <1>4. ASSUME NEW t \in Tasks, CancelLookup(p, t) PROVE Agree'
    <2>1. UNCHANGED <<rows, pc, job, ran, approver>> /\ Monotone
      BY <1>4, MonotoneKept DEF CancelLookup, workers, rows
    <2>2. /\ canceller'[p].task = t /\ canceller'[p].pc # "mirror"
          /\ \A q \in Procs \ {p} : canceller'[q] = canceller[q]
      <3> DEFINE found == token[p] # "none" /\ job[p].task = t
                 c == [NoCancel EXCEPT !.pc = IF found THEN "set" ELSE "read",
                                       !.task = t, !.live = found]
      <3>1. c.task = t /\ c.pc # "mirror"
        <4> HIDE DEF found
        <4> QED BY DEF NoCancel
      <3>2. canceller' = [canceller EXCEPT ![p] = c]
        BY <1>4 DEF CancelLookup
      <3> HIDE DEF c
      <3> QED
        BY <3>1, <3>2 DEF TypeOK
    <2>3. CancelsKnown'
      BY <1>4, <2>1, <2>2 DEF CancelLookup, Agree, RowsOK, CancelsKnown, rows
    <2>4. ReadyGated' /\ TasksPlanned' /\ CompletedPlanIdsRan'
      BY <2>1, HistoryKept
         DEF Agree, RowsOK, ReadyGated, TasksPlanned, CompletedPlanIdsRan, WasReady, rows
    <2>5. RowsOK'
      BY <2>1, <2>3, <2>4, HistoryKept DEF Agree, RowsOK, rows
    <2> QED
      BY <2>1, <2>5, WorkersStay DEF Agree
  <1>5. ASSUME NEW pl \in Plans, NEW approve, RunLoadStored(p, pl, approve) PROVE Agree'
    <2>1. planRow[pl].version \in Versions
      BY <1>5, VersionTypes DEF RunLoadStored, Agree, RowsOK, ReadyGated, WasReady, Absent
    <2> QED
      BY <1>2, <1>5, <2>1
  <1> QED
    BY <1>1, <1>2, <1>3, <1>4, <1>5 DEF Request

-----------------------------------------------------------------------------
(* The worker.                                                             *)

\* What a worker with a task may rely on.
LEMMA AssignedFacts ==
    ASSUME TypeOK, Agree, NEW p \in Procs, pc[p] \in Assigned
    PROVE  /\ job[p] \in Jobs /\ job[p].task \in Tasks
           /\ job[p].plan \in Plans
           /\ pc[p] # "fetch" => job[p].version \in Gated(job[p].plan)
           /\ WasReady(job[p].plan) /\ planRow[job[p].plan].version \in Gated(job[p].plan)
           /\ taskRow[job[p].task].state # Absent
           /\ taskRow[job[p].task].plan = job[p].plan
           /\ job[p].state = "completed" \/ job[p].want = "completed" =>
                 IdsRan(job[p].task, job[p].plan)
  <1>1. job[p] \in Jobs
    BY DEF TypeOK
  <1>2. HasPlan(p) /\ KnowsDone(p)
    BY DEF Agree, WorkerOK
  <1>3. /\ job[p].task \in Tasks /\ job[p].plan \in Plans
        /\ taskRow[job[p].task].state # Absent
        /\ taskRow[job[p].task].plan = job[p].plan
    BY <1>2, Places DEF HasPlan
  <1>4. pc[p] # "fetch" => job[p].version \in Gated(job[p].plan)
    BY <1>2, Places DEF HasPlan
  <1>5. WasReady(job[p].plan) /\ planRow[job[p].plan].version \in Gated(job[p].plan)
    BY <1>3 DEF Agree, RowsOK, TasksPlanned, ReadyGated
  <1> QED
    BY <1>1, <1>2, <1>3, <1>4, <1>5 DEF KnowsDone

\* A worker that keeps its plan and its task knows what it knew of it.
LEMMA DoneKept ==
    ASSUME Monotone, NEW p \in Procs, job[p].task \in Tasks, job[p].plan \in Plans,
           job'[p].plan = job[p].plan, job'[p].task = job[p].task,
           job'[p].state = "completed" \/ job'[p].want = "completed" =>
               IdsRan(job[p].task, job[p].plan)
    PROVE  KnowsDone(p)'
  <1> SUFFICES ASSUME IdsRan(job[p].task, job[p].plan) PROVE IdsRan(job[p].task, job[p].plan)'
    BY DEF KnowsDone
  <1> QED
    BY RanKept

\* A worker that keeps its plan, its version and its task stays in agreement when it
\* goes to a place outside the loop.
LEMMA OutsideLoop ==
    ASSUME TypeOK, Agree, Monotone, NEW p \in Procs, pc[p] \in Assigned,
           pc'[p] \in Assigned \ Looping,
           job'[p].plan = job[p].plan, job'[p].task = job[p].task,
           pc'[p] # "fetch", job'[p].version \in Gated(job[p].plan),
           pc'[p] \in Resaving => job'[p].current \in Gated(job[p].plan),
           job'[p].state = "completed" \/ job'[p].want = "completed" =>
               IdsRan(job[p].task, job[p].plan)
    PROVE  WorkerOK(p)'
  <1>1. /\ job[p].task \in Tasks /\ job[p].plan \in Plans
        /\ taskRow[job[p].task].state # Absent /\ taskRow[job[p].task].plan = job[p].plan
    BY AssignedFacts
  <1>2. HasPlan(p)'
    BY <1>1, Places DEF HasPlan, Monotone, Unassigned
  <1>3. KnowsDone(p)'
    BY <1>1, DoneKept
  <1>4. LoopsOverRest(p)'
    BY Places DEF LoopsOverRest
  <1> QED
    BY <1>2, <1>3, <1>4 DEF WorkerOK

\* The same inside the loop, where the rest of the loop must be accounted for.
LEMMA InsideLoop ==
    ASSUME TypeOK, Agree, Monotone, NEW p \in Procs, pc[p] \in Assigned, pc[p] # "fetch",
           pc'[p] \in Looping,
           job'[p].plan = job[p].plan, job'[p].task = job[p].task,
           job'[p].version = job[p].version,
           job'[p].state = job[p].state, job'[p].want = job[p].want,
           LoopsOverRest(p)'
    PROVE  WorkerOK(p)'
  <1>1. /\ job[p].task \in Tasks /\ job[p].plan \in Plans
        /\ taskRow[job[p].task].state # Absent /\ taskRow[job[p].task].plan = job[p].plan
        /\ job[p].version \in Gated(job[p].plan)
        /\ job[p].state = "completed" \/ job[p].want = "completed" =>
              IdsRan(job[p].task, job[p].plan)
    BY AssignedFacts
  <1>2. HasPlan(p)'
    BY <1>1, Places DEF HasPlan, Monotone, Unassigned
  <1>3. KnowsDone(p)'
    BY <1>1, DoneKept
  <1> QED
    BY <1>2, <1>3 DEF WorkerOK

\* What the loop knows is not disturbed by a step that keeps what is left to do.
LEMMA LoopKept ==
    ASSUME Monotone, NEW p \in Procs, job[p].task \in Tasks, LoopsOverRest(p),
           pc[p] \in Looping, SameLoop(job'[p], job[p]),
           pc'[p] \in Attempted => pc[p] \in Attempted
    PROVE  LoopsOverRest(p)'
  <1>1. RanIds(job[p].task) \subseteq RanIds(job[p].task)'
    BY RanKept DEF SameLoop
  <1> QED
    BY <1>1 DEF LoopsOverRest, IsNext, SameLoop, RanIds

\* A worker that becomes idle knows nothing.
LEMMA Idle ==
    ASSUME NEW p \in Procs, pc'[p] = "idle"
    PROVE  WorkerOK(p)'
  BY Places DEF WorkerOK, HasPlan, KnowsDone, LoopsOverRest, Attempted, Looping, Resaving

\* The worker's saves of its plan: ready before it has a task, then running, and
\* at the end what the task's state maps to.
LEMMA SavesAgree ==
    ASSUME TypeOK, Agree, NEW p \in Procs, Saves(p)
    PROVE  Agree'
  <1>1. /\ job[p] \in Jobs /\ job[p].task \in Tasks \cup {NoTask}
        /\ job[p].want \in PlanStatuses \ {"draft"}
    BY DEF TypeOK, Jobs
  <1>2. UNCHANGED <<taskRow, results, ran, handlers>>
    BY DEF Saves, RunPersist, RunLink, ResumeRelink, SyncPlan
  <1>3. HasPlan(p)
    BY DEF Agree, WorkerOK
  <1>4. CASE RunPersist(p)
    <2>1. /\ job[p].plan \in Plans /\ job[p].version \in Gated(job[p].plan)
          /\ job[p].want # "completed"
      BY <1>3, <1>4, Places DEF RunPersist, HasPlan, Unassigned
    <2>2. job[p].version \in Versions
      BY <2>1, VersionTypes
    <2>3. Monotone /\ RowsOK'
      BY <1>1, <1>2, <1>4, <2>1, <2>2, SavePlanRows DEF RunPersist, handlers, PlanStatuses, Agree
    <2>4. /\ pc'[p] = "idle" \/ (pc'[p] = "create" /\ job'[p] = job[p])
          /\ \A q \in Procs \ {p} : pc'[q] = pc[q] /\ job'[q] = job[q]
      BY <1>4, LocalEffect DEF RunPersist
    <2>5. planRow'[job[p].plan].status = "ready"
      BY <1>4, <2>1 DEF RunPersist, SavePlan, TypeOK
    <2>6. WorkerOK(p)'
      BY <2>1, <2>4, <2>5, Idle
         DEF WorkerOK, HasPlan, KnowsDone, LoopsOverRest, Unassigned, Assigned, Resaving,
             Looping, Attempted, WasReady, Absent
    <2>7. \A q \in Procs \ {p} : WorkerOK(q)'
      BY <2>3, <2>4, OthersKept DEF Agree
    <2> QED
      BY <2>3, <2>6, <2>7 DEF Agree
  <1>5. CASE RunLink(p) \/ ResumeRelink(p) \/ SyncPlan(p)
    <2> USE DEF RunLink, ResumeRelink, SyncPlan
    <2>1. pc[p] \in Resaving /\ pc[p] \in Assigned /\ pc[p] # "fetch"
      BY <1>5, Places DEF Resaving
    <2>2. PICK status \in PlanStatuses \ {"draft"} :
             /\ SavePlan(job[p].plan, job[p].current, job[p].task, status)
             /\ status = "running" \/ status = job[p].want
      BY <1>1, <1>5 DEF PlanStatuses
    <2>3. job[p].plan \in Plans /\ job[p].current \in Gated(job[p].plan)
      BY <1>3, <2>1 DEF HasPlan, Resaving
    <2>4. job[p].current \in Versions
      BY <2>3, VersionTypes
    <2>5. /\ job[p].task \in Tasks /\ taskRow[job[p].task].plan = job[p].plan
          /\ job[p].version \in Gated(job[p].plan)
          /\ job[p].state = "completed" \/ job[p].want = "completed" =>
                 IdsRan(job[p].task, job[p].plan)
      BY <2>1, AssignedFacts
    <2>6. Monotone /\ RowsOK'
      BY <1>2, <2>2, <2>3, <2>4, <2>5, SavePlanRows DEF handlers, Agree
    <2>7. /\ pc'[p] \in Assigned \ Looping /\ pc'[p] # "fetch" /\ pc'[p] \notin Resaving
          /\ job'[p] = job[p]
          /\ \A q \in Procs \ {p} : pc'[q] = pc[q] /\ job'[q] = job[q]
      BY <1>5, LocalEffect, Places DEF Resaving
    <2>8. WorkerOK(p)'
      BY <2>1, <2>5, <2>6, <2>7, OutsideLoop
    <2>9. \A q \in Procs \ {p} : WorkerOK(q)'
      BY <2>6, <2>7, OthersKept DEF Agree
    <2> QED
      BY <2>6, <2>8, <2>9 DEF Agree
  <1> QED
    BY <1>4, <1>5 DEF Saves

\* update_task: completed is written only when the loop has nothing left.
LEMMA UpdatesAgree ==
    ASSUME TypeOK, Agree, NEW p \in Procs, Updates(p)
    PROVE  Agree'
  <1>1. pc[p] \in Assigned /\ pc[p] # "fetch"
    BY DEF Updates, ResumeReopen, ResumeRestart, ExecBegin, ExecOrderFails, StepOverCeiling,
           AtStep, StepCancelled, StepTimedOut, StepProgress, StepFailed, ExecComplete, Assigned,
           WorkerPlaces, Unassigned
  <1>2. /\ job[p] \in Jobs /\ job[p].task \in Tasks /\ job[p].plan \in Plans
        /\ job[p].version \in Gated(job[p].plan) /\ job[p].state \in TaskStates
        /\ taskRow[job[p].task].state # Absent /\ taskRow[job[p].task].plan = job[p].plan
        /\ job[p].state = "completed" => IdsRan(job[p].task, job[p].plan)
    BY <1>1, AssignedFacts DEF Jobs
  <1>3. PICK state \in TaskStates, to \in WorkerPlaces :
          /\ SetState(p, state, to)
          /\ state = "completed" => state = job[p].state \/ ExecComplete(p)
          /\ \/ to \in Assigned \ (Looping \cup Resaving \cup {"fetch"})
             \/ StepProgress(p) /\ to = "after" /\ state = job[p].state
    <2>1. CASE StepProgress(p)
      BY <1>2, <2>1 DEF StepProgress, WorkerPlaces
    <2>2. CASE ExecComplete(p)
      BY <2>2, Places DEF ExecComplete, TaskStates, Resaving
    <2>3. CASE ResumeReopen(p) \/ ResumeRestart(p) \/ ExecBegin(p)
      BY <2>3, Places DEF ResumeReopen, ResumeRestart, ExecBegin, TaskStates, Resaving
    <2>4. CASE ExecOrderFails(p) \/ StepOverCeiling(p)
      BY <2>4, Places DEF ExecOrderFails, StepOverCeiling, TaskStates, Resaving
    <2>5. CASE StepCancelled(p) \/ StepTimedOut(p) \/ StepFailed(p)
      BY <2>5, Places DEF StepCancelled, StepTimedOut, StepFailed, TaskStates, Resaving
    <2> QED
      BY <2>1, <2>2, <2>3, <2>4, <2>5 DEF Updates
  <1>4. UNCHANGED <<planRow, results, ran, handlers>>
    BY DEF Updates, ResumeReopen, ResumeRestart, ExecBegin, ExecOrderFails, StepOverCeiling,
           StepCancelled, StepTimedOut, StepProgress, StepFailed, ExecComplete
  <1>5. state = "completed" => IdsRan(job[p].task, job[p].plan)
    <2>1. CASE ExecComplete(p)
      <3>1. LoopsOverRest(p) /\ job[p].version \in VersionsOf(job[p].plan)
        BY <1>2, VersionTypes DEF Agree, WorkerOK
      <3>2. \A s \in PlanSteps(job[p].version) :
                IdAt[job[p].version][s] \in RanIds(job[p].task)
        BY <2>1, <3>1 DEF ExecComplete, LoopsOverRest, Looping
      <3> QED
        BY <3>1, <3>2 DEF IdsRan, IdsOf
    <2> QED
      BY <1>2, <1>3, <2>1
  <1>6. /\ pc'[p] = to
        /\ SameLoop(job'[p], job[p])
        /\ job'[p].state = state /\ job'[p].want = PlanStatusOf[state]
        /\ \A q \in Procs \ {p} : pc'[q] = pc[q] /\ job'[q] = job[q]
        /\ taskRow'[job[p].task].plan = job[p].plan
        /\ taskRow'[job[p].task].state = state
        /\ \A t \in Tasks \ {job[p].task} : taskRow'[t] = taskRow[t]
    BY <1>2, <1>3, SetStateEffect
  <1>7. Monotone /\ RowsOK'
    <2>1. CancelsKept
      BY <1>4 DEF CancelsKept, handlers
    <2> QED
      BY <1>2, <1>4, <1>5, <1>6, <2>1, UpdatedTaskRows DEF handlers, Agree
  <1>8. job'[p].state = "completed" \/ job'[p].want = "completed" =>
            IdsRan(job[p].task, job[p].plan)
    BY <1>5, <1>6, MappedStatus
  <1>9. WorkerOK(p)'
    <2>1. CASE to \in Assigned \ (Looping \cup Resaving \cup {"fetch"})
      BY <1>1, <1>2, <1>6, <1>7, <1>8, <2>1, OutsideLoop DEF SameLoop
    <2>2. CASE StepProgress(p) /\ to = "after" /\ state = job[p].state
      <3>1. LoopsOverRest(p)'
        BY <1>2, <1>6, <1>7, <2>2, LoopKept
           DEF StepProgress, Agree, WorkerOK, Looping, Attempted
      <3>2. HasPlan(p)'
        BY <1>2, <1>6, <1>7, <2>2
           DEF HasPlan, Monotone, SameLoop, Unassigned, Resaving
      <3>3. KnowsDone(p)'
        BY <1>2, <1>6, <1>7, <1>8, DoneKept DEF SameLoop
      <3> QED
        BY <3>1, <3>2, <3>3 DEF WorkerOK
    <2> QED
      BY <1>3, <2>1, <2>2
  <1>10. \A q \in Procs \ {p} : WorkerOK(q)'
    BY <1>6, <1>7, OthersKept DEF Agree
  <1> QED
    BY <1>7, <1>9, <1>10 DEF Agree

\* The steps outside the loop that touch no row.
LEMMA QuietOutsideAgrees ==
    ASSUME TypeOK, Agree, NEW p \in Procs,
           Register(p) \/ SyncRead(p) \/ ResumePlan(p) \/ ToolCancelled(p) \/ Exception(p)
    PROVE  WorkerOK(p)' /\ \A q \in Procs \ {p} : pc'[q] = pc[q] /\ job'[q] = job[q]
  <1>1. Monotone
    BY MonotoneKept
       DEF Register, SyncRead, ResumePlan, ToolCancelled, Exception, rows
  <1>2. pc[p] \in Assigned
    BY DEF Register, SyncRead, ResumePlan, ToolCancelled, Exception, Assigned, WorkerPlaces,
           Unassigned
  <1>3. /\ job[p] \in Jobs
        /\ pc[p] # "fetch" => job[p].version \in Gated(job[p].plan)
        /\ planRow[job[p].plan].version \in Gated(job[p].plan)
        /\ job[p].state = "completed" \/ job[p].want = "completed" =>
                IdsRan(job[p].task, job[p].plan)
    BY <1>2, AssignedFacts
  <1>4. CASE Register(p)
    <2> DEFINE recorded == job[p].approved \/ job[p].granted
               j == [job[p] EXCEPT !.approved = recorded]
    <2>1. SameLoop(j, job[p]) /\ j.state = job[p].state /\ j.want = job[p].want
      <3> HIDE DEF recorded
      <3> QED BY <1>3 DEF Jobs, SameLoop
    <2> HIDE DEF j
    <2>2. Local(p, "begin", job[p]) \/ Local(p, "restart", j)
      BY <1>4 DEF Register, j
    <2>3. /\ pc'[p] \in {"begin", "restart"} /\ job'[p] \in {job[p], j}
          /\ \A q \in Procs \ {p} : pc'[q] = pc[q] /\ job'[q] = job[q]
      BY <2>2, LocalEffect
    <2> QED
      BY <1>1, <1>2, <1>3, <1>4, <2>1, <2>3, OutsideLoop, Places
         DEF Register, SameLoop, Resaving
  <1>5. CASE SyncRead(p)
    <2> DEFINE j == [job[p] EXCEPT !.current = planRow[job[p].plan].version]
    <2>1. /\ j.plan = job[p].plan /\ j.task = job[p].task /\ j.version = job[p].version
          /\ j.current = planRow[job[p].plan].version
          /\ j.state = job[p].state /\ j.want = job[p].want
      BY <1>3 DEF Jobs
    <2> HIDE DEF j
    <2>2. \E to \in Resaving : Local(p, to, j)
      BY <1>5 DEF SyncRead, j, Resaving
    <2>3. /\ pc'[p] \in Resaving /\ job'[p] = j
          /\ \A q \in Procs \ {p} : pc'[q] = pc[q] /\ job'[q] = job[q]
      BY <2>2, LocalEffect
    <2>4. pc[p] # "fetch" /\ pc'[p] # "fetch" /\ pc'[p] \in Assigned \ Looping
      BY <1>5, <2>3, Places DEF SyncRead, Resaving
    <2> QED
      BY <1>1, <1>2, <1>3, <2>1, <2>3, <2>4, OutsideLoop
  <1>6. CASE ResumePlan(p)
    <2> DEFINE j == [job[p] EXCEPT !.version = planRow[job[p].plan].version]
               k == [j EXCEPT !.want = PlanStatusOf[j.state]]
    <2>1. /\ j.plan = job[p].plan /\ j.task = job[p].task
          /\ j.version = planRow[job[p].plan].version
          /\ j.state = job[p].state /\ j.want = job[p].want
      BY <1>3 DEF Jobs
    <2>2. /\ k.plan = job[p].plan /\ k.task = job[p].task
          /\ k.version = planRow[job[p].plan].version
          /\ k.state = job[p].state /\ k.want = PlanStatusOf[job[p].state]
      BY <1>3 DEF Jobs
    <2> HIDE DEF j, k
    <2>3. \/ Local(p, "sync", k)
          \/ Local(p, "reopen", j)
          \/ Local(p, "reregister", j)
      BY <1>6 DEF ResumePlan, j, k
    <2>4. /\ pc'[p] \in {"sync", "reopen", "reregister"} /\ job'[p] \in {j, k}
          /\ \A q \in Procs \ {p} : pc'[q] = pc[q] /\ job'[q] = job[q]
      BY <2>3, LocalEffect
    <2>5. job[p].state \in TaskStates
      BY <1>3 DEF Jobs
    <2>6. pc'[p] # "fetch" /\ pc'[p] \in Assigned \ Looping /\ pc'[p] \notin Resaving
      BY <2>4, Places DEF Resaving
    <2>7. job'[p].state = "completed" \/ job'[p].want = "completed" =>
              IdsRan(job[p].task, job[p].plan)
      BY <1>3, <2>1, <2>2, <2>4, <2>5, MappedStatus
    <2> QED
      BY <1>1, <1>2, <1>3, <2>1, <2>2, <2>4, <2>6, <2>7, OutsideLoop
  <1>7. CASE ToolCancelled(p)
    <2>1. /\ pc[p] # "fetch" /\ pc'[p] = "exception" /\ job'[p] = job[p]
          /\ \A q \in Procs \ {p} : pc'[q] = pc[q] /\ job'[q] = job[q]
      BY <1>7, LocalEffect DEF ToolCancelled
    <2> QED
      BY <1>1, <1>2, <1>3, <2>1, OutsideLoop, Places DEF Resaving
  <1>8. CASE Exception(p)
    <2> DEFINE stored == taskRow[job[p].task].state
               want == IF stored \in TerminalStates THEN PlanStatusOf[stored] ELSE "failed"
               j == [job[p] EXCEPT !.want = want]
    <2>1. SameLoop(j, job[p]) /\ j.state = job[p].state /\ j.want = want
      <3> HIDE DEF want
      <3> QED BY <1>3 DEF Jobs, SameLoop
    <2>2. want = "completed" => stored = "completed"
      BY MappedStatus DEF TerminalStates, TaskStates
    <2>3. stored = "completed" => IdsRan(job[p].task, job[p].plan)
      BY <1>2, AssignedFacts DEF Agree, RowsOK, CompletedIdsRan
    <2>4. Local(p, "sync", j)
      BY <1>8 DEF Exception
    <2> HIDE DEF j, want, stored
    <2>5. /\ pc[p] # "fetch" /\ pc'[p] = "sync" /\ job'[p] = j
          /\ \A q \in Procs \ {p} : pc'[q] = pc[q] /\ job'[q] = job[q]
      BY <1>8, <2>4, LocalEffect DEF Exception
    <2> QED
      BY <1>1, <1>2, <1>3, <2>1, <2>2, <2>3, <2>5, OutsideLoop, Places DEF SameLoop, Resaving
  <1> QED
    BY <1>4, <1>5, <1>6, <1>7, <1>8

\* The steps of the loop that touch no row.
LEMMA QuietInsideAgrees ==
    ASSUME TypeOK, Agree, NEW p \in Procs,
           ExecLoad(p) \/ StepStart(p) \/ ToolFails(p) \/ (\E s \in Steps : StepDone(p, s))
    PROVE  WorkerOK(p)' /\ \A q \in Procs \ {p} : pc'[q] = pc[q] /\ job'[q] = job[q]
  <1>1. Monotone
    BY MonotoneKept DEF ExecLoad, StepStart, ToolFails, StepDone, rows
  <1>2. pc[p] \in Assigned /\ pc[p] # "fetch"
    BY DEF ExecLoad, StepStart, AtStep, ToolFails, StepDone, Assigned, WorkerPlaces, Unassigned
  <1>3. /\ job[p] \in Jobs /\ job[p].task \in Tasks /\ job[p].plan \in Plans
        /\ job[p].version \in Versions /\ LoopsOverRest(p)
    BY <1>2, AssignedFacts, VersionTypes DEF Agree, WorkerOK
  <1>4. UNCHANGED ran
    BY DEF ExecLoad, StepStart, ToolFails, StepDone
  <1>5. CASE ExecLoad(p)
    <2> DEFINE kept == Recorded(job[p].task)
               rest == {s \in PlanSteps(job[p].version) : IdAt[job[p].version][s] \notin kept}
               j == [job[p] EXCEPT !.kept = kept, !.todo = rest]
    <2>1. /\ j.plan = job[p].plan /\ j.task = job[p].task /\ j.version = job[p].version
          /\ j.state = job[p].state /\ j.want = job[p].want /\ j.todo = rest
      <3> HIDE DEF kept, rest
      <3> QED BY <1>3 DEF Jobs
    <2>2. \A s \in PlanSteps(job[p].version) \ rest :
              IdAt[job[p].version][s] \in RanIds(job[p].task)
      BY <1>3 DEF Agree, RowsOK, RecordedRan
    <2>3. rest \subseteq PlanSteps(job[p].version)
      OBVIOUS
    <2> HIDE DEF j, rest
    <2>4. Local(p, "step", j)
      BY <1>5 DEF ExecLoad, j, rest
    <2>5. /\ pc'[p] = "step" /\ job'[p] = j
          /\ \A q \in Procs \ {p} : pc'[q] = pc[q] /\ job'[q] = job[q]
      BY <2>4, LocalEffect
    <2>6. LoopsOverRest(p)'
      BY <1>4, <2>1, <2>2, <2>3, <2>5 DEF LoopsOverRest, Attempted, RanIds
    <2> QED
      BY <1>1, <1>2, <2>1, <2>5, <2>6, InsideLoop DEF Looping
  <1>6. CASE StepStart(p)
    <2>1. /\ pc[p] \in Looping /\ pc'[p] = "tool" /\ job'[p] = job[p]
          /\ \A q \in Procs \ {p} : pc'[q] = pc[q] /\ job'[q] = job[q]
      BY <1>6, LocalEffect DEF StepStart, AtStep, Looping
    <2>2. LoopsOverRest(p)'
      BY <1>1, <1>3, <2>1, LoopKept DEF SameLoop, Attempted
    <2> QED
      BY <1>1, <1>2, <2>1, <2>2, InsideLoop DEF Looping
  <1>7. CASE ToolFails(p)
    <2> DEFINE j == [job[p] EXCEPT !.outcome = "failed"]
    <2>1. /\ j.plan = job[p].plan /\ j.task = job[p].task /\ j.todo = job[p].todo
          /\ j.version = job[p].version
          /\ j.state = job[p].state /\ j.want = job[p].want /\ j.outcome = "failed"
      BY <1>3 DEF Jobs
    <2> HIDE DEF j
    <2>2. Local(p, "save", j)
      BY <1>7 DEF ToolFails, j
    <2>3. /\ pc[p] \in Looping /\ pc'[p] = "save" /\ job'[p] = j
          /\ \A q \in Procs \ {p} : pc'[q] = pc[q] /\ job'[q] = job[q]
      BY <1>7, <2>2, LocalEffect DEF ToolFails, Looping
    <2>4. LoopsOverRest(p)'
      BY <1>3, <1>4, <2>1, <2>3 DEF LoopsOverRest, RanIds
    <2> QED
      BY <1>1, <1>2, <2>1, <2>3, <2>4, InsideLoop DEF Looping
  <1>8. ASSUME NEW s \in Steps, StepDone(p, s)
        PROVE  WorkerOK(p)' /\ \A q \in Procs \ {p} : pc'[q] = pc[q] /\ job'[q] = job[q]
    <2> DEFINE rest == job[p].todo \ {s}
               j == [job[p] EXCEPT !.todo = rest]
    <2>1. /\ j.plan = job[p].plan /\ j.task = job[p].task /\ j.todo = rest
          /\ j.version = job[p].version
          /\ j.state = job[p].state /\ j.want = job[p].want
      <3> HIDE DEF rest
      <3> QED BY <1>3 DEF Jobs
    <2>2. pc[p] \in Looping \cap Attempted /\ job[p].outcome = "ok" /\ IsNext(p, s)
      BY <1>8 DEF StepDone, Looping, Attempted
    <2>3. /\ rest \subseteq PlanSteps(job[p].version)
          /\ \A r \in PlanSteps(job[p].version) \ rest :
                IdAt[job[p].version][r] \in RanIds(job[p].task)
      BY <1>3, <2>2 DEF LoopsOverRest
    <2> HIDE DEF j, rest
    <2>4. Local(p, "step", j)
      BY <1>8 DEF StepDone, j, rest
    <2>5. /\ pc'[p] = "step" /\ job'[p] = j
          /\ \A q \in Procs \ {p} : pc'[q] = pc[q] /\ job'[q] = job[q]
      BY <2>4, LocalEffect
    <2>6. LoopsOverRest(p)'
      BY <1>4, <2>1, <2>3, <2>5 DEF LoopsOverRest, Attempted, RanIds
    <2> QED
      BY <1>1, <1>2, <2>1, <2>5, <2>6, InsideLoop DEF Looping
  <1> QED
    BY <1>5, <1>6, <1>7, <1>8

\* Worker steps that touch no row.
LEMMA ReadsAgree ==
    ASSUME TypeOK, Agree, NEW p \in Procs, Reads(p)
    PROVE  Agree'
  <1>1. UNCHANGED <<rows, ran, approver>> /\ CancelsKept
    <2>1. CASE Exit(p)
      <3>1. /\ canceller[p] \in CancelJobs
            /\ canceller'[p] = [canceller[p] EXCEPT !.live = FALSE]
            /\ \A q \in Procs \ {p} : canceller'[q] = canceller[q]
        BY <2>1 DEF Exit, TypeOK
      <3>2. /\ canceller'[p].pc = canceller[p].pc /\ canceller'[p].task = canceller[p].task
            /\ canceller'[p].version = canceller[p].version
        BY <3>1 DEF CancelJobs
      <3> QED
        BY <2>1, <3>1, <3>2 DEF Exit, rows, CancelsKept
    <2>2. CASE ~Exit(p)
      <3>1. UNCHANGED <<rows, ran, handlers>>
        BY <2>2 DEF Reads, Register, SyncRead, ResumePlan, ExecLoad, StepStart, ToolCancelled,
           ToolFails, StepDone, Exception
      <3> QED
        BY <3>1 DEF handlers, CancelsKept
    <2> QED
      BY <2>1, <2>2
  <1>2. WorkerOK(p)' /\ \A q \in Procs \ {p} : pc'[q] = pc[q] /\ job'[q] = job[q]
    <2>1. CASE Exit(p)
      BY <2>1, LocalEffect, Idle DEF Exit
    <2> QED
      BY <2>1, QuietOutsideAgrees, QuietInsideAgrees DEF Reads
  <1> QED
    BY <1>1, <1>2, WorkerAlone

\* A new task has the worker's plan.
LEMMA CreateAgrees ==
    ASSUME TypeOK, Agree, NEW p \in Procs, NEW t \in Tasks, RunCreate(p, t)
    PROVE  Agree'
  <1>1. /\ job[p] \in Jobs /\ job[p].plan \in Plans /\ job[p].version \in Gated(job[p].plan)
        /\ WasReady(job[p].plan) /\ job[p].want # "completed"
    BY Places DEF RunCreate, TypeOK, Agree, WorkerOK, HasPlan, Unassigned
  <1>2. /\ taskRow'[t].plan = job[p].plan /\ taskRow'[t].state = "pending"
        /\ \A u \in Tasks \ {t} : taskRow'[u] = taskRow[u]
        /\ taskRow[t].state = Absent
        /\ UNCHANGED <<planRow, results, ran, handlers>>
    BY DEF RunCreate, TypeOK
  <1>3. Monotone
    BY <1>2 DEF Monotone, WasReady
  <1> DEFINE j == [job[p] EXCEPT !.task = t, !.state = "pending"]
  <1>4. /\ j.plan = job[p].plan /\ j.version = job[p].version /\ j.task = t
        /\ j.state = "pending" /\ j.want = job[p].want
    BY <1>1 DEF Jobs
  <1> HIDE DEF j
  <1>5. Local(p, "link", j)
    BY DEF RunCreate, j
  <1>6. /\ pc'[p] = "link" /\ job'[p] = j
        /\ \A q \in Procs \ {p} : pc'[q] = pc[q] /\ job'[q] = job[q]
    BY <1>5, LocalEffect
  <1>7. WorkerOK(p)'
    BY <1>1, <1>2, <1>4, <1>6
       DEF WorkerOK, HasPlan, KnowsDone, LoopsOverRest, Unassigned, Resaving, Looping, Attempted,
           Absent
  <1>8. \A q \in Procs \ {p} : WorkerOK(q)'
    BY <1>3, <1>6, OthersKept DEF Agree
  <1>9. CancelsKnown'
    BY <1>2, <1>3, CancelsStayKnown DEF Agree, RowsOK, CancelsKept, handlers
  <1>10. ran[t] = {}
    BY <1>2 DEF Agree, RowsOK, RanKnown, TypeOK
  <1>11. RanKnown' /\ RecordedRan'
    BY <1>2, <1>10 DEF Agree, RowsOK, RanKnown, RecordedRan, Recorded, RanIds, Absent
  <1>12. \A u \in Tasks, pl \in Plans : IdsRan(u, pl) => IdsRan(u, pl)'
    BY <1>3, RanKept
  <1>13. CompletedIdsRan'
    <2> SUFFICES ASSUME NEW u \in Tasks, taskRow'[u].state = "completed"
                 PROVE  IdsRan(u, taskRow[u].plan)' /\ u # t
      BY DEF CompletedIdsRan
    <2>1. u # t /\ taskRow'[u] = taskRow[u] /\ IdsRan(u, taskRow[u].plan)
      BY <1>2 DEF Agree, RowsOK, CompletedIdsRan
    <2> QED
      BY <1>2, <2>1 DEF IdsRan, RanIds
  <1>14. CompletedPlanIdsRan'
    <2> SUFFICES ASSUME NEW pl \in Plans, planRow[pl].status = "completed"
                 PROVE  \E u \in Tasks : /\ planRow[pl].task = u /\ taskRow'[u].plan = pl
                                         /\ IdsRan(u, pl)'
      BY <1>2 DEF CompletedPlanIdsRan
    <2>1. PICK u \in Tasks : planRow[pl].task = u /\ taskRow[u].plan = pl /\ IdsRan(u, pl)
      BY DEF Agree, RowsOK, CompletedPlanIdsRan
    <2>2. u # t
      <3>1. PICK v \in Versions : IdsOf(v) \subseteq RanIds(u)
        BY <2>1, VersionTypes DEF IdsRan
      <3>2. IdAt[v][1] \in IdsOf(v)
        BY VersionTypes DEF IdsOf
      <3>3. RanIds(t) = {}
        BY <1>10 DEF RanIds
      <3> QED
        BY <3>1, <3>2, <3>3
    <2> QED
      BY <1>2, <1>12, <2>1, <2>2
  <1>15. ReadyGated' /\ TasksPlanned'
    BY <1>1, <1>2 DEF Agree, RowsOK, ReadyGated, TasksPlanned, WasReady, handlers
  <1> QED
    BY <1>7, <1>8, <1>9, <1>11, <1>13, <1>14, <1>15 DEF Agree, RowsOK

\* A tool that runs is the next step of the loop: everything before it has run,
\* under its id.
LEMMA ToolAgrees ==
    ASSUME TypeOK, Agree, NEW p \in Procs, NEW s \in Steps, ToolRuns(p, s)
    PROVE  Agree'
  <1>1. /\ pc[p] = "tool" /\ pc[p] \in Assigned /\ pc[p] \in Looping /\ pc[p] # "fetch"
        /\ IsNext(p, s)
    BY DEF ToolRuns, Assigned, WorkerPlaces, Unassigned, Looping
  <1>2. /\ job[p] \in Jobs /\ job[p].task \in Tasks /\ job[p].plan \in Plans
        /\ taskRow[job[p].task].state # Absent /\ taskRow[job[p].task].plan = job[p].plan
        /\ job[p].version \in Gated(job[p].plan)
        /\ LoopsOverRest(p)
    BY <1>1, AssignedFacts DEF Agree, WorkerOK
  <1> DEFINE t == job[p].task
             v == job[p].version
  <1>3. /\ ran'[t] = ran[t] \cup {<<v, s>>}
        /\ \A u \in Tasks \ {t} : ran'[u] = ran[u]
        /\ UNCHANGED <<rows, handlers>>
    BY <1>2 DEF ToolRuns, TypeOK
  <1>4. Monotone
    BY <1>3 DEF Monotone, WasReady, rows
  <1>5. v \in Versions /\ s \in PlanSteps(v) /\ IdsBefore(v, s) \subseteq RanIds(t)
    <2>1. /\ v \in Versions
          /\ job[p].todo \subseteq PlanSteps(v)
          /\ \A r \in PlanSteps(v) \ job[p].todo : IdAt[v][r] \in RanIds(t)
      BY <1>1, <1>2, VersionTypes DEF LoopsOverRest
    <2>2. PlanLen[v] \in Nat /\ s \in Nat
      BY <2>1, VersionAssumption DEF Steps
    <2>3. s \in PlanSteps(v)
      BY <1>1, <2>1 DEF IsNext
    <2>4. ASSUME NEW r \in 1..(s - 1) PROVE IdAt[v][r] \in RanIds(t)
      <3>1. r \in PlanSteps(v) /\ r \in Nat /\ r < s
        BY <2>2, <2>3 DEF PlanSteps
      <3>2. r \notin job[p].todo
        BY <1>1, <2>2, <3>1 DEF IsNext
      <3> QED
        BY <2>1, <3>1, <3>2
    <2> QED
      BY <2>1, <2>3, <2>4 DEF IdsBefore
  <1>6. PICK outcome \in {"ok", "failed"} :
            Local(p, "save", [job[p] EXCEPT !.outcome = outcome])
    BY DEF ToolRuns
  <1> DEFINE j == [job[p] EXCEPT !.outcome = outcome]
  <1>7. /\ j.plan = job[p].plan /\ j.task = job[p].task /\ j.todo = job[p].todo
        /\ j.version = job[p].version
        /\ j.state = job[p].state /\ j.want = job[p].want
    BY <1>2 DEF Jobs
  <1>8. Local(p, "save", j)
    BY <1>6
  <1> HIDE DEF j
  <1>9. /\ pc'[p] = "save" /\ job'[p] = j
        /\ \A q \in Procs \ {p} : pc'[q] = pc[q] /\ job'[q] = job[q]
    BY <1>8, LocalEffect
  <1>10. PICK u \in Tasks, w \in Versions : u = t /\ w = v
    BY <1>2, <1>5
  <1>11. /\ RanIds(u) \subseteq RanIds(u)' /\ IdAt[w][s] \in RanIds(u)'
         /\ \A x \in ran'[u] : x \in ran[u] \/ x = <<w, s>>
    <2>1. RanIds(u) \subseteq RanIds(u)'
      BY <1>4, RanKept
    <2>2. /\ <<w, s>> \in ran'[u]
          /\ \A x \in ran'[u] : x \in ran[u] \/ x = <<w, s>>
      BY <1>3, <1>10
    <2>3. IdAt[<<w, s>>[1]][<<w, s>>[2]] \in RanIds(u)'
      BY <2>2 DEF RanIds
    <2> QED
      BY <2>1, <2>2, <2>3
  <1>12. LoopsOverRest(p)'
    <2>1. ASSUME NEW r \in Steps, IsNext(p, r)' PROVE r = s
      <3>1. r \in Nat /\ s \in Nat /\ r <= s /\ s <= r
        BY <1>1, <1>7, <1>9, <2>1 DEF IsNext, Steps
      <3> QED
        BY <3>1
    <2>2. job'[p].task = u /\ job'[p].version = w /\ job'[p].todo = job[p].todo
      BY <1>7, <1>9, <1>10
    <2>3. /\ job[p].todo \subseteq PlanSteps(w)
          /\ \A r \in PlanSteps(w) \ job[p].todo : IdAt[w][r] \in RanIds(u)
      BY <1>1, <1>2, <1>10 DEF LoopsOverRest
    <2> QED
      BY <1>11, <2>1, <2>2, <2>3 DEF LoopsOverRest
  <1>13. WorkerOK(p)'
    BY <1>1, <1>4, <1>7, <1>9, <1>12, InsideLoop DEF Looping
  <1>14. \A q \in Procs \ {p} : WorkerOK(q)'
    BY <1>4, <1>9, OthersKept DEF Agree
  <1>15. RanKnown'
    <2> SUFFICES ASSUME NEW a \in Tasks, NEW x \in ran'[a]
                 PROVE  /\ taskRow[a].state # Absent
                        /\ x[1] \in Gated(taskRow[a].plan) /\ x[2] \in PlanSteps(x[1])
                        /\ IdsBefore(x[1], x[2]) \subseteq RanIds(a)'
      BY <1>3 DEF RanKnown, rows
    <2>1. RanIds(a) \subseteq RanIds(a)'
      BY <1>4, RanKept
    <2>2. CASE x \in ran[a]
      BY <2>1, <2>2 DEF Agree, RowsOK, RanKnown
    <2>3. CASE x \notin ran[a]
      <3>1. a = u /\ x = <<w, s>>
        BY <1>3, <1>10, <1>11, <2>3
      <3> QED
        BY <1>2, <1>5, <1>10, <2>1, <3>1
    <2> QED
      BY <2>2, <2>3
  <1>16. RecordedRan'
    <2> SUFFICES ASSUME NEW a \in Tasks PROVE Recorded(a)' \subseteq RanIds(a)'
      BY DEF RecordedRan
    <2>1. RanIds(a) \subseteq RanIds(a)' /\ Recorded(a)' = Recorded(a)
      BY <1>3, <1>4, RanKept DEF Recorded, rows
    <2> QED
      BY <2>1 DEF Agree, RowsOK, RecordedRan
  <1>17. \A a \in Tasks, pl \in Plans : IdsRan(a, pl) => IdsRan(a, pl)'
    BY <1>4, RanKept
  <1>18. CompletedIdsRan'
    <2> SUFFICES ASSUME NEW a \in Tasks, taskRow[a].state = "completed"
                 PROVE  IdsRan(a, taskRow[a].plan)'
      BY <1>3 DEF CompletedIdsRan, rows
    <2>1. PICK pl \in Plans : pl = taskRow[a].plan /\ IdsRan(a, pl)
      BY DEF Agree, RowsOK, CompletedIdsRan, TasksPlanned, Absent
    <2>2. taskRow'[a].plan = pl
      BY <1>3, <2>1 DEF rows
    <2> QED
      BY <1>17, <2>1, <2>2
  <1>19. CompletedPlanIdsRan'
    BY <1>3, <1>17 DEF Agree, RowsOK, CompletedPlanIdsRan, rows
  <1>20. ReadyGated' /\ TasksPlanned' /\ CancelsKnown'
    BY <1>3 DEF Agree, RowsOK, ReadyGated, TasksPlanned, CancelsKnown, WasReady, rows, handlers
  <1> QED
    BY <1>13, <1>14, <1>15, <1>16, <1>18, <1>19, <1>20 DEF Agree, RowsOK

\* What is recorded is the outcome of the step that was attempted, under its id.
LEMMA SaveAgrees ==
    ASSUME TypeOK, Agree, NEW p \in Procs, NEW s \in Steps, StepSave(p, s)
    PROVE  Agree'
  <1>1. /\ pc[p] = "save" /\ pc[p] \in Assigned /\ pc[p] # "fetch" /\ IsNext(p, s)
        /\ pc[p] \in Looping \cap Attempted
    BY DEF StepSave, Assigned, WorkerPlaces, Unassigned, Looping, Attempted
  <1>2. job[p].task \in Tasks /\ LoopsOverRest(p)
    BY <1>1, AssignedFacts DEF Agree, WorkerOK
  <1>3. UNCHANGED <<planRow, taskRow, ran, handlers>> /\ Monotone
    BY MonotoneKept DEF StepSave
  <1>4. RecordedRan'
    <2> SUFFICES ASSUME NEW t \in Tasks, NEW i \in StepIds, results'[t][i] = "ok"
                 PROVE  i \in RanIds(t)
      BY <1>3 DEF RecordedRan, Recorded, RanIds
    <2> DEFINE id == IdAt[job[p].version][s]
    <2>1. results'[t][i] = IF t = job[p].task /\ i = id THEN job[p].outcome ELSE results[t][i]
      BY DEF StepSave, TypeOK
    <2>2. CASE t = job[p].task /\ i = id
      BY <1>1, <1>2, <2>1, <2>2 DEF LoopsOverRest
    <2>3. CASE ~(t = job[p].task /\ i = id)
      BY <2>1, <2>3 DEF Agree, RowsOK, RecordedRan, Recorded
    <2> QED
      BY <2>2, <2>3
  <1>5. /\ pc'[p] = "progress" /\ job'[p] = job[p]
        /\ \A q \in Procs \ {p} : pc'[q] = pc[q] /\ job'[q] = job[q]
    BY LocalEffect DEF StepSave
  <1>6. LoopsOverRest(p)'
    BY <1>1, <1>2, <1>3, <1>5, LoopKept DEF SameLoop
  <1>7. WorkerOK(p)'
    BY <1>1, <1>3, <1>5, <1>6, InsideLoop DEF Looping
  <1>8. \A q \in Procs \ {p} : WorkerOK(q)'
    BY <1>3, <1>5, OthersKept DEF Agree
  <1>9. RanKnown' /\ CompletedIdsRan'
    BY <1>3 DEF Agree, RowsOK, RanKnown, CompletedIdsRan, IdsRan, RanIds
  <1>10. CompletedPlanIdsRan'
    BY <1>3, RanKept DEF Agree, RowsOK, CompletedPlanIdsRan
  <1>11. ReadyGated' /\ TasksPlanned' /\ CancelsKnown'
    BY <1>3 DEF Agree, RowsOK, ReadyGated, TasksPlanned, CancelsKnown, WasReady, handlers
  <1> QED
    BY <1>4, <1>7, <1>8, <1>9, <1>10, <1>11 DEF Agree, RowsOK

LEMMA WorkAgrees ==
    ASSUME TypeOK, Agree, NEW p \in Procs, Work(p)
    PROVE  Agree'
  BY WorkCases, SavesAgree, UpdatesAgree, ReadsAgree, CreateAgrees, ToolAgrees, SaveAgrees

-----------------------------------------------------------------------------
(* The handlers, and crashes.                                              *)

\* A handler may save a version that may run.
LEMMA HandlerSave ==
    ASSUME TypeOK, Agree, NEW pl, NEW v, NEW t \in Tasks \cup {NoTask},
           NEW status \in {"ready", "cancelled"}, SavePlan(pl, v, t, status), v \in Gated(pl),
           UNCHANGED <<taskRow, results, ran, pc, job>>,
           \A q \in Procs : approver'[q] # NoApproval => approver'[q] = approver[q],
           \A q \in Procs : canceller'[q].pc # "idle" => canceller'[q] = canceller[q]
    PROVE  Agree'
  <1>1. Monotone /\ RowsOK'
    <2>1. CASE pl \in Plans
      <3>1. v \in Versions
        BY <2>1, VersionTypes
      <3> QED
        BY <2>1, <3>1, SavePlanRows DEF PlanStatuses, Agree
    <2>2. CASE pl \notin Plans
      <3>1. planRow' = planRow
        BY <2>2 DEF SavePlan, TypeOK
      <3>2. Monotone /\ CancelsKept
        BY <3>1, MonotoneKept DEF CancelsKept
      <3>3. ReadyGated' /\ TasksPlanned' /\ CompletedPlanIdsRan' /\ CancelsKnown'
        BY <3>1, <3>2, HistoryKept, CancelsStayKnown
           DEF Agree, RowsOK, ReadyGated, TasksPlanned, CompletedPlanIdsRan, WasReady
      <3> QED
        BY <3>2, <3>3, HistoryKept DEF Agree, RowsOK
    <2> QED
      BY <2>1, <2>2
  <1> QED
    BY <1>1, WorkersStay DEF Agree

\* The versions that an approval and a cancel save may run.
LEMMA HandlerSavesAgree ==
    ASSUME TypeOK, Agree, NEW p \in Procs, ApproveWrite(p) \/ CancelMirror(p)
    PROVE  Agree'
  <1>1. /\ UNCHANGED <<taskRow, results, ran, pc, job>>
        /\ \A q \in Procs : approver'[q] # NoApproval => approver'[q] = approver[q]
        /\ \A q \in Procs : canceller'[q].pc # "idle" => canceller'[q] = canceller[q]
    BY DEF ApproveWrite, CancelMirror, workers, TypeOK, NoCancel
  <1>2. CASE ApproveWrite(p)
    <2>1. approver[p].version \in Gated(approver[p].plan) /\ approver[p] \in Approvals
      BY <1>2 DEF ApproveWrite, Agree, RowsOK, ReadyGated, TypeOK
    <2>2. SavePlan(approver[p].plan, approver[p].version, approver[p].task, "ready")
      BY <1>2 DEF ApproveWrite
    <2>3. approver[p].task \in Tasks \cup {NoTask}
      BY <2>1 DEF Approvals
    <2> QED
      BY <1>1, <2>1, <2>2, <2>3, HandlerSave
  <1>3. CASE CancelMirror(p)
    <2> DEFINE plan == taskRow[canceller[p].task].plan
    <2>1. canceller[p].task \in Tasks /\ canceller[p].version \in Gated(plan)
      BY <1>3 DEF CancelMirror, Agree, RowsOK, CancelsKnown, TypeOK
    <2>2. SavePlan(plan, canceller[p].version, canceller[p].task, "cancelled")
      BY <1>3 DEF CancelMirror
    <2> HIDE DEF plan
    <2> QED
      BY <1>1, <2>1, <2>2, HandlerSave
  <1> QED
    BY <1>2, <1>3

\* A cancel that goes on, or ends, and changes no plan.
LEMMA CancelsAgree ==
    ASSUME TypeOK, Agree, NEW p \in Procs,
           CancelSet(p) \/ CancelRead(p) \/ CancelRefused(p) \/ CancelReread(p) \/ CancelWrite(p)
    PROVE  Agree'
  <1>1. /\ canceller[p] \in CancelJobs /\ canceller[p].pc # "idle"
        /\ canceller[p].task \in Tasks /\ taskRow[canceller[p].task].state # Absent
    BY DEF CancelSet, CancelRead, CancelRefused, CancelReread, CancelWrite, TypeOK, Agree,
           RowsOK, CancelsKnown
  <1>2. CASE CancelSet(p) \/ CancelRead(p) \/ CancelRefused(p)
    <2>1. /\ UNCHANGED <<rows, ran, approver, pc, job>>
          /\ \A q \in Procs : canceller'[q].pc # "idle" =>
                 /\ canceller[q].pc # "idle" /\ canceller'[q].task = canceller[q].task
                 /\ canceller'[q].pc = "mirror" => canceller'[q] = canceller[q]
      <3> DEFINE c == [canceller[p] EXCEPT !.pc = "transition",
                                           !.row = taskRow[canceller[p].task].state,
                                           !.approved = taskRow[canceller[p].task].approved]
      <3>1. c.task = canceller[p].task /\ c.pc = "transition"
        BY <1>1 DEF CancelJobs
      <3> HIDE DEF c
      <3>2. /\ canceller'[p] = NoCancel \/ canceller'[p] = c
            /\ \A q \in Procs \ {p} : canceller'[q] = canceller[q]
        BY <1>2 DEF CancelSet, CancelRead, CancelRefused, TypeOK, c
      <3>3. UNCHANGED <<rows, ran, approver, pc, job>>
        BY <1>2 DEF CancelSet, CancelRead, CancelRefused, workers
      <3> QED
        BY <1>1, <3>1, <3>2, <3>3 DEF NoCancel
    <2>2. CancelsKept
      BY <2>1 DEF CancelsKept
    <2>3. RowsOK'
      BY <2>1, <2>2, RowsKept DEF Agree
    <2> QED
      BY <2>1, <2>3, WorkersStay, MonotoneKept DEF Agree, rows
  <1>3. CASE CancelReread(p)
    <2> DEFINE plan == taskRow[canceller[p].task].plan
               c == [canceller[p] EXCEPT !.pc = "mirror", !.version = planRow[plan].version]
    <2>1. c.task = canceller[p].task /\ c.version = planRow[plan].version
      BY <1>1 DEF CancelJobs
    <2>2. planRow[plan].version \in Gated(plan)
      BY <1>1 DEF Agree, RowsOK, TasksPlanned, ReadyGated
    <2> HIDE DEF c
    <2>3. /\ canceller'[p] = c
          /\ \A q \in Procs \ {p} : canceller'[q] = canceller[q]
          /\ UNCHANGED <<rows, ran, approver, pc, job>>
      BY <1>3 DEF CancelReread, workers, TypeOK, c
    <2>4. CancelsKnown'
      BY <1>1, <2>1, <2>2, <2>3 DEF Agree, RowsOK, CancelsKnown, rows
    <2>5. ReadyGated' /\ TasksPlanned' /\ CompletedPlanIdsRan'
      BY <2>3, HistoryKept
         DEF Agree, RowsOK, ReadyGated, TasksPlanned, CompletedPlanIdsRan, WasReady, rows
    <2>6. RowsOK'
      BY <2>3, <2>4, <2>5, HistoryKept DEF Agree, RowsOK, rows
    <2> QED
      BY <2>3, <2>6, WorkersStay, MonotoneKept DEF Agree, rows
  <1>4. CASE CancelWrite(p)
    <2>1. /\ taskRow'[canceller[p].task].plan = taskRow[canceller[p].task].plan
          /\ taskRow'[canceller[p].task].state = "cancelled"
          /\ \A u \in Tasks \ {canceller[p].task} : taskRow'[u] = taskRow[u]
      BY <1>1, <1>4 DEF CancelWrite, TypeOK
    <2>2. CancelsKept
      <3> DEFINE c == [canceller[p] EXCEPT !.pc = "reread"]
      <3>1. c.task = canceller[p].task /\ c.pc = "reread"
        BY <1>1 DEF CancelJobs
      <3> HIDE DEF c
      <3>2. canceller'[p] = c /\ \A q \in Procs \ {p} : canceller'[q] = canceller[q]
        BY <1>4 DEF CancelWrite, TypeOK, c
      <3> QED
        BY <1>1, <3>1, <3>2 DEF CancelsKept
    <2>3. UNCHANGED <<planRow, results, ran, approver, pc, job>>
      BY <1>4 DEF CancelWrite, workers
    <2>4. Monotone /\ RowsOK'
      BY <1>1, <2>1, <2>2, <2>3, UpdatedTaskRows DEF TaskStates, Agree
    <2> QED
      BY <2>3, <2>4, WorkersStay DEF Agree
  <1> QED
    BY <1>2, <1>3, <1>4

\* A crash forgets what was in memory.
LEMMA CrashAgrees ==
    ASSUME TypeOK, Agree, NEW p \in Procs, Crash(p)
    PROVE  Agree'
  <1>1. /\ UNCHANGED <<rows, ran>>
        /\ pc'[p] = "idle"
        /\ \A q \in Procs \ {p} : pc'[q] = pc[q] /\ job'[q] = job[q]
        /\ \A q \in Procs : approver'[q] # NoApproval => approver'[q] = approver[q]
        /\ \A q \in Procs : canceller'[q].pc # "idle" => canceller'[q] = canceller[q]
    BY LocalEffect DEF Crash, TypeOK, NoCancel
  <1>2. Monotone /\ CancelsKept
    BY <1>1, MonotoneKept DEF rows, CancelsKept
  <1>3. ReadyGated' /\ TasksPlanned' /\ CompletedPlanIdsRan' /\ CancelsKnown'
    BY <1>1, <1>2, HistoryKept, CancelsStayKnown
       DEF Agree, RowsOK, ReadyGated, TasksPlanned, CompletedPlanIdsRan, WasReady, rows
  <1>4. RowsOK'
    BY <1>1, <1>3, HistoryKept DEF Agree, RowsOK, rows
  <1>5. \A q \in Procs : WorkerOK(q)'
    BY <1>1, <1>2, Idle, OthersKept DEF Agree
  <1> QED
    BY <1>4, <1>5 DEF Agree

-----------------------------------------------------------------------------
(* The theorems.                                                           *)

\* TaskInv, the agreement of rows and workers at every interleaving point of
\* TaskService and TaskExecutor, is an invariant.
THEOREM InvariantHolds == Spec => []TaskInv
  <1>1. Init => TaskInv
    BY InitType, InitAgrees DEF Agree, TaskInv
  <1>2. ASSUME TaskInv, [Next]_vars PROVE TaskInv'
    <2>1. TypeOK /\ Agree
      BY <1>2 DEF TaskInv, Agree
    <2>2. CASE UNCHANGED vars
      <3>1. TypeOK'
        BY <2>1, <2>2 DEF TypeOK, vars
      <3>2. \A q \in Procs : WorkerOK(q)'
        BY <2>1, <2>2, WorkersStay, MonotoneKept DEF vars
      <3>3. RowsOK'
        BY <2>1, <2>2, RowsKept DEF vars, rows, CancelsKept, Agree
      <3> QED
        BY <3>1, <3>2, <3>3 DEF TaskInv
    <2>3. ASSUME NEW p \in Procs, Handle(p) \/ Crash(p) PROVE Agree'
      BY <2>1, <2>3, HandlerSavesAgree, CancelsAgree, CrashAgrees DEF Handle
    <2>4. ASSUME NEW p \in Procs PROVE HasPlan(p) /\ TasksPlanned /\ CancelsKnown
      BY <2>1 DEF Agree, WorkerOK, RowsOK
    <2>5. ASSUME NEW p \in Procs, Request(p) \/ Work(p) \/ Handle(p) \/ Crash(p)
          PROVE  TypeOK' /\ Agree'
      BY <2>1, <2>3, <2>4, <2>5, RequestType, WorkType, HandleType, RequestAgrees, WorkAgrees
    <2> QED
      BY <1>2, <2>2, <2>5 DEF Next, TaskInv, Agree
  <1> QED
    BY <1>1, <1>2, PTL DEF Spec

\* TypeOK: every reachable state is well typed, for every value of the constants.
THEOREM TypeCorrect == Spec => []TypeOK
  <1>1. TaskInv => TypeOK
    BY DEF TaskInv
  <1> QED
    BY <1>1, InvariantHolds, PTL

\* In a plan whose ids name one step each, what ran under an id is the step.
LEMMA IdsNameSteps ==
    ASSUME TypeOK, RanKnown, NEW t \in Tasks, NEW pl \in Plans, taskRow[t].plan = pl,
           Unambiguous(pl), NEW v \in VersionsOf(pl), NEW s \in PlanSteps(v),
           IdAt[v][s] \in RanIds(t)
    PROVE  <<v, s>> \in ran[t]
  <1>1. VersionsOf(pl) = {v} /\ DistinctIds(v)
    BY DEF Unambiguous
  <1>2. PICK x \in ran[t] : IdAt[x[1]][x[2]] = IdAt[v][s]
    BY DEF RanIds
  <1>3. x \in Versions \X Steps
    BY DEF TypeOK
  <1>4. x[1] \in Gated(pl) /\ x[2] \in PlanSteps(x[1])
    BY DEF RanKnown
  <1>5. x[1] = v
    BY <1>1, <1>4, VersionTypes
  <1>6. x[2] = s
    BY <1>1, <1>2, <1>4, <1>5 DEF DistinctIds
  <1> QED
    BY <1>3, <1>5, <1>6

LEMMA IdsRanAll ==
    ASSUME TypeOK, RanKnown, NEW t \in Tasks, NEW pl \in Plans, taskRow[t].plan = pl,
           IdsRan(t, pl)
    PROVE  RanAll(t, pl)
  <1>1. PICK v \in VersionsOf(pl) : IdsOf(v) \subseteq RanIds(t)
    BY DEF IdsRan
  <1>2. ASSUME Unambiguous(pl) PROVE {v} \X PlanSteps(v) \subseteq ran[t]
    <2> SUFFICES ASSUME NEW s \in PlanSteps(v) PROVE <<v, s>> \in ran[t]
      OBVIOUS
    <2>1. IdAt[v][s] \in RanIds(t)
      BY <1>1 DEF IdsOf
    <2> QED
      BY <1>1, <1>2, <2>1, IdsNameSteps
  <1> QED
    BY <1>1, <1>2 DEF RanAll

\* CompletedRanAll: a completed task has run a step of each id of its plan, each step
\* where the ids name one, whatever processes race on its row and wherever they crash.
THEOREM CompletedTasksRan == Spec => []CompletedRanAll
  <1>1. ASSUME TaskInv PROVE CompletedRanAll
    <2> SUFFICES ASSUME NEW t \in Tasks, taskRow[t].state = "completed"
                 PROVE  RanAll(t, taskRow[t].plan)
      BY DEF CompletedRanAll
    <2>1. taskRow[t].plan \in Plans /\ IdsRan(t, taskRow[t].plan)
      BY <1>1 DEF TaskInv, RowsOK, TasksPlanned, CompletedIdsRan, Absent
    <2> QED
      BY <1>1, <2>1, IdsRanAll DEF TaskInv, RowsOK
  <1> QED
    BY <1>1, InvariantHolds, PTL

\* CompletedPlanRanAll: a plan shown as completed is linked to a task that ran it so.
THEOREM CompletedPlansRan == Spec => []CompletedPlanRanAll
  <1>1. ASSUME TaskInv PROVE CompletedPlanRanAll
    BY <1>1, IdsRanAll DEF TaskInv, RowsOK, CompletedPlanIdsRan, CompletedPlanRanAll
  <1> QED
    BY <1>1, InvariantHolds, PTL

\* RunsInDependencyOrder: over all attempts of all processes, a step's tool never
\* runs before one of the id of each step that precedes it, and before those steps
\* themselves where the ids name one each.
THEOREM DependencyOrder == Spec => []RunsInDependencyOrder
  <1>1. ASSUME TaskInv PROVE RunsInDependencyOrder
    <2> SUFFICES ASSUME NEW t \in Tasks, NEW x \in ran[t]
                 PROVE  /\ IdsBefore(x[1], x[2]) \subseteq RanIds(t)
                        /\ Unambiguous(taskRow[t].plan) => {x[1]} \X (1..x[2]) \subseteq ran[t]
      BY DEF RunsInDependencyOrder
    <2>1. TypeOK /\ RanKnown /\ x \in Versions \X Steps
      BY <1>1 DEF TaskInv, RowsOK, TypeOK
    <2>2. /\ taskRow[t].plan \in Plans /\ x[1] \in Gated(taskRow[t].plan)
          /\ x[2] \in PlanSteps(x[1]) /\ IdsBefore(x[1], x[2]) \subseteq RanIds(t)
      BY <1>1 DEF TaskInv, RowsOK, TasksPlanned, RanKnown
    <2>3. ASSUME Unambiguous(taskRow[t].plan), NEW r \in 1..x[2]
          PROVE  <<x[1], r>> \in ran[t]
      <3>1. x[1] \in VersionsOf(taskRow[t].plan)
        BY <2>2, VersionTypes
      <3>2. PlanLen[x[1]] \in Nat /\ x[2] \in Nat
        BY <2>1, VersionAssumption DEF Steps
      <3>3. r \in PlanSteps(x[1])
        BY <2>2, <3>2 DEF PlanSteps
      <3>4. IdAt[x[1]][r] \in RanIds(t)
        <4>1. CASE r = x[2]
          BY <4>1 DEF RanIds
        <4>2. CASE r # x[2]
          <5>1. r \in 1..(x[2] - 1)
            BY <3>2, <4>2
          <5> QED
            BY <2>2, <5>1 DEF IdsBefore
        <4> QED
          BY <4>1, <4>2
      <3> QED
        BY <2>1, <2>2, <2>3, <3>1, <3>3, <3>4, IdsNameSteps
    <2> QED
      BY <2>2, <2>3
  <1> QED
    BY <1>1, InvariantHolds, PTL

\* OnlyGatedStepsRun: only a step of a version that verified as a draft, or came as a
\* ready file, ever runs.
THEOREM GateHolds == Spec => []OnlyGatedStepsRun
  <1>1. TaskInv => OnlyGatedStepsRun
    BY DEF TaskInv, RowsOK, RanKnown, OnlyGatedStepsRun
  <1> QED
    BY <1>1, InvariantHolds, PTL

-----------------------------------------------------------------------------
(* One process that does one command at a time: the command line.          *)

Alone(p) == Procs = {p} /\ Servers = {}
OneAtATime == \E p : Alone(p)

\* The worker, an approval and a cancel exclude one another, and nobody
\* cancels through the token.
Exclusive(p) ==
    /\ pc[p] # "idle" => approver[p] = NoApproval /\ canceller[p].pc = "idle"
    /\ approver[p] # NoApproval => canceller[p].pc = "idle"
    /\ canceller[p].pc # "set" /\ token[p] # "set"
    /\ pc[p] \in {"idle", "persist"} => token[p] = "none"

\* What a cancel has read is still what the row says.
CancelReads(p) ==
    canceller[p].pc = "transition" =>
        /\ canceller[p].row = taskRow[canceller[p].task].state
        /\ canceller[p].approved = taskRow[canceller[p].task].approved
        /\ canceller[p].row \notin TerminalStates

\* The states a task can be in at each place of the worker.
Fits(place, state) ==
    /\ place \in {"link", "linked", "register"} => state = "pending"
    /\ place = "reopen" => state \in Reopenable
    /\ place \in {"reregister", "restart", "begin"} => state \in {"pending", "running"}
    /\ place \in {"relink", "relinked", "load"} \cup Looping => state = "running"
    /\ place = "exception" => state \in TerminalStates

\* What the worker remembers is what the row says, and in the end the plan too.
Remembers(p) ==
    pc[p] \in Assigned =>
        /\ job[p].state = taskRow[job[p].task].state
        /\ Fits(pc[p], job[p].state)
        /\ pc[p] \in {"sync", "synced"} => job[p].want = PlanStatusOf[job[p].state]
        /\ pc[p] = "exit" => /\ planRow[job[p].plan].status = PlanStatusOf[job[p].state]
                             /\ planRow[job[p].plan].task = job[p].task

\* Where an approval need not be in the job yet, or any more.
Unapproved == {"fetch", "reopen", "reregister", "sync", "synced", "exit"}

\* An approval is in the row before a tool may run on it, and stays there.
Audited(p) ==
    /\ pc[p] \in Unassigned => job[p].approved = job[p].granted
    /\ pc[p] \in Assigned =>
           /\ taskRow[job[p].task].approved = TRUE => job[p].approved = TRUE
           /\ pc[p] # "restart" => taskRow[job[p].task].approved = job[p].approved
           /\ pc[p] \notin Unapproved => (job[p].granted = TRUE => job[p].approved = TRUE)

\* The approval in force is of the run that is going on.
ScopedToRun(p) ==
    scope[p] # NoTask => /\ pc[p] \in Assigned
                         /\ job[p].granted = TRUE
                         /\ scope[p] = job[p].task

\* What is done is recorded under its id; what is left is not, where an id is that
\* of one step.
KeepsRecord(p) ==
    LET v == job[p].version
        recorded == Recorded(job[p].task)
    IN  /\ pc[p] \in Attempted => job[p].outcome \in {"ok", "failed"}
        /\ pc[p] \in {"step", "tool", "save"} =>
              /\ \A s \in PlanSteps(v) \ job[p].todo : IdAt[v][s] \in recorded
              /\ DistinctIds(v) => \A s \in job[p].todo : IdAt[v][s] \notin recorded
        /\ pc[p] \in {"progress", "after"} /\ job[p].outcome = "ok" =>
              /\ \A s \in PlanSteps(v) :
                    s \notin job[p].todo \/ IsNext(p, s) => IdAt[v][s] \in recorded
              /\ DistinctIds(v) =>
                    \A s \in job[p].todo : ~IsNext(p, s) => IdAt[v][s] \notin recorded

\* No task is paused.
NonePaused == \A t \in Tasks : taskRow[t].state # "paused"

WorkerInv(p) == Remembers(p) /\ Audited(p) /\ ScopedToRun(p) /\ KeepsRecord(p)

AloneInv(p) ==
    /\ Exclusive(p)
    /\ CancelReads(p)
    /\ WorkerInv(p)
    /\ NonePaused

CommandInv == \A p \in Procs : AloneInv(p)

-----------------------------------------------------------------------------
(* Who acts                                                                *)

\* The worker's steps leave approvals and cancels alone, and its token is there
\* only while it runs.
LEMMA WorkTouches ==
    ASSUME TypeOK, NEW p \in Procs, Work(p)
    PROVE  /\ pc[p] # "idle" /\ approver' = approver
           /\ canceller'[p].pc = canceller[p].pc
           /\ \/ token'[p] \in {token[p], "clear"} /\ pc'[p] \notin {"idle", "persist"}
              \/ token'[p] = token[p] /\ pc[p] = "persist"
              \/ token'[p] = "none"
  <1> USE DEF TypeOK, Local, handlers
  <1>1. CASE Saves(p)
    BY <1>1 DEF Saves, RunPersist, RunLink, ResumeRelink, SyncPlan
  <1>2. ASSUME NEW t \in Tasks, RunCreate(p, t) PROVE pc[p] # "idle" /\ token' = token
                   /\ pc'[p] = "link" /\ UNCHANGED handlers
    BY <1>2 DEF RunCreate
  <1>3. CASE Updates(p)
    <2>1. CASE ResumeReopen(p) \/ ResumeRestart(p) \/ ExecBegin(p) \/ ExecOrderFails(p)
      BY <2>1 DEF ResumeReopen, ResumeRestart, ExecBegin, ExecOrderFails, SetState
    <2>2. CASE StepOverCeiling(p) \/ StepCancelled(p) \/ StepTimedOut(p)
      BY <2>2 DEF StepOverCeiling, AtStep, StepCancelled, StepTimedOut, SetState
    <2>3. CASE StepProgress(p) \/ StepFailed(p) \/ ExecComplete(p)
      BY <2>3 DEF StepProgress, StepFailed, ExecComplete, SetState
    <2> QED
      BY <1>3, <2>1, <2>2, <2>3 DEF Updates
  <1>4. CASE Exit(p)
    <2>1. canceller'[p] = [canceller[p] EXCEPT !.live = FALSE]
      BY <1>4 DEF Exit
    <2>2. canceller[p] \in CancelJobs
      OBVIOUS
    <2>3. canceller'[p].pc = canceller[p].pc
      BY <2>1, <2>2 DEF CancelJobs
    <2> QED
      BY <1>4, <2>3 DEF Exit
  <1>5. CASE Reads(p) /\ ~Exit(p)
    BY <1>5 DEF Reads, Register, SyncRead, ResumePlan, ExecLoad, StepStart, AtStep,
       ToolCancelled, ToolFails, StepDone, Exception
  <1>6. CASE (\E s \in Steps : ToolRuns(p, s)) \/ (\E s \in Steps : StepSave(p, s))
    BY <1>6 DEF ToolRuns, StepSave
  <1> QED
    BY <1>1, <1>2, <1>3, <1>4, <1>5, <1>6, WorkCases

\* A handler acts for an approval or a cancel that is in progress.
LEMMA HandleTouches ==
    ASSUME TypeOK, NEW p \in Procs, Handle(p)
    PROVE  /\ UNCHANGED <<pc, job, results, ran, scope>>
           /\ token'[p] = token[p] \/ canceller[p].pc = "set"
           /\ \/ /\ approver[p] # NoApproval /\ approver'[p] = NoApproval
                 /\ UNCHANGED <<canceller, taskRow>>
              \/ /\ canceller[p].pc # "idle" /\ approver' = approver
                 /\ canceller'[p].pc \in {"idle", "transition", "reread", "mirror"}
  <1> USE DEF TypeOK, handlers, workers, rows
  <1>1. CASE ApproveWrite(p)
    BY <1>1 DEF ApproveWrite
  <1>2. canceller[p] \in CancelJobs /\ NoCancel.pc = "idle"
    BY DEF NoCancel
  <1>3. CASE CancelSet(p) \/ CancelRefused(p) \/ CancelMirror(p)
    BY <1>2, <1>3 DEF CancelSet, CancelRefused, CancelMirror
  <1>4. CASE CancelRead(p)
    <2> DEFINE new == [canceller[p] EXCEPT !.pc = "transition",
                                           !.row = taskRow[canceller[p].task].state,
                                           !.approved = taskRow[canceller[p].task].approved]
    <2>1. new.pc = "transition"
      BY <1>2 DEF CancelJobs
    <2>2. canceller' = [canceller EXCEPT ![p] = NoCancel] \/ canceller' = [canceller EXCEPT ![p] = new]
      BY <1>4 DEF CancelRead
    <2> HIDE DEF new
    <2>3. canceller'[p].pc \in {"idle", "transition"}
      BY <1>2, <2>1, <2>2
    <2> QED
      BY <1>4, <2>3 DEF CancelRead
  <1>5. CASE CancelWrite(p)
    <2>1. canceller' = [canceller EXCEPT ![p] = [canceller[p] EXCEPT !.pc = "reread"]]
      BY <1>5 DEF CancelWrite
    <2>2. canceller'[p].pc = "reread"
      BY <1>2, <2>1 DEF CancelJobs
    <2> QED
      BY <1>5, <2>2 DEF CancelWrite
  <1>6. CASE CancelReread(p)
    <2> DEFINE seen == planRow[taskRow[canceller[p].task].plan].version
               new == [canceller[p] EXCEPT !.pc = "mirror", !.version = seen]
    <2>1. new.pc = "mirror"
      BY <1>2 DEF CancelJobs
    <2>2. canceller' = [canceller EXCEPT ![p] = new]
      BY <1>6 DEF CancelReread
    <2> HIDE DEF new
    <2>3. canceller'[p].pc = "mirror"
      BY <2>1, <2>2
    <2> QED
      BY <1>6, <2>3 DEF CancelReread
  <1> QED
    BY <1>1, <1>3, <1>4, <1>5, <1>6 DEF Handle

\* One command at a time.
LEMMA ExclusiveKept ==
    ASSUME NEW p, Alone(p), TypeOK, Exclusive(p), [Next]_vars
    PROVE  Exclusive(p)'
  <1>0. p \in Procs /\ Servers = {} /\ Procs = {p}
    BY DEF Alone
  <1> USE DEF Exclusive
  <1>1. CASE Work(p)
    BY <1>0, <1>1, WorkTouches
  <1>2. CASE Handle(p)
    BY <1>0, <1>2, HandleTouches
  <1>3. CASE Crash(p)
    BY <1>0, <1>3 DEF Crash, Local, TypeOK, NoCancel
  <1>4. CASE Request(p)
    <2>1. pc[p] = "idle" /\ approver[p] = NoApproval /\ canceller[p].pc = "idle" /\ token[p] = "none"
      BY <1>0, <1>4 DEF Request, Free
    <2>2. ASSUME NEW pl \in Plans, CreatePlan(pl) PROVE Exclusive(p)'
      BY <2>2 DEF CreatePlan, workers, handlers
    <2>3. ASSUME NEW pl \in Plans, ApproveRead(p, pl) PROVE Exclusive(p)'
      BY <2>1, <2>3 DEF ApproveRead, workers
    <2>4. ASSUME NEW pl \in Plans, NEW approve \in Grants,
                 \/ RunLoadStored(p, pl, approve)
                 \/ \E v \in Versions : RunLoadFile(p, pl, v, approve)
          PROVE  Exclusive(p)'
      <3>1. UNCHANGED <<token, approver, canceller>> /\ pc'[p] = "persist"
        BY <1>0, <2>4 DEF RunLoadStored, RunLoadFile, Local, handlers, TypeOK
      <3> QED
        BY <2>1, <3>1
    <2>5. ASSUME NEW t \in Tasks, NEW approve \in Grants, ResumeLoad(p, t, approve) PROVE Exclusive(p)'
      <3>1. UNCHANGED <<token, approver, canceller>> /\ pc'[p] # "idle"
        BY <1>0, <2>5 DEF ResumeLoad, Local, handlers, TypeOK
      <3> QED
        BY <2>1, <3>1
    <2>6. ASSUME NEW t \in Tasks, CancelLookup(p, t) PROVE Exclusive(p)'
      <3>1. canceller'[p].pc = "read" /\ UNCHANGED <<pc, token, approver>>
        BY <1>0, <2>1, <2>6 DEF CancelLookup, workers, TypeOK
      <3> QED
        BY <2>1, <3>1
    <2> QED
      BY <1>4, <2>2, <2>3, <2>4, <2>5, <2>6 DEF Request
  <1>5. CASE UNCHANGED vars
    BY <1>5 DEF vars
  <1> QED
    BY <1>0, <1>1, <1>2, <1>3, <1>4, <1>5 DEF Next

\* What a cancel read is what it overwrites.
LEMMA CancelReadsKept ==
    ASSUME NEW p, Alone(p), TypeOK, Exclusive(p), CancelReads(p), [Next]_vars
    PROVE  CancelReads(p)'
  <1>0. p \in Procs /\ Servers = {} /\ Procs = {p} /\ canceller[p] \in CancelJobs
    BY DEF Alone, TypeOK
  <1> USE DEF CancelReads
  <1>1. CASE Work(p)
    BY <1>0, <1>1, WorkTouches DEF Exclusive
  <1>2. CASE Handle(p) /\ ~CancelRead(p)
    <2>1. CASE CancelSet(p) \/ CancelRefused(p) \/ CancelMirror(p) \/ ApproveWrite(p)
      BY <1>0, <2>1, HandleTouches DEF Exclusive, TypeOK, CancelSet, CancelRefused,
         CancelMirror, ApproveWrite, NoCancel
    <2>2. CASE CancelWrite(p) \/ CancelReread(p)
      <3>1. canceller'[p].pc \in {"reread", "mirror"}
        BY <1>0, <2>2 DEF CancelWrite, CancelReread, TypeOK, CancelJobs
      <3> QED
        BY <3>1
    <2> QED
      BY <1>2, <2>1, <2>2 DEF Handle
  <1>3. CASE CancelRead(p)
    <2>1. UNCHANGED taskRow
      BY <1>3 DEF CancelRead, rows
    <2>2. CASE taskRow[canceller[p].task].state \in TerminalStates
      BY <1>0, <1>3, <2>2 DEF CancelRead, TypeOK, NoCancel
    <2>3. CASE taskRow[canceller[p].task].state \notin TerminalStates
      <3>1. canceller'[p] = [canceller[p] EXCEPT !.pc = "transition",
                               !.row = taskRow[canceller[p].task].state,
                               !.approved = taskRow[canceller[p].task].approved]
        BY <1>0, <1>3, <2>3 DEF CancelRead, TypeOK
      <3> QED
        BY <1>0, <2>1, <2>3, <3>1 DEF CancelJobs
    <2> QED
      BY <2>2, <2>3
  <1>4. CASE Crash(p)
    BY <1>0, <1>4 DEF Crash, TypeOK, NoCancel
  <1>5. CASE Request(p)
    <2>1. ASSUME NEW t \in Tasks, CancelLookup(p, t) PROVE canceller'[p].pc # "transition"
      BY <1>0, <2>1 DEF CancelLookup, TypeOK
    <2>2. (\E t \in Tasks : CancelLookup(p, t)) \/ canceller' = canceller
      BY <1>5 DEF Request, CreatePlan, ApproveRead, RunLoadStored, RunLoadFile, ResumeLoad, handlers
    <2> QED
      BY <1>0, <1>5, <2>1, <2>2 DEF Request, Free
  <1>6. CASE UNCHANGED vars
    BY <1>6 DEF vars
  <1> QED
    BY <1>0, <1>1, <1>2, <1>3, <1>4, <1>5, <1>6 DEF Next, Handle

-----------------------------------------------------------------------------
(* The worker                                                              *)

\* What the updates of the row do, besides SetStateEffect.
LEMMA UpdateEffect ==
    ASSUME TypeOK, NEW p \in Procs, job[p].task \in Tasks,
           NEW state \in TaskStates, NEW to \in WorkerPlaces, SetState(p, state, to)
    PROVE  /\ taskRow'[job[p].task].approved = job[p].approved
           /\ job'[p].approved = job[p].approved /\ job'[p].granted = job[p].granted
  <1>1. job[p] \in Jobs
    BY DEF TypeOK
  <1>2. job'[p] = [job[p] EXCEPT !.state = state, !.want = PlanStatusOf[state]]
    BY LocalEffect DEF SetState
  <1>3. job'[p].approved = job[p].approved /\ job'[p].granted = job[p].granted
    BY <1>1, <1>2 DEF Jobs
  <1>4. taskRow'[job[p].task] = [plan |-> job[p].plan, state |-> state, approved |-> job[p].approved]
    BY DEF SetState, TypeOK
  <1> QED
    BY <1>3, <1>4

\* An update of the task keeps memory and row together, and its approval.
LEMMA UpdateAlone ==
    ASSUME TypeOK, Agree, NonePaused, NEW p \in Procs, WorkerInv(p), pc[p] \in Assigned,
           NEW state \in TaskStates, NEW to \in {"reregister", "relink", "load", "exception", "sync",
                                                  "after"},
           SetState(p, state, to), UNCHANGED <<planRow, results, scope>>,
           Fits(to, state), state # "paused",
           to = "after" => pc[p] = "progress",
           pc[p] \in Unapproved => to = "reregister"
    PROVE  WorkerInv(p)' /\ NonePaused'
  <1>1. job[p].task \in Tasks /\ taskRow[job[p].task].plan = job[p].plan
    BY AssignedFacts
  <1>2. to \in WorkerPlaces /\ to \in Assigned /\ to \notin Unassigned
    BY Places DEF Looping
  <1>3. /\ pc'[p] = to /\ SameLoop(job'[p], job[p])
        /\ job'[p].state = state /\ job'[p].want = PlanStatusOf[state]
        /\ taskRow'[job[p].task].state = state
        /\ \A t \in Tasks \ {job[p].task} : taskRow'[t] = taskRow[t]
    BY <1>1, <1>2, SetStateEffect
  <1>4. /\ taskRow'[job[p].task].approved = job[p].approved
        /\ job'[p].approved = job[p].approved /\ job'[p].granted = job[p].granted
    BY <1>1, <1>2, UpdateEffect
  <1>5. Remembers(p)'
    BY <1>2, <1>3 DEF Remembers, Fits, SameLoop
  <1>6. Audited(p)'
    BY <1>2, <1>3, <1>4 DEF Audited, WorkerInv, SameLoop, Unapproved
  <1>7. ScopedToRun(p)'
    BY <1>2, <1>3, <1>4 DEF ScopedToRun, WorkerInv, SameLoop
  <1>8. KeepsRecord(p)'
    <2>1. CASE to = "after"
      <3>1. pc[p] = "progress" /\ KeepsRecord(p)
        BY <2>1 DEF WorkerInv
      <3>2. /\ job'[p].version = job[p].version /\ job'[p].task = job[p].task
            /\ job'[p].todo = job[p].todo /\ job'[p].outcome = job[p].outcome
        BY <1>3 DEF SameLoop
      <3> QED
        BY <1>3, <2>1, <3>1, <3>2 DEF KeepsRecord, Attempted, IsNext, Recorded
    <2>2. CASE to # "after"
      BY <1>3, <2>2 DEF KeepsRecord, Attempted
    <2> QED
      BY <2>1, <2>2
  <1>9. NonePaused'
    BY <1>1, <1>3 DEF NonePaused
  <1> QED
    BY <1>5, <1>6, <1>7, <1>8, <1>9 DEF WorkerInv

\* The updates the worker makes.
LEMMA UpdatesAlone ==
    ASSUME TypeOK, Agree, NonePaused, NEW p \in Procs, WorkerInv(p), token[p] # "set", Updates(p)
    PROVE  WorkerInv(p)' /\ NonePaused'
  <1> USE Places DEF Fits, Looping, TaskStates, TerminalStates, Unapproved
  <1>1. CASE ResumeReopen(p)
    BY <1>1, UpdateAlone DEF ResumeReopen
  <1>2. CASE ResumeRestart(p)
    BY <1>2, UpdateAlone DEF ResumeRestart
  <1>3. CASE ExecBegin(p)
    BY <1>3, UpdateAlone DEF ExecBegin
  <1>4. CASE ExecOrderFails(p)
    BY <1>4, UpdateAlone DEF ExecOrderFails
  <1>5. CASE StepTimedOut(p)
    BY <1>5, UpdateAlone DEF StepTimedOut, AtStep
  <1>6. CASE StepFailed(p)
    BY <1>6, UpdateAlone DEF StepFailed
  <1>7. CASE ExecComplete(p)
    BY <1>7, UpdateAlone DEF ExecComplete
  <1>8. CASE StepProgress(p)
    <2>1. job[p].state = "running"
      BY <1>8 DEF StepProgress, WorkerInv, Remembers
    <2> QED
      BY <1>8, <2>1, UpdateAlone DEF StepProgress
  <1>9. ~StepCancelled(p)
    BY DEF StepCancelled
  <1>10. CASE StepOverCeiling(p)
    BY <1>10, UpdateAlone DEF StepOverCeiling
  <1> QED
    BY <1>1, <1>2, <1>3, <1>4, <1>5, <1>6, <1>7, <1>8, <1>9, <1>10 DEF Updates

\* Steps that leave the task's row where it is: what the worker remembers stays right
\* as long as the place it goes to fits.
LEMMA QuietAlone ==
    ASSUME TypeOK, Agree, NEW p \in Procs, WorkerInv(p), pc[p] \in Assigned, pc'[p] \in Assigned,
           UNCHANGED taskRow,
           job'[p].plan = job[p].plan, job'[p].task = job[p].task, job'[p].state = job[p].state,
           job'[p].granted = job[p].granted,
           Fits(pc'[p], job[p].state),
           pc'[p] \in {"sync", "synced"} => job'[p].want = PlanStatusOf[job[p].state],
           pc'[p] = "exit" => /\ planRow'[job[p].plan].status = PlanStatusOf[job[p].state]
                              /\ planRow'[job[p].plan].task = job[p].task,
           \/ pc'[p] = "restart" /\ pc[p] = "reregister"
                 /\ job'[p].approved = (job[p].approved \/ job[p].granted)
           \/ /\ job'[p].approved = job[p].approved /\ pc'[p] # "restart" /\ pc[p] # "restart"
              /\ pc[p] \in Unapproved => pc'[p] \in Unapproved,
           scope'[p] = scope[p] \/ ScopedToRun(p)',
           KeepsRecord(p)'
    PROVE  WorkerInv(p)'
  <1>1. Remembers(p)'
    BY DEF Remembers, WorkerInv
  <1>2. pc'[p] \notin Unassigned
    BY Places
  <1>3. /\ taskRow[job[p].task].approved \in BOOLEAN /\ job[p].approved \in BOOLEAN
        /\ job[p].granted \in BOOLEAN
    BY AssignedFacts DEF TypeOK, TaskRows, Jobs
  <1>4. Audited(p)'
    BY <1>2, <1>3 DEF Audited, WorkerInv, Unapproved
  <1>5. ScopedToRun(p)'
    BY DEF WorkerInv, ScopedToRun
  <1> QED
    BY <1>1, <1>4, <1>5 DEF WorkerInv

\* Outside the loop there is nothing to keep.
LEMMA NotBusy ==
    ASSUME NEW p, pc'[p] \notin Looping
    PROVE  KeepsRecord(p)'
  BY DEF KeepsRecord, Attempted, Looping

\* What an update of one field leaves in the others.
LEMMA JobFields ==
    ASSUME NEW j \in Jobs, NEW x, NEW y
    PROVE  /\ LET k == [j EXCEPT !.kept = y, !.todo = x]
              IN  /\ k.plan = j.plan /\ k.task = j.task /\ k.state = j.state
                  /\ k.granted = j.granted /\ k.approved = j.approved
                  /\ k.version = j.version /\ k.todo = x
           /\ LET k == [j EXCEPT !.todo = x]
              IN  /\ k.plan = j.plan /\ k.task = j.task /\ k.state = j.state
                  /\ k.granted = j.granted /\ k.approved = j.approved
                  /\ k.version = j.version /\ k.todo = x
           /\ LET k == [j EXCEPT !.outcome = x]
              IN  /\ k.plan = j.plan /\ k.task = j.task /\ k.state = j.state
                  /\ k.granted = j.granted /\ k.approved = j.approved
                  /\ k.version = j.version /\ k.todo = j.todo /\ k.outcome = x
           /\ LET k == [j EXCEPT !.want = x]
              IN  /\ k.plan = j.plan /\ k.task = j.task /\ k.state = j.state
                  /\ k.granted = j.granted /\ k.approved = j.approved /\ k.want = x
           /\ LET k == [j EXCEPT !.current = x]
              IN  /\ k.plan = j.plan /\ k.task = j.task /\ k.state = j.state
                  /\ k.granted = j.granted /\ k.approved = j.approved /\ k.want = j.want
           /\ LET k == [j EXCEPT !.version = x]
              IN  /\ k.plan = j.plan /\ k.task = j.task /\ k.state = j.state
                  /\ k.granted = j.granted /\ k.approved = j.approved
  BY DEF Jobs

\* The worker's saves of its plan leave the task where it is.
LEMMA SavesAlone ==
    ASSUME TypeOK, Agree, NonePaused, NEW p \in Procs, WorkerInv(p), Saves(p)
    PROVE  WorkerInv(p)' /\ NonePaused'
  <1> USE Places
  <1>0. UNCHANGED <<taskRow, results, scope>>
    BY DEF Saves, RunPersist, RunLink, ResumeRelink, SyncPlan
  <1>1. NonePaused'
    BY <1>0 DEF NonePaused
  <1>2. CASE RunPersist(p)
    <2>1. pc[p] = "persist" /\ (pc'[p] = "idle" \/ (pc'[p] = "create" /\ job'[p] = job[p]))
      BY <1>2, LocalEffect DEF RunPersist
    <2>2. KeepsRecord(p)'
      BY <2>1, NotBusy DEF Looping
    <2>3. scope[p] = NoTask
      BY <2>1 DEF WorkerInv, ScopedToRun, Unassigned
    <2>4. pc'[p] \notin Assigned /\ pc[p] \in Unassigned
      BY <2>1 DEF Unassigned
    <2> QED
      BY <1>0, <1>1, <2>1, <2>2, <2>3, <2>4 DEF WorkerInv, Remembers, Audited, ScopedToRun,
         Unassigned
  <1>3. CASE RunLink(p) \/ ResumeRelink(p)
    <2>1. /\ job'[p] = job[p]
          /\ \/ pc[p] = "linked" /\ pc'[p] = "register"
             \/ pc[p] = "relinked" /\ pc'[p] = "begin"
      BY <1>3, LocalEffect DEF RunLink, ResumeRelink
    <2>2. KeepsRecord(p)'
      BY <2>1, NotBusy DEF Looping
    <2>3. Fits(pc'[p], job[p].state)
      BY <2>1 DEF WorkerInv, Remembers, Fits, Looping
    <2> QED
      BY <1>0, <1>1, <2>1, <2>2, <2>3, QuietAlone DEF Unapproved
  <1>4. CASE SyncPlan(p)
    <2>1. /\ pc[p] = "synced" /\ pc'[p] = "exit" /\ job'[p] = job[p]
          /\ job[p].want = PlanStatusOf[job[p].state]
      BY <1>4, LocalEffect DEF SyncPlan, WorkerInv, Remembers
    <2>2. job[p].plan \in Plans
      BY <2>1, AssignedFacts
    <2>3. /\ planRow'[job[p].plan].status = PlanStatusOf[job[p].state]
          /\ planRow'[job[p].plan].task = job[p].task
      BY <1>4, <2>1, <2>2 DEF SyncPlan, SavePlan, TypeOK
    <2>4. KeepsRecord(p)' /\ Fits(pc'[p], job[p].state)
      BY <2>1, NotBusy DEF Fits, Looping
    <2> QED
      BY <1>0, <1>1, <2>1, <2>3, <2>4, QuietAlone DEF Unapproved
  <1> QED
    BY <1>2, <1>3, <1>4 DEF Saves

\* A token registered: the approval in force is that of the run.
LEMMA RegisterAlone ==
    ASSUME TypeOK, Agree, NEW p \in Procs, WorkerInv(p), Register(p)
    PROVE  WorkerInv(p)'
  <1> USE Places
  <1>0. UNCHANGED taskRow /\ pc[p] \in {"register", "reregister"}
    BY DEF Register, rows
  <1>1. \/ pc[p] = "register" /\ pc'[p] = "begin" /\ job'[p] = job[p]
        \/ pc[p] = "reregister" /\ pc'[p] = "restart"
              /\ job'[p] = [job[p] EXCEPT !.approved = job[p].approved \/ job[p].granted]
    BY LocalEffect DEF Register
  <1>2. KeepsRecord(p)'
    BY <1>1, NotBusy DEF Looping
  <1>3. Fits(pc'[p], job[p].state)
    BY <1>1 DEF WorkerInv, Remembers, Fits, Looping
  <1>4. job[p] \in Jobs
    BY DEF TypeOK
  <1>5. /\ job'[p].plan = job[p].plan /\ job'[p].task = job[p].task
        /\ job'[p].state = job[p].state /\ job'[p].granted = job[p].granted
    BY <1>1, <1>4 DEF Jobs
  <1>6. \/ pc[p] = "register" /\ pc'[p] = "begin" /\ job'[p].approved = job[p].approved
        \/ pc[p] = "reregister" /\ pc'[p] = "restart"
              /\ job'[p].approved = (job[p].approved \/ job[p].granted)
    BY <1>1, <1>4 DEF Jobs
  <1>7. ScopedToRun(p)'
    <2>1. scope'[p] = IF job[p].granted THEN job[p].task ELSE scope[p]
      BY DEF Register, Scoped, TypeOK
    <2>2. pc'[p] \in Assigned
      BY <1>6
    <2>3. job[p].granted \in BOOLEAN
      BY <1>4 DEF Jobs
    <2> QED
      BY <1>5, <2>1, <2>2, <2>3 DEF ScopedToRun, WorkerInv
  <1> QED
    BY <1>0, <1>2, <1>3, <1>5, <1>6, <1>7, QuietAlone DEF Unapproved

\* The plan is read again, before a save or for a resume.
LEMMA PlanReadsAlone ==
    ASSUME TypeOK, Agree, NonePaused, NEW p \in Procs, WorkerInv(p), SyncRead(p) \/ ResumePlan(p)
    PROVE  WorkerInv(p)'
  <1> USE Places
  <1>0. UNCHANGED <<taskRow, scope>> /\ job[p] \in Jobs
    BY DEF SyncRead, ResumePlan, rows, TypeOK
  <1>1. CASE SyncRead(p)
    <2> DEFINE j == [job[p] EXCEPT !.current = planRow[job[p].plan].version]
    <2>1. /\ j.plan = job[p].plan /\ j.task = job[p].task /\ j.state = job[p].state
          /\ j.granted = job[p].granted /\ j.approved = job[p].approved /\ j.want = job[p].want
      BY <1>0, JobFields
    <2> HIDE DEF j
    <2>2. /\ job'[p] = j
          /\ \/ pc[p] = "link" /\ pc'[p] = "linked"
             \/ pc[p] = "relink" /\ pc'[p] = "relinked"
             \/ pc[p] = "sync" /\ pc'[p] = "synced"
      BY <1>1, LocalEffect DEF SyncRead, j
    <2>3. KeepsRecord(p)'
      BY <2>2, NotBusy DEF Looping
    <2>4. Fits(pc'[p], job[p].state)
      BY <2>2 DEF WorkerInv, Remembers, Fits, Looping
    <2>5. pc[p] = "sync" => job[p].want = PlanStatusOf[job[p].state]
      BY DEF WorkerInv, Remembers
    <2> QED
      BY <1>0, <2>1, <2>2, <2>3, <2>4, <2>5, QuietAlone DEF Unapproved
  <1>2. CASE ResumePlan(p)
    <2> DEFINE j == [job[p] EXCEPT !.version = planRow[job[p].plan].version]
    <2>1. /\ j.plan = job[p].plan /\ j.task = job[p].task /\ j.state = job[p].state
          /\ j.granted = job[p].granted /\ j.approved = job[p].approved
      BY <1>0, JobFields
    <2>2. j \in Jobs
      <3>1. planRow[job[p].plan].version \in Versions \cup {NoVersion}
        BY <1>2, AssignedFacts DEF ResumePlan, TypeOK, PlanRows
      <3> QED
        BY <1>0, <3>1, JobUpdates
    <2> HIDE DEF j
    <2>3. /\ pc[p] = "fetch"
          /\ \/ pc'[p] = "sync" /\ job'[p] = [j EXCEPT !.want = PlanStatusOf[j.state]]
             \/ pc'[p] = "reopen" /\ j.state \in Reopenable /\ job'[p] = j
             \/ /\ pc'[p] = "reregister" /\ j.state \in TaskStates \ TerminalStates
                /\ job'[p] = j
      BY <1>2, LocalEffect DEF ResumePlan, j
    <2>4. /\ job'[p].plan = job[p].plan /\ job'[p].task = job[p].task
          /\ job'[p].state = job[p].state
          /\ job'[p].granted = job[p].granted /\ job'[p].approved = job[p].approved
          /\ pc'[p] = "sync" => job'[p].want = PlanStatusOf[job[p].state]
          /\ pc'[p] \in {"sync", "reopen", "reregister"}
      <3> DEFINE k == [j EXCEPT !.want = PlanStatusOf[j.state]]
      <3>1. /\ k.plan = j.plan /\ k.task = j.task /\ k.state = j.state
            /\ k.granted = j.granted /\ k.approved = j.approved
            /\ k.want = PlanStatusOf[j.state]
        BY <2>2, JobFields
      <3> HIDE DEF k
      <3> QED
        BY <2>1, <2>3, <3>1 DEF k
    <2>5. job[p].state # "paused"
      BY <1>2, AssignedFacts DEF ResumePlan, NonePaused, WorkerInv, Remembers
    <2>6. Fits(pc'[p], job[p].state)
      BY <2>1, <2>3, <2>5 DEF Fits, Looping, TaskStates, TerminalStates
    <2>7. KeepsRecord(p)'
      BY <2>4, NotBusy DEF Looping
    <2> QED
      BY <1>0, <2>3, <2>4, <2>6, <2>7, QuietAlone DEF Unapproved
  <1> QED
    BY <1>1, <1>2

\* A new task's row has the approval of the request.
LEMMA CreateAlone ==
    ASSUME TypeOK, Agree, NonePaused, NEW p \in Procs, WorkerInv(p), NEW t \in Tasks, RunCreate(p, t)
    PROVE  WorkerInv(p)' /\ NonePaused'
  <1>1. job[p] \in Jobs /\ pc[p] = "create" /\ taskRow[t].state = Absent
    BY DEF RunCreate, TypeOK
  <1>2. job'[p] = [job[p] EXCEPT !.task = t, !.state = "pending"] /\ pc'[p] = "link"
    BY LocalEffect DEF RunCreate
  <1>3. /\ job'[p].task = t /\ job'[p].state = "pending"
        /\ job'[p].approved = job[p].approved /\ job'[p].granted = job[p].granted
    BY <1>1, <1>2 DEF Jobs
  <1>4. /\ taskRow'[t].state = "pending" /\ taskRow'[t].approved = job[p].approved
        /\ \A u \in Tasks \ {t} : taskRow'[u] = taskRow[u]
        /\ UNCHANGED scope
    BY DEF RunCreate, TypeOK
  <1>5. Remembers(p)'
    BY <1>2, <1>3, <1>4 DEF Remembers, Fits, Looping
  <1>6. Audited(p)'
    BY <1>1, <1>2, <1>3, <1>4, Places DEF Audited, WorkerInv, Unassigned
  <1>7. ScopedToRun(p)'
    BY <1>1, <1>4, Places DEF WorkerInv, ScopedToRun, Unassigned
  <1>8. KeepsRecord(p)'
    BY <1>2, NotBusy DEF Looping
  <1>9. NonePaused'
    BY <1>4 DEF NonePaused
  <1> QED
    BY <1>5, <1>6, <1>7, <1>8, <1>9 DEF WorkerInv

\* Only one step is the next.
LEMMA NextIsOne ==
    ASSUME TypeOK, NEW p \in Procs, NEW r, NEW s, IsNext(p, r), IsNext(p, s)
    PROVE  r = s
  <1>1. job[p].todo \subseteq Nat
    BY VersionAssumption DEF TypeOK, Jobs, Steps
  <1> QED
    BY <1>1 DEF IsNext

\* The loop: what is done is recorded.
LEMMA LoopAlone ==
    ASSUME TypeOK, Agree, NEW p \in Procs, WorkerInv(p),
           ExecLoad(p) \/ StepStart(p) \/ ToolFails(p) \/ (\E s \in Steps : StepDone(p, s))
    PROVE  WorkerInv(p)'
  <1> USE Places
  <1>0. job[p] \in Jobs /\ UNCHANGED <<taskRow, results, scope>>
    BY DEF TypeOK, ExecLoad, StepStart, ToolFails, StepDone, rows
  <1>1. KeepsRecord(p)
    BY DEF WorkerInv
  <1>2. CASE ExecLoad(p)
    <2> DEFINE kept == Recorded(job[p].task)
               todo == {s \in PlanSteps(job[p].version) : IdAt[job[p].version][s] \notin kept}
               j == [job[p] EXCEPT !.kept = kept, !.todo = todo]
    <2>1. pc[p] = "load" /\ pc'[p] = "step" /\ job'[p] = j
      BY <1>2, LocalEffect DEF ExecLoad
    <2>2. /\ j.plan = job[p].plan /\ j.task = job[p].task
          /\ j.state = job[p].state /\ j.granted = job[p].granted
          /\ j.approved = job[p].approved
          /\ j.version = job[p].version /\ j.todo = todo
      <3> HIDE DEF kept, todo
      <3> QED BY <1>0, JobFields
    <2> HIDE DEF j
    <2>3. Recorded(job[p].task)' = kept
      <3>1. Recorded(job[p].task)' = {i \in StepIds : results[job'[p].task][i] = "ok"}
        BY <1>0 DEF Recorded
      <3> QED
        BY <2>1, <2>2, <3>1 DEF Recorded
    <2>4. KeepsRecord(p)'
      BY <2>1, <2>2, <2>3 DEF KeepsRecord, Attempted
    <2>5. Fits(pc'[p], job[p].state)
      BY <2>1 DEF WorkerInv, Remembers, Fits, Looping
    <2> QED
      BY <1>0, <2>1, <2>2, <2>4, <2>5, QuietAlone DEF Unapproved, Looping
  <1>3. CASE StepStart(p)
    <2>1. pc[p] = "step" /\ pc'[p] = "tool" /\ job'[p] = job[p]
      BY <1>3, LocalEffect DEF StepStart, AtStep
    <2>2. KeepsRecord(p)'
      BY <1>0, <1>1, <2>1 DEF KeepsRecord, Attempted, Recorded
    <2>3. Fits(pc'[p], job[p].state)
      BY <2>1 DEF WorkerInv, Remembers, Fits, Looping
    <2> QED
      BY <1>0, <2>1, <2>2, <2>3, QuietAlone DEF Unapproved, Looping
  <1>4. CASE ToolFails(p)
    <2>1. /\ pc[p] = "tool" /\ pc'[p] = "save"
          /\ job'[p] = [job[p] EXCEPT !.outcome = "failed"]
      BY <1>4, LocalEffect DEF ToolFails
    <2>2. /\ job'[p].plan = job[p].plan /\ job'[p].task = job[p].task
          /\ job'[p].state = job[p].state /\ job'[p].granted = job[p].granted
          /\ job'[p].approved = job[p].approved /\ job'[p].todo = job[p].todo
          /\ job'[p].version = job[p].version /\ job'[p].outcome = "failed"
      BY <1>0, <2>1, JobFields
    <2>3. KeepsRecord(p)'
      BY <1>0, <1>1, <2>1, <2>2 DEF KeepsRecord, Attempted, Recorded
    <2>4. Fits(pc'[p], job[p].state)
      BY <2>1 DEF WorkerInv, Remembers, Fits, Looping
    <2> QED
      BY <1>0, <2>1, <2>2, <2>3, <2>4, QuietAlone DEF Unapproved, Looping
  <1>5. ASSUME NEW s \in Steps, StepDone(p, s) PROVE WorkerInv(p)'
    <2>1. /\ pc[p] = "after" /\ pc'[p] = "step" /\ job[p].outcome = "ok" /\ IsNext(p, s)
          /\ job'[p] = [job[p] EXCEPT !.todo = job[p].todo \ {s}]
      BY <1>5, LocalEffect DEF StepDone
    <2>2. /\ job'[p].plan = job[p].plan /\ job'[p].task = job[p].task
          /\ job'[p].state = job[p].state /\ job'[p].granted = job[p].granted
          /\ job'[p].approved = job[p].approved /\ job'[p].version = job[p].version
          /\ job'[p].todo = job[p].todo \ {s}
      BY <1>0, <2>1, JobFields
    <2>3. /\ \A x \in PlanSteps(job[p].version) \ (job[p].todo \ {s}) :
                IdAt[job[p].version][x] \in Recorded(job[p].task)
          /\ DistinctIds(job[p].version) =>
                \A x \in job[p].todo \ {s} :
                    IdAt[job[p].version][x] \notin Recorded(job[p].task)
      BY <1>1, <2>1, NextIsOne DEF KeepsRecord
    <2>4. KeepsRecord(p)'
      BY <1>0, <2>1, <2>2, <2>3 DEF KeepsRecord, Attempted, Recorded
    <2>5. Fits(pc'[p], job[p].state)
      BY <2>1 DEF WorkerInv, Remembers, Fits, Looping
    <2> QED
      BY <1>0, <2>1, <2>2, <2>4, <2>5, QuietAlone DEF Unapproved, Looping
  <1> QED
    BY <1>2, <1>3, <1>4, <1>5

\* The tool's work is not recorded yet.
LEMMA ToolAlone ==
    ASSUME TypeOK, Agree, NEW p \in Procs, WorkerInv(p), NEW s \in Steps, ToolRuns(p, s)
    PROVE  WorkerInv(p)'
  <1> USE Places
  <1>0. job[p] \in Jobs /\ UNCHANGED <<taskRow, results, scope>>
    BY DEF TypeOK, ToolRuns, rows
  <1>1. PICK outcome \in {"ok", "failed"} :
            Local(p, "save", [job[p] EXCEPT !.outcome = outcome])
    BY DEF ToolRuns
  <1>2. /\ pc[p] = "tool" /\ pc'[p] = "save"
        /\ job'[p] = [job[p] EXCEPT !.outcome = outcome]
    BY <1>1, LocalEffect DEF ToolRuns
  <1>3. /\ job'[p].plan = job[p].plan /\ job'[p].task = job[p].task
        /\ job'[p].state = job[p].state /\ job'[p].granted = job[p].granted
        /\ job'[p].approved = job[p].approved /\ job'[p].todo = job[p].todo
        /\ job'[p].version = job[p].version /\ job'[p].outcome = outcome
    BY <1>0, <1>2, JobFields
  <1>4. KeepsRecord(p)'
    BY <1>0, <1>2, <1>3 DEF KeepsRecord, Attempted, Recorded, WorkerInv
  <1>5. Fits(pc'[p], job[p].state)
    BY <1>2 DEF WorkerInv, Remembers, Fits, Looping
  <1> QED
    BY <1>0, <1>2, <1>3, <1>4, <1>5, QuietAlone DEF Unapproved, Looping

\* The step saved comes after recorded ones, and is not recorded itself when its id
\* is its own.
LEMMA SaveFacts ==
    ASSUME TypeOK, Agree, NEW p \in Procs, WorkerInv(p), NEW s \in Steps, StepSave(p, s)
    PROVE  LET t == job[p].task
               v == job[p].version
           IN  /\ pc[p] = "save" /\ pc'[p] = "progress" /\ job'[p] = job[p] /\ IsNext(p, s)
               /\ t \in Tasks /\ taskRow[t].plan = job[p].plan /\ taskRow[t].state = "running"
               /\ v \in Versions /\ v \in Gated(job[p].plan) /\ job[p].plan \in Plans
               /\ s \in PlanSteps(v) /\ job[p].todo \subseteq PlanSteps(v)
               /\ IdsBefore(v, s) \subseteq Recorded(t)
               /\ DistinctIds(v) => IdAt[v][s] \notin Recorded(t)
               /\ job[p].outcome \in {"ok", "failed"}
               /\ UNCHANGED <<taskRow, scope>>
               /\ \A i \in StepIds : results'[t][i] =
                     IF i = IdAt[v][s] THEN job[p].outcome ELSE results[t][i]
               /\ \A u \in Tasks : u # t => results'[u] = results[u]
  <1> USE Places
  <1> DEFINE t == job[p].task
             v == job[p].version
  <1>1. pc[p] = "save" /\ pc'[p] = "progress" /\ job'[p] = job[p] /\ IsNext(p, s)
    BY LocalEffect DEF StepSave
  <1>2. pc[p] \in Assigned /\ pc[p] \in Looping /\ pc[p] \in Attempted
    BY <1>1 DEF Looping, Attempted
  <1>3. /\ job[p] \in Jobs /\ t \in Tasks /\ taskRow[t].plan = job[p].plan
        /\ v \in Gated(job[p].plan) /\ job[p].plan \in Plans
    BY <1>1, <1>2, AssignedFacts
  <1>4. v \in Versions
    BY <1>3, VersionTypes
  <1>5. taskRow[t].state = "running"
    BY <1>1, <1>2 DEF WorkerInv, Remembers, Fits
  <1>6. job[p].todo \subseteq PlanSteps(v)
    BY <1>2 DEF Agree, WorkerOK, LoopsOverRest
  <1>7. s \in PlanSteps(v) /\ s \in Nat /\ PlanLen[v] \in Nat
    BY <1>1, <1>4, <1>6, VersionAssumption DEF IsNext, Steps
  <1>8. /\ \A x \in PlanSteps(v) \ job[p].todo : IdAt[v][x] \in Recorded(t)
        /\ DistinctIds(v) => IdAt[v][s] \notin Recorded(t)
        /\ job[p].outcome \in {"ok", "failed"}
    BY <1>1, <1>2 DEF WorkerInv, KeepsRecord, IsNext
  <1>9. IdsBefore(v, s) \subseteq Recorded(t)
    <2> SUFFICES ASSUME NEW r \in 1..(s - 1) PROVE IdAt[v][r] \in Recorded(t)
      BY DEF IdsBefore
    <2>1. r \in PlanSteps(v) /\ ~(s <= r)
      BY <1>7 DEF PlanSteps
    <2>2. r \notin job[p].todo
      BY <1>1, <2>1 DEF IsNext
    <2> QED
      BY <1>8, <2>1, <2>2
  <1>10. /\ UNCHANGED <<taskRow, scope>>
         /\ results' = [results EXCEPT ![t][IdAt[v][s]] = job[p].outcome]
    BY DEF StepSave
  <1>11. /\ \A i \in StepIds : results'[t][i] =
               IF i = IdAt[v][s] THEN job[p].outcome ELSE results[t][i]
         /\ \A u \in Tasks : u # t => results'[u] = results[u]
    BY <1>3, <1>10 DEF TypeOK
  <1> QED
    BY <1>1, <1>3, <1>4, <1>5, <1>6, <1>7, <1>8, <1>9, <1>10, <1>11

\* What is recorded stays, and a success is recorded.
LEMMA SaveAlone ==
    ASSUME TypeOK, Agree, NEW p \in Procs, WorkerInv(p), NEW s \in Steps, StepSave(p, s)
    PROVE  WorkerInv(p)'
  <1> DEFINE t == job[p].task
             v == job[p].version
  <1>1. /\ pc[p] = "save" /\ pc'[p] = "progress" /\ job'[p] = job[p] /\ IsNext(p, s)
        /\ v \in Versions /\ s \in PlanSteps(v) /\ job[p].todo \subseteq PlanSteps(v)
        /\ job[p].outcome \in {"ok", "failed"} /\ UNCHANGED <<taskRow, scope>>
        /\ \A i \in StepIds : results'[t][i] =
               IF i = IdAt[v][s] THEN job[p].outcome ELSE results[t][i]
    BY SaveFacts
  <1>2. \A x \in PlanSteps(v) : IdAt[v][x] \in StepIds
    BY <1>1, VersionTypes
  <1>3. /\ \A x \in PlanSteps(v) \ job[p].todo : IdAt[v][x] \in Recorded(t)
        /\ DistinctIds(v) => \A x \in job[p].todo : IdAt[v][x] \notin Recorded(t)
    BY <1>1 DEF WorkerInv, KeepsRecord
  <1> DEFINE after == {i \in StepIds : results'[t][i] = "ok"}
  <1>4. ASSUME job[p].outcome = "ok"
        PROVE  /\ \A x \in PlanSteps(v) : x \notin job[p].todo \/ IsNext(p, x) => IdAt[v][x] \in after
               /\ DistinctIds(v) =>
                     \A x \in job[p].todo : ~IsNext(p, x) => IdAt[v][x] \notin after
    <2>1. ASSUME NEW x \in PlanSteps(v), x \notin job[p].todo \/ IsNext(p, x)
          PROVE  IdAt[v][x] \in after
      BY <1>1, <1>2, <1>3, <1>4, <2>1, NextIsOne DEF Recorded
    <2>2. ASSUME DistinctIds(v), NEW x \in job[p].todo, ~IsNext(p, x)
          PROVE  IdAt[v][x] \notin after
      <3>1. IdAt[v][x] # IdAt[v][s] /\ x \in PlanSteps(v)
        BY <1>1, <2>2 DEF DistinctIds
      <3> QED
        BY <1>1, <1>2, <1>3, <2>2, <3>1 DEF Recorded
    <2> QED
      BY <2>1, <2>2
  <1>5. Recorded(t)' = after
    BY <1>1 DEF Recorded
  <1> HIDE DEF after
  <1>6. KeepsRecord(p)'
    BY <1>1, <1>4, <1>5 DEF KeepsRecord, Attempted, IsNext
  <1>7. Fits(pc'[p], job[p].state)
    BY <1>1, Places DEF WorkerInv, Remembers, Fits, Looping
  <1> QED
    BY <1>1, <1>6, <1>7, QuietAlone, Places DEF Unapproved, Looping

\* The end of a run or a resume.
LEMMA EndsAlone ==
    ASSUME TypeOK, Agree, NEW p \in Procs, WorkerInv(p), Exception(p) \/ Exit(p)
    PROVE  WorkerInv(p)'
  <1> USE Places
  <1>0. job[p] \in Jobs /\ UNCHANGED taskRow
    BY DEF TypeOK, Exception, Exit, rows
  <1>1. CASE Exception(p)
    <2>1. taskRow[job[p].task].state = job[p].state /\ job[p].state \in TerminalStates
      BY <1>1 DEF Exception, WorkerInv, Remembers, Fits
    <2>2. /\ pc[p] = "exception" /\ pc'[p] = "sync" /\ UNCHANGED scope
          /\ job'[p] = [job[p] EXCEPT !.want = PlanStatusOf[job[p].state]]
      BY <1>1, <2>1, LocalEffect DEF Exception
    <2>3. /\ job'[p].plan = job[p].plan /\ job'[p].task = job[p].task
          /\ job'[p].state = job[p].state /\ job'[p].granted = job[p].granted
          /\ job'[p].approved = job[p].approved
          /\ job'[p].want = PlanStatusOf[job[p].state]
      BY <1>0, <2>2, JobFields
    <2>4. KeepsRecord(p)' /\ Fits(pc'[p], job[p].state)
      BY <2>2, NotBusy DEF Fits, Looping
    <2> QED
      BY <1>0, <2>2, <2>3, <2>4, QuietAlone DEF Unapproved
  <1>2. CASE Exit(p)
    <2>1. pc'[p] = "idle"
      BY <1>2, LocalEffect DEF Exit
    <2>2. KeepsRecord(p)'
      BY <2>1, NotBusy DEF Looping
    <2>3. scope'[p] = NoTask
      <3>1. scope'[p] = IF job[p].granted THEN NoTask ELSE scope[p]
        BY <1>2 DEF Exit, Scoped, TypeOK
      <3>2. job[p].granted \in BOOLEAN
        BY <1>0 DEF Jobs
      <3> QED
        BY <3>1, <3>2 DEF WorkerInv, ScopedToRun
    <2> QED
      BY <2>1, <2>2, <2>3 DEF WorkerInv, Remembers, Audited, ScopedToRun
  <1> QED
    BY <1>1, <1>2

\* Every step of the worker.
LEMMA WorkAlone ==
    ASSUME TypeOK, Agree, NonePaused, NEW p \in Procs, WorkerInv(p), token[p] # "set", Work(p)
    PROVE  WorkerInv(p)' /\ NonePaused'
  <1>1. ~ToolCancelled(p)
    BY DEF ToolCancelled
  <1>2. CASE Saves(p)
    BY <1>2, SavesAlone
  <1>3. CASE Updates(p)
    BY <1>3, UpdatesAlone
  <1>4. CASE \E t \in Tasks : RunCreate(p, t)
    BY <1>4, CreateAlone
  <1>5. CASE Reads(p) \/ (\E s \in Steps : ToolRuns(p, s)) \/ (\E s \in Steps : StepSave(p, s))
    <2>1. UNCHANGED taskRow
      BY <1>5 DEF Reads, Register, SyncRead, ResumePlan, ExecLoad, StepStart, ToolCancelled,
         ToolFails, StepDone, Exception, Exit, ToolRuns, StepSave, rows
    <2>2. WorkerInv(p)'
      BY <1>1, <1>5, RegisterAlone, PlanReadsAlone, LoopAlone, EndsAlone, ToolAlone, SaveAlone
         DEF Reads
    <2> QED
      BY <2>1, <2>2 DEF NonePaused
  <1> QED
    BY <1>2, <1>3, <1>4, <1>5, WorkCases

\* An idle worker remembers nothing.
LEMMA IdleAlone ==
    ASSUME NEW p, pc'[p] = "idle", scope'[p] = NoTask
    PROVE  WorkerInv(p)'
  BY NotBusy, Places DEF WorkerInv, Remembers, Audited, ScopedToRun, Looping

\* A request that loads something finds it as the row has it.
LEMMA RequestAlone ==
    ASSUME TypeOK, NonePaused, NEW p \in Procs, WorkerInv(p), pc[p] = "idle", Request(p)
    PROVE  WorkerInv(p)' /\ NonePaused'
  <1> USE Places
  <1>0. scope[p] = NoTask
    BY DEF WorkerInv, ScopedToRun
  <1>1. UNCHANGED <<taskRow, scope>>
    BY DEF Request, CreatePlan, ApproveRead, RunLoadStored, RunLoadFile, ResumeLoad, CancelLookup,
       rows, workers
  <1>2. NonePaused'
    BY <1>1 DEF NonePaused
  <1>3. ASSUME pc'[p] = "idle" PROVE WorkerInv(p)'
    BY <1>0, <1>1, <1>3, IdleAlone
  <1>4. ASSUME NEW pl \in Plans, CreatePlan(pl) \/ ApproveRead(p, pl) PROVE WorkerInv(p)'
    BY <1>3, <1>4 DEF CreatePlan, ApproveRead, workers
  <1>5. ASSUME NEW pl \in Plans, NEW approve \in Grants,
               \/ RunLoadStored(p, pl, approve)
               \/ \E v \in Versions : RunLoadFile(p, pl, v, approve)
        PROVE  WorkerInv(p)'
    <2>1. /\ pc'[p] = "persist"
          /\ \/ job'[p] = [NoJob EXCEPT !.plan = pl, !.version = planRow[pl].version,
                               !.task = planRow[pl].task, !.granted = approve, !.approved = approve]
             \/ \E v \in Versions : job'[p] = [NoJob EXCEPT !.plan = pl, !.version = v,
                                                   !.granted = approve, !.approved = approve]
      BY <1>5, LocalEffect DEF RunLoadStored, RunLoadFile
    <2>2. job'[p].approved = job'[p].granted
      BY <2>1 DEF NoJob
    <2>3. KeepsRecord(p)'
      BY <2>1, NotBusy DEF Looping
    <2>4. pc'[p] \notin Assigned
      BY <2>1 DEF Unassigned
    <2> QED
      BY <1>0, <1>1, <2>2, <2>3, <2>4 DEF WorkerInv, Remembers, Audited, ScopedToRun
  <1>6. ASSUME NEW t \in Tasks, NEW approve \in Grants, ResumeLoad(p, t, approve) PROVE WorkerInv(p)'
    <2>1. /\ pc'[p] = "fetch"
          /\ job'[p] = [NoJob EXCEPT !.plan = taskRow[t].plan, !.task = t,
                                     !.state = taskRow[t].state, !.granted = approve,
                                     !.approved = taskRow[t].approved]
      BY <1>6, LocalEffect DEF ResumeLoad
    <2>2. /\ job'[p].task = t /\ job'[p].state = taskRow[t].state
          /\ job'[p].approved = taskRow[t].approved
      BY <2>1 DEF NoJob
    <2>3. Remembers(p)' /\ Audited(p)'
      BY <1>1, <2>1, <2>2 DEF Remembers, Fits, Looping, Audited, Unapproved
    <2>4. KeepsRecord(p)'
      BY <2>1, NotBusy DEF Looping
    <2> QED
      BY <1>0, <1>1, <2>3, <2>4 DEF WorkerInv, ScopedToRun
  <1>7. ASSUME NEW t \in Tasks, CancelLookup(p, t) PROVE WorkerInv(p)'
    BY <1>3, <1>7 DEF CancelLookup, workers
  <1> QED
    BY <1>2, <1>4, <1>5, <1>6, <1>7 DEF Request

\* Approvals and cancels pause nothing.
LEMMA HandleAlone ==
    ASSUME TypeOK, NonePaused, NEW p \in Procs, WorkerInv(p), pc[p] = "idle", Handle(p)
    PROVE  WorkerInv(p)' /\ NonePaused'
  <1>1. WorkerInv(p)'
    <2>1. scope[p] = NoTask
      BY Places DEF WorkerInv, ScopedToRun
    <2> QED
      BY <2>1, HandleTouches, IdleAlone
  <1>2. CASE CancelWrite(p)
    <2>1. \A t \in Tasks : taskRow'[t].state \in {taskRow[t].state, "cancelled"}
      BY <1>2 DEF CancelWrite, TypeOK
    <2> QED
      BY <1>1, <2>1 DEF NonePaused
  <1>3. CASE ~CancelWrite(p)
    <2>1. UNCHANGED taskRow
      BY <1>3 DEF Handle, ApproveWrite, CancelSet, CancelRead, CancelRefused, CancelReread,
         CancelMirror, rows
    <2> QED
      BY <1>1, <2>1 DEF NonePaused
  <1> QED
    BY <1>2, <1>3

\* AloneInv is inductive, given what TaskInv says.
LEMMA InitAlone ==
    ASSUME NEW p, Alone(p), Init
    PROVE  AloneInv(p)
  <1>1. p \in Procs
    BY DEF Alone
  <1>2. Exclusive(p) /\ CancelReads(p)
    BY <1>1, JobType DEF Init, Exclusive, CancelReads
  <1>3. WorkerInv(p)
    BY <1>1, Places DEF Init, WorkerInv, Remembers, Audited, ScopedToRun, KeepsRecord, Attempted
  <1>4. NonePaused
    BY DEF Init, NonePaused, NoRow, Absent
  <1> QED
    BY <1>2, <1>3, <1>4 DEF AloneInv

LEMMA NextAlone ==
    ASSUME NEW p, Alone(p), TypeOK, Agree, AloneInv(p), [Next]_vars
    PROVE  AloneInv(p)'
  <1>0. p \in Procs /\ Procs = {p} /\ Servers = {}
    BY DEF Alone
  <1>1. WorkerInv(p) /\ NonePaused /\ Exclusive(p) /\ CancelReads(p) /\ token[p] # "set"
    BY DEF AloneInv, Exclusive
  <1>2. Exclusive(p)' /\ CancelReads(p)'
    BY <1>1, ExclusiveKept, CancelReadsKept
  <1>3. CASE Work(p)
    BY <1>0, <1>1, <1>2, <1>3, WorkAlone DEF AloneInv
  <1>4. CASE Request(p)
    <2>1. pc[p] = "idle"
      BY <1>0, <1>4 DEF Request, Free
    <2> QED
      BY <1>0, <1>1, <1>2, <1>4, <2>1, RequestAlone DEF AloneInv
  <1>5. CASE Handle(p)
    <2>1. pc[p] = "idle"
      BY <1>0, <1>1, <1>5, HandleTouches DEF Exclusive
    <2> QED
      BY <1>0, <1>1, <1>2, <1>5, <2>1, HandleAlone DEF AloneInv
  <1>6. CASE Crash(p)
    <2>1. pc'[p] = "idle" /\ scope'[p] = NoTask /\ UNCHANGED taskRow
      BY <1>0, <1>6, LocalEffect DEF Crash, rows, TypeOK
    <2> QED
      BY <1>1, <1>2, <2>1, IdleAlone DEF AloneInv, NonePaused
  <1>7. CASE UNCHANGED vars
    BY <1>1, <1>2, <1>7 DEF vars, AloneInv, WorkerInv, Remembers, Audited, ScopedToRun,
       KeepsRecord, NonePaused, IsNext, Recorded
  <1> QED
    BY <1>0, <1>3, <1>4, <1>5, <1>6, <1>7 DEF Next

THEOREM AloneHolds ==
    ASSUME OneAtATime
    PROVE  Spec => [](TaskInv /\ CommandInv)
  <1>1. Init => CommandInv
    BY InitAlone DEF OneAtATime, CommandInv, Alone
  <1>2. TaskInv /\ CommandInv /\ [Next]_vars => CommandInv'
    BY NextAlone DEF TaskInv, Agree, OneAtATime, CommandInv, Alone
  <1> QED
    BY <1>1, <1>2, InvariantHolds, PTL DEF Spec

-----------------------------------------------------------------------------
(* What a process that does one command at a time keeps.                   *)

\* The step of the loop in which a tool may do its work.
LEMMA ToolStep ==
    ASSUME NEW p, Alone(p), TypeOK, [Next]_vars, pc[p] = "tool", pc'[p] = "save"
    PROVE  ToolFails(p) \/ \E s \in Steps : ToolRuns(p, s)
  <1>0. p \in Procs /\ Procs = {p} /\ Servers = {}
    BY DEF Alone
  <1>1. CASE Work(p)
    <2>1. CASE Saves(p)
      BY <2>1 DEF Saves, RunPersist, RunLink, ResumeRelink, SyncPlan
    <2>2. CASE Updates(p)
      BY <2>2 DEF Updates, ResumeReopen, ResumeRestart, ExecBegin, ExecOrderFails,
         StepOverCeiling, AtStep, StepCancelled, StepTimedOut, StepProgress, StepFailed,
         ExecComplete
    <2>3. CASE Reads(p) /\ ~ToolFails(p)
      <3>1. ToolCancelled(p)
        BY <2>3 DEF Reads, Register, SyncRead, ResumePlan, ExecLoad, StepStart, AtStep,
           StepDone, Exception, Exit
      <3>2. pc'[p] = "exception"
        BY <1>0, <3>1, LocalEffect DEF ToolCancelled
      <3> QED
        BY <3>2
    <2>4. (\A t \in Tasks : ~RunCreate(p, t)) /\ (\A s \in Steps : ~StepSave(p, s))
      BY DEF RunCreate, StepSave
    <2> QED
      BY <1>0, <1>1, <2>1, <2>2, <2>3, <2>4, WorkCases
  <1>2. CASE Request(p)
    BY <1>0, <1>2 DEF Request, Free
  <1>3. CASE Handle(p)
    BY <1>0, <1>3, HandleTouches
  <1>4. CASE Crash(p)
    BY <1>0, <1>4, LocalEffect DEF Crash
  <1>5. CASE UNCHANGED vars
    BY <1>5 DEF vars
  <1> QED
    BY <1>0, <1>1, <1>2, <1>3, <1>4, <1>5 DEF Next

\* AskStepsAudited: with one command at a time, a tool that needs an approval runs only
\* in an attempt that a person approved, and for a task whose row says so: no approval
\* outlives its run (_TaskScopedApprovalProvider).
THEOREM ApprovalsAudited ==
    ASSUME OneAtATime
    PROVE  Spec => AskStepsAudited
  <1>1. ASSUME TaskInv, CommandInv, [Next]_vars, NEW p \in Procs, NEW s \in Steps,
               pc[p] = "tool", pc'[p] = "save", IsNext(p, s),
               job'[p].outcome = "ok" \/ ran' # ran, <<job[p].version, s>> \in Asks
        PROVE  job[p].granted /\ taskRow[job[p].task].approved
    <2>1. Alone(p) /\ TypeOK /\ Agree /\ WorkerInv(p)
      BY <1>1 DEF TaskInv, Agree, OneAtATime, CommandInv, Alone, AloneInv
    <2>2. ~ToolFails(p)
      <3> SUFFICES ASSUME ToolFails(p) PROVE FALSE
        OBVIOUS
      <3>1. job'[p] = [job[p] EXCEPT !.outcome = "failed"] /\ ran' = ran
        BY <2>1, LocalEffect DEF ToolFails
      <3>2. job'[p].outcome = "failed"
        BY <2>1, <3>1 DEF TypeOK, Jobs
      <3> QED
        BY <1>1, <3>1, <3>2
    <2>3. PICK r \in Steps : ToolRuns(p, r)
      BY <1>1, <2>1, <2>2, ToolStep
    <2>4. r = s
      BY <1>1, <2>1, <2>3, NextIsOne DEF ToolRuns
    <2>5. job[p].task \in Tasks /\ pc[p] \in Assigned /\ pc[p] \notin Unapproved
      BY <1>1, <2>1, AssignedFacts, Places DEF Looping, Unapproved
    <2>6. scope[p] = job[p].task /\ scope[p] # NoTask
      BY <1>1, <2>3, <2>4, <2>5, ProcAssumption DEF ToolRuns
    <2> QED
      BY <1>1, <2>1, <2>5, <2>6 DEF WorkerInv, ScopedToRun, Audited
  <1>2. TaskInv /\ CommandInv /\ [Next]_vars =>
            [\A p \in Procs, s \in Steps :
                /\ pc[p] = "tool" /\ pc'[p] = "save" /\ IsNext(p, s)
                /\ job'[p].outcome = "ok" \/ ran' # ran
                /\ <<job[p].version, s>> \in Asks
                => job[p].granted /\ taskRow[job[p].task].approved]_vars
    BY <1>1
  <1>3. Spec => [](TaskInv /\ CommandInv)
    BY AloneHolds
  <1> QED
    BY <1>2, <1>3, PTL DEF Spec, AskStepsAudited

\* MirroredAtExit: with one command at a time, a run or a resume that returns leaves
\* its plan showing the state of its task (_PLAN_STATUS_BY_TASK_STATE).
THEOREM ExitsMirrored ==
    ASSUME OneAtATime
    PROVE  Spec => []MirroredAtExit
  <1>1. TaskInv /\ CommandInv => MirroredAtExit
    BY Places DEF CommandInv, AloneInv, WorkerInv, Remembers, MirroredAtExit
  <1>2. Spec => [](TaskInv /\ CommandInv)
    BY AloneHolds
  <1> QED
    BY <1>1, <1>2, PTL

\* RecordedStepsNotRerun: with one command at a time, no attempt at a task runs the
\* tool of a step recorded as successful, when its version has an id for each step
\* (TaskExecutor.execute).
THEOREM NothingRunsTwice ==
    ASSUME OneAtATime
    PROVE  Spec => RecordedStepsNotRerun
  <1>1. TaskInv /\ CommandInv /\ [Next]_vars =>
            [\A p \in Procs, s \in Steps :
                pc[p] = "tool" /\ pc'[p] = "save" /\ IsNext(p, s) /\ DistinctIds(job[p].version) =>
                    IdAt[job[p].version][s] \notin Recorded(job[p].task)]_vars
    BY DEF CommandInv, AloneInv, WorkerInv, KeepsRecord, IsNext
  <1>2. Spec => [](TaskInv /\ CommandInv)
    BY AloneHolds
  <1> QED
    BY <1>1, <1>2, PTL DEF Spec, RecordedStepsNotRerun

-----------------------------------------------------------------------------
(* The tables implement TaskContract.                                      *)

\* What the contract sees of the tables.
States == [t \in Tasks |-> taskRow[t].state]
PlansOf == [t \in Tasks |-> taskRow[t].plan]
Dones == [t \in Tasks |-> Recorded(t)]

\* The step or the stutter of the contract that a step of the tables is.
MapsTo == [Contract!Next]_Contract!vars

\* The contract speaks of the same plans.
LEMMA SameVersions ==
    /\ Contract!Absent = Absent /\ Contract!Reopenable = Reopenable
    /\ Contract!TerminalStates = TerminalStates /\ Contract!Steps = Steps
    /\ \A to : Contract!CanTransition("running", to) <=> CanTransition("running", to)
    /\ \A pl : Contract!Gated(pl) = Gated(pl) /\ Contract!VersionsOf(pl) = VersionsOf(pl)
    /\ \A v : /\ Contract!PlanSteps(v) = PlanSteps(v) /\ Contract!IdsOf(v) = IdsOf(v)
              /\ Contract!DistinctIds(v) <=> DistinctIds(v)
    /\ \A v, s : Contract!IdsBefore(v, s) = IdsBefore(v, s)
  BY DEF Contract!Absent, Absent, Contract!Reopenable, Reopenable, Contract!TerminalStates,
     TerminalStates, Contract!Steps, Steps, Contract!CanTransition, CanTransition,
     Contract!TaskTransitions, TaskTransitions, Contract!Gated, Gated, Contract!VersionsOf,
     VersionsOf, Contract!PlanSteps, PlanSteps, Contract!IdsOf, IdsOf, Contract!DistinctIds,
     DistinctIds, Contract!IdsBefore, IdsBefore, Contract!TaskStates, TaskStates

\* A step that keeps plans, states and successes is a stutter.
LEMMA Stutters ==
    ASSUME \A t \in Tasks : taskRow'[t].plan = taskRow[t].plan /\ taskRow'[t].state = taskRow[t].state,
           \A t \in Tasks, i \in StepIds : results'[t][i] = "ok" <=> results[t][i] = "ok"
    PROVE  MapsTo
  <1>1. States' = States /\ PlansOf' = PlansOf /\ Dones' = Dones
    BY DEF States, PlansOf, Dones, Recorded
  <1> QED
    BY <1>1 DEF MapsTo, Contract!vars, States, PlansOf, Dones

\* What the contract makes of a step that changes the state of one task.
LEMMA StateMaps ==
    ASSUME NEW t \in Tasks, NEW to,
           \A u \in Tasks : taskRow'[u].plan = taskRow[u].plan,
           \A u \in Tasks : taskRow'[u].state = IF u = t THEN to ELSE taskRow[u].state,
           UNCHANGED results,
           \/ taskRow[t].state = to
           \/ taskRow[t].state = "pending" /\ to = "running"
           \/ taskRow[t].state \in Reopenable /\ to = "pending"
           \/ /\ taskRow[t].state = "running" /\ to \in TerminalStates
              /\ to = "completed" => \E v \in VersionsOf(taskRow[t].plan) : IdsOf(v) \subseteq Recorded(t)
    PROVE  MapsTo
  <1>1. /\ States' = [States EXCEPT ![t] = to] /\ PlansOf' = PlansOf /\ Dones' = Dones
        /\ States[t] = taskRow[t].state /\ PlansOf[t] = taskRow[t].plan /\ Dones[t] = Recorded(t)
    BY DEF States, PlansOf, Dones, Recorded
  <1>2. CASE taskRow[t].state = to
    BY <1>2, Stutters
  <1>3. CASE taskRow[t].state = "pending" /\ to = "running"
    <2>1. Contract!Start(t)
      BY <1>1, <1>3 DEF Contract!Start, States, PlansOf, Dones
    <2> QED
      BY <2>1 DEF MapsTo, Contract!Next
  <1>4. CASE taskRow[t].state \in Reopenable /\ to = "pending"
    <2>1. Contract!Reopen(t)
      BY <1>1, <1>4, SameVersions DEF Contract!Reopen, States, PlansOf, Dones
    <2> QED
      BY <2>1 DEF MapsTo, Contract!Next
  <1>5. CASE /\ taskRow[t].state = "running" /\ to \in TerminalStates
             /\ to = "completed" => \E v \in VersionsOf(taskRow[t].plan) : IdsOf(v) \subseteq Recorded(t)
    <2>1. CanTransition("running", to)
      BY <1>5 DEF CanTransition, TaskTransitions, TaskStates, TerminalStates
    <2>2. to = "completed" =>
              \E v \in Contract!VersionsOf(PlansOf[t]) : Contract!IdsOf(v) \subseteq Dones[t]
      BY <1>1, <1>5, SameVersions
    <2>3. Contract!Conclude(t, to)
      BY <1>1, <1>5, <2>1, <2>2, SameVersions DEF Contract!Conclude, States, PlansOf, Dones
    <2> QED
      BY <1>5, <2>3, SameVersions DEF MapsTo, Contract!Next
  <1> QED
    BY <1>2, <1>3, <1>4, <1>5

\* A task is written completed when all the ids of its version are recorded.
LEMMA CompletesAll ==
    ASSUME TypeOK, Agree, NEW p \in Procs, WorkerInv(p), ExecComplete(p)
    PROVE  \E v \in VersionsOf(job[p].plan) : IdsOf(v) \subseteq Recorded(job[p].task)
  <1>1. pc[p] = "step" /\ job[p].todo = {} /\ pc[p] \in Assigned
    BY Places DEF ExecComplete, Looping
  <1>2. job[p].version \in VersionsOf(job[p].plan)
    BY <1>1, AssignedFacts, VersionTypes
  <1>3. \A s \in PlanSteps(job[p].version) :
            IdAt[job[p].version][s] \in Recorded(job[p].task)
    BY <1>1 DEF WorkerInv, KeepsRecord
  <1> QED
    BY <1>2, <1>3 DEF IdsOf

\* The worker's updates of its task start it, reopen it or conclude it.
LEMMA UpdatesMap ==
    ASSUME TypeOK, Agree, NEW p \in Procs, WorkerInv(p), token[p] # "set", Updates(p)
    PROVE  MapsTo
  <1>1. pc[p] \in Assigned
    BY Places DEF Updates, ResumeReopen, ResumeRestart, ExecBegin, ExecOrderFails,
       StepOverCeiling, AtStep, StepCancelled, StepTimedOut, StepProgress, StepFailed,
       ExecComplete, Looping
  <1>2. /\ job[p] \in Jobs /\ job[p].task \in Tasks /\ taskRow[job[p].task].plan = job[p].plan
        /\ job[p].state = taskRow[job[p].task].state /\ Fits(pc[p], job[p].state)
    BY <1>1, AssignedFacts DEF WorkerInv, Remembers
  <1> DEFINE now == taskRow[job[p].task].state
             AllRecorded == \E v \in VersionsOf(job[p].plan) : IdsOf(v) \subseteq Recorded(job[p].task)
  <1>3. ASSUME NEW to \in TaskStates, NEW place \in WorkerPlaces, SetState(p, to, place),
               UNCHANGED results,
               \/ now = to
               \/ now = "pending" /\ to = "running"
               \/ now \in Reopenable /\ to = "pending"
               \/ now = "running" /\ to \in TerminalStates /\ (to = "completed" => AllRecorded)
        PROVE  MapsTo
    <2>1. /\ \A u \in Tasks : taskRow'[u].plan = taskRow[u].plan
          /\ \A u \in Tasks : taskRow'[u].state =
                 IF u = job[p].task THEN to ELSE taskRow[u].state
      BY <1>2, <1>3, SetStateEffect
    <2> QED
      BY <1>2, <1>3, <2>1, StateMaps
  <1> HIDE DEF AllRecorded
  <1> USE DEF Fits, Looping, TaskStates, TerminalStates, WorkerPlaces
  <1>4. CASE ResumeReopen(p)
    BY <1>2, <1>3, <1>4 DEF ResumeReopen
  <1>5. CASE ResumeRestart(p)
    BY <1>2, <1>3, <1>5 DEF ResumeRestart
  <1>6. CASE ExecBegin(p)
    BY <1>2, <1>3, <1>6 DEF ExecBegin
  <1>7. CASE ExecOrderFails(p)
    BY <1>2, <1>3, <1>7 DEF ExecOrderFails
  <1>8. CASE StepTimedOut(p) \/ StepOverCeiling(p)
    BY <1>2, <1>3, <1>8 DEF StepTimedOut, StepOverCeiling, AtStep
  <1>9. CASE StepProgress(p)
    BY <1>2, <1>3, <1>9 DEF StepProgress
  <1>10. CASE StepFailed(p)
    BY <1>2, <1>3, <1>10 DEF StepFailed
  <1>11. CASE ExecComplete(p)
    BY <1>2, <1>3, <1>11, CompletesAll DEF ExecComplete, AllRecorded
  <1>12. ~StepCancelled(p)
    BY DEF StepCancelled
  <1> QED
    BY <1>4, <1>5, <1>6, <1>7, <1>8, <1>9, <1>10, <1>11, <1>12 DEF Updates

\* A new task row is a submission of a plan that may run.
LEMMA CreateMaps ==
    ASSUME TypeOK, Agree, NEW p \in Procs, NEW t \in Tasks, RunCreate(p, t)
    PROVE  MapsTo
  <1>1. job[p].plan \in Plans /\ Gated(job[p].plan) # {}
    BY Places DEF RunCreate, Agree, WorkerOK, HasPlan, Unassigned
  <1>2. /\ taskRow'[t].state = "pending" /\ taskRow'[t].plan = job[p].plan
        /\ \A u \in Tasks \ {t} : taskRow'[u] = taskRow[u]
        /\ UNCHANGED results
    BY DEF RunCreate, TypeOK
  <1>3. /\ States' = [States EXCEPT ![t] = "pending"]
        /\ PlansOf' = [PlansOf EXCEPT ![t] = job[p].plan]
        /\ Dones' = Dones /\ States[t] = Contract!Absent
    <2>1. States' = [States EXCEPT ![t] = "pending"] /\ Dones' = Dones
      BY <1>2 DEF States, Dones, Recorded
    <2>2. PlansOf' = [PlansOf EXCEPT ![t] = job[p].plan]
      BY <1>2 DEF PlansOf
    <2>3. States[t] = Contract!Absent
      BY SameVersions DEF RunCreate, States
    <2> QED
      BY <2>1, <2>2, <2>3
  <1>4. Contract!Submit(t)
    BY <1>1, <1>3, SameVersions DEF Contract!Submit, States, PlansOf, Dones
  <1> QED
    BY <1>4 DEF MapsTo, Contract!Next

LEMMA RecordMaps ==
    ASSUME NEW t \in Tasks, NEW v \in Versions, NEW s \in Steps, s \in PlanSteps(v),
           Contract!Record(t, v, s) \/ Contract!TakeBack(t, v, s)
    PROVE  MapsTo
  <1>1. s \in Contract!Steps /\ s \in Contract!PlanSteps(v)
    BY SameVersions
  <1> QED
    BY <1>1 DEF MapsTo, Contract!Next

\* A saved success comes after recorded ones; a saved failure takes one back only
\* where steps share an id.
LEMMA SaveMaps ==
    ASSUME TypeOK, Agree, NEW p \in Procs, WorkerInv(p), NEW s \in Steps, StepSave(p, s)
    PROVE  MapsTo
  <1> DEFINE t == job[p].task
             v == job[p].version
             i == IdAt[v][s]
  <1>1. /\ t \in Tasks /\ taskRow[t].plan = job[p].plan /\ taskRow[t].state = "running"
        /\ v \in Versions /\ v \in Gated(job[p].plan) /\ job[p].plan \in Plans
        /\ s \in PlanSteps(v) /\ IdsBefore(v, s) \subseteq Recorded(t)
        /\ DistinctIds(v) => i \notin Recorded(t)
        /\ job[p].outcome \in {"ok", "failed"} /\ UNCHANGED taskRow
        /\ \A x \in StepIds : results'[t][x] = IF x = i THEN job[p].outcome ELSE results[t][x]
        /\ \A u \in Tasks : u # t => results'[u] = results[u]
    BY SaveFacts
  <1>2. v \in VersionsOf(job[p].plan) /\ i \in StepIds
    BY <1>1, VersionTypes
  <1>3. /\ States' = States /\ PlansOf' = PlansOf
        /\ States[t] = "running" /\ PlansOf[t] = job[p].plan /\ Dones[t] = Recorded(t)
    BY <1>1 DEF States, PlansOf, Dones
  <1> HIDE DEF t, v, i
  <1>4. CASE job[p].outcome = "ok"
    <2>1. Dones' = [Dones EXCEPT ![t] = Dones[t] \cup {i}]
      <3> SUFFICES ASSUME NEW u \in Tasks
                   PROVE  {x \in StepIds : results'[u][x] = "ok"} =
                              IF u = t THEN Recorded(t) \cup {i} ELSE Recorded(u)
        BY <1>1, <1>3 DEF Dones, Recorded
      <3> QED
        BY <1>1, <1>2, <1>4 DEF Recorded
    <2>2. Contract!Record(t, v, s)
      <3>1. v \in Contract!VersionsOf(PlansOf[t]) /\ Contract!IdsBefore(v, s) \subseteq Dones[t]
        BY <1>1, <1>2, <1>3, SameVersions
      <3>2. UNCHANGED <<States, PlansOf>> /\ States[t] = "running"
        BY <1>3
      <3> QED
        BY <2>1, <3>1, <3>2 DEF Contract!Record, States, PlansOf, Dones, i
    <2> QED
      BY <1>1, <2>2, RecordMaps
  <1>5. CASE job[p].outcome = "failed" /\ ~DistinctIds(v)
    <2>1. Dones' = [Dones EXCEPT ![t] = Dones[t] \ {i}]
      <3> SUFFICES ASSUME NEW u \in Tasks
                   PROVE  {x \in StepIds : results'[u][x] = "ok"} =
                              IF u = t THEN Recorded(t) \ {i} ELSE Recorded(u)
        BY <1>1, <1>3 DEF Dones, Recorded
      <3> QED
        BY <1>1, <1>2, <1>5 DEF Recorded
    <2>2. Contract!TakeBack(t, v, s)
      <3>1. v \in Contract!VersionsOf(PlansOf[t]) /\ ~Contract!DistinctIds(v)
        BY <1>2, <1>3, <1>5, SameVersions
      <3>2. UNCHANGED <<States, PlansOf>> /\ States[t] = "running"
        BY <1>3
      <3> QED
        BY <2>1, <3>1, <3>2 DEF Contract!TakeBack, States, PlansOf, Dones, i
    <2> QED
      BY <1>1, <2>2, RecordMaps
  <1>6. CASE job[p].outcome = "failed" /\ DistinctIds(v)
    <2>1. \A u \in Tasks, x \in StepIds : results'[u][x] = "ok" <=> results[u][x] = "ok"
      BY <1>1, <1>6 DEF Recorded
    <2> QED
      BY <1>1, <2>1, Stutters
  <1> QED
    BY <1>1, <1>4, <1>5, <1>6

\* Every step of the worker.
LEMMA WorkMaps ==
    ASSUME TypeOK, Agree, NEW p \in Procs, WorkerInv(p), token[p] # "set", Work(p)
    PROVE  MapsTo
  <1>1. CASE Saves(p) \/ Reads(p) \/ (\E s \in Steps : ToolRuns(p, s))
    <2>1. UNCHANGED <<taskRow, results>>
      BY <1>1 DEF Saves, RunPersist, RunLink, ResumeRelink, SyncPlan, Reads, Register, SyncRead,
         ResumePlan, ExecLoad, StepStart, ToolCancelled, ToolFails, StepDone, Exception, Exit,
         ToolRuns, rows
    <2> QED
      BY <2>1, Stutters
  <1> QED
    BY <1>1, UpdatesMap, CreateMaps, SaveMaps, WorkCases

\* A cancel that writes concludes a running task; no approval or cancel does more.
LEMMA HandleMaps ==
    ASSUME TypeOK, Agree, NEW p \in Procs, CancelReads(p), NonePaused, Handle(p)
    PROVE  MapsTo
  <1>1. CASE CancelWrite(p)
    <2> DEFINE t == canceller[p].task
    <2>1. /\ t \in Tasks /\ taskRow[t].state \in TaskStates
          /\ CanTransition(taskRow[t].state, "cancelled")
          /\ taskRow[t].state \notin TerminalStates /\ taskRow[t].state # "paused"
      BY <1>1 DEF CancelWrite, CancelReads, TypeOK, TaskRows, Agree, RowsOK, CancelsKnown, NonePaused
    <2>2. taskRow[t].state = "running"
      BY <2>1 DEF CanTransition, TaskTransitions, TaskStates, TerminalStates
    <2>3. taskRow' = [taskRow EXCEPT ![canceller[p].task] =
                          [plan |-> taskRow[t].plan, state |-> "cancelled",
                           approved |-> canceller[p].approved]]
      BY <1>1, <2>1 DEF CancelWrite, TypeOK
    <2>4. /\ \A u \in Tasks : taskRow'[u].plan = taskRow[u].plan
          /\ \A u \in Tasks : taskRow'[u].state = IF u = t THEN "cancelled" ELSE taskRow[u].state
          /\ UNCHANGED results
      BY <1>1, <2>1, <2>3 DEF TypeOK, CancelWrite
    <2> QED
      BY <2>1, <2>2, <2>4, StateMaps DEF TerminalStates
  <1>2. CASE ~CancelWrite(p)
    <2>1. UNCHANGED <<taskRow, results>>
      BY <1>2 DEF Handle, ApproveWrite, CancelSet, CancelRead, CancelRefused, CancelReread,
         CancelMirror, rows
    <2> QED
      BY <2>1, Stutters
  <1> QED
    BY <1>1, <1>2

LEMMA NextMaps ==
    ASSUME NEW p, Alone(p), TypeOK, Agree, AloneInv(p), [Next]_vars
    PROVE  MapsTo
  <1>0. p \in Procs /\ Procs = {p}
    BY DEF Alone
  <1>1. WorkerInv(p) /\ NonePaused /\ CancelReads(p) /\ token[p] # "set"
    BY DEF AloneInv, Exclusive
  <1>2. CASE Request(p) \/ Crash(p) \/ UNCHANGED vars
    <2>1. UNCHANGED <<taskRow, results>>
      BY <1>2 DEF Request, CreatePlan, ApproveRead, RunLoadStored, RunLoadFile, ResumeLoad,
         CancelLookup, Crash, rows, vars
    <2> QED
      BY <2>1, Stutters
  <1>3. CASE Work(p)
    BY <1>0, <1>1, <1>3, WorkMaps
  <1>4. CASE Handle(p)
    BY <1>0, <1>1, <1>4, HandleMaps
  <1> QED
    BY <1>0, <1>2, <1>3, <1>4 DEF Next

\* ImplementsContract: with one command at a time, crashes included, the tables
\* keep the contract of TaskContract: ids are recorded one by one and in order, a
\* completed task has all of a version of its plan, completed and cancelled tasks are
\* final, and only where steps share an id is a success taken back
\* (TaskService, TaskExecutor).
THEOREM ContractKept ==
    ASSUME OneAtATime
    PROVE  Spec => ImplementsContract
  <1>1. Init => Contract!Init
    <2> SUFFICES ASSUME Init PROVE Contract!Init
      OBVIOUS
    <2>1. \A t \in Tasks : taskRow[t] = NoRow
      BY DEF Init
    <2>2. States = [t \in Tasks |-> Absent] /\ PlansOf = [t \in Tasks |-> NoPlan]
      BY <2>1 DEF States, PlansOf, NoRow
    <2>3. Dones = [t \in Tasks |-> {}]
      BY DEF Init, Dones, Recorded
    <2> QED
      BY <2>2, <2>3, SameVersions DEF Contract!Init, States, PlansOf, Dones
  <1>2. TaskInv /\ CommandInv /\ [Next]_vars => [Contract!Next]_Contract!vars
    BY NextMaps DEF MapsTo, TaskInv, Agree, OneAtATime, CommandInv, Alone
  <1>3. Spec => [](TaskInv /\ CommandInv)
    BY AloneHolds
  <1>4. Spec => Contract!Init /\ [][Contract!Next]_Contract!vars
    BY <1>1, <1>2, <1>3, PTL DEF Spec
  <1> QED
    BY <1>4 DEF ImplementsContract, Contract!Spec

=============================================================================
