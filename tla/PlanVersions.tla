---------------------------- MODULE PlanVersions ----------------------------
(***************************************************************************)
(* What a plan may say.  A plan id names a row, and a file may name it too: *)
(* a version is the list of steps that a draft, or a file that says ready, *)
(* has for it.  A step is known by its id in the results, and by its place *)
(* in topological_order in the loop of the executor; Plan.validate lets    *)
(* the steps of a file share an id, verify_plan does not                   *)
(* (greatsage/planning/models.py, planning/graph.py, planning/verify.py).  *)
(***************************************************************************)
EXTENDS Naturals

CONSTANTS
    Plans,        \* plan ids
    Versions,     \* lists of steps
    StepIds,      \* step ids
    MaxPlanLen,   \* Plan.validate: no plan is longer
    PlanLen,      \* number of steps of each version
    IdAt,         \* the id of the step at each place of a version
    Drafts,       \* the versions create_plan may give a plan
    Files,        \* the versions that a ready file may give it
    Verifiable,   \* versions that verify_plan accepts
    Orderable     \* versions that topological_order can order

\* Places in topological_order.
Steps == 1..MaxPlanLen

\* The places of a version.
PlanSteps(v) == 1..PlanLen[v]

\* The steps that have an id of their own.
DistinctIds(v) == \A r, s \in PlanSteps(v) : IdAt[v][r] = IdAt[v][s] => r = s

\* verify_plan refuses repeated ids and orders the graph itself.
ASSUME VersionAssumption ==
    /\ MaxPlanLen \in Nat \ {0}
    /\ PlanLen \in [Versions -> Steps]
    /\ IdAt \in [Versions -> [Steps -> StepIds]]
    /\ Drafts \in [Plans -> SUBSET Versions]
    /\ Files \in [Plans -> SUBSET Versions]
    /\ Verifiable \subseteq Orderable
    /\ Orderable \subseteq Versions
    /\ \A v \in Verifiable : DistinctIds(v)

IdsOf(v) == {IdAt[v][s] : s \in PlanSteps(v)}

\* The ids of the steps that come before place s.
IdsBefore(v, s) == {IdAt[v][r] : r \in 1..(s - 1)}

VersionsOf(pl) == Drafts[pl] \cup Files[pl]

\* The versions that passed the human gate, or came as a ready file.
Gated(pl) == (Drafts[pl] \cap Verifiable) \cup Files[pl]

\* The plan has one version only, in which an id names one step.
Unambiguous(pl) == \E v \in VersionsOf(pl) : VersionsOf(pl) = {v} /\ DistinctIds(v)

=============================================================================
