-------------------------- MODULE TaskExecutionMC --------------------------
(***************************************************************************)
(* Instances of TaskExecution for TLC.  Plan p1 is an ordinary draft, of   *)
(* two steps whose second needs an approval.  Plan p2 is drafted with a    *)
(* step that verify_plan refuses; ready files replace it, one another and  *)
(* the draft of plan p3: the steps of p1, two steps that share an id,      *)
(* three that share another (more than task.max_steps), and three of which *)
(* two share an id and depend on the first, which cannot be ordered.       *)
(***************************************************************************)
EXTENDS TaskInvariant, TLC

CONSTANTS p1, p2, p3, plain, single, twins, long, knot, a, b, c

MCIdAt == [v \in Versions |->
    CASE v = plain -> <<a, b, b>> [] v = single -> <<c, c, c>> [] v = twins -> <<a, a, a>>
      [] v = long -> <<c, c, c>>  [] v = knot -> <<a, b, b>>]
MCPlanLen == [v \in Versions |-> CASE v = single -> 1 [] v \in {plain, twins} -> 2 [] OTHER -> 3]
MCAsks == Versions \X {2}
MCVerifiable == Versions \cap {plain}
MCOrderable == Versions \ {knot}
MCDrafts == [pl \in Plans |-> Versions \cap (IF pl = p2 THEN {single} ELSE {plain})]
MCFiles == [pl \in Plans |-> Versions \cap
    (CASE pl = p1 -> {} [] pl = p2 -> {plain, twins} [] OTHER -> {twins, long, knot})]

\* Two command-line processes are interchangeable.
MCSymmetry == Permutations(Procs)

\* So are the tasks.
MCTaskSymmetry == Permutations(Tasks)

=============================================================================
