------------------------------- MODULE PlanGraph -------------------------------
(***************************************************************************)
(* Plans as graphs of steps: planning/planner.py makes a plan from a goal, *)
(* planning/models.py and planning/verify.py decide whether a plan is      *)
(* well formed, planning/graph.py finds its cycles and orders it.          *)
(*                                                                         *)
(* A plan is a sequence of steps, each with an id and the ids it depends   *)
(* on; the tuple of a step is a set here and the search looks at its       *)
(* members in any order.  Two callers order a plan: plan verify goes       *)
(* through verify_plan, which refuses repeated ids, and a run goes         *)
(* through Plan.validate, which does not.                                  *)
(***************************************************************************)
EXTENDS Integers, FiniteSets, Sequences, FiniteSetsExt

CONSTANTS Ids,          \* step ids
          Graphs,       \* the plans of the instance
          MaxClauses,   \* bound: clauses of a goal
          MaxPlanSteps, \* Planner._max_steps
          Ceiling       \* MAX_PLAN_STEPS_CEILING

Steps == [id : Ids, deps : SUBSET Ids, flaw : {"none", "blank", "unknown"}]

PlanGraphAssumption ==
    /\ IsFiniteSet(Ids)
    /\ Graphs \subseteq Seq(Steps)
    /\ {MaxClauses, MaxPlanSteps, Ceiling} \subseteq Nat

VARIABLES
    caller,     \* who looks at the plan: "planner", "verify" or "run"
    graph,      \* Plan.steps
    phase,      \* how far the call is
    path,       \* find_cycle: the stack, each node with the deps left to see
    mark,       \* find_cycle: visited
    cycle,      \* find_cycle: what it returned
    indegree,   \* topological_order
    ready,      \* topological_order: positions of the steps that can go next
    order,      \* topological_order: positions of the steps, ordered
    level       \* levels: the depth of each id

searchVars == <<path, mark, cycle>>
orderVars == <<indegree, ready, order, level>>
planVars == <<caller, graph, phase, searchVars, orderVars>>

Known == {graph[i].id : i \in DOMAIN graph}
DistinctIds == \A i, j \in DOMAIN graph : graph[i].id = graph[j].id => i = j

(* The dictionaries keyed by id keep the last step of an id.               *)
ById(x) == CHOOSE i \in DOMAIN graph :
              /\ graph[i].id = x
              /\ \A j \in DOMAIN graph : graph[j].id = x => j <= i
DepsById(x) == graph[ById(x)].deps

Missing == {d \in UNION {graph[i].deps : i \in DOMAIN graph} : d \notin Known}
SelfDeps == {i \in DOMAIN graph : graph[i].id \in graph[i].deps}

(* A dependency: the position of the step that has it and the id it names. *)
Arcs == {a \in (DOMAIN graph) \X Ids : a[2] \in graph[a[1]].deps}
Into(c) == {a \in Arcs : graph[a[1]].id = c}
Between(x, c) == {a \in Into(c) : a[2] = x}

(* What each caller tests before it looks for a cycle.                     *)
VerifyAccepts ==
    /\ Len(graph) \in 1..Ceiling
    /\ \A i \in DOMAIN graph : graph[i].flaw = "none"
    /\ DistinctIds

ValidateAccepts ==
    /\ Len(graph) \in 1..Ceiling
    /\ \A i \in DOMAIN graph : graph[i].flaw # "blank"

Accepts == IF caller = "verify" THEN VerifyAccepts ELSE ValidateAccepts

-----------------------------------------------------------------------------
PlanInit ==
    /\ \/ caller = "planner" /\ graph = <<>> /\ phase = "goal"
       \/ caller \in {"verify", "run"} /\ graph \in Graphs /\ phase = "check"
    /\ path = <<>> /\ mark = <<>> /\ cycle = <<>>
    /\ indegree = <<>> /\ ready = {} /\ order = <<>> /\ level = <<>>

(* Planner.create_plan: one step for each clause of the goal, under an id  *)
(* of its own, up to both limits; one step when there would be none.       *)
CreatePlan ==
    /\ phase = "goal"
    /\ \E clauses \in 1..MaxClauses, ids \in [1..MaxClauses -> Ids] :
         LET n == Max({1, Min({clauses, MaxPlanSteps, Ceiling})}) IN
         /\ \A i, j \in 1..n : ids[i] = ids[j] => i = j
         /\ graph' = [i \in 1..n |-> [id |-> ids[i], deps |-> {}, flaw |-> "none"]]
    /\ phase' = "check"
    /\ UNCHANGED <<caller, searchVars, orderVars>>

Check ==
    /\ phase = "check"
    /\ IF Accepts /\ Missing = {} /\ SelfDeps = {}
       THEN /\ phase' = "search"
            /\ mark' = [x \in Known |-> 0]
       ELSE /\ phase' = "rejected"
            /\ UNCHANGED mark
    /\ UNCHANGED <<caller, graph, path, cycle, orderVars>>

-----------------------------------------------------------------------------
(* find_cycle: depth first, one step of the loop over the deps of a node   *)
(* at a time.                                                              *)
Push(x) ==
    /\ path' = Append(path, [node |-> x, left |-> DepsById(x)])
    /\ mark' = [mark EXCEPT ![x] = 1]

Enter ==
    /\ phase = "search" /\ path = <<>>
    /\ \E i \in DOMAIN graph :
         /\ mark[graph[i].id] = 0
         /\ \A j \in DOMAIN graph : j < i => mark[graph[j].id] # 0
         /\ Push(graph[i].id)
    /\ UNCHANGED <<caller, graph, phase, cycle, orderVars>>

Top == path[Len(path)]
(* The path from d on; the code repeats d at the end of it.               *)
Unwound(d) ==
    LET first == Min({k \in DOMAIN path : path[k].node = d})
    IN  [k \in 1..(Len(path) - first + 1) |-> path[first + k - 1].node]

Visit ==
    /\ phase = "search" /\ path # <<>>
    /\ \E d \in Top.left :
         \/ /\ mark[d] = 1
            /\ cycle' = Unwound(d)
            /\ phase' = "rejected"
            /\ UNCHANGED <<path, mark>>
         \/ /\ mark[d] = 0
            /\ path' = Append([path EXCEPT ![Len(path)].left = @ \ {d}],
                              [node |-> d, left |-> DepsById(d)])
            /\ mark' = [mark EXCEPT ![d] = 1]
            /\ UNCHANGED <<phase, cycle>>
         \/ /\ mark[d] = 2
            /\ path' = [path EXCEPT ![Len(path)].left = @ \ {d}]
            /\ UNCHANGED <<phase, mark, cycle>>
    /\ UNCHANGED <<caller, graph, orderVars>>

Leave ==
    /\ phase = "search" /\ path # <<>> /\ Top.left = {}
    /\ path' = SubSeq(path, 1, Len(path) - 1)
    /\ mark' = [mark EXCEPT ![Top.node] = 2]
    /\ UNCHANGED <<caller, graph, phase, cycle, orderVars>>

-----------------------------------------------------------------------------
(* topological_order: Kahn's algorithm; the ready step that comes first in *)
(* the plan goes next.  Degrees and children are kept by id.               *)
StartOrder ==
    /\ phase = "search" /\ path = <<>>
    /\ \A x \in Known : mark[x] = 2
    /\ phase' = "order"
    /\ indegree' = [x \in Known |-> Cardinality(Into(x))]
    /\ ready' = {i \in DOMAIN graph : Into(graph[i].id) = {}}
    /\ UNCHANGED <<caller, graph, searchVars, order, level>>

Depth(deps) ==
    IF deps = {} THEN 0
    ELSE 1 + Max({level[d] : d \in deps \cap DOMAIN level} \cup {0})

(* A mutant: a child is ready as soon as one of its dependencies is done.  *)
OpenedByFirst(x) == {c \in Known : Between(x, c) # {} /\ ById(c) \notin ready}
(* The children whose last open dependency is the step that was taken.     *)
Opened(x) == {c \in Known : 0 < indegree[c] /\ indegree[c] <= Cardinality(Between(x, c))}

Take ==
    /\ phase = "order"
    /\ \E p \in ready :
         LET taken == graph[p].id IN
         /\ \A q \in ready : p <= q
         /\ order' = Append(order, p)
         /\ indegree' = [c \in Known |-> indegree[c] - Cardinality(Between(taken, c))]
         /\ ready' = (ready \ {p}) \cup {ById(c) : c \in Opened(taken)}
         /\ level' = [y \in DOMAIN level \cup {taken} |->
                        IF y = taken THEN Depth(graph[p].deps) ELSE level[y]]
    /\ UNCHANGED <<caller, graph, phase, searchVars>>

Finish ==
    /\ phase = "order" /\ ready = {}
    /\ phase' = IF Len(order) = Len(graph) THEN "accepted" ELSE "rejected"
    /\ UNCHANGED <<caller, graph, searchVars, orderVars>>

PlanNext == \/ CreatePlan \/ Check
            \/ Enter \/ Visit \/ Leave
            \/ StartOrder \/ Take \/ Finish

PlanSpec == PlanInit /\ [][PlanNext]_planVars

-----------------------------------------------------------------------------
(* Whatever ids the steps have, none is ordered twice, so that no run of a *)
(* plan does a step again.                                                 *)
NoStepTwice == \A k, l \in DOMAIN order : order[k] = order[l] => k = l

(* What find_cycle says is exact: the cycle it returns is one, and a plan  *)
(* it lets pass has no set of ids each waiting for another of them.        *)
CycleExact ==
    /\ \A k \in DOMAIN cycle :
         cycle[IF k = Len(cycle) THEN 1 ELSE k + 1] \in DepsById(cycle[k])
    /\ phase \in {"order", "accepted"} =>
         \A S \in (SUBSET Known) \ {{}} : \E x \in S : DepsById(x) \cap S = {}

(* What topological_order and levels say of an order: a step comes after   *)
(* some step of each id it depends on; the first that could go goes first, *)
(* so that another is before it only to bring what it waits for; and a     *)
(* step is one level above the highest of its dependencies.                *)
Ordered ==
    \A l \in DOMAIN order : \A d \in graph[order[l]].deps :
        \E k \in 1..(l - 1) : graph[order[k]].id = d
Stable ==
    \A l \in DOMAIN order : \A k \in 1..(l - 1) :
        order[l] < order[k] =>
            \E m \in k..(l - 1) : graph[order[m]].id \in graph[order[l]].deps
LevelOf(i) ==
    IF graph[i].deps = {} THEN 0 ELSE 1 + Max({level[d] : d \in graph[i].deps})

(* A plan with distinct ids that passes the checks is ordered completely,  *)
(* stably and with every dependency first; plans without dependencies, as  *)
(* the planner makes them, keep their order.                               *)
OrderComplete ==
    phase \in {"accepted", "rejected"} /\ cycle = <<>> /\ mark # <<>> /\ DistinctIds =>
        /\ phase = "accepted"
        /\ {order[k] : k \in DOMAIN order} = DOMAIN graph
        /\ Ordered /\ Stable
        /\ caller = "planner" => \A k \in DOMAIN order : order[k] = k
        /\ \A i \in DOMAIN graph : level[graph[i].id] = LevelOf(i)

(* What a plan's steps are ordered by can be trusted: no cycle is missed   *)
(* or made up, and every order is complete, first things first, no step    *)
(* twice.                                                                  *)
PlansOrdered == CycleExact /\ OrderComplete /\ NoStepTwice

(* "Return steps in dependency order", where depends_on are the "step ids  *)
(* that must complete first" (planning/graph.py), of every plan that is    *)
(* ordered.                                                                *)
DependenciesFirst == phase = "accepted" => Ordered
=============================================================================
