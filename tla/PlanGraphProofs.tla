--------------------------- MODULE PlanGraphProofs ---------------------------
(***************************************************************************)
(* Plans are ordered: for every graph of steps, whatever ids they have, a  *)
(* cycle that is reported is one and a plan that passes has none; no step  *)
(* is ordered twice; and with distinct ids the order is complete, stable   *)
(* and has every dependency first.  None of it needs an induction over     *)
(* paths: of the ids the search has left, any set has a member that waits  *)
(* for no other (Acyclic), and from it follows that Kahn's algorithm       *)
(* cannot stop before the last step.                                       *)
(***************************************************************************)
EXTENDS PlanGraph, SequenceTheorems, WellFoundedInduction, FiniteSetTheorems, TLAPS

-----------------------------------------------------------------------------
(* The inductive invariant.  The search: the ids on the path are the grey  *)
(* ones, each a dependency of the one below it, and what the top of the    *)
(* path has seen is black; the black ids are closed under dependency and   *)
(* among any of them one waits for none of the others.                     *)
Acyclic(T) == \A S \in (SUBSET T) \ {{}} : \E x \in S : DepsById(x) \cap S = {}
Black == {x \in Known : mark[x] = 2}

PathInv ==
    /\ path \in Seq([node : Known, left : SUBSET Known])
    /\ \A k \in DOMAIN path :
         /\ path[k].left \subseteq DepsById(path[k].node)
         /\ mark[path[k].node] = 1
         /\ \A d \in DepsById(path[k].node) \ path[k].left :
              mark[d] = 2 \/ (k < Len(path) /\ d = path[k + 1].node)
         /\ k < Len(path) => path[k + 1].node \in DepsById(path[k].node)
    /\ \A x \in Known : mark[x] = 1 => \E k \in DOMAIN path : path[k].node = x
    /\ \A k, l \in DOMAIN path : path[k].node = path[l].node => k = l

CallInv ==
    /\ phase \in {"goal", "check", "search", "order", "accepted", "rejected"}
    /\ graph \in Seq(Steps)
    /\ caller = "planner" => \A i \in DOMAIN graph : graph[i].deps = {}
    /\ mark = <<>> => phase \in {"goal", "check", "rejected"}
    /\ phase \in {"goal", "check"} => mark = <<>> /\ path = <<>>
    /\ phase # "rejected" => cycle = <<>>
    /\ \A k \in DOMAIN cycle :
         cycle[IF k = Len(cycle) THEN 1 ELSE k + 1] \in DepsById(cycle[k])

SearchInv ==
    mark # <<>> =>
        /\ graph # <<>> /\ Missing = {} /\ SelfDeps = {}
        /\ mark \in [Known -> 0..2]
        /\ PathInv
        /\ \A x \in Black : DepsById(x) \subseteq Black
        /\ Acyclic(Black)

(* The order: a step that is ready or placed waits for nothing more.       *)
Ordering == mark # <<>> /\ cycle = <<>> /\ phase \in {"order", "accepted", "rejected"}
Placed == {order[k] : k \in DOMAIN order}
Taken == {graph[i].id : i \in Placed}
Open(c) == {a \in Into(c) : a[2] \notin Taken}

OrderInv ==
    /\ ~ Ordering => order = <<>> /\ level = <<>>
    /\ Ordering =>
         /\ Black = Known
         /\ order \in Seq(DOMAIN graph) /\ NoStepTwice
         /\ ready \subseteq DOMAIN graph /\ ready \cap Placed = {}
         /\ indegree \in [Known -> Int]
         /\ \A i \in ready \cup Placed : indegree[graph[i].id] <= 0

(* With distinct ids: the degree of an id counts what it still waits for,  *)
(* what waits for nothing is ready or placed, and what is placed is placed *)
(* where it should be.                                                     *)
DistinctInv ==
    Ordering /\ DistinctIds =>
        /\ phase \in {"order", "accepted"}
        /\ phase = "accepted" => Placed = DOMAIN graph
        /\ \A c \in Known : indegree[c] = Cardinality(Open(c))
        /\ \A i \in DOMAIN graph : graph[i].deps \subseteq Taken <=> i \in ready \cup Placed
        /\ Ordered /\ Stable
        /\ \A q \in ready : \A k \in DOMAIN order : q < order[k] =>
              \E m \in k..Len(order) : graph[order[m]].id \in graph[q].deps
        /\ level \in [Taken -> 0..Len(order)]
        /\ \A i \in Placed : level[graph[i].id] = LevelOf(i)
        /\ caller = "planner" =>
              /\ \A k \in DOMAIN order : order[k] = k
              /\ ready = (Len(order) + 1)..Len(graph)

PlanInv == CallInv /\ SearchInv /\ OrderInv /\ DistinctInv

-----------------------------------------------------------------------------
(* Sets of numbers and the arcs of a graph.                                *)

LEMMA Least ==
    ASSUME NEW S, S \subseteq Nat, S # {} PROVE \E m \in S : \A n \in S : m <= n
<1> DEFINE R == OpToRel(<, Nat)
<1>1. IsWellFoundedOn(R, Nat)
  BY NatLessThanWellFounded
<1>2. \A n, m \in Nat : n < m => <<n, m>> \in R
  BY DEF OpToRel
<1> HIDE DEF R
<1>3. \E m \in S : \A n \in S : ~ (<<n, m>> \in R)
  BY ONLY <1>1, S \subseteq Nat, S # {}, WFMin
<1>4. PICK m \in S : \A n \in S : ~ (<<n, m>> \in R)
  BY <1>3
<1>5. \A n \in S : ~ (n < m) /\ n \in Nat /\ m \in Nat
  BY <1>2, <1>4
<1> QED BY <1>5

LEMMA Greatest ==
    ASSUME NEW S, S \subseteq Int, S # {}, NEW b \in Int, \A s \in S : s <= b
    PROVE  Max(S) \in S /\ Max(S) \in Int /\ \A s \in S : s <= Max(S)
<1> DEFINE T == {n \in Nat : b - n \in S}
<1>1. \A s \in S : b - s \in Nat /\ b - (b - s) = s
  OBVIOUS
<1>2. \A s \in S : b - s \in T
  BY <1>1
<1>3. T \subseteq Nat /\ T # {}
  BY <1>2
<1>4. \E m \in T : \A n \in T : m <= n
  BY <1>3, Least
<1>5. PICK m \in T : \A n \in T : m <= n
  BY <1>4
<1>6. m \in Nat /\ b - m \in S /\ b - m \in Int
  BY <1>5
<1>7. ASSUME NEW s \in S PROVE b - m >= s
  <2>1. m <= b - s
    BY <1>2, <1>5
  <2> QED BY <2>1, <1>6
<1>8. \E g \in S : \A s \in S : g >= s
  BY <1>6, <1>7
<1>9. Max(S) \in S /\ \A s \in S : Max(S) >= s
  BY <1>8, Zenon DEF Max
<1>10. Max(S) \in Int
  BY <1>9
<1> QED BY <1>9, <1>10

(* The step that stands for an id, and what it depends on.                 *)
LEMMA StandsForItsId ==
    ASSUME graph \in Seq(Steps), NEW x \in Known
    PROVE  ById(x) \in DOMAIN graph /\ graph[ById(x)].id = x
<1> DEFINE S == {i \in DOMAIN graph : graph[i].id = x}
<1>1. Len(graph) \in Int /\ S \subseteq 1..Len(graph) /\ S # {}
  BY DEF Known
<1>2. S \subseteq Int /\ \A s \in S : s <= Len(graph)
  BY <1>1
<1>3. Max(S) \in S /\ \A s \in S : s <= Max(S)
  BY <1>1, <1>2, Greatest
<1>4. \E i \in DOMAIN graph : graph[i].id = x /\ \A j \in DOMAIN graph : graph[j].id = x => j <= i
  BY <1>3
<1> QED BY <1>4, Zenon DEF ById

LEMMA DistinctById ==
    ASSUME graph \in Seq(Steps), DistinctIds, NEW p \in DOMAIN graph
    PROVE  ById(graph[p].id) = p /\ DepsById(graph[p].id) = graph[p].deps
<1>1. graph[p].id \in Known
  BY DEF Known
<1> QED BY <1>1, StandsForItsId DEF DistinctIds, DepsById

LEMMA DependsOnKnown ==
    ASSUME graph \in Seq(Steps), Missing = {}
    PROVE  /\ \A i \in DOMAIN graph : graph[i].id \in Known /\ graph[i].deps \subseteq Known
           /\ \A x \in Known : DepsById(x) \subseteq Known
<1>1. \A i \in DOMAIN graph : graph[i].id \in Known /\ graph[i].deps \subseteq Known
  BY DEF Known, Missing
<1> QED BY <1>1, StandsForItsId DEF DepsById

LEMMA SameGraph ==
    ASSUME graph' = graph
    PROVE  /\ Known' = Known /\ Missing' = Missing /\ SelfDeps' = SelfDeps
           /\ (DistinctIds)' = DistinctIds
           /\ \A x : ById(x)' = ById(x) /\ DepsById(x)' = DepsById(x) /\ Into(x)' = Into(x)
BY DEF Known, Missing, SelfDeps, DistinctIds, ById, DepsById, Into, Arcs

LEMMA ArcsAreFinite ==
    ASSUME PlanGraphAssumption, graph \in Seq(Steps), NEW c, NEW x
    PROVE  /\ IsFiniteSet(Into(c)) /\ IsFiniteSet(Between(x, c)) /\ Between(x, c) \subseteq Into(c)
           /\ Cardinality(Into(c)) \in Nat /\ Cardinality(Between(x, c)) \in Nat
<1>1. IsFiniteSet(DOMAIN graph)
  <2>1. DOMAIN graph = 1..Len(graph) /\ Len(graph) \in Int
    OBVIOUS
  <2> QED BY <2>1, FS_Interval
<1>2. IsFiniteSet((DOMAIN graph) \X Ids)
  BY <1>1, FS_Product DEF PlanGraphAssumption
<1>3. Between(x, c) \subseteq Into(c) /\ Into(c) \subseteq (DOMAIN graph) \X Ids
  BY DEF Between, Into, Arcs
<1>4. IsFiniteSet(Into(c))
  BY <1>2, <1>3, FS_Subset
<1>5. IsFiniteSet(Between(x, c))
  BY <1>3, <1>4, FS_Subset
<1> QED BY <1>3, <1>4, <1>5, FS_CardinalityType

-----------------------------------------------------------------------------
(* The calls: what the caller asks is a plan, and a search is of a plan    *)
(* with a step.                                                            *)
LEMMA PlannerPlans ==
    ASSUME PlanGraphAssumption, CreatePlan
    PROVE  graph' \in Seq(Steps) /\ \A i \in DOMAIN graph' : graph'[i].deps = {}
<1>1. PICK clauses \in 1..MaxClauses, ids \in [1..MaxClauses -> Ids] :
        graph' = [i \in 1..Max({1, Min({clauses, MaxPlanSteps, Ceiling})})
                    |-> [id |-> ids[i], deps |-> {}, flaw |-> "none"]]
  BY DEF CreatePlan
<1> DEFINE m == Min({clauses, MaxPlanSteps, Ceiling})
           n == Max({1, m})
<1>2. MaxClauses \in Nat /\ MaxPlanSteps \in Nat /\ Ceiling \in Nat /\ clauses \in Nat
  BY DEF PlanGraphAssumption
<1>3. m \in {clauses, MaxPlanSteps, Ceiling} /\ m <= clauses
  <2>1. \E l \in {clauses, MaxPlanSteps, Ceiling} : \A k \in {clauses, MaxPlanSteps, Ceiling} : l <= k
    BY <1>2, Least
  <2> QED BY <2>1, Zenon DEF Min
<1>4. m \in Nat /\ m <= MaxClauses
  BY <1>2, <1>3
<1> HIDE DEF m
<1>5. n \in {1, m}
  <2>1. {1, m} \subseteq Int /\ {1, m} # {} /\ MaxClauses \in Int /\ \A s \in {1, m} : s <= MaxClauses
    BY <1>2, <1>4
  <2> QED BY <2>1, Greatest
<1> HIDE DEF n
<1>6. n \in Nat /\ 1..n \subseteq 1..MaxClauses
  <2>1. n \in Nat /\ n <= MaxClauses
    BY <1>2, <1>4, <1>5
  <2> QED BY <1>2, <2>1
<1>7. graph' = [i \in 1..n |-> [id |-> ids[i], deps |-> {}, flaw |-> "none"]]
  BY <1>1 DEF m, n
<1>8. \A i \in 1..n : [id |-> ids[i], deps |-> {}, flaw |-> "none"] \in Steps
  BY <1>6 DEF Steps
<1> QED BY <1>6, <1>7, <1>8

LEMMA PlanHasIds ==
    ASSUME graph \in Seq(Steps), graph # <<>>
    PROVE  Known # {} /\ [x \in Known |-> 0] # <<>>
<1>1. 1 \in DOMAIN graph
  BY DEF Steps
<1>2. graph[1].id \in Known
  BY <1>1 DEF Known
<1>3. DOMAIN [x \in Known |-> 0] # {}
  BY <1>2
<1> QED BY <1>2, <1>3

LEMMA InitPlanInv ==
    ASSUME PlanGraphAssumption, PlanInit PROVE PlanInv
<1>1. graph \in Seq(Steps) /\ (caller = "planner" => graph = <<>>)
  <2>1. <<>> \in Seq(Steps)
    OBVIOUS
  <2> QED BY <2>1, Zenon DEF PlanInit, PlanGraphAssumption
<1>3. CallInv
  BY <1>1 DEF PlanInit, CallInv
<1>2. SearchInv /\ OrderInv /\ DistinctInv
  BY DEF PlanInit, SearchInv, OrderInv, DistinctInv, Ordering
<1> QED BY <1>2, <1>3 DEF PlanInv

LEMMA CreateKeepsPlanInv ==
    ASSUME PlanGraphAssumption, PlanInv, CreatePlan PROVE PlanInv'
<1>1. graph' \in Seq(Steps) /\ \A i \in DOMAIN graph' : graph'[i].deps = {}
  BY PlannerPlans
<1>2. phase' = "check" /\ mark = <<>> /\ mark' = mark /\ path' = path /\ cycle' = cycle /\ path = <<>>
      /\ cycle = <<>> /\ order' = order /\ level' = level
  BY DEF CreatePlan, searchVars, orderVars, PlanInv, CallInv
<1>3. CallInv'
  BY <1>1, <1>2 DEF CallInv
<1>4. order = <<>> /\ level = <<>>
  BY <1>2 DEF PlanInv, OrderInv, Ordering
<1>5. SearchInv' /\ OrderInv' /\ DistinctInv'
  BY <1>2, <1>4 DEF SearchInv, OrderInv, DistinctInv, Ordering
<1> QED BY <1>3, <1>5 DEF PlanInv

LEMMA CheckKeepsPlanInv ==
    ASSUME PlanGraphAssumption, PlanInv, Check PROVE PlanInv'
<1>1. graph' = graph /\ caller' = caller /\ path' = <<>> /\ cycle' = <<>> /\ mark = <<>>
      /\ order' = <<>> /\ level' = <<>> /\ graph \in Seq(Steps)
  BY DEF Check, orderVars, PlanInv, CallInv, OrderInv, Ordering
<1>2. CASE Accepts /\ Missing = {} /\ SelfDeps = {}
  <2>1. phase' = "search" /\ mark' = [x \in Known |-> 0]
    BY <1>2 DEF Check
  <2>2. graph # <<>>
    BY <1>1, <1>2 DEF Accepts, VerifyAccepts, ValidateAccepts
  <2>3. mark' # <<>>
    BY <1>1, <2>1, <2>2, PlanHasIds
  <2>4. CallInv'
    BY <1>1, <2>1, <2>3 DEF PlanInv, CallInv
  <2>5. Known' = Known /\ Missing' = Missing /\ SelfDeps' = SelfDeps
    BY <1>1, SameGraph
  <2>6. PathInv'
    <3>1. <<>> \in Seq([node : Known, left : SUBSET Known]) /\ DOMAIN <<>> = {}
      OBVIOUS
    <3>2. path' \in Seq([node : Known', left : SUBSET Known']) /\ DOMAIN path' = {}
      BY ONLY <1>1, <2>5, <3>1
    <3>3. \A x \in Known' : mark'[x] # 1
      BY <2>1, <2>5
    <3> QED BY <3>2, <3>3 DEF PathInv
  <2>7. Black' = {}
    BY <2>1, <2>5 DEF Black
  <2>8. SearchInv'
    BY <1>1, <1>2, <2>1, <2>2, <2>5, <2>6, <2>7 DEF SearchInv, Acyclic
  <2>9. OrderInv' /\ DistinctInv'
    BY <1>1, <2>1 DEF OrderInv, DistinctInv, Ordering
  <2> QED BY <2>4, <2>8, <2>9 DEF PlanInv
<1>3. CASE ~ (Accepts /\ Missing = {} /\ SelfDeps = {})
  <2>1. phase' = "rejected" /\ mark' = <<>>
    BY <1>1, <1>3 DEF Check
  <2>2. CallInv'
    BY <1>1, <2>1 DEF PlanInv, CallInv
  <2>3. SearchInv' /\ OrderInv' /\ DistinctInv'
    BY <1>1, <2>1 DEF SearchInv, OrderInv, DistinctInv, Ordering
  <2> QED BY <2>2, <2>3 DEF PlanInv
<1> QED BY <1>2, <1>3

-----------------------------------------------------------------------------
(* The search.  A step of it leaves the plan and the order alone.          *)
LEMMA SearchingPlan ==
    ASSUME PlanInv, phase = "search"
    PROVE  /\ CallInv /\ mark # <<>> /\ cycle = <<>>
           /\ graph \in Seq(Steps) /\ Missing = {} /\ SelfDeps = {}
           /\ mark \in [Known -> 0..2] /\ PathInv
           /\ \A x \in Black : DepsById(x) \subseteq Black
           /\ Acyclic(Black)
           /\ order = <<>> /\ level = <<>>
BY DEF PlanInv, CallInv, SearchInv, OrderInv, Ordering

LEMMA SearchKeepsPlanInv ==
    ASSUME PlanInv, phase = "search", phase' = "search", UNCHANGED <<caller, graph, cycle, orderVars>>,
           mark' \in [Known -> 0..2], PathInv',
           \A x \in Black' : DepsById(x) \subseteq Black',
           \A S \in (SUBSET Black') \ {{}} : \E y \in S : DepsById(y) \cap S = {}
    PROVE  PlanInv'
<1>1. graph' = graph /\ caller' = caller /\ cycle' = <<>> /\ order' = <<>> /\ level' = <<>>
  BY SearchingPlan DEF orderVars
<1>2. /\ Known' = Known /\ Missing' = Missing /\ SelfDeps' = SelfDeps
      /\ \A x : DepsById(x)' = DepsById(x)
  BY <1>1, SameGraph
<1>3. graph \in Seq(Steps) /\ graph # <<>> /\ mark # <<>> /\ Missing = {} /\ SelfDeps = {}
  BY SearchingPlan DEF PlanInv, SearchInv
<1>4. mark' # <<>>
  <2>1. Known # {}
    BY <1>3, PlanHasIds
  <2>2. DOMAIN mark' # {}
    BY <2>1
  <2> QED BY <2>2
<1>5. CallInv'
  BY <1>1, <1>4, SearchingPlan DEF CallInv
<1>6. SearchInv'
  BY <1>1, <1>2, <1>3 DEF SearchInv, Acyclic
<1>7. OrderInv' /\ DistinctInv'
  BY <1>1 DEF OrderInv, DistinctInv, Ordering
<1> QED BY <1>5, <1>6, <1>7 DEF PlanInv

(* A node that is pushed was white, so what is black stays so.             *)
LEMMA PushIsWhite ==
    ASSUME PlanInv, phase = "search", graph' = graph, NEW x \in Known, mark[x] = 0,
           mark' = [mark EXCEPT ![x] = 1]
    PROVE  /\ mark' \in [Known -> 0..2] /\ mark'[x] = 1
           /\ \A y \in Known : y # x => mark'[y] = mark[y]
           /\ \A y \in Black' : DepsById(y) \subseteq Black'
           /\ \A S \in (SUBSET Black') \ {{}} : \E y \in S : DepsById(y) \cap S = {}
<1>1. mark \in [Known -> 0..2]
  BY SearchingPlan
<1>2. mark' \in [Known -> 0..2] /\ mark'[x] = 1 /\ \A y \in Known : y # x => mark'[y] = mark[y]
  BY <1>1
<1>3. Known' = Known /\ \A y : DepsById(y)' = DepsById(y)
  BY SameGraph
<1>4. Black' = Black
  BY <1>2, <1>3 DEF Black
<1> QED BY <1>2, <1>3, <1>4, SearchingPlan DEF Acyclic

LEMMA EnterKeepsPlanInv ==
    ASSUME PlanInv, Enter PROVE PlanInv'
<1>1. phase = "search" /\ phase' = "search" /\ path = <<>>
      /\ UNCHANGED <<caller, graph, cycle, orderVars>>
  BY DEF Enter
<1>2. PICK i \in DOMAIN graph : mark[graph[i].id] = 0 /\ Push(graph[i].id)
  BY DEF Enter
<1> DEFINE x == graph[i].id
<1>3. x \in Known /\ mark[x] = 0 /\ mark' = [mark EXCEPT ![x] = 1]
      /\ path' = <<[node |-> x, left |-> DepsById(x)]>>
  BY <1>1, <1>2 DEF Known, Push
<1> HIDE DEF x
<1>4. mark \in [Known -> 0..2] /\ graph \in Seq(Steps) /\ Missing = {} /\ PathInv
  BY <1>1, SearchingPlan
<1>5. Known' = Known /\ \A y : DepsById(y)' = DepsById(y)
  BY <1>1, SameGraph
<1>6. DepsById(x) \subseteq Known
  BY <1>3, <1>4, DependsOnKnown
<1>7. /\ mark' \in [Known -> 0..2] /\ mark'[x] = 1
      /\ \A y \in Known : y # x => mark'[y] = mark[y]
      /\ \A y \in Black' : DepsById(y) \subseteq Black'
      /\ \A S \in (SUBSET Black') \ {{}} : \E y \in S : DepsById(y) \cap S = {}
  BY <1>1, <1>3, PushIsWhite
<1>8. \A y \in Known : mark[y] # 1
  BY <1>1, <1>4 DEF PathInv
<1>9. /\ path' \in Seq([node : Known, left : SUBSET Known]) /\ DOMAIN path' = {1} /\ Len(path') = 1
      /\ path'[1].node = x /\ path'[1].left = DepsById(x)
  BY <1>3, <1>6
<1>10. PathInv'
  BY <1>5, <1>7, <1>8, <1>9 DEF PathInv
<1> QED BY <1>1, <1>7, <1>10, SearchKeepsPlanInv

(* Sequences: what is in them, and what a longer or a shorter one holds.   *)
LEMMA InASeq ==
    ASSUME NEW R, NEW s \in Seq(R)
    PROVE  /\ Len(s) \in Nat /\ DOMAIN s = 1..Len(s) /\ \A k \in 1..Len(s) : s[k] \in R
           /\ s # <<>> => Len(s) # 0
OBVIOUS

LEMMA Appended ==
    ASSUME NEW R, NEW s \in Seq(R), NEW e \in R
    PROVE  /\ Append(s, e) \in Seq(R) /\ Len(Append(s, e)) = Len(s) + 1
           /\ DOMAIN Append(s, e) = 1..(Len(s) + 1)
           /\ \A k \in 1..Len(s) : Append(s, e)[k] = s[k]
           /\ Append(s, e)[Len(s) + 1] = e
OBVIOUS

LEMMA Shortened ==
    ASSUME NEW R, NEW s \in Seq(R), s # <<>>
    PROVE  /\ SubSeq(s, 1, Len(s) - 1) \in Seq(R) /\ Len(SubSeq(s, 1, Len(s) - 1)) = Len(s) - 1
           /\ DOMAIN SubSeq(s, 1, Len(s) - 1) = 1..(Len(s) - 1)
           /\ \A k \in 1..(Len(s) - 1) : SubSeq(s, 1, Len(s) - 1)[k] = s[k]
<1>1. PICK m \in Nat : Len(s) - 1 = m /\ m <= Len(s)
  <2>1. Len(s) - 1 \in Nat
    BY InASeq
  <2>2. Len(s) - 1 <= Len(s)
    BY InASeq
  <2> QED BY <2>1, <2>2
<1>2. \A k \in 1..m : k \in 1..Len(s) /\ 1 + k - 1 = k
  BY <1>1
<1>3. \A k \in 1..m : s[k] \in R
  BY <1>2, InASeq
<1>4. m - 1 + 1 = m /\ (IF 1 <= m THEN m - 1 + 1 ELSE 0) = m /\ m \in Int /\ 1 \in Int
  OBVIOUS
<1>5. /\ SubSeq(s, 1, m) \in Seq(R)
      /\ Len(SubSeq(s, 1, m)) = IF 1 <= m THEN m - 1 + 1 ELSE 0
      /\ \A k \in 1..(m - 1 + 1) : SubSeq(s, 1, m)[k] = s[1 + k - 1]
  BY <1>3, <1>4, SubSeqProperties
<1>6. /\ SubSeq(s, 1, m) \in Seq(R) /\ Len(SubSeq(s, 1, m)) = m
      /\ \A k \in 1..m : SubSeq(s, 1, m)[k] = s[k]
  BY <1>2, <1>4, <1>5
<1>7. DOMAIN SubSeq(s, 1, m) = 1..m
  BY <1>6, InASeq
<1> QED BY <1>1, <1>6, <1>7

LEMMA FieldIsSet ==
    ASSUME NEW p, NEW n \in DOMAIN p, NEW e
    PROVE  [p EXCEPT ![n].left = e][n] = [p[n] EXCEPT !.left = e]
OBVIOUS

(* What is left of the top of the path, when a dependency has been seen.   *)
LEMMA SeenIsTaken ==
    ASSUME NEW S, NEW T, NEW p \in Seq([node : S, left : SUBSET T]), p # <<>>, NEW d
    PROVE  LET q == [p EXCEPT ![Len(p)].left = @ \ {d}] IN
           /\ q \in Seq([node : S, left : SUBSET T])
           /\ Len(p) \in Nat \ {0} /\ Len(q) = Len(p) /\ DOMAIN q = 1..Len(p) /\ DOMAIN p = 1..Len(p)
           /\ \A k \in DOMAIN p : q[k].node = p[k].node
           /\ \A k \in DOMAIN p : k # Len(p) => q[k].left = p[k].left
           /\ q[Len(p)].left = p[Len(p)].left \ {d}
<1> DEFINE n == Len(p)
           q == [p EXCEPT ![n].left = @ \ {d}]
<1>1. n \in Nat \ {0} /\ DOMAIN p = 1..n /\ \A k \in 1..n : p[k] \in [node : S, left : SUBSET T]
  <2> DEFINE R == [node : S, left : SUBSET T]
  <2>1. p \in Seq(R)
    OBVIOUS
  <2> HIDE DEF R
  <2>2. Len(p) \in Nat /\ Len(p) # 0 /\ DOMAIN p = 1..Len(p) /\ \A k \in 1..Len(p) : p[k] \in R
    BY <2>1, InASeq
  <2> QED BY <2>2 DEF R
<1>2. DOMAIN q = 1..n
  BY <1>1
<1>3. \A k \in 1..n : k # n => q[k] = p[k]
  BY <1>1
<1>4. q[n] = [p[n] EXCEPT !.left = @ \ {d}]
  <2>1. n \in DOMAIN p
    BY <1>1
  <2> QED BY ONLY <2>1, FieldIsSet
<1>5. q[n].node = p[n].node /\ q[n].left = p[n].left \ {d}
      /\ q[n] \in [node : S, left : SUBSET T]
  BY <1>1, <1>4
<1>6. q \in [1..n -> [node : S, left : SUBSET T]]
  BY <1>1, <1>2, <1>3, <1>5
<1>7. q \in Seq([node : S, left : SUBSET T]) /\ Len(q) = n
  BY <1>1, <1>6
<1> QED BY <1>1, <1>2, <1>3, <1>5, <1>7

LEMMA TopOfThePath ==
    ASSUME PlanInv, phase = "search", path # <<>>
    PROVE  /\ path \in Seq([node : Known, left : SUBSET Known])
           /\ Len(path) \in Nat \ {0} /\ DOMAIN path = 1..Len(path) /\ Len(path) \in DOMAIN path
           /\ Top.node \in Known /\ Top.left \subseteq DepsById(Top.node) /\ Top.left \subseteq Known
           /\ mark[Top.node] = 1
           /\ \A d \in DepsById(Top.node) \ Top.left : mark[d] = 2
<1>1. PathInv
  BY SearchingPlan
<1>2. path \in Seq([node : Known, left : SUBSET Known])
  BY <1>1 DEF PathInv
<1>3. Len(path) \in Nat \ {0} /\ DOMAIN path = 1..Len(path) /\ Len(path) \in DOMAIN path
      /\ path[Len(path)] \in [node : Known, left : SUBSET Known]
  <2> DEFINE R == [node : Known, left : SUBSET Known]
  <2>1. path \in Seq(R)
    BY <1>2
  <2> HIDE DEF R
  <2>2. Len(path) \in Nat /\ Len(path) # 0 /\ DOMAIN path = 1..Len(path) /\ \A k \in 1..Len(path) : path[k] \in R
    BY <2>1, InASeq
  <2>3. Len(path) \in 1..Len(path)
    BY <2>2
  <2> QED BY <2>2, <2>3 DEF R
<1> QED BY <1>1, <1>2, <1>3 DEF PathInv, Top

LEMMA CycleIsFound ==
    ASSUME PlanInv, phase = "search", path # <<>>, NEW d \in Top.left, mark[d] = 1,
           UNCHANGED <<caller, graph, path, mark, orderVars>>,
           cycle' = Unwound(d), phase' = "rejected"
    PROVE  PlanInv'
<1> DEFINE n == Len(path)
           F == {k \in DOMAIN path : path[k].node = d}
           f == Min(F)
<1>1. n \in Nat \ {0} /\ DOMAIN path = 1..n /\ d \in Known /\ d \in DepsById(path[n].node)
  BY TopOfThePath DEF Top
<1>2. PathInv
  BY SearchingPlan
<1>3. f \in 1..n /\ path[f].node = d
  <2>1. F # {} /\ F \subseteq Nat
    BY <1>1, <1>2 DEF PathInv
  <2>2. \E m \in F : \A k \in F : m <= k
    BY <2>1, Least
  <2>3. f \in F
    BY <2>2, Zenon DEF Min
  <2> QED BY <2>3, <1>1
<1>4. cycle' = [k \in 1..(n - f + 1) |-> path[f + k - 1].node]
  BY DEF Unwound
<1> HIDE DEF f
<1>5. n - f + 1 \in Nat \ {0}
  BY <1>1, <1>3
<1>6. DOMAIN cycle' = 1..(n - f + 1) /\ Len(cycle') = n - f + 1
  BY <1>4, <1>5
<1>7. cycle' # <<>>
  BY <1>5, <1>6
<1>8. graph' = graph /\ caller' = caller /\ path' = path /\ mark' = mark /\ order' = <<>> /\ level' = <<>>
  BY SearchingPlan DEF orderVars
<1>9. /\ Known' = Known /\ Missing' = Missing /\ SelfDeps' = SelfDeps
      /\ \A x : DepsById(x)' = DepsById(x)
  BY <1>8, SameGraph
<1>10. ASSUME NEW k \in DOMAIN cycle'
       PROVE  cycle'[IF k = Len(cycle') THEN 1 ELSE k + 1] \in DepsById(cycle'[k])
  <2>1. k \in 1..(n - f + 1) /\ cycle'[k] = path[f + k - 1].node /\ f + k - 1 \in 1..n
    BY <1>1, <1>3, <1>4, <1>6
  <2>2. CASE k = n - f + 1
    <3>1. f + k - 1 = n
      BY <1>1, <1>3, <2>1, <2>2
    <3>2. cycle'[1] = path[f].node
      <4>1. 1 \in 1..(n - f + 1) /\ f + 1 - 1 = f
        BY <1>3, <1>5
      <4> QED BY <1>4, <4>1
    <3> QED BY <1>1, <1>3, <1>6, <2>1, <2>2, <3>1, <3>2
  <2>3. CASE k # n - f + 1
    <3>1. k + 1 \in 1..(n - f + 1) /\ f + (k + 1) - 1 = (f + k - 1) + 1 /\ f + k - 1 < n
      BY <1>1, <1>3, <2>1, <2>3
    <3>2. cycle'[k + 1] = path[(f + k - 1) + 1].node
      BY <1>4, <3>1
    <3>3. path[(f + k - 1) + 1].node \in DepsById(path[f + k - 1].node)
      BY <1>1, <1>2, <2>1, <3>1 DEF PathInv
    <3> QED BY <1>6, <2>1, <2>3, <3>2, <3>3
  <2> QED BY <2>2, <2>3
<1>11. CallInv'
  <2>1. \A k \in DOMAIN cycle' :
          (cycle[IF k = Len(cycle) THEN 1 ELSE k + 1] \in DepsById(cycle[k]))'
    BY <1>9, <1>10
  <2> QED BY <1>8, <2>1, SearchingPlan DEF CallInv
<1>12. SearchInv'
  <2>1. PathInv'
    BY <1>2, <1>8, <1>9 DEF PathInv
  <2>2. Black' = Black
    BY <1>8, <1>9 DEF Black
  <2>3. graph # <<>>
    BY SearchingPlan DEF PlanInv, SearchInv
  <2> QED BY <1>8, <1>9, <2>1, <2>2, <2>3, SearchingPlan DEF SearchInv, Acyclic
<1>13. OrderInv' /\ DistinctInv'
  BY <1>7, <1>8 DEF OrderInv, DistinctInv, Ordering
<1> QED BY <1>11, <1>12, <1>13 DEF PlanInv

LEMMA VisitKeepsPlanInv ==
    ASSUME PlanInv, Visit PROVE PlanInv'
<1>1. phase = "search" /\ path # <<>> /\ UNCHANGED <<caller, graph, orderVars>>
  BY DEF Visit
<1>2. PICK d \in Top.left :
         \/ /\ mark[d] = 1
            /\ cycle' = Unwound(d)
            /\ phase' = "rejected"
            /\ UNCHANGED <<path, mark>>
         \/ /\ mark[d] = 0
            /\ path' = Append([path EXCEPT ![Len(path)].left = @ \ {d}],
                              [node |-> d, left |-> DepsById(d)])
            /\ mark' = [mark EXCEPT ![d] = 1]
            /\ UNCHANGED <<phase, cycle>>
         \/ /\ mark[d] = 2
            /\ path' = [path EXCEPT ![Len(path)].left = @ \ {d}]
            /\ UNCHANGED <<phase, mark, cycle>>
  BY DEF Visit
<1> DEFINE n == Len(path)
           q == [path EXCEPT ![n].left = @ \ {d}]
<1>3. /\ n \in Nat \ {0} /\ DOMAIN path = 1..n /\ n \in DOMAIN path
      /\ path[n].node \in Known /\ path[n].left \subseteq DepsById(path[n].node)
      /\ d \in Known /\ d \in path[n].left
  BY <1>1, TopOfThePath DEF Top
<1>10. path \in Seq([node : Known, left : SUBSET Known])
  BY <1>1, TopOfThePath
<1>4. PathInv /\ mark \in [Known -> 0..2] /\ graph \in Seq(Steps) /\ Missing = {} /\ cycle = <<>>
  BY <1>1, SearchingPlan
<1>11. q \in Seq([node : Known, left : SUBSET Known])
  BY <1>1, <1>10, SeenIsTaken
<1>5. /\ Len(q) = n /\ DOMAIN q = 1..n
      /\ \A k \in 1..n : q[k].node = path[k].node
      /\ \A k \in 1..n : k # n => q[k].left = path[k].left
      /\ q[n].left = path[n].left \ {d}
  BY <1>1, <1>3, <1>10, SeenIsTaken
<1>12. n = Len(path)
  OBVIOUS
<1> HIDE DEF n, q
<1>13. /\ \A k \in 1..n : path[k].node \in Known
       /\ \A k \in 1..n : mark[path[k].node] = 1
       /\ \A x \in Known : mark[x] = 1 => \E k \in 1..n : path[k].node = x
       /\ \A k, l \in 1..n : path[k].node = path[l].node => k = l
  <2>1. \A k \in 1..n : path[k] \in [node : Known, left : SUBSET Known]
    BY <1>10, <1>12, InASeq
  <2>2. DOMAIN path = 1..n
    BY <1>3
  <2> QED BY <1>4, <2>1, <2>2, Zenon DEF PathInv
<1>6. Known' = Known /\ \A x : DepsById(x)' = DepsById(x)
  BY <1>1, SameGraph
<1>7. CASE mark[d] = 1 /\ cycle' = Unwound(d) /\ phase' = "rejected" /\ UNCHANGED <<path, mark>>
  BY <1>1, <1>7, CycleIsFound
<1>8. CASE /\ mark[d] = 0 /\ path' = Append(q, [node |-> d, left |-> DepsById(d)])
           /\ mark' = [mark EXCEPT ![d] = 1] /\ UNCHANGED <<phase, cycle>>
  <2>1. /\ mark' \in [Known -> 0..2] /\ mark'[d] = 1
        /\ \A y \in Known : y # d => mark'[y] = mark[y]
        /\ \A y \in Black' : DepsById(y) \subseteq Black'
        /\ \A S \in (SUBSET Black') \ {{}} : \E y \in S : DepsById(y) \cap S = {}
    BY <1>1, <1>3, <1>8, PushIsWhite
  <2>2. DepsById(d) \subseteq Known /\ [node |-> d, left |-> DepsById(d)] \in [node : Known, left : SUBSET Known]
    BY <1>3, <1>4, <1>12, DependsOnKnown
  <2>9. path' \in Seq([node : Known, left : SUBSET Known])
    BY <1>8, <1>11, <2>2, Appended
  <2>3. /\ Len(path') = n + 1 /\ DOMAIN path' = 1..(n + 1)
        /\ \A k \in 1..n : path'[k] = q[k]
        /\ path'[n + 1].node = d /\ path'[n + 1].left = DepsById(d)
    <3>1. /\ Len(path') = Len(q) + 1 /\ DOMAIN path' = 1..(Len(q) + 1)
          /\ \A k \in 1..Len(q) : path'[k] = q[k]
          /\ path'[Len(q) + 1] = [node |-> d, left |-> DepsById(d)]
      BY <1>8, <1>11, <2>2, Appended
    <3> QED BY <1>5, <3>1
  <2>4. \A k \in 1..n : path[k].node \in Known /\ path[k].node # d /\ mark[path[k].node] = 1
    BY <1>8, <1>13
  <2>5. ASSUME NEW k \in 1..(n + 1)
        PROVE  /\ path'[k].left \subseteq DepsById(path'[k].node)
               /\ mark'[path'[k].node] = 1
               /\ \A e \in DepsById(path'[k].node) \ path'[k].left :
                    mark'[e] = 2 \/ (k < n + 1 /\ e = path'[k + 1].node)
               /\ k < n + 1 => path'[k + 1].node \in DepsById(path'[k].node)
    <3>1. CASE k = n + 1
      BY <1>3, <2>1, <2>3, <3>1
    <3>2. CASE k = n
      <4>1. /\ path'[k].node = path[n].node /\ path'[k].left = path[n].left \ {d}
            /\ path'[k + 1].node = d /\ k < n + 1
        BY <1>3, <1>5, <2>3, <3>2
      <4>2. ASSUME NEW e \in DepsById(path[n].node) \ (path[n].left \ {d})
            PROVE  mark'[e] = 2 \/ e = d
        <5>1. CASE e = d
          BY <5>1
        <5>2. CASE e # d
          <6>1. mark[e] = 2
            BY <1>3, <1>4, <1>12, <5>2 DEF PathInv
          <6>2. e \in Known
            BY <1>3, <1>4, <1>12, DependsOnKnown
          <6> QED BY <2>1, <5>2, <6>1, <6>2
        <5> QED BY <5>1, <5>2
      <4>3. mark'[path[n].node] = 1
        BY <1>3, <2>1, <2>4
      <4> QED BY <1>3, <4>1, <4>2, <4>3
    <3>3. CASE k < n
      <4>1. k \in 1..n /\ k + 1 \in 1..n /\ k # n
        BY <1>3, <3>3
      <4>2. path'[k].node = path[k].node /\ path'[k].left = path[k].left /\ path'[k + 1].node = path[k + 1].node
        BY <1>5, <2>3, <4>1
      <4>3. /\ path[k].left \subseteq DepsById(path[k].node)
            /\ \A e \in DepsById(path[k].node) \ path[k].left : mark[e] = 2 \/ e = path[k + 1].node
            /\ path[k + 1].node \in DepsById(path[k].node)
        BY <1>3, <1>4, <1>12, <3>3, <4>1 DEF PathInv
      <4>4. DepsById(path[k].node) \subseteq Known
        BY <1>4, <2>4, <4>1, DependsOnKnown
      <4>5. \A e \in Known : mark[e] = 2 => mark'[e] = 2
        BY <1>8, <2>1
      <4>6. mark'[path[k].node] = 1
        BY <2>1, <2>4, <4>1
      <4> QED BY <1>3, <3>3, <4>2, <4>3, <4>4, <4>5, <4>6
    <3> QED BY <1>3, <3>1, <3>2, <3>3
  <2>6. ASSUME NEW x \in Known, mark'[x] = 1 PROVE \E k \in 1..(n + 1) : path'[k].node = x
    <3>1. CASE x = d
      BY <1>3, <2>3, <3>1
    <3>2. CASE x # d
      <4>1. mark[x] = 1
        BY <2>1, <2>6, <3>2
      <4>2. PICK k \in 1..n : path[k].node = x
        BY <1>3, <1>4, <1>12, <4>1 DEF PathInv
      <4> QED BY <1>3, <1>5, <2>3, <4>2
    <3> QED BY <3>1, <3>2
  <2>7. \A k, l \in 1..(n + 1) : path'[k].node = path'[l].node => k = l
    <3>1. \A k, l \in 1..n : path[k].node = path[l].node => k = l
      BY <1>13
    <3>2. \A k \in 1..n : path'[k].node = path[k].node
      BY <1>5, <2>3
    <3>3. \A k \in 1..(n + 1) : k \in 1..n \/ k = n + 1
      BY <1>3
    <3> QED BY <2>3, <2>4, <3>1, <3>2, <3>3
  <2>8. PathInv'
    BY <1>6, <2>3, <2>5, <2>6, <2>7, <2>9 DEF PathInv
  <2> QED BY <1>1, <1>8, <2>1, <2>8, SearchKeepsPlanInv
<1>9. CASE mark[d] = 2 /\ path' = q /\ UNCHANGED <<phase, mark, cycle>>
  <2>1. mark' = mark /\ mark' \in [Known -> 0..2] /\ Black' = Black
    BY <1>4, <1>6, <1>9 DEF Black
  <2>2. ASSUME NEW k \in 1..n
        PROVE  /\ q[k].left \subseteq DepsById(q[k].node)
               /\ mark[q[k].node] = 1
               /\ \A e \in DepsById(q[k].node) \ q[k].left :
                    mark[e] = 2 \/ (k < n /\ e = q[k + 1].node)
               /\ k < n => q[k + 1].node \in DepsById(q[k].node)
    <3>1. k < n => k + 1 \in 1..n
      BY <1>3
    <3>2. /\ path[k].left \subseteq DepsById(path[k].node)
          /\ mark[path[k].node] = 1
          /\ \A e \in DepsById(path[k].node) \ path[k].left :
               mark[e] = 2 \/ (k < n /\ e = path[k + 1].node)
          /\ k < n => path[k + 1].node \in DepsById(path[k].node)
      BY <1>3, <1>4, <1>12 DEF PathInv
    <3>3. q[k].node = path[k].node /\ (k < n => q[k + 1].node = path[k + 1].node)
          /\ q[k].left \subseteq path[k].left /\ \A e \in path[k].left \ q[k].left : e = d
      BY <1>5, <3>1
    <3> QED BY <1>9, <3>2, <3>3
  <2>3. PathInv'
    <3>1. path' = q /\ DOMAIN q = 1..n /\ Len(q) = n
      BY <1>5, <1>9
    <3>2. \A x \in Known : mark[x] = 1 => \E k \in 1..n : q[k].node = x
      BY <1>5, <1>13
    <3>3. \A k, l \in 1..n : q[k].node = q[l].node => k = l
      BY <1>5, <1>13
    <3>4. path' \in Seq([node : Known', left : SUBSET Known'])
      BY <1>6, <1>11, <3>1
    <3>5. \A k \in DOMAIN path' :
            (/\ path[k].left \subseteq DepsById(path[k].node)
             /\ mark[path[k].node] = 1
             /\ \A e \in DepsById(path[k].node) \ path[k].left :
                  mark[e] = 2 \/ (k < Len(path) /\ e = path[k + 1].node)
             /\ k < Len(path) => path[k + 1].node \in DepsById(path[k].node))'
      BY <1>6, <2>1, <2>2, <3>1
    <3>6. /\ \A x \in Known' : mark'[x] = 1 => \E k \in DOMAIN path' : path'[k].node = x
          /\ \A k, l \in DOMAIN path' : path'[k].node = path'[l].node => k = l
      BY <1>6, <2>1, <3>1, <3>2, <3>3
    <3> QED BY <3>4, <3>5, <3>6 DEF PathInv
  <2> QED BY <1>1, <1>9, <2>1, <2>3, SearchingPlan, SearchKeepsPlanInv DEF Acyclic
<1> QED BY <1>2, <1>7, <1>8, <1>9 DEF n, q

LEMMA LeaveKeepsPlanInv ==
    ASSUME PlanInv, Leave PROVE PlanInv'
<1> DEFINE n == Len(path)
           x == Top.node
<1>1. /\ phase = "search" /\ path # <<>> /\ Top.left = {} /\ phase' = "search"
      /\ UNCHANGED <<caller, graph, cycle, orderVars>>
      /\ path' = SubSeq(path, 1, n - 1) /\ mark' = [mark EXCEPT ![x] = 2]
  BY DEF Leave
<1>2. /\ n \in Nat \ {0} /\ DOMAIN path = 1..n /\ x = path[n].node /\ n = Len(path)
      /\ x \in Known /\ mark[x] = 1 /\ \A d \in DepsById(x) : mark[d] = 2
  BY <1>1, TopOfThePath DEF Top
<1>3. path \in Seq([node : Known, left : SUBSET Known])
  BY <1>1, TopOfThePath
<1>4. mark \in [Known -> 0..2] /\ PathInv /\ graph \in Seq(Steps) /\ Missing = {}
      /\ \A y \in Black : DepsById(y) \subseteq Black
  BY <1>1, SearchingPlan
<1>5. Known' = Known /\ \A y : DepsById(y)' = DepsById(y)
  BY <1>1, SameGraph
<1>6. path' \in Seq([node : Known, left : SUBSET Known])
  BY <1>1, <1>3, Shortened
<1>7. Len(path') = n - 1 /\ DOMAIN path' = 1..(n - 1) /\ \A k \in 1..(n - 1) : path'[k] = path[k]
  BY <1>1, <1>3, Shortened
<1>8. \A k \in 1..n : path[k].node \in Known
  <2>1. \A k \in 1..n : path[k] \in [node : Known, left : SUBSET Known]
    BY <1>3, InASeq
  <2> QED BY <2>1
<1>9. /\ \A k \in 1..n : /\ path[k].left \subseteq DepsById(path[k].node)
                         /\ mark[path[k].node] = 1
                         /\ \A d \in DepsById(path[k].node) \ path[k].left :
                              mark[d] = 2 \/ (k < n /\ d = path[k + 1].node)
                         /\ k < n => path[k + 1].node \in DepsById(path[k].node)
      /\ \A y \in Known : mark[y] = 1 => \E k \in 1..n : path[k].node = y
      /\ \A k, l \in 1..n : path[k].node = path[l].node => k = l
  BY <1>2, <1>4, Zenon DEF PathInv
<1> HIDE DEF n, x
<1>10. mark' \in [Known -> 0..2] /\ mark'[x] = 2 /\ \A y \in Known : y # x => mark'[y] = mark[y]
  BY <1>1, <1>2, <1>4
<1>11. Black' = Black \cup {x} /\ x \notin Black /\ DepsById(x) \subseteq Black
  <2>1. DepsById(x) \subseteq Known
    BY <1>2, <1>4, DependsOnKnown
  <2> QED BY <1>2, <1>5, <1>10, <2>1 DEF Black
<1>12. \A y \in Black' : DepsById(y) \subseteq Black'
  BY <1>4, <1>11
<1>13. ASSUME NEW S \in (SUBSET Black') \ {{}} PROVE \E y \in S : DepsById(y) \cap S = {}
  <2>1. CASE S \cap Black = {}
    <3>1. S = {x}
      BY <1>11, <2>1
    <3> QED BY <1>11, <3>1
  <2>2. CASE S \cap Black # {}
    <3>1. PICK y \in S \cap Black : DepsById(y) \cap (S \cap Black) = {}
      <4>1. S \cap Black \in (SUBSET Black) \ {{}}
        BY <2>2
      <4> QED BY <1>1, <4>1, SearchingPlan DEF Acyclic
    <3>2. DepsById(y) \subseteq Black
      BY <1>4
    <3> QED BY <3>1, <3>2
  <2> QED BY <2>1, <2>2
<1>18. \A k \in 1..(n - 1) : ~ (k < n - 1) => k + 1 = n
  <2>1. n \in Nat
    BY <1>2
  <2> QED BY ONLY <2>1
<1>14. \A k \in 1..(n - 1) : k \in 1..n /\ k < n /\ (k < n - 1 => k + 1 \in 1..(n - 1))
  BY <1>2
<1>15. ASSUME NEW k \in 1..(n - 1) PROVE path[k].node # x
  BY <1>2, <1>9, <1>14
<1>16. ASSUME NEW k \in 1..(n - 1)
       PROVE  /\ path[k].left \subseteq DepsById(path[k].node)
              /\ mark'[path[k].node] = 1
              /\ \A d \in DepsById(path[k].node) \ path[k].left :
                   mark'[d] = 2 \/ (k < n - 1 /\ d = path[k + 1].node)
              /\ k < n - 1 => path[k + 1].node \in DepsById(path[k].node)
  <2>1. k \in 1..n /\ k < n
    BY <1>14
  <2>2. path[k].left \subseteq DepsById(path[k].node)
        /\ (k < n - 1 => path[k + 1].node \in DepsById(path[k].node))
    BY <1>9, <2>1
  <2>3. mark'[path[k].node] = 1
    BY <1>8, <1>9, <1>10, <1>15, <2>1
  <2>4. ASSUME NEW d \in DepsById(path[k].node) \ path[k].left
        PROVE  mark'[d] = 2 \/ (k < n - 1 /\ d = path[k + 1].node)
    <3>1. mark[d] = 2 \/ d = path[k + 1].node
      BY <1>9, <2>1
    <3>2. CASE mark[d] = 2
      <4>1. d \in Known
        BY <1>4, <1>8, <2>1, DependsOnKnown
      <4> QED BY <1>10, <3>2, <4>1
    <3>3. CASE d = path[k + 1].node
      <4>1. CASE k < n - 1
        BY <3>3, <4>1
      <4>2. CASE ~ (k < n - 1)
        <5>1. k + 1 = n
          BY <1>18, <4>2
        <5> QED BY <1>2, <1>10, <3>3, <5>1
      <4> QED BY <4>1, <4>2
    <3> QED BY <3>1, <3>2, <3>3
  <2> QED BY <2>2, <2>3, <2>4
<1>17. PathInv'
  <2>1. path' \in Seq([node : Known', left : SUBSET Known'])
    BY <1>5, <1>6
  <2>2. \A k \in DOMAIN path' :
          (/\ path[k].left \subseteq DepsById(path[k].node)
           /\ mark[path[k].node] = 1
           /\ \A e \in DepsById(path[k].node) \ path[k].left :
                mark[e] = 2 \/ (k < Len(path) /\ e = path[k + 1].node)
           /\ k < Len(path) => path[k + 1].node \in DepsById(path[k].node))'
    BY <1>5, <1>7, <1>14, <1>16
  <2>3. ASSUME NEW y \in Known, mark'[y] = 1 PROVE \E k \in 1..(n - 1) : path'[k].node = y
    <3>1. mark[y] = 1 /\ y # x
      BY <1>10, <2>3
    <3>2. PICK k \in 1..n : path[k].node = y
      BY <1>9, <3>1
    <3>3. k \in 1..(n - 1)
      BY <1>2, <3>1, <3>2
    <3> QED BY <1>7, <3>2, <3>3
  <2>4. \A k, l \in 1..(n - 1) : path'[k].node = path'[l].node => k = l
    BY <1>7, <1>9, <1>14
  <2>5. /\ \A y \in Known' : mark'[y] = 1 => \E k \in DOMAIN path' : path'[k].node = y
        /\ \A k, l \in DOMAIN path' : path'[k].node = path'[l].node => k = l
    BY <1>5, <1>7, <2>3, <2>4
  <2> QED BY <2>1, <2>2, <2>5 DEF PathInv
<1> QED BY <1>1, <1>10, <1>12, <1>13, <1>17, SearchKeepsPlanInv

-----------------------------------------------------------------------------
(* The order.  A step of it leaves the search as it ended.                 *)
LEMMA OrderKeepsTheSearch ==
    ASSUME PlanInv, phase \in {"search", "order"}, phase' \in {"order", "accepted", "rejected"},
           UNCHANGED <<caller, graph, searchVars>>
    PROVE  CallInv' /\ SearchInv' /\ mark # <<>> /\ cycle = <<>> /\ graph \in Seq(Steps)
<1>1. graph' = graph /\ caller' = caller /\ path' = path /\ mark' = mark /\ cycle' = cycle
  BY DEF searchVars
<1>2. /\ Known' = Known /\ Missing' = Missing /\ SelfDeps' = SelfDeps
      /\ \A x : DepsById(x)' = DepsById(x)
  BY <1>1, SameGraph
<1>3. CallInv /\ SearchInv /\ mark # <<>> /\ cycle = <<>> /\ graph \in Seq(Steps)
  BY DEF PlanInv, CallInv
<1>4. CallInv'
  BY <1>1, <1>2, <1>3 DEF CallInv
<1>5. PathInv => PathInv'
  BY <1>1, <1>2 DEF PathInv
<1>6. Black' = Black
  BY <1>1, <1>2 DEF Black
<1>7. SearchInv'
  BY <1>1, <1>2, <1>3, <1>5, <1>6 DEF SearchInv, Acyclic
<1> QED BY <1>3, <1>4, <1>7

(* With distinct ids the arcs into an id are the dependencies of its step. *)
LEMMA ArcsOfAStep ==
    ASSUME graph \in Seq(Steps), DistinctIds, NEW p \in DOMAIN graph
    PROVE  /\ \A a \in Into(graph[p].id) : a[1] = p /\ a[2] \in graph[p].deps
           /\ \A d \in graph[p].deps : <<p, d>> \in Into(graph[p].id)
<1>1. \A d \in graph[p].deps : d \in Ids
  <2>1. graph[p] \in Steps
    BY InASeq
  <2> QED BY <2>1 DEF Steps
<1> QED BY <1>1 DEF Into, Arcs, DistinctIds

LEMMA NothingOpen ==
    ASSUME graph \in Seq(Steps), DistinctIds, NEW p \in DOMAIN graph
    PROVE  graph[p].deps \subseteq Taken <=> Open(graph[p].id) = {}
<1>1. ASSUME graph[p].deps \subseteq Taken PROVE Open(graph[p].id) = {}
  BY <1>1, ArcsOfAStep DEF Open
<1>2. ASSUME NEW d \in graph[p].deps, d \notin Taken PROVE Open(graph[p].id) # {}
  <2>1. <<p, d>> \in Into(graph[p].id) /\ <<p, d>>[2] = d
    BY ArcsOfAStep
  <2> QED BY <1>2, <2>1 DEF Open
<1> QED BY <1>1, <1>2

LEMMA StartKeepsPlanInv ==
    ASSUME PlanGraphAssumption, PlanInv, StartOrder PROVE PlanInv'
<1>1. /\ phase = "search" /\ phase' = "order" /\ UNCHANGED <<caller, graph, searchVars>>
      /\ \A x \in Known : mark[x] = 2
      /\ indegree' = [x \in Known |-> Cardinality(Into(x))]
      /\ ready' = {i \in DOMAIN graph : Into(graph[i].id) = {}}
      /\ order' = order /\ level' = level
  BY DEF StartOrder
<1>2. /\ CallInv' /\ SearchInv' /\ mark # <<>> /\ cycle = <<>> /\ graph \in Seq(Steps)
      /\ mark' = mark /\ cycle' = cycle /\ graph' = graph /\ caller' = caller
  BY <1>1, OrderKeepsTheSearch DEF searchVars
<1>3. Ordering' /\ ~ Ordering
  BY <1>1, <1>2 DEF Ordering
<1>4. order' = <<>> /\ level' = <<>> /\ DOMAIN order' = {} /\ Placed' = {} /\ Taken' = {}
  BY <1>1, <1>3 DEF PlanInv, OrderInv, Placed, Taken
<1>5. Known' = Known /\ DistinctIds' = DistinctIds /\ \A c : Into(c)' = Into(c)
  BY <1>2, SameGraph
<1>6. \A c : Cardinality(Into(c)) \in Nat /\ (Into(c) = {} => Cardinality(Into(c)) = 0)
  BY <1>2, ArcsAreFinite, FS_EmptySet
<1>7. \A i \in DOMAIN graph : graph[i].id \in Known
  BY DEF Known
<1>8. OrderInv'
  <2>1. Black' = Known'
    BY <1>1, <1>2, <1>5 DEF Black
  <2>2. order' \in Seq(DOMAIN graph') /\ NoStepTwice'
    <3>1. <<>> \in Seq(DOMAIN graph')
      OBVIOUS
    <3> QED BY <1>4, <3>1 DEF NoStepTwice
  <2>3. ready' \subseteq DOMAIN graph' /\ ready' \cap Placed' = {}
    BY <1>1, <1>2, <1>4
  <2>4. indegree' \in [Known' -> Int]
    BY <1>1, <1>5, <1>6
  <2>5. \A i \in ready' : indegree'[graph'[i].id] <= 0
    BY <1>1, <1>2, <1>6, <1>7
  <2> QED BY <1>3, <1>4, <2>1, <2>2, <2>3, <2>4, <2>5 DEF OrderInv
<1>9. ASSUME DistinctIds PROVE DistinctInv'
  <2>1. \A c : Open(c)' = Into(c)
    BY <1>4, <1>5 DEF Open
  <2>2. \A c \in Known' : indegree'[c] = Cardinality(Open(c)')
    BY <1>1, <1>5, <2>1
  <2>3. \A i \in DOMAIN graph : graph[i].deps \subseteq {} <=> Into(graph[i].id) = {}
    BY <1>2, <1>9, ArcsOfAStep
  <2>4. \A i \in DOMAIN graph' : graph'[i].deps \subseteq Taken' <=> i \in ready' \cup Placed'
    BY <1>1, <1>2, <1>4, <2>3
  <2>5. Ordered' /\ Stable'
    BY <1>4 DEF Ordered, Stable
  <2>6. level' \in [Taken' -> 0..Len(order')]
    BY <1>4
  <2>7. ASSUME caller' = "planner" PROVE ready' = (Len(order') + 1)..Len(graph')
    <3>1. \A i \in DOMAIN graph : graph[i].deps = {}
      BY <1>2, <2>7 DEF PlanInv, CallInv
    <3>2. ready' = DOMAIN graph
      BY <1>1, <2>3, <3>1
    <3>3. DOMAIN graph = 1..Len(graph) /\ Len(order') = 0
      BY <1>2, <1>4
    <3> QED BY <1>2, <3>2, <3>3
  <2> QED BY <1>1, <1>4, <2>2, <2>4, <2>5, <2>6, <2>7 DEF DistinctInv
<1>10. DistinctInv'
  BY <1>5, <1>9 DEF DistinctInv
<1> QED BY <1>2, <1>8, <1>10 DEF PlanInv

(* The step that is taken is the first that is ready.                      *)
LEMMA OrderingPlan ==
    ASSUME PlanInv, phase = "order"
    PROVE  /\ Ordering /\ mark # <<>> /\ cycle = <<>> /\ graph \in Seq(Steps) /\ Missing = {}
           /\ Black = Known /\ Acyclic(Known)
           /\ order \in Seq(DOMAIN graph) /\ NoStepTwice
           /\ Len(order) \in Nat /\ DOMAIN order = 1..Len(order)
           /\ ready \subseteq DOMAIN graph /\ ready \cap Placed = {} /\ Placed \subseteq DOMAIN graph
           /\ indegree \in [Known -> Int]
           /\ \A i \in ready \cup Placed : indegree[graph[i].id] <= 0
           /\ DOMAIN graph = 1..Len(graph) /\ Len(graph) \in Nat
           /\ \A i \in DOMAIN graph : graph[i].id \in Known
<1>1. Ordering /\ mark # <<>> /\ cycle = <<>> /\ graph \in Seq(Steps)
  BY DEF PlanInv, CallInv, Ordering
<1>2. /\ Black = Known /\ order \in Seq(DOMAIN graph) /\ NoStepTwice
      /\ ready \subseteq DOMAIN graph /\ ready \cap Placed = {}
      /\ indegree \in [Known -> Int]
      /\ \A i \in ready \cup Placed : indegree[graph[i].id] <= 0
  BY <1>1 DEF PlanInv, OrderInv
<1>3. Missing = {} /\ Acyclic(Known)
  BY <1>1, <1>2 DEF PlanInv, SearchInv
<1>4. Len(order) \in Nat /\ DOMAIN order = 1..Len(order) /\ \A k \in 1..Len(order) : order[k] \in DOMAIN graph
  BY <1>2, InASeq
<1>5. Placed \subseteq DOMAIN graph
  BY <1>4 DEF Placed
<1>6. DOMAIN graph = 1..Len(graph) /\ Len(graph) \in Nat
  BY <1>1, InASeq
<1>7. \A i \in DOMAIN graph : graph[i].id \in Known
  BY DEF Known
<1> QED BY <1>1, <1>2, <1>3, <1>4, <1>5, <1>6, <1>7

LEMMA OpenedStands ==
    ASSUME graph \in Seq(Steps), NEW c \in Known
    PROVE  ById(c) \in DOMAIN graph /\ graph[ById(c)].id = c
BY StandsForItsId

LEMMA TakeIsFirst ==
    ASSUME PlanGraphAssumption, PlanInv, Take
    PROVE  \E p \in ready :
             /\ \A q \in ready : p <= q
             /\ p \in DOMAIN graph /\ p \notin Placed
             /\ phase = "order" /\ phase' = "order" /\ UNCHANGED <<caller, graph, searchVars>>
             /\ order' \in Seq(DOMAIN graph) /\ Len(order') = Len(order) + 1
             /\ DOMAIN order' = 1..(Len(order) + 1)
             /\ \A k \in 1..Len(order) : order'[k] = order[k]
             /\ order'[Len(order) + 1] = p
             /\ Placed' = Placed \cup {p} /\ Taken' = Taken \cup {graph[p].id}
             /\ indegree' = [c \in Known |-> indegree[c] - Cardinality(Between(graph[p].id, c))]
             /\ ready' = (ready \ {p}) \cup {ById(c) : c \in Opened(graph[p].id)}
             /\ level' = [y \in DOMAIN level \cup {graph[p].id} |->
                            IF y = graph[p].id THEN Depth(graph[p].deps) ELSE level[y]]
<1>1. PICK p \in ready :
        /\ \A q \in ready : p <= q
        /\ order' = Append(order, p)
        /\ indegree' = [c \in Known |-> indegree[c] - Cardinality(Between(graph[p].id, c))]
        /\ ready' = (ready \ {p}) \cup {ById(c) : c \in Opened(graph[p].id)}
        /\ level' = [y \in DOMAIN level \cup {graph[p].id} |->
                       IF y = graph[p].id THEN Depth(graph[p].deps) ELSE level[y]]
  BY DEF Take
<1>2. phase = "order" /\ phase' = "order" /\ UNCHANGED <<caller, graph, searchVars>>
  BY DEF Take
<1>3. /\ order \in Seq(DOMAIN graph) /\ ready \subseteq DOMAIN graph /\ ready \cap Placed = {}
      /\ Len(order) \in Nat /\ DOMAIN order = 1..Len(order)
  BY <1>2, OrderingPlan
<1>4. /\ order' \in Seq(DOMAIN graph) /\ Len(order') = Len(order) + 1
      /\ DOMAIN order' = 1..(Len(order) + 1)
      /\ \A k \in 1..Len(order) : order'[k] = order[k]
      /\ order'[Len(order) + 1] = p
  <2>1. p \in DOMAIN graph
    BY <1>3
  <2> QED BY <1>1, <1>3, <2>1, Appended
<1>5. Placed' = Placed \cup {p}
  <2>1. \A k \in 1..(Len(order) + 1) : k \in 1..Len(order) \/ k = Len(order) + 1
    BY <1>3
  <2>2. 1..Len(order) \subseteq 1..(Len(order) + 1) /\ Len(order) + 1 \in 1..(Len(order) + 1)
    BY <1>3
  <2> QED BY <1>3, <1>4, <2>1, <2>2 DEF Placed
<1>6. Taken' = Taken \cup {graph[p].id}
  BY <1>2, <1>5 DEF Taken
<1> QED BY <1>1, <1>2, <1>3, <1>4, <1>5, <1>6

LEMMA TakeKeepsOrderInv ==
    ASSUME PlanGraphAssumption, PlanInv, Take PROVE OrderInv'
<1>1. PICK p \in ready :
        /\ p \in DOMAIN graph /\ p \notin Placed
        /\ phase = "order" /\ phase' = "order" /\ UNCHANGED <<caller, graph, searchVars>>
        /\ order' \in Seq(DOMAIN graph) /\ DOMAIN order' = 1..(Len(order) + 1)
        /\ \A k \in 1..Len(order) : order'[k] = order[k]
        /\ order'[Len(order) + 1] = p
        /\ Placed' = Placed \cup {p}
        /\ indegree' = [c \in Known |-> indegree[c] - Cardinality(Between(graph[p].id, c))]
        /\ ready' = (ready \ {p}) \cup {ById(c) : c \in Opened(graph[p].id)}
  BY TakeIsFirst
<1>2. /\ mark # <<>> /\ cycle = <<>> /\ graph \in Seq(Steps) /\ Black = Known /\ NoStepTwice
      /\ Len(order) \in Nat /\ DOMAIN order = 1..Len(order)
      /\ ready \subseteq DOMAIN graph /\ ready \cap Placed = {} /\ Placed \subseteq DOMAIN graph
      /\ indegree \in [Known -> Int]
      /\ \A i \in ready \cup Placed : indegree[graph[i].id] <= 0
      /\ \A i \in DOMAIN graph : graph[i].id \in Known
  BY <1>1, OrderingPlan
<1>3. graph' = graph /\ mark' = mark /\ cycle' = cycle /\ Known' = Known
  BY <1>1, SameGraph DEF searchVars
<1>4. Ordering'
  BY <1>1, <1>2, <1>3 DEF Ordering
<1>5. Black' = Known'
  BY <1>2, <1>3 DEF Black
<1>6. \A c \in Known : Cardinality(Between(graph[p].id, c)) \in Nat
  BY <1>2, ArcsAreFinite
<1>7. indegree' \in [Known -> Int] /\ \A c \in Known : indegree'[c] <= indegree[c]
  BY <1>1, <1>2, <1>6
<1>8. \A c \in Opened(graph[p].id) :
         /\ c \in Known /\ ById(c) \in DOMAIN graph /\ graph[ById(c)].id = c
         /\ 0 < indegree[c] /\ indegree'[c] <= 0
  BY <1>1, <1>2, <1>6, OpenedStands DEF Opened
<1>9. \A c \in Opened(graph[p].id) : ById(c) \notin ready \cup Placed
  BY <1>2, <1>8
<1>10. ASSUME NEW i \in ready' PROVE i \in DOMAIN graph /\ i \notin Placed'
  <2>1. Placed' = Placed \cup {p} /\ ready' = (ready \ {p}) \cup {ById(c) : c \in Opened(graph[p].id)}
    BY <1>1
  <2>2. CASE i \in ready \ {p}
    BY <1>2, <2>1, <2>2
  <2>3. CASE i \notin ready \ {p}
    <3>1. PICK c \in Opened(graph[p].id) : i = ById(c)
      BY <1>10, <2>1, <2>3
    <3>2. i \in DOMAIN graph /\ i \notin ready \cup Placed
      BY <1>8, <1>9, <3>1
    <3> QED BY <2>1, <3>2
  <2> QED BY <2>2, <2>3
<1>11. ASSUME NEW i \in ready' \cup Placed' PROVE indegree'[graph[i].id] <= 0
  <2>1. CASE i \in ready \cup Placed
    <3>1. graph[i].id \in Known /\ indegree[graph[i].id] <= 0
      BY <1>2, <2>1
    <3> QED BY <1>2, <1>7, <3>1
  <2>2. CASE i \notin ready \cup Placed
    <3>1. PICK c \in Opened(graph[p].id) : i = ById(c)
      BY <1>1, <1>11, <2>2
    <3> QED BY <1>8, <3>1
  <2> QED BY <2>1, <2>2
<1>12. NoStepTwice'
  <2>1. \A k \in 1..Len(order) : order[k] # p
    BY <1>1, <1>2 DEF Placed
  <2>2. \A k \in 1..(Len(order) + 1) : k \in 1..Len(order) \/ k = Len(order) + 1
    BY <1>2
  <2>3. \A k, l \in 1..Len(order) : order[k] = order[l] => k = l
    BY <1>2 DEF NoStepTwice
  <2> QED BY <1>1, <2>1, <2>2, <2>3 DEF NoStepTwice
<1> QED BY <1>1, <1>3, <1>4, <1>5, <1>7, <1>10, <1>11, <1>12 DEF OrderInv

(* With distinct ids: what is waited for, and what no longer is.           *)
LEMMA MaxOfLevels ==
    ASSUME NEW S, S \subseteq Nat, S # {}, NEW b \in Nat, \A s \in S : s <= b
    PROVE  Max(S \cup {0}) = Max(S) /\ Max(S) \in Nat /\ Max(S) <= b
<1> DEFINE T == S \cup {0}
<1>1. Max(S) \in S /\ \A s \in S : s <= Max(S)
  <2>1. S \subseteq Int /\ b \in Int
    OBVIOUS
  <2> QED BY <2>1, Greatest
<1>2. T \subseteq Nat /\ T # {} /\ S \subseteq T /\ \A s \in T : s \in S \/ s = 0
  OBVIOUS
<1> HIDE DEF T
<1>3. Max(T) \in T /\ \A s \in T : s <= Max(T)
  <2>1. T \subseteq Int /\ b \in Int /\ \A s \in T : s <= b
    BY <1>2
  <2> QED BY <1>2, <2>1, Greatest
<1>4. Max(S) \in Nat /\ Max(S) <= b
  BY <1>1
<1>5. Max(T) \in Nat /\ Max(S) <= Max(T)
  BY <1>1, <1>2, <1>3
<1>6. Max(T) <= Max(S)
  <2>1. Max(T) \in S \/ Max(T) = 0
    BY <1>2, <1>3
  <2>2. CASE Max(T) \in S
    BY <1>1, <2>2
  <2>3. CASE Max(T) = 0
    BY <1>4, <2>3
  <2> QED BY <2>1, <2>2, <2>3
<1> QED BY <1>4, <1>5, <1>6 DEF T

LEMMA OpenAfter ==
    ASSUME PlanGraphAssumption, PlanInv, phase = "order", DistinctIds, graph' = graph,
           NEW p \in ready, Taken' = Taken \cup {graph[p].id},
           indegree' = [c \in Known |-> indegree[c] - Cardinality(Between(graph[p].id, c))]
    PROVE  /\ graph[p].id \notin Taken
           /\ \A c \in Known : indegree'[c] = Cardinality(Open(c)')
           /\ \A c : Open(c)' = Open(c) \ Between(graph[p].id, c)
           /\ \A c : c \in Opened(graph[p].id) <=>
                c \in Known /\ Open(c) # {} /\ Open(c)' = {}
<1> DEFINE t == graph[p].id
<1>1. /\ graph \in Seq(Steps) /\ ready \subseteq DOMAIN graph /\ ready \cap Placed = {}
      /\ Placed \subseteq DOMAIN graph /\ Ordering
      /\ \A c \in Known : indegree[c] = Cardinality(Open(c))
  BY OrderingPlan DEF PlanInv, DistinctInv
<1>2. t \notin Taken
  BY <1>1 DEF Taken, DistinctIds
<1>3. \A c : Into(c)' = Into(c)
  BY SameGraph
<1>4. \A c : Open(c)' = Open(c) \ Between(t, c) /\ Between(t, c) \subseteq Open(c)
  BY <1>2, <1>3 DEF Open, Between
<1>5. ASSUME NEW c
      PROVE  /\ IsFiniteSet(Open(c)) /\ IsFiniteSet(Between(t, c)) /\ IsFiniteSet(Open(c) \ Between(t, c))
             /\ Cardinality(Open(c)) \in Nat /\ Cardinality(Between(t, c)) \in Nat
             /\ Cardinality(Open(c) \ Between(t, c)) = Cardinality(Open(c)) - Cardinality(Between(t, c))
             /\ Cardinality(Open(c)) = 0 <=> Open(c) = {}
             /\ Cardinality(Open(c) \ Between(t, c)) \in Nat
             /\ Cardinality(Open(c) \ Between(t, c)) = 0 <=> Open(c) \ Between(t, c) = {}
  <2>1. IsFiniteSet(Into(c)) /\ IsFiniteSet(Between(t, c)) /\ Cardinality(Between(t, c)) \in Nat
    BY <1>1, ArcsAreFinite
  <2>2. IsFiniteSet(Open(c))
    <3>1. Open(c) \subseteq Into(c)
      BY DEF Open
    <3> QED BY <2>1, <3>1, FS_Subset
  <2>3. /\ IsFiniteSet(Open(c) \ Between(t, c))
        /\ Cardinality(Open(c) \ Between(t, c)) = Cardinality(Open(c)) - Cardinality(Open(c) \cap Between(t, c))
    BY <2>2, FS_Difference
  <2>4. Open(c) \cap Between(t, c) = Between(t, c)
    BY <1>4
  <2> QED BY <2>1, <2>2, <2>3, <2>4, FS_CardinalityType, FS_EmptySet
<1> HIDE DEF t
<1>6. \A c \in Known : indegree'[c] = Cardinality(Open(c) \ Between(t, c))
  <2>1. indegree' = [c \in Known |-> indegree[c] - Cardinality(Between(t, c))]
    BY DEF t
  <2> QED BY <1>1, <1>5, <2>1
<1>7. \A c \in Known : indegree'[c] = Cardinality(Open(c)')
  BY <1>4, <1>6
<1>8. ASSUME NEW c PROVE c \in Opened(t) <=> c \in Known /\ Open(c) # {} /\ Open(c) \ Between(t, c) = {}
  <2>1. c \in Opened(t) <=> c \in Known /\ 0 < indegree[c] /\ indegree[c] <= Cardinality(Between(t, c))
    BY DEF Opened
  <2>2. ASSUME c \in Known
        PROVE  /\ 0 < indegree[c] <=> Open(c) # {}
               /\ indegree[c] <= Cardinality(Between(t, c)) <=> Open(c) \ Between(t, c) = {}
    <3> DEFINE m == Cardinality(Open(c))
               b == Cardinality(Between(t, c))
               r == Cardinality(Open(c) \ Between(t, c))
    <3>1. m \in Nat /\ b \in Nat /\ r \in Nat /\ r = m - b /\ indegree[c] = m
          /\ (m = 0 <=> Open(c) = {}) /\ (r = 0 <=> Open(c) \ Between(t, c) = {})
      BY <1>1, <1>5, <2>2
    <3> HIDE DEF m, b, r
    <3>2. (0 < m <=> m # 0) /\ (m <= b <=> r = 0)
      BY <3>1
    <3> QED BY <3>1, <3>2 DEF b
  <2> QED BY <2>1, <2>2
<1> QED BY <1>2, <1>4, <1>7, <1>8 DEF t

LEMMA TakeKeepsDistinctInv ==
    ASSUME PlanGraphAssumption, PlanInv, Take, DistinctIds PROVE DistinctInv'
<1> DEFINE n == Len(order)
<1>1. PICK p \in ready :
        /\ \A q \in ready : p <= q
        /\ p \in DOMAIN graph /\ p \notin Placed
        /\ phase = "order" /\ phase' = "order" /\ UNCHANGED <<caller, graph, searchVars>>
        /\ Len(order') = n + 1 /\ DOMAIN order' = 1..(n + 1)
        /\ \A k \in 1..n : order'[k] = order[k]
        /\ order'[n + 1] = p
        /\ Placed' = Placed \cup {p} /\ Taken' = Taken \cup {graph[p].id}
        /\ indegree' = [c \in Known |-> indegree[c] - Cardinality(Between(graph[p].id, c))]
        /\ ready' = (ready \ {p}) \cup {ById(c) : c \in Opened(graph[p].id)}
        /\ level' = [y \in DOMAIN level \cup {graph[p].id} |->
                       IF y = graph[p].id THEN Depth(graph[p].deps) ELSE level[y]]
  BY TakeIsFirst
<1>2. /\ Ordering /\ graph \in Seq(Steps)
      /\ n \in Nat /\ DOMAIN order = 1..n
      /\ ready \subseteq DOMAIN graph /\ ready \cap Placed = {} /\ Placed \subseteq DOMAIN graph
      /\ DOMAIN graph = 1..Len(graph) /\ Len(graph) \in Nat
      /\ \A i \in DOMAIN graph : graph[i].id \in Known
  BY <1>1, OrderingPlan
<1>3. /\ \A i \in DOMAIN graph : graph[i].deps \subseteq Taken <=> i \in ready \cup Placed
      /\ Ordered /\ Stable
      /\ \A q \in ready : \A k \in DOMAIN order : q < order[k] =>
            \E m \in k..n : graph[order[m]].id \in graph[q].deps
      /\ level \in [Taken -> 0..n]
      /\ \A i \in Placed : level[graph[i].id] = LevelOf(i)
      /\ caller = "planner" =>
            /\ \A k \in DOMAIN order : order[k] = k
            /\ ready = (n + 1)..Len(graph)
  BY <1>2 DEF PlanInv, DistinctInv
<1> DEFINE t == graph[p].id
<1>4. graph' = graph /\ caller' = caller /\ Known' = Known /\ \A c \in Known : Into(c)' = Into(c)
  BY <1>1, SameGraph
<1>5. /\ t \notin Taken
      /\ \A c \in Known : indegree'[c] = Cardinality(Open(c)')
      /\ \A c : Open(c)' = Open(c) \ Between(t, c)
      /\ \A c : c \in Opened(t) <=> c \in Known /\ Open(c) # {} /\ Open(c)' = {}
  BY <1>1, <1>4, OpenAfter
<1>6. graph[p].deps \subseteq Taken
  BY <1>1, <1>3
<1>7. \A c \in Opened(t) : ById(c) \in DOMAIN graph /\ graph[ById(c)].id = c
  BY <1>2, <1>5, OpenedStands
<1> HIDE DEF n, t
<1>8. \A k \in 1..(n + 1) : k \in 1..n \/ k = n + 1
  BY <1>2
<1>20. 1..n \subseteq 1..(n + 1) /\ n + 1 \in 1..(n + 1) /\ n + 1 \in Nat
  BY <1>2
(* What waits for nothing is ready or placed. *)
<1>9. ASSUME NEW i \in DOMAIN graph
      PROVE  graph[i].deps \subseteq Taken' <=> i \in ready' \cup Placed'
  <2>1. PICK c \in Known : c = graph[i].id
    BY <1>2
  <2>2. graph[i].deps \subseteq Taken <=> Open(c) = {}
    BY <1>2, <2>1, NothingOpen
  <2>3. graph[i].deps \subseteq Taken' <=> Open(c)' = {}
    <3>1. /\ \A a \in Into(c) : a[1] = i /\ a[2] \in graph[i].deps
          /\ \A d \in graph[i].deps : <<i, d>> \in Into(c)
      BY <1>2, <2>1, ArcsOfAStep
    <3>2. Open(c)' = {a \in Into(c) : a[2] \notin Taken'}
      BY <1>4 DEF Open
    <3>3. ASSUME graph[i].deps \subseteq Taken' PROVE Open(c)' = {}
      BY <3>1, <3>2, <3>3
    <3>4. ASSUME NEW d \in graph[i].deps, d \notin Taken' PROVE Open(c)' # {}
      <4>1. <<i, d>> \in Into(c) /\ <<i, d>>[2] = d
        BY <3>1
      <4> QED BY <3>2, <3>4, <4>1
    <3> QED BY <3>3, <3>4
  <2>4. (Open(c) = {} => Open(c)' = {}) /\ (c \in Opened(t) <=> Open(c) # {} /\ Open(c)' = {})
    BY <1>5, <2>1
  <2>5. ById(c) = i
    BY <1>2, <2>1, DistinctById
  <2>6. i \in ready' \cup Placed' <=> i \in ready \cup Placed \/ c \in Opened(t)
    <3>1. i \in ready' \cup Placed' <=> i \in ready \cup Placed \/ i \in {ById(x) : x \in Opened(t)}
      BY <1>1 DEF t
    <3>2. i \in {ById(x) : x \in Opened(t)} <=> c \in Opened(t)
      BY <1>7, <2>1, <2>5
    <3> QED BY <3>1, <3>2
  <2>7. graph[i].deps \subseteq Taken <=> i \in ready \cup Placed
    BY <1>3
  <2> QED BY <2>2, <2>3, <2>4, <2>6, <2>7
(* What is placed is placed where it should be. *)
<1>10. Ordered'
  <2>1. ASSUME NEW l \in 1..(n + 1), NEW d \in graph[order'[l]].deps
        PROVE  \E k \in 1..(l - 1) : graph[order'[k]].id = d
    <3>1. CASE l \in 1..n
      <4>1. PICK k \in 1..(l - 1) : graph[order[k]].id = d
        BY <1>1, <1>2, <1>3, <2>1, <3>1 DEF Ordered, n
      <4>2. k \in 1..n
        BY <1>2, <3>1
      <4> QED BY <1>1, <4>1, <4>2 DEF n
    <3>2. CASE l = n + 1
      <4>1. d \in Taken
        BY <1>1, <1>6, <2>1, <3>2 DEF n
      <4>2. PICK k \in 1..n : graph[order[k]].id = d
        BY <1>2, <4>1 DEF Taken, Placed
      <4>3. k \in 1..(l - 1)
        BY <1>2, <3>2
      <4> QED BY <1>1, <4>2, <4>3 DEF n
    <3> QED BY <1>8, <3>1, <3>2
  <2> QED BY <1>1, <1>4, <2>1 DEF Ordered, n
<1>11. Stable'
  <2>1. ASSUME NEW l \in 1..(n + 1), NEW k \in 1..(l - 1), order'[l] < order'[k]
        PROVE  \E m \in k..(l - 1) : graph[order'[m]].id \in graph[order'[l]].deps
    <3>1. k \in 1..n /\ order'[k] = order[k]
      BY <1>1, <1>2 DEF n
    <3>2. CASE l \in 1..n
      <4>1. order'[l] = order[l]
        BY <1>1, <3>2 DEF n
      <4>2. PICK m \in k..(l - 1) : graph[order[m]].id \in graph[order[l]].deps
        BY <1>2, <1>3, <2>1, <3>1, <3>2, <4>1 DEF Stable
      <4>3. m \in 1..n
        BY <1>2, <3>1, <3>2
      <4> QED BY <1>1, <4>1, <4>2, <4>3 DEF n
    <3>3. CASE l = n + 1
      <4>1. order'[l] = p
        BY <1>1, <3>3 DEF n
      <4>2. PICK m \in k..n : graph[order[m]].id \in graph[p].deps
        BY <1>2, <1>3, <2>1, <3>1, <4>1
      <4>3. m \in 1..n /\ m \in k..(l - 1)
        BY <1>2, <3>1, <3>3
      <4> QED BY <1>1, <4>1, <4>2, <4>3 DEF n
    <3> QED BY <1>8, <3>2, <3>3
  <2> QED BY <1>1, <1>4, <2>1 DEF Stable, n
<1>12. ASSUME NEW q \in ready', NEW k \in 1..(n + 1), q < order'[k]
       PROVE  \E m \in k..(n + 1) : graph[order'[m]].id \in graph[q].deps
  <2>1. CASE q \in ready \ {p}
    <3>1. CASE k \in 1..n
      <4>1. PICK m \in k..n : graph[order[m]].id \in graph[q].deps
        BY <1>1, <1>2, <1>3, <1>12, <2>1, <3>1 DEF n
      <4>2. m \in 1..n /\ m \in k..(n + 1)
        BY <1>2, <3>1
      <4> QED BY <1>1, <4>1, <4>2 DEF n
    <3>2. CASE k = n + 1
      <4>1. p <= q /\ q < p /\ p \in Nat /\ q \in Nat
        BY <1>1, <1>2, <1>12, <2>1, <3>2 DEF n
      <4> QED BY <4>1
    <3> QED BY <1>8, <3>1, <3>2
  <2>2. CASE q \notin ready \ {p}
    <3>1. PICK c \in Opened(t) : q = ById(c)
      BY <1>1, <1>12, <2>2 DEF t
    <3>2. graph[q].id = c /\ q \in DOMAIN graph
      BY <1>7, <3>1
    <3>3. PICK a \in Open(c) : a \in Between(t, c)
      BY <1>5
    <3>4. a \in Into(c) /\ a[2] = t
      BY <3>3 DEF Between
    <3>5. t \in graph[q].deps
      BY <1>2, <3>2, <3>4, ArcsOfAStep
    <3>6. n + 1 \in k..(n + 1)
      BY <1>2
    <3> QED BY <1>1, <3>5, <3>6 DEF n, t
  <2> QED BY <2>1, <2>2
(* The levels. *)
<1>13. DOMAIN level = Taken /\ \A d \in Taken : level[d] \in Nat /\ level[d] <= n
  BY <1>2, <1>3
<1>14. DOMAIN level' = Taken' /\ level'[t] = Depth(graph[p].deps) /\ \A d \in Taken : level'[d] = level[d]
  BY <1>1, <1>5, <1>13 DEF t
<1>15. ASSUME NEW i \in Placed' PROVE level'[graph[i].id] = LevelOf(i)' /\ graph[i].deps \subseteq Taken
  <2>1. graph[i].deps \subseteq Taken
    BY <1>1, <1>2, <1>3, <1>6
  <2>2. {level'[d] : d \in graph[i].deps} = {level[d] : d \in graph[i].deps}
    BY <1>14, <2>1
  <2>3. LevelOf(i)' = IF graph[i].deps = {} THEN 0 ELSE 1 + Max({level[d] : d \in graph[i].deps})
    BY <1>4, <2>2 DEF LevelOf
  <2>4. CASE i \in Placed
    <3>1. level'[graph[i].id] = level[graph[i].id]
      BY <1>14, <2>4 DEF Taken
    <3> QED BY <1>3, <2>1, <2>3, <2>4, <3>1 DEF LevelOf
  <2>5. CASE i = p
    <3>1. level'[graph[i].id] = Depth(graph[p].deps)
      BY <1>14, <2>5 DEF t
    <3>2. CASE graph[p].deps = {}
      BY <2>1, <2>3, <2>5, <3>1, <3>2 DEF Depth
    <3>3. CASE graph[p].deps # {}
      <4> DEFINE S == {level[d] : d \in graph[p].deps}
      <4>1. S \subseteq Nat /\ S # {} /\ \A s \in S : s <= n
        BY <1>13, <2>1, <2>5, <3>3
      <4>2. Max(S \cup {0}) = Max(S)
        BY <1>2, <4>1, MaxOfLevels
      <4>3. graph[p].deps \cap DOMAIN level = graph[p].deps
        BY <1>13, <2>1, <2>5
      <4>4. Depth(graph[p].deps) = 1 + Max(S \cup {0})
        BY <3>3, <4>3 DEF Depth
      <4> QED BY <2>1, <2>3, <2>5, <3>1, <3>3, <4>2, <4>4
    <3> QED BY <3>2, <3>3
  <2> QED BY <1>1, <1>15, <2>4, <2>5
<1>16. level' \in [Taken' -> 0..(n + 1)]
  <2>1. level'[t] \in 0..(n + 1)
    <3>1. CASE graph[p].deps = {}
      BY <1>2, <1>14, <3>1 DEF Depth
    <3>2. CASE graph[p].deps # {}
      <4> DEFINE S == {level[d] : d \in graph[p].deps}
      <4>1. S \subseteq Nat /\ S # {} /\ \A s \in S : s <= n
        BY <1>6, <1>13, <3>2
      <4>2. Max(S \cup {0}) \in Nat /\ Max(S \cup {0}) <= n
        BY <1>2, <4>1, MaxOfLevels
      <4>3. graph[p].deps \cap DOMAIN level = graph[p].deps
        BY <1>6, <1>13
      <4>4. Depth(graph[p].deps) = 1 + Max(S \cup {0})
        BY <3>2, <4>3 DEF Depth
      <4> HIDE DEF S
      <4> QED BY <1>2, <1>14, <4>2, <4>4
    <3> QED BY <3>1, <3>2
  <2>2. \A d \in Taken : level'[d] \in 0..(n + 1)
    BY <1>2, <1>13, <1>14
  <2>3. Taken' = Taken \cup {t}
    BY <1>1 DEF t
  <2>4. level' = [y \in Taken' |-> level'[y]]
    BY <1>1, <1>14
  <2> QED BY <2>1, <2>2, <2>3, <2>4
(* A plan without dependencies keeps its order. *)
<1>17. ASSUME caller = "planner"
       PROVE  (\A k \in 1..(n + 1) : order'[k] = k) /\ ready' = (n + 2)..Len(graph)
  <2>1. \A i \in DOMAIN graph : graph[i].deps = {}
    BY <1>17 DEF PlanInv, CallInv
  <2>2. ready = (n + 1)..Len(graph) /\ \A k \in 1..n : order[k] = k
    BY <1>2, <1>3, <1>17
  <2>3. p = n + 1
    <3>1. n + 1 \in ready
      BY <1>2, <2>2
    <3>2. p <= n + 1 /\ n + 1 <= p /\ p \in Nat
      BY <1>1, <1>2, <2>2, <3>1
    <3> QED BY <1>2, <3>2
  <2>4. Opened(t) = {}
    <3>1. \A c \in Known : Open(c) = {}
      <4>1. \A i \in DOMAIN graph : Open(graph[i].id) = {}
        BY <1>2, <2>1, NothingOpen
      <4> QED BY <4>1 DEF Known
    <3> QED BY <1>5, <3>1
  <2>5. ready' = ready \ {n + 1}
    BY <1>1, <2>3, <2>4 DEF t
  <2>6. ((n + 1)..Len(graph)) \ {n + 1} = (n + 2)..Len(graph)
    BY <1>2
  <2>7. \A k \in 1..(n + 1) : order'[k] = k
    BY <1>1, <1>8, <2>2, <2>3 DEF n
  <2> QED BY <2>2, <2>5, <2>6, <2>7
<1>18. (n + 1) + 1 = n + 2
  BY <1>2
<1>19. Len(order') = n + 1 /\ DOMAIN order' = 1..(n + 1)
  BY <1>1 DEF n
<1> QED
  <2>1. phase' = "order"
    BY <1>1
  <2>2. \A c \in Known' : indegree'[c] = Cardinality(Open(c)')
    BY <1>4, <1>5
  <2>3. \A i \in DOMAIN graph' : graph'[i].deps \subseteq Taken' <=> i \in ready' \cup Placed'
    BY <1>4, <1>9
  <2>4. \A q \in ready' : \A k \in DOMAIN order' : q < order'[k] =>
           \E m \in k..Len(order') : graph'[order'[m]].id \in graph'[q].deps
    BY <1>4, <1>12, <1>19
  <2>5. level' \in [Taken' -> 0..Len(order')] /\ \A i \in Placed' : level'[graph'[i].id] = LevelOf(i)'
    BY <1>4, <1>15, <1>16, <1>19
  <2>6. caller' = "planner" =>
           (\A k \in DOMAIN order' : order'[k] = k) /\ ready' = (Len(order') + 1)..Len(graph')
    BY <1>4, <1>17, <1>18, <1>19
  <2> QED BY <1>10, <1>11, <2>1, <2>2, <2>3, <2>4, <2>5, <2>6 DEF DistinctInv

LEMMA TakeKeepsPlanInv ==
    ASSUME PlanGraphAssumption, PlanInv, Take PROVE PlanInv'
<1>1. phase = "order" /\ phase' = "order" /\ UNCHANGED <<caller, graph, searchVars>>
  BY DEF Take
<1>2. CallInv' /\ SearchInv'
  BY <1>1, OrderKeepsTheSearch
<1>3. OrderInv'
  BY TakeKeepsOrderInv
<1>4. DistinctIds' = DistinctIds
  BY <1>1, SameGraph
<1>5. DistinctInv'
  BY <1>4, TakeKeepsDistinctInv DEF DistinctInv
<1> QED BY <1>2, <1>3, <1>5 DEF PlanInv

(* When nothing is ready and ids are distinct, everything is placed: among *)
(* what is not, a step would wait for none of the others.                  *)
LEMMA NothingIsLeft ==
    ASSUME PlanInv, phase = "order", ready = {}, DistinctIds
    PROVE  Placed = DOMAIN graph /\ Len(order) = Len(graph)
<1>1. /\ graph \in Seq(Steps) /\ Missing = {} /\ Acyclic(Known) /\ Placed \subseteq DOMAIN graph
      /\ order \in Seq(DOMAIN graph) /\ NoStepTwice /\ Len(order) \in Nat /\ DOMAIN order = 1..Len(order)
      /\ DOMAIN graph = 1..Len(graph) /\ Len(graph) \in Nat /\ Ordering
  BY OrderingPlan
<1>2. \A i \in DOMAIN graph : graph[i].deps \subseteq Taken <=> i \in Placed
  BY <1>1 DEF PlanInv, DistinctInv
<1>3. ASSUME Placed # DOMAIN graph PROVE FALSE
  <2> DEFINE S == {graph[i].id : i \in DOMAIN graph \ Placed}
  <2>1. S \in (SUBSET Known) \ {{}}
    BY <1>1, <1>3 DEF Known
  <2>2. PICK x \in S : DepsById(x) \cap S = {}
    BY <1>1, <2>1 DEF Acyclic
  <2>3. PICK i \in DOMAIN graph \ Placed : x = graph[i].id
    BY <2>2
  <2>4. DepsById(x) = graph[i].deps
    BY <1>1, <2>3, DistinctById
  <2>5. graph[i].deps \subseteq Known
    BY <1>1, <2>3, DependsOnKnown
  <2>6. \A d \in Known \ S : d \in Taken
    BY DEF Known, Taken
  <2> QED BY <1>2, <2>2, <2>3, <2>4, <2>5, <2>6
<1>4. order \in Injection(1..Len(order), 1..Len(graph))
  <2>1. order \in [1..Len(order) -> 1..Len(graph)]
    BY <1>1, InASeq
  <2>2. \A k, l \in DOMAIN order : order[k] = order[l] => k = l
    BY <1>1 DEF NoStepTwice
  <2> QED BY <2>1, <2>2 DEF Injection, IsInjective
<1>5. order \in Surjection(1..Len(order), 1..Len(graph))
  <2>1. \A i \in 1..Len(graph) : \E k \in 1..Len(order) : order[k] = i
    BY <1>1, <1>3 DEF Placed
  <2> QED BY <1>4, <2>1 DEF Injection, Surjection
<1>6. IsFiniteSet(1..Len(graph)) /\ Cardinality(1..Len(graph)) = Len(graph)
      /\ Cardinality(1..Len(order)) = Len(order)
  <2>1. \A m \in Nat : m \in Int /\ 1 \in Int /\ (IF 1 > m THEN 0 ELSE m - 1 + 1) = m
    OBVIOUS
  <2>2. \A m \in Nat : IsFiniteSet(1..m) /\ Cardinality(1..m) = m
    BY <2>1, FS_Interval
  <2> QED BY <1>1, <2>2
<1>7. Cardinality(1..Len(order)) = Cardinality(1..Len(graph))
  BY <1>4, <1>5, <1>6, FS_Injection
<1> QED BY <1>3, <1>6, <1>7

LEMMA FinishKeepsPlanInv ==
    ASSUME PlanInv, Finish PROVE PlanInv'
<1>1. /\ phase = "order" /\ ready = {} /\ phase' \in {"accepted", "rejected"}
      /\ phase' = (IF Len(order) = Len(graph) THEN "accepted" ELSE "rejected")
      /\ UNCHANGED <<caller, graph, searchVars, orderVars>>
  BY DEF Finish
<1>2. CallInv' /\ SearchInv' /\ mark # <<>> /\ cycle = <<>>
  BY <1>1, OrderKeepsTheSearch
<1>3. /\ caller' = caller /\ graph' = graph /\ mark' = mark /\ cycle' = cycle
      /\ indegree' = indegree /\ ready' = ready /\ order' = order /\ level' = level
  BY <1>1 DEF searchVars, orderVars
<1>4. Ordering /\ Ordering'
  BY <1>1, <1>2, <1>3 DEF Ordering
<1>5. /\ Known' = Known /\ DistinctIds' = DistinctIds /\ \A c : Into(c)' = Into(c)
      /\ Placed' = Placed
  BY <1>3, SameGraph DEF Placed
<1>6. Taken' = Taken /\ Black' = Black
  BY <1>3, <1>5 DEF Taken, Black
<1>7. OrderInv'
  BY <1>3, <1>4, <1>5, <1>6 DEF PlanInv, OrderInv, NoStepTwice
<1>8. ASSUME DistinctIds PROVE DistinctInv'
  <2>1. Placed = DOMAIN graph /\ phase' = "accepted"
    BY <1>1, <1>8, NothingIsLeft
  <2>2. \A c : Open(c)' = Open(c)
    BY <1>5, <1>6 DEF Open
  <2>3. /\ \A c \in Known : indegree[c] = Cardinality(Open(c))
        /\ \A i \in DOMAIN graph : graph[i].deps \subseteq Taken <=> i \in ready \cup Placed
        /\ Ordered /\ Stable
        /\ \A q \in ready : \A k \in DOMAIN order : q < order[k] =>
              \E m \in k..Len(order) : graph[order[m]].id \in graph[q].deps
        /\ level \in [Taken -> 0..Len(order)]
        /\ \A i \in Placed : level[graph[i].id] = LevelOf(i)
        /\ caller = "planner" =>
              /\ \A k \in DOMAIN order : order[k] = k
              /\ ready = (Len(order) + 1)..Len(graph)
    BY <1>4, <1>8 DEF PlanInv, DistinctInv
  <2>4. Ordered' /\ Stable'
    BY <1>3, <2>3 DEF Ordered, Stable
  <2>5. \A i : LevelOf(i)' = LevelOf(i)
    BY <1>3 DEF LevelOf
  <2>6. \A c \in Known' : indegree'[c] = Cardinality(Open(c)')
    BY <1>3, <1>5, <2>2, <2>3
  <2> QED BY <1>3, <1>5, <1>6, <2>1, <2>3, <2>4, <2>5, <2>6 DEF DistinctInv
<1>9. DistinctInv'
  BY <1>5, <1>8 DEF DistinctInv
<1> QED BY <1>2, <1>7, <1>9 DEF PlanInv

-----------------------------------------------------------------------------
(* The inductive invariant of a plan's way from a goal to an order.        *)
THEOREM PlanInvariant == ASSUME PlanGraphAssumption PROVE PlanSpec => []PlanInv
<1>1. PlanInit => PlanInv
  BY InitPlanInv
<1>2. PlanInv /\ [PlanNext]_planVars => PlanInv'
  <2>1. ASSUME PlanInv, PlanNext PROVE PlanInv'
    BY <2>1, CreateKeepsPlanInv, CheckKeepsPlanInv, EnterKeepsPlanInv, VisitKeepsPlanInv,
       LeaveKeepsPlanInv, StartKeepsPlanInv, TakeKeepsPlanInv, FinishKeepsPlanInv DEF PlanNext
  <2>2. ASSUME PlanInv, UNCHANGED planVars PROVE PlanInv'
    <3>1. /\ caller' = caller /\ graph' = graph /\ phase' = phase /\ path' = path /\ mark' = mark
          /\ cycle' = cycle /\ indegree' = indegree /\ ready' = ready /\ order' = order /\ level' = level
      BY <2>2 DEF planVars, searchVars, orderVars
    <3>2. /\ Known' = Known /\ Missing' = Missing /\ SelfDeps' = SelfDeps /\ DistinctIds' = DistinctIds
          /\ \A x : DepsById(x)' = DepsById(x) /\ Into(x)' = Into(x)
      BY <3>1, SameGraph
    <3>3. Black' = Black /\ Placed' = Placed /\ Taken' = Taken /\ Ordering' = Ordering
      BY <3>1, <3>2 DEF Black, Placed, Taken, Ordering
    <3>4. (\A c : Open(c)' = Open(c)) /\ (\A i : LevelOf(i)' = LevelOf(i))
      BY <3>1, <3>2, <3>3 DEF Open, LevelOf
    <3>5. Ordered' = Ordered /\ Stable' = Stable /\ NoStepTwice' = NoStepTwice
      BY <3>1 DEF Ordered, Stable, NoStepTwice
    <3>6. CallInv'
      BY <2>2, <3>1, <3>2 DEF PlanInv, CallInv
    <3>7. PathInv => PathInv'
      BY <3>1, <3>2 DEF PathInv
    <3>8. SearchInv'
      BY <2>2, <3>1, <3>2, <3>3, <3>7 DEF PlanInv, SearchInv, Acyclic
    <3>9. OrderInv'
      BY <2>2, <3>1, <3>2, <3>3, <3>5 DEF PlanInv, OrderInv
    <3>10. DistinctInv'
      BY <2>2, <3>1, <3>2, <3>3, <3>4, <3>5 DEF PlanInv, DistinctInv
    <3> QED BY <3>6, <3>8, <3>9, <3>10 DEF PlanInv
  <2> QED BY <2>1, <2>2
<1> QED BY <1>1, <1>2, PTL DEF PlanSpec

(* What find_cycle says is exact: the cycle it returns is one, and a plan  *)
(* it lets pass has no set of ids each waiting for another of them; of any *)
(* plan, with repeated ids too.                                            *)
THEOREM CyclesAreExact == ASSUME PlanGraphAssumption PROVE PlanSpec => []CycleExact
<1>1. PlanInv => CycleExact
  <2>1. ASSUME PlanInv, phase \in {"order", "accepted"} PROVE Acyclic(Known)
    <3>1. Ordering
      BY <2>1 DEF PlanInv, CallInv, Ordering
    <3>2. Black = Known
      BY <2>1, <3>1 DEF PlanInv, OrderInv
    <3>3. Acyclic(Black)
      BY <2>1, <3>1 DEF PlanInv, SearchInv, Ordering
    <3> QED BY <3>2, <3>3
  <2> QED BY <2>1 DEF PlanInv, CallInv, CycleExact, Acyclic
<1> QED BY <1>1, PlanInvariant, PTL

(* No step is ordered twice, whatever ids the steps have.                  *)
THEOREM NoStepIsTwice == ASSUME PlanGraphAssumption PROVE PlanSpec => []NoStepTwice
<1>1. PlanInv => NoStepTwice
  <2>1. order = <<>> => NoStepTwice
    BY DEF NoStepTwice
  <2> QED BY <2>1 DEF PlanInv, OrderInv
<1> QED BY <1>1, PlanInvariant, PTL

(* A plan with distinct ids that passes the checks is ordered completely,  *)
(* stably and with every dependency first, one level above the highest of  *)
(* them: topological_order cannot stop early, because what is left would   *)
(* hold a cycle that find_cycle had not found.                             *)
THEOREM OrderIsComplete == ASSUME PlanGraphAssumption PROVE PlanSpec => []OrderComplete
<1>1. PlanInv => OrderComplete
  <2>1. SUFFICES ASSUME PlanInv, phase \in {"accepted", "rejected"}, cycle = <<>>, mark # <<>>, DistinctIds
                 PROVE  /\ phase = "accepted" /\ Placed = DOMAIN graph /\ Ordered /\ Stable
                        /\ caller = "planner" => \A k \in DOMAIN order : order[k] = k
                        /\ \A i \in DOMAIN graph : level[graph[i].id] = LevelOf(i)
    BY DEF OrderComplete, Placed
  <2>2. Ordering
    BY <2>1 DEF Ordering
  <2>3. DistinctInv /\ phase = "accepted"
    BY <2>1, <2>2 DEF PlanInv, DistinctInv
  <2> QED BY <2>1, <2>2, <2>3 DEF DistinctInv
<1> QED BY <1>1, PlanInvariant, PTL

(* The three together: find_cycle, topological_order and levels can be     *)
(* relied on for every plan that passes the checks.                        *)
THEOREM PlansAreOrdered == ASSUME PlanGraphAssumption PROVE PlanSpec => []PlansOrdered
<1>1. CycleExact /\ OrderComplete /\ NoStepTwice => PlansOrdered
  BY DEF PlansOrdered
<1> QED BY <1>1, CyclesAreExact, NoStepIsTwice, OrderIsComplete, PTL
=============================================================================
