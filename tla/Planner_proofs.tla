--------------------------- MODULE Planner_proofs ---------------------------
(***************************************************************************)
(* What materialize_plan of src/src/planner/decomposition.rs makes of any  *)
(* request and of any contract: lemmas about the operators of Planner.     *)
(***************************************************************************)
EXTENDS Planner, OrderLemmas

-----------------------------------------------------------------------------
(* Sequences                                                               *)

(* A function on 1..n is a sequence of its values.                         *)
LEMMA ValuesType ==
  ASSUME NEW n \in Nat, NEW f, f = [i \in 1..n |-> f[i]]
  PROVE  /\ f \in Seq({f[i] : i \in 1..n}) /\ Len(f) = n
         /\ f # <<>> => n # 0
<1> DEFINE V == {f[i] : i \in 1..n}
<1>1. \A i \in 1..n : f[i] \in V
  OBVIOUS
<1> HIDE DEF V
<1>2. f \in [1..n -> V]
  BY <1>1
<1>3. f \in Seq(V)
  BY <1>2
<1>4. Len(f) = n
  BY <1>2, <1>3
<1>5. f # <<>> => n # 0
  BY <1>3, <1>4, EmptySeq
<1> QED BY <1>3, <1>4, <1>5 DEF V

-----------------------------------------------------------------------------
(* Roles and routes                                                        *)

(* Whatever is asked for, a task is for a role the team has.               *)
LEMMA RoleIsUsable ==
  ASSUME NEW requested, NEW hinted, NEW i \in Nat \ {0}
  PROVE  resolve_candidate_role(requested, hinted, i) \in RoleNames
<1>1. Roles \in Seq(STRING) /\ Len(Roles) \in Nat \ {0} /\ DOMAIN Roles = 1..Len(Roles)
  BY PlannerAssumption, EmptySeq
<1>2. ((i - 1) % Len(Roles)) + 1 \in 1..Len(Roles)
  <2> DEFINE n == Len(Roles)
  <2>1. n \in Nat \ {0}
    BY <1>1
  <2> HIDE DEF n
  <2>2. (i - 1) % n \in 0..(n - 1)
    BY <2>1
  <2> QED BY <2>1, <2>2 DEF n
<1>3. Roles[((i - 1) % Len(Roles)) + 1] \in RoleNames
  BY <1>1, <1>2 DEF RoleNames
<1> QED BY <1>3 DEF resolve_candidate_role

(* Whatever is asked for or configured, it takes a route there is.         *)
LEMMA RouteIsKnown ==
  ASSUME NEW role \in RoleNames, NEW requested, NEW hinted \in RouteKey
  PROVE  resolve_task_route_key(role, requested, hinted) \in RouteKey
BY DEF resolve_task_route_key

(* The levels of a plan come in a sequence.                                *)
LEMMA LevelsAreASequence ==
  ASSUME NEW tasks, Len(tasks) \in Nat
  PROVE  \E n \in Nat : DOMAIN topological_levels(tasks) = 1..n
<1> DEFINE layers == Layers(tasks)
           last == {i \in DOMAIN tasks : Named(tasks, tasks[i].id) = i}
           fresh(n) == layers[n] \ layers[n - 1]
           ids == [n \in 1..Len(tasks) |-> {tasks[i].id : i \in fresh(n) \cap last}]
           at == {n \in DOMAIN ids : ids[n] # {}}
<1>1. topological_levels(tasks) \in {<<>>, Subsequence(ids, at)}
  BY DEF topological_levels
<1>2. DOMAIN <<>> = 1..0
  OBVIOUS
<1>3. at \in SUBSET (1..Len(tasks))
  <2>1. DOMAIN ids = 1..Len(tasks)
    OBVIOUS
  <2>2. at \subseteq DOMAIN ids
    <3> HIDE DEF ids
    <3> QED OBVIOUS
  <2> HIDE DEF at, ids
  <2> QED BY <2>1, <2>2
<1> HIDE DEF at, ids
<1>4. Cardinality(at) \in Nat
  BY <1>3, PositionsAreFinite
<1>5. DOMAIN Subsequence(ids, at) = 1..Cardinality(at)
  BY DEF Subsequence
<1> QED BY <1>1, <1>2, <1>4, <1>5

-----------------------------------------------------------------------------
(* The graph of the tasks                                                  *)

(* A graph of n tasks.                                                     *)
Graph(tasks, n) == n \in Nat /\ Len(tasks) = n /\ DOMAIN tasks = 1..n

(* Every dependency of its tasks is a task of it.                          *)
Closed(tasks) == \A t \in DOMAIN tasks : \A d \in tasks[t].deps : HasTask(tasks, d)

DistinctIds(tasks) == \A t, u \in DOMAIN tasks : tasks[t].id = tasks[u].id => t = u

(* A layer is what the layer below it frees.                               *)
IsLayering(f, tasks, n) ==
  /\ f \in [0..n -> SUBSET (1..n)]
  /\ f[0] = {}
  /\ \A k \in 1..n : f[k] = Unblocked(tasks, f[k - 1])

LEMMA LayersAre ==
  ASSUME NEW tasks, NEW n, Graph(tasks, n)
  PROVE  IsLayering(Layers(tasks), tasks, n)
<1> DEFINE S == SUBSET (1..n)
           step == [p \in S \X (1..n) |-> Unblocked(tasks, p[1])]
           Fills(f) == f = [k \in 0..n |-> IF k = 0 THEN {} ELSE Unblocked(tasks, f[k - 1])]
<1>1. n \in Nat /\ Len(tasks) = n /\ DOMAIN tasks = 1..n
  BY DEF Graph
<1>2. \A below : Unblocked(tasks, below) \in S
  BY <1>1 DEF Unblocked
<1>3. {} \in S
  OBVIOUS
<1> HIDE DEF S
<1>4. step \in [S \X (1..n) -> S]
  BY <1>2
<1>5. \A x \in S, k \in 1..n : step[<<x, k>>] = Unblocked(tasks, x)
  OBVIOUS
<1> HIDE DEF step
<1>6. \E f : Fills(f)
  <2>1. PICK f : IsTable(f, S, {}, n, step)
    BY <1>1, <1>3, <1>4, TableIsMade
  <2>2. f \in [0..n -> S] /\ f[0] = {} /\ \A k \in 1..n : f[k] = step[<<f[k - 1], k>>]
    BY <2>1 DEF IsTable
  <2>3. ASSUME NEW k \in 1..n PROVE f[k] = Unblocked(tasks, f[k - 1])
    <3>1. f[k - 1] \in S
      <4>1. k - 1 \in 0..n
        BY <1>1
      <4> QED BY <2>2, <4>1
    <3> QED BY <2>2, <3>1, <1>5
  <2>4. f = [k \in 0..n |-> f[k]]
    BY <2>2
  <2>5. \A k \in 0..n : f[k] = IF k = 0 THEN {} ELSE Unblocked(tasks, f[k - 1])
    <3>1. \A k \in 0..n : k = 0 \/ k \in 1..n
      BY <1>1
    <3> QED BY <2>2, <2>3, <3>1
  <2> QED BY <2>4, <2>5
<1> DEFINE layers == CHOOSE f : Fills(f)
<1>7. Layers(tasks) = layers
  BY <1>1 DEF Layers
<1>8. Fills(layers)
  <2> HIDE DEF Fills
  <2> QED BY <1>6
<1> HIDE DEF layers
<1>9. layers[0] = {}
  BY <1>1, <1>8
<1>10. \A k \in 1..n : layers[k] = Unblocked(tasks, layers[k - 1])
  <2>1. \A k \in 1..n : k \in 0..n /\ k # 0
    BY <1>1
  <2> QED BY <2>1, <1>8
<1>11. layers \in [0..n -> S]
  <2>1. \A k \in 0..n : k = 0 \/ k \in 1..n
    BY <1>1
  <2>2. \A k \in 0..n : layers[k] \in S
    BY <1>2, <1>3, <1>9, <1>10, <2>1
  <2>3. DOMAIN layers = 0..n /\ layers = [k \in 0..n |-> layers[k]]
    BY <1>8
  <2> QED BY <2>2, <2>3
<1> QED BY <1>7, <1>9, <1>10, <1>11 DEF IsLayering, S

(* Every layer holds the layers below it.                                  *)
LEMMA LayersGrow ==
  ASSUME NEW tasks, NEW n \in Nat, NEW f, IsLayering(f, tasks, n),
         NEW k \in 0..n, NEW j \in 0..k
  PROVE  f[j] \subseteq f[k]
<1> DEFINE T == {i \in 1..n : f[i - 1] \subseteq f[i]} \cup {0}
           U == {i \in 0..n : i < j \/ f[j] \subseteq f[i]}
<1>1. f[0] = {} /\ \A i \in 1..n : f[i] = Unblocked(tasks, f[i - 1])
  BY DEF IsLayering
<1>2. T = 0..n
  <2>1. T \in SUBSET (0..n) /\ 0 \in T
    OBVIOUS
  <2>2. ASSUME NEW i \in 1..n, i - 1 \in T PROVE i \in T
    <3>1. CASE i = 1
      <4>1. f[i - 1] = {}
        BY <3>1, <1>1
      <4> QED BY <4>1
    <3>2. CASE i # 1
      <4>1. i - 1 \in 1..n /\ i - 1 # 0
        BY <3>2
      <4>2. f[(i - 1) - 1] \subseteq f[i - 1]
        BY <2>2, <4>1
      <4>3. f[i - 1] = Unblocked(tasks, f[(i - 1) - 1]) /\ f[i] = Unblocked(tasks, f[i - 1])
        BY <1>1, <4>1
      <4>4. f[i - 1] \subseteq f[i]
        BY <4>2, <4>3 DEF Unblocked
      <4> QED BY <4>4
    <3> QED BY <3>1, <3>2
  <2> HIDE DEF T
  <2> QED BY <2>1, <2>2, IntervalInduction
<1>3. U = 0..n
  <2>1. U \in SUBSET (0..n)
    OBVIOUS
  <2>2. 0 \in U
    <3>1. 0 < j \/ j = 0
      OBVIOUS
    <3> QED BY <3>1
  <2>3. ASSUME NEW i \in 1..n, i - 1 \in U PROVE i \in U
    <3>1. f[i - 1] \subseteq f[i]
      <4>1. i \in T /\ i # 0
        BY <1>2
      <4> QED BY <4>1
    <3>2. i \in 0..n
      OBVIOUS
    <3>3. i < j \/ j = i \/ ~(i - 1 < j)
      OBVIOUS
    <3>4. i < j \/ f[j] \subseteq f[i]
      <4>1. i - 1 < j \/ f[j] \subseteq f[i - 1]
        BY <2>3
      <4> QED BY <3>1, <3>3, <4>1
    <3> QED BY <3>2, <3>4
  <2> HIDE DEF U, T
  <2> QED BY <2>1, <2>2, <2>3, IntervalInduction
<1>4. k \in U /\ ~(k < j)
  BY <1>3
<1> HIDE DEF T
<1> QED BY <1>4

(* A task that some layer holds is new in just one of them.                *)
FirstIn(f, k, i) == i \in f[k] /\ i \notin f[k - 1]

LEMMA OneLayerIsTheFirst ==
  ASSUME NEW tasks, NEW n \in Nat, NEW f, IsLayering(f, tasks, n),
         NEW m \in 0..n, NEW i \in f[m]
  PROVE  \E k \in 1..m : FirstIn(f, k, i) /\ \A j \in 1..n : FirstIn(f, j, i) => j = k
<1> DEFINE M == {j \in 0..n : i \in f[j]}
<1>1. IsFiniteSet(M) /\ M \in SUBSET Int /\ M # {}
  <2>1. M \subseteq 0..n /\ m \in M
    OBVIOUS
  <2> HIDE DEF M
  <2>2. IsFiniteSet(0..n)
    <3>1. 0 \in Int /\ n \in Int
      OBVIOUS
    <3> QED BY <3>1, FS_Interval
  <2>3. IsFiniteSet(M)
    BY <2>1, <2>2, FS_Subset
  <2>4. M \in SUBSET Int
    BY <2>1
  <2> QED BY <2>1, <2>3, <2>4
<1>2. PICK k \in M : \A j \in M : k <= j
  <2> HIDE DEF M
  <2> QED BY <1>1, LeastElement
<1>3. k \in 0..n /\ i \in f[k] /\ k # 0 /\ k <= m
  <2>1. f[0] = {}
    BY DEF IsLayering
  <2>2. m \in M
    OBVIOUS
  <2>3. k \in 0..n /\ i \in f[k]
    OBVIOUS
  <2> HIDE DEF M
  <2> QED BY <2>1, <2>2, <2>3, <1>2
<1>4. i \notin f[k - 1]
  <2>1. k - 1 \in 0..n /\ ~(k <= k - 1)
    BY <1>3
  <2> QED BY <2>1, <1>2
<1>5. ASSUME NEW j \in 1..n, FirstIn(f, j, i) PROVE j = k
  <2>1. i \in f[j] /\ i \notin f[j - 1]
    BY <1>5 DEF FirstIn
  <2>2. j \in M
    BY <2>1
  <2>3. k <= j
    BY <2>2, <1>2
  <2>4. ~(k < j)
    <3>1. SUFFICES ASSUME k < j PROVE FALSE
      OBVIOUS
    <3>2. j - 1 \in 0..n /\ k \in 0..(j - 1)
      BY <3>1, <1>3
    <3>3. f[k] \subseteq f[j - 1]
      BY <3>2, LayersGrow
    <3> QED BY <3>3, <2>1, <1>3
  <2> QED BY <2>3, <2>4, <1>3
<1>6. k \in 1..m
  BY <1>3
<1> HIDE DEF M
<1> QED BY <1>3, <1>4, <1>5, <1>6 DEF FirstIn

(* A name stands for a task that bears it,                                 *)
LEMMA NamedIs ==
  ASSUME NEW tasks, NEW n, Graph(tasks, n), NEW id, HasTask(tasks, id)
  PROVE  Named(tasks, id) \in 1..n /\ tasks[Named(tasks, id)].id = id
<1> DEFINE M == {i \in 1..n : tasks[i].id = id}
           Last(i) == tasks[i].id = id /\ \A j \in DOMAIN tasks : tasks[j].id = id => j <= i
<1>1. n \in Nat /\ DOMAIN tasks = 1..n
  BY DEF Graph
<1>2. IsFiniteSet(M) /\ M \in SUBSET Int /\ M # {}
  <2>1. IsFiniteSet(1..n)
    BY <1>1, FS_Interval
  <2>2. M \subseteq 1..n
    OBVIOUS
  <2>3. M # {}
    BY <1>1 DEF HasTask
  <2> HIDE DEF M
  <2>4. IsFiniteSet(M)
    BY <2>1, <2>2, FS_Subset
  <2>5. M \in SUBSET Int
    BY <2>2
  <2> QED BY <2>3, <2>4, <2>5
<1>3. PICK k \in M : \A j \in M : j <= k
  <2> HIDE DEF M
  <2> QED BY <1>2, GreatestElement
<1>4. k \in DOMAIN tasks /\ Last(k)
  BY <1>1, <1>3
<1>5. Named(tasks, id) = CHOOSE i \in DOMAIN tasks : Last(i)
  BY DEF Named
<1>6. (CHOOSE i \in DOMAIN tasks : Last(i)) \in DOMAIN tasks
      /\ Last(CHOOSE i \in DOMAIN tasks : Last(i))
  <2> HIDE DEF Last
  <2> QED BY <1>4
<1> QED BY <1>1, <1>5, <1>6

(* the name of a task for the task itself, if no other bears it.           *)
LEMMA NamedIsTheTask ==
  ASSUME NEW tasks, NEW n, Graph(tasks, n), DistinctIds(tasks), NEW i \in 1..n
  PROVE  Named(tasks, tasks[i].id) = i
<1>1. DOMAIN tasks = 1..n
  BY DEF Graph
<1>2. HasTask(tasks, tasks[i].id)
  BY <1>1 DEF HasTask
<1>3. /\ Named(tasks, tasks[i].id) \in 1..n
      /\ tasks[Named(tasks, tasks[i].id)].id = tasks[i].id
  BY <1>2, NamedIs
<1> QED BY <1>1, <1>3 DEF DistinctIds

(* What a task waits for stands before the task its name stands for.       *)
LEMMA DependenciesComeIn ==
  ASSUME NEW tasks, NEW n, Graph(tasks, n), NEW t \in 1..n, NEW d \in tasks[t].deps,
         HasTask(tasks, d)
  PROVE  Named(tasks, d) \in Incoming(tasks, Named(tasks, tasks[t].id))
<1> DEFINE i == Named(tasks, tasks[t].id)
           bearers == {k \in DOMAIN tasks : Named(tasks, tasks[k].id) = i}
           wanted == UNION {tasks[k].deps : k \in bearers}
<1>1. t \in bearers
  BY DEF Graph
<1>2. d \in wanted
  <2> HIDE DEF bearers
  <2> QED BY <1>1
<1>3. Incoming(tasks, i) = {Named(tasks, e) : e \in {e \in wanted : HasTask(tasks, e)}}
  BY DEF Incoming
<1> HIDE DEF wanted, i
<1> QED BY <1>2, <1>3 DEF i

(* The levels put every name once, after all that it depends on.           *)
InLevels(tasks, levels) ==
  \A t \in DOMAIN tasks : \E k \in DOMAIN levels :
    /\ \A m \in DOMAIN levels : tasks[t].id \in levels[m] <=> m = k
    /\ \A d \in tasks[t].deps : \E m \in 1..(k - 1) : d \in levels[m]

LEMMA LevelsAreInOrder ==
  ASSUME NEW tasks, NEW n, Graph(tasks, n), Closed(tasks), ~has_cycle(tasks)
  PROVE  /\ InLevels(tasks, topological_levels(tasks))
         /\ n # 0 => topological_levels(tasks) # <<>>
<1> DEFINE f == Layers(tasks)
           last == {i \in DOMAIN tasks : Named(tasks, tasks[i].id) = i}
           fresh(k) == f[k] \ f[k - 1]
           ids == [k \in 1..Len(tasks) |-> {tasks[i].id : i \in fresh(k) \cap last}]
           at == {k \in DOMAIN ids : ids[k] # {}}
           levels == topological_levels(tasks)
           c == Cardinality(at)
<1>1. n \in Nat /\ Len(tasks) = n /\ DOMAIN tasks = 1..n
  BY DEF Graph
<1>2. IsLayering(f, tasks, n)
  BY LayersAre
<1>3. f[n] = 1..n
  BY <1>1 DEF has_cycle
<1>4. levels = Subsequence(ids, at)
  BY DEF topological_levels
<1>5. DOMAIN ids = 1..n /\ at \in SUBSET (1..n)
  <2>1. DOMAIN ids = 1..n
    BY <1>1
  <2> HIDE DEF ids
  <2> QED BY <2>1
<1>6. PICK from : KeptInOrder(ids, at, from)
  <2> HIDE DEF ids, at
  <2> QED BY <1>1, <1>5, SubsequenceInOrder
<1>7. DOMAIN levels = 1..c /\ c \in Nat
  <2>1. DOMAIN Subsequence(ids, at) = 1..c
    BY DEF Subsequence
  <2>2. c \in Nat
    <3> HIDE DEF at
    <3> QED BY <1>1, <1>5, PositionsAreFinite
  <2> HIDE DEF levels, ids, at, c
  <2> QED BY <1>4, <2>1, <2>2
<1> HIDE DEF levels, f
<1>8. ASSUME NEW id, HasTask(tasks, id), NEW k \in 1..n
      PROVE  id \in ids[k] <=> FirstIn(f, k, Named(tasks, id))
  <2> DEFINE i == Named(tasks, id)
  <2>1. i \in 1..n /\ tasks[i].id = id
    BY <1>8, NamedIs
  <2>2. i \in last
    BY <1>1, <2>1
  <2>3. ids[k] = {tasks[j].id : j \in fresh(k) \cap last}
    BY <1>1
  <2>4. ASSUME id \in ids[k] PROVE i \in fresh(k)
    <3>1. PICK j \in fresh(k) \cap last : tasks[j].id = id
      BY <2>3, <2>4
    <3>2. Named(tasks, tasks[j].id) = j
      OBVIOUS
    <3> QED BY <3>1, <3>2
  <2>5. ASSUME i \in fresh(k) PROVE id \in ids[k]
    <3> HIDE DEF i, last, fresh
    <3> QED BY <2>1, <2>2, <2>3, <2>5
  <2> HIDE DEF ids, last
  <2> QED BY <2>4, <2>5 DEF FirstIn
<1>9. ASSUME NEW i \in 1..n
      PROVE  \E k \in 1..n : FirstIn(f, k, i) /\ \A j \in 1..n : FirstIn(f, j, i) => j = k
  <2>1. n \in 0..n /\ i \in f[n]
    BY <1>1, <1>3
  <2> QED BY <1>1, <1>2, <2>1, OneLayerIsTheFirst
<1>10. ASSUME NEW k \in 1..n, ids[k] # {} PROVE \E m \in 1..c : from[m] = k
  <2>1. k \in at
    <3> HIDE DEF ids
    <3> QED BY <1>5, <1>10
  <2> HIDE DEF ids, at
  <2> QED BY <2>1, <1>6 DEF KeptInOrder
<1>11. /\ \A m \in 1..c : from[m] \in 1..n /\ levels[m] = ids[from[m]]
       /\ \A l, m \in 1..c : l < m => from[l] < from[m]
  <2> HIDE DEF ids, at
  <2> QED BY <1>4, <1>5, <1>6 DEF KeptInOrder
<1>12. ASSUME NEW t \in 1..n
       PROVE  \E k \in 1..n : /\ \A j \in 1..n : tasks[t].id \in ids[j] <=> j = k
                              /\ \A d \in tasks[t].deps : \E j \in 1..(k - 1) : d \in ids[j]
  <2> DEFINE i == Named(tasks, tasks[t].id)
  <2>1. HasTask(tasks, tasks[t].id)
    BY <1>1 DEF HasTask
  <2>2. i \in 1..n
    BY <2>1, NamedIs
  <2> HIDE DEF i
  <2>3. PICK k \in 1..n : FirstIn(f, k, i) /\ \A j \in 1..n : FirstIn(f, j, i) => j = k
    BY <2>2, <1>9
  <2>4. \A j \in 1..n : tasks[t].id \in ids[j] <=> j = k
    <3> HIDE DEF ids
    <3> QED BY <2>1, <2>3, <1>8 DEF i
  <2>5. ASSUME NEW d \in tasks[t].deps PROVE \E j \in 1..(k - 1) : d \in ids[j]
    <3>1. HasTask(tasks, d)
      BY <1>1 DEF Closed
    <3>2. Named(tasks, d) \in Incoming(tasks, i)
      BY <3>1, DependenciesComeIn DEF i
    <3>3. i \in f[k] /\ f[k] = Unblocked(tasks, f[k - 1])
      BY <2>3, <1>2 DEF FirstIn, IsLayering
    <3>4. Named(tasks, d) \in f[k - 1]
      BY <3>2, <3>3 DEF Unblocked
    <3>5. k - 1 \in 0..n
      BY <1>1
    <3>6. PICK j \in 1..(k - 1) : FirstIn(f, j, Named(tasks, d))
      BY <1>1, <1>2, <3>4, <3>5, OneLayerIsTheFirst
    <3>7. j \in 1..n
      BY <1>1
    <3>8. d \in ids[j]
      <4> HIDE DEF ids
      <4> QED BY <3>1, <3>6, <3>7, <1>8
    <3> HIDE DEF ids
    <3> QED BY <3>8
  <2> HIDE DEF ids
  <2> QED BY <2>4, <2>5
<1> HIDE DEF ids, at, c
<1>13. ASSUME NEW k \in 1..n, NEW id, id \in ids[k] PROVE \E m \in 1..c : from[m] = k
  <2>1. ids[k] # {}
    BY <1>13
  <2> QED BY <2>1, <1>10
<1>14. ASSUME NEW t \in 1..n
       PROVE  \E k \in 1..c : /\ \A m \in 1..c : tasks[t].id \in levels[m] <=> m = k
                              /\ \A d \in tasks[t].deps : \E m \in 1..(k - 1) : d \in levels[m]
  <2>1. PICK j \in 1..n : /\ \A i \in 1..n : tasks[t].id \in ids[i] <=> i = j
                          /\ \A d \in tasks[t].deps : \E i \in 1..(j - 1) : d \in ids[i]
    BY <1>12
  <2>2. PICK k \in 1..c : from[k] = j
    BY <2>1, <1>13
  <2>3. ASSUME NEW m \in 1..c PROVE tasks[t].id \in levels[m] <=> m = k
    <3>1. tasks[t].id \in levels[m] <=> from[m] = j
      BY <1>11, <2>1
    <3>2. from[m] = from[k] => m = k
      <4>1. from[m] \in Int /\ from[k] \in Int /\ m \in Int /\ k \in Int
        BY <1>7, <1>11
      <4>2. m < k => from[m] < from[k]
        BY <1>11
      <4>3. k < m => from[k] < from[m]
        BY <1>11
      <4> QED BY <4>1, <4>2, <4>3
    <3> QED BY <3>1, <3>2, <2>2
  <2>4. ASSUME NEW d \in tasks[t].deps PROVE \E m \in 1..(k - 1) : d \in levels[m]
    <3>1. PICK i \in 1..(j - 1) : d \in ids[i]
      BY <2>1
    <3>2. i \in 1..n /\ i < j
      BY <1>1
    <3>3. PICK m \in 1..c : from[m] = i
      BY <3>1, <3>2, <1>13
    <3>4. ~(k <= m)
      <4>1. k < m => from[k] < from[m]
        BY <1>11
      <4>2. k = m => from[k] = from[m]
        OBVIOUS
      <4> QED BY <4>1, <4>2, <3>2, <3>3, <2>2, <1>1, <1>7
    <3>5. m \in 1..(k - 1)
      BY <3>4, <1>7
    <3>6. d \in levels[m]
      BY <3>1, <3>3, <1>11
    <3> QED BY <3>5, <3>6
  <2> QED BY <2>3, <2>4
<1>15. InLevels(tasks, levels)
  BY <1>1, <1>7, <1>14 DEF InLevels
<1>16. ASSUME n # 0 PROVE levels # <<>>
  <2>1. 1 \in 1..n
    BY <1>1, <1>16
  <2>2. PICK k \in 1..c : TRUE
    BY <2>1, <1>14
  <2>3. DOMAIN levels # {}
    BY <1>7
  <2> QED BY <2>3
<1> QED BY <1>15, <1>16 DEF levels

(* A plan of tasks with names of their own, without a cycle, comes to run  *)
(* as a whole: what a layer holds has run when so many rounds are over.    *)
LEMMA AllComeToRun ==
  ASSUME NEW tasks, NEW n, Graph(tasks, n), Closed(tasks), DistinctIds(tasks),
         ~has_cycle(tasks),
         NEW q, Graph(q, n),
         \A i \in 1..n : q[i].id = tasks[i].id /\ q[i].deps = tasks[i].deps
  PROVE  Runnable(q) = 1..n
<1> DEFINE f == Layers(tasks)
           S == SUBSET (1..n)
           more(x) == x \cup ready_task_ids(q, x)
           step == [p \in S \X (1..n) |-> more(p[1])]
           Fills(g) == g = [k \in 0..n |-> IF k = 0 THEN {} ELSE more(g[k - 1])]
           after == CHOOSE g : Fills(g)
<1>1. n \in Nat /\ Len(q) = n /\ DOMAIN q = 1..n /\ Len(tasks) = n /\ DOMAIN tasks = 1..n
  BY DEF Graph
<1>2. \A x \in S : more(x) \in S
  BY <1>1 DEF ready_task_ids
<1>3. {} \in S
  OBVIOUS
<1>4. Runnable(q) = after[n]
  BY <1>1 DEF Runnable
<1> HIDE DEF more
<1>5. Fills(after)
  <2> HIDE DEF S
  <2>1. step \in [S \X (1..n) -> S]
    BY <1>2
  <2>2. \A x \in S, k \in 1..n : step[<<x, k>>] = more(x)
    OBVIOUS
  <2> HIDE DEF step
  <2>3. PICK g : IsTable(g, S, {}, n, step)
    BY <1>1, <1>3, <2>1, TableIsMade
  <2>4. g \in [0..n -> S] /\ g[0] = {} /\ \A k \in 1..n : g[k] = step[<<g[k - 1], k>>]
    BY <2>3 DEF IsTable
  <2>5. ASSUME NEW k \in 1..n PROVE g[k] = more(g[k - 1])
    <3>1. g[k - 1] \in S
      <4>1. k - 1 \in 0..n
        BY <1>1
      <4> QED BY <2>4, <4>1
    <3> QED BY <2>4, <3>1, <2>2
  <2>6. g = [k \in 0..n |-> g[k]]
    BY <2>4
  <2>7. \A k \in 0..n : g[k] = IF k = 0 THEN {} ELSE more(g[k - 1])
    <3>1. \A k \in 0..n : k = 0 \/ k \in 1..n
      BY <1>1
    <3> QED BY <2>4, <2>5, <3>1
  <2>8. Fills(g)
    BY <2>6, <2>7
  <2> HIDE DEF Fills
  <2> QED BY <2>8
<1> HIDE DEF after
<1>6. after[0] = {} /\ \A k \in 1..n : after[k] = more(after[k - 1])
  <2>1. 0 \in 0..n /\ \A k \in 1..n : k \in 0..n /\ k # 0
    BY <1>1
  <2> QED BY <2>1, <1>5
<1>7. IsLayering(f, tasks, n) /\ f[n] = 1..n
  BY <1>1, LayersAre DEF has_cycle
<1> HIDE DEF f, step
<1>8. \A k \in 0..n : after[k] \in S
  <2> DEFINE T == {k \in 0..n : after[k] \in S}
  <2>1. T \in SUBSET (0..n) /\ 0 \in T
    BY <1>1, <1>3, <1>6
  <2>2. ASSUME NEW k \in 1..n, k - 1 \in T PROVE k \in T
    <3>1. after[k] \in S
      BY <2>2, <1>2, <1>6
    <3>2. k \in 0..n
      BY <1>1
    <3> QED BY <3>1, <3>2
  <2>3. T = 0..n
    <3> HIDE DEF T
    <3> QED BY <1>1, <2>1, <2>2, IntervalInduction
  <2> QED BY <2>3
<1>9. DistinctIds(q)
  BY <1>1 DEF DistinctIds
<1>10. ASSUME NEW id, HasTask(tasks, id)
       PROVE  HasTask(q, id) /\ Named(q, id) = Named(tasks, id)
  <2>1. PICK i \in 1..n : tasks[i].id = id
    BY <1>1, <1>10 DEF HasTask
  <2>2. q[i].id = id
    BY <2>1
  <2>3. Named(tasks, id) = i
    BY <2>1, NamedIsTheTask
  <2>4. Named(q, id) = i
    BY <2>2, <1>9, NamedIsTheTask
  <2> QED BY <1>1, <2>2, <2>3, <2>4 DEF HasTask
<1>11. ASSUME NEW k \in 1..n, f[k - 1] \subseteq after[k - 1]
       PROVE  f[k] \subseteq after[k]
  <2>1. SUFFICES ASSUME NEW i \in f[k] PROVE i \in after[k]
    OBVIOUS
  <2>2. i \in 1..n /\ Incoming(tasks, i) \subseteq f[k - 1]
    BY <1>1, <1>7 DEF IsLayering, Unblocked
  <2>3. ASSUME NEW d \in q[i].deps
        PROVE  HasTask(q, d) /\ Named(q, d) \in after[k - 1]
    <3>1. d \in tasks[i].deps /\ HasTask(tasks, d)
      BY <1>1, <2>2 DEF Closed
    <3>2. Named(tasks, d) \in Incoming(tasks, Named(tasks, tasks[i].id))
      BY <2>2, <3>1, DependenciesComeIn
    <3>3. Named(tasks, tasks[i].id) = i
      BY <2>2, NamedIsTheTask
    <3>4. Named(tasks, d) \in after[k - 1]
      BY <1>11, <2>2, <3>2, <3>3
    <3> QED BY <1>10, <3>1, <3>4
  <2>4. i \in more(after[k - 1])
    BY <1>1, <2>2, <2>3 DEF more, ready_task_ids
  <2> QED BY <2>4, <1>6
<1>12. f[n] \subseteq after[n]
  <2> DEFINE T == {k \in 0..n : f[k] \subseteq after[k]}
  <2>1. T \in SUBSET (0..n) /\ 0 \in T
    <3>1. f[0] = {}
      BY <1>7 DEF IsLayering
    <3> QED BY <1>1, <3>1
  <2>2. ASSUME NEW k \in 1..n, k - 1 \in T PROVE k \in T
    <3>1. f[k] \subseteq after[k]
      BY <2>2, <1>11
    <3>2. k \in 0..n
      BY <1>1
    <3> QED BY <3>1, <3>2
  <2>3. T = 0..n
    <3> HIDE DEF T
    <3> QED BY <1>1, <2>1, <2>2, IntervalInduction
  <2>4. n \in T
    <3> HIDE DEF T
    <3> QED BY <1>1, <2>3
  <2> QED BY <2>4
<1>13. after[n] \in S
  <2>1. n \in 0..n
    BY <1>1
  <2> HIDE DEF S
  <2> QED BY <2>1, <1>8
<1> QED BY <1>4, <1>7, <1>12, <1>13

-----------------------------------------------------------------------------
(* materialize_plan                                                        *)

(* A plan of work tasks and of the task that integrates them, within the   *)
(* bounds of the team.                                                     *)
IsBounded(p) ==
  LET n == Len(p.tasks) IN
  /\ DOMAIN p.tasks = 1..n
  /\ n \in 2..(work_cap + 1)
  /\ p.tasks[n].id = INTEGRATION_TASK_SLUG
  /\ p.tasks[n].deps = {p.tasks[t].id : t \in 1..(n - 1)}
  /\ \A t \in 1..n :
       /\ p.tasks[t].role \in RoleNames /\ p.tasks[t].route \in RouteKey
       /\ t # n => p.tasks[t].deps \subseteq {p.tasks[u].id : u \in 1..(n - 1)} \ {p.tasks[t].id}

(* Seeds that fit: no more than the cap, each with a route hinted at.      *)
Fitting(seeds) ==
  /\ Len(seeds) \in 0..work_cap /\ seeds = [i \in 1..Len(seeds) |-> seeds[i]]
  /\ \A i \in 1..Len(seeds) : seeds[i].hinted_route \in RouteKey

(* Seeds named by their number that wait for nothing.                      *)
NumberedSeeds(seeds) ==
  \A i \in 1..Len(seeds) : seeds[i].id = Numbered(i) /\ seeds[i].deps = {}

(* There is room for a task beside the integration.                        *)
LEMMA CapType == work_cap \in Nat \ {0}
BY PlannerAssumption DEF work_cap

(* The tasks made of seeds are those of the work and the integration.      *)
WorkOf(seeds) == [i \in DOMAIN seeds |-> TaskFrom(seeds, i)]
TasksOf(seeds, strict) ==
  Append(WorkOf(seeds), IntegrationTask(WorkOf(seeds), strict))

LEMMA TasksAre ==
  ASSUME NEW seeds, Fitting(seeds), NEW strict \in BOOLEAN
  PROVE  /\ Len(seeds) \in Nat
         /\ Len(WorkOf(seeds)) = Len(seeds) /\ DOMAIN WorkOf(seeds) = 1..Len(seeds)
         /\ Graph(TasksOf(seeds, strict), Len(seeds) + 1)
         /\ \A i \in 1..Len(seeds) :
              /\ WorkOf(seeds)[i] = TaskFrom(seeds, i)
              /\ TasksOf(seeds, strict)[i] = TaskFrom(seeds, i)
         /\ TasksOf(seeds, strict)[Len(seeds) + 1] = IntegrationTask(WorkOf(seeds), strict)
<1> DEFINE n == Len(seeds)
           work == WorkOf(seeds)
           last == IntegrationTask(work, strict)
           W == {work[i] : i \in 1..n} \cup {last}
           tasks == TasksOf(seeds, strict)
<1>1. n \in Nat /\ DOMAIN seeds = 1..n
  BY CapType DEF Fitting
<1>2. tasks = Append(work, last)
  BY DEF TasksOf
<1>3. /\ Len(work) = n /\ DOMAIN work = 1..n /\ work = [i \in 1..n |-> work[i]]
      /\ \A i \in 1..n : work[i] = TaskFrom(seeds, i)
  <2>1. work = [i \in 1..n |-> TaskFrom(seeds, i)]
    BY <1>1 DEF WorkOf
  <2> HIDE DEF work, n
  <2>2. work = [i \in 1..n |-> work[i]]
    BY <2>1
  <2> QED BY <1>1, <2>1, <2>2, ValuesType
<1> HIDE DEF last, tasks, work, n
<1>4. work \in Seq(W)
  <2>1. \A i \in 1..n : work[i] \in W
    OBVIOUS
  <2> HIDE DEF W
  <2>2. work \in [1..n -> W]
    BY <1>3, <2>1
  <2> QED BY <2>2, <1>1
<1>5. last \in W
  OBVIOUS
<1> HIDE DEF W
<1>6. /\ tasks \in Seq(W) /\ Len(tasks) = Len(work) + 1
      /\ \A i \in 1..Len(work) : tasks[i] = work[i]
      /\ tasks[Len(work) + 1] = last
  BY <1>2, <1>4, <1>5, AppendProperties
<1>7. DOMAIN tasks = 1..(n + 1) /\ Len(tasks) = n + 1 /\ n + 1 \in Nat
  BY <1>1, <1>3, <1>6
<1>8. \A i \in 1..n : tasks[i] = TaskFrom(seeds, i)
  BY <1>3, <1>6
<1>9. tasks[n + 1] = last
  BY <1>3, <1>6
<1>10. Graph(tasks, n + 1)
  BY <1>7 DEF Graph
<1> QED BY <1>1, <1>3, <1>8, <1>9, <1>10 DEF tasks, last, work, n

(* The plan has these tasks, and the levels of their graph.                *)
IsPlanOf(p, tasks) ==
  /\ DOMAIN p.tasks = DOMAIN tasks /\ p.tasks = [i \in DOMAIN tasks |-> p.tasks[i]]
  /\ \A i \in DOMAIN tasks :
       /\ p.tasks[i].id = tasks[i].id /\ p.tasks[i].deps = tasks[i].deps
       /\ p.tasks[i].role = tasks[i].role /\ p.tasks[i].route = tasks[i].route
       /\ p.tasks[i].depth = DepthIn(topological_levels(tasks), tasks[i].id)
  /\ p.parallelizable_groups = topological_levels(tasks)

LEMMA MaterializedTasks ==
  ASSUME NEW seeds, NEW strict
  PROVE  IsPlanOf(materialize_plan(seeds, strict), TasksOf(seeds, strict))
<1> DEFINE tasks == TasksOf(seeds, strict)
<1>1. materialize_plan(seeds, strict) = WithDepths(tasks)
  BY DEF materialize_plan, TasksOf, WorkOf
<1> HIDE DEF tasks
<1>2. IsPlanOf(WithDepths(tasks), tasks)
  BY DEF WithDepths, IsPlanOf
<1> QED BY <1>1, <1>2 DEF tasks

(* What is made of seeds that fit is a bounded plan.                       *)
LEMMA MaterializedIsBounded ==
  ASSUME NEW seeds, Fitting(seeds), Len(seeds) # 0, NEW strict \in BOOLEAN
  PROVE  IsBounded(materialize_plan(seeds, strict))
<1> DEFINE n == Len(seeds)
           work == [i \in DOMAIN seeds |-> TaskFrom(seeds, i)]
           last == IntegrationTask(work, strict)
           tasks == Append(work, last)
           levels == topological_levels(tasks)
           p == WithDepths(tasks)
<1>1. n \in Nat \ {0} /\ n <= work_cap /\ DOMAIN seeds = 1..n
  BY CapType DEF Fitting
<1>2. work = [i \in 1..n |-> TaskFrom(seeds, i)]
  BY <1>1
<1>3. work = WorkOf(seeds) /\ tasks = TasksOf(seeds, strict)
  BY DEF WorkOf, TasksOf
<1>4. /\ Len(work) = n /\ DOMAIN work = 1..n
      /\ Len(tasks) = n + 1 /\ DOMAIN tasks = 1..(n + 1)
      /\ \A i \in 1..n : tasks[i] = TaskFrom(seeds, i)
      /\ tasks[n + 1] = last
  <2>1. last = IntegrationTask(work, strict) /\ n = Len(seeds)
    OBVIOUS
  <2> HIDE DEF tasks, work, last, n
  <2> QED BY <1>3, <2>1, TasksAre DEF Graph
<1>5. materialize_plan(seeds, strict) = p
  BY DEF materialize_plan
<1>6. ASSUME NEW i \in 1..n
      PROVE  /\ TaskFrom(seeds, i).role \in RoleNames
             /\ TaskFrom(seeds, i).route \in RouteKey
             /\ TaskFrom(seeds, i).deps \subseteq
                  {TaskFrom(seeds, k).id : k \in 1..n} \ {TaskFrom(seeds, i).id}
  <2> DEFINE id(k) == sanitize_task_id(seeds[k].id, k)
             role == resolve_candidate_role(seeds[i].role, seeds[i].hinted_role, i)
  <2>1. role \in RoleNames
    BY <1>1, RoleIsUsable
  <2>2. seeds[i].hinted_route \in RouteKey
    BY DEF Fitting
  <2> HIDE DEF role
  <2>3. resolve_task_route_key(role, seeds[i].route, seeds[i].hinted_route) \in RouteKey
    BY <2>1, <2>2, RouteIsKnown
  <2>4. \A k \in 1..n : TaskFrom(seeds, k).id = id(k)
    BY DEF TaskFrom
  <2>5. TaskFrom(seeds, i).deps =
          ({sanitize_dependency_id(d) : d \in seeds[i].deps} \ {"", id(i)})
             \cap {id(k) : k \in 1..n}
    BY <1>1 DEF TaskFrom
  <2>6. TaskFrom(seeds, i).role = role
        /\ TaskFrom(seeds, i).route
             = resolve_task_route_key(role, seeds[i].route, seeds[i].hinted_route)
    BY DEF TaskFrom, role
  <2> HIDE DEF id
  <2>7. TaskFrom(seeds, i).deps \subseteq
          {TaskFrom(seeds, k).id : k \in 1..n} \ {TaskFrom(seeds, i).id}
    BY <2>4, <2>5
  <2> QED BY <2>1, <2>3, <2>6, <2>7
<1>7. /\ last.id = INTEGRATION_TASK_SLUG
      /\ last.deps = {TaskFrom(seeds, i).id : i \in 1..n}
      /\ last.role \in RoleNames /\ last.route \in RouteKey
  <2> DEFINE role == resolve_candidate_role("integrator", "integrator", Len(work) + 1)
             asked == IF strict THEN "integrator_complex" ELSE "fast_text"
  <2>1. role \in RoleNames
    <3> HIDE DEF work
    <3>1. Len(work) + 1 \in Nat \ {0}
      BY <1>1, <1>4
    <3> QED BY <3>1, RoleIsUsable
  <2>2. "reasoning" \in RouteKey
    BY DEF RouteKey
  <2>3. \A i \in 1..n : work[i].id = TaskFrom(seeds, i).id
    BY <1>2
  <2>4. last.deps = {work[i].id : i \in DOMAIN work} /\ last.id = INTEGRATION_TASK_SLUG
        /\ last.role = role /\ last.route = resolve_task_route_key(role, asked, "reasoning")
    BY DEF IntegrationTask
  <2> HIDE DEF work, last, role, asked
  <2>5. resolve_task_route_key(role, asked, "reasoning") \in RouteKey
    BY <2>1, <2>2, RouteIsKnown
  <2>6. last.deps = {TaskFrom(seeds, i).id : i \in 1..n}
    BY <1>4, <2>3, <2>4
  <2> QED BY <2>1, <2>4, <2>5, <2>6
<1>8. /\ p.tasks = [i \in 1..(n + 1) |-> p.tasks[i]]
      /\ \A i \in 1..(n + 1) :
           /\ p.tasks[i].id = tasks[i].id /\ p.tasks[i].deps = tasks[i].deps
           /\ p.tasks[i].role = tasks[i].role /\ p.tasks[i].route = tasks[i].route
           /\ p.tasks[i].depth = DepthIn(levels, tasks[i].id)
  <2>1. IsPlanOf(materialize_plan(seeds, strict), TasksOf(seeds, strict))
    BY MaterializedTasks
  <2> HIDE DEF tasks, p
  <2>2. IsPlanOf(p, tasks)
    BY <1>3, <1>5, <2>1
  <2> QED BY <1>4, <2>2 DEF IsPlanOf
<1>10. Len(p.tasks) = n + 1
  <2> HIDE DEF p, n
  <2>1. n + 1 \in Nat
    BY <1>1
  <2> QED BY <2>1, <1>8, ValuesType
<1>11. DOMAIN p.tasks = 1..(n + 1)
  <2> HIDE DEF p, n
  <2> QED BY <1>8
<1> HIDE DEF n, work, last, tasks, levels, p
<1>12. /\ n + 1 \in 2..(work_cap + 1) /\ n + 1 \in 1..(n + 1) /\ (n + 1) - 1 = n
       /\ \A i \in 1..(n + 1) : i # n + 1 => i \in 1..n
       /\ 1..n \subseteq 1..(n + 1)
  BY <1>1, CapType
<1>13. /\ p.tasks[n + 1].id = INTEGRATION_TASK_SLUG
       /\ p.tasks[n + 1].role \in RoleNames /\ p.tasks[n + 1].route \in RouteKey
       /\ p.tasks[n + 1].deps = {TaskFrom(seeds, i).id : i \in 1..n}
  BY <1>4, <1>7, <1>8, <1>12
<1>14. ASSUME NEW i \in 1..n
       PROVE  /\ p.tasks[i].id = TaskFrom(seeds, i).id
              /\ p.tasks[i].role \in RoleNames /\ p.tasks[i].route \in RouteKey
              /\ p.tasks[i].deps = TaskFrom(seeds, i).deps
  <2>1. i \in 1..(n + 1) /\ tasks[i] = TaskFrom(seeds, i)
    BY <1>4, <1>12
  <2>2. /\ p.tasks[i].id = tasks[i].id /\ p.tasks[i].deps = tasks[i].deps
        /\ p.tasks[i].role = tasks[i].role /\ p.tasks[i].route = tasks[i].route
    BY <1>8, <2>1
  <2> QED BY <1>6, <2>1, <2>2
<1>15. {p.tasks[i].id : i \in 1..n} = {TaskFrom(seeds, i).id : i \in 1..n}
  BY <1>14
<1>16. \A i \in 1..n : p.tasks[i].deps \subseteq {p.tasks[k].id : k \in 1..n} \ {p.tasks[i].id}
  BY <1>6, <1>14, <1>15
<1>17. IsBounded(p)
  BY <1>10, <1>11, <1>12, <1>13, <1>14, <1>15, <1>16 DEF IsBounded
<1> QED BY <1>5, <1>17

-----------------------------------------------------------------------------
(* The seeds of a request and of a contract                                *)

(* What is cut to the cap fits, if it is a sequence of seeds with routes.  *)
LEMMA TruncatedFits ==
  ASSUME NEW n \in Nat, NEW s, s = [i \in 1..n |-> s[i]]
  PROVE  /\ Len(Truncated(s)) \in 0..work_cap /\ Len(Truncated(s)) <= n
         /\ (n # 0 => Len(Truncated(s)) # 0)
         /\ Truncated(s) = [i \in 1..Len(Truncated(s)) |-> Truncated(s)[i]]
         /\ \A i \in 1..Len(Truncated(s)) : Truncated(s)[i] = s[i]
<1> DEFINE V == {s[i] : i \in 1..n}
           m == Least(n, work_cap)
           t == SubSeq(s, 1, m)
<1>1. s \in Seq(V) /\ Len(s) = n
  BY ValuesType
<1>2. Truncated(s) = t
  BY <1>1 DEF Truncated
<1>3. m \in 0..work_cap /\ m <= n /\ (n # 0 => m # 0)
  BY CapType DEF Least
<1>4. \A i \in 1..m : s[i] \in V
  BY <1>3
<1> HIDE DEF V, m
<1>5. m \in Int
  BY <1>3, CapType
<1>6. /\ t \in Seq(V) /\ Len(t) = IF 1 <= m THEN m - 1 + 1 ELSE 0
      /\ \A i \in 1..(m - 1 + 1) : t[i] = s[1 + i - 1]
  <2>1. /\ SubSeq(s, 1, m) \in Seq(V)
        /\ Len(SubSeq(s, 1, m)) = IF 1 <= m THEN m - 1 + 1 ELSE 0
    BY <1>4, <1>5, SubSeqProperties
  <2>2. \A i \in 1..(m - 1 + 1) : SubSeq(s, 1, m)[i] = s[1 + i - 1]
    BY <1>4, <1>5, SubSeqProperties
  <2> QED BY <2>1, <2>2
<1> HIDE DEF t
<1>7. Len(t) = m
  BY <1>3, <1>6, CapType
<1>8. \A i \in 1..m : t[i] = s[i]
  <2>1. \A i \in 1..m : i \in 1..(m - 1 + 1) /\ 1 + i - 1 = i
    BY <1>3, CapType
  <2> QED BY <1>6, <2>1
<1>9. t = [i \in 1..Len(t) |-> t[i]]
  BY <1>6
<1> QED BY <1>2, <1>3, <1>7, <1>8, <1>9

(* One more seed fits below the cap.                                       *)
LEMMA AppendFits ==
  ASSUME NEW seeds, Fitting(seeds), Len(seeds) < work_cap,
         NEW seed, seed.hinted_route \in RouteKey
  PROVE  /\ Fitting(Append(seeds, seed))
         /\ NumberedSeeds(seeds) /\ seed.id = Numbered(Len(seeds) + 1) /\ seed.deps = {}
              => NumberedSeeds(Append(seeds, seed))
<1> DEFINE n == Len(seeds)
           V == {seeds[i] : i \in 1..n} \cup {seed}
           t == Append(seeds, seed)
<1>1. n \in Nat /\ n + 1 \in 0..work_cap /\ seeds = [i \in 1..n |-> seeds[i]]
  BY CapType DEF Fitting
<1>2. \A i \in 1..n : seeds[i] \in V
  OBVIOUS
<1>3. seed \in V
  OBVIOUS
<1> HIDE DEF V, n
<1>4. seeds \in [1..n -> V]
  BY <1>1, <1>2
<1>5. seeds \in Seq(V)
  BY <1>1, <1>4
<1>6. /\ t \in Seq(V) /\ Len(t) = Len(seeds) + 1
      /\ \A i \in 1..Len(seeds) : t[i] = seeds[i]
      /\ t[Len(seeds) + 1] = seed
  BY <1>3, <1>5, AppendProperties
<1> HIDE DEF t
<1>7. t = [i \in 1..Len(t) |-> t[i]]
  BY <1>6
<1>8. \A i \in 1..n : seeds[i].hinted_route \in RouteKey
  BY DEF Fitting, n
<1>9. \A i \in 1..Len(t) : t[i].hinted_route \in RouteKey
  <2>1. \A i \in 1..Len(t) : i \in 1..n \/ i = n + 1
    BY <1>1, <1>6 DEF n
  <2>2. t[n + 1] = seed /\ \A i \in 1..n : t[i] = seeds[i]
    BY <1>6 DEF n
  <2> QED BY <1>8, <2>1, <2>2
<1>10. Len(t) \in 0..work_cap
  BY <1>1, <1>6 DEF n
<1>11. ASSUME NumberedSeeds(seeds), seed.id = Numbered(Len(seeds) + 1), seed.deps = {}
       PROVE  NumberedSeeds(t)
  <2>1. \A i \in 1..Len(t) : i \in 1..Len(seeds) \/ i = Len(seeds) + 1
    BY <1>1, <1>6 DEF n
  <2>2. \A i \in 1..Len(seeds) : t[i].id = Numbered(i) /\ t[i].deps = {}
    BY <1>6, <1>11 DEF NumberedSeeds
  <2> QED BY <2>1, <2>2, <1>6, <1>11 DEF NumberedSeeds
<1> QED BY <1>7, <1>9, <1>10, <1>11 DEF Fitting, t

(* A sequence with an element more is not empty.                           *)
LEMMA AppendIsLonger ==
  ASSUME NEW seeds, Fitting(seeds), NEW seed
  PROVE  Len(Append(seeds, seed)) # 0
<1> DEFINE n == Len(seeds)
           V == {seeds[i] : i \in 1..n} \cup {seed}
<1>1. n \in Nat /\ seeds = [i \in 1..n |-> seeds[i]]
  BY CapType DEF Fitting
<1>2. (\A i \in 1..n : seeds[i] \in V) /\ seed \in V
  OBVIOUS
<1> HIDE DEF V, n
<1>3. seeds \in [1..n -> V]
  BY <1>1, <1>2
<1>4. seeds \in Seq(V) /\ Len(seeds) \in Nat
  BY <1>1, <1>3
<1>5. Len(Append(seeds, seed)) = Len(seeds) + 1
  BY <1>2, <1>4, AppendProperties
<1> QED BY <1>4, <1>5

(* A list of seeds made one for each element fits if the list does.        *)
LEMMA ListFits ==
  ASSUME NEW n \in 0..work_cap, NEW s, s = [i \in 1..n |-> s[i]],
         \A i \in 1..n : s[i].hinted_route \in RouteKey
  PROVE  /\ Fitting(s) /\ Len(s) = n /\ (s # <<>> => n # 0)
         /\ (\A i \in 1..n : s[i].id = Numbered(i) /\ s[i].deps = {}) => NumberedSeeds(s)
<1>1. n \in Nat
  BY CapType
<1>2. Len(s) = n /\ (s # <<>> => n # 0)
  BY <1>1, ValuesType
<1> QED BY <1>2 DEF Fitting, NumberedSeeds

(* A seed hints at one route, and has the name and the dependencies given. *)
LEMMA SeedRoute ==
  /\ \A id, deps, role, route :
       /\ Seed(id, deps, role, route).hinted_route = "fast_text"
       /\ Seed(id, deps, role, route).id = id /\ Seed(id, deps, role, route).deps = deps
  /\ "fast_text" \in RouteKey
BY DEF Seed, RouteKey

(* The parts of a request fit,                                             *)
LEMMA SplitFits ==
  ASSUME NEW goal \in Request
  PROVE  /\ Fitting(split_goal(goal)) /\ Len(split_goal(goal)) # 0
         /\ NumberedSeeds(split_goal(goal))
<1> DEFINE n == Least(goal.parts, work_cap)
           s == split_goal(goal)
<1>1. goal.parts \in Nat \ {0}
  BY DEF Request
<1>2. n \in 0..work_cap /\ n # 0
  BY <1>1, CapType DEF Least
<1>3. /\ s = [i \in 1..n |-> s[i]] /\ \A i \in 1..n : s[i].hinted_route \in RouteKey
      /\ \A i \in 1..n : s[i].id = Numbered(i) /\ s[i].deps = {}
  BY SeedRoute DEF split_goal
<1> HIDE DEF s, n
<1> QED BY <1>2, <1>3, ListFits DEF s

(* The seed of a track hints at a route, and waits for nothing.            *)
LEMMA TrackRoute ==
  ASSUME NEW i, NEW covers, NEW grouped
  PROVE  /\ TrackSeed(i, covers, grouped).hinted_route \in RouteKey
         /\ TrackSeed(i, covers, grouped).id = Numbered(i)
         /\ TrackSeed(i, covers, grouped).deps = {}
BY SeedRoute DEF TrackSeed

(* The tracks of a comparison come in a sequence.                          *)
LEMMA TracksAreAList ==
  ASSUME NEW goal \in Request
  PROVE  \E n \in Nat : ComparisonTracks(goal) = [i \in 1..n |-> ComparisonTracks(goal)[i]]
<1> DEFINE matched == goal.criteria
           covers(s) == [i \in DOMAIN s |-> s[i] \cap matched]
           singles == [i \in DOMAIN CriteriaInOrder |-> {CriteriaInOrder[i]}]
           tracks == covers(IF Cardinality(matched) >= 5 THEN Groups ELSE singles)
           at == {i \in DOMAIN tracks : tracks[i] # {}}
<1>1. DOMAIN Groups = 1..3 /\ DOMAIN CriteriaInOrder = 1..8
  BY DEF Groups, CriteriaInOrder
<1>2. DOMAIN tracks = 1..3 \/ DOMAIN tracks = 1..8
  BY <1>1
<1>3. at \subseteq DOMAIN tracks
  <2> HIDE DEF tracks
  <2> QED OBVIOUS
<1>4. ComparisonTracks(goal) = Subsequence(tracks, at)
  BY DEF ComparisonTracks
<1> HIDE DEF tracks, at
<1>5. PICK n \in Nat : at \subseteq 1..n
  <2>1. 3 \in Nat /\ 8 \in Nat
    OBVIOUS
  <2> QED BY <1>2, <1>3, <2>1
<1> QED BY <1>4, <1>5, SubsequenceIsAFunction

(* the tracks of a comparison fit, and the verifier with them,             *)
LEMMA ComparisonFits ==
  ASSUME NEW goal \in Request
  PROVE  /\ Fitting(build_comparison_seeds(goal))
         /\ build_comparison_seeds(goal) # <<>> => Len(build_comparison_seeds(goal)) # 0
         /\ NumberedSeeds(build_comparison_seeds(goal))
<1> DEFINE tracks == Truncated(ComparisonTracks(goal))
           many == Cardinality(goal.criteria) >= 5
           seeds == [i \in DOMAIN tracks |-> TrackSeed(i, tracks[i], many)]
           extra == [Seed(Numbered(Len(seeds) + 1), {}, "verifier", "reasoning")
                       EXCEPT !.hinted_role = "implementer"]
           n == Len(tracks)
<1>1. n \in 0..work_cap /\ tracks = [i \in 1..n |-> tracks[i]]
  <2>1. PICK m \in Nat : ComparisonTracks(goal) = [i \in 1..m |-> ComparisonTracks(goal)[i]]
    BY TracksAreAList
  <2> QED BY <2>1, TruncatedFits
<1>2. seeds = [i \in 1..n |-> TrackSeed(i, tracks[i], many)]
  <2> HIDE DEF tracks
  <2> QED BY <1>1
<1>3. /\ seeds = [i \in 1..n |-> seeds[i]] /\ \A i \in 1..n : seeds[i].hinted_route \in RouteKey
      /\ \A i \in 1..n : seeds[i].id = Numbered(i) /\ seeds[i].deps = {}
  <2> HIDE DEF seeds, n, tracks, many
  <2> QED BY <1>2, TrackRoute
<1>4. Fitting(seeds) /\ Len(seeds) = n /\ (seeds # <<>> => n # 0) /\ NumberedSeeds(seeds)
  <2> HIDE DEF seeds, n
  <2> QED BY <1>1, <1>3, ListFits
<1>5. /\ extra.hinted_route \in RouteKey
      /\ extra.id = Numbered(Len(seeds) + 1) /\ extra.deps = {}
  <2> HIDE DEF seeds
  <2> QED BY SeedRoute DEF Seed
<1>6. \/ build_comparison_seeds(goal) = <<>>
      \/ build_comparison_seeds(goal) = seeds
      \/ Len(seeds) < work_cap /\ build_comparison_seeds(goal) = Append(seeds, extra)
  BY DEF build_comparison_seeds
<1> HIDE DEF seeds, extra, n
<1>7. CASE build_comparison_seeds(goal) = <<>>
  <2>1. Len(<<>>) = 0 /\ <<>> = [i \in 1..0 |-> <<>>[i]] /\ 0 \in 0..work_cap
    BY CapType
  <2>2. 1..0 = {}
    OBVIOUS
  <2> QED BY <1>7, <2>1, <2>2 DEF Fitting, NumberedSeeds
<1>8. CASE build_comparison_seeds(goal) = seeds
  BY <1>4, <1>8
<1>9. CASE Len(seeds) < work_cap /\ build_comparison_seeds(goal) = Append(seeds, extra)
  <2>1. Fitting(Append(seeds, extra)) /\ NumberedSeeds(Append(seeds, extra))
    BY <1>4, <1>5, <1>9, AppendFits
  <2>2. Len(Append(seeds, extra)) # 0
    BY <1>4, AppendIsLonger
  <2> QED BY <1>9, <2>1, <2>2
<1> QED BY <1>6, <1>7, <1>8, <1>9

(* and so do the axes of an analysis.                                      *)
LEMMA StructuredFits ==
  ASSUME NEW goal \in Request
  PROVE  /\ Fitting(build_structured_analysis_seeds(goal))
         /\ build_structured_analysis_seeds(goal) # <<>>
              => Len(build_structured_analysis_seeds(goal)) # 0
         /\ NumberedSeeds(build_structured_analysis_seeds(goal))
<1> DEFINE at == {i \in DOMAIN Axes : Axes[i] \in goal.axes}
           asked == Subsequence(Axes, at)
           axes == Truncated(asked)
           axisSeed(i) == Seed(Numbered(i), {}, AxisRole[axes[i]],
                            IF axes[i] = "executive_positioning" THEN "reviewer_strict"
                            ELSE "reasoning")
           seeds == [i \in DOMAIN axes |-> axisSeed(i)]
           extra == Seed(Numbered(Len(seeds) + 1), {}, "verifier", "reasoning")
           n == Len(axes)
<1>1. n \in 0..work_cap /\ axes = [i \in 1..n |-> axes[i]]
  <2>1. at \in SUBSET (1..4)
    BY DEF Axes
  <2> HIDE DEF at
  <2>2. Cardinality(at) \in Nat /\ asked = [i \in 1..Cardinality(at) |-> asked[i]]
    BY <2>1, SubsequenceIsAFunction
  <2> HIDE DEF asked
  <2> QED BY <2>2, TruncatedFits
<1>2. seeds = [i \in 1..n |-> axisSeed(i)]
  <2> HIDE DEF axes
  <2> QED BY <1>1
<1>3. \A i \in 1..n : /\ axisSeed(i).hinted_route \in RouteKey
                     /\ axisSeed(i).id = Numbered(i) /\ axisSeed(i).deps = {}
  <2> HIDE DEF axes
  <2> QED BY SeedRoute
<1>4. /\ seeds = [i \in 1..n |-> seeds[i]] /\ \A i \in 1..n : seeds[i].hinted_route \in RouteKey
      /\ \A i \in 1..n : seeds[i].id = Numbered(i) /\ seeds[i].deps = {}
  <2> HIDE DEF seeds, n, axisSeed
  <2> QED BY <1>2, <1>3
<1>5. Fitting(seeds) /\ Len(seeds) = n /\ (seeds # <<>> => n # 0) /\ NumberedSeeds(seeds)
  <2> HIDE DEF seeds, n
  <2> QED BY <1>1, <1>4, ListFits
<1>6. /\ extra.hinted_route \in RouteKey
      /\ extra.id = Numbered(Len(seeds) + 1) /\ extra.deps = {}
  <2> HIDE DEF seeds
  <2> QED BY SeedRoute
<1>7. \/ build_structured_analysis_seeds(goal) = seeds
      \/ Len(seeds) < work_cap /\ build_structured_analysis_seeds(goal) = Append(seeds, extra)
  BY DEF build_structured_analysis_seeds
<1> HIDE DEF seeds, extra, n
<1>8. CASE build_structured_analysis_seeds(goal) = seeds
  BY <1>5, <1>8
<1>9. CASE Len(seeds) < work_cap /\ build_structured_analysis_seeds(goal) = Append(seeds, extra)
  <2>1. Fitting(Append(seeds, extra)) /\ NumberedSeeds(Append(seeds, extra))
    BY <1>5, <1>6, <1>9, AppendFits
  <2>2. Len(Append(seeds, extra)) # 0
    BY <1>5, AppendIsLonger
  <2> QED BY <1>9, <2>1, <2>2
<1> QED BY <1>7, <1>8, <1>9

(* The request alone always gives work, and no more than fits.             *)
LEMMA LocalSeedsFit ==
  ASSUME NEW goal \in Request
  PROVE  /\ Fitting(LocalSeeds(goal)) /\ Len(LocalSeeds(goal)) # 0
         /\ NumberedSeeds(LocalSeeds(goal))
BY ComparisonFits, StructuredFits, SplitFits DEF LocalSeeds

(* Every plan made of a request is bounded.                                *)
THEOREM InitialPlanIsBounded ==
  ASSUME NEW goal \in Request
  PROVE  IsBounded(build_initial_plan(goal))
<1>1. goal.strict \in BOOLEAN
  BY DEF Request
<1> QED BY <1>1, LocalSeedsFit, MaterializedIsBounded DEF build_initial_plan

(* What a contract describes fits, once it is cut to the cap.              *)
LEMMA ContractSeedsFit ==
  ASSUME NEW contract \in Seq(TaskSeed)
  PROVE  /\ Fitting(Truncated(Described(contract)))
         /\ Truncated(Described(contract)) # <<>> => Len(Truncated(Described(contract))) # 0
<1> DEFINE at == {i \in DOMAIN contract :
                    contract[i].described /\ ~is_integration_task_id(contract[i].id)}
           kept == Described(contract)
           seeds == Truncated(kept)
           n == Len(kept)
<1>1. kept \in Seq(TaskSeed)
  <2>1. at \in SUBSET DOMAIN contract
    OBVIOUS
  <2>2. kept = Subsequence(contract, at)
    BY DEF Described
  <2> HIDE DEF at, kept
  <2> QED BY <2>1, <2>2, SubsequenceType
<1>2. n \in Nat /\ kept = [i \in 1..n |-> kept[i]] /\ \A i \in 1..n : kept[i] \in TaskSeed
  <2> HIDE DEF kept
  <2> QED BY <1>1, ElementOfSeq, LenProperties
<1>3. /\ Len(seeds) \in 0..work_cap /\ Len(seeds) <= n
      /\ seeds = [i \in 1..Len(seeds) |-> seeds[i]]
      /\ \A i \in 1..Len(seeds) : seeds[i] = kept[i]
  <2> HIDE DEF kept
  <2> QED BY <1>2, TruncatedFits
<1>4. Fitting(seeds)
  <2> HIDE DEF kept, seeds
  <2>1. \A i \in 1..Len(seeds) : i \in 1..n
    BY <1>2, <1>3, CapType
  <2>2. \A i \in 1..n : kept[i].hinted_route \in RouteKey
    BY <1>2 DEF TaskSeed
  <2> QED BY <1>3, <2>1, <2>2 DEF Fitting
<1>5. seeds # <<>> => Len(seeds) # 0
  <2> HIDE DEF kept, seeds
  <2>1. Len(seeds) \in Nat
    BY <1>3, CapType
  <2> QED BY <1>3, <2>1, ValuesType
<1> QED BY <1>4, <1>5

(* And so is every plan made of a contract, whatever a model put into it.  *)
THEOREM ContractPlanIsBounded ==
  ASSUME NEW goal \in Request, NEW contract \in Seq(TaskSeed)
  PROVE  IsBounded(build_plan_from_contract(goal, contract))
<1> DEFINE seeds == Truncated(Described(contract))
<1>1. goal.strict \in BOOLEAN
  BY DEF Request
<1>2. Fitting(seeds) /\ (seeds # <<>> => Len(seeds) # 0)
  BY ContractSeedsFit
<1>3. build_plan_from_contract(goal, contract) =
        IF seeds = <<>> THEN build_initial_plan(goal) ELSE materialize_plan(seeds, goal.strict)
  BY DEF build_plan_from_contract
<1> HIDE DEF seeds
<1> QED BY <1>1, <1>2, <1>3, InitialPlanIsBounded, MaterializedIsBounded

-----------------------------------------------------------------------------
(* The order of the work                                                   *)

(* The levels a plan is shown with are an order of its tasks; if there are *)
(* any, and no two tasks have one name, all of them come to run.           *)
IsSound(p) ==
  /\ p.parallelizable_groups # <<>> => InLevels(p.tasks, p.parallelizable_groups)
  /\ p.parallelizable_groups # <<>> /\ DistinctIds(p.tasks) => Runnable(p.tasks) = DOMAIN p.tasks

(* There are levels, and names for all.                                    *)
HasLevels(p) == p.parallelizable_groups # <<>> /\ DistinctIds(p.tasks)

(* What a plan is bounded by is what its graph is closed by.               *)
LEMMA BoundedIsClosed ==
  ASSUME NEW p, IsBounded(p)
  PROVE  Graph(p.tasks, Len(p.tasks)) /\ Closed(p.tasks)
<1> DEFINE n == Len(p.tasks)
<1>1. n \in 2..(work_cap + 1) /\ DOMAIN p.tasks = 1..n
  BY DEF IsBounded
<1>2. n \in Nat /\ \A u \in 1..(n - 1) : u \in 1..n
  BY <1>1, CapType
<1>3. /\ p.tasks[n].deps = {p.tasks[t].id : t \in 1..(n - 1)}
      /\ \A t \in 1..n : t # n => p.tasks[t].deps \subseteq {p.tasks[u].id : u \in 1..(n - 1)}
  BY DEF IsBounded
<1> HIDE DEF n
<1>4. ASSUME NEW t \in 1..n, NEW d \in p.tasks[t].deps PROVE \E u \in 1..n : p.tasks[u].id = d
  <2>1. p.tasks[t].deps \subseteq {p.tasks[u].id : u \in 1..(n - 1)}
    BY <1>3
  <2>2. PICK u \in 1..(n - 1) : p.tasks[u].id = d
    BY <2>1
  <2> QED BY <2>2, <1>2
<1> QED BY <1>1, <1>2, <1>4 DEF Graph, Closed, HasTask, n

(* What is made of seeds that fit is sound.                                *)
LEMMA MaterializedIsSound ==
  ASSUME NEW seeds, Fitting(seeds), Len(seeds) # 0, NEW strict \in BOOLEAN
  PROVE  IsSound(materialize_plan(seeds, strict))
<1> DEFINE tasks == TasksOf(seeds, strict)
           p == materialize_plan(seeds, strict)
           n == Len(p.tasks)
           levels == topological_levels(tasks)
<1>1. Graph(p.tasks, n) /\ Closed(p.tasks)
  BY MaterializedIsBounded, BoundedIsClosed
<1>2. /\ DOMAIN p.tasks = DOMAIN tasks
      /\ \A i \in DOMAIN tasks : p.tasks[i].id = tasks[i].id /\ p.tasks[i].deps = tasks[i].deps
      /\ p.parallelizable_groups = levels
  <2>1. IsPlanOf(p, tasks)
    BY MaterializedTasks
  <2> HIDE DEF tasks, p
  <2> QED BY <2>1 DEF IsPlanOf
<1>3. Graph(tasks, Len(seeds) + 1) /\ Len(seeds) \in Nat
  BY TasksAre
<1> HIDE DEF tasks, p, n
<1>4. n = Len(seeds) + 1
  <2>1. 1..n = 1..(Len(seeds) + 1) /\ n \in Nat
    BY <1>1, <1>2, <1>3 DEF Graph
  <2>2. Len(seeds) + 1 \in 1..n /\ n \in 1..(Len(seeds) + 1)
    BY <2>1, <1>3
  <2> QED BY <2>1, <2>2, <1>3
<1>5. Graph(tasks, n)
  BY <1>3, <1>4
<1>6. DOMAIN tasks = 1..n /\ DOMAIN p.tasks = 1..n
  BY <1>1, <1>5 DEF Graph
<1>7. \A d : HasTask(p.tasks, d) <=> HasTask(tasks, d)
  BY <1>2, <1>6 DEF HasTask
<1>8. Closed(tasks)
  BY <1>1, <1>2, <1>6, <1>7 DEF Closed
<1>9. has_cycle(tasks) => levels = <<>>
  BY DEF topological_levels
<1> HIDE DEF levels
<1>10. ASSUME levels # <<>> PROVE InLevels(p.tasks, levels)
  <2>1. InLevels(tasks, levels)
    BY <1>5, <1>8, <1>9, <1>10, LevelsAreInOrder DEF levels
  <2> QED BY <2>1, <1>2, <1>6 DEF InLevels
<1>11. ASSUME levels # <<>>, DistinctIds(p.tasks) PROVE Runnable(p.tasks) = 1..n
  <2>1. DistinctIds(tasks)
    BY <1>2, <1>6, <1>11 DEF DistinctIds
  <2>2. ~has_cycle(tasks)
    BY <1>9, <1>11
  <2>3. Graph(p.tasks, n)
    BY <1>1
  <2>4. \A i \in 1..n : p.tasks[i].id = tasks[i].id /\ p.tasks[i].deps = tasks[i].deps
    BY <1>2, <1>6
  <2> QED BY <1>5, <1>8, <2>1, <2>2, <2>3, <2>4, AllComeToRun
<1>12. IsSound(p)
  BY <1>2, <1>6, <1>10, <1>11 DEF IsSound
<1> QED BY <1>12 DEF p

(* Numbered work has levels: nothing holds it up, and the integration      *)
(* comes right after it.                                                   *)
LEMMA NumberedWorkHasLevels ==
  ASSUME NEW seeds, Fitting(seeds), Len(seeds) # 0, NumberedSeeds(seeds),
         NEW strict \in BOOLEAN
  PROVE  HasLevels(materialize_plan(seeds, strict))
<1> DEFINE tasks == TasksOf(seeds, strict)
           p == materialize_plan(seeds, strict)
           m == Len(seeds)
           work == WorkOf(seeds)
           f == Layers(tasks)
<1>1. m \in Nat \ {0} /\ m <= work_cap /\ m <= PlanMaxTasks /\ DOMAIN seeds = 1..m
  <2>1. m \in 0..work_cap /\ m # 0 /\ seeds = [i \in 1..m |-> seeds[i]]
    BY DEF Fitting
  <2>2. work_cap <= PlanMaxTasks
    BY PlannerAssumption DEF work_cap
  <2>3. m \in Nat \ {0} /\ m <= work_cap
    BY <2>1, CapType
  <2>4. DOMAIN seeds = 1..m
    BY <2>1
  <2>5. m <= PlanMaxTasks
    <3> HIDE DEF m
    <3> QED BY <2>2, <2>3, CapType, PlannerAssumption
  <2> QED BY <2>3, <2>4, <2>5
<1>2. /\ Graph(tasks, m + 1) /\ DOMAIN work = 1..m
      /\ \A i \in 1..m : tasks[i] = TaskFrom(seeds, i) /\ work[i] = TaskFrom(seeds, i)
      /\ tasks[m + 1] = IntegrationTask(work, strict)
  BY TasksAre
<1>3. ASSUME NEW i \in 1..m
      PROVE  /\ TaskFrom(seeds, i).id = Numbered(i) /\ TaskFrom(seeds, i).deps = {}
             /\ Numbered(i) # INTEGRATION_TASK_SLUG
             /\ \A j \in 1..m : Numbered(i) = Numbered(j) => i = j
  <2>1. i \in 1..PlanMaxTasks /\ \A j \in 1..m : j \in 1..PlanMaxTasks
    BY <1>1, PlannerAssumption
  <2>2. /\ sanitize_dependency_id(Numbered(i)) = Numbered(i)
        /\ Numbered(i) # "" /\ Numbered(i) # INTEGRATION_TASK_SLUG
        /\ \A j \in 1..m : Numbered(i) = Numbered(j) => i = j
    <3> HIDE DEF m
    <3> QED BY <2>1, NumberingAssumption
  <2>3. seeds[i].id = Numbered(i) /\ seeds[i].deps = {}
    BY DEF NumberedSeeds
  <2>4. sanitize_task_id(seeds[i].id, i) = Numbered(i)
    BY <2>2, <2>3 DEF sanitize_task_id
  <2>5. TaskFrom(seeds, i).id = Numbered(i)
    BY <2>4 DEF TaskFrom
  <2>6. TaskFrom(seeds, i).deps = {}
    <3>1. {sanitize_dependency_id(d) : d \in seeds[i].deps} = {}
      BY <2>3
    <3> QED BY <3>1 DEF TaskFrom
  <2> QED BY <2>2, <2>5, <2>6
<1>4. IntegrationTask(work, strict).id = INTEGRATION_TASK_SLUG
      /\ IntegrationTask(work, strict).deps = {work[i].id : i \in DOMAIN work}
  BY DEF IntegrationTask
<1> HIDE DEF tasks, p, m, work
<1>5. /\ DOMAIN tasks = 1..(m + 1) /\ Len(tasks) = m + 1 /\ m + 1 \in Nat
      /\ \A i \in 1..m : tasks[i].id = Numbered(i) /\ tasks[i].deps = {}
      /\ tasks[m + 1].id = INTEGRATION_TASK_SLUG
      /\ tasks[m + 1].deps = {tasks[i].id : i \in 1..m}
  <2>1. DOMAIN tasks = 1..(m + 1) /\ Len(tasks) = m + 1 /\ m + 1 \in Nat
    BY <1>2 DEF Graph
  <2>2. \A i \in 1..m : work[i].id = tasks[i].id
    BY <1>2
  <2>3. tasks[m + 1].deps = {tasks[i].id : i \in 1..m}
    BY <1>2, <1>4, <2>2
  <2> QED BY <1>2, <1>3, <1>4, <2>1, <2>3
<1>6. \A i \in 1..(m + 1) : i \in 1..m \/ i = m + 1
  BY <1>1
<1>7. DistinctIds(tasks)
  <2>1. \A i, j \in 1..m : tasks[i].id = tasks[j].id => i = j
    BY <1>3, <1>5
  <2>2. \A i \in 1..m : tasks[i].id # tasks[m + 1].id
    BY <1>3, <1>5
  <2> QED BY <1>5, <1>6, <2>1, <2>2 DEF DistinctIds
<1>8. ASSUME NEW i \in 1..(m + 1)
      PROVE  Incoming(tasks, i) = {Named(tasks, d) : d \in {d \in tasks[i].deps : HasTask(tasks, d)}}
  <2> DEFINE bearers == {k \in DOMAIN tasks : Named(tasks, tasks[k].id) = i}
             wanted == UNION {tasks[k].deps : k \in bearers}
  <2>1. bearers = {i}
    BY <1>2, <1>5, <1>7, NamedIsTheTask
  <2>2. wanted = tasks[i].deps
    <3> HIDE DEF bearers
    <3> QED BY <2>1
  <2>3. Incoming(tasks, i) = {Named(tasks, d) : d \in {d \in wanted : HasTask(tasks, d)}}
    BY DEF Incoming
  <2> HIDE DEF wanted
  <2> QED BY <2>2, <2>3
<1>9. ASSUME NEW i \in 1..m PROVE Incoming(tasks, i) = {}
  <2>1. i \in 1..(m + 1) /\ tasks[i].deps = {}
    BY <1>1, <1>5
  <2>2. {d \in tasks[i].deps : HasTask(tasks, d)} = {}
    BY <2>1
  <2>3. Incoming(tasks, i) = {Named(tasks, d) : d \in {d \in tasks[i].deps : HasTask(tasks, d)}}
    BY <1>8, <2>1
  <2> QED BY <2>2, <2>3
<1>10. Incoming(tasks, m + 1) \subseteq 1..m
  <2>1. m + 1 \in 1..(m + 1) /\ \A i \in 1..m : i \in 1..(m + 1)
    BY <1>1
  <2>2. ASSUME NEW d \in tasks[m + 1].deps PROVE Named(tasks, d) \in 1..m
    <3>1. PICK i \in 1..m : d = tasks[i].id
      BY <1>5
    <3>2. Named(tasks, d) = i
      BY <1>2, <1>7, <2>1, <3>1, NamedIsTheTask
    <3> QED BY <3>2
  <2> QED BY <1>8, <2>1, <2>2
<1>11. IsLayering(f, tasks, m + 1)
  BY <1>2, LayersAre
<1> HIDE DEF f
<1>12. /\ f[0] = {} /\ \A k \in 1..(m + 1) : f[k] = Unblocked(tasks, f[k - 1])
       /\ f \in [0..(m + 1) -> SUBSET (1..(m + 1))]
  BY <1>11 DEF IsLayering
<1>13. 1..m \subseteq f[1]
  <2>1. 1 \in 1..(m + 1) /\ 1 - 1 = 0
    BY <1>1
  <2>2. f[1] = Unblocked(tasks, {})
    BY <1>12, <2>1
  <2>3. \A i \in 1..m : i \in 1..(m + 1)
    BY <1>1
  <2> QED BY <2>2, <2>3, <1>5, <1>9 DEF Unblocked
<1>14. f[2] = 1..(m + 1)
  <2>1. 2 \in 1..(m + 1) /\ 2 - 1 = 1
    BY <1>1
  <2>2. f[2] = Unblocked(tasks, f[1])
    BY <1>12, <2>1
  <2>3. \A i \in 1..(m + 1) : Incoming(tasks, i) \subseteq f[1]
    BY <1>6, <1>9, <1>10, <1>13
  <2> QED BY <2>2, <2>3, <1>5 DEF Unblocked
<1>15. f[m + 1] = 1..(m + 1)
  <2>1. m + 1 \in 0..(m + 1) /\ 2 \in 0..(m + 1)
    BY <1>1
  <2>2. f[2] \subseteq f[m + 1]
    BY <1>5, <1>11, <2>1, LayersGrow
  <2>3. f[m + 1] \subseteq 1..(m + 1)
    BY <1>12, <2>1
  <2> QED BY <2>2, <2>3, <1>14
<1>16. ~has_cycle(tasks)
  BY <1>5, <1>15 DEF has_cycle, f
<1>17. /\ DOMAIN p.tasks = DOMAIN tasks
       /\ \A i \in DOMAIN tasks : p.tasks[i].id = tasks[i].id
       /\ p.parallelizable_groups = topological_levels(tasks)
  <2>1. IsPlanOf(p, tasks)
    BY MaterializedTasks DEF tasks, p
  <2> QED BY <2>1 DEF IsPlanOf
<1>18. Closed(tasks)
  <2>1. \A i \in 1..m : HasTask(tasks, tasks[i].id)
    <3>1. \A i \in 1..m : i \in 1..(m + 1)
      BY <1>1
    <3> QED BY <3>1, <1>5 DEF HasTask
  <2>2. \A d \in tasks[m + 1].deps : HasTask(tasks, d)
    BY <2>1, <1>5
  <2>3. \A i \in 1..m : \A d \in tasks[i].deps : HasTask(tasks, d)
    BY <1>5
  <2> QED BY <2>2, <2>3, <1>5, <1>6 DEF Closed
<1>19. topological_levels(tasks) # <<>>
  <2>1. m + 1 # 0
    BY <1>1
  <2> QED BY <2>1, <1>2, <1>16, <1>18, LevelsAreInOrder
<1>20. HasLevels(p)
  BY <1>7, <1>17, <1>19 DEF HasLevels, DistinctIds
<1> QED BY <1>20 DEF p

(* A plan made of a request alone is sound, and has levels: all of it      *)
(* comes to run if every task that runs is accepted.                       *)
THEOREM InitialPlanComesToRun ==
  ASSUME NEW goal \in Request
  PROVE  IsSound(build_initial_plan(goal)) /\ HasLevels(build_initial_plan(goal))
<1>1. goal.strict \in BOOLEAN
  BY DEF Request
<1>2. build_initial_plan(goal) = materialize_plan(LocalSeeds(goal), goal.strict)
  BY DEF build_initial_plan
<1> QED BY <1>1, <1>2, LocalSeedsFit, MaterializedIsSound, NumberedWorkHasLevels

(* A plan made of a contract is sound, whatever a model put into it: the   *)
(* levels of one with a cycle are none.                                    *)
THEOREM ContractPlanIsSound ==
  ASSUME NEW goal \in Request, NEW contract \in Seq(TaskSeed)
  PROVE  IsSound(build_plan_from_contract(goal, contract))
<1> DEFINE seeds == Truncated(Described(contract))
<1>1. goal.strict \in BOOLEAN
  BY DEF Request
<1>2. Fitting(seeds) /\ (seeds # <<>> => Len(seeds) # 0)
  BY ContractSeedsFit
<1>3. build_plan_from_contract(goal, contract) =
        IF seeds = <<>> THEN build_initial_plan(goal) ELSE materialize_plan(seeds, goal.strict)
  BY DEF build_plan_from_contract
<1> HIDE DEF seeds
<1> QED BY <1>1, <1>2, <1>3, InitialPlanComesToRun, MaterializedIsSound

=============================================================================
