-------------------------- MODULE MC_PlanExecution --------------------------
(* Small teams and plans for PlanExecution.  A plan is a sequence of       *)
(* records, one per task in plan order; two plans are concatenated.        *)
EXTENDS PlanExecution, Sequences

CONSTANTS p1, p2, researcher, integrator

MCSettings(size, parallel, allow, ephemerals, first, second) ==
  [team_size |-> size,
   max_parallel_tasks |-> parallel,
   allow_ephemeral_subagents |-> allow,
   max_ephemeral_subagents |-> ephemerals,
   roles |-> [a \in Persistent |-> IF a % 2 = 1 THEN first ELSE second]]

T(plan, id, deps, role) == [plan |-> plan, id |-> id, deps |-> deps, role |-> role]

(* Two work packages and their integration, the shape of build_initial_plan. *)
Fork == <<T(p1, "a", {}, researcher), T(p1, "b", {}, NoRole),
          T(p1, "integrate", {"a", "b"}, integrator)>>

(* Two conversations, each with one work package and its integration.      *)
Pair == <<T(p1, "a", {}, researcher), T(p1, "integrate", {"a"}, integrator),
          T(p2, "c", {}, researcher), T(p2, "integrate2", {"c"}, integrator)>>

ForkPlanOf == [t \in 1..3 |-> Fork[t].plan]
ForkIdOf   == [t \in 1..3 |-> Fork[t].id]
ForkDeps   == [t \in 1..3 |-> Fork[t].deps]
ForkRoleOf == [t \in 1..3 |-> Fork[t].role]

PairPlanOf == [t \in 1..4 |-> Pair[t].plan]
PairIdOf   == [t \in 1..4 |-> Pair[t].id]
PairDeps   == [t \in 1..4 |-> Pair[t].deps]
PairRoleOf == [t \in 1..4 |-> Pair[t].role]

Elastic == MCSettings(1, 2, TRUE, 1, researcher, integrator)
Fixed   == MCSettings(2, 2, FALSE, 0, integrator, researcher)

JustElastic == {Elastic}
Changing    == {Elastic, Fixed}
=============================================================================
