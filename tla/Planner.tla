------------------------------ MODULE Planner ------------------------------
(***************************************************************************)
(* How a request becomes a plan: src/src/planner/decomposition.rs, either  *)
(* from the contract a model returned or from the request alone, and the   *)
(* graph of its tasks, src/src/planner/dag.rs.  A text of a task is what   *)
(* the planner reads off it: the role and the route it hints at.           *)
(***************************************************************************)
EXTENDS Integers, Sequences, FiniteSets, TLC, Subsequences

CONSTANTS
  PlanMaxTasks, PlanMaxDepth,  \* TeamConfig
  Roles,                       \* subagent_roleset, a sequence
  Override                     \* role_specializations: a role's model_route

NoRole  == "no role"
NoRoute == "no route"
RoleNames == {Roles[i] : i \in DOMAIN Roles}
RouteKey == {"router_fast", "fast_text", "planner", "tool_use", "reviewer_fast",
             "reviewer_strict", "reasoning", "integrator_complex", "vision_understand",
             "audio_transcribe", "image_generate"}

ASSUME PlannerAssumption ==
  /\ PlanMaxTasks \in Nat \ {0} /\ PlanMaxDepth \in Nat \ {0}  \* TeamConfig::validate
  /\ Roles \in Seq(STRING) /\ Roles # <<>> /\ NoRole \notin RoleNames
  /\ Override \in [RoleNames -> RouteKey \cup {NoRoute, "unknown"}]

-----------------------------------------------------------------------------
(* Names of tasks.  sanitize_* trims, lowers and dashes a name: "A" and    *)
(* "a" are one name, and so are "task_integrate" and "task-integrate".     *)

INTEGRATION_TASK_SLUG == "task-integrate"
Numbered(i) == "task-" \o ToString(i)

sanitize_dependency_id(raw) ==
  CASE raw = "A" -> "a"
    [] raw = "task_integrate" -> "task-integrate"
    [] raw = "--" -> ""
    [] OTHER -> raw

sanitize_task_id(raw, i) ==
  IF sanitize_dependency_id(raw) = "" THEN Numbered(i) ELSE sanitize_dependency_id(raw)

(* A number makes a name that is clean as it is, and no two the same one.  *)
ASSUME NumberingAssumption ==
  \A i \in 1..PlanMaxTasks :
    /\ sanitize_dependency_id(Numbered(i)) = Numbered(i)
    /\ Numbered(i) \notin {"", INTEGRATION_TASK_SLUG}
    /\ \A j \in 1..PlanMaxTasks : Numbered(i) = Numbered(j) => i = j

(* Looked at before the name is sanitized.                                 *)
is_integration_task_id(raw) == raw = INTEGRATION_TASK_SLUG

-----------------------------------------------------------------------------
(* Roles and routes                                                        *)

(* The role asked for, or hinted at, if the team has it; else by turns.    *)
resolve_candidate_role(requested, hinted, i) ==
  CASE requested \in RoleNames -> requested
    [] requested \notin RoleNames /\ hinted \in RoleNames -> hinted
    [] OTHER -> Roles[((i - 1) % Len(Roles)) + 1]

(* What the role is configured with, even if that is no route, then what   *)
(* is asked for, then what the text hints at.                              *)
resolve_task_route_key(role, requested, hinted) ==
  IF Override[role] # NoRoute
  THEN IF Override[role] \in RouteKey THEN Override[role] ELSE hinted
  ELSE IF requested \in RouteKey THEN requested ELSE hinted

-----------------------------------------------------------------------------
(* Seeds: what a task is made of.                                          *)
Least(a, b) == IF a <= b THEN a ELSE b
work_cap == IF PlanMaxTasks - 1 >= 1 THEN PlanMaxTasks - 1 ELSE 1

Seed(id, deps, role, route) ==
  [id |-> id, deps |-> deps, role |-> role, route |-> route, described |-> TRUE,
   hinted_role |-> NoRole, hinted_route |-> "fast_text"]

TaskSeed == [id : STRING, deps : SUBSET STRING, role : STRING, route : STRING,
             described : BOOLEAN, hinted_role : STRING, hinted_route : RouteKey]

Truncated(s) == SubSeq(s, 1, Least(Len(s), work_cap))

Criterion == {"motor", "consumo", "reventa", "repuestos", "confiabilidad", "diversion",
              "costo", "riesgo"}
Groups == <<{"consumo", "costo", "repuestos"}, {"reventa", "confiabilidad", "riesgo"},
            {"motor", "diversion"}>>
CriteriaInOrder == <<"motor", "consumo", "reventa", "repuestos", "confiabilidad",
                     "diversion", "costo", "riesgo">>
Axes == <<"market_gtm", "regulatory_risk", "product_delivery", "executive_positioning">>

(* A request, as build_initial_plan reads it: does it compare, on which    *)
(* criteria, is a ranking asked for; does it list the axes of a business   *)
(* analysis, and is the list a long one; into how many parts does it fall. *)
Request == [compares : BOOLEAN, criteria : SUBSET Criterion, ranking : BOOLEAN,
            axes : SUBSET {Axes[i] : i \in DOMAIN Axes}, long_list : BOOLEAN,
            parts : Nat \ {0}, strict : BOOLEAN]

(* The criteria of each track: those of a group when there are five.       *)
ComparisonTracks(goal) ==
  LET matched == goal.criteria
      covers(s) == [i \in DOMAIN s |-> s[i] \cap matched]
      singles == [i \in DOMAIN CriteriaInOrder |-> {CriteriaInOrder[i]}]
      tracks  == covers(IF Cardinality(matched) >= 5 THEN Groups ELSE singles)
  IN Subsequence(tracks, {i \in DOMAIN tracks : tracks[i] # {}})

TrackSeed(i, covers, grouped) ==
  LET delicate == IF grouped THEN Groups[2] ELSE {"riesgo", "confiabilidad"}
  IN IF covers \cap delicate = {} THEN Seed(Numbered(i), {}, "researcher", "fast_text")
     ELSE Seed(Numbered(i), {}, "verifier", IF grouped THEN "reasoning" ELSE "reviewer_fast")

build_comparison_seeds(goal) ==
  LET tracks  == Truncated(ComparisonTracks(goal))
      seeds   == [i \in DOMAIN tracks |->
                    TrackSeed(i, tracks[i], Cardinality(goal.criteria) >= 5)]
      bundled == \E i \in DOMAIN tracks : Cardinality(tracks[i]) > 1
  IN IF ~goal.compares THEN <<>>
     ELSE IF seeds # <<>> /\ goal.ranking /\ Len(seeds) < work_cap /\ ~bundled
     THEN Append(seeds, [Seed(Numbered(Len(seeds) + 1), {}, "verifier", "reasoning")
                          EXCEPT !.hinted_role = "implementer"])
     ELSE seeds

AxisRole == [market_gtm |-> "researcher", regulatory_risk |-> "verifier",
             product_delivery |-> "implementer", executive_positioning |-> "integrator"]

build_structured_analysis_seeds(goal) ==
  LET axes  == Truncated(Subsequence(Axes, {i \in DOMAIN Axes : Axes[i] \in goal.axes}))
      seeds == [i \in DOMAIN axes |-> 
                  Seed(Numbered(i), {}, AxisRole[axes[i]],
                       IF axes[i] = "executive_positioning" THEN "reviewer_strict"
                       ELSE "reasoning")]
  IN IF seeds # <<>> /\ goal.long_list /\ Len(seeds) < work_cap /\ Len(seeds) < 4
     THEN Append(seeds, Seed(Numbered(Len(seeds) + 1), {}, "verifier", "reasoning"))
     ELSE seeds

(* Mutant: every part gets the number of the first.                        *)
SplitUnnumbered(goal) ==
  [i \in 1..Least(goal.parts, work_cap) |->
     Seed(Numbered(1), {}, Roles[((i - 1) % Len(Roles)) + 1], NoRoute)]

split_goal(goal) ==
  [i \in 1..Least(goal.parts, work_cap) |->
     Seed(Numbered(i), {}, Roles[((i - 1) % Len(Roles)) + 1], NoRoute)]

LocalSeeds(goal) ==
  IF build_comparison_seeds(goal) # <<>> THEN build_comparison_seeds(goal)
  ELSE IF build_structured_analysis_seeds(goal) # <<>>
  THEN build_structured_analysis_seeds(goal)
  ELSE split_goal(goal)

-----------------------------------------------------------------------------
(* The graph: src/src/planner/dag.rs.  A name stands for the last task     *)
(* that bears it, and an edge joins the tasks the names stand for.         *)

Named(tasks, id) == CHOOSE i \in DOMAIN tasks :
  tasks[i].id = id /\ \A j \in DOMAIN tasks : tasks[j].id = id => j <= i

HasTask(tasks, id) == \E i \in DOMAIN tasks : tasks[i].id = id

Incoming(tasks, i) ==
  {Named(tasks, d) : d \in {d \in UNION {tasks[k].deps : k \in
     {k \in DOMAIN tasks : Named(tasks, tasks[k].id) = i}} : HasTask(tasks, d)}}

(* The first layer has the tasks without predecessors, the next one those  *)
(* whose predecessors are all in the layers before.                        *)
Unblocked(tasks, below) == {i \in DOMAIN tasks : Incoming(tasks, i) \subseteq below}

Layers(tasks) ==
  LET layers[n \in 0..Len(tasks)] ==
        IF n = 0 THEN {} ELSE Unblocked(tasks, layers[n - 1])
  IN layers

has_cycle(tasks) == Layers(tasks)[Len(tasks)] # DOMAIN tasks

(* The names on each level; no level at all when there is a cycle.         *)
topological_levels(tasks) ==
  LET layers == Layers(tasks)
      last   == {i \in DOMAIN tasks : Named(tasks, tasks[i].id) = i}
      fresh(n) == layers[n] \ layers[n - 1]
      ids == [n \in 1..Len(tasks) |-> {tasks[i].id : i \in fresh(n) \cap last}]
  IN IF has_cycle(tasks) THEN <<>>
     ELSE Subsequence(ids, {n \in DOMAIN ids : ids[n] # {}})

(* The tasks that may start once the accepted ones are done.               *)
ready_task_ids(tasks, accepted) ==
  {i \in DOMAIN tasks \ accepted :
     \A d \in tasks[i].deps : HasTask(tasks, d) /\ Named(tasks, d) \in accepted}

(* The tasks that come to run if every one that runs is accepted.          *)
Runnable(tasks) ==
  LET after[n \in 0..Len(tasks)] ==
        IF n = 0 THEN {}
        ELSE after[n - 1] \cup ready_task_ids(tasks, after[n - 1])
  IN after[Len(tasks)]

-----------------------------------------------------------------------------
(* materialize_plan                                                        *)

TaskFrom(seeds, i) ==
  LET id(k) == sanitize_task_id(seeds[k].id, k)
      role  == resolve_candidate_role(seeds[i].role, seeds[i].hinted_role, i)
  IN [id   |-> id(i),
      deps |-> ({sanitize_dependency_id(d) : d \in seeds[i].deps} \ {"", id(i)})
                 \cap {id(k) : k \in DOMAIN seeds},
      role  |-> role,
      route |-> resolve_task_route_key(role, seeds[i].route, seeds[i].hinted_route)]

IntegrationTask(work, strict) ==
  LET role == resolve_candidate_role("integrator", "integrator", Len(work) + 1)
  IN [id   |-> INTEGRATION_TASK_SLUG,
      deps |-> {work[i].id : i \in DOMAIN work},
      role  |-> role,
      route |-> resolve_task_route_key(
                  role, IF strict THEN "integrator_complex" ELSE "fast_text", "reasoning")]

DepthIn(levels, id) ==
  LET at == {n \in DOMAIN levels : id \in levels[n]}
  IN Least(IF at = {} THEN 1 ELSE CHOOSE n \in at : TRUE, PlanMaxDepth)

WithDepths(tasks) ==
  LET levels == topological_levels(tasks)
  IN [tasks |-> [i \in DOMAIN tasks |->
        [id |-> tasks[i].id, deps |-> tasks[i].deps, role |-> tasks[i].role,
         route |-> tasks[i].route, depth |-> DepthIn(levels, tasks[i].id)]],
      parallelizable_groups |-> levels]

materialize_plan(seeds, strict) ==
  LET work == [i \in DOMAIN seeds |-> TaskFrom(seeds, i)]
  IN WithDepths(Append(work, IntegrationTask(work, strict)))

build_initial_plan(goal) == materialize_plan(LocalSeeds(goal), goal.strict)

(* The work a contract describes.                                          *)
Described(contract) ==
  Subsequence(contract, {i \in DOMAIN contract :
    contract[i].described /\ ~is_integration_task_id(contract[i].id)})

(* Mutant: the contract is not cut to the size the team allows.            *)
BuildUncut(goal, contract) ==
  LET seeds == Described(contract)
  IN IF seeds = <<>> THEN build_initial_plan(goal) ELSE materialize_plan(seeds, goal.strict)

(* The contract's described work tasks, up to the cap; the request alone,  *)
(* if it has none.                                                         *)
build_plan_from_contract(goal, contract) ==
  LET seeds == Truncated(Described(contract))
  IN IF seeds = <<>> THEN build_initial_plan(goal) ELSE materialize_plan(seeds, goal.strict)

=============================================================================
