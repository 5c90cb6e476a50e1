--------------------------- MODULE PlanExecution ---------------------------
(***************************************************************************)
(* Parallel execution of plans: execute_plan_parallel                      *)
(* (src/src/execution/scheduler.rs) runs once per plan and owns the plan's *)
(* tasks; every ready task becomes a tokio task that runs run_one_task     *)
(* (src/src/execution/dispatcher.rs) and competes for the one TeamManager. *)
(*                                                                         *)
(* A task is a natural number; the order of the numbers is the order of    *)
(* plan.tasks.  IdOf gives its string id: nothing in the code makes the    *)
(* ids of a plan's tasks different from each other, so they may coincide,  *)
(* and every lookup by id below is the lookup the code makes.  A job is    *)
(* one spawned tokio task, named by the entry of the ready list it is for. *)
(***************************************************************************)
EXTENDS TeamManager

CONSTANTS
  Plan,            \* plans, each the argument of one execute_plan_parallel
  Task,            \* positions in the plans' task lists
  PlanOf,          \* Task -> Plan
  IdOf,            \* Task -> TaskId
  Deps,            \* Task -> SUBSET TaskId
  RoleOf,          \* Task -> Roles \cup {NoRole}: candidate_role
  IntegrateId,     \* the ids ending in ":task-integrate"
  Burst,           \* plans for which should_burst_parallel holds
  MaxRetries,      \* max_task_retries
  MaxReviewLoops,  \* max_review_loops_per_task
  MaxRuns          \* bound: runs of one task

ASSUME PlanAssumption ==
  /\ IsFiniteSet(Task) /\ Task \subseteq Nat
  /\ PlanOf \in [Task -> Plan]
  /\ IdOf \in [Task -> TaskId]
  /\ \A t, u \in Task : IdOf[t] = IdOf[u] => PlanOf[t] = PlanOf[u]
  /\ Deps \in [Task -> SUBSET TaskId]
  /\ \A t \in Task : \A d \in Deps[t] :
       \E u \in Task : IdOf[u] = d /\ PlanOf[u] = PlanOf[t]
  /\ RoleOf \in [Task -> Roles \cup {NoRole}]
  /\ Burst \subseteq Plan
  /\ MaxRetries \in Nat /\ MaxReviewLoops \in Nat /\ MaxRuns \in Nat

(* The ids of a plan's tasks are pairwise different.                       *)
DistinctIds == \A t, u \in Task : IdOf[t] = IdOf[u] => t = u

VARIABLES
  phase,         \* where each plan's scheduler loop stands
  limit,         \* permits of each plan's semaphore
  state,         \* TaskState of each task
  attempts,      \* PlanTask::attempts
  review_loops,  \* PlanTask::review_loops
  stage,         \* where each job stands
  held,          \* the subagent a job holds, 0 for none
  base,          \* attempts of the clone a job was given
  outcome        \* what a finished job returned

schedVars == <<phase, limit, state, attempts, review_loops>>
jobVars   == <<stage, held, base, outcome>>
vars      == <<teamVars, schedVars, jobVars>>

TaskState == {"Pending", "Ready", "Running", "Accepted", "Retrying",
              "Completed", "Failed"}
Outcome == {"accepted", "rejected", "no_subagent"}
Stage == {"none", "queued", "permitted", "assigned", "running", "finished"}

-----------------------------------------------------------------------------
TasksOf(p) == {t \in Task : PlanOf[t] = p}

(* iter().position/find by id meets the first task with the id; the        *)
(* HashMap collected from the tasks keeps the last one.                    *)
First(id) == CHOOSE t \in Task : /\ IdOf[t] = id
                                 /\ \A u \in Task : IdOf[u] = id => t <= u
Last(id) == CHOOSE t \in Task : /\ IdOf[t] = id
                                /\ \A u \in Task : IdOf[u] = id => u <= t
Target(j) == First(IdOf[j])

DepsAccepted(s, t) == \A d \in Deps[t] : s[Last(d)] \in {"Accepted", "Completed"}

(* Mutant: the dependency filter is forgotten.                             *)
ReadyTasksAnyDeps(p, s) == {t \in TasksOf(p) : s[t] \in {"Pending", "Ready", "Retrying"}}

(* planner::dag::ready_task_ids                                            *)
ReadyTasks(p, s) ==
  {t \in TasksOf(p) : /\ s[t] \in {"Pending", "Ready", "Retrying"}
                      /\ DepsAccepted(s, t)}

(* Mutant: a failed task is made ready again.                              *)
PromotedWithFailed(p, s) ==
  [t \in Task |->
     IF t \in TasksOf(p) /\ s[t] \in {"Pending", "Retrying", "Failed"} /\ DepsAccepted(s, t)
     THEN "Ready" ELSE s[t]]

(* The loop at the end of a batch: Pending and Retrying become Ready.      *)
Promoted(p, s) ==
  [t \in Task |->
     IF /\ t \in TasksOf(p)
        /\ s[t] \in {"Pending", "Retrying"}
        /\ DepsAccepted(s, t)
     THEN "Ready" ELSE s[t]]

InFlight(p) == {j \in TasksOf(p) : stage[j] \in {"permitted", "assigned", "running"}}
Holds(j) == stage[j] \in {"assigned", "running"}

MaxOf(a, b) == IF a >= b THEN a ELSE b
MinOf(a, b) == IF a <= b THEN a ELSE b

(* TeamManager::effective_parallel_limit                                   *)
EffectiveParallelLimit(cap) ==
  MaxOf(1, MinOf(settings.max_parallel_tasks, settings.team_size + cap))

-----------------------------------------------------------------------------
Init ==
  /\ TeamInit
  /\ phase = [p \in Plan |-> "new"]
  /\ limit = [p \in Plan |-> 0]
  /\ state = [t \in Task |-> IF Deps[t] = {} THEN "Ready" ELSE "Pending"]
  /\ attempts = [t \in Task |-> 0]
  /\ review_loops = [t \in Task |-> 0]
  /\ stage = [t \in Task |-> "none"]
  /\ held = [t \in Task |-> 0]
  /\ base = [t \in Task |-> 0]
  /\ outcome = [t \in Task |-> "none"]

(* The head of the scheduler loop, on task states s: nothing ready ends    *)
(* the plan, otherwise every ready task is cloned, marked and spawned.     *)
FinishPlan(p, s) ==
  /\ ReadyTasks(p, s) = {}
  /\ phase' = [phase EXCEPT ![p] = "done"]
  /\ state' = [t \in Task |->
                 IF t \in TasksOf(p) /\ IdOf[t] \in IntegrateId /\ s[t] = "Accepted"
                 THEN "Completed" ELSE s[t]]
  /\ UNCHANGED jobVars

SpawnBatch(p, s) ==
  LET ready == ReadyTasks(p, s) IN
  /\ ready # {}
  /\ \A t \in ready : attempts[Target(t)] < MaxRuns
  /\ phase' = [phase EXCEPT ![p] = "joining"]
  /\ state' = [t \in Task |-> IF \E u \in ready : Target(u) = t
                              THEN "Running" ELSE s[t]]
  /\ stage' = [t \in Task |-> IF t \in ready THEN "queued" ELSE stage[t]]
  /\ base' = [t \in Task |-> IF t \in ready THEN attempts[Target(t)] ELSE base[t]]
  /\ UNCHANGED <<held, outcome>>

LoopHead(p, s) == FinishPlan(p, s) \/ SpawnBatch(p, s)

(* execute_plan_parallel is called: the permits are fixed for its whole    *)
(* run from settings and pool as they are now, then the first batch.       *)
StartPlan(p) ==
  /\ phase[p] = "new"
  /\ \E cap, burst_cap \in EphemeralCapacity :
       limit' = [limit EXCEPT ![p] =
                   LET max_parallel == EffectiveParallelLimit(cap) IN
                   IF p \in Burst
                   THEN MaxOf(max_parallel, Cardinality(PersistentAgents) + burst_cap)
                   ELSE max_parallel]
  /\ LoopHead(p, state)
  /\ UNCHANGED <<attempts, review_loops, teamVars>>

(* Mutant: the loop does not wait for the jobs of the batch.               *)
NextBatchEarly(p) ==
  /\ phase[p] = "joining"
  /\ \E j \in TasksOf(p) : stage[j] = "none"
  /\ LoopHead(p, Promoted(p, state))
  /\ UNCHANGED <<limit, attempts, review_loops, teamVars>>

(* The last join of a batch is behind: promote, and back to the loop head. *)
NextBatch(p) ==
  /\ phase[p] = "joining"
  /\ \A j \in TasksOf(p) : stage[j] = "none"
  /\ LoopHead(p, Promoted(p, state))
  /\ UNCHANGED <<limit, attempts, review_loops, teamVars>>

(* Mutant: only the review loops are looked at.                            *)
MayRetryByLoops(t, tries) == review_loops[t] < MaxReviewLoops
MayRetry(t, tries) == tries <= MaxRetries /\ review_loops[t] < MaxReviewLoops

(* Mutant: a retry is not counted.                                         *)
UncountedLoop(t) == review_loops[t]
CountedLoop(t) == review_loops[t] + 1

(* A result arrives, in completion order.  The clone's attempts were       *)
(* counted up by run_one_task unless it found no subagent.                 *)
Join(j) ==
  LET t     == Target(j)
      tries == base[j] + (IF outcome[j] = "no_subagent" THEN 0 ELSE 1)
      retry == outcome[j] # "accepted" /\ MayRetry(t, tries)
  IN
  /\ stage[j] = "finished"
  /\ attempts' = [attempts EXCEPT ![t] = tries]
  /\ state' = [state EXCEPT ![t] = IF outcome[j] = "accepted" THEN "Accepted"
                                   ELSE IF retry THEN "Retrying" ELSE "Failed"]
  /\ review_loops' = [review_loops EXCEPT ![t] = IF retry THEN CountedLoop(t) ELSE @]
  /\ stage' = [stage EXCEPT ![j] = "none"]
  /\ outcome' = [outcome EXCEPT ![j] = "none"]
  /\ UNCHANGED <<phase, limit, held, base, teamVars>>

-----------------------------------------------------------------------------
(* Mutant: one permit too many.                                            *)
AcquirePermitLoose(j) ==
  /\ stage[j] = "queued"
  /\ Cardinality(InFlight(PlanOf[j])) <= limit[PlanOf[j]]
  /\ stage' = [stage EXCEPT ![j] = "permitted"]
  /\ UNCHANGED <<held, base, outcome, schedVars, teamVars>>

(* The spawned tokio task: a permit, then run_one_task.                    *)
AcquirePermit(j) ==
  /\ stage[j] = "queued"
  /\ Cardinality(InFlight(PlanOf[j])) < limit[PlanOf[j]]
  /\ stage' = [stage EXCEPT ![j] = "permitted"]
  /\ UNCHANGED <<held, base, outcome, schedVars, teamVars>>

AcquireAgent(j, a) ==
  /\ stage[j] = "permitted"
  /\ \/ AcquireIdle(IdOf[j], RoleOf[Target(j)], a)
     \/ AcquireEphemeral(IdOf[j], RoleOf[Target(j)], a)
  /\ stage' = [stage EXCEPT ![j] = "assigned"]
  /\ held' = [held EXCEPT ![j] = a]
  /\ UNCHANGED <<base, outcome, schedVars>>

NoAgentFound(j) ==
  /\ stage[j] = "permitted"
  /\ AcquireNone(RoleOf[Target(j)])
  /\ stage' = [stage EXCEPT ![j] = "finished"]
  /\ outcome' = [outcome EXCEPT ![j] = "no_subagent"]
  /\ UNCHANGED <<held, base, schedVars>>

StartWork(j) ==
  /\ stage[j] = "assigned"
  /\ MarkRunning(held[j])
  /\ stage' = [stage EXCEPT ![j] = "running"]
  /\ UNCHANGED <<held, base, outcome, schedVars>>

(* execute_task and review_task share nothing with other jobs; what they   *)
(* come to is "accepted", or "rejected" for a reviewer's refusal and a     *)
(* worker's error alike: both are passed to release as an error and both   *)
(* count as an attempt.  The subagent is released, the permit dropped.     *)
FinishWork(j, o) ==
  /\ stage[j] = "running"
  /\ o \in {"accepted", "rejected"}
  /\ Release(held[j], o # "accepted")
  /\ stage' = [stage EXCEPT ![j] = "finished"]
  /\ held' = [held EXCEPT ![j] = 0]
  /\ outcome' = [outcome EXCEPT ![j] = o]
  /\ UNCHANGED <<base, schedVars>>

ApplySettings ==
  /\ \/ \E s \in Settings : WriteSettings(s)
     \/ ReconcilePool
  /\ UNCHANGED <<schedVars, jobVars>>

AllDone == \A p \in Plan : phase[p] = "done"
Terminated == AllDone /\ UNCHANGED vars

JobStep(j) ==
  \/ AcquirePermit(j)
  \/ \E a \in AgentId : AcquireAgent(j, a)
  \/ NoAgentFound(j)
  \/ StartWork(j)
  \/ \E o \in Outcome : FinishWork(j, o)

Next ==
  \/ \E p \in Plan : StartPlan(p)
  \/ \E p \in Plan : NextBatch(p)
  \/ \E j \in Task : Join(j)
  \/ \E j \in Task : JobStep(j)
  \/ ApplySettings
  \/ Terminated

Spec == Init /\ [][Next]_vars

(* tokio polls every runnable task and every model call has a timeout.     *)
FairSpec ==
  /\ Spec
  /\ \A p \in Plan : WF_vars(NextBatch(p))
  /\ \A j \in Task : WF_vars(Join(j)) /\ WF_vars(JobStep(j))
  /\ WF_vars(ReconcilePool /\ UNCHANGED <<schedVars, jobVars>>)
-----------------------------------------------------------------------------
TypeOK ==
  /\ TeamTypeOK
  /\ phase \in [Plan -> {"new", "joining", "done"}]
  /\ limit \in [Plan -> Nat]
  /\ state \in [Task -> TaskState]
  /\ attempts \in [Task -> Nat]
  /\ review_loops \in [Task -> Nat]
  /\ stage \in [Task -> Stage]
  /\ held \in [Task -> AgentId \cup {0}]
  /\ base \in [Task -> Nat]
  /\ outcome \in [Task -> Outcome \cup {"none"}]

(* A subagent serves one job at a time, and a job that holds one holds the *)
(* subagent the pool says is doing that job's task, whatever settings are  *)
(* applied meanwhile.                                                      *)
SlotExclusivity ==
  /\ \A j, k \in Task : Holds(j) /\ Holds(k) /\ held[j] = held[k] => j = k
  /\ \A j \in Task : Holds(j) =>
       /\ held[j] \in AgentId
       /\ Busy(held[j])
       /\ subagents[held[j]].task = IdOf[j]

(* No slot leaks: a subagent is busy, and an ephemeral one exists, only    *)
(* while a job holds it.                                                   *)
NoSlotLeak ==
  \A a \in AgentId :
    Busy(a) \/ (a \in Ephemeral /\ Present(a)) =>
      \E j \in Task : Holds(j) /\ held[j] = a

(* A task with a candidate role is worked on by a subagent of that role,   *)
(* from the moment it is acquired until it is released, also when the      *)
(* dashboard reassigns roles meanwhile.                                    *)
RoleRespected ==
  \A j \in Task : Holds(j) =>
    RoleOf[Target(j)] \in {NoRole, subagents[held[j]].role}

(* The subagents working for a plan never outnumber the limit it started   *)
(* with, which is at least one.                                            *)
Working(p) == {a \in AgentId : \E j \in TasksOf(p) : Holds(j) /\ held[j] = a}
ParallelBound ==
  \A p \in Plan : /\ Cardinality(Working(p)) <= limit[p]
                  /\ phase[p] # "new" => limit[p] >= 1

(* A task that runs or has run was started with its dependencies accepted, *)
(* and they have stayed so.                                                *)
DependencySafety ==
  \A t \in Task :
    state[t] \in {"Running", "Retrying", "Accepted", "Completed", "Failed"} =>
      DepsAccepted(state, t)

(* max_task_retries and max_review_loops_per_task bound what a task costs. *)
BoundedAttempts ==
  \A t \in Task : /\ attempts[t] <= MaxRetries + 1
                  /\ attempts[t] <= MaxReviewLoops + 1
                  /\ review_loops[t] <= MaxReviewLoops

(* A plan that is done is settled: nothing is left that could still run,   *)
(* and what did not run has a dependency that was not accepted.            *)
DoneMeansSettled ==
  \A t \in Task : phase[PlanOf[t]] = "done" =>
    \/ state[t] \in {"Accepted", "Completed", "Failed"}
    \/ state[t] = "Pending" /\ ~DepsAccepted(state, t)

(* When no apply_runtime_settings is half done, the pool has every slot    *)
(* of the settings in force, though two calls may have interleaved.        *)
PoolCoversTeam ==
  applying = 0 => \A a \in 1..settings.team_size : Present(a)

(* Every plan that starts comes to its end.                                *)
PlansTerminate == \A p \in Plan : phase[p] = "joining" ~> phase[p] = "done"

-----------------------------------------------------------------------------
(* The abstract board a reader of the plan sees.                           *)
StatusOf(s) ==
  CASE s \in {"Pending", "Ready", "Retrying"} -> "waiting"
    [] s = "Running" -> "running"
    [] s \in {"Accepted", "Completed"} -> "accepted"
    [] s = "Failed" -> "failed"

NeedsOf == [t \in Task |-> {u \in Task : IdOf[u] \in Deps[t]}]

Board == INSTANCE TaskBoard WITH
  Needs <- NeedsOf,
  MinBudget <- MinOf(MaxRetries, MaxReviewLoops),
  MaxBudget <- MaxReviewLoops,
  status <- [t \in Task |-> StatusOf(state[t])],
  tries <- review_loops

(* The tasks of the plans behave as the board of TaskBoard.                *)
ImplementsBoard == Board!Spec

-----------------------------------------------------------------------------
(* docs/ARCHITECTURE.md: the dispatcher "acquires subagent, runs worker,   *)
(* runs review, releases slot".  A released slot can be acquired again.    *)
ReleasedSlotsAreUsable ==
  AllDone => \A a \in PersistentAgents : subagents[a].state = "Idle"
=============================================================================
