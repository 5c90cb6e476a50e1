------------------------ MODULE PlanExecution_proofs ------------------------
(***************************************************************************)
(* Theorems about PlanExecution, for every team, every set of plans, every *)
(* set of settings and every bound.                                        *)
(***************************************************************************)
EXTENDS PlanExecution, OrderLemmas

-----------------------------------------------------------------------------
(* A lookup by an id that some task has meets a task with that id, which   *)
(* belongs to the same plan.                                               *)
LEMMA LookupFinds ==
  ASSUME NEW t \in Task
  PROVE  /\ First(IdOf[t]) \in Task
         /\ IdOf[First(IdOf[t])] = IdOf[t]
         /\ PlanOf[First(IdOf[t])] = PlanOf[t]
         /\ Last(IdOf[t]) \in Task
         /\ IdOf[Last(IdOf[t])] = IdOf[t]
         /\ PlanOf[Last(IdOf[t])] = PlanOf[t]
<1> DEFINE Same == {u \in Task : IdOf[u] = IdOf[t]}
<1>1. Same \in SUBSET Int /\ IsFiniteSet(Same) /\ Same # {}
  <2>1. Same \in SUBSET Task /\ t \in Same
    OBVIOUS
  <2>2. IsFiniteSet(Task) /\ Task \in SUBSET Int
    BY PlanAssumption
  <2>3. IsFiniteSet(Same)
    <3> HIDE DEF Same
    <3> QED BY <2>1, <2>2, FS_Subset
  <2>4. Same \in SUBSET Int /\ Same # {}
    <3> HIDE DEF Same
    <3> QED BY <2>1, <2>2
  <2> QED BY <2>3, <2>4
<1>2. \E u \in Task : IdOf[u] = IdOf[t] /\ \A v \in Task : IdOf[v] = IdOf[t] => u <= v
  <2>1. PICK u \in Same : \A v \in Same : u <= v
    <3> HIDE DEF Same
    <3> QED BY <1>1, LeastElement
  <2> QED BY <2>1
<1>3. \E u \in Task : IdOf[u] = IdOf[t] /\ \A v \in Task : IdOf[v] = IdOf[t] => v <= u
  <2>1. PICK u \in Same : \A v \in Same : v <= u
    <3> HIDE DEF Same
    <3> QED BY <1>1, GreatestElement
  <2> QED BY <2>1
<1>4. First(IdOf[t]) \in Task /\ IdOf[First(IdOf[t])] = IdOf[t]
  BY <1>2 DEF First
<1>5. Last(IdOf[t]) \in Task /\ IdOf[Last(IdOf[t])] = IdOf[t]
  BY <1>3 DEF Last
<1> QED BY <1>4, <1>5, PlanAssumption

(* With different ids every lookup meets the task that was meant.          *)
LEMMA LookupExact ==
  ASSUME DistinctIds, NEW t \in Task
  PROVE  First(IdOf[t]) = t /\ Last(IdOf[t]) = t
BY LookupFinds DEF DistinctIds

LEMMA TargetType == \A j \in Task : Target(j) \in Task /\ PlanOf[Target(j)] = PlanOf[j]
BY LookupFinds DEF Target

LEMMA SettingsType ==
  ASSUME NEW s \in Settings
  PROVE  /\ s.team_size \in Persistent
         /\ s.max_parallel_tasks \in Nat
         /\ s.max_ephemeral_subagents \in Nat
         /\ \A a \in Persistent : s.roles[a] \in Roles
         /\ s.roles[1] \in Roles
BY TeamAssumption DEF TeamRuntimeSettings, Persistent

(* A semaphore is created with at least one permit.                        *)
LEMMA LimitType ==
  ASSUME settings \in Settings, NEW cap \in EphemeralCapacity
  PROVE  EffectiveParallelLimit(cap) \in Nat /\ EffectiveParallelLimit(cap) >= 1
<1>1. cap \in Nat /\ settings.team_size \in Nat /\ settings.max_parallel_tasks \in Nat
  BY SettingsType DEF EphemeralCapacity, Persistent
<1> QED BY <1>1 DEF EffectiveParallelLimit, MaxOf, MinOf

LEMMA PoolFinite ==
  /\ IsFiniteSet(AgentId)
  /\ IsFiniteSet(PersistentAgents) /\ Cardinality(PersistentAgents) \in Nat
<1>1. IsFiniteSet(Persistent)
  BY FS_Interval, TeamAssumption DEF Persistent
<1>2. IsFiniteSet(Ephemeral)
  BY FS_Interval, TeamAssumption DEF Ephemeral
<1>3. PersistentAgents \in SUBSET Persistent
  BY DEF PersistentAgents
<1> QED BY <1>1, <1>2, <1>3, FS_Union, FS_Subset, FS_CardinalityType DEF AgentId

-----------------------------------------------------------------------------
(* Each operation of the pool keeps its type.                              *)
LEMMA AcquireIdleType ==
  ASSUME TeamTypeOK, NEW id \in TaskId, NEW role, NEW a, AcquireIdle(id, role, a)
  PROVE  TeamTypeOK' /\ a \in AgentId
<1>1. a \in AgentId
  BY DEF AcquireIdle, IdleFor
<1>2. [subagents[a] EXCEPT !.state = "Assigned", !.task = id] \in Subagent
  BY <1>1 DEF TeamTypeOK, Subagent, AgentState
<1>3. subagents' \in [AgentId -> Subagent]
  BY <1>2 DEF TeamTypeOK, AcquireIdle
<1> QED BY <1>1, <1>3 DEF TeamTypeOK, AcquireIdle

LEMMA AcquireEphemeralType ==
  ASSUME TeamTypeOK, NEW id \in TaskId, NEW role \in Roles \cup {NoRole}, NEW a,
         AcquireEphemeral(id, role, a)
  PROVE  TeamTypeOK' /\ a \in Ephemeral
<1>1. a \in Ephemeral
  BY TeamAssumption DEF AcquireEphemeral, TeamTypeOK, Ephemeral
<1>2. settings.roles[1] \in Roles
  BY SettingsType DEF TeamTypeOK
<1>3. [role |-> IF role = NoRole THEN settings.roles[1] ELSE role,
       state |-> "Assigned", task |-> id] \in Subagent
  BY <1>2 DEF Subagent, AgentState
<1>4. subagents' \in [AgentId -> Subagent]
  BY <1>3 DEF TeamTypeOK, AcquireEphemeral
<1>5. next_ephemeral_id' \in 1..(MaxSpawns + 1)
  BY TeamAssumption DEF TeamTypeOK, AcquireEphemeral
<1> QED BY <1>1, <1>4, <1>5 DEF TeamTypeOK, AcquireEphemeral

LEMMA MarkRunningType ==
  ASSUME TeamTypeOK, NEW a, MarkRunning(a)
  PROVE  TeamTypeOK'
<1>1. ASSUME a \in AgentId
      PROVE  [subagents[a] EXCEPT !.state = "Running"] \in Subagent
  BY <1>1 DEF TeamTypeOK, Subagent, AgentState
<1>2. subagents' \in [AgentId -> Subagent]
  BY <1>1 DEF TeamTypeOK, MarkRunning
<1> QED BY <1>2 DEF TeamTypeOK, MarkRunning

LEMMA AgentRecords ==
  /\ NoAgent \in Subagent
  /\ \A r \in Roles : IdleAgent(r) \in Subagent
BY DEF NoAgent, IdleAgent, Subagent, AgentState

LEMMA ReleaseType ==
  ASSUME TeamTypeOK, NEW a, NEW failed \in BOOLEAN, Release(a, failed)
  PROVE  TeamTypeOK'
<1>1. ASSUME a \in AgentId
      PROVE  [subagents[a] EXCEPT !.state = IF failed THEN "Failed" ELSE "Idle",
                                  !.task = NoTask] \in Subagent
  BY <1>1 DEF TeamTypeOK, Subagent, AgentState
<1>2. subagents' \in [AgentId -> Subagent]
  BY <1>1, AgentRecords DEF TeamTypeOK, Release
<1> QED BY <1>2 DEF TeamTypeOK, Release

LEMMA WriteSettingsType ==
  ASSUME TeamTypeOK, NEW s \in Settings, WriteSettings(s)
  PROVE  TeamTypeOK'
<1>1. applies' \in 0..MaxApplies /\ applying' \in 0..applies'
  BY TeamAssumption DEF TeamTypeOK, WriteSettings
<1> QED BY <1>1 DEF TeamTypeOK, WriteSettings

LEMMA PoolParts == \A a : ~(a \in Persistent /\ a \in Ephemeral)
BY TeamAssumption DEF Persistent, Ephemeral

LEMMA ReconciledType ==
  ASSUME TeamTypeOK, NEW a \in AgentId
  PROVE  Reconciled(a) \in Subagent
<1>1. CASE a \in Ephemeral \/ subagents[a].task # NoTask
  <2>1. Reconciled(a) = subagents[a]
    BY <1>1, PoolParts DEF Reconciled
  <2> QED BY <2>1 DEF TeamTypeOK
<1>2. CASE a \notin Ephemeral /\ subagents[a].task = NoTask
  <2>1. a \in Persistent
    BY <1>2 DEF AgentId
  <2>2. settings.roles[a] \in Roles
    BY <2>1, SettingsType DEF TeamTypeOK
  <2>3. subagents[a] \in Subagent
    BY DEF TeamTypeOK
  <2>4. [subagents[a] EXCEPT !.role = settings.roles[a]] \in Subagent
    BY <2>2, <2>3 DEF Subagent
  <2>5. Reconciled(a) \in {NoAgent, IdleAgent(settings.roles[a]),
                           [subagents[a] EXCEPT !.role = settings.roles[a]]}
    BY <1>2, <2>1 DEF Reconciled
  <2> QED BY <2>2, <2>4, <2>5, AgentRecords
<1> QED BY <1>1, <1>2

LEMMA ReconcilePoolType ==
  ASSUME TeamTypeOK, ReconcilePool
  PROVE  TeamTypeOK'
<1>1. subagents' \in [AgentId -> Subagent]
  BY ReconciledType DEF ReconcilePool
<1>2. applying' \in 0..applies'
  BY TeamAssumption DEF TeamTypeOK, ReconcilePool
<1> QED BY <1>1, <1>2 DEF TeamTypeOK, ReconcilePool

-----------------------------------------------------------------------------
SchedTypeOK ==
  /\ phase \in [Plan -> {"new", "joining", "done"}]
  /\ limit \in [Plan -> Nat]
  /\ state \in [Task -> TaskState]
  /\ attempts \in [Task -> Nat]
  /\ review_loops \in [Task -> Nat]

JobTypeOK ==
  /\ stage \in [Task -> Stage]
  /\ held \in [Task -> AgentId \cup {0}]
  /\ base \in [Task -> Nat]
  /\ outcome \in [Task -> Outcome \cup {"none"}]

LEMMA TypeParts ==
  /\ TypeOK <=> TeamTypeOK /\ SchedTypeOK /\ JobTypeOK
  /\ TypeOK' <=> TeamTypeOK' /\ SchedTypeOK' /\ JobTypeOK'
BY DEF TypeOK, SchedTypeOK, JobTypeOK

LEMMA TypeInit == Init => TypeOK
<1> SUFFICES ASSUME Init PROVE TypeOK
  OBVIOUS
<1>1. subagents \in [AgentId -> Subagent]
  <2>1. \A a \in AgentId : a <= InitialSettings.team_size => a \in Persistent
    BY TeamAssumption, SettingsType DEF AgentId, Persistent, Ephemeral
  <2>2. \A a \in Persistent : IdleAgent(InitialSettings.roles[a]) \in Subagent
    BY TeamAssumption, SettingsType, AgentRecords
  <2> QED BY <2>1, <2>2, AgentRecords DEF Init, TeamInit
<1>2. TeamTypeOK
  BY <1>1, TeamAssumption DEF Init, TeamInit, TeamTypeOK
<1>3. SchedTypeOK
  BY DEF Init, SchedTypeOK, TaskState
<1>4. JobTypeOK
  BY DEF Init, JobTypeOK, Stage
<1> QED BY <1>2, <1>3, <1>4, TypeParts

LEMMA PromotedType ==
  ASSUME NEW s \in [Task -> TaskState], NEW p
  PROVE  Promoted(p, s) \in [Task -> TaskState]
BY DEF Promoted, TaskState

(* Either way out of the loop head keeps the types it can disturb.         *)
LEMMA LoopHeadType ==
  ASSUME TypeOK, NEW p \in Plan, NEW s \in [Task -> TaskState], LoopHead(p, s)
  PROVE  /\ phase' \in [Plan -> {"new", "joining", "done"}]
         /\ state' \in [Task -> TaskState]
         /\ JobTypeOK'
<1>1. CASE FinishPlan(p, s)
  BY <1>1 DEF FinishPlan, TypeOK, JobTypeOK, jobVars, TaskState
<1>2. CASE SpawnBatch(p, s)
  <2>1. base' \in [Task -> Nat]
    BY <1>2, TargetType DEF SpawnBatch, TypeOK
  <2>2. stage' \in [Task -> Stage]
    BY <1>2 DEF SpawnBatch, TypeOK, Stage
  <2>3. state' \in [Task -> TaskState]
    BY <1>2 DEF SpawnBatch, TaskState
  <2> QED BY <1>2, <2>1, <2>2, <2>3 DEF SpawnBatch, TypeOK, JobTypeOK
<1> QED BY <1>1, <1>2 DEF LoopHead

LEMMA TypeStep == TypeOK /\ [Next]_vars => TypeOK'
<1> SUFFICES ASSUME TypeOK, [Next]_vars PROVE TypeOK'
  OBVIOUS
<1> USE TypeParts
<1>1. ASSUME NEW p \in Plan, StartPlan(p) PROVE TypeOK'
  <2>1. state \in [Task -> TaskState] /\ LoopHead(p, state) /\ TeamTypeOK'
    BY <1>1 DEF StartPlan, TypeOK, teamVars, TeamTypeOK
  <2>2. PICK cap \in EphemeralCapacity, burst_cap \in EphemeralCapacity :
          limit' = [limit EXCEPT ![p] =
                     IF p \in Burst
                     THEN MaxOf(EffectiveParallelLimit(cap),
                                Cardinality(PersistentAgents) + burst_cap)
                     ELSE EffectiveParallelLimit(cap)]
    BY <1>1 DEF StartPlan
  <2>3. burst_cap \in Nat
    BY SettingsType DEF EphemeralCapacity, TypeOK, TeamTypeOK
  <2>4. EffectiveParallelLimit(cap) \in Nat
    BY LimitType DEF TypeOK, TeamTypeOK
  <2>5. limit' \in [Plan -> Nat]
    BY <2>2, <2>3, <2>4, PoolFinite DEF TypeOK, MaxOf
  <2>6. SchedTypeOK'
    BY <1>1, <2>1, <2>5, LoopHeadType DEF StartPlan, SchedTypeOK
  <2> QED BY <2>1, <2>6, LoopHeadType
<1>2. ASSUME NEW p \in Plan, NextBatch(p) PROVE TypeOK'
  <2>1. Promoted(p, state) \in [Task -> TaskState]
    BY PromotedType DEF TypeOK
  <2>2. LoopHead(p, Promoted(p, state)) /\ TeamTypeOK'
    BY <1>2 DEF NextBatch, TypeOK, teamVars, TeamTypeOK
  <2>3. SchedTypeOK'
    BY <1>2, <2>1, <2>2, LoopHeadType DEF NextBatch, SchedTypeOK
  <2> QED BY <2>1, <2>2, <2>3, LoopHeadType
<1>3. ASSUME NEW j \in Task, Join(j) PROVE TypeOK'
  <2>1. Target(j) \in Task
    BY TargetType
  <2>2. /\ attempts' \in [Task -> Nat]
        /\ review_loops' \in [Task -> Nat]
    BY <1>3, <2>1 DEF Join, TypeOK, CountedLoop
  <2>3. state' \in [Task -> TaskState]
    BY <1>3, <2>1 DEF Join, TypeOK, TaskState
  <2>4. SchedTypeOK'
    BY <1>3, <2>2, <2>3 DEF Join, TypeOK, SchedTypeOK
  <2>5. JobTypeOK'
    BY <1>3 DEF Join, TypeOK, JobTypeOK, Stage
  <2>6. TeamTypeOK'
    BY <1>3 DEF Join, teamVars, TypeOK, TeamTypeOK
  <2> QED BY <2>4, <2>5, <2>6
<1>4. ASSUME NEW j \in Task, AcquirePermit(j) PROVE TypeOK'
  <2>1. JobTypeOK'
    BY <1>4 DEF AcquirePermit, TypeOK, JobTypeOK, Stage
  <2> QED BY <1>4, <2>1
          DEF AcquirePermit, schedVars, teamVars, SchedTypeOK, TeamTypeOK
<1>5. ASSUME NEW j \in Task, NEW a \in AgentId, AcquireAgent(j, a) PROVE TypeOK'
  <2>1. RoleOf[Target(j)] \in Roles \cup {NoRole} /\ IdOf[j] \in TaskId
    BY TargetType, PlanAssumption
  <2>2. TeamTypeOK'
    BY <1>5, <2>1, AcquireIdleType, AcquireEphemeralType DEF AcquireAgent
  <2>3. JobTypeOK'
    BY <1>5 DEF AcquireAgent, TypeOK, JobTypeOK, Stage
  <2> QED BY <1>5, <2>2, <2>3 DEF AcquireAgent, schedVars, SchedTypeOK
<1>6. ASSUME NEW j \in Task, NoAgentFound(j) PROVE TypeOK'
  <2>1. JobTypeOK'
    BY <1>6 DEF NoAgentFound, TypeOK, JobTypeOK, Stage, Outcome
  <2> QED BY <1>6, <2>1
          DEF NoAgentFound, AcquireNone, schedVars, teamVars, SchedTypeOK, TeamTypeOK
<1>7. ASSUME NEW j \in Task, StartWork(j) PROVE TypeOK'
  <2>1. TeamTypeOK'
    BY <1>7, MarkRunningType DEF StartWork
  <2>2. JobTypeOK'
    BY <1>7 DEF StartWork, TypeOK, JobTypeOK, Stage
  <2> QED BY <1>7, <2>1, <2>2 DEF StartWork, schedVars, SchedTypeOK
<1>8. ASSUME NEW j \in Task, NEW o \in Outcome, FinishWork(j, o) PROVE TypeOK'
  <2>1. TeamTypeOK'
    BY <1>8, ReleaseType DEF FinishWork
  <2>2. JobTypeOK'
    BY <1>8 DEF FinishWork, TypeOK, JobTypeOK, Stage
  <2> QED BY <1>8, <2>1, <2>2 DEF FinishWork, schedVars, SchedTypeOK
<1>9. ASSUME ApplySettings PROVE TypeOK'
  <2>1. TeamTypeOK'
    BY <1>9, WriteSettingsType, ReconcilePoolType DEF ApplySettings
  <2> QED BY <1>9, <2>1 DEF ApplySettings, schedVars, jobVars, SchedTypeOK, JobTypeOK
<1>10. ASSUME UNCHANGED vars PROVE TypeOK'
  BY <1>10 DEF vars, teamVars, schedVars, jobVars, TypeOK, TeamTypeOK
<1> QED BY <1>1, <1>2, <1>3, <1>4, <1>5, <1>6, <1>7, <1>8, <1>9, <1>10
        DEF Next, JobStep, Terminated

(* Every reachable state is well typed: in particular the semaphores of    *)
(* the scheduler loops are natural numbers whatever the resource monitor   *)
(* says, and the pool has one record per slot.                             *)
THEOREM TypeCorrect == Spec => []TypeOK
BY TypeInit, TypeStep, PTL DEF Spec

-----------------------------------------------------------------------------
(* The bookkeeping behind the slots.  SlotExclusivity alone is not         *)
(* inductive: an acquisition looks at a subagent's state, so states, tasks *)
(* and holders have to agree for every subagent, and a subagent that is to *)
(* be spawned has to be one nobody has.                                    *)
HolderInv ==
  \A j \in Task : Holds(j) =>
    /\ held[j] \in AgentId
    /\ Busy(held[j])
    /\ subagents[held[j]].task = IdOf[j]
    /\ RoleOf[Target(j)] \in {NoRole, subagents[held[j]].role}

ExclusiveInv ==
  \A j, k \in Task : Holds(j) /\ Holds(k) /\ held[j] = held[k] => j = k

OwnerInv ==
  \A a \in AgentId : Busy(a) => \E j \in Task : Holds(j) /\ held[j] = a

BusyInv == \A a \in AgentId : Busy(a) <=> subagents[a].task # NoTask

EphemeralInv == \A a \in Ephemeral : Present(a) => Busy(a)

FreshInv ==
  \A a \in Ephemeral : a >= MaxTeamSize + next_ephemeral_id => ~Present(a)

SlotInv ==
  /\ HolderInv /\ ExclusiveInv /\ OwnerInv
  /\ BusyInv /\ EphemeralInv /\ FreshInv

(* Jobs exist only between the start and the end of their plan.            *)
QuietInv ==
  \A p \in Plan : phase[p] # "joining" => \A j \in TasksOf(p) : stage[j] = "none"

LEMMA SlotInit == Init => SlotInv /\ QuietInv
<1> SUFFICES ASSUME Init PROVE SlotInv /\ QuietInv
  OBVIOUS
<1>1. \A j \in Task : ~Holds(j) /\ stage[j] = "none"
  BY DEF Init, Holds
<1>2. \A a \in AgentId : ~Busy(a) /\ subagents[a].task = NoTask
  BY DEF Init, TeamInit, Busy, IdleAgent, NoAgent
<1>3. \A a \in Ephemeral : ~Present(a)
  <2>1. ASSUME NEW a \in Ephemeral PROVE a \in AgentId /\ ~(a <= InitialSettings.team_size)
    BY TeamAssumption, SettingsType DEF AgentId, Ephemeral, Persistent
  <2> QED BY <2>1 DEF Init, TeamInit, Present, NoAgent
<1>4. HolderInv /\ ExclusiveInv
  BY <1>1 DEF HolderInv, ExclusiveInv
<1>5. OwnerInv /\ BusyInv
  BY <1>2 DEF OwnerInv, BusyInv
<1>6. EphemeralInv /\ FreshInv
  BY <1>3 DEF EphemeralInv, FreshInv
<1>7. QuietInv
  BY <1>1 DEF QuietInv, TasksOf
<1> QED BY <1>4, <1>5, <1>6, <1>7 DEF SlotInv

(* A step that neither touches the pool nor what jobs hold.                *)
LEMMA SlotFrame ==
  ASSUME SlotInv, UNCHANGED <<subagents, next_ephemeral_id, held>>,
         \A j \in Task : Holds(j)' <=> Holds(j)
  PROVE  SlotInv'
<1>1. \A a : (Busy(a)' <=> Busy(a)) /\ (Present(a)' <=> Present(a))
  BY DEF Busy, Present
<1>2. HolderInv' /\ ExclusiveInv' /\ OwnerInv'
  BY <1>1 DEF SlotInv, HolderInv, ExclusiveInv, OwnerInv
<1>3. BusyInv' /\ EphemeralInv' /\ FreshInv'
  BY <1>1 DEF SlotInv, BusyInv, EphemeralInv, FreshInv
<1> QED BY <1>2, <1>3 DEF SlotInv

(* The scheduler touches only jobs that are queued or done.                *)
LEMMA LoopHeadSlots ==
  ASSUME TypeOK, NEW p \in Plan, NEW s, LoopHead(p, s),
         \A j \in TasksOf(p) : stage[j] = "none"
  PROVE  /\ \A j \in Task : Holds(j)' <=> Holds(j)
         /\ \A j \in Task : j \notin TasksOf(p) => stage'[j] = stage[j]
         /\ \A j \in TasksOf(p) : stage'[j] \in {"none", "queued"}
         /\ phase'[p] \in {"joining", "done"}
         /\ phase'[p] # "joining" => \A j \in TasksOf(p) : stage'[j] = "none"
         /\ \A q \in Plan : q # p => phase'[q] = phase[q]
         /\ UNCHANGED held
<1>1. \A j \in TasksOf(p) : j \in Task
  BY DEF TasksOf
<1>2. CASE FinishPlan(p, s)
  BY <1>1, <1>2 DEF FinishPlan, jobVars, Holds, TypeOK
<1>3. CASE SpawnBatch(p, s)
  <2>1. ReadyTasks(p, s) \subseteq TasksOf(p)
    BY DEF ReadyTasks
  <2>2. \A j \in Task : stage'[j] = IF j \in ReadyTasks(p, s) THEN "queued" ELSE stage[j]
    BY <1>3 DEF SpawnBatch
  <2>3. \A j \in Task : Holds(j)' <=> Holds(j)
    BY <2>1, <2>2 DEF Holds
  <2> QED BY <1>1, <1>3, <2>1, <2>2, <2>3 DEF SpawnBatch, TypeOK
<1> QED BY <1>2, <1>3 DEF LoopHead

LEMMA QuietStep == TypeOK /\ QuietInv /\ [Next]_vars => QuietInv'
<1> SUFFICES ASSUME TypeOK, QuietInv, [Next]_vars PROVE QuietInv'
  OBVIOUS
<1>1. ASSUME NEW p \in Plan, NEW s, LoopHead(p, s),
             \A j \in TasksOf(p) : stage[j] = "none"
      PROVE  QuietInv'
  <2>1. ASSUME NEW q \in Plan, q # p, phase'[q] # "joining", NEW j \in TasksOf(q)
        PROVE  stage'[j] = "none"
    <3>1. j \in Task /\ j \notin TasksOf(p)
      BY <2>1 DEF TasksOf
    <3> QED BY <1>1, <2>1, <3>1, LoopHeadSlots DEF QuietInv
  <2> QED BY <1>1, <2>1, LoopHeadSlots DEF QuietInv, TasksOf
<1>2. ASSUME NEW p \in Plan, StartPlan(p) PROVE QuietInv'
  BY <1>1, <1>2 DEF StartPlan, QuietInv
<1>3. ASSUME NEW p \in Plan, NextBatch(p) PROVE QuietInv'
  BY <1>1, <1>3 DEF NextBatch
<1>4. ASSUME NEW j \in Task, UNCHANGED phase, stage[j] # "none",
             NEW st, stage' = [stage EXCEPT ![j] = st]
      PROVE  QuietInv'
  <2>1. \A p \in Plan : phase[p] # "joining" => j \notin TasksOf(p)
    BY <1>4 DEF QuietInv
  <2> QED BY <1>4, <2>1 DEF QuietInv, TasksOf, TypeOK
<1>5. ASSUME NEW j \in Task, Join(j) PROVE QuietInv'
  BY <1>4, <1>5 DEF Join
<1>6. ASSUME NEW j \in Task, JobStep(j) PROVE QuietInv'
  <2>1. CASE AcquirePermit(j)
    BY <1>4, <2>1 DEF AcquirePermit, schedVars
  <2>2. ASSUME NEW a \in AgentId, AcquireAgent(j, a) PROVE QuietInv'
    BY <1>4, <2>2 DEF AcquireAgent, schedVars
  <2>3. CASE NoAgentFound(j)
    BY <1>4, <2>3 DEF NoAgentFound, schedVars
  <2>4. CASE StartWork(j)
    BY <1>4, <2>4 DEF StartWork, schedVars
  <2>5. ASSUME NEW o \in Outcome, FinishWork(j, o) PROVE QuietInv'
    BY <1>4, <2>5 DEF FinishWork, schedVars
  <2> QED BY <1>6, <2>1, <2>2, <2>3, <2>4, <2>5 DEF JobStep
<1>7. CASE ApplySettings
  BY <1>7 DEF ApplySettings, schedVars, jobVars, QuietInv
<1>8. CASE UNCHANGED vars
  BY <1>8 DEF vars, schedVars, jobVars, QuietInv
<1> QED BY <1>2, <1>3, <1>5, <1>6, <1>7, <1>8 DEF Next, Terminated

LEMMA AcquireSlots ==
  ASSUME TypeOK, SlotInv, NEW j \in Task, NEW a \in AgentId, AcquireAgent(j, a)
  PROVE  SlotInv'
<1>1. TeamTypeOK /\ stage \in [Task -> Stage] /\ held \in [Task -> AgentId \cup {0}]
  BY DEF TypeOK
<1>2. /\ \A k \in Task : Holds(k)' <=> Holds(k) \/ k = j
      /\ \A k \in Task : held'[k] = IF k = j THEN a ELSE held[k]
      /\ ~Holds(j)
  BY <1>1 DEF AcquireAgent, Holds
<1>3. /\ ~Busy(a)
      /\ subagents'[a].state = "Assigned" /\ subagents'[a].task = IdOf[j]
      /\ RoleOf[Target(j)] \in {NoRole, subagents'[a].role}
      /\ \A b \in AgentId : b # a => subagents'[b] = subagents[b]
      /\ \A b \in Ephemeral : b >= MaxTeamSize + next_ephemeral_id' =>
           b # a /\ b >= MaxTeamSize + next_ephemeral_id
  <2>1. CASE AcquireIdle(IdOf[j], RoleOf[Target(j)], a)
    <3>1. subagents[a] \in Subagent
      BY <1>1 DEF TeamTypeOK
    <3>2. a \notin Ephemeral \/ (Present(a) /\ ~Busy(a))
      BY <2>1 DEF AcquireIdle, IdleFor, Present, Busy
    <3>3. a \notin Ephemeral
      BY <3>2 DEF SlotInv, EphemeralInv
    <3> QED BY <1>1, <2>1, <3>1, <3>3
            DEF AcquireIdle, IdleFor, Busy, TeamTypeOK, Subagent
  <2>2. CASE AcquireEphemeral(IdOf[j], RoleOf[Target(j)], a)
    <3>1. a \in Ephemeral /\ a = MaxTeamSize + next_ephemeral_id
      BY <1>1, <2>2, PlanAssumption, TeamAssumption
         DEF AcquireEphemeral, TeamTypeOK, Ephemeral
    <3>2. ~Present(a) /\ ~Busy(a)
      BY <3>1, TeamAssumption DEF SlotInv, FreshInv, Present, Busy, Ephemeral
    <3>3. \A b \in Ephemeral : b >= MaxTeamSize + next_ephemeral_id' =>
            b # a /\ b >= MaxTeamSize + next_ephemeral_id
      BY <1>1, <2>2, <3>1, TeamAssumption DEF AcquireEphemeral, TeamTypeOK, Ephemeral
    <3> QED BY <1>1, <2>2, <3>2, <3>3 DEF AcquireEphemeral, TeamTypeOK
  <2> QED BY <2>1, <2>2 DEF AcquireAgent
<1>4. \A k \in Task : Holds(k) => held[k] \in AgentId /\ held[k] # a
  BY <1>3 DEF SlotInv, HolderInv
<1>5. \A b \in AgentId : /\ Busy(b)' <=> Busy(b) \/ b = a
                         /\ b # a => (Present(b)' <=> Present(b))
  BY <1>3 DEF Busy, Present
<1>6. HolderInv'
  BY <1>2, <1>3, <1>4, <1>5 DEF SlotInv, HolderInv
<1>7. ExclusiveInv'
  BY <1>2, <1>4 DEF SlotInv, ExclusiveInv
<1>8. OwnerInv'
  BY <1>2, <1>4, <1>5 DEF SlotInv, OwnerInv
<1>9. BusyInv'
  <2>1. IdOf[j] # NoTask
    BY PlanAssumption, TeamAssumption
  <2> QED BY <1>3, <1>5, <2>1 DEF SlotInv, BusyInv
<1>10. EphemeralInv' /\ FreshInv'
  <2>1. \A b \in Ephemeral : b \in AgentId
    BY DEF AgentId
  <2> QED BY <1>3, <1>5, <2>1 DEF SlotInv, EphemeralInv, FreshInv
<1> QED BY <1>6, <1>7, <1>8, <1>9, <1>10 DEF SlotInv

LEMMA StartWorkSlots ==
  ASSUME TypeOK, SlotInv, NEW j \in Task, StartWork(j)
  PROVE  SlotInv'
<1>1. TeamTypeOK /\ stage \in [Task -> Stage]
  BY DEF TypeOK
<1>2. (\A k \in Task : Holds(k)' <=> Holds(k)) /\ UNCHANGED held
  BY <1>1 DEF StartWork, Holds
<1>3. held[j] \in AgentId /\ Busy(held[j])
  BY DEF StartWork, Holds, SlotInv, HolderInv
<1>4. \A a \in AgentId : /\ subagents'[a].task = subagents[a].task
                         /\ subagents'[a].role = subagents[a].role
                         /\ Busy(a)' <=> Busy(a)
                         /\ Present(a)' <=> Present(a)
  <2>1. \A a \in AgentId : subagents[a] \in Subagent
    BY <1>1 DEF TeamTypeOK
  <2>2. \A a \in AgentId :
          subagents'[a] = IF a = held[j] THEN [subagents[a] EXCEPT !.state = "Running"]
                          ELSE subagents[a]
    BY <1>1, <1>3 DEF StartWork, MarkRunning, TeamTypeOK
  <2> QED BY <1>3, <2>1, <2>2 DEF Busy, Present, Subagent
<1>5. HolderInv' /\ ExclusiveInv' /\ OwnerInv'
  BY <1>2, <1>4 DEF SlotInv, HolderInv, ExclusiveInv, OwnerInv
<1>6. BusyInv' /\ EphemeralInv' /\ FreshInv'
  BY <1>4 DEF SlotInv, BusyInv, EphemeralInv, FreshInv, StartWork, MarkRunning, AgentId
<1> QED BY <1>5, <1>6 DEF SlotInv

LEMMA FinishWorkSlots ==
  ASSUME TypeOK, SlotInv, NEW j \in Task, NEW o, FinishWork(j, o)
  PROVE  SlotInv'
<1> DEFINE a == held[j]
<1>1. /\ TeamTypeOK /\ stage \in [Task -> Stage]
      /\ held \in [Task -> AgentId \cup {0}]
  BY DEF TypeOK
<1>2. Holds(j) /\ a \in AgentId
  BY DEF FinishWork, Holds, SlotInv, HolderInv
<1>3. \A k \in Task : /\ Holds(k)' <=> Holds(k) /\ k # j
                      /\ k # j => held'[k] = held[k]
  BY <1>1 DEF FinishWork, Holds
<1>4. \A k \in Task : Holds(k) /\ k # j => held[k] # a
  BY <1>2 DEF SlotInv, ExclusiveInv
<1>5. /\ \A b \in AgentId : b # a => subagents'[b] = subagents[b]
      /\ subagents'[a].task = NoTask
      /\ subagents'[a].state \in {"Absent", "Idle", "Failed"}
      /\ a \in Ephemeral => subagents'[a].state = "Absent"
      /\ UNCHANGED next_ephemeral_id
  BY <1>1, <1>2 DEF FinishWork, Release, TeamTypeOK, Subagent, NoAgent
<1>6. \A b \in AgentId : /\ Busy(b)' <=> Busy(b) /\ b # a
                         /\ b # a => (Present(b)' <=> Present(b))
  BY <1>2, <1>5 DEF Busy, Present
<1>7. HolderInv'
  BY <1>3, <1>4, <1>5, <1>6 DEF SlotInv, HolderInv
<1>8. ExclusiveInv'
  BY <1>3 DEF SlotInv, ExclusiveInv
<1>9. OwnerInv'
  BY <1>3, <1>6 DEF SlotInv, OwnerInv
<1>10. BusyInv'
  BY <1>5, <1>6 DEF SlotInv, BusyInv
<1>11. EphemeralInv' /\ FreshInv'
  <2>1. \A b \in Ephemeral : b \in AgentId
    BY DEF AgentId
  <2> QED BY <1>5, <1>6, <2>1 DEF SlotInv, EphemeralInv, FreshInv, Present
<1> QED BY <1>7, <1>8, <1>9, <1>10, <1>11 DEF SlotInv

(* Reconciliation replaces the records of subagents nobody holds.          *)
LEMMA ReconcileSlots ==
  ASSUME TypeOK, SlotInv, ReconcilePool, UNCHANGED <<schedVars, jobVars>>
  PROVE  SlotInv'
<1>1. TeamTypeOK /\ UNCHANGED <<stage, held, next_ephemeral_id>>
  BY DEF TypeOK, jobVars, ReconcilePool
<1>2. \A k \in Task : Holds(k)' <=> Holds(k)
  BY <1>1 DEF Holds
<1>3. \A a \in AgentId : a \in Ephemeral \/ Busy(a) => subagents'[a] = subagents[a]
  BY PoolParts DEF ReconcilePool, Reconciled, SlotInv, BusyInv
<1>4. \A a \in AgentId : a \notin Ephemeral /\ ~Busy(a) =>
        subagents'[a].task = NoTask /\ ~Busy(a)'
  <2> SUFFICES ASSUME NEW a \in AgentId, a \notin Ephemeral, ~Busy(a)
               PROVE  subagents'[a].task = NoTask /\ ~Busy(a)'
    OBVIOUS
  <2>1. a \in Persistent /\ subagents[a].task = NoTask /\ subagents[a] \in Subagent
    BY <1>1 DEF AgentId, SlotInv, BusyInv, TeamTypeOK
  <2>2. subagents'[a] \in {NoAgent, IdleAgent(settings.roles[a]),
                           [subagents[a] EXCEPT !.role = settings.roles[a]]}
    BY <2>1 DEF ReconcilePool, Reconciled
  <2> QED BY <2>1, <2>2 DEF NoAgent, IdleAgent, Busy, Subagent
<1>5. \A a \in AgentId : Busy(a)' <=> Busy(a)
  BY <1>3, <1>4 DEF Busy
<1>6. HolderInv' /\ ExclusiveInv' /\ OwnerInv'
  BY <1>1, <1>2, <1>3, <1>5 DEF SlotInv, HolderInv, ExclusiveInv, OwnerInv
<1>7. BusyInv'
  BY <1>3, <1>4, <1>5 DEF SlotInv, BusyInv
<1>8. EphemeralInv' /\ FreshInv'
  <2>1. \A b \in Ephemeral : b \in AgentId
    BY DEF AgentId
  <2> QED BY <1>1, <1>3, <1>5, <2>1 DEF SlotInv, EphemeralInv, FreshInv, Present
<1> QED BY <1>6, <1>7, <1>8 DEF SlotInv

LEMMA SlotStep == TypeOK /\ QuietInv /\ SlotInv /\ [Next]_vars => SlotInv'
<1> SUFFICES ASSUME TypeOK, QuietInv, SlotInv, [Next]_vars PROVE SlotInv'
  OBVIOUS
<1>1. ASSUME NEW p \in Plan, StartPlan(p) PROVE SlotInv'
  BY <1>1, LoopHeadSlots, SlotFrame DEF StartPlan, QuietInv, teamVars
<1>2. ASSUME NEW p \in Plan, NextBatch(p) PROVE SlotInv'
  BY <1>2, LoopHeadSlots, SlotFrame DEF NextBatch, teamVars
<1>3. ASSUME NEW j \in Task, Join(j) PROVE SlotInv'
  <2>1. \A k \in Task : Holds(k)' <=> Holds(k)
    BY <1>3 DEF Join, TypeOK, Holds
  <2> QED BY <1>3, <2>1, SlotFrame DEF Join, teamVars
<1>4. ASSUME NEW j \in Task, AcquirePermit(j) PROVE SlotInv'
  <2>1. \A k \in Task : Holds(k)' <=> Holds(k)
    BY <1>4 DEF AcquirePermit, TypeOK, Holds
  <2> QED BY <1>4, <2>1, SlotFrame DEF AcquirePermit, teamVars
<1>5. ASSUME NEW j \in Task, NoAgentFound(j) PROVE SlotInv'
  <2>1. \A k \in Task : Holds(k)' <=> Holds(k)
    BY <1>5 DEF NoAgentFound, TypeOK, Holds
  <2> QED BY <1>5, <2>1, SlotFrame DEF NoAgentFound, AcquireNone, teamVars
<1>6. ASSUME NEW j \in Task, JobStep(j) PROVE SlotInv'
  BY <1>4, <1>5, <1>6, AcquireSlots, StartWorkSlots, FinishWorkSlots DEF JobStep
<1>7. CASE ApplySettings
  <2>1. ASSUME NEW s \in Settings, WriteSettings(s), UNCHANGED jobVars PROVE SlotInv'
    BY <2>1, SlotFrame DEF WriteSettings, jobVars, Holds
  <2> QED BY <1>7, <2>1, ReconcileSlots DEF ApplySettings
<1>8. CASE UNCHANGED vars
  BY <1>8, SlotFrame DEF vars, teamVars, jobVars, Holds
<1> QED BY <1>1, <1>2, <1>3, <1>6, <1>7, <1>8 DEF Next, Terminated

LEMMA SlotsInvariant == Spec => [](TypeOK /\ QuietInv /\ SlotInv)
<1>1. Init => TypeOK /\ QuietInv /\ SlotInv
  BY TypeInit, SlotInit
<1>2. TypeOK /\ QuietInv /\ SlotInv /\ [Next]_vars => (TypeOK /\ QuietInv /\ SlotInv)'
  BY TypeStep, QuietStep, SlotStep
<1> QED BY <1>1, <1>2, PTL DEF Spec

(* No two jobs ever hold the same subagent, and what a job holds is the    *)
(* subagent the pool lists as busy with that job's task: acquisition,      *)
(* release and reconciliation interleave in any order.                     *)
THEOREM SlotsAreExclusive == Spec => []SlotExclusivity
<1>1. SlotInv => SlotExclusivity
  BY DEF SlotInv, HolderInv, ExclusiveInv, SlotExclusivity
<1> QED BY <1>1, SlotsInvariant, PTL

(* A busy subagent, and an ephemeral one that exists, is held by a job, so *)
(* no path through run_one_task leaves a slot behind.                      *)
THEOREM SlotsDoNotLeak == Spec => []NoSlotLeak
<1>1. SlotInv => NoSlotLeak
  BY DEF SlotInv, OwnerInv, EphemeralInv, NoSlotLeak
<1> QED BY <1>1, SlotsInvariant, PTL

(* A job with a candidate role keeps a subagent of that role while it      *)
(* works, whatever settings are applied.                                   *)
THEOREM RolesAreRespected == Spec => []RoleRespected
<1>1. SlotInv => RoleRespected
  BY DEF SlotInv, HolderInv, RoleRespected
<1> QED BY <1>1, SlotsInvariant, PTL

-----------------------------------------------------------------------------
(* The semaphore of each plan.                                             *)
LimitInv ==
  \A p \in Plan : phase[p] # "new" =>
    limit[p] >= 1 /\ Cardinality(InFlight(p)) <= limit[p]

LEMMA InFlightFinite ==
  ASSUME NEW p
  PROVE  /\ IsFiniteSet(InFlight(p)) /\ Cardinality(InFlight(p)) \in Nat
         /\ IsFiniteSet(InFlight(p)') /\ Cardinality(InFlight(p)') \in Nat
<1>1. InFlight(p) \in SUBSET Task /\ InFlight(p)' \in SUBSET Task
  BY DEF InFlight, TasksOf
<1>2. IsFiniteSet(Task)
  BY PlanAssumption
<1>3. IsFiniteSet(InFlight(p)) /\ IsFiniteSet(InFlight(p)')
  BY <1>1, <1>2, FS_Subset
<1> QED BY <1>3, FS_CardinalityType

(* A step that gives nobody a permit keeps every plan within its limit.    *)
LEMMA LimitFrame ==
  ASSUME LimitInv, UNCHANGED <<phase, limit>>, TypeOK,
         \A p \in Plan : InFlight(p)' \subseteq InFlight(p)
  PROVE  LimitInv'
<1> SUFFICES ASSUME NEW p \in Plan, phase[p] # "new"
             PROVE  limit[p] >= 1 /\ Cardinality(InFlight(p)') <= limit[p]
  BY DEF LimitInv
<1>1. InFlight(p)' \in SUBSET InFlight(p)
  OBVIOUS
<1>2. Cardinality(InFlight(p)') <= Cardinality(InFlight(p))
  BY <1>1, InFlightFinite, FS_Subset
<1>3. limit[p] \in Nat /\ limit[p] >= 1 /\ Cardinality(InFlight(p)) <= limit[p]
  BY DEF LimitInv, TypeOK
<1> QED BY <1>2, <1>3, InFlightFinite

LEMMA LimitInit == Init => LimitInv
BY DEF Init, LimitInv

(* At the loop head of a plan none of its jobs is in flight.               *)
LEMMA LoopHeadLimit ==
  ASSUME TypeOK, LimitInv, NEW p \in Plan, NEW s, LoopHead(p, s),
         \A j \in TasksOf(p) : stage[j] = "none",
         \A q \in Plan : q # p => limit'[q] = limit[q],
         limit'[p] \in Nat, limit'[p] >= 1
  PROVE  LimitInv'
<1>1. \A q \in Plan : q # p => InFlight(q)' = InFlight(q)
  <2>1. \A q \in Plan : q # p =>
          \A j \in TasksOf(q) : j \in Task /\ j \notin TasksOf(p)
    BY DEF TasksOf
  <2> QED BY <2>1, LoopHeadSlots DEF InFlight
<1>2. InFlight(p)' = {}
  BY LoopHeadSlots DEF InFlight
<1>3. Cardinality(InFlight(p)') = 0
  BY <1>2, FS_EmptySet
<1>4. ASSUME NEW q \in Plan, phase'[q] # "new", q # p
      PROVE  limit'[q] >= 1 /\ Cardinality(InFlight(q)') <= limit'[q]
  BY <1>1, <1>4, LoopHeadSlots DEF LimitInv
<1> QED BY <1>3, <1>4 DEF LimitInv

LEMMA LimitStep == TypeOK /\ QuietInv /\ LimitInv /\ [Next]_vars => LimitInv'
<1> SUFFICES ASSUME TypeOK, QuietInv, LimitInv, [Next]_vars PROVE LimitInv'
  OBVIOUS
<1>1. ASSUME NEW p \in Plan, StartPlan(p) PROVE LimitInv'
  <2>1. LoopHead(p, state) /\ \A j \in TasksOf(p) : stage[j] = "none"
    BY <1>1 DEF StartPlan, QuietInv
  <2>2. PICK cap \in EphemeralCapacity, burst_cap \in EphemeralCapacity :
          limit' = [limit EXCEPT ![p] =
                     IF p \in Burst
                     THEN MaxOf(EffectiveParallelLimit(cap),
                                Cardinality(PersistentAgents) + burst_cap)
                     ELSE EffectiveParallelLimit(cap)]
    BY <1>1 DEF StartPlan
  <2>3. burst_cap \in Nat
    BY SettingsType DEF EphemeralCapacity, TypeOK, TeamTypeOK
  <2>4. EffectiveParallelLimit(cap) \in Nat /\ EffectiveParallelLimit(cap) >= 1
    BY LimitType DEF TypeOK, TeamTypeOK
  <2>5. /\ limit'[p] \in Nat /\ limit'[p] >= 1
        /\ \A q \in Plan : q # p => limit'[q] = limit[q]
    BY <2>2, <2>3, <2>4, PoolFinite DEF TypeOK, MaxOf
  <2> QED BY <2>1, <2>5, LoopHeadLimit
<1>2. ASSUME NEW p \in Plan, NextBatch(p) PROVE LimitInv'
  <2>1. limit'[p] \in Nat /\ limit'[p] >= 1
    BY <1>2 DEF NextBatch, LimitInv, TypeOK
  <2> QED BY <1>2, <2>1, LoopHeadLimit DEF NextBatch
<1>3. ASSUME NEW j \in Task, AcquirePermit(j) PROVE LimitInv'
  <2> SUFFICES ASSUME NEW p \in Plan, phase[p] # "new"
               PROVE  limit[p] >= 1 /\ Cardinality(InFlight(p)') <= limit[p]
    BY <1>3 DEF LimitInv, AcquirePermit, schedVars
  <2>1. limit[p] \in Nat /\ limit[p] >= 1 /\ Cardinality(InFlight(p)) <= limit[p]
    BY DEF LimitInv, TypeOK
  <2>2. CASE p = PlanOf[j]
    <3>1. InFlight(p)' = InFlight(p) \cup {j}
      BY <1>3, <2>2 DEF AcquirePermit, InFlight, TypeOK, TasksOf
    <3>2. Cardinality(InFlight(p) \cup {j}) \in
            {Cardinality(InFlight(p)), Cardinality(InFlight(p)) + 1}
      BY FS_AddElement, InFlightFinite
    <3>3. Cardinality(InFlight(p)) < limit[p]
      BY <1>3, <2>2 DEF AcquirePermit
    <3> QED BY <2>1, <3>1, <3>2, <3>3, InFlightFinite
  <2>3. CASE p # PlanOf[j]
    <3>1. InFlight(p)' = InFlight(p)
      BY <1>3, <2>3 DEF AcquirePermit, InFlight, TypeOK, TasksOf
    <3> QED BY <2>1, <3>1
  <2> QED BY <2>2, <2>3
<1>4. ASSUME UNCHANGED <<phase, limit>>, NEW j \in Task,
             stage[j] \in {"permitted", "assigned", "running"},
             \A k \in Task : k # j => stage'[k] = stage[k]
      PROVE  LimitInv'
  <2>1. \A p \in Plan : InFlight(p)' \subseteq InFlight(p)
    BY <1>4 DEF InFlight, TasksOf
  <2> QED BY <1>4, <2>1, LimitFrame
<1>5. ASSUME NEW j \in Task, Join(j) PROVE LimitInv'
  <2>1. /\ stage[j] = "finished" /\ stage' = [stage EXCEPT ![j] = "none"]
        /\ UNCHANGED <<phase, limit>>
    BY <1>5 DEF Join
  <2>2. \A p \in Plan : InFlight(p)' \subseteq InFlight(p)
    BY <2>1 DEF InFlight, TypeOK
  <2> QED BY <2>1, <2>2, LimitFrame
<1>6. ASSUME NEW j \in Task, NEW a \in AgentId, AcquireAgent(j, a) PROVE LimitInv'
  BY <1>4, <1>6 DEF AcquireAgent, schedVars, TypeOK
<1>7. ASSUME NEW j \in Task, NoAgentFound(j) PROVE LimitInv'
  BY <1>4, <1>7 DEF NoAgentFound, schedVars, TypeOK
<1>8. ASSUME NEW j \in Task, StartWork(j) PROVE LimitInv'
  BY <1>4, <1>8 DEF StartWork, schedVars, TypeOK
<1>9. ASSUME NEW j \in Task, NEW o \in Outcome, FinishWork(j, o) PROVE LimitInv'
  BY <1>4, <1>9 DEF FinishWork, schedVars, TypeOK
<1>10. ASSUME UNCHANGED <<schedVars, jobVars>> PROVE LimitInv'
  <2>1. \A p \in Plan : InFlight(p)' = InFlight(p)
    BY <1>10 DEF jobVars, InFlight
  <2> QED BY <1>10, <2>1, LimitFrame DEF schedVars
<1> QED BY <1>1, <1>2, <1>3, <1>5, <1>6, <1>7, <1>8, <1>9, <1>10
        DEF Next, JobStep, ApplySettings, Terminated, vars

LEMMA WorkingBounded ==
  ASSUME SlotInv, NEW p \in Plan
  PROVE  Cardinality(Working(p)) \in Nat /\ Cardinality(Working(p)) <= Cardinality(InFlight(p))
<1> DEFINE H == {j \in InFlight(p) : Holds(j)}
           f == [j \in H |-> held[j]]
<1>1. H \in SUBSET InFlight(p)
  OBVIOUS
<1>2. IsFiniteSet(H) /\ Cardinality(H) <= Cardinality(InFlight(p))
  <2> HIDE DEF H
  <2> QED BY <1>1, InFlightFinite, FS_Subset
<1>3. f \in Surjection(H, Working(p))
  <2>1. \A j \in H : held[j] \in Working(p)
    BY DEF InFlight, TasksOf, Working, SlotInv, HolderInv
  <2>2. \A a \in Working(p) : \E j \in H : held[j] = a
    BY DEF InFlight, Working, Holds
  <2> HIDE DEF H
  <2> QED BY <2>1, <2>2 DEF Surjection
<1>4. IsFiniteSet(Working(p)) /\ Cardinality(Working(p)) <= Cardinality(H)
  <2> HIDE DEF f, H
  <2> QED BY <1>2, <1>3, FS_Surjection
<1>5. Cardinality(Working(p)) \in Nat /\ Cardinality(H) \in Nat
  BY <1>2, <1>4, FS_CardinalityType
<1> HIDE DEF H
<1> QED BY <1>2, <1>4, <1>5, InFlightFinite

(* The subagents that work for a plan never outnumber the permits it was   *)
(* started with, also when settings and resources change meanwhile.        *)
THEOREM ParallelismIsBounded == Spec => []ParallelBound
<1>1. TypeOK /\ SlotInv /\ QuietInv /\ LimitInv => ParallelBound
  <2> SUFFICES ASSUME TypeOK, SlotInv, QuietInv, LimitInv, NEW p \in Plan
               PROVE  /\ Cardinality(Working(p)) <= limit[p]
                      /\ phase[p] # "new" => limit[p] >= 1
    BY DEF ParallelBound
  <2>1. limit[p] \in Nat
    BY DEF TypeOK
  <2>2. CASE phase[p] # "new"
    BY <2>1, <2>2, WorkingBounded, InFlightFinite DEF LimitInv
  <2>3. CASE phase[p] = "new"
    <3>1. InFlight(p) = {}
      BY <2>3 DEF QuietInv, InFlight
    <3>2. Cardinality(InFlight(p)) = 0
      BY <3>1, FS_EmptySet
    <3> QED BY <2>1, <2>3, <3>2, WorkingBounded
  <2> QED BY <2>2, <2>3
<1>2. Spec => []LimitInv
  <2>1. TypeOK /\ QuietInv /\ SlotInv /\ LimitInv /\ [Next]_vars => LimitInv'
    BY LimitStep
  <2> QED BY <2>1, LimitInit, SlotsInvariant, PTL DEF Spec
<1> QED BY <1>1, <1>2, SlotsInvariant, PTL

-----------------------------------------------------------------------------
(* A step after which every persistent slot that was there still is.       *)
LEMMA PoolFrame ==
  ASSUME PoolCoversTeam, TypeOK, UNCHANGED <<settings, applying>>,
         \A a \in Persistent : Present(a) => Present(a)'
  PROVE  PoolCoversTeam'
<1>1. settings.team_size \in 1..MaxTeamSize
  BY SettingsType DEF TypeOK, TeamTypeOK, Persistent
<1>2. \A a \in 1..settings.team_size : a \in Persistent
  BY <1>1, TeamAssumption DEF Persistent
<1> QED BY <1>2 DEF PoolCoversTeam

LEMMA PoolInit == Init => PoolCoversTeam
<1> SUFFICES ASSUME Init, NEW a \in 1..settings.team_size PROVE Present(a)
  BY DEF PoolCoversTeam
<1>1. settings = InitialSettings /\ settings.team_size \in 1..MaxTeamSize
  BY TeamAssumption, SettingsType DEF Init, TeamInit, Persistent
<1>2. a \in AgentId /\ a <= InitialSettings.team_size
  BY <1>1, TeamAssumption DEF AgentId, Persistent
<1> QED BY <1>2 DEF Init, TeamInit, Present, IdleAgent

LEMMA PoolStep == TypeOK /\ SlotInv /\ PoolCoversTeam /\ [Next]_vars => PoolCoversTeam'
<1> SUFFICES ASSUME TypeOK, SlotInv, PoolCoversTeam, [Next]_vars PROVE PoolCoversTeam'
  OBVIOUS
<1>1. ASSUME UNCHANGED teamVars PROVE PoolCoversTeam'
  BY <1>1 DEF teamVars, PoolCoversTeam, Present
<1>2. ASSUME NEW j \in Task, NEW a \in AgentId, AcquireAgent(j, a) PROVE PoolCoversTeam'
  <2>1. \A b \in Persistent : Present(b) => Present(b)'
    <3>1. \A b \in AgentId : subagents[b] \in Subagent /\ (b # a => subagents'[b] = subagents[b])
      BY <1>2 DEF AcquireAgent, AcquireIdle, AcquireEphemeral, TypeOK, TeamTypeOK
    <3>2. subagents'[a].state = "Assigned"
      <4>1. CASE AcquireIdle(IdOf[j], RoleOf[Target(j)], a)
        BY <3>1, <4>1 DEF AcquireIdle, TypeOK, TeamTypeOK, Subagent
      <4>2. CASE AcquireEphemeral(IdOf[j], RoleOf[Target(j)], a)
        BY <4>2 DEF AcquireEphemeral, TypeOK, TeamTypeOK
      <4> QED BY <1>2, <4>1, <4>2 DEF AcquireAgent
    <3> QED BY <3>1, <3>2 DEF Present, AgentId
  <2> QED BY <1>2, <2>1, PoolFrame DEF AcquireAgent, AcquireIdle, AcquireEphemeral
<1>3. ASSUME NEW j \in Task, StartWork(j) PROVE PoolCoversTeam'
  <2>1. \A b \in Persistent : Present(b) => Present(b)'
    BY <1>3 DEF StartWork, MarkRunning, TypeOK, TeamTypeOK, Subagent, Present, AgentId
  <2> QED BY <1>3, <2>1, PoolFrame DEF StartWork, MarkRunning
<1>4. ASSUME NEW j \in Task, NEW o, FinishWork(j, o) PROVE PoolCoversTeam'
  <2>1. \A b \in Persistent : Present(b) => Present(b)'
    <3> SUFFICES ASSUME NEW b \in Persistent, Present(b) PROVE Present(b)'
      OBVIOUS
    <3>1. b \in AgentId /\ b \notin Ephemeral /\ subagents[b] \in Subagent
      BY PoolParts DEF AgentId, TypeOK, TeamTypeOK
    <3>2. subagents'[b] = subagents[b] \/ subagents'[b].state \in {"Idle", "Failed"}
      BY <1>4, <3>1 DEF FinishWork, Release, TypeOK, TeamTypeOK, Subagent
    <3> QED BY <3>2 DEF Present
  <2> QED BY <1>4, <2>1, PoolFrame DEF FinishWork, Release
<1>5. ASSUME NEW s \in Settings, WriteSettings(s) PROVE PoolCoversTeam'
  <2>1. applying' # 0
    BY <1>5, TeamAssumption DEF WriteSettings, TypeOK, TeamTypeOK
  <2> QED BY <2>1 DEF PoolCoversTeam
<1>6. ASSUME ReconcilePool PROVE PoolCoversTeam'
  <2> SUFFICES ASSUME NEW a \in 1..settings.team_size PROVE Present(a)'
    BY <1>6 DEF ReconcilePool, PoolCoversTeam
  <2>1. settings.team_size \in 1..MaxTeamSize
    BY SettingsType DEF TypeOK, TeamTypeOK, Persistent
  <2>2. a \in Persistent /\ a \in AgentId /\ a <= settings.team_size
    BY <2>1, TeamAssumption DEF AgentId, Persistent
  <2>3. subagents'[a] = Reconciled(a) /\ a \notin Ephemeral /\ subagents[a] \in Subagent
    BY <1>6, <2>2, PoolParts DEF ReconcilePool, TypeOK, TeamTypeOK
  <2>4. CASE subagents[a].task # NoTask
    BY <2>2, <2>3, <2>4 DEF SlotInv, BusyInv, Busy, Reconciled, Present
  <2>5. CASE subagents[a].task = NoTask
    <3>1. ~(a > settings.team_size)
      BY <2>1, <2>2 DEF Persistent
    <3>2. subagents'[a] = IF Present(a)
                          THEN [subagents[a] EXCEPT !.role = settings.roles[a]]
                          ELSE IdleAgent(settings.roles[a])
      BY <2>2, <2>3, <2>5, <3>1 DEF Reconciled
    <3> QED BY <2>3, <3>2 DEF Present, IdleAgent, Subagent
  <2> QED BY <2>4, <2>5
<1> QED BY <1>1, <1>2, <1>3, <1>4, <1>5, <1>6
        DEF Next, JobStep, ApplySettings, Terminated, vars, StartPlan, NextBatch, Join,
            AcquirePermit, NoAgentFound, AcquireNone

(* Settings applied by several callers at once, their two halves           *)
(* interleaved, never leave the pool short of a slot of the settings in    *)
(* force.                                                                  *)
THEOREM PoolIsComplete == Spec => []PoolCoversTeam
<1>1. TypeOK /\ QuietInv /\ SlotInv /\ PoolCoversTeam /\ [Next]_vars => PoolCoversTeam'
  BY PoolStep
<1> QED BY <1>1, PoolInit, SlotsInvariant, PTL DEF Spec

-----------------------------------------------------------------------------
(* What follows is about the tasks of a plan, whose ids must differ: with  *)
(* two tasks of one id the statements are false (see README.md).           *)
(*                                                                         *)
(* The invariants take the task states as a parameter, because the loop    *)
(* head works on the states before or after promotion.                     *)
Verdicts == {"Accepted", "Completed"}

DepsInv(s) == \A t \in Task : s[t] # "Pending" => DepsAccepted(s, t)

RunInv(s) == \A t \in Task : s[t] = "Running" <=> stage[t] # "none"

SettledInv(s) ==
  \A t \in Task : phase[PlanOf[t]] = "done" =>
    \/ s[t] \in {"Accepted", "Completed", "Failed"}
    \/ s[t] = "Pending" /\ ~DepsAccepted(s, t)

(* A task that may run again has budget left for what its job will add.    *)
BudgetInv(s) ==
  \A t \in Task :
    /\ review_loops[t] <= MaxReviewLoops
    /\ attempts[t] <= MaxRetries + 1
    /\ attempts[t] <= review_loops[t] + 1
    /\ s[t] \notin {"Accepted", "Completed", "Failed"} =>
         attempts[t] <= MaxRetries /\ attempts[t] <= review_loops[t]
    /\ stage[t] # "none" => base[t] = attempts[t]

TaskInv(s) == DepsInv(s) /\ RunInv(s) /\ SettledInv(s) /\ BudgetInv(s)

(* Dependencies are tasks of the same plan.                                *)
LEMMA DepsLocal ==
  ASSUME NEW t \in Task, NEW d \in Deps[t]
  PROVE  Last(d) \in Task /\ PlanOf[Last(d)] = PlanOf[t] /\ IdOf[Last(d)] = d
<1>1. PICK u \in Task : IdOf[u] = d /\ PlanOf[u] = PlanOf[t]
  BY PlanAssumption
<1> QED BY <1>1, LookupFinds

(* What is accepted stays accepted, so satisfied dependencies stay so.     *)
LEMMA DepsMonotone ==
  ASSUME NEW s, NEW r, NEW t \in Task, DepsAccepted(s, t),
         \A u \in Task : s[u] \in Verdicts => r[u] \in Verdicts
  PROVE  DepsAccepted(r, t)
BY DepsLocal DEF DepsAccepted, Verdicts

LEMMA DepsSame ==
  ASSUME NEW s, NEW r, NEW t \in Task,
         \A u \in Task : PlanOf[u] = PlanOf[t] => (s[u] \in Verdicts <=> r[u] \in Verdicts)
  PROVE  DepsAccepted(s, t) <=> DepsAccepted(r, t)
BY DepsLocal DEF DepsAccepted, Verdicts

LEMMA PromotedTasks ==
  ASSUME TypeOK, NEW p \in Plan, TaskInv(state), phase[p] # "done"
  PROVE  /\ TaskInv(Promoted(p, state))
         /\ \A t \in Task : t \notin TasksOf(p) => Promoted(p, state)[t] = state[t]
         /\ \A t \in Task : Promoted(p, state)[t] \in Verdicts <=> state[t] \in Verdicts
<1> DEFINE r == Promoted(p, state)
<1>1. \A t \in Task : \/ r[t] = state[t]
                      \/ /\ t \in TasksOf(p)
                         /\ r[t] = "Ready"
                         /\ state[t] \in {"Pending", "Retrying"}
                         /\ DepsAccepted(state, t)
  BY DEF Promoted
<1>2. \A t \in Task : t \notin TasksOf(p) => r[t] = state[t]
  BY <1>1
<1>3. \A t \in Task : r[t] \in Verdicts <=> state[t] \in Verdicts
  BY <1>1 DEF Verdicts
<1> HIDE DEF r
<1>4. \A t \in Task : DepsAccepted(r, t) <=> DepsAccepted(state, t)
  BY <1>3, DepsSame
<1>5. DepsInv(r) /\ RunInv(r)
  BY <1>1, <1>4 DEF TaskInv, DepsInv, RunInv
<1>6. SettledInv(r)
  <2>1. \A t \in Task : phase[PlanOf[t]] = "done" => r[t] = state[t]
    BY <1>2 DEF TasksOf
  <2> QED BY <1>4, <2>1 DEF TaskInv, SettledInv
<1>7. BudgetInv(r)
  BY <1>1 DEF TaskInv, BudgetInv
<1> QED BY <1>2, <1>3, <1>5, <1>6, <1>7 DEF TaskInv, r

(* Both ways out of the loop head.                                         *)
LEMMA FinishPlanTasks ==
  ASSUME TypeOK, NEW p \in Plan, NEW s \in [Task -> TaskState], TaskInv(s),
         FinishPlan(p, s), \A j \in TasksOf(p) : stage[j] = "none",
         UNCHANGED <<attempts, review_loops>>
  PROVE  TaskInv(state)'
<1>1. /\ \A t \in Task : \/ state'[t] = s[t]
                         \/ state'[t] = "Completed" /\ s[t] = "Accepted"
      /\ \A t \in Task : t \notin TasksOf(p) => state'[t] = s[t]
      /\ UNCHANGED <<stage, base>>
      /\ \A q \in Plan : q # p => phase'[q] = phase[q]
  BY DEF FinishPlan, jobVars, TypeOK
<1>2. \A t \in Task : DepsAccepted(s, t) <=> DepsAccepted(state', t)
  BY <1>1, DepsSame DEF Verdicts
<1>3. DepsInv(state)' /\ RunInv(state)'
  BY <1>1, <1>2 DEF TaskInv, DepsInv, RunInv
<1>4. SettledInv(state)'
  <2> SUFFICES ASSUME NEW t \in Task, phase'[PlanOf[t]] = "done"
               PROVE  \/ state'[t] \in {"Accepted", "Completed", "Failed"}
                      \/ state'[t] = "Pending" /\ ~DepsAccepted(state', t)
    BY DEF SettledInv
  <2>1. CASE PlanOf[t] # p
    <3>1. PlanOf[t] \in Plan
      BY PlanAssumption
    <3> QED BY <1>1, <1>2, <2>1, <3>1 DEF TaskInv, SettledInv
  <2>2. CASE PlanOf[t] = p
    <3>1. t \in TasksOf(p) /\ t \notin ReadyTasks(p, s)
      BY <2>2 DEF TasksOf, FinishPlan
    <3>2. s[t] \in {"Pending", "Ready", "Retrying"} => ~DepsAccepted(s, t)
      BY <3>1 DEF ReadyTasks
    <3>3. s[t] # "Running" /\ s[t] \in TaskState
      BY <3>1 DEF TaskInv, RunInv
    <3>4. s[t] \in {"Ready", "Retrying"} => DepsAccepted(s, t)
      BY DEF TaskInv, DepsInv
    <3> QED BY <1>1, <1>2, <3>2, <3>3, <3>4 DEF TaskState
  <2> QED BY <2>1, <2>2
<1>5. BudgetInv(state)'
  BY <1>1 DEF TaskInv, BudgetInv
<1> QED BY <1>3, <1>4, <1>5 DEF TaskInv

LEMMA SpawnBatchTasks ==
  ASSUME DistinctIds, TypeOK, NEW p \in Plan, NEW s \in [Task -> TaskState], TaskInv(s),
         SpawnBatch(p, s), phase[p] # "done",
         UNCHANGED <<attempts, review_loops>>
  PROVE  /\ TaskInv(state)'
         /\ \A t \in Task : state'[t] = IF t \in ReadyTasks(p, s) THEN "Running" ELSE s[t]
<1> DEFINE ready == ReadyTasks(p, s)
<1>1. \A t \in Task : Target(t) = t
  BY LookupExact DEF Target
<1>2. \A t \in ready : /\ t \in TasksOf(p) /\ t \in Task
                       /\ s[t] \in {"Pending", "Ready", "Retrying"}
                       /\ DepsAccepted(s, t)
  BY DEF ReadyTasks, TasksOf
<1>3. /\ \A t \in Task : state'[t] = IF t \in ready THEN "Running" ELSE s[t]
      /\ \A t \in Task : stage'[t] = IF t \in ready THEN "queued" ELSE stage[t]
      /\ \A t \in Task : base'[t] = IF t \in ready THEN attempts[t] ELSE base[t]
      /\ \A q \in Plan : phase'[q] = "done" => q # p /\ phase[q] = "done"
  BY <1>1, <1>2 DEF SpawnBatch, TypeOK
<1> HIDE DEF ready
<1>4. \A t \in Task : s[t] \in Verdicts <=> state'[t] \in Verdicts
  BY <1>2, <1>3 DEF Verdicts
<1>5. \A t \in Task : DepsAccepted(s, t) <=> DepsAccepted(state', t)
  BY <1>4, DepsSame
<1>6. DepsInv(state)' /\ RunInv(state)'
  BY <1>2, <1>3, <1>5 DEF TaskInv, DepsInv, RunInv
<1>7. SettledInv(state)'
  <2>1. \A t \in Task : PlanOf[t] \in Plan
    BY PlanAssumption
  <2>2. \A t \in Task : phase'[PlanOf[t]] = "done" => t \notin ready /\ phase[PlanOf[t]] = "done"
    BY <1>2, <1>3, <2>1 DEF TasksOf
  <2> QED BY <1>3, <1>5, <2>2 DEF TaskInv, SettledInv
<1>8. BudgetInv(state)'
  BY <1>2, <1>3 DEF TaskInv, BudgetInv
<1> QED BY <1>3, <1>6, <1>7, <1>8 DEF TaskInv, ready

(* The verdict on a job: what it adds was still within the budget.         *)
LEMMA JoinVerdict ==
  ASSUME DistinctIds, TypeOK, NEW j \in Task, Join(j), TaskInv(state)
  PROVE  /\ Target(j) = j /\ stage[j] = "finished" /\ state[j] = "Running"
         /\ \A t \in Task : t # j => /\ state'[t] = state[t]
                                     /\ attempts'[t] = attempts[t]
                                     /\ review_loops'[t] = review_loops[t]
                                     /\ stage'[t] = stage[t]
         /\ stage'[j] = "none"
         /\ attempts'[j] \in {attempts[j], attempts[j] + 1}
         /\ \/ state'[j] = "Accepted" /\ review_loops'[j] = review_loops[j]
            \/ /\ state'[j] = "Retrying"
               /\ attempts'[j] <= MaxRetries
               /\ review_loops[j] < MaxReviewLoops
               /\ review_loops'[j] = review_loops[j] + 1
            \/ /\ state'[j] = "Failed"
               /\ attempts'[j] > MaxRetries \/ review_loops[j] >= MaxReviewLoops
               /\ review_loops'[j] = review_loops[j]
<1>1. Target(j) = j
  BY LookupExact DEF Target
<1>2. stage[j] = "finished" /\ state[j] = "Running" /\ base[j] = attempts[j]
  BY DEF Join, TaskInv, RunInv, BudgetInv
<1>3. /\ stage'[j] = "none"
      /\ \A t \in Task : t # j => /\ state'[t] = state[t]
                                  /\ attempts'[t] = attempts[t]
                                  /\ review_loops'[t] = review_loops[t]
                                  /\ stage'[t] = stage[t]
  BY <1>1 DEF Join, TypeOK
<1>4. PICK tries : /\ tries = base[j] + (IF outcome[j] = "no_subagent" THEN 0 ELSE 1)
                   /\ attempts'[j] = tries
                   /\ \/ state'[j] = "Accepted" /\ review_loops'[j] = review_loops[j]
                      \/ /\ state'[j] = "Retrying"
                         /\ MayRetry(j, tries)
                         /\ review_loops'[j] = review_loops[j] + 1
                      \/ /\ state'[j] = "Failed"
                         /\ ~MayRetry(j, tries)
                         /\ review_loops'[j] = review_loops[j]
  <2> DEFINE tries == base[j] + (IF outcome[j] = "no_subagent" THEN 0 ELSE 1)
             retry == outcome[j] # "accepted" /\ MayRetry(j, tries)
  <2>1. attempts' = [attempts EXCEPT ![j] = tries]
    BY <1>1 DEF Join
  <2>2. state' = [state EXCEPT ![j] = IF outcome[j] = "accepted" THEN "Accepted"
                                      ELSE IF retry THEN "Retrying" ELSE "Failed"]
    BY <1>1 DEF Join
  <2>3. review_loops' = [review_loops EXCEPT ![j] = IF retry THEN review_loops[j] + 1 ELSE @]
    BY <1>1 DEF Join, CountedLoop
  <2> HIDE DEF tries
  <2>4. /\ attempts'[j] = tries
        /\ state'[j] = IF outcome[j] = "accepted" THEN "Accepted"
                       ELSE IF retry THEN "Retrying" ELSE "Failed"
        /\ review_loops'[j] = IF retry THEN review_loops[j] + 1 ELSE review_loops[j]
    BY <2>1, <2>2, <2>3 DEF TypeOK
  <2> QED BY <2>4 DEF tries
<1>5. attempts[j] \in Nat /\ review_loops[j] \in Nat
  BY DEF TypeOK
<1>6. attempts'[j] \in {attempts[j], attempts[j] + 1}
  BY <1>2, <1>4, <1>5
<1>7. ~MayRetry(j, attempts'[j]) =>
        attempts'[j] > MaxRetries \/ review_loops[j] >= MaxReviewLoops
  BY <1>5, <1>6, PlanAssumption DEF MayRetry
<1> QED BY <1>1, <1>2, <1>3, <1>4, <1>6, <1>7 DEF MayRetry

LEMMA JoinTasks ==
  ASSUME DistinctIds, TypeOK, QuietInv, NEW j \in Task, Join(j), TaskInv(state)
  PROVE  TaskInv(state)'
<1>1. /\ state[j] = "Running" /\ stage[j] = "finished"
      /\ \A t \in Task : t # j => /\ state'[t] = state[t]
                                  /\ attempts'[t] = attempts[t]
                                  /\ review_loops'[t] = review_loops[t]
                                  /\ stage'[t] = stage[t]
      /\ stage'[j] = "none"
      /\ UNCHANGED <<phase, base>>
  BY JoinVerdict DEF Join
<1>2. state'[j] \in {"Accepted", "Retrying", "Failed"}
  BY JoinVerdict
<1>3. DepsInv(state)'
  <2>1. \A u \in Task : state[u] \in Verdicts => state'[u] \in Verdicts
    BY <1>1 DEF Verdicts
  <2>2. \A t \in Task : DepsAccepted(state, t) => DepsAccepted(state', t)
    BY <2>1, DepsMonotone
  <2> QED BY <1>1, <2>2 DEF TaskInv, DepsInv
<1>4. RunInv(state)'
  BY <1>1, <1>2 DEF TaskInv, RunInv
<1>5. SettledInv(state)'
  <2>1. phase[PlanOf[j]] # "done"
    BY <1>1, PlanAssumption DEF QuietInv, TasksOf
  <2> SUFFICES ASSUME NEW t \in Task, phase[PlanOf[t]] = "done"
               PROVE  \/ state'[t] \in {"Accepted", "Completed", "Failed"}
                      \/ state'[t] = "Pending" /\ ~DepsAccepted(state', t)
    BY <1>1 DEF SettledInv
  <2>2. \A u \in Task : PlanOf[u] = PlanOf[t] => state'[u] = state[u]
    BY <1>1, <2>1
  <2>3. DepsAccepted(state, t) <=> DepsAccepted(state', t)
    BY <2>2, DepsSame
  <2> QED BY <2>2, <2>3 DEF TaskInv, SettledInv
<1>6. BudgetInv(state)'
  <2> SUFFICES ASSUME NEW t \in Task
               PROVE  /\ review_loops'[t] <= MaxReviewLoops
                      /\ attempts'[t] <= MaxRetries + 1
                      /\ attempts'[t] <= review_loops'[t] + 1
                      /\ state'[t] \notin {"Accepted", "Completed", "Failed"} =>
                           attempts'[t] <= MaxRetries /\ attempts'[t] <= review_loops'[t]
                      /\ stage'[t] # "none" => base'[t] = attempts'[t]
    BY DEF BudgetInv
  <2>1. CASE t # j
    BY <1>1, <2>1 DEF TaskInv, BudgetInv
  <2>2. CASE t = j
    <3>1. attempts[j] <= MaxRetries /\ attempts[j] <= review_loops[j]
          /\ review_loops[j] <= MaxReviewLoops
      BY <1>1 DEF TaskInv, BudgetInv
    <3>2. attempts[j] \in Nat /\ review_loops[j] \in Nat /\ MaxRetries \in Nat /\ MaxReviewLoops \in Nat
      BY PlanAssumption DEF TypeOK
    <3>3. attempts'[j] \in {attempts[j], attempts[j] + 1}
      BY JoinVerdict
    <3>4. CASE state'[j] = "Retrying"
      <4>1. attempts'[j] <= MaxRetries /\ review_loops[j] < MaxReviewLoops
            /\ review_loops'[j] = review_loops[j] + 1
        BY <3>4, JoinVerdict
      <4> QED BY <1>1, <2>2, <3>1, <3>2, <3>3, <4>1
    <3>5. CASE state'[j] # "Retrying"
      <4>1. review_loops'[j] = review_loops[j] /\ state'[j] \in {"Accepted", "Failed"}
        BY <3>5, JoinVerdict
      <4> QED BY <1>1, <2>2, <3>1, <3>2, <3>3, <4>1
    <3> QED BY <3>4, <3>5
  <2> QED BY <2>1, <2>2
<1> QED BY <1>3, <1>4, <1>5, <1>6 DEF TaskInv

LEMMA TaskInit == Init => TaskInv(state)
<1> SUFFICES ASSUME Init PROVE TaskInv(state)
  OBVIOUS
<1>1. DepsInv(state)
  BY DEF Init, DepsInv, DepsAccepted
<1>2. RunInv(state)
  BY DEF Init, RunInv
<1>3. SettledInv(state)
  BY PlanAssumption DEF Init, SettledInv
<1>4. BudgetInv(state)
  BY PlanAssumption DEF Init, BudgetInv
<1> QED BY <1>1, <1>2, <1>3, <1>4 DEF TaskInv

(* The steps of a job between its spawn and its join.                      *)
LEMMA JobStepTasks ==
  ASSUME TypeOK, TaskInv(state), UNCHANGED <<schedVars, base>>,
         \A t \in Task : stage'[t] # "none" <=> stage[t] # "none"
  PROVE  TaskInv(state)'
<1>1. DepsInv(state)' /\ SettledInv(state)'
  BY DEF TaskInv, DepsInv, SettledInv, DepsAccepted, schedVars
<1>2. RunInv(state)'
  BY DEF TaskInv, RunInv, schedVars
<1>3. BudgetInv(state)'
  BY DEF TaskInv, BudgetInv, schedVars
<1> QED BY <1>1, <1>2, <1>3 DEF TaskInv

LEMMA JobStepFrame ==
  ASSUME TypeOK, NEW j \in Task, JobStep(j)
  PROVE  /\ UNCHANGED <<schedVars, base>>
         /\ \A t \in Task : stage'[t] # "none" <=> stage[t] # "none"
<1>1. CASE AcquirePermit(j)
  BY <1>1 DEF AcquirePermit, TypeOK
<1>2. ASSUME NEW a \in AgentId, AcquireAgent(j, a)
      PROVE  /\ UNCHANGED <<schedVars, base>>
             /\ \A t \in Task : stage'[t] # "none" <=> stage[t] # "none"
  BY <1>2 DEF AcquireAgent, TypeOK
<1>3. CASE NoAgentFound(j)
  BY <1>3 DEF NoAgentFound, TypeOK
<1>4. CASE StartWork(j)
  BY <1>4 DEF StartWork, TypeOK
<1>5. ASSUME NEW o \in Outcome, FinishWork(j, o)
      PROVE  /\ UNCHANGED <<schedVars, base>>
             /\ \A t \in Task : stage'[t] # "none" <=> stage[t] # "none"
  BY <1>5 DEF FinishWork, TypeOK
<1> QED BY <1>1, <1>2, <1>3, <1>4, <1>5 DEF JobStep

LEMMA TaskStep ==
  ASSUME DistinctIds, TypeOK, QuietInv, TaskInv(state), [Next]_vars
  PROVE  TaskInv(state)'
<1>1. ASSUME NEW p \in Plan, NEW s \in [Task -> TaskState], TaskInv(s), LoopHead(p, s),
             phase[p] # "done", \A j \in TasksOf(p) : stage[j] = "none",
             UNCHANGED <<attempts, review_loops>>
      PROVE  TaskInv(state)'
  BY <1>1, FinishPlanTasks, SpawnBatchTasks DEF LoopHead
<1>2. ASSUME NEW p \in Plan, StartPlan(p) PROVE TaskInv(state)'
  BY <1>1, <1>2 DEF StartPlan, QuietInv, TypeOK
<1>3. ASSUME NEW p \in Plan, NextBatch(p) PROVE TaskInv(state)'
  <2>1. TaskInv(Promoted(p, state)) /\ Promoted(p, state) \in [Task -> TaskState]
    BY <1>3, PromotedTasks, PromotedType DEF NextBatch, TypeOK
  <2> QED BY <1>1, <1>3, <2>1 DEF NextBatch
<1>4. ASSUME NEW j \in Task, JobStep(j) PROVE TaskInv(state)'
  BY <1>4, JobStepFrame, JobStepTasks
<1>5. CASE ApplySettings
  BY <1>5, JobStepTasks DEF ApplySettings, jobVars
<1>6. CASE UNCHANGED vars
  BY <1>6, JobStepTasks DEF vars, jobVars
<1> QED BY <1>2, <1>3, <1>4, <1>5, <1>6, JoinTasks DEF Next, Terminated

LEMMA TasksInvariant ==
  ASSUME DistinctIds
  PROVE  Spec => [](TypeOK /\ QuietInv /\ TaskInv(state))
<1>1. Init => TypeOK /\ QuietInv /\ TaskInv(state)
  BY TypeInit, SlotInit, TaskInit
<1>2. TypeOK /\ QuietInv /\ TaskInv(state) /\ [Next]_vars =>
        (TypeOK /\ QuietInv /\ TaskInv(state))'
  BY TypeStep, QuietStep, TaskStep
<1> QED BY <1>1, <1>2, PTL DEF Spec

(* No task is started before everything it depends on is accepted, and     *)
(* nothing that happens later takes the acceptance back.                   *)
THEOREM DependenciesAreRespected == ASSUME DistinctIds PROVE Spec => []DependencySafety
<1>1. TaskInv(state) => DependencySafety
  BY DEF TaskInv, DepsInv, DependencySafety
<1> QED BY <1>1, TasksInvariant, PTL

(* Rejections, errors and missing subagents together cost a task at most   *)
(* what the two retry settings allow.                                      *)
THEOREM AttemptsAreBounded == ASSUME DistinctIds PROVE Spec => []BoundedAttempts
<1>1. TypeOK /\ TaskInv(state) => BoundedAttempts
  BY PlanAssumption DEF TypeOK, TaskInv, BudgetInv, BoundedAttempts
<1> QED BY <1>1, TasksInvariant, PTL

(* The loop of a plan ends only when no task of it can ever run.           *)
THEOREM EndedPlansAreSettled == ASSUME DistinctIds PROVE Spec => []DoneMeansSettled
<1>1. TaskInv(state) => DoneMeansSettled
  BY DEF TaskInv, SettledInv, DoneMeansSettled
<1> QED BY <1>1, TasksInvariant, PTL

-----------------------------------------------------------------------------
(* The refinement of TaskBoard.                                            *)
Shown(s) == [t \in Task |-> StatusOf(s[t])]

LEMMA StatusCases ==
  /\ \A s \in {"Pending", "Ready", "Retrying"} : StatusOf(s) = "waiting"
  /\ StatusOf("Running") = "running"
  /\ \A s \in Verdicts : StatusOf(s) = "accepted"
  /\ StatusOf("Failed") = "failed"
BY DEF StatusOf, Verdicts

LEMMA BoardInit == Init => Board!Init
<1> SUFFICES ASSUME Init PROVE Board!Init
  OBVIOUS
<1>1. \A t \in Task : state[t] \in {"Pending", "Ready"} /\ review_loops[t] = 0
  BY DEF Init
<1>2. Shown(state) = [t \in Task |-> "waiting"]
  BY <1>1, StatusCases DEF Shown
<1>3. review_loops = [t \in Task |-> 0]
  BY DEF Init
<1> QED BY <1>2, <1>3 DEF Board!Init, Shown

(* A step that changes neither statuses nor review loops is a stutter.     *)
LEMMA BoardStutter ==
  ASSUME UNCHANGED review_loops, \A t \in Task : StatusOf(state'[t]) = StatusOf(state[t])
  PROVE  UNCHANGED Board!vars
BY DEF Board!vars

LEMMA BoardLoopHead ==
  ASSUME DistinctIds, TypeOK, NEW p \in Plan, NEW s \in [Task -> TaskState],
         TaskInv(s), LoopHead(p, s), phase[p] # "done",
         \A t \in Task : StatusOf(s[t]) = StatusOf(state[t]),
         UNCHANGED <<attempts, review_loops>>
  PROVE  [Board!Next]_(Board!vars)
<1>1. CASE FinishPlan(p, s)
  <2>1. \A t \in Task : \/ state'[t] = s[t]
                        \/ state'[t] = "Completed" /\ s[t] = "Accepted"
    BY <1>1 DEF FinishPlan
  <2>2. \A t \in Task : StatusOf(state'[t]) = StatusOf(state[t])
    BY <2>1, StatusCases DEF Verdicts
  <2> QED BY <2>2, BoardStutter
<1>2. CASE SpawnBatch(p, s)
  <2> DEFINE batch == ReadyTasks(p, s)
  <2>1. batch # {} /\ batch \in SUBSET Task
    BY <1>2 DEF SpawnBatch, ReadyTasks, TasksOf
  <2>2. \A t \in Task : state'[t] = IF t \in batch THEN "Running" ELSE s[t]
    BY <1>2, SpawnBatchTasks
  <2>3. ASSUME NEW t \in batch
        PROVE  /\ Shown(state)[t] = "waiting"
               /\ \A d \in NeedsOf[t] : Shown(state)[d] = "accepted"
    <3>1. t \in Task /\ s[t] \in {"Pending", "Ready", "Retrying"} /\ DepsAccepted(s, t)
      BY DEF ReadyTasks, TasksOf
    <3>2. StatusOf(s[t]) = "waiting"
      BY <3>1, StatusCases
    <3>3. ASSUME NEW d \in NeedsOf[t] PROVE d \in Task /\ StatusOf(s[d]) = "accepted"
      <4>1. d \in Task /\ IdOf[d] \in Deps[t]
        BY <3>1 DEF NeedsOf
      <4>2. s[d] \in Verdicts
        BY <3>1, <4>1, LookupExact DEF DepsAccepted, Verdicts
      <4> QED BY <4>1, <4>2, StatusCases
    <3> QED BY <3>1, <3>2, <3>3 DEF Shown
  <2>4. Shown(state') = [t \in Task |-> IF t \in batch THEN "running" ELSE Shown(state)[t]]
    BY <2>2, StatusCases DEF Shown
  <2>5. Board!Start(batch)
    BY <2>1, <2>3, <2>4 DEF Board!Start, Shown
  <2> QED BY <2>1, <2>5 DEF Board!Next
<1> QED BY <1>1, <1>2 DEF LoopHead

LEMMA BoardJoin ==
  ASSUME DistinctIds, TypeOK, NEW j \in Task, Join(j), TaskInv(state)
  PROVE  Board!Next
<1>1. Shown(state)[j] = "running"
  BY JoinVerdict, StatusCases DEF Shown
<1>2. Shown(state') = [Shown(state) EXCEPT ![j] = StatusOf(state'[j])]
  BY JoinVerdict DEF Shown
<1>3. review_loops' = [review_loops EXCEPT ![j] = review_loops'[j]]
  <2>1. review_loops \in [Task -> Nat] /\ review_loops' \in [Task -> Nat]
    <3>1. review_loops' \in [Task -> Nat]
      BY TargetType DEF Join, TypeOK, CountedLoop
    <3> QED BY <3>1 DEF TypeOK
  <2> QED BY <2>1, JoinVerdict
<1>4. CASE state'[j] = "Accepted"
  <2>1. review_loops' = review_loops
    BY <1>3, <1>4, JoinVerdict DEF TypeOK
  <2>2. Board!Accept(j)
    BY <1>1, <1>2, <1>4, <2>1, StatusCases DEF Board!Accept, Shown, Verdicts
  <2> QED BY <2>2 DEF Board!Next, Board!Verdict
<1>5. CASE state'[j] = "Retrying"
  <2>1. review_loops[j] < MaxReviewLoops /\ review_loops' = [review_loops EXCEPT ![j] = @ + 1]
    BY <1>3, <1>5, JoinVerdict
  <2>2. Board!Retry(j)
    BY <1>1, <1>2, <1>5, <2>1, StatusCases DEF Board!Retry, Shown
  <2> QED BY <2>2 DEF Board!Next, Board!Verdict
<1>6. CASE state'[j] = "Failed"
  <2>1. review_loops' = review_loops
    BY <1>3, <1>6, JoinVerdict DEF TypeOK
  <2>2. review_loops[j] >= MinOf(MaxRetries, MaxReviewLoops)
    <3>1. attempts'[j] > MaxRetries \/ review_loops[j] >= MaxReviewLoops
      BY <1>6, JoinVerdict
    <3>2. attempts'[j] \in {attempts[j], attempts[j] + 1} /\ attempts[j] <= review_loops[j]
      BY JoinVerdict DEF TaskInv, BudgetInv
    <3>3. attempts[j] \in Nat /\ review_loops[j] \in Nat
          /\ MaxRetries \in Nat /\ MaxReviewLoops \in Nat
      BY PlanAssumption DEF TypeOK
    <3> QED BY <3>1, <3>2, <3>3 DEF MinOf
  <2>3. Board!GiveUp(j)
    BY <1>1, <1>2, <1>6, <2>1, <2>2, StatusCases DEF Board!GiveUp, Shown
  <2> QED BY <2>3 DEF Board!Next, Board!Verdict
<1> QED BY <1>4, <1>5, <1>6, JoinVerdict

LEMMA BoardStep ==
  ASSUME DistinctIds, TypeOK, QuietInv, TaskInv(state), [Next]_vars
  PROVE  [Board!Next]_(Board!vars)
<1>1. ASSUME UNCHANGED schedVars PROVE [Board!Next]_(Board!vars)
  BY <1>1, BoardStutter DEF schedVars
<1>2. ASSUME NEW p \in Plan, StartPlan(p) PROVE [Board!Next]_(Board!vars)
  BY <1>2, BoardLoopHead DEF StartPlan, TypeOK
<1>3. ASSUME NEW p \in Plan, NextBatch(p) PROVE [Board!Next]_(Board!vars)
  <2>1. TaskInv(Promoted(p, state)) /\ Promoted(p, state) \in [Task -> TaskState]
    BY <1>3, PromotedTasks, PromotedType DEF NextBatch, TypeOK
  <2>2. \A t \in Task : StatusOf(Promoted(p, state)[t]) = StatusOf(state[t])
    <3>1. \A t \in Task : \/ Promoted(p, state)[t] = state[t]
                         \/ /\ Promoted(p, state)[t] = "Ready"
                            /\ state[t] \in {"Pending", "Retrying"}
      BY DEF Promoted
    <3> QED BY <3>1, StatusCases
  <2> QED BY <1>3, <2>1, <2>2, BoardLoopHead DEF NextBatch
<1>4. ASSUME NEW j \in Task, Join(j) PROVE [Board!Next]_(Board!vars)
  BY <1>4, BoardJoin
<1>5. ASSUME NEW j \in Task, JobStep(j) PROVE [Board!Next]_(Board!vars)
  BY <1>1, <1>5, JobStepFrame
<1> QED BY <1>1, <1>2, <1>3, <1>4, <1>5 DEF Next, ApplySettings, Terminated, vars

(* The tasks of concurrent plans behave as TaskBoard says, up to what is   *)
(* fair: schedulers, permits and subagents add no behaviour of their own.  *)
THEOREM BoardIsImplemented == ASSUME DistinctIds PROVE Spec => Board!SafeSpec
<1>1. TypeOK /\ QuietInv /\ TaskInv(state) /\ [Next]_vars => [Board!Next]_(Board!vars)
  BY BoardStep
<1> QED BY <1>1, BoardInit, TasksInvariant, PTL DEF Spec, Board!SafeSpec

=============================================================================
