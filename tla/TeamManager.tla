---------------------------- MODULE TeamManager ----------------------------
(***************************************************************************)
(* The subagent pool of src/src/team/manager.rs: one vector of subagents   *)
(* behind a write lock, shared by every plan that is executing.  Every     *)
(* operation below is one critical section of that lock, so it is atomic;  *)
(* apply_runtime_settings takes the config lock and the pool lock one      *)
(* after the other and is therefore two actions.                           *)
(*                                                                         *)
(* Subagent "subagent-i" is the number i in Persistent; "ephemeral-n" is   *)
(* the number MaxTeamSize + n.  The numeric order is the order in which    *)
(* Vec::iter().find() meets the persistent subagents as long as there are  *)
(* at most nine: the pool is sorted by id, and "subagent-10" would come    *)
(* before "subagent-2".                                                    *)
(***************************************************************************)
EXTENDS Integers, FiniteSets

CONSTANTS
  Roles,            \* names of roles
  NoRole,           \* a task without a preferred role
  TaskId,           \* what current_task_id may hold
  NoTask,           \* current_task_id = None
  Settings,         \* the TeamRuntimeSettings an operator may submit
  InitialSettings,  \* the settings at start
  MaxTeamSize,      \* bound: largest team_size in Settings
  MaxSpawns,        \* bound: ephemeral subagents ever created
  MaxApplies        \* bound: calls of apply_runtime_settings

Persistent == 1..MaxTeamSize
Ephemeral  == (MaxTeamSize + 1)..(MaxTeamSize + MaxSpawns)
AgentId    == Persistent \cup Ephemeral

AgentState == {"Absent", "Idle", "Assigned", "Running", "Failed"}

Subagent == [role : Roles \cup {NoRole},
             state : AgentState,
             task : TaskId \cup {NoTask}]

(* "roles" is the expansion target_roles[i] = roleset[i % roleset.len()]   *)
(* of the configured role set over the slots.                              *)
TeamRuntimeSettings ==
  [team_size : Persistent,
   max_parallel_tasks : Nat,
   allow_ephemeral_subagents : BOOLEAN,
   max_ephemeral_subagents : Nat,
   roles : [Persistent -> Roles]]

ASSUME TeamAssumption ==
  /\ MaxTeamSize \in 1..9
  /\ MaxSpawns \in Nat
  /\ MaxApplies \in Nat
  /\ NoRole \notin Roles
  /\ NoTask \notin TaskId
  /\ Settings \subseteq TeamRuntimeSettings
  /\ InitialSettings \in Settings

VARIABLES
  settings,           \* the config lock's content
  subagents,          \* the pool
  next_ephemeral_id,  \* AtomicUsize handing out ephemeral ids
  applies,            \* calls of apply_runtime_settings so far
  applying            \* calls that have written the config and not the pool

teamVars == <<settings, subagents, next_ephemeral_id, applies, applying>>

-----------------------------------------------------------------------------
NoAgent == [role |-> NoRole, state |-> "Absent", task |-> NoTask]
IdleAgent(r) == [role |-> r, state |-> "Idle", task |-> NoTask]

Present(a) == subagents[a].state # "Absent"
Busy(a) == subagents[a].state \in {"Assigned", "Running"}

LiveEphemerals == {a \in Ephemeral : Present(a)}
PersistentAgents == {a \in Persistent : Present(a)}

(* TeamConfig::validate, the conditions on the fields modelled here.       *)
Valid(s) ==
  /\ s.max_parallel_tasks >= 1
  /\ s.max_parallel_tasks <=
       s.team_size + (IF s.allow_ephemeral_subagents
                      THEN s.max_ephemeral_subagents ELSE 0)

(* What the resource monitor lets effective_ephemeral_capacity return: the *)
(* snapshot is refreshed in the background from CPU and memory readings,   *)
(* and the configured cap is the only bound the code guarantees.           *)
EphemeralCapacity == 0..settings.max_ephemeral_subagents

-----------------------------------------------------------------------------
TeamInit ==
  /\ settings = InitialSettings
  /\ Valid(InitialSettings)
  /\ subagents = [a \in AgentId |->
                    IF a <= InitialSettings.team_size
                    THEN IdleAgent(InitialSettings.roles[a])
                    ELSE NoAgent]
  /\ next_ephemeral_id = 1
  /\ applies = 0
  /\ applying = 0

IdleFor(role) ==
  {a \in AgentId : /\ subagents[a].state = "Idle"
                   /\ role \in {NoRole, subagents[a].role}}

(* Mutant: the subagent found is not marked.                               *)
AcquireIdleUnmarked(id, role, a) ==
  /\ a \in IdleFor(role)
  /\ \A b \in IdleFor(role) : a <= b
  /\ subagents' = [subagents EXCEPT ![a] = [@ EXCEPT !.task = id]]
  /\ UNCHANGED <<settings, next_ephemeral_id, applies, applying>>

(* acquire_for_task finds an idle subagent: the first in the vector.       *)
AcquireIdle(id, role, a) ==
  /\ a \in IdleFor(role)
  /\ \A b \in IdleFor(role) : a <= b
  /\ subagents' = [subagents EXCEPT ![a] =
                     [@ EXCEPT !.state = "Assigned", !.task = id]]
  /\ UNCHANGED <<settings, next_ephemeral_id, applies, applying>>

(* acquire_for_task spawns an ephemeral one.                               *)
AcquireEphemeral(id, role, a) ==
  /\ IdleFor(role) = {}
  /\ settings.allow_ephemeral_subagents
  /\ \E cap \in EphemeralCapacity : Cardinality(LiveEphemerals) < cap
  /\ next_ephemeral_id <= MaxSpawns
  /\ a = MaxTeamSize + next_ephemeral_id
  /\ next_ephemeral_id' = next_ephemeral_id + 1
  /\ subagents' = [subagents EXCEPT ![a] =
                     [role |-> IF role = NoRole THEN settings.roles[1] ELSE role,
                      state |-> "Assigned",
                      task |-> id]]
  /\ UNCHANGED <<settings, applies, applying>>

(* acquire_for_task returns None.                                          *)
AcquireNone(role) ==
  /\ IdleFor(role) = {}
  /\ settings.allow_ephemeral_subagents =>
       \E cap \in EphemeralCapacity : Cardinality(LiveEphemerals) >= cap
  /\ UNCHANGED teamVars

MarkRunning(a) ==
  /\ subagents' = [subagents EXCEPT ![a] = [@ EXCEPT !.state = "Running"]]
  /\ UNCHANGED <<settings, next_ephemeral_id, applies, applying>>

(* Mutant: the error path returns before the slot is given back.           *)
ReleaseUnlessFailed(a, failed) ==
  /\ subagents' = [subagents EXCEPT ![a] =
                     IF failed THEN @
                     ELSE IF a \in Ephemeral THEN NoAgent
                     ELSE [@ EXCEPT !.state = "Idle", !.task = NoTask]]
  /\ UNCHANGED <<settings, next_ephemeral_id, applies, applying>>

(* release: an ephemeral subagent is removed; a persistent one becomes     *)
(* Failed when the caller passes an error or review notes, Idle otherwise. *)
Release(a, failed) ==
  /\ subagents' = [subagents EXCEPT ![a] =
                     IF a \in Ephemeral THEN NoAgent
                     ELSE [@ EXCEPT !.state = IF failed THEN "Failed" ELSE "Idle",
                                    !.task = NoTask]]
  /\ UNCHANGED <<settings, next_ephemeral_id, applies, applying>>

-----------------------------------------------------------------------------
(* apply_runtime_settings, first half: validate, persist, write the config.*)
WriteSettings(next) ==
  /\ applies < MaxApplies
  /\ Valid(next)
  /\ settings' = next
  /\ applies' = applies + 1
  /\ applying' = applying + 1
  /\ UNCHANGED <<subagents, next_ephemeral_id>>

(* Mutant: a busy subagent is given its new role at once.                  *)
ReconciledWhileBusy(a) ==
  CASE a \in Ephemeral -> subagents[a]
    [] a \in Persistent /\ a > settings.team_size ->
         IF subagents[a].task = NoTask THEN NoAgent ELSE subagents[a]
    [] a \in Persistent /\ a <= settings.team_size ->
         IF Present(a) THEN [subagents[a] EXCEPT !.role = settings.roles[a]]
         ELSE IdleAgent(settings.roles[a])

(* Mutant: the last slot is dropped.                                       *)
ReconciledOneShort(a) ==
  CASE a \in Ephemeral \/ subagents[a].task # NoTask -> subagents[a]
    [] a \in Persistent /\ subagents[a].task = NoTask ->
         IF a >= settings.team_size THEN NoAgent
         ELSE IF Present(a)
              THEN [subagents[a] EXCEPT !.role = settings.roles[a]]
              ELSE IdleAgent(settings.roles[a])

(* reconcile_persistent_pool: a subagent with a task is left alone, and so *)
(* is the state of an idle or failed one.                                  *)
Reconciled(a) ==
  CASE a \in Ephemeral \/ subagents[a].task # NoTask -> subagents[a]
    [] a \in Persistent /\ subagents[a].task = NoTask ->
         IF a > settings.team_size THEN NoAgent
         ELSE IF Present(a)
              THEN [subagents[a] EXCEPT !.role = settings.roles[a]]
              ELSE IdleAgent(settings.roles[a])

(* apply_runtime_settings, second half: reconcile_persistent_pool reads    *)
(* the config again, so it applies whatever was written last.              *)
ReconcilePool ==
  /\ applying > 0
  /\ applying' = applying - 1
  /\ subagents' = [a \in AgentId |-> Reconciled(a)]
  /\ UNCHANGED <<settings, next_ephemeral_id, applies>>

TeamTypeOK ==
  /\ settings \in Settings
  /\ subagents \in [AgentId -> Subagent]
  /\ next_ephemeral_id \in 1..(MaxSpawns + 1)
  /\ applies \in 0..MaxApplies
  /\ applying \in 0..applies
=============================================================================
