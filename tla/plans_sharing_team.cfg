SPECIFICATION FairSpec
CONSTANTS
  p1 = p1
  p2 = p2
  researcher = researcher
  integrator = integrator
  Roles = {researcher, integrator}
  NoRole = NoRole
  NoTask = NoTask
  TaskId = {"a", "b", "c", "integrate", "integrate2"}
  IntegrateId = {"integrate", "integrate2"}
  Plan = {p1, p2}
  Task = {1, 2, 3, 4}
  Burst = {}
  PlanOf <- PairPlanOf
  IdOf <- PairIdOf
  Deps <- PairDeps
  RoleOf <- PairRoleOf
  InitialSettings <- Elastic
  Settings <- JustElastic
  MaxTeamSize = 2
  MaxSpawns = 8
  MaxApplies = 0
  MaxRetries = 1
  MaxReviewLoops = 1
  MaxRuns = 3
CHECK_DEADLOCK TRUE
INVARIANTS
  SlotExclusivity
  NoSlotLeak
PROPERTIES
  PlansTerminate
