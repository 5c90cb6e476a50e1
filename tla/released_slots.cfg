SPECIFICATION Spec
CONSTANTS
  p1 = p1
  p2 = p2
  researcher = researcher
  integrator = integrator
  Roles = {researcher, integrator}
  NoRole = NoRole
  NoTask = NoTask
  TaskId = {"a", "b", "c", "integrate", "integrate2"}
  IntegrateId = {"integrate", "integrate2"}
  Plan = {p1}
  Task = {1, 2, 3}
  Burst = {}
  PlanOf <- ForkPlanOf
  IdOf <- ForkIdOf
  Deps <- ForkDeps
  RoleOf <- ForkRoleOf
  InitialSettings <- Fixed
  Settings <- Changing
  MaxTeamSize = 2
  MaxSpawns = 6
  MaxApplies = 0
  MaxRetries = 1
  MaxReviewLoops = 1
  MaxRuns = 3
CHECK_DEADLOCK TRUE
INVARIANTS
  ReleasedSlotsAreUsable
