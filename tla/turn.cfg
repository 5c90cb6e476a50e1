\* Twenty-three messages, eight contracts, plans of at most four tasks, one storage
\* failure, one retry of a skill.
SPECIFICATION FairSpec
CONSTANTS
  Texts <- MCTexts
  Decisions <- MCDecisions
  Skill = {"a", "denied"}
  Permissions <- MCPermissions
  CoingeckoAllowed = TRUE
  BasePolicy = "BalancedFast"
  Aggressiveness = 50
  MaxSteps = 2
  MaxToolCalls = 1
  MaxCost = 1
  Goals <- MCGoals
  Contracts <- MCContracts
  PlanMaxTasks = 4
  PlanMaxDepth = 2
  Roles <- MCRoles
  Override <- MCOverride
  MaxRetries = 1
  MaxFaults = 1
CHECK_DEADLOCK TRUE
INVARIANTS
  CurrentAnswersHaveSources
  CompletedPlansAreWritten
  PlansAreBounded
  SoundPlansRun
  EffectsAreBounded
PROPERTIES
  MeetsContract
