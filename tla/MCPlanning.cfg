\* Every document, target and request of MCPlanning.
CONSTANTS
  Documents <- MCDocuments
  Targets <- MCTargets
  Catalogs <- MCCatalogs
  Inputs <- MCInputs
  NoProvider = NoProvider
  NoPlan = NoPlan
  Refused = Refused
SPECIFICATION PlanningSpec
INVARIANTS
  LoadIsJust
  OrderRespectsDependencies
  BuildIsJust
  PlanIsExecutable
  InstallsWaitForSources
  RepositoriesServeTarget
  PlansSuitExecutors
  EnginesAgree
  BuiltIsCanonical
PROPERTIES
  PlanningEnds
\* Planning is over when the files are refused or the plan is judged.
CHECK_DEADLOCK FALSE
