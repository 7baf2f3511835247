CONSTANTS
  Plan <- MCPlan
  SourcesOf <- MCSourcesOf
  Settings <- MCSettings
  Manual <- MCManual
  Hosts <- MCHosts
  MaxFaults = 2
SPECIFICATION FairSpec
INVARIANTS
  NothingIsDoomed
  RecordedIsInEffect
PROPERTIES
  PlanIsAppliedInTheEnd
\* The plan is applied.
CHECK_DEADLOCK FALSE
