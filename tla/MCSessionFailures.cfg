\* A detection fails once and the installation is resumed.
CONSTANTS
  Plan <- MCPlan
  Manual = {6}
  NoState = NoState
  Faults <- MCOperationFails
  MaxFaults = 1
  PipeCapacity = 2
  MaxExtras = 0
  Modes <- MCReal
SPECIFICATION Spec
INVARIANTS
  CompletedHasNoFailures
\* The user may stop giving commands.
CHECK_DEADLOCK FALSE
