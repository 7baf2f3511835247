\* The controller dies between detection and installation.
CONSTANTS
  Plan <- MCPlan
  Manual = {6}
  NoState = NoState
  Faults <- MCCrash
  MaxFaults = 1
  PipeCapacity = 2
  MaxExtras = 0
  Modes <- MCReal
SPECIFICATION Spec
INVARIANTS
  DetectedIsNotInstalled
\* The user may stop giving commands.
CHECK_DEADLOCK FALSE
