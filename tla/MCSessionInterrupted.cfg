\* The controller dies between AppendEvent and SaveState.
CONSTANTS
  Plan <- MCPlan
  Manual = {6}
  NoState = NoState
  Faults <- MCUnsaved
  MaxFaults = 1
  PipeCapacity = 2
  MaxExtras = 0
  Modes <- MCReal
SPECIFICATION Spec
INVARIANTS
  JournalIsResumable
\* The user may stop giving commands.
CHECK_DEADLOCK FALSE
