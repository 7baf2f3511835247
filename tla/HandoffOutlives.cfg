\* One operation, one Ctrl+C, no fault.
CONSTANTS
  MaxOperations = 1
  PipeCapacity = 2
  MaxInterrupts = 1
  MaxFaults = 0
SPECIFICATION FairSpec
PROPERTIES
  ManagerDoesNotOutlive
\* The controller and its child end.
CHECK_DEADLOCK FALSE
