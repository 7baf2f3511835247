\* Two operations, a pipe of two events, two interrupts, one fault.
CONSTANTS
  MaxOperations = 2
  PipeCapacity = 2
  MaxInterrupts = 2
  MaxFaults = 1
SPECIFICATION FairSpec
INVARIANTS
  UserPartitionIsAlone
  InterruptLosesAtMostOne
  AtMostOneMoreCommand
PROPERTIES
  InterruptEnds
  HandoffEnds
\* The controller and its child end.
CHECK_DEADLOCK FALSE
