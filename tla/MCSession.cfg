\* Every fault the code can meet, two per behaviour, and the flags; one command
\* more than faults is enough to complete.
CONSTANTS
  Plan <- MCPlan
  Manual = {6}
  NoState = NoState
  Faults <- MCAllFaults
  MaxFaults = 2
  PipeCapacity = 2
  MaxExtras = 1
  Modes <- MCRealAndDry
SPECIFICATION PersistentSpec
INVARIANTS
  EventsContinueState
  DependenciesPresent
  ElevatedRecordedFirst
  JournalIsTrue
  SuccessIsComplete
  RecordedWorkIsNotRepeated
PROPERTIES
  EveryCommandEnds
  InstallationCompletes
  ImplementsJournal
  RecordedWorkIsKept
\* The user may stop giving commands.
CHECK_DEADLOCK FALSE
