\* Two faults and one preview or repetition per behaviour; real runs are tried
\* as often as it takes.
CONSTANTS
  Plan <- MCPlan
  NoState = NoState
  MaxFaults = 2
  MaxExtras = 1
SPECIFICATION FairSpec
INVARIANTS
  InstallsOnlyMissing
  JournalIsTrue
  SuccessIsComplete
PROPERTIES
  ImplementsJournal
  InstallationCompletes
\* The user has no command left once the installation is complete.
CHECK_DEADLOCK FALSE
