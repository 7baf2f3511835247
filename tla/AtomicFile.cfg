\* The four writers; any call fails, crashes and power failures.
CONSTANTS
  Writers = {"apt", "state", "plan", "release"}
  Faults = {"create", "write", "flush", "rename", "remove", "download", "crash", "power"}
  MaxAttempts = 3
SPECIFICATION Spec
INVARIANTS
  KeptUnlessMishandled
  WrittenUnlessWriteFails
  ErrorIsHarmless
\* The installation is not resumed for ever.
CHECK_DEADLOCK FALSE
