\* Chmod or Write fails in the adapter.
CONSTANTS
  Writers = {"apt"}
  Faults = {"write"}
  MaxAttempts = 1
SPECIFICATION Spec
INVARIANTS
  SuccessIsWritten
CHECK_DEADLOCK FALSE
