\* Two operations, up to four journal lines, crashes and failures anywhere.
CONSTANTS
  Ops = {o1, o2}
  NoState = NoState
  MaxLines = 4
SPECIFICATION MCSpec
INVARIANTS
  SequencesIncrease
  SnapshotLagsByOne
  SnapshotRecorded
PROPERTIES
  InterruptedIsFrozen
