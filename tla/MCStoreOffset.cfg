CONSTANTS
  MaxIntents = 2
  SnapshotInterval = 2
  MaxRestarts = 2
  MaxTransitions = 5
  MaxLog = 9
  Faults = {"offset"}
SPECIFICATION Spec
INVARIANT Durable
CONSTRAINTS FewTransitions ShortLog
CHECK_DEADLOCK FALSE
