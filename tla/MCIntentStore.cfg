CONSTANTS
  MaxIntents = 2
  SnapshotInterval = 2
  MaxRestarts = 2
  MaxTransitions = 5
  MaxLog = 9
  Faults <- ToleratedFaults
SPECIFICATION Spec
INVARIANTS Durable FreshIds
PROPERTIES ImplementsLifecycle
CHECK_DEADLOCK FALSE
CONSTRAINTS FewTransitions ShortLog
