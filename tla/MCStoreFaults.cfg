CONSTANTS
  MaxIntents = 2
  SnapshotInterval = 2
  MaxRestarts = 2
  MaxTransitions = 3
  MaxLog = 4
  Faults = {"snapshot", "truncate", "offset", "torn", "append"}
SPECIFICATION Spec
INVARIANT OrderlyHistories
PROPERTIES ServedStepsLegal
CONSTRAINTS FewTransitions ShortLog
CHECK_DEADLOCK FALSE
