SPECIFICATION FairSpec
CONSTANT MaxFaults = 3
INVARIANTS CommittedMeansPushed GuardedByFinalizer CommitsAtMostOnce
PROPERTIES ConditionsKept EventuallySettled
CHECK_DEADLOCK FALSE
