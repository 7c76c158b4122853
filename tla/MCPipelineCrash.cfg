CONSTANTS
  i1 = i1
  i2 = i2
  p1 = p1
  p2 = p2
  Ids <- TwoIds
  PlanIds <- TwoPlans
  Workers = 2
  MaxCrashes = 1
  MaxDeletes = 1
  Failures = {"stage", "configsync", "lostreply", "delete"}
SPECIFICATION Spec
INVARIANTS RepoSyncHasOwner RepoSyncKept JobsAccounted CancelledUntouched
PROPERTY ImplementsDelivery
SYMMETRY Symmetry
