CONSTANTS
  i1 = i1
  i2 = i2
  p1 = p1
  p2 = p2
  Ids <- TwoIds
  PlanIds <- OnePlan
  Workers = 1
  MaxCrashes = 0
  MaxDeletes = 0
  Failures = {"stage", "porch", "configsync", "append"}
SPECIFICATION FairSpec
INVARIANT CompliantMeansDelivered
PROPERTY EveryIntentEnds
