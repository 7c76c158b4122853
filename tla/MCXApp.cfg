CONSTANTS
  s1 = s1
  t1 = t1
  d1 = d1
  None = None
  ScalingIds <- OneScaling
  TsIds <- OneTs
  Deployments <- OneTarget
  Replicas = {1, 2}
  Thresholds = {100, 101}
  Failures = {"a1", "k8s", "redis", "expire", "restart"}
SPECIFICATION XAppFairSpec
PROPERTIES EnforcedIsScaled ScalingConverges CacheEvicted
