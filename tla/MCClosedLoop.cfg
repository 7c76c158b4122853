SPECIFICATION FairSpec
CONSTANTS
    Order <- OneComponent
    max_replicas = 2
    Scales = {0, 1, 2, 4}
    OtherPods = 1
    MaxFaults = 2
INVARIANTS GuardRail CooldownHeld
PROPERTY OverloadAnswered
