SPECIFICATION FairSpec
CONSTANTS
    Callers = {c1, c2}
    None = None
    RetryCount = 1
    Phases = {"GitOpsCommit", "Completed"}
    Foreign = {"Deploying"}
    MaxFaults = 1
INVARIANTS UpdatesExclude QueueIsWaiting 
PROPERTIES CallsReturn
