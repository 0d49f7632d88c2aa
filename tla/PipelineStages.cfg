SPECIFICATION Spec
CONSTANTS
    dev = dev
    nonprod = nonprod
    prod = prod
    Targets <- ThreeTargets
    Stages <- ThreeStages
    RetryGetBuild = 1
    MaxBuildRetry = 2
    MaxErrorRetries = 2
    MaxRollouts = 1
INVARIANTS StagesInOrder
CHECK_DEADLOCK FALSE
