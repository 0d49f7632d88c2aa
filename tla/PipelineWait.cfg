SPECIFICATION FairSpec
CONSTANTS
    dev = dev
    nonprod = nonprod
    prod = prod
    Targets <- ThreeTargets
    Stages <- ThreeStages
    RetryGetBuild = 1
    MaxBuildRetry = 2
    MaxErrorRetries = 2
    MaxRollouts = 1
INVARIANTS OkIsRolledOut
PROPERTIES PromotedAfterSuccess NoBuildBesidesOwn WaitEnds
CHECK_DEADLOCK FALSE
