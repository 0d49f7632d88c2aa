SPECIFICATION FairSpec
CONSTANTS
    i1 = i1
    i2 = i2
    Items <- TwoItems
    WithSubscription = TRUE
INVARIANTS OutstandingIsExact
PROPERTIES IdleMeansAllReceived EndsWhenAnswered CancelledEnds
CHECK_DEADLOCK FALSE
