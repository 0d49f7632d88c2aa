SPECIFICATION FairSpec
CONSTANTS
    c1 = c1
    c2 = c2
    c3 = c3
    i1 = i1
    i2 = i2
    Calls <- ThreeCalls
    InitIds <- TwoInits
    NoInit = NoInit
    Unset = Unset
    MaxWorkers = 2
    MaxArrivals = 5
INVARIANTS SlotsAreExact NoLostWakeup InitBeforeTask
PROPERTIES InitIsNotRepeated CallsReturn
CHECK_DEADLOCK FALSE
