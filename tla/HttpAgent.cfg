SPECIFICATION FairSpec
CONSTANTS
    m1 = m1
    m2 = m2
    s1 = s1
    s2 = s2
    Messages <- TwoMessages
    Odd <- OddRequest
    Calls <- BatchSizes
    Slots <- TwoSlots
    NoMessage = NoMessage
    MaxRuns = 2
INVARIANTS RepliesMatch NoGhostTask
PROPERTIES KeepsPromise RequestsSettle
CHECK_DEADLOCK FALSE
