SPECIFICATION Spec
CONSTANTS
    m1 = m1
    m2 = m2
    s1 = s1
    s2 = s2
    Messages <- TwoMessages
    NoAttributes <- OddRequest
    Slots <- TwoSlots
    IdleTimeout = TRUE
    NoMessage = NoMessage
    MaxRuns = 2
SYMMETRY SlotSymmetry
INVARIANTS AckedIsPublished NoGhostTask NobodySendsAfterStop
PROPERTIES KeepsPromise
CHECK_DEADLOCK FALSE
