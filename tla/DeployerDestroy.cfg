SPECIFICATION Spec
CONSTANTS
    e1 = e1
    e2 = e2
    v1 = v1
    v2 = v2
    Services <- OneService
    Examples <- OneExample
    Default = e1
    MaxRuns = 2
INVARIANTS DestroyedIsGone
CHECK_DEADLOCK FALSE
