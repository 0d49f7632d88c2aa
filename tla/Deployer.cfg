SPECIFICATION Spec
CONSTANTS
    e1 = e1
    e2 = e2
    v1 = v1
    v2 = v2
    Services <- TwoServices
    Examples <- OneExample
    Default = e1
    MaxRuns = 3
SYMMETRY ServiceSymmetry
INVARIANTS CompletedIsDone SuccessIsDeployed DestroyLeavesNothing FileIsMemory PushedIsWhole NeverStuck
PROPERTIES OutcomesAreRecorded IsOneRecord
CHECK_DEADLOCK FALSE
