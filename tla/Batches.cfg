SPECIFICATION FairBatchSpec
CONSTANTS
    Workers = 3
    MaxItems = 5
    Chunks = 2
INVARIANTS PoolIsBounded NothingLeftBehind NoErrorLost FirstErrorWins FewStartsAfterFailure SuccessIsComplete StatisticsExact
PROPERTIES CommandEnds
CHECK_DEADLOCK FALSE
