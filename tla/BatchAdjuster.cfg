SPECIFICATION Spec
CONSTANTS
    CfgWindowSize = 2
    CfgConsecutive = 2
    CfgRate = 67
    Word = 16
    InitSize = 0
    MinSize = 2
    MaxSize = 5
    AdjustStep = 2
    BufferSize = 2
    FastThreshold = 2
    SlowThreshold = 2
    CfgBatchSize = 7
    Workers = {1, 2}
    RespTimes = {1, 3}
    Kinds = {"slide", "fixed"}
INVARIANTS TypeOK BatchSizeInBounds SumExact
