SPECIFICATION Spec
CONSTANTS
    CfgWindowSize = 2
    CfgConsecutive = 2
    CfgRate = 67
    Word = 16
    InitSize = 2
    MinSize = 1
    MaxSize = 3
    AdjustStep = 3
    BufferSize = 2
    FastThreshold = 2
    SlowThreshold = 2
    CfgBatchSize = 2
    Workers = {1, 2}
    RespTimes = {1, 3}
    Kinds = {"slide"}
INVARIANTS BatchSizeInBounds
