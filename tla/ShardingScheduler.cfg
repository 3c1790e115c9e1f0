SPECIFICATION FairSpec
CONSTANTS
    CfgWindowSize = 3
    CfgConsecutive = 2
    CfgRate = 67
    Word = 16
    InitSize = 0
    MinSize = 1
    MaxSize = 3
    AdjustStep = 1
    BufferSize = 2
    FastThreshold = 2
    SlowThreshold = 2
    CfgBatchSize = 2
    Workers = {1, 2}
    RespTimes = {1}
    Kinds = {"slide"}
INVARIANTS ThresholdExact
PROPERTIES RingIsWindow CancelReturns
