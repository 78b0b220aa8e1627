SPECIFICATION Spec
CONSTANTS
    WBaseline = 2
    WBurstTarget = 8
    WBurstAbsMax = 10
    CleanBurstsToRecover = 4
    BlockMin = 10
    BlockSoftTarget = 13
    BlockSoftMax = 16
    BlockShrinkStep = 4
    CleanTxStreakForGrowth = 3
    MinTimeout = 6
    MaxTimeout = 20
    Fastest = 4
    Slowest = 12
INVARIANTS
    BacksOff
    TimeoutCoversRtt
