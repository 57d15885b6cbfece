SPECIFICATION Spec
CONSTANTS
    ALPHA_NUM = 1
    ALPHA_DEN = 4
    LATENCY_WINDOW_SIZE = 2
    MaxRecords = 4
    Seed <- MCSeed
    Samples <- MCSamples
INVARIANTS
    EmaIsWeightedMean
    SpikeWindow
