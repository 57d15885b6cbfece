SPECIFICATION Spec
CONSTANTS
    Req = {r1, r2, r3}
    Burst = {r1, r2}
    Reset = TRUE
    DEFAULT_BUDGET = 0
    DEFAULT_LATENCY = 1
    MaxGen = 1
    MAX_REMOTE_BUDGET = 1
    COST_PER_REMOTE_REQUEST = 1
    LOCAL_QUEUE_CAPACITY = 1
    MAX_CUMULATIVE_LATENCY_MS = 2
    PROJECTED_LATENCY = 1
    Latencies = {2}
CHECK_DEADLOCK FALSE
INVARIANTS
    TypeOK
    GenerationsIsolated
    OneReaper
PROPERTIES
    HonestVerdict
    NoFalseAlarm
    AbandonedRecovered
    RunEnds
