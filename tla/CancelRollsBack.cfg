SPECIFICATION Spec
CONSTANTS
    N = 2
    MAX_REMOTE_BUDGET = 9
    MAX_CUMULATIVE_LATENCY_MS = 3
    RESERVATION_TTL_SECONDS = 1
    REAPER_INTERVAL_SECONDS = 1
    RESERVE_EPS = 0
    SETTLE_EPS = 0
    LOCAL_QUEUE_CAPACITY = 1
    COST_PER_REMOTE_REQUEST = 5
    TOKEN_THRESHOLD <- MCThreshold
    Asks <- MCTiers
    Slas <- MCSlas
    Estimates <- MCEstimates
    InitEstimate <- MCInitEstimate
    RemoteResults <- MCRemoteWithin
    LocalLatencies <- MCLocalLatencies
    LockMaySuspend = FALSE
    MayCancel = TRUE
INVARIANTS
    CancelRollsBack
