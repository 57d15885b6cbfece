SPECIFICATION FairSpec
CONSTANTS
    N = 3
    MAX_REMOTE_BUDGET = 9
    MAX_CUMULATIVE_LATENCY_MS = 6
    RESERVATION_TTL_SECONDS = 0
    REAPER_INTERVAL_SECONDS = 1
    RESERVE_EPS = 0
    SETTLE_EPS = 0
    LOCAL_QUEUE_CAPACITY = 1
    COST_PER_REMOTE_REQUEST = 5
    TOKEN_THRESHOLD <- MCThreshold
    Asks <- MCAsks
    Slas <- MCSlas
    Estimates <- MCEstimates
    InitEstimate <- MCInitEstimate
    RemoteResults <- MCRemoteResults
    LocalLatencies <- MCLocalLatencies
    LockMaySuspend = FALSE
    MayCancel = TRUE
INVARIANTS
    NoCapacityRace
    NoPathLeft
    TierSteers
PROPERTIES
    Answered
