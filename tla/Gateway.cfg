SPECIFICATION Spec
CONSTANTS
    N = 3
    MAX_REMOTE_BUDGET = 9
    MAX_CUMULATIVE_LATENCY_MS = 4
    RESERVATION_TTL_SECONDS = 0
    REAPER_INTERVAL_SECONDS = 1
    RESERVE_EPS = 0
    SETTLE_EPS = 0
    LOCAL_QUEUE_CAPACITY = 1
    COST_PER_REMOTE_REQUEST = 5
    TOKEN_THRESHOLD <- MCThreshold
    Asks <- MCTiers
    Slas <- MCWideSla
    Estimates <- MCEstimates
    InitEstimate <- MCInitEstimate
    RemoteResults <- MCRemoteResults
    LocalLatencies <- MCLocalLatencies
    LockMaySuspend = TRUE
    MayCancel = TRUE
INVARIANTS
    TypeOK
    SlotsMatch
    NoOrphan
    ChargedIffAnswered
    AnswersMatchLedger
    LedgerSafe
PROPERTIES
    ImplementsContract
