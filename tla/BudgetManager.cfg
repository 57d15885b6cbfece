SPECIFICATION FairSpec
CONSTANTS
    N = 3
    MAX_REMOTE_BUDGET = 21
    MAX_CUMULATIVE_LATENCY_MS = 12
    RESERVATION_TTL_SECONDS = 1
    REAPER_INTERVAL_SECONDS = 2
    RESERVE_EPS = 0
    SETTLE_EPS = 1
    Offers <- MCOffers
    Actuals <- MCActuals
INVARIANTS
    TypeOK
    StateAgrees
    LedgerBalanced
    BudgetSafe
    LatencySafe
    RecoveredInTime
PROPERTIES
    SettledOnce
    ImplementsEscrow
    FundsComeBack
