\* Two processes that crash and are started again.
SPECIFICATION FairSpec
CONSTANTS
    Worker = {w1, w2}
    Request = {r1, r2}
    Intent = {a}
    None = None
    MaxTransactions = 2
    MaxCrashes = 2
    RestoreMayFail = FALSE
    TornAppends = FALSE
    UnlockedWrites = FALSE
PROPERTIES
    PreparedTerminates
CHECK_DEADLOCK FALSE
